-------------------------- MODULE CoinsViewsProofs --------------------------
(***************************************************************************)
(* The stack of coin caches, with its DIRTY and FRESH flags, implements    *)
(* the plain sets of unspent outputs of UtxoSet, for any transactions,     *)
(* number and size of blocks, reorganizations, crashes and failed writes.  *)
(* As no cache ever reads the database, pcoinsTip is a cache over nothing. *)
(***************************************************************************)
EXTENDS CoinsViews, SequenceTheorems, TLAPS

\* The coins that ever occur: with no output left, they are NoCoins.
GoodCoins == {c \in Coins : c.outs = {} => c = NoCoins}

\* What is read through a cache over a parent that holds the coins p.
ReadThrough(cache, p) == [t \in Txs |-> IF t \in DOMAIN cache THEN cache[t].coins ELSE p[t]]

\* A cache over p: the flags say the truth.
SoundOver(cache, p) ==
    /\ DOMAIN cache \subseteq Txs
    /\ cache \in [DOMAIN cache -> [coins : GoodCoins, dirty : BOOLEAN, fresh : BOOLEAN]]
    /\ \A t \in DOMAIN cache :
          /\ ~cache[t].dirty => cache[t].coins = p[t]
          /\ cache[t].fresh => IsPruned(p[t])

TipUtxo == ReadThrough(tip, NoUtxo)

CoinsInv ==
    /\ diskCoins \in [Txs -> GoodCoins]
    /\ SoundOver(tip, NoUtxo)
    /\ SoundOver(view, TipUtxo)

\* pcoinsTip has only unspent coins, all of them FRESH, and a view's entry of a
\* transaction that pcoinsTip does not know is FRESH: no spent coin is ever left
\* to be erased from the database.
FreshInv ==
    /\ \A t \in DOMAIN tip : tip[t].fresh /\ ~IsPruned(tip[t].coins)
    /\ \A t \in DOMAIN view \ DOMAIN tip : view[t].fresh

\* No block is in hand while the state is written, and a block that is being
\* connected has room below the bound.
ControlInv ==
    /\ phase \in {"idle", "writing", "aborting"} => view = Empty
    /\ phase = "connect" => Len(tipBest) < MaxHeight

\* The types of what the coins do not determine.
ControlTypeOK ==
    /\ diskBest \in Seq(Blocks) /\ tipBest \in Seq(Blocks)
    /\ trie \in Seq(Blocks) /\ trieDisk \in Seq(Blocks)
    /\ phase \in {"idle", "connect", "disconnect", "unclean", "writing", "aborting"}
    /\ block \in Blocks

ViewsInv == CoinsInv /\ FreshInv /\ ControlInv /\ ControlTypeOK

-----------------------------------------------------------------------------
(* The operators on one cache.                                              *)

\* No coins at all are good coins; so are those of a new transaction.
LEMMA FreshCoinsGood ==
  /\ NoCoins \in GoodCoins
  /\ \A t \in Txs, h \in Heights : FromTx(t, h) \in GoodCoins
  /\ NoUtxo \in [Txs -> GoodCoins]
BY TransactionsAssumption DEF NoCoins, GoodCoins, Coins, Heights, FromTx, NoUtxo

\* Spending an output that is there leaves good coins.
LEMMA SpendGood ==
  ASSUME NEW c \in GoodCoins, NEW n \in c.outs
  PROVE  Spend(c, n) \in GoodCoins
<1>1. CASE c.outs = {n}
  BY <1>1, FreshCoinsGood DEF Spend
<1>2. CASE c.outs # {n}
  <2>1. c.outs \ {n} # {}
    BY <1>2
  <2> QED BY <1>2, <2>1 DEF Spend, GoodCoins, Coins
<1> QED BY <1>1, <1>2

\* TipGet and Get read through the caches.
LEMMA ReadsThrough ==
  ASSUME NEW t \in Txs
  PROVE  /\ TipGet(t) = TipUtxo[t]
         /\ \A v : Get(v, t) = ReadThrough(v, TipUtxo)[t]
BY DEF BaseGet, TipGet, TipUtxo, ReadThrough, Get, NoUtxo

\* A read through a sound cache returns good coins.
LEMMA ReadGood ==
  ASSUME NEW p \in [Txs -> GoodCoins], NEW cache, SoundOver(cache, p)
  PROVE  ReadThrough(cache, p) \in [Txs -> GoodCoins]
BY DEF ReadThrough, SoundOver

EntryValues == [coins : GoodCoins, dirty : BOOLEAN, fresh : BOOLEAN]

\* Setting one entry.
LEMMA WithSound ==
  ASSUME NEW p \in [Txs -> GoodCoins], NEW cache, SoundOver(cache, p),
         NEW t \in Txs, NEW e \in EntryValues,
         ~e.dirty => e.coins = p[t], e.fresh => IsPruned(p[t])
  PROVE  /\ SoundOver(With(cache, t, e), p)
         /\ ReadThrough(With(cache, t, e), p) = [ReadThrough(cache, p) EXCEPT ![t] = e.coins]
<1> DEFINE w == With(cache, t, e)
<1>1. /\ DOMAIN w = DOMAIN cache \cup {t}
      /\ w[t] = e
      /\ \A u \in DOMAIN cache : u # t => w[u] = cache[u]
      /\ w = [u \in DOMAIN w |-> w[u]]
  BY DEF With
<1>2. SoundOver(w, p)
  <2>1. \A u \in DOMAIN w : w[u] \in EntryValues
    BY <1>1 DEF SoundOver, EntryValues
  <2>2. \A u \in DOMAIN w : (~w[u].dirty => w[u].coins = p[u]) /\ (w[u].fresh => IsPruned(p[u]))
    BY <1>1 DEF SoundOver
  <2> QED BY <1>1, <2>1, <2>2 DEF SoundOver, EntryValues
<1>3. ReadThrough(w, p) = [ReadThrough(cache, p) EXCEPT ![t] = e.coins]
  <2>1. ASSUME NEW u \in Txs
        PROVE  (IF u \in DOMAIN w THEN w[u].coins ELSE p[u])
                 = (IF u = t THEN e.coins ELSE IF u \in DOMAIN cache THEN cache[u].coins ELSE p[u])
    BY <1>1
  <2> HIDE DEF w
  <2> QED BY <2>1 DEF ReadThrough
<1> QED BY <1>2, <1>3

\* Dropping an entry that says what the parent says.
LEMMA WithoutSound ==
  ASSUME NEW p \in [Txs -> GoodCoins], NEW cache, SoundOver(cache, p), NEW t \in Txs
  PROVE  /\ SoundOver(Without(cache, t), p)
         /\ ReadThrough(Without(cache, t), p) = [ReadThrough(cache, p) EXCEPT ![t] = p[t]]
<1> DEFINE w == Without(cache, t)
<1>1. /\ DOMAIN w = DOMAIN cache \ {t}
      /\ \A u \in DOMAIN w : w[u] = cache[u]
      /\ w = [u \in DOMAIN w |-> w[u]]
  BY DEF Without
<1>2. SoundOver(w, p)
  BY <1>1 DEF SoundOver
<1>3. ReadThrough(w, p) = [ReadThrough(cache, p) EXCEPT ![t] = p[t]]
  BY <1>1 DEF ReadThrough
<1> QED BY <1>2, <1>3

\* Setting an entry to what is read already changes nothing that is read.
LEMMA SameRead ==
  ASSUME NEW p, NEW cache, NEW t \in Txs
  PROVE  [ReadThrough(cache, p) EXCEPT ![t] = ReadThrough(cache, p)[t]] = ReadThrough(cache, p)
BY DEF ReadThrough

-----------------------------------------------------------------------------
(* The operations of CCoinsViewCache.                                       *)

\* Fetching an entry into a view changes nothing that is read through it.
LEMMA FetchSound ==
  ASSUME CoinsInv, NEW v, SoundOver(v, TipUtxo), NEW t \in Txs
  PROVE  /\ SoundOver(Fetch(v, t), TipUtxo)
         /\ ReadThrough(Fetch(v, t), TipUtxo) = ReadThrough(v, TipUtxo)
<1>1. TipGet(t) = TipUtxo[t] /\ TipUtxo \in [Txs -> GoodCoins]
  BY ReadsThrough, ReadGood, FreshCoinsGood DEF CoinsInv, TipUtxo
<1>2. CASE t \in DOMAIN v \/ t \notin DOMAIN tip
  BY <1>2 DEF Fetch
<1>3. CASE ~(t \in DOMAIN v \/ t \notin DOMAIN tip)
  <2>1. Fetch(v, t) = With(v, t, Entry(TipUtxo[t], FALSE, IsPruned(TipUtxo[t])))
    BY <1>1, <1>3 DEF Fetch
  <2>2. TipUtxo[t] = ReadThrough(v, TipUtxo)[t]
    BY <1>3 DEF ReadThrough
  <2>3. IsPruned(TipUtxo[t]) \in BOOLEAN /\ TipUtxo[t] \in GoodCoins
    BY <1>1 DEF IsPruned
  <2> DEFINE e == Entry(TipUtxo[t], FALSE, IsPruned(TipUtxo[t]))
  <2>4. e \in EntryValues /\ e.coins = TipUtxo[t] /\ (e.fresh => IsPruned(TipUtxo[t]))
    BY <2>3 DEF EntryValues, Entry
  <2> HIDE DEF e
  <2>5. SoundOver(With(v, t, e), TipUtxo)
    BY <1>1, <2>4, WithSound
  <2>6. ReadThrough(With(v, t, e), TipUtxo) = [ReadThrough(v, TipUtxo) EXCEPT ![t] = e.coins]
    BY <1>1, <2>4, WithSound
  <2> QED BY <2>1, <2>2, <2>4, <2>5, <2>6, SameRead DEF e
<1> QED BY <1>2, <1>3

\* ModifyCoins leaves, to a reader, the coins that the modifier left.
LEMMA ModifySound ==
  ASSUME CoinsInv, NEW v, SoundOver(v, TipUtxo),
         NEW t \in Txs, NEW c \in GoodCoins
  PROVE  /\ SoundOver(Modify(v, t, c), TipUtxo)
         /\ ReadThrough(Modify(v, t, c), TipUtxo) = [ReadThrough(v, TipUtxo) EXCEPT ![t] = c]
<1> DEFINE fresh == IF t \in DOMAIN v THEN v[t].fresh ELSE IsPruned(TipUtxo[t])
<1>1. TipGet(t) = TipUtxo[t] /\ TipUtxo \in [Txs -> GoodCoins]
  BY ReadsThrough, ReadGood, FreshCoinsGood DEF CoinsInv, TipUtxo
<1>2. fresh \in BOOLEAN /\ (fresh => IsPruned(TipUtxo[t]))
  BY DEF SoundOver, IsPruned
<1>3. Modify(v, t, c) =
        IF fresh /\ IsPruned(c) THEN Without(v, t) ELSE With(v, t, Entry(c, TRUE, fresh))
  BY <1>1 DEF Modify
<1> HIDE DEF fresh
<1>4. CASE fresh /\ IsPruned(c)
  <2>1. c = TipUtxo[t]
    <3>1. TipUtxo[t] \in GoodCoins
      BY <1>1
    <3> QED BY <1>2, <1>4, <3>1 DEF GoodCoins, IsPruned
  <2> QED BY <1>1, <1>3, <1>4, <2>1, WithoutSound
<1>5. CASE ~(fresh /\ IsPruned(c))
  <2>1. Modify(v, t, c) = With(v, t, Entry(c, TRUE, fresh))
    BY <1>3, <1>5
  <2> DEFINE e == Entry(c, TRUE, fresh)
  <2>2. e \in EntryValues /\ e.coins = c /\ e.dirty /\ (e.fresh => IsPruned(TipUtxo[t]))
    BY <1>2 DEF EntryValues, Entry
  <2> HIDE DEF e
  <2>3. SoundOver(With(v, t, e), TipUtxo)
    BY <1>1, <2>2, WithSound
  <2>4. ReadThrough(With(v, t, e), TipUtxo) = [ReadThrough(v, TipUtxo) EXCEPT ![t] = e.coins]
    BY <1>1, <2>2, WithSound
  <2> QED BY <2>1, <2>2, <2>3, <2>4 DEF e
<1> QED BY <1>4, <1>5

\* ModifyNewCoins does so when the parent has no coins of the transaction.
LEMMA ModifyNewSound ==
  ASSUME CoinsInv, NEW v, SoundOver(v, TipUtxo),
         NEW t \in Txs, IsPruned(TipUtxo[t]), NEW c \in GoodCoins
  PROVE  /\ SoundOver(ModifyNew(v, t, c), TipUtxo)
         /\ ReadThrough(ModifyNew(v, t, c), TipUtxo) = [ReadThrough(v, TipUtxo) EXCEPT ![t] = c]
<1>1. TipUtxo \in [Txs -> GoodCoins]
  BY ReadGood, FreshCoinsGood DEF CoinsInv, TipUtxo
<1> DEFINE e == Entry(c, TRUE, TRUE)
<1>2. e \in EntryValues /\ e.coins = c /\ e.dirty
  BY DEF EntryValues, Entry
<1> HIDE DEF e
<1>3. SoundOver(With(v, t, e), TipUtxo)
  BY <1>1, <1>2, WithSound
<1>4. ReadThrough(With(v, t, e), TipUtxo) = [ReadThrough(v, TipUtxo) EXCEPT ![t] = e.coins]
  BY <1>1, <1>2, WithSound
<1> QED BY <1>2, <1>3, <1>4 DEF ModifyNew, e

\* What a parent cache has after BatchWrite, entry by entry.
LEMMA BatchWriteAt ==
  ASSUME NEW parent, NEW child, DOMAIN parent \subseteq Txs
  PROVE  LET b == BatchWrite(parent, child) IN
         /\ DOMAIN b = {u \in Txs : BatchWriteEntry(parent, child, u) # {}}
         /\ b = [u \in DOMAIN b |-> b[u]]
         /\ \A u \in DOMAIN b : b[u] \in BatchWriteEntry(parent, child, u)
BY DEF BatchWrite

\* Flushing a sound view into pcoinsTip: pcoinsTip is sound, and what is read
\* through it is what was read through the view.
LEMMA BatchWriteSound ==
  ASSUME CoinsInv
  PROVE  /\ SoundOver(BatchWrite(tip, view), NoUtxo)
         /\ ReadThrough(BatchWrite(tip, view), NoUtxo) = ReadThrough(view, TipUtxo)
<1> DEFINE b == BatchWrite(tip, view)
           E == [coins : GoodCoins, dirty : BOOLEAN, fresh : BOOLEAN]
<1>1. /\ DOMAIN b = {u \in Txs : BatchWriteEntry(tip, view, u) # {}}
      /\ b = [u \in DOMAIN b |-> b[u]]
      /\ \A u \in DOMAIN b : b[u] \in BatchWriteEntry(tip, view, u)
  BY BatchWriteAt DEF CoinsInv, SoundOver
<1>2. TipUtxo \in [Txs -> GoodCoins]
  BY ReadGood, FreshCoinsGood DEF CoinsInv, TipUtxo
<1> HIDE DEF b
<1>3. ASSUME NEW t \in Txs
      PROVE  /\ t \in DOMAIN b =>
                  /\ b[t] \in E
                  /\ ~b[t].dirty => b[t].coins = NoUtxo[t]
                  /\ b[t].fresh => IsPruned(NoUtxo[t])
             /\ (IF t \in DOMAIN b THEN b[t].coins ELSE NoUtxo[t])
                  = (IF t \in DOMAIN view THEN view[t].coins ELSE TipUtxo[t])
  <2>1. /\ TipUtxo[t] = IF t \in DOMAIN tip THEN tip[t].coins ELSE NoUtxo[t]
        /\ TipUtxo[t] \in GoodCoins /\ NoUtxo[t] \in GoodCoins
    BY <1>2, FreshCoinsGood DEF TipUtxo, ReadThrough, CoinsInv
  <2>2. t \in DOMAIN tip =>
          /\ tip[t] \in E
          /\ ~tip[t].dirty => tip[t].coins = NoUtxo[t]
          /\ tip[t].fresh => IsPruned(NoUtxo[t])
    BY DEF CoinsInv, SoundOver
  <2>3. t \in DOMAIN view =>
          /\ view[t] \in E
          /\ ~view[t].dirty => view[t].coins = TipUtxo[t]
          /\ view[t].fresh => IsPruned(TipUtxo[t])
    BY DEF CoinsInv, SoundOver
  <2>4. \A c, d \in GoodCoins : IsPruned(c) /\ IsPruned(d) => c = d
    BY DEF GoodCoins, IsPruned
  <2>5. CASE t \notin DOMAIN view \/ ~view[t].dirty
    <3>1. BatchWriteEntry(tip, view, t) = {tip[u] : u \in {t} \cap DOMAIN tip}
      BY <2>5 DEF BatchWriteEntry
    <3>2. t \in DOMAIN b <=> t \in DOMAIN tip
      BY <1>1, <3>1
    <3>3. t \in DOMAIN b => b[t] = tip[t]
      BY <1>1, <3>1
    <3> QED BY <2>1, <2>2, <2>3, <2>5, <3>2, <3>3
  <2>6. CASE t \in DOMAIN view /\ view[t].dirty /\ t \notin DOMAIN tip
    <3>1. CASE view[t].fresh /\ IsPruned(view[t].coins)
      <4>1. t \notin DOMAIN b
        BY <1>1, <2>6, <3>1 DEF BatchWriteEntry
      <4> QED BY <2>1, <2>3, <2>4, <2>6, <3>1, <4>1
    <3>2. CASE ~(view[t].fresh /\ IsPruned(view[t].coins))
      <4>1. BatchWriteEntry(tip, view, t) = {Entry(view[t].coins, TRUE, view[t].fresh)}
        BY <2>6, <3>2 DEF BatchWriteEntry
      <4>2. t \in DOMAIN b /\ b[t] = Entry(view[t].coins, TRUE, view[t].fresh)
        BY <1>1, <4>1
      <4> QED BY <2>1, <2>3, <2>6, <4>2 DEF Entry
    <3> QED BY <3>1, <3>2
  <2>7. CASE t \in DOMAIN view /\ view[t].dirty /\ t \in DOMAIN tip
    <3>1. CASE tip[t].fresh /\ IsPruned(view[t].coins)
      <4>1. t \notin DOMAIN b
        BY <1>1, <2>7, <3>1 DEF BatchWriteEntry
      <4> QED BY <2>1, <2>2, <2>3, <2>4, <2>7, <3>1, <4>1
    <3>2. CASE ~(tip[t].fresh /\ IsPruned(view[t].coins))
      <4>1. BatchWriteEntry(tip, view, t) = {Entry(view[t].coins, TRUE, tip[t].fresh)}
        BY <2>7, <3>2 DEF BatchWriteEntry
      <4>2. t \in DOMAIN b /\ b[t] = Entry(view[t].coins, TRUE, tip[t].fresh)
        BY <1>1, <4>1
      <4> QED BY <2>1, <2>2, <2>3, <2>7, <4>2 DEF Entry
    <3> QED BY <3>1, <3>2
  <2> QED BY <2>5, <2>6, <2>7
<1>4. DOMAIN b \subseteq Txs
  BY <1>1
<1>5. SoundOver(b, NoUtxo)
  BY <1>1, <1>3, <1>4 DEF SoundOver
<1>6. ReadThrough(b, NoUtxo) = ReadThrough(view, TipUtxo)
  BY <1>3 DEF ReadThrough
<1> QED BY <1>5, <1>6 DEF b

\* Writing pcoinsTip out leaves in the database what was read through it, and of
\* other transactions what it had.
LEMMA WrittenIsRead ==
  ASSUME CoinsInv, FreshInv
  PROVE  WrittenCoins(tip) = [t \in Txs |-> IF IsPruned(TipUtxo[t]) THEN diskCoins[t] ELSE TipUtxo[t]]
<1>1. ASSUME NEW t \in Txs
      PROVE  (IF t \in DOMAIN tip /\ tip[t].dirty THEN tip[t].coins ELSE diskCoins[t])
               = (IF IsPruned(TipUtxo[t]) THEN diskCoins[t] ELSE TipUtxo[t])
  <2>1. TipUtxo[t] = IF t \in DOMAIN tip THEN tip[t].coins ELSE NoCoins
    BY DEF TipUtxo, ReadThrough, NoUtxo
  <2>2. CASE t \in DOMAIN tip
    <3>1. ~IsPruned(tip[t].coins)
      BY <2>2 DEF FreshInv
    <3>2. ~tip[t].dirty => tip[t].coins = NoCoins
      BY <2>2 DEF CoinsInv, SoundOver, NoUtxo
    <3> QED BY <2>1, <2>2, <3>1, <3>2 DEF IsPruned, NoCoins
  <2>3. CASE t \notin DOMAIN tip
    BY <2>1, <2>3 DEF IsPruned, NoCoins
  <2> QED BY <2>2, <2>3
<1>2. WrittenCoins(tip) = [t \in Txs |-> IF t \in DOMAIN tip /\ tip[t].dirty THEN tip[t].coins ELSE diskCoins[t]]
  BY DEF WrittenCoins
<1> QED BY <1>1, <1>2

\* An empty cache is sound over anything and shows what is below it.
LEMMA EmptySound ==
  ASSUME NEW p \in [Txs -> GoodCoins]
  PROVE  SoundOver(Empty, p) /\ ReadThrough(Empty, p) = p
<1>1. DOMAIN Empty = {} /\ Empty = [t \in {} |-> Empty[t]]
  BY DEF Empty
<1>2. SoundOver(Empty, p)
  BY <1>1 DEF SoundOver
<1>3. ReadThrough(Empty, p) = p
  BY <1>1 DEF ReadThrough
<1> QED BY <1>2, <1>3

-----------------------------------------------------------------------------
(* The steps.                                                               *)

ViewUtxo == ReadThrough(view, TipUtxo)

\* The refinement mapping, before and after a step.
LEMMA Mapped ==
  /\ [t \in Txs |-> TipGet(t)] = TipUtxo
  /\ [t \in Txs |-> Get(view, t)] = ViewUtxo
  /\ [t \in Txs |-> TipGet(t)]' = TipUtxo'
  /\ [t \in Txs |-> Get(view, t)]' = ViewUtxo'
<1>1. \A t \in Txs : NoUtxo[t] = NoCoins
  BY DEF NoUtxo
<1> QED BY <1>1 DEF BaseGet, TipGet, TipUtxo, ReadThrough, Get, ViewUtxo

\* What is read through the caches are good coins.
LEMMA UtxoGood ==
  ASSUME CoinsInv
  PROVE  TipUtxo \in [Txs -> GoodCoins] /\ ViewUtxo \in [Txs -> GoodCoins]
<1>1. TipUtxo \in [Txs -> GoodCoins]
  BY ReadGood, FreshCoinsGood DEF CoinsInv, TipUtxo
<1> QED BY <1>1, ReadGood DEF CoinsInv, ViewUtxo

\* When pcoinsTip and the database stay, and a view over it is sound.
LEMMA TipKept ==
  ASSUME CoinsInv, diskCoins' = diskCoins, tip' = tip, SoundOver(view', TipUtxo)
  PROVE  CoinsInv' /\ TipUtxo' = TipUtxo
<1>1. TipUtxo' = TipUtxo
  BY DEF TipUtxo
<1> QED BY <1>1 DEF CoinsInv

\* When the view is closed, what it shows is what pcoinsTip shows.
LEMMA ViewClosed ==
  ASSUME diskCoins' \in [Txs -> GoodCoins], SoundOver(tip', NoUtxo), view' = Empty
  PROVE  CoinsInv' /\ ViewUtxo' = TipUtxo'
<1>1. TipUtxo' \in [Txs -> GoodCoins]
  BY ReadGood, FreshCoinsGood DEF TipUtxo
<1> QED BY <1>1, EmptySound DEF CoinsInv, ViewUtxo

\* While there is no view, the same of the state itself.
LEMMA NoView ==
  ASSUME CoinsInv, view = Empty
  PROVE  ViewUtxo = TipUtxo
BY UtxoGood, EmptySound DEF ViewUtxo

\* The height of the block in hand.
LEMMA BlockHeight ==
  ASSUME ViewsInv, phase = "connect"
  PROVE  Len(tipBest) + 1 \in Heights
<1>1. Len(tipBest) \in Nat /\ Len(tipBest) < MaxHeight
  BY LenProperties DEF ViewsInv, ControlInv, ControlTypeOK
<1> QED BY <1>1, TransactionsAssumption DEF Heights

\* Connecting a coinbase keeps the coins sound and connects it in the abstract set.
LEMMA ConnectCoinbaseStep ==
  ASSUME ViewsInv, NEW t \in Coinbases, ConnectCoinbase(t)
  PROVE  /\ CoinsInv' /\ block' \in Blocks /\ \E h \in Heights : Utxo!Connect(t, h)
         /\ IsPruned(TipUtxo[t]) /\ TipUtxo' = TipUtxo
         /\ ViewUtxo' = [ViewUtxo EXCEPT ![t] = FromTx(t, Len(tipBest) + 1)]
<1> DEFINE h == Len(tipBest) + 1
           v == Fetch(view, t)
<1>1. t \in Txs /\ CoinsInv
  BY TransactionsAssumption DEF ViewsInv
<1>2. h \in Heights
  BY BlockHeight DEF ConnectCoinbase
<1>3. SoundOver(v, TipUtxo) /\ ReadThrough(v, TipUtxo) = ViewUtxo
  BY <1>1, FetchSound DEF CoinsInv, ViewUtxo
<1>4. view' = Modify(v, t, FromTx(t, h)) /\ tip' = tip /\ diskCoins' = diskCoins
  BY DEF ConnectCoinbase
<1> HIDE DEF h, v
<1>5. /\ SoundOver(view', TipUtxo)
      /\ ReadThrough(view', TipUtxo) = [ViewUtxo EXCEPT ![t] = FromTx(t, h)]
  <2>1. FromTx(t, h) \in GoodCoins
    BY <1>1, <1>2, FreshCoinsGood
  <2> QED BY <1>1, <1>3, <1>4, <2>1, ModifySound
<1>7. CoinsInv' /\ TipUtxo' = TipUtxo
  BY <1>1, <1>4, <1>5, TipKept
<1>8. ViewUtxo' = [ViewUtxo EXCEPT ![t] = FromTx(t, h)]
  BY <1>5, <1>7 DEF ViewUtxo
<1>9. IsPruned(TipUtxo[t])
  BY <1>1, ReadsThrough DEF ConnectCoinbase
<1>10. Utxo!Connect(t, h)
  BY <1>4, <1>7, <1>8, <1>9, Mapped
     DEF Utxo!Connect, Utxo!FromTx, Utxo!IsPruned, FromTx, IsPruned
<1>11. block' \in Blocks
  <2>1. [tx |-> t, undoHeight |-> 0] \in [tx : Txs, undoHeight : Heights]
    BY <1>1, TransactionsAssumption DEF Heights
  <2> QED BY <2>1 DEF ConnectCoinbase, Blocks
<1> QED BY <1>2, <1>7, <1>8, <1>9, <1>10, <1>11 DEF h

\* Spending the input and adding the outputs of a transaction does the same.
LEMMA ConnectTxStep ==
  ASSUME ViewsInv, NEW t \in Txs \ Coinbases, ConnectTx(t)
  PROVE  /\ CoinsInv' /\ block' \in Blocks /\ \E h \in Heights : Utxo!Connect(t, h)
         /\ IsPruned(TipUtxo[t]) /\ TipUtxo' = TipUtxo
         /\ LET in == InputOf[t]
                c  == ViewUtxo[in.tx]
            IN  /\ in.n \in c.outs
                /\ ViewUtxo' = [[ViewUtxo EXCEPT ![in.tx] = Spend(c, in.n)]
                                  EXCEPT ![t] = FromTx(t, Len(tipBest) + 1)]
                /\ block' = Append(block, [tx |-> t, undoHeight |-> UndoHeight(c, in.n)])
<1> DEFINE h  == Len(tipBest) + 1
           i  == InputOf[t].tx
           n  == InputOf[t].n
           c  == Get(view, i)
           v0 == Fetch(view, t)
           v1 == Fetch(v0, i)
           v2 == Modify(v1, i, Spend(c, n))
<1>1. t \in Txs /\ i \in Txs /\ i # t /\ CoinsInv
  BY TransactionsAssumption DEF ViewsInv
<1>2. h \in Heights
  BY BlockHeight DEF ConnectTx
<1>3. /\ view' = ModifyNew(v2, t, FromTx(t, h)) /\ tip' = tip
      /\ diskCoins' = diskCoins
      /\ n \in c.outs
      /\ block' = Append(block, [tx |-> t, undoHeight |-> UndoHeight(c, n)])
  BY DEF ConnectTx
<1>4. c = ViewUtxo[i] /\ c \in GoodCoins
  BY <1>1, ReadsThrough, UtxoGood DEF ViewUtxo
<1>5. SoundOver(v0, TipUtxo) /\ ReadThrough(v0, TipUtxo) = ViewUtxo
  BY <1>1, FetchSound DEF CoinsInv, ViewUtxo
<1> HIDE DEF h, i, n, c, v0
<1>6. SoundOver(v1, TipUtxo) /\ ReadThrough(v1, TipUtxo) = ViewUtxo
  BY <1>1, <1>5, FetchSound
<1>7. Spend(c, n) \in GoodCoins
  BY <1>3, <1>4, SpendGood
<1> HIDE DEF v1
<1>8. SoundOver(v2, TipUtxo) /\ ReadThrough(v2, TipUtxo) = [ViewUtxo EXCEPT ![i] = Spend(c, n)]
  BY <1>1, <1>6, <1>7, ModifySound
<1> HIDE DEF v2
<1>9. IsPruned(TipUtxo[t])
  BY <1>1, ReadsThrough DEF ConnectTx
<1>10. /\ SoundOver(view', TipUtxo)
       /\ ReadThrough(view', TipUtxo) = [[ViewUtxo EXCEPT ![i] = Spend(c, n)] EXCEPT ![t] = FromTx(t, h)]
  <2>1. FromTx(t, h) \in GoodCoins
    BY <1>1, <1>2, FreshCoinsGood
  <2> QED BY <1>1, <1>3, <1>8, <1>9, <2>1, ModifyNewSound
<1>12. CoinsInv' /\ TipUtxo' = TipUtxo
  BY <1>1, <1>3, <1>10, TipKept
<1>13. ViewUtxo' = [[ViewUtxo EXCEPT ![i] = Spend(c, n)] EXCEPT ![t] = FromTx(t, h)]
  BY <1>10, <1>12 DEF ViewUtxo
<1>14. Utxo!Connect(t, h)
  <2>1. ViewUtxo' = [[ViewUtxo EXCEPT ![i] = Spend(@, n)] EXCEPT ![t] = FromTx(t, h)]
    BY <1>1, <1>4, <1>13, UtxoGood
  <2>2. n \in ViewUtxo[i].outs
    BY <1>3, <1>4
  <2> QED BY <1>3, <1>9, <1>12, <2>1, <2>2, Mapped
          DEF Utxo!Connect, Utxo!FromTx, Utxo!IsPruned, Utxo!Spend, Utxo!NoCoins,
              FromTx, IsPruned, Spend, NoCoins, i, n
<1>15. block' \in Blocks
  <2>1. UndoHeight(c, n) \in Heights
    BY <1>4, TransactionsAssumption DEF UndoHeight, GoodCoins, Coins, Heights
  <2>2. [tx |-> t, undoHeight |-> UndoHeight(c, n)] \in [tx : Txs, undoHeight : Heights]
    BY <1>1, <2>1
  <2> QED BY <1>3, <2>2, AppendProperties DEF Blocks, ViewsInv, ControlTypeOK
<1>16. /\ n \in ViewUtxo[i].outs
       /\ ViewUtxo' = [[ViewUtxo EXCEPT ![i] = Spend(ViewUtxo[i], n)] EXCEPT ![t] = FromTx(t, h)]
       /\ block' = Append(block, [tx |-> t, undoHeight |-> UndoHeight(ViewUtxo[i], n)])
  BY <1>3, <1>4, <1>13
<1> QED BY <1>2, <1>9, <1>12, <1>14, <1>15, <1>16 DEF h, i, n

\* The last element of a sequence is dropped.
LEMMA FrontSeq ==
  ASSUME NEW S, NEW s \in Seq(S)
  PROVE  SubSeq(s, 1, Len(s) - 1) \in Seq(S)
<1>1. CASE Len(s) = 0
  <2>1. SubSeq(s, 1, Len(s) - 1) = << >>
    BY <1>1
  <2> QED BY <2>1
<1>2. CASE Len(s) # 0
  BY <1>2
<1> QED BY <1>1, <1>2

\* What DisconnectBlock finds for an entry e of a block at height h when the
\* coins u are those after it, and what it leaves.
UndoFits(u, e, h) ==
    /\ u[e.tx] = FromTx(e.tx, h)
    /\ e.tx \notin Coinbases =>
         /\ IF e.undoHeight # 0 THEN IsPruned(u[InputOf[e.tx].tx]) ELSE ~IsPruned(u[InputOf[e.tx].tx])
         /\ InputOf[e.tx].n \notin u[InputOf[e.tx].tx].outs

Undone(u, e) ==
    IF e.tx \in Coinbases THEN [u EXCEPT ![e.tx] = NoCoins]
    ELSE [[u EXCEPT ![e.tx] = NoCoins]
             EXCEPT ![InputOf[e.tx].tx] = Restored(u[InputOf[e.tx].tx], InputOf[e.tx].n, e.undoHeight)]

\* A step of DisconnectBlock changes nothing but the view, or finds that the
\* coins do not fit and leaves that too.
LEMMA UndoTxStep ==
  ASSUME ViewsInv, UndoTx
  PROVE  /\ CoinsInv' /\ TipUtxo' = TipUtxo
         /\ IF UndoFits(ViewUtxo, block[Len(block)], Len(tipBest))
              THEN phase' = phase /\ ViewUtxo' = Undone(ViewUtxo, block[Len(block)])
              ELSE phase' = "unclean"
         /\ (\E t \in Txs : Utxo!Disconnect(t))
              \/ (diskCoins' = diskCoins /\ TipUtxo' = TipUtxo /\ ViewUtxo' = ViewUtxo)
<1> DEFINE e == block[Len(block)]
           t == e.tx
           i == InputOf[t].tx
           n == InputOf[t].n
           c == Get(view, i)
           v1 == Modify(view, t, NoCoins)
           r == Restored(c, n, e.undoHeight)
           clean == /\ Get(view, t) = FromTx(t, Len(tipBest))
                    /\ t \notin Coinbases =>
                         /\ IF e.undoHeight # 0 THEN IsPruned(c) ELSE ~IsPruned(c)
                         /\ n \notin c.outs
<1>1. /\ tip' = tip /\ diskCoins' = diskCoins
      /\ clean => phase' = phase /\ view' = IF t \in Coinbases THEN v1 ELSE Modify(v1, i, r)
      /\ ~clean => view' = view /\ phase' = "unclean"
  BY DEF UndoTx
<1>2. e \in [tx : Txs, undoHeight : Heights]
  <2> DEFINE S == [tx : Txs, undoHeight : Heights]
  <2>1. block \in Seq(S) /\ block # << >>
    BY DEF UndoTx, ViewsInv, ControlTypeOK, Blocks
  <2> HIDE DEF S
  <2>2. Len(block) \in 1..Len(block)
    BY <2>1, EmptySeq, LenProperties
  <2> QED BY <2>1, <2>2, ElementOfSeq DEF S
<1>3. t \in Txs /\ e.undoHeight \in Heights /\ CoinsInv
  BY <1>2 DEF ViewsInv
<1>4. t \notin Coinbases => i \in Txs /\ i # t /\ n \in Nat
  BY <1>3, TransactionsAssumption
<1>5. clean => Get(view, t) = FromTx(t, Len(tipBest))
  OBVIOUS
<1>6. clean /\ t \notin Coinbases =>
        /\ IF e.undoHeight # 0 THEN IsPruned(c) ELSE ~IsPruned(c)
        /\ n \notin c.outs
  OBVIOUS
<1>14. UndoFits(ViewUtxo, e, Len(tipBest)) <=> clean
  <2>1. ViewUtxo[t] = Get(view, t) /\ (t \notin Coinbases => ViewUtxo[i] = c)
    BY <1>3, <1>4, ReadsThrough DEF ViewUtxo
  <2> QED BY <2>1 DEF UndoFits
<1> HIDE DEF clean
<1>8. SoundOver(view, TipUtxo)
  BY <1>3 DEF CoinsInv
<1>9. SoundOver(v1, TipUtxo) /\ ReadThrough(v1, TipUtxo) = [ViewUtxo EXCEPT ![t] = NoCoins]
  BY <1>3, <1>8, FreshCoinsGood, ModifySound DEF ViewUtxo
<1>10. CASE ~clean
  BY <1>1, <1>3, <1>8, <1>10, <1>14, TipKept DEF ViewUtxo
<1>11. ViewUtxo[t] = Get(view, t) /\ (clean => ViewUtxo[t] # NoCoins)
  <2>1. ViewUtxo[t] = Get(view, t)
    BY <1>3, ReadsThrough DEF ViewUtxo
  <2>2. FromTx(t, Len(tipBest)).outs # NoCoins.outs
    BY <1>3, TransactionsAssumption DEF FromTx, NoCoins
  <2> QED BY <1>5, <2>1, <2>2
<1>12. CASE clean /\ t \in Coinbases
  <2> HIDE DEF t, v1
  <2>1. CoinsInv' /\ TipUtxo' = TipUtxo /\ ViewUtxo' = [ViewUtxo EXCEPT ![t] = NoCoins]
    BY <1>1, <1>3, <1>9, <1>12, TipKept DEF ViewUtxo
  <2>2. Utxo!Disconnect(t)
    BY <1>1, <1>11, <1>12, <2>1, Mapped DEF Utxo!Disconnect, Utxo!NoCoins, NoCoins
  <2>3. phase' = phase /\ ViewUtxo' = Undone(ViewUtxo, e)
    BY <1>1, <1>12, <2>1 DEF Undone, t
  <2> QED BY <1>3, <1>12, <1>14, <2>1, <2>2, <2>3
<1>13. CASE clean /\ t \notin Coinbases
  <2>1. c = ViewUtxo[i] /\ c \in GoodCoins
    BY <1>3, <1>4, <1>13, ReadsThrough, UtxoGood DEF ViewUtxo
  <2>2. PICK h \in Heights : /\ r = [outs |-> c.outs \cup {n}, height |-> h]
                             /\ ~IsPruned(c) => h = c.height
    <3>1. CASE e.undoHeight # 0
      <4>1. c.outs = {}
        BY <1>6, <1>13, <3>1 DEF IsPruned
      <4>2. r = [outs |-> c.outs \cup {n}, height |-> e.undoHeight]
        BY <3>1, <4>1 DEF Restored
      <4> QED BY <1>3, <4>1, <4>2 DEF IsPruned
    <3>2. CASE e.undoHeight = 0
      <4>1. c.height \in Heights /\ c = [outs |-> c.outs, height |-> c.height]
        BY <2>1 DEF GoodCoins, Coins
      <4>2. r = [c EXCEPT !.outs = @ \cup {n}]
        BY <3>2 DEF Restored
      <4> QED BY <4>1, <4>2
    <3> QED BY <3>1, <3>2
  <2>3. r \in GoodCoins
    <3>1. c.outs \cup {n} \in SUBSET Nat
      BY <1>4, <1>13, <2>1 DEF GoodCoins, Coins
    <3> DEFINE x == [outs |-> c.outs \cup {n}, height |-> h]
    <3>2. x \in Coins /\ x.outs # {}
      BY <3>1 DEF Coins
    <3> HIDE DEF x
    <3>3. x \in GoodCoins
      BY <3>2 DEF GoodCoins
    <3> QED BY <2>2, <3>3 DEF x
  <2> HIDE DEF r, c, v1
  <2>4. /\ SoundOver(view', TipUtxo)
        /\ ReadThrough(view', TipUtxo) = [[ViewUtxo EXCEPT ![t] = NoCoins] EXCEPT ![i] = r]
    BY <1>1, <1>3, <1>4, <1>9, <1>13, <2>3, ModifySound
  <2>5. CoinsInv' /\ TipUtxo' = TipUtxo /\ ViewUtxo' = [[ViewUtxo EXCEPT ![t] = NoCoins] EXCEPT ![i] = r]
    BY <1>1, <1>3, <2>4, TipKept DEF ViewUtxo
  <2>6. [ViewUtxo EXCEPT ![t] = NoCoins][i] = c
    BY <1>3, <1>4, <1>13, <2>1, UtxoGood
  <2>7. ViewUtxo' = [[ViewUtxo EXCEPT ![t] = NoCoins]
                       EXCEPT ![i] = [outs |-> @.outs \cup {n}, height |-> h]]
    BY <2>2, <2>5, <2>6
  <2>8. ~IsPruned(ViewUtxo[i]) => h = ViewUtxo[i].height
    BY <2>1, <2>2
  <2>9. Utxo!Disconnect(t)
    BY <1>1, <1>11, <1>13, <2>5, <2>7, <2>8, Mapped
       DEF Utxo!Disconnect, Utxo!NoCoins, NoCoins, Utxo!IsPruned, IsPruned, Utxo!Heights, Heights
  <2>10. phase' = phase /\ ViewUtxo' = Undone(ViewUtxo, e)
    BY <1>1, <1>13, <2>1, <2>5 DEF Undone, r
  <2> QED BY <1>3, <1>13, <1>14, <2>5, <2>9, <2>10
<1> QED BY <1>10, <1>12, <1>13

\* The chain, the phase and the block in hand keep their types, whatever the
\* action, once the block in hand does; and no view is left open.
LEMMA ControlStep ==
  ASSUME ViewsInv, [Next]_vars, block' \in Blocks
  PROVE  ControlInv' /\ ControlTypeOK'
<1>1. /\ diskBest \in Seq(Blocks) /\ tipBest \in Seq(Blocks)
      /\ trie \in Seq(Blocks) /\ trieDisk \in Seq(Blocks) /\ block \in Blocks
      /\ phase \in {"idle", "connect", "disconnect", "unclean", "writing", "aborting"}
      /\ phase \in {"idle", "writing", "aborting"} => view = Empty
      /\ phase = "connect" => Len(tipBest) < MaxHeight
  BY DEF ViewsInv, ControlInv, ControlTypeOK
<1> USE <1>1 DEF ControlInv, ControlTypeOK
<1>3. CASE BeginConnect \/ BeginDisconnect \/ WriteTrie
  BY <1>3 DEF BeginConnect, BeginDisconnect, WriteTrie, coinVars
<1>4. CASE \E t \in Coinbases : ConnectCoinbase(t)
  BY <1>4 DEF ConnectCoinbase
<1>5. CASE \E t \in Txs \ Coinbases : ConnectTx(t)
  BY <1>5 DEF ConnectTx
<1>6. CASE FinishConnect
  <2>1. Append(tipBest, block) \in Seq(Blocks) /\ Append(trie, block) \in Seq(Blocks)
    BY AppendProperties
  <2> QED BY <1>6, <2>1 DEF FinishConnect
<1>7. CASE Abandon
  BY <1>7 DEF Abandon
<1>8. CASE UndoTx
  BY <1>8 DEF UndoTx
<1>9. CASE FinishDisconnect
  <2>1. /\ SubSeq(tipBest, 1, Len(tipBest) - 1) \in Seq(Blocks)
        /\ SubSeq(trie, 1, Len(trie) - 1) \in Seq(Blocks)
    BY FrontSeq
  <2> QED BY <1>9, <2>1 DEF FinishDisconnect
<1>10. CASE WriteCoins \/ WriteFails \/ ShutdownWrites \/ Crash
  BY <1>10 DEF WriteCoins, WriteFails, ShutdownWrites, Crash
<1>11. CASE CrashAndReindex
  BY <1>11 DEF CrashAndReindex
<1>12. CASE UNCHANGED vars
  BY <1>12 DEF vars
<1> QED BY <1>3, <1>4, <1>5, <1>6, <1>7, <1>8, <1>9, <1>10, <1>11, <1>12 DEF Next

\* Fetching and modifying keep the entries of a view that pcoinsTip does not know
\* FRESH, ...
ViewFresh(v) == \A t \in DOMAIN v \ DOMAIN tip : v[t].fresh

LEMMA FreshKept ==
  ASSUME NEW v, ViewFresh(v), NEW t \in Txs, NEW c
  PROVE  ViewFresh(Fetch(v, t)) /\ ViewFresh(Modify(v, t, c)) /\ ViewFresh(ModifyNew(v, t, c))
<1>1. ASSUME NEW x, x.fresh \/ t \in DOMAIN tip
      PROVE  ViewFresh(With(v, t, x)) /\ ViewFresh(Without(v, t))
  BY <1>1 DEF ViewFresh, With, Without
<1>2. ViewFresh(Fetch(v, t))
  BY <1>1 DEF Fetch, Entry
<1>3. ViewFresh(ModifyNew(v, t, c))
  BY <1>1 DEF ModifyNew, Entry
<1>4. ViewFresh(Modify(v, t, c))
  <2> DEFINE fresh == IF t \in DOMAIN v THEN v[t].fresh ELSE IsPruned(TipGet(t))
  <2>1. t \in DOMAIN tip \/ fresh
    BY DEF ViewFresh, TipGet, BaseGet, IsPruned, NoCoins
  <2>2. Modify(v, t, c) = IF fresh /\ IsPruned(c) THEN Without(v, t) ELSE With(v, t, Entry(c, TRUE, fresh))
    BY DEF Modify
  <2> HIDE DEF fresh
  <2>3. Entry(c, TRUE, fresh).fresh = fresh
    BY DEF Entry
  <2>4. ViewFresh(With(v, t, Entry(c, TRUE, fresh))) /\ ViewFresh(Without(v, t))
    BY <1>1, <2>1, <2>3
  <2> QED BY <2>2, <2>4
<1> QED BY <1>2, <1>3, <1>4

\* ... and flushing such a view leaves pcoinsTip with fresh unspent coins only.
LEMMA FlushedFresh ==
  ASSUME CoinsInv, FreshInv
  PROVE  LET b == BatchWrite(tip, view)
         IN  \A t \in DOMAIN b : b[t].fresh /\ ~IsPruned(b[t].coins)
<1> DEFINE b == BatchWrite(tip, view)
<1>1. /\ DOMAIN b = {u \in Txs : BatchWriteEntry(tip, view, u) # {}}
      /\ \A u \in DOMAIN b : b[u] \in BatchWriteEntry(tip, view, u)
  BY BatchWriteAt DEF CoinsInv, SoundOver
<1> HIDE DEF b
<1>2. ASSUME NEW t \in DOMAIN b
      PROVE  b[t].fresh /\ ~IsPruned(b[t].coins)
  <2>1. b[t] \in BatchWriteEntry(tip, view, t) /\ t \in Txs
    BY <1>1
  <2>2. t \in DOMAIN tip => tip[t].fresh /\ ~IsPruned(tip[t].coins)
    BY DEF FreshInv
  <2>3. t \in DOMAIN view /\ t \notin DOMAIN tip => view[t].fresh
    BY DEF FreshInv
  <2>4. CASE t \notin DOMAIN view \/ ~view[t].dirty
    BY <2>1, <2>2, <2>4 DEF BatchWriteEntry
  <2>5. CASE t \in DOMAIN view /\ view[t].dirty /\ t \notin DOMAIN tip
    BY <2>1, <2>3, <2>5 DEF BatchWriteEntry, Entry
  <2>6. CASE t \in DOMAIN view /\ view[t].dirty /\ t \in DOMAIN tip
    BY <2>1, <2>2, <2>6 DEF BatchWriteEntry, Entry
  <2> QED BY <2>4, <2>5, <2>6
<1> QED BY <1>2 DEF b

\* So every step keeps FreshInv.
LEMMA FreshStep ==
  ASSUME ViewsInv, [Next]_vars
  PROVE  FreshInv'
<1>1. FreshInv /\ CoinsInv /\ ViewFresh(view)
  BY DEF ViewsInv, FreshInv, ViewFresh
<1>2. ASSUME tip' = tip, ViewFresh(view')
      PROVE  FreshInv'
  BY <1>1, <1>2 DEF FreshInv, ViewFresh
<1>3. DOMAIN Empty = {}
  BY DEF Empty
<1>4. ASSUME view' = Empty, tip' = tip \/ tip' = Empty \/ tip' = BatchWrite(tip, view)
      PROVE  FreshInv'
  <2>1. CASE tip' = tip
    BY <1>1, <1>3, <1>4, <2>1 DEF FreshInv
  <2>2. CASE tip' = Empty
    BY <1>3, <1>4, <2>2 DEF FreshInv
  <2>3. CASE tip' = BatchWrite(tip, view)
    <3>1. \A t \in DOMAIN tip' : tip'[t].fresh /\ ~IsPruned(tip'[t].coins)
      BY <1>1, <2>3, FlushedFresh
    <3> QED BY <1>3, <1>4, <3>1 DEF FreshInv, IsPruned
  <2> QED BY <1>4, <2>1, <2>2, <2>3
<1>5. CASE BeginConnect \/ BeginDisconnect \/ WriteTrie \/ UNCHANGED vars
  BY <1>1, <1>2, <1>5 DEF BeginConnect, BeginDisconnect, WriteTrie, vars, coinVars
<1>6. ASSUME NEW t \in Coinbases, ConnectCoinbase(t)
      PROVE  FreshInv'
  <2>1. t \in Txs
    BY TransactionsAssumption
  <2>2. ViewFresh(view')
    BY <1>1, <1>6, <2>1, FreshKept DEF ConnectCoinbase
  <2> QED BY <1>2, <1>6, <2>2 DEF ConnectCoinbase
<1>7. ASSUME NEW t \in Txs \ Coinbases, ConnectTx(t)
      PROVE  FreshInv'
  <2> DEFINE in == InputOf[t]
             v0 == Fetch(view, t)
             v1 == Fetch(v0, in.tx)
             s  == Spend(Get(view, in.tx), in.n)
             v2 == Modify(v1, in.tx, s)
  <2>1. in.tx \in Txs
    BY TransactionsAssumption
  <2>2. view' = ModifyNew(v2, t, FromTx(t, Len(tipBest) + 1)) /\ tip' = tip
    BY <1>7 DEF ConnectTx
  <2>3. ViewFresh(v0)
    BY <1>1, FreshKept
  <2> HIDE DEF v0
  <2>4. ViewFresh(v1)
    BY <2>1, <2>3, FreshKept
  <2> HIDE DEF v1, s
  <2>5. ViewFresh(v2)
    BY <2>1, <2>4, FreshKept
  <2> HIDE DEF v2
  <2>6. ViewFresh(view')
    BY <2>2, <2>5, FreshKept
  <2> QED BY <1>2, <2>2, <2>6
<1>8. CASE UndoTx
  <2> DEFINE x == block[Len(block)]
             t == x.tx
             i == InputOf[t].tx
             r == Restored(Get(view, i), InputOf[t].n, x.undoHeight)
             v1 == Modify(view, t, NoCoins)
  <2>1. /\ tip' = tip /\ block # <<>>
        /\ \/ view' = view
           \/ t \in Coinbases /\ view' = v1
           \/ t \notin Coinbases /\ view' = Modify(v1, i, r)
    BY <1>8 DEF UndoTx
  <2>2. t \in Txs
    <3> DEFINE S == [tx : Txs, undoHeight : Heights]
    <3>1. block \in Seq(S)
      BY DEF ViewsInv, ControlTypeOK, Blocks
    <3> HIDE DEF S
    <3>2. x \in S
      BY <2>1, <3>1, EmptySeq, LenProperties, ElementOfSeq
    <3> QED BY <3>2 DEF S
  <2>3. t \notin Coinbases => i \in Txs
    BY <2>2, TransactionsAssumption
  <2>4. ViewFresh(v1)
    BY <1>1, <2>2, FreshKept
  <2> HIDE DEF v1, r, t, i
  <2>5. ViewFresh(view')
    BY <1>1, <2>1, <2>3, <2>4, FreshKept
  <2> QED BY <1>2, <2>1, <2>5
<1>9. CASE FinishConnect \/ FinishDisconnect \/ Abandon
  BY <1>4, <1>9 DEF FinishConnect, FinishDisconnect, Abandon
<1>10. CASE WriteCoins \/ WriteFails
  <2>1. view' = Empty /\ tip' = Empty
    BY <1>10 DEF WriteCoins, WriteFails, ViewsInv, ControlInv
  <2> QED BY <1>4, <2>1
<1>11. CASE ShutdownWrites \/ Crash \/ CrashAndReindex
  BY <1>4, <1>11 DEF ShutdownWrites, Crash, CrashAndReindex
<1> QED BY <1>5, <1>6, <1>7, <1>8, <1>9, <1>10, <1>11 DEF Next

\* What the other steps leave to read, in the database, through pcoinsTip and
\* through a view: beginning changes nothing, ...
LEMMA QuietStep ==
  ASSUME ViewsInv, BeginConnect \/ BeginDisconnect \/ WriteTrie \/ UNCHANGED vars
  PROVE  CoinsInv' /\ diskCoins' = diskCoins /\ TipUtxo' = TipUtxo /\ ViewUtxo' = ViewUtxo
<1>1. diskCoins' = diskCoins /\ tip' = tip /\ view' = view
  BY DEF BeginConnect, BeginDisconnect, WriteTrie, vars, coinVars
<1> QED BY <1>1 DEF ViewsInv, CoinsInv, TipUtxo, ViewUtxo

\* ... a finished block's view becomes what pcoinsTip shows, ...
LEMMA FinishStep ==
  ASSUME ViewsInv, FinishConnect \/ FinishDisconnect
  PROVE  CoinsInv' /\ diskCoins' = diskCoins /\ TipUtxo' = ViewUtxo /\ ViewUtxo' = ViewUtxo
<1>1. CoinsInv /\ diskCoins \in [Txs -> GoodCoins]
  BY DEF ViewsInv, CoinsInv
<1>2. diskCoins' = diskCoins /\ tip' = BatchWrite(tip, view) /\ view' = Empty
  BY DEF FinishConnect, FinishDisconnect
<1>3. SoundOver(tip', NoUtxo) /\ ReadThrough(tip', NoUtxo) = ViewUtxo
  BY <1>1, <1>2, BatchWriteSound DEF ViewUtxo
<1> QED BY <1>1, <1>2, <1>3, ViewClosed DEF TipUtxo

\* ... an abandoned one's is forgotten, ...
LEMMA AbandonStep ==
  ASSUME ViewsInv, Abandon
  PROVE  CoinsInv' /\ diskCoins' = diskCoins /\ TipUtxo' = TipUtxo /\ ViewUtxo' = TipUtxo
<1>1. CoinsInv /\ diskCoins \in [Txs -> GoodCoins] /\ SoundOver(tip, NoUtxo)
  BY DEF ViewsInv, CoinsInv
<1>2. diskCoins' = diskCoins /\ tip' = tip /\ view' = Empty
  BY DEF Abandon
<1> QED BY <1>1, <1>2, ViewClosed DEF TipUtxo

\* ... once pcoinsTip is emptied nothing is found any more, ...
LEMMA NothingFound ==
  ASSUME diskCoins' \in [Txs -> GoodCoins], tip' = Empty, view' = Empty
  PROVE  CoinsInv' /\ TipUtxo' = NoUtxo /\ ViewUtxo' = NoUtxo
<1>1. SoundOver(tip', NoUtxo) /\ ReadThrough(tip', NoUtxo) = NoUtxo
  BY FreshCoinsGood, EmptySound
<1> QED BY <1>1, ViewClosed DEF TipUtxo

\* ... not even what a write has put into the database, where the coins of
\* pcoinsTip replace those of the same transactions, ...
LEMMA WriteStep ==
  ASSUME ViewsInv, WriteCoins \/ ShutdownWrites
  PROVE  /\ CoinsInv' /\ TipUtxo' = NoUtxo /\ ViewUtxo' = NoUtxo
         /\ diskCoins' = [t \in Txs |-> IF IsPruned(TipUtxo[t]) THEN diskCoins[t] ELSE TipUtxo[t]]
         /\ ViewUtxo = TipUtxo
<1>1. CoinsInv /\ TipUtxo \in [Txs -> GoodCoins] /\ diskCoins \in [Txs -> GoodCoins]
  BY UtxoGood DEF ViewsInv, CoinsInv
<1>2. view = Empty /\ ViewUtxo = TipUtxo
  <2>1. view = Empty
    BY DEF WriteCoins, ShutdownWrites, ViewsInv, ControlInv
  <2> QED BY <1>1, <2>1, NoView
<1>3. /\ diskCoins' = [t \in Txs |-> IF IsPruned(TipUtxo[t]) THEN diskCoins[t] ELSE TipUtxo[t]]
      /\ tip' = Empty /\ view' = Empty
  BY <1>1, <1>2, WrittenIsRead DEF WriteCoins, ShutdownWrites, ViewsInv
<1>4. diskCoins' \in [Txs -> GoodCoins]
  BY <1>1, <1>3
<1> QED BY <1>2, <1>3, <1>4, NothingFound

\* ... and what was not written is lost with the caches.
LEMMA LoseStep ==
  ASSUME ViewsInv, WriteFails \/ Crash \/ CrashAndReindex
  PROVE  /\ CoinsInv' /\ TipUtxo' = NoUtxo /\ ViewUtxo' = NoUtxo
         /\ WriteFails \/ Crash => diskCoins' = diskCoins
         /\ CrashAndReindex => diskCoins' = NoUtxo
<1>1. diskCoins \in [Txs -> GoodCoins] /\ NoUtxo \in [Txs -> GoodCoins]
  BY FreshCoinsGood DEF ViewsInv, CoinsInv
<1>2. /\ tip' = Empty /\ view' = Empty
      /\ WriteFails \/ Crash => diskCoins' = diskCoins
      /\ CrashAndReindex => diskCoins' = NoUtxo
  BY DEF WriteFails, Crash, CrashAndReindex, ViewsInv, ControlInv
<1> QED BY <1>1, <1>2, NothingFound

\* Every step keeps the invariant and is a step of UtxoSet, or changes nothing
\* that UtxoSet sees.
LEMMA ViewsStep ==
  ASSUME ViewsInv, [Next]_vars
  PROVE  ViewsInv' /\ [Utxo!NextUtxo]_(Utxo!utxoVars)
<1>1. ASSUME diskCoins' = diskCoins, TipUtxo' = TipUtxo, ViewUtxo' = ViewUtxo
      PROVE  UNCHANGED Utxo!utxoVars
  BY <1>1, Mapped DEF Utxo!utxoVars
<1>2. block \in Blocks /\ << >> \in Blocks /\ SubSeq(block, 1, Len(block) - 1) \in Blocks
  <2> DEFINE S == [tx : Txs, undoHeight : Heights]
  <2>1. block \in Seq(S)
    BY DEF ViewsInv, ControlTypeOK, Blocks
  <2> HIDE DEF S
  <2>2. << >> \in Seq(S) /\ SubSeq(block, 1, Len(block) - 1) \in Seq(S)
    BY <2>1, FrontSeq
  <2> QED BY <2>1, <2>2 DEF S, Blocks
<1> SUFFICES CoinsInv' /\ block' \in Blocks /\ [Utxo!NextUtxo]_(Utxo!utxoVars)
  BY ControlStep, FreshStep DEF ViewsInv
<1>3. CASE BeginConnect \/ BeginDisconnect \/ WriteTrie \/ UNCHANGED vars
  <2>1. CoinsInv' /\ UNCHANGED Utxo!utxoVars
    BY <1>1, <1>3, QuietStep
  <2>2. tipBest # << >> => tipBest[Len(tipBest)] \in Blocks
    <3>1. tipBest \in Seq(Blocks)
      BY DEF ViewsInv, ControlTypeOK
    <3> QED BY <3>1, EmptySeq, LenProperties, ElementOfSeq
  <2>3. block' \in Blocks
    BY <1>2, <1>3, <2>2
       DEF BeginConnect, BeginDisconnect, WriteTrie, vars
  <2> QED BY <2>1, <2>3
<1>4. ASSUME NEW t \in Coinbases, ConnectCoinbase(t)
      PROVE  CoinsInv' /\ block' \in Blocks /\ [Utxo!NextUtxo]_(Utxo!utxoVars)
  <2>1. t \in Txs
    BY TransactionsAssumption
  <2> QED BY <1>4, <2>1, ConnectCoinbaseStep DEF Utxo!NextUtxo, Utxo!Heights, Heights
<1>5. ASSUME NEW t \in Txs \ Coinbases, ConnectTx(t)
      PROVE  CoinsInv' /\ block' \in Blocks /\ [Utxo!NextUtxo]_(Utxo!utxoVars)
  BY <1>5, ConnectTxStep DEF Utxo!NextUtxo, Utxo!Heights, Heights
<1>6. CASE FinishConnect \/ FinishDisconnect
  <2>1. CoinsInv' /\ Utxo!Commit
    BY <1>6, FinishStep, Mapped DEF Utxo!Commit
  <2>2. block' \in Blocks
    BY <1>2, <1>6 DEF FinishConnect, FinishDisconnect
  <2> QED BY <2>1, <2>2 DEF Utxo!NextUtxo
<1>7. CASE Abandon
  <2>1. CoinsInv' /\ Utxo!Discard
    BY <1>7, AbandonStep, Mapped DEF Utxo!Discard
  <2> QED BY <1>2, <1>7, <2>1 DEF Abandon, Utxo!NextUtxo
<1>8. CASE UndoTx
  <2>1. block' \in Blocks
    BY <1>2, <1>8 DEF UndoTx
  <2> QED BY <1>1, <1>8, <2>1, UndoTxStep DEF Utxo!NextUtxo
<1>9. CASE WriteCoins \/ ShutdownWrites
  <2>1. CoinsInv' /\ Utxo!Persist
    <3>1. \A c : Utxo!IsPruned(c) <=> IsPruned(c)
      BY DEF Utxo!IsPruned, IsPruned
    <3>2. Utxo!NoUtxo = NoUtxo
      BY DEF Utxo!NoUtxo, Utxo!NoCoins, NoUtxo, NoCoins
    <3> QED BY <1>9, <3>1, <3>2, WriteStep, Mapped DEF Utxo!Persist, Utxo!Forget
  <2>2. block' \in Blocks
    BY <1>2, <1>9 DEF WriteCoins, ShutdownWrites
  <2> QED BY <2>1, <2>2 DEF Utxo!NextUtxo
<1>10. CASE WriteFails \/ Crash \/ CrashAndReindex
  <2>1. Utxo!NoUtxo = NoUtxo
    BY DEF Utxo!NoUtxo, Utxo!NoCoins, NoUtxo, NoCoins
  <2>2. CoinsInv' /\ (Utxo!Lose \/ Utxo!Wipe)
    BY <1>10, <2>1, LoseStep, Mapped DEF Utxo!Lose, Utxo!Wipe, Utxo!Forget
  <2>3. block' \in Blocks
    BY <1>2, <1>10 DEF WriteFails, Crash, CrashAndReindex
  <2> QED BY <2>2, <2>3 DEF Utxo!NextUtxo
<1> QED BY <1>3, <1>4, <1>5, <1>6, <1>7, <1>8, <1>9, <1>10 DEF Next

\* At the start every set is empty, in the caches as in UtxoSet.
LEMMA ViewsInit ==
  ASSUME Init
  PROVE  ViewsInv /\ Utxo!InitUtxo
<1>1. NoUtxo \in [Txs -> GoodCoins]
  BY FreshCoinsGood DEF NoUtxo
<1>2. SoundOver(tip, NoUtxo) /\ TipUtxo = NoUtxo
  BY <1>1, EmptySound DEF Init, TipUtxo
<1>3. SoundOver(view, TipUtxo) /\ ViewUtxo = NoUtxo
  BY <1>1, <1>2, EmptySound DEF Init, ViewUtxo
<1>4. CoinsInv
  BY <1>1, <1>2, <1>3 DEF Init, CoinsInv
<1>5. ControlInv /\ ControlTypeOK
  <2>1. << >> \in Blocks /\ << >> \in Seq(Blocks)
    BY DEF Blocks
  <2> QED BY <2>1 DEF Init, ControlInv, ControlTypeOK
<1>6. Utxo!InitUtxo
  BY <1>2, <1>3, Mapped DEF Init, Utxo!InitUtxo, Utxo!NoUtxo, Utxo!NoCoins, NoUtxo, NoCoins
<1>7. FreshInv
  BY DEF Init, Empty, FreshInv
<1> QED BY <1>4, <1>5, <1>6, <1>7 DEF ViewsInv

\* Every variable keeps its type; no coins have a height above the bound.
THEOREM ViewsTypeCorrect == Spec => []TypeOK
<1>1. Init => ViewsInv
  BY ViewsInit
<1>2. ViewsInv /\ [Next]_vars => ViewsInv'
  BY ViewsStep
<1>3. ViewsInv => TypeOK
  <2> SUFFICES ASSUME ViewsInv PROVE TypeOK
    OBVIOUS
  <2>1. GoodCoins \subseteq Coins
    BY DEF GoodCoins
  <2>2. IsCache(tip) /\ IsCache(view)
    BY <2>1 DEF ViewsInv, CoinsInv, SoundOver, IsCache, Entries
  <2>3. diskCoins \in [Txs -> Coins]
    BY <2>1 DEF ViewsInv, CoinsInv
  <2> QED BY <2>2, <2>3 DEF TypeOK, ViewsInv, ControlTypeOK
<1> QED BY <1>1, <1>2, <1>3, PTL DEF Spec

\* The flags of the entries of pcoinsTip and of a block's view are true at any
\* time (the comments at CCoinsCacheEntry::Flags), through connects, partial
\* disconnects, flushes, failed writes and crashes, for any transactions.
THEOREM FlagsAlwaysSound == Spec => []FlagsSound
<1>1. Init => ViewsInv
  BY ViewsInit
<1>2. ViewsInv /\ [Next]_vars => ViewsInv'
  BY ViewsStep
<1>3. ViewsInv => FlagsSound
  <2> SUFFICES ASSUME ViewsInv PROVE FlagsSound
    OBVIOUS
  <2>1. \A t \in DOMAIN view : TipGet(t) = TipUtxo[t]
    BY ReadsThrough DEF ViewsInv, CoinsInv, SoundOver
  <2>2. \A t \in DOMAIN tip : BaseGet(t) = NoUtxo[t]
    BY DEF ViewsInv, CoinsInv, SoundOver, BaseGet, NoUtxo
  <2> QED BY <2>1, <2>2 DEF ViewsInv, CoinsInv, SoundOver, FlagsSound, FlagsSoundIn
<1> QED BY <1>1, <1>2, <1>3, PTL DEF Spec

\* The stack of caches over the database implements three plain sets of
\* unspent outputs: what a block changes shows in its own view at once, in
\* pcoinsTip when the view is flushed as a whole, in the database when
\* pcoinsTip is; a write, a crash and a refused write leave nothing to be found.
THEOREM CachesImplementUtxoSet == Spec => ImplementsUtxoSet
<1>1. Init => ViewsInv /\ Utxo!InitUtxo
  BY ViewsInit
<1>2. ViewsInv /\ [Next]_vars => ViewsInv' /\ [Utxo!NextUtxo]_(Utxo!utxoVars)
  BY ViewsStep
<1> QED BY <1>1, <1>2, PTL DEF Spec, ImplementsUtxoSet, Utxo!UtxoSpec

-----------------------------------------------------------------------------
(* Chains and the coins they leave.                                         *)

BlockEntries == [tx : Txs, undoHeight : Heights]

\* The coins after an entry of a block at height h, when u are those before it.
AfterTx(u, t, h) ==
    IF t \in Coinbases THEN [u EXCEPT ![t] = FromTx(t, h)]
    ELSE [[u EXCEPT ![InputOf[t].tx] = Spend(u[InputOf[t].tx], InputOf[t].n)]
             EXCEPT ![t] = FromTx(t, h)]

\* What ConnectBlock has found for the entry of a block, with the coins u
\* before it, when it has connected it.
Fits(u, e) ==
    /\ u[e.tx] = NoCoins
    /\ e.tx \notin Coinbases =>
         LET in == InputOf[e.tx]
         IN  /\ u[in.tx] \in GoodCoins
             /\ in.n \in u[in.tx].outs
             /\ u[in.tx].height > 0
             /\ e.undoHeight = UndoHeight(u[in.tx], in.n)

\* What is at a place, and the height of its block.
EntryAt(chain, p) == chain[p[1]][p[2]]
HeightAt(p) == p[1]

\* The coins before the transaction at place p of a chain.
UtxoBefore(chain, p) == UtxoAfter(chain, {q \in Places(chain) : Before(q, p)})

\* A chain each transaction of which fits what is before it.
ValidChain(chain) == \A p \in Places(chain) : Fits(UtxoBefore(chain, p), EntryAt(chain, p))

\* Coins are of a block above the genesis block.
Positive(u) == \A t \in Txs : u[t].outs # {} => u[t].height > 0

\* DisconnectBlock finds that an entry fits, and undoes it.
LEMMA UndoUndoes ==
  ASSUME NEW u, u = [x \in Txs |-> u[x]], NEW e \in BlockEntries, NEW h,
         Fits(u, e)
  PROVE  UndoFits(AfterTx(u, e.tx, h), e, h) /\ Undone(AfterTx(u, e.tx, h), e) = u
<1> DEFINE t == e.tx
           i == InputOf[t].tx
           n == InputOf[t].n
           v == AfterTx(u, t, h)
<1>1. t \in Txs /\ u[t] = NoCoins
  BY DEF BlockEntries, Fits
<1>2. CASE t \in Coinbases
  <2>1. v = [u EXCEPT ![t] = FromTx(t, h)]
    BY <1>2 DEF AfterTx
  <2>2. UndoFits(v, e, h)
    BY <1>1, <1>2, <2>1 DEF UndoFits
  <2>3. Undone(v, e) = u
    BY <1>1, <1>2, <2>1 DEF Undone
  <2> QED BY <2>2, <2>3
<1>3. CASE t \notin Coinbases
  <2>1. i \in Txs /\ n \in Nat /\ i # t
    BY <1>1, <1>3, TransactionsAssumption
  <2>2. v = [[u EXCEPT ![i] = Spend(u[i], n)] EXCEPT ![t] = FromTx(t, h)]
    BY <1>3 DEF AfterTx
  <2>3. v[t] = FromTx(t, h) /\ v[i] = Spend(u[i], n)
    BY <1>1, <2>1, <2>2
  <2> DEFINE c == u[i]
             r == Restored(Spend(c, n), n, e.undoHeight)
  <2>4. /\ n \in c.outs /\ c.height > 0 /\ e.undoHeight = UndoHeight(c, n)
        /\ c \in GoodCoins /\ c \in Coins
    BY <1>3, <2>1 DEF Fits, GoodCoins
  <2>5. c = [outs |-> c.outs, height |-> c.height] /\ c.height \in Nat
    BY <2>4 DEF Coins, Heights
  <2>6. r = c /\ n \notin Spend(c, n).outs
        /\ IF e.undoHeight # 0 THEN IsPruned(Spend(c, n)) ELSE ~IsPruned(Spend(c, n))
    <3> HIDE DEF c
    <3>1. CASE c.outs = {n}
      <4>1. Spend(c, n) = NoCoins /\ IsPruned(Spend(c, n))
        BY <3>1 DEF Spend, NoCoins, IsPruned
      <4>2. e.undoHeight = c.height /\ e.undoHeight # 0
        BY <2>4, <2>5, <4>1 DEF UndoHeight
      <4>3. r = [outs |-> {n}, height |-> c.height]
        BY <4>2 DEF Restored
      <4> QED BY <2>5, <3>1, <4>1, <4>2, <4>3 DEF NoCoins
    <3>2. CASE c.outs # {n}
      <4>1. Spend(c, n) = [outs |-> c.outs \ {n}, height |-> c.height]
        BY <2>5, <3>2 DEF Spend
      <4>2. c.outs \ {n} # {}
        BY <2>4, <3>2
      <4>3. e.undoHeight = 0 /\ ~IsPruned(Spend(c, n))
        BY <2>4, <4>1, <4>2 DEF UndoHeight, IsPruned
      <4>4. r = [outs |-> (c.outs \ {n}) \cup {n}, height |-> c.height]
        BY <4>1, <4>3 DEF Restored
      <4>5. (c.outs \ {n}) \cup {n} = c.outs
        BY <2>4
      <4> QED BY <2>5, <4>1, <4>3, <4>4, <4>5
    <3> QED BY <3>1, <3>2
  <2>7. UndoFits(v, e, h)
    BY <1>3, <2>3, <2>6 DEF UndoFits
  <2>8. Undone(v, e) = [[v EXCEPT ![t] = NoCoins] EXCEPT ![i] = u[i]]
    BY <1>3, <2>3, <2>6 DEF Undone
  <2> HIDE DEF v
  <2>9. [[v EXCEPT ![t] = NoCoins] EXCEPT ![i] = u[i]] = u
    BY <1>1, <2>1, <2>2 DEF v
  <2> QED BY <2>7, <2>8, <2>9 DEF v
<1> QED BY <1>2, <1>3

\* The coins an entry is connected to keep their heights above 0 ...
LEMMA AfterPositive ==
  ASSUME NEW u \in [Txs -> GoodCoins], Positive(u), NEW t \in Txs, NEW h \in Heights, h > 0
  PROVE  Positive(AfterTx(u, t, h))
<1>1. FromTx(t, h).height = h
  BY DEF FromTx
<1>2. CASE t \in Coinbases
  BY <1>1, <1>2 DEF AfterTx, Positive
<1>3. CASE t \notin Coinbases
  <2> DEFINE i == InputOf[t].tx
             s == Spend(u[i], InputOf[t].n)
  <2>1. i \in Txs
    BY <1>3, TransactionsAssumption
  <2>2. u[i] \in Coins /\ (u[i].outs # {} => u[i].height > 0)
    BY <2>1 DEF GoodCoins, Positive
  <2>3. s.outs # {} => s.height > 0
    <3>1. CASE u[i].outs = {InputOf[t].n}
      BY <3>1 DEF Spend, NoCoins
    <3>2. CASE u[i].outs # {InputOf[t].n}
      BY <2>2, <3>2 DEF Spend, Coins
    <3> QED BY <3>1, <3>2
  <2> HIDE DEF s
  <2>4. AfterTx(u, t, h) = [[u EXCEPT ![i] = s] EXCEPT ![t] = FromTx(t, h)]
    BY <1>3 DEF AfterTx, s
  <2> QED BY <1>1, <2>1, <2>3, <2>4 DEF Positive
<1> QED BY <1>2, <1>3

\* ... and so do those that are left when it is disconnected.
LEMMA UndonePositive ==
  ASSUME NEW v \in [Txs -> GoodCoins], Positive(v), NEW e \in BlockEntries, NEW h,
         UndoFits(v, e, h)
  PROVE  Positive(Undone(v, e))
<1> DEFINE t == e.tx
           i == InputOf[t].tx
           r == Restored(v[i], InputOf[t].n, e.undoHeight)
<1>1. t \in Txs /\ e.undoHeight \in Nat
  BY DEF BlockEntries, Heights
<1>2. NoCoins.outs = {}
  BY DEF NoCoins
<1>3. CASE t \in Coinbases
  BY <1>2, <1>3 DEF Undone, Positive
<1>4. CASE t \notin Coinbases
  <2>1. i \in Txs
    BY <1>1, <1>4, TransactionsAssumption
  <2>2. r.height > 0
    <3>1. CASE e.undoHeight # 0
      BY <1>1, <3>1 DEF Restored
    <3>2. CASE e.undoHeight = 0
      <4>1. v[i].outs # {} /\ v[i].height > 0 /\ v[i] \in Coins
        BY <1>4, <2>1, <3>2 DEF UndoFits, IsPruned, Positive, GoodCoins
      <4> QED BY <3>2, <4>1 DEF Restored, Coins
    <3> QED BY <3>1, <3>2
  <2> HIDE DEF r
  <2>3. Undone(v, e) = [[v EXCEPT ![t] = NoCoins] EXCEPT ![i] = r]
    BY <1>4 DEF Undone, r
  <2> QED BY <1>2, <2>1, <2>2, <2>3 DEF Positive
<1> QED BY <1>3, <1>4

\* What a chain leaves after some places depends on the transactions there only.
LEMMA SamePlaces ==
  ASSUME NEW c, NEW d, NEW P, \A p \in P : TxAt(c, p) = TxAt(d, p)
  PROVE  UtxoAfter(c, P) = UtxoAfter(d, P)
<1>1. ASSUME NEW t \in Txs
      PROVE  CoinsAfter(c, P, t) = CoinsAfter(d, P, t)
  <2>1. Made(c, P, t) = Made(d, P, t)
    BY DEF Made
  <2>2. LastMade(c, P, t) = LastMade(d, P, t)
    BY <2>1 DEF LastMade
  <2>3. Unspent(c, P, t) = Unspent(d, P, t)
    BY <2>1 DEF Unspent
  <2> QED BY <2>1, <2>2, <2>3 DEF CoinsAfter
<1> QED BY <1>1 DEF UtxoAfter

\* One more transaction, at place p after all others, does what AfterTx says.
LEMMA OneMore ==
  ASSUME NEW c, NEW P, NEW p, \A q \in P : Before(q, p) /\ ~Before(p, q),
         p \notin P, ~Before(p, p),
         NEW t, t = TxAt(c, p), t \in Txs,
         NEW Q, Q = P \cup {p}
  PROVE  UtxoAfter(c, Q) = AfterTx(UtxoAfter(c, P), t, p[1])
<1> DEFINE u == UtxoAfter(c, P)
<1>1. DOMAIN u = Txs /\ \A x \in Txs : u[x] = CoinsAfter(c, P, x)
  BY DEF UtxoAfter
<1>2. u = [x \in Txs |-> u[x]]
  BY DEF UtxoAfter
<1> HIDE DEF u
<1>3. CoinsAfter(c, Q, t) = FromTx(t, p[1])
  <2>1. p \in Made(c, Q, t)
    BY DEF Made
  <2>2. Unspent(c, Q, t) = OutputsOf[t]
    <3>1. ASSUME NEW q \in Q, \A r \in Made(c, Q, t) : Before(r, q)
          PROVE  FALSE
      <4>1. Before(p, q)
        BY <2>1, <3>1
      <4> QED BY <4>1
    <3> QED BY <3>1 DEF Unspent
  <2>3. LastMade(c, Q, t) = p
    <3>1. \A r \in Made(c, Q, t) : r = p \/ Before(r, p)
      BY DEF Made
    <3> DEFINE l == LastMade(c, Q, t)
    <3>2. l \in Made(c, Q, t) /\ \A r \in Made(c, Q, t) : r = l \/ Before(r, l)
      BY <2>1, <3>1 DEF LastMade
    <3>3. l \in Q /\ (p = l \/ Before(p, l))
      BY <2>1, <3>2 DEF Made
    <3> QED BY <3>3
  <2>4. OutputsOf[t] # {}
    BY TransactionsAssumption
  <2> QED BY <2>1, <2>2, <2>3, <2>4 DEF FromTx, CoinsAfter
<1>4. ASSUME NEW x \in Txs, x # t
      PROVE  /\ Made(c, Q, x) = Made(c, P, x)
             /\ LastMade(c, Q, x) = LastMade(c, P, x)
             /\ \A n : n \in Unspent(c, Q, x) <=>
                    n \in Unspent(c, P, x) /\ ~ (t \notin Coinbases /\ InputOf[t] = [tx |-> x, n |-> n])
  <2>1. Made(c, Q, x) = Made(c, P, x)
    BY <1>4 DEF Made
  <2>2. LastMade(c, Q, x) = LastMade(c, P, x)
    BY <2>1 DEF LastMade
  <2>3. \A r \in Made(c, P, x) : Before(r, p)
    BY DEF Made
  <2>4. ASSUME NEW n
        PROVE  n \in Unspent(c, Q, x) <=>
                 n \in Unspent(c, P, x) /\ ~ (t \notin Coinbases /\ InputOf[t] = [tx |-> x, n |-> n])
    <3>1. n \in Unspent(c, Q, x) <=>
            n \in OutputsOf[x] /\ ~ \E q \in Q :
              /\ TxAt(c, q) \notin Coinbases
              /\ InputOf[TxAt(c, q)] = [tx |-> x, n |-> n]
              /\ \A r \in Made(c, P, x) : Before(r, q)
      BY <2>1 DEF Unspent
    <3>2. n \in Unspent(c, P, x) <=>
            n \in OutputsOf[x] /\ ~ \E q \in P :
              /\ TxAt(c, q) \notin Coinbases
              /\ InputOf[TxAt(c, q)] = [tx |-> x, n |-> n]
              /\ \A r \in Made(c, P, x) : Before(r, q)
      BY DEF Unspent
    <3> QED BY <2>3, <3>1, <3>2
  <2> QED BY <2>1, <2>2, <2>4
<1>5. ASSUME NEW x \in Txs, x # t, t \in Coinbases \/ InputOf[t].tx # x
      PROVE  CoinsAfter(c, Q, x) = u[x]
  <2>1. \A n : ~ (t \notin Coinbases /\ InputOf[t] = [tx |-> x, n |-> n])
    BY <1>5
  <2>2. Unspent(c, Q, x) = Unspent(c, P, x)
    BY <1>4, <1>5, <2>1
  <2> QED BY <1>1, <1>4, <1>5, <2>2 DEF CoinsAfter
<1>6. ASSUME NEW x \in Txs, x # t, t \notin Coinbases, InputOf[t].tx = x
      PROVE  CoinsAfter(c, Q, x) = Spend(u[x], InputOf[t].n)
  <2> DEFINE n == InputOf[t].n
             left == Unspent(c, P, x)
  <2>1. InputOf[t] = [tx |-> x, n |-> n]
    BY <1>6, TransactionsAssumption
  <2>2. \A m : InputOf[t] = [tx |-> x, n |-> m] <=> m = n
    BY <2>1
  <2>3. Unspent(c, Q, x) = left \ {n}
    <3>1. \A m : m \in Unspent(c, Q, x) <=> m \in left /\ m # n
      BY <1>4, <1>6, <2>2
    <3> QED BY <3>1
  <2>4. /\ Made(c, Q, x) = Made(c, P, x)
        /\ LastMade(c, Q, x) = LastMade(c, P, x)
    BY <1>4, <1>6
  <2> HIDE DEF left
  <2>5. u[x] = IF Made(c, P, x) = {} \/ left = {} THEN NoCoins
               ELSE [outs |-> left, height |-> LastMade(c, P, x)[1]]
    BY <1>1 DEF CoinsAfter, left
  <2>6. CoinsAfter(c, Q, x) =
            IF Made(c, P, x) = {} \/ left \ {n} = {} THEN NoCoins
            ELSE [outs |-> left \ {n}, height |-> LastMade(c, P, x)[1]]
    BY <2>3, <2>4 DEF CoinsAfter
  <2>7. CASE Made(c, P, x) = {} \/ left = {}
    <3>1. CoinsAfter(c, Q, x) = NoCoins /\ u[x] = NoCoins
      BY <2>5, <2>6, <2>7
    <3>2. Spend(NoCoins, n) = NoCoins
      BY DEF Spend, NoCoins
    <3> QED BY <3>1, <3>2
  <2>8. CASE ~ (Made(c, P, x) = {} \/ left = {})
    <3>1. u[x] = [outs |-> left, height |-> LastMade(c, P, x)[1]]
      BY <2>5, <2>8
    <3>2. CASE left = {n}
      BY <2>6, <3>1, <3>2 DEF Spend
    <3>3. CASE left # {n}
      <4>1. Spend(u[x], n) = [outs |-> left \ {n}, height |-> LastMade(c, P, x)[1]]
        BY <3>1, <3>3 DEF Spend
      <4>2. left \ {n} # {}
        BY <2>8, <3>3
      <4> QED BY <2>6, <2>8, <4>1, <4>2
    <3> QED BY <3>2, <3>3
  <2> QED BY <2>7, <2>8
<1>7. UtxoAfter(c, Q) = [x \in Txs |-> CoinsAfter(c, Q, x)]
  BY DEF UtxoAfter
<1>8. ASSUME NEW x \in Txs
      PROVE  CoinsAfter(c, Q, x) = AfterTx(u, t, p[1])[x]
  <2>1. CASE t \in Coinbases
    BY <1>1, <1>3, <1>5, <2>1 DEF AfterTx
  <2>2. CASE t \notin Coinbases
    <3>1. InputOf[t].tx \in Txs /\ InputOf[t].tx # t
      BY <2>2, TransactionsAssumption
    <3> QED BY <1>1, <1>3, <1>5, <1>6, <2>2, <3>1 DEF AfterTx
  <2> QED BY <2>1, <2>2
<1>9. AfterTx(u, t, p[1]) = [x \in Txs |-> AfterTx(u, t, p[1])[x]]
  BY <1>1, <1>2 DEF AfterTx
<1> QED BY <1>7, <1>8, <1>9 DEF u

\* Which places a chain has.
LEMMA PlacesOf ==
  ASSUME NEW c \in Seq(Blocks)
  PROVE  /\ Len(c) \in Nat /\ DOMAIN c = 1..Len(c)
         /\ \A b \in 1..Len(c) : /\ c[b] \in Blocks /\ Len(c[b]) \in Nat
                                 /\ DOMAIN c[b] = 1..Len(c[b])
         /\ \A p : p \in Places(c) <=>
                \E b \in 1..Len(c) : \E i \in 1..Len(c[b]) : p = <<b, i>>
<1>1. Len(c) \in Nat /\ DOMAIN c = 1..Len(c)
  BY LenProperties
<1>2. ASSUME NEW b \in 1..Len(c)
      PROVE  c[b] \in Blocks /\ Len(c[b]) \in Nat /\ DOMAIN c[b] = 1..Len(c[b])
  <2> DEFINE S == BlockEntries
  <2>1. c[b] \in Blocks
    BY <1>1, ElementOfSeq
  <2>2. c[b] \in Seq(S)
    BY <2>1 DEF Blocks, BlockEntries
  <2> HIDE DEF S
  <2> QED BY <2>1, <2>2, LenProperties
<1>3. ASSUME NEW p
      PROVE  p \in Places(c) <=> \E b \in 1..Len(c) : \E i \in 1..Len(c[b]) : p = <<b, i>>
  <2>1. p \in Places(c) <=> \E b \in DOMAIN c : p \in {<<b, i>> : i \in DOMAIN c[b]}
    BY DEF Places
  <2> QED BY <1>1, <1>2, <2>1
<1> QED BY <1>1, <1>2, <1>3

\* Only the order of numbers matters of places.
LEMMA BeforeIsOrder ==
  ASSUME NEW a \in Nat, NEW b \in Nat, NEW i \in Nat, NEW j \in Nat
  PROVE  /\ Before(<<a, i>>, <<b, j>>) <=> a < b \/ (a = b /\ i < j)
         /\ Before(<<a, i>>, <<b, j>>) => ~Before(<<b, j>>, <<a, i>>)
         /\ ~Before(<<a, i>>, <<a, i>>)
BY DEF Before

\* A chain with a block on top, and a block with one more transaction.
OnTop(chain, k) == Append(chain, k)
Longer(k, e) == Append(k, e)

\* The chain with one more transaction e in its last block: its place is after
\* all others, which hold what they held.
LEMMA PlacesOneMore ==
  ASSUME NEW c \in Seq(Blocks), NEW k \in Blocks, NEW e \in BlockEntries
  PROVE  LET x == OnTop(c, k)
             y == OnTop(c, Longer(k, e))
         IN  /\ x \in Seq(Blocks) /\ y \in Seq(Blocks) /\ Longer(k, e) \in Blocks
             /\ \E p : /\ Places(y) = Places(x) \cup {p} /\ p \notin Places(x)
                       /\ EntryAt(y, p) = e /\ HeightAt(p) = Len(c) + 1
                       /\ \A q \in Places(x) : EntryAt(y, q) = EntryAt(x, q)
                       /\ \A q \in Places(x) : Before(q, p) /\ ~Before(p, q)
                       /\ ~Before(p, p)
<1> DEFINE x == OnTop(c, k)
           l == Longer(k, e)
           y == OnTop(c, l)
           p == <<Len(c) + 1, Len(k) + 1>>
<1>1. /\ l \in Blocks /\ Len(k) \in Nat /\ Len(l) = Len(k) + 1
      /\ \A i \in 1..Len(k) : l[i] = k[i]
      /\ l[Len(k) + 1] = e
  <2> DEFINE S == BlockEntries
  <2>1. k \in Seq(S) /\ e \in S
    BY DEF Blocks, BlockEntries
  <2>2. Blocks = Seq(S)
    BY DEF Blocks, BlockEntries
  <2> HIDE DEF S
  <2> QED BY <2>1, <2>2, AppendProperties, LenProperties DEF Longer
<1> HIDE DEF l
<1>2. /\ x \in Seq(Blocks) /\ y \in Seq(Blocks)
      /\ Len(c) \in Nat /\ Len(x) = Len(c) + 1 /\ Len(y) = Len(c) + 1
      /\ \A b \in 1..Len(c) : x[b] = c[b] /\ y[b] = c[b]
      /\ x[Len(c) + 1] = k /\ y[Len(c) + 1] = l
  BY <1>1, AppendProperties, LenProperties DEF OnTop
<1> HIDE DEF x, y
<1>3. \A q : q \in Places(x) <=> \E b \in 1..Len(x) : \E i \in 1..Len(x[b]) : q = <<b, i>>
  BY <1>2, PlacesOf
<1>4. \A q : q \in Places(y) <=> \E b \in 1..Len(y) : \E i \in 1..Len(y[b]) : q = <<b, i>>
  BY <1>2, PlacesOf
<1>5. \A b \in 1..Len(x) : b \in 1..Len(c) \/ b = Len(c) + 1
  BY <1>2
<1>6. \A b \in 1..Len(x) : Len(x[b]) \in Nat
  BY <1>2, PlacesOf
<1>7. ASSUME NEW q \in Places(x)
      PROVE  /\ q \in Places(y) /\ q # p
             /\ EntryAt(y, q) = EntryAt(x, q)
             /\ Before(q, p) /\ ~Before(p, q)
  <2>1. PICK b \in 1..Len(x) : \E i \in 1..Len(x[b]) : q = <<b, i>>
    BY <1>3
  <2>2. PICK i \in 1..Len(x[b]) : q = <<b, i>>
    BY <2>1
  <2>3. b \in Nat /\ i \in Nat /\ b \in 1..Len(y) /\ q[1] = b /\ q[2] = i
    BY <1>2, <1>6, <2>2
  <2>4. CASE b \in 1..Len(c)
    <3>1. x[b] = y[b] /\ b < Len(c) + 1
      BY <1>2, <2>4
    <3>2. i \in 1..Len(y[b])
      BY <3>1
    <3>3. q \in Places(y)
      BY <1>4, <2>2, <2>3, <3>2
    <3>4. Before(q, p) /\ ~Before(p, q)
      BY <1>1, <1>2, <2>2, <2>3, <3>1, BeforeIsOrder
    <3> QED BY <2>2, <2>3, <1>2, <3>1, <3>3, <3>4 DEF EntryAt
  <2>5. CASE b = Len(c) + 1
    <3>1. i \in 1..Len(k) /\ i < Len(k) + 1 /\ i \in 1..Len(l)
      BY <1>1, <1>2, <2>5
    <3>2. q \in Places(y)
      BY <1>2, <1>4, <2>2, <2>3, <2>5, <3>1
    <3>3. y[b][i] = x[b][i]
      BY <1>1, <1>2, <2>5, <3>1
    <3>4. Before(q, p) /\ ~Before(p, q)
      BY <1>1, <1>2, <2>2, <2>3, <2>5, <3>1, BeforeIsOrder
    <3> QED BY <1>1, <2>2, <2>3, <3>1, <3>2, <3>3, <3>4 DEF EntryAt
  <2> QED BY <1>5, <2>4, <2>5
<1>8. p \in Places(y) /\ EntryAt(y, p) = e
  <2>1. Len(c) + 1 \in 1..Len(y) /\ Len(k) + 1 \in 1..Len(l)
    BY <1>1, <1>2
  <2> QED BY <1>1, <1>2, <1>4, <2>1 DEF EntryAt
<1>9. ASSUME NEW q \in Places(y), q # p
      PROVE  q \in Places(x)
  <2>1. PICK b \in 1..Len(y) : \E i \in 1..Len(y[b]) : q = <<b, i>>
    BY <1>4
  <2>2. PICK i \in 1..Len(y[b]) : q = <<b, i>>
    BY <2>1
  <2>3. b \in 1..Len(x)
    BY <1>2
  <2>4. i \in 1..Len(x[b])
    <3>1. CASE b \in 1..Len(c)
      BY <1>2, <3>1
    <3>2. CASE b = Len(c) + 1
      <4>1. i # Len(k) + 1 /\ i \in 1..(Len(k) + 1)
        BY <1>1, <1>2, <1>9, <2>2, <3>2
      <4> QED BY <1>1, <1>2, <3>2, <4>1
    <3> QED BY <1>5, <2>3, <3>1, <3>2
  <2> QED BY <1>3, <2>2, <2>3, <2>4
<1>10. ~Before(p, p)
  BY <1>1, <1>2, BeforeIsOrder
<1>11. Places(y) = Places(x) \cup {p} /\ p \notin Places(x)
  BY <1>7, <1>8, <1>9
<1>12. HeightAt(p) = Len(c) + 1
  BY DEF HeightAt
<1> HIDE DEF p
<1>13. /\ x \in Seq(Blocks) /\ y \in Seq(Blocks) /\ l \in Blocks
       /\ Places(y) = Places(x) \cup {p} /\ p \notin Places(x)
       /\ EntryAt(y, p) = e /\ HeightAt(p) = Len(c) + 1
       /\ \A q \in Places(x) : EntryAt(y, q) = EntryAt(x, q)
       /\ \A q \in Places(x) : Before(q, p) /\ ~Before(p, q)
       /\ ~Before(p, p)
  BY <1>1, <1>2, <1>7, <1>8, <1>10, <1>11, <1>12
<1> QED BY <1>13 DEF x, y, l

\* Two chains with the same transactions at the same places leave the same
\* coins, and are both valid or both not.
LEMMA SameChain ==
  ASSUME NEW c, NEW d, Places(c) = Places(d),
         \A p \in Places(c) : EntryAt(c, p) = EntryAt(d, p)
  PROVE  UtxoOf(c) = UtxoOf(d) /\ (ValidChain(c) <=> ValidChain(d))
<1>1. \A p \in Places(c) : TxAt(c, p) = TxAt(d, p)
  BY DEF TxAt, EntryAt
<1>2. UtxoOf(c) = UtxoOf(d)
  BY <1>1, SamePlaces DEF UtxoOf
<1>3. ASSUME NEW p \in Places(c)
      PROVE  UtxoBefore(c, p) = UtxoBefore(d, p)
  <2> DEFINE P == {q \in Places(c) : Before(q, p)}
  <2>1. \A q \in P : TxAt(c, q) = TxAt(d, q)
    BY <1>1
  <2>2. UtxoBefore(c, p) = UtxoAfter(c, P) /\ UtxoBefore(d, p) = UtxoAfter(d, P)
    BY DEF UtxoBefore
  <2> HIDE DEF P
  <2> QED BY <2>1, <2>2, SamePlaces
<1> QED BY <1>2, <1>3 DEF ValidChain

\* One more transaction in the last block does what AfterTx says, and the chain
\* is valid when it was and the transaction fits.
LEMMA ChainOneMore ==
  ASSUME NEW c \in Seq(Blocks), NEW k \in Blocks, NEW e \in BlockEntries
  PROVE  LET x == OnTop(c, k)
             y == OnTop(c, Longer(k, e))
         IN  /\ UtxoOf(y) = AfterTx(UtxoOf(x), e.tx, Len(c) + 1)
             /\ ValidChain(y) <=> ValidChain(x) /\ Fits(UtxoOf(x), e)
<1> DEFINE x == OnTop(c, k)
           y == OnTop(c, Longer(k, e))
<1>1. PICK p :
      /\ Places(y) = Places(x) \cup {p} /\ p \notin Places(x)
      /\ EntryAt(y, p) = e /\ HeightAt(p) = Len(c) + 1
      /\ \A q \in Places(x) : EntryAt(y, q) = EntryAt(x, q)
      /\ \A q \in Places(x) : Before(q, p) /\ ~Before(p, q)
      /\ ~Before(p, p)
  BY PlacesOneMore
<1> HIDE DEF x, y
<1>2. \A q \in Places(x) : TxAt(y, q) = TxAt(x, q)
  BY <1>1 DEF TxAt, EntryAt
<1>3. TxAt(y, p) = e.tx /\ e.tx \in Txs
  BY <1>1 DEF TxAt, EntryAt, BlockEntries
<1>4. UtxoAfter(y, Places(x)) = UtxoOf(x)
  BY <1>2, SamePlaces DEF UtxoOf
<1>5. UtxoOf(y) = AfterTx(UtxoOf(x), e.tx, Len(c) + 1)
  <2>1. UtxoAfter(y, Places(y)) = AfterTx(UtxoAfter(y, Places(x)), e.tx, HeightAt(p))
    BY <1>1, <1>3, OneMore DEF HeightAt
  <2> QED BY <1>1, <1>4, <2>1 DEF UtxoOf
<1>6. UtxoBefore(y, p) = UtxoOf(x)
  <2>1. {q \in Places(y) : Before(q, p)} = Places(x)
    BY <1>1
  <2> QED BY <1>4, <2>1 DEF UtxoBefore
<1>7. ASSUME NEW q \in Places(x)
      PROVE  UtxoBefore(y, q) = UtxoBefore(x, q)
  <2> DEFINE P == {r \in Places(x) : Before(r, q)}
  <2>1. {r \in Places(y) : Before(r, q)} = P
    BY <1>1
  <2>2. \A r \in P : TxAt(y, r) = TxAt(x, r)
    BY <1>2
  <2>3. UtxoBefore(y, q) = UtxoAfter(y, P) /\ UtxoBefore(x, q) = UtxoAfter(x, P)
    BY <2>1 DEF UtxoBefore
  <2> HIDE DEF P
  <2> QED BY <2>2, <2>3, SamePlaces
<1>8. ValidChain(y) <=> ValidChain(x) /\ Fits(UtxoOf(x), e)
  BY <1>1, <1>6, <1>7 DEF ValidChain
<1> QED BY <1>5, <1>8 DEF x, y

\* A block without transactions that show changes nothing.
LEMMA EmptyBlock ==
  ASSUME NEW c \in Seq(Blocks)
  PROVE  LET x == OnTop(c, <<>>)
         IN  UtxoOf(x) = UtxoOf(c) /\ (ValidChain(x) <=> ValidChain(c))
<1> DEFINE x == OnTop(c, <<>>)
<1>1. <<>> \in Blocks
  BY DEF Blocks
<1>2. /\ x \in Seq(Blocks) /\ Len(c) \in Nat /\ Len(x) = Len(c) + 1
      /\ \A b \in 1..Len(c) : x[b] = c[b]
      /\ x[Len(c) + 1] = <<>>
  BY <1>1, AppendProperties, LenProperties DEF OnTop
<1> HIDE DEF x
<1>3. \A q : q \in Places(x) <=> \E b \in 1..Len(x) : \E i \in 1..Len(x[b]) : q = <<b, i>>
  BY <1>2, PlacesOf
<1>4. \A q : q \in Places(c) <=> \E b \in 1..Len(c) : \E i \in 1..Len(c[b]) : q = <<b, i>>
  BY PlacesOf
<1>5. ASSUME NEW q \in Places(c)
      PROVE  q \in Places(x) /\ EntryAt(x, q) = EntryAt(c, q)
  <2>1. PICK b \in 1..Len(c) : \E i \in 1..Len(c[b]) : q = <<b, i>>
    BY <1>4
  <2>2. PICK i \in 1..Len(c[b]) : q = <<b, i>>
    BY <2>1
  <2>3. x[b] = c[b] /\ b \in 1..Len(x)
    BY <1>2
  <2> QED BY <1>3, <2>2, <2>3 DEF EntryAt
<1>6. ASSUME NEW q \in Places(x)
      PROVE  q \in Places(c)
  <2>1. PICK b \in 1..Len(x) : \E i \in 1..Len(x[b]) : q = <<b, i>>
    BY <1>3
  <2>2. PICK i \in 1..Len(x[b]) : q = <<b, i>>
    BY <2>1
  <2>3. b # Len(c) + 1
    <3>1. SUFFICES ASSUME b = Len(c) + 1 PROVE FALSE
      OBVIOUS
    <3>2. x[b] = <<>> /\ i \in 1..0
      BY <1>2, <2>2, <3>1
    <3> QED BY <3>2
  <2>4. b \in 1..Len(c)
    BY <1>2, <2>3
  <2> QED BY <1>2, <1>4, <2>2, <2>4
<1>7. Places(x) = Places(c)
  BY <1>5, <1>6
<1> QED BY <1>5, <1>7, SameChain DEF x

\* The chain of no block.
LEMMA NoChain == UtxoOf(<<>>) = NoUtxo /\ ValidChain(<<>>)
<1>1. Places(<<>>) = {}
  BY DEF Places
<1>2. \A t : Made(<<>>, {}, t) = {}
  BY DEF Made
<1>3. UtxoOf(<<>>) = NoUtxo
  BY <1>1, <1>2 DEF UtxoOf, UtxoAfter, CoinsAfter, NoUtxo
<1> QED BY <1>1, <1>3 DEF ValidChain

\* A sequence that is not empty ends in its last element.
LEMMA LastOfSeq ==
  ASSUME NEW S, NEW s \in Seq(S), s # <<>>
  PROVE  /\ SubSeq(s, 1, Len(s) - 1) \in Seq(S) /\ s[Len(s)] \in S
         /\ Len(s) \in Nat /\ Len(s) > 0 /\ Len(SubSeq(s, 1, Len(s) - 1)) = Len(s) - 1
         /\ s = Append(SubSeq(s, 1, Len(s) - 1), s[Len(s)])
<1>1. Len(s) \in Nat /\ Len(s) > 0
  BY EmptySeq, LenProperties
<1>2. s[Len(s)] \in S
  BY <1>1, ElementOfSeq
<1> DEFINE f == SubSeq(s, 1, Len(s) - 1)
<1>3. f \in Seq(S) /\ Len(f) = Len(s) - 1 /\ \A i \in 1..(Len(s) - 1) : f[i] = s[i]
  <2> DEFINE n == Len(s)
  <2>1. n \in Nat /\ n > 0
    BY <1>1
  <2>2. \A i \in 1..n : s[i] \in S
    BY ElementOfSeq
  <2>3. f = SubSeq(s, 1, n - 1)
    OBVIOUS
  <2> HIDE DEF n, f
  <2>4. 1 \in Int /\ n - 1 \in Int /\ \A i \in 1..(n - 1) : s[i] \in S
    BY <2>1, <2>2
  <2>5. /\ f \in Seq(S)
        /\ Len(f) = IF 1 <= n - 1 THEN n - 1 - 1 + 1 ELSE 0
        /\ \A i \in 1 .. (n - 1 - 1 + 1) : f[i] = s[1 + i - 1]
    <3>1. \A m, k \in Int : (\A i \in m .. k : s[i] \in S) =>
            /\ SubSeq(s, m, k) \in Seq(S)
            /\ Len(SubSeq(s, m, k)) = IF m <= k THEN k - m + 1 ELSE 0
            /\ \A i \in 1 .. k - m + 1 : SubSeq(s, m, k)[i] = s[m + i - 1]
      BY SubSeqProperties
    <3> QED BY <2>3, <2>4, <3>1
  <2>6. n - 1 - 1 + 1 = n - 1 /\ (n = 1 \/ 1 <= n - 1) /\ \A i \in Nat : 1 + i - 1 = i
    BY <2>1
  <2>7. Len(f) = n - 1
    <3>1. CASE n = 1
      BY <2>5, <3>1
    <3>2. CASE 1 <= n - 1
      BY <2>5, <2>6, <3>2
    <3> QED BY <2>6, <3>1, <3>2
  <2>8. ASSUME NEW i \in 1..(n - 1) PROVE f[i] = s[i]
    <3>1. i \in Nat /\ i \in 1 .. (n - 1 - 1 + 1) /\ 1 + i - 1 = i
      BY <2>1, <2>6
    <3> QED BY <2>5, <3>1
  <2> QED BY <2>5, <2>7, <2>8 DEF n
<1>4. s = Append(f, s[Len(s)])
  <2> HIDE DEF f
  <2> DEFINE g == Append(f, s[Len(s)])
  <2>1. /\ g \in Seq(S) /\ Len(g) = Len(s)
        /\ \A i \in 1..(Len(s) - 1) : g[i] = s[i]
        /\ g[Len(s)] = s[Len(s)]
    BY <1>1, <1>2, <1>3, AppendProperties
  <2> HIDE DEF g
  <2>2. \A i \in 1..Len(s) : g[i] = s[i]
    BY <1>1, <2>1
  <2>3. g = s
    BY <2>1, <2>2, SeqEqual
  <2> QED BY <2>3 DEF g
<1> QED BY <1>1, <1>2, <1>3, <1>4

-----------------------------------------------------------------------------
(* The invariant of the chain's coins.                                      *)

Front(s) == SubSeq(s, 1, Len(s) - 1)
TxsOf(k) == {k[i].tx : i \in DOMAIN k}

\* The coins u are those of the valid chain c.
HoldsChain(u, c) == u = UtxoOf(c) /\ ValidChain(c) /\ Positive(u)

\* What keeps a block k in hand from connecting a transaction twice, though only
\* the tip's coins tp are asked for it (BIP30): the input of each of its
\* transactions is spent in its view u, and comes from the block or from a
\* transaction that BIP30 keeps out of it; others have only what the tip has.
BlockFits(u, tp, k) ==
    /\ \A t \in TxsOf(k) \ Coinbases :
         /\ InputOf[t].n \notin u[InputOf[t].tx].outs
         /\ InputOf[t].tx \in TxsOf(k) \/ ~IsPruned(tp[InputOf[t].tx])
    /\ \A t \in Txs \ TxsOf(k) : u[t].outs \subseteq tp[t].outs

\* Block b of chain c is part of the chain d that was written, what is left of c
\* without those blocks, and that d loses no block with transactions.
WrittenIn(c, d, b) == b \in DOMAIN d /\ \A i \in 1..b : c[i] = d[i]
NewOf(c, d) == [b \in DOMAIN c |-> IF WrittenIn(c, d, b) THEN <<>> ELSE c[b]]
Stay(c, d) == \A b \in DOMAIN d : d[b] # <<>> => b \in DOMAIN c /\ WrittenIn(c, d, b)

\* The coins w in the database are those of the chain d, except that a transaction
\* that is there twice and is spent may have coins.
DiskHolds(w, d) ==
    \A t \in Txs : \/ w[t] = UtxoOf(d)[t]
                   \/ /\ IsPruned(UtxoOf(d)[t])
                      /\ \E p, q \in Made(d, Places(d), t) : p # q

\* The tip and the block in hand hold the coins of the blocks that are not
\* written, and none are found when a written block is to be disconnected; the
\* database holds those of its chain until the shutdown after a failed write.
ChainInv ==
    /\ failures \in Nat
    /\ Stay(tipBest, diskBest)
    /\ phase = "aborting" => failures # 0
    /\ phase # "aborting" => HoldsChain(TipUtxo, NewBlocks)
    /\ phase = "connect" =>
         HoldsChain(ViewUtxo, OnTop(NewBlocks, block)) /\ BlockFits(ViewUtxo, TipUtxo, block)
    /\ phase = "disconnect" =>
         /\ tipBest # <<>>
         /\ IF IsWritten(Len(tipBest)) THEN block = tipBest[Len(tipBest)] /\ ViewUtxo = NoUtxo
            ELSE HoldsChain(ViewUtxo, OnTop(Front(NewBlocks), block))
    /\ phase = "unclean" => IsWritten(Len(tipBest))
    /\ failures = 0 \/ (failures = 1 /\ phase = "aborting") => DiskHolds(diskCoins, diskBest)

\* The transactions of a block with one more.
LEMMA TxsOfLonger ==
  ASSUME NEW k \in Blocks, NEW e \in BlockEntries
  PROVE  TxsOf(Longer(k, e)) = TxsOf(k) \cup {e.tx} /\ TxsOf(<<>>) = {} /\ TxsOf(k) \subseteq Txs
<1> DEFINE S == BlockEntries
           l == Longer(k, e)
<1>1. k \in Seq(S) /\ e \in S
  BY DEF Blocks, BlockEntries
<1> HIDE DEF S
<1>2. /\ DOMAIN k = 1..Len(k) /\ DOMAIN l = 1..(Len(k) + 1) /\ Len(k) \in Nat
      /\ \A i \in 1..Len(k) : l[i] = k[i] /\ k[i] \in S
      /\ l[Len(k) + 1] = e
  BY <1>1, AppendProperties, LenProperties, ElementOfSeq DEF Longer
<1> HIDE DEF l
<1>3. \A i : i \in 1..(Len(k) + 1) <=> i \in 1..Len(k) \/ i = Len(k) + 1
  BY <1>2
<1>4. TxsOf(l) = TxsOf(k) \cup {e.tx}
  BY <1>2, <1>3 DEF TxsOf
<1>5. TxsOf(k) \subseteq Txs
  BY <1>2 DEF TxsOf, S, BlockEntries
<1>6. TxsOf(<<>>) = {}
  BY DEF TxsOf
<1> QED BY <1>4, <1>5, <1>6 DEF l

\* What is left of an output set, whether the coins are pruned by it or not.
LEMMA SpendOuts ==
  ASSUME NEW c \in Coins, NEW n
  PROVE  Spend(c, n).outs = c.outs \ {n}
BY DEF Spend, Coins, NoCoins

\* ConnectBlock's checks of a transaction keep the view's coins those of the
\* chain with the block so far on top.
LEMMA ConnectOne ==
  ASSUME NEW u \in [Txs -> GoodCoins], NEW tp \in [Txs -> GoodCoins],
         NEW c \in Seq(Blocks), NEW k \in Blocks, NEW e \in BlockEntries,
         Len(c) + 1 \in Heights,
         HoldsChain(u, OnTop(c, k)), BlockFits(u, tp, k), IsPruned(tp[e.tx]),
         e.tx \in Coinbases => k = <<>>,
         e.tx \notin Coinbases =>
            /\ InputOf[e.tx].n \in u[InputOf[e.tx].tx].outs
            /\ e.undoHeight = UndoHeight(u[InputOf[e.tx].tx], InputOf[e.tx].n),
         NEW v, v = AfterTx(u, e.tx, Len(c) + 1)
  PROVE  HoldsChain(v, OnTop(c, Longer(k, e))) /\ BlockFits(v, tp, Longer(k, e))
<1> DEFINE t == e.tx
           i == InputOf[t].tx
           n == InputOf[t].n
           h == Len(c) + 1
<1>1. t \in Txs /\ (t \notin Coinbases => i \in Txs /\ i # t)
  BY TransactionsAssumption DEF BlockEntries
<1>2. h \in Heights /\ h > 0
  BY LenProperties
<1>3. /\ TxsOf(Longer(k, e)) = TxsOf(k) \cup {t} /\ TxsOf(k) \subseteq Txs
      /\ t \in Coinbases => TxsOf(k) = {}
  BY TxsOfLonger
<1>4. /\ \A s \in TxsOf(k) \ Coinbases :
           /\ InputOf[s].n \notin u[InputOf[s].tx].outs
           /\ InputOf[s].tx \in TxsOf(k) \/ ~IsPruned(tp[InputOf[s].tx])
      /\ \A s \in Txs \ TxsOf(k) : u[s].outs \subseteq tp[s].outs
  BY DEF BlockFits
<1>5. t \notin TxsOf(k)
  BY <1>3, <1>4
<1>6. u[t] = NoCoins
  BY <1>1, <1>4, <1>5 DEF GoodCoins, IsPruned
<1>7. t \notin Coinbases => u[i] \in GoodCoins /\ u[i].height > 0 /\ u[i] \in Coins
  BY <1>1 DEF HoldsChain, Positive, GoodCoins
<1>8. Fits(u, e)
  BY <1>6, <1>7 DEF Fits
<1>9. HoldsChain(v, OnTop(c, Longer(k, e)))
  <2>1. Positive(v)
    BY <1>1, <1>2, AfterPositive DEF HoldsChain
  <2> QED BY <1>8, <2>1, ChainOneMore DEF HoldsChain
<1>10. v[t] = FromTx(t, h)
  BY <1>1 DEF AfterTx
<1>11. t \notin Coinbases => v[i] = Spend(u[i], n) /\ v[i].outs = u[i].outs \ {n}
  BY <1>1, <1>7, SpendOuts DEF AfterTx
<1>12. \A s \in Txs : s # t /\ (t \in Coinbases \/ s # i) => v[s] = u[s]
  BY <1>1 DEF AfterTx
<1>13. \A s \in Txs \ {t} : v[s].outs \subseteq u[s].outs
  BY <1>1, <1>11, <1>12
<1>14. ASSUME NEW s \in TxsOf(Longer(k, e)) \ Coinbases
       PROVE  /\ InputOf[s].n \notin v[InputOf[s].tx].outs
              /\ InputOf[s].tx \in TxsOf(Longer(k, e)) \/ ~IsPruned(tp[InputOf[s].tx])
  <2>1. CASE s = t
    <3>1. n \in u[i].outs
      BY <2>1
    <3>2. i \in TxsOf(k) \/ ~IsPruned(tp[i])
      BY <1>1, <1>4, <2>1, <3>1 DEF IsPruned
    <3> QED BY <1>3, <1>11, <2>1, <3>2
  <2>2. CASE s # t
    <3>1. s \in TxsOf(k) \ Coinbases /\ s \in Txs
      BY <1>3, <2>2
    <3>2. InputOf[s].tx \in Txs
      BY <3>1, TransactionsAssumption
    <3>3. InputOf[s].tx # t
      BY <1>4, <1>5, <3>1
    <3> QED BY <1>3, <1>4, <1>13, <3>1, <3>2, <3>3
  <2> QED BY <2>1, <2>2
<1>15. \A s \in Txs \ TxsOf(Longer(k, e)) : v[s].outs \subseteq tp[s].outs
  BY <1>3, <1>4, <1>13
<1> QED BY <1>9, <1>14, <1>15 DEF BlockFits

\* DisconnectBlock's checks are met by the last transaction of a block that is
\* on top of the chain, and what they leave are the coins without it.
LEMMA DisconnectOne ==
  ASSUME NEW u \in [Txs -> GoodCoins], NEW c \in Seq(Blocks), NEW k \in Blocks,
         NEW e \in BlockEntries, HoldsChain(u, OnTop(c, Longer(k, e)))
  PROVE  UndoFits(u, e, Len(c) + 1) /\ HoldsChain(Undone(u, e), OnTop(c, k))
<1> DEFINE x == OnTop(c, k)
           o == UtxoOf(x)
           h == Len(c) + 1
<1>1. u = AfterTx(o, e.tx, h) /\ ValidChain(x) /\ Fits(o, e)
  BY ChainOneMore DEF HoldsChain
<1>2. o = [t \in Txs |-> o[t]]
  BY DEF UtxoOf, UtxoAfter
<1> HIDE DEF o
<1>3. UndoFits(u, e, h) /\ Undone(u, e) = o
  BY <1>1, <1>2, UndoUndoes
<1>4. Positive(u)
  BY DEF HoldsChain
<1>5. Positive(Undone(u, e))
  BY <1>3, <1>4, UndonePositive
<1> QED BY <1>1, <1>3, <1>5 DEF HoldsChain, o

\* A chain that is not empty is its last block on top of the others, and so is
\* a block its last transaction after the others.
LEMMA LastOnTop ==
  /\ \A c \in Seq(Blocks) : c # <<>> =>
        /\ Front(c) \in Seq(Blocks) /\ c[Len(c)] \in Blocks
        /\ Len(Front(c)) + 1 = Len(c)
        /\ c = OnTop(Front(c), c[Len(c)])
  /\ \A k \in Blocks : k # <<>> =>
        /\ Front(k) \in Blocks /\ k[Len(k)] \in BlockEntries
        /\ k = Longer(Front(k), k[Len(k)])
<1>1. ASSUME NEW c \in Seq(Blocks), c # <<>>
      PROVE  /\ Front(c) \in Seq(Blocks) /\ c[Len(c)] \in Blocks
             /\ Len(Front(c)) + 1 = Len(c)
             /\ c = OnTop(Front(c), c[Len(c)])
  BY <1>1, LastOfSeq DEF Front, OnTop
<1>2. ASSUME NEW k \in Blocks, k # <<>>
      PROVE  /\ Front(k) \in Blocks /\ k[Len(k)] \in BlockEntries
             /\ k = Longer(Front(k), k[Len(k)])
  <2> DEFINE S == BlockEntries
  <2>1. Blocks = Seq(S)
    BY DEF Blocks, BlockEntries
  <2> HIDE DEF S
  <2>2. k \in Seq(S)
    BY <2>1
  <2>3. /\ Front(k) \in Seq(S) /\ k[Len(k)] \in S
        /\ k = Longer(Front(k), k[Len(k)])
    BY <1>2, <2>2, LastOfSeq DEF Front, Longer
  <2> QED BY <2>1, <2>3 DEF S
<1> QED BY <1>1, <1>2

\* The blocks that are not written, of any two chains.
LEMMA NewSeq ==
  ASSUME NEW c \in Seq(Blocks), NEW d
  PROVE  /\ NewOf(c, d) \in Seq(Blocks) /\ Len(NewOf(c, d)) = Len(c)
         /\ \A b \in 1..Len(c) : NewOf(c, d)[b] = IF WrittenIn(c, d, b) THEN <<>> ELSE c[b]
<1>1. Len(c) \in Nat /\ DOMAIN c = 1..Len(c) /\ \A b \in 1..Len(c) : c[b] \in Blocks
  BY LenProperties, ElementOfSeq
<1>2. <<>> \in Blocks
  BY DEF Blocks
<1>3. NewOf(c, d) = [b \in 1..Len(c) |-> IF WrittenIn(c, d, b) THEN <<>> ELSE c[b]]
  BY <1>1 DEF NewOf
<1>4. \A b \in 1..Len(c) : (IF WrittenIn(c, d, b) THEN <<>> ELSE c[b]) \in Blocks
  BY <1>1, <1>2
<1> QED BY <1>1, <1>3, <1>4

\* Whether a block is written depends on the blocks up to it, and those below a
\* written block are written too.
LEMMA WrittenBelow ==
  ASSUME NEW c, NEW d \in Seq(Blocks), NEW b \in Nat, NEW a \in 1..b, WrittenIn(c, d, b)
  PROVE  WrittenIn(c, d, a)
<1>1. Len(d) \in Nat /\ DOMAIN d = 1..Len(d)
  BY LenProperties
<1>2. a \in DOMAIN d /\ \A i \in 1..a : i \in 1..b
  BY <1>1 DEF WrittenIn
<1> QED BY <1>2 DEF WrittenIn

LEMMA WrittenSame ==
  ASSUME NEW c, NEW x, NEW d, NEW b, \A i \in 1..b : c[i] = x[i]
  PROVE  WrittenIn(c, d, b) <=> WrittenIn(x, d, b)
BY DEF WrittenIn

\* Blocks without transactions leave no coins.
LEMMA NoTransactions ==
  ASSUME NEW c \in Seq(Blocks), \A b \in 1..Len(c) : c[b] = <<>>
  PROVE  HoldsChain(NoUtxo, c)
<1>1. Places(c) = {}
  BY PlacesOf
<1>2. Places(<<>>) = {}
  BY DEF Places
<1>3. UtxoOf(c) = NoUtxo /\ ValidChain(c)
  BY <1>1, <1>2, SameChain, NoChain
<1>4. Positive(NoUtxo)
  BY DEF Positive, NoUtxo, NoCoins
<1> QED BY <1>3, <1>4 DEF HoldsChain

\* No block is new when the last one is written; none of the written chain is.
LEMMA NothingNew ==
  ASSUME NEW c \in Seq(Blocks), NEW d \in Seq(Blocks), c # <<>> => WrittenIn(c, d, Len(c))
  PROVE  HoldsChain(NoUtxo, NewOf(c, d))
<1>1. ASSUME NEW b \in 1..Len(c)
      PROVE  NewOf(c, d)[b] = <<>>
  <2>1. Len(c) \in Nat /\ c # <<>>
    BY LenProperties
  <2>2. WrittenIn(c, d, b)
    BY <2>1, WrittenBelow
  <2> QED BY <2>2, NewSeq
<1> QED BY <1>1, NewSeq, NoTransactions

LEMMA AllWritten ==
  ASSUME NEW c \in Seq(Blocks)
  PROVE  Stay(c, c) /\ HoldsChain(NoUtxo, NewOf(c, c))
<1>1. \A b \in DOMAIN c : WrittenIn(c, c, b)
  BY DEF WrittenIn
<1>2. c # <<>> => Len(c) \in DOMAIN c
  BY LenProperties, EmptySeq
<1> QED BY <1>1, <1>2, NothingNew DEF Stay

\* A block is put on the new blocks when it is put on the chain ...
LEMMA NewOnTop ==
  ASSUME NEW c \in Seq(Blocks), NEW d \in Seq(Blocks), Stay(c, d), NEW k \in Blocks
  PROVE  /\ Stay(OnTop(c, k), d)
         /\ NewOf(OnTop(c, k), d) = OnTop(NewOf(c, d), k)
<1> DEFINE x == OnTop(c, k)
           m == NewOf(c, d)
           y == OnTop(m, k)
           z == NewOf(x, d)
<1>1. /\ x \in Seq(Blocks) /\ Len(c) \in Nat /\ Len(x) = Len(c) + 1
      /\ \A b \in 1..Len(c) : x[b] = c[b]
      /\ x[Len(c) + 1] = k
      /\ DOMAIN c = 1..Len(c) /\ DOMAIN x = 1..(Len(c) + 1) /\ DOMAIN d = 1..Len(d) /\ Len(d) \in Nat
  BY AppendProperties, LenProperties DEF OnTop
<1>2. /\ m \in Seq(Blocks) /\ Len(m) = Len(c)
      /\ \A b \in 1..Len(c) : m[b] = IF WrittenIn(c, d, b) THEN <<>> ELSE c[b]
  BY NewSeq
<1> HIDE DEF x, m
<1>3. /\ y \in Seq(Blocks) /\ Len(y) = Len(c) + 1
      /\ \A b \in 1..Len(c) : y[b] = m[b]
      /\ y[Len(c) + 1] = k
  BY <1>2, AppendProperties, LenProperties DEF OnTop
<1>4. /\ z \in Seq(Blocks) /\ Len(z) = Len(c) + 1
      /\ \A b \in 1..(Len(c) + 1) : z[b] = IF WrittenIn(x, d, b) THEN <<>> ELSE x[b]
  BY <1>1, NewSeq
<1> HIDE DEF y, z
<1>5. ASSUME NEW b \in 1..Len(c)
      PROVE  WrittenIn(x, d, b) <=> WrittenIn(c, d, b)
  <2>1. \A i \in 1..b : x[i] = c[i]
    BY <1>1
  <2> QED BY <2>1, WrittenSame
<1>6. WrittenIn(x, d, Len(c) + 1) => k = <<>>
  <2>1. SUFFICES ASSUME WrittenIn(x, d, Len(c) + 1), k # <<>> PROVE FALSE
    OBVIOUS
  <2>2. Len(c) + 1 \in DOMAIN d /\ d[Len(c) + 1] = k
    BY <1>1, <2>1 DEF WrittenIn
  <2>3. Len(c) + 1 \in DOMAIN c
    BY <2>1, <2>2 DEF Stay
  <2> QED BY <1>1, <2>3
<1>7. \A b \in 1..(Len(c) + 1) : b \in 1..Len(c) \/ b = Len(c) + 1
  BY <1>1
<1>8. Stay(x, d)
  <2>1. ASSUME NEW b \in DOMAIN d, d[b] # <<>>
        PROVE  b \in DOMAIN x /\ WrittenIn(x, d, b)
    <3>1. b \in 1..Len(c) /\ WrittenIn(c, d, b)
      BY <1>1, <2>1 DEF Stay
    <3> QED BY <1>1, <1>5, <3>1
  <2> QED BY <2>1 DEF Stay
<1>9. \A b \in 1..(Len(c) + 1) : z[b] = y[b]
  <2>1. ASSUME NEW b \in 1..Len(c)
        PROVE  z[b] = y[b]
    <3>1. b \in 1..(Len(c) + 1)
      BY <1>1
    <3> QED BY <1>1, <1>2, <1>3, <1>4, <1>5, <3>1
  <2>2. z[Len(c) + 1] = y[Len(c) + 1]
    <3>1. Len(c) + 1 \in 1..(Len(c) + 1)
      BY <1>1
    <3> QED BY <1>1, <1>3, <1>4, <1>6, <3>1
  <2> QED BY <1>7, <2>1, <2>2
<1>10. z = y
  BY <1>3, <1>4, <1>9, SeqEqual
<1> QED BY <1>8, <1>10 DEF x, y, z, m

\* ... and taken from them when it is taken from the chain, if it was new; it has
\* no transactions otherwise.
LEMMA NewOff ==
  ASSUME NEW c \in Seq(Blocks), NEW d \in Seq(Blocks), Stay(c, d), c # <<>>
  PROVE  /\ ~WrittenIn(c, d, Len(c)) =>
              /\ Stay(Front(c), d)
              /\ NewOf(Front(c), d) = Front(NewOf(c, d))
              /\ NewOf(c, d) # <<>> /\ NewOf(c, d)[Len(c)] = c[Len(c)]
         /\ WrittenIn(c, d, Len(c)) =>
              /\ c[Len(c)] = <<>> => Stay(Front(c), d)
              /\ Front(c) # <<>> => WrittenIn(Front(c), d, Len(Front(c)))
<1> DEFINE f == Front(c)
           m == NewOf(c, d)
           g == Front(m)
           n == Len(c)
           z == NewOf(f, d)
<1>1. /\ f \in Seq(Blocks) /\ n \in Nat /\ n > 0 /\ Len(f) = n - 1 /\ n - 1 \in Nat
      /\ DOMAIN c = 1..n /\ DOMAIN f = 1..(n - 1) /\ DOMAIN d = 1..Len(d) /\ Len(d) \in Nat
      /\ \A b \in 1..(n - 1) : f[b] = c[b]
  <2>1. /\ f \in Seq(Blocks) /\ n \in Nat /\ n > 0 /\ Len(f) = n - 1 /\ c[n] \in Blocks
        /\ c = Append(f, c[n])
    BY LastOfSeq DEF Front
  <2> HIDE DEF f
  <2>2. \A b \in 1..Len(f) : Append(f, c[n])[b] = f[b]
    BY <2>1, AppendProperties
  <2> QED BY <2>1, <2>2, LenProperties
<1>2. /\ m \in Seq(Blocks) /\ Len(m) = n
      /\ \A b \in 1..n : m[b] = IF WrittenIn(c, d, b) THEN <<>> ELSE c[b]
  BY NewSeq
<1> HIDE DEF m
<1>3. m # <<>>
  BY <1>1, <1>2, EmptySeq
<1>4. /\ g \in Seq(Blocks) /\ Len(g) = n - 1
      /\ \A b \in 1..(n - 1) : g[b] = m[b]
  <2>1. /\ g \in Seq(Blocks) /\ Len(g) = n - 1 /\ m[n] \in Blocks
        /\ m = Append(g, m[n])
    BY <1>2, <1>3, LastOfSeq DEF Front
  <2> HIDE DEF g
  <2>2. \A b \in 1..Len(g) : Append(g, m[n])[b] = g[b]
    BY <2>1, AppendProperties
  <2> QED BY <2>1, <2>2
<1> HIDE DEF f
<1>5. /\ z \in Seq(Blocks) /\ Len(z) = n - 1
      /\ \A b \in 1..(n - 1) : z[b] = IF WrittenIn(f, d, b) THEN <<>> ELSE f[b]
  BY <1>1, NewSeq
<1> HIDE DEF g, z
<1>6. ASSUME NEW b \in 1..(n - 1)
      PROVE  WrittenIn(f, d, b) <=> WrittenIn(c, d, b)
  <2>1. \A i \in 1..b : f[i] = c[i]
    BY <1>1
  <2> QED BY <2>1, WrittenSame
<1>7. z = g
  <2>1. ASSUME NEW b \in 1..(n - 1) PROVE z[b] = g[b]
    <3>1. b \in 1..n
      BY <1>1
    <3> QED BY <1>1, <1>2, <1>4, <1>5, <1>6, <3>1
  <2> QED BY <1>1, <1>4, <1>5, <2>1, SeqEqual
<1>8. ASSUME n \notin DOMAIN d \/ d[n] = <<>> PROVE Stay(f, d)
  <2>1. ASSUME NEW b \in DOMAIN d, d[b] # <<>>
        PROVE  b \in DOMAIN f /\ WrittenIn(f, d, b)
    <3>1. b \in 1..n /\ WrittenIn(c, d, b) /\ b # n
      BY <1>1, <1>8, <2>1 DEF Stay
    <3>2. b \in 1..(n - 1)
      BY <1>1, <3>1
    <3> QED BY <1>1, <1>6, <3>1, <3>2
  <2> QED BY <2>1 DEF Stay
<1>9. ASSUME ~WrittenIn(c, d, n)
      PROVE  Stay(f, d) /\ m[n] = c[n]
  <2>1. n \notin DOMAIN d \/ d[n] = <<>>
    BY <1>9 DEF Stay
  <2> QED BY <1>1, <1>2, <1>8, <1>9, <2>1
<1>10. ASSUME WrittenIn(c, d, n)
       PROVE  /\ c[n] = <<>> => Stay(f, d)
              /\ f # <<>> => WrittenIn(f, d, Len(f))
  <2>1. c[n] = d[n]
    BY <1>1, <1>10 DEF WrittenIn
  <2>2. f # <<>> => n - 1 \in 1..(n - 1)
    BY <1>1, EmptySeq
  <2>3. f # <<>> => WrittenIn(c, d, n - 1)
    BY <1>1, <1>10, <2>2, WrittenBelow
  <2> QED BY <1>1, <1>6, <1>8, <2>1, <2>2, <2>3
<1> QED BY <1>3, <1>7, <1>9, <1>10 DEF f, m, g, z

\* The transactions of a chain are those that are written and, after all of them,
\* those of its new blocks.
LEMMA WrittenAndNew ==
  ASSUME NEW c \in Seq(Blocks), NEW d \in Seq(Blocks), Stay(c, d)
  PROVE  LET n == NewOf(c, d)
         IN  /\ Places(c) = Places(d) \cup Places(n)
             /\ \A p \in Places(d) : TxAt(c, p) = TxAt(d, p)
             /\ \A p \in Places(n) : TxAt(c, p) = TxAt(n, p)
             /\ \A q \in Places(d), p \in Places(n) : Before(q, p) /\ ~Before(p, q)
             /\ \A q \in Places(d), p \in Places(n) : q # p
<1> DEFINE n == NewOf(c, d)
<1>1. /\ n \in Seq(Blocks) /\ Len(n) = Len(c) /\ Len(c) \in Nat /\ Len(d) \in Nat
      /\ DOMAIN c = 1..Len(c) /\ DOMAIN d = 1..Len(d)
      /\ \A b \in 1..Len(c) : n[b] = IF WrittenIn(c, d, b) THEN <<>> ELSE c[b]
  BY NewSeq, LenProperties
<1> HIDE DEF n
<1>2. /\ \A p : p \in Places(c) <=> \E b \in 1..Len(c) : \E i \in 1..Len(c[b]) : p = <<b, i>>
      /\ \A b \in 1..Len(c) : c[b] \in Blocks /\ Len(c[b]) \in Nat
  BY PlacesOf
<1>3. /\ \A p : p \in Places(d) <=> \E b \in 1..Len(d) : \E i \in 1..Len(d[b]) : p = <<b, i>>
      /\ \A b \in 1..Len(d) : d[b] \in Blocks /\ Len(d[b]) \in Nat
  BY PlacesOf
<1>4. /\ \A p : p \in Places(n) <=> \E b \in 1..Len(n) : \E i \in 1..Len(n[b]) : p = <<b, i>>
      /\ \A b \in 1..Len(n) : n[b] \in Blocks /\ Len(n[b]) \in Nat
  BY <1>1, PlacesOf
<1>5. \A b, i : <<b, i>>[1] = b /\ <<b, i>>[2] = i
  OBVIOUS
<1>6. ASSUME NEW b \in 1..Len(c), WrittenIn(c, d, b)
      PROVE  b \in 1..Len(d) /\ c[b] = d[b]
  BY <1>1, <1>6 DEF WrittenIn
<1>7. ASSUME NEW b \in Nat, NEW i \in 1..Len(<<>>) PROVE FALSE
  OBVIOUS
<1>8. ASSUME NEW p \in Places(d)
      PROVE  /\ \E b \in 1..Len(c) : \E i \in 1..Len(c[b]) :
                  p = <<b, i>> /\ WrittenIn(c, d, b)
             /\ p \in Places(c) /\ TxAt(c, p) = TxAt(d, p)
  <2>1. PICK b \in 1..Len(d) : \E i \in 1..Len(d[b]) : p = <<b, i>>
    BY <1>3
  <2>2. PICK i \in 1..Len(d[b]) : p = <<b, i>>
    BY <2>1
  <2>3. d[b] # <<>>
    BY <2>2, <1>1, <1>7
  <2>4. b \in 1..Len(c) /\ WrittenIn(c, d, b)
    BY <1>1, <2>3 DEF Stay
  <2>5. c[b] = d[b]
    BY <1>6, <2>4
  <2> QED BY <1>2, <1>5, <2>2, <2>4, <2>5 DEF TxAt
<1>9. ASSUME NEW p \in Places(n)
      PROVE  /\ \E b \in 1..Len(c) : \E i \in 1..Len(c[b]) :
                  p = <<b, i>> /\ ~WrittenIn(c, d, b)
             /\ p \in Places(c) /\ TxAt(c, p) = TxAt(n, p)
  <2>1. PICK b \in 1..Len(n) : \E i \in 1..Len(n[b]) : p = <<b, i>>
    BY <1>4
  <2>2. PICK i \in 1..Len(n[b]) : p = <<b, i>>
    BY <2>1
  <2>3. n[b] # <<>> /\ b \in 1..Len(c)
    BY <1>1, <1>7, <2>2
  <2>4. ~WrittenIn(c, d, b) /\ n[b] = c[b]
    BY <1>1, <2>3
  <2> QED BY <1>2, <1>5, <2>2, <2>3, <2>4 DEF TxAt
<1>10. ASSUME NEW p \in Places(c)
       PROVE  p \in Places(d) \cup Places(n)
  <2>1. PICK b \in 1..Len(c) : \E i \in 1..Len(c[b]) : p = <<b, i>>
    BY <1>2
  <2>2. PICK i \in 1..Len(c[b]) : p = <<b, i>>
    BY <2>1
  <2>3. CASE WrittenIn(c, d, b)
    BY <1>3, <1>6, <2>2, <2>3
  <2>4. CASE ~WrittenIn(c, d, b)
    <3>1. n[b] = c[b] /\ b \in 1..Len(n)
      BY <1>1, <2>4
    <3> QED BY <1>4, <2>2, <3>1
  <2> QED BY <2>3, <2>4
<1>11. ASSUME NEW q \in Places(d), NEW p \in Places(n)
       PROVE  Before(q, p) /\ ~Before(p, q) /\ q # p
  <2>1. PICK a \in 1..Len(c) : \E i \in 1..Len(c[a]) : q = <<a, i>> /\ WrittenIn(c, d, a)
    BY <1>8
  <2>2. PICK b \in 1..Len(c) : \E i \in 1..Len(c[b]) : p = <<b, i>> /\ ~WrittenIn(c, d, b)
    BY <1>9
  <2>3. PICK i \in 1..Len(c[a]) : q = <<a, i>>
    BY <2>1
  <2>4. PICK j \in 1..Len(c[b]) : p = <<b, j>>
    BY <2>2
  <2>5. a \in Nat /\ b \in Nat /\ i \in Nat /\ j \in Nat
    BY <1>1, <1>2
  <2>6. a < b
    <3>1. SUFFICES ASSUME b \in 1..a PROVE FALSE
      BY <1>1, <2>5
    <3> QED BY <2>1, <2>2, <2>5, <3>1, WrittenBelow
  <2>7. q # p
    BY <1>5, <2>3, <2>4, <2>5, <2>6
  <2> QED BY <2>3, <2>4, <2>5, <2>6, <2>7, BeforeIsOrder
<1>12. Places(c) = Places(d) \cup Places(n)
  BY <1>8, <1>9, <1>10
<1> QED BY <1>8, <1>9, <1>11, <1>12 DEF n

\* Coins are those of a transaction of the chain, and good: NoCoins when spent.
LEMMA CoinsAreMade ==
  ASSUME NEW c, NEW P, NEW t
  PROVE  /\ CoinsAfter(c, P, t).outs # {} => Made(c, P, t) # {}
         /\ IsPruned(CoinsAfter(c, P, t)) => CoinsAfter(c, P, t) = NoCoins
<1>1. CASE Made(c, P, t) = {} \/ Unspent(c, P, t) = {}
  BY <1>1 DEF CoinsAfter, NoCoins, IsPruned
<1>2. CASE ~(Made(c, P, t) = {} \/ Unspent(c, P, t) = {})
  <2>1. CoinsAfter(c, P, t) = [outs |-> Unspent(c, P, t), height |-> LastMade(c, P, t)[1]]
    BY <1>2 DEF CoinsAfter
  <2> QED BY <1>2, <2>1 DEF IsPruned
<1> QED BY <1>1, <1>2

\* The input of a transaction of a valid chain is in the chain.
LEMMA InputIsMade ==
  ASSUME NEW n, ValidChain(n), NEW q \in Places(n), TxAt(n, q) \in Txs \ Coinbases
  PROVE  Made(n, Places(n), InputOf[TxAt(n, q)].tx) # {}
<1> DEFINE P == {r \in Places(n) : Before(r, q)}
           i == InputOf[TxAt(n, q)].tx
<1>1. i \in Txs
  BY TransactionsAssumption
<1>2. Fits(UtxoBefore(n, q), EntryAt(n, q)) /\ EntryAt(n, q).tx = TxAt(n, q)
  BY DEF ValidChain, EntryAt, TxAt
<1>3. InputOf[TxAt(n, q)].n \in UtxoBefore(n, q)[i].outs
  BY <1>2 DEF Fits
<1>4. UtxoBefore(n, q)[i] = CoinsAfter(n, P, i)
  BY <1>1 DEF UtxoBefore, UtxoAfter
<1>5. Made(n, P, i) # {}
  BY <1>3, <1>4, CoinsAreMade
<1>6. Made(n, P, i) \subseteq Made(n, Places(n), i)
  BY DEF Made
<1> QED BY <1>5, <1>6

\* What a write of the coins of the new blocks leaves in the database: those of a
\* transaction that is not in the new blocks ...
LEMMA WriteKeepsOld ==
  ASSUME NEW c \in Seq(Blocks), NEW d \in Seq(Blocks), Stay(c, d), ValidChain(NewOf(c, d)),
         NEW t \in Txs, Made(NewOf(c, d), Places(NewOf(c, d)), t) = {}
  PROVE  /\ UtxoOf(c)[t] = UtxoOf(d)[t] /\ Made(c, Places(c), t) = Made(d, Places(d), t)
         /\ UtxoOf(NewOf(c, d))[t] = NoCoins
<1> DEFINE n == NewOf(c, d)
           D == Places(d)
           N == Places(n)
           C == Places(c)
<1>1. /\ C = D \cup N
      /\ \A p \in D : TxAt(c, p) = TxAt(d, p)
      /\ \A p \in N : TxAt(c, p) = TxAt(n, p)
  BY WrittenAndNew
<1>2. \A q \in N : TxAt(n, q) \in Txs
  <2>1. n \in Seq(Blocks)
    BY NewSeq
  <2> HIDE DEF n
  <2>2. ASSUME NEW q \in N PROVE TxAt(n, q) \in Txs
    <3>1. PICK b \in 1..Len(n) : \E i \in 1..Len(n[b]) : q = <<b, i>>
      BY <2>1, PlacesOf
    <3>2. PICK i \in 1..Len(n[b]) : q = <<b, i>>
      BY <3>1
    <3>3. n[b] \in Blocks /\ q[1] = b /\ q[2] = i
      BY <2>1, <3>2, PlacesOf
    <3> DEFINE S == BlockEntries
    <3>4. n[b] \in Seq(S)
      BY <3>3 DEF Blocks, BlockEntries
    <3> HIDE DEF S
    <3>5. n[b][i] \in S
      BY <3>4, ElementOfSeq
    <3> QED BY <3>3, <3>5 DEF S, BlockEntries, TxAt
  <2> QED BY <2>2
<1>3. \A q \in N : TxAt(n, q) \notin Coinbases => InputOf[TxAt(n, q)].tx # t
  BY <1>2, InputIsMade
<1>4. Made(n, N, t) = {}
  OBVIOUS
<1> HIDE DEF n, C, D, N
<1>5. Made(c, C, t) = Made(d, D, t)
  BY <1>1, <1>4 DEF Made
<1>6. Unspent(c, C, t) = Unspent(d, D, t)
  <2>1. ASSUME NEW m
        PROVE  (\E q \in C : /\ TxAt(c, q) \notin Coinbases
                             /\ InputOf[TxAt(c, q)] = [tx |-> t, n |-> m]
                             /\ \A p \in Made(c, C, t) : Before(p, q))
               <=> (\E q \in D : /\ TxAt(d, q) \notin Coinbases
                                 /\ InputOf[TxAt(d, q)] = [tx |-> t, n |-> m]
                                 /\ \A p \in Made(d, D, t) : Before(p, q))
    <3>1. [tx |-> t, n |-> m].tx = t
      OBVIOUS
    <3>2. \A q \in N : ~(TxAt(c, q) \notin Coinbases /\ InputOf[TxAt(c, q)] = [tx |-> t, n |-> m])
      BY <1>1, <1>3, <3>1
    <3> QED BY <1>1, <1>5, <3>2
  <2> QED BY <2>1 DEF Unspent
<1>7. CoinsAfter(c, C, t) = CoinsAfter(d, D, t)
  BY <1>5, <1>6 DEF CoinsAfter, LastMade
<1>8. CoinsAfter(n, N, t) = NoCoins
  BY <1>4 DEF CoinsAfter
<1> QED BY <1>5, <1>7, <1>8 DEF UtxoOf, UtxoAfter, n, C, D, N

\* ... stay, and those of one that is are the new ones.
LEMMA WriteTakesNew ==
  ASSUME NEW c \in Seq(Blocks), NEW d \in Seq(Blocks), Stay(c, d),
         NEW t \in Txs, Made(NewOf(c, d), Places(NewOf(c, d)), t) # {}
  PROVE  /\ UtxoOf(c)[t] = UtxoOf(NewOf(c, d))[t]
         /\ Made(d, Places(d), t) # {} => \E p, q \in Made(c, Places(c), t) : p # q
<1> DEFINE n == NewOf(c, d)
           D == Places(d)
           N == Places(n)
           C == Places(c)
<1>1. /\ C = D \cup N
      /\ \A p \in D : TxAt(c, p) = TxAt(d, p)
      /\ \A p \in N : TxAt(c, p) = TxAt(n, p)
      /\ \A q \in D, p \in N : Before(q, p) /\ ~Before(p, q) /\ q # p
  BY WrittenAndNew
<1>2. Made(n, N, t) # {}
  OBVIOUS
<1> HIDE DEF n, C, D, N
<1>3. Made(c, C, t) = Made(d, D, t) \cup Made(n, N, t) /\ Made(n, N, t) \subseteq N /\ Made(d, D, t) \subseteq D
  BY <1>1 DEF Made
<1>4. ASSUME NEW q \in C
      PROVE  (\A p \in Made(c, C, t) : Before(p, q)) <=> q \in N /\ \A p \in Made(n, N, t) : Before(p, q)
  BY <1>1, <1>2, <1>3
<1>5. Unspent(c, C, t) = Unspent(n, N, t)
  <2>1. ASSUME NEW m
        PROVE  (\E q \in C : /\ TxAt(c, q) \notin Coinbases
                             /\ InputOf[TxAt(c, q)] = [tx |-> t, n |-> m]
                             /\ \A p \in Made(c, C, t) : Before(p, q))
               <=> (\E q \in N : /\ TxAt(n, q) \notin Coinbases
                                 /\ InputOf[TxAt(n, q)] = [tx |-> t, n |-> m]
                                 /\ \A p \in Made(n, N, t) : Before(p, q))
    BY <1>1, <1>4
  <2> QED BY <2>1 DEF Unspent
<1>6. ASSUME NEW p
      PROVE  (p \in Made(c, C, t) /\ \A q \in Made(c, C, t) : q = p \/ Before(q, p))
               <=> (p \in Made(n, N, t) /\ \A q \in Made(n, N, t) : q = p \/ Before(q, p))
  BY <1>1, <1>2, <1>3
<1>7. LastMade(c, C, t) = LastMade(n, N, t)
  <2> DEFINE A(p) == p \in Made(c, C, t) /\ \A q \in Made(c, C, t) : q = p \/ Before(q, p)
             B(p) == p \in Made(n, N, t) /\ \A q \in Made(n, N, t) : q = p \/ Before(q, p)
  <2>1. LastMade(c, C, t) = CHOOSE p : A(p)
    BY DEF LastMade
  <2>2. LastMade(n, N, t) = CHOOSE p : B(p)
    BY DEF LastMade
  <2>3. \A p : A(p) <=> B(p)
    BY <1>6
  <2> HIDE DEF A, B
  <2> QED BY <2>1, <2>2, <2>3
<1>8. CoinsAfter(c, C, t) = CoinsAfter(n, N, t)
  <2>1. Made(c, C, t) # {}
    BY <1>2, <1>3
  <2> QED BY <1>2, <1>5, <1>7, <2>1 DEF CoinsAfter
<1>9. Made(d, D, t) # {} => \E p, q \in Made(c, C, t) : p # q
  BY <1>1, <1>2, <1>3
<1> QED BY <1>8, <1>9 DEF UtxoOf, UtxoAfter, n, C, D, N

\* So a write keeps the database that of its chain.
LEMMA DiskWritten ==
  ASSUME NEW c \in Seq(Blocks), NEW d \in Seq(Blocks), Stay(c, d), NEW w, DiskHolds(w, d),
         NEW u, HoldsChain(u, NewOf(c, d)),
         NEW x, x = [t \in Txs |-> IF IsPruned(u[t]) THEN w[t] ELSE u[t]]
  PROVE  DiskHolds(x, c)
<1>1. ASSUME NEW t \in Txs
      PROVE  \/ x[t] = UtxoOf(c)[t]
             \/ IsPruned(UtxoOf(c)[t]) /\ \E p, q \in Made(c, Places(c), t) : p # q
  <2>1. \/ w[t] = UtxoOf(d)[t]
        \/ IsPruned(UtxoOf(d)[t]) /\ \E p, q \in Made(d, Places(d), t) : p # q
    BY DEF DiskHolds
  <2>2. u[t] = UtxoOf(NewOf(c, d))[t] /\ ValidChain(NewOf(c, d))
    BY DEF HoldsChain
  <2>3. CASE Made(NewOf(c, d), Places(NewOf(c, d)), t) = {}
    <3>1. /\ UtxoOf(c)[t] = UtxoOf(d)[t] /\ Made(c, Places(c), t) = Made(d, Places(d), t)
          /\ u[t] = NoCoins
      BY <2>2, <2>3, WriteKeepsOld
    <3>2. x[t] = w[t]
      BY <3>1 DEF IsPruned, NoCoins
    <3> QED BY <2>1, <3>1, <3>2
  <2>4. CASE Made(NewOf(c, d), Places(NewOf(c, d)), t) # {}
    <3>1. /\ UtxoOf(c)[t] = u[t]
          /\ Made(d, Places(d), t) # {} => \E p, q \in Made(c, Places(c), t) : p # q
      BY <2>2, <2>4, WriteTakesNew
    <3>2. CASE ~IsPruned(u[t])
      BY <3>1, <3>2
    <3>3. CASE IsPruned(u[t])
      <4>1. x[t] = w[t]
        BY <3>3
      <4>2. CASE Made(d, Places(d), t) # {}
        BY <3>1, <3>3, <4>2
      <4>3. CASE Made(d, Places(d), t) = {}
        <5>1. w[t] = UtxoOf(d)[t]
          BY <2>1, <4>3
        <5>2. UtxoOf(d)[t] = NoCoins
          BY <4>3 DEF UtxoOf, UtxoAfter, CoinsAfter
        <5>3. UtxoOf(c)[t] = NoCoins
          BY <3>1, <3>3, CoinsAreMade DEF UtxoOf, UtxoAfter
        <5> QED BY <4>1, <5>1, <5>2, <5>3
      <4> QED BY <4>2, <4>3
    <3> QED BY <3>2, <3>3
  <2> QED BY <2>3, <2>4
<1> QED BY <1>1 DEF DiskHolds

\* At the start there is no block, and there are no coins.
LEMMA ChainInit ==
  ASSUME Init
  PROVE  ChainInv
<1>1. TipUtxo = NoUtxo
  BY FreshCoinsGood, EmptySound DEF Init, TipUtxo
<1>2. <<>> \in Seq(Blocks)
  OBVIOUS
<1>3. Stay(<<>>, <<>>) /\ HoldsChain(NoUtxo, NewOf(<<>>, <<>>))
  BY <1>2, AllWritten
<1>4. DiskHolds(NoUtxo, <<>>)
  BY NoChain DEF DiskHolds
<1> QED BY <1>1, <1>3, <1>4 DEF Init, ChainInv, NewBlocks, IsWritten, NewOf, WrittenIn

\* The operators of the invariant, before and after a step.
LEMMA SameNew ==
  /\ NewBlocks = NewOf(tipBest, diskBest) /\ NewBlocks' = NewOf(tipBest', diskBest')
  /\ \A b : IsWritten(b) <=> WrittenIn(tipBest, diskBest, b)
  /\ IsWritten(Len(tipBest))' <=> WrittenIn(tipBest', diskBest', Len(tipBest'))
BY DEF NewBlocks, NewOf, IsWritten, WrittenIn

\* When the chains stay, so do the new blocks.
LEMMA NewKept ==
  ASSUME tipBest' = tipBest, diskBest' = diskBest
  PROVE  NewBlocks' = NewBlocks /\ (IsWritten(Len(tipBest))' <=> IsWritten(Len(tipBest)))
BY SameNew

\* When no view is open, the database keeps its coins.
LEMMA DiskKept ==
  ASSUME ChainInv, diskCoins' = diskCoins, diskBest' = diskBest, failures' = failures,
         phase' = "aborting" => phase = "aborting"
  PROVE  failures' = 0 \/ (failures' = 1 /\ phase' = "aborting") => DiskHolds(diskCoins', diskBest')
BY DEF ChainInv

\* Beginning and writing the trie.
LEMMA ChainQuiet ==
  ASSUME ViewsInv, ChainInv, BeginConnect \/ BeginDisconnect \/ WriteTrie \/ UNCHANGED vars
  PROVE  ChainInv'
<1>1. diskCoins' = diskCoins /\ TipUtxo' = TipUtxo /\ ViewUtxo' = ViewUtxo
  BY QuietStep
<1>2. failures' = failures /\ diskBest' = diskBest /\ tipBest' = tipBest
  BY DEF BeginConnect, BeginDisconnect, WriteTrie, vars, coinVars, counters
<1>3. phase = "idle" => ViewUtxo = TipUtxo
  BY NoView DEF ViewsInv, ControlInv
<1>4. tipBest \in Seq(Blocks) /\ diskBest \in Seq(Blocks)
  BY DEF ViewsInv, ControlTypeOK
<1>5. NewBlocks' = NewBlocks /\ (IsWritten(Len(tipBest))' <=> IsWritten(Len(tipBest)))
  BY <1>2, NewKept
<1>6. phase' = "aborting" => phase = "aborting"
  BY DEF BeginConnect, BeginDisconnect, WriteTrie, vars
<1>7. /\ failures' \in Nat /\ Stay(tipBest', diskBest')
      /\ phase' = "aborting" => failures' # 0
      /\ failures' = 0 \/ (failures' = 1 /\ phase' = "aborting") => DiskHolds(diskCoins', diskBest')
  <2>1. failures \in Nat /\ Stay(tipBest, diskBest) /\ (phase = "aborting" => failures # 0)
    BY DEF ChainInv
  <2> QED BY <1>1, <1>2, <1>6, <2>1, DiskKept
<1>8. phase # "aborting" => HoldsChain(TipUtxo', NewBlocks')
  BY <1>1, <1>5 DEF ChainInv
<1>9. CASE UNCHANGED vars
  <2>1. phase' = phase /\ block' = block
    BY <1>9 DEF vars
  <2> QED BY <1>1, <1>2, <1>5, <1>7, <1>8, <2>1 DEF ChainInv
<1>10. CASE WriteTrie
  BY <1>7, <1>8, <1>10 DEF WriteTrie, ChainInv
<1>11. CASE BeginConnect
  <2>1. phase' = "connect" /\ block' = <<>> /\ phase = "idle"
    BY <1>11 DEF BeginConnect
  <2>2. NewBlocks \in Seq(Blocks)
    BY <1>4, SameNew, NewSeq
  <2>3. HoldsChain(ViewUtxo', OnTop(NewBlocks', <<>>))
    BY <1>1, <1>3, <1>5, <1>8, <2>1, <2>2, EmptyBlock DEF HoldsChain
  <2>4. BlockFits(ViewUtxo', TipUtxo', <<>>)
    <3>1. TxsOf(<<>>) = {}
      BY DEF TxsOf
    <3> QED BY <1>1, <1>3, <2>1, <3>1 DEF BlockFits
  <2> QED BY <1>7, <1>8, <2>1, <2>3, <2>4 DEF ChainInv
<1>12. CASE BeginDisconnect
  <2>1. phase' = "disconnect" /\ block' = tipBest[Len(tipBest)] /\ phase = "idle" /\ tipBest # <<>>
    BY <1>12 DEF BeginDisconnect
  <2>2. HoldsChain(ViewUtxo, NewBlocks)
    BY <1>3, <2>1 DEF ChainInv
  <2>3. CASE IsWritten(Len(tipBest))
    <3>1. HoldsChain(NoUtxo, NewBlocks)
      BY <1>4, <2>3, SameNew, NothingNew
    <3>2. ViewUtxo = NoUtxo
      BY <2>2, <3>1 DEF HoldsChain
    <3> QED BY <1>1, <1>2, <1>5, <1>7, <1>8, <2>1, <2>3, <3>2 DEF ChainInv
  <2>4. CASE ~IsWritten(Len(tipBest))
    <3>1. Stay(tipBest, diskBest)
      BY DEF ChainInv
    <3>2. /\ NewBlocks \in Seq(Blocks) /\ Len(NewBlocks) = Len(tipBest)
          /\ NewBlocks # <<>> /\ NewBlocks[Len(tipBest)] = tipBest[Len(tipBest)]
      BY <1>4, <2>1, <2>4, <3>1, SameNew, NewSeq, NewOff
    <3>3. NewBlocks = OnTop(Front(NewBlocks), tipBest[Len(tipBest)])
      BY <3>2, LastOnTop
    <3>4. HoldsChain(ViewUtxo', OnTop(Front(NewBlocks'), block'))
      BY <1>1, <1>5, <2>1, <2>2, <3>3
    <3> QED BY <1>2, <1>5, <1>7, <1>8, <2>1, <2>4, <3>4 DEF ChainInv
  <2> QED BY <2>3, <2>4
<1> QED BY <1>9, <1>10, <1>11, <1>12

\* Connecting a transaction of the block in hand.
LEMMA ChainConnect ==
  ASSUME ViewsInv, ChainInv,
         (\E t \in Coinbases : ConnectCoinbase(t)) \/ (\E t \in Txs \ Coinbases : ConnectTx(t))
  PROVE  ChainInv'
<1>1. /\ phase = "connect" /\ phase' = phase /\ tipBest' = tipBest
      /\ diskCoins' = diskCoins /\ diskBest' = diskBest /\ failures' = failures
  BY DEF ConnectCoinbase, ConnectTx, counters
<1>2. /\ tipBest \in Seq(Blocks) /\ block \in Blocks /\ Len(tipBest) + 1 \in Heights
      /\ TipUtxo \in [Txs -> GoodCoins] /\ ViewUtxo \in [Txs -> GoodCoins]
  BY <1>1, BlockHeight, UtxoGood DEF ViewsInv, ControlTypeOK
<1>3. PICK e \in BlockEntries :
        /\ block' = Longer(block, e)
        /\ TipUtxo' = TipUtxo /\ IsPruned(TipUtxo[e.tx])
        /\ ViewUtxo' = AfterTx(ViewUtxo, e.tx, Len(tipBest) + 1)
        /\ e.tx \in Coinbases => block = <<>>
        /\ e.tx \notin Coinbases =>
              /\ InputOf[e.tx].n \in ViewUtxo[InputOf[e.tx].tx].outs
              /\ e.undoHeight = UndoHeight(ViewUtxo[InputOf[e.tx].tx], InputOf[e.tx].n)
  <2>1. ASSUME NEW t \in Coinbases, ConnectCoinbase(t)
        PROVE  \E e \in BlockEntries :
                 /\ block' = Longer(block, e)
                 /\ TipUtxo' = TipUtxo /\ IsPruned(TipUtxo[e.tx])
                 /\ ViewUtxo' = AfterTx(ViewUtxo, e.tx, Len(tipBest) + 1)
                 /\ e.tx \in Coinbases => block = <<>>
                 /\ e.tx \notin Coinbases =>
                       /\ InputOf[e.tx].n \in ViewUtxo[InputOf[e.tx].tx].outs
                       /\ e.undoHeight = UndoHeight(ViewUtxo[InputOf[e.tx].tx], InputOf[e.tx].n)
    <3> DEFINE e == [tx |-> t, undoHeight |-> 0]
    <3>1. e \in BlockEntries /\ e.tx = t
      BY TransactionsAssumption DEF BlockEntries, Heights
    <3>2. block = <<>> /\ block' = <<e>>
      BY <2>1 DEF ConnectCoinbase
    <3> HIDE DEF e
    <3>3. block' = Longer(block, e)
      BY <3>2 DEF Longer
    <3>4. /\ IsPruned(TipUtxo[t]) /\ TipUtxo' = TipUtxo
          /\ ViewUtxo' = [ViewUtxo EXCEPT ![t] = FromTx(t, Len(tipBest) + 1)]
      BY <2>1, ConnectCoinbaseStep
    <3>5. ViewUtxo' = AfterTx(ViewUtxo, t, Len(tipBest) + 1)
      BY <3>4 DEF AfterTx
    <3> QED BY <3>1, <3>2, <3>3, <3>4, <3>5
  <2>2. ASSUME NEW t \in Txs \ Coinbases, ConnectTx(t)
        PROVE  \E e \in BlockEntries :
                 /\ block' = Longer(block, e)
                 /\ TipUtxo' = TipUtxo /\ IsPruned(TipUtxo[e.tx])
                 /\ ViewUtxo' = AfterTx(ViewUtxo, e.tx, Len(tipBest) + 1)
                 /\ e.tx \in Coinbases => block = <<>>
                 /\ e.tx \notin Coinbases =>
                       /\ InputOf[e.tx].n \in ViewUtxo[InputOf[e.tx].tx].outs
                       /\ e.undoHeight = UndoHeight(ViewUtxo[InputOf[e.tx].tx], InputOf[e.tx].n)
    <3> DEFINE i == InputOf[t].tx
               n == InputOf[t].n
               e == [tx |-> t, undoHeight |-> UndoHeight(ViewUtxo[i], n)]
    <3>1. i \in Txs
      BY TransactionsAssumption
    <3>2. e \in BlockEntries /\ e.tx = t /\ e.undoHeight = UndoHeight(ViewUtxo[i], n)
      <4>1. UndoHeight(ViewUtxo[i], n) \in Heights
        BY <1>2, <3>1, TransactionsAssumption DEF UndoHeight, GoodCoins, Coins, Heights
      <4> QED BY <4>1 DEF BlockEntries
    <3>3. /\ IsPruned(TipUtxo[t]) /\ TipUtxo' = TipUtxo
          /\ n \in ViewUtxo[i].outs
          /\ ViewUtxo' = [[ViewUtxo EXCEPT ![i] = Spend(ViewUtxo[i], n)]
                            EXCEPT ![t] = FromTx(t, Len(tipBest) + 1)]
          /\ block' = Append(block, e)
      BY <2>2, ConnectTxStep
    <3>4. ViewUtxo' = AfterTx(ViewUtxo, t, Len(tipBest) + 1)
      BY <3>3 DEF AfterTx
    <3> HIDE DEF e
    <3>5. block' = Longer(block, e)
      BY <3>3 DEF Longer
    <3> QED BY <3>2, <3>3, <3>4, <3>5
  <2> QED BY <2>1, <2>2
<1>4. NewBlocks \in Seq(Blocks) /\ Len(NewBlocks) = Len(tipBest)
  <2>1. diskBest \in Seq(Blocks)
    BY DEF ViewsInv, ControlTypeOK
  <2> QED BY <1>2, <2>1, SameNew, NewSeq
<1>5. HoldsChain(ViewUtxo, OnTop(NewBlocks, block)) /\ BlockFits(ViewUtxo, TipUtxo, block)
  BY <1>1 DEF ChainInv
<1>6. /\ HoldsChain(ViewUtxo', OnTop(NewBlocks, block'))
      /\ BlockFits(ViewUtxo', TipUtxo, block')
  BY <1>2, <1>3, <1>4, <1>5, ConnectOne
<1>7. NewBlocks' = NewBlocks
  BY <1>1, NewKept
<1> QED BY <1>1, <1>3, <1>6, <1>7, DiskKept DEF ChainInv

\* Nothing that DisconnectBlock needs is found where there are no coins.
LEMMA NothingToUndo ==
  ASSUME NEW e \in BlockEntries, NEW h
  PROVE  ~UndoFits(NoUtxo, e, h)
<1>1. e.tx \in Txs /\ NoUtxo[e.tx] = NoCoins
  BY DEF BlockEntries, NoUtxo
<1>2. FromTx(e.tx, h).outs # {}
  BY <1>1, TransactionsAssumption DEF FromTx
<1> QED BY <1>1, <1>2 DEF UndoFits, NoCoins

\* Disconnecting one.
LEMMA ChainUndo ==
  ASSUME ViewsInv, ChainInv, UndoTx
  PROVE  ChainInv'
<1> DEFINE e == block[Len(block)]
           c == Front(NewBlocks)
<1>1. /\ phase = "disconnect" /\ tipBest' = tipBest /\ block # <<>> /\ block' = Front(block)
      /\ diskCoins' = diskCoins /\ diskBest' = diskBest /\ failures' = failures
      /\ phase' = phase \/ phase' = "unclean"
  BY DEF UndoTx, counters, Front
<1>2. /\ tipBest \in Seq(Blocks) /\ diskBest \in Seq(Blocks) /\ block \in Blocks
      /\ ViewUtxo \in [Txs -> GoodCoins]
  BY UtxoGood DEF ViewsInv, ControlTypeOK
<1>3. /\ TipUtxo' = TipUtxo
      /\ IF UndoFits(ViewUtxo, e, Len(tipBest))
           THEN phase' = phase /\ ViewUtxo' = Undone(ViewUtxo, e) ELSE phase' = "unclean"
  BY UndoTxStep
<1>4. Front(block) \in Blocks /\ e \in BlockEntries /\ block = Longer(Front(block), e)
  BY <1>1, <1>2, LastOnTop
<1>5. NewBlocks' = NewBlocks /\ (IsWritten(Len(tipBest))' <=> IsWritten(Len(tipBest)))
  BY <1>1, NewKept
<1> HIDE DEF e
<1>6. tipBest # <<>> /\ Stay(tipBest, diskBest)
  BY <1>1 DEF ChainInv
<1>7. CASE IsWritten(Len(tipBest))
  <2>1. ViewUtxo = NoUtxo
    BY <1>1, <1>7 DEF ChainInv
  <2>2. phase' = "unclean"
    BY <1>3, <1>4, <2>1, NothingToUndo
  <2> QED BY <1>1, <1>3, <1>5, <1>7, <2>2, DiskKept DEF ChainInv
<1>8. CASE ~IsWritten(Len(tipBest))
  <2>1. HoldsChain(ViewUtxo, OnTop(c, block))
    BY <1>1, <1>8 DEF ChainInv
  <2>2. c \in Seq(Blocks) /\ Len(c) + 1 = Len(tipBest)
    <3>1. NewBlocks \in Seq(Blocks) /\ Len(NewBlocks) = Len(tipBest) /\ NewBlocks # <<>>
      BY <1>2, <1>6, <1>8, SameNew, NewSeq, NewOff
    <3> QED BY <3>1, LastOnTop
  <2> HIDE DEF c
  <2>3. UndoFits(ViewUtxo, e, Len(tipBest)) /\ HoldsChain(Undone(ViewUtxo, e), OnTop(c, Front(block)))
    BY <1>2, <1>4, <2>1, <2>2, DisconnectOne
  <2>4. phase' = phase /\ HoldsChain(ViewUtxo', OnTop(c, block'))
    BY <1>1, <1>3, <2>3
  <2> QED BY <1>1, <1>3, <1>5, <1>6, <1>8, <2>4, DiskKept DEF ChainInv, c
<1> QED BY <1>7, <1>8

\* The end of a block that is disconnected.
LEMMA ChainFinishDisconnect ==
  ASSUME ViewsInv, ChainInv, FinishDisconnect
  PROVE  ChainInv'
<1> DEFINE last == Len(tipBest)
<1>1. /\ phase = "disconnect" /\ phase' = "idle" /\ block = <<>> /\ tipBest' = Front(tipBest)
      /\ diskBest' = diskBest /\ failures' = failures
  BY DEF FinishDisconnect, Front, counters
<1>2. diskCoins' = diskCoins /\ TipUtxo' = ViewUtxo
  BY FinishStep
<1>3. tipBest \in Seq(Blocks) /\ diskBest \in Seq(Blocks)
  BY DEF ViewsInv, ControlTypeOK
<1>4. tipBest # <<>> /\ Stay(tipBest, diskBest)
  BY <1>1 DEF ChainInv
<1>5. Front(tipBest) \in Seq(Blocks)
  BY <1>3, <1>4, LastOnTop
<1>6. CASE IsWritten(last)
  <2>1. tipBest[last] = <<>> /\ ViewUtxo = NoUtxo
    BY <1>1, <1>6 DEF ChainInv
  <2>2. /\ Stay(Front(tipBest), diskBest)
        /\ Front(tipBest) # <<>> => WrittenIn(Front(tipBest), diskBest, Len(Front(tipBest)))
    BY <1>3, <1>4, <1>6, <2>1, SameNew, NewOff
  <2>3. HoldsChain(NoUtxo, NewOf(Front(tipBest), diskBest))
    BY <1>3, <1>5, <2>2, NothingNew
  <2>4. Stay(tipBest', diskBest') /\ HoldsChain(TipUtxo', NewBlocks')
    BY <1>1, <1>2, <2>1, <2>2, <2>3, SameNew
  <2> QED BY <1>1, <1>2, <2>4, DiskKept DEF ChainInv
<1>7. CASE ~IsWritten(last)
  <2>1. HoldsChain(ViewUtxo, OnTop(Front(NewBlocks), <<>>))
    BY <1>1, <1>7 DEF ChainInv
  <2>2. /\ Stay(Front(tipBest), diskBest) /\ NewBlocks \in Seq(Blocks) /\ NewBlocks # <<>>
        /\ NewOf(Front(tipBest), diskBest) = Front(NewBlocks)
    BY <1>3, <1>4, <1>7, SameNew, NewSeq, NewOff
  <2>3. HoldsChain(ViewUtxo, Front(NewBlocks))
    <3>1. Front(NewBlocks) \in Seq(Blocks)
      BY <2>2, LastOnTop
    <3> QED BY <2>1, <3>1, EmptyBlock DEF HoldsChain
  <2>4. Stay(tipBest', diskBest') /\ HoldsChain(TipUtxo', NewBlocks')
    BY <1>1, <1>2, <2>2, <2>3, SameNew
  <2> QED BY <1>1, <1>2, <2>4, DiskKept DEF ChainInv
<1> QED BY <1>6, <1>7

\* A write, and the shutdown after a failed one, make all blocks written ones.
LEMMA ChainWrite ==
  ASSUME ViewsInv, ChainInv, WriteCoins \/ ShutdownWrites
  PROVE  ChainInv'
<1>1. /\ phase' = "idle" /\ tipBest' = tipBest /\ diskBest' = tipBest /\ failures' = failures
      /\ phase = "writing" \/ (phase = "aborting" /\ failures # 0)
  BY DEF WriteCoins, ShutdownWrites, counters, ChainInv
<1>2. tipBest \in Seq(Blocks) /\ diskBest \in Seq(Blocks)
  BY DEF ViewsInv, ControlTypeOK
<1>3. /\ TipUtxo' = NoUtxo
      /\ diskCoins' = [t \in Txs |-> IF IsPruned(TipUtxo[t]) THEN diskCoins[t] ELSE TipUtxo[t]]
  BY WriteStep
<1>4. Stay(tipBest', diskBest') /\ HoldsChain(TipUtxo', NewBlocks')
  BY <1>1, <1>2, <1>3, AllWritten, SameNew
<1>5. failures = 0 => DiskHolds(diskCoins', tipBest)
  <2>1. SUFFICES ASSUME failures = 0 PROVE DiskHolds(diskCoins', tipBest)
    OBVIOUS
  <2>2. /\ Stay(tipBest, diskBest) /\ DiskHolds(diskCoins, diskBest)
        /\ HoldsChain(TipUtxo, NewOf(tipBest, diskBest))
    BY <1>1, <2>1, SameNew DEF ChainInv
  <2> QED BY <1>2, <1>3, <2>2, DiskWritten
<1> QED BY <1>1, <1>4, <1>5 DEF ChainInv

\* The other ends: of a block that is connected or given up, a failed write, a
\* crash.
LEMMA ChainEnd ==
  ASSUME ViewsInv, ChainInv, FinishConnect \/ Abandon \/ WriteFails \/ Crash \/ CrashAndReindex
  PROVE  ChainInv'
<1>1. /\ tipBest \in Seq(Blocks) /\ diskBest \in Seq(Blocks) /\ block \in Blocks
      /\ failures \in Nat /\ Stay(tipBest, diskBest)
  BY DEF ViewsInv, ControlTypeOK, ChainInv
<1>2. CASE FinishConnect
  <2>1. /\ phase = "connect" /\ phase' = "idle" /\ tipBest' = OnTop(tipBest, block)
        /\ diskBest' = diskBest /\ failures' = failures
    BY <1>2 DEF FinishConnect, OnTop, counters
  <2>2. diskCoins' = diskCoins /\ TipUtxo' = ViewUtxo
    BY <1>2, FinishStep
  <2>3. Stay(tipBest', diskBest') /\ NewBlocks' = OnTop(NewBlocks, block)
    BY <1>1, <2>1, NewOnTop, SameNew
  <2>4. HoldsChain(TipUtxo', NewBlocks')
    BY <2>1, <2>2, <2>3 DEF ChainInv
  <2> QED BY <1>1, <2>1, <2>2, <2>3, <2>4, DiskKept DEF ChainInv
<1>3. CASE Abandon
  <2>1. /\ phase' = "idle" /\ tipBest' = tipBest /\ diskBest' = diskBest /\ failures' = failures
        /\ phase # "aborting"
    BY <1>3 DEF Abandon, counters
  <2>2. NewBlocks' = NewBlocks
    BY <2>1, NewKept
  <2> QED BY <1>3, <2>1, <2>2, AbandonStep, DiskKept DEF ChainInv
<1>4. CASE WriteFails
  <2>1. /\ phase = "writing" /\ phase' = "aborting" /\ diskBest' = diskBest /\ tipBest' = tipBest
        /\ failures' = failures + 1 /\ diskCoins' = diskCoins
    BY <1>4 DEF WriteFails
  <2>2. failures' # 0 /\ failures' \in Nat /\ (failures' = 1 => failures = 0)
    BY <1>1, <2>1
  <2> QED BY <1>1, <2>1, <2>2 DEF ChainInv
<1>5. CASE Crash
  <2>1. /\ phase' = "idle" /\ tipBest' = diskBest /\ diskBest' = diskBest /\ failures' = failures
        /\ diskCoins' = diskCoins /\ TipUtxo' = NoUtxo
    BY <1>5, LoseStep DEF Crash
  <2>2. Stay(tipBest', diskBest') /\ HoldsChain(TipUtxo', NewBlocks')
    BY <1>1, <2>1, AllWritten, SameNew
  <2> QED BY <2>1, <2>2, DiskKept DEF ChainInv
<1>6. CASE CrashAndReindex
  <2>1. /\ phase' = "idle" /\ tipBest' = <<>> /\ diskBest' = <<>> /\ failures' = failures
        /\ diskCoins' = NoUtxo /\ TipUtxo' = NoUtxo
    BY <1>6, LoseStep DEF CrashAndReindex
  <2>2. <<>> \in Seq(Blocks)
    OBVIOUS
  <2>3. Stay(tipBest', diskBest') /\ HoldsChain(TipUtxo', NewBlocks')
    BY <2>1, <2>2, AllWritten, SameNew
  <2>4. DiskHolds(diskCoins', diskBest')
    BY <2>1, NoChain DEF DiskHolds
  <2> QED BY <1>1, <2>1, <2>3, <2>4 DEF ChainInv
<1> QED BY <1>2, <1>3, <1>4, <1>5, <1>6

\* The coins that pcoinsTip shows between blocks are those that the blocks not
\* written leave unspent, a block written with transactions stays in the active
\* chain, only a written one is not disconnected cleanly, and until a write fails
\* the coins of the database are those of the chain it names, but for a spent
\* transaction that is there twice: for any transactions and chains,
\* reorganizations, crashes and failed writes.
THEOREM ChainCoins == Spec => []CoinsAreChainState
<1>1. Init => ViewsInv /\ ChainInv
  BY ViewsInit, ChainInit
<1>2. ViewsInv /\ ChainInv /\ [Next]_vars => ViewsInv' /\ ChainInv'
  <2> SUFFICES ASSUME ViewsInv, ChainInv, [Next]_vars PROVE ViewsInv' /\ ChainInv'
    OBVIOUS
  <2>1. ViewsInv'
    BY ViewsStep
  <2>2. ChainInv'
    BY ChainQuiet, ChainConnect, ChainUndo, ChainFinishDisconnect, ChainWrite, ChainEnd DEF Next
  <2> QED BY <2>1, <2>2
<1>3. ViewsInv /\ ChainInv => CoinsAreChainState
  <2> SUFFICES ASSUME ViewsInv, ChainInv PROVE CoinsAreChainState
    OBVIOUS
  <2>1. TipIsNewBlocks /\ OnlyWrittenIsUnclean
    BY Mapped DEF ChainInv, HoldsChain, TipIsNewBlocks, OnlyWrittenIsUnclean
  <2>2. WrittenBlocksStay
    BY DEF ChainInv, Stay, WrittenIn, WrittenBlocksStay, IsWritten
  <2>3. DiskIsChainState
    BY DEF ChainInv, DiskHolds, DiskIsChainState
  <2> QED BY <2>1, <2>2, <2>3 DEF CoinsAreChainState
<1> QED BY <1>1, <1>2, <1>3, PTL DEF Spec

-----------------------------------------------------------------------------
(* The two databases.                                                       *)

\* Before the first crash the trie follows the tip, and its database the one of
\* the coins, but for the time between their writes.
TornInv ==
    /\ crashes \in Nat
    /\ crashes = 0 =>
         /\ trie = tipBest
         /\ phase = "writing" => trieDisk = trie
         /\ phase \notin {"writing", "aborting"} => trieDisk = diskBest

LEMMA TornStep ==
  ASSUME TornInv, [Next]_vars
  PROVE  /\ TornInv'
         /\ crashes = 0 /\ crashes' = 1 /\ phase \notin {"writing", "aborting"} => trie' = tipBest'
<1> USE DEF TornInv
<1>1. CASE CrashAndReindex
  BY <1>1 DEF CrashAndReindex
<1>2. CASE BeginConnect \/ BeginDisconnect \/ WriteTrie
  BY <1>2 DEF BeginConnect, BeginDisconnect, WriteTrie, coinVars, counters
<1>3. CASE (\E t \in Coinbases : ConnectCoinbase(t)) \/ (\E t \in Txs \ Coinbases : ConnectTx(t)) \/ UndoTx
  BY <1>3 DEF ConnectCoinbase, ConnectTx, UndoTx, counters
<1>4. CASE FinishConnect \/ FinishDisconnect \/ Abandon
  BY <1>4 DEF FinishConnect, FinishDisconnect, Abandon, counters
<1>5. CASE WriteCoins \/ WriteFails \/ ShutdownWrites
  BY <1>5 DEF WriteCoins, WriteFails, ShutdownWrites, counters
<1>6. CASE Crash
  BY <1>6 DEF Crash
<1>7. CASE UNCHANGED vars
  BY <1>7 DEF vars
<1> QED BY <1>1, <1>2, <1>3, <1>4, <1>5, <1>6, <1>7 DEF Next

\* The first crash leaves the claim trie and the coins at different blocks only
\* between their two writes in FlushStateToDisk, or after a refused one.
THEOREM OnlyFlushIsTorn == Spec => CrashTearsOnlyFlush
<1>1. Init => TornInv
  BY DEF Init, TornInv
<1>2. TornInv /\ [Next]_vars => TornInv'
  BY TornStep
<1>3. TornInv /\ [Next]_vars =>
        [crashes = 0 /\ crashes' = 1 /\ phase \notin {"writing", "aborting"} => trie' = tipBest']_vars
  BY TornStep
<1> QED BY <1>1, <1>2, <1>3, PTL DEF Spec, CrashTearsOnlyFlush

=============================================================================
