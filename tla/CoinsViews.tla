----------------------------- MODULE CoinsViews -----------------------------
(***************************************************************************)
(* The stack of coin views as main.cpp uses it: CCoinsViewDB under the     *)
(* CCoinsViewCache pcoinsTip under the CCoinsViewCache of the block that   *)
(* ConnectTip or DisconnectTip has in hand, with FlushStateToDisk, a crash *)
(* at any moment, and the claim trie's own database beside it.             *)
(*                                                                         *)
(* CCoinsViewDB hides GetCoins instead of overriding it: what is written   *)
(* is never read again through a cache, and reading through pcoinsTip puts *)
(* nothing into it (AccessCoins and Uncache from other threads are left    *)
(* out: they change nothing).                                              *)
(*                                                                         *)
(* A cache maps some transaction ids to entries: coins and the flags DIRTY *)
(* and FRESH.  A block hash names the whole chain that ends in the block,  *)
(* so a best block is that sequence of blocks; a block is the sequence of  *)
(* its transactions with the height that CTxInUndo kept for the input (0:  *)
(* other outputs of the spent transaction were left).                      *)
(*                                                                         *)
(* cs_main is held from the opening of a block's view to its end and while *)
(* the state is written, so these do not interleave with one another.      *)
(* Of a block only the transactions that leave spendable outputs show.     *)
(***************************************************************************)
EXTENDS Transactions, Sequences

CONSTANTS
    MaxTxs,       \* bound: transactions in a block
    MaxReorgs,    \* bound: blocks disconnected in a behaviour
    MaxFaults     \* bound: crashes and failed database writes in a behaviour

ASSUME CoinsViewsAssumption == {MaxTxs, MaxReorgs, MaxFaults} \subseteq Nat

VARIABLES
    diskCoins,   \* DB_COINS
    diskBest,    \* DB_BEST_BLOCK
    tip,         \* pcoinsTip's cacheCoins
    tipBest,     \* pcoinsTip's hashBlock, chainActive's tip between blocks
    view,        \* the cacheCoins of the block's view, empty when there is none
    phase,       \* "idle", "connect", "disconnect", "unclean", "writing" or "aborting"
    block,       \* transactions connected (connect) or still to disconnect
    trie,        \* the chain whose claims pclaimTrie holds
    trieDisk,    \* the chain whose claims its database holds
    reorgs, crashes, failures

vars == <<diskCoins, diskBest, tip, tipBest, view, phase, block, trie, trieDisk, reorgs, crashes, failures>>

coinVars == <<diskCoins, diskBest, tip, tipBest, view>>

Empty == [t \in {} |-> NoCoins]

-----------------------------------------------------------------------------
(* CCoinsViewCache.                                                         *)

Entry(c, dirty, fresh) == [coins |-> c, dirty |-> dirty, fresh |-> fresh]

With(cache, t, e) == [u \in DOMAIN cache \cup {t} |-> IF u = t THEN e ELSE cache[u]]
Without(cache, t) == [u \in DOMAIN cache \ {t} |-> cache[u]]

\* GetCoins of the database view, as CCoinsViewErrorCatcher and the caches call
\* it.  CCoinsViewDB's function of that name has another signature, so what runs
\* is CCoinsView::GetCoins, which finds nothing.
BaseGet(t) == NoCoins

\* GetCoins of pcoinsTip and of a view v over it.
TipGet(t) == IF t \in DOMAIN tip THEN tip[t].coins ELSE BaseGet(t)
Get(v, t) == IF t \in DOMAIN v THEN v[t].coins ELSE TipGet(t)

\* Mutant: whatever is fetched is marked FRESH.
FetchAlwaysFresh(v, t) ==
    IF t \in DOMAIN v \/ t \notin DOMAIN tip THEN v
    ELSE With(v, t, Entry(TipGet(t), FALSE, TRUE))

\* FetchCoins of a view: pcoinsTip finds t only when it has it.
Fetch(v, t) ==
    IF t \in DOMAIN v \/ t \notin DOMAIN tip THEN v
    ELSE With(v, t, Entry(TipGet(t), FALSE, IsPruned(TipGet(t))))

\* Mutant: a coin that is spent before it is flushed leaves the cache even if
\* the parent has it.
ModifyErasing(v, t, c) ==
    IF IsPruned(c) THEN Without(v, t)
    ELSE With(v, t, Entry(c, TRUE, t \notin DOMAIN v /\ IsPruned(TipGet(t))))

\* ModifyCoins and the end of its CCoinsModifier, which leaves coins c.
Modify(v, t, c) ==
    LET fresh == IF t \in DOMAIN v THEN v[t].fresh ELSE IsPruned(TipGet(t))
    IN  IF fresh /\ IsPruned(c) THEN Without(v, t) ELSE With(v, t, Entry(c, TRUE, fresh))

\* ModifyNewCoins: no look-up, the entry is fresh whatever the parent has.
ModifyNew(v, t, c) == With(v, t, Entry(c, TRUE, TRUE))

\* Mutant: a pruned entry is taken for one that the parent need not know of.
BatchWriteSkipping(parent, child, t) ==
    IF t \notin DOMAIN child \/ ~child[t].dirty \/ IsPruned(child[t].coins)
      THEN {parent[u] : u \in {t} \cap DOMAIN parent}
    ELSE {Entry(child[t].coins, TRUE, IF t \in DOMAIN parent THEN parent[t].fresh ELSE child[t].fresh)}

\* BatchWrite of a parent cache, for one entry: what the parent has then.
BatchWriteEntry(parent, child, t) ==
    IF t \notin DOMAIN child \/ ~child[t].dirty THEN {parent[u] : u \in {t} \cap DOMAIN parent}
    ELSE IF t \notin DOMAIN parent
      THEN IF child[t].fresh /\ IsPruned(child[t].coins) THEN {}
           ELSE {Entry(child[t].coins, TRUE, child[t].fresh)}
    ELSE IF parent[t].fresh /\ IsPruned(child[t].coins) THEN {}
    ELSE {Entry(child[t].coins, TRUE, parent[t].fresh)}

BatchWrite(parent, child) ==
    [t \in {u \in Txs : BatchWriteEntry(parent, child, u) # {}} |->
        CHOOSE e \in BatchWriteEntry(parent, child, t) : TRUE]

\* BatchWrite of the database: the dirty entries, a pruned one as an erasure.
WrittenCoins(child) ==
    [t \in Txs |-> IF t \in DOMAIN child /\ child[t].dirty THEN child[t].coins ELSE diskCoins[t]]

-----------------------------------------------------------------------------
(* Blocks.                                                                  *)

Init ==
    /\ diskCoins = NoUtxo /\ tip = Empty /\ view = Empty
    /\ diskBest = <<>> /\ tipBest = <<>> /\ trie = <<>> /\ trieDisk = <<>>
    /\ phase = "idle" /\ block = <<>>
    /\ reorgs = 0 /\ crashes = 0 /\ failures = 0

counters == <<reorgs, crashes, failures>>

BeginConnect ==
    /\ phase = "idle" /\ Len(tipBest) < MaxHeight
    /\ phase' = "connect" /\ block' = <<>>
    /\ UNCHANGED <<coinVars, trie, trieDisk, counters>>

\* ConnectBlock for one transaction: BIP30 (looked up for all of the block's
\* transactions while the view is new), CheckTxInputs, UpdateCoins.
ConnectCoinbase(t) ==
    /\ phase = "connect" /\ block = <<>>
    /\ IsPruned(TipGet(t))
    /\ view' = Modify(Fetch(view, t), t, FromTx(t, Len(tipBest) + 1))
    /\ block' = <<[tx |-> t, undoHeight |-> 0]>>
    /\ UNCHANGED <<diskCoins, diskBest, tip, tipBest, phase, trie, trieDisk, counters>>

\* What CTxInUndo keeps when output n of c is spent.
UndoHeight(c, n) == IF IsPruned(Spend(c, n)) THEN c.height ELSE 0

ConnectTx(t) ==
    LET in == InputOf[t]
        c  == Get(view, in.tx)
        v1 == Fetch(Fetch(view, t), in.tx)
        v2 == Modify(v1, in.tx, Spend(c, in.n))
    IN  /\ phase = "connect" /\ Len(block) < MaxTxs
        /\ IsPruned(TipGet(t))
        /\ in.n \in c.outs
        /\ in.tx \in Coinbases => Len(tipBest) + 1 - c.height >= Maturity
        /\ view' = ModifyNew(v2, t, FromTx(t, Len(tipBest) + 1))
        /\ block' = Append(block, [tx |-> t, undoHeight |-> UndoHeight(c, in.n)])
        /\ UNCHANGED <<diskCoins, diskBest, tip, tipBest, phase, trie, trieDisk, counters>>

\* SetBestBlock, then assert(view.Flush()) and assert(trieCache.flush()).
FinishConnect ==
    /\ phase = "connect"
    /\ tip' = BatchWrite(tip, view) /\ view' = Empty
    /\ tipBest' = Append(tipBest, block)
    /\ trie' = Append(trie, block)
    /\ phase' = "idle" /\ block' = <<>>
    /\ UNCHANGED <<diskCoins, diskBest, trieDisk, counters>>

\* The block is invalid, or something else failed: its view is dropped.
Abandon ==
    /\ phase \in {"connect", "disconnect", "unclean"}
    /\ view' = Empty /\ phase' = "idle" /\ block' = <<>>
    /\ UNCHANGED <<diskCoins, diskBest, tip, tipBest, trie, trieDisk, counters>>

BeginDisconnect ==
    /\ phase = "idle" /\ tipBest # <<>> /\ reorgs < MaxReorgs
    /\ phase' = "disconnect" /\ block' = tipBest[Len(tipBest)]
    /\ reorgs' = reorgs + 1
    /\ UNCHANGED <<coinVars, trie, trieDisk, crashes, failures>>

\* The coins that ApplyTxInUndo leaves for the input of a transaction.
Restored(c, n, undoHeight) ==
    IF undoHeight # 0 THEN [outs |-> {n}, height |-> undoHeight] ELSE [c EXCEPT !.outs = @ \cup {n}]

\* DisconnectBlock's loop body, for the last transaction that is left.  When
\* something does not fit (fClean = false), what the loop still does to the
\* view is lost with it.
UndoTx ==
    LET e   == block[Len(block)]
        t   == e.tx
        in  == InputOf[t]
        v1  == Modify(view, t, NoCoins)
        c   == Get(view, in.tx)
        clean == /\ Get(view, t) = FromTx(t, Len(tipBest))
                 /\ t \notin Coinbases =>
                      /\ IF e.undoHeight # 0 THEN IsPruned(c) ELSE ~IsPruned(c)
                      /\ in.n \notin c.outs
    IN  /\ phase = "disconnect" /\ block # <<>>
        /\ IF clean
             THEN /\ view' = IF t \in Coinbases THEN v1
                              ELSE Modify(v1, in.tx, Restored(c, in.n, e.undoHeight))
                  /\ UNCHANGED phase
             ELSE phase' = "unclean" /\ UNCHANGED view
        /\ block' = SubSeq(block, 1, Len(block) - 1)
        /\ UNCHANGED <<diskCoins, diskBest, tip, tipBest, trie, trieDisk, counters>>

\* Mutant: the claim trie's cache is not flushed.
FinishDisconnectKeepingTrie ==
    /\ phase = "disconnect" /\ block = <<>>
    /\ tip' = BatchWrite(tip, view) /\ view' = Empty
    /\ tipBest' = SubSeq(tipBest, 1, Len(tipBest) - 1)
    /\ phase' = "idle"
    /\ UNCHANGED <<diskCoins, diskBest, block, trie, trieDisk, counters>>

\* SetBestBlock, then assert(view.Flush()) and assert(trieCache.flush()).
FinishDisconnect ==
    /\ phase = "disconnect" /\ block = <<>>
    /\ tip' = BatchWrite(tip, view) /\ view' = Empty
    /\ tipBest' = SubSeq(tipBest, 1, Len(tipBest) - 1)
    /\ trie' = SubSeq(trie, 1, Len(trie) - 1)
    /\ phase' = "idle"
    /\ UNCHANGED <<diskCoins, diskBest, block, trieDisk, counters>>

-----------------------------------------------------------------------------
(* FlushStateToDisk: first the claim trie, then the coins.                  *)

WriteTrie ==
    /\ phase = "idle"
    /\ trieDisk' = trie /\ phase' = "writing"
    /\ UNCHANGED <<coinVars, block, trie, counters>>

WriteCoins ==
    /\ phase = "writing"
    /\ diskCoins' = WrittenCoins(tip) /\ diskBest' = tipBest
    /\ tip' = Empty
    /\ phase' = "idle"
    /\ UNCHANGED <<tipBest, view, block, trie, trieDisk, counters>>

\* The database refuses the batch.  CCoinsViewDB::BatchWrite has emptied the
\* cache by then; AbortNode starts the shutdown.
WriteFails ==
    /\ phase = "writing" /\ crashes + failures < MaxFaults
    /\ tip' = Empty
    /\ phase' = "aborting"
    /\ failures' = failures + 1
    /\ UNCHANGED <<diskCoins, diskBest, tipBest, view, block, trie, trieDisk, reorgs, crashes>>

\* Shutdown calls FlushStateToDisk once more, then the node starts again.
ShutdownWrites ==
    /\ phase = "aborting"
    /\ trieDisk' = trie
    /\ diskCoins' = WrittenCoins(tip) /\ diskBest' = tipBest
    /\ tip' = Empty /\ view' = Empty /\ block' = <<>>
    /\ phase' = "idle"
    /\ UNCHANGED <<tipBest, trie, counters>>

\* The process dies and starts again from its databases (LoadBlockIndexDB,
\* CClaimTrie::ReadFromDisk); VerifyDB disconnects no block (-checklevel below 3)
\* or none with transactions that show.
Crash ==
    /\ crashes + failures < MaxFaults
    /\ tip' = Empty /\ view' = Empty /\ tipBest' = diskBest /\ trie' = trieDisk
    /\ phase' = "idle" /\ block' = <<>>
    /\ crashes' = crashes + 1
    /\ UNCHANGED <<diskCoins, diskBest, trieDisk, reorgs, failures>>

\* Else VerifyDB, on a cache over the database, does not find the coins of the
\* blocks it disconnects: "Corrupted block database detected", and the second
\* round of AppInit2's loop wipes all databases (fReindex).
CrashAndReindex ==
    /\ crashes + failures < MaxFaults
    /\ \E b \in DOMAIN diskBest : diskBest[b] # <<>>
    /\ diskCoins' = NoUtxo /\ diskBest' = <<>> /\ tipBest' = <<>>
    /\ trie' = <<>> /\ trieDisk' = <<>>
    /\ tip' = Empty /\ view' = Empty
    /\ phase' = "idle" /\ block' = <<>>
    /\ crashes' = crashes + 1
    /\ UNCHANGED <<reorgs, failures>>

Next ==
    \/ BeginConnect
    \/ \E t \in Coinbases : ConnectCoinbase(t)
    \/ \E t \in Txs \ Coinbases : ConnectTx(t)
    \/ FinishConnect \/ Abandon
    \/ BeginDisconnect \/ UndoTx \/ FinishDisconnect
    \/ WriteTrie \/ WriteCoins \/ WriteFails \/ ShutdownWrites
    \/ Crash \/ CrashAndReindex

Spec == Init /\ [][Next]_vars

-----------------------------------------------------------------------------
Entries == [coins : Coins, dirty : BOOLEAN, fresh : BOOLEAN]
IsCache(c) == DOMAIN c \subseteq Txs /\ c \in [DOMAIN c -> Entries]

Blocks == Seq([tx : Txs, undoHeight : Heights])

\* Type invariant.
TypeOK ==
    /\ diskCoins \in [Txs -> Coins] /\ IsCache(tip) /\ IsCache(view)
    /\ {diskBest, tipBest, trie, trieDisk} \subseteq Seq(Blocks)
    /\ phase \in {"idle", "connect", "disconnect", "unclean", "writing", "aborting"}
    /\ block \in Blocks

\* The comments on the flags of CCoinsCacheEntry: an entry that is not DIRTY
\* is the parent's version; a FRESH one the parent does not have, or pruned.
\* The parent is what its GetCoins answers: an entry of pcoinsTip may be FRESH
\* although the database has coins under its hash.
FlagsSoundIn(cache, Parent(_)) ==
    \A t \in DOMAIN cache :
        /\ ~cache[t].dirty => cache[t].coins = Parent(t)
        /\ cache[t].fresh => IsPruned(Parent(t))

FlagsSound == FlagsSoundIn(tip, BaseGet) /\ FlagsSoundIn(view, TipGet)

\* The unspent outputs that a chain leaves, said of its blocks alone: a transaction
\* has the height of the last block it is in, and those of its outputs that no
\* later transaction spends.  A place is that of a block and one in the block.
Places(chain) == UNION {{<<b, i>> : i \in DOMAIN chain[b]} : b \in DOMAIN chain}
Before(p, q) == p[1] < q[1] \/ (p[1] = q[1] /\ p[2] < q[2])
TxAt(chain, p) == chain[p[1]][p[2]].tx

Made(chain, places, t) == {p \in places : TxAt(chain, p) = t}
LastMade(chain, places, t) ==
    CHOOSE p \in Made(chain, places, t) :
        \A q \in Made(chain, places, t) : q = p \/ Before(q, p)
Unspent(chain, places, t) == {n \in OutputsOf[t] : ~ \E q \in places :
    /\ TxAt(chain, q) \notin Coinbases
    /\ InputOf[TxAt(chain, q)] = [tx |-> t, n |-> n]
    /\ \A p \in Made(chain, places, t) : Before(p, q)}

CoinsAfter(chain, places, t) ==
    IF Made(chain, places, t) = {} \/ Unspent(chain, places, t) = {} THEN NoCoins
    ELSE [outs |-> Unspent(chain, places, t), height |-> LastMade(chain, places, t)[1]]

UtxoAfter(chain, places) == [t \in Txs |-> CoinsAfter(chain, places, t)]
UtxoOf(chain) == UtxoAfter(chain, Places(chain))

\* Block b of the active chain is part of the chain that the database names.
IsWritten(b) == b \in DOMAIN diskBest /\ \A i \in 1..b : tipBest[i] = diskBest[i]

\* The active chain with nothing left in the blocks that were written.
NewBlocks == [b \in DOMAIN tipBest |-> IF IsWritten(b) THEN <<>> ELSE tipBest[b]]

\* Between blocks, what pcoinsTip answers is the set of unspent outputs of the
\* blocks that are not written: all of theirs, whatever was flushed, disconnected
\* or lost before, and none of the others.
TipIsNewBlocks == phase = "idle" => [t \in Txs |-> TipGet(t)] = UtxoOf(NewBlocks)

\* A block that was written with transactions stays in the active chain: the
\* coins to disconnect it with are not found.
WrittenBlocksStay ==
    \A b \in DOMAIN diskBest : diskBest[b] # <<>> => b \in DOMAIN tipBest /\ IsWritten(b)

\* Disconnecting a block finds coins that do not fit its undo data only when the
\* block was written.
OnlyWrittenIsUnclean == phase = "unclean" => IsWritten(Len(tipBest))

\* The database holds the unspent outputs of the chain that its best block names
\* ("all writes should be atomic"), also when a write is refused, until the
\* shutdown after that.  Only a transaction that is in that chain twice can have
\* spent coins there: FRESH says of the second that the database has none.
DiskIsChainState ==
    failures = 0 \/ (failures = 1 /\ phase = "aborting") =>
        \A t \in Txs :
            \/ diskCoins[t] = UtxoOf(diskBest)[t]
            \/ /\ IsPruned(UtxoOf(diskBest)[t])
               /\ \E p, q \in Made(diskBest, Places(diskBest), t) : p # q

\* The coins of pcoinsTip, of the database and of a block's undo data each belong
\* to the chain they are read with, over flushes, disconnected blocks and crashes.
CoinsAreChainState ==
    TipIsNewBlocks /\ WrittenBlocksStay /\ OnlyWrittenIsUnclean /\ DiskIsChainState

\* Claim trie and coins are written to two databases, one after the other
\* (FlushStateToDisk).  A crash leaves them at different blocks only between
\* the two writes, or after a refused one: a restart from anywhere else finds
\* the trie that "corresponds to the previous block", as ConnectBlock expects.
CrashTearsOnlyFlush ==
    [][crashes = 0 /\ crashes' = 1 /\ phase \notin {"writing", "aborting"} => trie' = tipBest']_vars

\* The stack of caches implements the plain sets of unspent outputs of UtxoSet.
Utxo == INSTANCE UtxoSet WITH
            diskUtxo <- diskCoins,
            tipUtxo  <- [t \in Txs |-> TipGet(t)],
            viewUtxo <- [t \in Txs |-> Get(view, t)]

ImplementsUtxoSet == Utxo!UtxoSpec

=============================================================================
