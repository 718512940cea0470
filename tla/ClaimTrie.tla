------------------------------ MODULE ClaimTrie ------------------------------
(***************************************************************************)
(* The claim trie (claimtrie.cpp) as ConnectBlock, DisconnectBlock and     *)
(* ConnectTip / DisconnectTip (main.cpp) drive it.                         *)
(*                                                                         *)
(* `base' is CClaimTrie, the committed trie; `cache' is the view of a      *)
(* CClaimTrieCache over it while a block is connected or disconnected.     *)
(* Both are records of the same shape:                                     *)
(*   active    claims in trie nodes and supports in the support map        *)
(*   queue     claimQueue and supportQueue, rows keyed by height           *)
(*   nameQueue claimQueueName and supportQueueName, rows keyed by name     *)
(*   expQueue  the two expiration queues, rows keyed by height             *)
(*   takeover  nHeightOfLastTakeover of each node                          *)
(*   height    nCurrentHeight;  coin: the height of each unspent output    *)
(*   toCheck   namesToCheckForTakeover;  setHeights: the names that have   *)
(*             an entry in cacheTakeoverHeights;  copied: see OriginalTop  *)
(* A claim and a support never share an output, so each pair of structures *)
(* the code keeps for them is one set here, told apart by KindOf.          *)
(*                                                                         *)
(* Names are atoms: two names share no prefix but the root.  A name whose  *)
(* claims are all gone has no node (recursivePruneName).  claims.front()   *)
(* is not stored: every operation on the claims or supports of a name ends *)
(* in reorderClaims (or inserts the only claim), so it is Top below.       *)
(***************************************************************************)
EXTENDS Integers, Sequences, FiniteSets, FiniteSetsExt

CONSTANTS
    Names,
    Outs,            \* the claim, update and support outputs transactions make
    NameOf,          \* the name in each output's script
    KindOf,          \* "claim", "update" or "support"
    IdOf,            \* its claimId, or the claimId it updates or supports
    AmountOf,        \* nValue
    RankOf,          \* the order of COutPoints
    None,            \* no claim
    nProportionalDelayFactor,
    nMaxDelay,       \* 4032 in getDelayForName
    nExpirationTime,
    Spendable,       \* bound: the outputs that transactions spend
    MaxHeight,       \* bound: no block above this height
    MaxOps,          \* bound: claim operations in a block
    MaxReorgs        \* bound: blocks disconnected in a behaviour

ASSUME ParametersAssumption ==
    /\ nProportionalDelayFactor \in Nat \ {0}
    /\ nMaxDelay \in Nat
    /\ nExpirationTime \in Nat
    /\ nMaxDelay < nExpirationTime
    /\ MaxHeight \in Nat /\ MaxOps \in Nat /\ MaxReorgs \in Nat

ASSUME OutsAssumption ==
    /\ IsFiniteSet(Outs) /\ None \notin Outs /\ Spendable \subseteq Outs
    /\ NameOf \in [Outs -> Names]
    /\ KindOf \in [Outs -> {"claim", "update", "support"}]
    /\ AmountOf \in [Outs -> Nat]
    /\ RankOf \in [Outs -> Nat]

VARIABLES
    base,       \* the committed trie
    cache,      \* the view of the cache in use, base itself when there is none
    phase,      \* "idle", "connect", "connected", "disconnect" or "crashed"
    log,        \* claim operations done (connect) or still to undo (disconnect)
    undo,       \* the CBlockUndo of the block in hand
    spentByTx,  \* spentClaims of the transaction in hand
    chain,      \* the connected blocks: their operations and undo data
    reorgs      \* blocks disconnected so far

vars == <<base, cache, phase, log, undo, spentByTx, chain, reorgs>>

IsSupport(o) == KindOf[o] = "support"

-----------------------------------------------------------------------------
(* The owner of a name.                                                     *)

Claims(s, n)   == {c \in s.active : NameOf[c.out] = n /\ ~IsSupport(c.out)}
Supports(s, n) == {c \in s.active : NameOf[c.out] = n /\ IsSupport(c.out)}

EffectiveAmount(s, c) ==
    AmountOf[c.out] +
    MapThenSumSet(LAMBDA u : AmountOf[u.out],
                  {u \in Supports(s, NameOf[c.out]) : IdOf[u.out] = IdOf[c.out]})

\* operator< of CClaimValue: c is preferred to d.
Beats(s, c, d) ==
    LET ec == EffectiveAmount(s, c)
        ed == EffectiveAmount(s, d)
    IN  \/ ec > ed
        \/ ec = ed /\ c.nHeight < d.nHeight
        \/ ec = ed /\ c.nHeight = d.nHeight /\ RankOf[c.out] < RankOf[d.out]

\* claims.front() after reorderClaims, by its output.
Top(s, n) ==
    IF Claims(s, n) = {} THEN None
    ELSE (CHOOSE c \in Claims(s, n) :
             \A d \in Claims(s, n) \ {c} : Beats(s, c, d)).out

\* getOriginalInfoForName: the owner at the start of the block.  An entry of
\* block_originals is a copy of the base node, except that a node that
\* reorderTrieNode put into the cache ("reorder") has no entry, and gets an
\* empty one ("lost") if it is pruned and the name is then inserted anew.
OriginalTop(s, n) == IF s.copied[n] = "lost" THEN None ELSE Top(base, n)

SameOwner(p, q) == p # None /\ q # None /\ IdOf[p] = IdOf[q]

-----------------------------------------------------------------------------
(* Trie nodes.                                                              *)

Changed(s, t) == {n \in Names : Top(s, n) # Top(t, n)}

\* namesToCheckForTakeover gets the names whose front changed from s to t.
NoteChanges(s, t) == [t EXCEPT !.toCheck = @ \cup Changed(s, t)]

NamesOf(cs) == {NameOf[c.out] : c \in cs}

\* insertClaimIntoTrie for the claims cs.
InsertClaims(s, cs) ==
    [s EXCEPT !.active = @ \cup cs,
              !.copied = [n \in Names |->
                 IF n \notin NamesOf(cs) THEN @[n]
                 ELSE IF @[n] = "no" THEN "orig"
                 ELSE IF @[n] = "reorder" /\ Claims(s, n) = {} THEN "lost"
                 ELSE @[n]]]

\* removeClaimFromTrie and recursivePruneName.
DropClaims(s, cs) ==
    [s EXCEPT !.active = @ \ cs,
              !.copied = [n \in Names |->
                 IF n \in NamesOf(cs) /\ @[n] = "no" THEN "orig" ELSE @[n]]]

\* reorderTrieNode for the names ns.  A name that is not in the cache is
\* looked up from base.root, never from the cached root: a node that was
\* pruned since the block began is found again, with its old claims.
Reorder(s, ns) ==
    [s EXCEPT !.active = @ \cup {c \in base.active :
                 /\ ~IsSupport(c.out)
                 /\ NameOf[c.out] \in ns
                 /\ Claims(s, NameOf[c.out]) = {}},
              !.copied = [n \in Names |->
                 IF n \in ns /\ @[n] = "no" /\ Claims(s, n) # {} THEN "reorder" ELSE @[n]]]

\* insertSupportIntoMap and removeSupportFromMap.
InsertSupports(s, cs) == Reorder([s EXCEPT !.active = @ \cup cs], NamesOf(cs))
DropSupports(s, cs)   == Reorder([s EXCEPT !.active = @ \ cs], NamesOf(cs))

InsertActive(s, c) == IF IsSupport(c.out) THEN InsertSupports(s, {c}) ELSE InsertClaims(s, {c})
DropActive(s, c)   == IF IsSupport(c.out) THEN DropSupports(s, {c}) ELSE DropClaims(s, {c})

-----------------------------------------------------------------------------
(* Queues.                                                                  *)

\* addClaimToQueues and addSupportToQueues.
AddToQueues(s, c) ==
    [s EXCEPT !.queue = @ \cup {[row |-> c.nValidAtHeight, claim |-> c]},
              !.nameQueue = @ \cup {[out |-> c.out, nHeight |-> c.nValidAtHeight]},
              !.expQueue = @ \cup {[row |-> c.nHeight + nExpirationTime, out |-> c.out]}]

\* The height queue entry that a name queue entry for o leads to.
QueuedEntries(s, o) ==
    {e \in s.queue : e.claim.out = o /\ [out |-> o, nHeight |-> e.row] \in s.nameQueue}

ActiveEntries(s, o) == {c \in s.active : c.out = o}

\* getNumBlocksOfContinuousOwnership: a name pruned in this block still counts
\* as owned, through its base node.
ContinuousOwnership(s, n) ==
    IF Claims(s, n) = {} /\ Claims(base, n) = {} THEN 0 ELSE s.height - s.takeover[n]

\* Mutant: the delay is not capped at nMaxDelay.
UncappedDelay(s, n) == ContinuousOwnership(s, n) \div nProportionalDelayFactor

Delay(s, n) ==
    LET share == ContinuousOwnership(s, n) \div nProportionalDelayFactor
    IN  IF share < nMaxDelay THEN share ELSE nMaxDelay

\* addClaim and addSupport.
AddOutput(s, o) ==
    LET delay == IF SameOwner(OriginalTop(s, NameOf[o]), o) THEN 0 ELSE Delay(s, NameOf[o])
    IN  AddToQueues(s, [out |-> o, nHeight |-> s.height, nValidAtHeight |-> s.height + delay])

\* Mutants: the name queue entry stays; the expiration entry stays.
RemoveLeavingName(s, o, nHeight) ==
    LET entries == QueuedEntries(s, o)
        unexpire(t) == [t EXCEPT !.expQueue = @ \ {[row |-> nHeight + nExpirationTime, out |-> o]}]
    IN  IF entries # {} THEN unexpire([s EXCEPT !.queue = @ \ entries])
        ELSE IF ActiveEntries(s, o) # {}
          THEN unexpire(DropActive(s, CHOOSE c \in ActiveEntries(s, o) : TRUE))
        ELSE s

RemoveLeavingExpiration(s, o, nHeight) ==
    LET entries == QueuedEntries(s, o)
    IN  IF entries # {}
          THEN [s EXCEPT !.queue = @ \ entries,
                         !.nameQueue = @ \ {[out |-> o, nHeight |-> e.row] : e \in entries}]
        ELSE IF ActiveEntries(s, o) # {} THEN DropActive(s, CHOOSE c \in ActiveEntries(s, o) : TRUE)
        ELSE s

\* removeClaim and removeSupport: from the queues if the output is there,
\* else from the trie or the support map; then from the expiration queue.
RemoveOutput(s, o, nHeight) ==
    LET unexpire(t) == [t EXCEPT !.expQueue = @ \ {[row |-> nHeight + nExpirationTime, out |-> o]}]
        fromQueue   == {[s EXCEPT !.queue = @ \ {e},
                                  !.nameQueue = @ \ {[out |-> o, nHeight |-> e.row]}]
                        : e \in QueuedEntries(s, o)}
        fromActive  == {DropActive(s, c) : c \in ActiveEntries(s, o)}
    IN  IF fromQueue # {} THEN unexpire(CHOOSE t \in fromQueue : TRUE)
        ELSE IF fromActive # {} THEN unexpire(CHOOSE t \in fromActive : TRUE)
        ELSE IF IsSupport(o) \/ Claims(s, NameOf[o]) = {} THEN s
        ELSE [s EXCEPT !.copied[NameOf[o]] = IF @ = "no" THEN "orig" ELSE @]

\* The nValidAtHeight that removeClaim reports, 0 when nothing was removed.
RemovedValidAt(s, o) ==
    IF QueuedEntries(s, o) # {} THEN (CHOOSE e \in QueuedEntries(s, o) : TRUE).claim.nValidAtHeight
    ELSE IF ActiveEntries(s, o) # {} THEN (CHOOSE c \in ActiveEntries(s, o) : TRUE).nValidAtHeight
    ELSE 0

-----------------------------------------------------------------------------
(* incrementBlock, one operator per loop of the function.                   *)

QueueRow(s)  == {e \in s.queue : e.row = s.height}
ClaimRow(s)  == {e \in QueueRow(s) : ~IsSupport(e.claim.out)}
SupportRow(s) == {e \in QueueRow(s) : IsSupport(e.claim.out)}
Entries(row) == {e.claim : e \in row}

\* The claims of this height's row: out of both queues, into the trie.
ActivateClaimRow(s) ==
    LET row == ClaimRow(s)
    IN  NoteChanges(s, InsertClaims(
            [s EXCEPT !.queue = @ \ row,
                      !.nameQueue = @ \ {[out |-> c.out, nHeight |-> s.height] : c \in Entries(row)}],
            Entries(row)))

\* "if (!found) return false" for a claim that its name's row does not have.
ClaimRowFound(s) ==
    \A c \in Entries(ClaimRow(s)) : [out |-> c.out, nHeight |-> s.height] \in s.nameQueue

\* Mutant: an activated support stays in its name's row.
SupportRowKeepingName(s) ==
    LET row == SupportRow(s)
    IN  NoteChanges(s, InsertSupports([s EXCEPT !.queue = @ \ row], Entries(row)))

\* The supports of this height's row; one that its name's row does not have
\* under its own nValidAtHeight is reported in the log and inserted all the same.
ActivateSupportRow(s) ==
    LET row == SupportRow(s)
    IN  NoteChanges(s, InsertSupports(
            [s EXCEPT !.queue = @ \ row,
                      !.nameQueue = @ \ {[out |-> c.out, nHeight |-> c.nValidAtHeight] : c \in Entries(row)}],
            Entries(row)))

ExpirationRow(s, support) ==
    {e \in s.expQueue : e.row = s.height /\ IsSupport(e.out) = support}

\* What the entries of an expiration row stand for in the trie or the map.
Expiring(s, support) ==
    {c \in s.active : \E e \in ExpirationRow(s, support) : e.out = c.out}

\* Mutant: an expired claim leaves the queue of expirations but not the trie.
ExpireNothing(s) == [s EXCEPT !.expQueue = @ \ ExpirationRow(s, FALSE)]

ExpireClaims(s) ==
    NoteChanges(s, DropClaims([s EXCEPT !.expQueue = @ \ ExpirationRow(s, FALSE)], Expiring(s, FALSE)))

ExpireSupports(s) ==
    NoteChanges(s, DropSupports([s EXCEPT !.expQueue = @ \ ExpirationRow(s, TRUE)], Expiring(s, TRUE)))

\* "return false" when an expiring claim or support is not where it should be.
ExpirationFound(s, support) ==
    \A e \in ExpirationRow(s, support) : \E c \in s.active : c.out = e.out

\* Mutant: any change of the front claim counts as a takeover.
AnyChangeIsTakeover(s) == {n \in s.toCheck : OriginalTop(s, n) # Top(s, n)}

\* The names whose owner is new, gone or another one than when the block began.
TakenOver(s) == {n \in s.toCheck : ~SameOwner(OriginalTop(s, n), Top(s, n))}

NameRow(s, ns, support) ==
    {q \in s.nameQueue : NameOf[q.out] \in ns /\ IsSupport(q.out) = support}

\* The height queue entries that agree with the name rows of ns.
Waiting(s, ns, support) ==
    {e \in s.queue : /\ [out |-> e.claim.out, nHeight |-> e.row] \in NameRow(s, ns, support)
                     /\ e.claim.nValidAtHeight = e.row}

ValidNow(s, row) == {[c EXCEPT !.nValidAtHeight = s.height] : c \in Entries(row)}

\* Every queued claim of a name that was taken over becomes active at once.
ActivateClaimsOf(s, ns) ==
    InsertClaims([s EXCEPT !.queue = @ \ Waiting(s, ns, FALSE),
                           !.nameQueue = @ \ NameRow(s, ns, FALSE)],
                 ValidNow(s, Waiting(s, ns, FALSE)))

\* "return false" for a queued claim whose two queue entries differ.
ClaimsOfFound(s, ns) ==
    \A q \in NameRow(s, ns, FALSE) :
        [out |-> q.out, nHeight |-> q.nHeight] \in
            {[out |-> e.claim.out, nHeight |-> e.row] : e \in Waiting(s, ns, FALSE)}

\* Mutant: a takeover does not activate the queued supports.
ActivateNoSupports(s, ns) == s

\* ... and every queued support; one whose entries differ leaves the name row
\* and stays in the height row.
ActivateSupportsOf(s, ns) ==
    InsertSupports([s EXCEPT !.queue = @ \ Waiting(s, ns, TRUE),
                             !.nameQueue = @ \ NameRow(s, ns, TRUE)],
                   ValidNow(s, Waiting(s, ns, TRUE)))

SetTakeoverHeights(s, ns) ==
    LET owned == {n \in ns : Claims(s, n) # {}}
    IN  [s EXCEPT !.takeover = [n \in Names |-> IF n \in owned THEN s.height ELSE @[n]],
                  !.setHeights = @ \cup owned,
                  !.toCheck = {},
                  !.height = @ + 1]

UndoEntries(row) == {[out |-> c.out, nHeight |-> c.nValidAtHeight] : c \in Entries(row)}

\* The whole function: its result, the cache it leaves and the undo data.
IncrementBlock(s) ==
    LET s1 == ActivateClaimRow(s)
        s2 == ExpireClaims(s1)
        s3 == ActivateSupportRow(s2)
        s4 == ExpireSupports(s3)
        ns == TakenOver(s4)
        s5 == ActivateClaimsOf(s4, ns)
        s6 == ActivateSupportsOf(s5, ns)
    IN  [ok    |-> /\ ClaimRowFound(s) /\ ExpirationFound(s1, FALSE)
                   /\ ExpirationFound(s3, TRUE) /\ ClaimsOfFound(s4, ns),
         cache |-> SetTakeoverHeights(s6, ns),
         undo  |-> [insertUndo   |-> UndoEntries(ClaimRow(s)) \cup UndoEntries(SupportRow(s2))
                                     \cup UndoEntries(Waiting(s4, ns, FALSE))
                                     \cup UndoEntries(Waiting(s5, ns, TRUE)),
                    expireUndo   |-> Expiring(s1, FALSE) \cup Expiring(s3, TRUE),
                    takeoverUndo |-> {[name |-> n, nHeight |-> s4.takeover[n]]
                                      : n \in {m \in ns : OriginalTop(s4, m) # None}}]]

-----------------------------------------------------------------------------
(* decrementBlock.                                                          *)

OfKind(us, support) == {u \in us : IsSupport(u.out) = support}

\* expireSupportUndo and expireUndo: expired entries are active again and
\* wait for expiry in the row of the block that is undone.
Unexpire(s, cs, support) ==
    LET back == [s EXCEPT !.expQueue = @ \cup {[row |-> s.height, out |-> c.out] : c \in OfKind(cs, support)}]
    IN  IF support THEN InsertSupports(back, OfKind(cs, TRUE)) ELSE InsertClaims(back, OfKind(cs, FALSE))

\* insertSupportUndo and insertUndo: activated entries go back to the queues.
\* The height queue's row is the recorded one, but the entry itself keeps the
\* nValidAtHeight it has in the trie or map; the name queue gets the recorded
\* height for a claim and the entry's own for a support.
Unactivate(s, us, support) ==
    LET mine  == OfKind(us, support)
        found(u) == {c \in s.active : c.out = u.out}
        gone  == UNION {found(u) : u \in mine}
        back  == [s EXCEPT
            !.queue = @ \cup UNION {{[row |-> u.nHeight, claim |-> c] : c \in found(u)} : u \in mine},
            !.nameQueue = @ \cup UNION {{[out |-> c.out,
                                          nHeight |-> IF support THEN c.nValidAtHeight ELSE u.nHeight]
                                         : c \in found(u)} : u \in mine}]
    IN  IF support THEN DropSupports(back, gone) ELSE DropClaims(back, gone)

\* Mutant: the heights of the last takeovers are not restored.
DecrementKeepingTakeovers(s, u) ==
    LET s0 == [s EXCEPT !.height = @ - 1]
        s1 == Unexpire(s0, u.expireUndo, TRUE)
        s2 == Unactivate(s1, u.insertUndo, TRUE)
        s3 == Unexpire(s2, u.expireUndo, FALSE)
    IN  Unactivate(s3, u.insertUndo, FALSE)

DecrementBlock(s, u) ==
    LET s0 == [s EXCEPT !.height = @ - 1]
        s1 == Unexpire(s0, u.expireUndo, TRUE)
        s2 == Unactivate(s1, u.insertUndo, TRUE)
        s3 == Unexpire(s2, u.expireUndo, FALSE)
        s4 == Unactivate(s3, u.insertUndo, FALSE)
        restored == {t.name : t \in u.takeoverUndo}
    IN  [s4 EXCEPT !.takeover = [n \in Names |->
                       IF n \in restored THEN (CHOOSE t \in u.takeoverUndo : t.name = n).nHeight ELSE @[n]],
                   !.setHeights = @ \cup restored]

\* "return false" for an activated claim that is not in the trie.
DecrementOk(s, u) ==
    \A v \in OfKind(u.insertUndo, FALSE) :
        \E c \in s.active \cup u.expireUndo : c.out = v.out

\* Mutant: a restored claim is put into the trie without its expiration.
UndoSpendUnexpiring(s, o, nHeight, nValidAtHeight) ==
    LET c == [out |-> o, nHeight |-> nHeight, nValidAtHeight |-> nValidAtHeight]
    IN  IF nValidAtHeight = 0 THEN s
        ELSE IF nValidAtHeight < s.height THEN InsertActive(s, c)
        ELSE AddToQueues(s, c)

\* undoSpendClaim and undoSpendSupport, as ApplyTxInUndo calls them.
UndoSpend(s, o, nHeight, nValidAtHeight) ==
    LET c == [out |-> o, nHeight |-> nHeight, nValidAtHeight |-> nValidAtHeight]
    IN  IF nValidAtHeight = 0 \/ nValidAtHeight < nHeight THEN s
        ELSE IF nValidAtHeight < s.height
          THEN InsertActive([s EXCEPT !.expQueue = @ \cup {[row |-> nHeight + nExpirationTime, out |-> o]}], c)
        ELSE AddToQueues(s, c)

-----------------------------------------------------------------------------
(* Blocks.                                                                  *)

Untouched == [n \in Names |-> "no"]

EmptyTrie == [active |-> {}, queue |-> {}, nameQueue |-> {}, expQueue |-> {},
              takeover |-> [n \in Names |-> 0], height |-> 1, coin |-> [o \in Outs |-> 0],
              toCheck |-> {}, setHeights |-> {}, copied |-> Untouched]

NoUndo == [insertUndo |-> {}, expireUndo |-> {}, takeoverUndo |-> {}]

Init ==
    /\ base = EmptyTrie /\ cache = EmptyTrie
    /\ phase = "idle" /\ log = <<>> /\ undo = NoUndo /\ spentByTx = {}
    /\ chain = <<>> /\ reorgs = 0

\* flush: CClaimTrie::update, then clear.  A name without claims has no node,
\* and a node made for it later starts with takeover height 0.
Committed(s) ==
    [s EXCEPT !.takeover = [n \in Names |-> IF Claims(s, n) = {} THEN 0 ELSE @[n]],
              !.toCheck = {}, !.setHeights = {}, !.copied = Untouched]

\* updateTakeoverHeight fails for a name without a node.
FlushOk(s) == \A n \in s.setHeights : Claims(s, n) # {}

AddedBy(ops, o) == \E i \in DOMAIN ops : ops[i].op = "add" /\ ops[i].out = o

\* The output exists on the active chain or in the block in hand.
InChain(o) == AddedBy(log, o) \/ \E b \in DOMAIN chain : AddedBy(chain[b].ops, o)

Rest(p) ==  \* back to no block in hand
    /\ phase' = p /\ log' = <<>> /\ undo' = NoUndo /\ spentByTx' = {}

\* ConnectTip makes a cache for the block.
BeginConnect ==
    /\ phase = "idle" /\ base.height <= MaxHeight
    /\ phase' = "connect"
    /\ UNCHANGED <<base, cache, log, undo, spentByTx, chain, reorgs>>

\* A transaction's input: it spends a claim or support output.
ConnectInput(o) ==
    /\ phase = "connect" /\ Len(log) < MaxOps
    /\ cache.coin[o] # 0
    /\ LET h == cache.coin[o]
           v == RemovedValidAt(cache, o)
       IN  /\ cache' = [NoteChanges(cache, RemoveOutput(cache, o, h)) EXCEPT !.coin[o] = 0]
           /\ log' = Append(log, [op |-> "spend", out |-> o, nHeight |-> h, nValidAtHeight |-> v])
           /\ spentByTx' = IF v # 0 /\ ~IsSupport(o) THEN {[name |-> NameOf[o], id |-> IdOf[o]]} ELSE {}
    /\ UNCHANGED <<base, phase, undo, chain, reorgs>>

\* A transaction's output.  An update counts only in the transaction that
\* spends the claim it updates; as any other output it is just a coin.
ConnectOutput(o) ==
    /\ phase = "connect" /\ Len(log) < MaxOps
    /\ ~InChain(o)
    /\ LET counts == KindOf[o] = "update" => [name |-> NameOf[o], id |-> IdOf[o]] \in spentByTx
           s == IF counts THEN AddOutput(cache, o) ELSE cache
       IN  cache' = [s EXCEPT !.coin[o] = cache.height]
    /\ log' = Append(log, [op |-> "add", out |-> o, nHeight |-> cache.height, nValidAtHeight |-> 0])
    /\ spentByTx' = {}
    /\ UNCHANGED <<base, phase, undo, chain, reorgs>>

\* assert(trieCache.incrementBlock(...)) ends ConnectBlock's claim work.
FinishTransactions ==
    /\ phase = "connect"
    /\ LET r == IncrementBlock(cache)
       IN  IF r.ok THEN cache' = r.cache /\ undo' = r.undo /\ phase' = "connected"
           ELSE phase' = "crashed" /\ UNCHANGED <<cache, undo>>
    /\ UNCHANGED <<base, log, spentByTx, chain, reorgs>>

\* assert(trieCache.flush()) in ConnectTip.
FlushConnected ==
    /\ phase = "connected"
    /\ IF FlushOk(cache)
         THEN /\ base' = Committed(cache) /\ cache' = Committed(cache)
              /\ chain' = Append(chain, [ops |-> log, undo |-> undo, before |-> base])
              /\ Rest("idle")
         ELSE phase' = "crashed" /\ UNCHANGED <<base, cache, log, undo, spentByTx, chain>>
    /\ UNCHANGED reorgs

\* DisconnectTip: assert(trieCache.decrementBlock(...)) opens DisconnectBlock.
BeginDisconnect ==
    /\ phase = "idle" /\ chain # <<>> /\ reorgs < MaxReorgs
    /\ LET b == chain[Len(chain)]
       IN  IF DecrementOk(base, b.undo)
             THEN /\ cache' = DecrementBlock(base, b.undo)
                  /\ log' = b.ops /\ phase' = "disconnect"
             ELSE phase' = "crashed" /\ UNCHANGED <<cache, log>>
    /\ reorgs' = reorgs + 1
    /\ UNCHANGED <<base, undo, spentByTx, chain>>

\* Undo the last operation that is left: an output is removed, a spent one
\* is restored with its coin.
UndoOperation ==
    /\ phase = "disconnect" /\ log # <<>>
    /\ LET op == log[Len(log)]
       IN  cache' = IF op.op = "add"
                      THEN [RemoveOutput(cache, op.out, op.nHeight) EXCEPT !.coin[op.out] = 0]
                      ELSE [UndoSpend(cache, op.out, op.nHeight, op.nValidAtHeight)
                              EXCEPT !.coin[op.out] = op.nHeight]
    /\ log' = SubSeq(log, 1, Len(log) - 1)
    /\ UNCHANGED <<base, phase, undo, spentByTx, chain, reorgs>>

\* finalizeDecrement and assert(trieCache.flush()) in DisconnectTip.
FlushDisconnected ==
    /\ phase = "disconnect" /\ log = <<>>
    /\ IF FlushOk(cache)
         THEN /\ base' = Committed(cache) /\ cache' = Committed(cache)
              /\ chain' = SubSeq(chain, 1, Len(chain) - 1)
              /\ Rest("idle")
         ELSE phase' = "crashed" /\ UNCHANGED <<base, cache, log, undo, spentByTx, chain>>
    /\ UNCHANGED reorgs

\* ConnectBlock or DisconnectBlock fails for another reason: the cache is
\* dropped and nothing of the block reaches the trie.
Abandon ==
    /\ phase \in {"connect", "connected", "disconnect"}
    /\ cache' = base
    /\ Rest("idle")
    /\ UNCHANGED <<base, chain, reorgs>>

\* The chain may stop at the height bound, and a failed assertion ends it.
Stopped ==
    /\ phase = "crashed" \/ (phase = "idle" /\ base.height > MaxHeight)
    /\ UNCHANGED vars

Forward ==
    \/ BeginConnect
    \/ \E o \in Spendable : ConnectInput(o)
    \/ \E o \in Outs : ConnectOutput(o)
    \/ FinishTransactions
    \/ FlushConnected
    \/ Abandon
    \/ Stopped

Next == Forward \/ BeginDisconnect \/ UndoOperation \/ FlushDisconnected

Spec == Init /\ [][Next]_vars

\* A chain that never disconnects a block.
ForwardSpec == Init /\ [][Forward]_vars

-----------------------------------------------------------------------------
ClaimValues == [out : Outs, nHeight : Nat, nValidAtHeight : Nat]

TrieStates == [active : SUBSET ClaimValues,
               queue : SUBSET [row : Nat, claim : ClaimValues],
               nameQueue : SUBSET [out : Outs, nHeight : Nat],
               expQueue : SUBSET [row : Nat, out : Outs],
               takeover : [Names -> Nat], height : Nat \ {0}, coin : [Outs -> Nat],
               toCheck : SUBSET Names, setHeights : SUBSET Names,
               copied : [Names -> {"no", "orig", "reorder", "lost"}]]

Operations == [op : {"add", "spend"}, out : Outs, nHeight : Nat, nValidAtHeight : Nat]

UndoData == [insertUndo : SUBSET [out : Outs, nHeight : Nat],
             expireUndo : SUBSET ClaimValues,
             takeoverUndo : SUBSET [name : Names, nHeight : Nat]]

\* Type invariant.
TypeOK ==
    /\ base \in TrieStates /\ cache \in TrieStates
    /\ phase \in {"idle", "connect", "connected", "disconnect", "crashed"}
    /\ log \in Seq(Operations)
    /\ undo \in UndoData
    /\ chain \in Seq([ops : Seq(Operations), undo : UndoData, before : TrieStates])
    /\ reorgs \in 0..MaxReorgs

\* assert(incrementBlock), assert(decrementBlock) and assert(flush) never fail.
NoAssertionFails == phase # "crashed"

AgreeIn(s) ==
    /\ {[out |-> e.claim.out, nHeight |-> e.row] : e \in s.queue} = s.nameQueue
    /\ \A e \in s.queue : e.claim.nValidAtHeight = e.row

\* Every queued claim and support is in both queues, in the row of the height
\* at which it becomes valid (the check haveClaimInQueue makes: "Different
\* nValidAtHeight between named queue and height queue").
QueuesAgree == AgreeIn(cache)

Placed(o) == {c \in base.active : c.out = o} \cup {e.claim : e \in {q \in base.queue : q.claim.out = o}}

Live(o) == base.coin[o] # 0 /\ base.height <= base.coin[o] + nExpirationTime

\* An output is in the trie, the support map or a queue exactly while it is
\* unspent and has not expired; then it is there once, and in the expiration
\* row of its own height.
EachLiveClaimOnce ==
    \A o \in Outs :
        /\ KindOf[o] # "update" /\ Live(o) => Placed(o) # {}
        /\ Placed(o) # {} => Live(o)
        /\ Cardinality(Placed(o)) <= 1
        /\ \A c \in Placed(o) : c.nHeight = base.coin[o]
        /\ Placed(o) # {} <=> \E e \in base.expQueue : e.out = o
        /\ \A e \in base.expQueue : e.out = o => e.row = base.coin[o] + nExpirationTime

\* No claim waits for a height that has passed, nor longer than the longest
\* delay: a claim is never stranded in the queue.
NoneStranded ==
    \A e \in base.queue : base.height <= e.row /\ e.row < base.height + nMaxDelay

Owner(s, n) == IF Top(s, n) = None THEN None ELSE IdOf[Top(s, n)]

\* No assertion of an update or an undo fails, and tree, queues and expirations
\* hold each output exactly while it is unspent and has not expired.
TrieIsSound == NoAssertionFails /\ EachLiveClaimOnce

\* A block changes a name's last takeover height, to its own height, exactly
\* when it gives the name to another claimId than the one that owned it; then
\* nothing for that name is left waiting: "immediately insert all claim and
\* supports for those names" (incrementBlock).
TakeoversAreRight ==
    [][Len(chain') > Len(chain) =>
         \A n \in Names :
            LET kept == Owner(base', n) = Owner(base, n)
            IN  /\ Owner(base', n) # None =>
                      base'.takeover[n] = IF kept THEN base.takeover[n] ELSE base.height
                /\ kept \/ \A e \in base'.queue : NameOf[e.claim.out] # n]_vars

\* Disconnecting a block leaves the trie exactly as it was before the block
\* was connected.
DisconnectRestores ==
    [][Len(chain') < Len(chain) => base' = chain[Len(chain)].before]_vars

=============================================================================
