------------------------------ MODULE MemPool ------------------------------
(***************************************************************************)
(* The memory pool (CTxMemPool of txmempool.cpp): unconfirmed              *)
(* transactions, the links between them, and for each entry the number,    *)
(* size and fees of its descendants, kept up to date while blocks are      *)
(* connected and disconnected, fees are changed by PrioritiseTransaction   *)
(* and the pool is trimmed.                                                *)
(*                                                                         *)
(* The class is driven as the comments of addUnchecked and DisconnectTip   *)
(* say: whoever adds a transaction has done all the checks, and after a    *)
(* block was disconnected UpdateTransactionsFromBlock repairs what         *)
(* addUnchecked left.  The tests of the repository drive it the same way.  *)
(* In the node nobody adds: AcceptToMemoryPool, the only caller of         *)
(* addUnchecked, returns before it gets there (main.cpp:1282).             *)
(***************************************************************************)
EXTENDS Integers, Sequences, FiniteSets, SequencesExt

CONSTANTS
    Tx,         \* transactions
    Inputs,     \* Inputs[t]: the outpoints vin spends, each <<where from, n>>
    Coins,      \* where the outputs come from that the chain starts with
    Size, Fee,  \* GetTxSize, nFee
    Deltas,     \* the fee deltas PrioritiseTransaction is called with
    None,
    MaxVisit,   \* maxDescendantsToVisit: how many transactions outside the block
                \* UpdateForDescendants looks at
    MaxBlocks, MaxBlockTx,  \* bounds: the chain
    MaxPool,    \* bound: entries
    MaxDelta    \* bound: the sum of the deltas of one transaction

Spends(t) == Range(Inputs[t])
Outpoints == UNION {Spends(t) : t \in Tx}

ASSUME MemPoolAssumption ==
    /\ IsFiniteSet(Tx) /\ None \notin Tx /\ Tx \cap Coins = {}
    /\ \A t \in Tx : Inputs[t] # <<>>
    /\ \A o \in Outpoints : o[1] \in Tx \cup Coins
    /\ Size \in [Tx -> Nat \ {0}] /\ Fee \in [Tx -> Nat]
    /\ Deltas \subseteq Int /\ MaxVisit \in Nat /\ MaxDelta \in Nat
    /\ MaxBlocks \in Nat /\ MaxBlockTx \in Nat \ {0}

VARIABLES
    p,          \* the pool, see Pool
    mapDeltas,  \* fee delta of a transaction, in the pool or not
    chain       \* the blocks, each a sequence of transactions

vars == <<p, mapDeltas, chain>>

\* mapTx with nCountWithDescendants (0: dirty), nSizeWithDescendants,
\* nModFeesWithDescendants and feeDelta of each entry, mapLinks and mapNextTx.
Pool == [tx : SUBSET Tx, count : [Tx -> Nat], size : [Tx -> Nat], fees : [Tx -> Int],
         feeDelta : [Tx -> Int], parents : [Tx -> SUBSET Tx],
         children : [Tx -> SUBSET Tx], next : [Outpoints -> Tx \cup {None}]]

EmptyPool ==
    [tx |-> {}, count |-> [t \in Tx |-> 0], size |-> [t \in Tx |-> 0],
     fees |-> [t \in Tx |-> 0], feeDelta |-> [t \in Tx |-> 0],
     parents |-> [t \in Tx |-> {}], children |-> [t \in Tx |-> {}],
     next |-> [o \in Outpoints |-> None]]

ModifiedFee(q, t) == Fee[t] + q.feeDelta[t]
IsDirty(q, t) == q.count[t] = 0
SumOver(S, f(_)) == FoldLeft(LAMBDA a, b : a + f(b), 0, SetToSeq(S))

(***************************************************************************)
(* Walks over mapLinks.                                                    *)
(***************************************************************************)
\* What can be reached from the set S over links, S included
Reach(links, S) ==
    LET walk[n \in Nat] ==
            IF n = 0 THEN S ELSE walk[n - 1] \cup UNION {links[t] : t \in walk[n - 1]}
    IN walk[Cardinality(Tx)]

\* CalculateMemPoolAncestors without limits, of a transaction whose parents are S
Ancestors(q, S) == Reach(q.parents, S)
CalculateDescendants(q, S) == Reach(q.children, S)

\* update_descendant_state of every entry t, by what the entries in By[t] weigh
UpdateState(q, By, sign) ==
    LET Live(t) == t \in q.tx /\ ~IsDirty(q, t)
    IN [q EXCEPT
          !.count = [t \in Tx |-> IF Live(t) THEN @[t] + sign * Cardinality(By[t]) ELSE @[t]],
          !.size = [t \in Tx |->
                        IF Live(t) THEN @[t] + sign * SumOver(By[t], LAMBDA r : Size[r]) ELSE @[t]],
          !.fees = [t \in Tx |->
                        IF Live(t) THEN @[t] + sign * SumOver(By[t], LAMBDA r : ModifiedFee(q, r))
                        ELSE @[t]]]

(***************************************************************************)
(* Adding and removing.  deltas stands for mapDeltas.                      *)
(***************************************************************************)
addUnchecked(q, t, deltas) ==
    LET up == {o[1] : o \in Spends(t)} \cap q.tx
        above == Ancestors(q, up)
        new == [q EXCEPT !.tx = @ \cup {t}, !.count[t] = 1, !.size[t] = Size[t],
                         !.fees[t] = Fee[t] + deltas[t], !.feeDelta[t] = deltas[t],
                         !.parents[t] = up, !.children[t] = {},
                         !.next = [o \in Outpoints |-> IF o \in Spends(t) THEN t ELSE @[o]]]
    IN [UpdateState(new, [a \in Tx |-> IF a \in above THEN {t} ELSE {}], 1)
          EXCEPT !.children = [a \in Tx |-> IF a \in up THEN @[a] \cup {t} ELSE @[a]]]

\* UpdateForRemoveFromMempool: the ancestors lose what S weighs, then the links to
\* and from S are cut.
UpdateForRemoveFromMempool(q, S) ==
    [UpdateState(q, [a \in Tx |-> {r \in S : a \in Ancestors(q, q.parents[r])}], -1)
        EXCEPT !.children = [a \in Tx |-> @[a] \ S],
               !.parents = [c \in Tx |-> @[c] \ {r \in S : c \in q.children[r]}]]

RemoveStaged(q, S) ==
    LET cut == UpdateForRemoveFromMempool(q, S)
        Reset(f, zero) == [t \in Tx |-> IF t \in S THEN zero ELSE f[t]]
    IN [cut EXCEPT !.tx = @ \ S, !.count = Reset(@, 0), !.size = Reset(@, 0),
                   !.fees = Reset(@, 0), !.feeDelta = Reset(@, 0),
                   !.parents = Reset(@, {}), !.children = Reset(@, {}),
                   !.next = [o \in Outpoints |->
                                 IF \E t \in S : o \in Spends(t) THEN None ELSE @[o]]]

Spenders(q, t) == {q.next[o] : o \in {o \in Outpoints : o[1] = t}} \ {None}

\* Mutant: the spenders of a transaction that is not in the pool stay.
removeOfPool(q, t, fRecursive) ==
    RemoveStaged(q, IF fRecursive THEN CalculateDescendants(q, {t} \cap q.tx) ELSE {t} \cap q.tx)

\* remove: recursively also when t itself is not in the pool
remove(q, t, fRecursive) ==
    LET S == IF t \in q.tx THEN {t} ELSE IF fRecursive THEN Spenders(q, t) ELSE {}
    IN RemoveStaged(q, IF fRecursive THEN CalculateDescendants(q, S) ELSE S)

\* removeConflicts works on the pool and mapDeltas together.
removeConflicts(s, t) ==
    FoldLeft(LAMBDA acc, o :
                LET c == acc.pool.next[o]
                IN IF c \in {None, t} THEN acc
                   ELSE [pool |-> remove(acc.pool, c, TRUE), deltas |-> [acc.deltas EXCEPT ![c] = 0]],
             s, Inputs[t])

\* Mutant: what depends on the transactions of the block goes with them.
removeForBlockRecursive(s, vtx) ==
    FoldLeft(LAMBDA acc, t :
                LET left == removeConflicts([acc EXCEPT !.pool = remove(@, t, TRUE)], t)
                IN [left EXCEPT !.deltas[t] = 0],
             s, vtx)

removeForBlock(s, vtx) ==
    FoldLeft(LAMBDA acc, t :
                LET left == removeConflicts([acc EXCEPT !.pool = remove(@, t, FALSE)], t)
                IN [left EXCEPT !.deltas[t] = 0],
             s, vtx)

(***************************************************************************)
(* After a block was disconnected.                                         *)
(***************************************************************************)
\* Mutant: descendants in the block, which addUnchecked counted, are counted again.
UpdateForDescendantsTwice(q, t, exclude) ==
    LET below == CalculateDescendants(q, q.children[t])
    IN IF Cardinality((below \ exclude) \ q.children[t]) > MaxVisit
       THEN [q EXCEPT !.count[t] = 0, !.size[t] = Size[t], !.fees[t] = ModifiedFee(q, t)]
       ELSE UpdateState(q, [a \in Tx |-> IF a = t THEN below ELSE {}], 1)

UpdateForDescendants(q, t, exclude) ==
    LET below == CalculateDescendants(q, q.children[t])
        outside == below \ exclude
    IN IF \/ \E d \in below : IsDirty(q, d)
          \/ Cardinality(outside \ q.children[t]) > MaxVisit
       THEN [q EXCEPT !.count[t] = 0, !.size[t] = Size[t], !.fees[t] = ModifiedFee(q, t)]
       ELSE UpdateState(q, [a \in Tx |-> IF a = t THEN outside ELSE {}], 1)

UpdateTransactionsFromBlock(q, vHashesToUpdate) ==
    LET exclude == Range(vHashesToUpdate)
        Link(acc, t) ==
            LET kids == Spenders(acc, t) \ exclude
            IN [acc EXCEPT !.children[t] = @ \cup kids,
                           !.parents = [c \in Tx |-> IF c \in kids THEN @[c] \cup {t} ELSE @[c]]]
    IN FoldLeft(LAMBDA acc, t : UpdateForDescendants(Link(acc, t), t, exclude),
                q, Reverse(vHashesToUpdate))

(***************************************************************************)
(* The chain below the pool.                                               *)
(***************************************************************************)
Confirmed(blocks) == UNION {Range(blocks[i]) : i \in DOMAIN blocks}

\* An output the blocks leave unspent
Unspent(blocks, o) ==
    /\ o[1] \in Coins \cup Confirmed(blocks)
    /\ \A t \in Confirmed(blocks) : o \notin Spends(t)

\* t can be added: its inputs are there and nobody in the pool spends them.
CanBeAdded(q, blocks, t) ==
    /\ t \notin q.tx \cup Confirmed(blocks)
    /\ \A o \in Spends(t) : q.next[o] = None /\ (o[1] \in q.tx \/ Unspent(blocks, o))

\* A block that spends only what is there, in the order of its transactions
ValidBlock(blocks, vtx) ==
    /\ IsInjective(vtx) /\ Range(vtx) \cap Confirmed(blocks) = {}
    /\ \A i \in DOMAIN vtx :
          \A o \in Spends(vtx[i]) : Unspent(blocks \o <<SubSeq(vtx, 1, i - 1)>>, o)

Init ==
    /\ p = EmptyPool /\ mapDeltas = [t \in Tx |-> 0]
    /\ chain = <<>>

\* addUnchecked, by a caller that did the checks
Add(t) ==
    /\ CanBeAdded(p, chain, t)
    /\ Cardinality(p.tx) < MaxPool
    /\ p' = addUnchecked(p, t, mapDeltas)
    /\ UNCHANGED <<mapDeltas, chain>>

\* ConnectTip
ConnectBlock(vtx) ==
    /\ Len(chain) < MaxBlocks
    /\ ValidBlock(chain, vtx)
    /\ chain' = Append(chain, vtx)
    /\ LET left == removeForBlock([pool |-> p, deltas |-> mapDeltas], vtx)
       IN p' = left.pool /\ mapDeltas' = left.deltas

\* DisconnectTip, when the transactions in back are accepted again and the others
\* refused.  A refused transaction takes what depends on it out of the pool; it must
\* not have a child in its own block, which AcceptToMemoryPool would answer "valid"
\* for with its inputs missing, and so leave the pool's descendants where they are.
DisconnectBlock(back) ==
    /\ chain # <<>>
    /\ chain' = Front(chain)
    /\ LET vtx == Last(chain)
           Resurrect(q, t) == IF t \in back THEN addUnchecked(q, t, mapDeltas)
                              ELSE remove(q, t, TRUE)
           after == FoldLeft(Resurrect, p, vtx)
       IN /\ back \subseteq Range(vtx)
          /\ \A t \in Range(vtx) \ back, u \in Range(vtx) : \A o \in Spends(u) : o[1] # t
          /\ p' = UpdateTransactionsFromBlock(after, SelectSeq(vtx, LAMBDA t : t \in back))
    /\ UNCHANGED mapDeltas

\* removeForReorg finds t not final or spending an immature coinbase.
removeForReorg(t) ==
    /\ t \in p.tx
    /\ p' = remove(p, t, TRUE)
    /\ UNCHANGED <<mapDeltas, chain>>

\* Expire, when S are the entries that are too old
Expire(S) ==
    /\ S # {} /\ S \subseteq p.tx
    /\ p' = RemoveStaged(p, CalculateDescendants(p, S))
    /\ UNCHANGED <<mapDeltas, chain>>

\* CompareTxMemPoolEntryByDescendantScore, leaving ties open
UseDescendantScore(q, t) == q.fees[t] * Size[t] > ModifiedFee(q, t) * q.size[t]
ScoreFee(q, t) == IF UseDescendantScore(q, t) THEN q.fees[t] ELSE ModifiedFee(q, t)
ScoreSize(q, t) == IF UseDescendantScore(q, t) THEN q.size[t] ELSE Size[t]
NotBetter(q, t, u) == ScoreFee(q, t) * ScoreSize(q, u) <= ScoreFee(q, u) * ScoreSize(q, t)

\* One turn of TrimToSize's loop, for some limit: the entry with the lowest score
\* goes with its descendants.
TrimToSize(t) ==
    /\ t \in p.tx
    /\ \A u \in p.tx : NotBetter(p, t, u)
    /\ p' = RemoveStaged(p, CalculateDescendants(p, {t}))
    /\ UNCHANGED <<mapDeltas, chain>>

PrioritiseTransaction(t, nFeeDelta) ==
    /\ mapDeltas[t] + nFeeDelta \in -MaxDelta..MaxDelta
    /\ mapDeltas' = [mapDeltas EXCEPT ![t] = @ + nFeeDelta]
    /\ LET above == Ancestors(p, p.parents[t])
       IN p' = IF t \in p.tx
               THEN [p EXCEPT !.feeDelta[t] = mapDeltas'[t],
                              !.fees = [a \in Tx |->
                                    IF a = t THEN @[a] + mapDeltas'[t] - p.feeDelta[t]
                                    ELSE IF a \in above /\ ~IsDirty(p, a) THEN @[a] + nFeeDelta
                                    ELSE @[a]]]
               ELSE p
    /\ UNCHANGED chain

VtxOfBlocks == UNION {[1..n -> Tx] : n \in 1..MaxBlockTx}

Next ==
    \/ \E t \in Tx : \/ Add(t) \/ removeForReorg(t) \/ TrimToSize(t)
                     \/ \E d \in Deltas : PrioritiseTransaction(t, d)
    \/ \E vtx \in VtxOfBlocks : ConnectBlock(vtx)
    \/ \E back \in SUBSET Tx : DisconnectBlock(back)
    \/ \E S \in SUBSET p.tx : Expire(S)

Spec == Init /\ [][Next]_vars

(***************************************************************************)
(* Properties.                                                             *)
(***************************************************************************)
\* The values of the members of CTxMemPool.
TypeOK ==
    /\ p \in Pool
    /\ mapDeltas \in [Tx -> -MaxDelta..MaxDelta]
    /\ \A i \in DOMAIN chain : Range(chain[i]) \subseteq Tx

\* check: mapNextTx knows exactly the inputs of the pool, and mapLinks has an edge
\* exactly where one transaction of the pool spends another, also after a block
\* came back below transactions that spend it.
LinksAreExact ==
    /\ \A o \in Outpoints : p.next[o] = IF \E t \in p.tx : o \in Spends(t)
                                        THEN CHOOSE t \in p.tx : o \in Spends(t) ELSE None
    /\ \A t \in p.tx : /\ p.parents[t] = {o[1] : o \in Spends(t)} \cap p.tx
                       /\ p.children[t] = {c \in p.tx : \E o \in Spends(c) : o[1] = t}

\* check: every input of the pool is an output of the pool or an unspent one of the
\* chain, and nothing is spent twice, in the pool or by pool and chain together.
InputsAreAvailable ==
    \A t \in p.tx : \A o \in Spends(t) :
        /\ o[1] \in p.tx \/ Unspent(chain, o)
        /\ \A u \in p.tx \ {t} : o \notin Spends(u)

\* What CTxMemPool::check asserts of mapTx, mapNextTx and mapLinks (it runs only
\* where -checkmempool is set), after any block, reorganisation or removal.
PoolIsConsistent == TypeOK /\ LinksAreExact /\ InputsAreAvailable

\* txmempool.h: "nCountWithDescendants, nSizeWithDescendants and
\* nModFeesWithDescendants" of an entry that is not dirty are those of all
\* its descendants, with the deltas mapDeltas has now; a dirty entry counts only
\* itself.
DescendantsAreExact ==
    \A t \in p.tx :
        LET below == {u \in p.tx : t \in Ancestors(p, {u})}
            Paid(u) == Fee[u] + mapDeltas[u]
        IN IF IsDirty(p, t) THEN p.size[t] = Size[t] /\ p.fees[t] = Paid(t)
           ELSE /\ p.count[t] = Cardinality(below)
                /\ p.size[t] = SumOver(below, LAMBDA u : Size[u])
                /\ p.fees[t] = SumOver(below, Paid)

\* removeForBlock: a connected block takes from the pool its own transactions,
\* and those that spend what it spends with their descendants, and nothing else.
BlockRemovesConflictsOnly ==
    [][\A t \in p.tx \ p'.tx :
          Len(chain') > Len(chain) =>
              \/ t \in Range(Last(chain'))
              \/ \E u \in Ancestors(p, {t}), b \in Range(Last(chain')) :
                    u # b /\ Spends(u) \cap Spends(b) # {}]_vars
=============================================================================
