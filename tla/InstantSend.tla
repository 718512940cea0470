---------------------------- MODULE InstantSend ----------------------------
(***************************************************************************)
(* InstantSend (instantx.cpp): nodes exchange transaction lock requests    *)
(* and the masternodes chosen for an outpoint vote for the first request   *)
(* that spends it.  A node that counts Required votes on every input of a  *)
(* request locks the inputs: it refuses other transactions and blocks that *)
(* spend them.                                                             *)
(*                                                                         *)
(* Each node has its own chain and its own CInstantSend object, one        *)
(* variable per map.  A map from hashes to records is the set of its keys; *)
(* times are left out, so that whatever waits for a deadline may happen at *)
(* any moment.  Votes reach a node in any order, any number of times, or   *)
(* never.  There is no memory pool: AcceptToMemoryPool returns before it   *)
(* stores anything (see MemPool), so the pool is always empty and only the *)
(* chain competes with a lock.                                             *)
(***************************************************************************)
EXTENDS Integers, FiniteSets, Sequences

CONSTANTS
    Nodes,          \* every node; the ones Voters names are masternodes
    Txs,            \* transactions
    Outpoints,      \* confirmed outputs that Txs spend
    Inputs,         \* Inputs[t]: the outpoints t spends
    Voters,         \* Voters[o]: the masternodes ranked to vote on o
    Required,       \* COutPointLock::SIGNATURES_REQUIRED
    Total,          \* COutPointLock::SIGNATURES_TOTAL
    KeepLock,       \* nInstantSendKeepLock
    None,           \* no transaction
    MaxEvents       \* bound: blocks connected or disconnected, restarts and
                    \* runs of CheckAndRemove, all nodes together

ASSUME InstantSendAssumption ==
    /\ None \notin Txs
    /\ IsFiniteSet(Nodes)
    /\ Inputs \in [Txs -> (SUBSET Outpoints) \ {{}}]
    /\ Voters \in [Outpoints -> SUBSET Nodes]
    /\ Required \in Nat /\ Total \in Nat /\ 2 * Required > Total
    /\ \A o \in Outpoints : Cardinality(Voters[o]) <= Total
    /\ KeepLock \in Nat \ {0}
    /\ MaxEvents \in Nat

VARIABLES
    cand,       \* mapTxLockCandidates: the requests a node collects votes for
    confirmed,  \* nConfirmedHeight of a candidate; 0 stands for -1
    votes,      \* the votes in the candidates' COutPointLocks
    voted,      \* mapVotedOutpoints
    locked,     \* mapLockedOutpoints
    seen,       \* mapTxLockVotes: the votes a node does not ask for again
    orphans,    \* mapTxLockVotesOrphan
    requests,   \* mapLockRequestAccepted and mapLockRequestRejected
    chain,      \* the active chain: one transaction, or None, per block
    sent,       \* every vote signed and relayed so far
    busy,       \* the request a node is in the middle of
    buried,     \* blocks of a node's chain that are too deep to disconnect
    restarted,  \* nodes that have lost their memory
    events      \* how many of them there were

vars == <<cand, confirmed, votes, voted, locked, seen, orphans, requests, chain,
          sent, busy, buried, restarted, events>>

Vote == {v \in [tx : Txs, out : Outpoints, mn : Nodes] :
           v.out \in Inputs[v.tx] /\ v.mn \in Voters[v.out]}
Idle == [step |-> "idle", node |-> None, tx |-> None, todo |-> {}]

(***************************************************************************)
(* The chain as this component sees it.                                    *)
(***************************************************************************)
Mined(n) == {chain[n][i] : i \in 1..Len(chain[n])} \ {None}
Unspent(n, t) == \A u \in Mined(n) : Inputs[u] \cap Inputs[t] = {}

\* CTxLockRequest::IsValid.  With or without the unspent requirement a spent
\* input makes the request invalid: its value is gone from the coins read last.
IsValid(n, t) == Unspent(n, t)

\* A transaction of n that holds one of t's inputs by a completed lock.
LockedAgainst(n, t) == \E o \in Inputs[t] : locked[n][o] \notin {None, t}

(***************************************************************************)
(* Completing a lock.                                                      *)
(***************************************************************************)
\* Mutant: one input with enough votes is enough.
IsSomeOutPointReady(vs, t) ==
    \E o \in Inputs[t] : Cardinality({v \in vs : v.tx = t /\ v.out = o}) >= Required

\* CTxLockCandidate::IsAllOutPointsReady, of the votes vs
IsAllOutPointsReady(vs, t) ==
    \A o \in Inputs[t] : Cardinality({v \in vs : v.tx = t /\ v.out = o}) >= Required

IsLockedInstantSendTransaction(n, t) ==
    t \in cand[n] /\ \A o \in Inputs[t] : locked[n][o] = t

\* LockTransactionInputs
LockTransactionInputs(n, t) ==
    [locked EXCEPT ![n] = [o \in Outpoints |-> IF o \in Inputs[t] THEN t ELSE @[o]]]

\* ResolveConflicts: a completed lock of another transaction is in the way or
\* not.  If a block spent an input meanwhile, the tip is disconnected and the
\* best chain activated: the same block is connected again, because the lock
\* that would refuse it is entered afterwards.
ResolveConflicts(n, t) == ~LockedAgainst(n, t)

\* TryToFinalizeLockCandidate after t's votes became vs
TryToFinalizeLockCandidate(n, t, vs) ==
    locked' = IF /\ IsAllOutPointsReady(vs, t)
                 /\ ~IsLockedInstantSendTransaction(n, t)
                 /\ ResolveConflicts(n, t)
              THEN LockTransactionInputs(n, t)
              ELSE locked

(***************************************************************************)
(* Votes.                                                                  *)
(***************************************************************************)
\* mapVotedOutpoints leads to a vote of v.mn for v's outpoint in another
\* candidate.
VotedElsewhere(n, v) ==
    \E h \in voted[n][v.out] \ {v.tx} :
        [tx |-> h, out |-> v.out, mn |-> v.mn] \in votes[n]

\* ProcessTxLockVote of a vote whose candidate is known: it is refused if its
\* masternode voted for the outpoint before, otherwise it is counted.
CountVote(n, v) ==
    IF VotedElsewhere(n, v)
    THEN UNCHANGED <<votes, voted, locked>>
    ELSE /\ voted' = [voted EXCEPT ![n][v.out] = @ \cup {v.tx}]
         /\ votes' = [votes EXCEPT ![n] = @ \cup {v}]
         /\ IF v \in votes[n]
            THEN UNCHANGED locked
            ELSE TryToFinalizeLockCandidate(n, v.tx, votes[n] \cup {v})

\* ProcessTxLockVote of a vote for an unknown candidate: it becomes an orphan.
\* The branch that reprocesses a request needs one that is known without being
\* a candidate: RequestsAreCandidates says there is none.
KeepOrphanVote(n, v) ==
    /\ orphans' = [orphans EXCEPT ![n] = @ \cup {v}]
    /\ UNCHANGED <<votes, voted, locked>>

\* CInstantSend::ProcessMessage, TXLOCKVOTE
ReceiveVote(n, v) ==
    /\ busy = Idle
    /\ v \in sent \ seen[n]
    /\ seen' = [seen EXCEPT ![n] = @ \cup {v}]
    /\ IF v.tx \in cand[n]
       THEN CountVote(n, v) /\ UNCHANGED orphans
       ELSE KeepOrphanVote(n, v)
    /\ UNCHANGED <<cand, confirmed, requests, chain, sent, busy, buried, restarted, events>>

\* Mutant: a masternode votes again for an outpoint it voted on for another
\* transaction.
VotesAgain(n, t) ==
    {[tx |-> t, out |-> o, mn |-> n] : o \in {o \in Inputs[t] : n \in Voters[o]}} \ votes[n]

\* CInstantSend::Vote: n votes for each input of t it is ranked for and has
\* not voted on, as far as mapVotedOutpoints remembers.
NewVotes(n, t) ==
    {v \in {[tx |-> t, out |-> o, mn |-> n] : o \in {o \in Inputs[t] : n \in Voters[o]}} :
        /\ ~ \E h \in voted[n][v.out] : [tx |-> h, out |-> v.out, mn |-> n] \in votes[n]
        /\ v \notin votes[n]}

(***************************************************************************)
(* Requests.                                                               *)
(***************************************************************************)
\* CreateTxLockCandidate
CreateTxLockCandidate(n, t) ==
    /\ IsValid(n, t)
    /\ cand' = [cand EXCEPT ![n] = @ \cup {t}]

\* ProcessTxLockRequest up to ProcessOrphanTxLockVotes: no input is locked,
\* CreateTxLockCandidate, Vote.  All of a node's orphan votes are then gone
\* through while it holds cs_main: nobody else sees its state meanwhile.
ReceiveRequest(n, t) ==
    /\ busy = Idle
    /\ \A o \in Inputs[t] : locked[n][o] = None
    /\ CreateTxLockCandidate(n, t)
    /\ LET new == NewVotes(n, t)
       IN  /\ votes' = [votes EXCEPT ![n] = @ \cup new]
           /\ voted' = [voted EXCEPT ![n] = [o \in Outpoints |->
                            IF \E v \in new : v.out = o THEN @[o] \cup {t} ELSE @[o]]]
           /\ seen' = [seen EXCEPT ![n] = @ \cup new]
           /\ sent' = sent \cup new
    /\ busy' = [step |-> "orphans", node |-> n, tx |-> t, todo |-> orphans[n]]
    /\ UNCHANGED <<confirmed, locked, orphans, requests, chain,
                   buried, restarted, events>>

\* ProcessOrphanTxLockVotes, one vote whose candidate is known: it stays an
\* orphan if it is refused.
ProcessOrphanVote(v) ==
    LET n == busy.node
    IN  /\ v \in busy.todo
        /\ v.tx \in cand[n]
        /\ CountVote(n, v)
        /\ orphans' = [orphans EXCEPT ![n] =
                          IF VotedElsewhere(n, v) \/ v \in votes[n] THEN @ ELSE @ \ {v}]
        /\ busy' = [busy EXCEPT !.todo = @ \ {v}]
        /\ UNCHANGED <<cand, confirmed, seen, requests, chain, sent,
                       buried, restarted, events>>

\* ProcessOrphanTxLockVotes, one vote whose candidate is still unknown.
\* ProcessTxLockVote returns true for an orphan seen before, and the vote is
\* erased, unless its masternode is held to be spamming because its last orphan
\* vote is later than the average: that is a matter of time, and any choice here.
ForgetOrphanVote(v, spamming) ==
    LET n == busy.node
    IN  /\ v \in busy.todo
        /\ v.tx \notin cand[n]
        /\ orphans' = [orphans EXCEPT ![n] = IF spamming THEN @ ELSE @ \ {v}]
        /\ busy' = [busy EXCEPT !.todo = @ \ {v}]
        /\ UNCHANGED <<cand, confirmed, votes, voted, locked, seen, requests,
                       chain, sent, buried, restarted, events>>

\* The rest of ProcessTxLockRequest, TryToFinalizeLockCandidate.  The handler
\* then releases its locks.
FinishRequest ==
    LET n == busy.node
    IN  /\ busy.step = "orphans"
        /\ busy.todo = {}
        /\ TryToFinalizeLockCandidate(n, busy.tx, votes[n])
        /\ busy' = [busy EXCEPT !.step = "accept"]
        /\ UNCHANGED <<cand, confirmed, votes, voted, seen, orphans,
                       requests, chain, sent, buried, restarted, events>>

\* The rest of the TXLOCKREQUEST handler: AcceptToMemoryPool, then
\* AcceptLockRequest or RejectLockRequest.
AcceptRequest ==
    /\ busy.step = "accept"
    /\ requests' = [requests EXCEPT ![busy.node] = @ \cup {busy.tx}]
    /\ busy' = Idle
    /\ UNCHANGED <<cand, confirmed, votes, voted, locked, seen, orphans, chain, sent,
                   buried, restarted, events>>

(***************************************************************************)
(* Blocks.                                                                 *)
(***************************************************************************)
\* No message is being handled: a block from the network, the miner or an RPC
\* call can be connected, also between the two halves of the request handler.
Unlocked == busy.step \in {"idle", "accept"}

\* SyncTransaction: a candidate learns at which height t is, 0 if nowhere.
SyncTransaction(n, t, h) ==
    confirmed' = [confirmed EXCEPT ![n] = [u \in Txs |->
                    IF u = t /\ u \in cand[n] THEN h ELSE @[u]]]

\* ConnectTip of a block with transaction t, or with none.  CheckBlock refuses
\* t if a completed lock holds one of its inputs; SyncTransaction gives a
\* candidate its height.
ConnectTip(n, t) ==
    /\ Unlocked
    /\ events < MaxEvents
    /\ t # None => Unspent(n, t) /\ ~LockedAgainst(n, t)
    /\ chain' = [chain EXCEPT ![n] = Append(@, t)]
    /\ SyncTransaction(n, t, Len(chain[n]) + 1)
    /\ buried' = [buried EXCEPT ![n] =
                    IF Len(chain[n]) - KeepLock > @ THEN Len(chain[n]) - KeepLock ELSE @]
    /\ events' = events + 1
    /\ UNCHANGED <<cand, votes, voted, locked, seen, orphans, requests,
                   sent, busy, restarted>>

\* DisconnectTip: the block's transaction is unconfirmed again.
DisconnectTip(n) ==
    /\ Unlocked
    /\ events < MaxEvents
    /\ Len(chain[n]) > buried[n]
    /\ chain' = [chain EXCEPT ![n] = SubSeq(@, 1, Len(@) - 1)]
    /\ SyncTransaction(n, chain[n][Len(chain[n])], 0)
    /\ events' = events + 1
    /\ UNCHANGED <<cand, votes, voted, locked, seen, orphans, requests, sent, busy,
                   buried, restarted>>

(***************************************************************************)
(* Cleaning up, and losing everything.                                     *)
(***************************************************************************)
\* CTxLockCandidate::IsExpired
IsExpired(n, t) == confirmed[n][t] # 0 /\ Len(chain[n]) - confirmed[n][t] > KeepLock

\* t was mined more than KeepLock blocks ago (CTxLockVote::IsExpired)
Buried(n, t) == \E i \in 1..Len(chain[n]) : chain[n][i] = t /\ Len(chain[n]) - i > KeepLock

\* Mutant: a clean-up that forgets one of the maps.
AllVoted(n, free) == voted[n]

\* What CheckAndRemove leaves of the maps when the outpoints free are released
\* and the candidates gone removed.
KeptVoted(n, free) == [o \in Outpoints |-> IF o \in free THEN {} ELSE voted[n][o]]
KeptRequests(n, gone) == requests[n] \ gone
KeptLocked(n, free) == [o \in Outpoints |-> IF o \in free THEN None ELSE locked[n][o]]

\* CheckAndRemove: an expired candidate goes with the locks and the votes of
\* its outpoints, whoever they belong to.  Votes for a buried transaction have
\* its height if they were counted when it was mined, and go, or arrived later
\* and stay; a deadline may have passed for any orphan.
\* (KeepLock blocks are not connected between the two halves of a request.)
CheckAndRemove(n, oldVotes, oldOrphans) ==
    LET gone == {t \in cand[n] : IsExpired(n, t)}
        free == UNION {Inputs[t] : t \in gone}
    IN  /\ busy = Idle
        /\ events < MaxEvents
        /\ cand' = [cand EXCEPT ![n] = @ \ gone]
        /\ confirmed' = [confirmed EXCEPT ![n] = [t \in Txs |->
                            IF t \in gone THEN 0 ELSE @[t]]]
        /\ votes' = [votes EXCEPT ![n] = {v \in @ : v.tx \notin gone}]
        /\ locked' = [locked EXCEPT ![n] = KeptLocked(n, free)]
        /\ voted' = [voted EXCEPT ![n] = KeptVoted(n, free)]
        /\ requests' = [requests EXCEPT ![n] = KeptRequests(n, gone)]
        /\ seen' = [seen EXCEPT ![n] = @ \ (oldVotes \cup oldOrphans)]
        /\ orphans' = [orphans EXCEPT ![n] = @ \ oldOrphans]
        /\ events' = events + 1
        /\ UNCHANGED <<chain, sent, busy, buried, restarted>>

\* A restart: none of CInstantSend's maps is on disk.
Restart(n) ==
    /\ busy = Idle
    /\ events < MaxEvents
    /\ cand' = [cand EXCEPT ![n] = {}]
    /\ confirmed' = [confirmed EXCEPT ![n] = [t \in Txs |-> 0]]
    /\ votes' = [votes EXCEPT ![n] = {}]
    /\ voted' = [voted EXCEPT ![n] = [o \in Outpoints |-> {}]]
    /\ locked' = [locked EXCEPT ![n] = [o \in Outpoints |-> None]]
    /\ seen' = [seen EXCEPT ![n] = {}]
    /\ orphans' = [orphans EXCEPT ![n] = {}]
    /\ requests' = [requests EXCEPT ![n] = {}]
    /\ restarted' = restarted \cup {n}
    /\ events' = events + 1
    /\ UNCHANGED <<chain, sent, busy, buried>>

(***************************************************************************)
(* The specification.                                                      *)
(***************************************************************************)
Init ==
    /\ cand = [n \in Nodes |-> {}]
    /\ confirmed = [n \in Nodes |-> [t \in Txs |-> 0]]
    /\ votes = [n \in Nodes |-> {}]
    /\ voted = [n \in Nodes |-> [o \in Outpoints |-> {}]]
    /\ locked = [n \in Nodes |-> [o \in Outpoints |-> None]]
    /\ seen = [n \in Nodes |-> {}]
    /\ orphans = [n \in Nodes |-> {}]
    /\ requests = [n \in Nodes |-> {}]
    /\ chain = [n \in Nodes |-> <<>>]
    /\ sent = {}
    /\ busy = Idle
    /\ buried = [n \in Nodes |-> 0]
    /\ restarted = {}
    /\ events = 0

Next ==
    \/ \E n \in Nodes :
        \/ \E t \in Txs : ReceiveRequest(n, t)
        \/ \E v \in sent : ReceiveVote(n, v)
        \/ \E t \in Txs \cup {None} : ConnectTip(n, t)
        \/ DisconnectTip(n)
        \/ \E oldVotes \in {{}, {v \in seen[n] : Buried(n, v.tx)}},
              oldOrphans \in SUBSET orphans[n] :
              CheckAndRemove(n, oldVotes, oldOrphans)
        \/ Restart(n)
    \/ \E v \in busy.todo : \/ ProcessOrphanVote(v)
                            \/ \E spamming \in BOOLEAN : ForgetOrphanVote(v, spamming)
    \/ FinishRequest
    \/ AcceptRequest

Spec == Init /\ [][Next]_vars

(***************************************************************************)
(* Properties.                                                             *)
(***************************************************************************)
\* The maps of CInstantSend hold what their declarations say, and a node in
\* the middle of a request has that request as a candidate.
TypeOK ==
    /\ cand \in [Nodes -> SUBSET Txs]
    /\ confirmed \in [Nodes -> [Txs -> Nat]]
    /\ votes \in [Nodes -> SUBSET Vote]
    /\ voted \in [Nodes -> [Outpoints -> SUBSET Txs]]
    /\ locked \in [Nodes -> [Outpoints -> Txs \cup {None}]]
    /\ seen \in [Nodes -> SUBSET Vote]
    /\ orphans \in [Nodes -> SUBSET Vote]
    /\ requests \in [Nodes -> SUBSET Txs]
    /\ chain \in [Nodes -> Seq(Txs \cup {None})]
    /\ sent \subseteq Vote
    /\ buried \in [Nodes -> Nat]
    /\ restarted \subseteq Nodes
    /\ \/ busy = Idle
       \/ /\ busy.step \in {"orphans", "accept"}
          /\ busy.node \in Nodes /\ busy.tx \in cand[busy.node]
          /\ busy.todo \subseteq orphans[busy.node]
    /\ events \in 0..MaxEvents

\* "There can't be 2 completed locks for the same outpoint" (ProcessTxLockRequest):
\* no two nodes ever lock an outpoint for different transactions, whatever order
\* requests, votes, blocks and clean-ups come in, as long as fewer masternodes
\* forgot their votes in a restart than any two quorums share.
LocksAgree ==
    Cardinality(restarted) < 2 * Required - Total =>
        \A n1, n2 \in Nodes, o \in Outpoints :
            /\ locked[n1][o] # None
            /\ locked[n2][o] # None
            => locked[n1][o] = locked[n2][o]

\* Vote and ProcessTxLockVote look up the candidate of every transaction in
\* mapVotedOutpoints and use the result without a test: it must be there.
VotedAreCandidates ==
    \A n \in Nodes, o \in Outpoints : voted[n][o] \subseteq cand[n]

\* A request that was accepted or rejected is a candidate for as long as it is
\* remembered, so ProcessTxLockVote never finds one to reprocess.
RequestsAreCandidates ==
    \A n \in Nodes : requests[n] \subseteq cand[n]

\* A lock is only held for a candidate with a full set of votes: the node can
\* give the request and the votes to others (Relay, called by CheckBlock).
LocksHaveVotes ==
    \A n \in Nodes, o \in Outpoints :
        locked[n][o] # None =>
            locked[n][o] \in cand[n] /\ IsAllOutPointsReady(votes[n], locked[n][o])

\* A masternode that still has its memory signs at most one vote per outpoint.
VotesOnce ==
    \A v, w \in sent :
        v.mn = w.mn /\ v.out = w.out /\ v.mn \notin restarted => v = w

\* The maps of CInstantSend, filled by requests and votes and emptied by
\* CheckAndRemove one by one, never hold what another of them has lost.
BooksAgree == TypeOK /\ VotedAreCandidates /\ RequestsAreCandidates /\ LocksHaveVotes

=============================================================================
