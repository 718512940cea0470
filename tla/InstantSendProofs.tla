-------------------------- MODULE InstantSendProofs --------------------------
(***************************************************************************)
(* For any nodes, transactions, outpoints and rankings: a masternode that  *)
(* keeps its memory signs one vote per outpoint, the maps of CInstantSend  *)
(* agree after every step, and two nodes never lock an outpoint for        *)
(* different transactions unless masternodes forget their votes.           *)
(***************************************************************************)
EXTENDS InstantSend, FiniteSetTheorems, SequenceTheorems, TLAPS

\* The votes of vs for outpoint o in transaction t, and who signed them.
Ballots(vs, t, o) == {v \in vs : v.tx = t /\ v.out = o}
Signers(vs, t, o) == {m \in Voters[o] : [tx |-> t, out |-> o, mn |-> m] \in vs}

\* A transaction that spends o is so deep in the chain of n that it stays
\* there: no request that spends o is valid for n again.
Dead(n, o) ==
    \E i \in 1..buried[n] : chain[n][i] # None /\ o \in Inputs[chain[n][i]]

\* Which request is in hand.
BusyInv ==
    busy \in [step : {"idle", "orphans", "accept"}, node : Nodes \cup {None},
              tx : Txs \cup {None}, todo : SUBSET Vote]

\* The blocks of a chain that cannot be disconnected any more.
ChainInv ==
    \A n \in Nodes :
        /\ buried[n] <= Len(chain[n])
        /\ Len(chain[n]) <= buried[n] + KeepLock + 1

\* A candidate's height is that of the block it is in.
HeightsInv ==
    \A n \in Nodes, t \in Txs :
        confirmed[n][t] # 0 =>
            /\ t \in cand[n]
            /\ confirmed[n][t] <= Len(chain[n])
            /\ chain[n][confirmed[n][t]] = t

\* Every vote that a node holds was sent by its masternode.
SentInv == \A n \in Nodes : votes[n] \subseteq sent /\ orphans[n] \subseteq sent

\* A transaction is entered under its own inputs only.
InputsInv ==
    \A n \in Nodes, o \in Outpoints :
        /\ \A t \in voted[n][o] : o \in Inputs[t]
        /\ locked[n][o] # None => o \in Inputs[locked[n][o]]

\* A masternode remembers each vote it signed or will never again find a
\* request for the outpoint valid.
MemoryInv ==
    \A v \in sent :
        v.mn \notin restarted =>
            \/ v \in votes[v.mn] /\ v.tx \in voted[v.mn][v.out]
            \/ Dead(v.mn, v.out)

\* The inductive invariant.
LockInv ==
    /\ BooksAgree
    /\ BusyInv
    /\ ChainInv
    /\ HeightsInv
    /\ SentInv
    /\ InputsInv
    /\ MemoryInv
    /\ VotesOnce

-----------------------------------------------------------------------------
(* Counting votes.                                                          *)

\* Each signer has one vote for an outpoint in a transaction.
LEMMA BallotsAreSigners ==
  ASSUME NEW vs, vs \subseteq Vote, NEW t \in Txs, NEW o \in Inputs[t]
  PROVE  /\ IsFiniteSet(Ballots(vs, t, o))
         /\ IsFiniteSet(Signers(vs, t, o))
         /\ Cardinality(Ballots(vs, t, o)) = Cardinality(Signers(vs, t, o))
<1> DEFINE ballot == [m \in Signers(vs, t, o) |-> [tx |-> t, out |-> o, mn |-> m]]
<1>1. o \in Outpoints /\ Signers(vs, t, o) \subseteq Nodes
  BY InstantSendAssumption DEF Signers
<1>2. IsFiniteSet(Signers(vs, t, o))
  BY <1>1, FS_Subset, InstantSendAssumption
<1>3. ballot \in [Signers(vs, t, o) -> Ballots(vs, t, o)]
  BY DEF Signers, Ballots
<1>4. ASSUME NEW v \in Ballots(vs, t, o)
      PROVE  v.mn \in Signers(vs, t, o) /\ v = ballot[v.mn]
  <2>1. /\ v \in [tx : Txs, out : Outpoints, mn : Nodes]
        /\ v.mn \in Voters[v.out] /\ v.tx = t /\ v.out = o /\ v \in vs
    BY DEF Ballots, Vote
  <2>2. v = [tx |-> t, out |-> o, mn |-> v.mn]
    BY <2>1
  <2> QED  BY <2>1, <2>2 DEF Signers
<1>5. ballot \in Surjection(Signers(vs, t, o), Ballots(vs, t, o))
  BY <1>3, <1>4 DEF Surjection
<1>6. ballot \in Injection(Signers(vs, t, o), Ballots(vs, t, o))
  <2>1. \A a, b \in Signers(vs, t, o) : ballot[a] = ballot[b] => a = b
    <3>1. \A a \in Signers(vs, t, o) : ballot[a].mn = a
      OBVIOUS
    <3> HIDE DEF ballot
    <3> QED  BY <3>1
  <2> HIDE DEF ballot
  <2> QED  BY <1>3, <2>1 DEF Injection, IsInjective
<1>7. ExistsBijection(Signers(vs, t, o), Ballots(vs, t, o))
  BY <1>5, <1>6 DEF ExistsBijection, Bijection
<1> QED  BY <1>2, <1>7, FS_Bijection

\* A request that has enough votes has enough with more votes.
LEMMA ReadyGrows ==
  ASSUME NEW vs, NEW ws, vs \subseteq ws, ws \subseteq Vote, NEW t \in Txs,
         IsAllOutPointsReady(vs, t)
  PROVE  IsAllOutPointsReady(ws, t)
<1>1. SUFFICES ASSUME NEW o \in Inputs[t]
               PROVE  Cardinality(Ballots(ws, t, o)) >= Required
  BY DEF IsAllOutPointsReady, Ballots
<1>2. Cardinality(Ballots(vs, t, o)) >= Required
  BY <1>1 DEF IsAllOutPointsReady, Ballots
<1>3. IsFiniteSet(Ballots(ws, t, o)) /\ IsFiniteSet(Ballots(vs, t, o))
  BY <1>1, BallotsAreSigners
<1>4. Ballots(vs, t, o) \in SUBSET Ballots(ws, t, o)
  BY DEF Ballots
<1>5. Cardinality(Ballots(vs, t, o)) <= Cardinality(Ballots(ws, t, o))
  BY <1>3, <1>4, FS_Subset
<1>6. Cardinality(Ballots(vs, t, o)) \in Nat /\ Cardinality(Ballots(ws, t, o)) \in Nat
  BY <1>3, FS_CardinalityType
<1> QED  BY <1>2, <1>5, <1>6, InstantSendAssumption

-----------------------------------------------------------------------------
(* Locking inputs and counting one vote.                                    *)

\* Completing a lock, or not, leaves locks with enough votes on the inputs of
\* candidates.
LEMMA FinalizeKeepsLocks ==
  ASSUME TypeOK, InputsInv, LocksHaveVotes,
         NEW n \in Nodes, NEW t \in cand[n],
         NEW vs, votes[n] \subseteq vs, vs \subseteq Vote,
         TryToFinalizeLockCandidate(n, t, vs)
  PROVE  /\ locked' \in [Nodes -> [Outpoints -> Txs \cup {None}]]
         /\ \A m \in Nodes, o \in Outpoints :
               locked'[m][o] # None =>
                  /\ o \in Inputs[locked'[m][o]]
                  /\ locked'[m][o] \in cand[m]
                  /\ IsAllOutPointsReady(IF m = n THEN vs ELSE votes[m], locked'[m][o])
<1>1. t \in Txs
  BY DEF TypeOK
<1>2. ASSUME NEW m \in Nodes, NEW o \in Outpoints, locked[m][o] # None
      PROVE  /\ o \in Inputs[locked[m][o]]
             /\ locked[m][o] \in cand[m]
             /\ IsAllOutPointsReady(IF m = n THEN vs ELSE votes[m], locked[m][o])
  <2>1. locked[m][o] \in Txs /\ votes[m] \in SUBSET Vote
    BY <1>2 DEF TypeOK
  <2>2. IsAllOutPointsReady(votes[m], locked[m][o])
    BY <1>2 DEF LocksHaveVotes
  <2>3. m = n => IsAllOutPointsReady(vs, locked[m][o])
    BY <2>1, <2>2, ReadyGrows
  <2> QED  BY <1>2, <2>2, <2>3 DEF InputsInv, LocksHaveVotes
<1>3. CASE locked' = locked
  BY <1>2, <1>3 DEF TypeOK
<1>4. CASE locked' = LockTransactionInputs(n, t) /\ IsAllOutPointsReady(vs, t)
  <2>1. locked' = [locked EXCEPT ![n] =
                      [o \in Outpoints |-> IF o \in Inputs[t] THEN t ELSE locked[n][o]]]
    BY <1>4 DEF LockTransactionInputs
  <2>2. locked \in [Nodes -> [Outpoints -> Txs \cup {None}]]
    BY DEF TypeOK
  <2>3. locked' \in [Nodes -> [Outpoints -> Txs \cup {None}]]
    BY <1>1, <2>1, <2>2
  <2>4. \A m \in Nodes, o \in Outpoints :
           \/ m = n /\ o \in Inputs[t] /\ locked'[m][o] = t
           \/ locked'[m][o] = locked[m][o]
    BY <2>1, <2>2
  <2> QED  BY <1>2, <1>4, <2>3, <2>4
<1> QED  BY <1>3, <1>4 DEF TryToFinalizeLockCandidate

\* A vote that is counted enters the books of its node and nothing else.
LEMMA CountVoteKeeps ==
  ASSUME LockInv, NEW n \in Nodes, NEW v \in Vote, v.tx \in cand[n],
         CountVote(n, v), UNCHANGED cand
  PROVE  /\ votes' \in [Nodes -> SUBSET Vote]
         /\ voted' \in [Nodes -> [Outpoints -> SUBSET Txs]]
         /\ locked' \in [Nodes -> [Outpoints -> Txs \cup {None}]]
         /\ \A m \in Nodes : votes[m] \subseteq votes'[m] /\ votes'[m] \subseteq votes[m] \cup {v}
         /\ \A m \in Nodes, o \in Outpoints : voted[m][o] \subseteq voted'[m][o]
         /\ VotedAreCandidates'
         /\ LocksHaveVotes'
         /\ InputsInv'
<1>0. TypeOK /\ VotedAreCandidates /\ LocksHaveVotes /\ InputsInv
  BY DEF LockInv, BooksAgree
<1>1. v.tx \in Txs /\ v.out \in Outpoints /\ v.out \in Inputs[v.tx]
  BY DEF Vote
<1>2. CASE UNCHANGED <<votes, voted, locked>>
  BY <1>0, <1>2 DEF TypeOK, VotedAreCandidates, LocksHaveVotes, InputsInv
<1>3. CASE /\ voted' = [voted EXCEPT ![n][v.out] = @ \cup {v.tx}]
           /\ votes' = [votes EXCEPT ![n] = @ \cup {v}]
           /\ IF v \in votes[n]
              THEN UNCHANGED locked
              ELSE TryToFinalizeLockCandidate(n, v.tx, votes[n] \cup {v})
  <2>1. /\ votes' \in [Nodes -> SUBSET Vote]
        /\ \A m \in Nodes : votes'[m] = IF m = n THEN votes[n] \cup {v} ELSE votes[m]
    BY <1>0, <1>3 DEF TypeOK
  <2>2. /\ voted' \in [Nodes -> [Outpoints -> SUBSET Txs]]
        /\ \A m \in Nodes, o \in Outpoints :
              \A t : t \in voted'[m][o] <=>
                        t \in voted[m][o] \/ (m = n /\ o = v.out /\ t = v.tx)
    <3>1. voted \in [Nodes -> [Outpoints -> SUBSET Txs]]
      BY <1>0 DEF TypeOK
    <3> QED  BY <1>1, <1>3, <3>1
  <2>3. VotedAreCandidates'
    <3> SUFFICES ASSUME NEW m \in Nodes, NEW o \in Outpoints
                 PROVE  voted'[m][o] \subseteq cand[m]
      BY DEF VotedAreCandidates
    <3>1. voted[m][o] \subseteq cand[m]
      BY <1>0 DEF VotedAreCandidates
    <3> QED  BY <2>2, <3>1
  <2>4. /\ locked' \in [Nodes -> [Outpoints -> Txs \cup {None}]]
        /\ \A m \in Nodes, o \in Outpoints :
              locked'[m][o] # None =>
                 /\ o \in Inputs[locked'[m][o]]
                 /\ locked'[m][o] \in cand[m]
                 /\ IsAllOutPointsReady(votes'[m], locked'[m][o])
    <3>1. CASE v \in votes[n]
      <4>1. locked' = locked /\ votes' = votes
        BY <1>0, <1>3, <3>1, <2>1 DEF TypeOK
      <4> QED  BY <1>0, <4>1 DEF TypeOK, InputsInv, LocksHaveVotes
    <3>2. CASE v \notin votes[n]
      <4>1. TryToFinalizeLockCandidate(n, v.tx, votes[n] \cup {v})
        BY <1>3, <3>2
      <4>2. votes[n] \cup {v} \subseteq Vote /\ votes[n] \subseteq votes[n] \cup {v}
        BY <1>0 DEF TypeOK
      <4>3. \A m \in Nodes : votes'[m] = IF m = n THEN votes[n] \cup {v} ELSE votes[m]
        BY <2>1
      <4> DEFINE vs == votes[n] \cup {v}
      <4>4. /\ locked' \in [Nodes -> [Outpoints -> Txs \cup {None}]]
            /\ \A m \in Nodes, o \in Outpoints :
                  locked'[m][o] # None =>
                     /\ o \in Inputs[locked'[m][o]]
                     /\ locked'[m][o] \in cand[m]
                     /\ IsAllOutPointsReady(IF m = n THEN vs ELSE votes[m], locked'[m][o])
        BY <1>0, <4>1, <4>2, FinalizeKeepsLocks
      <4> QED  BY <4>3, <4>4
    <3> QED  BY <3>1, <3>2
  <2>5. LocksHaveVotes'
    BY <2>4 DEF LocksHaveVotes, IsAllOutPointsReady
  <2>6. InputsInv'
    <3>1. \A m \in Nodes, o \in Outpoints : \A t \in voted'[m][o] :
             t \in voted[m][o] \/ (o = v.out /\ t = v.tx)
      BY <2>2
    <3>2. \A m \in Nodes, o \in Outpoints : \A t \in voted'[m][o] : o \in Inputs[t]
      BY <1>0, <1>1, <3>1 DEF InputsInv
    <3> QED  BY <2>4, <3>2 DEF InputsInv
  <2> QED  BY <2>1, <2>2, <2>3, <2>4, <2>5, <2>6
<1> QED  BY <1>2, <1>3 DEF CountVote

-----------------------------------------------------------------------------
(* The steps that handle votes and requests.                                *)

\* A counted vote preserves the invariant, whatever becomes of the maps of votes
\* that were seen or wait.
LEMMA CountVoteInv ==
  ASSUME LockInv, NEW n \in Nodes, NEW v \in Vote, v \in sent, v.tx \in cand[n],
         CountVote(n, v),
         UNCHANGED <<cand, confirmed, requests, chain, sent, buried, restarted, events>>,
         seen' \in [Nodes -> SUBSET Vote],
         orphans' \in [Nodes -> SUBSET Vote],
         \A m \in Nodes : orphans'[m] \subseteq orphans[m],
         BusyInv',
         \/ busy' = Idle
         \/ /\ busy'.step \in {"orphans", "accept"}
            /\ busy'.node \in Nodes /\ busy'.tx \in cand[busy'.node]
            /\ busy'.todo \subseteq orphans'[busy'.node]
  PROVE  LockInv'
<1>1. /\ votes' \in [Nodes -> SUBSET Vote]
      /\ voted' \in [Nodes -> [Outpoints -> SUBSET Txs]]
      /\ locked' \in [Nodes -> [Outpoints -> Txs \cup {None}]]
      /\ \A m \in Nodes : votes[m] \subseteq votes'[m] /\ votes'[m] \subseteq votes[m] \cup {v}
      /\ \A m \in Nodes, o \in Outpoints : voted[m][o] \subseteq voted'[m][o]
      /\ VotedAreCandidates'
      /\ LocksHaveVotes'
      /\ InputsInv'
  BY CountVoteKeeps
<1>2. TypeOK'
  BY <1>1 DEF TypeOK, LockInv, BooksAgree
<1>3. RequestsAreCandidates'
  BY DEF RequestsAreCandidates, LockInv, BooksAgree
<1>4. ChainInv' /\ HeightsInv' /\ VotesOnce'
  BY DEF ChainInv, HeightsInv, VotesOnce, LockInv
<1>5. SentInv'
  <2>1. SentInv
    BY DEF LockInv
  <2> QED  BY <1>1, <2>1 DEF SentInv
<1>6. MemoryInv'
  <2> SUFFICES ASSUME NEW w \in sent, w.mn \notin restarted
               PROVE  \/ w \in votes'[w.mn] /\ w.tx \in voted'[w.mn][w.out]
                      \/ Dead(w.mn, w.out)'
    BY DEF MemoryInv
  <2>1. \/ w \in votes[w.mn] /\ w.tx \in voted[w.mn][w.out]
        \/ Dead(w.mn, w.out)
    BY DEF LockInv, MemoryInv
  <2>2. w.mn \in Nodes /\ w.out \in Outpoints
    BY DEF LockInv, BooksAgree, TypeOK, Vote
  <2> QED  BY <1>1, <2>1, <2>2 DEF Dead
<1> QED  BY <1>1, <1>2, <1>3, <1>4, <1>5, <1>6 DEF LockInv, BooksAgree

LEMMA ReceiveVoteInv ==
  ASSUME LockInv, NEW n \in Nodes, NEW v \in sent, ReceiveVote(n, v)
  PROVE  LockInv'
<1>0. TypeOK /\ v \in Vote
  BY DEF LockInv, BooksAgree, TypeOK
<1>1. /\ busy = Idle
      /\ seen' = [seen EXCEPT ![n] = @ \cup {v}]
      /\ UNCHANGED <<cand, confirmed, requests, chain, sent, busy, buried, restarted, events>>
  BY DEF ReceiveVote
<1>2. seen' \in [Nodes -> SUBSET Vote] /\ BusyInv'
  BY <1>0, <1>1 DEF TypeOK, BusyInv, LockInv
<1>3. CASE v.tx \in cand[n]
  <2>1. CountVote(n, v) /\ UNCHANGED orphans
    BY <1>3 DEF ReceiveVote
  <2>2. orphans' \in [Nodes -> SUBSET Vote]
    BY <1>0, <2>1 DEF TypeOK
  <2> QED  BY <1>0, <1>1, <1>2, <1>3, <2>1, <2>2, CountVoteInv
<1>4. CASE v.tx \notin cand[n]
  <2>1. /\ orphans' = [orphans EXCEPT ![n] = @ \cup {v}]
        /\ UNCHANGED <<votes, voted, locked>>
    BY <1>4 DEF ReceiveVote, KeepOrphanVote
  <2>2. orphans' \in [Nodes -> SUBSET Vote]
    BY <1>0, <2>1 DEF TypeOK
  <2>3. TypeOK'
    BY <1>0, <1>1, <1>2, <2>1, <2>2 DEF TypeOK
  <2>4. BooksAgree'
    BY <1>1, <2>1, <2>3 DEF LockInv, BooksAgree, VotedAreCandidates,
         RequestsAreCandidates, LocksHaveVotes
  <2>5. ChainInv' /\ HeightsInv' /\ VotesOnce' /\ InputsInv'
    BY <1>1, <2>1 DEF ChainInv, HeightsInv, VotesOnce, InputsInv, LockInv
  <2>6. SentInv'
    BY <1>0, <1>1, <2>1 DEF SentInv, LockInv, TypeOK
  <2>7. MemoryInv'
    BY <1>1, <2>1 DEF MemoryInv, Dead, LockInv
  <2> QED  BY <1>2, <2>4, <2>5, <2>6, <2>7 DEF LockInv
<1> QED  BY <1>3, <1>4

LEMMA ProcessOrphanVoteInv ==
  ASSUME LockInv, NEW v \in busy.todo, ProcessOrphanVote(v)
  PROVE  LockInv'
<1> DEFINE n == busy.node
<1>0. TypeOK /\ BusyInv /\ SentInv
  BY DEF LockInv, BooksAgree
<1>1. /\ busy.step \in {"orphans", "accept"} /\ n \in Nodes
      /\ busy.tx \in cand[n] /\ busy.todo \subseteq orphans[n]
  BY <1>0 DEF TypeOK, Idle
<1>2. v \in sent /\ v \in Vote
  BY <1>0, <1>1 DEF SentInv, TypeOK
<1>3. /\ v.tx \in cand[n] /\ CountVote(n, v)
      /\ busy' = [busy EXCEPT !.todo = @ \ {v}]
      /\ orphans' = [orphans EXCEPT ![n] = IF VotedElsewhere(n, v) \/ v \in votes[n]
                                          THEN orphans[n] ELSE orphans[n] \ {v}]
      /\ UNCHANGED <<cand, confirmed, seen, requests, chain, sent, buried, restarted, events>>
  BY DEF ProcessOrphanVote
<1>4. /\ orphans' \in [Nodes -> SUBSET Vote]
      /\ \A m \in Nodes : orphans'[m] \subseteq orphans[m]
      /\ orphans[n] \ {v} \subseteq orphans'[n]
  <2>1. orphans \in [Nodes -> SUBSET Vote]
    BY <1>0 DEF TypeOK
  <2> HIDE DEF n
  <2> QED  BY <1>1, <1>3, <2>1
<1>5. BusyInv' /\ busy'.step = busy.step /\ busy'.node = n /\ busy'.tx = busy.tx
      /\ busy'.todo = busy.todo \ {v}
  BY <1>0, <1>3 DEF BusyInv
<1>6. busy'.todo \subseteq orphans'[n]
  BY <1>1, <1>4, <1>5
<1>7. seen' \in [Nodes -> SUBSET Vote]
  BY <1>0, <1>3 DEF TypeOK
<1> QED  BY <1>1, <1>2, <1>3, <1>4, <1>5, <1>6, <1>7, CountVoteInv

LEMMA ForgetOrphanVoteInv ==
  ASSUME LockInv, NEW v \in busy.todo, NEW spamming \in BOOLEAN, ForgetOrphanVote(v, spamming)
  PROVE  LockInv'
<1> DEFINE n == busy.node
<1>0. TypeOK /\ BusyInv /\ SentInv
  BY DEF LockInv, BooksAgree
<1>1. /\ busy.step \in {"orphans", "accept"} /\ n \in Nodes
      /\ busy.tx \in cand[n] /\ busy.todo \subseteq orphans[n]
  BY <1>0 DEF TypeOK, Idle
<1>2. /\ busy' = [busy EXCEPT !.todo = @ \ {v}]
      /\ orphans' = [orphans EXCEPT ![n] = IF spamming THEN orphans[n] ELSE orphans[n] \ {v}]
      /\ UNCHANGED <<cand, confirmed, votes, voted, locked, seen, requests,
                     chain, sent, buried, restarted, events>>
  BY DEF ForgetOrphanVote
<1>3. /\ orphans' \in [Nodes -> SUBSET Vote]
      /\ \A m \in Nodes : orphans'[m] \subseteq orphans[m]
      /\ orphans[n] \ {v} \subseteq orphans'[n]
  <2>1. orphans \in [Nodes -> SUBSET Vote]
    BY <1>0 DEF TypeOK
  <2> HIDE DEF n
  <2> QED  BY <1>1, <1>2, <2>1
<1>4. BusyInv' /\ busy'.step = busy.step /\ busy'.node = n /\ busy'.tx = busy.tx
      /\ busy'.todo = busy.todo \ {v}
  BY <1>0, <1>2 DEF BusyInv
<1>5. busy'.todo \subseteq orphans'[n]
  BY <1>1, <1>3, <1>4
<1>6. TypeOK'
  BY <1>0, <1>1, <1>2, <1>3, <1>4, <1>5 DEF TypeOK
<1>7. BooksAgree'
  BY <1>2, <1>6 DEF LockInv, BooksAgree, VotedAreCandidates, RequestsAreCandidates,
       LocksHaveVotes
<1>8. ChainInv' /\ HeightsInv' /\ VotesOnce' /\ InputsInv'
  BY <1>2 DEF ChainInv, HeightsInv, VotesOnce, InputsInv, LockInv
<1>9. SentInv'
  BY <1>0, <1>2, <1>3 DEF SentInv
<1>10. MemoryInv'
  BY <1>2 DEF MemoryInv, Dead, LockInv
<1> QED  BY <1>4, <1>7, <1>8, <1>9, <1>10 DEF LockInv

\* The votes that n signs for a request: proper ones, for outpoints it is ranked
\* for and has no vote on in its books.
LEMMA NewVotesAreNew ==
  ASSUME TypeOK, NEW n \in Nodes, NEW t \in Txs, NEW v \in NewVotes(n, t)
  PROVE  /\ v \in Vote
         /\ v.tx = t /\ v.mn = n /\ v.out \in Inputs[t] /\ v.out \in Outpoints
         /\ \A h \in voted[n][v.out] : [tx |-> h, out |-> v.out, mn |-> n] \notin votes[n]
<1>1. PICK o \in Inputs[t] : n \in Voters[o] /\ v = [tx |-> t, out |-> o, mn |-> n]
  BY DEF NewVotes
<1>2. o \in Outpoints
  BY InstantSendAssumption
<1>3. v.tx = t /\ v.mn = n /\ v.out = o
  BY <1>1
<1>4. v \in Vote
  BY <1>1, <1>2 DEF Vote
<1>5. \A h \in voted[n][v.out] : [tx |-> h, out |-> v.out, mn |-> n] \notin votes[n]
  BY DEF NewVotes
<1> QED  BY <1>1, <1>2, <1>3, <1>4, <1>5

\* A valid request spends no outpoint that is dead.
LEMMA ValidIsAlive ==
  ASSUME TypeOK, ChainInv, NEW n \in Nodes, NEW t \in Txs, IsValid(n, t), NEW o \in Inputs[t]
  PROVE  ~Dead(n, o)
<1> SUFFICES ASSUME NEW i \in 1..buried[n], chain[n][i] # None, o \in Inputs[chain[n][i]]
             PROVE  FALSE
  BY DEF Dead
<1>1. i \in 1..Len(chain[n])
  BY DEF ChainInv, TypeOK
<1>2. chain[n][i] \in Mined(n)
  BY <1>1 DEF Mined
<1> QED  BY <1>2 DEF IsValid, Unspent

\* ProcessTxLockRequest: what is signed is remembered, and nothing else was
\* signed for these outpoints by a node that remembers.
LEMMA ReceiveRequestInv ==
  ASSUME LockInv, NEW n \in Nodes, NEW t \in Txs, ReceiveRequest(n, t)
  PROVE  LockInv'
<1> DEFINE new == NewVotes(n, t)
<1>0. TypeOK /\ VotedAreCandidates /\ RequestsAreCandidates /\ LocksHaveVotes
      /\ ChainInv /\ HeightsInv /\ SentInv /\ InputsInv /\ MemoryInv /\ VotesOnce
  BY DEF LockInv, BooksAgree
<1>1. /\ IsValid(n, t)
      /\ cand' = [cand EXCEPT ![n] = @ \cup {t}]
      /\ votes' = [votes EXCEPT ![n] = @ \cup new]
      /\ voted' = [voted EXCEPT ![n] = [o \in Outpoints |->
                       IF \E v \in new : v.out = o THEN voted[n][o] \cup {t} ELSE voted[n][o]]]
      /\ seen' = [seen EXCEPT ![n] = @ \cup new]
      /\ sent' = sent \cup new
      /\ busy' = [step |-> "orphans", node |-> n, tx |-> t, todo |-> orphans[n]]
      /\ UNCHANGED <<confirmed, locked, orphans, requests, chain, buried, restarted, events>>
  BY DEF ReceiveRequest, CreateTxLockCandidate
<1>2. \A v \in new : /\ v \in Vote
                    /\ v.tx = t /\ v.mn = n /\ v.out \in Inputs[t] /\ v.out \in Outpoints
                    /\ \A h \in voted[n][v.out] :
                          [tx |-> h, out |-> v.out, mn |-> n] \notin votes[n]
  BY <1>0, NewVotesAreNew
<1> HIDE DEF new
<1>3. /\ cand' \in [Nodes -> SUBSET Txs]
      /\ \A m \in Nodes : cand[m] \subseteq cand'[m]
      /\ t \in cand'[n]
  BY <1>0, <1>1 DEF TypeOK
<1>4. /\ votes' \in [Nodes -> SUBSET Vote]
      /\ seen' \in [Nodes -> SUBSET Vote]
      /\ sent' \subseteq Vote
      /\ \A m \in Nodes : votes'[m] = IF m = n THEN votes[m] \cup new ELSE votes[m]
  BY <1>0, <1>1, <1>2 DEF TypeOK
<1>5. /\ voted' \in [Nodes -> [Outpoints -> SUBSET Txs]]
      /\ \A m \in Nodes, o \in Outpoints : \A h :
            h \in voted'[m][o] <=>
               h \in voted[m][o] \/ (m = n /\ h = t /\ \E v \in new : v.out = o)
  <2>1. voted \in [Nodes -> [Outpoints -> SUBSET Txs]]
    BY <1>0 DEF TypeOK
  <2> QED  BY <1>1, <2>1
<1>6. busy'.step = "orphans" /\ busy'.node = n /\ busy'.tx = t /\ busy'.todo = orphans[n]
      /\ BusyInv'
  BY <1>0, <1>1 DEF BusyInv, TypeOK
<1>7. TypeOK'
  BY <1>0, <1>1, <1>3, <1>4, <1>5, <1>6 DEF TypeOK
<1>8. VotedAreCandidates' /\ RequestsAreCandidates'
  <2>1. ASSUME NEW m \in Nodes, NEW o \in Outpoints, NEW h \in voted'[m][o]
        PROVE  h \in cand'[m]
    BY <1>0, <1>3, <1>5, <2>1 DEF VotedAreCandidates
  <2>2. \A m \in Nodes : requests'[m] \subseteq cand'[m]
    BY <1>0, <1>1, <1>3 DEF RequestsAreCandidates
  <2> QED  BY <2>1, <2>2 DEF VotedAreCandidates, RequestsAreCandidates
<1>9. LocksHaveVotes'
  <2> SUFFICES ASSUME NEW m \in Nodes, NEW o \in Outpoints, locked[m][o] # None
               PROVE  /\ locked[m][o] \in cand'[m]
                      /\ IsAllOutPointsReady(votes'[m], locked[m][o])
    BY <1>1 DEF LocksHaveVotes, IsAllOutPointsReady
  <2>1. locked[m][o] \in cand[m] /\ IsAllOutPointsReady(votes[m], locked[m][o])
    BY <1>0 DEF LocksHaveVotes
  <2>2. locked[m][o] \in Txs
    BY <1>0 DEF TypeOK
  <2>3. votes[m] \subseteq votes'[m] /\ votes'[m] \subseteq Vote
    BY <1>4
  <2> QED  BY <1>3, <2>1, <2>2, <2>3, ReadyGrows
<1>10. InputsInv'
  <2>1. ASSUME NEW m \in Nodes, NEW o \in Outpoints, NEW h \in voted'[m][o]
        PROVE  o \in Inputs[h]
    BY <1>0, <1>2, <1>5, <2>1 DEF InputsInv
  <2> QED  BY <1>0, <1>1, <2>1 DEF InputsInv
<1>11. ChainInv'
  BY <1>0, <1>1 DEF ChainInv
<1>12. HeightsInv'
  BY <1>0, <1>1, <1>3 DEF HeightsInv
<1>13. SentInv'
  <2>1. \A m \in Nodes : votes'[m] \subseteq sent'
    BY <1>0, <1>1, <1>4 DEF SentInv
  <2>2. \A m \in Nodes : orphans'[m] \subseteq sent'
    BY <1>0, <1>1 DEF SentInv
  <2> QED  BY <2>1, <2>2 DEF SentInv
<1>14. MemoryInv'
  <2> SUFFICES ASSUME NEW w \in sent', w.mn \notin restarted
               PROVE  \/ w \in votes'[w.mn] /\ w.tx \in voted'[w.mn][w.out]
                      \/ Dead(w.mn, w.out)'
    BY <1>1 DEF MemoryInv
  <2>1. CASE w \in new
    BY <1>2, <1>4, <1>5, <2>1
  <2>2. CASE w \in sent
    <3>1. w.mn \in Nodes /\ w.out \in Outpoints
      BY <1>0, <2>2 DEF TypeOK, Vote
    <3>2. \/ w \in votes[w.mn] /\ w.tx \in voted[w.mn][w.out]
          \/ Dead(w.mn, w.out)
      BY <1>0, <2>2 DEF MemoryInv
    <3>3. Dead(w.mn, w.out) => Dead(w.mn, w.out)'
      BY <1>1 DEF Dead
    <3> QED  BY <1>4, <1>5, <3>1, <3>2, <3>3
  <2> QED  BY <1>1, <2>1, <2>2
<1>15. ASSUME NEW v \in new, NEW w \in sent,
              v.mn = w.mn, v.out = w.out, v.mn \notin restarted
       PROVE  FALSE
  <2>1. w \in Vote /\ w.mn = n /\ w = [tx |-> w.tx, out |-> w.out, mn |-> w.mn]
    BY <1>0, <1>2, <1>15 DEF TypeOK, Vote
  <2>2. ~Dead(n, w.out)
    BY <1>0, <1>1, <1>2, <1>15, ValidIsAlive
  <2>3. w \in votes[n] /\ w.tx \in voted[n][w.out]
    BY <1>0, <1>15, <2>1, <2>2 DEF MemoryInv
  <2> QED  BY <1>2, <1>15, <2>1, <2>3
<1>16. ASSUME NEW v \in new, NEW w \in new, v.out = w.out
       PROVE  v = w
  <2>1. /\ v = [tx |-> v.tx, out |-> v.out, mn |-> v.mn]
        /\ w = [tx |-> w.tx, out |-> w.out, mn |-> w.mn]
    BY <1>2 DEF Vote
  <2> QED  BY <1>2, <1>16, <2>1
<1>17. VotesOnce'
  <2> SUFFICES ASSUME NEW v \in sent', NEW w \in sent',
                      v.mn = w.mn, v.out = w.out, v.mn \notin restarted
               PROVE  v = w
    BY <1>1 DEF VotesOnce
  <2>1. CASE v \in sent /\ w \in sent
    BY <1>0, <2>1 DEF VotesOnce
  <2> QED  BY <1>1, <1>15, <1>16, <2>1
<1> QED  BY <1>6, <1>7, <1>8, <1>9, <1>10, <1>11, <1>12, <1>13, <1>14, <1>17
         DEF LockInv, BooksAgree

LEMMA FinishRequestInv ==
  ASSUME LockInv, FinishRequest
  PROVE  LockInv'
<1> DEFINE n == busy.node
<1>0. TypeOK /\ BusyInv /\ InputsInv /\ LocksHaveVotes
  BY DEF LockInv, BooksAgree
<1>1. busy.step = "orphans" /\ n \in Nodes /\ busy.tx \in cand[n]
      /\ busy.todo \subseteq orphans[n]
  BY <1>0 DEF FinishRequest, TypeOK, Idle
<1>2. /\ TryToFinalizeLockCandidate(n, busy.tx, votes[n])
      /\ busy' = [busy EXCEPT !.step = "accept"]
      /\ UNCHANGED <<cand, confirmed, votes, voted, seen, orphans,
                     requests, chain, sent, buried, restarted, events>>
  BY DEF FinishRequest
<1> HIDE DEF n
<1>3. votes[n] \subseteq votes[n] /\ votes[n] \subseteq Vote
  BY <1>0, <1>1 DEF TypeOK
<1>4. /\ locked' \in [Nodes -> [Outpoints -> Txs \cup {None}]]
      /\ \A m \in Nodes, o \in Outpoints :
            locked'[m][o] # None =>
               /\ o \in Inputs[locked'[m][o]]
               /\ locked'[m][o] \in cand[m]
               /\ IsAllOutPointsReady(IF m = n THEN votes[n] ELSE votes[m], locked'[m][o])
  BY <1>0, <1>1, <1>2, <1>3, FinalizeKeepsLocks
<1>5. BusyInv' /\ busy'.step = "accept" /\ busy'.node = n /\ busy'.tx = busy.tx
      /\ busy'.todo = busy.todo
  BY <1>0, <1>2 DEF BusyInv, n
<1>6. TypeOK'
  BY <1>0, <1>1, <1>2, <1>4, <1>5 DEF TypeOK
<1>7. LocksHaveVotes'
  BY <1>2, <1>4 DEF LocksHaveVotes, IsAllOutPointsReady
<1>8. VotedAreCandidates' /\ RequestsAreCandidates'
  BY <1>2 DEF VotedAreCandidates, RequestsAreCandidates, LockInv, BooksAgree
<1>9. InputsInv'
  BY <1>0, <1>2, <1>4 DEF InputsInv
<1>10. ChainInv' /\ HeightsInv' /\ VotesOnce' /\ SentInv'
  BY <1>2 DEF ChainInv, HeightsInv, VotesOnce, SentInv, LockInv
<1>11. MemoryInv'
  BY <1>2 DEF MemoryInv, Dead, LockInv
<1> QED  BY <1>5, <1>6, <1>7, <1>8, <1>9, <1>10, <1>11 DEF LockInv, BooksAgree

LEMMA AcceptRequestInv ==
  ASSUME LockInv, AcceptRequest
  PROVE  LockInv'
<1>0. TypeOK /\ BusyInv
  BY DEF LockInv, BooksAgree
<1>1. busy.node \in Nodes /\ busy.tx \in cand[busy.node]
  BY <1>0 DEF AcceptRequest, TypeOK, Idle
<1>2. /\ requests' = [requests EXCEPT ![busy.node] = @ \cup {busy.tx}]
      /\ busy' = Idle
      /\ UNCHANGED <<cand, confirmed, votes, voted, locked, seen, orphans, chain, sent,
                     buried, restarted, events>>
  BY DEF AcceptRequest
<1>3. TypeOK'
  BY <1>0, <1>1, <1>2 DEF TypeOK
<1>4. BusyInv'
  BY <1>2 DEF BusyInv, Idle
<1>5. RequestsAreCandidates'
  BY <1>0, <1>1, <1>2 DEF RequestsAreCandidates, LockInv, BooksAgree, TypeOK
<1>6. VotedAreCandidates' /\ LocksHaveVotes'
  BY <1>2 DEF VotedAreCandidates, LocksHaveVotes, LockInv, BooksAgree
<1>7. ChainInv' /\ HeightsInv' /\ VotesOnce' /\ SentInv' /\ InputsInv'
  BY <1>2 DEF ChainInv, HeightsInv, VotesOnce, SentInv, InputsInv, LockInv
<1>8. MemoryInv'
  BY <1>2 DEF MemoryInv, Dead, LockInv
<1> QED  BY <1>3, <1>4, <1>5, <1>6, <1>7, <1>8 DEF LockInv, BooksAgree

-----------------------------------------------------------------------------
(* The steps of the chain, the clean-up and the restart.                    *)

\* A block on top: every other block keeps its place.
LEMMA ConnectTipInv ==
  ASSUME LockInv, NEW n \in Nodes, NEW t \in Txs \cup {None}, ConnectTip(n, t)
  PROVE  LockInv'
<1> DEFINE len == Len(chain[n])
<1>0. TypeOK /\ BusyInv /\ ChainInv /\ HeightsInv /\ MemoryInv
  BY DEF LockInv, BooksAgree
<1>1. /\ events < MaxEvents /\ events' = events + 1
      /\ chain' = [chain EXCEPT ![n] = Append(chain[n], t)]
      /\ confirmed' = [confirmed EXCEPT ![n] = [u \in Txs |->
                          IF u = t /\ u \in cand[n] THEN len + 1 ELSE confirmed[n][u]]]
      /\ buried' = [buried EXCEPT ![n] = IF len - KeepLock > buried[n]
                                        THEN len - KeepLock ELSE buried[n]]
      /\ UNCHANGED <<cand, votes, voted, locked, seen, orphans, requests, sent, busy, restarted>>
  BY DEF ConnectTip, SyncTransaction
<1>2. chain[n] \in Seq(Txs \cup {None}) /\ len \in Nat /\ buried[n] \in Nat
      /\ KeepLock \in Nat \ {0} /\ buried[n] <= len /\ len <= buried[n] + KeepLock + 1
  BY <1>0, InstantSendAssumption DEF TypeOK, ChainInv
<1>3. /\ Append(chain[n], t) \in Seq(Txs \cup {None})
      /\ Len(Append(chain[n], t)) = len + 1
      /\ \A i \in 1..len : Append(chain[n], t)[i] = chain[n][i]
      /\ Append(chain[n], t)[len + 1] = t
  BY <1>2, AppendProperties
<1>4. /\ chain' \in [Nodes -> Seq(Txs \cup {None})]
      /\ chain'[n] = Append(chain[n], t)
      /\ \A m \in Nodes : m # n => chain'[m] = chain[m]
  BY <1>0, <1>1, <1>3 DEF TypeOK
<1>5. /\ buried' \in [Nodes -> Nat]
      /\ buried'[n] >= buried[n] /\ buried'[n] <= len + 1 /\ len <= buried'[n] + KeepLock
      /\ \A m \in Nodes : m # n => buried'[m] = buried[m]
  BY <1>0, <1>1, <1>2 DEF TypeOK
<1>6. /\ confirmed' \in [Nodes -> [Txs -> Nat]]
      /\ \A m \in Nodes, u \in Txs :
            \/ m = n /\ u = t /\ u \in cand[n] /\ confirmed'[m][u] = len + 1
            \/ confirmed'[m][u] = confirmed[m][u]
  <2>1. confirmed \in [Nodes -> [Txs -> Nat]]
    BY <1>0 DEF TypeOK
  <2> QED  BY <1>1, <1>2, <2>1
<1>7. TypeOK'
  <2>1. events' \in 0..MaxEvents
    BY <1>0, <1>1, InstantSendAssumption DEF TypeOK
  <2> QED  BY <1>0, <1>1, <1>4, <1>5, <1>6, <2>1 DEF TypeOK
<1>8. BooksAgree'
  BY <1>1, <1>7 DEF LockInv, BooksAgree, VotedAreCandidates, RequestsAreCandidates,
       LocksHaveVotes
<1>9. BusyInv' /\ SentInv' /\ InputsInv' /\ VotesOnce'
  BY <1>1 DEF BusyInv, SentInv, InputsInv, VotesOnce, LockInv
<1>10. ChainInv'
  <2> SUFFICES ASSUME NEW m \in Nodes
               PROVE  /\ buried'[m] <= Len(chain'[m])
                      /\ Len(chain'[m]) <= buried'[m] + KeepLock + 1
    BY DEF ChainInv
  <2>1. CASE m = n
    BY <1>2, <1>3, <1>4, <1>5, <2>1
  <2>2. CASE m # n
    BY <1>0, <1>4, <1>5, <2>2 DEF ChainInv
  <2> QED  BY <2>1, <2>2
<1>11. HeightsInv'
  <2> SUFFICES ASSUME NEW m \in Nodes, NEW u \in Txs, confirmed'[m][u] # 0
               PROVE  /\ u \in cand[m]
                      /\ confirmed'[m][u] <= Len(chain'[m])
                      /\ chain'[m][confirmed'[m][u]] = u
    BY <1>1 DEF HeightsInv
  <2>1. CASE m = n /\ u = t /\ u \in cand[n] /\ confirmed'[m][u] = len + 1
    BY <1>2, <1>3, <1>4, <2>1
  <2>2. CASE confirmed'[m][u] = confirmed[m][u]
    <3>1. u \in cand[m] /\ confirmed[m][u] <= Len(chain[m]) /\ chain[m][confirmed[m][u]] = u
      BY <1>0, <2>2 DEF HeightsInv
    <3>2. confirmed[m][u] \in 1..Len(chain[m])
      BY <1>0, <2>2, <3>1 DEF TypeOK
    <3> QED  BY <1>2, <1>3, <1>4, <2>2, <3>1, <3>2
  <2> QED  BY <1>6, <2>1, <2>2
<1>12. ASSUME NEW m \in Nodes, NEW o \in Outpoints, Dead(m, o)
       PROVE  Dead(m, o)'
  <2>1. PICK i \in 1..buried[m] : chain[m][i] # None /\ o \in Inputs[chain[m][i]]
    BY <1>12 DEF Dead
  <2>2. i \in 1..Len(chain[m]) /\ i \in 1..buried'[m]
    <3>1. /\ buried[m] \in Nat /\ Len(chain[m]) \in Nat /\ buried'[m] \in Nat
          /\ buried[m] <= Len(chain[m])
      BY <1>0, <1>5 DEF TypeOK, ChainInv
    <3>2. buried[m] <= buried'[m]
      BY <1>5, <3>1
    <3> QED  BY <2>1, <3>1, <3>2
  <2>3. chain'[m][i] = chain[m][i]
    BY <1>3, <1>4, <2>2
  <2> QED  BY <2>1, <2>2, <2>3 DEF Dead
<1>13. MemoryInv'
  BY <1>0, <1>1, <1>12 DEF MemoryInv, TypeOK, Vote
<1> QED  BY <1>8, <1>9, <1>10, <1>11, <1>13 DEF LockInv

\* The tip is gone: the blocks that count as buried are below it.
LEMMA DisconnectTipInv ==
  ASSUME LockInv, NEW n \in Nodes, DisconnectTip(n)
  PROVE  LockInv'
<1> DEFINE len == Len(chain[n])
           t   == chain[n][len]
<1>0. TypeOK /\ BusyInv /\ ChainInv /\ HeightsInv /\ MemoryInv
  BY DEF LockInv, BooksAgree
<1>1. /\ events < MaxEvents /\ events' = events + 1
      /\ len > buried[n]
      /\ chain' = [chain EXCEPT ![n] = SubSeq(chain[n], 1, len - 1)]
      /\ confirmed' = [confirmed EXCEPT ![n] = [u \in Txs |->
                          IF u = t /\ u \in cand[n] THEN 0 ELSE confirmed[n][u]]]
      /\ UNCHANGED <<cand, votes, voted, locked, seen, orphans, requests, sent, busy,
                     buried, restarted>>
  BY DEF DisconnectTip, SyncTransaction
<1>2. chain[n] \in Seq(Txs \cup {None}) /\ len \in Nat /\ buried[n] \in Nat
      /\ KeepLock \in Nat \ {0} /\ len <= buried[n] + KeepLock + 1
  BY <1>0, InstantSendAssumption DEF TypeOK, ChainInv
<1>3. /\ SubSeq(chain[n], 1, len - 1) \in Seq(Txs \cup {None})
      /\ Len(SubSeq(chain[n], 1, len - 1)) = len - 1
      /\ \A i \in 1..(len - 1) : SubSeq(chain[n], 1, len - 1)[i] = chain[n][i]
  <2>1. \A i \in 1..(len - 1) : chain[n][i] \in Txs \cup {None}
    BY <1>2
  <2> QED  BY <1>1, <1>2, <2>1, SubSeqProperties
<1>4. /\ chain' \in [Nodes -> Seq(Txs \cup {None})]
      /\ chain'[n] = SubSeq(chain[n], 1, len - 1)
      /\ \A m \in Nodes : m # n => chain'[m] = chain[m]
  BY <1>0, <1>1, <1>3 DEF TypeOK
<1>5. /\ confirmed' \in [Nodes -> [Txs -> Nat]]
      /\ \A m \in Nodes, u \in Txs :
            confirmed'[m][u] = IF m = n /\ u = t /\ u \in cand[n] THEN 0 ELSE confirmed[m][u]
  <2>1. confirmed \in [Nodes -> [Txs -> Nat]]
    BY <1>0 DEF TypeOK
  <2> QED  BY <1>1, <2>1
<1>6. TypeOK'
  <2>1. events' \in 0..MaxEvents
    BY <1>0, <1>1, InstantSendAssumption DEF TypeOK
  <2> QED  BY <1>0, <1>1, <1>4, <1>5, <2>1 DEF TypeOK
<1>7. BooksAgree'
  BY <1>1, <1>6 DEF LockInv, BooksAgree, VotedAreCandidates, RequestsAreCandidates,
       LocksHaveVotes
<1>8. BusyInv' /\ SentInv' /\ InputsInv' /\ VotesOnce'
  BY <1>1 DEF BusyInv, SentInv, InputsInv, VotesOnce, LockInv
<1>9. ChainInv'
  <2> SUFFICES ASSUME NEW m \in Nodes
               PROVE  /\ buried[m] <= Len(chain'[m])
                      /\ Len(chain'[m]) <= buried[m] + KeepLock + 1
    BY <1>1 DEF ChainInv
  <2>1. CASE m = n
    BY <1>1, <1>2, <1>3, <1>4, <2>1
  <2>2. CASE m # n
    BY <1>0, <1>4, <2>2 DEF ChainInv
  <2> QED  BY <2>1, <2>2
<1>10. HeightsInv'
  <2> SUFFICES ASSUME NEW m \in Nodes, NEW u \in Txs, confirmed'[m][u] # 0
               PROVE  /\ u \in cand[m]
                      /\ confirmed'[m][u] <= Len(chain'[m])
                      /\ chain'[m][confirmed'[m][u]] = u
    BY <1>1 DEF HeightsInv
  <2>1. confirmed'[m][u] = confirmed[m][u] /\ ~(m = n /\ u = t /\ u \in cand[n])
    BY <1>5
  <2>2. u \in cand[m] /\ confirmed[m][u] <= Len(chain[m]) /\ chain[m][confirmed[m][u]] = u
    BY <1>0, <2>1 DEF HeightsInv
  <2>3. confirmed[m][u] \in 1..Len(chain[m])
    BY <1>0, <2>1, <2>2 DEF TypeOK
  <2>4. CASE m = n
    <3>1. confirmed[m][u] # len
      BY <2>1, <2>2, <2>4
    <3>2. confirmed[m][u] \in 1..(len - 1)
      BY <1>2, <2>3, <2>4, <3>1
    <3>3. chain'[m][confirmed[m][u]] = chain[m][confirmed[m][u]]
      BY <1>3, <1>4, <2>4, <3>2
    <3>4. Len(chain'[m]) = len - 1
      BY <1>3, <1>4, <2>4
    <3> QED  BY <1>2, <2>1, <2>2, <3>2, <3>3, <3>4
  <2>5. CASE m # n
    BY <1>4, <2>1, <2>2, <2>5
  <2> QED  BY <2>4, <2>5
<1>11. ASSUME NEW m \in Nodes, NEW o \in Outpoints, Dead(m, o)
       PROVE  Dead(m, o)'
  <2>1. PICK i \in 1..buried[m] : chain[m][i] # None /\ o \in Inputs[chain[m][i]]
    BY <1>11 DEF Dead
  <2>2. CASE m = n
    <3>1. i \in 1..(len - 1)
      BY <1>1, <1>2, <2>1, <2>2
    <3> QED  BY <1>1, <1>3, <1>4, <2>1, <2>2, <3>1 DEF Dead
  <2>3. CASE m # n
    BY <1>1, <1>4, <2>1, <2>3 DEF Dead
  <2> QED  BY <2>2, <2>3
<1>12. MemoryInv'
  BY <1>0, <1>1, <1>11 DEF MemoryInv, TypeOK, Vote
<1> QED  BY <1>7, <1>8, <1>9, <1>10, <1>12 DEF LockInv

\* What is removed are the expired candidates with everything on their inputs.
\* These outpoints are dead: the candidates are buried in the chain.
LEMMA CheckAndRemoveInv ==
  ASSUME LockInv, NEW n \in Nodes, NEW oldVotes, NEW oldOrphans,
         CheckAndRemove(n, oldVotes, oldOrphans)
  PROVE  LockInv'
<1> DEFINE gone == {t \in cand[n] : IsExpired(n, t)}
           free == UNION {Inputs[t] : t \in gone}
<1>0. TypeOK /\ VotedAreCandidates /\ RequestsAreCandidates /\ LocksHaveVotes
      /\ BusyInv /\ ChainInv /\ HeightsInv /\ SentInv /\ InputsInv /\ MemoryInv
  BY DEF LockInv, BooksAgree
<1>1. /\ busy = Idle /\ events < MaxEvents /\ events' = events + 1
      /\ cand' = [cand EXCEPT ![n] = @ \ gone]
      /\ confirmed' = [confirmed EXCEPT ![n] = [t \in Txs |->
                          IF t \in gone THEN 0 ELSE confirmed[n][t]]]
      /\ votes' = [votes EXCEPT ![n] = {v \in votes[n] : v.tx \notin gone}]
      /\ locked' = [locked EXCEPT ![n] =
                       [o \in Outpoints |-> IF o \in free THEN None ELSE locked[n][o]]]
      /\ voted' = [voted EXCEPT ![n] =
                       [o \in Outpoints |-> IF o \in free THEN {} ELSE voted[n][o]]]
      /\ requests' = [requests EXCEPT ![n] = requests[n] \ gone]
      /\ seen' = [seen EXCEPT ![n] = @ \ (oldVotes \cup oldOrphans)]
      /\ orphans' = [orphans EXCEPT ![n] = @ \ oldOrphans]
      /\ UNCHANGED <<chain, sent, busy, buried, restarted>>
  BY DEF CheckAndRemove, KeptVoted, KeptLocked, KeptRequests
<1>2. gone \subseteq cand[n] /\ gone \subseteq Txs
  BY <1>0 DEF TypeOK
<1>3. \A o : o \in free <=> \E t \in gone : o \in Inputs[t]
  OBVIOUS
<1>4. ASSUME NEW o \in free
      PROVE  Dead(n, o)
  <2>1. PICK t \in gone : o \in Inputs[t]
    OBVIOUS
  <2>2. t \in Txs /\ confirmed[n][t] # 0 /\ Len(chain[n]) - confirmed[n][t] > KeepLock
    BY <1>2, <2>1 DEF IsExpired
  <2>3. chain[n][confirmed[n][t]] = t
    BY <1>0, <2>2 DEF HeightsInv
  <2>4. /\ confirmed[n][t] \in Nat /\ Len(chain[n]) \in Nat /\ buried[n] \in Nat
        /\ KeepLock \in Nat /\ Len(chain[n]) <= buried[n] + KeepLock + 1
    BY <1>0, <2>2, InstantSendAssumption DEF TypeOK, ChainInv
  <2>5. confirmed[n][t] \in 1..buried[n]
    BY <2>2, <2>4
  <2> QED  BY <2>1, <2>2, <2>3, <2>5, InstantSendAssumption DEF Dead
<1> HIDE DEF gone, free
<1>5. /\ cand' \in [Nodes -> SUBSET Txs]
      /\ \A m \in Nodes : cand'[m] = IF m = n THEN cand[m] \ gone ELSE cand[m]
  BY <1>0, <1>1 DEF TypeOK
<1>6. /\ confirmed' \in [Nodes -> [Txs -> Nat]]
      /\ \A m \in Nodes, t \in Txs :
            confirmed'[m][t] = IF m = n /\ t \in gone THEN 0 ELSE confirmed[m][t]
  <2>1. confirmed \in [Nodes -> [Txs -> Nat]]
    BY <1>0 DEF TypeOK
  <2> QED  BY <1>1, <2>1
<1>7. /\ votes' \in [Nodes -> SUBSET Vote]
      /\ \A m \in Nodes :
            votes'[m] = IF m = n THEN {v \in votes[m] : v.tx \notin gone} ELSE votes[m]
  BY <1>0, <1>1 DEF TypeOK
<1>8. /\ locked' \in [Nodes -> [Outpoints -> Txs \cup {None}]]
      /\ \A m \in Nodes, o \in Outpoints :
            locked'[m][o] = IF m = n /\ o \in free THEN None ELSE locked[m][o]
  <2>1. locked \in [Nodes -> [Outpoints -> Txs \cup {None}]]
    BY <1>0 DEF TypeOK
  <2> QED  BY <1>1, <2>1
<1>9. /\ voted' \in [Nodes -> [Outpoints -> SUBSET Txs]]
      /\ \A m \in Nodes, o \in Outpoints :
            voted'[m][o] = IF m = n /\ o \in free THEN {} ELSE voted[m][o]
  <2>1. voted \in [Nodes -> [Outpoints -> SUBSET Txs]]
    BY <1>0 DEF TypeOK
  <2> QED  BY <1>1, <2>1
<1>10. /\ requests' \in [Nodes -> SUBSET Txs]
       /\ \A m \in Nodes : requests'[m] = IF m = n THEN requests[m] \ gone ELSE requests[m]
  BY <1>0, <1>1 DEF TypeOK
<1>11. /\ seen' \in [Nodes -> SUBSET Vote]
       /\ orphans' \in [Nodes -> SUBSET Vote]
       /\ \A m \in Nodes : orphans'[m] \subseteq orphans[m]
  BY <1>0, <1>1 DEF TypeOK
<1>12. TypeOK'
  <2>1. events' \in 0..MaxEvents
    BY <1>0, <1>1, InstantSendAssumption DEF TypeOK
  <2> QED  BY <1>0, <1>1, <1>5, <1>6, <1>7, <1>8, <1>9, <1>10, <1>11, <2>1 DEF TypeOK
<1>13. VotedAreCandidates' /\ RequestsAreCandidates'
  <2>1. ASSUME NEW m \in Nodes, NEW o \in Outpoints, NEW h \in voted'[m][o]
        PROVE  h \in cand'[m]
    <3>1. h \in voted[m][o] /\ ~(m = n /\ o \in free)
      BY <1>9, <2>1
    <3>2. h \in cand[m] /\ o \in Inputs[h]
      BY <1>0, <3>1 DEF VotedAreCandidates, InputsInv
    <3> QED  BY <1>3, <1>5, <3>1, <3>2
  <2>2. \A m \in Nodes : requests'[m] \subseteq cand'[m]
    BY <1>0, <1>5, <1>10 DEF RequestsAreCandidates
  <2> QED  BY <2>1, <2>2 DEF VotedAreCandidates, RequestsAreCandidates
<1>14. ASSUME NEW m \in Nodes, NEW o \in Outpoints, locked'[m][o] # None
       PROVE  /\ locked'[m][o] = locked[m][o]
              /\ o \in Inputs[locked[m][o]]
              /\ locked[m][o] \in cand'[m]
              /\ IsAllOutPointsReady(votes'[m], locked[m][o])
  <2>1. locked'[m][o] = locked[m][o] /\ ~(m = n /\ o \in free)
    BY <1>8, <1>14
  <2>2. /\ o \in Inputs[locked[m][o]] /\ locked[m][o] \in cand[m]
        /\ IsAllOutPointsReady(votes[m], locked[m][o])
    BY <1>0, <1>14, <2>1 DEF InputsInv, LocksHaveVotes
  <2>3. ~(m = n /\ locked[m][o] \in gone)
    BY <1>3, <2>1, <2>2
  <2>4. \A p : {v \in votes'[m] : v.tx = locked[m][o] /\ v.out = p}
                = {v \in votes[m] : v.tx = locked[m][o] /\ v.out = p}
    BY <1>7, <2>3
  <2>5. IsAllOutPointsReady(votes'[m], locked[m][o])
    BY <2>2, <2>4 DEF IsAllOutPointsReady
  <2> QED  BY <1>5, <2>1, <2>2, <2>3, <2>5
<1>15. LocksHaveVotes'
  BY <1>14 DEF LocksHaveVotes, IsAllOutPointsReady
<1>16. InputsInv'
  <2>1. ASSUME NEW m \in Nodes, NEW o \in Outpoints, NEW h \in voted'[m][o]
        PROVE  o \in Inputs[h]
    BY <1>0, <1>9, <2>1 DEF InputsInv
  <2> QED  BY <1>14, <2>1 DEF InputsInv
<1>17. BusyInv' /\ ChainInv' /\ VotesOnce'
  BY <1>1 DEF BusyInv, ChainInv, VotesOnce, LockInv
<1>18. HeightsInv'
  <2> SUFFICES ASSUME NEW m \in Nodes, NEW u \in Txs, confirmed'[m][u] # 0
               PROVE  /\ u \in cand'[m]
                      /\ confirmed'[m][u] <= Len(chain[m])
                      /\ chain[m][confirmed'[m][u]] = u
    BY <1>1 DEF HeightsInv
  <2>1. confirmed'[m][u] = confirmed[m][u] /\ ~(m = n /\ u \in gone)
    BY <1>6
  <2> QED  BY <1>0, <1>5, <2>1 DEF HeightsInv
<1>19. SentInv'
  BY <1>0, <1>1, <1>7, <1>11 DEF SentInv
<1>20. MemoryInv'
  <2> SUFFICES ASSUME NEW w \in sent, w.mn \notin restarted
               PROVE  \/ w \in votes'[w.mn] /\ w.tx \in voted'[w.mn][w.out]
                      \/ Dead(w.mn, w.out)
    BY <1>1 DEF MemoryInv, Dead
  <2>1. w.mn \in Nodes /\ w.out \in Outpoints /\ w.out \in Inputs[w.tx]
    BY <1>0 DEF TypeOK, Vote
  <2>2. CASE w.mn = n /\ w.out \in free
    BY <1>4, <2>2
  <2>3. CASE ~(w.mn = n /\ w.out \in free)
    <3>1. ~(w.mn = n /\ w.tx \in gone)
      BY <1>3, <2>1, <2>3
    <3>2. \/ w \in votes[w.mn] /\ w.tx \in voted[w.mn][w.out]
          \/ Dead(w.mn, w.out)
      BY <1>0 DEF MemoryInv
    <3> QED  BY <1>7, <1>9, <2>1, <2>3, <3>1, <3>2
  <2> QED  BY <2>2, <2>3
<1> QED  BY <1>12, <1>13, <1>15, <1>16, <1>17, <1>18, <1>19, <1>20 DEF LockInv, BooksAgree

\* A restarted node has empty maps, and no promise about its votes.
LEMMA RestartInv ==
  ASSUME LockInv, NEW n \in Nodes, Restart(n)
  PROVE  LockInv'
<1>0. TypeOK /\ VotedAreCandidates /\ RequestsAreCandidates /\ LocksHaveVotes
      /\ BusyInv /\ ChainInv /\ HeightsInv /\ SentInv /\ InputsInv /\ MemoryInv /\ VotesOnce
  BY DEF LockInv, BooksAgree
<1>1. /\ busy = Idle /\ events < MaxEvents /\ events' = events + 1
      /\ cand' = [cand EXCEPT ![n] = {}]
      /\ confirmed' = [confirmed EXCEPT ![n] = [t \in Txs |-> 0]]
      /\ votes' = [votes EXCEPT ![n] = {}]
      /\ voted' = [voted EXCEPT ![n] = [o \in Outpoints |-> {}]]
      /\ locked' = [locked EXCEPT ![n] = [o \in Outpoints |-> None]]
      /\ seen' = [seen EXCEPT ![n] = {}]
      /\ orphans' = [orphans EXCEPT ![n] = {}]
      /\ requests' = [requests EXCEPT ![n] = {}]
      /\ restarted' = restarted \cup {n}
      /\ UNCHANGED <<chain, sent, busy, buried>>
  BY DEF Restart
<1>2. /\ cand' \in [Nodes -> SUBSET Txs] /\ votes' \in [Nodes -> SUBSET Vote]
      /\ seen' \in [Nodes -> SUBSET Vote] /\ orphans' \in [Nodes -> SUBSET Vote]
      /\ requests' \in [Nodes -> SUBSET Txs]
      /\ \A m \in Nodes : m # n => cand'[m] = cand[m] /\ votes'[m] = votes[m]
      /\ \A m \in Nodes : votes'[m] \subseteq votes[m] /\ orphans'[m] \subseteq orphans[m]
      /\ \A m \in Nodes : requests'[m] \subseteq cand'[m]
  BY <1>0, <1>1 DEF TypeOK, RequestsAreCandidates
<1>3. /\ confirmed' \in [Nodes -> [Txs -> Nat]]
      /\ \A m \in Nodes, t \in Txs : confirmed'[m][t] = IF m = n THEN 0 ELSE confirmed[m][t]
  <2>1. confirmed \in [Nodes -> [Txs -> Nat]]
    BY <1>0 DEF TypeOK
  <2> QED  BY <1>1, <2>1
<1>4. /\ voted' \in [Nodes -> [Outpoints -> SUBSET Txs]]
      /\ \A m \in Nodes, o \in Outpoints : voted'[m][o] = IF m = n THEN {} ELSE voted[m][o]
  <2>1. voted \in [Nodes -> [Outpoints -> SUBSET Txs]]
    BY <1>0 DEF TypeOK
  <2> QED  BY <1>1, <2>1
<1>5. /\ locked' \in [Nodes -> [Outpoints -> Txs \cup {None}]]
      /\ \A m \in Nodes, o \in Outpoints : locked'[m][o] = IF m = n THEN None ELSE locked[m][o]
  <2>1. locked \in [Nodes -> [Outpoints -> Txs \cup {None}]]
    BY <1>0 DEF TypeOK
  <2> QED  BY <1>1, <2>1
<1>6. TypeOK'
  <2>1. events' \in 0..MaxEvents
    BY <1>0, <1>1, InstantSendAssumption DEF TypeOK
  <2> QED  BY <1>0, <1>1, <1>2, <1>3, <1>4, <1>5, <2>1 DEF TypeOK
<1>7. VotedAreCandidates' /\ RequestsAreCandidates'
  <2>1. ASSUME NEW m \in Nodes, NEW o \in Outpoints, NEW h \in voted'[m][o]
        PROVE  h \in cand'[m]
    <3>1. m # n /\ h \in voted[m][o]
      BY <1>4, <2>1
    <3> QED  BY <1>0, <1>2, <3>1 DEF VotedAreCandidates
  <2> QED  BY <1>2, <2>1 DEF VotedAreCandidates, RequestsAreCandidates
<1>8. LocksHaveVotes'
  <2>1. ASSUME NEW m \in Nodes, NEW o \in Outpoints, locked'[m][o] # None
        PROVE  /\ locked'[m][o] \in cand'[m]
               /\ IsAllOutPointsReady(votes'[m], locked'[m][o])
    <3>1. m # n /\ locked'[m][o] = locked[m][o]
      BY <1>5, <2>1
    <3>2. votes'[m] = votes[m] /\ cand'[m] = cand[m]
      BY <1>2, <3>1
    <3> QED  BY <1>0, <2>1, <3>1, <3>2 DEF LocksHaveVotes
  <2> QED  BY <2>1 DEF LocksHaveVotes, IsAllOutPointsReady
<1>9. InputsInv'
  BY <1>0, <1>4, <1>5 DEF InputsInv
<1>10. BusyInv' /\ ChainInv'
  BY <1>0, <1>1 DEF BusyInv, ChainInv
<1>11. HeightsInv'
  BY <1>0, <1>1, <1>2, <1>3 DEF HeightsInv
<1>12. SentInv'
  BY <1>0, <1>1, <1>2 DEF SentInv
<1>13. VotesOnce'
  BY <1>0, <1>1 DEF VotesOnce
<1>14. MemoryInv'
  <2> SUFFICES ASSUME NEW w \in sent, w.mn \notin restarted, w.mn # n
               PROVE  \/ w \in votes'[w.mn] /\ w.tx \in voted'[w.mn][w.out]
                      \/ Dead(w.mn, w.out)
    BY <1>1 DEF MemoryInv, Dead
  <2>1. w.mn \in Nodes /\ w.out \in Outpoints
    BY <1>0 DEF TypeOK, Vote
  <2> QED  BY <1>0, <1>2, <1>4, <2>1 DEF MemoryInv
<1> QED  BY <1>6, <1>7, <1>8, <1>9, <1>10, <1>11, <1>12, <1>13, <1>14 DEF LockInv, BooksAgree

-----------------------------------------------------------------------------
(* The theorems.                                                            *)

LEMMA InitLockInv == Init => LockInv
<1> SUFFICES ASSUME Init PROVE LockInv
  OBVIOUS
<1>1. TypeOK
  BY InstantSendAssumption DEF Init, TypeOK, Idle
<1>2. BooksAgree
  BY <1>1 DEF Init, BooksAgree, VotedAreCandidates, RequestsAreCandidates, LocksHaveVotes
<1>3. BusyInv
  BY DEF Init, BusyInv, Idle
<1>4. ChainInv
  BY InstantSendAssumption DEF Init, ChainInv
<1>5. HeightsInv /\ SentInv /\ InputsInv /\ MemoryInv /\ VotesOnce
  BY DEF Init, HeightsInv, SentInv, InputsInv, MemoryInv, VotesOnce
<1> QED  BY <1>2, <1>3, <1>4, <1>5 DEF LockInv

LEMMA NextLockInv == LockInv /\ [Next]_vars => LockInv'
<1> SUFFICES ASSUME LockInv, [Next]_vars PROVE LockInv'
  OBVIOUS
<1>1. ASSUME NEW n \in Nodes, NEW t \in Txs, ReceiveRequest(n, t) PROVE LockInv'
  BY <1>1, ReceiveRequestInv
<1>2. ASSUME NEW n \in Nodes, NEW v \in sent, ReceiveVote(n, v) PROVE LockInv'
  BY <1>2, ReceiveVoteInv
<1>3. ASSUME NEW n \in Nodes, NEW t \in Txs \cup {None}, ConnectTip(n, t) PROVE LockInv'
  BY <1>3, ConnectTipInv
<1>4. ASSUME NEW n \in Nodes, DisconnectTip(n) PROVE LockInv'
  BY <1>4, DisconnectTipInv
<1>5. ASSUME NEW n \in Nodes, NEW oldVotes, NEW oldOrphans,
             CheckAndRemove(n, oldVotes, oldOrphans)
      PROVE  LockInv'
  BY <1>5, CheckAndRemoveInv
<1>6. ASSUME NEW n \in Nodes, Restart(n) PROVE LockInv'
  BY <1>6, RestartInv
<1>7. ASSUME NEW v \in busy.todo, ProcessOrphanVote(v) PROVE LockInv'
  BY <1>7, ProcessOrphanVoteInv
<1>8. ASSUME NEW v \in busy.todo, NEW spamming \in BOOLEAN, ForgetOrphanVote(v, spamming)
      PROVE  LockInv'
  BY <1>8, ForgetOrphanVoteInv
<1>9. CASE FinishRequest
  BY <1>9, FinishRequestInv
<1>10. CASE AcceptRequest
  BY <1>10, AcceptRequestInv
<1>11. CASE UNCHANGED vars
  <2>1. TypeOK'
    BY <1>11 DEF vars, LockInv, BooksAgree, TypeOK
  <2>2. VotedAreCandidates' /\ RequestsAreCandidates' /\ LocksHaveVotes'
    BY <1>11 DEF vars, LockInv, BooksAgree, VotedAreCandidates,
         RequestsAreCandidates, LocksHaveVotes, IsAllOutPointsReady
  <2>3. BusyInv' /\ ChainInv' /\ HeightsInv' /\ SentInv' /\ InputsInv' /\ VotesOnce'
    BY <1>11 DEF vars, LockInv, BusyInv, ChainInv, HeightsInv, SentInv, InputsInv, VotesOnce
  <2>4. MemoryInv'
    BY <1>11 DEF vars, LockInv, MemoryInv, Dead
  <2> QED  BY <2>1, <2>2, <2>3, <2>4 DEF LockInv, BooksAgree
<1> QED  BY <1>1, <1>2, <1>3, <1>4, <1>5, <1>6, <1>7, <1>8, <1>9, <1>10, <1>11 DEF Next

\* Fewer masternodes forgot their votes than two quorums of an outpoint share:
\* one of them voted for both transactions, and it votes once.
LEMMA QuorumsAgree ==
  ASSUME LockInv, Cardinality(restarted) < 2 * Required - Total,
         NEW n1 \in Nodes, NEW n2 \in Nodes, NEW o \in Outpoints,
         locked[n1][o] # None, locked[n2][o] # None
  PROVE  locked[n1][o] = locked[n2][o]
<1> DEFINE t1 == locked[n1][o]
           t2 == locked[n2][o]
           S1 == Signers(votes[n1], t1, o)
           S2 == Signers(votes[n2], t2, o)
<1>0. TypeOK /\ LocksHaveVotes /\ SentInv /\ InputsInv /\ VotesOnce
  BY DEF LockInv, BooksAgree
<1>1. /\ t1 \in Txs /\ o \in Inputs[t1] /\ IsAllOutPointsReady(votes[n1], t1)
      /\ t2 \in Txs /\ o \in Inputs[t2] /\ IsAllOutPointsReady(votes[n2], t2)
      /\ votes[n1] \subseteq Vote /\ votes[n2] \subseteq Vote
      /\ votes[n1] \subseteq sent /\ votes[n2] \subseteq sent
  BY <1>0 DEF TypeOK, LocksHaveVotes, InputsInv, SentInv
<1>2. /\ Cardinality(Ballots(votes[n1], t1, o)) >= Required
      /\ Cardinality(Ballots(votes[n2], t2, o)) >= Required
  BY <1>1 DEF IsAllOutPointsReady, Ballots
<1> HIDE DEF t1, t2
<1>3. /\ IsFiniteSet(S1) /\ IsFiniteSet(S2)
      /\ Cardinality(S1) >= Required /\ Cardinality(S2) >= Required
  BY <1>1, <1>2, BallotsAreSigners
<1>4. S1 \subseteq Voters[o] /\ S2 \subseteq Voters[o]
  BY DEF Signers
<1>5. IsFiniteSet(Voters[o]) /\ Cardinality(Voters[o]) <= Total
  BY FS_Subset, InstantSendAssumption
<1>6. ASSUME NEW m \in S1 \cap S2, m \notin restarted
      PROVE  t1 = t2
  <2> DEFINE v == [tx |-> t1, out |-> o, mn |-> m]
             w == [tx |-> t2, out |-> o, mn |-> m]
  <2>1. v \in sent /\ w \in sent
    BY <1>1 DEF Signers
  <2>2. v = w
    BY <1>0, <1>6, <2>1 DEF VotesOnce
  <2> QED  BY <2>2
<1>7. ASSUME S1 \cap S2 \subseteq restarted
      PROVE  FALSE
  <2> HIDE DEF S1, S2
  <2>1. IsFiniteSet(restarted)
    BY <1>0, FS_Subset, InstantSendAssumption DEF TypeOK
  <2>2. Cardinality(S1 \cap S2) <= Cardinality(restarted)
    BY <1>7, <2>1, FS_Subset
  <2>3. Cardinality(S1 \cup S2) = Cardinality(S1) + Cardinality(S2) - Cardinality(S1 \cap S2)
    BY <1>3, FS_Union
  <2>4. S1 \cup S2 \in SUBSET Voters[o]
    BY <1>4
  <2>5. Cardinality(S1 \cup S2) <= Cardinality(Voters[o])
    BY <1>5, <2>4, FS_Subset
  <2>6. IsFiniteSet(S1 \cap S2) /\ IsFiniteSet(S1 \cup S2)
    BY <1>3, FS_Union, FS_Intersection
  <2>7. /\ Cardinality(S1) \in Nat /\ Cardinality(S2) \in Nat
        /\ Cardinality(S1 \cap S2) \in Nat /\ Cardinality(S1 \cup S2) \in Nat
        /\ Cardinality(restarted) \in Nat /\ Cardinality(Voters[o]) \in Nat
    BY <1>3, <1>5, <2>1, <2>6, FS_CardinalityType
  <2> QED  BY <1>3, <1>5, <2>2, <2>3, <2>5, <2>7, InstantSendAssumption
<1> QED  BY <1>6, <1>7 DEF t1, t2

\* The inductive invariant holds in every reachable state.
THEOREM LockInvariance == Spec => []LockInv
BY InitLockInv, NextLockInv, PTL DEF Spec

\* A masternode that keeps its memory signs at most one vote per outpoint
\* (CInstantSend::Vote), also after CheckAndRemove has removed its votes.
THEOREM VotesAreUnique == Spec => []VotesOnce
<1>1. LockInv => VotesOnce
  BY DEF LockInv
<1> QED  BY <1>1, LockInvariance, PTL

\* The maps that ProcessTxLockRequest, ProcessTxLockVote and CheckAndRemove fill
\* and empty one by one agree after every step.
THEOREM BooksInvariance == Spec => []BooksAgree
<1>1. LockInv => BooksAgree
  BY DEF LockInv
<1> QED  BY <1>1, LockInvariance, PTL

\* No two nodes lock an outpoint for different transactions
\* (TryToFinalizeLockCandidate), for any numbers of nodes and votes, as long as
\* fewer masternodes were restarted than two quorums share.
THEOREM LockAgreement == Spec => []LocksAgree
<1>1. LockInv => LocksAgree
  BY QuorumsAgree DEF LocksAgree
<1> QED  BY <1>1, LockInvariance, PTL

=============================================================================
