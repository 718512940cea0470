----------------------- MODULE MasternodePaymentsProofs -----------------------
(***************************************************************************)
(* For any nodes, masternodes, rankings and bounds: every verified vote is *)
(* counted once, two nodes enforce different payees of a height only when  *)
(* masternodes voted twice or too many voted, a miner that follows its own *)
(* votes makes a block it accepts, and what a node enforces stays enforced.*)
(***************************************************************************)
EXTENDS MasternodePayments, FiniteSetTheorems, SequenceTheorems,
        WellFoundedInduction, TLAPS

\* What is known of a masternode whose vote for a height was counted by a node
\* that kept its memory: it was remembered for that height, or has voted for
\* another one as well.
VotersAreRemembered == \A n \in Nodes, h \in Heights :
    n \notin restarted => \A v \in ToSet(blocks[n][h]) :
        v.mn # n => \/ last[n][v.mn] = h
                    \/ \E u \in cast \cup forged : u.mn = v.mn /\ u.height # h

\* mnpayments.dat has a node's three maps as they were in order.
FilesAreBooked == \A n \in Nodes :
    /\ file[n].verified \subseteq file[n].seen \cap cast
    /\ \A h \in Heights :
           /\ IsInjective(file[n].blocks[h])
           /\ ToSet(file[n].blocks[h]) = {v \in file[n].verified : v.height = h}

\* The inductive invariant
PaymentsInv ==
    /\ TypeOK
    /\ VotesCountOnce
    /\ CountedAreSigned
    /\ FilesAreBooked
    /\ VotersAreRemembered
    /\ SecondVoteNeedsAnother

-----------------------------------------------------------------------------
\* The entries of a sequence, and the places of its entries, after one is added.
LEMMA AppendAddsOne ==
  ASSUME NEW S, NEW s \in Seq(S), NEW e \in S
  PROVE  /\ Append(s, e) \in Seq(S)
         /\ ToSet(Append(s, e)) = ToSet(s) \cup {e}
         /\ Append(s, e) # <<>>
         /\ e \notin ToSet(s) /\ IsInjective(s) => IsInjective(Append(s, e))
<1>1. /\ Append(s, e) \in Seq(S)
      /\ Len(s) \in Nat
      /\ Len(Append(s, e)) = Len(s) + 1
      /\ DOMAIN s = 1..Len(s) /\ DOMAIN Append(s, e) = 1..(Len(s) + 1)
      /\ \A i \in 1..Len(s) : Append(s, e)[i] = s[i]
      /\ Append(s, e)[Len(s) + 1] = e
      /\ Append(s, e) # <<>>
  BY AppendProperties, LenProperties
<1>2. ToSet(Append(s, e)) = ToSet(s) \cup {e}
  <2>1. ASSUME NEW x \in ToSet(Append(s, e))
        PROVE  x \in ToSet(s) \cup {e}
    <3>1. PICK i \in 1..(Len(s) + 1) : x = Append(s, e)[i]
      BY <1>1, <2>1 DEF ToSet
    <3>2. i \in 1..Len(s) \/ i = Len(s) + 1
      BY <1>1
    <3> QED  BY <1>1, <3>1, <3>2 DEF ToSet
  <2>2. ASSUME NEW x \in ToSet(s)
        PROVE  x \in ToSet(Append(s, e))
    <3>1. PICK i \in 1..Len(s) : x = s[i]
      BY <1>1, <2>2 DEF ToSet
    <3>2. i \in 1..(Len(s) + 1) /\ Append(s, e)[i] = x
      BY <1>1, <3>1
    <3> QED  BY <1>1, <3>2 DEF ToSet
  <2>3. e \in ToSet(Append(s, e))
    <3>1. Len(s) + 1 \in 1..(Len(s) + 1)
      BY <1>1
    <3> QED  BY <1>1, <3>1 DEF ToSet
  <2> QED  BY <2>1, <2>2, <2>3
<1>3. ASSUME e \notin ToSet(s), IsInjective(s)
      PROVE  IsInjective(Append(s, e))
  <2>1. SUFFICES ASSUME NEW i \in 1..(Len(s) + 1), NEW j \in 1..(Len(s) + 1),
                        Append(s, e)[i] = Append(s, e)[j]
                 PROVE  i = j
    BY <1>1 DEF IsInjective
  <2>2. \A k \in 1..Len(s) : s[k] # e
    BY <1>1, <1>3 DEF ToSet
  <2>3. \A k, l \in 1..Len(s) : s[k] = s[l] => k = l
    BY <1>1, <1>3 DEF IsInjective
  <2>4. /\ i \in 1..Len(s) \/ i = Len(s) + 1
        /\ j \in 1..Len(s) \/ j = Len(s) + 1
    BY <1>1
  <2> QED  BY <1>1, <2>1, <2>2, <2>3, <2>4
<1> QED  BY <1>1, <1>2, <1>3

\* A set of natural numbers has a least one.
LEMMA LeastNumber ==
  ASSUME NEW T \in SUBSET Nat, T # {}
  PROVE  \E x \in T : \A y \in T : x <= y
<1> DEFINE R == OpToRel(<, Nat)
<1>1. IsWellFoundedOn(R, Nat)
  BY NatLessThanWellFounded
<1> HIDE DEF R
<1>2. PICK x \in T : \A y \in T : ~ (<<y, x>> \in R)
  BY <1>1, WFMin
<1>3. \A y \in T : <<y, x>> \in R <=> y < x
  BY DEF R, OpToRel
<1>4. ASSUME NEW y \in T
      PROVE  x <= y
  <2>1. x \in Nat /\ y \in Nat /\ ~ (y < x)
    BY <1>2, <1>3
  <2> QED  BY <2>1
<1> QED  BY <1>4

-----------------------------------------------------------------------------
\* A node's votes, and the votes for a height, are votes.
LEMMA VotesHaveTypes ==
  ASSUME TypeOK, NEW n \in Nodes, NEW h \in Heights
  PROVE  /\ blocks[n] \in [Heights -> Seq(Votes)]
         /\ blocks[n][h] \in Seq(Votes)
         /\ seen[n] \subseteq Votes /\ verified[n] \subseteq Votes
         /\ cast \subseteq Votes
         /\ tip[n] \in 1..MaxTip
BY DEF TypeOK

\* Every vote counted for a height is a signed vote for that height.
LEMMA CountedVotesAreCast ==
  ASSUME TypeOK, VotesCountOnce, CountedAreSigned, NEW n \in Nodes, NEW h \in Heights,
         NEW v \in ToSet(blocks[n][h])
  PROVE  /\ v \in verified[n] /\ v \in cast /\ v \in Votes
         /\ v.height = h /\ v.mn \in Masternodes /\ v.payee \in Payees
<1>1. v \in verified[n] /\ v.height = h
  BY DEF VotesCountOnce
<1>2. v \in cast /\ v \in Votes
  BY <1>1, VotesHaveTypes DEF CountedAreSigned
<1> QED  BY <1>1, <1>2 DEF Votes

\* The initial state satisfies the invariant.
LEMMA InitPaymentsInv == Init => PaymentsInv
<1> SUFFICES ASSUME Init
             PROVE  PaymentsInv
  OBVIOUS
<1> USE DEF Init
<1>1. TypeOK
  <2>1. 1 \in 1..MaxTip
    BY PaymentsAssumption
  <2>2. <<>> \in Seq(Votes)
    OBVIOUS
  <2>3. 0 \in 0..MaxEvents
    BY PaymentsAssumption
  <2>4. NoVotes \in [seen : SUBSET Votes, verified : SUBSET Votes,
                     blocks : [Heights -> Seq(Votes)]]
    BY <2>2 DEF NoVotes
  <2> QED  BY <2>1, <2>2, <2>3, <2>4 DEF TypeOK
<1>2. \A n \in Nodes :
          /\ verified[n] = {} /\ file[n].verified = {}
          /\ \A h \in Heights : blocks[n][h] = <<>> /\ file[n].blocks[h] = <<>>
  BY DEF NoVotes
<1>3. ToSet(<<>>) = {} /\ IsInjective(<<>>)
  BY DEF ToSet, IsInjective
<1>4. VotesCountOnce
  BY <1>2, <1>3 DEF VotesCountOnce
<1>5. VotersAreRemembered /\ SecondVoteNeedsAnother
  BY <1>2, <1>3 DEF VotersAreRemembered, SecondVoteNeedsAnother
<1>6. CountedAreSigned /\ FilesAreBooked
  BY <1>2, <1>3 DEF CountedAreSigned, FilesAreBooked
<1> QED  BY <1>1, <1>4, <1>5, <1>6 DEF PaymentsInv

-----------------------------------------------------------------------------
\* AddPaymentVote, of a vote that is signed by then, keeps the types and counts
\* nothing but that vote.
LEMMA AddCountsOnce ==
  ASSUME TypeOK, VotesCountOnce, CountedAreSigned, NEW n \in Nodes, NEW v \in Votes,
         AddPaymentVote(n, v), cast' = cast \cup {v}
  PROVE  /\ cast' \subseteq Votes
         /\ verified' \in [Nodes -> SUBSET Votes] /\ seen' \in [Nodes -> SUBSET Votes]
         /\ CountedAreSigned'
         /\ blocks' \in [Nodes -> [Heights -> Seq(Votes)]]
         /\ VotesCountOnce'
         /\ \A m \in Nodes, h \in Heights : \A w \in ToSet(blocks'[m][h]) :
                w \in ToSet(blocks[m][h]) \/ (m = n /\ h = v.height /\ w = v)
<1>0. /\ cast \subseteq Votes /\ cast' \subseteq Votes
      /\ verified \in [Nodes -> SUBSET Votes] /\ seen \in [Nodes -> SUBSET Votes]
      /\ CountedAreSigned
      /\ blocks \in [Nodes -> [Heights -> Seq(Votes)]]
      /\ cast \subseteq cast' /\ v \in cast'
      /\ v.height \in Heights
  BY DEF TypeOK, Votes
<1>1. CASE v \in verified[n]
  <2>1. UNCHANGED voteVars
    BY <1>1 DEF AddPaymentVote
  <2>2. VotesCountOnce'
    BY <2>1 DEF voteVars, VotesCountOnce
  <2>3. /\ verified' \in [Nodes -> SUBSET Votes] /\ seen' \in [Nodes -> SUBSET Votes]
        /\ CountedAreSigned'
        /\ blocks' \in [Nodes -> [Heights -> Seq(Votes)]]
    BY <1>0, <2>1 DEF voteVars, CountedAreSigned
  <2> QED  BY <1>0, <2>1, <2>2, <2>3 DEF voteVars
<1>2. CASE v \notin verified[n]
  <2>1. /\ seen' = [seen EXCEPT ![n] = @ \cup {v}]
        /\ verified' = [verified EXCEPT ![n] = @ \cup {v}]
        /\ blocks' = [blocks EXCEPT ![n][v.height] = Append(@, v)]
    BY <1>2 DEF AddPaymentVote
  <2>2. /\ blocks[n][v.height] \in Seq(Votes)
        /\ Append(blocks[n][v.height], v) \in Seq(Votes)
        /\ ToSet(Append(blocks[n][v.height], v)) = ToSet(blocks[n][v.height]) \cup {v}
        /\ v \notin ToSet(blocks[n][v.height]) /\ IsInjective(blocks[n][v.height])
             => IsInjective(Append(blocks[n][v.height], v))
    BY <1>0, AppendAddsOne
  <2>3. /\ blocks'[n][v.height] = Append(blocks[n][v.height], v)
        /\ \A m \in Nodes, h \in Heights :
               m # n \/ h # v.height => blocks'[m][h] = blocks[m][h]
        /\ \A m \in Nodes : verified'[m] = IF m = n THEN verified[n] \cup {v} ELSE verified[m]
    BY <1>0, <2>1
  <2>4. /\ verified' \in [Nodes -> SUBSET Votes] /\ seen' \in [Nodes -> SUBSET Votes]
        /\ CountedAreSigned'
    BY <1>0, <2>1 DEF CountedAreSigned
  <2>5. blocks' \in [Nodes -> [Heights -> Seq(Votes)]]
    BY <1>0, <2>1, <2>2
  <2>6. VotesCountOnce'
    <3>1. SUFFICES ASSUME NEW m \in Nodes, NEW h \in Heights
                   PROVE  /\ IsInjective(blocks'[m][h])
                          /\ ToSet(blocks'[m][h]) = {w \in verified'[m] : w.height = h}
      BY DEF VotesCountOnce
    <3>2. /\ IsInjective(blocks[m][h])
          /\ ToSet(blocks[m][h]) = {w \in verified[m] : w.height = h}
      BY DEF VotesCountOnce
    <3>3. CASE m = n /\ h = v.height
      BY <1>2, <2>2, <2>3, <3>2, <3>3
    <3>4. CASE m # n \/ h # v.height
      <4>1. {w \in verified'[m] : w.height = h} = {w \in verified[m] : w.height = h}
        BY <2>3, <3>4
      <4> QED  BY <2>3, <3>2, <3>4, <4>1
    <3> QED  BY <3>3, <3>4
  <2>7. ASSUME NEW m \in Nodes, NEW h \in Heights, NEW w \in ToSet(blocks'[m][h])
        PROVE  w \in ToSet(blocks[m][h]) \/ (m = n /\ h = v.height /\ w = v)
    BY <2>2, <2>3, <2>7
  <2> QED  BY <1>0, <2>4, <2>5, <2>6, <2>7
<1> QED  BY <1>1, <1>2

\* A file that is not written stays in order.
LEMMA FilesAreKept ==
  ASSUME FilesAreBooked, file' = file, cast \subseteq cast'
  PROVE  FilesAreBooked'
BY DEF FilesAreBooked

\* A new tip, connected or in another's place: the node's own vote is the only
\* one that may be added.
LEMMA TipKeepsInv ==
  ASSUME PaymentsInv, NEW n \in Nodes, NEW t \in 1..MaxTip, UpdatedBlockTip(n, t),
         events' \in 0..MaxEvents
  PROVE  PaymentsInv'
<1> DEFINE h == VoteHeight(t)
           v(p) == [mn |-> n, height |-> h, payee |-> p]
<1>0. /\ TypeOK /\ VotesCountOnce /\ CountedAreSigned /\ FilesAreBooked
      /\ VotersAreRemembered /\ SecondVoteNeedsAnother
      /\ tip' = [tip EXCEPT ![n] = t]
      /\ UNCHANGED <<list, last, file, forged, restarted>>
  BY DEF PaymentsInv, UpdatedBlockTip
<1>1. /\ tip' \in [Nodes -> 1..MaxTip]
      /\ list' \in [Nodes -> [Masternodes -> {"none", "listed", "payable"}]]
      /\ last' \in [Nodes -> [Masternodes -> Heights \cup {None}]]
      /\ file' \in [Nodes -> [seen : SUBSET Votes, verified : SUBSET Votes,
                              blocks : [Heights -> Seq(Votes)]]]
      /\ restarted' \subseteq Nodes /\ forged' \subseteq Votes
  BY <1>0 DEF TypeOK
<1>2. CASE \E p \in NextInQueue(n, t, h) :
               n \in Masternodes /\ AddPaymentVote(n, v(p)) /\ cast' = cast \cup {v(p)}
  <2>1. PICK p \in NextInQueue(n, t, h) :
               n \in Masternodes /\ AddPaymentVote(n, v(p)) /\ cast' = cast \cup {v(p)}
    BY <1>2
  <2>2. h \in Heights
    BY PaymentsAssumption DEF VoteHeight, Heights
  <2>3. v(p) \in Votes
    BY <2>1, <2>2 DEF Votes, NextInQueue
  <2> DEFINE w == v(p)
  <2>4. w \in Votes /\ w.mn = n /\ AddPaymentVote(n, w) /\ cast' = cast \cup {w}
    BY <2>1, <2>3
  <2> HIDE DEF w
  <2>5. /\ cast' \subseteq Votes
        /\ verified' \in [Nodes -> SUBSET Votes] /\ seen' \in [Nodes -> SUBSET Votes]
        /\ CountedAreSigned'
        /\ blocks' \in [Nodes -> [Heights -> Seq(Votes)]]
        /\ VotesCountOnce'
        /\ \A m \in Nodes, k \in Heights : \A u \in ToSet(blocks'[m][k]) :
               u \in ToSet(blocks[m][k]) \/ (m = n /\ k = w.height /\ u = w)
    BY <1>0, <2>4, AddCountsOnce
  <2>6. TypeOK'
    BY <1>1, <2>5 DEF TypeOK
  <2>7. VotersAreRemembered'
    <3>1. SUFFICES ASSUME NEW m \in Nodes, NEW k \in Heights, m \notin restarted,
                          NEW a \in ToSet(blocks'[m][k]), a.mn # m
                   PROVE  last[m][a.mn] = k \/ \E u \in cast' \cup forged' : u.mn = a.mn /\ u.height # k
      BY <1>0 DEF VotersAreRemembered
    <3>2. a \in ToSet(blocks[m][k])
      BY <2>4, <2>5, <3>1
    <3>3. last[m][a.mn] = k \/ \E u \in cast \cup forged : u.mn = a.mn /\ u.height # k
      BY <1>0, <3>1, <3>2 DEF VotersAreRemembered
    <3> QED  BY <1>0, <2>4, <3>3
  <2>8. SecondVoteNeedsAnother'
    <3>1. SUFFICES ASSUME NEW m \in Nodes, NEW k \in Heights, m \notin restarted,
                          NEW a \in ToSet(blocks'[m][k]), NEW b \in ToSet(blocks'[m][k]),
                          a # b, a.mn = b.mn, a.mn # m
                   PROVE  \E u \in cast' \cup forged' : u.mn = a.mn /\ u.height # k
      BY <1>0 DEF SecondVoteNeedsAnother
    <3>2. a \in ToSet(blocks[m][k]) /\ b \in ToSet(blocks[m][k])
      BY <2>4, <2>5, <3>1
    <3>3. \E u \in cast \cup forged : u.mn = a.mn /\ u.height # k
      BY <1>0, <3>1, <3>2 DEF SecondVoteNeedsAnother
    <3> QED  BY <1>0, <2>4, <3>3
  <2>9. FilesAreBooked'
    BY <1>0, <2>4, FilesAreKept
  <2> QED  BY <2>5, <2>6, <2>7, <2>8, <2>9 DEF PaymentsInv
<1>3. CASE UNCHANGED <<voteVars, cast>>
  <2>1. UNCHANGED <<seen, verified, blocks, cast, forged, last, file, restarted>>
    BY <1>0, <1>3 DEF voteVars
  <2>2. TypeOK'
    BY <1>0, <1>1, <2>1 DEF TypeOK
  <2>3. /\ VotesCountOnce' /\ CountedAreSigned' /\ FilesAreBooked'
        /\ VotersAreRemembered' /\ SecondVoteNeedsAnother'
    BY <1>0, <2>1 DEF VotesCountOnce, CountedAreSigned, FilesAreBooked, VotersAreRemembered,
                      SecondVoteNeedsAnother
  <2> QED  BY <2>2, <2>3 DEF PaymentsInv
<1> QED  BY <1>2, <1>3 DEF UpdatedBlockTip

\* A vote that arrives with its masternode's signature or without, whatever is
\* found out about it
LEMMA ReceiveKeepsInv ==
  ASSUME PaymentsInv, NEW n \in Nodes, NEW v \in Votes,
         ReceiveVote(n, v) \/ ReceiveForged(n, v)
  PROVE  PaymentsInv'
<1> DEFINE valid == InRange(n, v) /\ IsValid(n, v)
           counts == Counts(n, v) /\ v \in cast'
<1>0. /\ TypeOK /\ VotesCountOnce /\ CountedAreSigned /\ FilesAreBooked
      /\ VotersAreRemembered /\ SecondVoteNeedsAnother
      /\ last' = IF valid THEN [last EXCEPT ![n][v.mn] = v.height] ELSE last
      /\ \/ counts /\ AddPaymentVote(n, v) /\ cast' = cast \cup {v}
         \/ NotCounted(n, v) /\ cast \subseteq cast' /\ cast' \subseteq cast \cup {v}
      /\ UNCHANGED <<tip, list, file, restarted>>
      /\ forged \subseteq forged' /\ forged' \subseteq forged \cup {v}
      /\ v \in cast' \cup forged'
      /\ counts => valid /\ CanVote(n, v)
  <2>1. CASE ReceiveVote(n, v)
    BY <2>1 DEF PaymentsInv, ReceiveVote, Receives, Counts
  <2>2. CASE ReceiveForged(n, v)
    BY <2>2 DEF PaymentsInv, ReceiveForged, IsForged, Receives, Counts
  <2> QED  BY <2>1, <2>2
<1>1. v.mn \in Masternodes /\ v.height \in Heights
  BY DEF Votes
<1> HIDE DEF valid, counts
<1>2. /\ tip' \in [Nodes -> 1..MaxTip]
      /\ list' \in [Nodes -> [Masternodes -> {"none", "listed", "payable"}]]
      /\ file' \in [Nodes -> [seen : SUBSET Votes, verified : SUBSET Votes,
                              blocks : [Heights -> Seq(Votes)]]]
      /\ restarted' \subseteq Nodes
      /\ cast' \subseteq Votes /\ forged' \subseteq Votes
  BY <1>0 DEF TypeOK
<1>3. events' \in 0..MaxEvents
  <2>1. events \in 0..MaxEvents /\ MaxEvents \in Nat
    BY <1>0, PaymentsAssumption DEF TypeOK
  <2>2. events' = events \/ (events < MaxEvents /\ events' = events + 1)
    BY DEF ReceiveVote, ReceiveForged, IsForged
  <2> QED  BY <2>1, <2>2
<1>4. /\ last' \in [Nodes -> [Masternodes -> Heights \cup {None}]]
      /\ \A m \in Nodes, k \in Masternodes :
             \/ last'[m][k] = last[m][k]
             \/ m = n /\ k = v.mn /\ last'[m][k] = v.height
      /\ valid => last'[n][v.mn] = v.height
  <2>1. last \in [Nodes -> [Masternodes -> Heights \cup {None}]]
    BY <1>0 DEF TypeOK
  <2>2. CASE valid
    BY <1>0, <1>1, <2>1, <2>2
  <2>3. CASE ~ valid
    BY <1>0, <2>1, <2>3
  <2> QED  BY <2>2, <2>3
<1>5. /\ verified' \in [Nodes -> SUBSET Votes] /\ seen' \in [Nodes -> SUBSET Votes]
      /\ CountedAreSigned'
      /\ blocks' \in [Nodes -> [Heights -> Seq(Votes)]]
      /\ VotesCountOnce'
      /\ \A m \in Nodes, k \in Heights : \A u \in ToSet(blocks'[m][k]) :
             \/ u \in ToSet(blocks[m][k])
             \/ m = n /\ k = v.height /\ u = v /\ counts
  <2>1. CASE counts /\ AddPaymentVote(n, v) /\ cast' = cast \cup {v}
    <3>1. /\ verified' \in [Nodes -> SUBSET Votes] /\ seen' \in [Nodes -> SUBSET Votes]
          /\ CountedAreSigned'
          /\ blocks' \in [Nodes -> [Heights -> Seq(Votes)]]
          /\ VotesCountOnce'
          /\ \A m \in Nodes, k \in Heights : \A u \in ToSet(blocks'[m][k]) :
                 u \in ToSet(blocks[m][k]) \/ (m = n /\ k = v.height /\ u = v)
      BY <1>0, <2>1, AddCountsOnce
    <3> QED  BY <2>1, <3>1
  <2>2. CASE NotCounted(n, v) /\ cast \subseteq cast'
    <3>1. /\ verified \in [Nodes -> SUBSET Votes] /\ seen \in [Nodes -> SUBSET Votes]
          /\ CountedAreSigned
          /\ blocks \in [Nodes -> [Heights -> Seq(Votes)]]
          /\ seen' = [seen EXCEPT ![n] = @ \cup {v}] /\ UNCHANGED <<verified, blocks>>
      BY <1>0, <2>2 DEF TypeOK, NotCounted
    <3>2. VotesCountOnce'
      BY <1>0, <3>1 DEF VotesCountOnce
    <3>3. verified' \in [Nodes -> SUBSET Votes] /\ seen' \in [Nodes -> SUBSET Votes]
      BY <3>1
    <3>4. CountedAreSigned'
      BY <2>2, <3>1 DEF CountedAreSigned
    <3> QED  BY <3>1, <3>2, <3>3, <3>4
  <2> QED  BY <1>0, <2>1, <2>2
<1>6. TypeOK'
  BY <1>2, <1>3, <1>4, <1>5 DEF TypeOK
<1>7. VotersAreRemembered'
  <2>1. SUFFICES ASSUME NEW m \in Nodes, NEW k \in Heights, m \notin restarted,
                        NEW a \in ToSet(blocks'[m][k]), a.mn # m
                 PROVE  last'[m][a.mn] = k \/ \E u \in cast' \cup forged' : u.mn = a.mn /\ u.height # k
    BY <1>0 DEF VotersAreRemembered
  <2>2. CASE a = v /\ m = n /\ k = v.height /\ counts
    BY <1>0, <1>4, <2>2
  <2>3. CASE a \in ToSet(blocks[m][k])
    <3>1. a.mn \in Masternodes
      BY <1>0, <2>3, CountedVotesAreCast
    <3>2. last[m][a.mn] = k \/ \E u \in cast \cup forged : u.mn = a.mn /\ u.height # k
      BY <1>0, <2>1, <2>3 DEF VotersAreRemembered
    <3>3. CASE last[m][a.mn] = k /\ last'[m][a.mn] # k
      <4>1. a.mn = v.mn /\ v.height # k
        <5>1. last'[m][a.mn] # last[m][a.mn]
          BY <3>3
        <5>2. a.mn = v.mn /\ last'[m][a.mn] = v.height
          BY <1>4, <3>1, <5>1
        <5> QED  BY <3>3, <5>2
      <4> QED  BY <1>0, <4>1
    <3>4. \A u \in cast \cup forged : u \in cast' \cup forged'
      BY <1>0
    <3> QED  BY <3>2, <3>3, <3>4
  <2> QED  BY <1>5, <2>2, <2>3
<1>8. SecondVoteNeedsAnother'
  <2>1. SUFFICES ASSUME NEW m \in Nodes, NEW k \in Heights, m \notin restarted,
                        NEW a \in ToSet(blocks'[m][k]), NEW b \in ToSet(blocks'[m][k]),
                        a # b, a.mn = b.mn, a.mn # m
                 PROVE  \E u \in cast' \cup forged' : u.mn = a.mn /\ u.height # k
    BY <1>0 DEF SecondVoteNeedsAnother
  <2>2. CASE a \in ToSet(blocks[m][k]) /\ b \in ToSet(blocks[m][k])
    BY <1>0, <2>1, <2>2 DEF SecondVoteNeedsAnother
  <2>3. ASSUME NEW c \in ToSet(blocks[m][k]), c.mn = a.mn,
               m = n, k = v.height, v.mn = a.mn, counts
        PROVE  \E u \in cast' \cup forged' : u.mn = a.mn /\ u.height # k
    <3>1. last[m][c.mn] # k
      BY <1>0, <2>3 DEF CanVote
    <3>2. \E u \in cast \cup forged : u.mn = c.mn /\ u.height # k
      BY <1>0, <2>1, <2>3, <3>1 DEF VotersAreRemembered
    <3> QED  BY <1>0, <2>3, <3>2
  <2>4. CASE a = v /\ m = n /\ k = v.height /\ counts
    <3>1. b \in ToSet(blocks[m][k])
      BY <1>5, <2>1, <2>4
    <3> QED  BY <2>1, <2>3, <2>4, <3>1
  <2>5. CASE b = v /\ m = n /\ k = v.height /\ counts
    BY <1>5, <2>1, <2>3, <2>5
  <2> QED  BY <1>5, <2>2, <2>4, <2>5
<1>9. FilesAreBooked'
  BY <1>0, FilesAreKept
<1> QED  BY <1>5, <1>6, <1>7, <1>8, <1>9 DEF PaymentsInv

\* What CheckAndRemove leaves of a node's payees: a height's are dropped with
\* the votes for it, all of which are too old.
LEMMA RemovedHeights ==
  ASSUME TypeOK, VotesCountOnce, CountedAreSigned, NEW n \in Nodes, CheckAndRemove(n)
  PROVE  /\ verified' \in [Nodes -> SUBSET Votes] /\ seen' \in [Nodes -> SUBSET Votes]
         /\ CountedAreSigned'
         /\ blocks' \in [Nodes -> [Heights -> Seq(Votes)]]
         /\ VotesCountOnce'
         /\ \A m \in Nodes, h \in Heights :
                \/ blocks'[m][h] = blocks[m][h]
                \/ m = n /\ blocks'[m][h] = <<>> /\ tip[n] - h > StorageLimit
<1> DEFINE old == {v \in seen[n] : tip[n] - v.height > StorageLimit}
           kept == [h \in Heights |->
                       IF \E v \in old : v.height = h THEN <<>> ELSE blocks[n][h]]
<1>0. /\ verified \in [Nodes -> SUBSET Votes] /\ seen \in [Nodes -> SUBSET Votes]
      /\ CountedAreSigned
      /\ blocks \in [Nodes -> [Heights -> Seq(Votes)]]
  BY DEF TypeOK
<1>1. /\ seen' = [seen EXCEPT ![n] = @ \ old]
      /\ verified' = [verified EXCEPT ![n] = @ \ old]
      /\ blocks' = [blocks EXCEPT ![n] = kept]
  BY DEF CheckAndRemove
<1>2. \A v \in verified[n] : v \in old <=> tip[n] - v.height > StorageLimit
  BY <1>0 DEF CountedAreSigned
<1>3. \A v \in old : tip[n] - v.height > StorageLimit
  OBVIOUS
<1> HIDE DEF old
<1>4. kept \in [Heights -> Seq(Votes)]
  BY <1>0
<1>5. \A h \in Heights : \/ (\E v \in old : v.height = h) /\ kept[h] = <<>>
                         \/ ~ (\E v \in old : v.height = h) /\ kept[h] = blocks[n][h]
  OBVIOUS
<1> HIDE DEF kept
<1>6. /\ \A m \in Nodes : verified'[m] = IF m = n THEN verified[m] \ old ELSE verified[m]
      /\ \A m \in Nodes : seen'[m] = IF m = n THEN seen[m] \ old ELSE seen[m]
      /\ \A m \in Nodes, h \in Heights :
             blocks'[m][h] = IF m = n THEN kept[h] ELSE blocks[m][h]
  BY <1>0, <1>1, <1>4
<1>7. verified' \in [Nodes -> SUBSET Votes] /\ seen' \in [Nodes -> SUBSET Votes]
  BY <1>0, <1>1
<1>8. CountedAreSigned'
  <2>1. cast' = cast
    BY DEF CheckAndRemove
  <2> QED  BY <1>0, <1>6, <2>1 DEF CountedAreSigned
<1>9. blocks' \in [Nodes -> [Heights -> Seq(Votes)]]
  BY <1>0, <1>1, <1>4
<1>10. VotesCountOnce'
  <2>1. SUFFICES ASSUME NEW m \in Nodes, NEW h \in Heights
                 PROVE  /\ IsInjective(blocks'[m][h])
                        /\ ToSet(blocks'[m][h]) = {v \in verified'[m] : v.height = h}
    BY DEF VotesCountOnce
  <2>2. /\ IsInjective(blocks[m][h])
        /\ ToSet(blocks[m][h]) = {v \in verified[m] : v.height = h}
    BY DEF VotesCountOnce
  <2>3. CASE m # n
    BY <1>6, <2>2, <2>3
  <2>4. CASE m = n /\ \E v \in old : v.height = h
    <3>1. \A v \in verified[n] : v.height = h => v \in old
      BY <1>2, <1>3, <2>4
    <3>2. {v \in verified'[m] : v.height = h} = {}
      BY <1>6, <2>4, <3>1
    <3>3. blocks'[m][h] = <<>>
      BY <1>5, <1>6, <2>4
    <3>4. ToSet(<<>>) = {} /\ IsInjective(<<>>)
      BY DEF ToSet, IsInjective
    <3> QED  BY <3>2, <3>3, <3>4
  <2>5. CASE m = n /\ ~ \E v \in old : v.height = h
    <3>1. {v \in verified'[m] : v.height = h} = {v \in verified[m] : v.height = h}
      BY <1>6, <2>5
    <3>2. blocks'[m][h] = blocks[m][h]
      BY <1>5, <1>6, <2>5
    <3> QED  BY <2>2, <3>1, <3>2
  <2> QED  BY <2>3, <2>4, <2>5
<1>11. ASSUME NEW m \in Nodes, NEW h \in Heights
       PROVE  \/ blocks'[m][h] = blocks[m][h]
              \/ m = n /\ blocks'[m][h] = <<>> /\ tip[n] - h > StorageLimit
  <2>1. CASE m = n /\ \E v \in old : v.height = h
    <3>1. tip[n] - h > StorageLimit
      BY <1>3, <2>1
    <3> QED  BY <1>5, <1>6, <2>1, <3>1
  <2>2. CASE m # n \/ ~ \E v \in old : v.height = h
    BY <1>5, <1>6, <2>2
  <2> QED  BY <2>1, <2>2
<1> QED  BY <1>7, <1>8, <1>9, <1>10, <1>11

LEMMA CheckAndRemoveKeepsInv ==
  ASSUME PaymentsInv, NEW n \in Nodes, CheckAndRemove(n)
  PROVE  PaymentsInv'
<1>0. /\ TypeOK /\ VotesCountOnce /\ CountedAreSigned /\ FilesAreBooked
      /\ VotersAreRemembered /\ SecondVoteNeedsAnother
      /\ UNCHANGED <<tip, list, last, file, cast, forged, restarted, events>>
  BY DEF PaymentsInv, CheckAndRemove
<1>1. /\ verified' \in [Nodes -> SUBSET Votes] /\ seen' \in [Nodes -> SUBSET Votes]
      /\ CountedAreSigned'
      /\ blocks' \in [Nodes -> [Heights -> Seq(Votes)]]
      /\ VotesCountOnce'
      /\ \A m \in Nodes, h \in Heights :
             \/ blocks'[m][h] = blocks[m][h]
             \/ m = n /\ blocks'[m][h] = <<>> /\ tip[n] - h > StorageLimit
  BY <1>0, RemovedHeights
<1>2. TypeOK'
  BY <1>0, <1>1 DEF TypeOK
<1>3. \A m \in Nodes, h \in Heights : \A v \in ToSet(blocks'[m][h]) :
          v \in ToSet(blocks[m][h])
  <2>1. ToSet(<<>>) = {}
    BY DEF ToSet
  <2> QED  BY <1>1, <2>1
<1>4. VotersAreRemembered'
  BY <1>0, <1>3 DEF VotersAreRemembered
<1>5. SecondVoteNeedsAnother'
  BY <1>0, <1>3 DEF SecondVoteNeedsAnother
<1>6. FilesAreBooked'
  BY <1>0, FilesAreKept
<1> QED  BY <1>1, <1>2, <1>4, <1>5, <1>6 DEF PaymentsInv

LEMMA ListChangesKeepsInv ==
  ASSUME PaymentsInv, NEW n \in Nodes, NEW m \in Masternodes, ListChanges(n, m)
  PROVE  PaymentsInv'
<1>0. /\ TypeOK /\ VotesCountOnce /\ CountedAreSigned /\ FilesAreBooked
      /\ VotersAreRemembered /\ SecondVoteNeedsAnother
      /\ UNCHANGED <<tip, seen, verified, blocks, last, file, cast, forged, restarted>>
      /\ events < MaxEvents /\ events' = events + 1
  BY DEF PaymentsInv, ListChanges, voteVars
<1>1. PICK s \in {"none", "listed", "payable"} : list' = [list EXCEPT ![n][m] = s]
  BY DEF ListChanges
<1>2. list' \in [Nodes -> [Masternodes -> {"none", "listed", "payable"}]]
  BY <1>0, <1>1 DEF TypeOK
<1>3. events' \in 0..MaxEvents
  <2>1. events \in 0..MaxEvents /\ MaxEvents \in Nat
    BY <1>0, PaymentsAssumption DEF TypeOK
  <2> QED  BY <1>0, <2>1
<1>4. TypeOK'
  BY <1>0, <1>2, <1>3 DEF TypeOK
<1>5. /\ VotesCountOnce' /\ CountedAreSigned' /\ FilesAreBooked'
      /\ VotersAreRemembered' /\ SecondVoteNeedsAnother'
  BY <1>0 DEF VotesCountOnce, CountedAreSigned, FilesAreBooked, VotersAreRemembered,
              SecondVoteNeedsAnother
<1> QED  BY <1>4, <1>5 DEF PaymentsInv

\* Votes a node may start from
StoredVotes(r) ==
    /\ r \in [seen : SUBSET Votes, verified : SUBSET Votes, blocks : [Heights -> Seq(Votes)]]
    /\ r.verified \subseteq r.seen \cap cast
    /\ \A h \in Heights :
           /\ IsInjective(r.blocks[h])
           /\ ToSet(r.blocks[h]) = {v \in r.verified : v.height = h}

\* What a shutdown writes and what is in the file are.
LEMMA FilesAreStored ==
  ASSUME PaymentsInv, NEW n \in Nodes
  PROVE  StoredVotes(Dumped(n)) /\ StoredVotes(file[n])
<1>0. TypeOK /\ VotesCountOnce /\ CountedAreSigned /\ FilesAreBooked
  BY DEF PaymentsInv
<1>1. StoredVotes(file[n])
  BY <1>0 DEF TypeOK, FilesAreBooked, StoredVotes
<1>2. StoredVotes(NoVotes)
  <2>1. ToSet(<<>>) = {} /\ IsInjective(<<>>)
    BY DEF ToSet, IsInjective
  <2>2. /\ NoVotes.seen = {} /\ NoVotes.verified = {}
        /\ \A h \in Heights : NoVotes.blocks[h] = <<>>
        /\ NoVotes \in [seen : SUBSET Votes, verified : SUBSET Votes,
                        blocks : [Heights -> Seq(Votes)]]
    BY DEF NoVotes
  <2> QED  BY <2>1, <2>2 DEF StoredVotes
<1>3. StoredVotes([seen |-> seen[n], verified |-> verified[n], blocks |-> blocks[n]])
  BY <1>0 DEF TypeOK, VotesCountOnce, CountedAreSigned, StoredVotes
<1> QED  BY <1>1, <1>2, <1>3 DEF Dumped

\* A node that forgets who voted last is one that was restarted.
LEMMA StartKeepsInv ==
  ASSUME PaymentsInv, NEW n \in Nodes, Restart(n) \/ Crash(n)
  PROVE  PaymentsInv'
<1>0. /\ TypeOK /\ VotesCountOnce /\ CountedAreSigned /\ FilesAreBooked
      /\ VotersAreRemembered /\ SecondVoteNeedsAnother
  BY DEF PaymentsInv
<1>1. PICK r : StoredVotes(r) /\ StartFrom(n, r) /\ file' = [file EXCEPT ![n] = r]
  <2>1. CASE Restart(n)
    BY <2>1, FilesAreStored DEF Restart
  <2>2. CASE Crash(n)
    <3>1. file' = [file EXCEPT ![n] = file[n]]
      BY <1>0, <2>2 DEF TypeOK, Crash
    <3> QED  BY <2>2, <3>1, FilesAreStored DEF Crash
  <2> QED  BY <2>1, <2>2
<1>2. /\ events < MaxEvents /\ events' = events + 1
      /\ seen' = [seen EXCEPT ![n] = r.seen]
      /\ verified' = [verified EXCEPT ![n] = r.verified]
      /\ blocks' = [blocks EXCEPT ![n] = r.blocks]
      /\ last' = [last EXCEPT ![n] = [m \in Masternodes |-> None]]
      /\ restarted' = restarted \cup {n}
      /\ UNCHANGED <<list, cast, forged>>
  BY <1>1 DEF StartFrom
<1>3. /\ last' \in [Nodes -> [Masternodes -> Heights \cup {None}]]
      /\ \A m \in Nodes : m \notin restarted' =>
             last'[m] = last[m] /\ blocks'[m] = blocks[m]
  <2>1. /\ last \in [Nodes -> [Masternodes -> Heights \cup {None}]]
        /\ blocks \in [Nodes -> [Heights -> Seq(Votes)]]
    BY <1>0 DEF TypeOK
  <2> QED  BY <1>2, <2>1
<1>4. events' \in 0..MaxEvents
  <2>1. events \in 0..MaxEvents /\ MaxEvents \in Nat
    BY <1>0, PaymentsAssumption DEF TypeOK
  <2> QED  BY <1>2, <2>1
<1>5. tip' \in [Nodes -> 1..MaxTip]
  <2>1. tip \in [Nodes -> 1..MaxTip] /\ MaxTip \in Nat
    BY <1>0, PaymentsAssumption DEF TypeOK
  <2>2. \A t \in 1..tip[n] : t \in 1..MaxTip
    BY <2>1
  <2> QED  BY <2>1, <2>2 DEF Restart, Crash
<1>6. TypeOK'
  BY <1>0, <1>1, <1>2, <1>3, <1>4, <1>5 DEF TypeOK, StoredVotes
<1>7. VotesCountOnce' /\ CountedAreSigned' /\ FilesAreBooked'
  <2>1. \A m \in Nodes :
          /\ seen'[m] = IF m = n THEN r.seen ELSE seen[m]
          /\ verified'[m] = IF m = n THEN r.verified ELSE verified[m]
          /\ blocks'[m] = IF m = n THEN r.blocks ELSE blocks[m]
          /\ file'[m] = IF m = n THEN r ELSE file[m]
    BY <1>0, <1>1, <1>2 DEF TypeOK
  <2>2. VotesCountOnce'
    BY <1>0, <1>1, <2>1 DEF VotesCountOnce, StoredVotes
  <2>3. CountedAreSigned'
    BY <1>0, <1>1, <1>2, <2>1 DEF CountedAreSigned, StoredVotes
  <2>4. FilesAreBooked'
    BY <1>0, <1>1, <1>2, <2>1 DEF FilesAreBooked, StoredVotes
  <2> QED  BY <2>2, <2>3, <2>4
<1>8. VotersAreRemembered' /\ SecondVoteNeedsAnother'
  <2>1. \A m \in Nodes : m \notin restarted' => m \notin restarted
    BY <1>2
  <2>2. VotersAreRemembered'
    BY <1>0, <1>2, <1>3, <2>1 DEF VotersAreRemembered
  <2>3. SecondVoteNeedsAnother'
    BY <1>0, <1>2, <1>3, <2>1 DEF SecondVoteNeedsAnother
  <2> QED  BY <2>2, <2>3
<1> QED  BY <1>6, <1>7, <1>8 DEF PaymentsInv

\* The invariant is inductive.
LEMMA NextPaymentsInv == PaymentsInv /\ [Next]_vars => PaymentsInv'
<1> SUFFICES ASSUME PaymentsInv, [Next]_vars
             PROVE  PaymentsInv'
  OBVIOUS
<1>0. TypeOK /\ tip \in [Nodes -> 1..MaxTip] /\ events \in 0..MaxEvents /\ MaxEvents \in Nat
  BY PaymentsAssumption DEF PaymentsInv, TypeOK
<1>1. ASSUME NEW n \in Nodes, NextBlock(n)
      PROVE  PaymentsInv'
  <2>1. tip[n] + 1 \in 1..MaxTip
    BY <1>0, <1>1, PaymentsAssumption DEF NextBlock
  <2> QED  BY <1>0, <1>1, <2>1, TipKeepsInv DEF NextBlock
<1>2. ASSUME NEW n \in Nodes, ReplaceTip(n)
      PROVE  PaymentsInv'
  <2>1. tip[n] \in 1..MaxTip /\ events' \in 0..MaxEvents
    BY <1>0, <1>2 DEF ReplaceTip
  <2> QED  BY <1>2, <2>1, TipKeepsInv DEF ReplaceTip
<1>3. CASE UNCHANGED vars
  <2>1. UNCHANGED <<tip, list, seen, verified, blocks, last, file, cast, forged,
                    restarted, events>>
    BY <1>3 DEF vars
  <2>2. TypeOK'
    BY <1>0, <2>1 DEF TypeOK
  <2>3. /\ VotesCountOnce' /\ CountedAreSigned' /\ FilesAreBooked'
        /\ VotersAreRemembered' /\ SecondVoteNeedsAnother'
    BY <2>1 DEF PaymentsInv, VotesCountOnce, CountedAreSigned, FilesAreBooked,
                VotersAreRemembered, SecondVoteNeedsAnother
  <2> QED  BY <2>2, <2>3 DEF PaymentsInv
<1> QED
  BY <1>1, <1>2, <1>3, ReceiveKeepsInv, CheckAndRemoveKeepsInv, ListChangesKeepsInv,
     StartKeepsInv DEF Next

THEOREM PaymentsInvariance == Spec => []PaymentsInv
BY InitPaymentsInv, NextPaymentsInv, PTL DEF Spec

\* What a node knows about votes stays in order (AddPaymentVote, AddPayee,
\* CheckAndRemove and the start from mnpayments.dat change three maps): every
\* verified vote is counted once and was signed by its masternode, whoever sent it
\* first, and a second vote of a masternode for a height is counted only by a node
\* that was restarted, or when a vote for another height was sent in its name.
THEOREM BookedVotes == Spec => []VotesAreBooked
<1>1. PaymentsInv => VotesAreBooked
  BY DEF PaymentsInv, VotesAreBooked
<1> QED  BY <1>1, PaymentsInvariance, PTL

-----------------------------------------------------------------------------
\* Where in a sequence of votes those for a payee are
Places(s, p) == {i \in DOMAIN s : s[i].payee = p}

LEMMA PlacesAreFinite ==
  ASSUME NEW s \in Seq(Votes), NEW p
  PROVE  /\ IsFiniteSet(Places(s, p))
         /\ Cardinality(Places(s, p)) \in Nat
         /\ Places(s, p) \in SUBSET (1..Len(s))
         /\ DOMAIN s = 1..Len(s)
         /\ Len(s) \in Nat
<1>1. DOMAIN s = 1..Len(s) /\ Len(s) \in Nat
  BY LenProperties
<1>2. Places(s, p) \in SUBSET (1..Len(s))
  BY <1>1 DEF Places
<1>3. IsFiniteSet(1..Len(s))
  BY <1>1, FS_Interval
<1>4. IsFiniteSet(Places(s, p))
  BY <1>2, <1>3, FS_Subset
<1>5. Cardinality(Places(s, p)) \in Nat
  BY <1>4, FS_CardinalityType
<1> QED  BY <1>1, <1>2, <1>4, <1>5

LEMMA CountsAreNumbers ==
  ASSUME TypeOK, NEW n \in Nodes, NEW h \in Heights, NEW p
  PROVE  /\ VoteCount(n, h, p) = Cardinality(Places(blocks[n][h], p))
         /\ IsFiniteSet(Places(blocks[n][h], p))
         /\ VoteCount(n, h, p) \in Nat
         /\ Places(blocks[n][h], p) \subseteq DOMAIN blocks[n][h]
         /\ DOMAIN blocks[n][h] = 1..Len(blocks[n][h])
         /\ Len(blocks[n][h]) \in Nat
<1>1. blocks[n][h] \in Seq(Votes)
  BY VotesHaveTypes
<1>2. VoteCount(n, h, p) = Cardinality(Places(blocks[n][h], p))
  BY DEF VoteCount, Places
<1> QED  BY <1>1, <1>2, PlacesAreFinite

\* A payee has no more votes at a node than masternodes have signed for it: each
\* vote is counted once.
LEMMA VotesHaveVoters ==
  ASSUME PaymentsInv, NEW n \in Nodes, NEW h \in Heights, NEW p
  PROVE  /\ IsFiniteSet(Voters(h, p))
         /\ VoteCount(n, h, p) <= Cardinality(Voters(h, p))
<1> DEFINE s == blocks[n][h]
           I == Places(s, p)
           f == [i \in I |-> s[i].mn]
<1>0. TypeOK /\ VotesCountOnce /\ CountedAreSigned
  BY DEF PaymentsInv
<1>1. IsInjective(s)
  BY <1>0 DEF VotesCountOnce
<1>2. \A i \in I : /\ s[i] \in cast /\ s[i] \in Votes
                   /\ s[i].height = h /\ s[i].payee = p /\ s[i].mn \in Masternodes
  <2>1. ASSUME NEW i \in I
        PROVE  s[i] \in ToSet(s) /\ s[i].payee = p
    BY <2>1 DEF Places, ToSet
  <2> QED  BY <1>0, <2>1, CountedVotesAreCast
<1>3. Voters(h, p) \in SUBSET Masternodes
  BY <1>0 DEF Voters, TypeOK, Votes
<1>4. IsFiniteSet(Voters(h, p))
  BY <1>3, FS_Subset, PaymentsAssumption
<1>5. f \in [I -> Voters(h, p)]
  BY <1>2 DEF Voters
<1>6. \A i, j \in I : f[i] = f[j] => i = j
  <2>1. SUFFICES ASSUME NEW i \in I, NEW j \in I, s[i].mn = s[j].mn
                 PROVE  i = j
    OBVIOUS
  <2>2. /\ s[i] \in Votes /\ s[i].height = h /\ s[i].payee = p
        /\ s[j] \in Votes /\ s[j].height = h /\ s[j].payee = p
    BY <1>2
  <2>3. s[i] = s[j]
    BY <2>1, <2>2 DEF Votes
  <2>4. i \in DOMAIN s /\ j \in DOMAIN s
    BY DEF Places
  <2> QED  BY <1>1, <2>3, <2>4 DEF IsInjective
<1>7. Cardinality(I) <= Cardinality(Voters(h, p))
  <2> HIDE DEF f, I
  <2>1. f \in Injection(I, Voters(h, p))
    BY <1>5, <1>6, Zenon DEF Injection, IsInjective
  <2> QED  BY <1>4, <2>1, FS_Injection
<1> QED  BY <1>0, <1>4, <1>7, CountsAreNumbers

\* Two quorums of a height have voters in common, or there are too many voters.
LEMMA QuorumsShareVoters ==
  ASSUME PaymentsInv
  PROVE  EnforcedPayeesAgree
<1>1. SUFFICES ASSUME NEW a \in Nodes, NEW b \in Nodes, NEW h \in Heights,
                      NEW p \in Enforced(a, h), NEW q \in Enforced(b, h),
                      ~ (Cardinality(Voters(h, p) \cup Voters(h, q)) > Total)
               PROVE  Cardinality(Voters(h, p) \cap Voters(h, q)) >= 2 * Required - Total
  BY DEF EnforcedPayeesAgree
<1> DEFINE P == Voters(h, p)
           Q == Voters(h, q)
<1>2. VoteCount(a, h, p) >= Required /\ VoteCount(b, h, q) >= Required
  BY DEF Enforced
<1>3. VoteCount(a, h, p) \in Nat /\ VoteCount(b, h, q) \in Nat
  BY CountsAreNumbers DEF PaymentsInv
<1>4. /\ IsFiniteSet(P) /\ IsFiniteSet(Q)
      /\ VoteCount(a, h, p) <= Cardinality(P) /\ VoteCount(b, h, q) <= Cardinality(Q)
  BY VotesHaveVoters
<1>5. ~ (Cardinality(P \cup Q) > Total)
  BY <1>1
<1> HIDE DEF P, Q
<1>6. Cardinality(P \cup Q) = Cardinality(P) + Cardinality(Q) - Cardinality(P \cap Q)
  BY <1>4, FS_Union
<1>7. IsFiniteSet(P \cap Q) /\ IsFiniteSet(P \cup Q)
  BY <1>4, FS_Union, FS_Intersection
<1>8. /\ Cardinality(P) \in Nat /\ Cardinality(Q) \in Nat
      /\ Cardinality(P \cap Q) \in Nat /\ Cardinality(P \cup Q) \in Nat
  BY <1>4, <1>7, FS_CardinalityType
<1>9. Cardinality(P \cap Q) >= 2 * Required - Total
  BY <1>2, <1>3, <1>4, <1>5, <1>6, <1>8, PaymentsAssumption
<1> QED  BY <1>9 DEF P, Q

-----------------------------------------------------------------------------
\* A payee somebody voted for has a first vote, and no two have the same.
LEMMA FirstVoteExists ==
  ASSUME TypeOK, NEW n \in Nodes, NEW h \in Heights, NEW p \in VotedFor(n, h)
  PROVE  /\ FirstVote(n, h, p) \in DOMAIN blocks[n][h]
         /\ FirstVote(n, h, p) \in Nat
         /\ blocks[n][h][FirstVote(n, h, p)].payee = p
<1> DEFINE s == blocks[n][h]
           I == Places(s, p)
<1>1. /\ I \subseteq DOMAIN s /\ DOMAIN s = 1..Len(s) /\ Len(s) \in Nat
  BY CountsAreNumbers
<1>2. I # {} /\ I \in SUBSET Nat
  BY <1>1 DEF VotedFor, ToSet, Places
<1>3. PICK i \in I : \A j \in I : i <= j
  BY <1>2, LeastNumber
<1>4. i \in DOMAIN s /\ s[i].payee = p /\ i \in Nat
  BY <1>2 DEF Places
<1>5. \A j \in 1..(i - 1) : s[j].payee # p
  <2>1. SUFFICES ASSUME NEW j \in 1..(i - 1), s[j].payee = p
                 PROVE  FALSE
    OBVIOUS
  <2>2. j \in DOMAIN s /\ j < i /\ j \in Nat
    BY <1>1, <1>4
  <2>3. j \in I
    BY <2>1, <2>2 DEF Places
  <2> QED  BY <1>3, <1>4, <2>2, <2>3
<1>6. \E k \in DOMAIN s : s[k].payee = p /\ \A j \in 1..(k - 1) : s[j].payee # p
  BY <1>4, <1>5
<1>7. FirstVote(n, h, p) \in DOMAIN s /\ s[FirstVote(n, h, p)].payee = p
  BY <1>6 DEF FirstVote
<1> QED  BY <1>1, <1>7

\* GetBestPayee finds a payee when there is a vote, and none has more votes.
LEMMA BestPayeeExists ==
  ASSUME TypeOK, NEW n \in Nodes, NEW h \in Heights, blocks[n][h] # <<>>
  PROVE  /\ GetBestPayee(n, h) \in VotedFor(n, h)
         /\ \A q \in VotedFor(n, h) :
                VoteCount(n, h, q) <= VoteCount(n, h, GetBestPayee(n, h))
<1> DEFINE s == blocks[n][h]
           V == VotedFor(n, h)
           C(p) == VoteCount(n, h, p)
           F(p) == FirstVote(n, h, p)
           Beats(p, q) == C(p) > C(q) \/ (C(p) = C(q) /\ F(p) < F(q))
<1>1. /\ s \in Seq(Votes) /\ DOMAIN s = 1..Len(s) /\ Len(s) \in Nat
      /\ \A p : C(p) \in Nat
  BY CountsAreNumbers, VotesHaveTypes
<1>2. V # {}
  <2>1. 1 \in DOMAIN s
    BY <1>1, EmptySeq
  <2> QED  BY <2>1 DEF VotedFor, ToSet
<1>3. \A p : C(p) <= Len(s)
  <2>1. IsFiniteSet(1..Len(s)) /\ Cardinality(1..Len(s)) = Len(s)
    BY <1>1, FS_Interval
  <2>2. ASSUME NEW p
        PROVE  C(p) <= Len(s)
    <3>1. Places(s, p) \in SUBSET (1..Len(s)) /\ C(p) = Cardinality(Places(s, p))
      BY CountsAreNumbers
    <3>2. Cardinality(Places(s, p)) <= Cardinality(1..Len(s))
      BY <2>1, <3>1, FS_Subset
    <3> QED  BY <2>1, <3>1, <3>2
  <2> QED  BY <2>2
<1>4. \A p \in V : F(p) \in Nat /\ s[F(p)].payee = p
  BY FirstVoteExists
<1> HIDE DEF V, C, F, s
<1>5. PICK m \in V : \A q \in V : C(q) <= C(m)
  <2> DEFINE T == {Len(s) - C(p) : p \in V}
  <2>1. T \in SUBSET Nat /\ T # {}
    BY <1>1, <1>2, <1>3
  <2>2. PICK t \in T : \A u \in T : t <= u
    BY <2>1, LeastNumber
  <2>3. PICK m \in V : t = Len(s) - C(m)
    OBVIOUS
  <2>4. \A q \in V : Len(s) - C(m) <= Len(s) - C(q)
    BY <2>2, <2>3
  <2> QED  BY <1>1, <2>3, <2>4
<1>6. PICK b \in {p \in V : C(p) = C(m)} : \A q \in {p \in V : C(p) = C(m)} : F(b) <= F(q)
  <2> DEFINE M == {p \in V : C(p) = C(m)}
             T == {F(p) : p \in M}
  <2>1. T \in SUBSET Nat /\ T # {}
    BY <1>4
  <2>2. PICK t \in T : \A u \in T : t <= u
    BY <2>1, LeastNumber
  <2> QED  BY <2>2
<1>7. \A q \in V \ {b} : Beats(b, q)
  <2>1. SUFFICES ASSUME NEW q \in V, q # b, C(q) = C(m)
                 PROVE  F(b) < F(q)
    BY <1>1, <1>5, <1>6
  <2>2. F(b) <= F(q) /\ F(b) \in Nat /\ F(q) \in Nat
    BY <1>4, <1>6, <2>1
  <2>3. F(b) # F(q)
    BY <1>4, <2>1
  <2> QED  BY <2>2, <2>3
<1>8. GetBestPayee(n, h) = CHOOSE p \in V : \A q \in V \ {p} : Beats(p, q)
  BY DEF GetBestPayee, V, C, F
<1> DEFINE g == GetBestPayee(n, h)
<1>9. g \in V /\ \A q \in V \ {g} : Beats(g, q)
  <2>1. b \in V
    BY <1>6
  <2> HIDE DEF Beats
  <2> QED  BY <1>7, <1>8, <2>1
<1>10. \A q \in V : C(q) <= C(g)
  BY <1>1, <1>9
<1> QED  BY <1>9, <1>10 DEF V, C

\* A miner's own votes do not refuse the payee it finds by them.
LEMMA MinersAgreeWithThemselves ==
  ASSUME PaymentsInv
  PROVE  MinerFollowsVotes
<1>1. SUFFICES ASSUME NEW n \in Nodes, NEW h \in Heights, blocks[n][h] # <<>>,
                      NEW q \in Enforced(n, h)
               PROVE  GetBestPayee(n, h) \in Enforced(n, h)
  BY DEF MinerFollowsVotes, IsTransactionValid
<1>2. TypeOK
  BY DEF PaymentsInv
<1>3. q \in VotedFor(n, h) /\ VoteCount(n, h, q) >= Required
  BY DEF Enforced
<1>4. /\ GetBestPayee(n, h) \in VotedFor(n, h)
      /\ VoteCount(n, h, q) <= VoteCount(n, h, GetBestPayee(n, h))
  BY <1>1, <1>2, <1>3, BestPayeeExists
<1>5. /\ VoteCount(n, h, q) \in Nat
      /\ VoteCount(n, h, GetBestPayee(n, h)) \in Nat
  BY <1>2, CountsAreNumbers
<1>6. VoteCount(n, h, GetBestPayee(n, h)) >= Required
  BY <1>3, <1>4, <1>5, PaymentsAssumption
<1> QED  BY <1>4, <1>6 DEF Enforced

\* Two nodes refuse each other's payee of a height only when as many masternodes
\* voted for both as two quorums share, or more voted than are asked
\* (IsTransactionValid, AddPayee); and the payee that FillBlockPayee takes from
\* GetBestPayee is one the miner's own node accepts.
THEOREM PayeeAgreement == Spec => []PayeesAgree
<1>1. PaymentsInv => PayeesAgree
  BY QuorumsShareVoters, MinersAgreeWithThemselves DEF PayeesAgree
<1> QED  BY <1>1, PaymentsInvariance, PTL

-----------------------------------------------------------------------------
\* The votes counted for a height are kept, or one is added at their end.
KeptOrAdded(n, h) ==
    \/ blocks'[n][h] = blocks[n][h]
    \/ \E v \in Votes : blocks'[n][h] = Append(blocks[n][h], v)

\* That is all that happens to them as long as the height is stored.
LEMMA VotesAreKept ==
  ASSUME PaymentsInv, [Next]_vars, NEW n \in Nodes, NEW h \in Heights,
         tip[n] - h <= StorageLimit, ~LosesVotes(n)
  PROVE  KeptOrAdded(n, h)
<1>0. /\ TypeOK /\ VotesCountOnce /\ CountedAreSigned
      /\ blocks \in [Nodes -> [Heights -> Seq(Votes)]]
      /\ tip \in [Nodes -> 1..MaxTip]
  BY DEF PaymentsInv, TypeOK
<1>1. ASSUME NEW m \in Nodes, NEW v \in Votes, AddPaymentVote(m, v)
      PROVE  KeptOrAdded(n, h)
  <2>1. CASE v \in verified[m]
    BY <1>1, <2>1 DEF AddPaymentVote, voteVars, KeptOrAdded
  <2>2. CASE v \notin verified[m]
    <3>1. blocks' = [blocks EXCEPT ![m][v.height] = Append(@, v)]
      BY <1>1, <2>2 DEF AddPaymentVote
    <3>2. CASE m = n /\ v.height = h
      BY <1>0, <3>1, <3>2 DEF KeptOrAdded
    <3>3. CASE m # n \/ v.height # h
      BY <1>0, <3>1, <3>3 DEF Votes, KeptOrAdded
    <3> QED  BY <3>2, <3>3
  <2> QED  BY <2>1, <2>2 DEF KeptOrAdded
<1>2. ASSUME NEW m \in Nodes, NEW t \in 1..MaxTip, UpdatedBlockTip(m, t)
      PROVE  KeptOrAdded(n, h)
  <2>1. CASE UNCHANGED <<voteVars, cast>>
    BY <2>1 DEF voteVars, KeptOrAdded
  <2>2. CASE \E p \in NextInQueue(m, t, VoteHeight(t)) :
                 /\ m \in Masternodes
                 /\ AddPaymentVote(m, [mn |-> m, height |-> VoteHeight(t), payee |-> p])
    <3>1. PICK p \in NextInQueue(m, t, VoteHeight(t)) :
                 /\ m \in Masternodes
                 /\ AddPaymentVote(m, [mn |-> m, height |-> VoteHeight(t), payee |-> p])
      BY <2>2
    <3>2. VoteHeight(t) \in Heights
      BY PaymentsAssumption DEF VoteHeight, Heights
    <3>3. [mn |-> m, height |-> VoteHeight(t), payee |-> p] \in Votes
      BY <3>1, <3>2 DEF Votes, NextInQueue
    <3> QED  BY <1>1, <3>1, <3>3
  <2> QED  BY <1>2, <2>1, <2>2 DEF UpdatedBlockTip
<1>3. ASSUME NEW m \in Nodes, NextBlock(m) \/ ReplaceTip(m)
      PROVE  KeptOrAdded(n, h)
  <2>1. tip[m] \in 1..MaxTip /\ (tip[m] < MaxTip => tip[m] + 1 \in 1..MaxTip)
    BY <1>0, PaymentsAssumption
  <2> QED  BY <1>2, <1>3, <2>1 DEF NextBlock, ReplaceTip
<1>4. ASSUME NEW m \in Nodes, NEW v \in Votes, ReceiveVote(m, v) \/ ReceiveForged(m, v)
      PROVE  KeptOrAdded(n, h)
  <2>1. AddPaymentVote(m, v) \/ UNCHANGED blocks
    BY <1>4 DEF ReceiveVote, ReceiveForged, NotCounted
  <2> QED  BY <1>1, <2>1 DEF KeptOrAdded
<1>5. ASSUME NEW m \in Nodes, CheckAndRemove(m)
      PROVE  KeptOrAdded(n, h)
  <2>1. \/ blocks'[n][h] = blocks[n][h]
        \/ n = m /\ tip[m] - h > StorageLimit
    BY <1>0, <1>5, RemovedHeights
  <2>2. tip[n] - h \in Int /\ StorageLimit \in Int
    BY <1>0, PaymentsAssumption DEF Heights
  <2> QED  BY <2>1, <2>2 DEF KeptOrAdded
<1>6. ASSUME NEW m \in Nodes, NEW k \in Masternodes, ListChanges(m, k)
      PROVE  KeptOrAdded(n, h)
  BY <1>6 DEF ListChanges, voteVars, KeptOrAdded
<1>7. ASSUME NEW m \in Nodes, Restart(m) \/ Crash(m)
      PROVE  KeptOrAdded(n, h)
  <2>1. CASE m # n
    BY <1>0, <1>7, <2>1 DEF Restart, Crash, StartFrom, KeptOrAdded
  <2>2. CASE m = n
    <3>1. Restart(n) /\ Listed(n) # {}
      BY <1>7, <2>2 DEF LosesVotes
    <3>2. blocks' = [blocks EXCEPT ![n] = blocks[n]]
      BY <3>1 DEF Restart, StartFrom, Dumped
    <3> QED  BY <1>0, <3>2 DEF KeptOrAdded
  <2> QED  BY <2>1, <2>2
<1>8. CASE UNCHANGED vars
  BY <1>8 DEF vars, KeptOrAdded
<1>9. CASE Next
  <2>1. PICK m \in Nodes : \/ NextBlock(m)
                           \/ ReplaceTip(m)
                           \/ \E v \in Votes : ReceiveVote(m, v) \/ ReceiveForged(m, v)
                           \/ CheckAndRemove(m)
                           \/ \E k \in Masternodes : ListChanges(m, k)
                           \/ Restart(m)
                           \/ Crash(m)
    BY <1>9 DEF Next
  <2> QED  BY <1>3, <1>4, <1>5, <1>6, <1>7, <2>1
<1> QED  BY <1>8, <1>9

\* Further votes take nothing from what a payee has.
LEMMA EnforcedIsKept ==
  ASSUME PaymentsInv, PaymentsInv', [Next]_vars
  PROVE  \A n \in Nodes, h \in Heights :
             tip[n] - h <= StorageLimit =>
                 Enforced(n, h) \subseteq Enforced(n, h)' \/ LosesVotes(n)
<1>1. SUFFICES ASSUME NEW n \in Nodes, NEW h \in Heights, tip[n] - h <= StorageLimit,
                      ~LosesVotes(n), NEW p \in Enforced(n, h)
               PROVE  p \in Enforced(n, h)'
  OBVIOUS
<1> DEFINE s == blocks[n][h]
           t == blocks'[n][h]
<1>2. TypeOK /\ TypeOK'
  BY DEF PaymentsInv
<1>3. p \in VotedFor(n, h) /\ VoteCount(n, h, p) >= Required
  BY DEF Enforced
<1>4. t = s \/ \E v \in Votes : t = Append(s, v)
  BY <1>1, VotesAreKept DEF KeptOrAdded
<1>5. s \in Seq(Votes)
  BY <1>2, VotesHaveTypes
<1>6. /\ VoteCount(n, h, p) = Cardinality(Places(s, p)) /\ VoteCount(n, h, p) \in Nat
      /\ DOMAIN s = 1..Len(s) /\ Len(s) \in Nat
  BY <1>2, CountsAreNumbers
<1>7. /\ VoteCount(n, h, p)' = Cardinality(Places(t, p)) /\ VoteCount(n, h, p)' \in Nat
      /\ IsFiniteSet(Places(t, p))
  <2>1. t \in Seq(Votes)
    BY <1>2 DEF TypeOK
  <2>2. VoteCount(n, h, p)' = Cardinality(Places(t, p))
    BY DEF VoteCount, Places
  <2> QED  BY <2>1, <2>2, PlacesAreFinite
<1>8. Places(s, p) \in SUBSET Places(t, p)
  <2>1. ASSUME NEW v \in Votes, t = Append(s, v)
        PROVE  Places(s, p) \in SUBSET Places(t, p)
    <3>1. /\ DOMAIN t = 1..(Len(s) + 1)
          /\ \A i \in 1..Len(s) : t[i] = s[i]
      BY <1>5, <2>1, AppendProperties, LenProperties
    <3>2. ASSUME NEW i \in Places(s, p)
          PROVE  i \in Places(t, p)
      <4>1. i \in 1..Len(s) /\ s[i].payee = p
        BY <1>6 DEF Places
      <4>2. i \in DOMAIN t /\ t[i] = s[i]
        BY <1>6, <3>1, <4>1
      <4> QED  BY <4>1, <4>2 DEF Places
    <3> QED  BY <3>2
  <2> QED  BY <1>4, <2>1
<1>9. VoteCount(n, h, p)' >= Required
  <2>1. Cardinality(Places(s, p)) <= Cardinality(Places(t, p))
    BY <1>7, <1>8, FS_Subset
  <2> QED  BY <1>3, <1>6, <1>7, <2>1, PaymentsAssumption
<1>10. p \in VotedFor(n, h)'
  <2>1. PICK i \in DOMAIN s : s[i].payee = p
    BY <1>3 DEF VotedFor, ToSet
  <2>2. i \in Places(t, p)
    BY <1>8, <2>1 DEF Places
  <2> QED  BY <2>2 DEF Places, VotedFor, ToSet
<1> QED  BY <1>9, <1>10 DEF Enforced

\* A payee that a node enforces for a height (IsTransactionValid) is enforced as
\* long as the height is stored: no vote, block, orderly restart or change of the
\* masternode list takes that from it, only a crash or a start that finds no
\* masternode in mncache.dat (AppInit2).
THEOREM EnforcementIsStable == Spec => EnforcedStays
<1>1. PaymentsInv /\ PaymentsInv' /\ [Next]_vars =>
          [\A n \in Nodes, h \in Heights :
               tip[n] - h <= StorageLimit =>
                   Enforced(n, h) \subseteq Enforced(n, h)' \/ LosesVotes(n)]_vars
  BY EnforcedIsKept
<1> QED  BY <1>1, PaymentsInvariance, PTL DEF Spec, EnforcedStays

=============================================================================
