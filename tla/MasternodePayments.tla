------------------------ MODULE MasternodePayments ------------------------
(***************************************************************************)
(* Masternode payments (masternode-payments.cpp): for every height, the    *)
(* best ranked masternodes vote for who the coinbase must pay, and a block *)
(* is refused by a node that has enough votes for another payee.           *)
(*                                                                         *)
(* Every node, masternode or not, has its own chain tip, its own idea of   *)
(* the masternode list and its own votes.  Of masternodes that are not     *)
(* among the nodes only the votes are seen, which may be any.              *)
(*                                                                         *)
(* A vote may reach a node at any moment, any number of times or never: an *)
(* inventory and its GETDATA, the votes of a height asked for as           *)
(* MSG_MASTERNODE_PAYMENT_BLOCK and MASTERNODEPAYMENTSYNC all end in the   *)
(* same handler.  Any peer may send a vote that names a masternode without *)
(* its signature; it has the hash of the genuine one, which does not cover *)
(* the signature.  Nodes are past masternode list synchronisation, and     *)
(* every height is before or between superblocks.                          *)
(***************************************************************************)
EXTENDS Integers, FiniteSets, Sequences, SequencesExt

CONSTANTS
    Nodes,
    Masternodes,    \* some of the nodes (fMasterNode), and others
    Payees,         \* masternodes whose turn may have come: their payee script
    Better(_, _, _),\* Better(h, m, k): m has a higher score than k at height h
    Required,       \* MNPAYMENTS_SIGNATURES_REQUIRED
    Total,          \* MNPAYMENTS_SIGNATURES_TOTAL
    VoteAhead,      \* a tip makes a masternode vote for this much later (10)
    ScheduleAhead,  \* a payee of a height up to this much later waits (8)
    MaxAhead,       \* votes for a later height are not looked at (20)
    StorageLimit,   \* GetStorageLimit()
    None,           \* no height
    OtherVotes,     \* bound: what masternodes that are not among the nodes may sign,
    MaxOthers,      \* bound: and how many of these votes they do
    MaxTip,         \* bound: height of a tip
    Forgeable,      \* bound: votes that are ever sent with a wrong signature
    MaxEvents       \* bound: replaced tips, changed lists, restarts, crashes and votes
                    \* first sent with a wrong signature, all together

ASSUME PaymentsAssumption ==
    /\ IsFiniteSet(Nodes) /\ IsFiniteSet(Masternodes) /\ Payees \subseteq Masternodes
    /\ {Required, Total, VoteAhead, ScheduleAhead, MaxAhead, StorageLimit} \subseteq Nat
    /\ Required \in 1..Total /\ 2 * Required > Total
    /\ VoteAhead \in 1..MaxAhead
    /\ {MaxOthers, MaxEvents} \subseteq Nat /\ MaxTip \in Nat \ {0}
    /\ None \notin Nat

Heights == 1..(MaxTip + VoteAhead)
Votes == [mn: Masternodes, height: Heights, payee: Payees]

VARIABLES
    tip,        \* pCurrentBlockIndex
    list,       \* mnodeman: who is listed, and who is valid for payment
    seen,       \* mapMasternodePaymentVotes
    verified,   \* those with a signature (IsVerified)
    blocks,     \* mapMasternodeBlocks: votes counted, in their order
    last,       \* mapMasternodesLastVote
    file,       \* the three maps as a start from mncache.dat and mnpayments.dat has them
    cast,       \* every vote ever signed
    forged,     \* every vote ever sent with a wrong signature
    restarted,  \* nodes that were restarted
    events      \* such events so far

vars == <<tip, list, seen, verified, blocks, last, file, cast, forged, restarted, events>>
voteVars == <<seen, verified, blocks>>

(***************************************************************************)
(* What votes say.                                                         *)
(***************************************************************************)
VoteCount(n, h, p) == Cardinality({i \in DOMAIN blocks[n][h] : blocks[n][h][i].payee = p})
VotedFor(n, h) == {v.payee : v \in ToSet(blocks[n][h])}

\* A payee's place in vecPayees is that of its first vote.
FirstVote(n, h, p) == CHOOSE i \in DOMAIN blocks[n][h] :
    /\ blocks[n][h][i].payee = p
    /\ \A j \in 1..(i - 1) : blocks[n][h][j].payee # p

\* The first of those with the most votes; needs a vote.
GetBestPayee(n, h) ==
    CHOOSE p \in VotedFor(n, h) : \A q \in VotedFor(n, h) \ {p} :
        \/ VoteCount(n, h, p) > VoteCount(n, h, q)
        \/ VoteCount(n, h, p) = VoteCount(n, h, q) /\ FirstVote(n, h, p) < FirstVote(n, h, q)

\* Mutant: one signature less.
EnforcedByAlmost(n, h) == {p \in VotedFor(n, h) : VoteCount(n, h, p) + 1 >= Required}

\* Payees with enough signatures
Enforced(n, h) == {p \in VotedFor(n, h) : VoteCount(n, h, p) >= Required}

IsTransactionValid(n, h, p) == Enforced(n, h) = {} \/ p \in Enforced(n, h)

(***************************************************************************)
(* CMasternodeMan, as far as votes need it.                                *)
(***************************************************************************)
Listed(n) == {m \in Masternodes : list[n][m] # "none"}
Payable(n) == {m \in Masternodes : list[n][m] = "payable"}

\* GetMasternodeRank: -1 for a masternode that is not valid for payment
Rank(n, m, h) == IF m \in Payable(n)
                 THEN 1 + Cardinality({k \in Payable(n) : Better(h, k, m)})
                 ELSE -1

\* IsScheduled, with the tip at t
IsScheduled(n, p, t, h) == \E k \in (t..(t + ScheduleAhead)) \cap Heights :
    k # h /\ blocks[n][k] # <<>> /\ GetBestPayee(n, k) = p

\* GetNextMasternodeInQueueForPayment: which of them waited longest is left open.
NextInQueue(n, t, h) == {p \in Payees \cap Payable(n) : ~IsScheduled(n, p, t, h)}

(***************************************************************************)
(* Voting.                                                                 *)
(***************************************************************************)
\* Marks the vote verified and counts it (AddPayee), unless it was.
AddPaymentVote(n, v) ==
    IF v \in verified[n] THEN UNCHANGED voteVars
    ELSE /\ seen' = [seen EXCEPT ![n] = @ \cup {v}]
         /\ verified' = [verified EXCEPT ![n] = @ \cup {v}]
         /\ blocks' = [blocks EXCEPT ![n][v.height] = Append(@, v)]

VoteHeight(t) == t + VoteAhead

\* UpdatedBlockTip of a tip at height t, and ProcessBlock of what it asks for.  A
\* masternode does not ask CanVote about its own votes.
UpdatedBlockTip(n, t) ==
    /\ tip' = [tip EXCEPT ![n] = t]
    /\ LET h == VoteHeight(t)
       IN  IF n \in Masternodes /\ Rank(n, n, h) \in 1..Total /\ NextInQueue(n, t, h) # {}
           THEN \E p \in NextInQueue(n, t, h) :
                    LET v == [mn |-> n, height |-> h, payee |-> p]
                    IN  AddPaymentVote(n, v) /\ cast' = cast \cup {v}
           ELSE UNCHANGED <<voteVars, cast>>
    /\ UNCHANGED <<list, last, file, forged, restarted>>

\* A block is connected on top of the tip.
NextBlock(n) ==
    /\ tip[n] < MaxTip
    /\ UpdatedBlockTip(n, tip[n] + 1)
    /\ UNCHANGED events

\* The tip is disconnected (ResolveConflicts) and another block takes its place.
ReplaceTip(n) ==
    /\ events < MaxEvents
    /\ events' = events + 1
    /\ UpdatedBlockTip(n, tip[n])

(***************************************************************************)
(* Receiving votes: MASTERNODEPAYMENTVOTE.                                 *)
(***************************************************************************)
InRange(n, v) == tip[n] - StorageLimit <= v.height /\ v.height <= tip[n] + MaxAhead

\* CMasternodePaymentVote::IsValid.  The rank of a masternode not valid for
\* payment, -1, is not more than Total.
IsValid(n, v) ==
    /\ v.mn \in Listed(n)
    /\ (n \in Masternodes \/ v.height >= tip[n]) => Rank(n, v.mn, v.height) <= Total

\* Mutant: nobody is ever told that they voted already.
CanAlwaysVote(n, v) == v.mn \in Masternodes

CanVote(n, v) == last[n][v.mn] # v.height

\* A masternode that is not among the nodes has signed what a node receives first.
IsSigned(v) ==
    \/ v \in cast
    \/ /\ v \in OtherVotes /\ v.mn \notin Nodes
       /\ Cardinality({u \in cast : u.mn \notin Nodes}) < MaxOthers

\* Anyone may send it, and again.
IsForged(v) ==
    /\ v \in Forgeable
    /\ v \in forged \/ events < MaxEvents
    /\ forged' = forged \cup {v}
    /\ events' = IF v \in forged THEN events ELSE events + 1

Counts(n, v) == InRange(n, v) /\ IsValid(n, v) /\ CanVote(n, v)

\* The handler as far as CheckSignature: the vote is known from now on whatever is
\* found out about it, and its masternode is remembered to have voted.
Receives(n, v) ==
    /\ v \notin seen[n]
    /\ last' = IF InRange(n, v) /\ IsValid(n, v) THEN [last EXCEPT ![n][v.mn] = v.height] ELSE last
    /\ UNCHANGED <<tip, list, file, restarted>>

NotCounted(n, v) ==
    /\ seen' = [seen EXCEPT ![n] = @ \cup {v}]
    /\ UNCHANGED <<verified, blocks>>

\* A vote with its masternode's signature.
ReceiveVote(n, v) ==
    /\ IsSigned(v)
    /\ Receives(n, v)
    /\ cast' = cast \cup {v}
    /\ IF Counts(n, v) THEN AddPaymentVote(n, v) ELSE NotCounted(n, v)
    /\ UNCHANGED <<forged, events>>

\* A vote with another signature, or with one that does not match the key the node
\* has of the masternode.
ReceiveForged(n, v) ==
    /\ IsForged(v)
    /\ Receives(n, v)
    /\ NotCounted(n, v)
    /\ UNCHANGED cast

(***************************************************************************)
(* The rest of a node's life.                                              *)
(***************************************************************************)
\* Mutant: a height's votes are dropped with the block of that height.
CheckAndRemoveEarly(n) ==
    LET old == {v \in seen[n] : tip[n] >= v.height}
    IN  /\ old # {}
        /\ seen' = [seen EXCEPT ![n] = @ \ old]
        /\ verified' = [verified EXCEPT ![n] = @ \ old]
        /\ blocks' = [blocks EXCEPT ![n] = [h \in Heights |->
               IF \E v \in old : v.height = h THEN <<>> ELSE @[h]]]
        /\ UNCHANGED <<tip, list, last, file, cast, forged, restarted, events>>

\* Every minute.  A vote that is too old takes its height's payees with it.
CheckAndRemove(n) ==
    LET old == {v \in seen[n] : tip[n] - v.height > StorageLimit}
    IN  /\ old # {}
        /\ seen' = [seen EXCEPT ![n] = @ \ old]
        /\ verified' = [verified EXCEPT ![n] = @ \ old]
        /\ blocks' = [blocks EXCEPT ![n] = [h \in Heights |->
               IF \E v \in old : v.height = h THEN <<>> ELSE @[h]]]
        /\ UNCHANGED <<tip, list, last, file, cast, forged, restarted, events>>

\* The node learns of a masternode, loses it, or finds that it may not be paid.
ListChanges(n, m) ==
    /\ events < MaxEvents
    /\ events' = events + 1
    /\ \E s \in {"none", "listed", "payable"} \ {list[n][m]} : list' = [list EXCEPT ![n][m] = s]
    /\ UNCHANGED <<tip, voteVars, last, file, cast, forged, restarted>>

NoVotes == [seen |-> {}, verified |-> {}, blocks |-> [h \in Heights |-> <<>>]]

\* What the files of a shutdown give the next start: mnpayments.dat is read only
\* when mncache.dat has a masternode.
Dumped(n) == IF Listed(n) = {} THEN NoVotes
             ELSE [seen |-> seen[n], verified |-> verified[n], blocks |-> blocks[n]]

\* Who voted for what last is in no file.  The node is still to synchronise, so its
\* first tip makes it vote for nothing.
StartFrom(n, votes) ==
    /\ events < MaxEvents
    /\ events' = events + 1
    /\ seen' = [seen EXCEPT ![n] = votes.seen]
    /\ verified' = [verified EXCEPT ![n] = votes.verified]
    /\ blocks' = [blocks EXCEPT ![n] = votes.blocks]
    /\ last' = [last EXCEPT ![n] = [m \in Masternodes |-> None]]
    /\ restarted' = restarted \cup {n}
    /\ UNCHANGED <<list, cast, forged>>

\* An orderly shutdown, PrepareShutdown, writes the files.
Restart(n) ==
    /\ file' = [file EXCEPT ![n] = Dumped(n)]
    /\ StartFrom(n, Dumped(n))
    /\ UNCHANGED tip

\* A crash leaves those of the last one, and maybe an older tip.
Crash(n) ==
    /\ StartFrom(n, file[n])
    /\ \E t \in 1..tip[n] : tip' = [tip EXCEPT ![n] = t]
    /\ UNCHANGED file

Init ==
    /\ tip = [n \in Nodes |-> 1]
    /\ list = [n \in Nodes |-> [m \in Masternodes |-> "payable"]]
    /\ seen = [n \in Nodes |-> {}]
    /\ verified = [n \in Nodes |-> {}]
    /\ blocks = [n \in Nodes |-> [h \in Heights |-> <<>>]]
    /\ last = [n \in Nodes |-> [m \in Masternodes |-> None]]
    /\ file = [n \in Nodes |-> NoVotes]
    /\ cast = {}
    /\ forged = {}
    /\ restarted = {}
    /\ events = 0

Next == \E n \in Nodes :
    \/ NextBlock(n)
    \/ ReplaceTip(n)
    \/ \E v \in Votes : ReceiveVote(n, v) \/ ReceiveForged(n, v)
    \/ CheckAndRemove(n)
    \/ \E m \in Masternodes : ListChanges(n, m)
    \/ Restart(n)
    \/ Crash(n)

Spec == Init /\ [][Next]_vars

-----------------------------------------------------------------------------
\* Every map holds what its type says, and a masternode's last vote is for a
\* height in range.
TypeOK ==
    /\ tip \in [Nodes -> 1..MaxTip]
    /\ list \in [Nodes -> [Masternodes -> {"none", "listed", "payable"}]]
    /\ cast \subseteq Votes /\ forged \subseteq Votes
    /\ file \in [Nodes -> [seen : SUBSET Votes, verified : SUBSET Votes,
                           blocks : [Heights -> Seq(Votes)]]]
    /\ verified \in [Nodes -> SUBSET Votes] /\ seen \in [Nodes -> SUBSET Votes]
    /\ blocks \in [Nodes -> [Heights -> Seq(Votes)]]
    /\ last \in [Nodes -> [Masternodes -> Heights \cup {None}]]
    /\ restarted \subseteq Nodes
    /\ events \in 0..MaxEvents

\* mapMasternodeBlocks counts every verified vote of its height once and no other
\* vote (AddPaymentVote, AddPayee, CheckAndRemove): the two maps are changed in
\* different functions and removed from by different keys, and read from a file.
VotesCountOnce == \A n \in Nodes, h \in Heights :
    /\ IsInjective(blocks[n][h])
    /\ ToSet(blocks[n][h]) = {v \in verified[n] : v.height = h}

\* A vote that anyone may have sent first, under the hash of the genuine one, is
\* counted only with its masternode's signature.
CountedAreSigned == \A n \in Nodes : verified[n] \subseteq seen[n] \cap cast

Voters(h, p) == {v.mn : v \in {u \in cast : u.height = h /\ u.payee = p}}

\* Two nodes refuse each other's payee at a height (IsTransactionValid) only when
\* enough masternodes voted twice for that height, or when more of them took
\* themselves for one of the best ranked than there are places.
EnforcedPayeesAgree == \A a, b \in Nodes, h \in Heights :
    \A p \in Enforced(a, h), q \in Enforced(b, h) :
        \/ p = q
        \/ Cardinality(Voters(h, p) \cap Voters(h, q)) >= 2 * Required - Total
        \/ Cardinality(Voters(h, p) \cup Voters(h, q)) > Total

\* CanVote: a node that was not restarted counts two votes of another masternode
\* for the same height only when a vote for another height was sent in that one's
\* name.  It need not have signed that: CanVote comes before CheckSignature.
SecondVoteNeedsAnother == \A n \in Nodes, h \in Heights :
    n \notin restarted =>
        \A v, w \in ToSet(blocks[n][h]) :
            v # w /\ v.mn = w.mn /\ v.mn # n =>
                \E u \in cast \cup forged : u.mn = v.mn /\ u.height # h

\* A block that pays whom FillBlockPayee finds is valid for its miner's own
\* IsTransactionValid.
MinerFollowsVotes == \A n \in Nodes, h \in Heights :
    blocks[n][h] # <<>> => IsTransactionValid(n, h, GetBestPayee(n, h))

\* A start that does not have the votes of the run before it.
LosesVotes(n) == Crash(n) \/ (Restart(n) /\ Listed(n) = {})

\* A payee that a node enforces at a height stays enforced, over changes of the
\* masternode list, blocks, further votes and orderly restarts, as long as the
\* height is stored.  So a block found valid for its enforced payee is not refused
\* later, and one refused is found valid later only if its payee gets enough votes
\* as well.  A crash, or a start without masternodes, may lose the votes.
EnforcedStays == [][\A n \in Nodes, h \in Heights :
    tip[n] - h <= StorageLimit => Enforced(n, h) \subseteq Enforced(n, h)' \/ LosesVotes(n)]_vars

\* The books of a node's votes are in order, whoever sent a vote how often and
\* before whichever block.
VotesAreBooked == TypeOK /\ VotesCountOnce /\ CountedAreSigned /\ SecondVoteNeedsAnother

\* Nodes do not split over the payee of a block: neither by each other's votes nor
\* by their own.
PayeesAgree == EnforcedPayeesAgree /\ MinerFollowsVotes

=============================================================================
