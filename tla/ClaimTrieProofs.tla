--------------------------- MODULE ClaimTrieProofs ---------------------------
(***************************************************************************)
(* While no block is disconnected, the height queues and the name queues   *)
(* of ClaimTrie agree and no entry is stranded in them, for any names,     *)
(* outputs, amounts, delay parameters and number of blocks; and, while no  *)
(* claim of a supported name goes, every output is in one place.           *)
(***************************************************************************)
EXTENDS ClaimTrie, FiniteSetTheorems, TLAPS

\* One entry per output, no takeover in the future and no entry waiting for
\* a past height: what keeps the queues in agreement when one entry is
\* removed, and delays natural numbers.
OneEntryEach(s) == \A e, f \in s.queue : e.claim.out = f.claim.out => e = f
TakeoversPast(s) == \A n \in Names : s.takeover[n] <= s.height
DelayBounded(s) == \A e \in s.queue : s.height <= e.row /\ e.row <= s.height + nMaxDelay

GoodTrie(s) ==
    s \in TrieStates /\ AgreeIn(s) /\ OneEntryEach(s) /\ TakeoversPast(s) /\ DelayBounded(s)

\* t differs from s in what is active, which nodes were copied or checked and
\* what expires, not in the queues or the heights.
SameQueues(s, t) ==
    /\ t \in TrieStates
    /\ t.queue = s.queue /\ t.nameQueue = s.nameQueue
    /\ t.takeover = s.takeover /\ t.height = s.height

\* Whatever leaves queues, name queues, takeovers and height alone keeps a trie good.
LEMMA SameQueuesGood ==
  ASSUME NEW s, NEW t, GoodTrie(s), SameQueues(s, t)
  PROVE  GoodTrie(t)
  BY DEF GoodTrie, SameQueues, AgreeIn, OneEntryEach, TakeoversPast, DelayBounded

\* Collecting the names whose node changed touches no queue.
LEMMA NoteChangesSame ==
  ASSUME NEW s, NEW t \in TrieStates
  PROVE  SameQueues(t, NoteChanges(s, t))
<1>1. Changed(s, t) \in SUBSET Names
  BY DEF Changed
<1> QED BY <1>1 DEF NoteChanges, SameQueues, TrieStates

\* insertClaimIntoTrie touches no queue.
LEMMA InsertClaimsSame ==
  ASSUME NEW s \in TrieStates, NEW cs \in SUBSET ClaimValues
  PROVE  SameQueues(s, InsertClaims(s, cs))
  BY DEF InsertClaims, SameQueues, TrieStates

\* removeClaimFromTrie touches no queue.
LEMMA DropClaimsSame ==
  ASSUME NEW s \in TrieStates, NEW cs
  PROVE  SameQueues(s, DropClaims(s, cs))
  BY DEF DropClaims, SameQueues, TrieStates

\* reorderTrieNode touches no queue.
LEMMA ReorderSame ==
  ASSUME NEW s \in TrieStates, NEW ns, base \in TrieStates
  PROVE  SameQueues(s, Reorder(s, ns))
  BY DEF Reorder, SameQueues, TrieStates

\* insertSupportIntoMap touches no queue.
LEMMA InsertSupportsSame ==
  ASSUME NEW s \in TrieStates, NEW cs \in SUBSET ClaimValues, base \in TrieStates
  PROVE  SameQueues(s, InsertSupports(s, cs))
<1> DEFINE t == [s EXCEPT !.active = @ \cup cs]
<1>1. SameQueues(s, t)
  BY DEF SameQueues, TrieStates
<1>2. SameQueues(t, Reorder(t, NamesOf(cs)))
  BY <1>1, ReorderSame DEF SameQueues
<1> QED BY <1>1, <1>2 DEF InsertSupports, SameQueues

\* removeSupportFromMap touches no queue.
LEMMA DropSupportsSame ==
  ASSUME NEW s \in TrieStates, NEW cs, base \in TrieStates
  PROVE  SameQueues(s, DropSupports(s, cs))
<1> DEFINE t == [s EXCEPT !.active = @ \ cs]
<1>1. SameQueues(s, t)
  BY DEF SameQueues, TrieStates
<1>2. SameQueues(t, Reorder(t, NamesOf(cs)))
  BY <1>1, ReorderSame DEF SameQueues
<1> QED BY <1>1, <1>2 DEF DropSupports, SameQueues

-----------------------------------------------------------------------------
\* t is a good trie with some of the queued entries of s, and no others.
Shrunk(s, t) == GoodTrie(t) /\ t.queue \subseteq s.queue /\ t.height = s.height

\* Shrinking the queues and then leaving them alone shrinks them.
LEMMA SameShrunk ==
  ASSUME NEW s, NEW t, NEW u, Shrunk(s, t), SameQueues(t, u)
  PROVE  Shrunk(s, u)
  BY SameQueuesGood DEF Shrunk, SameQueues

\* Entries leave both queues together.
LEMMA UnqueueShrunk ==
  ASSUME NEW s, GoodTrie(s), NEW row, row \subseteq s.queue,
         NEW names, names = {[out |-> e.claim.out, nHeight |-> e.row] : e \in row}
  PROVE  Shrunk(s, [s EXCEPT !.queue = @ \ row, !.nameQueue = @ \ names])
<1> DEFINE t == [s EXCEPT !.queue = @ \ row, !.nameQueue = @ \ names]
<1>0. s \in TrieStates
  BY DEF GoodTrie
<1>1. /\ t \in TrieStates
      /\ t.queue = s.queue \ row /\ t.nameQueue = s.nameQueue \ names
      /\ t.takeover = s.takeover /\ t.height = s.height
  BY <1>0 DEF TrieStates
<1>2. AgreeIn(t)
  <2>1. ASSUME NEW e \in t.queue
        PROVE  /\ [out |-> e.claim.out, nHeight |-> e.row] \in t.nameQueue
               /\ e.claim.nValidAtHeight = e.row
    <3>1. e \in s.queue /\ e \notin row
      BY <1>1
    <3>2. [out |-> e.claim.out, nHeight |-> e.row] \notin names
      BY <3>1 DEF GoodTrie, OneEntryEach
    <3> QED BY <3>1, <3>2, <1>1 DEF GoodTrie, AgreeIn
  <2>2. ASSUME NEW q \in t.nameQueue
        PROVE  \E e \in t.queue : q = [out |-> e.claim.out, nHeight |-> e.row]
    <3>1. PICK e \in s.queue : q = [out |-> e.claim.out, nHeight |-> e.row]
      BY <1>1 DEF GoodTrie, AgreeIn
    <3> QED BY <3>1, <1>1
  <2> QED BY <2>1, <2>2 DEF AgreeIn
<1> QED BY <1>1, <1>2 DEF GoodTrie, OneEntryEach, TakeoversPast, DelayBounded, Shrunk

-----------------------------------------------------------------------------
(* The loops of incrementBlock.                                             *)

\* The claims of queue entries are claims.
LEMMA EntriesTyped ==
  ASSUME NEW s \in TrieStates, NEW row, row \subseteq s.queue
  PROVE  Entries(row) \in SUBSET ClaimValues
  BY DEF TrieStates, Entries

\* The claims of a row, valid from the current height, are claims.
LEMMA ValidNowTyped ==
  ASSUME NEW s \in TrieStates, NEW row, row \subseteq s.queue
  PROVE  ValidNow(s, row) \in SUBSET ClaimValues
<1>1. ASSUME NEW c \in ClaimValues
      PROVE  [c EXCEPT !.nValidAtHeight = s.height] \in ClaimValues
  BY DEF TrieStates, ClaimValues
<1> QED BY <1>1, EntriesTyped DEF ValidNow

\* incrementBlock's first loop empties the row of claims of the current height.
LEMMA ActivateClaimRowShrunk ==
  ASSUME NEW s, GoodTrie(s)
  PROVE  /\ Shrunk(s, ActivateClaimRow(s))
         /\ \A e \in ActivateClaimRow(s).queue : e.row = s.height => IsSupport(e.claim.out)
<1> DEFINE row == ClaimRow(s)
           names == {[out |-> c.out, nHeight |-> s.height] : c \in Entries(row)}
           t == [s EXCEPT !.queue = @ \ row, !.nameQueue = @ \ names]
           u == InsertClaims(t, Entries(row))
<1>1. row \subseteq s.queue /\ \A e \in row : e.row = s.height
  BY DEF ClaimRow, QueueRow
<1>2. names = {[out |-> e.claim.out, nHeight |-> e.row] : e \in row}
  BY <1>1 DEF Entries
<1>3. Shrunk(s, t)
  <2> HIDE DEF row, names
  <2> QED BY <1>1, <1>2, UnqueueShrunk
<1>4. SameQueues(t, u)
  BY <1>1, <1>3, EntriesTyped, InsertClaimsSame DEF Shrunk, GoodTrie
<1>5. SameQueues(u, NoteChanges(s, u))
  BY <1>4, NoteChangesSame DEF SameQueues
<1>6. ActivateClaimRow(s) = NoteChanges(s, u)
  BY DEF ActivateClaimRow
<1>7. Shrunk(s, NoteChanges(s, u))
  <2> HIDE DEF t, u
  <2> QED BY <1>3, <1>4, <1>5, SameShrunk
<1>8. NoteChanges(s, u).queue = s.queue \ row
  <2>1. t.queue = s.queue \ row
    BY DEF GoodTrie, TrieStates
  <2> QED BY <2>1, <1>4, <1>5 DEF SameQueues
<1> QED BY <1>6, <1>7, <1>8 DEF ClaimRow, QueueRow

\* incrementBlock's loop over the support row empties it.
LEMMA ActivateSupportRowShrunk ==
  ASSUME NEW s, GoodTrie(s), base \in TrieStates
  PROVE  /\ Shrunk(s, ActivateSupportRow(s))
         /\ \A e \in ActivateSupportRow(s).queue : e.row = s.height => ~IsSupport(e.claim.out)
<1> DEFINE row == SupportRow(s)
           names == {[out |-> c.out, nHeight |-> c.nValidAtHeight] : c \in Entries(row)}
           t == [s EXCEPT !.queue = @ \ row, !.nameQueue = @ \ names]
           u == InsertSupports(t, Entries(row))
<1>1. row \subseteq s.queue /\ \A e \in row : e.claim.nValidAtHeight = e.row
  BY DEF SupportRow, QueueRow, GoodTrie, AgreeIn
<1>2. names = {[out |-> e.claim.out, nHeight |-> e.row] : e \in row}
  BY <1>1 DEF Entries
<1>3. Shrunk(s, t)
  <2> HIDE DEF row, names
  <2> QED BY <1>1, <1>2, UnqueueShrunk
<1>4. SameQueues(t, u)
  BY <1>1, <1>3, EntriesTyped, InsertSupportsSame DEF Shrunk, GoodTrie
<1>5. SameQueues(u, NoteChanges(s, u))
  BY <1>4, NoteChangesSame DEF SameQueues
<1>6. ActivateSupportRow(s) = NoteChanges(s, u)
  BY DEF ActivateSupportRow
<1>7. Shrunk(s, NoteChanges(s, u))
  <2> HIDE DEF t, u
  <2> QED BY <1>3, <1>4, <1>5, SameShrunk
<1>8. NoteChanges(s, u).queue = s.queue \ row
  <2>1. t.queue = s.queue \ row
    BY DEF GoodTrie, TrieStates
  <2> QED BY <2>1, <1>4, <1>5 DEF SameQueues
<1> QED BY <1>6, <1>7, <1>8 DEF SupportRow, QueueRow

\* Expiring claims removes nothing from the activation queues but whole entries.
LEMMA ExpireClaimsShrunk ==
  ASSUME NEW s, GoodTrie(s)
  PROVE  Shrunk(s, ExpireClaims(s))
<1> DEFINE t == [s EXCEPT !.expQueue = @ \ ExpirationRow(s, FALSE)]
           u == DropClaims(t, Expiring(s, FALSE))
<1>1. Shrunk(s, s)
  BY DEF Shrunk
<1>2. SameQueues(s, t)
  BY DEF GoodTrie, TrieStates, SameQueues
<1>3. SameQueues(t, u)
  BY <1>2, DropClaimsSame DEF SameQueues
<1>4. SameQueues(u, NoteChanges(s, u))
  BY <1>3, NoteChangesSame DEF SameQueues
<1> HIDE DEF t, u
<1>5. Shrunk(s, NoteChanges(s, u))
  BY <1>1, <1>2, <1>3, <1>4, SameShrunk
<1> QED BY <1>5 DEF ExpireClaims, t, u

\* The same for expiring supports.
LEMMA ExpireSupportsShrunk ==
  ASSUME NEW s, GoodTrie(s), base \in TrieStates
  PROVE  Shrunk(s, ExpireSupports(s))
<1> DEFINE t == [s EXCEPT !.expQueue = @ \ ExpirationRow(s, TRUE)]
           u == DropSupports(t, Expiring(s, TRUE))
<1>1. Shrunk(s, s)
  BY DEF Shrunk
<1>2. SameQueues(s, t)
  BY DEF GoodTrie, TrieStates, SameQueues
<1>3. SameQueues(t, u)
  BY <1>2, DropSupportsSame DEF SameQueues
<1>4. SameQueues(u, NoteChanges(s, u))
  BY <1>3, NoteChangesSame DEF SameQueues
<1> HIDE DEF t, u
<1>5. Shrunk(s, NoteChanges(s, u))
  BY <1>1, <1>2, <1>3, <1>4, SameShrunk
<1> QED BY <1>5 DEF ExpireSupports, t, u

\* While the queues agree, the name rows of ns lead to exactly these entries.
LEMMA WaitingNames ==
  ASSUME NEW s, GoodTrie(s), NEW ns, NEW support
  PROVE  /\ Waiting(s, ns, support) \subseteq s.queue
         /\ NameRow(s, ns, support)
              = {[out |-> e.claim.out, nHeight |-> e.row] : e \in Waiting(s, ns, support)}
  BY DEF Waiting, NameRow, GoodTrie, AgreeIn

\* A takeover activates the waiting claims of its name and unqueues them in both queues.
LEMMA ActivateClaimsOfShrunk ==
  ASSUME NEW s, GoodTrie(s), NEW ns
  PROVE  Shrunk(s, ActivateClaimsOf(s, ns))
<1> DEFINE row == Waiting(s, ns, FALSE)
           t == [s EXCEPT !.queue = @ \ row, !.nameQueue = @ \ NameRow(s, ns, FALSE)]
           u == InsertClaims(t, ValidNow(s, row))
<1>1. Shrunk(s, t)
  <2> HIDE DEF row
  <2> QED BY WaitingNames, UnqueueShrunk DEF row
<1>2. SameQueues(t, u)
  BY <1>1, WaitingNames, ValidNowTyped, InsertClaimsSame DEF Shrunk, GoodTrie
<1>3. Shrunk(s, u)
  <2> HIDE DEF t, u
  <2> QED BY <1>1, <1>2, SameShrunk
<1> QED BY <1>3 DEF ActivateClaimsOf

\* The same for the waiting supports of the name.
LEMMA ActivateSupportsOfShrunk ==
  ASSUME NEW s, GoodTrie(s), NEW ns, base \in TrieStates
  PROVE  Shrunk(s, ActivateSupportsOf(s, ns))
<1> DEFINE row == Waiting(s, ns, TRUE)
           t == [s EXCEPT !.queue = @ \ row, !.nameQueue = @ \ NameRow(s, ns, TRUE)]
           u == InsertSupports(t, ValidNow(s, row))
<1>1. Shrunk(s, t)
  <2> HIDE DEF row
  <2> QED BY WaitingNames, UnqueueShrunk DEF row
<1>2. SameQueues(t, u)
  BY <1>1, WaitingNames, ValidNowTyped, InsertSupportsSame DEF Shrunk, GoodTrie
<1>3. Shrunk(s, u)
  <2> HIDE DEF t, u
  <2> QED BY <1>1, <1>2, SameShrunk
<1> QED BY <1>3 DEF ActivateSupportsOf

-----------------------------------------------------------------------------
(* The functions a block calls.                                             *)

\* Nothing waits for the current height plus the longest delay: so it is
\* between blocks.
Settled(s) == \A e \in s.queue : e.row < s.height + nMaxDelay

\* What incrementBlock writes to the insert undo vectors is well typed.
LEMMA UndoEntriesTyped ==
  ASSUME NEW s \in TrieStates, NEW row, row \subseteq s.queue
  PROVE  UndoEntries(row) \in SUBSET [out : Outs, nHeight : Nat]
  BY EntriesTyped DEF UndoEntries, ClaimValues

\* Recording takeover heights advances the height by one and leaves the queues alone.
LEMMA SetTakeoverHeightsFields ==
  ASSUME NEW s \in TrieStates, NEW ns, ns \subseteq Names
  PROVE  LET t == SetTakeoverHeights(s, ns) IN
         /\ t \in TrieStates
         /\ t.queue = s.queue /\ t.nameQueue = s.nameQueue /\ t.height = s.height + 1
         /\ \A n \in Names : t.takeover[n] \in {s.height, s.takeover[n]}
<1> DEFINE owned == {n \in ns : Claims(s, n) # {}}
           heights == [n \in Names |-> IF n \in owned THEN s.height ELSE s.takeover[n]]
           t == [s EXCEPT !.takeover = heights, !.setHeights = @ \cup owned,
                          !.toCheck = {}, !.height = @ + 1]
<1>1. SetTakeoverHeights(s, ns) = t
  BY DEF SetTakeoverHeights, TrieStates
<1>2. /\ heights \in [Names -> Nat]
      /\ \A n \in Names : heights[n] \in {s.height, s.takeover[n]}
  BY DEF TrieStates
<1>3. owned \in SUBSET Names
  OBVIOUS
<1>4. s.height + 1 \in Nat \ {0}
  BY DEF TrieStates
<1>5. /\ t \in TrieStates
      /\ t.queue = s.queue /\ t.nameQueue = s.nameQueue /\ t.height = s.height + 1
      /\ t.takeover = heights
  <2> HIDE DEF heights, owned
  <2> QED BY <1>2, <1>3, <1>4 DEF TrieStates
<1> QED BY <1>1, <1>2, <1>5

\* incrementBlock as a whole: good tries stay good, and no row at or below the height is left.
LEMMA IncrementBlockGood ==
  ASSUME NEW s, GoodTrie(s), base \in TrieStates
  PROVE  /\ GoodTrie(IncrementBlock(s).cache)
         /\ Settled(IncrementBlock(s).cache)
         /\ IncrementBlock(s).cache.queue \subseteq s.queue
         /\ IncrementBlock(s).undo \in UndoData
<1> DEFINE s1 == ActivateClaimRow(s)
           s2 == ExpireClaims(s1)
           s3 == ActivateSupportRow(s2)
           s4 == ExpireSupports(s3)
           ns == TakenOver(s4)
           s5 == ActivateClaimsOf(s4, ns)
           s6 == ActivateSupportsOf(s5, ns)
           t  == SetTakeoverHeights(s6, ns)
           undone == [insertUndo   |-> UndoEntries(ClaimRow(s)) \cup UndoEntries(SupportRow(s2))
                                     \cup UndoEntries(Waiting(s4, ns, FALSE))
                                     \cup UndoEntries(Waiting(s5, ns, TRUE)),
                      expireUndo   |-> Expiring(s1, FALSE) \cup Expiring(s3, TRUE),
                      takeoverUndo |-> {[name |-> n, nHeight |-> s4.takeover[n]]
                                        : n \in {m \in ns : OriginalTop(s4, m) # None}}]
<1>0. IncrementBlock(s).cache = t /\ IncrementBlock(s).undo = undone
  BY DEF IncrementBlock
<1>1. /\ Shrunk(s, s1)
      /\ \A e \in s1.queue : e.row = s.height => IsSupport(e.claim.out)
  BY ActivateClaimRowShrunk
<1>2. Shrunk(s1, s2)
  BY <1>1, ExpireClaimsShrunk DEF Shrunk
<1>3. /\ Shrunk(s2, s3)
      /\ \A e \in s3.queue : e.row = s2.height => ~IsSupport(e.claim.out)
  BY <1>2, ActivateSupportRowShrunk DEF Shrunk
<1>4. Shrunk(s3, s4)
  BY <1>3, ExpireSupportsShrunk DEF Shrunk
<1>5. Shrunk(s4, s5)
  BY <1>4, ActivateClaimsOfShrunk DEF Shrunk
<1>6. Shrunk(s5, s6)
  BY <1>5, ActivateSupportsOfShrunk DEF Shrunk
<1>7. /\ GoodTrie(s6) /\ s6.queue \subseteq s.queue /\ s6.height = s.height
      /\ \A e \in s6.queue : e.row # s6.height
  <2> HIDE DEF s1, s2, s3, s4, s5, s6
  <2> QED BY <1>1, <1>2, <1>3, <1>4, <1>5, <1>6 DEF Shrunk
<1>8. /\ t \in TrieStates
      /\ t.queue = s6.queue /\ t.nameQueue = s6.nameQueue /\ t.height = s6.height + 1
      /\ \A n \in Names : t.takeover[n] \in {s6.height, s6.takeover[n]}
  <2>1. ns \subseteq Names
    <3> HIDE DEF s4
    <3> QED BY <1>4 DEF TakenOver, Shrunk, GoodTrie, TrieStates
  <2>2. s6 \in TrieStates
    BY <1>7 DEF GoodTrie
  <2> HIDE DEF s6, ns
  <2> QED BY <2>1, <2>2, SetTakeoverHeightsFields
<1>9. GoodTrie(t) /\ Settled(t)
  <2>1. s6 \in TrieStates /\ s6.height \in Nat
    BY <1>7 DEF GoodTrie, TrieStates
  <2>2. \A e \in s6.queue : e.row \in Nat
    BY <2>1 DEF TrieStates
  <2>3. \A n \in Names : s6.takeover[n] \in Nat
    BY <2>1 DEF TrieStates
  <2> HIDE DEF s6, t
  <2>4. AgreeIn(t) /\ OneEntryEach(t)
    BY <1>7, <1>8 DEF GoodTrie, AgreeIn, OneEntryEach
  <2>5. TakeoversPast(t)
    BY <1>7, <1>8, <2>1, <2>3 DEF GoodTrie, TakeoversPast
  <2>6. DelayBounded(t) /\ Settled(t)
    BY <1>7, <1>8, <2>1, <2>2, ParametersAssumption DEF GoodTrie, DelayBounded, Settled
  <2> QED BY <1>8, <2>4, <2>5, <2>6 DEF GoodTrie
<1>10. undone \in UndoData
  <2> HIDE DEF s1, s2, s3, s4, s5, s6
  <2>1. /\ s \in TrieStates /\ s1 \in TrieStates /\ s2 \in TrieStates /\ s3 \in TrieStates
        /\ s4 \in TrieStates /\ s5 \in TrieStates
    BY <1>1, <1>2, <1>3, <1>4, <1>5 DEF Shrunk, GoodTrie
  <2>2. undone.insertUndo \in SUBSET [out : Outs, nHeight : Nat]
    <3>1. /\ ClaimRow(s) \subseteq s.queue /\ SupportRow(s2) \subseteq s2.queue
          /\ Waiting(s4, ns, FALSE) \subseteq s4.queue /\ Waiting(s5, ns, TRUE) \subseteq s5.queue
      BY DEF ClaimRow, SupportRow, QueueRow, Waiting
    <3> HIDE DEF ns
    <3> QED BY <2>1, <3>1, UndoEntriesTyped
  <2>3. undone.expireUndo \in SUBSET ClaimValues
    BY <2>1 DEF Expiring, TrieStates
  <2>4. undone.takeoverUndo \in SUBSET [name : Names, nHeight : Nat]
    BY <2>1 DEF TakenOver, TrieStates
  <2> QED BY <2>2, <2>3, <2>4 DEF UndoData
<1> QED
  <2> HIDE DEF s6, t, undone
  <2> QED BY <1>0, <1>7, <1>8, <1>9, <1>10

\* flush hands the queues over unchanged.
LEMMA CommittedGood ==
  ASSUME NEW s, GoodTrie(s), Settled(s)
  PROVE  GoodTrie(Committed(s)) /\ Settled(Committed(s)) /\ Committed(s).queue = s.queue
<1>1. s \in TrieStates
  BY DEF GoodTrie
<1>2. /\ Committed(s) \in TrieStates
      /\ Committed(s).queue = s.queue /\ Committed(s).nameQueue = s.nameQueue
      /\ Committed(s).height = s.height
      /\ \A n \in Names : Committed(s).takeover[n] \in {0, s.takeover[n]}
  BY <1>1 DEF Committed, Untouched, TrieStates
<1>3. TakeoversPast(Committed(s))
  BY <1>1, <1>2 DEF GoodTrie, TakeoversPast, TrieStates
<1> QED BY <1>2, <1>3 DEF GoodTrie, AgreeIn, OneEntryEach, DelayBounded, Settled

\* Integer division stays in the naturals.
LEMMA DivNat ==
  ASSUME NEW m \in Nat, NEW d \in Nat \ {0}
  PROVE  m \div d \in Nat
  BY SMT

\* getDelayForName never exceeds the maximum delay.
LEMMA DelayRange ==
  ASSUME NEW s, GoodTrie(s), NEW n \in Names
  PROVE  Delay(s, n) \in Nat /\ Delay(s, n) <= nMaxDelay
<1>1. ContinuousOwnership(s, n) \in Nat
  BY DEF ContinuousOwnership, GoodTrie, TakeoversPast, TrieStates
<1>2. ContinuousOwnership(s, n) \div nProportionalDelayFactor \in Nat
  BY <1>1, DivNat, ParametersAssumption
<1> QED BY <1>2, ParametersAssumption DEF Delay

\* addClaim and addSupport put an output into both queues with the same height.
LEMMA AddOutputGood ==
  ASSUME NEW s, GoodTrie(s), NEW o \in Outs, \A e \in s.queue : e.claim.out # o
  PROVE  /\ GoodTrie(AddOutput(s, o))
         /\ \A e \in AddOutput(s, o).queue : e \in s.queue \/ e.claim.out = o
<1> DEFINE delay == IF SameOwner(OriginalTop(s, NameOf[o]), o) THEN 0 ELSE Delay(s, NameOf[o])
           v == s.height + delay
           c == [out |-> o, nHeight |-> s.height, nValidAtHeight |-> v]
           new == [row |-> v, claim |-> c]
           t == AddToQueues(s, c)
<1>1. NameOf[o] \in Names
  BY OutsAssumption
<1>2. delay \in Nat /\ delay <= nMaxDelay
  BY <1>1, DelayRange, ParametersAssumption
<1>3. s \in TrieStates /\ s.height \in Nat
  BY DEF GoodTrie, TrieStates
<1>4. v \in Nat /\ s.height <= v /\ v <= s.height + nMaxDelay
  <2> HIDE DEF delay
  <2> QED BY <1>2, <1>3, ParametersAssumption
<1> HIDE DEF delay, v
<1>5. c \in ClaimValues /\ c.nHeight + nExpirationTime \in Nat
  BY <1>3, <1>4, ParametersAssumption DEF ClaimValues
<1>6. /\ t \in TrieStates
      /\ t.queue = s.queue \cup {new}
      /\ t.nameQueue = s.nameQueue \cup {[out |-> o, nHeight |-> v]}
      /\ t.takeover = s.takeover /\ t.height = s.height
  <2>1. new \in [row : Nat, claim : ClaimValues] /\ [out |-> o, nHeight |-> v] \in [out : Outs, nHeight : Nat]
    BY <1>4, <1>5
  <2>2. [row |-> c.nHeight + nExpirationTime, out |-> c.out] \in [row : Nat, out : Outs]
    BY <1>5
  <2> QED BY <1>3, <2>1, <2>2 DEF AddToQueues, TrieStates
<1>7. AgreeIn(t)
  <2>1. new.claim.out = o /\ new.row = v /\ new.claim.nValidAtHeight = v
    OBVIOUS
  <2>2. {[out |-> e.claim.out, nHeight |-> e.row] : e \in s.queue \cup {new}}
          = {[out |-> e.claim.out, nHeight |-> e.row] : e \in s.queue} \cup {[out |-> o, nHeight |-> v]}
    BY <2>1
  <2> HIDE DEF new, t
  <2> QED BY <1>6, <2>1, <2>2 DEF GoodTrie, AgreeIn
<1>8. OneEntryEach(t)
  BY <1>6 DEF GoodTrie, OneEntryEach
<1>9. DelayBounded(t) /\ TakeoversPast(t)
  BY <1>3, <1>4, <1>6 DEF GoodTrie, DelayBounded, TakeoversPast
<1>10. AddOutput(s, o) = t
  BY DEF AddOutput, v, delay
<1> HIDE DEF t
<1> QED BY <1>6, <1>7, <1>8, <1>9, <1>10 DEF GoodTrie

\* spendClaim and spendSupport take an output out of both queues.
LEMMA RemoveOutputShrunk ==
  ASSUME NEW s, GoodTrie(s), NEW o \in Outs, NEW h \in Nat, base \in TrieStates
  PROVE  Shrunk(s, RemoveOutput(s, o, h))
<1> DEFINE gone == {[row |-> h + nExpirationTime, out |-> o]}
           unexpire(t) == [t EXCEPT !.expQueue = @ \ gone]
           fromQueue   == {[s EXCEPT !.queue = @ \ {e},
                                     !.nameQueue = @ \ {[out |-> o, nHeight |-> e.row]}]
                           : e \in QueuedEntries(s, o)}
           fromActive  == {DropActive(s, c) : c \in ActiveEntries(s, o)}
           touched     == [s EXCEPT !.copied[NameOf[o]] = IF @ = "no" THEN "orig" ELSE @]
<1>1. Shrunk(s, s) /\ s \in TrieStates
  BY DEF Shrunk, GoodTrie
<1>2. ASSUME NEW t, Shrunk(s, t)
      PROVE  Shrunk(s, unexpire(t))
  <2>1. SameQueues(t, unexpire(t))
    BY <1>2 DEF Shrunk, GoodTrie, SameQueues, TrieStates
  <2> HIDE DEF unexpire
  <2> QED BY <1>2, <2>1, SameShrunk
<1>3. ASSUME NEW t \in fromQueue
      PROVE  Shrunk(s, t)
  <2>1. PICK e \in QueuedEntries(s, o) :
             t = [s EXCEPT !.queue = @ \ {e}, !.nameQueue = @ \ {[out |-> o, nHeight |-> e.row]}]
    OBVIOUS
  <2>2. e \in s.queue /\ e.claim.out = o
    BY DEF QueuedEntries
  <2>3. {e} \subseteq s.queue
    BY <2>2
  <2>4. {[out |-> o, nHeight |-> e.row]} = {[out |-> f.claim.out, nHeight |-> f.row] : f \in {e}}
    BY <2>2
  <2> QED BY <2>1, <2>3, <2>4, UnqueueShrunk
<1>4. ASSUME NEW t \in fromActive
      PROVE  Shrunk(s, t)
  <2>1. PICK c \in ActiveEntries(s, o) : t = DropActive(s, c)
    OBVIOUS
  <2>2. SameQueues(s, t)
    BY <1>1, <2>1, DropSupportsSame, DropClaimsSame DEF DropActive
  <2> QED BY <1>1, <2>2, SameShrunk
<1>5. Shrunk(s, touched)
  <2>1. SameQueues(s, touched)
    BY <1>1 DEF SameQueues, TrieStates
  <2> HIDE DEF touched
  <2> QED BY <1>1, <2>1, SameShrunk
<1>6. RemoveOutput(s, o, h) =
         IF fromQueue # {} THEN unexpire(CHOOSE t \in fromQueue : TRUE)
         ELSE IF fromActive # {} THEN unexpire(CHOOSE t \in fromActive : TRUE)
         ELSE IF IsSupport(o) \/ Claims(s, NameOf[o]) = {} THEN s
         ELSE touched
  BY DEF RemoveOutput
<1> HIDE DEF fromQueue, fromActive, unexpire, touched
<1>7. CASE fromQueue # {}
  <2>1. (CHOOSE t \in fromQueue : TRUE) \in fromQueue
    BY <1>7
  <2> QED BY <1>2, <1>3, <1>6, <1>7, <2>1
<1>8. CASE fromQueue = {} /\ fromActive # {}
  <2>1. (CHOOSE t \in fromActive : TRUE) \in fromActive
    BY <1>8
  <2> QED BY <1>2, <1>4, <1>6, <1>8, <2>1
<1>9. CASE fromQueue = {} /\ fromActive = {}
  BY <1>1, <1>5, <1>6, <1>9
<1> QED BY <1>7, <1>8, <1>9

\* The activation height that spending records for undo is a height.
LEMMA RemovedValidAtNat ==
  ASSUME NEW s \in TrieStates, NEW o
  PROVE  RemovedValidAt(s, o) \in Nat
<1>1. \A e \in QueuedEntries(s, o) : e.claim.nValidAtHeight \in Nat
  BY DEF QueuedEntries, TrieStates, ClaimValues
<1>2. \A c \in ActiveEntries(s, o) : c.nValidAtHeight \in Nat
  BY DEF ActiveEntries, TrieStates, ClaimValues
<1> QED BY <1>1, <1>2 DEF RemovedValidAt

-----------------------------------------------------------------------------
(* The invariant of a chain that grows.                                     *)

OnChain(o) == \E b \in DOMAIN chain : AddedBy(chain[b].ops, o)

\* What is queued was made by a transaction of the chain or of the block in
\* hand, so an output that is new is not queued yet.
ForwardInv ==
    /\ TypeOK
    /\ GoodTrie(base) /\ Settled(base)
    /\ GoodTrie(cache)
    /\ phase = "connected" => Settled(cache)
    /\ \A e \in cache.queue : InChain(e.claim.out)
    /\ \A e \in base.queue : OnChain(e.claim.out)

\* An output added by the operations of a block stays added when more follow.
LEMMA AddedByAppend ==
  ASSUME NEW ops \in Seq(Operations), NEW x \in Operations, NEW o
  PROVE  /\ AddedBy(ops, o) => AddedBy(Append(ops, x), o)
         /\ x.op = "add" /\ x.out = o => AddedBy(Append(ops, x), o)
<1>1. /\ Append(ops, x)[Len(ops) + 1] = x
      /\ Len(ops) + 1 \in DOMAIN Append(ops, x)
      /\ \A i \in DOMAIN ops : i \in DOMAIN Append(ops, x) /\ Append(ops, x)[i] = ops[i]
  OBVIOUS
<1> QED BY <1>1 DEF AddedBy

\* A spent output leaves a good trie.
LEMMA ConnectInputGood ==
  ASSUME NEW o \in Outs, ForwardInv, ConnectInput(o)
  PROVE  ForwardInv'
<1> DEFINE h == cache.coin[o]
           v == RemovedValidAt(cache, o)
           removed == RemoveOutput(cache, o, h)
           noted == NoteChanges(cache, removed)
           x == [op |-> "spend", out |-> o, nHeight |-> h, nValidAtHeight |-> v]
<1>1. cache \in TrieStates /\ base \in TrieStates /\ GoodTrie(cache) /\ log \in Seq(Operations)
  BY DEF ForwardInv, TypeOK
<1>2. h \in Nat
  BY <1>1 DEF TrieStates
<1>3. v \in Nat
  BY <1>1, RemovedValidAtNat
<1>4. Shrunk(cache, removed)
  BY <1>1, <1>2, RemoveOutputShrunk
<1>5. SameQueues(removed, noted)
  BY <1>4, NoteChangesSame DEF Shrunk, GoodTrie
<1>6. Shrunk(cache, noted)
  BY <1>4, <1>5, SameShrunk
<1>7. cache' = [noted EXCEPT !.coin[o] = 0] /\ log' = Append(log, x)
  BY DEF ConnectInput
<1> HIDE DEF h, v, removed, noted
<1>8. SameQueues(noted, cache')
  BY <1>6, <1>7 DEF Shrunk, GoodTrie, SameQueues, TrieStates
<1>9. Shrunk(cache, cache')
  BY <1>6, <1>8, SameShrunk
<1>10. x \in Operations /\ log' \in Seq(Operations)
  BY <1>1, <1>2, <1>3, <1>7 DEF Operations
<1>11. UNCHANGED <<base, phase, undo, chain, reorgs>> /\ phase = "connect"
  BY DEF ConnectInput
<1>12. TypeOK'
  BY <1>9, <1>10, <1>11 DEF ForwardInv, TypeOK, Shrunk, GoodTrie
<1> HIDE DEF x
<1>13. \A e \in cache'.queue : InChain(e.claim.out)'
  <2> SUFFICES ASSUME NEW e \in cache'.queue
               PROVE  InChain(e.claim.out)'
    OBVIOUS
  <2>1. InChain(e.claim.out)
    BY <1>9 DEF ForwardInv, Shrunk
  <2> QED BY <2>1, <1>1, <1>7, <1>10, <1>11, AddedByAppend DEF InChain
<1>14. (GoodTrie(base) /\ Settled(base))' /\ GoodTrie(cache)' /\ phase' # "connected"
  BY <1>9, <1>11 DEF ForwardInv, Shrunk, GoodTrie, Settled, AgreeIn, OneEntryEach, TakeoversPast, DelayBounded
<1>15. (\A e \in base.queue : OnChain(e.claim.out))'
  BY <1>11 DEF ForwardInv, OnChain
<1> QED BY <1>12, <1>13, <1>14, <1>15 DEF ForwardInv

\* A new output enters the queues at most once.
LEMMA ConnectOutputGood ==
  ASSUME NEW o \in Outs, ForwardInv, ConnectOutput(o)
  PROVE  ForwardInv'
<1> DEFINE x == [op |-> "add", out |-> o, nHeight |-> cache.height, nValidAtHeight |-> 0]
<1>1. /\ cache \in TrieStates /\ GoodTrie(cache) /\ log \in Seq(Operations)
      /\ cache.height \in Nat
  BY DEF ForwardInv, TypeOK, TrieStates
<1>2. \A e \in cache.queue : e.claim.out # o
  BY DEF ForwardInv, ConnectOutput
<1>3. PICK s \in {AddOutput(cache, o), cache} : cache' = [s EXCEPT !.coin[o] = cache.height]
  <2> DEFINE counts == KindOf[o] = "update" => [name |-> NameOf[o], id |-> IdOf[o]] \in spentByTx
             picked == IF counts THEN AddOutput(cache, o) ELSE cache
  <2>1. cache' = [picked EXCEPT !.coin[o] = cache.height]
    BY DEF ConnectOutput
  <2>2. picked \in {AddOutput(cache, o), cache}
    OBVIOUS
  <2> HIDE DEF picked
  <2> QED BY <2>1, <2>2
<1>4. GoodTrie(s) /\ \A e \in s.queue : e \in cache.queue \/ e.claim.out = o
  BY <1>1, <1>2, AddOutputGood
<1>5. SameQueues(s, cache')
  BY <1>1, <1>3, <1>4 DEF GoodTrie, SameQueues, TrieStates
<1>6. GoodTrie(cache')
  BY <1>4, <1>5, SameQueuesGood
<1>7. x \in Operations /\ log' = Append(log, x) /\ log' \in Seq(Operations)
  BY <1>1 DEF Operations, ConnectOutput
<1>8. UNCHANGED <<base, phase, undo, chain, reorgs>> /\ phase = "connect"
  BY DEF ConnectOutput
<1>9. TypeOK'
  BY <1>6, <1>7, <1>8 DEF ForwardInv, TypeOK, GoodTrie
<1>10. x.op = "add" /\ x.out = o
  OBVIOUS
<1> HIDE DEF x
<1>11. \A e \in cache'.queue : InChain(e.claim.out)'
  <2> SUFFICES ASSUME NEW e \in cache'.queue
               PROVE  InChain(e.claim.out)'
    OBVIOUS
  <2>1. e \in cache.queue \/ e.claim.out = o
    BY <1>4, <1>5 DEF SameQueues
  <2>2. CASE e \in cache.queue
    <3>1. InChain(e.claim.out)
      BY <2>2 DEF ForwardInv
    <3> QED BY <3>1, <1>1, <1>7, <1>8, AddedByAppend DEF InChain
  <2>3. CASE e.claim.out = o
    BY <2>3, <1>1, <1>7, <1>10, AddedByAppend DEF InChain
  <2> QED BY <2>1, <2>2, <2>3
<1>12. (GoodTrie(base) /\ Settled(base))' /\ phase' # "connected"
  BY <1>8 DEF ForwardInv
<1>13. (\A e \in base.queue : OnChain(e.claim.out))'
  BY <1>8 DEF ForwardInv, OnChain
<1> QED BY <1>6, <1>9, <1>11, <1>12, <1>13 DEF ForwardInv

\* The step from the transactions of a block to incrementBlock.
LEMMA FinishTransactionsGood ==
  ASSUME ForwardInv, FinishTransactions
  PROVE  ForwardInv'
<1> DEFINE r == IncrementBlock(cache)
<1>1. /\ GoodTrie(r.cache) /\ Settled(r.cache)
      /\ r.cache.queue \subseteq cache.queue /\ r.undo \in UndoData
  BY IncrementBlockGood DEF ForwardInv, TypeOK
<1>2. /\ UNCHANGED <<base, log, chain, reorgs>>
      /\ \/ cache' = r.cache /\ undo' = r.undo /\ phase' = "connected"
         \/ phase' = "crashed" /\ UNCHANGED <<cache, undo>>
  BY DEF FinishTransactions
<1> HIDE DEF r
<1>3. TypeOK'
  BY <1>1, <1>2 DEF ForwardInv, TypeOK, GoodTrie
<1>4. GoodTrie(cache') /\ (phase' = "connected" => Settled(cache')) /\ cache'.queue \subseteq cache.queue
  BY <1>1, <1>2 DEF ForwardInv
<1>5. (\A e \in cache.queue : InChain(e.claim.out))'
  BY <1>2, <1>4 DEF ForwardInv, InChain
<1>6. (\A e \in base.queue : OnChain(e.claim.out))'
  BY <1>2 DEF ForwardInv, OnChain
<1> QED BY <1>2, <1>3, <1>4, <1>5, <1>6 DEF ForwardInv

\* An empty undo record and an empty block are well typed.
LEMMA NoUndoTyped == NoUndo \in UndoData /\ <<>> \in Seq(Operations)
  BY DEF NoUndo, UndoData

\* The connected block is flushed and becomes part of the history.
LEMMA FlushConnectedGood ==
  ASSUME ForwardInv, FlushConnected
  PROVE  ForwardInv'
<1> DEFINE s == Committed(cache)
           block == [ops |-> log, undo |-> undo, before |-> base]
<1>1. phase = "connected" /\ GoodTrie(cache) /\ Settled(cache)
  BY DEF FlushConnected, ForwardInv
<1>2. GoodTrie(s) /\ Settled(s) /\ s.queue = cache.queue
  BY <1>1, CommittedGood
<1>3. CASE FlushOk(cache)
  <2>1. /\ base' = s /\ cache' = s /\ chain' = Append(chain, block)
        /\ phase' = "idle" /\ log' = <<>> /\ undo' = NoUndo /\ UNCHANGED reorgs
    BY <1>3 DEF FlushConnected, Rest
  <2>2. block \in [ops : Seq(Operations), undo : UndoData, before : TrieStates]
    BY DEF ForwardInv, TypeOK
  <2>3. /\ chain' \in Seq([ops : Seq(Operations), undo : UndoData, before : TrieStates])
        /\ chain'[Len(chain) + 1] = block /\ Len(chain) + 1 \in DOMAIN chain'
        /\ \A b \in DOMAIN chain : b \in DOMAIN chain' /\ chain'[b] = chain[b]
    <3>1. chain \in Seq([ops : Seq(Operations), undo : UndoData, before : TrieStates])
      BY DEF ForwardInv, TypeOK
    <3> HIDE DEF block
    <3> QED BY <2>1, <2>2, <3>1
  <2>4. block.ops = log
    OBVIOUS
  <2> HIDE DEF s, block
  <2>5. TypeOK'
    BY <1>2, <2>1, <2>3, NoUndoTyped DEF ForwardInv, TypeOK, GoodTrie
  <2>6. ASSUME NEW e \in s.queue
        PROVE  OnChain(e.claim.out)' /\ InChain(e.claim.out)'
    <3>1. AddedBy(log, e.claim.out) \/ \E b \in DOMAIN chain : AddedBy(chain[b].ops, e.claim.out)
      BY <1>2 DEF ForwardInv, InChain
    <3>2. \E b \in DOMAIN chain' : AddedBy(chain'[b].ops, e.claim.out)
      BY <2>3, <2>4, <3>1
    <3> QED BY <3>2 DEF OnChain, InChain
  <2> QED BY <1>2, <2>1, <2>5, <2>6 DEF ForwardInv
<1>4. CASE ~FlushOk(cache)
  <2>1. phase' = "crashed" /\ UNCHANGED <<base, cache, log, undo, chain, reorgs>>
    BY <1>4 DEF FlushConnected
  <2>2. TypeOK'
    BY <2>1 DEF ForwardInv, TypeOK
  <2> QED BY <2>1, <2>2 DEF ForwardInv, InChain, OnChain
<1> QED BY <1>3, <1>4

\* A block that fails or is only tested is dropped with its cache.
LEMMA AbandonGood ==
  ASSUME ForwardInv, Abandon
  PROVE  ForwardInv'
<1>1. /\ cache' = base /\ phase' = "idle" /\ log' = <<>> /\ undo' = NoUndo
      /\ UNCHANGED <<base, chain, reorgs>>
  BY DEF Abandon, Rest
<1>2. TypeOK'
  BY <1>1, NoUndoTyped DEF ForwardInv, TypeOK
<1>3. (\A e \in base.queue : OnChain(e.claim.out))'
  BY <1>1 DEF ForwardInv, OnChain
<1>4. (\A e \in cache.queue : InChain(e.claim.out))'
  BY <1>1, <1>3 DEF OnChain, InChain
<1> QED BY <1>1, <1>2, <1>3, <1>4 DEF ForwardInv

\* The empty trie is good.
LEMMA InitGood ==
  ASSUME Init
  PROVE  ForwardInv
<1>1. EmptyTrie \in TrieStates
  <2>1. /\ Untouched \in [Names -> {"no", "orig", "reorder", "lost"}]
        /\ [n \in Names |-> 0] \in [Names -> Nat] /\ [o \in Outs |-> 0] \in [Outs -> Nat]
        /\ 1 \in Nat \ {0}
    BY DEF Untouched
  <2> QED BY <2>1 DEF EmptyTrie, TrieStates
<1>2. EmptyTrie.queue = {} /\ EmptyTrie.nameQueue = {} /\ EmptyTrie.height = 1
  BY DEF EmptyTrie
<1>3. \A n \in Names : EmptyTrie.takeover[n] = 0
  BY DEF EmptyTrie
<1>4. GoodTrie(EmptyTrie) /\ Settled(EmptyTrie)
  BY <1>1, <1>2, <1>3 DEF GoodTrie, AgreeIn, OneEntryEach, TakeoversPast, DelayBounded, Settled
<1>5. TypeOK
  BY <1>1, NoUndoTyped, ParametersAssumption DEF Init, TypeOK
<1> QED BY <1>2, <1>4, <1>5 DEF Init, ForwardInv

\* Every step of connecting blocks keeps the invariant.
LEMMA ForwardStep ==
  ASSUME ForwardInv, [Forward]_vars
  PROVE  ForwardInv'
<1>1. CASE BeginConnect
  <2>1. TypeOK'
    BY <1>1 DEF ForwardInv, TypeOK, BeginConnect
  <2> QED BY <1>1, <2>1 DEF ForwardInv, BeginConnect, InChain, OnChain
<1>2. ASSUME NEW o \in Spendable, ConnectInput(o)
      PROVE  ForwardInv'
  BY <1>2, ConnectInputGood, OutsAssumption
<1>3. ASSUME NEW o \in Outs, ConnectOutput(o)
      PROVE  ForwardInv'
  BY <1>3, ConnectOutputGood
<1>4. CASE FinishTransactions
  BY <1>4, FinishTransactionsGood
<1>5. CASE FlushConnected
  BY <1>5, FlushConnectedGood
<1>6. CASE Abandon
  BY <1>6, AbandonGood
<1>7. CASE UNCHANGED vars
  BY <1>7 DEF ForwardInv, TypeOK, InChain, OnChain, vars
<1> QED BY <1>1, <1>2, <1>3, <1>4, <1>5, <1>6, <1>7 DEF Forward, Stopped

\* The invariant holds in every state of a chain that only grows.
THEOREM ForwardInvariant == ForwardSpec => []ForwardInv
<1>1. Init => ForwardInv
  BY InitGood
<1>2. ForwardInv /\ [Forward]_vars => ForwardInv'
  BY ForwardStep
<1> QED BY <1>1, <1>2, PTL DEF ForwardSpec

\* The trie, the cache and the undo data keep their types.
THEOREM TrieTypeCorrect == ForwardSpec => []TypeOK
<1>1. ForwardInv => TypeOK
  BY DEF ForwardInv
<1> QED BY <1>1, ForwardInvariant, PTL

\* addClaimToQueues, removeClaimFromQueue and the four loops of incrementBlock
\* keep the row of a name and the row of a height in step: every queued claim
\* or support is in both, under the height at which it becomes valid.
THEOREM QueuesAlwaysAgree == ForwardSpec => []QueuesAgree
<1>1. ForwardInv => QueuesAgree
  BY DEF ForwardInv, GoodTrie, QueuesAgree
<1> QED BY <1>1, ForwardInvariant, PTL

\* Between blocks no claim or support waits for a height that incrementBlock
\* has passed, whatever delays, takeovers, spends and expirations came before.
THEOREM NoClaimStranded == ForwardSpec => []NoneStranded
<1>1. ForwardInv => NoneStranded
  BY DEF ForwardInv, GoodTrie, DelayBounded, Settled, NoneStranded
<1> QED BY <1>1, ForwardInvariant, PTL

-----------------------------------------------------------------------------
(* Where an output is.                                                      *)

\* o waits for its expiration; o is active or queued.
Due(s, o) == \E e \in s.expQueue : e.out = o

Held(s, o) == (\E c \in s.active : c.out = o) \/ (\E e \in s.queue : e.claim.out = o)

\* An output is active or queued, once, under the height of its coin, exactly
\* while it waits for its expiration.
OnePlace(s) ==
    /\ \A c, d \in s.active : c.out = d.out => c = d
    /\ \A c \in s.active, e \in s.queue : c.out # e.claim.out
    /\ \A c \in s.active : c.nHeight = s.coin[c.out]
    /\ \A e \in s.queue : /\ e.claim.nHeight = s.coin[e.claim.out]
                          /\ e.row <= e.claim.nHeight + nMaxDelay
    /\ \A o \in Outs : Due(s, o) <=> Held(s, o)
    /\ \A e \in s.expQueue : s.coin[e.out] # 0 /\ e.row = s.coin[e.out] + nExpirationTime

\* Nothing due has a past row.
NoPastRow(s) == \A e \in s.expQueue : s.height <= e.row

Expires(s, o) == s.coin[o] + nExpirationTime

\* An unspent output that is not due expires at this height at the latest, as
\* inside incrementBlock, or (DueFrom) has expired, as between calls of it.
DueBeyond(s) ==
    \A o \in Outs : KindOf[o] # "update" /\ s.coin[o] # 0 /\ s.height < Expires(s, o) => Due(s, o)

DueFrom(s) ==
    \A o \in Outs : KindOf[o] # "update" /\ s.coin[o] # 0 /\ s.height <= Expires(s, o) => Due(s, o)

\* A claim of a name that some output supports; reorderTrieNode looks such names up.
Supported(o) == ~IsSupport(o) /\ \E u \in Outs : IsSupport(u) /\ NameOf[u] = NameOf[o]

\* No claim of a supported name is spent or expires, so none is pruned while a
\* block is connected: reorderTrieNode would bring it back from the committed trie.
Apart == \A o \in Outs : Supported(o) => o \notin Spendable /\ MaxHeight <= nExpirationTime

Calm(s) == \A c \in base.active : Supported(c.out) => c \in s.active

\* What no loop of incrementBlock changes but the one that moves it.
SameRest(s, t) ==
    /\ t.queue = s.queue /\ t.expQueue = s.expQueue /\ t.coin = s.coin
    /\ t.height = s.height /\ t.setHeights = s.setHeights

\* While every claim of a supported name that was committed is still there,
\* reorderTrieNode finds no pruned name to bring back.
LEMMA ReorderCalm ==
  ASSUME NEW s \in TrieStates, base \in TrieStates, Calm(s),
         NEW ns, \A n \in ns : \E u \in Outs : IsSupport(u) /\ NameOf[u] = n
  PROVE  Reorder(s, ns).active = s.active /\ SameRest(s, Reorder(s, ns))
<1> DEFINE back == {c \in base.active : /\ ~IsSupport(c.out)
                                        /\ NameOf[c.out] \in ns
                                        /\ Claims(s, NameOf[c.out]) = {}}
<1>1. back = {}
  <2> SUFFICES ASSUME NEW c \in back PROVE FALSE
    OBVIOUS
  <2>1. Supported(c.out)
    BY DEF Supported
  <2>2. c \in Claims(s, NameOf[c.out])
    BY <2>1 DEF Calm, Claims
  <2> QED BY <2>2
<1>2. Reorder(s, ns).active = s.active \cup back /\ SameRest(s, Reorder(s, ns))
  BY DEF Reorder, SameRest, TrieStates
<1> QED BY <1>1, <1>2

\* insertClaimIntoTrie adds what it is given.
LEMMA InsertClaimsPlaces ==
  ASSUME NEW s \in TrieStates, NEW cs
  PROVE  InsertClaims(s, cs).active = s.active \cup cs /\ SameRest(s, InsertClaims(s, cs))
  BY DEF InsertClaims, SameRest, TrieStates

\* removeClaimFromTrie takes out what it is given.
LEMMA DropClaimsPlaces ==
  ASSUME NEW s \in TrieStates, NEW cs
  PROVE  DropClaims(s, cs).active = s.active \ cs /\ SameRest(s, DropClaims(s, cs))
  BY DEF DropClaims, SameRest, TrieStates

\* Noting changed names moves nothing.
LEMMA NoteChangesPlaces ==
  ASSUME NEW s, NEW t \in TrieStates
  PROVE  NoteChanges(s, t).active = t.active /\ SameRest(t, NoteChanges(s, t))
  BY DEF NoteChanges, SameRest, TrieStates

\* insertSupportIntoMap adds the supports and, while the trie is calm, nothing else.
LEMMA InsertSupportsPlaces ==
  ASSUME NEW s \in TrieStates, base \in TrieStates, Calm(s),
         NEW cs \in SUBSET ClaimValues, \A c \in cs : IsSupport(c.out)
  PROVE  InsertSupports(s, cs).active = s.active \cup cs /\ SameRest(s, InsertSupports(s, cs))
<1> DEFINE t == [s EXCEPT !.active = @ \cup cs]
<1>1. t \in TrieStates /\ t.active = s.active \cup cs /\ SameRest(s, t)
  BY DEF SameRest, TrieStates
<1>2. Calm(t)
  BY <1>1 DEF Calm
<1>3. \A n \in NamesOf(cs) : \E u \in Outs : IsSupport(u) /\ NameOf[u] = n
  BY DEF NamesOf, ClaimValues
<1>4. InsertSupports(s, cs) = Reorder(t, NamesOf(cs))
  BY DEF InsertSupports
<1> HIDE DEF t
<1> QED BY <1>1, <1>2, <1>3, <1>4, ReorderCalm DEF SameRest

\* removeSupportFromMap takes the supports out and, while the trie is calm, brings nothing back.
LEMMA DropSupportsPlaces ==
  ASSUME NEW s \in TrieStates, base \in TrieStates, Calm(s),
         NEW cs \in SUBSET ClaimValues, \A c \in cs : IsSupport(c.out)
  PROVE  DropSupports(s, cs).active = s.active \ cs /\ SameRest(s, DropSupports(s, cs))
<1> DEFINE t == [s EXCEPT !.active = @ \ cs]
<1>1. t \in TrieStates /\ t.active = s.active \ cs /\ SameRest(s, t)
  BY DEF SameRest, TrieStates
<1>2. Calm(t)
  BY <1>1 DEF Calm, Supported
<1>3. \A n \in NamesOf(cs) : \E u \in Outs : IsSupport(u) /\ NameOf[u] = n
  BY DEF NamesOf, ClaimValues
<1>4. DropSupports(s, cs) = Reorder(t, NamesOf(cs))
  BY DEF DropSupports
<1> HIDE DEF t
<1> QED BY <1>1, <1>2, <1>3, <1>4, ReorderCalm DEF SameRest


-----------------------------------------------------------------------------
(* The loops of incrementBlock, on the places.                              *)

\* What holds of the cache inside a block, incrementBlock's loops included.
Sound(s) ==
    /\ GoodTrie(s) /\ OnePlace(s) /\ NoPastRow(s) /\ DueBeyond(s) /\ Calm(s)
    /\ s.setHeights = {} /\ s.height <= MaxHeight

\* t is s with the entries of row active as cs, one for one.
Activated(s, t, row, cs) ==
    /\ t.active = s.active \cup cs /\ t.queue = s.queue \ row
    /\ t.expQueue = s.expQueue /\ t.coin = s.coin
    /\ t.height = s.height /\ t.setHeights = s.setHeights

\* cs are the claims of the entries of row, one each, perhaps valid from another height.
Renamed(row, cs) ==
    /\ \A c \in cs : \E e \in row : c.out = e.claim.out /\ c.nHeight = e.claim.nHeight
    /\ \A e \in row : \E c \in cs : c.out = e.claim.out
    /\ \A c, d \in cs : c.out = d.out => c = d

\* An entry that moves from the queues to the trie is still in one place.
LEMMA ActivatedSound ==
  ASSUME NEW s, Sound(s), NEW t, GoodTrie(t), NEW row, row \subseteq s.queue, NEW cs,
         Renamed(row, cs), Activated(s, t, row, cs)
  PROVE  Sound(t)
<1>1. OnePlace(s) /\ OneEntryEach(s)
  BY DEF Sound, GoodTrie
<1>2. \A c, d \in t.active : c.out = d.out => c = d
  BY <1>1 DEF Activated, Renamed, OnePlace
<1>3. \A c \in t.active, e \in t.queue : c.out # e.claim.out
  BY <1>1 DEF Activated, Renamed, OnePlace, OneEntryEach
<1>4. \A c \in t.active : c.nHeight = t.coin[c.out]
  BY <1>1 DEF Activated, Renamed, OnePlace
<1>5. \A e \in t.queue : e.claim.nHeight = t.coin[e.claim.out] /\ e.row <= e.claim.nHeight + nMaxDelay
  BY <1>1 DEF Activated, OnePlace
<1>6. \A o \in Outs : Held(t, o) <=> Held(s, o)
  BY <1>1 DEF Activated, Renamed, Held
<1>7. \A o \in Outs : Due(t, o) <=> Due(s, o)
  BY DEF Activated, Due
<1>8. OnePlace(t)
  <2>1. \A e \in t.expQueue : t.coin[e.out] # 0 /\ e.row = t.coin[e.out] + nExpirationTime
    BY <1>1 DEF Activated, OnePlace
  <2>2. \A o \in Outs : Due(t, o) <=> Held(t, o)
    BY <1>1, <1>6, <1>7 DEF OnePlace
  <2> QED BY <1>2, <1>3, <1>4, <1>5, <2>1, <2>2 DEF OnePlace
<1>9. NoPastRow(t) /\ DueBeyond(t) /\ Calm(t)
  BY <1>7 DEF Sound, Activated, NoPastRow, DueBeyond, Expires, Calm
<1> QED BY <1>8, <1>9 DEF Sound, Activated

\* The claims of a row, as they are or valid from now, stand for its entries.
LEMMA EntriesRenamed ==
  ASSUME NEW s, GoodTrie(s), NEW row, row \subseteq s.queue
  PROVE  /\ Renamed(row, Entries(row))
         /\ Renamed(row, ValidNow(s, row))
<1>1. Renamed(row, Entries(row))
  BY DEF Renamed, Entries, GoodTrie, OneEntryEach
<1>2. \A c \in ClaimValues : LET d == [c EXCEPT !.nValidAtHeight = s.height]
                            IN  d.out = c.out /\ d.nHeight = c.nHeight
  BY DEF ClaimValues
<1>3. Entries(row) \subseteq ClaimValues
  BY EntriesTyped DEF GoodTrie
<1>4. \A d \in ValidNow(s, row) : \E c \in Entries(row) :
          d = [c EXCEPT !.nValidAtHeight = s.height] /\ d.out = c.out /\ d.nHeight = c.nHeight
  BY <1>2, <1>3 DEF ValidNow
<1>5. \A c \in Entries(row) : \E d \in ValidNow(s, row) : d.out = c.out
  BY <1>2, <1>3 DEF ValidNow
<1>6. Renamed(row, ValidNow(s, row))
  <2>1. \A c \in ValidNow(s, row) : \E e \in row : c.out = e.claim.out /\ c.nHeight = e.claim.nHeight
    BY <1>1, <1>4 DEF Renamed
  <2>2. \A e \in row : \E c \in ValidNow(s, row) : c.out = e.claim.out
    BY <1>5 DEF Entries
  <2>3. \A c, d \in ValidNow(s, row) : c.out = d.out => c = d
    <3> SUFFICES ASSUME NEW c \in ValidNow(s, row), NEW d \in ValidNow(s, row), c.out = d.out
                 PROVE  c = d
      OBVIOUS
    <3>1. PICK f \in Entries(row) : c = [f EXCEPT !.nValidAtHeight = s.height] /\ c.out = f.out
      BY <1>4
    <3>2. PICK g \in Entries(row) : d = [g EXCEPT !.nValidAtHeight = s.height] /\ d.out = g.out
      BY <1>4
    <3>3. f = g
      BY <1>1, <3>1, <3>2 DEF Renamed
    <3> QED BY <3>1, <3>2, <3>3
  <2> QED BY <2>1, <2>2, <2>3 DEF Renamed
<1> QED BY <1>1, <1>6

\* incrementBlock's first loop keeps every claim in its place.
LEMMA ActivateClaimRowSound ==
  ASSUME NEW s, Sound(s)
  PROVE  /\ Sound(ActivateClaimRow(s))
         /\ ActivateClaimRow(s).expQueue = s.expQueue /\ ActivateClaimRow(s).height = s.height
         /\ ActivateClaimRow(s).coin = s.coin
<1> DEFINE row == ClaimRow(s)
           names == {[out |-> c.out, nHeight |-> s.height] : c \in Entries(row)}
           t == [s EXCEPT !.queue = @ \ row, !.nameQueue = @ \ names]
           u == InsertClaims(t, Entries(row))
           v == NoteChanges(s, u)
<1>1. row \subseteq s.queue /\ s \in TrieStates
  BY DEF ClaimRow, QueueRow, Sound, GoodTrie
<1>2. t \in TrieStates /\ Activated(s, t, row, {})
  BY <1>1 DEF Activated, TrieStates
<1>3. u.active = t.active \cup Entries(row) /\ SameRest(t, u) /\ u \in TrieStates
  BY <1>1, <1>2, EntriesTyped, InsertClaimsPlaces, InsertClaimsSame DEF SameQueues
<1>4. v.active = u.active /\ SameRest(u, v)
  BY <1>3, NoteChangesPlaces
<1>5. v = ActivateClaimRow(s)
  BY DEF ActivateClaimRow
<1>6. GoodTrie(v)
  BY <1>5, ActivateClaimRowShrunk DEF Shrunk, Sound
<1>7. Renamed(row, Entries(row))
  BY <1>1, EntriesRenamed DEF Sound
<1> HIDE DEF t, u, v, row
<1>8. Activated(s, v, row, Entries(row))
  BY <1>2, <1>3, <1>4 DEF Activated, SameRest
<1> QED BY <1>1, <1>5, <1>6, <1>7, <1>8, ActivatedSound DEF Activated

\* The loop over the support row does, and pruned names stay out of it.
LEMMA ActivateSupportRowSound ==
  ASSUME NEW s, Sound(s), base \in TrieStates
  PROVE  /\ Sound(ActivateSupportRow(s))
         /\ ActivateSupportRow(s).expQueue = s.expQueue /\ ActivateSupportRow(s).height = s.height
         /\ ActivateSupportRow(s).coin = s.coin
<1> DEFINE row == SupportRow(s)
           names == {[out |-> c.out, nHeight |-> c.nValidAtHeight] : c \in Entries(row)}
           t == [s EXCEPT !.queue = @ \ row, !.nameQueue = @ \ names]
           u == InsertSupports(t, Entries(row))
           v == NoteChanges(s, u)
<1>1. row \subseteq s.queue /\ s \in TrieStates
  BY DEF SupportRow, QueueRow, Sound, GoodTrie
<1>2. t \in TrieStates /\ Activated(s, t, row, {}) /\ Calm(t)
  BY <1>1 DEF Activated, TrieStates, Sound, Calm
<1>3. Entries(row) \in SUBSET ClaimValues /\ \A c \in Entries(row) : IsSupport(c.out)
  BY <1>1, EntriesTyped DEF SupportRow, Entries
<1>4. u.active = t.active \cup Entries(row) /\ SameRest(t, u) /\ u \in TrieStates
  BY <1>2, <1>3, InsertSupportsPlaces, InsertSupportsSame DEF SameQueues
<1>5. v.active = u.active /\ SameRest(u, v)
  BY <1>4, NoteChangesPlaces
<1>6. v = ActivateSupportRow(s)
  BY DEF ActivateSupportRow
<1>7. GoodTrie(v)
  BY <1>6, ActivateSupportRowShrunk DEF Shrunk, Sound
<1>8. Renamed(row, Entries(row))
  BY <1>1, EntriesRenamed DEF Sound
<1> HIDE DEF t, u, v, row
<1>9. Activated(s, v, row, Entries(row))
  BY <1>2, <1>4, <1>5 DEF Activated, SameRest
<1> QED BY <1>1, <1>6, <1>7, <1>8, <1>9, ActivatedSound DEF Activated

\* A takeover moves the waiting claims of its name.
LEMMA ActivateClaimsOfSound ==
  ASSUME NEW s, Sound(s), NEW ns
  PROVE  /\ Sound(ActivateClaimsOf(s, ns))
         /\ ActivateClaimsOf(s, ns).expQueue = s.expQueue
         /\ ActivateClaimsOf(s, ns).height = s.height /\ ActivateClaimsOf(s, ns).coin = s.coin
<1> DEFINE row == Waiting(s, ns, FALSE)
           t == [s EXCEPT !.queue = @ \ row, !.nameQueue = @ \ NameRow(s, ns, FALSE)]
           u == InsertClaims(t, ValidNow(s, row))
<1>1. row \subseteq s.queue /\ s \in TrieStates
  BY DEF Waiting, Sound, GoodTrie
<1>2. t \in TrieStates /\ Activated(s, t, row, {})
  BY <1>1 DEF Activated, TrieStates
<1>3. u.active = t.active \cup ValidNow(s, row) /\ SameRest(t, u)
  BY <1>2, InsertClaimsPlaces
<1>4. u = ActivateClaimsOf(s, ns)
  BY DEF ActivateClaimsOf
<1>5. GoodTrie(u)
  BY <1>4, ActivateClaimsOfShrunk DEF Shrunk, Sound
<1>6. Renamed(row, ValidNow(s, row))
  BY <1>1, EntriesRenamed DEF Sound
<1> HIDE DEF t, u, row
<1>7. Activated(s, u, row, ValidNow(s, row))
  BY <1>2, <1>3 DEF Activated, SameRest
<1> QED BY <1>1, <1>4, <1>5, <1>6, <1>7, ActivatedSound DEF Activated

\* ... and its waiting supports.
LEMMA ActivateSupportsOfSound ==
  ASSUME NEW s, Sound(s), NEW ns, base \in TrieStates
  PROVE  /\ Sound(ActivateSupportsOf(s, ns))
         /\ ActivateSupportsOf(s, ns).expQueue = s.expQueue
         /\ ActivateSupportsOf(s, ns).height = s.height /\ ActivateSupportsOf(s, ns).coin = s.coin
<1> DEFINE row == Waiting(s, ns, TRUE)
           t == [s EXCEPT !.queue = @ \ row, !.nameQueue = @ \ NameRow(s, ns, TRUE)]
           u == InsertSupports(t, ValidNow(s, row))
<1>1. row \subseteq s.queue /\ s \in TrieStates
  BY DEF Waiting, Sound, GoodTrie
<1>2. t \in TrieStates /\ Activated(s, t, row, {}) /\ Calm(t)
  BY <1>1 DEF Activated, TrieStates, Sound, Calm
<1>3. Renamed(row, ValidNow(s, row))
  BY <1>1, EntriesRenamed DEF Sound
<1>4. ValidNow(s, row) \in SUBSET ClaimValues /\ \A c \in ValidNow(s, row) : IsSupport(c.out)
  <2>1. \A e \in row : IsSupport(e.claim.out)
    BY DEF Waiting, NameRow
  <2> HIDE DEF row
  <2> QED BY <1>1, <1>3, <2>1, ValidNowTyped DEF Renamed
<1>5. u.active = t.active \cup ValidNow(s, row) /\ SameRest(t, u)
  BY <1>2, <1>4, InsertSupportsPlaces
<1>6. u = ActivateSupportsOf(s, ns)
  BY DEF ActivateSupportsOf
<1>7. GoodTrie(u)
  BY <1>6, ActivateSupportsOfShrunk DEF Shrunk, Sound
<1> HIDE DEF t, u, row
<1>8. Activated(s, u, row, ValidNow(s, row))
  BY <1>2, <1>5 DEF Activated, SameRest
<1> QED BY <1>1, <1>3, <1>6, <1>7, <1>8, ActivatedSound DEF Activated

\* t is s without the expirations of this height and what they stand for.
Expired(s, t, support) ==
    /\ t.active = s.active \ Expiring(s, support)
    /\ t.expQueue = s.expQueue \ ExpirationRow(s, support)
    /\ t.queue = s.queue /\ t.coin = s.coin
    /\ t.height = s.height /\ t.setHeights = s.setHeights

\* What expires at this height does not wait in a queue: the longest delay is
\* shorter than the life of a claim.  So it is found in the trie or the map.
LEMMA ExpiringIsActive ==
  ASSUME NEW s, GoodTrie(s), OnePlace(s), NEW support
  PROVE  /\ ExpirationFound(s, support)
         /\ \A e \in ExpirationRow(s, support), q \in s.queue : q.claim.out # e.out
<1>1. ASSUME NEW e \in ExpirationRow(s, support), NEW q \in s.queue, q.claim.out = e.out
      PROVE  FALSE
  <2>1. e \in s.expQueue /\ e.row = s.height
    BY DEF ExpirationRow
  <2>2. s.height \in Nat /\ q.row \in Nat /\ q.claim.nHeight \in Nat
    BY DEF GoodTrie, TrieStates, ClaimValues
  <2>3. s.height = q.claim.nHeight + nExpirationTime
    BY <2>1, <1>1 DEF OnePlace
  <2>4. s.height <= q.row /\ q.row <= q.claim.nHeight + nMaxDelay
    BY DEF GoodTrie, DelayBounded, OnePlace
  <2> QED BY <2>2, <2>3, <2>4, ParametersAssumption
<1>2. ASSUME NEW e \in ExpirationRow(s, support)
      PROVE  \E c \in s.active : c.out = e.out
  <2>1. e \in s.expQueue /\ e.out \in Outs
    BY DEF ExpirationRow, GoodTrie, TrieStates
  <2>2. Held(s, e.out)
    BY <2>1 DEF OnePlace, Due
  <2> QED BY <1>1, <2>2 DEF Held
<1> QED BY <1>1, <1>2 DEF ExpirationFound

\* Expiry takes an output out of its place and out of the row together.
LEMMA ExpiredSound ==
  ASSUME Apart, NEW s, Sound(s), NEW support, NEW t, GoodTrie(t), Expired(s, t, support),
         base \in TrieStates
  PROVE  Sound(t)
<1>1. OnePlace(s) /\ s \in TrieStates /\ s.height \in Nat
  BY DEF Sound, GoodTrie, TrieStates
<1>2. \A e \in ExpirationRow(s, support), q \in s.queue : q.claim.out # e.out
  BY <1>1, ExpiringIsActive DEF Sound
<1>3. \A e \in s.expQueue : e.row = Expires(s, e.out) /\ e.out \in Outs
  BY <1>1 DEF OnePlace, Expires, TrieStates
<1>4. \A o \in Outs : Due(t, o) <=> Due(s, o) /\ ~(Expires(s, o) = s.height /\ IsSupport(o) = support)
  BY <1>3 DEF Due, Expired, ExpirationRow
<1>5. \A o \in Outs : Held(t, o) <=> Held(s, o) /\ ~\E e \in ExpirationRow(s, support) : e.out = o
  BY <1>2 DEF Held, Expired, Expiring
<1>6. \A o \in Outs : Due(t, o) <=> Held(t, o)
  <2> TAKE o \in Outs
  <2>1. Due(s, o) <=> Held(s, o)
    BY <1>1 DEF OnePlace
  <2>2. (\E e \in ExpirationRow(s, support) : e.out = o)
           <=> Due(s, o) /\ Expires(s, o) = s.height /\ IsSupport(o) = support
    BY <1>3 DEF ExpirationRow, Due
  <2> QED BY <1>4, <1>5, <2>1, <2>2
<1>7. OnePlace(t)
  BY <1>1, <1>6 DEF OnePlace, Expired
<1>8. NoPastRow(t)
  BY DEF Sound, NoPastRow, Expired
<1>9. DueBeyond(t)
  <2> SUFFICES ASSUME NEW o \in Outs, KindOf[o] # "update", t.coin[o] # 0, t.height < Expires(t, o)
               PROVE  Due(t, o)
    BY DEF DueBeyond
  <2>1. Expires(s, o) = Expires(t, o) /\ Expires(s, o) \in Nat /\ t.height = s.height
    BY <1>1, ParametersAssumption DEF Expires, Expired, TrieStates
  <2>2. Due(s, o)
    BY <2>1 DEF Sound, DueBeyond, Expired
  <2> QED BY <1>1, <1>4, <2>1, <2>2
<1>10. Calm(t)
  <2> SUFFICES ASSUME NEW c \in base.active, Supported(c.out)
               PROVE  c \in t.active
    BY DEF Calm
  <2>1. c \in s.active /\ c.out \in Outs
    BY DEF Sound, Calm, TrieStates, ClaimValues
  <2>2. c \notin Expiring(s, support)
    <3> SUFFICES ASSUME c \in Expiring(s, support) PROVE FALSE
      OBVIOUS
    <3>1. PICK e \in s.expQueue : e.row = s.height /\ e.out = c.out
      BY DEF Expiring, ExpirationRow
    <3>2. s.height = s.coin[c.out] + nExpirationTime /\ s.coin[c.out] # 0
      BY <1>1, <3>1 DEF OnePlace
    <3>3. s.coin[c.out] \in Nat /\ s.height <= MaxHeight /\ MaxHeight <= nExpirationTime
      BY <1>1, <2>1 DEF TrieStates, Sound, Apart
    <3> QED BY <1>1, <3>2, <3>3, ParametersAssumption
  <2> QED BY <2>1, <2>2 DEF Expired
<1> QED BY <1>7, <1>8, <1>9, <1>10 DEF Sound, Expired

\* The loop over expiring claims.
LEMMA ExpireClaimsSound ==
  ASSUME Apart, NEW s, Sound(s), base \in TrieStates
  PROVE  /\ Sound(ExpireClaims(s))
         /\ ExpireClaims(s).expQueue = s.expQueue \ ExpirationRow(s, FALSE)
         /\ ExpireClaims(s).height = s.height /\ ExpireClaims(s).coin = s.coin
<1> DEFINE t == [s EXCEPT !.expQueue = @ \ ExpirationRow(s, FALSE)]
           u == DropClaims(t, Expiring(s, FALSE))
           v == NoteChanges(s, u)
<1>1. /\ t \in TrieStates /\ t.active = s.active /\ t.expQueue = s.expQueue \ ExpirationRow(s, FALSE)
      /\ t.queue = s.queue /\ t.coin = s.coin /\ t.height = s.height /\ t.setHeights = s.setHeights
  BY DEF Sound, GoodTrie, TrieStates
<1>2. u.active = t.active \ Expiring(s, FALSE) /\ SameRest(t, u) /\ u \in TrieStates
  BY <1>1, DropClaimsPlaces, DropClaimsSame DEF SameQueues
<1>3. v.active = u.active /\ SameRest(u, v)
  BY <1>2, NoteChangesPlaces
<1>4. v = ExpireClaims(s)
  BY DEF ExpireClaims
<1>5. GoodTrie(v)
  BY <1>4, ExpireClaimsShrunk DEF Shrunk, Sound
<1> HIDE DEF t, u, v
<1>6. Expired(s, v, FALSE)
  BY <1>1, <1>2, <1>3 DEF Expired, SameRest
<1> QED BY <1>4, <1>5, <1>6, ExpiredSound DEF Expired

\* The loop over expiring supports.
LEMMA ExpireSupportsSound ==
  ASSUME Apart, NEW s, Sound(s), base \in TrieStates
  PROVE  /\ Sound(ExpireSupports(s))
         /\ ExpireSupports(s).expQueue = s.expQueue \ ExpirationRow(s, TRUE)
         /\ ExpireSupports(s).height = s.height /\ ExpireSupports(s).coin = s.coin
<1> DEFINE t == [s EXCEPT !.expQueue = @ \ ExpirationRow(s, TRUE)]
           u == DropSupports(t, Expiring(s, TRUE))
           v == NoteChanges(s, u)
<1>1. /\ t \in TrieStates /\ t.active = s.active /\ t.expQueue = s.expQueue \ ExpirationRow(s, TRUE)
      /\ t.queue = s.queue /\ t.coin = s.coin /\ t.height = s.height /\ t.setHeights = s.setHeights
  BY DEF Sound, GoodTrie, TrieStates
<1>2. Calm(t)
  BY <1>1 DEF Sound, Calm
<1>3. Expiring(s, TRUE) \in SUBSET ClaimValues /\ \A c \in Expiring(s, TRUE) : IsSupport(c.out)
  BY DEF Expiring, ExpirationRow, Sound, GoodTrie, TrieStates
<1>4. u.active = t.active \ Expiring(s, TRUE) /\ SameRest(t, u) /\ u \in TrieStates
  BY <1>1, <1>2, <1>3, DropSupportsPlaces, DropSupportsSame DEF SameQueues
<1>5. v.active = u.active /\ SameRest(u, v)
  BY <1>4, NoteChangesPlaces
<1>6. v = ExpireSupports(s)
  BY DEF ExpireSupports
<1>7. GoodTrie(v)
  BY <1>6, ExpireSupportsShrunk DEF Shrunk, Sound
<1> HIDE DEF t, u, v
<1>8. Expired(s, v, TRUE)
  BY <1>1, <1>4, <1>5 DEF Expired, SameRest
<1> QED BY <1>6, <1>7, <1>8, ExpiredSound DEF Expired

\* Every output is where it should be, between blocks and between a block's operations.
Placing(s) == OnePlace(s) /\ NoPastRow(s) /\ DueFrom(s)

\* incrementBlock finds everything it looks for, and what is still due
\* afterwards expires at the next height or later.
\* incrementBlock finds everything it looks for, and what is still due
\* afterwards expires at the next height or later.
LEMMA IncrementBlockPlaces ==
  ASSUME Apart, NEW s, Sound(s), base \in TrieStates
  PROVE  /\ IncrementBlock(s).ok
         /\ Placing(IncrementBlock(s).cache) /\ FlushOk(IncrementBlock(s).cache)
         /\ IncrementBlock(s).cache.coin = s.coin
<1> DEFINE s1 == ActivateClaimRow(s)
           s2 == ExpireClaims(s1)
           s3 == ActivateSupportRow(s2)
           s4 == ExpireSupports(s3)
           ns == TakenOver(s4)
           s5 == ActivateClaimsOf(s4, ns)
           s6 == ActivateSupportsOf(s5, ns)
           t  == SetTakeoverHeights(s6, ns)
<1>0. /\ IncrementBlock(s).cache = t
      /\ IncrementBlock(s).ok <=> /\ ClaimRowFound(s) /\ ExpirationFound(s1, FALSE)
                                  /\ ExpirationFound(s3, TRUE) /\ ClaimsOfFound(s4, ns)
  BY DEF IncrementBlock
<1>1. Sound(s1) /\ s1.expQueue = s.expQueue /\ s1.height = s.height /\ s1.coin = s.coin
  BY ActivateClaimRowSound
<1>2. /\ Sound(s2) /\ s2.height = s1.height /\ s2.coin = s1.coin
      /\ s2.expQueue = s1.expQueue \ ExpirationRow(s1, FALSE)
  BY <1>1, ExpireClaimsSound
<1>3. Sound(s3) /\ s3.expQueue = s2.expQueue /\ s3.height = s2.height /\ s3.coin = s2.coin
  BY <1>2, ActivateSupportRowSound
<1>4. /\ Sound(s4) /\ s4.height = s3.height /\ s4.coin = s3.coin
      /\ s4.expQueue = s3.expQueue \ ExpirationRow(s3, TRUE)
  BY <1>3, ExpireSupportsSound
<1>5. Sound(s5) /\ s5.expQueue = s4.expQueue /\ s5.height = s4.height /\ s5.coin = s4.coin
  BY <1>4, ActivateClaimsOfSound
<1>6. Sound(s6) /\ s6.expQueue = s5.expQueue /\ s6.height = s5.height /\ s6.coin = s5.coin
  BY <1>5, ActivateSupportsOfSound
<1>7. ns \subseteq Names
  <2> HIDE DEF s4
  <2> QED BY <1>4 DEF TakenOver, Sound, GoodTrie, TrieStates
<1>8. ClaimRowFound(s)
  BY DEF ClaimRowFound, ClaimRow, QueueRow, Entries, Sound, GoodTrie, AgreeIn
<1>9. ExpirationFound(s1, FALSE) /\ ExpirationFound(s3, TRUE)
  <2> HIDE DEF s1, s3
  <2> QED BY <1>1, <1>3, ExpiringIsActive DEF Sound
<1>10. ClaimsOfFound(s4, ns)
  <2> HIDE DEF s4, ns
  <2>1. NameRow(s4, ns, FALSE) = {[out |-> e.claim.out, nHeight |-> e.row] : e \in Waiting(s4, ns, FALSE)}
    BY <1>4, WaitingNames DEF Sound
  <2>2. \A q \in NameRow(s4, ns, FALSE) : q = [out |-> q.out, nHeight |-> q.nHeight]
    BY <1>4 DEF NameRow, Sound, GoodTrie, TrieStates
  <2> QED BY <2>1, <2>2 DEF ClaimsOfFound
<1>11. IncrementBlock(s).ok
  BY <1>0, <1>8, <1>9, <1>10
<1> HIDE DEF s1, s2, s3, s4, s5
<1>12. /\ \A e \in s6.expQueue : e.row # s6.height
       /\ s6.coin = s.coin /\ s6.height = s.height
  BY <1>1, <1>2, <1>3, <1>4, <1>5, <1>6 DEF ExpirationRow
<1>13. /\ t.active = s6.active /\ t.queue = s6.queue /\ t.expQueue = s6.expQueue
       /\ t.coin = s6.coin /\ t.height = s6.height + 1
       /\ t.setHeights = {n \in ns : Claims(s6, n) # {}}
  <2> HIDE DEF s6, ns
  <2> QED BY <1>6 DEF SetTakeoverHeights, Sound, GoodTrie, TrieStates
<1> HIDE DEF s6, t, ns
<1>14. FlushOk(t)
  BY <1>13 DEF FlushOk, Claims
<1>15. /\ s6 \in TrieStates /\ s6.height \in Nat
       /\ \A o \in Outs : s6.coin[o] \in Nat
       /\ \A e \in s6.expQueue : e.row \in Nat /\ e.out \in Outs
  BY <1>6 DEF Sound, GoodTrie, TrieStates
<1>16. OnePlace(t)
  BY <1>6, <1>13 DEF Sound, OnePlace, Due, Held
<1>17. NoPastRow(t)
  BY <1>6, <1>12, <1>13, <1>15 DEF Sound, NoPastRow
<1>18. DueFrom(t)
  <2> SUFFICES ASSUME NEW o \in Outs, KindOf[o] # "update", t.coin[o] # 0, t.height <= Expires(t, o)
               PROVE  Due(t, o)
    BY DEF DueFrom
  <2>1. s6.height < Expires(s6, o)
    BY <1>13, <1>15, ParametersAssumption DEF Expires
  <2>2. Due(s6, o)
    BY <1>6, <1>13, <2>1 DEF Sound, DueBeyond
  <2> QED BY <2>2, <1>13 DEF Due
<1> QED BY <1>0, <1>11, <1>12, <1>13, <1>14, <1>16, <1>17, <1>18 DEF Placing

-----------------------------------------------------------------------------
(* What a transaction does to the places.                                   *)

\* A spent output leaves its place and its expiration row.
LEMMA RemoveOutputPlaces ==
  ASSUME NEW s, GoodTrie(s), OnePlace(s), Calm(s), NEW o \in Outs, base \in TrieStates,
         s.coin[o] # 0
  PROVE  LET t == RemoveOutput(s, o, s.coin[o]) IN
         /\ t.active = {c \in s.active : c.out # o}
         /\ t.queue = {e \in s.queue : e.claim.out # o}
         /\ t.expQueue = {e \in s.expQueue : e.out # o}
         /\ t.coin = s.coin /\ t.height = s.height /\ t.setHeights = s.setHeights
<1> DEFINE h == s.coin[o]
           gone == {[row |-> h + nExpirationTime, out |-> o]}
           unexpire(t) == [t EXCEPT !.expQueue = @ \ gone]
           fromQueue   == {[s EXCEPT !.queue = @ \ {e},
                                     !.nameQueue = @ \ {[out |-> o, nHeight |-> e.row]}]
                           : e \in QueuedEntries(s, o)}
           fromActive  == {DropActive(s, c) : c \in ActiveEntries(s, o)}
           touched     == [s EXCEPT !.copied[NameOf[o]] = IF @ = "no" THEN "orig" ELSE @]
           Left(t) == /\ t.active = {c \in s.active : c.out # o}
                      /\ t.queue = {e \in s.queue : e.claim.out # o}
                      /\ t.coin = s.coin /\ t.height = s.height /\ t.setHeights = s.setHeights
                      /\ t.expQueue = s.expQueue /\ t \in TrieStates
<1>1. s \in TrieStates
  BY DEF GoodTrie
<1>2. s.expQueue \ gone = {e \in s.expQueue : e.out # o}
  <2>1. \A e \in s.expQueue : e.out = o => e = [row |-> h + nExpirationTime, out |-> o]
    BY <1>1 DEF OnePlace, TrieStates
  <2> QED BY <2>1
<1>3. ASSUME NEW t, Left(t)
      PROVE  /\ unexpire(t).active = {c \in s.active : c.out # o}
             /\ unexpire(t).queue = {e \in s.queue : e.claim.out # o}
             /\ unexpire(t).expQueue = {e \in s.expQueue : e.out # o}
             /\ unexpire(t).coin = s.coin /\ unexpire(t).height = s.height
             /\ unexpire(t).setHeights = s.setHeights
  <2> HIDE DEF gone
  <2> QED BY <1>2, <1>3 DEF TrieStates
<1>4. ASSUME NEW t \in fromQueue
      PROVE  Left(t)
  <2>1. PICK e \in QueuedEntries(s, o) :
             t = [s EXCEPT !.queue = @ \ {e}, !.nameQueue = @ \ {[out |-> o, nHeight |-> e.row]}]
    OBVIOUS
  <2>2. e \in s.queue /\ e.claim.out = o
    BY DEF QueuedEntries
  <2>3. s.queue \ {e} = {f \in s.queue : f.claim.out # o}
    BY <2>2 DEF GoodTrie, OneEntryEach
  <2>4. s.active = {c \in s.active : c.out # o}
    BY <2>2 DEF OnePlace
  <2> QED BY <1>1, <2>1, <2>3, <2>4 DEF TrieStates
<1>5. ASSUME NEW t \in fromActive
      PROVE  Left(t)
  <2>1. PICK c \in ActiveEntries(s, o) : t = DropActive(s, c)
    OBVIOUS
  <2>2. c \in s.active /\ c.out = o
    BY DEF ActiveEntries
  <2>3. t.active = s.active \ {c} /\ SameRest(s, t) /\ t \in TrieStates
    <3>1. CASE IsSupport(c.out)
      <4>1. t = DropSupports(s, {c}) /\ {c} \in SUBSET ClaimValues /\ \A d \in {c} : IsSupport(d.out)
        BY <1>1, <2>1, <2>2, <3>1 DEF DropActive, TrieStates
      <4> QED BY <1>1, <4>1, DropSupportsPlaces, DropSupportsSame DEF SameQueues
    <3>2. CASE ~IsSupport(c.out)
      BY <1>1, <2>1, <3>2, DropClaimsPlaces, DropClaimsSame DEF DropActive, SameQueues
    <3> QED BY <3>1, <3>2
  <2>4. s.active \ {c} = {d \in s.active : d.out # o}
    BY <2>2 DEF OnePlace
  <2>5. s.queue = {e \in s.queue : e.claim.out # o}
    BY <2>2 DEF OnePlace
  <2> QED BY <2>3, <2>4, <2>5 DEF SameRest
<1>6. RemoveOutput(s, o, h) =
         IF fromQueue # {} THEN unexpire(CHOOSE t \in fromQueue : TRUE)
         ELSE IF fromActive # {} THEN unexpire(CHOOSE t \in fromActive : TRUE)
         ELSE IF IsSupport(o) \/ Claims(s, NameOf[o]) = {} THEN s
         ELSE touched
  BY DEF RemoveOutput
<1>7. CASE fromQueue = {} /\ fromActive = {}
  <2>1. QueuedEntries(s, o) = {} /\ ActiveEntries(s, o) = {}
    BY <1>7
  <2>2. \A e \in s.queue : e.claim.out # o
    BY <2>1 DEF QueuedEntries, GoodTrie, AgreeIn
  <2>3. \A c \in s.active : c.out # o
    BY <2>1 DEF ActiveEntries
  <2>4. \A e \in s.expQueue : e.out # o
    BY <2>2, <2>3 DEF OnePlace, Held, Due
  <2>5. RemoveOutput(s, o, h) \in {s, touched}
    <3> HIDE DEF fromQueue, fromActive, touched, h
    <3> QED BY <1>6, <1>7
  <2>6. touched.active = s.active /\ SameRest(s, touched)
    BY <1>1 DEF SameRest, TrieStates
  <2> HIDE DEF touched
  <2> QED BY <2>2, <2>3, <2>4, <2>5, <2>6 DEF SameRest
<1> HIDE DEF fromQueue, fromActive, unexpire, touched, Left
<1>8. CASE fromQueue # {}
  <2>1. (CHOOSE t \in fromQueue : TRUE) \in fromQueue
    BY <1>8
  <2> QED BY <1>3, <1>4, <1>6, <1>8, <2>1
<1>9. CASE fromQueue = {} /\ fromActive # {}
  <2>1. (CHOOSE t \in fromActive : TRUE) \in fromActive
    BY <1>9
  <2> QED BY <1>3, <1>5, <1>6, <1>9, <2>1
<1> QED BY <1>7, <1>8, <1>9

\* ... and the coin goes with it.
LEMMA SpentPlaces ==
  ASSUME NEW s \in TrieStates, Placing(s), NEW o \in Outs, NEW t,
         t.active = {c \in s.active : c.out # o},
         t.queue = {e \in s.queue : e.claim.out # o},
         t.expQueue = {e \in s.expQueue : e.out # o},
         t.coin = [s.coin EXCEPT ![o] = 0], t.height = s.height
  PROVE  Placing(t)
<1>1. OnePlace(s) /\ NoPastRow(s) /\ DueFrom(s)
  BY DEF Placing
<1>2. \A p \in Outs : p # o => t.coin[p] = s.coin[p]
  BY DEF TrieStates
<1>3. t.coin[o] = 0
  BY DEF TrieStates
<1>4. /\ \A c \in s.active : c.out \in Outs
      /\ \A e \in s.queue : e.claim.out \in Outs
      /\ \A e \in s.expQueue : e.out \in Outs
  BY DEF TrieStates, ClaimValues
<1>5. \A p \in Outs : Due(t, p) <=> Due(s, p) /\ p # o
  BY DEF Due
<1>6. \A p \in Outs : Held(t, p) <=> Held(s, p) /\ p # o
  BY DEF Held
<1>7. OnePlace(t)
  <2>1. \A p \in Outs : Due(t, p) <=> Held(t, p)
    BY <1>1, <1>5, <1>6 DEF OnePlace
  <2>2. \A e \in t.expQueue : t.coin[e.out] # 0 /\ e.row = t.coin[e.out] + nExpirationTime
    BY <1>1, <1>2, <1>4 DEF OnePlace
  <2>3. \A c \in t.active : c.nHeight = t.coin[c.out]
    BY <1>1, <1>2, <1>4 DEF OnePlace
  <2>4. \A e \in t.queue : e.claim.nHeight = t.coin[e.claim.out] /\ e.row <= e.claim.nHeight + nMaxDelay
    BY <1>1, <1>2, <1>4 DEF OnePlace
  <2> QED BY <1>1, <2>1, <2>2, <2>3, <2>4 DEF OnePlace
<1>8. NoPastRow(t)
  BY <1>1 DEF NoPastRow
<1>9. DueFrom(t)
  BY <1>1, <1>2, <1>3, <1>5 DEF DueFrom, Expires
<1> QED BY <1>7, <1>8, <1>9 DEF Placing

\* addClaim and addSupport write a new entry to the queue and the expirations,
\* and leave the trie alone.
LEMMA AddOutputPlaces ==
  ASSUME NEW s, GoodTrie(s), NEW o \in Outs
  PROVE  LET t == AddOutput(s, o) IN
         /\ t.active = s.active /\ t.coin = s.coin
         /\ t.height = s.height /\ t.setHeights = s.setHeights
         /\ t.expQueue = s.expQueue \cup {[row |-> s.height + nExpirationTime, out |-> o]}
         /\ \E e : /\ t.queue = s.queue \cup {e}
                   /\ e.claim.out = o /\ e.claim.nHeight = s.height
                   /\ e.row <= s.height + nMaxDelay
<1> DEFINE delay == IF SameOwner(OriginalTop(s, NameOf[o]), o) THEN 0 ELSE Delay(s, NameOf[o])
           v == s.height + delay
           c == [out |-> o, nHeight |-> s.height, nValidAtHeight |-> v]
           new == [row |-> v, claim |-> c]
           t == AddToQueues(s, c)
<1>1. delay \in Nat /\ delay <= nMaxDelay
  BY DelayRange, ParametersAssumption, OutsAssumption
<1>2. s \in TrieStates /\ s.height \in Nat
  BY DEF GoodTrie, TrieStates
<1>3. v <= s.height + nMaxDelay
  <2> HIDE DEF delay
  <2> QED BY <1>1, <1>2, ParametersAssumption
<1>4. t = AddOutput(s, o)
  BY DEF AddOutput
<1> HIDE DEF delay, v
<1>5. /\ t.active = s.active /\ t.coin = s.coin
      /\ t.height = s.height /\ t.setHeights = s.setHeights
      /\ t.expQueue = s.expQueue \cup {[row |-> s.height + nExpirationTime, out |-> o]}
      /\ t.queue = s.queue \cup {new}
  BY <1>2 DEF AddToQueues, TrieStates
<1>6. new.claim.out = o /\ new.claim.nHeight = s.height /\ new.row <= s.height + nMaxDelay
  BY <1>3
<1> HIDE DEF t, new
<1> QED BY <1>4, <1>5, <1>6

\* t is u with a coin for o, and u is s with o queued, or s itself for an update
\* that does not count.
Added(s, u, o, t) ==
    /\ u \in {AddOutput(s, o), s} /\ (KindOf[o] # "update" => u = AddOutput(s, o))
    /\ t.active = u.active /\ t.queue = u.queue /\ t.expQueue = u.expQueue
    /\ t.height = u.height /\ t.setHeights = u.setHeights
    /\ t.coin = [u.coin EXCEPT ![o] = s.height]

\* A new output has a coin; if it counts as a claim or support it is queued too.
LEMMA AddedPlaces ==
  ASSUME NEW s, GoodTrie(s), Placing(s), NEW o \in Outs, s.coin[o] = 0,
         NEW u, NEW t, Added(s, u, o, t)
  PROVE  /\ Placing(t) /\ t.active = s.active
         /\ t.height = s.height /\ t.setHeights = s.setHeights
         /\ t.coin = [s.coin EXCEPT ![o] = s.height]
<1> DEFINE x == [row |-> s.height + nExpirationTime, out |-> o]
<1>1. s \in TrieStates /\ s.height \in Nat \ {0}
  BY DEF GoodTrie, TrieStates
<1>2. OnePlace(s) /\ NoPastRow(s) /\ DueFrom(s)
  BY DEF Placing
<1>3. ~Due(s, o) /\ ~Held(s, o)
  BY <1>2 DEF OnePlace, Due
<1>4. /\ u \in {AddOutput(s, o), s} /\ (KindOf[o] # "update" => u = AddOutput(s, o))
      /\ t.active = u.active /\ t.queue = u.queue /\ t.expQueue = u.expQueue
      /\ t.height = u.height /\ t.setHeights = u.setHeights
      /\ t.coin = [u.coin EXCEPT ![o] = s.height]
  BY DEF Added
<1>5. /\ u.active = s.active /\ u.height = s.height /\ u.setHeights = s.setHeights
      /\ u.coin = s.coin
  BY <1>4, AddOutputPlaces
<1>6. \A p \in Outs : p # o => t.coin[p] = s.coin[p]
  BY <1>1, <1>4, <1>5 DEF TrieStates
<1>7. t.coin[o] = s.height
  BY <1>1, <1>4, <1>5 DEF TrieStates
<1>8. /\ \A c \in s.active : c.out \in Outs
      /\ \A e \in s.queue : e.claim.out \in Outs
      /\ \A e \in s.expQueue : e.out \in Outs
  BY <1>1 DEF TrieStates, ClaimValues
<1>9. CASE u # AddOutput(s, o)
  <2>1. t.queue = s.queue /\ t.expQueue = s.expQueue /\ t.active = s.active /\ t.height = s.height
    BY <1>4, <1>5, <1>9
  <2>2. OnePlace(t)
    <3>1. \A c \in t.active : c.out # o
      BY <1>3, <2>1 DEF Held
    <3>2. \A e \in t.queue : e.claim.out # o
      BY <1>3, <2>1 DEF Held
    <3>3. \A e \in t.expQueue : e.out # o
      BY <1>3, <2>1 DEF Due
    <3>4. \A p \in Outs : Due(t, p) <=> Held(t, p)
      BY <1>2, <2>1 DEF OnePlace, Due, Held
    <3> QED BY <1>2, <1>6, <1>8, <2>1, <3>1, <3>2, <3>3, <3>4 DEF OnePlace
  <2>3. NoPastRow(t) /\ DueFrom(t)
    BY <1>2, <1>4, <1>6, <1>9, <2>1 DEF NoPastRow, DueFrom, Expires, Due
  <2> QED BY <1>4, <1>5, <2>2, <2>3 DEF Placing
<1>10. CASE u = AddOutput(s, o)
  <2>1. PICK e : /\ t.queue = s.queue \cup {e}
                 /\ e.claim.out = o /\ e.claim.nHeight = s.height
                 /\ e.row <= s.height + nMaxDelay
    BY <1>4, <1>10, AddOutputPlaces
  <2>2. t.expQueue = s.expQueue \cup {x} /\ t.active = s.active /\ t.height = s.height
    BY <1>4, <1>5, <1>10, AddOutputPlaces
  <2>3. x.out = o /\ x.row = s.height + nExpirationTime
    OBVIOUS
  <2> HIDE DEF x
  <2>4. \A p \in Outs : Due(t, p) <=> Due(s, p) \/ p = o
    BY <2>2, <2>3 DEF Due
  <2>5. \A p \in Outs : Held(t, p) <=> Held(s, p) \/ p = o
    BY <2>1, <2>2 DEF Held
  <2>6. OnePlace(t)
    <3>1. \A c \in t.active : c.out # o
      BY <1>3, <2>2 DEF Held
    <3>2. \A f \in s.queue : f.claim.out # o
      BY <1>3 DEF Held
    <3>3. \A f \in s.expQueue : f.out # o
      BY <1>3 DEF Due
    <3>4. \A p \in Outs : Due(t, p) <=> Held(t, p)
      BY <1>2, <2>4, <2>5 DEF OnePlace
    <3>5. \A f \in t.queue : f.claim.nHeight = t.coin[f.claim.out] /\ f.row <= f.claim.nHeight + nMaxDelay
      BY <1>2, <1>6, <1>7, <1>8, <2>1, <3>2 DEF OnePlace
    <3>6. \A f \in t.expQueue : t.coin[f.out] # 0 /\ f.row = t.coin[f.out] + nExpirationTime
      BY <1>1, <1>2, <1>6, <1>7, <1>8, <2>2, <2>3, <3>3 DEF OnePlace
    <3>7. \A c, d \in t.active : c.out = d.out => c = d
      BY <1>2, <2>2 DEF OnePlace
    <3>8. \A c \in t.active, f \in t.queue : c.out # f.claim.out
      BY <1>2, <2>1, <2>2, <3>1 DEF OnePlace
    <3>9. \A c \in t.active : c.nHeight = t.coin[c.out]
      BY <1>2, <1>6, <1>8, <2>2, <3>1 DEF OnePlace
    <3> QED BY <3>4, <3>5, <3>6, <3>7, <3>8, <3>9 DEF OnePlace
  <2>7. NoPastRow(t)
    BY <1>1, <1>2, <2>2, <2>3, ParametersAssumption DEF NoPastRow
  <2>8. DueFrom(t)
    BY <1>2, <1>6, <2>2, <2>4 DEF DueFrom, Expires
  <2> QED BY <1>4, <1>5, <2>6, <2>7, <2>8 DEF Placing
<1> QED BY <1>9, <1>10

-----------------------------------------------------------------------------
(* The invariant on the places, over the one on the queues.                 *)

\* Only what the chain or the block in hand made has a coin, so that a new output
\* is in no place yet; and flush finds a node for every takeover height.
PlaceInv ==
    /\ phase \in {"idle", "connect", "connected"}
    /\ Placing(base) /\ base.setHeights = {}
    /\ Placing(cache)
    /\ phase = "idle" => cache = base
    /\ phase = "connect" => cache.setHeights = {} /\ Calm(cache) /\ cache.height <= MaxHeight
    /\ phase = "connected" => FlushOk(cache)
    /\ \A o \in Outs : cache.coin[o] # 0 => InChain(o)
    /\ \A o \in Outs : base.coin[o] # 0 => OnChain(o)

\* Between a block's operations the cache is sound: incrementBlock may run on it.
LEMMA PlacingSound ==
  ASSUME ForwardInv, PlaceInv, phase = "connect"
  PROVE  Sound(cache)
<1>1. DueFrom(cache) /\ cache \in TrieStates
  BY DEF PlaceInv, Placing, ForwardInv, GoodTrie
<1>2. DueBeyond(cache)
  <2> SUFFICES ASSUME NEW o \in Outs, KindOf[o] # "update", cache.coin[o] # 0,
                      cache.height < Expires(cache, o)
               PROVE  Due(cache, o)
    BY DEF DueBeyond
  <2>1. cache.height \in Nat /\ Expires(cache, o) \in Nat
    BY <1>1, ParametersAssumption DEF Expires, TrieStates
  <2> QED BY <1>1, <2>1 DEF DueFrom
<1> QED BY <1>2 DEF Sound, PlaceInv, ForwardInv, Placing

\* A block begins on the committed trie, where nothing is pruned yet.
LEMMA BeginConnectPlaces ==
  ASSUME PlaceInv, BeginConnect
  PROVE  PlaceInv'
<1>1. /\ phase = "idle" /\ phase' = "connect" /\ cache = base /\ base.height <= MaxHeight
      /\ UNCHANGED <<base, cache, log, chain>>
  BY DEF BeginConnect, PlaceInv
<1>2. Calm(cache)'
  BY <1>1 DEF Calm
<1>3. (\A o \in Outs : cache.coin[o] # 0 => InChain(o))'
  BY <1>1 DEF PlaceInv, InChain
<1>4. (\A o \in Outs : base.coin[o] # 0 => OnChain(o))'
  BY <1>1 DEF PlaceInv, OnChain
<1> QED BY <1>1, <1>2, <1>3, <1>4 DEF PlaceInv

\* A spent claim is not one of a supported name.
LEMMA ConnectInputPlaces ==
  ASSUME Apart, ForwardInv, PlaceInv, NEW o \in Spendable, ConnectInput(o)
  PROVE  PlaceInv'
<1> DEFINE removed == RemoveOutput(cache, o, cache.coin[o])
           noted == NoteChanges(cache, removed)
           x == [op |-> "spend", out |-> o, nHeight |-> cache.coin[o],
                 nValidAtHeight |-> RemovedValidAt(cache, o)]
<1>1. /\ o \in Outs /\ cache \in TrieStates /\ base \in TrieStates /\ GoodTrie(cache)
      /\ log \in Seq(Operations)
  BY OutsAssumption DEF ForwardInv, TypeOK
<1>2. /\ phase = "connect" /\ cache.coin[o] # 0
      /\ cache' = [noted EXCEPT !.coin[o] = 0] /\ log' = Append(log, x)
      /\ UNCHANGED <<base, phase, chain>>
  BY DEF ConnectInput
<1>3. Placing(cache) /\ Calm(cache) /\ cache.setHeights = {} /\ cache.height <= MaxHeight
  BY <1>2 DEF PlaceInv
<1>4. cache.coin[o] \in Nat /\ RemovedValidAt(cache, o) \in Nat
  BY <1>1, RemovedValidAtNat DEF TrieStates
<1>5. x \in Operations
  BY <1>1, <1>4 DEF Operations
<1>6. /\ removed.active = {c \in cache.active : c.out # o}
      /\ removed.queue = {e \in cache.queue : e.claim.out # o}
      /\ removed.expQueue = {e \in cache.expQueue : e.out # o}
      /\ removed.coin = cache.coin /\ removed.height = cache.height
      /\ removed.setHeights = cache.setHeights
  BY <1>1, <1>2, <1>3, RemoveOutputPlaces DEF Placing
<1>7. removed \in TrieStates
  BY <1>1, <1>4, RemoveOutputShrunk DEF Shrunk, GoodTrie
<1> HIDE DEF removed, x
<1>8. noted.active = removed.active /\ SameRest(removed, noted) /\ noted \in TrieStates
  BY <1>7, NoteChangesPlaces, NoteChangesSame DEF SameQueues
<1> HIDE DEF noted
<1>9. /\ cache'.active = {c \in cache.active : c.out # o}
      /\ cache'.queue = {e \in cache.queue : e.claim.out # o}
      /\ cache'.expQueue = {e \in cache.expQueue : e.out # o}
      /\ cache'.coin = [cache.coin EXCEPT ![o] = 0]
      /\ cache'.height = cache.height /\ cache'.setHeights = cache.setHeights
  BY <1>2, <1>6, <1>8 DEF SameRest, TrieStates
<1>10. Placing(cache')
  BY <1>1, <1>3, <1>9, SpentPlaces
<1>11. Placing(cache)'
  BY <1>10 DEF Placing, OnePlace, NoPastRow, DueFrom, Expires, Due, Held
<1>12. Calm(cache)'
  BY <1>1, <1>2, <1>3, <1>9 DEF Calm, Apart
<1>13. (\A p \in Outs : cache.coin[p] # 0 => InChain(p))'
  <2> SUFFICES ASSUME NEW p \in Outs, cache'.coin[p] # 0
               PROVE  InChain(p)'
    OBVIOUS
  <2>1. cache.coin[p] # 0
    BY <1>1, <1>9 DEF TrieStates
  <2>2. InChain(p)
    BY <2>1 DEF PlaceInv
  <2> QED BY <2>2, <1>1, <1>2, <1>5, AddedByAppend DEF InChain
<1>14. (Placing(base) /\ base.setHeights = {})' /\ (\A p \in Outs : base.coin[p] # 0 => OnChain(p))'
  BY <1>2 DEF PlaceInv, OnChain, Placing, OnePlace, NoPastRow, DueFrom, Expires, Due, Held
<1> QED BY <1>2, <1>3, <1>9, <1>11, <1>12, <1>13, <1>14 DEF PlaceInv

\* A new output has no coin yet, so it is in no place.
LEMMA ConnectOutputPlaces ==
  ASSUME ForwardInv, PlaceInv, NEW o \in Outs, ConnectOutput(o)
  PROVE  PlaceInv'
<1> DEFINE counts == KindOf[o] = "update" => [name |-> NameOf[o], id |-> IdOf[o]] \in spentByTx
           picked == IF counts THEN AddOutput(cache, o) ELSE cache
           x == [op |-> "add", out |-> o, nHeight |-> cache.height, nValidAtHeight |-> 0]
<1>1. /\ cache \in TrieStates /\ GoodTrie(cache) /\ log \in Seq(Operations) /\ cache.height \in Nat
  BY DEF ForwardInv, TypeOK, TrieStates
<1>2. /\ phase = "connect" /\ ~InChain(o)
      /\ cache' = [picked EXCEPT !.coin[o] = cache.height] /\ log' = Append(log, x)
      /\ UNCHANGED <<base, phase, chain>>
  BY DEF ConnectOutput
<1>3. cache.coin[o] = 0
  BY <1>2 DEF PlaceInv
<1>4. Placing(cache) /\ Calm(cache) /\ cache.setHeights = {} /\ cache.height <= MaxHeight
  BY <1>2 DEF PlaceInv
<1>5. x \in Operations /\ x.op = "add" /\ x.out = o
  BY <1>1 DEF Operations
<1>6. picked \in {AddOutput(cache, o), cache} /\ (KindOf[o] # "update" => picked = AddOutput(cache, o))
  OBVIOUS
<1> HIDE DEF picked, x
<1>7. picked \in TrieStates
  <2>1. ~Due(cache, o)
    BY <1>3, <1>4 DEF Placing, OnePlace, Due
  <2>2. \A e \in cache.queue : e.claim.out # o
    BY <1>4, <2>1 DEF Placing, OnePlace, Held
  <2>3. AddOutput(cache, o) \in TrieStates
    BY <1>1, <2>2, AddOutputGood DEF GoodTrie
  <2> QED BY <1>1, <1>6, <2>3
<1>8. Added(cache, picked, o, cache')
  BY <1>2, <1>6, <1>7 DEF Added, TrieStates
<1>9. /\ Placing(cache') /\ cache'.active = cache.active
      /\ cache'.height = cache.height /\ cache'.setHeights = cache.setHeights
      /\ cache'.coin = [cache.coin EXCEPT ![o] = cache.height]
  <2>1. \A u, t : Added(cache, u, o, t)
           => /\ Placing(t) /\ t.active = cache.active
              /\ t.height = cache.height /\ t.setHeights = cache.setHeights
              /\ t.coin = [cache.coin EXCEPT ![o] = cache.height]
    BY <1>1, <1>3, <1>4, AddedPlaces
  <2> QED BY <1>8, <2>1
<1>10. Placing(cache)'
  BY <1>9 DEF Placing, OnePlace, NoPastRow, DueFrom, Expires, Due, Held
<1>11. Calm(cache)'
  BY <1>2, <1>4, <1>9 DEF Calm
<1>12. (\A p \in Outs : cache.coin[p] # 0 => InChain(p))'
  <2> SUFFICES ASSUME NEW p \in Outs, cache'.coin[p] # 0
               PROVE  InChain(p)'
    OBVIOUS
  <2>1. CASE p = o
    BY <2>1, <1>1, <1>2, <1>5, AddedByAppend DEF InChain
  <2>2. CASE p # o
    <3>1. cache.coin[p] # 0
      BY <2>2, <1>1, <1>9 DEF TrieStates
    <3>2. InChain(p)
      BY <3>1 DEF PlaceInv
    <3> QED BY <3>2, <1>1, <1>2, <1>5, AddedByAppend DEF InChain
  <2> QED BY <2>1, <2>2
<1>13. (Placing(base) /\ base.setHeights = {})' /\ (\A p \in Outs : base.coin[p] # 0 => OnChain(p))'
  BY <1>2 DEF PlaceInv, OnChain, Placing, OnePlace, NoPastRow, DueFrom, Expires, Due, Held
<1> QED BY <1>2, <1>4, <1>9, <1>10, <1>11, <1>12, <1>13 DEF PlaceInv

\* assert(incrementBlock) holds, and every name it sets a takeover height for has a node.
LEMMA FinishTransactionsPlaces ==
  ASSUME Apart, ForwardInv, PlaceInv, FinishTransactions
  PROVE  PlaceInv'
<1> DEFINE r == IncrementBlock(cache)
<1>1. phase = "connect" /\ base \in TrieStates
  BY DEF FinishTransactions, ForwardInv, TypeOK
<1>2. r.ok /\ Placing(r.cache) /\ FlushOk(r.cache) /\ r.cache.coin = cache.coin
  BY <1>1, PlacingSound, IncrementBlockPlaces
<1>3. cache' = r.cache /\ phase' = "connected" /\ UNCHANGED <<base, log, chain>>
  BY <1>2 DEF FinishTransactions
<1> HIDE DEF r
<1>4. Placing(cache)' /\ FlushOk(cache)'
  BY <1>2, <1>3 DEF Placing, OnePlace, NoPastRow, DueFrom, Expires, Due, Held, FlushOk, Claims
<1>5. (\A o \in Outs : cache.coin[o] # 0 => InChain(o))'
  BY <1>2, <1>3 DEF PlaceInv, InChain
<1>6. (Placing(base) /\ base.setHeights = {})' /\ (\A o \in Outs : base.coin[o] # 0 => OnChain(o))'
  BY <1>3 DEF PlaceInv, OnChain, Placing, OnePlace, NoPastRow, DueFrom, Expires, Due, Held
<1> QED BY <1>3, <1>4, <1>5, <1>6 DEF PlaceInv

\* assert(flush) holds and hands the places over.
LEMMA FlushConnectedPlaces ==
  ASSUME ForwardInv, PlaceInv, FlushConnected
  PROVE  PlaceInv'
<1> DEFINE s == Committed(cache)
           block == [ops |-> log, undo |-> undo, before |-> base]
<1>1. phase = "connected" /\ FlushOk(cache) /\ cache \in TrieStates
  BY DEF FlushConnected, PlaceInv, ForwardInv, TypeOK
<1>2. /\ base' = s /\ cache' = s /\ chain' = Append(chain, block)
      /\ phase' = "idle" /\ log' = <<>>
  BY <1>1 DEF FlushConnected, Rest
<1>3. /\ s.active = cache.active /\ s.queue = cache.queue /\ s.expQueue = cache.expQueue
      /\ s.coin = cache.coin /\ s.height = cache.height /\ s.setHeights = {}
  BY <1>1 DEF Committed, TrieStates
<1>4. /\ chain'[Len(chain) + 1].ops = log /\ Len(chain) + 1 \in DOMAIN chain'
      /\ \A b \in DOMAIN chain : b \in DOMAIN chain' /\ chain'[b] = chain[b]
  <2>1. chain \in Seq([ops : Seq(Operations), undo : UndoData, before : TrieStates])
    BY DEF ForwardInv, TypeOK
  <2>2. block \in [ops : Seq(Operations), undo : UndoData, before : TrieStates] /\ block.ops = log
    BY DEF ForwardInv, TypeOK
  <2> HIDE DEF block, s
  <2> QED BY <1>2, <2>1, <2>2
<1> HIDE DEF s, block
<1>5. Placing(cache)' /\ Placing(base)'
  BY <1>2, <1>3 DEF PlaceInv, Placing, OnePlace, NoPastRow, DueFrom, Expires, Due, Held
<1>6. ASSUME NEW o \in Outs, s.coin[o] # 0
      PROVE  OnChain(o)'
  <2>1. AddedBy(log, o) \/ \E b \in DOMAIN chain : AddedBy(chain[b].ops, o)
    BY <1>3, <1>6 DEF PlaceInv, InChain
  <2> QED BY <1>4, <2>1 DEF OnChain
<1>7. \A o \in Outs : OnChain(o)' => InChain(o)'
  BY DEF OnChain, InChain
<1> QED BY <1>2, <1>3, <1>5, <1>6, <1>7 DEF PlaceInv

\* A dropped cache leaves the committed trie.
LEMMA AbandonPlaces ==
  ASSUME PlaceInv, Abandon
  PROVE  PlaceInv'
<1>1. cache' = base /\ phase' = "idle" /\ UNCHANGED <<base, chain>>
  BY DEF Abandon, Rest
<1>2. (\A o \in Outs : base.coin[o] # 0 => OnChain(o))'
  BY <1>1 DEF PlaceInv, OnChain
<1>3. (\A o \in Outs : cache.coin[o] # 0 => InChain(o))'
  BY <1>1, <1>2 DEF OnChain, InChain
<1>4. Placing(cache)' /\ Placing(base)'
  BY <1>1 DEF PlaceInv, Placing, OnePlace, NoPastRow, DueFrom, Expires, Due, Held
<1> QED BY <1>1, <1>2, <1>3, <1>4 DEF PlaceInv

\* The empty trie has nothing in any place.
LEMMA InitPlaces ==
  ASSUME Init
  PROVE  PlaceInv
<1>1. /\ EmptyTrie.active = {} /\ EmptyTrie.queue = {} /\ EmptyTrie.expQueue = {}
      /\ EmptyTrie.setHeights = {} /\ \A o \in Outs : EmptyTrie.coin[o] = 0
  BY DEF EmptyTrie
<1>2. Placing(EmptyTrie)
  BY <1>1 DEF Placing, OnePlace, NoPastRow, DueFrom, Due, Held
<1> QED BY <1>1, <1>2 DEF Init, PlaceInv

\* Every step of connecting blocks keeps the places.
LEMMA PlaceStep ==
  ASSUME Apart, ForwardInv, PlaceInv, [Forward]_vars
  PROVE  PlaceInv'
<1>1. CASE BeginConnect
  BY <1>1, BeginConnectPlaces
<1>2. ASSUME NEW o \in Spendable, ConnectInput(o)
      PROVE  PlaceInv'
  BY <1>2, ConnectInputPlaces
<1>3. ASSUME NEW o \in Outs, ConnectOutput(o)
      PROVE  PlaceInv'
  BY <1>3, ConnectOutputPlaces
<1>4. CASE FinishTransactions
  BY <1>4, FinishTransactionsPlaces
<1>5. CASE FlushConnected
  BY <1>5, FlushConnectedPlaces
<1>6. CASE Abandon
  BY <1>6, AbandonPlaces
<1>7. CASE UNCHANGED vars
  BY <1>7 DEF PlaceInv, InChain, OnChain, vars, Placing, OnePlace, NoPastRow, DueFrom, Expires,
              Due, Held, Calm, FlushOk, Claims
<1> QED BY <1>1, <1>2, <1>3, <1>4, <1>5, <1>6, <1>7 DEF Forward, Stopped

\* At most one place, as a cardinality.
LEMMA PlacedOnce ==
  ASSUME ForwardInv, PlaceInv, NEW o \in Outs
  PROVE  Cardinality(Placed(o)) <= 1
<1>1. \A x, y \in Placed(o) : x = y
  BY DEF Placed, PlaceInv, Placing, OnePlace, ForwardInv, GoodTrie, OneEntryEach
<1>2. CASE Placed(o) = {}
  BY <1>2, FS_EmptySet
<1>3. CASE Placed(o) # {}
  <2>1. PICK x : x \in Placed(o)
    BY <1>3
  <2>2. Placed(o) = {x}
    BY <1>1, <2>1
  <2>3. Cardinality({x}) = 1
    BY FS_Singleton
  <2> QED BY <2>2, <2>3
<1> QED BY <1>2, <1>3

\* The invariant on the places says what EachLiveClaimOnce asks.
LEMMA PlacesSound ==
  ASSUME ForwardInv, PlaceInv
  PROVE  TrieIsSound
<1>1. OnePlace(base) /\ NoPastRow(base) /\ DueFrom(base)
  BY DEF PlaceInv, Placing
<1>2. ASSUME NEW o \in Outs
      PROVE  /\ Placed(o) # {} <=> Held(base, o)
             /\ Held(base, o) <=> Due(base, o)
  BY <1>1 DEF Placed, Held, OnePlace
<1>3. ASSUME NEW o \in Outs
      PROVE  /\ KindOf[o] # "update" /\ Live(o) => Due(base, o)
             /\ Due(base, o) => Live(o)
  BY <1>1 DEF Live, DueFrom, Expires, Due, OnePlace, NoPastRow
<1>4. ASSUME NEW o \in Outs, NEW c \in Placed(o)
      PROVE  c.nHeight = base.coin[o]
  BY <1>1 DEF Placed, OnePlace
<1>5. ASSUME NEW o \in Outs, NEW e \in base.expQueue, e.out = o
      PROVE  e.row = base.coin[o] + nExpirationTime
  BY <1>1, <1>5 DEF OnePlace
<1>6. EachLiveClaimOnce
  BY <1>2, <1>3, <1>4, <1>5, PlacedOnce DEF EachLiveClaimOnce, Due
<1>7. NoAssertionFails
  BY DEF PlaceInv, NoAssertionFails
<1> QED BY <1>6, <1>7 DEF TrieIsSound

\* While blocks are only connected, and no claim of a supported name is spent or
\* expires, assert(incrementBlock) and assert(flush) never fail, and trie, support
\* map, queues and expiration rows hold every output once, exactly while it is
\* unspent and has not expired.
THEOREM TrieStaysSound == Apart => (ForwardSpec => []TrieIsSound)
<1> SUFFICES ASSUME Apart PROVE ForwardSpec => []TrieIsSound
  OBVIOUS
<1>1. Init => PlaceInv
  BY InitPlaces
<1>2. ForwardInv /\ PlaceInv /\ [Forward]_vars => PlaceInv'
  BY PlaceStep
<1>3. ForwardInv /\ PlaceInv => TrieIsSound
  BY PlacesSound
<1> QED BY <1>1, <1>2, <1>3, ForwardInvariant, PTL DEF ForwardSpec

=============================================================================
