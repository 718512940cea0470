-------------------------- MODULE ChainStateProofs --------------------------
(***************************************************************************)
(* The block index for any tree of blocks: what CheckBlockIndex says of    *)
(* nChainTx and mapBlocksUnlinked holds whatever is pruned, downloaded     *)
(* again or left by a crash; a node at rest with no valid candidate above  *)
(* its tip has no better chain, apart from blocks that a failure or a      *)
(* pruned block eclipsed; a completed step of ActivateBestChain leaves a   *)
(* tip that is not worse; and the assertion of PruneBlockIndexCandidates   *)
(* fails only where a block of the chain that the coins were written for   *)
(* has failed since.                                                       *)
(***************************************************************************)
EXTENDS ChainState, FiniteSetTheorems, NaturalsInduction, WellFoundedInduction, TLAPS

-----------------------------------------------------------------------------
(* The tree of blocks.                                                      *)

\* A set of natural numbers has a least one.
LEMMA LeastNumber ==
  ASSUME NEW T \in SUBSET Nat, T # {}
  PROVE  \E x \in T : \A y \in T : x <= y
<1> DEFINE R == OpToRel(<, Nat)
<1>1. IsWellFoundedOn(R, Nat)
  BY NatLessThanWellFounded
<1> HIDE DEF R
<1>2. PICK x \in T : \A y \in T : ~ (<<y, x>> \in R)
  BY <1>1, WFMin
<1>3. \A y \in T : <<y, x>> \in R <=> y < x
  BY DEF R, OpToRel
<1>4. ASSUME NEW y \in T
      PROVE  x <= y
  <2>1. x \in Nat /\ y \in Nat /\ ~ (y < x)
    BY <1>2, <1>3
  <2> QED BY <2>1
<1> QED BY <1>4

\* What the assumption says of a block that is not the first.
LEMMA ParentFacts ==
  ASSUME NEW b \in Blocks \ {Genesis}
  PROVE  /\ Parent[b] \in Blocks
         /\ Chain[b] = Chain[Parent[b]] \cup {b}
         /\ b \notin Chain[Parent[b]]
         /\ nChainWork[b] \in Nat /\ nChainWork[Parent[b]] \in Nat
         /\ nChainWork[b] > nChainWork[Parent[b]]
BY ChainStateAssumption

\* Going down from parent to parent leaves any set of blocks: its least member is
\* Genesis or has its parent outside.
LEMMA LeastBlock ==
  ASSUME NEW T \in SUBSET Blocks, T # {}
  PROVE  \E b \in T : b = Genesis \/ Parent[b] \notin T
<1> DEFINE W == {nChainWork[b] : b \in T}
<1>1. W \in SUBSET Nat /\ W # {}
  BY ChainStateAssumption
<1> HIDE DEF W
<1>2. PICK w \in W : \A x \in W : w <= x
  BY <1>1, LeastNumber
<1>3. PICK b \in T : nChainWork[b] = w
  BY <1>2 DEF W
<1>4. ASSUME b # Genesis, Parent[b] \in T
      PROVE  FALSE
  <2>1. nChainWork[Parent[b]] \in W
    BY <1>4 DEF W
  <2>2. nChainWork[b] > nChainWork[Parent[b]] /\ nChainWork[b] \in Nat /\ nChainWork[Parent[b]] \in Nat
    BY <1>4, ParentFacts
  <2> QED BY <1>2, <1>3, <2>1, <2>2
<1> QED BY <1>4

\* A chain begins at Genesis and ends at its block.
LEMMA ChainEnds ==
  ASSUME NEW b \in Blocks
  PROVE  b \in Chain[b] /\ Genesis \in Chain[b] /\ Chain[b] \subseteq Blocks
<1> DEFINE T == {c \in Blocks : ~ (c \in Chain[c] /\ Genesis \in Chain[c])}
<1>1. CASE T # {}
  <2>1. PICK c \in T : c = Genesis \/ Parent[c] \notin T
    BY <1>1, LeastBlock
  <2>2. c # Genesis
    BY <2>1, ChainStateAssumption
  <2>3. Parent[c] \in Blocks /\ Chain[c] = Chain[Parent[c]] \cup {c}
    BY <2>1, <2>2, ParentFacts
  <2> QED BY <2>1, <2>2, <2>3
<1>2. CASE T = {}
  BY <1>2, ChainStateAssumption
<1> QED BY <1>1, <1>2

\* A chain contains the chains of its blocks.
LEMMA ChainTransitive ==
  ASSUME NEW b \in Blocks, NEW x \in Chain[b]
  PROVE  x \in Blocks /\ Chain[x] \subseteq Chain[b]
<1> DEFINE T == {c \in Blocks : \E y \in Chain[c] : ~ (Chain[y] \subseteq Chain[c])}
<1>1. CASE T # {}
  <2>1. PICK c \in T : c = Genesis \/ Parent[c] \notin T
    BY <1>1, LeastBlock
  <2>2. PICK y \in Chain[c] : ~ (Chain[y] \subseteq Chain[c])
    BY <2>1
  <2>3. c # Genesis
    BY <2>2, ChainStateAssumption
  <2>4. Parent[c] \in Blocks /\ Chain[c] = Chain[Parent[c]] \cup {c}
    BY <2>1, <2>3, ParentFacts
  <2>5. Chain[y] \subseteq Chain[Parent[c]]
    BY <2>1, <2>2, <2>3, <2>4
  <2> QED BY <2>2, <2>4, <2>5
<1>2. CASE T = {}
  BY <1>2, ChainEnds
<1> QED BY <1>1, <1>2

\* Work grows along a chain.
LEMMA ChainWorkGrows ==
  ASSUME NEW b \in Blocks, NEW x \in Chain[b], x # b
  PROVE  nChainWork[x] < nChainWork[b]
<1> DEFINE T == {c \in Blocks : \E y \in Chain[c] : y # c /\ ~ (nChainWork[y] < nChainWork[c])}
<1>1. CASE T # {}
  <2>1. PICK c \in T : c = Genesis \/ Parent[c] \notin T
    BY <1>1, LeastBlock
  <2>2. PICK y \in Chain[c] : y # c /\ ~ (nChainWork[y] < nChainWork[c])
    BY <2>1
  <2>3. c # Genesis
    BY <2>2, ChainStateAssumption
  <2>4. Parent[c] \in Blocks /\ y \in Chain[Parent[c]] /\ nChainWork[c] > nChainWork[Parent[c]]
    BY <2>1, <2>2, <2>3, ParentFacts
  <2>5. y = Parent[c] \/ nChainWork[y] < nChainWork[Parent[c]]
    BY <2>1, <2>3, <2>4
  <2>6. nChainWork[y] \in Nat /\ nChainWork[c] \in Nat /\ nChainWork[Parent[c]] \in Nat
    BY <2>1, <2>2, <2>4, ChainEnds, ChainStateAssumption
  <2> HIDE DEF T
  <2> QED BY <2>2, <2>4, <2>5, <2>6
<1>2. CASE T = {}
  BY <1>2
<1> QED BY <1>1, <1>2

\* Of two blocks of a chain one is below the other.
LEMMA ChainLinear ==
  ASSUME NEW b \in Blocks, NEW x \in Chain[b], NEW y \in Chain[b]
  PROVE  x \in Chain[y] \/ y \in Chain[x]
<1> DEFINE T == {c \in Blocks : \E u \in Chain[c] : \E v \in Chain[c] :
                                  u \notin Chain[v] /\ v \notin Chain[u]}
<1>1. CASE T # {}
  <2>1. PICK c \in T : c = Genesis \/ Parent[c] \notin T
    BY <1>1, LeastBlock
  <2>2. PICK u \in Chain[c] : \E v \in Chain[c] : u \notin Chain[v] /\ v \notin Chain[u]
    BY <2>1
  <2>3. PICK v \in Chain[c] : u \notin Chain[v] /\ v \notin Chain[u]
    BY <2>2
  <2>4. u # c /\ v # c
    BY <2>2, <2>3
  <2>5. c # Genesis
    BY <2>4, ChainStateAssumption
  <2>6. Parent[c] \in Blocks /\ u \in Chain[Parent[c]] /\ v \in Chain[Parent[c]]
    BY <2>1, <2>4, <2>5, ParentFacts
  <2> QED BY <2>1, <2>3, <2>5, <2>6
<1>2. CASE T = {}
  BY <1>2
<1> QED BY <1>1, <1>2

-----------------------------------------------------------------------------
(* The order of the candidates.                                             *)

\* A finite set that a transitive relation orders has a last member.
LEMMA FiniteMaximum ==
  ASSUME NEW S, IsFiniteSet(S), S # {}, NEW R,
         \A x, y \in S : x = y \/ <<x, y>> \in R \/ <<y, x>> \in R,
         \A x, y, z \in S : <<x, y>> \in R /\ <<y, z>> \in R => <<x, z>> \in R
  PROVE  \E m \in S : \A x \in S \ {m} : <<x, m>> \in R
<1> DEFINE Last(T, m) == m \in T /\ \A x \in T \ {m} : <<x, m>> \in R
           U == {T \in SUBSET S : T # {} /\ \A m \in T : ~ Last(T, m)}
           W == {Cardinality(T) : T \in U}
<1>1. CASE U # {}
  <2>1. \A T \in U : IsFiniteSet(T) /\ Cardinality(T) \in Nat
    BY FS_Subset, FS_CardinalityType
  <2>2. W \in SUBSET Nat /\ W # {}
    BY <1>1, <2>1
  <2> HIDE DEF W
  <2>3. PICK w \in W : \A n \in W : w <= n
    BY <2>2, LeastNumber
  <2>4. PICK T \in U : Cardinality(T) = w
    BY <2>3 DEF W
  <2>5. PICK x \in T : TRUE
    BY <2>4
  <2> DEFINE V == T \ {x}
  <2>6. IsFiniteSet(V) /\ Cardinality(V) \in Nat /\ Cardinality(V) < Cardinality(T)
    BY <2>1, <2>4, <2>5, FS_RemoveElement, FS_CardinalityType
  <2>7. V \notin U
    <3>1. V \in U => w <= Cardinality(V)
      <4> HIDE DEF V, U
      <4>1. V \in U => Cardinality(V) \in W
        BY DEF W
      <4> QED BY <2>3, <4>1
    <3>2. w \in Nat
      BY <2>2, <2>3
    <3> HIDE DEF V, U
    <3> QED BY <2>4, <2>6, <3>1, <3>2
  <2>8. CASE V = {}
    BY <2>4, <2>5, <2>8
  <2>9. CASE V # {}
    <3>1. PICK y \in V : Last(V, y)
      BY <2>4, <2>7, <2>9
    <3>2. x \in S /\ y \in S /\ y \in T /\ x # y /\ T \subseteq S
      BY <2>4, <2>5, <3>1
    <3>3. CASE <<x, y>> \in R
      <4>1. Last(T, y)
        BY <3>1, <3>2, <3>3
      <4> QED BY <2>4, <3>2, <4>1
    <3>4. CASE <<y, x>> \in R
      <4>1. \A z \in T \ {x} : <<z, x>> \in R
        BY <3>1, <3>2, <3>4
      <4>2. Last(T, x)
        BY <2>5, <4>1
      <4> QED BY <2>4, <2>5, <4>2
    <3>5. <<x, y>> \in R \/ <<y, x>> \in R
      BY <3>2
    <3> QED BY <3>3, <3>4, <3>5
  <2> QED BY <2>8, <2>9
<1>2. CASE U = {}
  BY <1>2
<1> QED BY <1>1, <1>2

Sequence == [Blocks -> Nat]

\* CBlockIndexWorkComparator is a strict total order, because two entries are never
\* at the same address.
LEMMA WorseOrders ==
  ASSUME NEW s \in Sequence
  PROVE  /\ \A a \in Blocks : ~ Worse(a, a, s)
         /\ \A a, b \in Blocks : a = b \/ Worse(a, b, s) \/ Worse(b, a, s)
         /\ \A a, b, c \in Blocks : Worse(a, b, s) /\ Worse(b, c, s) => Worse(a, c, s)
<1>1. \A a \in Blocks : nChainWork[a] \in Nat /\ s[a] \in Nat /\ Address[a] \in Nat
  BY ChainStateAssumption DEF Sequence
<1>2. \A a, b \in Blocks : Address[a] = Address[b] => a = b
  BY ChainStateAssumption
<1>3. \A a \in Blocks : ~ Worse(a, a, s)
  BY <1>1 DEF Worse
<1>4. \A a, b \in Blocks : a = b \/ Worse(a, b, s) \/ Worse(b, a, s)
  BY <1>1, <1>2 DEF Worse
<1>5. \A a, b, c \in Blocks : Worse(a, b, s) /\ Worse(b, c, s) => Worse(a, c, s)
  BY <1>1 DEF Worse
<1> QED BY <1>3, <1>4, <1>5

\* What is not worse has at least as much work, and what is worse no more.
LEMMA WorseByWork ==
  ASSUME NEW s \in Sequence, NEW a \in Blocks, NEW b \in Blocks
  PROVE  /\ ~ Worse(a, b, s) => nChainWork[b] <= nChainWork[a]
         /\ Worse(a, b, s) => nChainWork[a] <= nChainWork[b]
         /\ nChainWork[a] < nChainWork[b] => Worse(a, b, s) /\ ~ Worse(b, a, s)
<1>1. nChainWork[a] \in Nat /\ nChainWork[b] \in Nat
  BY ChainStateAssumption
<1> QED BY <1>1 DEF Worse

\* The candidate that FindMostWorkChain takes exists.
LEMMA BestIsTaken ==
  ASSUME seq \in Sequence, NEW S \in SUBSET Blocks, S # {}
  PROVE  /\ Best(S) \in S
         /\ \A c \in S \ {Best(S)} : Worse(c, Best(S), seq)
<1> DEFINE R == {p \in Blocks \X Blocks : Worse(p[1], p[2], seq)}
<1>1. IsFiniteSet(S)
  BY ChainStateAssumption, FS_Subset
<1>2. \A a, b \in Blocks : <<a, b>> \in R <=> Worse(a, b, seq)
  OBVIOUS
<1> HIDE DEF R
<1>3. /\ \A x, y \in S : x = y \/ <<x, y>> \in R \/ <<y, x>> \in R
      /\ \A x, y, z \in S : <<x, y>> \in R /\ <<y, z>> \in R => <<x, z>> \in R
  BY <1>2, WorseOrders
<1>4. \E m \in S : \A x \in S \ {m} : <<x, m>> \in R
  BY <1>1, <1>3, FiniteMaximum
<1>5. \E m \in S : \A x \in S \ {m} : Worse(x, m, seq)
  BY <1>2, <1>4
<1> QED BY <1>5 DEF Best

\* The highest entry that stops FindMostWorkChain.
LEMMA FirstObstacleIs ==
  ASSUME NEW c \in Blocks, Obstacles(c) # {}
  PROVE  /\ FirstObstacle(c) \in Obstacles(c)
         /\ \A q \in Obstacles(c) : q \in Chain[FirstObstacle(c)]
<1> DEFINE R == {p \in Blocks \X Blocks : p[1] \in Chain[p[2]]}
           S == Obstacles(c)
<1>1. S \subseteq Chain[c] /\ S \subseteq Blocks
  BY ChainEnds DEF Obstacles
<1> HIDE DEF S
<1>2. IsFiniteSet(S)
  BY <1>1, ChainStateAssumption, FS_Subset
<1>3. \A a, b \in Blocks : <<a, b>> \in R <=> a \in Chain[b]
  OBVIOUS
<1> HIDE DEF R
<1>4. /\ \A x, y \in S : x = y \/ <<x, y>> \in R \/ <<y, x>> \in R
      /\ \A x, y, z \in S : <<x, y>> \in R /\ <<y, z>> \in R => <<x, z>> \in R
  BY <1>1, <1>3, ChainLinear, ChainTransitive
<1>5. \E m \in S : \A x \in S \ {m} : <<x, m>> \in R
  BY <1>2, <1>4, FiniteMaximum DEF S
<1>6. \E m \in S : \A x \in S : x \in Chain[m]
  BY <1>1, <1>3, <1>5, ChainEnds
<1> QED BY <1>6 DEF FirstObstacle, S

\* A finite set of numbers has a greatest one.
LEMMA GreatestNumber ==
  ASSUME NEW S \in SUBSET Nat, IsFiniteSet(S), S # {}
  PROVE  \E m \in S : \A x \in S : x <= m
<1> DEFINE R == {p \in Nat \X Nat : p[1] < p[2]}
<1>1. \A a, b \in Nat : <<a, b>> \in R <=> a < b
  OBVIOUS
<1> HIDE DEF R
<1>2. /\ \A x, y \in S : x = y \/ <<x, y>> \in R \/ <<y, x>> \in R
      /\ \A x, y, z \in S : <<x, y>> \in R /\ <<y, z>> \in R => <<x, z>> \in R
  BY <1>1
<1>3. PICK m \in S : \A x \in S \ {m} : <<x, m>> \in R
  BY <1>2, FiniteMaximum
<1>4. ASSUME NEW x \in S
      PROVE  x <= m
  <2>1. x \in Nat /\ m \in Nat
    BY <1>3
  <2>2. x = m \/ x < m
    BY <1>1, <1>3, <2>1
  <2> QED BY <2>1, <2>2
<1> QED BY <1>3, <1>4

\* Files are numbered, and FindBlockPos finds the last.
LEMMA FilesAreNumbered ==
  ASSUME NEW new \in Index
  PROVE  nLastBlockFile(new) \in Nat
<1>1. new.nFile \in [Blocks -> Nat]
  BY DEF Index
<1>2. IsFiniteSet(Files(new))
  <2>1. new.nFile \in Surjection(Blocks, Files(new))
    BY <1>1 DEF Files, Surjection
  <2> QED BY <2>1, ChainStateAssumption, FS_Surjection
<1>3. Files(new) \in SUBSET Nat /\ Files(new) # {}
  BY <1>1, ChainStateAssumption DEF Files
<1>4. \E m \in Files(new) : \A x \in Files(new) : x <= m
  BY <1>2, <1>3, GreatestNumber
<1> QED BY <1>3, <1>4 DEF nLastBlockFile


-----------------------------------------------------------------------------
(* The invariant.                                                           *)

Steps == [kind : {"idle", "connect", "invalidate", "replay"},
          target : Blocks \cup {None}, old : Blocks \cup {None},
          todo : SUBSET Disputed, left : 0..MaxReplay]

\* Entries with nChainTx hold whole chains, whose transactions were all received.
LinkedInv ==
    /\ Genesis \in linked
    /\ \A b \in linked : Chain[b] \subseteq linked
    /\ linked \subseteq index.tx
    /\ index.child \subseteq linked
    /\ cand \subseteq linked
    /\ tip \in linked

\* An entry without nChainTx waits for a parent without nChainTx; one with data
\* that does not wait has a parent that failed, now or before it was forgiven.
WaitInv ==
    /\ unlinked \subseteq index.tx
    /\ \A b \in unlinked \ linked : Parent[b] \notin linked
    /\ \A b \in index.data \ linked : b \in unlinked \/ Parent[b] \in index.valid \cup forgiven

\* The block tree database is behind the index in what is dirty only, and has the
\* transactions of the chain that the coins were written for.
DiskInv ==
    /\ index.data \subseteq index.tx /\ index.tx \subseteq index.known
    /\ disk.data \subseteq disk.tx /\ disk.tx \subseteq disk.known
    /\ disk.tx \subseteq index.tx /\ index.tx \ dirty \subseteq disk.tx
    /\ Chain[diskTip] \subseteq disk.tx
    /\ \A b \in disk.child : Chain[b] \subseteq disk.tx

\* A step has a candidate for target that is not reached yet, and no candidate has
\* less work than the tip.
StepInv ==
    /\ node = "up" /\ step.kind = "connect" => step.target \in cand /\ step.target # tip
    /\ step.kind = "invalidate" => step.target \in Blocks \ {Genesis} /\ "invalidated" \in past
    /\ \A c \in cand : nChainWork[tip] <= nChainWork[c]

\* The blocks that some check refuses.
Bad == BadContext \cup Invalid \cup refused
AboveBad == {b \in Blocks : Chain[b] \cap Bad # {}}

\* While no verdict has changed and InvalidateBlock was not called, only refused
\* blocks and those above them are marked, and the chains of the two tips have none.
VerdictInv ==
    /\ (index.data \cup disk.data) \cap BadContext = {}
    /\ past \cap {"invalidated", "changed"} = {} =>
        /\ index.valid \cup disk.valid \subseteq Bad
        /\ index.child \cup disk.child \subseteq AboveBad
        /\ tip \notin AboveBad /\ diskTip \notin AboveBad

IInv == TypeOK /\ LinkedInv /\ WaitInv /\ DiskInv /\ StepInv /\ VerdictInv /\ StartsAfterCrash


-----------------------------------------------------------------------------
(* Writing to disk.                                                         *)

\* What a handler has made of the index and of its dirty entries, with the chain of
\* coins connected.
Ready(new, dirt, coins) ==
    /\ new \in Index /\ dirt \subseteq Blocks /\ coins \in Blocks
    /\ new.data \subseteq new.tx /\ new.tx \subseteq new.known
    /\ index.tx \subseteq new.tx /\ new.tx \ dirt \subseteq disk.tx
    /\ Chain[coins] \subseteq new.tx
    /\ \A b \in new.child : Chain[b] \subseteq new.tx

\* The two differ at most in what pruning takes away.
SameEntries(old, new) ==
    /\ new \in Index
    /\ new.known = old.known /\ new.tx = old.tx
    /\ new.valid = old.valid /\ new.child = old.child
    /\ new.data \subseteq old.data

\* A database that has some of the old entries and some of the new ones.
Between(d, new) ==
    /\ d \in Index
    /\ d.data \subseteq d.tx /\ d.tx \subseteq d.known
    /\ disk.tx \subseteq d.tx /\ d.tx \subseteq new.tx
    /\ d.data \subseteq disk.data \cup new.data
    /\ d.valid \subseteq disk.valid \cup new.valid
    /\ d.child \subseteq disk.child \cup new.child
    /\ \A b \in d.child : Chain[b] \subseteq d.tx

Saved(new, wait, coins) ==
    /\ SameEntries(new, index')
    /\ unlinked' \subseteq wait /\ index'.data \cap wait \subseteq unlinked'
    /\ dirty' \subseteq Blocks /\ havePruned' \in BOOLEAN
    /\ diskTip' \in {diskTip, coins}
    /\ Between(disk', new)
    /\ index'.tx \ dirty' \subseteq disk'.tx
    /\ Chain[diskTip'] \subseteq disk'.tx

LEMMA IndexFields ==
  ASSUME NEW new \in Index
  PROVE  /\ new.known \subseteq Blocks /\ new.data \subseteq Blocks /\ new.tx \subseteq Blocks
         /\ new.valid \subseteq Blocks /\ new.child \subseteq Blocks
         /\ new.nFile \in [Blocks -> Nat]
BY DEF Index

\* A batch has every transaction that the index has.
LEMMA WrittenIsBetween ==
  ASSUME disk \in Index, DiskInv, NEW new, NEW dirt, NEW coins, Ready(new, dirt, coins)
  PROVE  /\ Between(Written(new, dirt), new)
         /\ Written(new, dirt).tx = new.tx
<1> DEFINE d == Written(new, dirt)
<1>1. /\ d.known = (disk.known \ dirt) \cup (new.known \cap dirt)
      /\ d.data = (disk.data \ dirt) \cup (new.data \cap dirt)
      /\ d.tx = (disk.tx \ dirt) \cup (new.tx \cap dirt)
      /\ d.valid = (disk.valid \ dirt) \cup (new.valid \cap dirt)
      /\ d.child = (disk.child \ dirt) \cup (new.child \cap dirt)
      /\ d.nFile = [b \in Blocks |-> IF b \in dirt THEN new.nFile[b] ELSE disk.nFile[b]]
  BY DEF Written
<1>2. new \in Index
  BY DEF Ready
<1>3. d \in Index
  <2>1. d.nFile \in [Blocks -> Nat]
    BY <1>1, <1>2, IndexFields
  <2>2. /\ d.known \subseteq Blocks /\ d.data \subseteq Blocks /\ d.tx \subseteq Blocks
        /\ d.valid \subseteq Blocks /\ d.child \subseteq Blocks
    BY <1>1, <1>2, IndexFields
  <2>3. d = [known |-> d.known, data |-> d.data, tx |-> d.tx, valid |-> d.valid,
             child |-> d.child, nFile |-> d.nFile]
    BY DEF Written
  <2> HIDE DEF d
  <2> QED BY <2>1, <2>2, <2>3 DEF Index
<1> HIDE DEF d
<1>4. d.tx = new.tx
  BY <1>1 DEF Ready, DiskInv
<1>5. d.data \subseteq d.tx /\ d.tx \subseteq d.known
  BY <1>1 DEF Ready, DiskInv
<1>6. disk.tx \subseteq new.tx
  BY DEF Ready, DiskInv
<1>7. \A b \in d.child : Chain[b] \subseteq d.tx
  BY <1>1, <1>4, <1>6 DEF Ready, DiskInv
<1>8. /\ d.data \subseteq disk.data \cup new.data
      /\ d.valid \subseteq disk.valid \cup new.valid
      /\ d.child \subseteq disk.child \cup new.child
  BY <1>1
<1> QED BY <1>3, <1>4, <1>5, <1>6, <1>7, <1>8 DEF Between, d

LEMMA PruneBlockFilesKeeps ==
  ASSUME NEW new \in Index, NEW files
  PROVE  /\ SameEntries(new, PruneBlockFiles(new, files))
         /\ PruneBlockFiles(new, files).data = new.data \ PrunedEntries(new, files)
         /\ PrunedEntries(new, files) \subseteq Blocks
<1> DEFINE p == PruneBlockFiles(new, files)
           gone == PrunedEntries(new, files)
           nf == [b \in Blocks |-> IF b \in gone THEN 0 ELSE new.nFile[b]]
<1>1. gone \subseteq Blocks
  BY IndexFields DEF PrunedEntries
<1>2. p = [new EXCEPT !.data = new.data \ gone, !.nFile = nf]
  BY DEF PruneBlockFiles
<1>3. nf \in [Blocks -> Nat] /\ new.data \ gone \subseteq Blocks
  BY IndexFields
<1> HIDE DEF p, nf, gone
<1>4. /\ p.known = new.known /\ p.tx = new.tx /\ p.valid = new.valid /\ p.child = new.child
      /\ p.data = new.data \ gone /\ p \in Index
  BY <1>2, <1>3 DEF Index
<1> QED BY <1>1, <1>4 DEF SameEntries, p, gone

LEMMA DiskStays ==
  ASSUME disk \in Index, DiskInv, NEW new, NEW dirt, NEW coins, Ready(new, dirt, coins)
  PROVE  Between(disk, new)
BY DEF Ready, DiskInv, Between

LEMMA KeepSaves ==
  ASSUME TypeOK, DiskInv, NEW new, NEW dirt, NEW wait, NEW coins, Ready(new, dirt, coins),
         Keep(new, dirt, wait)
  PROVE  Saved(new, wait, coins)
<1>1. Between(disk, new)
  BY DiskStays DEF TypeOK
<1>2. new \in Index /\ SameEntries(new, index')
  BY DEF Keep, Ready, SameEntries
<1> QED BY <1>1, <1>2 DEF Keep, Saved, Ready, DiskInv, TypeOK

LEMMA WriteIndexSaves ==
  ASSUME TypeOK, DiskInv, NEW new, NEW dirt, NEW wait, NEW coins, Ready(new, dirt, coins),
         WriteIndex(new, dirt, wait)
  PROVE  Saved(new, wait, coins)
<1>1. Between(disk', new) /\ disk'.tx = new.tx
  BY WrittenIsBetween DEF TypeOK, WriteIndex
<1>2. new \in Index /\ SameEntries(new, index')
  BY DEF WriteIndex, Ready, SameEntries
<1>3. Chain[diskTip] \subseteq new.tx
  BY DEF Ready, DiskInv
<1> QED BY <1>1, <1>2, <1>3 DEF WriteIndex, Saved, SameEntries, TypeOK

LEMMA WriteAllSaves ==
  ASSUME TypeOK, DiskInv, NEW new, NEW dirt, NEW wait, NEW coins, Ready(new, dirt, coins),
         WriteAll(new, dirt, wait, coins)
  PROVE  Saved(new, wait, coins)
<1>1. Between(disk', new) /\ disk'.tx = new.tx
  BY WrittenIsBetween DEF TypeOK, WriteAll
<1>2. new \in Index /\ SameEntries(new, index')
  BY DEF WriteAll, Ready, SameEntries
<1>3. Chain[coins] \subseteq new.tx
  BY DEF Ready
<1> QED BY <1>1, <1>2, <1>3 DEF WriteAll, Saved, SameEntries, TypeOK

\* After files were pruned.
LEMMA ReadyPruned ==
  ASSUME NEW new, NEW dirt, NEW coins, Ready(new, dirt, coins), NEW files
  PROVE  Ready(PruneBlockFiles(new, files), dirt \cup PrunedEntries(new, files), coins)
<1>1. new \in Index
  BY DEF Ready
<1> QED BY <1>1, PruneBlockFilesKeeps DEF Ready, SameEntries

LEMMA PruneAndWriteAllSaves ==
  ASSUME TypeOK, DiskInv, NEW new, NEW dirt, NEW wait, NEW coins, Ready(new, dirt, coins),
         PruneAndWriteAll(new, dirt, wait, coins)
  PROVE  Saved(new, wait, coins)
<1>1. PICK files \in FindFilesToPrune(new) :
        LET pruned == PrunedEntries(new, files)
            after == PruneBlockFiles(new, files)
        IN  /\ index' = after /\ dirty' = {} /\ unlinked' = wait \ pruned
            /\ disk' = Written(after, dirt \cup pruned)
            /\ diskTip' = coins
            /\ havePruned' = TRUE
  BY DEF PruneAndWriteAll
<1> DEFINE pruned == PrunedEntries(new, files)
           after == PruneBlockFiles(new, files)
<1>2. new \in Index /\ Chain[coins] \subseteq new.tx
  BY DEF Ready
<1>3. SameEntries(new, after) /\ after.data = new.data \ pruned
  BY <1>2, PruneBlockFilesKeeps
<1>4. Ready(after, dirt \cup pruned, coins)
  BY ReadyPruned
<1> HIDE DEF pruned, after
<1>5. /\ index' = after /\ dirty' = {} /\ unlinked' = wait \ pruned
      /\ disk' = Written(after, dirt \cup pruned) /\ diskTip' = coins /\ havePruned' = TRUE
  BY <1>1 DEF pruned, after
<1>6. Between(disk', after) /\ disk'.tx = after.tx
  BY <1>4, <1>5, WrittenIsBetween DEF TypeOK
<1>7. Between(disk', new)
  BY <1>3, <1>6 DEF Between, SameEntries
<1>8. SameEntries(new, index') /\ index'.tx = new.tx /\ disk'.tx = new.tx
  BY <1>3, <1>5, <1>6 DEF SameEntries
<1>9. unlinked' \subseteq wait /\ index'.data \cap wait \subseteq unlinked'
  BY <1>3, <1>5
<1> QED BY <1>2, <1>5, <1>7, <1>8, <1>9 DEF Saved

LEMMA FlushIfNeededSaves ==
  ASSUME TypeOK, DiskInv, NEW new, NEW dirt, NEW wait, NEW coins, Ready(new, dirt, coins),
         FlushIfNeeded(new, dirt, wait, coins)
  PROVE  Saved(new, wait, coins)
BY KeepSaves, WriteAllSaves, PruneAndWriteAllSaves DEF FlushIfNeeded


-----------------------------------------------------------------------------
(* What the parts of the invariant need of a handler.                       *)

LEMMA ReadyNow ==
  ASSUME TypeOK, LinkedInv, DiskInv, NEW coins \in linked
  PROVE  Ready(index, dirty, coins)
BY DEF TypeOK, LinkedInv, DiskInv, Ready

LEMMA DiskStaysSound ==
  ASSUME NEW new, NEW dirt, NEW wait, NEW coins, Ready(new, dirt, coins), Saved(new, wait, coins)
  PROVE  DiskInv'
BY DEF Ready, Saved, SameEntries, Between, DiskInv

\* No entry is linked, and what now waits was waiting or is linked.
LEMMA EntriesStayLinked ==
  ASSUME LinkedInv, WaitInv, NEW new, NEW more \in SUBSET linked, NEW coins,
         Saved(new, unlinked \cup more, coins),
         new.tx = index.tx, new.data \subseteq index.data, new.child \subseteq linked,
         index.valid \cup forgiven \subseteq new.valid \cup forgiven',
         linked' = linked, cand' \subseteq linked, tip' \in linked
  PROVE  LinkedInv' /\ WaitInv'
<1>1. /\ index'.tx = index.tx /\ index'.child \subseteq linked /\ index'.valid = new.valid
      /\ index'.data \subseteq index.data
      /\ unlinked' \subseteq unlinked \cup more
      /\ index'.data \cap (unlinked \cup more) \subseteq unlinked'
  BY DEF Saved, SameEntries
<1>2. LinkedInv'
  BY <1>1 DEF LinkedInv
<1>3. unlinked' \subseteq index'.tx
  BY <1>1 DEF LinkedInv, WaitInv
<1>4. \A b \in unlinked' \ linked' : Parent[b] \notin linked'
  BY <1>1 DEF WaitInv
<1>5. \A b \in index'.data \ linked' : b \in unlinked' \/ Parent[b] \in index'.valid \cup forgiven'
  BY <1>1 DEF WaitInv
<1> QED BY <1>2, <1>3, <1>4, <1>5 DEF WaitInv

\* The marks of failure stay where a check put them.
LEMMA VerdictsStay ==
  ASSUME VerdictInv, NEW new, NEW wait, NEW coins, Saved(new, wait, coins),
         new.data \cap BadContext = {},
         past' \cap {"invalidated", "changed"} = {} =>
            /\ past \cap {"invalidated", "changed"} = {}
            /\ refused' = refused
            /\ new.valid \subseteq Bad /\ new.child \subseteq AboveBad
            /\ tip' \notin AboveBad /\ coins \notin AboveBad
  PROVE  VerdictInv'
<1>1. (index'.data \cup disk'.data) \cap BadContext = {}
  BY DEF VerdictInv, Saved, SameEntries, Between
<1>2. ASSUME past' \cap {"invalidated", "changed"} = {}
      PROVE  /\ index'.valid \cup disk'.valid \subseteq Bad'
             /\ index'.child \cup disk'.child \subseteq AboveBad'
             /\ tip' \notin AboveBad' /\ diskTip' \notin AboveBad'
  <2>1. Bad' = Bad /\ AboveBad' = AboveBad
    BY <1>2 DEF Bad, AboveBad
  <2> QED BY <1>2, <2>1 DEF VerdictInv, Saved, SameEntries, Between
<1> QED BY <1>1, <1>2 DEF VerdictInv

LEMMA TypeStays ==
  ASSUME TypeOK, NEW new, NEW wait \in SUBSET Blocks, NEW coins \in Blocks, Saved(new, wait, coins),
         linked' \cup cand' \subseteq Blocks, seq' \in [Blocks -> Nat], nextSeq' \in Nat,
         tip' \in Blocks, tips' \subseteq Blocks,
         past' \subseteq {"replayed", "invalidated", "changed", "renumbered", "crashed"},
         pending' \in {"no", "yes", "held"}, step' \in Steps, node' \in {"up", "abort", "assert"},
         refused' \cup rejected' \subseteq Disputed, forgiven' \subseteq Blocks
  PROVE  TypeOK'
BY DEF TypeOK, Saved, SameEntries, Between, Steps

\* Nothing of the index and the databases changes.
LEMMA NothingStored ==
  ASSUME TypeOK, LinkedInv, DiskInv, UNCHANGED diskVars
  PROVE  Saved(index, unlinked, tip)
<1>1. Ready(index, dirty, tip)
  BY ReadyNow DEF LinkedInv
<1>2. Keep(index, dirty, unlinked)
  BY DEF Keep, diskVars
<1> QED BY <1>1, <1>2, KeepSaves

LEMMA IdleIsStep == Idle \in Steps /\ Idle.kind = "idle"
BY ChainStateAssumption DEF Idle, Steps

\* The entry of a new header.
LEMMA AddedFields ==
  ASSUME index \in Index, NEW b \in Blocks
  PROVE  /\ Added(b) \in Index
         /\ Added(b).known = index.known \cup {b} /\ Added(b).data = index.data
         /\ Added(b).tx = index.tx /\ Added(b).valid = index.valid
         /\ Added(b).child = index.child /\ Added(b).nFile = index.nFile
BY DEF Added, Index

\* An entry that a check refuses.
LEMMA FailedFields ==
  ASSUME NEW new \in Index, NEW b \in Blocks
  PROVE  LET f == [new EXCEPT !.valid = @ \cup {b}]
         IN  /\ f \in Index /\ f.known = new.known /\ f.data = new.data /\ f.tx = new.tx
             /\ f.valid = new.valid \cup {b} /\ f.child = new.child
BY DEF Index

\* Entries above one that failed.
LEMMA ChildFields ==
  ASSUME NEW new \in Index, NEW S \in SUBSET Blocks
  PROVE  LET f == [new EXCEPT !.child = @ \cup S]
         IN  /\ f \in Index /\ f.known = new.known /\ f.data = new.data /\ f.tx = new.tx
             /\ f.valid = new.valid /\ f.child = new.child \cup S
BY DEF Index

-----------------------------------------------------------------------------
(* Headers and blocks arrive.                                               *)

LEMMA AcceptBlockHeaderKeeps ==
  ASSUME IInv, NEW b \in Blocks \ {Genesis}, AcceptBlockHeader(b)
  PROVE  IInv'
<1> DEFINE new == Added(b)
           dirt == DirtyHeader(b)
<1>1. /\ new \in Index /\ new.known = index.known \cup {b} /\ new.data = index.data
      /\ new.tx = index.tx /\ new.valid = index.valid /\ new.child = index.child
  BY AddedFields DEF IInv, TypeOK
<1>2. dirt \subseteq Blocks /\ dirty \subseteq dirt
  BY DEF IInv, TypeOK, DirtyHeader
<1>3. Keep(new, dirt, unlinked) /\ node = "up" /\ step = Idle
  BY DEF AcceptBlockHeader, CsMainFree
<1> HIDE DEF new, dirt
<1>4. Ready(new, dirt, tip)
  BY <1>1, <1>2, ReadyNow DEF IInv, LinkedInv, Ready
<1>5. Saved(new, unlinked \cup {}, tip)
  BY <1>3, <1>4, KeepSaves DEF IInv
<1>6. UNCHANGED <<indexVars, envVars, pending, step, node>>
  BY DEF AcceptBlockHeader
<1>7. LinkedInv' /\ WaitInv'
  BY <1>1, <1>5, <1>6, EntriesStayLinked DEF IInv, LinkedInv, indexVars, envVars
<1>8. VerdictInv'
  BY <1>1, <1>5, <1>6, VerdictsStay DEF IInv, VerdictInv, indexVars, envVars
<1>9. TypeOK'
  BY <1>5, <1>6, TypeStays DEF IInv, TypeOK, Steps, indexVars, envVars
<1>10. DiskInv'
  BY <1>4, <1>5, DiskStaysSound
<1>11. StepInv' /\ StartsAfterCrash'
  BY <1>3, <1>6 DEF IInv, StepInv, StartsAfterCrash, indexVars, envVars
<1> QED BY <1>7, <1>8, <1>9, <1>10, <1>11 DEF IInv

LEMMA RejectBlockKeeps ==
  ASSUME IInv, NEW b \in Blocks \ {Genesis}, NEW requested, RejectBlock(b, requested)
  PROVE  IInv'
<1> DEFINE add == Added(b)
           new == [add EXCEPT !.valid = @ \cup {b}]
           dirt == dirty \cup {b}
<1>1. add \in Index /\ add.known = index.known \cup {b} /\ add.data = index.data
      /\ add.tx = index.tx /\ add.valid = index.valid /\ add.child = index.child
  BY AddedFields DEF IInv, TypeOK
<1>2. Keep(new, dirt, unlinked) /\ node = "up" /\ step = Idle /\ b \in BadContext \cup refused
  BY DEF RejectBlock, CsMainFree
<1> HIDE DEF add
<1>3. /\ new \in Index /\ new.known = index.known \cup {b} /\ new.data = index.data
      /\ new.tx = index.tx /\ new.valid = index.valid \cup {b} /\ new.child = index.child
  BY <1>1, FailedFields
<1>4. dirt \subseteq Blocks /\ dirty \subseteq dirt
  BY DEF IInv, TypeOK
<1> HIDE DEF new, dirt
<1>5. Ready(new, dirt, tip)
  BY <1>3, <1>4, ReadyNow DEF IInv, LinkedInv, Ready
<1>6. Saved(new, unlinked \cup {}, tip)
  BY <1>2, <1>5, KeepSaves DEF IInv
<1>7. /\ UNCHANGED <<indexVars, refused, forgiven, past, pending, step, node>>
      /\ rejected' = rejected \cup ({b} \cap refused)
  BY DEF RejectBlock
<1>8. LinkedInv' /\ WaitInv'
  BY <1>3, <1>6, <1>7, EntriesStayLinked DEF IInv, LinkedInv, indexVars
<1>9. VerdictInv'
  <2>1. b \in Bad
    BY <1>2 DEF Bad
  <2> QED BY <1>3, <1>6, <1>7, <2>1, VerdictsStay DEF IInv, VerdictInv, indexVars
<1>10. TypeOK'
  BY <1>6, <1>7, TypeStays DEF IInv, TypeOK, Steps, indexVars
<1>11. DiskInv'
  BY <1>5, <1>6, DiskStaysSound
<1>12. StepInv' /\ StartsAfterCrash'
  BY <1>2, <1>7 DEF IInv, StepInv, StartsAfterCrash, indexVars
<1> QED BY <1>8, <1>9, <1>10, <1>11, <1>12 DEF IInv

LEMMA IgnoreBlockKeeps ==
  ASSUME IInv, NEW b \in Blocks \ {Genesis}, NEW requested, IgnoreBlock(b, requested)
  PROVE  IInv'
<1> DEFINE new == Added(b)
           dirt == DirtyHeader(b)
<1>1. /\ new \in Index /\ new.known = index.known \cup {b} /\ new.data = index.data
      /\ new.tx = index.tx /\ new.valid = index.valid /\ new.child = index.child
  BY AddedFields DEF IInv, TypeOK
<1>2. dirt \subseteq Blocks /\ dirty \subseteq dirt
  BY DEF IInv, TypeOK, DirtyHeader
<1>3. Keep(new, dirt, unlinked) /\ node = "up" /\ step = Idle
  BY DEF IgnoreBlock, CsMainFree
<1> HIDE DEF new, dirt
<1>4. Ready(new, dirt, tip)
  BY <1>1, <1>2, ReadyNow DEF IInv, LinkedInv, Ready
<1>5. Saved(new, unlinked \cup {}, tip)
  BY <1>3, <1>4, KeepSaves DEF IInv
<1>6. pending' = "yes" /\ UNCHANGED <<indexVars, envVars, step, node>>
  BY DEF IgnoreBlock
<1>7. LinkedInv' /\ WaitInv'
  BY <1>1, <1>5, <1>6, EntriesStayLinked DEF IInv, LinkedInv, indexVars, envVars
<1>8. VerdictInv'
  BY <1>1, <1>5, <1>6, VerdictsStay DEF IInv, VerdictInv, indexVars, envVars
<1>9. TypeOK'
  BY <1>5, <1>6, TypeStays DEF IInv, TypeOK, Steps, indexVars, envVars
<1>10. DiskInv'
  BY <1>4, <1>5, DiskStaysSound
<1>11. StepInv' /\ StartsAfterCrash'
  BY <1>3, <1>6 DEF IInv, StepInv, StartsAfterCrash, indexVars, envVars
<1> QED BY <1>7, <1>8, <1>9, <1>10, <1>11 DEF IInv

LEMMA FlushStateToDiskKeeps ==
  ASSUME IInv, FlushStateToDisk
  PROVE  IInv'
<1>1. node = "up" /\ step = Idle /\ UNCHANGED <<indexVars, envVars, pending, step, node>>
  BY DEF FlushStateToDisk, CsMainFree
<1>2. Ready(index, dirty, tip)
  BY ReadyNow DEF IInv, LinkedInv
<1>3. Saved(index, unlinked, tip)
  BY <1>2, WriteIndexSaves, WriteAllSaves, PruneAndWriteAllSaves DEF IInv, FlushStateToDisk
<1>4. Saved(index, unlinked \cup {}, tip)
  <2>1. unlinked \cup {} = unlinked
    OBVIOUS
  <2> QED BY <1>3, <2>1
<1>5. LinkedInv' /\ WaitInv'
  BY <1>1, <1>4, EntriesStayLinked DEF IInv, LinkedInv, indexVars, envVars
<1>6. VerdictInv'
  BY <1>1, <1>3, VerdictsStay DEF IInv, VerdictInv, indexVars, envVars
<1>7. TypeOK'
  BY <1>1, <1>3, TypeStays DEF IInv, TypeOK, Steps, indexVars, envVars
<1>8. DiskInv'
  BY <1>2, <1>3, DiskStaysSound
<1>9. StepInv' /\ StartsAfterCrash'
  BY <1>1 DEF IInv, StepInv, StartsAfterCrash, indexVars, envVars
<1> QED BY <1>5, <1>6, <1>7, <1>8, <1>9 DEF IInv

\* The actions that touch neither the index nor the databases.
LEMMA NothingStoredKeeps ==
  ASSUME IInv, UNCHANGED <<linked, seq, nextSeq, tip, diskVars, forgiven>>, cand' \subseteq linked,
         tips' \subseteq Blocks,
         past \subseteq past',
         past' \subseteq {"replayed", "invalidated", "changed", "renumbered", "crashed"},
         refused' = refused \/ "changed" \in past',
         pending' \in {"no", "yes", "held"}, step' \in Steps, node' \in {"up", "abort", "assert"},
         refused' \cup rejected' \subseteq Disputed
  PROVE  TypeOK' /\ LinkedInv' /\ WaitInv' /\ DiskInv' /\ VerdictInv'
<1>1. Saved(index, unlinked, tip) /\ Ready(index, dirty, tip)
  BY NothingStored, ReadyNow DEF IInv, LinkedInv
<1>2. linked \cup cand' \subseteq Blocks /\ unlinked \subseteq Blocks
  BY DEF IInv, TypeOK
<1>3. TypeOK'
  BY <1>1, <1>2, TypeStays DEF IInv, TypeOK
<1>4. DiskInv'
  BY <1>1, DiskStaysSound
<1>5. LinkedInv' /\ WaitInv'
  BY DEF IInv, LinkedInv, WaitInv, diskVars
<1>6. VerdictInv'
  BY <1>1, VerdictsStay DEF IInv, VerdictInv
<1> QED BY <1>3, <1>4, <1>5, <1>6

LEMMA ChangeVerdictKeeps ==
  ASSUME IInv, NEW b \in Disputed, ChangeVerdict(b)
  PROVE  IInv'
<1>1. /\ UNCHANGED <<indexVars, diskVars, rejected, forgiven, pending, step, node>>
      /\ past' = past \cup {"changed"}
      /\ refused' \subseteq refused \cup {b}
  BY DEF ChangeVerdict
<1>2. TypeOK' /\ LinkedInv' /\ WaitInv' /\ DiskInv' /\ VerdictInv'
  <2>1. /\ cand' \subseteq linked /\ tips' \subseteq Blocks /\ pending' \in {"no", "yes", "held"} /\ step' \in Steps
        /\ node' \in {"up", "abort", "assert"} /\ refused' \cup rejected' \subseteq Disputed
        /\ past' \subseteq {"replayed", "invalidated", "changed", "renumbered", "crashed"}
    BY <1>1 DEF IInv, TypeOK, LinkedInv, Steps, indexVars
  <2> QED BY <1>1, <2>1, NothingStoredKeeps DEF indexVars
<1>3. StepInv' /\ StartsAfterCrash'
  BY <1>1 DEF IInv, StepInv, StartsAfterCrash, Failed, indexVars, diskVars
<1> QED BY <1>2, <1>3 DEF IInv

LEMMA ReprocessBlocksKeeps ==
  ASSUME IInv, NEW n \in 1..MaxReplay, NEW recent \in SUBSET Disputed, ReprocessBlocks(n, recent)
  PROVE  IInv'
<1>1. /\ UNCHANGED <<indexVars, diskVars, refused, rejected, forgiven, pending, node>>
      /\ past' = past \cup {"replayed"} /\ node = "up"
      /\ step' = [Idle EXCEPT !.kind = "replay", !.todo = recent, !.left = n]
  BY DEF ReprocessBlocks, CsMainFree
<1>2. step' \in Steps /\ step'.kind = "replay"
  <2>1. step' = [kind |-> "replay", target |-> None, old |-> None, todo |-> recent, left |-> n]
    BY <1>1 DEF Idle
  <2>2. n \in 0..MaxReplay
    BY ChainStateAssumption
  <2> QED BY <2>1, <2>2 DEF Steps
<1>3. TypeOK' /\ LinkedInv' /\ WaitInv' /\ DiskInv' /\ VerdictInv'
  <2>1. /\ cand' \subseteq linked /\ tips' \subseteq Blocks /\ pending' \in {"no", "yes", "held"}
        /\ node' \in {"up", "abort", "assert"} /\ refused' \cup rejected' \subseteq Disputed
        /\ past' \subseteq {"replayed", "invalidated", "changed", "renumbered", "crashed"}
    BY <1>1 DEF IInv, TypeOK, LinkedInv, indexVars
  <2> QED BY <1>1, <1>2, <2>1, NothingStoredKeeps DEF indexVars
<1>4. StepInv' /\ StartsAfterCrash'
  BY <1>1, <1>2 DEF IInv, StepInv, StartsAfterCrash, indexVars
<1> QED BY <1>3, <1>4 DEF IInv

LEMMA ReplayActivatesKeeps ==
  ASSUME IInv, ReplayActivates
  PROVE  IInv'
<1>1. /\ UNCHANGED <<indexVars, diskVars, envVars, node>> /\ node = "up"
      /\ step' = Idle /\ pending' = "held"
  BY DEF ReplayActivates
<1>2. step' \in Steps /\ step'.kind = "idle"
  BY <1>1, IdleIsStep
<1>3. TypeOK' /\ LinkedInv' /\ WaitInv' /\ DiskInv' /\ VerdictInv'
  <2>1. /\ cand' \subseteq linked /\ tips' \subseteq Blocks /\ pending' \in {"no", "yes", "held"}
        /\ node' \in {"up", "abort", "assert"} /\ refused' \cup rejected' \subseteq Disputed
        /\ past' \subseteq {"replayed", "invalidated", "changed", "renumbered", "crashed"}
    BY <1>1 DEF IInv, TypeOK, LinkedInv, indexVars, envVars
  <2> QED BY <1>1, <1>2, <2>1, NothingStoredKeeps DEF indexVars, envVars
<1>4. StepInv' /\ StartsAfterCrash'
  BY <1>1, <1>2 DEF IInv, StepInv, StartsAfterCrash, indexVars
<1> QED BY <1>3, <1>4 DEF IInv

\* AbortNode, whatever could not be read.
LEMMA AbortNodeKeeps ==
  ASSUME IInv, AbortNode
  PROVE  IInv'
<1>1. UNCHANGED <<indexVars, diskVars, envVars, pending, step>> /\ node' = "abort"
  BY DEF AbortNode
<1>2. TypeOK' /\ LinkedInv' /\ WaitInv' /\ DiskInv' /\ VerdictInv'
  <2>1. /\ cand' \subseteq linked /\ tips' \subseteq Blocks /\ pending' \in {"no", "yes", "held"} /\ step' \in Steps
        /\ node' \in {"up", "abort", "assert"} /\ refused' \cup rejected' \subseteq Disputed
        /\ past' \subseteq {"replayed", "invalidated", "changed", "renumbered", "crashed"}
    BY <1>1 DEF IInv, TypeOK, LinkedInv, Steps, indexVars, envVars
  <2> QED BY <1>1, <2>1, NothingStoredKeeps DEF indexVars, envVars
<1>3. StepInv' /\ StartsAfterCrash'
  BY <1>1 DEF IInv, StepInv, StartsAfterCrash, indexVars, envVars
<1> QED BY <1>2, <1>3 DEF IInv

LEMMA StepCannotReadKeeps ==
  ASSUME IInv, StepCannotRead
  PROVE  IInv'
BY AbortNodeKeeps DEF StepCannotRead

LEMMA InvalidateEndsKeeps ==
  ASSUME IInv, InvalidateEnds
  PROVE  IInv'
<1>1. /\ UNCHANGED <<linked, seq, nextSeq, tip, diskVars, envVars, node>> /\ node = "up"
      /\ step' = Idle /\ pending' = "yes" /\ tips' = {tip}
      /\ cand' = cand \cup {c \in linked \ Failed : ~ Worse(c, tip, seq)}
  BY DEF InvalidateEnds
<1>2. step' \in Steps /\ step'.kind = "idle"
  BY <1>1, IdleIsStep
<1>3. TypeOK' /\ LinkedInv' /\ WaitInv' /\ DiskInv' /\ VerdictInv'
  <2>1. /\ cand' \subseteq linked /\ tips' \subseteq Blocks /\ pending' \in {"no", "yes", "held"}
        /\ node' \in {"up", "abort", "assert"} /\ refused' \cup rejected' \subseteq Disputed
        /\ past' \subseteq {"replayed", "invalidated", "changed", "renumbered", "crashed"}
    BY <1>1 DEF IInv, TypeOK, LinkedInv, envVars
  <2> QED BY <1>1, <1>2, <2>1, NothingStoredKeeps DEF envVars
<1>4. \A c \in cand' : nChainWork[tip] <= nChainWork[c]
  <2>1. seq \in Sequence /\ tip \in Blocks /\ linked \subseteq Blocks
    BY DEF IInv, TypeOK, Sequence
  <2> QED BY <1>1, <2>1, WorseByWork DEF IInv, StepInv
<1>5. StepInv' /\ StartsAfterCrash'
  BY <1>1, <1>2, <1>4 DEF StepInv, StartsAfterCrash
<1> QED BY <1>3, <1>5 DEF IInv

\* The entry of a block that AcceptBlock stores.
LEMMA StoredFields ==
  ASSUME index \in Index, NEW b \in Blocks, NEW f \in Nat
  PROVE  LET new == [Added(b) EXCEPT !.data = @ \cup {b}, !.tx = @ \cup {b}, !.nFile[b] = f]
         IN  /\ new \in Index /\ new.known = index.known \cup {b}
             /\ new.data = index.data \cup {b} /\ new.tx = index.tx \cup {b}
             /\ new.valid = index.valid /\ new.child = index.child
<1> DEFINE add == Added(b)
           nf == [add.nFile EXCEPT ![b] = f]
           new == [add EXCEPT !.data = add.data \cup {b}, !.tx = add.tx \cup {b}, !.nFile = nf]
<1>1. add \in Index /\ add.known = index.known \cup {b} /\ add.data = index.data
      /\ add.tx = index.tx /\ add.valid = index.valid /\ add.child = index.child
  BY AddedFields
<1> HIDE DEF add
<1>2. nf \in [Blocks -> Nat] /\ add.data \cup {b} \subseteq Blocks /\ add.tx \cup {b} \subseteq Blocks
  BY <1>1, IndexFields
<1> HIDE DEF nf
<1>3. /\ new \in Index /\ new.known = index.known \cup {b}
      /\ new.data = index.data \cup {b} /\ new.tx = index.tx \cup {b}
      /\ new.valid = index.valid /\ new.child = index.child
  BY <1>1, <1>2 DEF Index
<1> QED BY <1>3 DEF add, nf

\* The numbers that ReceivedBlockTransactions hands out.
LEMMA NumbersHandedOut ==
  ASSUME TypeOK, NEW S \in SUBSET Blocks, NEW r \in QueueOrders(S)
  PROVE  /\ [c \in Blocks |-> IF c \in S THEN nextSeq + r[c] - 1 ELSE seq[c]] \in [Blocks -> Nat]
         /\ nextSeq + Cardinality(S) \in Nat
<1>1. IsFiniteSet(S) /\ Cardinality(S) \in Nat
  BY ChainStateAssumption, FS_Subset, FS_CardinalityType
<1>2. r \in [S -> 1..Cardinality(S)] /\ nextSeq \in Nat /\ seq \in [Blocks -> Nat]
  BY DEF QueueOrders, TypeOK
<1>3. \A c \in S : r[c] \in Nat /\ r[c] >= 1
  BY <1>1, <1>2
<1>4. \A c \in S : nextSeq + r[c] - 1 \in Nat
  BY <1>2, <1>3
<1> QED BY <1>1, <1>2, <1>4

\* The queue of ReceivedBlockTransactions links whole chains, and leaves nobody
\* waiting whose parent is linked.
LEMMA QueueLinksChains ==
  ASSUME LinkedInv, WaitInv, unlinked \subseteq Blocks, linked \subseteq Blocks,
         NEW b \in Blocks \ {Genesis}, Parent[b] \in linked
  PROVE  /\ b \in NowLinked(b) /\ NowLinked(b) \subseteq unlinked \cup {b}
         /\ \A c \in linked \cup NowLinked(b) : Chain[c] \subseteq linked \cup NowLinked(b)
         /\ \A a \in unlinked \ (linked \cup NowLinked(b)) :
               Parent[a] \notin linked \cup NowLinked(b)
<1> DEFINE S == NowLinked(b)
<1>1. b \in Chain[b] /\ Chain[b] \subseteq linked \cup {b}
  BY ChainEnds, ParentFacts DEF LinkedInv
<1>2. b \in S /\ S \subseteq unlinked \cup {b}
  BY <1>1 DEF NowLinked
<1>3. ASSUME NEW c \in S
      PROVE  Chain[c] \subseteq linked \cup S
  <2>1. c \in Blocks /\ b \in Chain[c] /\ Chain[c] \ Chain[b] \subseteq unlinked
    BY DEF NowLinked
  <2>2. ASSUME NEW x \in Chain[c], x \notin Chain[b]
        PROVE  x \in S
    <3>1. x \in Blocks /\ Chain[x] \subseteq Chain[c]
      BY <2>1, ChainTransitive
    <3>2. b \in Chain[x]
      BY <2>1, <2>2, ChainLinear
    <3>3. x \in unlinked /\ Chain[x] \ Chain[b] \subseteq unlinked
      BY <2>1, <2>2, <3>1
    <3> QED BY <3>2, <3>3 DEF NowLinked
  <2> QED BY <1>1, <1>2, <2>2
<1>4. ASSUME NEW a \in unlinked \ (linked \cup S)
      PROVE  Parent[a] \notin linked \cup S
  <2>1. a \in Blocks \ {Genesis} /\ Parent[a] \notin linked
    BY DEF LinkedInv, WaitInv
  <2>2. Chain[a] = Chain[Parent[a]] \cup {a}
    BY <2>1, ParentFacts
  <2>3. Parent[a] \in S => a \in S
    BY <2>2 DEF NowLinked
  <2> QED BY <2>1, <2>3
<1> HIDE DEF S
<1>5. \A c \in linked \cup S : Chain[c] \subseteq linked \cup S
  BY <1>3 DEF LinkedInv
<1> QED BY <1>2, <1>4, <1>5 DEF S

LEMMA AcceptBlockKeeps ==
  ASSUME IInv, NEW b \in Blocks \ {Genesis}, NEW requested, AcceptBlock(b, requested)
  PROVE  IInv'
<1> DEFINE new == [Added(b) EXCEPT !.data = @ \cup {b}, !.tx = @ \cup {b}, !.nFile[b] = FindBlockPos]
           dirt == dirty \cup {b}
           S == NowLinked(b)
           wait == UnlinkedAfter(b)
<1>1. FindBlockPos \in Nat
  BY FilesAreNumbered DEF FindBlockPos, IInv, TypeOK
<1>2. /\ new \in Index /\ new.known = index.known \cup {b}
      /\ new.data = index.data \cup {b} /\ new.tx = index.tx \cup {b}
      /\ new.valid = index.valid /\ new.child = index.child
  BY <1>1, StoredFields DEF IInv, TypeOK
<1>3. Keep(new, dirt, wait) /\ node = "up" /\ step = Idle /\ b \notin BadContext
  BY DEF AcceptBlock, CsMainFree
<1>4. dirt \subseteq Blocks /\ dirty \subseteq dirt /\ b \in dirt
  BY DEF IInv, TypeOK
<1> HIDE DEF new, dirt, S, wait
<1>5. Ready(new, dirt, tip)
  <2>1. Ready(index, dirty, tip)
    BY ReadyNow DEF IInv, LinkedInv
  <2> QED BY <1>2, <1>4, <2>1 DEF Ready
<1>6. Saved(new, wait, tip)
  BY <1>3, <1>5, KeepSaves DEF IInv
<1>7. index' = new /\ unlinked' = wait
  BY <1>3 DEF Keep
<1>8. /\ pending' = "yes" /\ UNCHANGED <<tip, tips, refused, rejected, forgiven, step, node>>
      /\ past' \in {past, past \cup {"renumbered"}}
  BY DEF AcceptBlock
<1>9. linked \subseteq Blocks /\ unlinked \subseteq Blocks /\ cand \subseteq linked /\ tip \in Blocks
  BY DEF IInv, TypeOK, LinkedInv
<1>10. VerdictInv'
  BY <1>2, <1>3, <1>6, <1>8, VerdictsStay DEF IInv, VerdictInv
<1>11. DiskInv'
  BY <1>5, <1>6, DiskStaysSound
<1>12. StartsAfterCrash'
  BY <1>3, <1>8 DEF StartsAfterCrash
<1>13. CASE Parent[b] \in linked
  <2>1. PICK r \in QueueOrders(S) :
          LET s == [c \in Blocks |-> IF c \in S THEN nextSeq + r[c] - 1 ELSE seq[c]]
          IN /\ linked' = linked \cup S
             /\ seq' = s
             /\ nextSeq' = nextSeq + Cardinality(S)
             /\ cand' = cand \cup {c \in S : ~Worse(c, tip, s)}
    BY <1>13 DEF AcceptBlock, ReceivedBlockTransactions, S
  <2>2. /\ linked' = linked \cup S /\ nextSeq' = nextSeq + Cardinality(S)
        /\ cand' = cand \cup {c \in S : ~Worse(c, tip, seq')}
        /\ seq' = [c \in Blocks |-> IF c \in S THEN nextSeq + r[c] - 1 ELSE seq[c]]
    BY <2>1
  <2>3. /\ b \in S /\ S \subseteq unlinked \cup {b}
        /\ \A c \in linked \cup S : Chain[c] \subseteq linked \cup S
        /\ \A a \in unlinked \ (linked \cup S) : Parent[a] \notin linked \cup S
    BY <1>9, <1>13, QueueLinksChains DEF IInv, S
  <2>4. S \subseteq Blocks
    BY <1>9, <2>3
  <2>5. seq' \in [Blocks -> Nat] /\ nextSeq' \in Nat
    BY <2>2, <2>4, NumbersHandedOut DEF IInv
  <2>6. wait = unlinked \ (S \ {b})
    BY <1>13 DEF wait, UnlinkedAfter, S
  <2>7. LinkedInv'
    <3>1. linked' \subseteq index'.tx
      BY <1>2, <1>7, <2>2, <2>3 DEF IInv, LinkedInv, WaitInv
    <3>2. Genesis \in linked' /\ \A c \in linked' : Chain[c] \subseteq linked'
      BY <2>2, <2>3 DEF IInv, LinkedInv
    <3>3. index'.child \subseteq linked' /\ cand' \subseteq linked' /\ tip' \in linked'
      BY <1>2, <1>7, <1>8, <2>2 DEF IInv, LinkedInv
    <3> QED BY <3>1, <3>2, <3>3 DEF LinkedInv
  <2>8. WaitInv'
    <3>1. unlinked' \subseteq index'.tx
      BY <1>2, <1>7, <2>6 DEF IInv, WaitInv
    <3>2. \A a \in unlinked' \ linked' : Parent[a] \notin linked'
      BY <1>7, <2>2, <2>3, <2>6
    <3>3. \A a \in index'.data \ linked' :
             a \in unlinked' \/ Parent[a] \in index'.valid \cup forgiven'
      BY <1>2, <1>7, <1>8, <2>2, <2>3, <2>6 DEF IInv, WaitInv
    <3> QED BY <3>1, <3>2, <3>3 DEF WaitInv
  <2>9. StepInv'
    <3>1. \A c \in S : ~Worse(c, tip, seq') => nChainWork[tip] <= nChainWork[c]
      BY <1>9, <2>4, <2>5, WorseByWork DEF Sequence
    <3>2. \A c \in cand' : nChainWork[tip'] <= nChainWork[c]
      BY <1>8, <2>2, <3>1 DEF IInv, StepInv
    <3>3. step'.kind = "idle"
      BY <1>3, <1>8, IdleIsStep
    <3> QED BY <3>2, <3>3 DEF StepInv
  <2>10. TypeOK'
    BY <1>6, <1>8, <1>9, <2>2, <2>4, <2>5, <2>6, TypeStays DEF IInv, TypeOK, Steps
  <2> QED BY <1>10, <1>11, <1>12, <2>7, <2>8, <2>9, <2>10 DEF IInv
<1>14. CASE Parent[b] \notin linked
  <2>1. linked' = linked \ {b} /\ UNCHANGED <<seq, nextSeq, cand>>
    BY <1>14 DEF AcceptBlock, ReceivedBlockTransactions
  <2>2. b \notin linked
    <3>1. Parent[b] \in Chain[b]
      BY ParentFacts, ChainEnds
    <3> QED BY <1>14, <3>1 DEF IInv, LinkedInv
  <2>3. linked' = linked
    BY <2>1, <2>2
  <2>4. /\ wait \in {unlinked, unlinked \cup {b}}
        /\ Parent[b] \notin Failed => wait = unlinked \cup {b}
    BY <1>14 DEF wait, UnlinkedAfter
  <2>5. LinkedInv'
    BY <1>2, <1>7, <1>8, <2>1, <2>3 DEF IInv, LinkedInv
  <2>6. WaitInv'
    <3>1. unlinked' \subseteq index'.tx
      BY <1>2, <1>7, <2>4 DEF IInv, WaitInv
    <3>2. \A a \in unlinked' \ linked' : Parent[a] \notin linked'
      BY <1>7, <1>14, <2>3, <2>4 DEF IInv, WaitInv
    <3>3. \A a \in index'.data \ linked' :
             a \in unlinked' \/ Parent[a] \in index'.valid \cup forgiven'
      <4>1. Parent[b] \in Failed => Parent[b] \in index.valid
        BY <1>14 DEF IInv, LinkedInv, Failed
      <4> QED BY <1>2, <1>7, <1>8, <2>3, <2>4, <4>1 DEF IInv, WaitInv
    <3> QED BY <3>1, <3>2, <3>3 DEF WaitInv
  <2>7. StepInv'
    <3>1. step'.kind = "idle"
      BY <1>3, <1>8, IdleIsStep
    <3> QED BY <1>8, <2>1, <3>1 DEF IInv, StepInv
  <2>8. TypeOK'
    <3>1. wait \subseteq Blocks
      BY <1>9, <2>4
    <3> QED BY <1>6, <1>8, <1>9, <2>1, <2>3, <3>1, TypeStays DEF IInv, TypeOK, Steps
  <2> QED BY <1>10, <1>11, <1>12, <2>5, <2>6, <2>7, <2>8 DEF IInv
<1> QED BY <1>13, <1>14


-----------------------------------------------------------------------------
(* ActivateBestChain.                                                       *)

\* What lies above the highest obstacle has it in its chain.
LEMMA AboveObstacle ==
  ASSUME NEW c \in Blocks, Obstacles(c) # {}, NEW x \in Above(c)
  PROVE  /\ FirstObstacle(c) \in Chain[x] /\ x \in Chain[c]
         /\ Chain[FirstObstacle(c)] \subseteq Chain[x]
<1>1. FirstObstacle(c) \in Chain[c]
  BY FirstObstacleIs DEF Obstacles
<1>2. x \in Chain[c] /\ x \notin Chain[FirstObstacle(c)]
  BY DEF Above
<1>3. FirstObstacle(c) \in Chain[x] /\ x \in Blocks
  BY <1>1, <1>2, ChainLinear, ChainTransitive
<1> QED BY <1>2, <1>3, ChainTransitive

\* FindMostWorkChain returns a candidate that it has not given up.
LEMMA MostWorkIsCandidate ==
  ASSUME IInv, FindMostWorkChain, MostWork # None
  PROVE  MostWork \in cand' /\ MostWork \in Usable
<1> DEFINE gone == UNION {Above(c) \cup {FirstObstacle(c)} : c \in GivenUp}
<1>1. cand' = cand \ gone
  BY DEF FindMostWorkChain
<1>2. cand \subseteq Blocks /\ seq \in Sequence
  BY DEF IInv, TypeOK, Sequence
<1>3. Usable # {} /\ MostWork = Best(Usable)
  BY DEF MostWork
<1>4. MostWork \in Usable
  <2>1. Usable \in SUBSET Blocks
    BY <1>2 DEF Usable
  <2> QED BY <1>2, <1>3, <2>1, BestIsTaken
<1>5. MostWork \in cand /\ MostWork \in Blocks /\ Obstacles(MostWork) = {}
  BY <1>2, <1>4 DEF Usable
<1>6. ASSUME NEW c \in GivenUp, MostWork \in Above(c) \cup {FirstObstacle(c)}
      PROVE  FALSE
  <2>1. c \in Blocks /\ Obstacles(c) # {}
    BY <1>2 DEF GivenUp, Usable
  <2>2. FirstObstacle(c) \in Obstacles(c)
    BY <2>1, FirstObstacleIs
  <2>3. FirstObstacle(c) \in Chain[MostWork]
    BY <1>5, <1>6, <2>1, AboveObstacle, ChainEnds
  <2>4. FirstObstacle(c) \in Obstacles(MostWork)
    BY <2>2, <2>3 DEF Obstacles
  <2> QED BY <1>5, <2>4
<1>7. MostWork \notin gone
  BY <1>6
<1> QED BY <1>1, <1>4, <1>5, <1>7

\* What FindMostWorkChain marks and puts back is linked; the marked lies above a
\* block that failed.
LEMMA FindMostWorkChainMarks ==
  ASSUME IInv, FindMostWorkChain
  PROVE  \E children \in SUBSET linked, more \in SUBSET linked :
            /\ Keep([index EXCEPT !.child = @ \cup children], dirty, unlinked \cup more)
            /\ past \cap {"invalidated", "changed"} = {} => children \subseteq AboveBad
            /\ cand' \subseteq cand
<1> DEFINE children == UNION {Above(c) : c \in GivenUpFailed}
           more == UNION {Above(c) : c \in GivenUp \ GivenUpFailed}
<1>1. /\ Keep([index EXCEPT !.child = @ \cup children], dirty, unlinked \cup more)
      /\ cand' \subseteq cand
  BY DEF FindMostWorkChain
<1>2. ASSUME NEW c \in GivenUp
      PROVE  c \in cand /\ c \in Blocks /\ Obstacles(c) # {} /\ Above(c) \subseteq linked
  <2>1. c \in cand /\ c \in Blocks /\ Obstacles(c) # {}
    BY DEF GivenUp, Usable, IInv, TypeOK
  <2> QED BY <2>1 DEF Above, IInv, LinkedInv
<1>3. GivenUpFailed \subseteq GivenUp
  BY DEF GivenUpFailed
<1>4. children \subseteq linked /\ more \subseteq linked
  BY <1>2, <1>3
<1>5. ASSUME past \cap {"invalidated", "changed"} = {}, NEW x \in children
      PROVE  x \in AboveBad
  <2>1. PICK c \in GivenUpFailed : x \in Above(c)
    OBVIOUS
  <2>2. c \in Blocks /\ Obstacles(c) # {} /\ FirstObstacle(c) \in Failed /\ x \in Blocks
    BY <1>2, <1>3, <1>4, <2>1 DEF GivenUpFailed, IInv, TypeOK
  <2>3. FirstObstacle(c) \in Chain[x] /\ Chain[FirstObstacle(c)] \subseteq Chain[x]
    BY <2>1, <2>2, AboveObstacle
  <2>4. FirstObstacle(c) \in Bad \/ FirstObstacle(c) \in AboveBad
    BY <1>5, <2>2 DEF Failed, IInv, VerdictInv
  <2> QED BY <2>2, <2>3, <2>4 DEF AboveBad
<1> HIDE DEF children, more
<1> QED BY <1>1, <1>4, <1>5

LEMMA StartStepKeeps ==
  ASSUME IInv, StartStep
  PROVE  IInv'
<1>1. /\ FindMostWorkChain /\ UNCHANGED <<linked, seq, nextSeq, tip, tips, envVars, node>>
      /\ node = "up" /\ step = Idle
  BY DEF StartStep
<1>2. PICK children \in SUBSET linked, more \in SUBSET linked :
        /\ Keep([index EXCEPT !.child = @ \cup children], dirty, unlinked \cup more)
        /\ past \cap {"invalidated", "changed"} = {} => children \subseteq AboveBad
        /\ cand' \subseteq cand
  BY <1>1, FindMostWorkChainMarks
<1> DEFINE new == [index EXCEPT !.child = @ \cup children]
<1>3. /\ new \in Index /\ new.known = index.known /\ new.data = index.data /\ new.tx = index.tx
      /\ new.valid = index.valid /\ new.child = index.child \cup children
  BY ChildFields DEF IInv, TypeOK
<1>4. Keep(new, dirty, unlinked \cup more)
  BY <1>2
<1> HIDE DEF new
<1>5. Ready(new, dirty, tip)
  <2>1. Ready(index, dirty, tip) /\ \A b \in children : Chain[b] \subseteq index.tx
    BY ReadyNow DEF IInv, LinkedInv
  <2> QED BY <1>3, <2>1 DEF Ready
<1>6. Saved(new, unlinked \cup more, tip)
  BY <1>4, <1>5, KeepSaves DEF IInv
<1>7. LinkedInv' /\ WaitInv'
  BY <1>1, <1>2, <1>3, <1>6, EntriesStayLinked DEF IInv, LinkedInv, envVars
<1>8. VerdictInv'
  BY <1>1, <1>2, <1>3, <1>6, VerdictsStay DEF IInv, VerdictInv, envVars
<1>9. DiskInv'
  BY <1>5, <1>6, DiskStaysSound
<1>10. \/ pending' = "no" /\ UNCHANGED step
       \/ /\ MostWork # None /\ MostWork # tip /\ UNCHANGED pending
          /\ step' = [Idle EXCEPT !.kind = "connect", !.target = MostWork, !.old = tip]
  BY DEF StartStep
<1>11. /\ step' \in Steps
       /\ step'.kind \in {"idle", "connect"}
       /\ step'.kind = "connect" => step'.target \in cand' /\ step'.target # tip'
  <2>1. CASE UNCHANGED step
    BY <1>1, <2>1, IdleIsStep
  <2>2. CASE /\ MostWork # None /\ MostWork # tip
             /\ step' = [Idle EXCEPT !.kind = "connect", !.target = MostWork, !.old = tip]
    <3>1. MostWork \in cand' /\ MostWork \in Blocks /\ tip \in Blocks
      BY <1>1, <1>2, <2>2, MostWorkIsCandidate DEF IInv, TypeOK
    <3>2. step' = [kind |-> "connect", target |-> MostWork, old |-> tip, todo |-> {}, left |-> 0]
      BY <2>2 DEF Idle
    <3>3. 0 \in 0..MaxReplay
      BY ChainStateAssumption
    <3> QED BY <1>1, <2>2, <3>1, <3>2, <3>3 DEF Steps
  <2> QED BY <1>10, <2>1, <2>2
<1>12. StepInv' /\ StartsAfterCrash'
  BY <1>1, <1>2, <1>11 DEF IInv, StepInv, StartsAfterCrash
<1>13. TypeOK'
  <2>1. pending' \in {"no", "yes", "held"} /\ unlinked \cup more \subseteq Blocks /\ cand' \subseteq Blocks
    BY <1>2, <1>10 DEF IInv, TypeOK
  <2> QED BY <1>1, <1>6, <1>11, <2>1, TypeStays DEF IInv, TypeOK, envVars
<1> QED BY <1>7, <1>8, <1>9, <1>12, <1>13 DEF IInv

\* The block below the tip.
LEMMA BelowTip ==
  ASSUME IInv, tip # Genesis
  PROVE  /\ tip \in Blocks \ {Genesis} /\ Parent[tip] \in linked /\ Parent[tip] \in Blocks
         /\ Parent[tip] # tip
         /\ tip \notin AboveBad => Parent[tip] \notin AboveBad
         /\ nChainWork[Parent[tip]] < nChainWork[tip]
         /\ \A c \in cand : nChainWork[Parent[tip]] < nChainWork[c]
<1>1. tip \in Blocks \ {Genesis}
  BY DEF IInv, TypeOK
<1>2. /\ Parent[tip] \in Blocks /\ Chain[tip] = Chain[Parent[tip]] \cup {tip}
      /\ nChainWork[tip] \in Nat /\ nChainWork[Parent[tip]] \in Nat
      /\ nChainWork[Parent[tip]] < nChainWork[tip]
  BY <1>1, ParentFacts
<1>3. Parent[tip] \in linked
  <2>1. Parent[tip] \in Chain[tip]
    BY <1>2, ChainEnds
  <2> QED BY <2>1 DEF IInv, LinkedInv
<1>4. \A c \in cand : nChainWork[Parent[tip]] < nChainWork[c]
  <2>1. \A c \in cand : nChainWork[c] \in Nat /\ nChainWork[tip] <= nChainWork[c]
    BY ChainStateAssumption DEF IInv, TypeOK, StepInv
  <2> QED BY <1>2, <2>1
<1>5. tip \notin AboveBad => Parent[tip] \notin AboveBad
  BY <1>1, <1>2 DEF AboveBad
<1>6. Parent[tip] # tip
  BY <1>2
<1> QED BY <1>1, <1>2, <1>3, <1>4, <1>5, <1>6

\* A step, or a replay, disconnects the tip and leaves the index alone.
LEMMA DisconnectTipKeeps ==
  ASSUME IInv, tip # Genesis, DisconnectTip(index, dirty),
         UNCHANGED <<linked, seq, nextSeq, cand, envVars, pending, node>>, step' \in Steps,
         node = "up",
         step'.kind = "connect" => step'.target \in cand,
         step'.kind # "invalidate"
  PROVE  IInv'
<1>1. /\ Parent[tip] \in linked /\ Parent[tip] \in Blocks
      /\ tip \notin AboveBad => Parent[tip] \notin AboveBad
      /\ \A c \in cand : nChainWork[Parent[tip]] < nChainWork[c]
      /\ nChainWork[Parent[tip]] \in Nat
      /\ \A c \in cand : nChainWork[c] \in Nat
  BY BelowTip, ChainStateAssumption DEF IInv, TypeOK
<1>2. /\ tip' = Parent[tip] /\ tips' = tips \cup {Parent[tip]}
      /\ FlushIfNeeded(index, dirty, unlinked, Parent[tip])
  BY DEF DisconnectTip
<1>3. Ready(index, dirty, Parent[tip])
  BY <1>1, ReadyNow DEF IInv
<1>4. Saved(index, unlinked, Parent[tip])
  BY <1>2, <1>3, FlushIfNeededSaves DEF IInv
<1>5. unlinked = unlinked \cup {} /\ {} \in SUBSET linked
  OBVIOUS
<1>6. LinkedInv' /\ WaitInv'
  <2>1. Saved(index, unlinked \cup {}, Parent[tip])
    BY <1>4, <1>5
  <2> QED BY <1>1, <1>2, <1>5, <2>1, EntriesStayLinked DEF IInv, LinkedInv, envVars
<1>7. VerdictInv'
  BY <1>1, <1>2, <1>4, VerdictsStay DEF IInv, VerdictInv, envVars
<1>8. DiskInv'
  BY <1>3, <1>4, DiskStaysSound
<1>9. StepInv' /\ StartsAfterCrash'
  <2>1. \A c \in cand : nChainWork[Parent[tip]] <= nChainWork[c] /\ c # Parent[tip]
    BY <1>1
  <2> QED BY <1>2, <2>1 DEF StepInv, StartsAfterCrash
<1>10. TypeOK'
  BY <1>1, <1>2, <1>4, TypeStays DEF IInv, TypeOK, envVars
<1> QED BY <1>6, <1>7, <1>8, <1>9, <1>10 DEF IInv

LEMMA StepDisconnectsKeeps ==
  ASSUME IInv, StepDisconnects
  PROVE  IInv'
<1>1. step.kind = "connect" /\ tip \notin Chain[step.target] /\ node = "up"
  BY DEF StepDisconnects
<1>2. step.target \in cand /\ step.target \in Blocks
  BY <1>1 DEF IInv, StepInv, TypeOK
<1>3. tip # Genesis
  BY <1>1, <1>2, ChainEnds
<1>4. CASE tip \in index.data
  <2>1. /\ DisconnectTip(index, dirty)
        /\ UNCHANGED <<linked, seq, nextSeq, cand, envVars, pending, step, node>>
    BY <1>4 DEF StepDisconnects
  <2>2. step' \in Steps
    BY <2>1 DEF IInv, TypeOK, Steps
  <2> QED BY <1>1, <1>2, <1>3, <2>1, <2>2, DisconnectTipKeeps
<1>5. CASE tip \notin index.data
  BY <1>5, AbortNodeKeeps DEF StepDisconnects
<1> QED BY <1>4, <1>5

LEMMA ReplayDisconnectsKeeps ==
  ASSUME IInv, ReplayDisconnects
  PROVE  IInv'
<1>1. step.kind = "replay" /\ step.left > 0 /\ tip # Genesis /\ node = "up"
  BY DEF ReplayDisconnects
<1>2. CASE tip \in index.data
  <2>1. /\ DisconnectTip(index, dirty)
        /\ UNCHANGED <<linked, seq, nextSeq, cand, envVars, pending, node>>
        /\ step' = [step EXCEPT !.left = @ - 1]
    BY <1>2 DEF ReplayDisconnects
  <2>2. step \in Steps
    BY DEF IInv, TypeOK, Steps
  <2>3. step.left - 1 \in 0..MaxReplay
    BY <1>1, <2>2, ChainStateAssumption DEF Steps
  <2>4. step' \in Steps /\ step'.kind = "replay"
    BY <1>1, <2>1, <2>2, <2>3 DEF Steps
  <2> QED BY <1>1, <2>1, <2>4, DisconnectTipKeeps
<1>3. CASE tip \notin index.data
  BY <1>3, AbortNodeKeeps DEF ReplayDisconnects
<1> QED BY <1>2, <1>3

\* The next block of a step is above the tip and has no more work than the target.
LEMMA NextToConnectIs ==
  ASSUME IInv, step.kind = "connect", tip \in Chain[step.target], node = "up"
  PROVE  /\ NextToConnect \in Chain[step.target] /\ NextToConnect \in Blocks \ {Genesis}
         /\ Parent[NextToConnect] = tip
         /\ step.target \in cand /\ step.target \in Blocks
<1>1. step.target \in cand /\ step.target # tip /\ step.target \in Blocks
  BY DEF IInv, StepInv, TypeOK
<1> DEFINE c == step.target
           T == {x \in Chain[c] : tip \in Chain[x] /\ x # tip}
<1>2. T \in SUBSET Blocks /\ c \in T
  BY <1>1, ChainEnds
<1> HIDE DEF T
<1>3. PICK x \in T : x = Genesis \/ Parent[x] \notin T
  BY <1>2, LeastBlock
<1>4. x \in Chain[c] /\ tip \in Chain[x] /\ x # tip /\ x \in Blocks
  BY <1>2, <1>3 DEF T
<1>5. x # Genesis
  BY <1>4, ChainStateAssumption
<1>6. Parent[x] \in Blocks /\ tip \in Chain[Parent[x]] /\ Parent[x] \in Chain[c]
  <2>1. Parent[x] \in Blocks /\ Chain[x] = Chain[Parent[x]] \cup {x}
    BY <1>4, <1>5, ParentFacts
  <2>2. Parent[x] \in Chain[x] /\ Chain[x] \subseteq Chain[c]
    BY <1>1, <1>4, <2>1, ChainEnds, ChainTransitive
  <2> QED BY <1>4, <2>1, <2>2
<1>7. Parent[x] = tip
  BY <1>3, <1>5, <1>6 DEF T
<1>8. \E b \in Chain[step.target] : b # Genesis /\ Parent[b] = tip
  BY <1>4, <1>5, <1>7
<1>9. NextToConnect \in Chain[c] /\ NextToConnect # Genesis /\ Parent[NextToConnect] = tip
  BY <1>8 DEF NextToConnect
<1> QED BY <1>1, <1>9, ChainEnds

LEMMA StepConnectsKeeps ==
  ASSUME IInv, StepConnects
  PROVE  IInv'
<1> DEFINE b == NextToConnect
           left == PruneBlockIndexCandidates(cand, b)
<1>1. step.kind = "connect" /\ tip \in Chain[step.target] /\ node = "up"
  BY DEF StepConnects
<1>2. /\ b \in Chain[step.target] /\ b \in Blocks \ {Genesis} /\ Parent[b] = tip
      /\ step.target \in cand /\ step.target \in Blocks
  BY <1>1, NextToConnectIs
<1>3. /\ b \in index.data /\ ~Refuses(b)
      /\ tip' = b /\ tips' = tips \cup {b} /\ cand' = left
      /\ node' = IF left = {} THEN "assert" ELSE "up"
      /\ FlushIfNeeded(index, dirty, unlinked, b)
      /\ step' = Idle \/ (b # step.target /\ step' = step)
      /\ pending' = "no" \/ pending' = pending
      /\ UNCHANGED <<linked, seq, nextSeq, envVars>>
  BY DEF StepConnects
<1> HIDE DEF b, left
<1>4. /\ left \subseteq cand
      /\ \A c \in left : nChainWork[b] <= nChainWork[c]
      /\ step.target \in left
  <2>1. seq \in Sequence /\ cand \subseteq Blocks
    BY DEF IInv, TypeOK, Sequence
  <2>2. left = {c \in cand : ~Worse(c, b, seq)}
    BY DEF left, PruneBlockIndexCandidates
  <2>3. ~Worse(step.target, b, seq)
    <3>1. CASE step.target = b
      BY <1>2, <2>1, <3>1, WorseOrders
    <3>2. CASE step.target # b
      <4>1. nChainWork[b] < nChainWork[step.target]
        BY <1>2, <3>2, ChainWorkGrows
      <4> QED BY <1>2, <2>1, <4>1, WorseByWork
    <3> QED BY <3>1, <3>2
  <2>4. \A c \in left : nChainWork[b] <= nChainWork[c]
    BY <1>2, <2>1, <2>2, WorseByWork
  <2> QED BY <1>2, <2>2, <2>3, <2>4
<1>5. node' = "up"
  BY <1>3, <1>4
<1>6. b \in linked
  BY <1>2 DEF IInv, LinkedInv
<1>7. Ready(index, dirty, b)
  BY <1>6, ReadyNow DEF IInv
<1>8. Saved(index, unlinked, b)
  BY <1>3, <1>7, FlushIfNeededSaves DEF IInv
<1>9. LinkedInv' /\ WaitInv'
  <2>1. Saved(index, unlinked \cup {}, b) /\ {} \in SUBSET linked
    <3>1. unlinked \cup {} = unlinked
      OBVIOUS
    <3> QED BY <1>8, <3>1
  <2> QED BY <1>3, <1>4, <1>6, <2>1, EntriesStayLinked DEF IInv, LinkedInv, envVars
<1>10. tip \notin AboveBad /\ VerdictInv => b \notin AboveBad
  <2>1. Chain[b] = Chain[tip] \cup {b}
    BY <1>2, ParentFacts
  <2>2. VerdictInv => b \notin Bad
    BY <1>3 DEF VerdictInv, Refuses, Bad
  <2>3. tip \in Blocks
    BY DEF IInv, TypeOK
  <2> QED BY <2>1, <2>2, <2>3 DEF AboveBad
<1>11. VerdictInv'
  BY <1>3, <1>8, <1>10, VerdictsStay DEF IInv, VerdictInv, envVars
<1>12. DiskInv'
  BY <1>7, <1>8, DiskStaysSound
<1>13. step' \in Steps /\ (step'.kind = "idle" \/ (step' = step /\ b # step.target))
  BY <1>3, IdleIsStep DEF IInv, TypeOK, Steps
<1>14. StepInv' /\ StartsAfterCrash'
  BY <1>1, <1>3, <1>4, <1>5, <1>13 DEF StepInv, StartsAfterCrash
<1>15. TypeOK'
  BY <1>2, <1>3, <1>4, <1>5, <1>8, <1>13, TypeStays DEF IInv, TypeOK, envVars
<1> QED BY <1>9, <1>11, <1>12, <1>14, <1>15 DEF IInv

LEMMA StepRefusesKeeps ==
  ASSUME IInv, StepRefuses
  PROVE  IInv'
<1> DEFINE b == NextToConnect
           new == [index EXCEPT !.valid = @ \cup {b}]
           dirt == dirty \cup {b}
<1>1. step.kind = "connect" /\ tip \in Chain[step.target] /\ node = "up"
  BY DEF StepRefuses
<1>2. b \in Blocks \ {Genesis}
  BY <1>1, NextToConnectIs
<1>3. /\ Refuses(b) /\ Keep(new, dirt, unlinked)
      /\ cand' = cand \ {b} /\ rejected' = rejected \cup ({b} \cap refused) /\ step' = Idle
      /\ UNCHANGED <<linked, seq, nextSeq, tip, tips, refused, forgiven, past, pending, node>>
  BY DEF StepRefuses
<1> HIDE DEF b
<1>4. /\ new \in Index /\ new.known = index.known /\ new.data = index.data
      /\ new.tx = index.tx /\ new.valid = index.valid \cup {b} /\ new.child = index.child
  BY <1>2, FailedFields DEF IInv, TypeOK
<1>5. dirt \subseteq Blocks /\ dirty \subseteq dirt
  BY <1>2 DEF IInv, TypeOK
<1> HIDE DEF new, dirt
<1>6. Ready(new, dirt, tip)
  BY <1>4, <1>5, ReadyNow DEF IInv, LinkedInv, Ready
<1>7. Saved(new, unlinked \cup {}, tip)
  BY <1>3, <1>6, KeepSaves DEF IInv
<1>8. LinkedInv' /\ WaitInv'
  BY <1>3, <1>4, <1>7, EntriesStayLinked DEF IInv, LinkedInv
<1>9. VerdictInv'
  <2>1. b \in Bad
    BY <1>3 DEF Bad, Refuses
  <2> QED BY <1>3, <1>4, <1>7, <2>1, VerdictsStay DEF IInv, VerdictInv
<1>10. TypeOK'
  BY <1>3, <1>7, IdleIsStep, TypeStays DEF IInv, TypeOK
<1>11. DiskInv'
  BY <1>6, <1>7, DiskStaysSound
<1>12. StepInv' /\ StartsAfterCrash'
  BY <1>1, <1>3, IdleIsStep DEF IInv, StepInv, StartsAfterCrash
<1> QED BY <1>8, <1>9, <1>10, <1>11, <1>12 DEF IInv


-----------------------------------------------------------------------------
(* InvalidateBlock and ReprocessBlocks.                                     *)

LEMMA InvalidateBlockKeeps ==
  ASSUME IInv, NEW b \in Blocks \ {Genesis}, InvalidateBlock(b)
  PROVE  IInv'
<1> DEFINE new == [index EXCEPT !.valid = @ \cup {b}]
           dirt == dirty \cup {b}
<1>1. /\ node = "up" /\ Keep(new, dirt, unlinked) /\ cand' = cand \ {b}
      /\ step' = [Idle EXCEPT !.kind = "invalidate", !.target = b]
      /\ past' = past \cup {"invalidated"}
      /\ UNCHANGED <<linked, seq, nextSeq, tip, tips, refused, rejected, forgiven, pending, node>>
  BY DEF InvalidateBlock, CsMainFree
<1>2. /\ new \in Index /\ new.known = index.known /\ new.data = index.data
      /\ new.tx = index.tx /\ new.valid = index.valid \cup {b} /\ new.child = index.child
  BY FailedFields DEF IInv, TypeOK
<1>3. dirt \subseteq Blocks /\ dirty \subseteq dirt
  BY DEF IInv, TypeOK
<1> HIDE DEF new, dirt
<1>4. Ready(new, dirt, tip)
  BY <1>2, <1>3, ReadyNow DEF IInv, LinkedInv, Ready
<1>5. Saved(new, unlinked \cup {}, tip)
  BY <1>1, <1>4, KeepSaves DEF IInv
<1>6. step' \in Steps /\ step'.kind = "invalidate" /\ step'.target = b
  <2>1. step' = [kind |-> "invalidate", target |-> b, old |-> None, todo |-> {}, left |-> 0]
    BY <1>1 DEF Idle
  <2>2. 0 \in 0..MaxReplay
    BY ChainStateAssumption
  <2> QED BY <2>1, <2>2 DEF Steps
<1>7. LinkedInv' /\ WaitInv'
  BY <1>1, <1>2, <1>5, EntriesStayLinked DEF IInv, LinkedInv
<1>8. VerdictInv'
  BY <1>1, <1>2, <1>5, VerdictsStay DEF IInv, VerdictInv
<1>9. TypeOK'
  BY <1>1, <1>5, <1>6, TypeStays DEF IInv, TypeOK
<1>10. DiskInv'
  BY <1>4, <1>5, DiskStaysSound
<1>11. StepInv' /\ StartsAfterCrash'
  BY <1>1, <1>6 DEF IInv, StepInv, StartsAfterCrash
<1> QED BY <1>7, <1>8, <1>9, <1>10, <1>11 DEF IInv

LEMMA InvalidateDisconnectsKeeps ==
  ASSUME IInv, InvalidateDisconnects
  PROVE  IInv'
<1>1. step.kind = "invalidate" /\ step.target \in Chain[tip] /\ node = "up"
  BY DEF InvalidateDisconnects
<1>2. step.target \in Blocks \ {Genesis}
  BY <1>1 DEF IInv, StepInv
<1>3. tip # Genesis
  BY <1>1, <1>2, ChainStateAssumption
<1>4. CASE tip \notin index.data
  BY <1>4, AbortNodeKeeps DEF InvalidateDisconnects
<1>5. CASE tip \in index.data
  <2> DEFINE S == {tip}
             new == [index EXCEPT !.child = @ \cup S]
             dirt == dirty \cup {tip}
  <2>1. /\ DisconnectTip(new, dirt) /\ cand' = cand \ {tip}
        /\ UNCHANGED <<linked, seq, nextSeq, envVars, pending, step, node>>
    BY <1>5 DEF InvalidateDisconnects
  <2>2. S \subseteq linked /\ S \subseteq Blocks
    BY DEF IInv, LinkedInv, TypeOK
  <2> HIDE DEF S
  <2>3. /\ new \in Index /\ new.known = index.known /\ new.data = index.data
        /\ new.tx = index.tx /\ new.valid = index.valid /\ new.child = index.child \cup S
    BY <2>2, ChildFields DEF IInv, TypeOK
  <2>4. dirt \subseteq Blocks /\ dirty \subseteq dirt
    BY DEF IInv, TypeOK
  <2> HIDE DEF new, dirt
  <2>5. /\ Parent[tip] \in linked /\ Parent[tip] \in Blocks
        /\ \A c \in cand : nChainWork[Parent[tip]] < nChainWork[c]
        /\ nChainWork[Parent[tip]] \in Nat
        /\ \A c \in cand : nChainWork[c] \in Nat
    BY <1>3, BelowTip, ChainStateAssumption DEF IInv, TypeOK
  <2>6. /\ tip' = Parent[tip] /\ tips' = tips \cup {Parent[tip]}
        /\ FlushIfNeeded(new, dirt, unlinked, Parent[tip])
    BY <2>1 DEF DisconnectTip
  <2>7. Ready(new, dirt, Parent[tip])
    <3>1. Ready(index, dirty, Parent[tip]) /\ \A c \in S : Chain[c] \subseteq index.tx
      BY <2>2, <2>5, ReadyNow DEF IInv, LinkedInv
    <3> QED BY <2>3, <2>4, <3>1 DEF Ready
  <2>8. Saved(new, unlinked, Parent[tip])
    BY <2>6, <2>7, FlushIfNeededSaves DEF IInv
  <2>9. Saved(new, unlinked \cup {}, Parent[tip]) /\ {} \in SUBSET linked
    <3>1. unlinked \cup {} = unlinked
      OBVIOUS
    <3> QED BY <2>8, <3>1
  <2>10. LinkedInv' /\ WaitInv'
    BY <2>1, <2>2, <2>3, <2>5, <2>6, <2>9, EntriesStayLinked DEF IInv, LinkedInv, envVars
  <2>11. "invalidated" \in past /\ past' = past
    BY <1>1, <2>1 DEF IInv, StepInv, envVars
  <2>12. VerdictInv'
    BY <2>1, <2>3, <2>8, <2>11, VerdictsStay DEF IInv, VerdictInv, envVars
  <2>13. DiskInv'
    BY <2>7, <2>8, DiskStaysSound
  <2>14. step' \in Steps /\ step' = step
    BY <2>1 DEF IInv, TypeOK, Steps
  <2>15. TypeOK'
    BY <2>1, <2>5, <2>6, <2>8, <2>14, TypeStays DEF IInv, TypeOK, envVars
  <2>16. \A c \in cand' : nChainWork[tip'] <= nChainWork[c]
    BY <2>1, <2>5, <2>6
  <2>17. StepInv' /\ StartsAfterCrash'
    BY <1>1, <1>2, <2>1, <2>11, <2>14, <2>16 DEF StepInv, StartsAfterCrash
  <2> QED BY <2>10, <2>12, <2>13, <2>15, <2>17 DEF IInv
<1> QED BY <1>4, <1>5

\* ReconsiderBlock forgets failures; what it lets in has more work than the tip.
LEMMA ReconsiderBlockKeeps ==
  ASSUME IInv, NEW b \in Blocks, ReconsiderBlock(b)
  PROVE  IInv'
<1> DEFINE cleared == Forgiven(b) \cup (Chain[b] \cap Failed)
           new == [index EXCEPT !.valid = @ \ cleared, !.child = @ \ cleared]
           dirt == dirty \cup cleared
<1>1. /\ step.kind = "replay" /\ node = "up"
      /\ Keep(new, dirt, unlinked) /\ forgiven' = forgiven \cup cleared
      /\ cand' = cand \cup {c \in Forgiven(b) : c \in linked /\ Worse(tip, c, seq)}
      /\ step' = [step EXCEPT !.todo = @ \ {b}]
      /\ UNCHANGED <<linked, seq, nextSeq, tip, tips, refused, rejected, past, pending, node>>
  BY DEF ReconsiderBlock
<1>2. cleared \subseteq Failed /\ Failed \subseteq Blocks
  BY IndexFields DEF Forgiven, Failed, IInv, TypeOK
<1> HIDE DEF cleared
<1>3. /\ new \in Index /\ new.known = index.known /\ new.data = index.data /\ new.tx = index.tx
      /\ new.valid = index.valid \ cleared /\ new.child = index.child \ cleared
  BY DEF IInv, TypeOK, Index
<1>4. dirt \subseteq Blocks /\ dirty \subseteq dirt
  BY <1>2 DEF IInv, TypeOK
<1> HIDE DEF new, dirt
<1>5. Ready(new, dirt, tip)
  BY <1>3, <1>4, ReadyNow DEF IInv, LinkedInv, Ready
<1>6. Saved(new, unlinked \cup {}, tip)
  BY <1>1, <1>5, KeepSaves DEF IInv
<1>7. step' \in Steps /\ step'.kind = "replay"
  <2>1. step \in Steps
    BY DEF IInv, TypeOK, Steps
  <2> QED BY <1>1, <2>1 DEF Steps
<1>8. cand' \subseteq linked
  BY <1>1 DEF IInv, LinkedInv
<1>9. LinkedInv' /\ WaitInv'
  <2>1. index.valid \cup forgiven \subseteq new.valid \cup forgiven'
    BY <1>1, <1>3
  <2> QED BY <1>1, <1>3, <1>6, <1>8, <2>1, EntriesStayLinked DEF IInv, LinkedInv
<1>10. VerdictInv'
  BY <1>1, <1>3, <1>6, VerdictsStay DEF IInv, VerdictInv
<1>11. TypeOK'
  <2>1. linked' \cup cand' \subseteq Blocks /\ forgiven' \subseteq Blocks
    BY <1>1, <1>2, <1>8 DEF IInv, TypeOK
  <2> QED BY <1>1, <1>6, <1>7, <2>1, TypeStays DEF IInv, TypeOK
<1>12. DiskInv'
  BY <1>5, <1>6, DiskStaysSound
<1>13. \A c \in cand' : nChainWork[tip] <= nChainWork[c]
  <2>1. seq \in Sequence /\ tip \in Blocks /\ linked \subseteq Blocks
    BY DEF IInv, TypeOK, Sequence
  <2> QED BY <1>1, <2>1, WorseByWork DEF IInv, StepInv
<1>14. StepInv' /\ StartsAfterCrash'
  BY <1>1, <1>7, <1>13 DEF StepInv, StartsAfterCrash
<1> QED BY <1>9, <1>10, <1>11, <1>12, <1>14 DEF IInv


-----------------------------------------------------------------------------
(* Crash and restart.                                                       *)

\* Whatever a crash leaves of the block tree database.
LEMMA CrashIndexIs ==
  ASSUME IInv, NEW d \in CrashIndexes
  PROVE  Between(d, index)
<1>1. Ready(index, dirty, tip)
  BY ReadyNow DEF IInv, LinkedInv
<1>2. CASE d = disk
  BY <1>1, <1>2, DiskStays DEF IInv, TypeOK
<1>3. CASE d = Written(index, dirty)
  BY <1>1, <1>3, WrittenIsBetween DEF IInv, TypeOK
<1>4. CASE \E files \in FindFilesToPrune(index) :
             d = Written(PruneBlockFiles(index, files), dirty \cup PrunedEntries(index, files))
  <2>1. PICK files \in FindFilesToPrune(index) :
          d = Written(PruneBlockFiles(index, files), dirty \cup PrunedEntries(index, files))
    BY <1>4
  <2> DEFINE after == PruneBlockFiles(index, files)
             dirt == dirty \cup PrunedEntries(index, files)
  <2>2. Ready(after, dirt, tip)
    BY <1>1, ReadyPruned
  <2>3. SameEntries(index, after)
    BY PruneBlockFilesKeeps DEF IInv, TypeOK
  <2> HIDE DEF after, dirt
  <2>4. d = Written(after, dirt)
    BY <2>1 DEF after, dirt
  <2>5. Between(d, after)
    BY <2>2, <2>4, WrittenIsBetween DEF IInv, TypeOK
  <2> QED BY <2>3, <2>5 DEF Between, SameEntries
<1> QED BY <1>2, <1>3, <1>4 DEF CrashIndexes

\* The entries that LoadBlockIndexDB links.
ChainTx(d) == {b \in d.known : Chain[b] \subseteq d.tx}

LEMMA LoadedChains ==
  ASSUME NEW d \in Index, d.tx \subseteq d.known, Genesis \in d.tx
  PROVE  /\ ChainTx(d) \subseteq d.tx /\ ChainTx(d) \subseteq Blocks /\ Genesis \in ChainTx(d)
         /\ \A b \in ChainTx(d) : Chain[b] \subseteq ChainTx(d)
         /\ \A b \in d.tx : Chain[b] \subseteq d.tx => b \in ChainTx(d)
         /\ \A b \in d.tx \ {Genesis} : Parent[b] \in ChainTx(d) => b \in ChainTx(d)
<1>1. d.known \subseteq Blocks /\ d.tx \subseteq Blocks
  BY IndexFields
<1>2. \A b \in ChainTx(d) : b \in Blocks /\ b \in Chain[b] /\ Chain[b] \subseteq d.tx
  BY <1>1, ChainEnds DEF ChainTx
<1>3. ChainTx(d) \subseteq d.tx
  BY <1>2
<1>4. \A b \in ChainTx(d) : Chain[b] \subseteq ChainTx(d)
  <2> SUFFICES ASSUME NEW b \in ChainTx(d), NEW x \in Chain[b]
               PROVE  x \in ChainTx(d)
    OBVIOUS
  <2>1. Chain[x] \subseteq Chain[b]
    BY <1>2, ChainTransitive
  <2> QED BY <1>2, <2>1 DEF ChainTx
<1>5. Genesis \in ChainTx(d)
  BY ChainStateAssumption DEF ChainTx
<1>6. \A b \in d.tx \ {Genesis} : Parent[b] \in ChainTx(d) => b \in ChainTx(d)
  <2> SUFFICES ASSUME NEW b \in d.tx \ {Genesis}, Parent[b] \in ChainTx(d)
               PROVE  b \in ChainTx(d)
    OBVIOUS
  <2>1. Chain[b] = Chain[Parent[b]] \cup {b}
    BY <1>1, ParentFacts
  <2> QED BY <1>2, <2>1 DEF ChainTx
<1>7. \A b \in d.tx : Chain[b] \subseteq d.tx => b \in ChainTx(d)
  BY DEF ChainTx
<1> QED BY <1>2, <1>3, <1>4, <1>5, <1>6, <1>7

LEMMA CrashKeeps ==
  ASSUME IInv, Crash
  PROVE  IInv'
<1>1. PICK d \in CrashIndexes : LoadBlockIndexDB(d) /\ havePruned' = (havePruned \/ d.tx # d.data)
  BY DEF Crash
<1> DEFINE left == {b \in ChainTx(d) \ (d.valid \cup d.child) :
                      ~Worse(b, diskTip, [x \in Blocks |-> 0])}
<1>2. /\ index' = d /\ disk' = d /\ dirty' = {} /\ linked' = ChainTx(d)
      /\ unlinked' = {b \in d.tx \ {Genesis} : Parent[b] \notin ChainTx(d)}
      /\ seq' = [b \in Blocks |-> 0] /\ nextSeq' = 1 /\ tip' = diskTip
      /\ tips' = {diskTip} /\ cand' = left
      /\ node' = IF left = {} THEN "assert" ELSE "up"
  BY <1>1 DEF LoadBlockIndexDB, ChainTx
<1>3. /\ pending' = "yes" /\ step' = Idle /\ rejected' = {} /\ forgiven' = {}
      /\ past' = past \cup {"crashed"} /\ UNCHANGED <<diskTip, refused>>
  BY DEF Crash
<1>4. Between(d, index)
  BY CrashIndexIs
<1>5. /\ d \in Index /\ d.data \subseteq d.tx /\ d.tx \subseteq d.known
      /\ Chain[diskTip] \subseteq d.tx /\ diskTip \in Blocks
      /\ \A b \in d.child : Chain[b] \subseteq d.tx
  BY <1>4 DEF Between, IInv, DiskInv, TypeOK
<1>6. Genesis \in d.tx /\ diskTip \in d.tx
  BY <1>5, ChainEnds
<1>7. /\ ChainTx(d) \subseteq d.tx /\ ChainTx(d) \subseteq Blocks /\ Genesis \in ChainTx(d)
      /\ \A b \in ChainTx(d) : Chain[b] \subseteq ChainTx(d)
      /\ \A b \in d.tx : Chain[b] \subseteq d.tx => b \in ChainTx(d)
      /\ \A b \in d.tx \ {Genesis} : Parent[b] \in ChainTx(d) => b \in ChainTx(d)
  BY <1>5, <1>6, LoadedChains
<1>8. [x \in Blocks |-> 0] \in Sequence
  BY DEF Sequence
<1>9. d.valid \subseteq Blocks /\ d.child \subseteq Blocks
  BY <1>5, IndexFields
<1>10. LinkedInv'
  <2>1. d.child \subseteq ChainTx(d)
    <3>1. \A b \in d.child : b \in d.tx
      BY <1>5, <1>9, ChainEnds
    <3> QED BY <1>5, <1>7, <3>1
  <2>2. left \subseteq ChainTx(d) /\ diskTip \in ChainTx(d)
    BY <1>5, <1>6, <1>7
  <2> QED BY <1>2, <1>7, <2>1, <2>2 DEF LinkedInv
<1>11. WaitInv'
  <2>1. unlinked' \subseteq index'.tx /\ \A b \in unlinked' \ linked' : Parent[b] \notin linked'
    BY <1>2
  <2>2. \A b \in index'.data \ linked' : b \in unlinked'
    BY <1>2, <1>5, <1>7
  <2> QED BY <2>1, <2>2 DEF WaitInv
<1>12. DiskInv'
  BY <1>2, <1>3, <1>5 DEF DiskInv
<1>13. VerdictInv'
  <2>1. (d.data \cap BadContext) = {}
    BY <1>4 DEF Between, IInv, VerdictInv
  <2>2. ASSUME past' \cap {"invalidated", "changed"} = {}
        PROVE  /\ d.valid \subseteq Bad' /\ d.child \subseteq AboveBad'
               /\ diskTip \notin AboveBad'
    <3>1. Bad' = Bad /\ AboveBad' = AboveBad
      BY <1>3 DEF Bad, AboveBad
    <3>2. past \cap {"invalidated", "changed"} = {}
      BY <1>3, <2>2
    <3> QED BY <1>4, <3>1, <3>2 DEF Between, IInv, VerdictInv
  <2> QED BY <1>2, <1>3, <2>1, <2>2 DEF VerdictInv
<1>14. StepInv'
  <2>1. \A c \in left : nChainWork[diskTip] <= nChainWork[c]
    BY <1>5, <1>7, <1>8, WorseByWork
  <2> QED BY <1>2, <1>3, <2>1, IdleIsStep DEF StepInv
<1>15. StartsAfterCrash'
  <2>1. ASSUME node' = "assert"
        PROVE  /\ "crashed" \in past' /\ past' \cap {"invalidated", "changed"} # {}
               /\ Chain[diskTip'] \cap Failed' # {}
    <3>1. left = {}
      BY <1>2, <2>1
    <3>2. diskTip \in ChainTx(d) /\ ~Worse(diskTip, diskTip, [x \in Blocks |-> 0])
      BY <1>5, <1>6, <1>7, <1>8, WorseOrders
    <3>3. diskTip \in d.valid \cup d.child
      BY <3>1, <3>2
    <3>4. Failed' = d.valid \cup d.child /\ diskTip' = diskTip /\ diskTip \in Chain[diskTip]
      BY <1>2, <1>3, <1>5, ChainEnds DEF Failed
    <3>5. past' \cap {"invalidated", "changed"} # {}
      <4>1. SUFFICES ASSUME past' \cap {"invalidated", "changed"} = {}
                     PROVE  FALSE
        OBVIOUS
      <4>2. past \cap {"invalidated", "changed"} = {}
        BY <1>3, <4>1
      <4>3. /\ diskTip \notin AboveBad /\ d.child \subseteq AboveBad /\ d.valid \subseteq Bad
        BY <1>4, <4>2 DEF Between, IInv, VerdictInv
      <4>4. diskTip \in Bad => diskTip \in AboveBad
        BY <1>5, <3>4 DEF AboveBad
      <4> QED BY <3>3, <4>3, <4>4
    <3> QED BY <1>3, <3>3, <3>4, <3>5
  <2> QED BY <2>1 DEF StartsAfterCrash
<1>16. TypeOK'
  <2>1. cand' \cup linked' \cup unlinked' \subseteq Blocks
    BY <1>2, <1>5, <1>7, IndexFields
  <2>2. seq' \in [Blocks -> Nat] /\ nextSeq' \in Nat /\ tip' \in Blocks /\ diskTip' \in Blocks
        /\ tips' \subseteq Blocks
    BY <1>2, <1>3, <1>5
  <2>3. step' \in Steps
    BY <1>3, IdleIsStep
  <2>4. havePruned' \in BOOLEAN
    BY <1>1 DEF IInv, TypeOK
  <2>5. index' \in Index /\ disk' \in Index /\ dirty' = {}
    BY <1>2, <1>5
  <2>6. /\ node' \in {"up", "abort", "assert"} /\ pending' \in {"no", "yes", "held"}
        /\ past' \subseteq {"replayed", "invalidated", "changed", "renumbered", "crashed"}
        /\ refused' \cup rejected' \subseteq Disputed /\ forgiven' \subseteq Blocks
    BY <1>2, <1>3 DEF IInv, TypeOK
  <2> QED BY <2>1, <2>2, <2>3, <2>4, <2>5, <2>6 DEF TypeOK, Steps
<1> QED BY <1>10, <1>11, <1>12, <1>13, <1>14, <1>15, <1>16 DEF IInv


-----------------------------------------------------------------------------
(* The theorems.                                                            *)

LEMMA InitKeeps == Init => IInv
<1> SUFFICES ASSUME Init
             PROVE  IInv
  OBVIOUS
<1>1. /\ index = [known |-> {Genesis}, data |-> {Genesis}, tx |-> {Genesis},
                  valid |-> {}, child |-> {}, nFile |-> [b \in Blocks |-> 0]]
      /\ linked = {Genesis} /\ seq = [b \in Blocks |-> IF b = Genesis THEN 1 ELSE 0]
      /\ nextSeq = 2 /\ cand = {Genesis} /\ unlinked = {} /\ tip = Genesis /\ tips = {Genesis}
      /\ dirty = {} /\ disk = index /\ diskTip = Genesis /\ havePruned = FALSE
      /\ pending = "no" /\ step = Idle /\ node = "up"
      /\ refused \in SUBSET Disputed /\ rejected = {} /\ forgiven = {} /\ past = {}
  BY DEF Init
<1>2. /\ Genesis \in Blocks /\ Chain[Genesis] = {Genesis} /\ nChainWork[Genesis] \in Nat
      /\ BadContext \cup Invalid \cup Disputed \subseteq Blocks \ {Genesis}
  BY ChainStateAssumption
<1>3. index \in Index
  <2>1. [b \in Blocks |-> 0] \in [Blocks -> Nat]
    OBVIOUS
  <2> QED BY <1>1, <1>2, <2>1 DEF Index
<1>4. TypeOK
  <2>1. step \in Steps
    BY <1>1, IdleIsStep
  <2>2. seq \in [Blocks -> Nat]
    BY <1>1
  <2> QED BY <1>1, <1>2, <1>3, <2>1, <2>2 DEF TypeOK, Steps
<1>5. LinkedInv /\ WaitInv /\ DiskInv
  BY <1>1, <1>2 DEF LinkedInv, WaitInv, DiskInv
<1>6. StepInv
  BY <1>1, <1>2, IdleIsStep DEF StepInv
<1>7. VerdictInv
  <2>1. Genesis \notin Bad
    BY <1>1, <1>2 DEF Bad
  <2>2. Genesis \notin AboveBad
    BY <1>2, <2>1 DEF AboveBad
  <2> QED BY <1>1, <1>2, <2>2 DEF VerdictInv
<1>8. StartsAfterCrash
  BY <1>1 DEF StartsAfterCrash
<1> QED BY <1>4, <1>5, <1>6, <1>7, <1>8 DEF IInv

LEMMA StutterKeeps ==
  ASSUME IInv, UNCHANGED vars
  PROVE  IInv'
<1>1. UNCHANGED <<indexVars, diskVars, envVars, pending, step, node>>
  BY DEF vars
<1>2. TypeOK' /\ LinkedInv' /\ WaitInv' /\ DiskInv' /\ VerdictInv'
  <2>1. /\ cand' \subseteq linked /\ tips' \subseteq Blocks /\ pending' \in {"no", "yes", "held"} /\ step' \in Steps
        /\ node' \in {"up", "abort", "assert"} /\ refused' \cup rejected' \subseteq Disputed
        /\ past' \subseteq {"replayed", "invalidated", "changed", "renumbered", "crashed"}
    BY <1>1 DEF IInv, TypeOK, LinkedInv, Steps, indexVars, envVars
  <2> QED BY <1>1, <2>1, NothingStoredKeeps DEF indexVars, envVars
<1>3. StepInv' /\ StartsAfterCrash'
  BY <1>1 DEF IInv, StepInv, StartsAfterCrash, Failed, indexVars, diskVars, envVars
<1> QED BY <1>2, <1>3 DEF IInv

LEMMA NextKeeps == IInv /\ [Next]_vars => IInv'
<1> SUFFICES ASSUME IInv, [Next]_vars
             PROVE  IInv'
  OBVIOUS
<1>1. ASSUME NEW b \in Blocks \ {Genesis}, AcceptBlockHeader(b)
      PROVE  IInv'
  BY <1>1, AcceptBlockHeaderKeeps
<1>2. ASSUME NEW b \in Blocks \ {Genesis}, InvalidateBlock(b)
      PROVE  IInv'
  BY <1>2, InvalidateBlockKeeps
<1>3. ASSUME NEW b \in Blocks \ {Genesis}, NEW requested \in BOOLEAN,
             AcceptBlock(b, requested) \/ RejectBlock(b, requested) \/ IgnoreBlock(b, requested)
      PROVE  IInv'
  BY <1>3, AcceptBlockKeeps, RejectBlockKeeps, IgnoreBlockKeeps
<1>4. ASSUME NEW b \in Disputed, ChangeVerdict(b)
      PROVE  IInv'
  BY <1>4, ChangeVerdictKeeps
<1>5. ASSUME NEW n \in 1..MaxReplay, NEW recent \in SUBSET Disputed, ReprocessBlocks(n, recent)
      PROVE  IInv'
  BY <1>5, ReprocessBlocksKeeps
<1>6. CASE ActivateBestChain
  BY <1>6, StartStepKeeps, StepDisconnectsKeeps, StepConnectsKeeps, StepRefusesKeeps,
     StepCannotReadKeeps DEF ActivateBestChain
<1>7. CASE InvalidateDisconnects \/ InvalidateEnds
  BY <1>7, InvalidateDisconnectsKeeps, InvalidateEndsKeeps
<1>8. CASE Replay
  BY <1>8, ReconsiderBlockKeeps, ReplayDisconnectsKeeps, ReplayActivatesKeeps DEF Replay
<1>9. CASE FlushStateToDisk \/ Crash
  BY <1>9, FlushStateToDiskKeeps, CrashKeeps
<1>10. CASE UNCHANGED vars
  BY <1>10, StutterKeeps
<1> QED BY <1>1, <1>2, <1>3, <1>4, <1>5, <1>6, <1>7, <1>8, <1>9, <1>10 DEF Next

\* Whatever blocks arrive, in whatever order, and whatever is refused, reprocessed,
\* invalidated, pruned, written or left by a crash, mapBlockIndex, mapBlocksUnlinked,
\* setBlockIndexCandidates and the two databases keep to the invariant.
THEOREM ChainStateInvariance == Spec => []IInv
<1>1. Init => IInv
  BY InitKeeps
<1>2. IInv /\ [Next]_vars => IInv'
  BY NextKeeps
<1> QED BY <1>1, <1>2, PTL DEF Spec

\* The lowest block of a complete chain that nChainTx does not reach.
LEMMA LowestUnlinked ==
  ASSUME TypeOK, LinkedInv, WaitInv, NEW b \in Blocks, Available(b),
         Chain[b] \cap forgiven = {}
  PROVE  b \in linked
<1>1. SUFFICES ASSUME b \notin linked
               PROVE  FALSE
  OBVIOUS
<1>2. /\ b \in Chain[b] /\ Chain[b] \subseteq Blocks
      /\ Chain[b] \subseteq index.data /\ Chain[b] \cap (index.valid \cup forgiven) = {}
  BY ChainEnds DEF Available
<1>3. PICK c \in Chain[b] \ linked : c = Genesis \/ Parent[c] \notin Chain[b] \ linked
  BY <1>1, <1>2, LeastBlock
<1>4. c \in Blocks \ {Genesis} /\ c \in index.data \ linked
  BY <1>2, <1>3 DEF LinkedInv
<1>5. Parent[c] \in Chain[b]
  <2>1. Chain[c] \subseteq Chain[b]
    BY <1>2, <1>3, ChainTransitive
  <2>2. Parent[c] \in Blocks /\ Parent[c] \in Chain[Parent[c]] /\ Chain[c] = Chain[Parent[c]] \cup {c}
    BY <1>4, ParentFacts, ChainEnds
  <2> QED BY <2>1, <2>2
<1>6. Parent[c] \in linked
  BY <1>3, <1>4, <1>5
<1>7. c \notin unlinked
  BY <1>4, <1>6 DEF WaitInv
<1>8. Parent[c] \in index.valid \cup forgiven
  BY <1>4, <1>7 DEF WaitInv
<1> QED BY <1>2, <1>5, <1>8

\* The forms of FlushStateToDisk: one that does not prune leaves the index to the caller.
LEMMA OnlyPruningRemovesData ==
  ASSUME NEW new, NEW dirt, NEW wait, NEW coins,
         \/ Keep(new, dirt, wait) \/ WriteIndex(new, dirt, wait)
         \/ FlushIfNeeded(new, dirt, wait, coins)
         \/ WriteAll(new, dirt, wait, coins) \/ PruneAndWriteAll(new, dirt, wait, coins)
  PROVE  havePruned' = TRUE \/ (index' = new /\ havePruned' = havePruned)
BY DEF Keep, WriteIndex, FlushIfNeeded, WriteAll, PruneAndWriteAll

\* Until something is pruned, an entry with transactions has its data.
Unpruned == havePruned = TRUE \/ index.tx \subseteq index.data

LEMMA UnprunedKeeps == IInv /\ Unpruned /\ [Next]_vars => Unpruned'
<1> SUFFICES ASSUME IInv, Unpruned, [Next]_vars
             PROVE  Unpruned'
  OBVIOUS
<1>1. index \in Index
  BY DEF IInv, TypeOK
<1>2. ASSUME NEW new, NEW dirt, NEW wait, NEW coins,
             \/ Keep(new, dirt, wait) \/ WriteIndex(new, dirt, wait)
             \/ FlushIfNeeded(new, dirt, wait, coins)
             \/ WriteAll(new, dirt, wait, coins) \/ PruneAndWriteAll(new, dirt, wait, coins),
             new.tx \subseteq index.tx, index.data \subseteq new.data
      PROVE  Unpruned'
  <2>1. havePruned' = TRUE \/ (index' = new /\ havePruned' = havePruned)
    BY <1>2, OnlyPruningRemovesData
  <2> QED BY <1>2, <2>1 DEF Unpruned
<1>3. ASSUME UNCHANGED <<index, havePruned>>
      PROVE  Unpruned'
  BY <1>3 DEF Unpruned
<1>4. ASSUME NEW b \in Blocks \ {Genesis}, NEW requested \in BOOLEAN,
             \/ AcceptBlockHeader(b) \/ InvalidateBlock(b)
             \/ RejectBlock(b, requested) \/ IgnoreBlock(b, requested)
      PROVE  Unpruned'
  <2>1. Added(b) \in Index /\ Added(b).tx = index.tx /\ Added(b).data = index.data
    BY <1>1, AddedFields
  <2>2. CASE AcceptBlockHeader(b) \/ IgnoreBlock(b, requested)
    BY <1>2, <2>1, <2>2 DEF AcceptBlockHeader, IgnoreBlock
  <2>3. CASE RejectBlock(b, requested)
    <3> DEFINE add == Added(b)
               new == [add EXCEPT !.valid = @ \cup {b}]
    <3>1. Keep(new, dirty \cup {b}, unlinked)
      BY <2>3 DEF RejectBlock
    <3> HIDE DEF add
    <3>2. new.tx = add.tx /\ new.data = add.data
      BY <2>1, FailedFields DEF add
    <3> HIDE DEF new
    <3>3. new.tx = index.tx /\ new.data = index.data
      BY <2>1, <3>2 DEF add
    <3> QED BY <1>2, <3>1, <3>3
  <2>4. CASE InvalidateBlock(b)
    BY <1>1, <1>2, <2>4, FailedFields DEF InvalidateBlock
  <2> QED BY <1>4, <2>2, <2>3, <2>4
<1>5. ASSUME NEW b \in Blocks \ {Genesis}, NEW requested \in BOOLEAN, AcceptBlock(b, requested)
      PROVE  Unpruned'
  <2> DEFINE new == [Added(b) EXCEPT !.data = @ \cup {b}, !.tx = @ \cup {b},
                                     !.nFile[b] = FindBlockPos]
  <2>1. FindBlockPos \in Nat
    BY FilesAreNumbered DEF FindBlockPos, IInv, TypeOK
  <2>2. new.tx = index.tx \cup {b} /\ new.data = index.data \cup {b}
    BY <1>1, <2>1, StoredFields
  <2>3. Keep(new, dirty \cup {b}, UnlinkedAfter(b))
    BY <1>5 DEF AcceptBlock
  <2> HIDE DEF new
  <2>4. index' = new /\ havePruned' = havePruned
    BY <2>3 DEF Keep
  <2> QED BY <2>2, <2>4 DEF Unpruned
<1>6. ASSUME \/ \E b \in Disputed : ChangeVerdict(b)
             \/ \E n \in 1..MaxReplay, recent \in SUBSET Disputed : ReprocessBlocks(n, recent)
             \/ AbortNode \/ InvalidateEnds \/ ReplayActivates \/ UNCHANGED vars
      PROVE  Unpruned'
  BY <1>3, <1>6 DEF ChangeVerdict, ReprocessBlocks, AbortNode, InvalidateEnds,
     ReplayActivates, diskVars, vars
<1>7. CASE StartStep
  <2>1. \E children \in SUBSET Blocks : \E wait :
           Keep([index EXCEPT !.child = @ \cup children], dirty, wait)
    <3>1. cand \subseteq Blocks
      BY DEF IInv, TypeOK
    <3>2. \A c \in GivenUpFailed : Above(c) \subseteq Blocks
      BY <3>1, ChainEnds DEF GivenUpFailed, GivenUp, Above
    <3> QED BY <1>7, <3>2 DEF StartStep, FindMostWorkChain
  <2>2. PICK children \in SUBSET Blocks :
           \E wait : Keep([index EXCEPT !.child = @ \cup children], dirty, wait)
    BY <2>1
  <2> DEFINE new == [index EXCEPT !.child = @ \cup children]
  <2>3. new.tx = index.tx /\ new.data = index.data
    BY <1>1, ChildFields
  <2>4. PICK wait : Keep(new, dirty, wait)
    BY <2>2
  <2> HIDE DEF new
  <2> QED BY <1>2, <2>3, <2>4
<1>8. CASE StepRefuses
  <2>1. PICK b \in Blocks : Keep([index EXCEPT !.valid = @ \cup {b}], dirty \cup {b}, unlinked)
    <3>1. NextToConnect \in index.data /\ index.data \subseteq Blocks
      BY <1>1, <1>8, IndexFields DEF StepRefuses
    <3> QED BY <1>8, <3>1 DEF StepRefuses
  <2> QED BY <1>1, <1>2, <2>1, FailedFields
<1>9. CASE StepConnects \/ StepDisconnects \/ ReplayDisconnects
  <2>1. \/ AbortNode
        \/ \E coins : FlushIfNeeded(index, dirty, unlinked, coins)
    BY <1>9 DEF StepConnects, StepDisconnects, ReplayDisconnects, DisconnectTip
  <2> QED BY <1>2, <1>6, <2>1
<1>10. CASE InvalidateDisconnects
  <2>1. \/ AbortNode
        \/ \E coins : FlushIfNeeded([index EXCEPT !.child = @ \cup {tip}], dirty \cup {tip},
                                    unlinked, coins)
    BY <1>10 DEF InvalidateDisconnects, DisconnectTip
  <2>2. {tip} \subseteq Blocks
    BY DEF IInv, TypeOK
  <2> DEFINE new == [index EXCEPT !.child = @ \cup {tip}]
  <2>3. new.tx = index.tx /\ new.data = index.data
    BY <1>1, <2>2, ChildFields
  <2>4. AbortNode \/ \E coins : FlushIfNeeded(new, dirty \cup {tip}, unlinked, coins)
    BY <2>1
  <2> HIDE DEF new
  <2> QED BY <1>2, <1>6, <2>3, <2>4
<1>11. ASSUME NEW b \in Blocks, ReconsiderBlock(b)
       PROVE  Unpruned'
  <2>1. \E S : /\ index' = [index EXCEPT !.valid = @ \ S, !.child = @ \ S]
               /\ havePruned' = havePruned
    BY <1>11 DEF ReconsiderBlock, Keep
  <2>2. index'.tx = index.tx /\ index'.data = index.data
    BY <1>1, <2>1 DEF Index
  <2> QED BY <2>1, <2>2 DEF Unpruned
<1>12. CASE FlushStateToDisk
  BY <1>2, <1>12 DEF FlushStateToDisk
<1>13. CASE Crash
  <2>1. PICK d : index' = d /\ havePruned' = (havePruned \/ d.tx # d.data)
    BY <1>13 DEF Crash, LoadBlockIndexDB
  <2> QED BY <2>1 DEF Unpruned
<1> QED BY <1>4, <1>5, <1>6, <1>7, <1>8, <1>9, <1>10, <1>11, <1>12, <1>13
        DEF Next, ActivateBestChain, Replay, StepCannotRead

\* "If we've never pruned, then HAVE_DATA should be equivalent to nTx > 0", the words of
\* CheckBlockIndex: whatever a crash leaves of the index, only PruneOneBlockFile takes
\* data away, and fHavePruned tells of it.
THEOREM DataStaysUntilPruned == Spec => []DataUntilPruned
<1>1. Init => Unpruned
  BY DEF Init, Unpruned
<1>2. IInv /\ Unpruned => DataUntilPruned
  BY DEF IInv, DiskInv, Unpruned, DataUntilPruned
<1> QED BY <1>1, <1>2, UnprunedKeeps, ChainStateInvariance, PTL DEF Spec

\* CheckBlockIndex on nChainTx and mapBlocksUnlinked: a chain that is complete and not
\* invalid is linked and a block that waits is found again, after every reorganisation,
\* refusal, pruning, new download and restart.
THEOREM IndexAlwaysComplete == Spec => []IndexIsComplete
<1>1. IInv => TypeOK /\ LinkedIsRight /\ WaitersAreFound
  <2> SUFFICES ASSUME IInv
               PROVE  TypeOK /\ LinkedIsRight /\ WaitersAreFound
    OBVIOUS
  <2>1. TypeOK /\ LinkedInv /\ WaitInv
    BY DEF IInv
  <2>2. linked \subseteq Blocks /\ index.data \subseteq Blocks
    BY <2>1 DEF TypeOK, Index
  <2>3. LinkedIsRight
    <3>1. \A b \in linked : Chain[b] \subseteq index.tx
      BY <2>1 DEF LinkedInv
    <3>2. \A b \in Blocks : Available(b) /\ Chain[b] \cap forgiven = {} => b \in linked
      BY <2>1, LowestUnlinked
    <3> QED BY <3>1, <3>2 DEF LinkedIsRight
  <2>4. WaitersAreFound
    <3>1. SUFFICES ASSUME NEW b \in index.data \ linked,
                          Chain[b] \cap (index.valid \cup forgiven) = {}
                   PROVE  b \in unlinked
      BY DEF WaitersAreFound
    <3>2. b \in Blocks \ {Genesis}
      BY <2>1, <2>2 DEF LinkedInv
    <3>3. Parent[b] \in Chain[b]
      BY <3>2, ParentFacts, ChainEnds
    <3> QED BY <2>1, <3>1, <3>3 DEF WaitInv
  <2> QED BY <2>1, <2>3, <2>4
<1>2. IndexIsComplete <=> TypeOK /\ LinkedIsRight /\ WaitersAreFound /\ DataUntilPruned
  BY DEF IndexIsComplete
<1> QED BY <1>1, <1>2, ChainStateInvariance, DataStaysUntilPruned, PTL

\* The assertion of PruneBlockIndexCandidates fails only at a start, after a crash,
\* and only when a block below the coins' tip has failed since the coins were written:
\* a crash that leaves the block index ahead of the coins never fails it.
THEOREM StartAssertionExact == Spec => []StartsAfterCrash
<1>1. IInv => StartsAfterCrash
  BY DEF IInv
<1> QED BY <1>1, ChainStateInvariance, PTL

\* setBlockIndexCandidates is ordered by nSequenceId.  ReceivedBlockTransactions hands
\* numbers to blocks that are not in the set, unless their data was pruned, so that the
\* order of the set is never changed under it before the first pruning.
THEOREM CandidatesStayOrdered == Spec => [][CandidatesKeepOrder]_vars
<1>1. IInv /\ Unpruned /\ [Next]_vars => [CandidatesKeepOrder]_vars
  <2> SUFFICES ASSUME IInv, Unpruned, Next, ~havePruned
               PROVE  (\A c \in cand : seq'[c] = seq[c]) \/ Crash
    BY DEF CandidatesKeepOrder
  <2>1. cand \subseteq linked /\ linked \subseteq index.tx /\ index.tx \subseteq index.data
    BY DEF IInv, LinkedInv, Unpruned
  <2>2. ASSUME NEW b \in Blocks \ {Genesis}, NEW requested \in BOOLEAN, AcceptBlock(b, requested)
        PROVE  \A c \in cand : seq'[c] = seq[c]
    <3>1. b \notin index.data
      BY <2>2 DEF AcceptBlock, Wanted
    <3>2. ASSUME NEW c \in cand
          PROVE  c \notin NowLinked(b)
      <4>1. Chain[c] \subseteq linked
        BY <2>1 DEF IInv, LinkedInv
      <4>2. b \notin Chain[c]
        BY <2>1, <3>1, <4>1
      <4> QED BY <4>2 DEF NowLinked
    <3>3. CASE Parent[b] \in linked
      <4>1. \E r : seq' = [c \in Blocks |-> IF c \in NowLinked(b) THEN nextSeq + r[c] - 1
                                                                  ELSE seq[c]]
        BY <2>2, <3>3 DEF AcceptBlock, ReceivedBlockTransactions
      <4>2. cand \subseteq Blocks
        BY DEF IInv, TypeOK
      <4> QED BY <3>2, <4>1, <4>2
    <3>4. CASE Parent[b] \notin linked
      BY <2>2, <3>4 DEF AcceptBlock, ReceivedBlockTransactions
    <3> QED BY <3>3, <3>4
  <2>3. ASSUME NEW b \in Blocks \ {Genesis}, NEW requested \in BOOLEAN,
               \/ AcceptBlockHeader(b) \/ InvalidateBlock(b)
               \/ RejectBlock(b, requested) \/ IgnoreBlock(b, requested)
        PROVE  seq' = seq
    BY <2>3 DEF AcceptBlockHeader, InvalidateBlock, RejectBlock, IgnoreBlock, indexVars
  <2>4. ASSUME \/ \E b \in Disputed : ChangeVerdict(b)
               \/ \E n \in 1..MaxReplay, recent \in SUBSET Disputed : ReprocessBlocks(n, recent)
               \/ Replay \/ FlushStateToDisk
        PROVE  seq' = seq
    BY <2>4 DEF ChangeVerdict, ReprocessBlocks, Replay, ReconsiderBlock, ReplayDisconnects,
       ReplayActivates, AbortNode, FlushStateToDisk, indexVars
  <2>5. ASSUME ActivateBestChain \/ InvalidateDisconnects \/ InvalidateEnds
        PROVE  seq' = seq
    BY <2>5 DEF ActivateBestChain, StartStep, StepDisconnects, StepConnects, StepRefuses,
       StepCannotRead, InvalidateDisconnects, InvalidateEnds, AbortNode, indexVars
  <2> QED BY <2>2, <2>3, <2>4, <2>5 DEF Next
<1>2. Init => Unpruned
  BY DEF Init, Unpruned
<1> QED BY <1>1, <1>2, UnprunedKeeps, ChainStateInvariance, PTL DEF Spec

-----------------------------------------------------------------------------
(* The candidates.                                                          *)

\* Why a block may be missing from the candidates for good: it has failed, or a block
\* between it and the active chain has, or a failure below it was forgotten.
Hard(b) == b \in Failed \/ (Chain[b] \ Chain[tip]) \cap Failed # {} \/ Chain[b] \cap forgiven # {}

\* Why it may be missing for now: data below it is missing, and mapBlocksUnlinked
\* brings it back when that data arrives.
Waiting(b) ==
    \E p \in Chain[b] \ Chain[tip] : p \notin index.data /\ Chain[b] \ Chain[p] \subseteq unlinked

Accounted(b) == b \in cand \/ Hard(b) \/ Waiting(b)

TipsInv == tip \in tips /\ tips \subseteq linked

\* A linked entry in mapBlocksUnlinked waits there for data.
WaitersInv == \A b \in unlinked \cap linked : b \in index.data /\ Waiting(b)

\* Every linked block, or one that was the tip and is not worse, is accounted for.
Covered ==
    Ordinary => \A b \in linked : \E w \in {b} \cup tips : ~Worse(w, b, seq) /\ Accounted(w)

CoverInv == TipsInv /\ WaitersInv /\ Covered

\* No thread is in ActivateBestChain, and no candidate that can be connected is better
\* than the tip.
QuietInv ==
    pending = "no" /\ step = Idle /\ node = "up" =>
        \A c \in cand : Obstacles(c) = {} => ~Worse(tip, c, seq)

\* The target of a step is the best candidate, has not failed, and is better than the
\* tip the step found.
ConnectInv ==
    step.kind = "connect" =>
        /\ pending # "no"
        /\ step.target \in Blocks /\ step.old \in Blocks
        /\ (Chain[step.target] \ Chain[tip]) \cap Failed = {}
        /\ node = "up" => \A c \in cand : Obstacles(c) = {} => ~Worse(step.target, c, seq)
        /\ nChainWork[step.old] <= nChainWork[step.target]
        /\ Ordinary => Worse(step.old, step.target, seq)

OrderInv == QuietInv /\ ConnectInv /\ CandidatesAreNotWorse

\* What the block tree database lacks of the failures is dirty, and a failed child
\* is above an invalid block, with new and dirt for the index and its dirty set.
Causes(new, dirt) ==
    /\ disk.valid \subseteq new.valid /\ new.valid \ dirt \subseteq disk.valid
    /\ \A b \in new.child : Chain[b] \cap new.valid # {}
    /\ \A b \in disk.child : Chain[b] \cap disk.valid # {}

CauseInv ==
    /\ "replayed" \notin past => Causes(index, dirty)
    /\ step.kind = "replay" => "replayed" \in past
    /\ step.kind = "invalidate" => step.target \in index.valid

-----------------------------------------------------------------------------
(* What a write leaves in memory, and in the databases.                     *)

Save(new, dirt, wait, coins) ==
    \/ Keep(new, dirt, wait)
    \/ WriteIndex(new, dirt, wait)
    \/ WriteAll(new, dirt, wait, coins)
    \/ PruneAndWriteAll(new, dirt, wait, coins)

\* Pruning takes an entry's data and its place in mapBlocksUnlinked together.
LEMMA MemoryAfter ==
  ASSUME NEW new \in Index, NEW dirt, NEW wait, NEW coins, Save(new, dirt, wait, coins)
  PROVE  /\ SameEntries(new, index')
         /\ unlinked' \subseteq wait /\ index'.data \cap wait \subseteq unlinked'
         /\ unlinked' \cap new.data \subseteq index'.data
<1>1. CASE PruneAndWriteAll(new, dirt, wait, coins)
  <2>1. PICK files \in FindFilesToPrune(new) :
          /\ index' = PruneBlockFiles(new, files)
          /\ unlinked' = wait \ PrunedEntries(new, files)
    BY <1>1 DEF PruneAndWriteAll
  <2>2. /\ SameEntries(new, index')
        /\ index'.data = new.data \ PrunedEntries(new, files)
    BY <2>1, PruneBlockFilesKeeps
  <2> QED BY <2>1, <2>2
<1>2. CASE \/ Keep(new, dirt, wait) \/ WriteIndex(new, dirt, wait)
           \/ WriteAll(new, dirt, wait, coins)
  BY <1>2 DEF Keep, WriteIndex, WriteAll, SameEntries
<1> QED BY <1>1, <1>2 DEF Save

\* A batch has every failure, and the cause of every failed child.
LEMMA WrittenHasCauses ==
  ASSUME NEW new, NEW dirt, Causes(new, dirt)
  PROVE  LET d == Written(new, dirt)
         IN  d.valid = new.valid /\ \A b \in d.child : Chain[b] \cap d.valid # {}
<1> DEFINE d == Written(new, dirt)
<1>1. /\ d.valid = (disk.valid \ dirt) \cup (new.valid \cap dirt)
      /\ d.child = (disk.child \ dirt) \cup (new.child \cap dirt)
  BY DEF Written
<1> HIDE DEF d
<1>2. d.valid = new.valid
  BY <1>1 DEF Causes
<1>3. \A b \in d.child : Chain[b] \cap d.valid # {}
  BY <1>1, <1>2 DEF Causes
<1> QED BY <1>2, <1>3 DEF d

LEMMA CausesAfter ==
  ASSUME NEW new \in Index, NEW dirt, NEW wait, NEW coins, Save(new, dirt, wait, coins),
         Causes(new, dirt)
  PROVE  Causes(index, dirty)'
<1>1. CASE Keep(new, dirt, wait)
  BY <1>1 DEF Keep, Causes
<1>2. CASE WriteIndex(new, dirt, wait) \/ WriteAll(new, dirt, wait, coins)
  <2>1. index' = new /\ disk' = Written(new, dirt)
    BY <1>2 DEF WriteIndex, WriteAll
  <2> QED BY <2>1, WrittenHasCauses DEF Causes
<1>3. CASE PruneAndWriteAll(new, dirt, wait, coins)
  <2>1. PICK files \in FindFilesToPrune(new) :
          /\ index' = PruneBlockFiles(new, files)
          /\ disk' = Written(PruneBlockFiles(new, files), dirt \cup PrunedEntries(new, files))
    BY <1>3 DEF PruneAndWriteAll
  <2> DEFINE after == PruneBlockFiles(new, files)
             all == dirt \cup PrunedEntries(new, files)
  <2>2. after.valid = new.valid /\ after.child = new.child
    BY PruneBlockFilesKeeps DEF SameEntries
  <2> HIDE DEF after, all
  <2>3. Causes(after, all)
    BY <2>2 DEF Causes, all
  <2>4. index' = after /\ disk' = Written(after, all)
    BY <2>1 DEF after, all
  <2> QED BY <2>3, <2>4, WrittenHasCauses DEF Causes
<1> QED BY <1>1, <1>2, <1>3 DEF Save

-----------------------------------------------------------------------------
(* What leaves the candidates accounted for.                                *)

\* Data is only taken away, no failure is forgotten without a trace, and what joins
\* the active chain has its data and has not failed.
Gentle ==
    /\ index'.data \subseteq index.data /\ index'.data \cap unlinked \subseteq unlinked'
    /\ forgiven \subseteq forgiven' /\ Failed \subseteq Failed' \cup forgiven'
    /\ Chain[tip'] \ Chain[tip] \subseteq index.data \ Failed

LEMMA HardStays ==
  ASSUME Gentle, NEW b \in Blocks, Hard(b)
  PROVE  Hard(b)'
<1>1. b \in Chain[b]
  BY ChainEnds
<1>2. /\ forgiven \subseteq forgiven' /\ Failed \subseteq Failed' \cup forgiven'
      /\ (Chain[tip'] \ Chain[tip]) \cap Failed = {}
  BY DEF Gentle
<1>3. CASE b \in Failed
  BY <1>1, <1>2, <1>3 DEF Hard
<1>4. CASE (Chain[b] \ Chain[tip]) \cap Failed # {}
  BY <1>2, <1>4 DEF Hard
<1>5. CASE Chain[b] \cap forgiven # {}
  BY <1>2, <1>5 DEF Hard
<1> QED BY <1>3, <1>4, <1>5 DEF Hard

\* The highest of some blocks of a chain.
LEMMA HighestOf ==
  ASSUME NEW c \in Blocks, NEW S \in SUBSET Chain[c], S # {}
  PROVE  \E m \in S : \A x \in S : x \in Chain[m]
<1> DEFINE R == {p \in Blocks \X Blocks : p[1] \in Chain[p[2]]}
<1>1. S \subseteq Blocks
  BY ChainEnds
<1>2. IsFiniteSet(S)
  BY <1>1, ChainStateAssumption, FS_Subset
<1>3. \A a, b \in Blocks : <<a, b>> \in R <=> a \in Chain[b]
  OBVIOUS
<1> HIDE DEF R
<1>4. /\ \A x, y \in S : x = y \/ <<x, y>> \in R \/ <<y, x>> \in R
      /\ \A x, y, z \in S : <<x, y>> \in R /\ <<y, z>> \in R => <<x, z>> \in R
  BY <1>1, <1>3, ChainLinear, ChainTransitive
<1>5. \E m \in S : \A x \in S \ {m} : <<x, m>> \in R
  BY <1>2, <1>4, FiniteMaximum
<1> QED BY <1>1, <1>3, <1>5, ChainEnds

\* When some of the data a block waits for or of the waiting blocks is pruned, it waits
\* for the highest block without data.
LEMMA WaitingStays ==
  ASSUME Gentle, TypeOK, TypeOK', NEW c \in Blocks, Waiting(c)
  PROVE  Waiting(c)'
<1>1. PICK p \in Chain[c] \ Chain[tip] : p \notin index.data /\ Chain[c] \ Chain[p] \subseteq unlinked
  BY DEF Waiting
<1> DEFINE M == {x \in Chain[c] : p \in Chain[x] /\ x \notin index'.data}
<1>2. p \in Blocks /\ p \in Chain[p] /\ p \notin index'.data /\ p \notin Chain[tip']
  BY <1>1, ChainTransitive, ChainEnds DEF Gentle
<1>3. PICK q \in M : \A x \in M : x \in Chain[q]
  <2>1. M \in SUBSET Chain[c] /\ p \in M
    BY <1>1, <1>2
  <2> HIDE DEF M
  <2> QED BY <2>1, HighestOf
<1>4. q \in Chain[c] /\ p \in Chain[q] /\ q \notin index'.data /\ q \in Blocks
  BY <1>3, ChainTransitive
<1>5. q \notin Chain[tip']
  <2>1. tip' \in Blocks
    BY DEF TypeOK
  <2> QED BY <1>2, <1>4, <2>1, ChainTransitive
<1>6. Chain[c] \ Chain[q] \subseteq unlinked'
  <2> SUFFICES ASSUME NEW x \in Chain[c], x \notin Chain[q]
               PROVE  x \in unlinked'
    OBVIOUS
  <2>1. x \notin Chain[p]
    BY <1>4, ChainTransitive
  <2>2. p \in Chain[x]
    BY <1>1, <2>1, ChainLinear
  <2>3. x \in index'.data
    BY <1>3, <2>2
  <2> QED BY <1>1, <2>1, <2>3 DEF Gentle
<1> QED BY <1>4, <1>5, <1>6 DEF Waiting

\* The blocks stay covered when a candidate leaves only for a reason, or for a block
\* that became the tip and is better.
LEMMA CoverStays ==
  ASSUME TypeOK, TypeOK', LinkedInv, CoverInv, Gentle,
         linked' = linked, seq' = seq, past \subseteq past', tips \subseteq tips',
         tip' \in tips', tips' \subseteq linked,
         \A x \in unlinked' \ unlinked : x \in index'.data /\ Waiting(x)',
         unlinked' \cap index.data \subseteq index'.data,
         Ordinary => \A x \in cand \ cand' :
                        \E w \in {x} \cup tips' : ~Worse(w, x, seq) /\ Accounted(w)'
  PROVE  CoverInv'
<1>1. linked \subseteq Blocks /\ cand \subseteq linked /\ seq \in Sequence /\ tips' \subseteq Blocks
  BY DEF TypeOK, LinkedInv, Sequence
<1>2. TipsInv'
  BY DEF TipsInv
<1>3. WaitersInv'
  <2> SUFFICES ASSUME NEW x \in unlinked' \cap linked
               PROVE  x \in index'.data /\ Waiting(x)'
    BY DEF WaitersInv
  <2>1. CASE x \in unlinked
    BY <1>1, <2>1, WaitingStays DEF CoverInv, WaitersInv
  <2> QED BY <2>1
<1>4. Covered'
  <2> SUFFICES ASSUME Ordinary, NEW b \in linked
               PROVE  \E w \in {b} \cup tips' : ~Worse(w, b, seq) /\ Accounted(w)'
    BY DEF Covered, Ordinary
  <2>1. PICK w \in {b} \cup tips : ~Worse(w, b, seq) /\ Accounted(w)
    BY DEF CoverInv, Covered
  <2>2. w \in Blocks /\ b \in Blocks /\ w \in {b} \cup tips'
    BY <1>1, <2>1
  <2>3. CASE Hard(w) \/ Waiting(w)
    BY <2>1, <2>2, <2>3, HardStays, WaitingStays DEF Accounted
  <2>4. CASE w \in cand'
    BY <2>1, <2>2, <2>4 DEF Accounted
  <2>5. CASE w \in cand \ cand'
    <3>1. PICK v \in {w} \cup tips' : ~Worse(v, w, seq) /\ Accounted(v)'
      BY <2>5
    <3>2. v \in Blocks
      BY <1>1, <2>2, <3>1
    <3>3. ~Worse(v, b, seq)
      BY <1>1, <2>1, <2>2, <3>1, <3>2, WorseOrders
    <3> QED BY <2>2, <3>1, <3>3
  <2> QED BY <2>1, <2>3, <2>4, <2>5 DEF Accounted
<1> QED BY <1>2, <1>3, <1>4 DEF CoverInv

\* A handler that takes no data but what is pruned, and forgets no failure.
LEMMA SaveIsGentle ==
  ASSUME NEW new \in Index, NEW dirt, NEW coins, Save(new, dirt, unlinked, coins),
         new.data = index.data, Failed \subseteq new.valid \cup new.child \cup forgiven',
         forgiven \subseteq forgiven', Chain[tip'] \ Chain[tip] \subseteq index.data \ Failed
  PROVE  /\ Gentle /\ Failed' = new.valid \cup new.child
         /\ unlinked' \subseteq unlinked /\ unlinked' \cap index.data \subseteq index'.data
<1>1. /\ SameEntries(new, index')
      /\ unlinked' \subseteq unlinked /\ index'.data \cap unlinked \subseteq unlinked'
      /\ unlinked' \cap new.data \subseteq index'.data
  BY MemoryAfter
<1>2. Failed' = new.valid \cup new.child
  BY <1>1 DEF Failed, SameEntries
<1> QED BY <1>1, <1>2 DEF Gentle, SameEntries

\* When only blocks that failed leave the candidates.
LEMMA FailedLeaveCovered ==
  ASSUME TypeOK, TypeOK', LinkedInv, LinkedInv', CoverInv,
         NEW new \in Index, NEW dirt, NEW coins, Save(new, dirt, unlinked, coins),
         new.data = index.data, Failed \subseteq new.valid \cup new.child \cup forgiven',
         forgiven \subseteq forgiven',
         linked' = linked, seq' = seq, past \subseteq past',
         tips' = tips \cup {tip'}, Chain[tip'] \subseteq Chain[tip],
         cand \ cand' \subseteq new.valid \cup new.child
  PROVE  CoverInv'
<1>1. /\ Gentle /\ Failed' = new.valid \cup new.child
      /\ unlinked' \subseteq unlinked /\ unlinked' \cap index.data \subseteq index'.data
  BY SaveIsGentle
<1>2. ASSUME NEW x \in cand \ cand'
      PROVE  ~Worse(x, x, seq) /\ Accounted(x)'
  <2>1. x \in Failed' /\ x \in Blocks /\ seq \in Sequence
    BY <1>1, <1>2 DEF TypeOK, Sequence
  <2> QED BY <2>1, WorseOrders DEF Accounted, Hard
<1>3. tip' \in tips' /\ tips \subseteq tips' /\ tips' \subseteq linked
  BY DEF CoverInv, TipsInv, LinkedInv
<1> QED BY <1>1, <1>2, <1>3, CoverStays

LEMMA AcceptBlockHeaderCovers ==
  ASSUME IInv, IInv', CoverInv, NEW b \in Blocks \ {Genesis}, AcceptBlockHeader(b)
  PROVE  CoverInv'
<1> DEFINE new == Added(b)
           dirt == DirtyHeader(b)
<1>1. /\ new \in Index /\ new.data = index.data /\ new.valid = index.valid /\ new.child = index.child
  BY AddedFields DEF IInv, TypeOK
<1>2. /\ Keep(new, dirt, unlinked)
      /\ UNCHANGED <<indexVars, envVars, pending, step, node>>
  BY DEF AcceptBlockHeader
<1> HIDE DEF new, dirt
<1>3. Save(new, dirt, unlinked, tip)
  BY <1>2 DEF Save
<1> QED BY <1>1, <1>2, <1>3, FailedLeaveCovered DEF IInv, CoverInv, TipsInv, Failed, indexVars, envVars

LEMMA RejectBlockCovers ==
  ASSUME IInv, IInv', CoverInv, NEW b \in Blocks \ {Genesis}, NEW requested, RejectBlock(b, requested)
  PROVE  CoverInv'
<1> DEFINE add == Added(b)
           new == [add EXCEPT !.valid = @ \cup {b}]
           dirt == dirty \cup {b}
<1>1. add \in Index /\ add.data = index.data /\ add.valid = index.valid /\ add.child = index.child
  BY AddedFields DEF IInv, TypeOK
<1>2. /\ Keep(new, dirt, unlinked)
      /\ UNCHANGED <<indexVars, refused, forgiven, past, pending, step, node>>
  BY DEF RejectBlock
<1> HIDE DEF add
<1>3. new \in Index /\ new.data = index.data /\ new.valid = index.valid \cup {b} /\ new.child = index.child
  BY <1>1, FailedFields
<1> HIDE DEF new, dirt
<1>4. Save(new, dirt, unlinked, tip)
  BY <1>2 DEF Save
<1> QED BY <1>2, <1>3, <1>4, FailedLeaveCovered DEF IInv, CoverInv, TipsInv, Failed, indexVars

LEMMA IgnoreBlockCovers ==
  ASSUME IInv, IInv', CoverInv, NEW b \in Blocks \ {Genesis}, NEW requested, IgnoreBlock(b, requested)
  PROVE  CoverInv'
<1> DEFINE new == Added(b)
           dirt == DirtyHeader(b)
<1>1. /\ new \in Index /\ new.data = index.data /\ new.valid = index.valid /\ new.child = index.child
  BY AddedFields DEF IInv, TypeOK
<1>2. Keep(new, dirt, unlinked) /\ UNCHANGED <<indexVars, envVars, step, node>>
  BY DEF IgnoreBlock
<1> HIDE DEF new, dirt
<1>3. Save(new, dirt, unlinked, tip)
  BY <1>2 DEF Save
<1> QED BY <1>1, <1>2, <1>3, FailedLeaveCovered DEF IInv, CoverInv, TipsInv, Failed, indexVars, envVars

LEMMA FlushStateToDiskCovers ==
  ASSUME IInv, IInv', CoverInv, FlushStateToDisk
  PROVE  CoverInv'
<1>1. Save(index, dirty, unlinked, tip) /\ UNCHANGED <<indexVars, envVars, pending, step, node>>
  BY DEF FlushStateToDisk, Save
<1> QED BY <1>1, FailedLeaveCovered DEF IInv, CoverInv, TipsInv, TypeOK, Failed, indexVars, envVars

\* The actions that change neither the candidates nor the databases.
LEMMA NothingStoredCovers ==
  ASSUME CoverInv, UNCHANGED <<indexVars, diskVars, forgiven>>, past \subseteq past'
  PROVE  CoverInv'
<1>1. TipsInv' /\ WaitersInv'
  BY DEF CoverInv, TipsInv, WaitersInv, Waiting, indexVars, diskVars
<1>2. Covered'
  <2>1. \A w : Accounted(w) => Accounted(w)'
    BY DEF Accounted, Hard, Waiting, Failed, indexVars, diskVars
  <2> QED BY <2>1 DEF CoverInv, Covered, Ordinary, indexVars
<1> QED BY <1>1, <1>2 DEF CoverInv

\* What lies above the obstacle that stops FindMostWorkChain, when no block above it
\* failed, has its data.
LEMMA AboveHasData ==
  ASSUME TypeOK, NEW c \in Blocks, Obstacles(c) # {}, NEW x \in Above(c)
  PROVE  /\ x \in Blocks /\ x \in index.data /\ x \notin Failed /\ x \notin Chain[tip]
         /\ FirstObstacle(c) \in Chain[x]
         /\ Chain[x] \ Chain[FirstObstacle(c)] \subseteq Above(c)
<1> DEFINE p == FirstObstacle(c)
<1>1. p \in Chain[x] /\ x \in Chain[c] /\ x \notin Chain[p]
  BY AboveObstacle DEF Above
<1>2. p \in Obstacles(c) /\ \A q \in Obstacles(c) : q \in Chain[p]
  BY FirstObstacleIs
<1>3. x \in Blocks /\ Chain[x] \subseteq Chain[c]
  BY <1>1, ChainTransitive
<1>4. p \notin Chain[tip] /\ tip \in Blocks
  BY <1>2 DEF Obstacles, TypeOK
<1>5. x \notin Chain[tip]
  BY <1>1, <1>4, ChainTransitive
<1>6. x \notin Obstacles(c)
  BY <1>1, <1>2
<1>7. x \in index.data /\ x \notin Failed
  BY <1>1, <1>5, <1>6 DEF Obstacles
<1> QED BY <1>1, <1>3, <1>5, <1>7 DEF Above

\* FindMostWorkChain gives up a candidate because it is a failed block or above one, or
\* waits for the data of one.
LEMMA StartStepCovers ==
  ASSUME IInv, IInv', CoverInv, StartStep
  PROVE  CoverInv'
<1> DEFINE children == UNION {Above(c) : c \in GivenUpFailed}
           missing == UNION {Above(c) : c \in GivenUp \ GivenUpFailed}
           gone == UNION {Above(c) \cup {FirstObstacle(c)} : c \in GivenUp}
           new == [index EXCEPT !.child = @ \cup children]
<1>1. /\ cand' = cand \ gone /\ index' = new /\ unlinked' = unlinked \cup missing
      /\ UNCHANGED <<linked, seq, nextSeq, tip, tips, envVars, node>>
  BY DEF StartStep, FindMostWorkChain, Keep
<1>2. ASSUME NEW c \in GivenUp
      PROVE  c \in Blocks /\ Obstacles(c) # {} /\ Above(c) \subseteq Blocks
             /\ FirstObstacle(c) \in Chain[c] \ Chain[tip] /\ FirstObstacle(c) \in Blocks
             /\ (FirstObstacle(c) \in Failed \/ FirstObstacle(c) \notin index.data)
             /\ (c \in GivenUpFailed <=> FirstObstacle(c) \in Failed)
  <2>1. c \in Blocks /\ Obstacles(c) # {}
    BY DEF GivenUp, Usable, IInv, TypeOK
  <2>2. FirstObstacle(c) \in Obstacles(c) /\ Above(c) \subseteq Blocks
    BY <2>1, FirstObstacleIs, ChainEnds DEF Above
  <2> QED BY <2>1, <2>2, ChainTransitive DEF Obstacles, GivenUpFailed
<1>3. GivenUpFailed \subseteq GivenUp
  BY DEF GivenUpFailed
<1>4. children \subseteq Blocks
  BY <1>2, <1>3
<1>5. new.data = index.data /\ new.valid = index.valid /\ new.child = index.child \cup children
  BY <1>4, ChildFields DEF IInv, TypeOK
<1> HIDE DEF new
<1>6. Failed' = Failed \cup children /\ index'.data = index.data
  BY <1>1, <1>5 DEF Failed
<1>7. Gentle
  BY <1>1, <1>6 DEF Gentle, envVars
<1>8. ASSUME NEW x \in missing
      PROVE  x \in index'.data /\ Waiting(x)'
  <2>1. PICK c \in GivenUp \ GivenUpFailed : x \in Above(c)
    OBVIOUS
  <2>2. /\ x \in index.data /\ FirstObstacle(c) \in Chain[x]
        /\ Chain[x] \ Chain[FirstObstacle(c)] \subseteq Above(c)
    BY <1>2, <2>1, AboveHasData DEF IInv
  <2>3. FirstObstacle(c) \notin Chain[tip] /\ FirstObstacle(c) \notin index.data
    BY <1>2, <2>1
  <2>4. Chain[x] \ Chain[FirstObstacle(c)] \subseteq unlinked'
    BY <1>1, <2>1, <2>2
  <2> QED BY <1>1, <1>6, <2>2, <2>3, <2>4 DEF Waiting
<1>9. ASSUME NEW x \in cand \ cand'
      PROVE  ~Worse(x, x, seq) /\ Accounted(x)'
  <2>1. PICK c \in GivenUp : x \in Above(c) \cup {FirstObstacle(c)}
    BY <1>1, <1>9
  <2>2. x \in Blocks /\ seq \in Sequence
    BY <1>2, <2>1 DEF IInv, TypeOK, Sequence
  <2>3. CASE FirstObstacle(c) \in Failed
    <3>1. c \in GivenUpFailed
      BY <1>2, <2>1, <2>3
    <3>2. x \in Failed'
      BY <1>6, <2>1, <2>3, <3>1
    <3> QED BY <2>2, <3>2, WorseOrders DEF Accounted, Hard
  <2>4. CASE FirstObstacle(c) \notin Failed
    <3>1. c \in GivenUp \ GivenUpFailed /\ FirstObstacle(c) \notin index.data
      BY <1>2, <2>1, <2>4
    <3>2. CASE x \in Above(c)
      BY <1>8, <2>2, <3>1, <3>2, WorseOrders DEF Accounted
    <3>3. CASE x = FirstObstacle(c)
      <4>1. x \in Chain[x] \ Chain[tip] /\ x \notin index.data /\ Chain[x] \ Chain[x] = {}
        BY <1>2, <2>2, <3>1, <3>3, ChainEnds
      <4>2. Waiting(x)'
        BY <1>1, <1>6, <4>1 DEF Waiting
      <4> QED BY <2>2, <4>2, WorseOrders DEF Accounted
    <3> QED BY <2>1, <3>2, <3>3
  <2> QED BY <2>3, <2>4
<1> HIDE DEF children, missing, gone
<1>10. tip' \in tips' /\ tips' \subseteq linked
  BY <1>1 DEF CoverInv, TipsInv
<1> QED BY <1>1, <1>6, <1>7, <1>8, <1>9, <1>10, CoverStays DEF IInv, envVars

\* The tip goes down, and nothing but failed blocks leaves the candidates.
LEMMA DisconnectTipCovers ==
  ASSUME IInv, IInv', CoverInv, tip # Genesis,
         NEW new \in Index, NEW dirt, DisconnectTip(new, dirt),
         new.data = index.data, Failed \subseteq new.valid \cup new.child,
         UNCHANGED <<linked, seq, envVars>>, cand \ cand' \subseteq new.valid \cup new.child
  PROVE  CoverInv'
<1>1. /\ tip' = Parent[tip] /\ tips' = tips \cup {tip'}
      /\ Save(new, dirt, unlinked, Parent[tip])
  BY DEF DisconnectTip, FlushIfNeeded, Save
<1>2. Chain[tip'] \subseteq Chain[tip]
  BY <1>1, ParentFacts DEF IInv, TypeOK
<1> QED BY <1>1, <1>2, FailedLeaveCovered DEF IInv, envVars

LEMMA AbortNodeCovers ==
  ASSUME CoverInv, AbortNode
  PROVE  CoverInv'
BY NothingStoredCovers DEF AbortNode, envVars

LEMMA StepDisconnectsCovers ==
  ASSUME IInv, IInv', CoverInv, StepDisconnects
  PROVE  CoverInv'
<1>1. step.kind = "connect" /\ tip \notin Chain[step.target] /\ node = "up"
  BY DEF StepDisconnects
<1>2. tip # Genesis
  BY <1>1, ChainEnds DEF IInv, StepInv, TypeOK
<1>3. CASE tip \in index.data
  <2>1. DisconnectTip(index, dirty) /\ UNCHANGED <<linked, seq, nextSeq, cand, envVars>>
    BY <1>3 DEF StepDisconnects
  <2> QED BY <1>2, <2>1, DisconnectTipCovers DEF IInv, TypeOK, Failed
<1>4. CASE tip \notin index.data
  BY <1>4, AbortNodeCovers DEF StepDisconnects
<1> QED BY <1>3, <1>4

LEMMA ReplayDisconnectsCovers ==
  ASSUME IInv, IInv', CoverInv, ReplayDisconnects
  PROVE  CoverInv'
<1>1. CASE tip \in index.data
  <2>1. /\ DisconnectTip(index, dirty) /\ UNCHANGED <<linked, seq, nextSeq, cand, envVars>>
        /\ tip # Genesis
    BY <1>1 DEF ReplayDisconnects
  <2> QED BY <2>1, DisconnectTipCovers DEF IInv, TypeOK, Failed
<1>2. CASE tip \notin index.data
  BY <1>2, AbortNodeCovers DEF ReplayDisconnects
<1> QED BY <1>1, <1>2

LEMMA InvalidateDisconnectsCovers ==
  ASSUME IInv, IInv', CoverInv, InvalidateDisconnects
  PROVE  CoverInv'
<1>1. step.kind = "invalidate" /\ step.target \in Chain[tip]
  BY DEF InvalidateDisconnects
<1>2. tip # Genesis
  BY <1>1, ChainStateAssumption DEF IInv, StepInv
<1>3. CASE tip \in index.data
  <2> DEFINE S == {tip}
             new == [index EXCEPT !.child = @ \cup S]
             dirt == dirty \cup {tip}
  <2>1. /\ DisconnectTip(new, dirt) /\ cand' = cand \ S
        /\ UNCHANGED <<linked, seq, nextSeq, envVars>>
    BY <1>3 DEF InvalidateDisconnects
  <2>2. S \subseteq Blocks
    BY DEF IInv, TypeOK
  <2> HIDE DEF S
  <2>3. /\ new \in Index /\ new.data = index.data
        /\ new.valid = index.valid /\ new.child = index.child \cup S
    BY <2>2, ChildFields DEF IInv, TypeOK
  <2> HIDE DEF new, dirt
  <2> QED BY <1>2, <2>1, <2>3, DisconnectTipCovers DEF Failed
<1>4. CASE tip \notin index.data
  BY <1>4, AbortNodeCovers DEF InvalidateDisconnects
<1> QED BY <1>3, <1>4

\* A candidate that is worse than the block connected gives way to what covered that
\* block before.
LEMMA StepConnectsCovers ==
  ASSUME IInv, IInv', CoverInv, ConnectInv, StepConnects
  PROVE  CoverInv'
<1> DEFINE b == NextToConnect
<1>1. step.kind = "connect" /\ tip \in Chain[step.target] /\ node = "up"
  BY DEF StepConnects
<1>2. /\ b \in Chain[step.target] /\ b \in Blocks \ {Genesis} /\ Parent[b] = tip
      /\ step.target \in cand /\ step.target \in Blocks
  BY <1>1, NextToConnectIs
<1>3. /\ b \in index.data /\ tip' = b /\ tips' = tips \cup {b}
      /\ cand' = {c \in cand : ~Worse(c, b, seq)}
      /\ FlushIfNeeded(index, dirty, unlinked, b)
      /\ UNCHANGED <<linked, seq, nextSeq, envVars>>
  BY DEF StepConnects, PruneBlockIndexCandidates
<1> HIDE DEF b
<1>4. /\ linked \subseteq Blocks /\ cand \subseteq linked /\ seq \in Sequence /\ tips' \subseteq Blocks
      /\ tip \in Blocks /\ index \in Index
  BY <1>2, <1>3 DEF IInv, TypeOK, LinkedInv, Sequence
<1>5. b \in linked
  BY <1>2 DEF IInv, LinkedInv
<1>6. Chain[b] = Chain[tip] \cup {b} /\ b \notin Chain[tip]
  BY <1>2, ParentFacts
<1>7. Chain[tip'] \ Chain[tip] \subseteq index.data \ Failed
  BY <1>1, <1>2, <1>3, <1>6 DEF ConnectInv
<1>8. Save(index, dirty, unlinked, b)
  BY <1>3 DEF FlushIfNeeded, Save
<1>9. /\ Gentle /\ unlinked' \subseteq unlinked /\ unlinked' \cap index.data \subseteq index'.data
  BY <1>3, <1>4, <1>7, <1>8, SaveIsGentle DEF Failed, envVars
<1>10. ASSUME Ordinary, NEW x \in cand \ cand'
       PROVE  \E w \in {x} \cup tips' : ~Worse(w, x, seq) /\ Accounted(w)'
  <2>1. PICK w \in {b} \cup tips : ~Worse(w, b, seq) /\ Accounted(w)
    BY <1>5, <1>10 DEF CoverInv, Covered
  <2>2. w \in tips' /\ w \in Blocks /\ x \in Blocks /\ Worse(x, b, seq)
    BY <1>3, <1>4, <1>10, <2>1
  <2>3. ~Worse(w, x, seq)
    BY <1>2, <1>4, <2>1, <2>2, WorseOrders
  <2>4. CASE w \in cand
    <3>1. w \in cand'
      BY <1>3, <2>1, <2>4
    <3> QED BY <2>2, <2>3, <3>1 DEF Accounted
  <2>5. CASE Hard(w) \/ Waiting(w)
    BY <1>9, <2>2, <2>3, <2>5, HardStays, WaitingStays DEF Accounted, IInv
  <2> QED BY <2>1, <2>4, <2>5 DEF Accounted
<1>11. tip' \in tips' /\ tips \subseteq tips' /\ tips' \subseteq linked
  BY <1>3, <1>5 DEF CoverInv, TipsInv
<1> QED BY <1>3, <1>9, <1>10, <1>11, CoverStays DEF IInv, envVars

LEMMA StepRefusesCovers ==
  ASSUME IInv, IInv', CoverInv, StepRefuses
  PROVE  CoverInv'
<1> DEFINE b == NextToConnect
           new == [index EXCEPT !.valid = @ \cup {b}]
           dirt == dirty \cup {b}
<1>1. step.kind = "connect" /\ tip \in Chain[step.target] /\ node = "up"
  BY DEF StepRefuses
<1>2. b \in Blocks \ {Genesis}
  BY <1>1, NextToConnectIs
<1>3. /\ Keep(new, dirt, unlinked) /\ cand' = cand \ {b}
      /\ UNCHANGED <<linked, seq, nextSeq, tip, tips, refused, forgiven, past, pending, node>>
  BY DEF StepRefuses
<1> HIDE DEF b
<1>4. /\ new \in Index /\ new.data = index.data /\ new.valid = index.valid \cup {b}
      /\ new.child = index.child
  BY <1>2, FailedFields DEF IInv, TypeOK
<1> HIDE DEF new, dirt
<1>5. Save(new, dirt, unlinked, tip)
  BY <1>3 DEF Save
<1> QED BY <1>3, <1>4, <1>5, FailedLeaveCovered DEF IInv, CoverInv, TipsInv, Failed

LEMMA InvalidateBlockCovers ==
  ASSUME IInv, IInv', CoverInv, NEW b \in Blocks \ {Genesis}, InvalidateBlock(b)
  PROVE  CoverInv'
<1> DEFINE new == [index EXCEPT !.valid = @ \cup {b}]
           dirt == dirty \cup {b}
<1>1. /\ Keep(new, dirt, unlinked) /\ cand' = cand \ {b} /\ past' = past \cup {"invalidated"}
      /\ UNCHANGED <<linked, seq, nextSeq, tip, tips, refused, rejected, forgiven, pending, node>>
  BY DEF InvalidateBlock
<1>2. /\ new \in Index /\ new.data = index.data /\ new.valid = index.valid \cup {b}
      /\ new.child = index.child
  BY FailedFields DEF IInv, TypeOK
<1> HIDE DEF new, dirt
<1>3. Save(new, dirt, unlinked, tip)
  BY <1>1 DEF Save
<1> QED BY <1>1, <1>2, <1>3, FailedLeaveCovered DEF IInv, CoverInv, TipsInv, Failed

\* From here on only the tip can stand for another block.
LEMMA InvalidateEndsCovers ==
  ASSUME IInv, IInv', CoverInv, InvalidateEnds
  PROVE  CoverInv'
<1>1. /\ UNCHANGED <<linked, seq, nextSeq, tip, diskVars, envVars, node>>
      /\ cand' = cand \cup {c \in linked \ Failed : ~Worse(c, tip, seq)} /\ tips' = {tip}
  BY DEF InvalidateEnds
<1>2. linked \subseteq Blocks /\ seq \in Sequence /\ tip \in linked
  BY DEF IInv, TypeOK, LinkedInv, Sequence
<1>3. TipsInv' /\ WaitersInv'
  BY <1>1, <1>2 DEF CoverInv, TipsInv, WaitersInv, Waiting, diskVars
<1>4. Failed' = Failed
  BY <1>1 DEF Failed, diskVars
<1>5. ASSUME NEW c \in linked, ~Worse(c, tip, seq)
      PROVE  Accounted(c)'
  BY <1>1, <1>4, <1>5 DEF Accounted, Hard
<1>6. ASSUME NEW c \in linked
      PROVE  \E w \in {c} \cup tips' : ~Worse(w, c, seq) /\ Accounted(w)'
  <2>1. CASE Worse(c, tip, seq)
    <3>1. ~Worse(tip, c, seq) /\ ~Worse(tip, tip, seq)
      BY <1>2, <2>1, WorseOrders
    <3> QED BY <1>1, <1>2, <1>5, <3>1
  <2>2. CASE ~Worse(c, tip, seq)
    <3>1. ~Worse(c, c, seq)
      BY <1>2, WorseOrders
    <3> QED BY <1>5, <2>2, <3>1
  <2> QED BY <2>1, <2>2
<1>7. Covered'
  BY <1>1, <1>6 DEF Covered
<1> QED BY <1>3, <1>7 DEF CoverInv

LEMMA ReconsiderBlockCovers ==
  ASSUME IInv, IInv', CoverInv, NEW b \in Blocks, ReconsiderBlock(b)
  PROVE  CoverInv'
<1> DEFINE cleared == Forgiven(b) \cup (Chain[b] \cap Failed)
           new == [index EXCEPT !.valid = @ \ cleared, !.child = @ \ cleared]
           dirt == dirty \cup cleared
<1>1. /\ Keep(new, dirt, unlinked) /\ forgiven' = forgiven \cup cleared /\ cand \subseteq cand'
      /\ UNCHANGED <<linked, seq, nextSeq, tip, tips, refused, rejected, past, pending, node>>
  BY DEF ReconsiderBlock
<1> HIDE DEF cleared
<1>2. /\ new \in Index /\ new.data = index.data
      /\ new.valid = index.valid \ cleared /\ new.child = index.child \ cleared
  BY DEF IInv, TypeOK, Index
<1> HIDE DEF new, dirt
<1>3. Save(new, dirt, unlinked, tip)
  BY <1>1 DEF Save
<1> QED BY <1>1, <1>2, <1>3, FailedLeaveCovered DEF IInv, CoverInv, TipsInv, Failed

\* A block that the queue reaches leaves mapBlocksUnlinked; the others wait as before.
LEMMA QueueSkips ==
  ASSUME IInv, CoverInv, NEW b \in Blocks \ {Genesis}, b \notin index.data, Parent[b] \in linked
  PROVE  /\ b \notin unlinked
         /\ \A c \in linked \ NowLinked(b) : \A p \in Chain[c] \ Chain[tip] :
               p \notin index.data /\ Chain[c] \ Chain[p] \subseteq unlinked =>
                  p # b /\ Chain[c] \ Chain[p] \subseteq unlinked \ NowLinked(b)
<1>1. b \notin unlinked
  BY DEF IInv, WaitInv, CoverInv, WaitersInv
<1>2. ASSUME NEW c \in linked \ NowLinked(b), NEW p \in Chain[c] \ Chain[tip],
             p \notin index.data, Chain[c] \ Chain[p] \subseteq unlinked
      PROVE  p # b /\ Chain[c] \ Chain[p] \subseteq unlinked \ NowLinked(b)
  <2>1. c \in Blocks /\ c \in Chain[c] /\ Chain[c] \subseteq linked
    BY ChainEnds DEF IInv, TypeOK, LinkedInv
  <2>2. p \in Blocks /\ p \in linked /\ p \notin unlinked
    BY <1>2, <2>1 DEF IInv, TypeOK, CoverInv, WaitersInv
  <2>3. p # b
    <3>1. c \in Chain[p] => c = p
      <4>1. p # c /\ c \in Chain[p] => nChainWork[c] < nChainWork[p] /\ nChainWork[p] < nChainWork[c]
        BY <2>1, <2>2, ChainWorkGrows
      <4>2. nChainWork[c] \in Nat /\ nChainWork[p] \in Nat
        BY <2>1, <2>2, ChainStateAssumption
      <4> QED BY <4>1, <4>2
    <3> QED BY <1>2, <2>1, <3>1 DEF NowLinked
  <2>4. ASSUME NEW x \in Chain[c] \ Chain[p], x \in NowLinked(b)
        PROVE  FALSE
    <3>1. x \in Blocks /\ b \in Chain[x] /\ Chain[x] \ Chain[b] \subseteq unlinked
      BY <2>1, <2>4, ChainTransitive DEF NowLinked
    <3>2. p \in Chain[x] /\ Chain[x] \subseteq Chain[c]
      BY <2>1, <2>4, ChainLinear, ChainTransitive
    <3>3. p \in Chain[b]
      BY <2>2, <3>1, <3>2
    <3>4. b \notin Chain[p]
      <4>1. p # b /\ b \in Chain[p] => nChainWork[b] < nChainWork[p] /\ nChainWork[p] < nChainWork[b]
        BY <2>2, <3>3, ChainWorkGrows
      <4>2. nChainWork[b] \in Nat /\ nChainWork[p] \in Nat
        BY <2>2, ChainStateAssumption
      <4> QED BY <2>3, <4>1, <4>2
    <3> QED BY <1>1, <1>2, <3>1, <3>2, <3>4
  <2> QED BY <1>2, <2>3, <2>4
<1> QED BY <1>1, <1>2

LEMMA AcceptBlockCovers ==
  ASSUME IInv, IInv', CoverInv, NEW b \in Blocks \ {Genesis}, NEW requested, AcceptBlock(b, requested)
  PROVE  CoverInv'
<1> DEFINE new == [Added(b) EXCEPT !.data = @ \cup {b}, !.tx = @ \cup {b}, !.nFile[b] = FindBlockPos]
           S == NowLinked(b)
<1>1. FindBlockPos \in Nat
  BY FilesAreNumbered DEF FindBlockPos, IInv, TypeOK
<1>2. /\ new \in Index /\ new.known = index.known \cup {b}
      /\ new.data = index.data \cup {b} /\ new.tx = index.tx \cup {b}
      /\ new.valid = index.valid /\ new.child = index.child
  BY <1>1, StoredFields DEF IInv, TypeOK
<1>3. /\ index' = new /\ unlinked' = UnlinkedAfter(b) /\ b \notin index.data
      /\ UNCHANGED <<tip, tips, refused, rejected, forgiven, step, node>>
      /\ past' = IF S \cap (cand \cup tips) # {} THEN past \cup {"renumbered"} ELSE past
      /\ ReceivedBlockTransactions(b)
  BY DEF AcceptBlock, Keep, Wanted
<1> HIDE DEF new
<1>4. Failed' = Failed /\ index'.data = index.data \cup {b}
  BY <1>2, <1>3 DEF Failed
<1>5. \A c : Hard(c) => Hard(c)'
  BY <1>3, <1>4 DEF Hard
<1>6. linked \subseteq Blocks /\ cand \subseteq linked /\ tip \in linked /\ tips \subseteq linked
  BY DEF IInv, TypeOK, LinkedInv, CoverInv, TipsInv
<1>7. CASE Parent[b] \in linked
  <2>1. PICK r \in QueueOrders(S) :
          LET s == [c \in Blocks |-> IF c \in S THEN nextSeq + r[c] - 1 ELSE seq[c]]
          IN /\ linked' = linked \cup S
             /\ seq' = s
             /\ cand' = cand \cup {c \in S : ~Worse(c, tip, s)}
    BY <1>3, <1>7 DEF ReceivedBlockTransactions
  <2>2. /\ linked' = linked \cup S
        /\ cand' = cand \cup {c \in S : ~Worse(c, tip, seq')}
        /\ \A c \in Blocks \ S : seq'[c] = seq[c]
    BY <2>1
  <2>3. /\ b \notin unlinked
        /\ \A c \in linked \ S : \A p \in Chain[c] \ Chain[tip] :
              p \notin index.data /\ Chain[c] \ Chain[p] \subseteq unlinked =>
                 p # b /\ Chain[c] \ Chain[p] \subseteq unlinked \ S
    BY <1>3, <1>7, QueueSkips
  <2>4. unlinked' = unlinked \ S
    BY <1>3, <1>7, <2>3 DEF UnlinkedAfter
  <2>5. S \subseteq Blocks /\ seq' \in Sequence /\ linked' \subseteq Blocks /\ seq \in Sequence
    BY <1>6, <2>2 DEF IInv, TypeOK, Sequence
  <2> HIDE DEF S
  <2>6. ASSUME NEW c \in linked \ S, Waiting(c)
        PROVE  Waiting(c)'
    <3>1. PICK p \in Chain[c] \ Chain[tip] :
            p \notin index.data /\ Chain[c] \ Chain[p] \subseteq unlinked
      BY <2>6 DEF Waiting
    <3>2. p # b /\ Chain[c] \ Chain[p] \subseteq unlinked \ S
      BY <2>3, <3>1
    <3> QED BY <1>3, <1>4, <2>4, <3>1, <3>2 DEF Waiting
  <2>7. ASSUME NEW c \in linked \ S, Accounted(c)
        PROVE  Accounted(c)'
    BY <1>5, <2>2, <2>6, <2>7 DEF Accounted
  <2>8. TipsInv'
    BY <1>3, <2>2 DEF CoverInv, TipsInv
  <2>9. WaitersInv'
    BY <1>4, <2>2, <2>4, <2>6 DEF CoverInv, WaitersInv
  <2>10. ASSUME Ordinary', NEW c \in linked'
         PROVE  \E w \in {c} \cup tips' : ~Worse(w, c, seq') /\ Accounted(w)'
    <3>1. S \cap (cand \cup tips) = {} /\ Ordinary
      BY <1>3, <2>10 DEF Ordinary
    <3>2. \A x, y \in Blocks \ S : Worse(x, y, seq') <=> Worse(x, y, seq)
      BY <2>2 DEF Worse
    <3>3. \A y \in linked : \E w \in {y} \cup tips : ~Worse(w, y, seq) /\ Accounted(w)
      BY <3>1 DEF CoverInv, Covered
    <3>4. CASE c \in S
      <4>1. CASE Worse(c, tip, seq')
        <5>1. PICK w \in tips : ~Worse(w, tip, seq) /\ Accounted(w)
          BY <1>6, <3>3 DEF CoverInv, TipsInv
        <5>2. w \in linked \ S /\ w \in Blocks \ S /\ tip \in Blocks \ S /\ c \in Blocks
          BY <1>6, <2>5, <3>1, <3>4 DEF CoverInv, TipsInv
        <5>3. ~Worse(w, tip, seq')
          BY <3>2, <5>1, <5>2
        <5>4. ~Worse(w, c, seq')
          BY <2>5, <4>1, <5>2, <5>3, WorseOrders
        <5> QED BY <1>3, <2>7, <5>1, <5>2, <5>4
      <4>2. CASE ~Worse(c, tip, seq')
        <5>1. c \in cand' /\ ~Worse(c, c, seq')
          BY <2>2, <2>5, <3>4, <4>2, WorseOrders
        <5> QED BY <5>1 DEF Accounted
      <4> QED BY <4>1, <4>2
    <3>5. CASE c \notin S
      <4>1. c \in linked
        BY <2>2, <2>10, <3>5
      <4>2. PICK w \in {c} \cup tips : ~Worse(w, c, seq) /\ Accounted(w)
        BY <3>3, <4>1
      <4>3. w \in linked \ S /\ w \in Blocks \ S /\ c \in Blocks \ S
        BY <1>6, <3>1, <3>5, <4>1, <4>2
      <4> QED BY <1>3, <2>7, <3>2, <4>2, <4>3
    <3> QED BY <3>4, <3>5
  <2>11. Covered'
    BY <2>10 DEF Covered
  <2> QED BY <2>8, <2>9, <2>11 DEF CoverInv
<1>8. CASE Parent[b] \notin linked
  <2>1. linked' = linked \ {b} /\ UNCHANGED <<seq, nextSeq, cand>>
    BY <1>3, <1>8 DEF ReceivedBlockTransactions, IInv, LinkedInv
  <2>2. b \notin linked
    <3>1. Parent[b] \in Chain[b]
      BY ParentFacts, ChainEnds
    <3> QED BY <1>8, <3>1 DEF IInv, LinkedInv
  <2>3. linked' = linked /\ unlinked \subseteq unlinked' /\ unlinked' \subseteq unlinked \cup {b}
    BY <1>3, <1>8, <2>1, <2>2 DEF UnlinkedAfter
  <2>4. ASSUME NEW c \in linked, Waiting(c)
        PROVE  Waiting(c)'
    <3>1. PICK p \in Chain[c] \ Chain[tip] :
            p \notin index.data /\ Chain[c] \ Chain[p] \subseteq unlinked
      BY <2>4 DEF Waiting
    <3>2. p # b
      BY <2>2, <3>1 DEF IInv, LinkedInv
    <3> QED BY <1>3, <1>4, <2>3, <3>1, <3>2 DEF Waiting
  <2>5. TipsInv' /\ WaitersInv'
    BY <1>3, <1>4, <2>2, <2>3, <2>4 DEF CoverInv, TipsInv, WaitersInv
  <2>6. Covered'
    <3>1. \A c \in linked : Accounted(c) => Accounted(c)'
      BY <1>5, <2>1, <2>4 DEF Accounted
    <3>2. Ordinary' => Ordinary
      BY <1>3 DEF Ordinary
    <3> QED BY <1>3, <1>6, <2>1, <2>3, <3>1, <3>2 DEF CoverInv, Covered
  <2> QED BY <2>5, <2>6 DEF CoverInv
<1> QED BY <1>7, <1>8

\* LoadBlockIndexDB gathers the candidates again, and what waits has no linked parent.
LEMMA CrashCovers ==
  ASSUME IInv, IInv', Crash
  PROVE  CoverInv'
<1>1. PICK d \in CrashIndexes : LoadBlockIndexDB(d)
  BY DEF Crash
<1> DEFINE left == {b \in ChainTx(d) \ (d.valid \cup d.child) :
                      ~Worse(b, diskTip, [x \in Blocks |-> 0])}
<1>2. /\ index' = d /\ linked' = ChainTx(d)
      /\ unlinked' = {b \in d.tx \ {Genesis} : Parent[b] \notin ChainTx(d)}
      /\ seq' = [b \in Blocks |-> 0] /\ tip' = diskTip
      /\ tips' = {diskTip} /\ cand' = left
  BY <1>1 DEF LoadBlockIndexDB, ChainTx
<1>3. linked' \subseteq Blocks /\ seq' \in Sequence /\ tip' \in linked' /\ unlinked' \subseteq Blocks
  BY DEF IInv, TypeOK, LinkedInv, Sequence
<1>4. TipsInv'
  BY <1>2, <1>3 DEF TipsInv
<1>5. unlinked' \cap linked' = {}
  <2> SUFFICES ASSUME NEW x \in unlinked' \cap linked'
               PROVE  FALSE
    OBVIOUS
  <2>1. Parent[x] \notin linked' /\ x \in Blocks \ {Genesis}
    BY <1>2, <1>3
  <2>2. Parent[x] \in Chain[x]
    BY <2>1, ParentFacts, ChainEnds
  <2> QED BY <2>1, <2>2 DEF IInv, LinkedInv
<1>6. WaitersInv'
  BY <1>5 DEF WaitersInv
<1>7. ASSUME NEW c \in linked', ~Worse(c, tip', seq')
      PROVE  Accounted(c)'
  <2>1. Failed' = d.valid \cup d.child
    BY <1>2 DEF Failed
  <2> QED BY <1>2, <1>7, <2>1 DEF Accounted, Hard
<1>8. ASSUME NEW c \in linked'
      PROVE  \E w \in {c} \cup tips' : ~Worse(w, c, seq') /\ Accounted(w)'
  <2>1. CASE Worse(c, tip', seq')
    <3>1. ~Worse(tip', c, seq') /\ ~Worse(tip', tip', seq')
      BY <1>3, <2>1, WorseOrders
    <3> QED BY <1>2, <1>3, <1>7, <3>1
  <2>2. CASE ~Worse(c, tip', seq')
    <3>1. ~Worse(c, c, seq')
      BY <1>3, WorseOrders
    <3> QED BY <1>7, <2>2, <3>1
  <2> QED BY <2>1, <2>2
<1>9. Covered'
  BY <1>8 DEF Covered
<1> QED BY <1>4, <1>6, <1>9 DEF CoverInv

LEMMA InitCovers == Init => CoverInv
<1> SUFFICES ASSUME Init
             PROVE  CoverInv
  OBVIOUS
<1>1. IInv
  BY InitKeeps
<1>2. linked = {Genesis} /\ cand = {Genesis} /\ unlinked = {} /\ tip = Genesis /\ tips = {Genesis}
  BY DEF Init
<1>3. ~Worse(Genesis, Genesis, seq)
  BY <1>1, WorseOrders, ChainStateAssumption DEF IInv, TypeOK, Sequence
<1> QED BY <1>2, <1>3 DEF CoverInv, TipsInv, WaitersInv, Covered, Accounted

-----------------------------------------------------------------------------
(* The order of the candidates and the steps of ActivateBestChain.          *)

\* Who cannot be connected still cannot when data goes, blocks fail, or the tip moves
\* over blocks that have their data and have not failed.
LEMMA ObstaclesStay ==
  ASSUME index'.data \subseteq index.data, Failed \subseteq Failed',
         Chain[tip'] \ Chain[tip] \subseteq index.data \ Failed,
         NEW c, Obstacles(c)' = {}
  PROVE  Obstacles(c) = {}
BY DEF Obstacles

LEMMA NotWorseStays ==
  ASSUME CandidatesAreNotWorse, cand' \subseteq cand, UNCHANGED <<tip, seq>>, past \subseteq past'
  PROVE  CandidatesAreNotWorse'
BY DEF CandidatesAreNotWorse, Ordinary

\* A handler that runs between two steps and lets no candidate in.
LEMMA HandlerKeepsOrder ==
  ASSUME OrderInv, node = "up", step = Idle, step'.kind # "connect",
         cand' \subseteq cand, UNCHANGED <<tip, seq>>, past \subseteq past',
         index'.data \subseteq index.data, Failed \subseteq Failed',
         pending' = pending \/ pending' # "no"
  PROVE  OrderInv'
<1>1. CandidatesAreNotWorse'
  BY NotWorseStays DEF OrderInv
<1>2. ConnectInv'
  BY DEF ConnectInv
<1>3. QuietInv'
  <2> SUFFICES ASSUME pending' = "no", NEW c \in cand', Obstacles(c)' = {}
               PROVE  ~Worse(tip, c, seq)
    BY DEF QuietInv
  <2>1. Obstacles(c) = {}
    BY ObstaclesStay
  <2> QED BY <2>1 DEF OrderInv, QuietInv
<1> QED BY <1>1, <1>2, <1>3 DEF OrderInv

\* Nothing moves but the verdicts, or AbortNode stops the node.
LEMMA NothingStoredOrder ==
  ASSUME OrderInv, UNCHANGED <<indexVars, diskVars, pending, step>>, past \subseteq past',
         node' \in {node, "abort"}
  PROVE  OrderInv'
<1>1. Failed' = Failed /\ \A c : Obstacles(c)' = Obstacles(c)
  BY DEF Failed, Obstacles, indexVars, diskVars
<1>2. CandidatesAreNotWorse'
  BY NotWorseStays DEF OrderInv, indexVars
<1>3. ConnectInv'
  BY <1>1 DEF OrderInv, ConnectInv, Ordinary, indexVars
<1>4. QuietInv'
  BY <1>1 DEF OrderInv, QuietInv, indexVars
<1> QED BY <1>2, <1>3, <1>4 DEF OrderInv

LEMMA AcceptBlockHeaderOrder ==
  ASSUME IInv, IInv', OrderInv, NEW b \in Blocks \ {Genesis}, AcceptBlockHeader(b)
  PROVE  OrderInv'
<1>1. /\ index' = Added(b) /\ node = "up" /\ step = Idle
      /\ UNCHANGED <<indexVars, envVars, pending, step, node>>
  BY DEF AcceptBlockHeader, CsMainFree, Keep
<1>2. index'.data = index.data /\ Failed' = Failed
  BY <1>1, AddedFields DEF IInv, TypeOK, Failed
<1> QED BY <1>1, <1>2, IdleIsStep, HandlerKeepsOrder DEF indexVars, envVars

LEMMA RejectBlockOrder ==
  ASSUME IInv, IInv', OrderInv, NEW b \in Blocks \ {Genesis}, NEW requested, RejectBlock(b, requested)
  PROVE  OrderInv'
<1> DEFINE add == Added(b)
           new == [add EXCEPT !.valid = @ \cup {b}]
<1>1. /\ index' = new /\ node = "up" /\ step = Idle
      /\ UNCHANGED <<indexVars, past, pending, step, node>>
  BY DEF RejectBlock, CsMainFree, Keep
<1>2. add \in Index /\ add.data = index.data /\ add.valid = index.valid /\ add.child = index.child
  BY AddedFields DEF IInv, TypeOK
<1> HIDE DEF add
<1>3. new.data = index.data /\ new.valid = index.valid \cup {b} /\ new.child = index.child
  BY <1>2, FailedFields
<1> HIDE DEF new
<1>4. index'.data = index.data /\ Failed \subseteq Failed'
  BY <1>1, <1>3 DEF Failed
<1> QED BY <1>1, <1>4, IdleIsStep, HandlerKeepsOrder DEF indexVars

LEMMA IgnoreBlockOrder ==
  ASSUME IInv, IInv', OrderInv, NEW b \in Blocks \ {Genesis}, NEW requested, IgnoreBlock(b, requested)
  PROVE  OrderInv'
<1>1. /\ index' = Added(b) /\ node = "up" /\ step = Idle /\ pending' = "yes"
      /\ UNCHANGED <<indexVars, envVars, step, node>>
  BY DEF IgnoreBlock, CsMainFree, Keep
<1>2. index'.data = index.data /\ Failed' = Failed
  BY <1>1, AddedFields DEF IInv, TypeOK, Failed
<1> QED BY <1>1, <1>2, IdleIsStep, HandlerKeepsOrder DEF indexVars, envVars

LEMMA FlushStateToDiskOrder ==
  ASSUME IInv, OrderInv, FlushStateToDisk
  PROVE  OrderInv'
<1>1. /\ Save(index, dirty, unlinked, tip) /\ node = "up" /\ step = Idle
      /\ UNCHANGED <<indexVars, envVars, pending, step, node>>
  BY DEF FlushStateToDisk, CsMainFree, Save
<1>2. index'.data \subseteq index.data /\ Failed' = Failed
  BY <1>1, MemoryAfter DEF IInv, TypeOK, SameEntries, Failed
<1> QED BY <1>1, <1>2, IdleIsStep, HandlerKeepsOrder DEF indexVars, envVars

LEMMA InvalidateBlockOrder ==
  ASSUME IInv, OrderInv, NEW b \in Blocks \ {Genesis}, InvalidateBlock(b)
  PROVE  OrderInv'
<1> DEFINE new == [index EXCEPT !.valid = @ \cup {b}]
<1>1. /\ index' = new /\ cand' = cand \ {b} /\ past' = past \cup {"invalidated"}
      /\ node = "up" /\ step = Idle /\ step' = [Idle EXCEPT !.kind = "invalidate", !.target = b]
      /\ UNCHANGED <<linked, seq, nextSeq, tip, pending>>
  BY DEF InvalidateBlock, CsMainFree, Keep
<1>2. new.data = index.data /\ new.valid = index.valid \cup {b} /\ new.child = index.child
  BY FailedFields DEF IInv, TypeOK
<1> HIDE DEF new
<1>3. index'.data = index.data /\ Failed \subseteq Failed'
  BY <1>1, <1>2 DEF Failed
<1>4. step'.kind = "invalidate"
  BY <1>1 DEF Idle
<1> QED BY <1>1, <1>3, <1>4, HandlerKeepsOrder

LEMMA ReprocessBlocksOrder ==
  ASSUME OrderInv, NEW n, NEW recent, ReprocessBlocks(n, recent)
  PROVE  OrderInv'
<1>1. /\ UNCHANGED <<indexVars, diskVars, pending>> /\ past' = past \cup {"replayed"}
      /\ node = "up" /\ step = Idle
      /\ step' = [Idle EXCEPT !.kind = "replay", !.todo = recent, !.left = n]
  BY DEF ReprocessBlocks, CsMainFree
<1>2. step'.kind = "replay"
  BY <1>1 DEF Idle
<1> QED BY <1>1, <1>2, HandlerKeepsOrder DEF indexVars, diskVars, Failed

\* What AcceptBlock lets in is not worse than the tip.
LEMMA AcceptBlockOrder ==
  ASSUME IInv, IInv', CoverInv, OrderInv, NEW b \in Blocks \ {Genesis}, NEW requested,
         AcceptBlock(b, requested)
  PROVE  OrderInv'
<1> DEFINE S == NowLinked(b)
<1>1. /\ step = Idle /\ pending' = "yes" /\ UNCHANGED <<tip, tips, step, node>>
      /\ past' = IF S \cap (cand \cup tips) # {} THEN past \cup {"renumbered"} ELSE past
      /\ ReceivedBlockTransactions(b)
  BY DEF AcceptBlock, CsMainFree
<1>2. ConnectInv' /\ QuietInv'
  BY <1>1, IdleIsStep DEF ConnectInv, QuietInv
<1>3. CASE Parent[b] \in linked
  <2>1. PICK r \in QueueOrders(S) :
          LET s == [c \in Blocks |-> IF c \in S THEN nextSeq + r[c] - 1 ELSE seq[c]]
          IN /\ seq' = s
             /\ cand' = cand \cup {c \in S : ~Worse(c, tip, s)}
    BY <1>1, <1>3 DEF ReceivedBlockTransactions
  <2>2. /\ cand' = cand \cup {c \in S : ~Worse(c, tip, seq')}
        /\ \A c \in Blocks \ S : seq'[c] = seq[c]
    BY <2>1
  <2> HIDE DEF S
  <2>3. ASSUME Ordinary', NEW c \in cand'
        PROVE  ~Worse(c, tip, seq')
    <3>1. S \cap (cand \cup tips) = {} /\ Ordinary
      BY <1>1, <2>3 DEF Ordinary
    <3>2. CASE c \in cand
      <4>1. c \in Blocks \ S /\ tip \in Blocks \ S
        BY <3>1, <3>2 DEF IInv, TypeOK, CoverInv, TipsInv
      <4>2. seq'[c] = seq[c] /\ seq'[tip] = seq[tip]
        BY <2>2, <4>1
      <4> QED BY <3>1, <3>2, <4>2 DEF OrderInv, CandidatesAreNotWorse, Worse
    <3> QED BY <2>2, <2>3, <3>2
  <2> QED BY <1>1, <1>2, <2>3 DEF OrderInv, CandidatesAreNotWorse
<1>4. CASE Parent[b] \notin linked
  <2>1. UNCHANGED <<seq, cand>> /\ past \subseteq past'
    BY <1>1, <1>4 DEF ReceivedBlockTransactions, IInv, LinkedInv
  <2> QED BY <1>1, <1>2, <2>1, NotWorseStays DEF OrderInv
<1> QED BY <1>3, <1>4

\* FindMostWorkChain returns the best of the candidates that can be connected.
LEMMA StartStepOrder ==
  ASSUME IInv, IInv', OrderInv, StartStep
  PROVE  OrderInv'
<1>1. /\ FindMostWorkChain /\ UNCHANGED <<linked, seq, nextSeq, tip, tips, envVars, node>>
      /\ node = "up" /\ step = Idle /\ pending # "no"
      /\ \/ MostWork \in {None, tip} /\ pending' = "no" /\ UNCHANGED step
         \/ /\ MostWork \notin {None, tip} /\ UNCHANGED pending
            /\ step' = [Idle EXCEPT !.kind = "connect", !.target = MostWork, !.old = tip]
  BY DEF StartStep
<1> DEFINE children == UNION {Above(c) : c \in GivenUpFailed}
           new == [index EXCEPT !.child = @ \cup children]
<1>2. index' = new /\ cand' \subseteq cand
  BY <1>1 DEF FindMostWorkChain, Keep
<1>3. ASSUME NEW x \in children
      PROVE  x \in Blocks /\ \E p \in Chain[x] \ Chain[tip] : p \in Failed
  <2>1. PICK c \in GivenUpFailed : x \in Above(c)
    OBVIOUS
  <2>2. c \in Blocks /\ Obstacles(c) # {} /\ FirstObstacle(c) \in Failed
    BY <2>1 DEF GivenUpFailed, GivenUp, Usable, IInv, TypeOK
  <2>3. FirstObstacle(c) \in Obstacles(c)
    BY <2>2, FirstObstacleIs
  <2>4. x \in Blocks /\ FirstObstacle(c) \in Chain[x]
    BY <2>1, <2>2, AboveHasData DEF IInv
  <2> QED BY <2>2, <2>3, <2>4 DEF Obstacles
<1>4. new.data = index.data /\ new.valid = index.valid /\ new.child = index.child \cup children
  <2>1. children \subseteq Blocks
    BY <1>3
  <2> QED BY <2>1, ChildFields DEF IInv, TypeOK
<1> HIDE DEF new, children
<1>5. index'.data = index.data /\ Failed' = Failed \cup children
  BY <1>2, <1>4 DEF Failed
<1>6. CandidatesAreNotWorse'
  BY <1>1, <1>2, NotWorseStays DEF OrderInv, envVars
<1>7. /\ Usable \subseteq Blocks /\ seq \in Sequence /\ tip \in Blocks
      /\ Usable # {} => /\ MostWork \in Usable /\ MostWork # None
                        /\ \A c \in Usable \ {MostWork} : Worse(c, MostWork, seq)
  <2>1. Usable \in SUBSET Blocks /\ seq \in Sequence /\ tip \in Blocks
    BY DEF Usable, IInv, TypeOK, Sequence
  <2> QED BY <2>1, BestIsTaken, ChainStateAssumption DEF MostWork
<1>8. ASSUME NEW c \in cand', Obstacles(c)' = {}
      PROVE  MostWork \in Usable /\ ~Worse(MostWork, c, seq)
  <2>1. Obstacles(c) = {}
    BY <1>1, <1>5, <1>8, ObstaclesStay
  <2>2. c \in Usable
    BY <1>2, <2>1 DEF Usable
  <2> QED BY <1>7, <2>2, WorseOrders
<1>9. QuietInv'
  <2> SUFFICES ASSUME pending' = "no", NEW c \in cand', Obstacles(c)' = {}
               PROVE  ~Worse(tip, c, seq)
    BY <1>1 DEF QuietInv
  <2>1. MostWork \in {None, tip}
    BY <1>1
  <2>2. MostWork # None
    BY <1>7, <1>8
  <2> QED BY <1>8, <2>1, <2>2
<1>10. ConnectInv'
  <2> SUFFICES ASSUME step'.kind = "connect"
               PROVE  /\ pending' # "no"
                      /\ step'.target \in Blocks /\ step'.old \in Blocks
                      /\ (Chain[step'.target] \ Chain[tip']) \cap Failed' = {}
                      /\ \A c \in cand' : Obstacles(c)' = {} => ~Worse(step'.target, c, seq')
                      /\ nChainWork[step'.old] <= nChainWork[step'.target]
                      /\ Ordinary' => Worse(step'.old, step'.target, seq')
    BY DEF ConnectInv
  <2>1. /\ MostWork \notin {None, tip} /\ UNCHANGED pending
        /\ step' = [Idle EXCEPT !.kind = "connect", !.target = MostWork, !.old = tip]
    BY <1>1, IdleIsStep
  <2>2. step'.target = MostWork /\ step'.old = tip
    BY <2>1 DEF Idle
  <2>3. MostWork \in Usable
    BY <1>7, <2>1 DEF MostWork
  <2>4. MostWork \in cand /\ MostWork \in Blocks /\ Obstacles(MostWork) = {}
    BY <1>7, <2>3 DEF Usable
  <2>5. (Chain[MostWork] \ Chain[tip]) \cap Failed = {}
    BY <2>4 DEF Obstacles
  <2>6. (Chain[MostWork] \ Chain[tip]) \cap children = {}
    <3> SUFFICES ASSUME NEW x \in Chain[MostWork], x \in children
                 PROVE  FALSE
      OBVIOUS
    <3>1. PICK p \in Chain[x] \ Chain[tip] : p \in Failed
      BY <1>3
    <3>2. p \in Chain[MostWork]
      BY <2>4, <3>1, ChainTransitive
    <3> QED BY <2>5, <3>1, <3>2
  <2>7. Ordinary => Worse(tip, MostWork, seq)
    <3>1. Ordinary => ~Worse(MostWork, tip, seq)
      BY <2>4 DEF OrderInv, CandidatesAreNotWorse
    <3> QED BY <1>7, <2>1, <2>4, <3>1, WorseOrders
  <2>8. nChainWork[tip] <= nChainWork[MostWork]
    BY <2>4 DEF IInv, StepInv
  <2>9. Ordinary' => Ordinary
    BY <1>1 DEF Ordinary, envVars
  <2> QED BY <1>1, <1>5, <1>7, <1>8, <2>1, <2>2, <2>4, <2>5, <2>6, <2>7, <2>8, <2>9
<1> QED BY <1>6, <1>9, <1>10 DEF OrderInv

\* No candidate is worse than the block below the tip.
LEMMA DisconnectTipNotWorse ==
  ASSUME IInv, tip # Genesis, tip' = Parent[tip], cand' \subseteq cand, seq' = seq
  PROVE  CandidatesAreNotWorse'
<1> SUFFICES ASSUME NEW c \in cand'
             PROVE  ~Worse(c, Parent[tip], seq)
  BY DEF CandidatesAreNotWorse
<1>1. nChainWork[Parent[tip]] < nChainWork[c] /\ Parent[tip] \in Blocks
  BY BelowTip
<1>2. c \in Blocks /\ seq \in Sequence
  BY DEF IInv, TypeOK, Sequence
<1> QED BY <1>1, <1>2, WorseByWork

LEMMA StepDisconnectsOrder ==
  ASSUME IInv, IInv', OrderInv, StepDisconnects
  PROVE  OrderInv'
<1>1. step.kind = "connect" /\ tip \notin Chain[step.target] /\ node = "up"
  BY DEF StepDisconnects
<1>2. tip # Genesis
  BY <1>1, ChainEnds DEF IInv, StepInv, TypeOK
<1>3. CASE tip \in index.data
  <2>1. /\ DisconnectTip(index, dirty)
        /\ UNCHANGED <<linked, seq, nextSeq, cand, envVars, pending, step, node>>
    BY <1>3 DEF StepDisconnects
  <2>2. tip' = Parent[tip] /\ Save(index, dirty, unlinked, Parent[tip])
    BY <2>1 DEF DisconnectTip, FlushIfNeeded, Save
  <2>3. index'.data \subseteq index.data /\ Failed' = Failed
    BY <2>2, MemoryAfter DEF IInv, TypeOK, SameEntries, Failed
  <2>4. Chain[tip] = Chain[tip'] \cup {tip}
    BY <1>2, <2>2, ParentFacts DEF IInv, TypeOK
  <2>5. \A c \in cand : Obstacles(c)' = {} => Obstacles(c) = {}
    BY <2>3, <2>4, ObstaclesStay
  <2>6. (Chain[step.target] \ Chain[tip']) \cap Failed' = {}
    BY <1>1, <2>3, <2>4 DEF OrderInv, ConnectInv
  <2>7. ConnectInv'
    BY <1>1, <2>1, <2>5, <2>6 DEF OrderInv, ConnectInv, Ordinary, envVars
  <2>8. QuietInv'
    BY <1>1, <2>1, IdleIsStep DEF QuietInv
  <2> QED BY <1>2, <2>1, <2>2, <2>7, <2>8, DisconnectTipNotWorse DEF OrderInv
<1>4. CASE tip \notin index.data
  BY <1>4, NothingStoredOrder DEF StepDisconnects, AbortNode, envVars
<1> QED BY <1>3, <1>4

LEMMA StepConnectsOrder ==
  ASSUME IInv, IInv', OrderInv, StepConnects
  PROVE  OrderInv'
<1> DEFINE b == NextToConnect
<1>1. step.kind = "connect" /\ tip \in Chain[step.target] /\ node = "up"
  BY DEF StepConnects
<1>2. /\ b \in Chain[step.target] /\ b \in Blocks \ {Genesis} /\ Parent[b] = tip
  BY <1>1, NextToConnectIs
<1>3. /\ b \in index.data /\ tip' = b
      /\ cand' = {c \in cand : ~Worse(c, b, seq)}
      /\ FlushIfNeeded(index, dirty, unlinked, b)
      /\ step' = Idle \/ (b # step.target /\ step' = step)
      /\ pending' = IF b = step.target THEN "no" ELSE pending
      /\ UNCHANGED <<linked, seq, nextSeq, envVars>>
  BY DEF StepConnects, PruneBlockIndexCandidates
<1> HIDE DEF b
<1>4. Save(index, dirty, unlinked, b)
  BY <1>3 DEF FlushIfNeeded, Save
<1>5. index'.data \subseteq index.data /\ Failed' = Failed
  BY <1>4, MemoryAfter DEF IInv, TypeOK, SameEntries, Failed
<1>6. Chain[tip'] = Chain[tip] \cup {b} /\ b \notin Chain[tip]
  BY <1>2, <1>3, ParentFacts
<1>7. b \notin Failed
  BY <1>1, <1>2, <1>6 DEF OrderInv, ConnectInv
<1>8. \A c \in cand : Obstacles(c)' = {} => Obstacles(c) = {}
  BY <1>3, <1>5, <1>6, <1>7, ObstaclesStay
<1>9. \A c \in cand' : Obstacles(c)' = {} => ~Worse(step.target, c, seq)
  BY <1>1, <1>3, <1>8 DEF OrderInv, ConnectInv
<1>10. CandidatesAreNotWorse'
  BY <1>3 DEF CandidatesAreNotWorse
<1>11. QuietInv'
  <2>1. CASE b = step.target
    BY <1>3, <1>9, <2>1 DEF QuietInv
  <2>2. CASE b # step.target
    BY <1>1, <1>3, <2>2 DEF OrderInv, ConnectInv, QuietInv
  <2> QED BY <2>1, <2>2
<1>12. ConnectInv'
  <2>1. CASE step' = Idle
    BY <2>1, IdleIsStep DEF ConnectInv
  <2>2. CASE b # step.target /\ step' = step
    <3>1. (Chain[step.target] \ Chain[tip']) \cap Failed' = {}
      BY <1>1, <1>5, <1>6 DEF OrderInv, ConnectInv
    <3> QED BY <1>1, <1>3, <1>9, <2>2, <3>1 DEF OrderInv, ConnectInv, Ordinary, envVars
  <2> QED BY <1>3, <2>1, <2>2
<1> QED BY <1>10, <1>11, <1>12 DEF OrderInv

LEMMA StepRefusesOrder ==
  ASSUME OrderInv, StepRefuses
  PROVE  OrderInv'
<1>1. /\ step.kind = "connect" /\ cand' = cand \ {NextToConnect} /\ step' = Idle
      /\ UNCHANGED <<linked, seq, nextSeq, tip, past, pending, node>>
  BY DEF StepRefuses
<1>2. pending' # "no" /\ step'.kind # "connect"
  BY <1>1, IdleIsStep DEF OrderInv, ConnectInv
<1> QED BY <1>1, <1>2, NotWorseStays DEF OrderInv, ConnectInv, QuietInv

LEMMA InvalidateDisconnectsOrder ==
  ASSUME IInv, OrderInv, InvalidateDisconnects
  PROVE  OrderInv'
<1>1. step.kind = "invalidate" /\ step.target \in Chain[tip]
  BY DEF InvalidateDisconnects
<1>2. tip # Genesis
  BY <1>1, ChainStateAssumption DEF IInv, StepInv
<1>3. CASE tip \in index.data
  <2>1. /\ tip' = Parent[tip] /\ cand' = cand \ {tip}
        /\ UNCHANGED <<linked, seq, nextSeq, envVars, pending, step, node>>
    BY <1>3 DEF InvalidateDisconnects, DisconnectTip
  <2> QED BY <1>1, <1>2, <2>1, IdleIsStep, DisconnectTipNotWorse DEF OrderInv, ConnectInv, QuietInv
<1>4. CASE tip \notin index.data
  BY <1>4, NothingStoredOrder DEF InvalidateDisconnects, AbortNode, envVars
<1> QED BY <1>3, <1>4

LEMMA ReplayDisconnectsOrder ==
  ASSUME IInv, OrderInv, ReplayDisconnects
  PROVE  OrderInv'
<1>1. step.kind = "replay" /\ tip # Genesis
  BY DEF ReplayDisconnects
<1>2. CASE tip \in index.data
  <2>1. /\ tip' = Parent[tip] /\ step' = [step EXCEPT !.left = @ - 1]
        /\ UNCHANGED <<linked, seq, nextSeq, cand, envVars, pending, node>>
    BY <1>2 DEF ReplayDisconnects, DisconnectTip
  <2>2. step'.kind = "replay"
    BY <1>1, <2>1 DEF IInv, TypeOK
  <2> QED BY <1>1, <2>1, <2>2, IdleIsStep, DisconnectTipNotWorse DEF OrderInv, ConnectInv, QuietInv
<1>3. CASE tip \notin index.data
  BY <1>3, NothingStoredOrder DEF ReplayDisconnects, AbortNode, envVars
<1> QED BY <1>2, <1>3

LEMMA InvalidateEndsOrder ==
  ASSUME OrderInv, InvalidateEnds
  PROVE  OrderInv'
<1>1. /\ UNCHANGED <<linked, seq, nextSeq, tip, envVars>> /\ step' = Idle /\ pending' = "yes"
      /\ cand' = cand \cup {c \in linked \ Failed : ~Worse(c, tip, seq)}
  BY DEF InvalidateEnds
<1>2. CandidatesAreNotWorse'
  BY <1>1 DEF OrderInv, CandidatesAreNotWorse, Ordinary, envVars
<1> QED BY <1>1, <1>2, IdleIsStep DEF OrderInv, ConnectInv, QuietInv

\* What ReconsiderBlock lets in is better than the tip.
LEMMA ReconsiderBlockOrder ==
  ASSUME IInv, IInv', OrderInv, NEW b, ReconsiderBlock(b)
  PROVE  OrderInv'
<1>1. /\ step.kind = "replay" /\ step' = [step EXCEPT !.todo = @ \ {b}]
      /\ cand' = cand \cup {c \in Forgiven(b) : c \in linked /\ Worse(tip, c, seq)}
      /\ UNCHANGED <<linked, seq, nextSeq, tip, past, pending, node>>
  BY DEF ReconsiderBlock
<1>2. step'.kind = "replay"
  BY <1>1 DEF IInv, TypeOK
<1>3. CandidatesAreNotWorse'
  <2>1. linked \subseteq Blocks /\ seq \in Sequence /\ tip \in Blocks
    BY DEF IInv, TypeOK, Sequence
  <2>2. \A c \in linked : Worse(tip, c, seq) => ~Worse(c, tip, seq)
    BY <2>1, WorseOrders
  <2> QED BY <1>1, <2>2 DEF OrderInv, CandidatesAreNotWorse, Ordinary
<1> QED BY <1>2, <1>3, IdleIsStep DEF OrderInv, ConnectInv, QuietInv

LEMMA ReplayActivatesOrder ==
  ASSUME OrderInv, ReplayActivates
  PROVE  OrderInv'
<1>1. UNCHANGED <<indexVars, diskVars, envVars, node>> /\ step' = Idle /\ pending' = "held"
  BY DEF ReplayActivates
<1> QED BY <1>1, IdleIsStep, NotWorseStays DEF OrderInv, ConnectInv, QuietInv, indexVars, envVars

LEMMA CrashOrder ==
  ASSUME Crash
  PROVE  OrderInv'
<1>1. PICK d \in CrashIndexes : LoadBlockIndexDB(d)
  BY DEF Crash
<1>2. /\ tip' = diskTip /\ seq' = [b \in Blocks |-> 0]
      /\ \A c \in cand' : ~Worse(c, diskTip, [b \in Blocks |-> 0])
  BY <1>1 DEF LoadBlockIndexDB
<1>3. pending' = "yes" /\ step' = Idle
  BY DEF Crash
<1> QED BY <1>2, <1>3, IdleIsStep DEF OrderInv, ConnectInv, QuietInv, CandidatesAreNotWorse

LEMMA InitOrder == Init => OrderInv
<1> SUFFICES ASSUME Init
             PROVE  OrderInv
  OBVIOUS
<1>1. IInv
  BY InitKeeps
<1>2. cand = {Genesis} /\ tip = Genesis /\ step = Idle
  BY DEF Init
<1>3. ~Worse(Genesis, Genesis, seq)
  BY <1>1, WorseOrders, ChainStateAssumption DEF IInv, TypeOK, Sequence
<1> QED BY <1>2, <1>3, IdleIsStep DEF OrderInv, QuietInv, ConnectInv, CandidatesAreNotWorse

-----------------------------------------------------------------------------
(* Failures and their causes.                                               *)

\* A handler that forgets no failure and marks only what is above an invalid block.
LEMMA HandlerKeepsCauses ==
  ASSUME CauseInv, NEW new \in Index, NEW dirt, NEW wait, NEW coins, Save(new, dirt, wait, coins),
         index.valid \subseteq new.valid, new.valid \ index.valid \subseteq dirt, dirty \subseteq dirt,
         "replayed" \notin past => \A b \in new.child : Chain[b] \cap new.valid # {},
         past \subseteq past',
         step'.kind = "replay" => step.kind = "replay",
         step'.kind = "invalidate" => step'.target \in new.valid
  PROVE  CauseInv'
<1>1. ASSUME "replayed" \notin past'
      PROVE  Causes(index, dirty)'
  <2>1. Causes(index, dirty)
    BY <1>1 DEF CauseInv
  <2>2. Causes(new, dirt)
    BY <1>1, <2>1 DEF Causes
  <2> QED BY <2>2, CausesAfter
<1>2. index'.valid = new.valid
  BY MemoryAfter DEF SameEntries
<1> QED BY <1>1, <1>2 DEF CauseInv

LEMMA NothingStoredCauses ==
  ASSUME CauseInv, UNCHANGED diskVars, past \subseteq past',
         step'.kind = "replay" => step.kind = "replay" \/ "replayed" \in past',
         step'.kind = "invalidate" => step.kind = "invalidate" /\ step'.target = step.target
  PROVE  CauseInv'
BY DEF CauseInv, Causes, diskVars

LEMMA AcceptBlockHeaderCauses ==
  ASSUME IInv, CauseInv, NEW b \in Blocks \ {Genesis}, AcceptBlockHeader(b)
  PROVE  CauseInv'
<1> DEFINE new == Added(b)
           dirt == DirtyHeader(b)
<1>1. /\ Keep(new, dirt, unlinked) /\ dirty \subseteq dirt /\ step = Idle
      /\ UNCHANGED <<envVars, step>>
  BY DEF AcceptBlockHeader, CsMainFree, DirtyHeader
<1>2. new \in Index /\ new.valid = index.valid /\ new.child = index.child
  BY AddedFields DEF IInv, TypeOK
<1> HIDE DEF new, dirt
<1>3. Save(new, dirt, unlinked, tip)
  BY <1>1 DEF Save
<1> QED BY <1>1, <1>2, <1>3, IdleIsStep, HandlerKeepsCauses DEF CauseInv, Causes, envVars

LEMMA RejectBlockCauses ==
  ASSUME IInv, CauseInv, NEW b \in Blocks \ {Genesis}, NEW requested, RejectBlock(b, requested)
  PROVE  CauseInv'
<1> DEFINE add == Added(b)
           new == [add EXCEPT !.valid = @ \cup {b}]
           dirt == dirty \cup {b}
<1>1. add \in Index /\ add.valid = index.valid /\ add.child = index.child
  BY AddedFields DEF IInv, TypeOK
<1>2. Keep(new, dirt, unlinked) /\ step = Idle /\ UNCHANGED <<past, step>>
  BY DEF RejectBlock, CsMainFree
<1> HIDE DEF add
<1>3. new \in Index /\ new.valid = index.valid \cup {b} /\ new.child = index.child
  BY <1>1, FailedFields
<1> HIDE DEF new
<1>4. Save(new, dirt, unlinked, tip)
  BY <1>2 DEF Save
<1>5. \A c \in new.child : Chain[c] \cap index.valid # {} => Chain[c] \cap new.valid # {}
  BY <1>3
<1> QED BY <1>2, <1>3, <1>4, <1>5, IdleIsStep, HandlerKeepsCauses DEF CauseInv, Causes

LEMMA IgnoreBlockCauses ==
  ASSUME IInv, CauseInv, NEW b \in Blocks \ {Genesis}, NEW requested, IgnoreBlock(b, requested)
  PROVE  CauseInv'
<1> DEFINE new == Added(b)
           dirt == DirtyHeader(b)
<1>1. /\ Keep(new, dirt, unlinked) /\ dirty \subseteq dirt /\ step = Idle
      /\ UNCHANGED <<envVars, step>>
  BY DEF IgnoreBlock, CsMainFree, DirtyHeader
<1>2. new \in Index /\ new.valid = index.valid /\ new.child = index.child
  BY AddedFields DEF IInv, TypeOK
<1> HIDE DEF new, dirt
<1>3. Save(new, dirt, unlinked, tip)
  BY <1>1 DEF Save
<1> QED BY <1>1, <1>2, <1>3, IdleIsStep, HandlerKeepsCauses DEF CauseInv, Causes, envVars

LEMMA AcceptBlockCauses ==
  ASSUME IInv, CauseInv, NEW b \in Blocks \ {Genesis}, NEW requested, AcceptBlock(b, requested)
  PROVE  CauseInv'
<1> DEFINE new == [Added(b) EXCEPT !.data = @ \cup {b}, !.tx = @ \cup {b}, !.nFile[b] = FindBlockPos]
           dirt == dirty \cup {b}
<1>1. FindBlockPos \in Nat
  BY FilesAreNumbered DEF FindBlockPos, IInv, TypeOK
<1>2. /\ new \in Index /\ new.known = index.known \cup {b}
      /\ new.data = index.data \cup {b} /\ new.tx = index.tx \cup {b}
      /\ new.valid = index.valid /\ new.child = index.child
  BY <1>1, StoredFields DEF IInv, TypeOK
<1>3. Keep(new, dirt, UnlinkedAfter(b)) /\ step = Idle /\ past \subseteq past' /\ step' = step
  BY DEF AcceptBlock, CsMainFree
<1> HIDE DEF new
<1>4. Save(new, dirt, UnlinkedAfter(b), tip)
  BY <1>3 DEF Save
<1> QED BY <1>2, <1>3, <1>4, IdleIsStep, HandlerKeepsCauses DEF CauseInv, Causes

LEMMA FlushStateToDiskCauses ==
  ASSUME IInv, CauseInv, FlushStateToDisk
  PROVE  CauseInv'
<1>1. Save(index, dirty, unlinked, tip) /\ step = Idle /\ UNCHANGED <<envVars, step>>
  BY DEF FlushStateToDisk, CsMainFree, Save
<1> QED BY <1>1, IdleIsStep, HandlerKeepsCauses DEF IInv, TypeOK, CauseInv, Causes, envVars

LEMMA StartStepCauses ==
  ASSUME IInv, CauseInv, StartStep
  PROVE  CauseInv'
<1> DEFINE children == UNION {Above(c) : c \in GivenUpFailed}
           missing == UNION {Above(c) : c \in GivenUp \ GivenUpFailed}
           new == [index EXCEPT !.child = @ \cup children]
<1>1. /\ Keep(new, dirty, unlinked \cup missing) /\ step = Idle /\ UNCHANGED envVars
      /\ step' = step \/ step' = [Idle EXCEPT !.kind = "connect", !.target = MostWork, !.old = tip]
  BY DEF StartStep, FindMostWorkChain
<1>2. ASSUME NEW x \in children
      PROVE  /\ x \in Blocks
             /\ "replayed" \notin past => Chain[x] \cap index.valid # {}
  <2>1. PICK c \in GivenUpFailed : x \in Above(c)
    OBVIOUS
  <2>2. c \in Blocks /\ Obstacles(c) # {} /\ FirstObstacle(c) \in Failed
    BY <2>1 DEF GivenUpFailed, GivenUp, Usable, IInv, TypeOK
  <2>3. FirstObstacle(c) \in Chain[x] /\ Chain[FirstObstacle(c)] \subseteq Chain[x]
    BY <2>1, <2>2, AboveObstacle
  <2>4. x \in Blocks
    BY <2>1, <2>2, ChainEnds DEF Above
  <2> QED BY <2>2, <2>3, <2>4 DEF Failed, CauseInv, Causes
<1>3. new \in Index /\ new.valid = index.valid /\ new.child = index.child \cup children
  <2>1. children \subseteq Blocks
    BY <1>2
  <2> QED BY <2>1, ChildFields DEF IInv, TypeOK
<1>4. step'.kind \in {"idle", "connect"}
  BY <1>1, IdleIsStep DEF Idle
<1> HIDE DEF new, children, missing
<1>5. Save(new, dirty, unlinked \cup missing, tip)
  BY <1>1 DEF Save
<1> QED BY <1>1, <1>2, <1>3, <1>4, <1>5, HandlerKeepsCauses DEF CauseInv, Causes, envVars

\* While the index stays as it is, the tip moves.
LEMMA MoveKeepsCauses ==
  ASSUME IInv, CauseInv, NEW coins, FlushIfNeeded(index, dirty, unlinked, coins),
         past \subseteq past', step'.kind = "replay" => step.kind = "replay",
         step'.kind # "invalidate"
  PROVE  CauseInv'
<1>1. Save(index, dirty, unlinked, coins)
  BY DEF FlushIfNeeded, Save
<1> QED BY <1>1, HandlerKeepsCauses DEF IInv, TypeOK, CauseInv, Causes

LEMMA AbortNodeCauses ==
  ASSUME CauseInv, AbortNode
  PROVE  CauseInv'
BY NothingStoredCauses DEF AbortNode, envVars

LEMMA StepDisconnectsCauses ==
  ASSUME IInv, CauseInv, StepDisconnects
  PROVE  CauseInv'
<1>1. CASE tip \in index.data
  <2>1. step.kind = "connect" /\ DisconnectTip(index, dirty) /\ UNCHANGED <<envVars, step>>
    BY <1>1 DEF StepDisconnects
  <2> QED BY <2>1, MoveKeepsCauses DEF DisconnectTip, envVars
<1>2. CASE tip \notin index.data
  BY <1>2, AbortNodeCauses DEF StepDisconnects
<1> QED BY <1>1, <1>2

LEMMA ReplayDisconnectsCauses ==
  ASSUME IInv, CauseInv, ReplayDisconnects
  PROVE  CauseInv'
<1>1. CASE tip \in index.data
  <2>1. /\ step.kind = "replay" /\ DisconnectTip(index, dirty) /\ UNCHANGED envVars
        /\ step' = [step EXCEPT !.left = @ - 1]
    BY <1>1 DEF ReplayDisconnects
  <2>2. step'.kind = "replay"
    BY <2>1 DEF IInv, TypeOK
  <2> QED BY <2>1, <2>2, MoveKeepsCauses DEF DisconnectTip, envVars
<1>2. CASE tip \notin index.data
  BY <1>2, AbortNodeCauses DEF ReplayDisconnects
<1> QED BY <1>1, <1>2

LEMMA StepConnectsCauses ==
  ASSUME IInv, CauseInv, StepConnects
  PROVE  CauseInv'
<1>1. /\ step.kind = "connect" /\ FlushIfNeeded(index, dirty, unlinked, NextToConnect)
      /\ UNCHANGED envVars /\ step' \in {Idle, step}
  BY DEF StepConnects
<1> QED BY <1>1, IdleIsStep, MoveKeepsCauses DEF envVars

LEMMA StepRefusesCauses ==
  ASSUME IInv, CauseInv, StepRefuses
  PROVE  CauseInv'
<1> DEFINE b == NextToConnect
           new == [index EXCEPT !.valid = @ \cup {b}]
           dirt == dirty \cup {b}
<1>1. step.kind = "connect" /\ tip \in Chain[step.target] /\ node = "up"
  BY DEF StepRefuses
<1>2. b \in Blocks \ {Genesis}
  BY <1>1, NextToConnectIs
<1>3. Keep(new, dirt, unlinked) /\ step' = Idle /\ past' = past
  BY DEF StepRefuses
<1> HIDE DEF b
<1>4. new \in Index /\ new.valid = index.valid \cup {b} /\ new.child = index.child
  BY <1>2, FailedFields DEF IInv, TypeOK
<1> HIDE DEF new
<1>5. Save(new, dirt, unlinked, tip)
  BY <1>3 DEF Save
<1>6. \A c \in new.child : Chain[c] \cap index.valid # {} => Chain[c] \cap new.valid # {}
  BY <1>4
<1> QED BY <1>3, <1>4, <1>5, <1>6, IdleIsStep, HandlerKeepsCauses DEF CauseInv, Causes

LEMMA InvalidateBlockCauses ==
  ASSUME IInv, CauseInv, NEW b \in Blocks \ {Genesis}, InvalidateBlock(b)
  PROVE  CauseInv'
<1> DEFINE new == [index EXCEPT !.valid = @ \cup {b}]
           dirt == dirty \cup {b}
<1>1. /\ Keep(new, dirt, unlinked) /\ past \subseteq past'
      /\ step' = [Idle EXCEPT !.kind = "invalidate", !.target = b]
  BY DEF InvalidateBlock
<1>2. new \in Index /\ new.valid = index.valid \cup {b} /\ new.child = index.child
  BY FailedFields DEF IInv, TypeOK
<1>3. step'.kind = "invalidate" /\ step'.target = b
  BY <1>1 DEF Idle
<1> HIDE DEF new
<1>4. Save(new, dirt, unlinked, tip)
  BY <1>1 DEF Save
<1>5. \A c \in new.child : Chain[c] \cap index.valid # {} => Chain[c] \cap new.valid # {}
  BY <1>2
<1> QED BY <1>1, <1>2, <1>3, <1>4, <1>5, HandlerKeepsCauses DEF CauseInv, Causes

\* The tips that InvalidateBlock disconnects are above the block it was called for.
LEMMA InvalidateDisconnectsCauses ==
  ASSUME IInv, CauseInv, InvalidateDisconnects
  PROVE  CauseInv'
<1>1. step.kind = "invalidate" /\ step.target \in Chain[tip]
  BY DEF InvalidateDisconnects
<1>2. CASE tip \in index.data
  <2> DEFINE S == {tip}
             new == [index EXCEPT !.child = @ \cup S]
             dirt == dirty \cup {tip}
  <2>1. /\ DisconnectTip(new, dirt) /\ UNCHANGED <<envVars, step>>
    BY <1>2 DEF InvalidateDisconnects
  <2>2. S \subseteq Blocks
    BY DEF IInv, TypeOK
  <2>3. \A c \in S : Chain[c] \cap index.valid # {}
    BY <1>1 DEF CauseInv
  <2> HIDE DEF S
  <2>4. new \in Index /\ new.valid = index.valid /\ new.child = index.child \cup S
    BY <2>2, ChildFields DEF IInv, TypeOK
  <2> HIDE DEF new
  <2>5. Save(new, dirt, unlinked, Parent[tip])
    BY <2>1 DEF DisconnectTip, FlushIfNeeded, Save
  <2> QED BY <1>1, <2>1, <2>3, <2>4, <2>5, HandlerKeepsCauses DEF CauseInv, Causes, envVars
<1>3. CASE tip \notin index.data
  BY <1>3, AbortNodeCauses DEF InvalidateDisconnects
<1> QED BY <1>2, <1>3

LEMMA ReconsiderBlockCauses ==
  ASSUME IInv, CauseInv, NEW b, ReconsiderBlock(b)
  PROVE  CauseInv'
<1>1. /\ step.kind = "replay" /\ step' = [step EXCEPT !.todo = @ \ {b}] /\ past' = past
  BY DEF ReconsiderBlock
<1>2. step'.kind = "replay"
  BY <1>1 DEF IInv, TypeOK
<1> QED BY <1>1, <1>2 DEF CauseInv

\* Every database that a crash can leave has the causes of its failed children.
LEMMA CrashCauses ==
  ASSUME IInv, CauseInv, Crash
  PROVE  CauseInv'
<1>1. PICK d \in CrashIndexes : LoadBlockIndexDB(d)
  BY DEF Crash
<1>2. index' = d /\ disk' = d /\ step' = Idle /\ past' = past \cup {"crashed"}
  BY <1>1 DEF LoadBlockIndexDB, Crash
<1>3. ASSUME Causes(index, dirty)
      PROVE  \A c \in d.child : Chain[c] \cap d.valid # {}
  <2>1. CASE d = disk
    BY <1>3, <2>1 DEF Causes
  <2>2. CASE d = Written(index, dirty)
    BY <1>3, <2>2, WrittenHasCauses
  <2>3. CASE \E files \in FindFilesToPrune(index) :
               d = Written(PruneBlockFiles(index, files), dirty \cup PrunedEntries(index, files))
    <3>1. PICK files \in FindFilesToPrune(index) :
            d = Written(PruneBlockFiles(index, files), dirty \cup PrunedEntries(index, files))
      BY <2>3
    <3> DEFINE after == PruneBlockFiles(index, files)
               dirt == dirty \cup PrunedEntries(index, files)
    <3>2. after.valid = index.valid /\ after.child = index.child
      BY PruneBlockFilesKeeps DEF SameEntries, IInv, TypeOK
    <3> HIDE DEF after, dirt
    <3>3. Causes(after, dirt)
      BY <1>3, <3>2 DEF Causes, dirt
    <3>4. d = Written(after, dirt)
      BY <3>1 DEF after, dirt
    <3> QED BY <3>3, <3>4, WrittenHasCauses
  <2> QED BY <2>1, <2>2, <2>3 DEF CrashIndexes
<1> QED BY <1>2, <1>3, IdleIsStep DEF CauseInv, Causes

LEMMA InitCauses == Init => CauseInv
BY IdleIsStep DEF Init, CauseInv, Causes

-----------------------------------------------------------------------------
(* The theorems about the candidates.                                       *)

CandInv == CoverInv /\ OrderInv /\ CauseInv

LEMMA InitKeepsCand == Init => CandInv
BY InitCovers, InitOrder, InitCauses DEF CandInv

LEMMA StutterKeepsCand ==
  ASSUME CandInv, UNCHANGED vars
  PROVE  CandInv'
<1>1. UNCHANGED <<indexVars, diskVars, envVars, pending, step, node>>
  BY DEF vars
<1>2. CoverInv'
  BY <1>1, NothingStoredCovers DEF CandInv, envVars
<1>3. OrderInv'
  BY <1>1, NothingStoredOrder DEF CandInv, envVars
<1>4. CauseInv'
  BY <1>1, NothingStoredCauses DEF CandInv, CauseInv, envVars
<1> QED BY <1>2, <1>3, <1>4 DEF CandInv

LEMMA NextKeepsCand == IInv /\ IInv' /\ CandInv /\ [Next]_vars => CandInv'
<1> SUFFICES ASSUME IInv, IInv', CandInv, [Next]_vars
             PROVE  CandInv'
  OBVIOUS
<1>1. CoverInv /\ OrderInv /\ ConnectInv /\ CauseInv
  BY DEF CandInv, OrderInv
<1>2. ASSUME NEW b \in Blocks \ {Genesis}, AcceptBlockHeader(b) \/ InvalidateBlock(b)
      PROVE  CandInv'
  BY <1>1, <1>2, AcceptBlockHeaderCovers, AcceptBlockHeaderOrder, AcceptBlockHeaderCauses,
     InvalidateBlockCovers, InvalidateBlockOrder, InvalidateBlockCauses DEF CandInv
<1>3. ASSUME NEW b \in Blocks \ {Genesis}, NEW requested \in BOOLEAN, AcceptBlock(b, requested)
      PROVE  CandInv'
  BY <1>1, <1>3, AcceptBlockCovers, AcceptBlockOrder, AcceptBlockCauses DEF CandInv
<1>4. ASSUME NEW b \in Blocks \ {Genesis}, NEW requested \in BOOLEAN,
             RejectBlock(b, requested) \/ IgnoreBlock(b, requested)
      PROVE  CandInv'
  BY <1>1, <1>4, RejectBlockCovers, RejectBlockOrder, RejectBlockCauses,
     IgnoreBlockCovers, IgnoreBlockOrder, IgnoreBlockCauses DEF CandInv
<1>5. ASSUME NEW b \in Disputed, ChangeVerdict(b)
      PROVE  CandInv'
  <2>1. /\ UNCHANGED <<indexVars, diskVars, forgiven, pending, step, node>>
        /\ past' = past \cup {"changed"}
    BY <1>5 DEF ChangeVerdict
  <2>2. OrderInv'
    BY <1>1, <2>1, NothingStoredOrder
  <2>3. CoverInv'
    BY <1>1, <2>1, NothingStoredCovers
  <2>4. CauseInv'
    BY <1>1, <2>1, NothingStoredCauses DEF CauseInv
  <2> QED BY <2>2, <2>3, <2>4 DEF CandInv
<1>6. ASSUME NEW n \in 1..MaxReplay, NEW recent \in SUBSET Disputed, ReprocessBlocks(n, recent)
      PROVE  CandInv'
  <2>1. /\ UNCHANGED <<indexVars, diskVars, forgiven>> /\ past' = past \cup {"replayed"}
        /\ step' = [Idle EXCEPT !.kind = "replay", !.todo = recent, !.left = n]
    BY <1>6 DEF ReprocessBlocks
  <2>2. step'.kind = "replay"
    BY <2>1 DEF Idle
  <2>3. CauseInv'
    BY <1>1, <2>1, <2>2, NothingStoredCauses
  <2>4. CoverInv'
    BY <1>1, <2>1, NothingStoredCovers
  <2>5. OrderInv'
    BY <1>1, <1>6, ReprocessBlocksOrder
  <2> QED BY <2>3, <2>4, <2>5 DEF CandInv
<1>7. CASE StartStep
  BY <1>1, <1>7, StartStepCovers, StartStepOrder, StartStepCauses DEF CandInv
<1>8. CASE StepDisconnects
  BY <1>1, <1>8, StepDisconnectsCovers, StepDisconnectsOrder, StepDisconnectsCauses DEF CandInv
<1>9. CASE StepConnects
  BY <1>1, <1>9, StepConnectsCovers, StepConnectsOrder, StepConnectsCauses DEF CandInv
<1>10. CASE StepRefuses
  BY <1>1, <1>10, StepRefusesCovers, StepRefusesOrder, StepRefusesCauses DEF CandInv
<1>11. CASE StepCannotRead
  <2>1. AbortNode
    BY <1>11 DEF StepCannotRead
  <2>2. OrderInv'
    BY <1>1, <2>1, NothingStoredOrder DEF AbortNode, envVars
  <2> QED BY <1>1, <2>1, <2>2, AbortNodeCovers, AbortNodeCauses DEF CandInv
<1>12. CASE InvalidateDisconnects
  BY <1>1, <1>12, InvalidateDisconnectsCovers, InvalidateDisconnectsOrder,
     InvalidateDisconnectsCauses DEF CandInv
<1>13. CASE InvalidateEnds
  <2>1. UNCHANGED <<diskVars, envVars>> /\ step' = Idle
    BY <1>13 DEF InvalidateEnds
  <2>2. CauseInv'
    BY <1>1, <2>1, IdleIsStep, NothingStoredCauses DEF envVars
  <2> QED BY <1>1, <1>13, <2>2, InvalidateEndsCovers, InvalidateEndsOrder DEF CandInv
<1>14. ASSUME NEW b \in Blocks, ReconsiderBlock(b)
       PROVE  CandInv'
  BY <1>1, <1>14, ReconsiderBlockCovers, ReconsiderBlockOrder, ReconsiderBlockCauses DEF CandInv
<1>15. CASE ReplayDisconnects
  BY <1>1, <1>15, ReplayDisconnectsCovers, ReplayDisconnectsOrder, ReplayDisconnectsCauses
     DEF CandInv
<1>16. CASE ReplayActivates
  <2>1. UNCHANGED <<indexVars, diskVars, envVars>> /\ step' = Idle
    BY <1>16 DEF ReplayActivates
  <2>2. CoverInv' /\ CauseInv'
    BY <1>1, <2>1, IdleIsStep, NothingStoredCovers, NothingStoredCauses DEF envVars
  <2> QED BY <1>1, <1>16, <2>2, ReplayActivatesOrder DEF CandInv
<1>17. CASE FlushStateToDisk
  BY <1>1, <1>17, FlushStateToDiskCovers, FlushStateToDiskOrder, FlushStateToDiskCauses
     DEF CandInv
<1>18. CASE Crash
  BY <1>1, <1>18, CrashCovers, CrashOrder, CrashCauses DEF CandInv
<1>19. CASE UNCHANGED vars
  BY <1>19, StutterKeepsCand
<1>20. ActivateBestChain => CandInv'
  BY <1>7, <1>8, <1>9, <1>10, <1>11 DEF ActivateBestChain
<1>21. Replay => CandInv'
  BY <1>14, <1>15, <1>16 DEF Replay
<1> QED BY <1>2, <1>3, <1>4, <1>5, <1>6, <1>12, <1>13, <1>17, <1>18, <1>19, <1>20, <1>21 DEF Next

\* However blocks arrive, fail, are reprocessed, pruned or found again after a crash, the
\* candidates account for every linked block, and the steps of ActivateBestChain take
\* the best of them.
THEOREM CandidatesInvariance == Spec => []CandInv
<1>1. Init => CandInv
  BY InitKeepsCand
<1> QED BY <1>1, NextKeepsCand, ChainStateInvariance, PTL DEF Spec

\* A block that is not barred is accounted for only as a candidate, and can be connected.
LEMMA UnbarredIsCandidate ==
  ASSUME NEW b \in Blocks, ~Barred(b), Accounted(b)
  PROVE  b \in cand /\ Obstacles(b) = {}
<1>1. Obstacles(b) = {} /\ ~Hard(b)
  BY DEF Barred, Hard, Obstacles
<1>2. ~Waiting(b)
  BY <1>1 DEF Waiting, Obstacles
<1> QED BY <1>1, <1>2 DEF Accounted

\* What covers a block that is neither barred nor eclipsed is a candidate that can be
\* connected: the block itself, or one that was the tip and is better.
LEMMA CoveredByCandidate ==
  ASSUME IInv, CoverInv, Ordinary, NEW b \in linked, ~Barred(b), ~Eclipsed(b)
  PROVE  \E w \in cand : /\ Obstacles(w) = {} /\ ~Worse(w, b, seq)
                         /\ w = b \/ (w \in tips /\ Worse(b, w, seq))
<1>1. PICK w \in {b} \cup tips : ~Worse(w, b, seq) /\ Accounted(w)
  BY DEF CoverInv, Covered
<1>2. w \in Blocks /\ b \in Blocks /\ seq \in Sequence
  BY <1>1 DEF IInv, TypeOK, Sequence
<1>3. w = b \/ (w \in tips /\ Worse(b, w, seq))
  BY <1>1, <1>2, WorseOrders
<1>4. ~Barred(w)
  BY <1>3 DEF Eclipsed
<1> QED BY <1>1, <1>2, <1>3, <1>4, UnbarredIsCandidate

LEMMA CandidatesFollow == IInv /\ CandInv => CandidatesAreRight
<1> SUFFICES ASSUME IInv, CandInv
             PROVE  CandidatesAreRight
  OBVIOUS
<1>1. CoverInv /\ QuietInv /\ CandidatesAreNotWorse /\ CauseInv
  BY DEF CandInv, OrderInv
<1>2. linked \subseteq Blocks /\ cand \subseteq Blocks /\ seq \in Sequence /\ tip \in linked
  BY DEF IInv, TypeOK, LinkedInv, Sequence
<1>3. BestChainIsActive
  <2> SUFFICES ASSUME Quiet, Ordinary
               PROVE  /\ \A b \in linked : Worse(tip, b, seq) => Barred(b) \/ Eclipsed(b)
                      /\ tip \in cand \/ Barred(tip) \/ Eclipsed(tip)
    BY DEF BestChainIsActive
  <2>1. \A w \in cand : Obstacles(w) = {} => ~Worse(tip, w, seq)
    BY <1>1 DEF Quiet, CsMainFree, QuietInv
  <2>2. ASSUME NEW b \in linked, ~Barred(b), ~Eclipsed(b)
        PROVE  ~Worse(tip, b, seq)
    <3>1. PICK w \in cand : Obstacles(w) = {} /\ ~Worse(w, b, seq)
      BY <1>1, <2>2, CoveredByCandidate
    <3>2. ~Worse(tip, w, seq)
      BY <2>1, <3>1
    <3> QED BY <1>2, <3>1, <3>2, WorseOrders
  <2>3. ASSUME ~Barred(tip), ~Eclipsed(tip)
        PROVE  tip \in cand
    <3>1. PICK w \in cand : /\ Obstacles(w) = {}
                            /\ w = tip \/ Worse(tip, w, seq)
      BY <1>1, <1>2, <2>3, CoveredByCandidate
    <3> QED BY <2>1, <3>1
  <2> QED BY <2>2, <2>3
<1>4. CandidatesAreComplete
  <2> SUFFICES ASSUME Ordinary, NEW b \in linked \ cand, ~Barred(b), ~Eclipsed(b)
               PROVE  \E w \in cand \cap tips : Worse(b, w, seq)
    BY DEF CandidatesAreComplete
  <2> QED BY <1>1, CoveredByCandidate
<1>5. FailureHasACause
  BY <1>1 DEF CauseInv, Causes, FailureHasACause
<1> QED BY <1>1, <1>3, <1>4, <1>5 DEF CandidatesAreRight

\* The promise of ActivateBestChain, and what CheckBlockIndex says of the candidates and
\* of the failed entries: in whatever order blocks arrive, are refused and forgiven, a
\* block that can be connected is never lost but behind a block that was the tip and is
\* barred now.
THEOREM CandidatesAlwaysRight == Spec => []CandidatesAreRight
BY CandidatesInvariance, ChainStateInvariance, CandidatesFollow, PTL

LEMMA StepGoesForward ==
  ASSUME IInv, IInv', CandInv, Next
  PROVE  StepsGoForward
<1> SUFFICES ASSUME step.kind = "connect", step' = Idle, ActivateBestChain
             PROVE  \/ Worse(step.old, tip', seq)
                    \/ ~(index'.valid \subseteq index.valid)
                    \/ "renumbered" \in past /\ nChainWork[step.old] = nChainWork[tip']
  BY DEF StepsGoForward
<1> DEFINE b == NextToConnect
<1>1. ConnectInv /\ seq \in Sequence
  BY DEF CandInv, OrderInv, IInv, TypeOK, Sequence
<1>2. step # Idle
  BY IdleIsStep
<1>3. StepConnects \/ StepRefuses
  BY <1>2 DEF ActivateBestChain, StartStep, StepDisconnects, StepCannotRead, AbortNode
<1>4. tip \in Chain[step.target] /\ node = "up"
  BY <1>3 DEF StepConnects, StepRefuses
<1>5. b \in Chain[step.target] /\ b \in Blocks \ {Genesis} /\ Parent[b] = tip
  BY <1>4, NextToConnectIs
<1>6. b \notin Failed
  BY <1>1, <1>5, ParentFacts DEF ConnectInv
<1>7. CASE StepRefuses
  <2>1. index' = [index EXCEPT !.valid = @ \cup {b}]
    BY <1>7 DEF StepRefuses, Keep
  <2>2. index'.valid = index.valid \cup {b}
    BY <1>5, <2>1, FailedFields DEF IInv, TypeOK
  <2> QED BY <1>6, <2>2 DEF Failed
<1>8. CASE StepConnects
  <2>1. tip' = b /\ (b = step.target \/ nChainWork[b] > nChainWork[step.old])
    BY <1>2, <1>8 DEF StepConnects
  <2>2. step.old \in Blocks /\ step.target \in Blocks
    BY <1>1 DEF ConnectInv
  <2> HIDE DEF b
  <2>3. nChainWork[b] \in Nat /\ nChainWork[step.old] \in Nat
    BY <1>5, <2>2, ChainStateAssumption
  <2>4. CASE nChainWork[b] > nChainWork[step.old]
    BY <1>1, <1>5, <2>1, <2>2, <2>3, <2>4, WorseByWork
  <2>5. CASE ~(nChainWork[b] > nChainWork[step.old])
    <3>1. b = step.target /\ nChainWork[step.old] = nChainWork[b]
      BY <1>1, <2>1, <2>3, <2>5 DEF ConnectInv
    <3> QED BY <1>1, <2>1, <3>1 DEF ConnectInv, Ordinary
  <2> QED BY <2>4, <2>5
<1> QED BY <1>3, <1>7, <1>8

\* Every step of ActivateBestChain that ends leaves a better tip or a block newly marked
\* as failed: with a finite tree, two branches never alternate.  The one exception needs a
\* candidate that was pruned and downloaded again.
THEOREM StepsAlwaysGoForward == Spec => [][StepsGoForward]_vars
<1>1. IInv /\ IInv' /\ CandInv /\ [Next]_vars => [StepsGoForward]_vars
  BY StepGoesForward
<1> QED BY <1>1, CandidatesInvariance, ChainStateInvariance, PTL DEF Spec

\* The order of the candidates holds still, and the steps follow it.
THEOREM StepsAlwaysKeepOrder == Spec => StepsKeepOrder
<1>1. [][CandidatesKeepOrder]_vars /\ [][StepsGoForward]_vars
         => [][CandidatesKeepOrder /\ StepsGoForward]_vars
  BY PTL
<1> QED BY <1>1, CandidatesStayOrdered, StepsAlwaysGoForward DEF StepsKeepOrder

\* fHavePruned is never reset, and past forgets nothing but what AcceptBlock adds.
LEMMA WhatIsPruned ==
  ASSUME Next
  PROVE  /\ havePruned = TRUE => havePruned' = TRUE
         /\ \/ past' \subseteq past \cup {"replayed", "invalidated", "changed", "crashed"}
            \/ \E b \in Blocks \ {Genesis}, requested \in BOOLEAN :
                  /\ AcceptBlock(b, requested)
                  /\ NowLinked(b) \cap (cand \cup tips) # {}
<1> DEFINE Q == /\ havePruned = TRUE => havePruned' = TRUE
                /\ past' \subseteq past \cup {"replayed", "invalidated", "changed", "crashed"}
<1>1. ASSUME NEW new, NEW dirt, NEW wait, NEW coins,
             \/ Keep(new, dirt, wait) \/ WriteIndex(new, dirt, wait)
             \/ FlushIfNeeded(new, dirt, wait, coins)
             \/ WriteAll(new, dirt, wait, coins) \/ PruneAndWriteAll(new, dirt, wait, coins)
      PROVE  havePruned = TRUE => havePruned' = TRUE
  BY <1>1 DEF Keep, WriteIndex, FlushIfNeeded, WriteAll, PruneAndWriteAll
<1>2. ASSUME NEW b \in Blocks \ {Genesis}, NEW requested \in BOOLEAN,
             \/ AcceptBlockHeader(b) \/ InvalidateBlock(b)
             \/ RejectBlock(b, requested) \/ IgnoreBlock(b, requested)
      PROVE  Q
  BY <1>1, <1>2 DEF AcceptBlockHeader, InvalidateBlock, RejectBlock, IgnoreBlock, envVars
<1>3. ASSUME NEW b \in Blocks \ {Genesis}, NEW requested \in BOOLEAN, AcceptBlock(b, requested)
      PROVE  /\ havePruned = TRUE => havePruned' = TRUE
             /\ past' = past \/ NowLinked(b) \cap (cand \cup tips) # {}
  BY <1>1, <1>3 DEF AcceptBlock
<1>4. ASSUME \/ \E b \in Disputed : ChangeVerdict(b)
             \/ \E n \in 1..MaxReplay, recent \in SUBSET Disputed : ReprocessBlocks(n, recent)
             \/ AbortNode \/ InvalidateEnds \/ ReplayActivates
      PROVE  Q
  BY <1>4 DEF ChangeVerdict, ReprocessBlocks, AbortNode, InvalidateEnds, ReplayActivates,
     diskVars, envVars
<1>5. ASSUME StartStep \/ StepRefuses \/ StepConnects
      PROVE  Q
  <2>1. CASE StartStep
    BY <1>1, <2>1 DEF StartStep, FindMostWorkChain, envVars
  <2>2. CASE StepRefuses
    BY <1>1, <2>2 DEF StepRefuses
  <2>3. CASE StepConnects
    BY <1>1, <2>3 DEF StepConnects, envVars
  <2> QED BY <1>5, <2>1, <2>2, <2>3
<1>6. ASSUME StepDisconnects \/ ReplayDisconnects \/ InvalidateDisconnects
      PROVE  Q
  <2>1. AbortNode \/ (past' = past /\ \E new, dirt : DisconnectTip(new, dirt))
    BY <1>6 DEF StepDisconnects, ReplayDisconnects, InvalidateDisconnects, envVars
  <2> QED BY <1>1, <1>4, <2>1 DEF DisconnectTip
<1>7. ASSUME NEW b \in Blocks, ReconsiderBlock(b)
      PROVE  Q
  BY <1>1, <1>7 DEF ReconsiderBlock
<1>8. ASSUME FlushStateToDisk
      PROVE  Q
  BY <1>1, <1>8 DEF FlushStateToDisk, envVars
<1>9. ASSUME Crash
      PROVE  Q
  BY <1>9 DEF Crash
<1> HIDE DEF Q
<1>10. ActivateBestChain => Q
  BY <1>4, <1>5, <1>6 DEF ActivateBestChain, StepCannotRead
<1>11. Replay => Q
  BY <1>4, <1>6, <1>7 DEF Replay
<1>12. (InvalidateDisconnects \/ InvalidateEnds \/ FlushStateToDisk \/ Crash) => Q
  BY <1>4, <1>6, <1>8, <1>9
<1>13. (\E b \in Disputed : ChangeVerdict(b)) => Q
  BY <1>4
<1>14. (\E n \in 1..MaxReplay, recent \in SUBSET Disputed : ReprocessBlocks(n, recent)) => Q
  BY <1>4
<1>15. \/ Q
       \/ \E b \in Blocks \ {Genesis}, requested \in BOOLEAN : AcceptBlock(b, requested)
  BY <1>2, <1>10, <1>11, <1>12, <1>13, <1>14 DEF Next
<1> QED BY <1>3, <1>15 DEF Q

\* Only a block whose data was pruned is given a second number while it is a candidate or
\* was the tip: for a node that has pruned nothing, the theorems above have no exception.
THEOREM RenumberingNeedsPruning == Spec => [](havePruned = TRUE \/ Ordinary)
<1> DEFINE P == havePruned = TRUE \/ Ordinary
<1>1. Init => P
  BY DEF Init, Ordinary
<1>2. IInv /\ Unpruned /\ CandInv /\ P /\ [Next]_vars => P'
  <2> SUFFICES ASSUME IInv, Unpruned, CandInv, P, [Next]_vars
               PROVE  P'
    OBVIOUS
  <2>1. CASE havePruned = TRUE
    BY <2>1, WhatIsPruned DEF vars, diskVars
  <2>2. CASE havePruned # TRUE
    <3>1. Ordinary /\ index.tx \subseteq index.data
      BY <2>2 DEF Unpruned
    <3>2. linked \subseteq index.data /\ cand \cup tips \subseteq linked
      BY <3>1 DEF IInv, LinkedInv, CandInv, CoverInv, TipsInv
    <3>3. ASSUME NEW b \in Blocks \ {Genesis}, NEW requested \in BOOLEAN,
                 AcceptBlock(b, requested)
          PROVE  NowLinked(b) \cap (cand \cup tips) = {}
      <4>1. b \notin index.data
        BY <3>3 DEF AcceptBlock, Wanted
      <4>2. \A c \in linked : b \notin Chain[c]
        BY <3>2, <4>1 DEF IInv, LinkedInv
      <4> QED BY <3>2, <4>2 DEF NowLinked
    <3>4. past' \subseteq past \cup {"replayed", "invalidated", "changed", "crashed"}
      BY <3>3, WhatIsPruned DEF vars, envVars
    <3> QED BY <3>1, <3>4 DEF Ordinary
  <2> QED BY <2>1, <2>2
<1> HIDE DEF P
<1>3. Spec => []Unpruned
  <2>1. Init => Unpruned
    BY DEF Init, Unpruned
  <2> QED BY <2>1, UnprunedKeeps, ChainStateInvariance, PTL DEF Spec
<1>4. Spec => []P
  BY <1>1, <1>2, <1>3, CandidatesInvariance, ChainStateInvariance, PTL DEF Spec
<1> QED BY <1>4 DEF P

=============================================================================
