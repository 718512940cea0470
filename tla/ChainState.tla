----------------------------- MODULE ChainState -----------------------------
(***************************************************************************)
(* The block index and the active chain (main.cpp): headers and blocks     *)
(* arrive in any order, ActivateBestChain moves the tip to the chain with  *)
(* the most work among those whose data is complete and that no check has  *)
(* refused, block files are pruned, and a crash leaves what the last       *)
(* writes put into the block tree and coins databases.                     *)
(*                                                                         *)
(* cs_main protects all of it.  ActivateBestChain gives it up between two  *)
(* ActivateBestChainSteps; inside a step the model has one action per      *)
(* block disconnected or connected, because each of them may write to      *)
(* disk.  The contents of a block are its verdicts: what the checks of     *)
(* AcceptBlock and of ConnectBlock say of it.  The coins a block changes   *)
(* are the subject of CoinsViews.                                          *)
(***************************************************************************)
EXTENDS Integers, FiniteSets

CONSTANTS
    Blocks,         \* every block that may ever arrive
    Genesis,        \* the first of them
    Parent,         \* Parent[b]: hashPrevBlock, for every other block
    Chain,          \* Chain[b]: b and the blocks below it
    nChainWork,     \* nChainWork[b]: the work in Chain[b]
    Address,        \* Address[b]: where the CBlockIndex of b is allocated
    BadContext,     \* blocks that ContextualCheckBlock refuses
    Invalid,        \* blocks that ConnectBlock always refuses
    Disputed,       \* blocks refused at times: for their payee, or for a transaction
                    \* that conflicts with a completed lock
    MinBlocksToKeep,    \* MIN_BLOCKS_TO_KEEP
    FileSize,       \* how many blocks fill a block file
    None,
    MaxEvents,      \* bound: writes to disk, crashes, calls of InvalidateBlock and
                    \* ReprocessBlocks, and changed verdicts, all together
    MaxReplay       \* bound: blocks ReprocessBlocks disconnects

ASSUME ChainStateAssumption ==
    /\ IsFiniteSet(Blocks) /\ Genesis \in Blocks /\ None \notin Blocks
    /\ Parent \in [Blocks \ {Genesis} -> Blocks]
    /\ Chain \in [Blocks -> SUBSET Blocks] /\ Chain[Genesis] = {Genesis}
    /\ nChainWork \in [Blocks -> Nat]
    /\ \A b \in Blocks \ {Genesis} : /\ Chain[b] = Chain[Parent[b]] \cup {b}
                                     /\ b \notin Chain[Parent[b]]
                                     /\ nChainWork[b] > nChainWork[Parent[b]]
    /\ Address \in [Blocks -> Nat]
    /\ \A b, c \in Blocks : Address[b] = Address[c] => b = c
    /\ BadContext \cup Invalid \cup Disputed \subseteq Blocks \ {Genesis}
    /\ MinBlocksToKeep \in Nat \ {0} /\ FileSize \in Nat \ {0}
    /\ MaxEvents \in Nat /\ MaxReplay \in Nat

nHeight(b) == Cardinality(Chain[b]) - 1

VARIABLES
    index,      \* mapBlockIndex: the fields of its entries that go to disk
    linked,     \* entries with nChainTx # 0
    seq,        \* nSequenceId
    nextSeq,    \* nBlockSequenceId
    cand,       \* setBlockIndexCandidates
    unlinked,   \* mapBlocksUnlinked: the entries that wait for their parent
    tip,        \* chainActive.Tip()
    dirty,      \* setDirtyBlockIndex
    disk,       \* the entries in the block tree database
    diskTip,    \* the best block of the coins database
    havePruned, \* fHavePruned
    pending,    \* is a thread in ActivateBestChain; "held": without giving up cs_main
    step,       \* what the holder of cs_main is doing
    node,       \* "up", "abort" after AbortNode, "assert" after a failed assertion
    refused,    \* disputed blocks that are refused for now
    rejected,   \* mapRejectedBlocks
    forgiven,   \* history: entries whose failure was forgotten since the last start
    tips,       \* history: blocks that were the tip since the candidates were last gathered
                \* from the whole index, at a start or by InvalidateBlock
    past,       \* which of "replayed", "invalidated", "changed", "renumbered", "crashed"
                \* has happened
    events      \* how many of them there were

indexVars == <<linked, seq, nextSeq, cand, tip, tips>>
diskVars == <<index, unlinked, dirty, disk, diskTip, havePruned>>
envVars == <<refused, rejected, forgiven, past>>
vars == <<indexVars, diskVars, envVars, pending, step, node, events>>

\* The entries that exist, and of these the ones with BLOCK_HAVE_DATA, nTx # 0,
\* BLOCK_FAILED_VALID and BLOCK_FAILED_CHILD; the file each block is in.
Index == [known : SUBSET Blocks, data : SUBSET Blocks, tx : SUBSET Blocks,
          valid : SUBSET Blocks, child : SUBSET Blocks, nFile : [Blocks -> Nat]]
Idle == [kind |-> "idle", target |-> None, old |-> None, todo |-> {}, left |-> 0]

Failed == index.valid \cup index.child

\* CBlockIndexWorkComparator, with the sequence numbers s: a sorts before b
Worse(a, b, s) ==
    \/ nChainWork[a] < nChainWork[b]
    \/ /\ nChainWork[a] = nChainWork[b]
       /\ \/ s[a] > s[b]
          \/ s[a] = s[b] /\ Address[a] > Address[b]

Best(S) == CHOOSE b \in S : \A c \in S \ {b} : Worse(c, b, seq)

CsMainFree == step = Idle /\ pending # "held" /\ node = "up"
Event == events < MaxEvents /\ events' = events + 1

(***************************************************************************)
(* Writing to disk.  new and dirt are the block index and its dirty set    *)
(* after whatever the caller did before.                                   *)
(***************************************************************************)
Files(new) == {new.nFile[b] : b \in Blocks}
Stored(new, f) == {b \in new.data : new.nFile[b] = f}
nLastBlockFile(new) == CHOOSE f \in Files(new) : \A e \in Files(new) : e <= f

\* The files FindFilesToPrune may delete: not the last one, nor one that holds a
\* block too close to the tip.
Prunable(new) ==
    {f \in Files(new) :
        /\ f < nLastBlockFile(new)
        /\ Stored(new, f) # {}
        /\ \A b \in Stored(new, f) : nHeight(b) <= nHeight(tip) - MinBlocksToKeep}

\* FindFilesToPrune stops as soon as enough is freed
FindFilesToPrune(new) == {{f \in Prunable(new) : f <= g} : g \in Prunable(new)}

PrunedEntries(new, files) == {b \in new.known : new.nFile[b] \in files}

\* PruneOneBlockFile for each of files
PruneBlockFiles(new, files) ==
    LET pruned == PrunedEntries(new, files)
    IN [new EXCEPT !.data = @ \ pruned,
                   !.nFile = [b \in Blocks |-> IF b \in pruned THEN 0 ELSE @[b]]]

\* The block tree database after the entries in dirt were written.
Written(new, dirt) ==
    LET Update(old, now) == (old \ dirt) \cup (now \cap dirt)
    IN [known |-> Update(disk.known, new.known), data |-> Update(disk.data, new.data),
        tx |-> Update(disk.tx, new.tx), valid |-> Update(disk.valid, new.valid),
        child |-> Update(disk.child, new.child),
        nFile |-> [b \in Blocks |-> IF b \in dirt THEN new.nFile[b] ELSE disk.nFile[b]]]

Keep(new, dirt, wait) ==
    /\ index' = new /\ dirty' = dirt /\ unlinked' = wait
    /\ UNCHANGED <<disk, diskTip, havePruned>>

WriteIndex(new, dirt, wait) ==
    /\ index' = new /\ dirty' = {} /\ unlinked' = wait
    /\ disk' = Written(new, dirt)
    /\ UNCHANGED <<diskTip, havePruned>>

\* Mutant: the coins are written and the block index is not.
WriteCoinsOnly(new, dirt, wait, coins) ==
    /\ index' = new /\ dirty' = dirt /\ unlinked' = wait
    /\ diskTip' = coins
    /\ UNCHANGED <<disk, havePruned>>

WriteAll(new, dirt, wait, coins) ==
    /\ index' = new /\ dirty' = {} /\ unlinked' = wait
    /\ disk' = Written(new, dirt)
    /\ diskTip' = coins
    /\ UNCHANGED havePruned

PruneAndWriteAll(new, dirt, wait, coins) ==
    \E files \in FindFilesToPrune(new) :
        LET pruned == PrunedEntries(new, files)
            after == PruneBlockFiles(new, files)
        IN  /\ index' = after /\ dirty' = {} /\ unlinked' = wait \ pruned
            /\ disk' = Written(after, dirt \cup pruned)
            /\ diskTip' = coins
            /\ havePruned' = TRUE

\* FlushStateToDisk(FLUSH_STATE_IF_NEEDED); coins is pcoinsTip's best block
FlushIfNeeded(new, dirt, wait, coins) ==
    \/ Keep(new, dirt, wait) /\ UNCHANGED events
    \/ Event /\ WriteAll(new, dirt, wait, coins)
    \/ Event /\ PruneAndWriteAll(new, dirt, wait, coins)

\* FlushStateToDisk when no block is being connected: periodic writes of the
\* block index alone happen far more often than those of the coins.
FlushStateToDisk ==
    /\ CsMainFree
    /\ \/ Event /\ WriteIndex(index, dirty, unlinked)
       \/ Event /\ WriteAll(index, dirty, unlinked, tip)
       \/ Event /\ PruneAndWriteAll(index, dirty, unlinked, tip)
    /\ UNCHANGED <<indexVars, envVars, pending, step, node>>

(***************************************************************************)
(* Headers and blocks arrive.                                              *)
(***************************************************************************)
\* AcceptBlockHeader returns an entry for b: known and not failed, or new on top
\* of a known entry that is not failed.
HeaderOk(b) == IF b \in index.known THEN b \notin Failed
               ELSE Parent[b] \in index.known \ Failed

\* AddToBlockIndex
Added(b) == [index EXCEPT !.known = @ \cup {b}]
DirtyHeader(b) == dirty \cup ({b} \ index.known)

\* A HEADERS message
AcceptBlockHeader(b) ==
    /\ CsMainFree
    /\ HeaderOk(b) /\ b \notin index.known
    /\ Keep(Added(b), DirtyHeader(b), unlinked)
    /\ UNCHANGED <<indexVars, envVars, pending, step, node, events>>

\* AcceptBlock stores b: it was asked for, or it is new, has more work than the
\* tip and is not too far ahead.
Wanted(b, requested) ==
    /\ b \notin index.data
    /\ \/ requested
       \/ /\ b \notin index.tx
          /\ nChainWork[b] > nChainWork[tip]
          /\ nHeight(b) <= nHeight(tip) + MinBlocksToKeep

\* Mutant: the blocks that waited for b stay unlinked.
LinkedAlone(b) == {b}

\* ReceivedBlockTransactions: the entries that are linked as soon as b is.
NowLinked(b) ==
    {c \in unlinked \cup {b} :
        b \in Chain[c] /\ Chain[c] \ Chain[b] \subseteq unlinked}

\* The order in which the queue hands out nSequenceId: by height.
QueueOrders(S) ==
    {r \in [S -> 1..Cardinality(S)] :
        \A c, d \in S : /\ c # d => r[c] # r[d]
                        /\ nHeight(c) < nHeight(d) => r[c] < r[d]}

ReceivedBlockTransactions(b) ==
    IF b = Genesis \/ Parent[b] \in linked
    THEN LET S == NowLinked(b)
         IN \E r \in QueueOrders(S) :
              LET s == [c \in Blocks |-> IF c \in S THEN nextSeq + r[c] - 1 ELSE seq[c]]
              IN /\ linked' = linked \cup S
                 /\ seq' = s
                 /\ nextSeq' = nextSeq + Cardinality(S)
                 /\ cand' = cand \cup {c \in S : ~Worse(c, tip, s)}
    ELSE /\ linked' = linked \ {b}
         /\ UNCHANGED <<seq, nextSeq, cand>>

\* mapBlocksUnlinked afterwards; a failed parent keeps b out of it.
UnlinkedAfter(b) ==
    IF Parent[b] \in linked THEN unlinked \ (NowLinked(b) \ {b})
    ELSE IF Parent[b] \in Failed THEN unlinked ELSE unlinked \cup {b}

\* FindBlockPos
FindBlockPos == LET f == nLastBlockFile(index)
                IN IF Cardinality(Stored(index, f)) >= FileSize THEN f + 1 ELSE f

\* ProcessNewBlock up to ActivateBestChain, of a block that AcceptBlock stores
AcceptBlock(b, requested) ==
    /\ CsMainFree
    /\ HeaderOk(b) /\ Wanted(b, requested)
    /\ b \notin BadContext
    /\ Keep([Added(b) EXCEPT !.data = @ \cup {b}, !.tx = @ \cup {b}, !.nFile[b] = FindBlockPos],
            dirty \cup {b}, UnlinkedAfter(b))
    /\ ReceivedBlockTransactions(b)
    /\ past' = IF NowLinked(b) \cap (cand \cup tips) # {} THEN past \cup {"renumbered"} ELSE past
    /\ pending' = "yes"
    /\ UNCHANGED <<tip, tips, refused, rejected, forgiven, step, node, events>>

\* ... of one that ContextualCheckBlock refuses, or CheckBlock because a lock on
\* its inputs was completed since ProcessNewBlock called it
RejectBlock(b, requested) ==
    /\ CsMainFree
    /\ HeaderOk(b) /\ Wanted(b, requested)
    /\ b \in BadContext \cup refused
    /\ Keep([Added(b) EXCEPT !.valid = @ \cup {b}], dirty \cup {b}, unlinked)
    /\ rejected' = rejected \cup ({b} \cap refused)
    /\ UNCHANGED <<indexVars, refused, forgiven, past, pending, step, node, events>>

\* ... of one that AcceptBlock ignores, but for its header
IgnoreBlock(b, requested) ==
    /\ CsMainFree
    /\ HeaderOk(b) /\ ~Wanted(b, requested)
    /\ Keep(Added(b), DirtyHeader(b), unlinked)
    /\ pending' = "yes"
    /\ UNCHANGED <<indexVars, envVars, step, node, events>>

(***************************************************************************)
(* ActivateBestChain.                                                      *)
(***************************************************************************)
\* What stops FindMostWorkChain on its way from c down to the active chain: an
\* entry that failed or whose data is missing.
Obstacles(c) == {p \in Chain[c] \ Chain[tip] : p \in Failed \/ p \notin index.data}
FirstObstacle(c) == CHOOSE p \in Obstacles(c) : \A q \in Obstacles(c) : q \in Chain[p]
Above(c) == Chain[c] \ Chain[FirstObstacle(c)]

Usable == {c \in cand : Obstacles(c) = {}}
MostWork == IF Usable = {} THEN None ELSE Best(Usable)

\* The candidates FindMostWorkChain gives up before it returns MostWork.
GivenUp == {c \in cand \ Usable : MostWork = None \/ Worse(MostWork, c, seq)}
GivenUpFailed == {c \in GivenUp : FirstObstacle(c) \in Failed}

\* Mutant: blocks above missing data are not put back into mapBlocksUnlinked.
FindMostWorkChainForgets ==
    LET children == UNION {Above(c) : c \in GivenUpFailed}
        gone == UNION {Above(c) \cup {FirstObstacle(c)} : c \in GivenUp}
    IN  /\ cand' = cand \ gone
        /\ Keep([index EXCEPT !.child = @ \cup children], dirty, unlinked)

FindMostWorkChain ==
    LET children == UNION {Above(c) : c \in GivenUpFailed}
        missing == UNION {Above(c) : c \in GivenUp \ GivenUpFailed}
        gone == UNION {Above(c) \cup {FirstObstacle(c)} : c \in GivenUp}
    IN  /\ cand' = cand \ gone
        /\ Keep([index EXCEPT !.child = @ \cup children], dirty, unlinked \cup missing)

\* One turn of ActivateBestChain's loop, up to the first block disconnected or
\* connected.
StartStep ==
    /\ pending # "no" /\ step = Idle /\ node = "up"
    /\ FindMostWorkChain
    /\ IF MostWork \in {None, tip}
       THEN pending' = "no" /\ UNCHANGED step
       ELSE /\ step' = [Idle EXCEPT !.kind = "connect", !.target = MostWork, !.old = tip]
            /\ UNCHANGED pending
    /\ UNCHANGED <<linked, seq, nextSeq, tip, tips, envVars, node, events>>

AbortNode == node' = "abort" /\ UNCHANGED <<indexVars, diskVars, envVars, pending, step, events>>

\* DisconnectTip, after the caller changed the index to new.  A block that was
\* pruned cannot be read.
DisconnectTip(new, dirt) ==
    /\ tip' = Parent[tip] /\ tips' = tips \cup {Parent[tip]}
    /\ FlushIfNeeded(new, dirt, unlinked, Parent[tip])

StepDisconnects ==
    /\ step.kind = "connect" /\ tip \notin Chain[step.target] /\ node = "up"
    /\ IF tip \in index.data
       THEN /\ DisconnectTip(index, dirty)
            /\ UNCHANGED <<linked, seq, nextSeq, cand, envVars, pending, step, node>>
       ELSE AbortNode

\* PruneBlockIndexCandidates, once t is the tip
PruneBlockIndexCandidates(S, t) == {c \in S : ~Worse(c, t, seq)}

NextToConnect == CHOOSE b \in Chain[step.target] : b # Genesis /\ Parent[b] = tip
Refuses(b) == b \in Invalid \cup refused

\* ConnectTip of a block that ConnectBlock accepts.  The step ends when the tip is
\* better than before the step.
StepConnects ==
    /\ step.kind = "connect" /\ tip \in Chain[step.target] /\ node = "up"
    /\ LET b == NextToConnect
           left == PruneBlockIndexCandidates(cand, b)
       IN /\ b \in index.data /\ ~Refuses(b)
          /\ tip' = b /\ tips' = tips \cup {b}
          /\ cand' = left
          /\ node' = IF left = {} THEN "assert" ELSE "up"
          /\ FlushIfNeeded(index, dirty, unlinked, b)
          /\ step' = IF b = step.target \/ nChainWork[b] > nChainWork[step.old]
                     THEN Idle ELSE step
          /\ pending' = IF b = step.target THEN "no" ELSE pending
    /\ UNCHANGED <<linked, seq, nextSeq, envVars>>

\* Mutant: the block is not marked as failed.
StepRefusesQuietly ==
    /\ step.kind = "connect" /\ tip \in Chain[step.target] /\ node = "up"
    /\ NextToConnect \in index.data /\ Refuses(NextToConnect)
    /\ step' = Idle
    /\ UNCHANGED <<indexVars, diskVars, envVars, pending, node, events>>

\* ConnectTip of a block that ConnectBlock refuses: InvalidBlockFound
StepRefuses ==
    /\ step.kind = "connect" /\ tip \in Chain[step.target] /\ node = "up"
    /\ LET b == NextToConnect
       IN /\ b \in index.data /\ Refuses(b)
          /\ Keep([index EXCEPT !.valid = @ \cup {b}], dirty \cup {b}, unlinked)
          /\ cand' = cand \ {b}
          /\ rejected' = rejected \cup ({b} \cap refused)
          /\ step' = Idle
    /\ UNCHANGED <<linked, seq, nextSeq, tip, tips, refused, forgiven, past, pending, node, events>>

StepCannotRead ==
    /\ step.kind = "connect" /\ tip \in Chain[step.target] /\ node = "up"
    /\ NextToConnect \notin index.data
    /\ AbortNode

(***************************************************************************)
(* InvalidateBlock and ReprocessBlocks.                                    *)
(***************************************************************************)
InvalidateBlock(b) ==
    /\ CsMainFree /\ Event
    /\ b \in index.known \ {Genesis}
    /\ Keep([index EXCEPT !.valid = @ \cup {b}], dirty \cup {b}, unlinked)
    /\ cand' = cand \ {b}
    /\ step' = [Idle EXCEPT !.kind = "invalidate", !.target = b]
    /\ past' = past \cup {"invalidated"}
    /\ UNCHANGED <<linked, seq, nextSeq, tip, tips, refused, rejected, forgiven, pending, node>>

InvalidateDisconnects ==
    /\ step.kind = "invalidate" /\ step.target \in Chain[tip] /\ node = "up"
    /\ IF tip \in index.data
       THEN /\ DisconnectTip([index EXCEPT !.child = @ \cup {tip}], dirty \cup {tip})
            /\ cand' = cand \ {tip}
            /\ UNCHANGED <<linked, seq, nextSeq, envVars, pending, step, node>>
       ELSE AbortNode

\* The blocks at least as good as the new tip become candidates again.  Its callers
\* call ActivateBestChain next.
InvalidateEnds ==
    /\ step.kind = "invalidate" /\ step.target \notin Chain[tip] /\ node = "up"
    /\ cand' = cand \cup {c \in linked \ Failed : ~Worse(c, tip, seq)}
    /\ tips' = {tip}
    /\ step' = Idle
    /\ pending' = "yes"
    /\ UNCHANGED <<linked, seq, nextSeq, tip, diskVars, envVars, node, events>>

\* ReprocessBlocks(n), called for a spork: some of the rejected blocks are recent
\* enough to be reconsidered, then n blocks are disconnected and the best chain is
\* activated without giving up cs_main.
ReprocessBlocks(n, recent) ==
    /\ CsMainFree /\ Event
    /\ recent \subseteq rejected \cap index.known
    /\ step' = [Idle EXCEPT !.kind = "replay", !.todo = recent, !.left = n]
    /\ past' = past \cup {"replayed"}
    /\ UNCHANGED <<indexVars, diskVars, refused, rejected, forgiven, pending, node>>

\* ReconsiderBlock.  In its loop the name pindex is the entry looked at, so that
\* GetAncestor(nHeight) is compared with the entry itself: the failure of every
\* entry at b's height is forgotten, of b's ancestors too, and no descendant's.
Forgiven(b) == {c \in Failed : nHeight(c) = nHeight(b)}

ReconsiderBlock(b) ==
    /\ step.kind = "replay" /\ b \in step.todo /\ node = "up"
    /\ LET cleared == Forgiven(b) \cup (Chain[b] \cap Failed)
       IN /\ Keep([index EXCEPT !.valid = @ \ cleared, !.child = @ \ cleared],
                  dirty \cup cleared, unlinked)
          /\ forgiven' = forgiven \cup cleared
    /\ cand' = cand \cup {c \in Forgiven(b) : c \in linked /\ Worse(tip, c, seq)}
    /\ step' = [step EXCEPT !.todo = @ \ {b}]
    /\ UNCHANGED <<linked, seq, nextSeq, tip, tips, refused, rejected, past, pending, node, events>>

\* DisconnectBlocks; DisconnectTip of Genesis fails and reports success
ReplayDisconnects ==
    /\ step.kind = "replay" /\ step.todo = {} /\ step.left > 0 /\ tip # Genesis /\ node = "up"
    /\ IF tip \in index.data
       THEN /\ DisconnectTip(index, dirty)
            /\ step' = [step EXCEPT !.left = @ - 1]
            /\ UNCHANGED <<linked, seq, nextSeq, cand, envVars, pending, node>>
       ELSE AbortNode

ReplayActivates ==
    /\ step.kind = "replay" /\ step.todo = {} /\ node = "up"
    /\ step.left = 0 \/ tip = Genesis
    /\ step' = Idle
    /\ pending' = "held"
    /\ UNCHANGED <<indexVars, diskVars, envVars, node, events>>

\* Votes for payees, or a lock, change what the checks say of a disputed block.
ChangeVerdict(b) ==
    /\ Event
    /\ refused' = IF b \in refused THEN refused \ {b} ELSE refused \cup {b}
    /\ past' = past \cup {"changed"}
    /\ UNCHANGED <<indexVars, diskVars, rejected, forgiven, pending, step, node>>

(***************************************************************************)
(* Crash and restart.                                                      *)
(***************************************************************************)
\* What a crash can leave of the block index: the last write, or the batch of a
\* write that did not get to the coins.
CrashIndexes ==
    {disk, Written(index, dirty)}
        \cup {Written(PruneBlockFiles(index, files), dirty \cup PrunedEntries(index, files)) :
                files \in FindFilesToPrune(index)}

\* LoadBlockIndexDB, then AppInit2's ActivateBestChain
LoadBlockIndexDB(d) ==
    LET chainTx == {b \in d.known : Chain[b] \subseteq d.tx}
        s == [b \in Blocks |-> 0]
        left == {b \in chainTx \ (d.valid \cup d.child) : ~Worse(b, diskTip, s)}
    IN  /\ index' = d /\ disk' = d /\ dirty' = {}
        /\ linked' = chainTx
        /\ unlinked' = {b \in d.tx \ {Genesis} : Parent[b] \notin chainTx}
        /\ seq' = s /\ nextSeq' = 1
        /\ tip' = diskTip /\ tips' = {diskTip}
        /\ cand' = left
        /\ node' = IF left = {} THEN "assert" ELSE "up"

Crash ==
    /\ Event
    /\ \E d \in CrashIndexes :
          /\ LoadBlockIndexDB(d)
          /\ havePruned' = (havePruned \/ d.tx # d.data)
    /\ pending' = "yes"
    /\ step' = Idle
    /\ rejected' = {} /\ forgiven' = {}
    /\ past' = past \cup {"crashed"}
    /\ UNCHANGED <<diskTip, refused>>

(***************************************************************************)
(* The specification.  InitBlockIndex has stored and activated Genesis.    *)
(***************************************************************************)
Init ==
    /\ index = [known |-> {Genesis}, data |-> {Genesis}, tx |-> {Genesis},
                valid |-> {}, child |-> {}, nFile |-> [b \in Blocks |-> 0]]
    /\ linked = {Genesis} /\ seq = [b \in Blocks |-> IF b = Genesis THEN 1 ELSE 0]
    /\ nextSeq = 2 /\ cand = {Genesis} /\ unlinked = {} /\ tip = Genesis /\ tips = {Genesis}
    /\ dirty = {} /\ disk = index /\ diskTip = Genesis /\ havePruned = FALSE
    /\ pending = "no" /\ step = Idle /\ node = "up"
    /\ refused \in SUBSET Disputed /\ rejected = {} /\ forgiven = {} /\ past = {}
    /\ events = 0

ActivateBestChain ==
    StartStep \/ StepDisconnects \/ StepConnects \/ StepRefuses \/ StepCannotRead

Replay == (\E b \in Blocks : ReconsiderBlock(b)) \/ ReplayDisconnects \/ ReplayActivates

Next ==
    \/ \E b \in Blocks \ {Genesis} :
          \/ AcceptBlockHeader(b)
          \/ InvalidateBlock(b)
          \/ \E requested \in BOOLEAN : \/ AcceptBlock(b, requested)
                                        \/ RejectBlock(b, requested)
                                        \/ IgnoreBlock(b, requested)
    \/ \E b \in Disputed : ChangeVerdict(b)
    \/ \E n \in 1..MaxReplay, recent \in SUBSET Disputed : ReprocessBlocks(n, recent)
    \/ ActivateBestChain
    \/ InvalidateDisconnects \/ InvalidateEnds
    \/ Replay
    \/ FlushStateToDisk
    \/ Crash

Spec == Init /\ [][Next]_vars

(***************************************************************************)
(* Properties.                                                             *)
(***************************************************************************)
\* The values of the variables of main.cpp's block index and active chain.
TypeOK ==
    /\ index \in Index /\ disk \in Index
    /\ linked \cup cand \cup unlinked \cup dirty \subseteq Blocks
    /\ seq \in [Blocks -> Nat] /\ nextSeq \in Nat
    /\ tip \in Blocks /\ tips \subseteq Blocks /\ diskTip \in Blocks
    /\ havePruned \in BOOLEAN /\ past \subseteq {"replayed", "invalidated", "changed", "renumbered", "crashed"}
    /\ pending \in {"no", "yes", "held"}
    /\ step \in [kind : {"idle", "connect", "invalidate", "replay"},
                 target : Blocks \cup {None}, old : Blocks \cup {None},
                 todo : SUBSET Disputed, left : 0..MaxReplay]
    /\ node \in {"up", "abort", "assert"}
    /\ refused \cup rejected \subseteq Disputed /\ forgiven \subseteq Blocks

Available(b) == Chain[b] \subseteq index.data \ index.valid
Quiet == CsMainFree /\ pending = "no"

\* No candidate, and no block that was the tip, got another nSequenceId.
Ordinary == "renumbered" \notin past

\* b has failed, cannot be connected to the active chain, or is on top of a block whose
\* failure was forgotten.
Barred(b) == b \in Failed \/ Obstacles(b) # {} \/ Chain[b] \cap forgiven # {}

\* b lost to a block that was the tip, and that is barred now: it left the candidates when
\* that block was connected, and nothing puts it back.
Eclipsed(b) == \E w \in tips : Worse(b, w, seq) /\ Barred(w)

\* CheckBlockIndex: "nChainTx != 0 is used to signal that all parent blocks have
\* been processed".  Every block whose chain is complete and not invalid can be
\* reached from nChainTx, whatever the order blocks arrived in, were pruned,
\* downloaded again or loaded after a crash.  The exception is a block whose failure
\* ReconsiderBlock forgot: what was stored on top of it while it had failed is in
\* nobody's list, and stays unlinked until the next start.
LinkedIsRight ==
    /\ \A b \in linked : Chain[b] \subseteq index.tx
    /\ \A b \in Blocks : Available(b) /\ Chain[b] \cap forgiven = {} => b \in linked

\* CheckBlockIndex: a block with data and without nChainTx waits in
\* mapBlocksUnlinked, or its data would never be looked at again; it may be missing
\* there while a block below it is invalid, and after that was forgotten.
WaitersAreFound ==
    \A b \in index.data \ linked :
        Chain[b] \cap (index.valid \cup forgiven) = {} => b \in unlinked

\* The promise of ActivateBestChain ("either failure or an activated best chain"):
\* when no thread is in it, a chain that is better than the active one is barred or
\* eclipsed, and the tip is a candidate unless it is.
BestChainIsActive ==
    Quiet /\ Ordinary =>
        /\ \A b \in linked : Worse(tip, b, seq) => Barred(b) \/ Eclipsed(b)
        /\ tip \in cand \/ Barred(tip) \/ Eclipsed(tip)

\* FindMostWorkChain looks only at setBlockIndexCandidates.  At every moment, between
\* the blocks of a reorganisation too, a block that can be connected is there or lost to a
\* block that is, unless it is eclipsed.
CandidatesAreComplete ==
    Ordinary =>
        \A b \in linked \ cand :
            (\E w \in cand \cap tips : Worse(b, w, seq)) \/ Barred(b) \/ Eclipsed(b)

\* CheckBlockIndex: a block that "sorts worse than the current tip" "cannot be in
\* setBlockIndexCandidates".
CandidatesAreNotWorse == Ordinary => \A c \in cand : ~Worse(c, tip, seq)

\* CheckBlockIndex: "The failed mask cannot be set for blocks without invalid parents",
\* in memory or on disk, until ReconsiderBlock forgets the failure of one entry and not
\* of those above it.
FailureHasACause ==
    "replayed" \notin past =>
        /\ \A b \in index.child : Chain[b] \cap index.valid # {}
        /\ \A b \in disk.child : Chain[b] \cap disk.valid # {}

\* The assertion of PruneBlockIndexCandidates ("either the current tip or a successor
\* of it we're working towards is left"), after every block connected and on every
\* start: it fails only at a start, and only when a block of the chain that the coins
\* were written for has failed since, after InvalidateBlock or because what the checks
\* say of it has changed.  That the block index on disk is ahead of the coins is not
\* enough.
StartsAfterCrash ==
    node = "assert" =>
        /\ "crashed" \in past /\ past \cap {"invalidated", "changed"} # {}
        /\ Chain[diskTip] \cap Failed # {}

\* CheckBlockIndex: "HAVE_DATA implies nTx > 0", and until something was pruned the
\* two are equivalent.
DataUntilPruned == /\ index.data \subseteq index.tx
                   /\ havePruned \/ index.tx \subseteq index.data

\* What CheckBlockIndex says of mapBlockIndex and mapBlocksUnlinked (it runs only
\* where -checkblockindex is set).
IndexIsComplete == TypeOK /\ LinkedIsRight /\ WaitersAreFound /\ DataUntilPruned

\* What CheckBlockIndex and ActivateBestChain say of setBlockIndexCandidates.
CandidatesAreRight ==
    BestChainIsActive /\ CandidatesAreComplete /\ CandidatesAreNotWorse /\ FailureHasACause

\* setBlockIndexCandidates is ordered by nSequenceId: until a block file is pruned,
\* the number of a block in the set never changes while the node runs.
CandidatesKeepOrder ==
    havePruned \/ (\A b \in cand : seq'[b] = seq[b]) \/ Crash

\* ActivateBestChain calls ActivateBestChainStep until the tip has the most work: a
\* step that ends leaves a better tip than it found or a block newly refused, so
\* that the loop of a finite block tree ends and two branches never alternate.  Only after
\* a candidate was pruned, downloaded again and renumbered may a tip give way to one of
\* the same work that sorts before it.
StepsGoForward ==
    step.kind = "connect" /\ step' = Idle /\ ActivateBestChain =>
        \/ Worse(step.old, tip', seq)
        \/ ~(index'.valid \subseteq index.valid)
        \/ "renumbered" \in past /\ nChainWork[step.old] = nChainWork[tip']

\* No step changes the order that the candidates are kept in, and the steps of
\* ActivateBestChain follow it.
StepsKeepOrder == [][CandidatesKeepOrder /\ StepsGoForward]_vars
=============================================================================
