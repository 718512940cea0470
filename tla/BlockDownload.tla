--------------------------- MODULE BlockDownload ---------------------------
(***************************************************************************)
(* Headers-first block download (main.cpp: CNodeState, the INV, HEADERS    *)
(* and BLOCK messages, SendMessages; net.cpp: the life of a connection).   *)
(* The node asks a peer for headers, shares the blocks to fetch among its  *)
(* peers, and drops a peer that holds the download up.  A peer answers in  *)
(* the order it was asked, so what it sends is decided when the node reads *)
(* it; a slow one may stop.  ThreadMessageHandler runs one handler at a    *)
(* time, under cs_main and in one step, except that it gives cs_main up    *)
(* between storing a block and activating its chain.  Which blocks         *)
(* ConnectBlock refuses is a constant; a slow peer may also send a copy of *)
(* a block that CheckBlock refuses.  ActivateBestChain is what ChainState  *)
(* shows of it.  Whitelists, and misbehaviour below the ban threshold      *)
(* other than that of an INV, are left out.                                *)
(*                                                                         *)
(* \E x \in {e} below only gives e a name: unlike with LET, it is then     *)
(* evaluated once, which the fairness conditions need.                     *)
(***************************************************************************)
EXTENDS Integers, FiniteSets, Sequences, SequencesExt

CONSTANTS
    Peers,
    Preferred,      \* peers with fPreferredDownload
    Slow,           \* peers that may leave requests unanswered until a timeout, not
                    \* read what they are sent, or send malformed blocks
    NoPeer,
    Blocks, Genesis, Parent,
    NoBlock,
    Bad,            \* blocks ConnectBlock refuses
    Recent,         \* blocks less than 6 hours old
    Near,           \* blocks less than 20 block intervals old
    IbdGap,         \* headers ahead of the tip that mean initial download (144)
    Window,         \* BLOCK_DOWNLOAD_WINDOW
    MaxInTransit,   \* MAX_BLOCKS_IN_TRANSIT_PER_PEER
    MaxHeaders,     \* MAX_HEADERS_RESULTS
    MaxInv,         \* bound: blocks an INV lists
    FirstTips,      \* bound: blocks a peer may have as its tip when it connects
    Announced,      \* bound: blocks that become a tip of a connected peer
    Submitted,      \* bound: blocks that may also be made here
    Malformed       \* bound: blocks of which a malformed copy may arrive, once

\* The blocks from the one after the genesis block up to b
Path[b \in Blocks] == IF b = Genesis THEN <<>> ELSE Append(Path[Parent[b]], b)
Height(b) == Len(Path[b])

ASSUME DownloadAssumption ==
    /\ IsFiniteSet(Peers) /\ NoPeer \notin Peers
    /\ Preferred \subseteq Peers /\ Slow \subseteq Peers
    /\ Genesis \in Blocks /\ NoBlock \notin Blocks
    /\ Parent \in [Blocks \ {Genesis} -> Blocks]
    /\ Near \subseteq Recent /\ Bad \cup Recent \cup FirstTips \cup Announced \cup Submitted \cup Malformed \subseteq Blocks
    /\ \A b, c \in Blocks : b \in Recent /\ Height(c) > Height(b) => c \in Recent
    /\ {IbdGap, Window} \subseteq Nat /\ {MaxInTransit, MaxHeaders, MaxInv} \subseteq Nat \ {0}

VARIABLES
    index,          \* mapBlockIndex: blocks whose header is known
    data,           \* those with BLOCK_HAVE_DATA
    failed,         \* those with BLOCK_FAILED_MASK
    tip,            \* chainActive.Tip()
    bestHeader,     \* pindexBestHeader
    ibd,            \* IsInitialBlockDownload has not said no yet
    conn,           \* "new", "up", "closing" (fDisconnect), "gone"
    node,           \* mapNodeState
    inFlight,       \* mapBlocksInFlight: who a block was asked from
    validated,      \* nPeersWithValidatedDownloads
    syncStarted,    \* nSyncStarted
    source,         \* mapBlockSource, for the blocks that are ever looked up in it
    working,        \* senders of blocks that are stored, their chain not yet activated
    spoilt,         \* blocks that lost their mark to a copy that CheckBlock refused
    asked,          \* requests a peer has not answered, in their order
    remote          \* the tip of a peer

chainVars == <<index, data, failed, tip, bestHeader, source>>
peerVars == <<node, inFlight, validated, syncStarted>>
vars == <<chainVars, peerVars, ibd, conn, working, spoilt, asked, remote>>

(***************************************************************************)
(* The block tree.  A block's work is its height.                          *)
(***************************************************************************)
\* LastCommonAncestor is the block at this height.
ForkHeight(a, b) == Cardinality({i \in DOMAIN Path[a] \cap DOMAIN Path[b] : Path[a][i] = Path[b][i]})

ForkBlock(a, b) == IF ForkHeight(a, b) = 0 THEN Genesis ELSE Path[a][ForkHeight(a, b)]

\* The blocks of b's chain that are not in a's, at most n of them.
Beyond(a, b, n) ==
    LET h == ForkHeight(a, b)
    IN  SubSeq(Path[b], h + 1, IF h + n < Height(b) THEN h + n ELSE Height(b))

IsLinked(b, d) == ToSet(Path[b]) \subseteq d    \* nChainTx of a block, given the data
IsSound(b) == ToSet(Path[b]) \cap Bad = {}
CanDirectFetch == tip \in Near

(***************************************************************************)
(* CNodeState and what is in flight.  A record of the three variables      *)
(* passes from one step of a handler to the next.                          *)
(***************************************************************************)
NewNodeState == [best |-> NoBlock, unknown |-> NoBlock, common |-> NoBlock,
                 sync |-> FALSE, stalling |-> FALSE, misbehaved |-> FALSE, shouldBan |-> FALSE,
                 queue |-> {}, count |-> 0, valid |-> 0]

Downloads == [node |-> node, inFlight |-> inFlight, validated |-> validated]
SetDownloads(d) == node' = d.node /\ inFlight' = d.inFlight /\ validated' = d.validated

\* What the peer answered is no longer in its queue, and it is not stalling.
Unqueued(s, e) ==
    [s EXCEPT !.queue = @ \ {e}, !.count = @ - 1, !.valid = @ - (IF e.known THEN 1 ELSE 0),
              !.stalling = FALSE]

MarkBlockAsReceived(d, b) ==
    LET p == d.inFlight[b]
    IN  IF p = NoPeer THEN d
        ELSE LET e == CHOOSE x \in d.node[p].queue : x.block = b
                 s == Unqueued(d.node[p], e)
             IN  [node |-> [d.node EXCEPT ![p] = s],
                  inFlight |-> [d.inFlight EXCEPT ![b] = NoPeer],
                  validated |-> d.validated - (IF e.known /\ s.valid = 0 THEN 1 ELSE 0)]

\* Every caller looked that none of the blocks is in flight, so the call of
\* MarkBlockAsReceived in it finds nothing.  known: the header is, so that the block
\* counts for the timeouts of other peers.
MarkBlocksAsInFlight(d, p, bs, known) ==
    LET n == IF known THEN Cardinality(bs) ELSE 0
    IN  [node |-> [d.node EXCEPT ![p].queue = @ \cup [block : bs, known : {known}],
                                 ![p].count = @ + Cardinality(bs), ![p].valid = @ + n],
         inFlight |-> [b \in Blocks |-> IF b \in bs THEN p ELSE d.inFlight[b]],
         validated |-> d.validated + (IF n > 0 /\ d.node[p].valid = 0 THEN 1 ELSE 0)]

BetterOf(s, b) == IF s.best = NoBlock \/ Height(b) >= Height(s.best) THEN [s EXCEPT !.best = b] ELSE s

\* known: mapBlockIndex, headers of this message included
ProcessBlockAvailability(s, known) ==
    IF s.unknown \in known THEN [BetterOf(s, s.unknown) EXCEPT !.unknown = NoBlock] ELSE s

UpdateBlockAvailability(s, b, known) ==
    LET t == ProcessBlockAvailability(s, known)
    IN  IF b \in known THEN BetterOf(t, b) ELSE [t EXCEPT !.unknown = b]

\* Requests on the wire
GetHeaders(from, stop) == [type |-> "headers", from |-> from, block |-> stop]
GetData(b) == [type |-> "data", from |-> NoBlock, block |-> b]
GetAllData(bs) == [i \in DOMAIN bs |-> GetData(bs[i])]

(***************************************************************************)
(* FindNextBlocksToDownload.                                               *)
(***************************************************************************)
IsMissing(b) == b \notin data       \* nothing is pruned
IsWanted(b) == IsMissing(b) /\ inFlight[b] = NoPeer

UpTo(seq, n) == SubSeq(seq, 1, IF Len(seq) < n THEN Len(seq) ELSE n)
Before(seq, i) == IF i = 0 THEN seq ELSE SubSeq(seq, 1, i - 1)

IsInteresting(s) == s.best # NoBlock /\ (s.best # NoBlock => Height(s.best) >= Height(tip))

\* pindexLastCommonBlock when the walk starts, and the blocks it may visit: one
\* more than the window has
CommonBlock(s) == IF IsInteresting(s)
                  THEN ForkBlock(IF s.common = NoBlock THEN tip ELSE s.common, s.best)
                  ELSE s.common
ToVisit(s) == IF IsInteresting(s)
              THEN Beyond(IF s.common = NoBlock THEN tip ELSE s.common, s.best, Window + 1)
              ELSE <<>>

\* The walk ends at an invalid block, or at one beyond the window we could fetch.
Walk(common, visit) ==
    LET stop == SelectInSeq(visit, LAMBDA b : \/ b \in failed
                                              \/ Height(b) > Height(common) + Window /\ IsWanted(b))
    IN  [common |-> common, blocks |-> Before(visit, stop),
         windowEnds |-> stop # 0 /\ visit[stop] \notin failed]

\* Mutant: the common block stays where it was found first.
IsNeverFull(b) == FALSE

IsFull(b) == IsLinked(b, data)

\* The blocks to ask p for, its new common block, and the peer that holds it up
Found(p, walk, count) ==
    LET want == SelectSeq(walk.blocks, IsWanted)
        full == SelectLastInSeq(walk.blocks, IsFull)
        wait == SelectInSeq(walk.blocks, LAMBDA b : IsMissing(b) /\ ~IsWanted(b))
    IN  [blocks |-> UpTo(want, count),
         common |-> IF full = 0 THEN walk.common ELSE walk.blocks[full],
         staller |-> IF walk.windowEnds /\ want = <<>> /\ wait # 0 /\ inFlight[walk.blocks[wait]] # p
                     THEN inFlight[walk.blocks[wait]] ELSE NoPeer]

\* The same as a set of one element
FindNextBlocksToDownload(p, s, count) ==
    {Found(p, w, count) : w \in {Walk(c, v) : c \in {CommonBlock(s)}, v \in {ToVisit(s)}}}

(***************************************************************************)
(* A connection comes and goes.                                            *)
(***************************************************************************)
IsConnected(p) == conn[p] \in {"up", "closing"}

\* ThreadMessageHandler is not in the middle of a block.
IsIdle == working \cap Peers = {}

\* Peers follow the rules of the chain, except that a slow one may be wrong.
MayFollow(p, b) == IsSound(b) \/ p \in Slow

\* InitializeNode and the VERSION message
Connect(p, b) ==
    /\ conn[p] = "new" /\ b \in FirstTips /\ MayFollow(p, b)
    /\ conn' = [conn EXCEPT ![p] = "up"]
    /\ remote' = [remote EXCEPT ![p] = b]
    /\ UNCHANGED <<chainVars, peerVars, ibd, working, spoilt, asked>>

\* The connection fails, or somebody sets fDisconnect.
Close(p) ==
    /\ conn[p] = "up"
    /\ conn' = [conn EXCEPT ![p] = "closing"]
    /\ asked' = [asked EXCEPT ![p] = <<>>]
    /\ UNCHANGED <<chainVars, peerVars, ibd, working, spoilt, remote>>

\* Mutant: the peer's blocks stay in flight.
FinalizeInFlight(p) == inFlight

FreeInFlight(p) == [b \in Blocks |-> IF \E e \in node[p].queue : e.block = b THEN NoPeer ELSE inFlight[b]]

ValidatedWithout(p) == validated - (IF node[p].valid # 0 THEN 1 ELSE 0)

\* Not while ThreadMessageHandler is at a block of the peer, which it then refers to
FinalizeNode(p) ==
    /\ conn[p] = "closing" /\ p \notin working
    /\ conn' = [conn EXCEPT ![p] = "gone"]
    /\ syncStarted' = syncStarted - (IF node[p].sync THEN 1 ELSE 0)
    /\ inFlight' = FreeInFlight(p)
    /\ validated' = ValidatedWithout(p)
    /\ node' = [node EXCEPT ![p] = NewNodeState]
    /\ remote' = [remote EXCEPT ![p] = Genesis]
    /\ UNCHANGED <<chainVars, ibd, working, spoilt, asked>>

(***************************************************************************)
(* SendMessages; late: the peer stalled for two seconds, or a block is in  *)
(* flight for too long.                                                    *)
(***************************************************************************)
\* Only a single peer is asked for headers, unless we are close to today.
Fetches(p) == p \in Preferred \/ \A q \in Preferred : ~IsConnected(q)
StartsSync(p) == ~node[p].sync /\ ((syncStarted = 0 /\ Fetches(p)) \/ bestHeader \in Recent)

IsInitialBlockDownload == ibd /\ (bestHeader \notin Recent \/ Height(tip) < Height(bestHeader) - IbdGap)

BeforeBest == IF bestHeader = Genesis THEN Genesis ELSE Parent[bestHeader]

MayFetch(p, drop) ==
    ~drop /\ (Fetches(p) \/ ~IsInitialBlockDownload) /\ node[p].count < MaxInTransit

SendMessages(p, late) ==
    /\ conn[p] = "up" /\ IsIdle
    /\ late => p \in Slow /\ (node[p].stalling \/ node[p].queue # {})
    /\ \E drop \in {late \/ node[p].shouldBan}, start \in {StartsSync(p)} :
       \E s \in {[ProcessBlockAvailability(node[p], index) EXCEPT !.sync = @ \/ start, !.shouldBan = FALSE]} :
       \E found \in IF MayFetch(p, drop) THEN FindNextBlocksToDownload(p, s, MaxInTransit - s.count)
                    ELSE {[blocks |-> <<>>, common |-> s.common, staller |-> NoPeer]} :
       \E d \in {MarkBlocksAsInFlight([Downloads EXCEPT !.node[p] = [s EXCEPT !.common = found.common]],
                                      p, ToSet(found.blocks), TRUE)} :
        /\ SetDownloads(IF found.staller # NoPeer /\ d.node[p].count = 0
                        THEN [d EXCEPT !.node[found.staller].stalling = TRUE] ELSE d)
        /\ syncStarted' = syncStarted + (IF start THEN 1 ELSE 0)
        /\ conn' = [conn EXCEPT ![p] = IF drop THEN "closing" ELSE @]
        /\ asked' = [asked EXCEPT ![p] =
              IF drop THEN <<>>
              ELSE @ \o (IF start THEN <<GetHeaders(BeforeBest, NoBlock)>> ELSE <<>>)
                     \o GetAllData(found.blocks)]
    /\ ibd' = IsInitialBlockDownload
    /\ UNCHANGED <<chainVars, working, spoilt, remote>>

(***************************************************************************)
(* HEADERS, as an answer (the request is no longer in rest) or not.        *)
(***************************************************************************)
IsRefusedHeader(h) == h \in failed \/ (h \notin index /\ Parent[h] \in failed)

\* Mutant: blocks that are in flight are asked for again.
DirectFetchAgain(last) == SelectSeq(Beyond(tip, last, Height(last)), IsMissing)

DirectFetchWants(last) == SelectSeq(Beyond(tip, last, Height(last)), IsWanted)

\* The walk back from the last header ended with one block too many in its hands,
\* and not on the active chain.
IsLargeReorg(want) == Len(want) > MaxInTransit
    /\ ~(Len(want) = MaxInTransit + 1 /\ Parent[want[1]] \in {Genesis} \cup ToSet(Path[tip]))

MayDirectFetch(last) == CanDirectFetch /\ last \notin failed /\ Height(tip) <= Height(last)

DirectFetch(last, want, count) ==
    IF MayDirectFetch(last) /\ ~IsLargeReorg(want) THEN UpTo(want, MaxInTransit - count) ELSE <<>>

\* Headers up to the first one refused are known from now on.
AcceptHeaders(good) ==
    /\ index' = index \cup ToSet(good)
    /\ bestHeader' = IF good # <<>> /\ Height(Last(good)) > Height(bestHeader) THEN Last(good) ELSE bestHeader

ReceiveHeaders(p, hs, rest) ==
    /\ \E stop \in {SelectInSeq(hs, IsRefusedHeader)} :
        /\ AcceptHeaders(Before(hs, stop))
        /\ IF stop # 0 \/ hs = <<>>
           THEN /\ asked' = [asked EXCEPT ![p] = rest]
                /\ node' = [node EXCEPT ![p].shouldBan = @ \/ (stop # 0 /\ hs[stop] \notin index)]
                /\ UNCHANGED <<inFlight, validated>>
           ELSE \E s \in {UpdateBlockAvailability(node[p], Last(hs), index \cup ToSet(hs))} :
                \E fetch \in {DirectFetch(Last(hs), DirectFetchWants(Last(hs)), s.count)} :
                    /\ SetDownloads(MarkBlocksAsInFlight([Downloads EXCEPT !.node[p] = s], p, ToSet(fetch), TRUE))
                    /\ asked' = [asked EXCEPT ![p] =
                          rest \o (IF Len(hs) = MaxHeaders THEN <<GetHeaders(Last(hs), NoBlock)>> ELSE <<>>)
                               \o GetAllData(fetch)]
    /\ UNCHANGED <<data, failed, tip, source, ibd, conn, working, spoilt, syncStarted>>

IsAskedFor(p, type) ==
    conn[p] = "up" /\ IsIdle /\ asked[p] # <<>> /\ Head(asked[p]).type = type

\* What a peer answers: from the fork with its chain, up to the block named or the limit
HeadersFrom(p, r) ==
    LET all == Beyond(r.from, remote[p], MaxHeaders)
        stop == SelectInSeq(all, LAMBDA b : b = r.block)
    IN  IF stop = 0 THEN all ELSE UpTo(all, stop)

AnswerHeaders(p) ==
    /\ IsAskedFor(p, "headers")
    /\ \E hs \in {HeadersFrom(p, Head(asked[p]))} : ReceiveHeaders(p, hs, Tail(asked[p]))
    /\ UNCHANGED remote

(***************************************************************************)
(* A peer has a new tip and says so: with its header where it knows that   *)
(* we have the one before, or in an INV.                                   *)
(***************************************************************************)
NewTip(p, b) ==
    /\ conn[p] = "up" /\ IsIdle /\ b \in Announced /\ MayFollow(p, b)
    /\ b # remote[p] /\ Height(b) > Height(remote[p])
    /\ remote' = [remote EXCEPT ![p] = b]

AnnounceHeader(p, b) ==
    /\ NewTip(p, b) /\ Parent[b] \in index
    /\ ReceiveHeaders(p, <<b>>, asked[p])

\* The loop over an INV: each block is marked here and fetched only after the last.
InvStep(p, r, b) ==
    LET d == [r.downloads EXCEPT !.node[p] = UpdateBlockAvailability(@, b, index)]
        ask == Append(r.asks, GetHeaders(bestHeader, b))
    IN  IF b \in index \/ d.inFlight[b] # NoPeer
        THEN [r EXCEPT !.downloads = d]
        ELSE IF CanDirectFetch /\ d.node[p].count < MaxInTransit
        THEN [downloads |-> MarkBlocksAsInFlight(d, p, {b}, FALSE),
              asks |-> ask, fetch |-> Append(r.fetch, GetData(b))]
        ELSE [r EXCEPT !.downloads = d, !.asks = ask]

\* full: the send buffer is over twice its limit after the last of bs, and the
\* handler returns.  That is half of what a peer is banned for.
ReceiveInv(p, bs, full) ==
    LET start == [downloads |-> Downloads, asks |-> <<>>, fetch |-> <<>>]
    IN  \E r \in {FoldLeft(LAMBDA acc, b : InvStep(p, acc, b), start, bs)} :
            /\ SetDownloads(IF full THEN [r.downloads EXCEPT
                    !.node[p].shouldBan = @ \/ node[p].misbehaved, !.node[p].misbehaved = TRUE]
                             ELSE r.downloads)
            /\ asked' = [asked EXCEPT ![p] = @ \o r.asks \o IF full THEN <<>> ELSE r.fetch]

\* The blocks a peer has since its last tip; a slow one may list more of its chain.
\* Only one that does not read what it is sent lets the send buffer fill.
AnnounceInv(p, b) ==
    /\ NewTip(p, b)
    /\ \E h \in (Height(b) - MaxInv)..(Height(b) - 1) :
        /\ h >= IF p \in Slow THEN 0 ELSE ForkHeight(b, remote[p])
        /\ \/ ReceiveInv(p, SubSeq(Path[b], h + 1, Height(b)), FALSE)
           \/ p \in Slow /\ \E k \in (h + 1)..Height(b) : ReceiveInv(p, SubSeq(Path[b], h + 1, k), TRUE)
    /\ UNCHANGED <<chainVars, ibd, conn, working, spoilt, syncStarted>>

(***************************************************************************)
(* BLOCK.                                                                  *)
(***************************************************************************)
\* Blocks AcceptBlockHeader refuses, and those the sender is banned for
HeaderRefused(b) == b \in failed \/ (b \notin index /\ Parent[b] \notin index \ failed)
HeaderBans(b) == b \notin index /\ Parent[b] \in failed

\* The tip becomes the best of the blocks that are linked; what is tried on the way
\* and turns out invalid is marked, and its sender banned if it is still there.
ActivateBestChain(p) ==
    /\ p \in working
    /\ working' = working \ {p}
    /\ \E linked \in {{c \in data : IsLinked(c, data)}} :
       \E best \in {{c \in linked : IsSound(c) /\ \A e \in linked : IsSound(e) => Height(e) <= Height(c)}} :
       \E top \in IF tip \in best THEN {tip} ELSE best :
       \E invalid \in {{a \in Blocks : ~IsSound(a) /\
                           \E c \in linked : Height(c) > Height(top) /\ a \in ToSet(Path[c])}} :
           /\ tip' = top
           /\ failed' = failed \cup invalid
           /\ node' = [q \in Peers |-> [node[q] EXCEPT !.shouldBan = @ \/ (IsConnected(q)
                           /\ \E b \in Bad \cap (invalid \ failed) : source[b] = q)]]
    /\ UNCHANGED <<index, data, bestHeader, source, inFlight, validated, syncStarted>>
    /\ UNCHANGED <<ibd, conn, spoilt, asked, remote>>

\* mapBlockSource after a block with a known header came from p
SourceOf(p, b, refused) ==
    IF b \in Bad /\ p # NoPeer /\ (b \in index \/ ~refused) THEN [source EXCEPT ![b] = p] ELSE source

\* As far as AcceptBlock, of a block that CheckBlock passes.  p: the sender, or NoPeer.
ProcessNewBlock(p, b) ==
    /\ \E refused \in {HeaderRefused(b)}, ds \in {MarkBlockAsReceived(Downloads, b)} :
        /\ source' = SourceOf(p, b, refused)
        /\ AcceptHeaders(IF refused THEN <<>> ELSE <<b>>)
        /\ SetDownloads(IF p # NoPeer /\ HeaderBans(b) THEN [ds EXCEPT !.node[p].shouldBan = TRUE] ELSE ds)
        /\ data' = IF ~refused /\ (inFlight[b] # NoPeer \/ p = NoPeer \/ Height(b) > Height(tip))
                   THEN data \cup {b} ELSE data
        /\ working' = IF refused THEN working ELSE working \cup {p}
    /\ UNCHANGED <<tip, failed, ibd, conn, spoilt, syncStarted, remote>>

\* A copy that CheckBlock refuses takes the block's mark, whoever was asked for it, and
\* has its sender banned.  Without a mark there is only the ban, left to Close.
ReceiveMalformed(p, b) ==
    /\ p \in Slow /\ conn[p] = "up" /\ IsIdle
    /\ b \in Malformed \ spoilt /\ inFlight[b] # NoPeer
    /\ SetDownloads([MarkBlockAsReceived(Downloads, b) EXCEPT !.node[p].shouldBan = TRUE])
    /\ spoilt' = spoilt \cup {b}
    /\ UNCHANGED <<chainVars, syncStarted, ibd, conn, working, asked, remote>>

AnswerBlock(p) ==
    /\ IsAskedFor(p, "data")
    /\ asked' = [asked EXCEPT ![p] = Tail(@)]
    /\ ProcessNewBlock(p, Head(asked[p]).block)

\* A block that was made here, on the tip: by the miner, or for submitblock
SubmitBlock(b) ==
    /\ b \in Submitted \ data /\ Parent[b] = tip /\ NoPeer \notin working
    /\ ProcessNewBlock(NoPeer, b)
    /\ UNCHANGED asked

(***************************************************************************)
(* The specification.                                                      *)
(***************************************************************************)
Init ==
    /\ index = {Genesis} /\ data = {Genesis} /\ failed = {}
    /\ tip = Genesis /\ bestHeader = Genesis /\ ibd = TRUE
    /\ conn = [p \in Peers |-> "new"]
    /\ node = [p \in Peers |-> NewNodeState]
    /\ inFlight = [b \in Blocks |-> NoPeer]
    /\ validated = 0 /\ syncStarted = 0
    /\ source = [b \in Bad |-> NoPeer]
    /\ working = {} /\ spoilt = {}
    /\ asked = [p \in Peers |-> <<>>]
    /\ remote = [p \in Peers |-> Genesis]

Answer(p) == AnswerHeaders(p) \/ AnswerBlock(p)

Next ==
    \/ \E p \in Peers, b \in Blocks : Connect(p, b) \/ AnnounceHeader(p, b) \/ AnnounceInv(p, b)
    \/ \E p \in Peers : Close(p) \/ FinalizeNode(p) \/ Answer(p)
    \/ \E p \in Peers, late \in BOOLEAN : SendMessages(p, late)
    \/ \E p \in Peers, b \in Blocks : ReceiveMalformed(p, b)
    \/ \E b \in Blocks : SubmitBlock(b)
    \/ \E p \in Peers \cup {NoPeer} : ActivateBestChain(p)

\* ThreadMessageHandler reads from every peer and calls SendMessages for it, again
\* and again; ThreadSocketHandler deletes what is disconnected; whoever stored a block
\* goes on to activate its chain.
Fairness ==
    /\ \A p \in Peers \cup {NoPeer} : WF_vars(ActivateBestChain(p))
    /\ \A p \in Peers : WF_vars(FinalizeNode(p))
    /\ \A p \in Peers \ Slow : WF_vars(SendMessages(p, FALSE)) /\ WF_vars(Answer(p))
    /\ \A p \in Slow : WF_vars(SendMessages(p, TRUE))

Spec == Init /\ [][Next]_vars /\ Fairness

(***************************************************************************)
(* Properties.                                                             *)
(***************************************************************************)
\* Only the types: what mapNodeState and mapBlocksInFlight may hold.
TypeOK ==
    /\ index \subseteq Blocks /\ data \subseteq index /\ failed \subseteq index
    /\ tip \in data /\ bestHeader \in index /\ ibd \in BOOLEAN
    /\ conn \in [Peers -> {"new", "up", "closing", "gone"}]
    /\ node \in [Peers -> [best : Blocks \cup {NoBlock}, unknown : Blocks \cup {NoBlock},
                           common : Blocks \cup {NoBlock}, sync : BOOLEAN, stalling : BOOLEAN,
                           misbehaved : BOOLEAN, shouldBan : BOOLEAN, queue : SUBSET [block : Blocks, known : BOOLEAN],
                           count : 0..MaxInTransit, valid : 0..MaxInTransit]]
    /\ inFlight \in [Blocks -> Peers \cup {NoPeer}]
    /\ validated \in 0..Cardinality(Peers) /\ syncStarted \in 0..Cardinality(Peers)
    /\ source \in [Bad -> Peers \cup {NoPeer}]
    /\ working \subseteq Peers \cup {NoPeer} /\ Cardinality(working \cap Peers) <= 1
    /\ spoilt \subseteq Blocks
    /\ \A p \in Peers : \A i \in DOMAIN asked[p] :
          asked[p][i] \in [type : {"headers", "data"}, from : Blocks \cup {NoBlock},
                           block : Blocks \cup {NoBlock}]
    /\ remote \in [Peers -> Blocks]

\* mapBlocksInFlight, the queues of the peers and all counters agree, and a peer
\* that is gone leaves nothing: what FinalizeNode asserts when the last one leaves
\* (main.cpp:357-366), at any moment.
AccountsAgree ==
    /\ \A p \in Peers :
          /\ {e.block : e \in node[p].queue} = {b \in Blocks : inFlight[b] = p}
          /\ Cardinality(node[p].queue) = node[p].count
          /\ Cardinality({e \in node[p].queue : e.known}) = node[p].valid
          /\ ~IsConnected(p) => node[p] = NewNodeState
    /\ Cardinality({p \in Peers : node[p].valid > 0}) = validated
    /\ Cardinality({p \in Peers : node[p].sync}) = syncStarted

\* A block in flight from a connected peer has a request on its way, whatever its peer
\* and the others send meanwhile.  Marks are set before the getdata (main.cpp:6319-6324,
\* 6790-6802, 7545-7550), and an INV may end between them (main.cpp:6338): then, and only
\* then, nothing was asked, of a block whose header nobody knew.
MarkedIsAsked == \A p \in Peers : conn[p] = "up" => \A e \in node[p].queue :
    \/ \E i \in DOMAIN asked[p] : asked[p][i] = GetData(e.block)
    \/ ~e.known /\ node[p].misbehaved

\* No block is asked from two connected peers, unless it arrived some other way
\* meanwhile or lost its mark to a malformed copy: the INV, HEADERS and SendMessages
\* paths all look at mapBlocksInFlight, which ProcessNewBlock clears before it looks at
\* what CheckBlock said (main.cpp:4678).
EachBlockAskedOnce == \A p, q \in Peers : p # q => \A b \in Blocks \ (data \cup spoilt) :
    ~((\E i \in DOMAIN asked[p] : asked[p][i] = GetData(b))
      /\ (\E i \in DOMAIN asked[q] : asked[q][i] = GetData(b)))

\* "The last full block we both have" (main.cpp:269): the window of a peer starts
\* at a block that is there with all before it.
CommonIsFull == \A p \in Peers : node[p].common # NoBlock => IsLinked(node[p].common, data)

\* A peer that is about to be dropped for stalling still owes us a block.
StallersOwe == \A p \in Peers : node[p].stalling => node[p].queue # {}

\* What the maps, queues and counters of the download say of each other.
DownloadStateIsSound == TypeOK /\ AccountsAgree /\ CommonIsFull /\ StallersOwe

\* What is marked in flight and what was asked for are the same.
RequestsAgree == MarkedIsAsked /\ EachBlockAskedOnce

\* Whatever a preferred peer that answers is known to have, we catch up with while
\* it stays, whatever the other peers do with the blocks they were asked for, or are
\* marked for without having been asked (main.cpp:6338).
IsBehind(p) == conn[p] = "up" /\ node[p].best # NoBlock
               /\ (node[p].best # NoBlock => IsSound(node[p].best) /\ Height(tip) < Height(node[p].best))

CatchesUp == \A p \in Preferred \ Slow : IsBehind(p) ~> ~IsBehind(p)
=============================================================================
