# A TLA+ model of the Ulord node

The repository (`src/Blockchain`) is the Ulord full node: a fork of the Bitcoin
and Dash code bases with the LBRY claim trie (names bound to claims whose stake
decides who owns them). This directory holds TLA+ modules that model the parts of
the node whose correctness depends on order, interleaving or accumulated state,
TLC configurations that check them on small instances, and TLAPS proofs that hold
for every value of the constants. `PROJECT.json` maps each definition to the
lines it models and lists components, runs, mutants, hazards and theorems.

## 1. The system

### 1.1 Inventory

| Component | Source | State it keeps | Operations | Hard behaviour | What makes it correct |
|---|---|---|---|---|---|
| Script check queue | `checkqueue.h`, `main.cpp` | `queue`, `nTodo`, `nIdle`, `nTotal`, `fAllOk` | Add, Loop, Wait, control construction | threads, two condition variables, work outside the mutex | the verdict is exact, Wait returns, every round starts idle |
| Claim trie | `claimtrie.cpp/.h`, `main.cpp`, `miner.cpp` | trie of names, activation queues by height and by name, expiration queues, supports, takeover heights, per-block cache | addClaim, spendClaim, undoAddClaim, undoSpendClaim, the support versions, incrementBlock, decrementBlock, finalizeDecrement, flush | two copies of every queue; a cache over a base trie; order of the sub-steps of a block; inversion when a block is disconnected | copies agree, every live claim is in one place, takeovers are recorded when the owner changes, disconnecting restores |
| Coins views | `coins.cpp/.h`, `txdb.cpp`, `main.cpp` | entries with DIRTY and FRESH over a backing view, best block | ModifyCoins, ModifyNewCoins, BatchWrite, Flush, Uncache, undo | layered caches, crash between flushes, failed writes | the stack behaves as a set of unspent outputs |
| Scheduler | `scheduler.cpp/.h` | time-ordered queue, serving threads, stop flags | schedule, serviceQueue, stop | several service threads, draining stop, interruption | no task early, every task runs, stop ends |
| Chain state | `main.cpp`, `chain.cpp`, `txdb.cpp` | block index with its flags and `nSequenceId`, `chainActive`, `setBlockIndexCandidates`, `mapBlocksUnlinked`, dirty entries, the two databases | AcceptBlockHeader, AcceptBlock, ActivateBestChainStep, InvalidateBlock, ReprocessBlocks, pruning, FlushStateToDisk, LoadBlockIndexDB | blocks out of order, reorganisation in steps that may fail half-way, `cs_main` given up between steps, crash between the two writes | the tip is the best chain that is complete and not refused; nothing downloaded is forgotten; the node starts again |
| Memory pool | `txmempool.cpp/.h`, `main.cpp` | `mapTx`, `mapLinks`, `mapNextTx`, descendant sums, `mapDeltas` | addUnchecked, remove, removeForBlock, UpdateTransactionsFromBlock, TrimToSize, Expire, PrioritiseTransaction | transactions that come back below their children; three indices in step | links, sums and `mapNextTx` agree with the transactions; no conflicts; a block removes what it must and no more |
| InstantSend | `instantx.cpp/.h`, `main.cpp` | lock candidates, votes, orphan votes, voted and locked outpoints | ProcessTxLockRequest, Vote, ProcessTxLockVote, TryToFinalizeLockCandidate, SyncTransaction, CheckAndRemove | votes before requests, conflicting requests, reorganisations, expiry, restart without memory | no two nodes lock an outpoint for different transactions; the maps agree |
| PrivSend | `privsend.cpp/.h` | masternode's session and entries; client's session, entry and locked coins | DSACCEPT, DSVIN, DSSIGNFINALTX, DSSTATUSUPDATE, DSFINALTX, DSCOMPLETE, time-outs | messages without a session number, two threads without a common lock, both sides time out on their own | a mix that is committed was signed by everyone in it; coins are locked while needed and not longer |
| Masternode payments | `masternode-payments.cpp/.h` | votes seen, verified and counted per height, last vote of a masternode | ProcessBlock, MASTERNODEPAYMENTVOTE, IsTransactionValid, FillBlockPayee, CheckAndRemove | votes early, late, twice, forged, from a masternode not in the list; restarts and crashes | a vote counts once; nodes do not split over a payee |
| Block download | `main.cpp`, `net.cpp` | `CNodeState`, `mapBlocksInFlight`, counters over all peers | INV, HEADERS and BLOCK messages, SendMessages, FinalizeNode | several peers share the blocks, slow ones are dropped with blocks in flight | counters and queues agree, no block asked for twice, the node catches up |
| Masternode synchronisation | `masternode-sync.cpp/.h`, `netfulfilledman.cpp` | asset, attempts, time stamps | ProcessTick, SwitchToNextAsset, Reset, ProcessMessage | time-outs, restart after sleep | it finishes or fails, never hangs |
| Bounded containers | `cachemap.h`, `cachemultimap.h`, `limitedmap.h` | list plus index | Insert, Erase, SetMaxSize | limit reached, two structures in step | index and list agree, size bounded |
| HTTP work queue | `httpserver.cpp` | queue, running flag, worker count | Enqueue, Run, Interrupt, WaitExit | bounded queue, shutdown | all accepted work is done or dropped, exit returns |
| Masternode list, governance | `masternode*.cpp`, `governance*.cpp` | states, votes, objects | message handlers, checks | expiry, orphan votes | |

The remaining parts (sockets, wallet, script interpreter, RPC, cryptography, the
unfinished `Gateway/` and `smux/`) are listed in `PROJECT.json` with the reason
they are left out.

### 1.2 How the parts interact

`ActivateBestChain` connects and disconnects blocks under `cs_main`. For each
block, `ConnectTip` opens a `CCoinsViewCache` and a `CClaimTrieCache`;
`ConnectBlock` spends inputs and adds outputs in both, hands the script checks to
the check queue, ends with `incrementBlock`, and waits for the verdict; a good
block is flushed into `pcoinsTip` and `pclaimTrie`. `DisconnectTip` runs the
inverse from undo data. `FlushStateToDisk` writes claim trie and coins into two
databases, from the scheduler, after a block, or at shutdown. The memory pool and
InstantSend read `pcoinsTip` and are told of every connected transaction. A block
is refused by `ConnectBlock` also for its payee (masternode payments) and for a
transaction that conflicts with a completed lock (InstantSend), so what a block is
worth changes with votes; `ReprocessBlocks` takes a block back after such a change.
The block download decides in which order blocks reach `AcceptBlock`, and marks what
it asked for until it arrives or the peer is gone. Network messages are handled by
one thread (`ThreadMessageHandler`) under `cs_main`; the masternode services have
threads of their own for time-outs.

### 1.3 What is hard to test

The full list is under `hazards` in `PROJECT.json`. The themes: work outside a
mutex and condition variables (check queue, scheduler); several copies of one
fact (queues of the claim trie, flags of the coins caches); the order of
sub-steps in a block; undo; crashes and failed writes between two steps; blocks,
votes and transactions that arrive before what they depend on; messages of an old
session in a new one; peers that do not answer; voters that forget.

## 2. Modules

| Module | Models | Extends |
|---|---|---|
| `CheckQueue` | `CCheckQueue`, `CCheckQueueControl` | |
| `CheckQueueProofs` | theorems about it | `CheckQueue` |
| `ClaimTrie` | `CClaimTrie`, `CClaimTrieCache`, their use by ConnectBlock and DisconnectBlock | |
| `ClaimTrieProofs` | theorems about connecting blocks | `ClaimTrie` |
| `Transactions` | `CTransaction`, `CCoins` | |
| `UtxoSet` | abstract specification: plain sets of unspent outputs for database, tip and open block | `Transactions` |
| `CoinsViews` | `CCoinsViewCache` over `CCoinsViewCache` over `CCoinsViewDB`, with flushes, failures and crashes | `Transactions`, instance of `UtxoSet` |
| `CoinsViewsProofs` | theorems, refinement included | `CoinsViews` |
| `Scheduler` | `CScheduler` and its service threads | |
| `SchedulerProofs` | theorems about it | `Scheduler` |
| `ChainState` | block index, candidates, `ActivateBestChain`, pruning, flush, crash and start | |
| `ChainStateProofs` | theorems about it | `ChainState` |
| `MemPool` | `CTxMemPool` | |
| `InstantSend` | `CInstantSend` on several nodes, and their chains | |
| `InstantSendProofs` | theorems about it | `InstantSend` |
| `PrivSend` | `CPrivSendPool` of a masternode and of its clients, and the messages between | |
| `PrivSendProofs` | theorems about it | `PrivSend` |
| `MasternodePayments` | `CMasternodePayments` on several nodes | |
| `MasternodePaymentsProofs` | theorems about it | `MasternodePayments` |
| `BlockDownload` | `CNodeState`, `mapBlocksInFlight`, the messages that change them, the life of a connection | |
| `MC...` | constants for TLC | |

A definition whose comment begins with "Mutant" is a wrong version of the one
after it; it is used by no specification and is there to show that a property
notices the difference.

### 2.1 CheckQueue

State: the queue, `nTodo`, `nIdle`, `nTotal`, `fAllOk`, for each thread its place
(`pc`), batch and local `fOk`, and, for the properties, which checks of the round
were added and which are invalid. The code holds the mutex in one block per turn
of `Loop`; that block is one action here: `Return`, `Block` or `Take`, each
beginning with the clean-up of the batch just verified (`TodoAfterCleanUp`,
`OkAfterCleanUp`). `Verify` runs outside the mutex. Condition variables are exact:
a thread is `waiting` until a notification or a spurious wake-up makes it `woken`,
and `notify_one` picks any waiter. A check is only its verdict, chosen when
the round begins.

### 2.2 ClaimTrie

`base` is the committed trie and `cache` the view through `CClaimTrieCache`; both
are records with the claims and supports in force, both activation queues, the
expiration queue, takeover heights and the current height. Claims and supports
share no output, so the pairs of structures the code keeps for them are one set
told apart by `KindOf`. A block is connected operation by operation
(`ConnectInput`, `ConnectOutput`), then `FinishTransactions` performs
`incrementBlock` in the order of the code: activate the rows of this height,
expire, decide takeovers, activate what waits for names taken over, set takeover
heights. `FlushConnected` commits; `Abandon` drops the cache (an invalid block, or
`CreateNewBlock` and `TestBlockValidity`). `BeginDisconnect`, `UndoOperation` and
`FlushDisconnected` are the inverse from undo data. `crashed` is an assertion of
the code that fails.

What depends on where a node comes from is kept: `reorderTrieNode` looks for a
name that is not in the cache in the base trie even when the cache has removed it
(`Reorder`), and `getOriginalInfoForName` sees only what was copied
(`OriginalTop`). Names are atoms without common prefixes; the Merkle hash is left
out.

### 2.3 CoinsViews

A cache maps transaction ids to coins with flags DIRTY and FRESH. `Fetch`,
`Modify`, `ModifyNew`, `BatchWriteEntry` and `WrittenCoins` are `FetchCoins`,
`ModifyCoins` with the modifier's destructor, `ModifyNewCoins`, one turn of
`BatchWrite`, and the database's batch. Blocks are connected and disconnected
transaction by transaction; `WriteTrie` and `WriteCoins` are the two writes of
`FlushStateToDisk`; `WriteFails` is a failed batch and `ShutdownWrites` the flush
of the shutdown after it; `Crash` may happen at any moment and restarts from the
databases, or with `CrashAndReindex` from nothing.

`CCoinsViewDB::GetCoins` (`txdb.cpp:40`) has another signature than the virtual function
and hides it, so that a cache over the database reads `CCoinsView::GetCoins`, which
finds nothing (`BaseGet`). The model follows: coins are found in `pcoinsTip` until the
next flush and never after it. What then holds is what the properties say. Between
blocks `pcoinsTip` answers exactly what the blocks since the last flush leave unspent
(`TipIsNewBlocks`); a block that was written cannot be disconnected unless none of its
transactions left an output (`WrittenBlocksStay`, `OnlyWrittenIsUnclean`), so
a reorganisation goes no further back than the last flush; the database is
nevertheless that of its chain (`DiskIsChainState`) until a write fails, because a batch
carries only coins that the blocks since the last one made. A start whose
`VerifyDB` looks at coins (`-checklevel` 3, the default) takes the database for
corrupted and wipes it (`init.cpp:1499`).

A block hash is the chain it names, so "the coins on disk belong to the best
block on disk" is an equation with `UtxoOf`, which says of a chain what it makes and
does not spend.

### 2.4 Scheduler

Times are kept as what is left of them, so `Tick` counts them down and no clock
grows. A thread in `wait_until` keeps the task whose time it passed: the
argument is a reference into the multimap, so when another thread erases that
entry the wait may end at any moment (`Erased`; reading the freed element is
undefined, and every outcome is possible). The node starts one service thread
(`init.cpp`); the class is written for several, and its test runs several.

### 2.5 ChainState

`index` is what goes to disk of `mapBlockIndex` (known headers, data, files, failure
flags); `linked` (`nChainTx # 0`), `seq`, `cand`, `unlinked` and `tip` are rebuilt on a
start. `step` is what the holder of `cs_main` is doing: `ActivateBestChainStep` is
one action per block disconnected or connected (`StepDisconnects`,
`StepConnects`, `StepRefuses`, `StepCannotRead`), because each may write to disk and
the node may crash there; between two steps other threads run. `FlushIfNeeded` is
`FlushStateToDisk`, which may write nothing, the index, or index and coins, and
prune; `CrashIndexes` lists what a crash can leave of it. `LoadBlockIndexDB` rebuilds
the rest. A block's contents are its verdicts; a `Disputed` block is refused or not
as votes and locks stand. `Address` gives the order of two blocks with equal work
and number, which the code takes from their addresses. Three history variables serve
the properties: `forgiven` holds the entries whose failure `ReconsiderBlock` forgot
since the last start, `tips` the blocks that were the tip since the candidates were last
gathered from the whole index, `past` which kinds of rare events have happened.

The properties of the candidates say of each block why it may be missing there. It is
`Barred` when it has failed, an entry between it and the active chain has failed or has
no data, or a failure below it was forgotten; it is `Eclipsed` when it lost to a block that
was the tip and is barred now (section 5). Any other linked block that is better than the
tip of a node at rest would be a best chain that is not active.

### 2.6 MemPool

`Pool` is a record with one function per field of an entry; `UpdateTransactionsFromBlock`
and `UpdateForDescendants` are translated with their limit (`MaxVisit`), behind which an
entry is dirty. The module drives the class as its comments and tests say. In the
node itself nothing is ever added, because `AcceptToMemoryPool` returns early
(section 5), and `InstantSend` therefore takes the pool as empty.

### 2.7 InstantSend

Each node has one set or function per map of `CInstantSend`. A request is handled in
steps: `ReceiveRequest`, one `ProcessOrphanVote` or `ForgetOrphanVote` per orphan in any
order, `FinishRequest`, then, after the locks were given up, `AcceptRequest`. Votes in
`sent` reach any node at any time, any number of times or never. `ConnectTip` and
`DisconnectTip` move a node's own chain and run `SyncTransaction`; `CheckAndRemove`
forgets; `Restart` empties every map but keeps the chain.
Assumed: masternodes follow the code, both sporks are on, and no reorganisation is
deeper than the age at which candidates are forgotten (`buried`).

### 2.8 PrivSend

`pool` is the masternode's object, `client` the clients'; every connection is a queue in
each direction. DSACCEPT is two actions (the pool changes, then the answer is sent),
`SubmitDenominate` three (`step`): the checking thread may reset the pool between them.
Time-outs may happen at any moment. An entry is a client and the number of its
attempt; a signature is the mix that was signed.

### 2.9 MasternodePayments

`blocks` keeps the votes in the order they were counted, because the payee first
voted for wins a tie. Masternodes outside `Nodes` may sign any vote. `ReceiveVote` and
`ReceiveForged` are the handler for a vote with the right and with a wrong signature; they
share `Receives`, which is what it does before `CheckSignature`: the early entry in
`mapMasternodePaymentVotes` and the masternode's last vote. A forged vote has the hash of
the genuine one. `file` is what a start finds: `Restart` is an orderly shutdown and the
next start, which skips `mnpayments.dat` when `mncache.dat` has no masternodes; `Crash` falls
back to the files of the last orderly shutdown. Who voted last is in no file. A started node
takes votes again when it has synchronised its list, which is therefore left as it was.

### 2.10 BlockDownload

`node` is `mapNodeState`, `asked` the requests a peer has not answered. Every message
handler and `SendMessages` are one action each, under `cs_main`; only `ProcessNewBlock`
gives it up between storing a block and `ActivateBestChain` (`working`), and meanwhile
peers go and a block is made here, but `ThreadMessageHandler` does nothing else (`IsIdle`).
An INV lists several blocks (`InvStep`) and may end before its GETDATA (`ReceiveInv`,
`full`); `ReceiveMalformed` is a block whose mark is taken before `CheckBlock`'s verdict counts.
`FindNextBlocksToDownload` is cut into `ToVisit`, `Walk` and `Found`; `Downloads` is what
`MarkBlockAsReceived` and `MarkBlocksAsInFlight` change. A peer answers in order, with what its chain
is when it answers. `Slow` peers may stop until the time-out, not read what they are sent, and
send malformed copies;
`SendMessages(p, late)` with `late` TRUE is the call in which the time has passed.

## 3. Runs

| Run | Checks | Bounds |
|---|---|---|
| `check_queue` | exact verdict, exact `nTodo`, idle start, Wait returns | 4 checks, 2 workers, batch of 2: batches of one and of two, workers idle while others hold a batch, rounds after a failed round |
| `claim_trie_claims` | queues agree, nothing stranded, `TrieIsSound` (no failed assertion, each live claim in one place), `TakeoversAreRight` (height, and an empty queue) | two competing claims and an update, delay at most 2, expiry after 3, 6 blocks: activation by row, by takeover, expiry while waiting |
| `claim_trie_supports` | the same with supports that are spent | two claims, two supports |
| `claim_trie_reorg` | `TrieIsSound`, disconnecting restores the trie | no delays (with delays it does not, section 5), expiry, two disconnected blocks |
| `coins_views` | flags, `CoinsAreChainState` (tip, disk, what can be disconnected), a crash parts trie and coins only inside a flush, refinement of `UtxoSet` | 4 transactions (a coinbase with two outputs, chains of spends), 3 blocks of at most 3, 3 disconnects, 1 crash, reindex or failed write |
| `scheduler` | type, every task runs, stop ends service, early only after another thread erased the awaited task | 2 threads, 2 tasks and a repeating one |
| `chain_state` | `IndexIsComplete`, `CandidatesAreRight`, `StartsAfterCrash`, `StepsKeepOrder` | a branch of two blocks and a better one of one block, both disputed at their foot, two events (write, crash, invalidation, reprocessing of up to two blocks, changed verdict), a file for each block, one block kept |
| `mempool` | `PoolIsConsistent`, `DescendantsAreExact`, a block removes its conflicts only | 6 transactions: a chain of four with a double link, a branch, a double spend; 3 blocks of at most 3, one transaction visited before an entry is dirty |
| `instant_send` | `LocksAgree`, `BooksAgree`, `VotesOnce` | two masternodes, one for each outpoint, two conflicting requests, four events (blocks, clean-ups, restarts) |
| `privsend` | `MixesAreSigned`, `MixesAreUniform`, `CoinsAreHeld` | 3 clients for 2 places, 2 denominations, 3 attempts |
| `masternode_payments` | `VotesAreBooked`, `PayeesAgree`, `EnforcedStays` | a masternode and a node, two masternodes outside, two of three vote and both must, 2 tips, three votes that may be forged, two votes of outsiders; one event (replaced tip, changed list, restart, crash or first forged copy) |
| `block_download` | `DownloadStateIsSound`, `RequestsAgree`, catching up | a peer that answers and a slow one, a chain of two blocks and a bad fork of it, a window of one, two blocks in transit, INVs of two, one malformed copy, one block made here |

The bounds are chosen so that each alternative of each action occurs with every
other: two workers are the fewest with which a batch is held while another
thread blocks, and four checks the fewest with which a batch has two; three
blocks and three disconnects the fewest with which a coin is made, flushed, made and spent
again over the one in the database, unspent and made once more; six blocks let a claim wait, be overtaken and expire; a
branch of two blocks against a better one of one are the fewest with which a tip that is
refused later eclipses a branch, a failed entry has a descendant to mark, and a
reorganisation finds the file of its target pruned; a chain of four transactions the fewest in which a block
takes the middle and returns it between parent and child; three clients for two
places the fewest in which a session fills with others than those of the one
before; a window of one over two blocks the fewest in which it does not move
while a block is missing. With one voter per outpoint, `instant_send` examines the
order of requests, votes, blocks and restarts; that two larger sets of voters meet
is arithmetic (`2 * Required > Total`).

`DiskIsChainState` stops at the shutdown after a failed write, which stores the new best
block without the coins of the refused batch (`init.cpp:247`, `txdb.cpp:69`); the other
parts of `CoinsAreChainState` and the refinement hold there too (a failed write loses
what the tip had, it never stores a part of it). `CandidatesAreRight` excepts blocks that are barred or eclipsed, one by one, and
(`Ordinary`) histories in which a block that is a candidate or was the tip got a new number
after its file was pruned; `StepsGoForward` lets a tip give way, after such a renumbering only,
to one of the same work; `FailureHasACause` stops where `ReconsiderBlock` was called;
`LinkedIsRight` and `WaitersAreFound` except chains with a failure that it forgot.
`StartsAfterCrash` excepts nothing: it says when the assertion fails. What the exceptions
hide is listed in section 5. `chain_state` was also run on larger instances that take
too long to repeat every time: two branches of two blocks with files of one, two and three
blocks, three branches, and trees of four blocks with three events.

A property whose name is a conjunction (`CoinsAreChainState`, `PoolIsConsistent`, ...)
is there to be checked together; its parts keep their own names and comments.

**Fairness.** `check_queue` assumes weak fairness of each thread's step:
threads are preemptively scheduled, and the mutex is free between steps; nothing
is assumed of spurious wake-ups or of the client beyond calling Wait. The
scheduler run assumes weak fairness of each service thread's steps, of time
passing, and of a wait that is due ending. That a client stops or interrupts is
never assumed. `block_download` assumes that `ThreadMessageHandler` calls
`SendMessages` for every peer again and again and reads what a peer sent
(`net.cpp:1795`), that whoever stored a block activates its chain, that `ThreadSocketHandler` deletes what is disconnected
(`net.cpp:1041`), that a peer outside `Slow` answers, and, for a slow peer, only that the
time of a time-out passes (`main.cpp:7512`); that a slow peer answers, leaves or is
banned is never assumed. The other runs have no liveness property and assume
nothing.

Deadlock is checked in the first six runs; the claim trie stutters explicitly when
its last block is reached (`Stopped`), a bound of the model. In the others a
bound on events may leave a node with nothing to do, and a node that has aborted
really stops.

## 4. Proofs

All are invariance or step-simulation proofs, for every value of the constants
that satisfies the named assumptions.

**CheckQueueProofs** (any number of checks, workers and batch size; `Checks` and
`Workers` finite). `TypeCorrect`, `TodoCorrect`, `VerdictCorrect`, `ControlIdle`. None
of the properties is inductive: that the verdict is exact needs to know that a
check that is neither queued nor in a batch was verified and, if invalid, cleared
`fAllOk` or is about to (a thread's own `fOk`). `IInv` adds that batches are disjoint
from each other and from the queue, that a thread holds a batch only while it
works on it, that `nTotal` and `nIdle` count the threads in the loop and in the
waits, and what `fAllOk` says about the checks no longer outstanding. One lemma
per action; the clean-up that begins three of them is the lemma `CriticalSection`.

**ClaimTrieProofs** (any names, outputs, amounts, delays). For `ForwardSpec`, the
specification without disconnects: `TrieTypeCorrect`, `QueuesAlwaysAgree`,
`NoClaimStranded`. The invariant `ForwardInv` says that both queues hold the same
entries, that an output has one entry, that no entry waits longer than the
maximum delay and, at rest, that no entry is at or below the height, and
that what waits was added by the chain or the block in hand. Every helper either
leaves the queues alone (`SameQueues`) or removes the same entries from both
(`Shrunk`); `incrementBlock` is a chain of such steps. Disconnecting is excluded
because with delays the code does not keep these facts (section 5).

`TrieStaysSound` adds `TrieIsSound`: no assertion on `incrementBlock` or `flush` fails and
each output is in one place, exactly while it is unspent and has not expired. Its
hypothesis `Apart` is that no claim of a name that some output supports is spent or
expires; names without supports are free. `claim_trie_claims` and `claim_trie_supports`
are instances of it. Without it `reorderTrieNode` may bring a claim
back (section 5). The invariant `PlaceInv` says of base and cache that an output is active or
queued, once, under its coin's height, if and only if it waits in its expiration row
(`OnePlace`), that no such row has passed (`NoPastRow`), and that whatever is unspent and does
not wait has expired (`DueFrom`). Inside a block, `Calm`: committed claims of
supported names are still there, so that `reorderTrieNode` changes nothing. The loops of
`incrementBlock` move whole entries (`ActivatedSound`, `ExpiredSound`); an expiring entry
is found because the longest delay is shorter than the life of a claim
(`ExpiringIsActive`, from the assumption `nMaxDelay < nExpirationTime`), and a new output is in
no place because only what the chain made has a coin.

**CoinsViewsProofs** (any finite set of transactions, any bounds). `ViewsTypeCorrect`,
`FlagsAlwaysSound` and `CachesImplementUtxoSet`. The invariant is `SoundOver` for each
cache over what it reads below it: a clean entry equals the parent's, a fresh entry has
nothing unspent in the parent. `ModifyNewSound` needs that the parent has no unspent
coins of that hash, which BIP30 gives; `BatchWriteSound` shows that writing a sound child
into a sound parent leaves a sound parent that reads as the child did. `FreshInv` says
what a database that is never read makes of the flags: every entry of `pcoinsTip` is
fresh and unspent, so that a flush (`WrittenIsRead`) stores what the tip shows, and erases
nothing. The refinement maps database, tip and block view to
plain sets. Failed writes, crashes and reindexing are part of the specification proved.
For the chain's coins, `ChainCoins` (`CoinsAreChainState`) adds the
invariant `ChainInv`: the tip and the block in hand hold the coins of `NewBlocks`, the
active chain with nothing left in the blocks that were written, where "the coins of a
chain" is a predicate (`HoldsChain`, with `UtxoOf` stated by what a chain creates and
spends instead of by recursion), so that connecting a block extends it and the undo data
of a block takes it back. `NewOnTop` and `NewOff` say how the new blocks follow the chain;
with `NothingToUndo` a written block with transactions is never taken off. For the
database, `WrittenAndNew` splits the transactions of the chain at the last flush: coins of
a transaction among the new ones are those of the new blocks (`WriteTakesNew`), and no new
transaction spends an old one, because a valid chain of new blocks has its inputs in
itself (`WriteKeepsOld`). The exception, a transaction that is in the chain twice and
spent the second time, was found by the first attempt at the proof. `OnlyFlushIsTorn`
(`CrashTearsOnlyFlush`): before the first crash the
claim trie follows the tip and its database that of the coins, except between their two
writes.

**InstantSendProofs** (any nodes, requests, outpoints and rankings, `Nodes` finite, two
quorums of `Required` among `Total` voters overlapping). `VotesAreUnique`, `BooksInvariance`
and `LockAgreement`. That a masternode votes once is not inductive, because
`CheckAndRemove` erases votes of every candidate on an expired one's inputs. `LockInv`
therefore says of each vote that its signer, unless restarted, has it in its books or that
the outpoint is `Dead`: spent by a block that cannot be disconnected any more, so
that no request for it is valid again (`MemoryInv`). For this it keeps the height of every
candidate (`HeightsInv`) and how far a chain may fall back (`ChainInv`). `QuorumsAgree`
then counts: the votes of a lock are as many as their signers (`BallotsAreSigners`), the
signers of two locks share more masternodes than were restarted, and one that kept its
memory voted for both. The theorems rest on two facts that `InstantSend` takes from the
code's use: a chain falls back `KeepLock + 1` blocks at most, and voters are ranked the same way
on every node.

**MasternodePaymentsProofs** (any finite sets of nodes and masternodes, `Required` more
than half of `Total`). `PaymentsInvariance`, `BookedVotes`, `PayeeAgreement`,
`EnforcementIsStable`. `VotersAreRemembered` is what makes the count inductive: a
masternode whose vote a node counted is remembered for that height unless the node was
restarted or a vote for another height was sent in its name; `FilesAreBooked` says that the
files a start reads hold votes as well ordered as the maps they were written from. Agreement is then a count of
signers: two enforced payees of a height have `Required` votes each among those counted,
so that they share masternodes that voted twice. That an enforced payee stays so is
`VotesAreKept`: while a height is stored, all that happens to its votes, unless a start
loses them (`LosesVotes`), is that one is added at their end.

**SchedulerProofs** (any finite set of threads, any tasks). `ServiceCountExact` (`TypeOK`, with
`nThreadsServicingQueue` the number of threads in service) and `EarlyTakes`
(`EarlyOnlyAfterErasure`). The invariant keeps the queue in the order of its times and says
that a thread waits for a task in the queue or for an erased one: a thread that waits for
an entry that is still there was woken by its time, and the first of the queue is not later.

**PrivSendProofs** (any finite set of clients, any places, denominations and attempts).
`PoolsInvariance`, `CommittedIsSigned`, `CommittedIsUniform`, `CoinsLocked`. Nothing in a
message names its session. What keeps sessions apart is that attempts are numbered in the
order in which a client mixes, that a connection keeps the order of its messages
(`InOrder`), and that a client that has not sent its entry yet is still in the queue
(`Pending`). `SignsPool` says that a signature under way from a client that is in the pool is for
the mix the pool signs; `SeenInv` that an entry in the pool, or in a final transaction on
its way, was sent before every entry its client has in flight.

**ChainStateProofs** (any finite tree of blocks, any work that grows along a chain, any
verdicts, file size and depth kept; `Address` injective, since two `CBlockIndex` objects are
at different places). `ChainStateInvariance`, `IndexAlwaysComplete`
(`IndexIsComplete`), `DataStaysUntilPruned`, `StartAssertionExact` (`StartsAfterCrash`),
`CandidatesStayOrdered`, `CandidatesInvariance`, `CandidatesAlwaysRight`
(`CandidatesAreRight`), `StepsAlwaysGoForward`, `StepsAlwaysKeepOrder` (`StepsKeepOrder`),
`RenumberingNeedsPruning`. First come lemmas about the tree (`ChainTransitive`, `ChainLinear`,
by descent to the parent) and about the order of the candidates (`WorseOrders`: it is
total; `BestIsTaken`: the best exists). What `CheckBlockIndex` says of a whole chain is
not inductive; the invariant says it of one parent and child. `LinkedInv`: what is linked
has its whole chain linked, and candidates, the tip and blocks marked as children of a failed
one are linked. `WaitInv`: an entry in `mapBlocksUnlinked` that is not linked has an
unlinked parent, and a block with data that is neither has a parent that failed, now or before
`ReconsiderBlock`. `DiskInv`: the database is behind the index only in what is dirty, and
has the transactions of the chain the coins were written for, which is what a start needs.
`StepInv`: the target of a step is a candidate, and no candidate has less work than the tip.
`VerdictInv`: as long as no verdict changed, failure marks, in memory or on disk, are on
refused blocks and above them, and not below a tip. From the first two, the lowest unlinked
block of a complete chain (`LowestUnlinked`) would have to wait below a linked parent. One
lemma per action; the forms of `FlushStateToDisk` are lemmas of their own (`Saved`), because
seven actions may write.

For the candidates a second invariant, `CandInv`, stands on the first. Its heart is `CoverInv`:
in an `Ordinary` history every linked block, or a block that was the tip and is not worse, is
*accounted for*: it is a
candidate, it has failed or is above a failure (`Hard`), or what is missing below it will
bring it back (`Waiting`: `mapBlocksUnlinked` holds the whole chain above an entry without
data). This is what `FindMostWorkChain` keeps when it drops a candidate, and it is stable under
every other move of a block between those states: the cover of a block that
`PruneBlockIndexCandidates` drops is the new tip. That a former tip may be the cover, and may fail
itself, is why the property has to name eclipsed blocks; the proof found them. `OrderInv` adds that no
candidate sorts below the tip, that a completed step leaves the best candidate that can be
connected (`QuietInv`), and that the target of a step is better than the tip the step
found (`ConnectInv`), although other threads move between its blocks. `CauseInv` says, in memory
and on disk together with what is still dirty, that a block marked as child of a failure has
a failure below it. `CandidatesInvariance` is that invariance; `CandidatesFollow` and
`StepGoesForward` draw the properties from it. `RenumberingNeedsPruning` shows that the
exception `Ordinary` concerns nodes that have pruned: for all others there is none.
The attempts at these proofs found four things that the bounded runs had not met
(section 5 on the block index: the first three, and the eclipsed branches).

**Only model-checked.**
- Liveness (`WaitReturns`, `EveryTaskRuns`, `StopEndsService`, `CatchesUp`): fairness is
  out of the prover's reach.
- `TakeoversAreRight` and `DisconnectRestores` of `ClaimTrie`, and `TrieIsSound` beyond
  `TrieStaysSound`: with expiry and supports together, or with delays and disconnects, they do
  not hold of the code (section 5). Where `TakeoversAreRight` holds it compares sums of
  amounts over sets of supports, and that a larger set has no smaller sum is an induction
  over data.
- `MemPool`: its limit on visited descendants is a computation over the links in the
  order of a queue, which cannot be reasoned about without induction over data.
- `BlockDownload`: the blocks to fetch are picked along a recursively defined path.

## 5. Where the code does not do what one would expect

Each of these was met while modelling, in the lines named. They are in the models as
the code has them; the properties say what holds all the same, and these
paragraphs what was excepted to say it.

- Undo of activations (`claimtrie.cpp:2528`, `main.cpp:3299`). `incrementBlock` says of
  what a takeover activates that it goes into the undo data "with the nValidAtHeight
  they had prior to this block", but stores the height of the takeover; when the
  block is disconnected and another connected, the two queues differ and an
  assertion of `ConnectBlock` fails. With `nMaxDelay = 2` and
  `nProportionalDelayFactor = 1`, `DisconnectRestores` fails in
  `claim_trie_reorg`, and so does `TrieIsSound` checked alone. Hence no delays there, and
  proofs for connecting only.
- A claim and a support of its name that expire in one block (`claimtrie.cpp:1827`):
  the support's removal looks for the name's node in the cache, where the claim's
  expiry has just removed it, finds the base trie's and brings the claim back. With
  expiry in `claim_trie_supports`, `TrieIsSound` fails.
- An update of the owner's claim in a block that also spends a support of the name
  counts as a takeover (`claimtrie.cpp:2329-2332`).
- `CCoinsViewDB::GetCoins` (`txdb.cpp:40`) does not override the virtual function: once
  `pcoinsTip` is flushed, its coins are found by nobody. A transaction that spends them is
  refused; BIP30's check passes for a transaction that is still unspent in the database,
  which then writes over it (an entry of `pcoinsTip` is FRESH, "the parent view does
  not have this entry" in `coins.h:295`, although the database has it); a block that was
  written is disconnected uncleanly, so that `DisconnectTip` leaves the tip where it is; and
  `VerifyDB` at its default level finds the database corrupted at every start, which the second
  round of the loop in `AppInit2` answers by wiping it. "The coins of pcoinsTip are those
  of the active chain" is therefore not a property of this code; section 2.3 says
  what is.
- A crash between the two writes of `FlushStateToDisk` (`main.cpp:3512`, 3517) leaves the
  claim trie ahead of the coins; the assertion that would notice is commented out
  (`main.cpp:2939`). `CrashTearsOnlyFlush` says that nothing else does.
- With several service threads a task may run before its time (`scheduler.cpp:48`): the
  thread that timed out takes whatever is first. `EarlyOnlyAfterErasure` says when.
- `AcceptToMemoryPool` returns after the check of sequence locks in any case
  (`main.cpp:1282`); nothing is ever added to the pool, and a caller with missing
  inputs is told that the transaction is valid.
- `ReconsiderBlock` (`main.cpp:4052`) declares a second `pindex` in its loop, so that it
  forgets the failures of every block at one height and of no descendant
  (`Forgiven`).
- A block stored on top of a refused parent that has no `nChainTx` is not entered in
  `mapBlocksUnlinked` (`main.cpp:4147`); when `ReconsiderBlock` forgets the parent's failure it
  still is not, though `CheckBlockIndex` says that such a block "must be in mapBlocksUnlinked"
  (`main.cpp:5488`), and its chain stays unlinked until the next start. `forgiven` is this
  exception.
- A tip that was flushed, is disconnected, and is then refused when it is connected again
  (its payee or a lock has changed what the checks say) is marked in the block index; a crash
  before the coins are next written leaves a coins' tip that has failed and, without a better chain,
  no candidate: the assertion of `PruneBlockIndexCandidates` (`main.cpp:3841`) then fails at every
  start. `StartsAfterCrash` says that this, or `InvalidateBlock`, is the only way.
- A block that waits in `mapBlocksUnlinked` and is pruned there has transactions and no
  `nChainTx` when its parent arrives; downloaded again, a block already among the
  candidates gets another `nSequenceId` inside the ordered set (`main.cpp:4136`), so that it may
  sort below a tip of equal work, and the tip below it. `CandidatesKeepOrder` excepts
  pruning, `Ordinary` and `StepsGoForward` a block that was renumbered.
- A branch that lost is forgotten although the winner fails later. `PruneBlockIndexCandidates`
  (`main.cpp:3838`) erases what sorts below a tip as soon as that tip is connected, and only
  `InvalidateBlock` and a start gather candidates from the whole index again. Three
  branches of one block each, of work 2, 3 and 4: the second is connected and the first erased;
  the second is disconnected for the third; the third is refused, and so is the second when
  it is connected again, because a payee or a lock has changed what the checks say. The first
  is valid, better than the tip, and never tried. The same happens after `ReprocessBlocks`
  (`DisconnectBlocks` puts nothing back into `setBlockIndexCandidates`), when the
  blocks of a former tip are pruned while another branch is active, and when the coins' tip has
  failed at a start. `Eclipsed` is this exception, block by block.
- `InvalidateBlock` gathers the candidates again in memory only, and a crash after it may leave
  an index whose candidates are all worse than the coins' tip, an assertion at the
  next start. Only tests call `InvalidateBlock`.
- `DisconnectTip` of a block that is disconnected uncleanly, or of the genesis block,
  returns a valid state (`main.cpp:3619`).
- A vote that waits for its request is erased, and never asked for again, when the
  request of another transaction arrives (`instantx.cpp:371`); a lock completed over a
  conflicting mined transaction disconnects and connects the same block, because
  the lock is entered afterwards (`instantx.cpp:549`).
- In PrivSend a client whose status update is late may sign with a pool that was reset,
  a coin may stay locked when the session is reset inside `PrepareDenominate`
  (`privsend.cpp:1702`, `leaked` in the model), and a masternode whose entries fill
  before all answers are out stays as it is until the time-out.
- A payment vote is entered as seen before it is checked (`masternode-payments.cpp:372`),
  so that one that fails a passing check is not counted later, and a copy with a wrong
  signature, which has the same hash, keeps out the genuine vote. `CanVote` records the
  vote (`:274`) before its signature is checked (`:405`) and only remembers the last height,
  so that a masternode that votes for two heights in turn, or in whose name anyone sends a
  vote for another height, may vote twice for one. `SecondVoteNeedsAnother` says what is
  left: votes in the masternode's name, not votes it signed.
- The payment votes are written at an orderly shutdown only (`init.cpp:225`) and not read when
  the list in `mncache.dat` is empty (`init.cpp:1832`): after a crash a node enforces what it
  enforced at its last start, or nothing. `EnforcedStays` excepts such starts (`LosesVotes`).
- An INV marks its blocks as in flight one by one and returns before the GETDATA when the
  send buffer is over twice its limit (`main.cpp:6338`): nothing was asked, and only the
  time-out of its sender frees the blocks for others. `MarkedIsAsked` excepts such marks,
  `CatchesUp` says that they are overcome. `ProcessNewBlock` takes a block's mark before it
  looks at what `CheckBlock` said (`main.cpp:4678`): a malformed copy from any peer makes the block
  be asked for twice (`spoilt`, excepted in `EachBlockAskedOnce`).
- The peer first asked for headers is not timed out (`main.cpp:7320`), and the INV of a
  block in flight suppresses the request for its headers (`main.cpp:6306`).

## 6. Plan

1. Proofs: `AccountsAgree` of `BlockDownload`.
2. The composition of `ChainState` with the locks of `InstantSend` (a conflicting
   transaction in the tip), and of `BlockDownload` with `ChainState` (blocks stored out
   of order, pruning during the download).
3. Masternode list with masternode synchronisation (progress, restart after a sleep),
   governance (orphan votes), bounded containers (refinement of a bounded map), HTTP
   work queue (liveness of shutdown), versionbits (a function checked against its
   definition).

## 7. Not modelled

Merkle hashes and claim proofs, prefix nodes of the trie, the disk formats, memory
accounting of the caches, BIP30's exceptions, transactions with several inputs (in
`ClaimTrie` and `CoinsViews`), logging. Scripts, signatures and hashes are ideal: a
script check is a Boolean and a hash is the thing it names. Orphan transactions and
the relay of transactions have no model: they depend on a memory pool to which
nothing is added. Sockets, addresses, wallet, RPC, mining, fee estimation and the other
parts listed as `not_modelled` in `PROJECT.json` are input and output, pure functions of
bytes or 256-bit numbers, or floating-point statistics. The vendored and generated
sources (`outcome.hpp`, the hash functions under `hello/`) are by far the longest files of the
repository and have nothing to model. Of the program's own parts the masternode list, its
synchronisation, governance, the HTTP work queue, the deployment bits and the
containers are left for later (section 6).
