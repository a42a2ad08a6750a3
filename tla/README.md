# A TLA+ verification of the mmn node

mmn is a blockchain node in Go. A leader schedule assigns slots to validators,
a proof-of-history (PoH) clock paces them, the leader of a slot gossips one block,
validators vote for it, and a block with enough votes is applied to the account
ledger. Nodes that are behind fetch blocks over streams. This directory models
the parts of that node whose correctness depends on interleavings, failures and
restarts, checks them with TLC and proves what can be proved with TLAPS.

All source paths below are relative to the repository root.

## 1. The system

| Part | Source | State | Operations that change it |
|---|---|---|---|
| Block store | `store/blockstore.go` | block per slot, finalized markers, two metadata keys, atomics `latestFinalized` and `latestStore`, `slotLocks` | `AddBlockPending`, `FinalizeBlock`, `CleanupOldSlotLocks`, start (`loadLatestFinalized`) |
| Vote collector | `consensus/collector.go` | votes per slot, `maxSlot` | `AddVote`, `CleanupOldVotes` |
| Gossip handlers | `p2p/pubsub.go`, `p2p/vote.go`, `p2p/block.go`, `p2p/empty_block.go` | `applyBlockMu`, `ready` | `OnBlockReceived`, `OnVoteReceived`, `OnEmptyBlockReceived`, `BroadcastBlockWithProcessing`, `applyDataToBlock` |
| Block sync | `p2p/block_ordering.go`, `p2p/discovery.go`, `p2p/tracker.go` | `blockOrderingQueue`, `nextExpectedSlot`, `worldLatestSlot`, trackers | `AddBlockToOrderingQueue`, `processConsecutiveBlocks`, `OnLatestSlotReceived`, `RequestBlockSync`, `sendBlocksOverStream` |
| Ledger | `ledger/ledger.go`, `store/*_store.go` | accounts, transaction metas, latest content versions | `FinalizeBlock`, `CreateAccountsFromGenesis` |
| Init command | `cmd/init.go` | key files, genesis accounts, genesis block | `initializeNode` |
| PoH | `poh/` | hash chain, tick count, pending entries, slot hash queue | `Record`, `Tick`, `Reset`, `FastForward`, `DrainEntries` |
| Leader schedule | `poh/lead_schedule.go` | list of ranges | `LeaderAt` (pure) |
| Validator | `validator/validator.go` | leader state, collected entries, pending transactions | `onLeaderSlotStart`, `handleEntry`, `leaderBatchLoop`, PoH resets |
| Mempool, dedup | `mempool/` | transactions in order, sender totals, dedup sets per slot | `AddTx`, `PullBatch`, `BlockCleanup`, `SetCurrentSlot` |
| Transaction tracker | `transaction/tracker.go` | processing map, removed cache | `TrackProcessingTransaction`, `RemoveTransaction` |
| Event bus | `events/` | subscribers, count | `Subscribe`, `Unsubscribe`, `Publish`, `Shutdown` |
| Rate limit, abuse | `security/` | windows per key, flags | `IsAllowed`, cleanup |
| APIs, services, wiring | `network/`, `jsonrpc/`, `service/`, `cmd/node.go` | none of their own | calls into the parts above |

How they interact. Four goroutines store a block: the block topic handler, the
leader's broadcast, the sync stream and the empty-block topic handler. Three
finalize through `applyDataToBlock` (block handler, vote handler, leader), which takes `applyBlockMu` and asks `IsApplied`; the sync stream calls
`Ledger.FinalizeBlock` directly. `Ledger.FinalizeBlock` holds the ledger's mutex
and ends in one database batch written by `BlockStore.FinalizeBlock`. A restart
keeps the database and loses the votes, the ordering queue and readiness.

What makes it hard: slots are finalized out of order, votes arrive before blocks,
a block reaches the store by four ways, mutexes of old slots are deleted while
they may be held, a batch write may fail after memory was changed, and a crash
may come between storing a block and finalizing it. The same transaction reaches
a node through clients, gossip and blocks of other leaders while its own leader
loop carries it. The PoH clock is advanced, drained and reset by four loops, two
of which share fields without a lock. `PROJECT.json` lists each of these hazards
at its line with the properties that cover it.

## 2. The modules

| Module | Models | Checked by |
|---|---|---|
| `SlotStore` | the abstract life of a slot: none, pending, finalized | refinement target of `BlockStore` and `NodeFinality` |
| `BlockStore` | `store/blockstore.go` at the grain of its atomic steps | runs `block_store` and `persisted_latest`, theorems |
| `BlockStoreProofs` | theorems about `BlockStore` | TLAPS |
| `NodeFinality` | the handlers, collector and ordering queue of one node | runs `node_finality`, `quorum_finalizes`, `applied_once`, `sync_in_order`, `catch_up`, theorems |
| `NodeFinalityProofs` | theorems about `NodeFinality` | TLAPS |
| `Cluster` | several nodes that propose, vote, finalize, stream blocks and crash | run `cluster`, theorems |
| `SlotAgreement` | what the nodes promise together about finality | refinement target of `Cluster` |
| `ClusterProofs` | theorems about `Cluster` | TLAPS |
| `Ledger` | transactions, `applyTx`, content versions (operators) | through `TxFlow` |
| `Mempool` | the mempool and the dedup service: their state and operations | through `TxFlow` |
| `TxFlow` | the way of a transaction through one validator; composes `Mempool`, `Ledger`, tracker, leader, block handler, finalizer | run `tx_flow`, theorems |
| `AccountBook` | what a validator promises about balances | refinement target of `TxFlow` |
| `TxFlowBook` | the mapping of `TxFlow` to `AccountBook` | run `tx_flow`, theorem |
| `TxFlowProofs`, `LedgerProofs`, `ContentProofs` | theorems about `TxFlow`: the flow and its inductive invariant; pool, totals, money and the account book; types and content versions | TLAPS |
| `LeaderSchedule` | `LeaderAt` and `Validate` (operators) | through `LeaderClock` |
| `LeaderClock` | the PoH clock and how a validator leads a slot | run `leader_clock`, theorems |
| `LeaderClockProofs` | theorems about `LeaderSchedule` and `LeaderClock` | TLAPS |
| `NodeInit` | the init command with interrupted and repeated runs | runs `node_init`, `rerun_init`, theorems |
| `NodeInitProofs` | theorems about `NodeInit` | TLAPS |
| `MC*` | symmetry and constants for TLC | |

### SlotStore and BlockStore

`blocks`, `finalized`, `dbLatestFinalized` and `dbLatestStore` are the database;
the rest is memory. `AddBlockPending` is five actions: entry with `getSlotLock`
(`AddBegin`), lock and existence check (`AddCheck`), load of `latestStore`
(`AddLoad`), its store (`AddRaise`), the batch (`AddWrite`). `FinalizeBlock` is
four: entry (`FinBegin`), lock (`FinLock`), batch (`FinWrite`), store of
`latestFinalized` (`FinStore`); its callers hold the ledger's mutex, so one runs
at a time (`LedgerMuFree`). `WriteFails` is a batch that returns an error.

A mutex is a slot and a generation. `CleanupOldSlotLocks` deletes the map entry of
a slot below `latestFinalized - keepRecentSlots` whether its mutex is held or not,
which bumps the generation: the next caller gets another mutex. This is why the
abstract specification promises the life of a slot only inside the lock window,
the slots no more than `KeepRecent` below the highest finalized one, and allows
`RacedWrite` outside it. The code keeps far more slots than a block stays in
flight, so the window covers normal operation.

A block's content is an opaque value, its transactions and metas are written in the
same batch and are left out. Events published after the write are left out.

### NodeFinality

One node, with the block, vote, leader and sync goroutines as program counters and
the empty-block handler as single steps. `AddBlockPending` and `FinalizeBlock` are
one step each, which `BlockStore` justifies inside the lock window. `applies` counts how often each path
(vote or sync) applied a slot to the accounts; `sent` and `voted` observe the votes
published and counted. `BadPoh` are the contents `VerifyPoH` rejects: they are
stored with `InvalidPoH`, voted for, and skipped by the ledger, as in the code.

`OnSyncResponseReceived` takes `blockOrderingMu`, drops a stored slot, queues the
block and collects the consecutive run up to `worldLatestSlot`, with a filler block
for own slots that are missing; `SyncAdd`, `SyncFinalize` and `SyncFails` process the
run; `SyncDone` makes the node ready when the run reached the world's latest slot.
Blocks may be streamed in any order and again: several peers answer a request,
each sends what it has, and a tracker is forgotten when its stream ends.

`StartFromLocal` and `RequestBlockSync` are the two ends of
`startAfterSyncWithPeers`. Gossip of this node's own messages is dropped by the
pubsub library, so a node never receives its own votes or blocks.
A gossiped message that fails verification leaves no trace and is left out. The
leader's broadcasts run one after another; two own slots in a row whose
broadcasts overlap are not modelled.

`FollowsSlotStore` closes the circle with `BlockStore`: the handlers together take
every slot through the same abstract life, `SlotStore`, that the store shows under
them. Here every slot is inside the lock window (`KeepRecent` is the number of
slots), so `RacedWrite` is never possible and the promise is the strong one: one block, pending,
then the same block finalized, for good.

### NodeInit

Each file write, account write and block write of `cmd/init.go` is a step, and
`Fault` ends a run between any two, standing for a crash and for an error return
alike. `Start` begins the next run on what is left.

### Cluster

Where `NodeFinality` looks inside the handlers of one node and lets any message
arrive, `Cluster` takes a handler as one step and lets only messages arrive that
some node sent. A published block, vote or filler stays in its set: a node may take
it at any later time, in any order, or never, which is loss, delay and reordering.
Its abstractions:

* a ready leader may propose for any own slot it stores no block for: when the
  clock lets it do so belongs to `LeaderClock`;
* blocks with an invalid proof of history belong to `NodeFinality`;
* an own vote is counted and published in the step that stores the block;
* the sync stream is sent and received in one step per slot, one stream of a request is
  read at a time (`ActivatePeer`), each peer answers a request once, and a stream may
  break off anywhere (`StreamEnd`);
* the PoH slot of the peers, part of `isSyncWindowAligned`, is a window that may
  align at any time or never.

The ordering queue publishes a filler for each missing own slot even when the store refused
it (`p2p/block_ordering.go:85`), and the collector counts votes per slot without
their block hash (`consensus/collector.go:66`). Together: a leader restarted with its
slot pending syncs from a peer that lacks the slot and publishes a filler; a node
without the block stores the filler and finalizes it on votes that were cast for
the block. `QuorumHoldsBlock` therefore excepts slots a filler was published for; no
comment of the code promises more.

`SlotAgreement` states what the nodes promise together: a leader proposes at most one
block for a slot and may make a filler besides, and a node decides a slot once and
for all on one of the two. `ReachesAgreement` maps what the leader of a slot stores to
the proposal and what a node has finalized, by votes or by sync, to its decision.
One run of the ordering queue decides several slots and may publish fillers in the
same step, so a decision of the abstract specification does too.

The collector's threshold is max(2f, 1) with f = n/3, where the comment at
`consensus/collector.go:22` says 2f+1; `Cluster` and `NodeFinality` take what the code
computes, so "quorum" below means that number.

### Ledger, Mempool, TxFlow and AccountBook

A transaction is a record under its hash. `key` is `DedupHash`, what the sender signed:
two hashes may share a key. `Mempool` has the pool's map, order and key set, the
sender totals and the dedup service, and one operator for each of their operations;
the subtraction of `validateBalance` is at the width of the balance (`Uint256`), since
it wraps.

`TxFlow` has five goroutines: callers of `AddTx` (check before the lock, then insert),
`leaderBatchLoop` with `PullBatch` (pull under the lock, dedup after it, then each
transaction looked up and stored in the tracker, then recorded), the leader's
slots, `OnBlockReceived` (verify, store, dedup, cleanup) and the one
`Ledger.FinalizeBlock` that holds the ledger's mutex (transaction by transaction, with
`RemoveTransaction` after each, then one batch that may fail). A stored block may be
finalized at any time: when votes allow it is `NodeFinality`'s matter. Finalization is
the path of `applyDataToBlock`, with its `IsApplied`. Sync, which does not ask, is
in `NodeFinality`, and run `applied_once` shows what that costs.

`AccountBook` is the promise to account holders: a slot gets one block, a block is
settled once and in one step, only senders of its transfers end with less and only
recipients with more. `KeepsAccountBook` maps the stored balances and blocks to it;
what `FinalizeBlock` has computed but not written is invisible.

Between the unlock of `PullBatch` and its call of the dedup service a second copy of a
pulled transaction is accepted (`mempool/mempool.go:377`), and it is applied a second
time if the sender's balance allows. The properties hold all the same: the book
speaks of blocks, not of keys.

### LeaderSchedule and LeaderClock

A hash is written as what went into it: a seed, then every mixin, each with the
number of plain hashes that follow. Equality of these is equality of hashes, as far
as SHA-256 has no collisions. `Poh` and `PohRecorder` are locked, so each of their
operations is a step; `tickAndFlush` is three (drain, tick, hand over), the batch
loop two, `onLeaderSlotStart` four. The validator's own fields have no lock. The queue
of slot hashes keeps every slot.

The history variable `clean` says that none of four races touched the current
leadership: a batch recorded between `DrainEntries` and `Tick`; entries handed to
`handleEntry` across `Recorder.Reset`; entries that arrive before
`onLeaderSlotStart` is done; leadership kept from an earlier slot. With one of them
a leader may assemble a block that fails `VerifyPoH`; without them it never does
(`OwnBlockVerifies`). Nothing in the code says such blocks cannot arise, so the
races are hazards and not findings.

Three more observations. With one tick per slot a slot's only tick is also its last, and
`handleEntry` assembles a block only when it has collected entries before: the tick of the
first of two consecutive own slots would end up in the block of the second, which
then does not verify. The configurations have four ticks per slot. `AddBlockPending` raises `latestStore` before
`p2p/pubsub.go:84` compares the block with it, so the reset of a follower's clock
never happens; `SyncPohFromLeader` has the comparison, and its reset branch is never
taken (the proofs use it, `SyncNotAhead`). `TickFastForward` subtracts unsigned numbers (`poh/poh.go:123`): from a stored
slot at or above the one to lead it would hash for some 2^64 rounds with the lock
held, which is the place `"stuck"` of `Deadline`.

## 3. The runs

| Run | Result | Shows |
|---|---|---|
| `block_store` | holds | `LatestFinalizedIsFinalized`, `DbLatestStoreIsStored`, `MarkerMatchesStatus` and the refinement `ImplementsSlotStore` under two goroutines, cleanup, failing writes and crashes |
| `persisted_latest` | violated | finalizing a lower slot moves `latestFinalized` back (`store/blockstore.go:490`), and a later finalization persists a slot below the highest finalized one (`store/blockstore.go:478`) |
| `node_finality` | holds | `NoDoubleVote`, `AppliedOncePerPath`, `FinalityIsJustified` with a crash, failing writes, an invalid block, a filler and an own slot |
| `quorum_finalizes` | holds | `QuorumFinalizes`: a valid block with its own vote and a quorum is finalized; and the refinement `FollowsSlotStore` |
| `applied_once` | violated | sync and a committed vote both apply one slot (`p2p/block_ordering.go:121`) |
| `sync_in_order` | violated | the queue applies a slot whose predecessor it skipped (`p2p/block_ordering.go:75`) |
| `catch_up` | violated | a block left pending by a crash stops sync for good (`p2p/block_ordering.go:25`) |
| `node_init` | holds | `KeysMatch`, `AllocatedBeforeGenesis` over up to three interrupted runs |
| `rerun_init` | violated | after an interruption no later run completes (`cmd/init.go:61`) |
| `cluster` | holds | `OneProposalPerSlot`, `QuorumHoldsBlock`, `NoHoles` and the refinement `ReachesAgreement` with lost and reordered messages, broken streams and a crash of a leader |
| `tx_flow` | holds | `PoolConsistent`, `SenderTotalExact`, `SupplyConserved`, `ContentsDoNotFork`, `CarriedIsTracked` and the refinement `KeepsAccountBook` with interleaved goroutines, a failing write and a restart |
| `leader_clock` | holds | `EntryHashesInRange`, `OwnBlockVerifies` and, under fairness, `ReadyLeaderStoresBlock` |

A run marked violated states what a comment in the code says and exhibits a behaviour
of the code that contradicts it; `findings` in `PROJECT.json` quotes the comment.

### Bounds

`block_store`: slots 0 to 2 and two goroutines give every pair of concurrent calls
on one slot and on two slots in both orders; two contents tell an overwritten block
from a kept one; one lock deletion per slot gives a second mutex, and
`KeepRecent = 0` lets the cleanup reach a slot with only two slots above genesis.
`node_finality`: two slots, one own and one of another leader, three voters with a
quorum of two, so that a vote beyond the quorum exists; one crash; contents with a
valid, an invalid and a filler block. `CHECK_DEADLOCK FALSE` in these runs because
a node whose slots are all used up has nothing left to do. `node_init` allocates
three accounts and interrupts three runs.

`cluster`: three nodes with threshold two, so that a quorum may leave a node out;
two slots led by two nodes, streamed in windows of one, so that a window ends
between them; the first leader may crash once, before or after it published. Two
proposals are interchangeable (symmetry). `tx_flow`: one transfer under two hashes, a second
transfer the sender cannot pay besides it, a content with two rival versions; three slots, of
which this node leads the second; one batch, one crash; `Uint256 = 16` lets the
subtraction wrap. `leader_clock`: this node leads slots 1 and 3 with a peer's slot
between, two ticks of two hashes and one batch: the smallest clock in which a batch
falls before, between and after the ticks of a slot. `MaxWaitTicks` bounds how far
the clock runs on while `onLeaderSlotStart` waits.

### Fairness

`FairSpec` assumes that a goroutine inside a handler goes on (weak fairness on
`Continue`), which the Go scheduler gives, and that a goroutine waiting for
`applyBlockMu` gets it if it is released again and again (strong fairness on
`ApplyCheck`), which the starvation mode of `sync.Mutex` gives. Nothing is assumed
about messages. `SyncFairSpec`, for `catch_up`, also assumes the best of the peers:
each block that is asked for is streamed as long as it is not stored. The
violation shows that even then the node does not catch up. `NodeInit`'s `Spec`
assumes that the operator keeps running the command. `LeaderClock`'s `FairSpec` assumes
that the hasher, the flush and the role loop go on, since tickers drive them, and
that the broadcast of an assembled block, a goroutine of its own, gets to the store;
nothing is assumed about batches or about blocks of others.

## 4. What is proved

`BlockStoreProofs` proves for every number of slots, goroutines and contents and every
`KeepRecent`:

* `TypeCorrect`;
* `LatestFinalizedSound`, `LatestStoreSound`, `MarkerSound`: the three invariants of run
  `block_store`;
* `Refinement`: `Spec => SSpec`, the store implements the abstract life of a slot.

The invariants are not inductive. `IInv` adds why a writer's view of its slot stays
true until its batch is written: below the window's edge the lock of a slot was
never deleted (`WindowLock`, from `ThresholdBelowWindow`: a cleanup pass only reaches
slots that a finalized slot has left more than `KeepRecent` behind), so its mutex has
one holder (`MutexHeldOnce`); hence between its existence check and its batch an
adder's slot stays empty (`AddSlotFree`) and a finalizer's slot keeps the block it
read (`FinSlotStored`); and the slot a finalizer is about to publish as latest is
marked (`FinStoreMarked`). The assumptions are the named `ASSUME`s of `SlotStore` and
`BlockStore`, which only say that the constants have their types.

`NodeFinalityProofs` proves for every number of slots, contents, voters and crashes,
for validators and listeners and whether or not writes may fail:

* `TypeCorrect`;
* `NoDoubleVoteHolds`, `AppliedOncePerPathHolds`, `FinalityJustified`: the three
  invariants of run `node_finality`;
* `PermanentHolds`: no step replaces a stored block, removes a marker or forgets a
  counted vote;
* `NodeFollowsSlotStore`: the refinement `FollowsSlotStore` of run `quorum_finalizes`.

The argument has two layers. `NextStep` shows that every action is a `Step`: it says
what may happen to a block, a vote count, a published vote, a goroutine's place and
the applied slots, and nothing else of the action is used afterwards. `NextIInv`
shows that a `Step` keeps `IInv`. `IInv` adds to the properties that what is voted
for or applied is stored (`ApplierStored`, `SyncStored`), that only a counted quorum
leads to `applyDataToBlock` (`QuorumSeen`), that `applyBlockMu` has one holder
(`MuHeldOnce`), whose slot is not applied yet (`HolderFirst`, since an applied slot
is marked, `AppliedIsMarked`), and that sync finalizes only what it has just stored
(`SyncFirst`). Type correctness comes first. It needs `ApplierStored`
too: a published vote names a content only if the block is there. Besides the
types of the constants the proofs assume `NoContentAssumption`: no block has the content that stands for none.
`IInv` holds in every state of run `node_finality`'s instance.

The refinement rests on the same invariant. A step stores at most one block, in an
empty slot (`BlocksStep`), and that slot cannot be marked finalized, since marked
slots are stored (`FinalityIsJustified`): so it is `Add`. A step that marks a slot
changes no block, and the goroutine that marks it has seen the block, by
`ApplierStored` on the vote path and `SyncFirst` in sync: so it is `Finalize`. With
`Refinement` of `BlockStoreProofs` this makes the single steps `AddBlockPending` and
`FinalizeBlock` of `NodeFinality` the steps of the store inside its lock window.

`NodeInitProofs` proves for every allocation and any number of interrupted runs
`TypeCorrect`, `KeysAlwaysMatch` and `AllocatedWithGenesis`. `KeyFiles` adds what the
running command knows of the key files between its two writes, `Allocation` which accounts
it has created so far.

`ClusterProofs` proves for every number of nodes, slots, proposals and crashes and every
window size: `ClusterTypeCorrect`, `OneProposalAlways`, `QuorumAlwaysHolds`,
`NeverAHole`, `NodesReachAgreement` and `FinalizedAlwaysAlike`. `Inv` adds that every proposal anywhere, stored, queued or published, is
the one its leader stores (`Origin`; so a restarted leader, which keeps its store,
cannot make a second one), that every filler was published by its leader (`Filled`),
that who voted stores a block (`VoterStored`) and hence that a quorum does
(`QuorumStored`), and that a node asks from the slot its queue waits for (`Waiting`).
Counting voters uses the cardinality theorems of the library.

`NodesReachAgreement` is the refinement. It needs, besides `Inv`, that what is finalized is
stored (`DecidedStored`). Every action of node n is `Steady(n)`: it keeps stored blocks,
finalizes at n alone and only slots that were not final, and gives at most one slot a
proposal; `SteadyAgrees` turns such a step into one of `SlotAgreement`, where `Origin` and
`Filled` say that what n decides is the leader's proposal or its filler.
`FinalizedAlwaysAlike` draws the conclusion: two nodes that finalized a slot without a filler,
one by votes and the other by sync perhaps, finalized the same block.

Three modules prove, for every set of transactions, accounts and submitters, every
number of slots, batches and crashes, all seven properties of run `tx_flow`.

`TxFlowProofs` has the invariant of the flow, `Inv`: the pool's collections describe
one set (`PoolCore`); the transactions between two steps of a goroutine are known
ones (`Carry`); no one but its one writer stores a block for a slot, and a block being
finalized is stored and not applied (`Store`); what the removed cache names is in a
stored block, so a transaction the tracker turns away is not lost (`Tracked`).
`Progress` and `Finalizing` add where the loops of the batch, of the block handler
and of `FinalizeBlock` stand. It proves

* `CarriedAlwaysTracked`.

`LedgerProofs` proves

* `PoolAlwaysConsistent`, from `PoolCore`;
* `SupplyAlwaysConserved`: the sum over accounts, which needs what `FinalizeBlock` is
  working on to have the same sum (`Money`);
* `NodeKeepsAccountBook`: the refinement, from `Store` and `Money`;
* `SenderTotalAlwaysExact`: senderTotalAmount of a sender is the sum of that sender's
  transfers in the pool. It is proved from the pool operations one by one: an insertion
  adds its amount, and the loops of `PullBatch` and `BlockCleanup`, the second in any
  order of its map, give back that of each transaction once.

The last theorem has two hypotheses, and the code needs both. `ContentsAreFree`: `AddTx` adds
only the amounts of transfers (`mempool/mempool.go:99`), but `PullBatch` and
`BlockCleanup` subtract the amount of whatever leaves (`mempool/mempool.go:363` and
`mempool/mempool.go:439`), so a content with an amount would lower the total of its
sender. `PromisesFit`: what a sender's transfers in the pool add up to stays below 2^256;
a sum that wraps to zero has its entry deleted, and the code then skips the
subtractions. `PromisesFit` holds, for example, when all amounts together are below 2^256. Run `tx_flow` checks the
property without the second hypothesis on an instance where it happens to hold.

`ContentProofs` proves

* `TypesAlwaysHold`, from all the invariants above;
* `ContentsNeverFork`. Its invariant is `Lines`: a content has no entry in the version
  table and no accepted version (`NoVersions`), or its root was applied more than once, or
  its accepted versions lie on one chain from the root to the latest version, each
  with a parent of its own and none with the latest one as parent (`OneLine`). A block is looked
  at content by content against a table the block itself changes, so the same
  statement is shown for every round of that loop (`LoopInv`), and what the loop counts
  as successes is what the commit adds to the number of times a key was applied.

`LeaderClockProofs` proves, for every schedule, every number of slots and batches and
every clock rate that meets the hypotheses named:

* `LeaderAtExact`: for every valid schedule `LeaderAt` returns the leader of the entry that
  contains the wrapped slot, and no leader when none does;
* `ClockTypeCorrect` and `EntryHashesAlwaysInRange`. The invariant behind the second is
  numHashes + remainingHashes <= HashesPerTick: `Record` clears the first counter and not
  the second, `Tick` and `Reset` set both;
* `OwnEntriesAlwaysFollow`: the entries of a block that no race touched are a chain of
  hashes from the end of the previous slot;
* `OwnBlocksAlwaysVerify`: such a block passes `VerifyEntries`, which is `OwnBlockVerifies`.

For the last two an entry has to be followed through the hands it passes: recorder,
`tickAndFlush`, `collectedEntries`, the assembled block. `Loops` says in which states of
the role loop this node leads, what kind of entries each hand holds, and that a received
block is never above the latest stored one. `Chains` has a case for each phase of a leadership that no race
touched: while it leads (`Leading`), what was collected, drained and recorded so far,
`Sofar`, is one chain from the seed whose last hash and the clock's count give the clock's
hash; between the last tick of the slot and its hand-over (`Ending`) the chain is complete;
otherwise nothing is collected (`Idle`). `Delivered` says the same of blocks on their way
to the store. All of it is kept by every action of the loops, one lemma each
(`TickChains`, `RecordTxsChains`, `HandleEntryChains` and so on).

Both theorems assume `TicksPerSlot > 1`; the observation in section 2 shows why.
`OwnBlocksAlwaysVerify` also assumes `TicksPerSlot * HashesPerTick <= MaxEntriesPerSlot`:
`VerifyEntries` limits the entries of a block, but `Record` only those between two drains,
so the code keeps a block within the limit only because every entry takes a hash. The
configurations satisfy both (4 ticks of 10 hashes, a limit of 100), as does the instance of
run `leader_clock`.

Sums and filters over sequences are recursive functions on lengths; what the proofs
need of them is shown with the least-number principle (a least counterexample,
from the well-foundedness of the naturals).

So every safety property that a passing run checks is also proved for every value of
the constants; `OwnBlockVerifies` and `SenderTotalExact` under the hypotheses given above. Only
model-checked: liveness (`QuorumFinalizes`, `ReadyLeaderStoresBlock`), which is beyond
the prover, and the refuted statements, of which TLC shows a counterexample.

## 5. What is not modelled

* libp2p and the database drivers beyond an atomic batch, including the RocksDB
  headers bundled under `libs/`: third-party code.
* Cryptography: signatures and zk proofs are represented by which inputs pass.
* The checkpoint exchange: a mismatch requests a block that is stored already, and the
  ordering queue drops it, so it changes no state a property is about.
* `CleanupExpiredRequests` and the eviction of the slot hash queue and of the dedup
  cache: they are driven by wall-clock time or by sizes far beyond a small instance,
  and free memory.
* The event bus: it notifies clients, and nothing in the node reads it back.
* Rate limiting and abuse detection: they decide by wall-clock time which requests
  reach `AddTx`; `TxFlow` lets each submission arrive at any time or never.
* The request translation of the gRPC and JSON-RPC servers, monitoring, logging,
  `Stop`, the client library, the migration and stress-test tools.
* A composition of all modules in one. Each takes the part of the others it needs in
  its weakest form: `TxFlow` lets a block be finalized at any time, `Cluster` lets a
  leader propose at any time, `NodeFinality` lets any message arrive.
