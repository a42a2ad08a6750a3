---------------------------- MODULE LeaderClock -----------------------------
(***************************************************************************)
(* The proof-of-history clock of a validator and how it leads a slot       *)
(* (packages poh and validator).  The goroutines are                       *)
(*   - AutoHash,                                                           *)
(*   - tickAndFlush: DrainEntries, Tick and handleEntry (flush),           *)
(*   - leaderBatchLoop (batch),                                            *)
(*   - roleMonitorLoop with onLeaderSlotStart (role),                      *)
(*   - the broadcast of an assembled block,                                *)
(*   - the block topic handler (recv).                                     *)
(* Poh and PohRecorder have locks: each of their operations is one step.   *)
(* The fields of the validator have none, and are touched by two loops.    *)
(* AddBlockPending is one step here; BlockStore takes it apart.            *)
(*                                                                         *)
(* A hash is written as what went into it: the seed and every mixin, each  *)
(* with the number of plain hashes after it.  The queue of slot hashes      *)
(* keeps 10000 slots; here it keeps all of them.                           *)
(***************************************************************************)
EXTENDS LeaderSchedule, FiniteSets

CONSTANTS
    Self,            \* this validator
    HashesPerTick,
    TicksPerSlot,
    MaxEntriesPerSlot,
    Batches,         \* batches of transactions the leader gets from the mempool
    NoBatch,
    NoBlock,
    MaxSlot,         \* bound on slots
    MaxWaitTicks     \* bound on ticks of a slot before onLeaderSlotStart is done with it

ASSUME ClockAssumption ==
    /\ Self \in Leaders
    /\ HashesPerTick \in Nat /\ HashesPerTick > 1
    /\ TicksPerSlot \in Nat \ {0} /\ MaxEntriesPerSlot \in Nat /\ MaxSlot \in Nat
    /\ MaxWaitTicks \in Nat
    /\ NoBatch \notin Batches

VARIABLES
    hash, numHashes, remainingHashes,     \* Poh
    tickHeight, entries, slotHashes,      \* PohRecorder and its SlotHashQueue
    flushPc, flushed,                     \* tickAndFlush and its entries
    leaderStartAtSlot, collectedEntries,  \* Validator; 0 stands for NoSlot
    batchPc, pending,                     \* leaderBatchLoop; batches not recorded yet
    rolePc, roleSlot, seedHash,           \* onLeaderSlotStart
    broadcast,                            \* assembled blocks on their way to the store
    blocks, latestStore,
    recvPc, recvSlot,                     \* OnBlockReceived
    clean                                 \* history: see LeaderReset

pohVars == <<hash, numHashes, remainingHashes>>
recorderVars == <<tickHeight, entries, slotHashes>>
flushVars == <<flushPc, flushed>>
leaderVars == <<leaderStartAtSlot, collectedEntries>>
batchVars == <<batchPc, pending>>
roleVars == <<rolePc, roleSlot, seedHash>>
storeVars == <<broadcast, blocks, latestStore>>
recvVars == <<recvPc, recvSlot>>
vars == <<pohVars, recorderVars, flushVars, leaderVars, batchVars, roleVars, storeVars,
          recvVars, clean>>

Slots == 0 .. MaxSlot   \* slot 0 has the genesis block

-----------------------------------------------------------------------------
\* Hashes, entries and blocks

Hashes == Seq([of : Nat \cup Batches, then : Nat])

Seed(n) == <<[of |-> n, then |-> 0]>>

\* n plain hashes
HashN(h, n) == [h EXCEPT ![Len(h)].then = @ + n]

\* One hash of h together with a mixin
HashMixin(h, b) == Append(h, [of |-> b, then |-> 0])

\* A tick is an entry without transactions.
Entry(n, h, b) == [numHashes |-> n, hash |-> h, batch |-> b]

Entries == [numHashes : Nat, hash : Hashes, batch : Batches \cup {NoBatch}]

LastEntryHash(b) ==
    IF b.entries = <<>> THEN Seed(0) ELSE b.entries[Len(b.entries)].hash

\* The block of another leader: one hash nobody here computed.  The genesis block
\* is one tick with the zero hash.
PeerBlock(slot) ==
    [prevHash |-> Seed(0), entries |-> <<Entry(1, Seed(slot), NoBatch)>>, clean |-> FALSE]

\* What VerifyEntries computes for entry e after hash cur
Replay(cur, e) ==
    IF e.batch = NoBatch THEN HashN(cur, e.numHashes)
    ELSE HashMixin(HashN(cur, e.numHashes - 1), e.batch)

VerifyEntries(b) ==
    /\ Len(b.entries) <= MaxEntriesPerSlot
    /\ \A i \in DOMAIN b.entries :
         b.entries[i].hash =
             Replay(IF i = 1 THEN b.prevHash ELSE b.entries[i - 1].hash, b.entries[i])

-----------------------------------------------------------------------------
\* Poh and PohRecorder

\* FastForward that would hash from a later slot to an earlier one does not
\* come back, and holds the locks of Poh and PohRecorder.
LocksFree == rolePc # "stuck"

CurrentSlot == tickHeight \div TicksPerSlot + 1

IsLastTickOfSlot == tickHeight % TicksPerSlot = 0

Put(queue, slot, h) == [s \in DOMAIN queue \cup {slot} |-> IF s = slot THEN h ELSE queue[s]]

\* GetSlotHash: an unknown slot has the zero hash.
GetSlotHash(slot) == IF slot \in DOMAIN slotHashes THEN slotHashes[slot] ELSE Seed(0)

\* Broken variant: hashes since the last entry are still counted.
ResetKeepsCount(h, slot) ==
    /\ hash' = h /\ remainingHashes' = HashesPerTick
    /\ tickHeight' = slot * TicksPerSlot
    /\ entries' = <<>>
    /\ slotHashes' = Put(slotHashes, slot, h)
    /\ UNCHANGED numHashes

Reset(h, slot) ==
    /\ hash' = h /\ numHashes' = 0 /\ remainingHashes' = HashesPerTick
    /\ tickHeight' = slot * TicksPerSlot
    /\ entries' = <<>>
    /\ slotHashes' = Put(slotHashes, slot, h)

\* Slots this validator leads, as far as the clock goes
OwnSlots == {s \in 0 .. MaxSlot + 1 : LeaderAt(s) = Self}

IsLeader(slot) == slot \in OwnSlots

ReadyToStart(slot) == IsLeader(slot) /\ leaderStartAtSlot # 0

Init ==
    /\ hash = Seed(0) /\ numHashes = 0 /\ remainingHashes = HashesPerTick
    /\ tickHeight = 0 /\ entries = <<>> /\ slotHashes = [s \in {0} |-> Seed(0)]
    /\ flushPc = "drain" /\ flushed = <<>>
    /\ leaderStartAtSlot = 0 /\ collectedEntries = <<>>
    /\ batchPc = "check" /\ pending = Batches
    /\ rolePc = "monitor" /\ roleSlot = 0 /\ seedHash = Seed(0)
    /\ broadcast = {} /\ latestStore = 0
    /\ blocks = [s \in Slots |-> IF s = 0 THEN PeerBlock(0) ELSE NoBlock]
    /\ recvPc = "idle" /\ recvSlot = 0
    /\ clean = FALSE

\* Broken variant: the hash of the tick is not kept for it.
AutoHashAll ==
    /\ LocksFree
    /\ remainingHashes > 0
    /\ hash' = HashN(hash, 1)
    /\ numHashes' = numHashes + 1
    /\ remainingHashes' = remainingHashes - 1
    /\ UNCHANGED <<recorderVars, flushVars, leaderVars, batchVars, roleVars, storeVars,
                   recvVars, clean>>

AutoHash ==
    /\ LocksFree
    /\ remainingHashes > 1
    /\ hash' = HashN(hash, 1)
    /\ numHashes' = numHashes + 1
    /\ remainingHashes' = remainingHashes - 1
    /\ UNCHANGED <<recorderVars, flushVars, leaderVars, batchVars, roleVars, storeVars,
                   recvVars, clean>>

-----------------------------------------------------------------------------
\* tickAndFlush

DrainEntries ==
    /\ flushPc = "drain" /\ LocksFree
    /\ flushed' = entries
    /\ entries' = <<>>
    /\ flushPc' = "tick"
    /\ UNCHANGED <<pohVars, tickHeight, slotHashes, leaderVars, batchVars, roleVars,
                   storeVars, recvVars, clean>>

\* The tick that ends a slot notes its hash.  Leadership that is still noted when
\* an own slot follows another leader's slot was not given up in time.
Tick ==
    /\ flushPc = "tick" /\ LocksFree
    /\ remainingHashes = 1 /\ tickHeight < MaxSlot * TicksPerSlot
    /\ rolePc # "monitor" => tickHeight < (roleSlot - 1) * TicksPerSlot + MaxWaitTicks
    /\ LET h == HashN(hash, 1)
           height == tickHeight + 1
           last == height % TicksPerSlot = 0
           slot == height \div TicksPerSlot
       IN  /\ hash' = h /\ numHashes' = 0 /\ remainingHashes' = HashesPerTick
           /\ tickHeight' = height
           /\ slotHashes' = IF last THEN Put(slotHashes, slot, h) ELSE slotHashes
           /\ flushed' = Append(flushed, Entry(numHashes + 1, h, NoBatch))
           /\ clean' = (clean /\ ~ (last /\ IsLeader(slot + 1) /\ ~ IsLeader(slot)
                                    /\ leaderStartAtSlot # 0))
    /\ flushPc' = "entry"
    /\ UNCHANGED <<entries, leaderVars, batchVars, roleVars, storeVars, recvVars>>

\* No tick is due.
NoTick ==
    /\ flushPc = "tick" /\ LocksFree
    /\ remainingHashes # 1
    /\ flushPc' = IF flushed = <<>> THEN "drain" ELSE "entry"
    /\ UNCHANGED <<pohVars, recorderVars, flushed, leaderVars, batchVars, roleVars,
                   storeVars, recvVars, clean>>

\* The block of the slot that just ended
Assembled ==
    [slot |-> CurrentSlot - 1,
     block |-> [prevHash |-> GetSlotHash(CurrentSlot - 2),
                entries |-> collectedEntries \o flushed,
                clean |-> clean]]

\* Entries handed over before onLeaderSlotStart is done with the fields are lost.
HandleEntry ==
    /\ flushPc = "entry" /\ LocksFree
    /\ IF /\ IsLastTickOfSlot /\ IsLeader(CurrentSlot - 1)
          /\ flushed[Len(flushed)].batch = NoBatch
          /\ collectedEntries # <<>>
       THEN /\ broadcast' = broadcast \cup {Assembled}
            /\ collectedEntries' = <<>>
       ELSE /\ collectedEntries' = IF ReadyToStart(CurrentSlot)
                                   THEN collectedEntries \o flushed ELSE collectedEntries
            /\ UNCHANGED broadcast
    /\ clean' = (clean /\ rolePc # "fields")
    /\ flushed' = <<>>
    /\ flushPc' = "drain"
    /\ UNCHANGED <<pohVars, recorderVars, leaderStartAtSlot, batchVars, roleVars, blocks,
                   latestStore, recvVars>>

-----------------------------------------------------------------------------
\* leaderBatchLoop

\* The current slot is looked at ...
BatchCheck ==
    /\ batchPc = "check" /\ LocksFree
    /\ pending # {} /\ ReadyToStart(CurrentSlot)
    /\ batchPc' = "record"
    /\ UNCHANGED <<pohVars, recorderVars, flushVars, leaderVars, pending, roleVars,
                   storeVars, recvVars, clean>>

\* Broken variant: the entry does not restart the count of hashes.
RecordTxsKeepsCount(b) ==
    /\ batchPc = "record" /\ LocksFree
    /\ b \in pending
    /\ Len(entries) < MaxEntriesPerSlot /\ remainingHashes > 1
    /\ hash' = HashMixin(hash, b)
    /\ entries' = Append(entries, Entry(numHashes + 1, hash', b))
    /\ numHashes' = numHashes + 1
    /\ remainingHashes' = remainingHashes - 1
    /\ pending' = pending \ {b}
    /\ clean' = (clean /\ flushPc # "tick")
    /\ batchPc' = "check"
    /\ UNCHANGED <<tickHeight, slotHashes, flushVars, leaderVars, roleVars, storeVars, recvVars>>

\* ... and, after PullBatch, the batch recorded, whichever slot it is by then.  An
\* entry recorded between DrainEntries and Tick is hashed before the tick and
\* handed over after it.
RecordTxs(b) ==
    /\ batchPc = "record" /\ LocksFree
    /\ b \in pending
    /\ Len(entries) < MaxEntriesPerSlot /\ remainingHashes > 1
    /\ hash' = HashMixin(hash, b)
    /\ entries' = Append(entries, Entry(numHashes + 1, hash', b))
    /\ numHashes' = 0
    /\ remainingHashes' = remainingHashes - 1
    /\ pending' = pending \ {b}
    /\ clean' = (clean /\ flushPc # "tick")
    /\ batchPc' = "check"
    /\ UNCHANGED <<tickHeight, slotHashes, flushVars, leaderVars, roleVars, storeVars, recvVars>>

\* PoH refuses to record, and the transactions stay pending.
RecordRefused ==
    /\ batchPc = "record" /\ LocksFree
    /\ Len(entries) >= MaxEntriesPerSlot \/ remainingHashes <= 1
    /\ batchPc' = "check"
    /\ UNCHANGED <<pohVars, recorderVars, flushVars, leaderVars, pending, roleVars,
                   storeVars, recvVars, clean>>

-----------------------------------------------------------------------------
\* roleMonitorLoop and onLeaderSlotStart

LeaderSlotStart ==
    /\ rolePc = "monitor"
    /\ IsLeader(CurrentSlot) /\ leaderStartAtSlot = 0
    /\ rolePc' = "wait"
    /\ roleSlot' = CurrentSlot
    /\ UNCHANGED <<pohVars, recorderVars, flushVars, leaderVars, batchVars, seedHash,
                   storeVars, recvVars, clean>>

LeaderSlotEnd ==
    /\ rolePc = "monitor"
    /\ ~ IsLeader(CurrentSlot) /\ leaderStartAtSlot # 0
    /\ leaderStartAtSlot' = 0
    /\ UNCHANGED <<pohVars, recorderVars, flushVars, collectedEntries, batchVars, roleVars,
                   storeVars, recvVars, clean>>

\* The ticker finds the block of the previous slot ...
PrevBlockFound ==
    /\ rolePc = "wait"
    /\ blocks[roleSlot - 1] # NoBlock
    /\ seedHash' = LastEntryHash(blocks[roleSlot - 1])
    /\ rolePc' = "reset"
    /\ UNCHANGED <<pohVars, recorderVars, flushVars, leaderVars, batchVars, roleSlot,
                   storeVars, recvVars, clean>>

\* The hash of the latest slot in the store, from the queue or from its block
LastSeenHash ==
    IF latestStore \in DOMAIN slotHashes THEN slotHashes[latestStore]
    ELSE LastEntryHash(blocks[latestStore])

\* ... or the deadline passes, and the clock is fast-forwarded from the latest
\* slot in the store.  The number of ticks is unsigned: from a later slot it is
\* close to 2^64, and FastForward does not end.
Deadline ==
    /\ rolePc = "wait"
    /\ IF latestStore < roleSlot
       THEN LET h == HashN(LastSeenHash,
                           (roleSlot - 1 - latestStore) * TicksPerSlot * HashesPerTick)
            IN  /\ hash' = h /\ seedHash' = h
                /\ numHashes' = 0 /\ remainingHashes' = HashesPerTick
                /\ rolePc' = "reset"
       ELSE /\ rolePc' = "stuck"
            /\ UNCHANGED <<pohVars, seedHash>>
    /\ UNCHANGED <<recorderVars, flushVars, leaderVars, batchVars, roleSlot, storeVars,
                   recvVars, clean>>

\* Broken variant: the recorder starts in the slot to lead, not before it.
LeaderResetAhead ==
    /\ rolePc = "reset"
    /\ Reset(seedHash, roleSlot)
    /\ clean' = (flushed = <<>>)
    /\ rolePc' = "fields"
    /\ UNCHANGED <<flushVars, leaderVars, batchVars, roleSlot, seedHash, storeVars, recvVars>>

\* The recorder is taken back to the end of the previous slot.  From here on the
\* history variable clean says whether the entries of this leadership reached
\* collectedEntries in the order of their hashes: entries on their way to
\* handleEntry now belong to another chain.
LeaderReset ==
    /\ rolePc = "reset"
    /\ Reset(seedHash, roleSlot - 1)
    /\ clean' = (flushed = <<>>)
    /\ rolePc' = "fields"
    /\ UNCHANGED <<flushVars, leaderVars, batchVars, roleSlot, seedHash, storeVars, recvVars>>

\* The fields of the validator follow, without a lock.
LeaderReady ==
    /\ rolePc = "fields"
    /\ collectedEntries' = <<>>
    /\ leaderStartAtSlot' = roleSlot
    /\ rolePc' = "monitor" /\ roleSlot' = 0 /\ seedHash' = Seed(0)
    /\ UNCHANGED <<pohVars, recorderVars, flushVars, batchVars, storeVars, recvVars, clean>>

-----------------------------------------------------------------------------
\* Blocks on their way to the store

Higher(a, b) == IF a > b THEN a ELSE b

\* BroadcastBlockWithProcessing stores an own block, and publishes it only if
\* the slot had none.
BroadcastBlock(b) ==
    /\ b \in broadcast
    /\ broadcast' = broadcast \ {b}
    /\ IF blocks[b.slot] = NoBlock
       THEN /\ blocks' = [blocks EXCEPT ![b.slot] = b.block]
            /\ latestStore' = Higher(latestStore, b.slot)
       ELSE UNCHANGED <<blocks, latestStore>>
    /\ UNCHANGED <<pohVars, recorderVars, flushVars, leaderVars, batchVars, roleVars,
                   recvVars, clean>>

\* OnBlockReceived stores the block of another leader ...
ReceiveBlock(slot) ==
    /\ recvPc = "idle"
    /\ ~ IsLeader(slot) /\ blocks[slot] = NoBlock
    /\ blocks' = [blocks EXCEPT ![slot] = PeerBlock(slot)]
    /\ latestStore' = Higher(latestStore, slot)
    /\ recvPc' = "sync" /\ recvSlot' = slot
    /\ UNCHANGED <<pohVars, recorderVars, flushVars, leaderVars, batchVars, roleVars,
                   broadcast, clean>>

\* ... and takes a follower's clock to it, if the store has no block up to there.
SyncPohFromLeader ==
    /\ recvPc = "sync" /\ LocksFree
    /\ IF recvSlot > latestStore /\ ~ IsLeader(CurrentSlot) /\ ~ IsLeader(recvSlot)
       THEN Reset(LastEntryHash(blocks[recvSlot]), recvSlot)
       ELSE UNCHANGED <<pohVars, recorderVars>>
    /\ recvPc' = "idle" /\ recvSlot' = 0
    /\ UNCHANGED <<flushVars, leaderVars, batchVars, roleVars, storeVars, clean>>

-----------------------------------------------------------------------------

Flush == DrainEntries \/ Tick \/ NoTick \/ HandleEntry

Role ==
    \/ LeaderSlotStart \/ LeaderSlotEnd \/ PrevBlockFound \/ Deadline
    \/ LeaderReset \/ LeaderReady

Broadcast == \E b \in broadcast : BroadcastBlock(b)

Next ==
    \/ AutoHash \/ Flush \/ BatchCheck \/ (\E b \in Batches : RecordTxs(b)) \/ RecordRefused
    \/ Role \/ Broadcast
    \/ \E s \in Slots : ReceiveBlock(s)
    \/ SyncPohFromLeader

Spec == Init /\ [][Next]_vars

\* The loops run on tickers, the broadcast is a goroutine of its own.  Nobody
\* promises that batches or blocks arrive.
FairSpec ==
    Spec /\ WF_vars(AutoHash) /\ WF_vars(Flush) /\ WF_vars(Role) /\ WF_vars(Broadcast)

-----------------------------------------------------------------------------
\* Properties

Blocks == [prevHash : Hashes, entries : Seq(Entries), clean : BOOLEAN]

TypeOK ==
    /\ hash \in Hashes \ {<<>>}
    /\ numHashes \in Nat /\ remainingHashes \in 1 .. HashesPerTick
    /\ tickHeight \in 0 .. MaxSlot * TicksPerSlot
    /\ entries \in Seq(Entries) /\ flushed \in Seq(Entries) /\ collectedEntries \in Seq(Entries)
    /\ \A s \in DOMAIN slotHashes : s \in Slots /\ slotHashes[s] \in Hashes \ {<<>>}
    /\ flushPc \in {"drain", "tick", "entry"} /\ batchPc \in {"check", "record"}
    /\ rolePc \in {"monitor", "wait", "reset", "fields", "stuck"}
    /\ leaderStartAtSlot \in 0 .. MaxSlot + 1 /\ roleSlot \in 0 .. MaxSlot + 1
    /\ pending \subseteq Batches /\ seedHash \in Hashes
    /\ \A b \in broadcast : b.slot \in Slots /\ b.block \in Blocks
    /\ blocks \in [Slots -> Blocks \cup {NoBlock}]
    /\ latestStore \in Slots
    /\ recvPc \in {"idle", "sync"} /\ recvSlot \in Slots
    /\ clean \in BOOLEAN

AllEntries ==
    LET in(seq) == {seq[i] : i \in DOMAIN seq} IN
    UNION {in(entries), in(flushed), in(collectedEntries),
           UNION {in(b.block.entries) : b \in broadcast},
           UNION {in(blocks[s].entries) : s \in {t \in Slots : blocks[t] # NoBlock}}}

\* Every entry stands for at least one hash and at most one tick's worth.
\* VerifyEntries counts up to NumHashes - 1, unsigned, and refuses NumHashes
\* above a limit, so both ends matter; Record, AutoHash, Tick, Reset and
\* FastForward share the two counters behind it.
EntryHashesInRange == \A e \in AllEntries : e.numHashes \in 1 .. HashesPerTick

\* A leader's own block passes the VerifyPoH of the other nodes, unless one of four
\* races hit its leadership: a batch recorded between DrainEntries and Tick,
\* entries handed to handleEntry across Recorder.Reset, or before
\* onLeaderSlotStart is done, or leadership that was not given up in between.
OwnBlockVerifies ==
    \A s \in OwnSlots \cap Slots :
        blocks[s] # NoBlock /\ blocks[s].clean => VerifyEntries(blocks[s])

\* A leader that is ready for a slot gets a block of the slot stored, however the
\* four loops interleave, short of the same races.
ReadyLeaderStoresBlock ==
    \A s \in OwnSlots \cap Slots :
        (leaderStartAtSlot = s /\ clean) ~> (blocks[s] # NoBlock \/ ~ clean)
=============================================================================
