------------------------------- MODULE TxFlow -------------------------------
(***************************************************************************)
(* The way of a transaction through one validator: AddTx puts it in the    *)
(* mempool, the leader's batch loop pulls and records it, a block carries  *)
(* it, and FinalizeBlock applies it to the ledger, while blocks of other   *)
(* leaders bring the same transactions.  The goroutines are                *)
(*   - the callers of AddTx, from RPC and from gossip (adding),            *)
(*   - leaderBatchLoop with its call of PullBatch (pull),                  *)
(*   - roleMonitorLoop and the slots of the PoH clock (slot, ready),       *)
(*   - the block topic handler (recv),                                     *)
(*   - the one FinalizeBlock that holds the ledger lock (fin).             *)
(* A quorum for a stored block may be reached at any time: NodeFinality    *)
(* is about when.  LeaderClock is about ticks and entries within a slot.   *)
(***************************************************************************)
EXTENDS Mempool

CONSTANTS
    Adders,          \* concurrent callers of AddTx
    BatchSize,
    MaxSlot,         \* bound on slots
    OwnSlots,        \* slots this node leads
    PeerBlocks,      \* transaction lists blocks of other leaders may carry
    Submitted,       \* hashes this node gets from clients and gossip
    PohFlaws,        \* FALSE, and TRUE for received blocks that fail VerifyPoH
    DedupSlotGap,
    InitialBalance,  \* balance of each account after genesis
    FirstContents,   \* new contents of the block in slot 1
    MaxRounds,       \* bound on rounds of the batch loop
    MaxCrashes       \* bound on crashes

ASSUME TxFlowAssumption ==
    /\ BatchSize \in Nat \ {0} /\ MaxSlot \in Nat \ {0, 1} /\ DedupSlotGap \in Nat
    /\ MaxRounds \in Nat /\ MaxCrashes \in Nat
    /\ OwnSlots \subseteq 2 .. MaxSlot - 1
    /\ PeerBlocks \subseteq Seq(Txs)
    /\ Submitted \subseteq Txs
    /\ PohFlaws \subseteq BOOLEAN
    /\ InitialBalance \in [Accounts -> Nat]
    /\ FirstContents \in Seq({h \in Txs : ~ Transfer(h) /\ IsRoot(h)})

VARIABLES
    processing, removed,         \* the tracker: processingTxs, removedTxCache
    adding,                      \* the hash each caller of AddTx is about to insert
    pullPc, batch, trackAt,      \* PullBatch: its result and the next one to track
    pendingTxs, recorded,        \* the validator's queue; entries of the recorder
    slot, ready,                 \* current slot; leaderStartAtSlot is set
    sealed,                      \* own blocks on their way to the store
    recvPc, recvSlot, recvTxs,   \* OnBlockReceived
    blocks, applied,             \* stored blocks; slots with a finalized marker
    accounts, latest, meta,      \* balances, content versions, transaction outcomes
    finPc, finSlot, finAt,       \* FinalizeBlock, and its maps, written at its end:
    work, workMeta,
    timesApplied,                \* history: successful applications of each key
    rounds, crashes

trackerVars == <<processing, removed>>
pullVars == <<pullPc, batch, trackAt, rounds>>
leaderVars == <<pendingTxs, recorded, slot, ready, sealed>>
recvVars == <<recvPc, recvSlot, recvTxs>>
storeVars == <<blocks, applied, accounts, latest, meta, timesApplied>>
finVars == <<finPc, finSlot, finAt, work, workMeta>>
vars == <<poolVars, netCurrentSlot, dedup, trackerVars, adding, pullVars, leaderVars,
          recvVars, storeVars, finVars, crashes>>

Slots == 1 .. MaxSlot

NoBlock == [txs |-> <<>>, bad |-> FALSE, stored |-> FALSE]

Block(ts, bad) == [txs |-> ts, bad |-> bad, stored |-> TRUE]

\* Transactions are stored with the block that carries them.
Stored == UNION {Range(blocks[s].txs) : s \in Slots}

Outcomes == [Txs -> {"none", "success", "failed"}]
Versions == [Txs -> Txs \cup {NoTx}]

TypeOK ==
    /\ PoolType
    /\ processing \subseteq Txs /\ removed \subseteq Txs
    /\ adding \in [Adders -> Txs \cup {NoTx}]
    /\ pullPc \in {"idle", "dedup", "track", "store"}
    /\ batch \in Seq(Txs) /\ trackAt \in 1 .. Len(batch) + 1
    /\ pendingTxs \in Seq(Txs) /\ recorded \in Seq(Txs)
    /\ slot \in 2 .. MaxSlot /\ ready \in BOOLEAN
    /\ \A b \in sealed : b.slot \in OwnSlots /\ b.txs \in Seq(Txs)
    /\ recvPc \in {"idle", "store", "dedup", "cleanup"}
    /\ recvSlot \in Slots /\ recvTxs \in Seq(Txs)
    /\ \A s \in Slots : blocks[s].txs \in Seq(Txs) /\ blocks[s].bad \in BOOLEAN
    /\ applied \subseteq Slots
    /\ accounts \in [Accounts -> Nat] /\ latest \in Versions /\ meta \in Outcomes
    /\ finPc \in {"idle", "apply", "mark"}
    /\ finSlot \in Slots /\ finAt \in 1 .. Len(blocks[finSlot].txs) + 1
    /\ work \in [Accounts -> Nat] /\ workMeta \in Outcomes
    /\ timesApplied \in [TxKeys -> Nat]
    /\ rounds \in 0 .. MaxRounds /\ crashes \in 0 .. MaxCrashes

\* A node that has just started, with the block of slot 1 finalized.
Init ==
    /\ PoolEmpty
    /\ netCurrentSlot = 1
    /\ dedup = Keys(Range(FirstContents))
    /\ processing = {} /\ removed = {}
    /\ adding = [a \in Adders |-> NoTx]
    /\ pullPc = "idle" /\ batch = <<>> /\ trackAt = 1
    /\ pendingTxs = <<>> /\ recorded = <<>> /\ slot = 2 /\ ready = FALSE /\ sealed = {}
    /\ recvPc = "idle" /\ recvSlot = 1 /\ recvTxs = <<>>
    /\ blocks = [s \in Slots |-> IF s = 1 THEN Block(FirstContents, FALSE) ELSE NoBlock]
    /\ applied = {1}
    /\ accounts = InitialBalance
    /\ latest = [h \in Txs |-> IF h \in Range(FirstContents) THEN h ELSE NoTx]
    /\ meta = [h \in Txs |-> IF h \in Range(FirstContents) THEN "success" ELSE "none"]
    /\ finPc = "idle" /\ finSlot = 1 /\ finAt = 1
    /\ work = [a \in Accounts |-> 0] /\ workMeta = [h \in Txs |-> "none"]
    /\ timesApplied = [k \in TxKeys |-> IF k \in dedup THEN 1 ELSE 0]
    /\ rounds = 0 /\ crashes = 0

-----------------------------------------------------------------------------
\* AddTx

\* The checks before the lock.  A transaction that fails them is dropped.
AddTxCheck(a, h) ==
    /\ adding[a] = NoTx
    /\ CheapValid(h)
    /\ adding' = [adding EXCEPT ![a] = h]
    /\ UNCHANGED <<poolVars, netCurrentSlot, dedup, trackerVars, pullVars, leaderVars,
                   recvVars, storeVars, finVars, crashes>>

\* The critical section: the transaction is inserted, or dropped.
AddTxLocked(a) ==
    /\ adding[a] # NoTx
    /\ IF Valid(adding[a], accounts, Stored, latest)
       THEN Insert(adding[a])
       ELSE UNCHANGED poolVars
    /\ adding' = [adding EXCEPT ![a] = NoTx]
    /\ UNCHANGED <<netCurrentSlot, dedup, trackerVars, pullVars, leaderVars, recvVars,
                   storeVars, finVars, crashes>>

-----------------------------------------------------------------------------
\* leaderBatchLoop

\* PullBatch takes transactions out of the pool.  With none there, and none
\* pending, the round ends at once.
PullLocked ==
    /\ pullPc = "idle" /\ rounds < MaxRounds
    /\ rounds' = rounds + 1
    /\ slot \in OwnSlots /\ ready
    /\ txOrder # <<>> \/ pendingTxs # <<>>
    /\ Pull(BatchSize)
    /\ batch' = Selected(BatchSize)
    /\ pullPc' = "dedup"
    /\ UNCHANGED <<netCurrentSlot, dedup, trackerVars, adding, trackAt, leaderVars, recvVars,
                   storeVars, finVars, crashes>>

\* After the lock is released the keys go into the cache.
PullDedup ==
    /\ pullPc = "dedup"
    /\ DedupAdd(Range(batch))
    /\ pullPc' = "track"
    /\ trackAt' = 1
    /\ UNCHANGED <<poolVars, netCurrentSlot, trackerVars, adding, batch, rounds, leaderVars,
                   recvVars, storeVars, finVars, crashes>>

\* TrackProcessingTransaction looks for a removal that came first ...
TrackLook ==
    /\ pullPc = "track" /\ trackAt <= Len(batch)
    /\ IF batch[trackAt] \in removed
       THEN /\ removed' = removed \ {batch[trackAt]}
            /\ trackAt' = trackAt + 1
            /\ UNCHANGED pullPc
       ELSE /\ pullPc' = "store"
            /\ UNCHANGED <<removed, trackAt>>
    /\ UNCHANGED <<poolVars, netCurrentSlot, dedup, processing, adding, batch, rounds,
                   leaderVars, recvVars, storeVars, finVars, crashes>>

\* Broken variant: only the first transaction of a batch is tracked.
TrackFirst ==
    /\ pullPc = "store"
    /\ processing' = processing \cup {batch[1]}
    /\ trackAt' = trackAt + 1
    /\ pullPc' = "track"
    /\ UNCHANGED <<poolVars, netCurrentSlot, dedup, removed, adding, batch, rounds,
                   leaderVars, recvVars, storeVars, finVars, crashes>>

\* ... and stores the transaction.
TrackStore ==
    /\ pullPc = "store"
    /\ processing' = processing \cup {batch[trackAt]}
    /\ trackAt' = trackAt + 1
    /\ pullPc' = "track"
    /\ UNCHANGED <<poolVars, netCurrentSlot, dedup, removed, adding, batch, rounds,
                   leaderVars, recvVars, storeVars, finVars, crashes>>

\* The batch joins the pending transactions.  RecordTxs takes a batch of them, or
\* refuses and leaves them pending until the next round.
Record ==
    /\ pullPc = "track" /\ trackAt > Len(batch)
    /\ LET queue == pendingTxs \o batch
           size == IF BatchSize < Len(queue) THEN BatchSize ELSE Len(queue)
       IN  \/ /\ recorded' = recorded \o SubSeq(queue, 1, size)
              /\ pendingTxs' = SubSeq(queue, size + 1, Len(queue))
           \/ /\ pendingTxs' = queue
              /\ UNCHANGED recorded
    /\ batch' = <<>> /\ trackAt' = 1
    /\ pullPc' = "idle"
    /\ UNCHANGED <<poolVars, netCurrentSlot, dedup, trackerVars, adding, rounds, slot, ready,
                   sealed, recvVars, storeVars, finVars, crashes>>

-----------------------------------------------------------------------------
\* Slots of the PoH clock and leadership

\* onLeaderSlotStart resets the recorder and the queue of the validator.
LeaderStart ==
    /\ slot \in OwnSlots /\ ~ ready
    /\ ready' = TRUE
    /\ pendingTxs' = <<>> /\ recorded' = <<>>
    /\ UNCHANGED <<poolVars, netCurrentSlot, dedup, trackerVars, adding, pullVars, slot,
                   sealed, recvVars, storeVars, finVars, crashes>>

LeaderEnd ==
    /\ slot \notin OwnSlots /\ ready
    /\ ready' = FALSE
    /\ UNCHANGED <<poolVars, netCurrentSlot, dedup, trackerVars, adding, pullVars, pendingTxs,
                   recorded, slot, sealed, recvVars, storeVars, finVars, crashes>>

\* The last tick of a slot.  A leader that is ready assembles the block; entries
\* nobody collects are dropped.
SlotEnd ==
    /\ slot < MaxSlot
    /\ slot' = slot + 1
    /\ sealed' = IF slot \in OwnSlots /\ ready
                 THEN sealed \cup {[slot |-> slot, txs |-> recorded]} ELSE sealed
    /\ recorded' = <<>>
    /\ UNCHANGED <<poolVars, netCurrentSlot, dedup, trackerVars, adding, pullVars, pendingTxs,
                   ready, recvVars, storeVars, finVars, crashes>>

\* ProcessBlockBeforeBroadcast, in a goroutine of its own; a slot that has a
\* block keeps it.
StoreOwn ==
    \E b \in sealed :
        /\ sealed' = sealed \ {b}
        /\ blocks' = IF blocks[b.slot].stored THEN blocks
                     ELSE [blocks EXCEPT ![b.slot] = Block(b.txs, FALSE)]
        /\ UNCHANGED <<poolVars, netCurrentSlot, dedup, trackerVars, adding, pullVars,
                       pendingTxs, recorded, slot, ready, recvVars, applied, accounts, latest,
                       meta, timesApplied, finVars, crashes>>

-----------------------------------------------------------------------------
\* OnBlockReceived

\* A block whose transactions are refused is dropped.
RecvVerify(s, ts) ==
    /\ recvPc = "idle"
    /\ s \notin OwnSlots /\ ~ blocks[s].stored
    /\ BlockTxsOk(Range(ts))
    /\ recvPc' = "store" /\ recvSlot' = s /\ recvTxs' = ts
    /\ UNCHANGED <<poolVars, netCurrentSlot, dedup, trackerVars, adding, pullVars, leaderVars,
                   storeVars, finVars, crashes>>

RecvReturn == recvPc' = "idle" /\ recvSlot' = 1 /\ recvTxs' = <<>>

\* AddBlockPending.  A block that fails VerifyPoH leaves mempool and cache alone.
RecvStore(bad) ==
    /\ recvPc = "store"
    /\ blocks' = [blocks EXCEPT ![recvSlot] = Block(recvTxs, bad)]
    /\ IF bad THEN RecvReturn ELSE recvPc' = "dedup" /\ UNCHANGED <<recvSlot, recvTxs>>
    /\ UNCHANGED <<poolVars, netCurrentSlot, dedup, trackerVars, adding, pullVars, leaderVars,
                   applied, accounts, latest, meta, timesApplied, finVars,
                   crashes>>

RecvDedup ==
    /\ recvPc = "dedup"
    /\ DedupAdd(Range(recvTxs))
    /\ recvPc' = "cleanup"
    /\ UNCHANGED <<poolVars, netCurrentSlot, trackerVars, adding, pullVars, leaderVars,
                   recvSlot, recvTxs, storeVars, finVars, crashes>>

RecvCleanup ==
    /\ recvPc = "cleanup"
    /\ Cleanup(Range(recvTxs))
    /\ RecvReturn
    /\ UNCHANGED <<netCurrentSlot, dedup, trackerVars, adding, pullVars, leaderVars,
                   storeVars, finVars, crashes>>

-----------------------------------------------------------------------------
\* applyDataToBlock and FinalizeBlock

\* A quorum for a stored block.  FinalizeBlock returns at once for a block with
\* a flawed proof of history.
FinStart(s) ==
    /\ finPc = "idle"
    /\ blocks[s].stored /\ s \notin applied
    /\ SetCurrentSlot(s)
    /\ IF blocks[s].bad
       THEN UNCHANGED finVars
       ELSE /\ finPc' = "apply" /\ finSlot' = s /\ finAt' = 1
            /\ work' = accounts /\ workMeta' = meta
    /\ UNCHANGED <<poolVars, dedup, trackerVars, adding, pullVars, leaderVars, recvVars,
                   storeVars, crashes>>

\* FinalizeBlock returns, and its maps are gone.
FinReturn ==
    /\ finPc' = "idle" /\ finSlot' = 1 /\ finAt' = 1
    /\ work' = [a \in Accounts |-> 0] /\ workMeta' = [h \in Txs |-> "none"]

FinTxs == blocks[finSlot].txs

FinTx == FinTxs[finAt]

\* Broken variant: the balances are written as each transfer is applied.
FinApplyThrough ==
    /\ finPc = "apply" /\ finAt <= Len(FinTxs)
    /\ work' = IF Transfer(FinTx) THEN ApplyTx(work, FinTx) ELSE work
    /\ accounts' = work'
    /\ finAt' = finAt + 1
    /\ UNCHANGED <<poolVars, netCurrentSlot, dedup, trackerVars, adding, pullVars, leaderVars,
                   recvVars, blocks, applied, latest, meta, timesApplied, finPc, finSlot,
                   workMeta, crashes>>

\* One round of the loop over the transactions: a transfer is applied to the
\* accounts in memory, and RemoveTransaction takes it off the tracker ...
FinApply ==
    /\ finPc = "apply" /\ finAt <= Len(FinTxs)
    /\ IF Transfer(FinTx)
       THEN /\ work' = ApplyTx(work, FinTx)
            /\ workMeta' = [workMeta EXCEPT
                   ![FinTx] = Outcome(work[Tx[FinTx].sender] >= Tx[FinTx].amount)]
       ELSE UNCHANGED <<work, workMeta>>
    /\ IF FinTx \in processing
       THEN /\ processing' = processing \ {FinTx}
            /\ finAt' = finAt + 1
            /\ UNCHANGED finPc
       ELSE /\ finPc' = "mark"
            /\ UNCHANGED <<processing, finAt>>
    /\ UNCHANGED <<poolVars, netCurrentSlot, dedup, removed, adding, pullVars, leaderVars,
                   recvVars, storeVars, finSlot, crashes>>

\* ... or, if it is not tracked, notes that its removal came first.
FinMark ==
    /\ finPc = "mark"
    /\ removed' = removed \cup {FinTx}
    /\ finAt' = finAt + 1
    /\ finPc' = "apply"
    /\ UNCHANGED <<poolVars, netCurrentSlot, dedup, processing, adding, pullVars, leaderVars,
                   recvVars, storeVars, finSlot, work, workMeta, crashes>>

\* Broken variant: the latest version is not compared with the parent.
NextContentAnyParent(res, h) ==
    IF Transfer(h) THEN res
    ELSE [latest |-> NewVersion(res.latest, h),
          meta |-> [res.meta EXCEPT ![h] = "success"]]

\* One round of the loop over the contents, on the versions and outcomes so far.
NextContent(res, h) ==
    LET ok == ValidContent(h, Stored, res.latest) IN
    IF Transfer(h) THEN res
    ELSE [latest |-> IF ok THEN NewVersion(res.latest, h) ELSE res.latest,
          meta |-> [res.meta EXCEPT ![h] = Outcome(ok)]]

\* The versions and outcomes after the contents of the block.
FinContents ==
    LET res[i \in 0 .. Len(FinTxs)] ==
            IF i = 0 THEN [latest |-> latest, meta |-> workMeta]
            ELSE NextContent(res[i - 1], FinTxs[i])
    IN  res[Len(FinTxs)]

\* The contents are looked at, and bStore.FinalizeBlock writes all of it in one batch.
FinCommit ==
    /\ finPc = "apply" /\ finAt > Len(FinTxs)
    /\ LET res == FinContents IN
       /\ accounts' = work /\ latest' = res.latest /\ meta' = res.meta
       /\ timesApplied' = [k \in TxKeys |-> timesApplied[k] +
              Cardinality({i \in DOMAIN FinTxs :
                             Key(FinTxs[i]) = k /\ res.meta[FinTxs[i]] = "success"})]
    /\ applied' = applied \cup {finSlot}
    /\ FinReturn
    /\ UNCHANGED <<poolVars, netCurrentSlot, dedup, trackerVars, adding, pullVars, leaderVars,
                   recvVars, blocks, crashes>>

\* The write fails, and so does FinalizeBlock.
FinFail ==
    /\ finPc = "apply" /\ finAt > Len(FinTxs)
    /\ FinReturn
    /\ UNCHANGED <<poolVars, netCurrentSlot, dedup, trackerVars, adding, pullVars, leaderVars,
                   recvVars, storeVars, crashes>>

-----------------------------------------------------------------------------

LatestFinalizedSlot == CHOOSE s \in applied : \A t \in applied : t <= s

\* LoadTxHashes: the keys of the last DedupSlotGap finalized slots.
LoadedHashes ==
    UNION {Range(blocks[s].txs) :
             s \in {t \in Slots : t <= LatestFinalizedSlot /\ t + DedupSlotGap > LatestFinalizedSlot}}

\* The process dies and starts again on what the store holds.
Crash ==
    /\ crashes < MaxCrashes
    /\ crashes' = crashes + 1
    /\ txs' = {} /\ txOrder' = <<>> /\ dedupTxHashSet' = {}
    /\ senderTotalAmount' = [a \in Accounts |-> 0]
    /\ netCurrentSlot' = LatestFinalizedSlot
    /\ dedup' = Keys(LoadedHashes)
    /\ processing' = {} /\ removed' = {}
    /\ adding' = [a \in Adders |-> NoTx]
    /\ pullPc' = "idle" /\ batch' = <<>> /\ trackAt' = 1
    /\ pendingTxs' = <<>> /\ recorded' = <<>> /\ ready' = FALSE /\ sealed' = {}
    /\ slot' = IF LatestFinalizedSlot < MaxSlot THEN LatestFinalizedSlot + 1 ELSE MaxSlot
    /\ RecvReturn
    /\ FinReturn
    /\ UNCHANGED <<rounds, storeVars>>

Next ==
    \/ \E a \in Adders, h \in Submitted : AddTxCheck(a, h)
    \/ \E a \in Adders : AddTxLocked(a)
    \/ PullLocked \/ PullDedup \/ TrackLook \/ TrackStore \/ Record
    \/ LeaderStart \/ LeaderEnd \/ SlotEnd \/ StoreOwn
    \/ \E s \in Slots, ts \in PeerBlocks : RecvVerify(s, ts)
    \/ \E bad \in PohFlaws : RecvStore(bad)
    \/ RecvDedup \/ RecvCleanup
    \/ \E s \in Slots : FinStart(s)
    \/ FinApply \/ FinMark \/ FinCommit \/ FinFail
    \/ Crash

Spec == Init /\ [][Next]_vars

-----------------------------------------------------------------------------
\* Properties

\* The sum of all balances
Supply(state) == SumFunctionOnSet(state, Accounts)

\* FinalizeBlock neither makes nor destroys money, whatever the blocks carry:
\* transactions twice, transfers to oneself, transfers that fail half way through
\* a block, and blocks whose write fails.
SupplyConserved == Supply(accounts) = Supply(InitialBalance)

\* Pairs of versions that claim to follow the same one
Rivals ==
    {r \in Txs \X Txs :
        /\ ~ Transfer(r[1]) /\ ~ IsRoot(r[1]) /\ ~ Transfer(r[2])
        /\ Key(r[1]) # Key(r[2])
        /\ Tx[r[1]].parent = Tx[r[2]].parent /\ Tx[r[1]].root = Tx[r[2]].root}

\* Two accepted versions of a content never have the same parent: the ledger
\* compares the parent with the latest version again, after the mempool did,
\* against what the block itself has changed.  The exception is a root that was
\* applied again, which takes the version table back to the root.
ContentsDoNotFork ==
    \A r \in Rivals :
        meta[r[1]] = "success" /\ meta[r[2]] = "success"
        => timesApplied[Key(Tx[r[1]].root)] > 1

\* What this node carries towards a block
Carried ==
    UNION {Range(pendingTxs), Range(recorded), UNION {Range(b.txs) : b \in sealed}}

\* A lookup by hash (GetTxByHash: mempool, then tracker, then ledger) finds what
\* PullBatch handed to the leader until its outcome is stored.  The tracker may
\* let go of it only when another block with it is being finalized.
CarriedIsTracked ==
    \A h \in Carried :
        \/ h \in processing
        \/ \E s \in Slots : h \in Range(blocks[s].txs)
=============================================================================
