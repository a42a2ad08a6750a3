----------------------------- MODULE BlockStore -----------------------------
(***************************************************************************)
(* GenericBlockStore (store/blockstore.go) at the grain at which its       *)
(* callers interleave: goroutines that run AddBlockPending and             *)
(* FinalizeBlock, the periodic cleanup of slot locks, database writes that *)
(* fail, and a crash of the process followed by loadLatestFinalized.       *)
(*                                                                         *)
(* The database is the part of the state that survives a crash: blocks,    *)
(* finalized (the marker keys) and the two metadata keys.  A batch is      *)
(* written atomically or not at all.                                       *)
(*                                                                         *)
(* A slot's mutex is named by a generation: lockGen[s] is the mutex that   *)
(* getSlotLock(s) returns now, and deleting the entry of s from slotLocks  *)
(* makes the next caller get a new one.                                    *)
(***************************************************************************)
EXTENDS SlotStore

CONSTANTS
    Threads,         \* goroutines that call into the store
    MaxLockDeletes,  \* bound on how often one slot's lock entry is deleted
    Absent           \* the value of a metadata key that was never written

ASSUME AbsentAssumption == Absent \notin Slots
ASSUME MaxLockDeletesAssumption == MaxLockDeletes \in Nat

VARIABLES
    dbLatestFinalized,   \* metadata key latest_finalized, Absent if not written
    dbLatestStore,       \* metadata key latest_store, Absent if not written
    latestFinalized,     \* atomic in memory
    latestStore,         \* atomic in memory
    lockGen,             \* lockGen[s]: the mutex slotLocks holds for slot s
    cleanupThreshold,    \* slots below it are deleted by the running cleanup
    pc,                  \* where each goroutine is
    call                 \* the slot, content, mutex and meta flag of its call

db == <<blocks, finalized, dbLatestFinalized, dbLatestStore>>
memory == <<latestFinalized, latestStore>>
locks == <<lockGen, cleanupThreshold>>
vars == <<db, memory, locks, pc, call>>

AddPcs == {"addLock", "addLoad", "addRaise", "addWrite"}
FinPcs == {"finLock", "finWrite", "finStore"}

\* The program counters at which a goroutine holds the mutex of its slot.
Locked == {"addLoad", "addRaise", "addWrite", "finWrite", "finStore"}

Calls == [slot : Slots, content : Contents, gen : Nat, meta : BOOLEAN]

NoCall == [slot |-> 0, content |-> Genesis, gen |-> 0, meta |-> FALSE]

TypeOK ==
    /\ blocks \in [Slots -> Stored \cup {NoBlock}]
    /\ finalized \subseteq Slots
    /\ dbLatestFinalized \in Slots \cup {Absent}
    /\ dbLatestStore \in Slots \cup {Absent}
    /\ latestFinalized \in Slots
    /\ latestStore \in Slots
    /\ lockGen \in [Slots -> Nat]
    /\ cleanupThreshold \in Slots
    /\ pc \in [Threads -> {"idle"} \cup AddPcs \cup FinPcs]
    /\ call \in [Threads -> Calls]

Init ==
    /\ SInit
    /\ dbLatestFinalized = Absent
    /\ dbLatestStore = Absent
    /\ latestFinalized = 0
    /\ latestStore = 0
    /\ lockGen = [s \in Slots |-> 0]
    /\ cleanupThreshold = 0
    /\ pc = [t \in Threads |-> "idle"]
    /\ call = [t \in Threads |-> NoCall]

-----------------------------------------------------------------------------
\* Mutexes

\* Goroutine t can take the mutex of its call: no other goroutine holds it.
LockFree(t) ==
    \A u \in Threads \ {t} :
        pc[u] \in Locked => <<call[u].slot, call[u].gen>> # <<call[t].slot, call[t].gen>>

Goto(t, l) == pc' = [pc EXCEPT ![t] = l]

Return(t) ==
    /\ Goto(t, "idle")
    /\ call' = [call EXCEPT ![t] = NoCall]

-----------------------------------------------------------------------------
\* AddBlockPending

\* Entry: getSlotLock hands out the slot's current mutex.
AddBegin(t, s, c) ==
    /\ pc[t] = "idle"
    /\ Goto(t, "addLock")
    /\ call' = [call EXCEPT ![t] =
                    [slot |-> s, content |-> c, gen |-> lockGen[s], meta |-> FALSE]]
    /\ UNCHANGED <<db, memory, locks>>

\* Broken variant: the block key is not looked up under the mutex.
AddNoCheck(t) ==
    /\ pc[t] = "addLock"
    /\ LockFree(t)
    /\ Goto(t, "addLoad")
    /\ UNCHANGED <<db, memory, locks, call>>

\* The mutex is taken and the block key looked up; an existing block is an error.
AddCheck(t) ==
    /\ pc[t] = "addLock"
    /\ LockFree(t)
    /\ \/ HasBlock(call[t].slot) /\ Return(t)
       \/ ~ HasBlock(call[t].slot) /\ Goto(t, "addLoad") /\ UNCHANGED call
    /\ UNCHANGED <<db, memory, locks>>

\* latestStore is loaded and compared, apart from the store that follows.
AddLoad(t) ==
    /\ pc[t] = "addLoad"
    /\ Goto(t, IF call[t].slot > latestStore THEN "addRaise" ELSE "addWrite")
    /\ UNCHANGED <<db, memory, locks, call>>

\* Broken variant: latest_store is persisted on its own, ahead of the batch.
AddRaisePersisting(t) ==
    /\ pc[t] = "addRaise"
    /\ latestStore' = call[t].slot
    /\ dbLatestStore' = call[t].slot
    /\ Goto(t, "addWrite")
    /\ UNCHANGED <<blocks, finalized, dbLatestFinalized, latestFinalized, locks, call>>

\* latestStore is raised in memory before the batch that records it is written.
AddRaise(t) ==
    /\ pc[t] = "addRaise"
    /\ latestStore' = call[t].slot
    /\ call' = [call EXCEPT ![t].meta = TRUE]
    /\ Goto(t, "addWrite")
    /\ UNCHANGED <<db, latestFinalized, locks>>

\* The batch is written: block and, if latestStore was raised, its metadata.
AddWrite(t) ==
    /\ pc[t] = "addWrite"
    /\ blocks' = [blocks EXCEPT ![call[t].slot] = Pending(call[t].content)]
    /\ dbLatestStore' = IF call[t].meta THEN call[t].slot ELSE dbLatestStore
    /\ Return(t)
    /\ UNCHANGED <<finalized, dbLatestFinalized, memory, locks>>

-----------------------------------------------------------------------------
\* FinalizeBlock, called with the mutex of the ledger held: one at a time.

LedgerMuFree == \A t \in Threads : pc[t] \notin FinPcs

\* Entry, with a block the caller read from the store or has just added.
FinBegin(t, s) ==
    /\ pc[t] = "idle"
    /\ LedgerMuFree
    /\ HasBlock(s)
    /\ Goto(t, "finLock")
    /\ call' = [call EXCEPT ![t] = [slot |-> s, content |-> blocks[s].content,
                                    gen |-> lockGen[s], meta |-> FALSE]]
    /\ UNCHANGED <<db, memory, locks>>

\* The mutex is taken; the batch records latest_finalized for a higher slot.
FinLock(t) ==
    /\ pc[t] = "finLock"
    /\ LockFree(t)
    /\ Goto(t, "finWrite")
    /\ call' = [call EXCEPT ![t].meta = call[t].slot > latestFinalized]
    /\ UNCHANGED <<db, memory, locks>>

\* Broken variant: the finalized marker is left out of the batch.
FinWriteNoMarker(t) ==
    /\ pc[t] = "finWrite"
    /\ blocks' = [blocks EXCEPT ![call[t].slot] = Finalized(call[t].content)]
    /\ dbLatestFinalized' = IF call[t].meta THEN call[t].slot ELSE dbLatestFinalized
    /\ Goto(t, "finStore")
    /\ UNCHANGED <<finalized, dbLatestStore, memory, locks, call>>

\* The batch is written: block, marker and, for a higher slot, the metadata.
FinWrite(t) ==
    /\ pc[t] = "finWrite"
    /\ blocks' = [blocks EXCEPT ![call[t].slot] = Finalized(call[t].content)]
    /\ finalized' = finalized \cup {call[t].slot}
    /\ dbLatestFinalized' = IF call[t].meta THEN call[t].slot ELSE dbLatestFinalized
    /\ Goto(t, "finStore")
    /\ UNCHANGED <<dbLatestStore, memory, locks, call>>

\* After the write the slot becomes the latest finalized one, whatever it is.
FinStore(t) ==
    /\ pc[t] = "finStore"
    /\ latestFinalized' = call[t].slot
    /\ Return(t)
    /\ UNCHANGED <<db, latestStore, locks>>

\* Broken variant: an error of batch.Write is ignored.
WriteErrorIgnored(t) ==
    /\ pc[t] \in {"addWrite", "finWrite"}
    /\ IF pc[t] = "finWrite" THEN Goto(t, "finStore") /\ UNCHANGED call ELSE Return(t)
    /\ UNCHANGED <<db, memory, locks>>

\* batch.Write returns an error: nothing is written, the call returns.
WriteFails(t) ==
    /\ pc[t] \in {"addWrite", "finWrite"}
    /\ Return(t)
    /\ UNCHANGED <<db, memory, locks>>

-----------------------------------------------------------------------------
\* Lock cleanup, crash and restart

\* A cleanup pass starts: it fixes the threshold below which it deletes.
CleanupBegin ==
    /\ latestFinalized >= KeepRecent
    /\ cleanupThreshold' = latestFinalized - KeepRecent
    /\ UNCHANGED <<db, memory, lockGen, pc, call>>

\* The pass deletes one lock entry, held or not.
CleanupDelete(s) ==
    /\ s < cleanupThreshold
    /\ lockGen[s] < MaxLockDeletes
    /\ lockGen' = [lockGen EXCEPT ![s] = @ + 1]
    /\ UNCHANGED <<db, memory, cleanupThreshold, pc, call>>

\* Broken variant: a metadata key that is missing is not told from one that is there.
CrashNoDefault ==
    /\ latestFinalized' = dbLatestFinalized
    /\ latestStore' = dbLatestStore
    /\ lockGen' = [s \in Slots |-> 0]
    /\ cleanupThreshold' = 0
    /\ pc' = [t \in Threads |-> "idle"]
    /\ call' = [t \in Threads |-> NoCall]
    /\ UNCHANGED db

\* The process dies and starts again: loadLatestFinalized reads the metadata.
Crash ==
    /\ latestFinalized' = IF dbLatestFinalized = Absent THEN 0 ELSE dbLatestFinalized
    /\ latestStore' = IF dbLatestFinalized = Absent \/ dbLatestStore = Absent
                      THEN 0 ELSE dbLatestStore
    /\ lockGen' = [s \in Slots |-> 0]
    /\ cleanupThreshold' = 0
    /\ pc' = [t \in Threads |-> "idle"]
    /\ call' = [t \in Threads |-> NoCall]
    /\ UNCHANGED db

\* The genesis block is in place, and applied, before any goroutine starts.
Next ==
    \/ \E t \in Threads, s \in Slots \ {0}, c \in Contents : AddBegin(t, s, c)
    \/ \E t \in Threads, s \in Slots \ {0} : FinBegin(t, s)
    \/ \E t \in Threads :
          \/ AddCheck(t)
          \/ AddLoad(t)
          \/ AddRaise(t)
          \/ AddWrite(t)
          \/ FinLock(t)
          \/ FinWrite(t)
          \/ FinStore(t)
          \/ WriteFails(t)
    \/ CleanupBegin
    \/ \E s \in Slots : CleanupDelete(s)
    \/ Crash

Spec == Init /\ [][Next]_vars

-----------------------------------------------------------------------------
\* Properties

\* Whatever order slots are finalized in, and wherever a write fails or the
\* process dies, the latest finalized slot in memory and the one in the
\* database name a slot whose block was finalized (FinalizeBlock).
LatestFinalizedIsFinalized ==
    /\ latestFinalized \in finalized
    /\ dbLatestFinalized \in finalized \cup {Absent}

\* The persisted latest_store always names a slot whose block is in the
\* database: AddBlockPending writes both in one batch.
DbLatestStoreIsStored ==
    dbLatestStore # Absent => HasBlock(dbLatestStore)

\* Inside the lock window the finalized marker that IsApplied reads and the
\* Status field of the stored block agree.
MarkerMatchesStatus ==
    \A s \in Slots : InWindow(s) => (s \in finalized <=> blocks[s].status = "finalized")

\* Concurrent AddBlockPending and FinalizeBlock calls implement the abstract
\* life of a slot: inside the lock window a stored block is never replaced, a
\* finalized one never becomes pending again, and no marker is removed.
ImplementsSlotStore == SSpec

\* "loadLatestFinalized loads the latest finalized slot from the database":
\* the value a restarted process starts from is the highest finalized slot.
PersistedLatestIsLatest ==
    \A s \in finalized \ {0} : dbLatestFinalized # Absent /\ s <= dbLatestFinalized
=============================================================================
