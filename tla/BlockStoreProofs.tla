-------------------------- MODULE BlockStoreProofs --------------------------
(***************************************************************************)
(* Proofs about BlockStore, for every number of slots, contents and        *)
(* goroutines, every lock window and every bound on lock deletions.        *)
(*                                                                         *)
(* The properties are not inductive.  What makes them hold is that two     *)
(* goroutines working on one slot of the window share one mutex (Window-   *)
(* Lock): the cleanup only deletes entries below cleanupThreshold, which a *)
(* finalized slot keeps KeepRecent below it (ThresholdBelowWindow).  So    *)
(* the slot AddBlockPending found free is still free when it writes, and   *)
(* the block FinalizeBlock was given is still the stored one.              *)
(***************************************************************************)
EXTENDS BlockStore, TLAPS

\* A mutex has at most one holder.
MutexHeldOnce ==
    \A t, u \in Threads :
        /\ t # u
        /\ pc[t] \in Locked /\ pc[u] \in Locked
        /\ call[t].slot = call[u].slot
        => call[t].gen # call[u].gen

\* Within the lock window a call works under the slot's current mutex.
WindowLock ==
    \A t \in Threads :
        pc[t] # "idle" /\ InWindow(call[t].slot) => call[t].gen = lockGen[call[t].slot]

\* What the running cleanup may delete lies below the lock window.
ThresholdBelowWindow ==
    cleanupThreshold # 0 => \E f \in finalized : cleanupThreshold + KeepRecent <= f

\* Past its existence check AddBlockPending still finds the slot free.
AddSlotFree ==
    \A t \in Threads :
        pc[t] \in {"addLoad", "addRaise", "addWrite"} /\ InWindow(call[t].slot)
        => ~ HasBlock(call[t].slot)

\* FinalizeBlock works on a stored block, in the window on the stored one.
FinSlotStored ==
    \A t \in Threads :
        pc[t] \in FinPcs =>
            /\ HasBlock(call[t].slot)
            /\ InWindow(call[t].slot) => blocks[call[t].slot].content = call[t].content

\* Once its batch is written FinalizeBlock has marked its slot.
FinStoreMarked ==
    \A t \in Threads : pc[t] = "finStore" => call[t].slot \in finalized

\* The genesis block is finalized.
GenesisFinalized == 0 \in finalized

IInv ==
    /\ TypeOK
    /\ GenesisFinalized
    /\ LatestFinalizedIsFinalized
    /\ DbLatestStoreIsStored
    /\ MarkerMatchesStatus
    /\ MutexHeldOnce
    /\ WindowLock
    /\ ThresholdBelowWindow
    /\ AddSlotFree
    /\ FinSlotStored
    /\ FinStoreMarked

USE MaxSlotAssumption, GenesisAssumption, KeepRecentAssumption, AbsentAssumption,
    MaxLockDeletesAssumption

-----------------------------------------------------------------------------
\* Slot 0 is a slot, and the record of a goroutine without a call is typed.
LEMMA NoCallTyped == 0 \in Slots /\ NoCall \in Calls
  BY DEF Slots, NoCall, Calls

\* The initial state, a store holding the genesis block alone, is well typed.
LEMMA InitTypeOK == Init => TypeOK
  BY NoCallTyped DEF Init, SInit, TypeOK, Stored, NoBlock, Finalized

\* Every step of every goroutine, of the cleanup and of a restart keeps the types.
LEMMA NextTypeOK == TypeOK /\ [Next]_vars => TypeOK'
<1> SUFFICES ASSUME TypeOK, [Next]_vars PROVE TypeOK'
  OBVIOUS
<1> USE NoCallTyped DEF TypeOK, db, memory, locks, Goto, Return, AddPcs, FinPcs
<1>1. ASSUME NEW t \in Threads, NEW s \in Slots \ {0}, NEW c \in Contents, AddBegin(t, s, c)
      PROVE  TypeOK'
  <2>1. [slot |-> s, content |-> c, gen |-> lockGen[s], meta |-> FALSE] \in Calls
    BY DEF Calls
  <2> QED BY <1>1, <2>1 DEF AddBegin
<1>2. ASSUME NEW t \in Threads, NEW s \in Slots \ {0}, FinBegin(t, s)
      PROVE  TypeOK'
  <2>1. blocks[s].content \in Contents
    BY <1>2 DEF FinBegin, HasBlock, Stored, NoBlock
  <2>2. [slot |-> s, content |-> blocks[s].content, gen |-> lockGen[s], meta |-> FALSE]
            \in Calls
    BY <2>1 DEF Calls
  <2> QED BY <1>2, <2>2 DEF FinBegin
<1>3. ASSUME NEW t \in Threads, AddCheck(t) PROVE TypeOK'
  <2>1. CASE HasBlock(call[t].slot)
    BY <1>3, <2>1 DEF AddCheck
  <2>2. CASE ~ HasBlock(call[t].slot)
    BY <1>3, <2>2 DEF AddCheck
  <2> QED BY <2>1, <2>2
<1>4. ASSUME NEW t \in Threads, AddLoad(t) PROVE TypeOK'
  BY <1>4 DEF AddLoad
<1>5. ASSUME NEW t \in Threads, AddRaise(t) PROVE TypeOK'
  <2>1. call' \in [Threads -> Calls]
    BY <1>5, Zenon DEF AddRaise, Calls
  <2>2. latestStore' \in Slots
    BY <1>5 DEF AddRaise, Calls
  <2> QED BY <1>5, <2>1, <2>2 DEF AddRaise
<1>6. ASSUME NEW t \in Threads, AddWrite(t) PROVE TypeOK'
  <2>1. call[t].slot \in Slots /\ Pending(call[t].content) \in Stored
    BY DEF Calls, Stored, Pending
  <2> QED BY <1>6, <2>1 DEF AddWrite
<1>7. ASSUME NEW t \in Threads, FinLock(t) PROVE TypeOK'
  <2>1. call' \in [Threads -> Calls]
    <3> DEFINE higher == call[t].slot > latestFinalized
    <3>1. higher \in BOOLEAN
      OBVIOUS
    <3>2. call' = [call EXCEPT ![t].meta = higher]
      BY <1>7 DEF FinLock
    <3> HIDE DEF higher
    <3> QED BY <3>1, <3>2 DEF Calls
  <2> QED BY <1>7, <2>1 DEF FinLock
<1>8. ASSUME NEW t \in Threads, FinWrite(t) PROVE TypeOK'
  <2>1. call[t].slot \in Slots /\ Finalized(call[t].content) \in Stored
    BY DEF Calls, Stored, Finalized
  <2> QED BY <1>8, <2>1 DEF FinWrite
<1>9. ASSUME NEW t \in Threads, FinStore(t) PROVE TypeOK'
  BY <1>9 DEF FinStore, Calls
<1>10. ASSUME NEW t \in Threads, WriteFails(t) PROVE TypeOK'
  BY <1>10 DEF WriteFails
<1>11. CASE CleanupBegin
  BY <1>11 DEF CleanupBegin, Slots
<1>12. ASSUME NEW s \in Slots, CleanupDelete(s) PROVE TypeOK'
  BY <1>12 DEF CleanupDelete
<1>13. CASE Crash
  BY <1>13 DEF Crash
<1>14. CASE UNCHANGED vars
  BY <1>14 DEF vars
<1> QED
  BY Zenon, <1>1, <1>2, <1>3, <1>4, <1>5, <1>6, <1>7, <1>8, <1>9, <1>10, <1>11, <1>12,
     <1>13, <1>14 DEF Next

\* The store's state is always well typed.
THEOREM TypeCorrect == Spec => []TypeOK
  BY InitTypeOK, NextTypeOK, PTL DEF Spec

-----------------------------------------------------------------------------
\* The initial store satisfies the inductive invariant.
LEMMA InitIInv == Init => IInv
  BY InitTypeOK, NoCallTyped
     DEF Init, SInit, IInv, TypeOK, LatestFinalizedIsFinalized, DbLatestStoreIsStored,
         MarkerMatchesStatus, MutexHeldOnce, WindowLock, ThresholdBelowWindow, AddSlotFree,
         FinSlotStored, FinStoreMarked, GenesisFinalized, Locked, FinPcs, Finalized, NoBlock,
         HasBlock

\* Every step keeps the inductive invariant.
LEMMA NextIInv == IInv /\ [Next]_vars => IInv'
<1> SUFFICES ASSUME IInv, [Next]_vars PROVE IInv'
  OBVIOUS
<1>0. TypeOK /\ TypeOK'
  BY NextTypeOK DEF IInv
<1> USE DEF IInv, LatestFinalizedIsFinalized, DbLatestStoreIsStored, MarkerMatchesStatus,
            MutexHeldOnce, WindowLock, ThresholdBelowWindow, AddSlotFree, FinSlotStored,
            FinStoreMarked, GenesisFinalized, InWindow, HasBlock, db, memory, locks, Goto,
            Return, Locked, FinPcs
<1>1. ASSUME NEW t \in Threads, NEW s \in Slots \ {0}, NEW c \in Contents, AddBegin(t, s, c)
      PROVE  IInv'
  BY <1>0, <1>1, SMTT(60) DEF AddBegin, TypeOK
<1>2. ASSUME NEW t \in Threads, NEW s \in Slots \ {0}, FinBegin(t, s)
      PROVE  IInv'
  BY <1>0, <1>2, SMTT(40) DEF FinBegin, TypeOK
<1>3. ASSUME NEW t \in Threads, AddCheck(t) PROVE IInv'
  BY <1>0, <1>3 DEF AddCheck, LockFree, TypeOK
<1>4. ASSUME NEW t \in Threads, AddLoad(t) PROVE IInv'
  BY <1>0, <1>4 DEF AddLoad, TypeOK
<1>5. ASSUME NEW t \in Threads, AddRaise(t) PROVE IInv'
  <2>1. \A u \in Threads : /\ call'[u].slot = call[u].slot
                            /\ call'[u].gen = call[u].gen
                            /\ call'[u].content = call[u].content
    BY <1>0, <1>5 DEF AddRaise, TypeOK, Calls
  <2> QED BY <1>0, <1>5, <2>1, SMTT(60) DEF AddRaise, TypeOK
<1>6. ASSUME NEW t \in Threads, AddWrite(t) PROVE IInv'
  <2> DEFINE s == call[t].slot
  <2>1. s \in Slots
    BY <1>0 DEF TypeOK, Calls
  <2>2. /\ \A u \in Slots \ {s} : blocks'[u] = blocks[u]
        /\ blocks'[s] = Pending(call[t].content)
        /\ finalized' = finalized
    BY <1>0, <1>6, <2>1 DEF AddWrite, TypeOK
  <2>3. \A u \in Threads \ {t} : pc'[u] = pc[u] /\ call'[u] = call[u] /\ call[u].slot \in Slots
    BY <1>0, <1>6 DEF AddWrite, TypeOK, Calls
  <2>4. pc'[t] = "idle"
    BY <1>0, <1>6 DEF AddWrite, TypeOK
  <2>5. DbLatestStoreIsStored'
    BY <1>0, <1>6, <2>1, <2>2 DEF AddWrite, Pending, TypeOK
  <2>6. MarkerMatchesStatus'
    BY <1>0, <1>6, <2>1, <2>2 DEF AddWrite, Pending, TypeOK
  <2>7. AddSlotFree'
    BY <1>0, <1>6, <2>1, <2>2, <2>3, <2>4 DEF AddWrite
  <2>8. FinSlotStored'
    BY <1>0, <1>6, <2>1, <2>2, <2>3, <2>4 DEF AddWrite, Pending
  <2>9. TypeOK'
    BY <1>0, <1>6, <2>1 DEF AddWrite, TypeOK, Pending
  <2>10. /\ GenesisFinalized' /\ LatestFinalizedIsFinalized' /\ ThresholdBelowWindow'
         /\ FinStoreMarked'
    BY <1>0, <1>6, <2>2, <2>3, <2>4 DEF AddWrite
  <2>11. MutexHeldOnce' /\ WindowLock'
    BY <1>0, <1>6, <2>2, <2>3, <2>4 DEF AddWrite
  <2> QED BY <2>5, <2>6, <2>7, <2>8, <2>9, <2>10, <2>11
<1>7. ASSUME NEW t \in Threads, FinLock(t) PROVE IInv'
  <2>1. \A u \in Threads : /\ call'[u].slot = call[u].slot
                            /\ call'[u].gen = call[u].gen
                            /\ call'[u].content = call[u].content
    BY <1>0, <1>7 DEF FinLock, TypeOK, Calls
  <2> QED BY <1>0, <1>7, <2>1, SMTT(60) DEF FinLock, LockFree, TypeOK
<1>8. ASSUME NEW t \in Threads, FinWrite(t) PROVE IInv'
  BY <1>0, <1>8, SMTT(40) DEF FinWrite, Finalized, TypeOK, Calls
<1>9. ASSUME NEW t \in Threads, FinStore(t) PROVE IInv'
  BY <1>0, <1>9, SMTT(60) DEF FinStore, TypeOK
<1>10. ASSUME NEW t \in Threads, WriteFails(t) PROVE IInv'
  BY <1>0, <1>10, SMTT(40) DEF WriteFails, TypeOK
<1>11. CASE CleanupBegin
  BY <1>0, <1>11, SMTT(40) DEF CleanupBegin, TypeOK, Slots
<1>12. ASSUME NEW s \in Slots, CleanupDelete(s) PROVE IInv'
  <2>1. s \in Nat /\ cleanupThreshold \in Nat /\ s < cleanupThreshold /\ finalized \subseteq Nat
    BY <1>0, <1>12, SMTT(60) DEF CleanupDelete, TypeOK, Slots
  <2>2. ~ InWindow(s)
    BY <2>1, KeepRecentAssumption, IInv, SMTT(60) DEF IInv, ThresholdBelowWindow, InWindow
  <2> QED BY <1>0, <1>12, <2>2, SMTT(40) DEF CleanupDelete, TypeOK, Calls
<1>13. CASE Crash
  BY <1>0, <1>13, SMTT(60) DEF Crash, TypeOK
<1>14. CASE UNCHANGED vars
  BY <1>0, <1>14, SMTT(60) DEF vars
<1> QED
  BY Zenon, <1>1, <1>2, <1>3, <1>4, <1>5, <1>6, <1>7, <1>8, <1>9, <1>10, <1>11, <1>12,
     <1>13, <1>14 DEF Next

\* The inductive invariant holds in every reachable state.
THEOREM InductiveInvariant == Spec => []IInv
  BY InitIInv, NextIInv, PTL DEF Spec

\* In memory and in the database the latest finalized slot is always a slot
\* that FinalizeBlock marked, across failed writes and restarts.
THEOREM LatestFinalizedSound == Spec => []LatestFinalizedIsFinalized
<1>1. IInv => LatestFinalizedIsFinalized
  BY DEF IInv
<1> QED
  BY <1>1, InductiveInvariant, PTL

\* The persisted latest_store key always names a stored block.
THEOREM LatestStoreSound == Spec => []DbLatestStoreIsStored
<1>1. IInv => DbLatestStoreIsStored
  BY DEF IInv
<1> QED
  BY <1>1, InductiveInvariant, PTL

\* Marker and status agree on every slot of the lock window.
THEOREM MarkerSound == Spec => []MarkerMatchesStatus
<1>1. IInv => MarkerMatchesStatus
  BY DEF IInv
<1> QED
  BY <1>1, InductiveInvariant, PTL

-----------------------------------------------------------------------------
\* A step of the store is a step of the abstract life of a slot or leaves it
\* alone: only the two batch writes change blocks or markers.
LEMMA StepSimulation == IInv /\ [Next]_vars => [SNext]_svars
<1> SUFFICES ASSUME IInv, [Next]_vars PROVE [SNext]_svars
  OBVIOUS
<1>0. TypeOK
  BY DEF IInv
<1>1. ASSUME NEW t \in Threads, AddWrite(t)
      PROVE  SNext
  <2> DEFINE s == call[t].slot
             c == call[t].content
  <2>1. s \in Slots /\ c \in Contents /\ Pending(c) \in Stored
    BY <1>0 DEF TypeOK, Calls, Pending, Stored
  <2>2. blocks' = [blocks EXCEPT ![s] = Pending(c)] /\ finalized' = finalized
    BY <1>1 DEF AddWrite
  <2>3. CASE InWindow(s)
    <3>1. ~ HasBlock(s)
      BY <1>1, <2>3 DEF AddWrite, IInv, AddSlotFree
    <3> QED BY <2>1, <2>2, <3>1, Zenon DEF SNext, Add
  <2>4. CASE ~ InWindow(s)
    BY <2>1, <2>2, <2>4, Zenon DEF SNext, RacedWrite
  <2> QED BY <2>3, <2>4
<1>2. ASSUME NEW t \in Threads, FinWrite(t)
      PROVE  SNext
  <2> DEFINE s == call[t].slot
             c == call[t].content
  <2>1. s \in Slots /\ c \in Contents /\ Finalized(c) \in Stored
    BY <1>0 DEF TypeOK, Calls, Finalized, Stored
  <2>2. blocks' = [blocks EXCEPT ![s] = Finalized(c)] /\ finalized' = finalized \cup {s}
    BY <1>2 DEF FinWrite
  <2>3. CASE InWindow(s)
    <3>1. HasBlock(s) /\ blocks[s].content = c
      BY <1>2, <2>3 DEF FinWrite, FinPcs, IInv, FinSlotStored
    <3>2. blocks[s] \in Stored
      BY <1>0, <2>1, <3>1 DEF TypeOK, HasBlock, NoBlock
    <3>3. [blocks[s] EXCEPT !.status = "finalized"] = Finalized(c)
      BY <3>1, <3>2 DEF Stored, Finalized
    <3>4. blocks' = [blocks EXCEPT ![s].status = "finalized"]
      BY <2>2, <3>3, Zenon
    <3> QED BY <2>1, <2>2, <3>1, <3>4, Zenon DEF SNext, Finalize
  <2>4. CASE ~ InWindow(s)
    BY <2>1, <2>2, <2>4, Zenon DEF SNext, RacedWrite
  <2> QED BY <2>3, <2>4
<1>3. CASE UNCHANGED db \/ UNCHANGED vars
  BY <1>3 DEF db, vars, svars
<1> QED
  BY <1>1, <1>2, <1>3
     DEF Next, AddBegin, FinBegin, AddCheck, AddLoad, AddRaise, FinLock, FinStore, WriteFails,
         CleanupBegin, CleanupDelete, Crash

\* The store implements the abstract life of a slot, whatever its goroutines,
\* the lock cleanup, failing writes and restarts do.
THEOREM Refinement == Spec => ImplementsSlotStore
<1>1. Init => SInit
  BY DEF Init
<1> QED
  BY <1>1, StepSimulation, InductiveInvariant, PTL DEF Spec, ImplementsSlotStore, SSpec
=============================================================================
