------------------------- MODULE LeaderClockProofs --------------------------
(***************************************************************************)
(* What holds of the leader schedule for every schedule that               *)
(* NewLeaderSchedule accepts, and of the clock for every number of hashes  *)
(* per tick, ticks per slot, slots and batches.                            *)
(***************************************************************************)
EXTENDS LeaderClock, SequenceTheorems, WellFoundedInduction, TLAPS

-----------------------------------------------------------------------------
\* The leader schedule

\* A nonempty set of naturals has a least member.
LEMMA Least == ASSUME NEW S \in SUBSET Nat, S # {} PROVE \E m \in S : \A k \in S : m <= k
<1> DEFINE R == {ss \in Nat \X Nat : ss[1] < ss[2]}
<1>1. IsWellFoundedOn(R, Nat)
  BY NatLessThanWellFounded DEF OpToRel
<1>2. PICK m \in S : \A k \in S : <<k, m>> \notin R
  <2> HIDE DEF R
  <2> QED BY <1>1, WFMin, Zenon
<1>3. \A k \in S : ~ (k < m)
  BY <1>2, Zenon
<1> QED BY <1>3

LEMMA ScheduleFacts ==
    /\ Len(Schedule) \in Nat \ {0}
    /\ \A i \in 1 .. Len(Schedule) :
         Schedule[i].startSlot \in Nat \ {0} /\ Schedule[i].endSlot \in Nat \ {0}
<1>1. \A e \in ScheduleEntry : e.startSlot \in Nat \ {0} /\ e.endSlot \in Nat \ {0}
  BY DEF ScheduleEntry
<1>2. Schedule \in Seq(ScheduleEntry) /\ Schedule # <<>>
  BY ScheduleAssumption
<1>3. Len(Schedule) \in Nat \ {0} /\ \A i \in 1 .. Len(Schedule) : Schedule[i] \in ScheduleEntry
  BY <1>2
<1> QED BY <1>1, <1>3

\* The search finds the last entry that starts at or before the slot.
LEMMA SearchSplits ==
    ASSUME NEW slot \in Nat
    PROVE  /\ Search(slot) \in 0 .. Len(Schedule)
           /\ Search(slot) > 0 => Schedule[Search(slot)].startSlot <= slot
           /\ Search(slot) < Len(Schedule) => Schedule[Search(slot) + 1].startSlot > slot
<1> DEFINE P(i) == /\ i > 0 => Schedule[i].startSlot <= slot
                   /\ i < Len(Schedule) => Schedule[i + 1].startSlot > slot
           Later == {k \in 1 .. Len(Schedule) : Schedule[k].startSlot > slot}
<1>1. Len(Schedule) \in Nat /\ \A k \in 1 .. Len(Schedule) : Schedule[k].startSlot \in Nat
  BY ScheduleFacts
<1>2. \E i \in 0 .. Len(Schedule) : P(i)
  <2>1. CASE Later = {}
    <3>1. P(Len(Schedule))
      BY <1>1, <2>1
    <3> QED BY <1>1, <3>1
  <2>2. CASE Later # {}
    <3>1. Later \in SUBSET Nat
      BY <1>1
    <3>2. PICK m \in Later : \A k \in Later : m <= k
      <4> HIDE DEF Later
      <4> QED BY <2>2, <3>1, Least
    <3>3. m - 1 \in 0 .. Len(Schedule) /\ m \in 1 .. Len(Schedule) /\ (m - 1) + 1 = m
      BY <1>1, <3>2
    <3>4. m - 1 > 0 => Schedule[m - 1].startSlot <= slot
      BY <1>1, <3>2, <3>3
    <3>5. P(m - 1)
      BY <3>2, <3>3, <3>4
    <3> QED BY <3>3, <3>5
  <2> QED BY <2>1, <2>2
<1>3. Search(slot) = CHOOSE i \in 0 .. Len(Schedule) : P(i)
  BY DEF Search
<1> HIDE DEF P
<1>4. Search(slot) \in 0 .. Len(Schedule) /\ P(Search(slot))
  BY <1>2, <1>3
<1> QED BY <1>4 DEF P

\* The entry i of the schedule has the slot in its range.
Covers(i, slot) == Schedule[i].startSlot <= slot /\ slot <= Schedule[i].endSlot

\* The slot a slot repeats is one of the slots of the schedule.
LEMMA WrappedSlot == ASSUME NEW slot \in Nat PROVE Wrapped(slot) \in 1 .. maxSlot
<1>1. maxSlot \in Nat /\ maxSlot > 0
  BY ScheduleFacts DEF maxSlot
<1>2. slot % maxSlot \in 0 .. maxSlot - 1
  BY <1>1
<1> QED BY <1>1, <1>2 DEF Wrapped

\* LeaderAt, which looks at one entry found by binary search, is exact: a slot has
\* the leader of the entry that covers it, wherever the entry is, and no leader
\* if it is in a gap between entries.  The schedule repeats for ever.
THEOREM LeaderAtExact ==
    ASSUME NEW slot \in Nat
    PROVE  /\ \A i \in 1 .. Len(Schedule) :
                Covers(i, Wrapped(slot)) => LeaderAt(slot) = Schedule[i].leader
           /\ (\A i \in 1 .. Len(Schedule) : ~ Covers(i, Wrapped(slot)))
              => LeaderAt(slot) = NoLeader
<1> DEFINE w == Wrapped(slot)
           k == Search(w)
<1>1. Len(Schedule) \in Nat
      /\ \A i \in 1 .. Len(Schedule) :
           Schedule[i].startSlot \in Nat /\ Schedule[i].endSlot \in Nat
  BY ScheduleFacts
<1>2. w \in Nat
  BY WrappedSlot, ScheduleFacts DEF maxSlot
<1>3. /\ \A i, j \in 1 .. Len(Schedule) :
           i < j => Schedule[i].startSlot <= Schedule[j].startSlot
      /\ \A i \in 2 .. Len(Schedule) : Schedule[i].startSlot > Schedule[i - 1].endSlot
  BY ScheduleAssumption DEF Validate
<1>4. LeaderAt(slot) = IF k > 0 /\ w <= Schedule[k].endSlot
                       THEN Schedule[k].leader ELSE NoLeader
  BY DEF LeaderAt
<1> HIDE DEF w
<1>5. /\ k \in 0 .. Len(Schedule)
      /\ k > 0 => Schedule[k].startSlot <= w
      /\ k < Len(Schedule) => Schedule[k + 1].startSlot > w
  BY <1>2, SearchSplits
<1> HIDE DEF k
<1>6. ASSUME NEW i \in 1 .. Len(Schedule), Covers(i, w)
      PROVE  LeaderAt(slot) = Schedule[i].leader
  <2>1. i <= k
    <3> SUFFICES ASSUME k < i PROVE FALSE
      BY <1>1, <1>5
    <3>1. k + 1 \in 1 .. Len(Schedule) /\ k + 1 <= i
      BY <1>1, <1>5
    <3>2. Schedule[k + 1].startSlot <= Schedule[i].startSlot
      BY <1>1, <1>3, <3>1
    <3> QED BY <1>1, <1>2, <1>5, <1>6, <3>1, <3>2 DEF Covers
  <2>2. i >= k
    <3> SUFFICES ASSUME i < k PROVE FALSE
      BY <1>1, <1>5
    <3>1. i + 1 \in 2 .. Len(Schedule) /\ i + 1 <= k /\ (i + 1) - 1 = i
      BY <1>1, <1>5
    <3>2. Schedule[i + 1].startSlot > Schedule[i].endSlot
      BY <1>3, <3>1
    <3>3. Schedule[i + 1].startSlot <= Schedule[k].startSlot
      BY <1>1, <1>3, <1>5, <3>1
    <3> QED BY <1>1, <1>2, <1>5, <1>6, <3>1, <3>2, <3>3 DEF Covers
  <2>3. i = k
    BY <1>1, <1>5, <2>1, <2>2
  <2> QED BY <1>4, <1>6, <2>3 DEF Covers
<1>7. ASSUME \A i \in 1 .. Len(Schedule) : ~ Covers(i, w)
      PROVE  LeaderAt(slot) = NoLeader
  BY <1>1, <1>4, <1>5, <1>7 DEF Covers
<1> QED BY <1>6, <1>7 DEF w

-----------------------------------------------------------------------------
\* Hashes, entries and blocks

Link == [of : Nat \cup Batches, then : Nat]

Made == Seq(Link) \ {<<>>}

\* Entries as PoH makes them
MadeEntry == [numHashes : 1 .. HashesPerTick, hash : Made, batch : Batches \cup {NoBatch}]

MadeBlock == [prevHash : Made, entries : Seq(MadeEntry), clean : BOOLEAN]

LEMMA SeedMade == ASSUME NEW n \in Nat PROVE Seed(n) \in Made
<1>1. [of |-> n, then |-> 0] \in Link
  BY DEF Link
<1> QED BY <1>1 DEF Seed, Made

LEMMA HashNMade == ASSUME NEW h \in Made, NEW n \in Nat PROVE HashN(h, n) \in Made
<1> DEFINE last == h[Len(h)]
           next == [last EXCEPT !.then = @ + n]
<1>1. h \in Seq(Link) /\ Len(h) \in 1 .. Len(h) /\ h # <<>>
  BY DEF Made
<1>2. last \in Link
  BY <1>1
<1>3. next \in Link
  BY <1>2 DEF Link
<1>4. HashN(h, n) = [h EXCEPT ![Len(h)] = next]
  BY DEF HashN
<1> HIDE DEF next
<1>5. [h EXCEPT ![Len(h)] = next] \in Seq(Link) /\ [h EXCEPT ![Len(h)] = next] # <<>>
  BY <1>1, <1>3
<1> QED BY <1>4, <1>5 DEF Made

LEMMA HashMixinMade == ASSUME NEW h \in Made, NEW b \in Batches PROVE HashMixin(h, b) \in Made
<1>1. [of |-> b, then |-> 0] \in Link
  BY DEF Link
<1>2. h \in Seq(Link)
  BY DEF Made
<1> QED BY <1>1, <1>2 DEF HashMixin, Made

LEMMA EntryMade ==
    ASSUME NEW n \in 1 .. HashesPerTick, NEW h \in Made, NEW b \in Batches \cup {NoBatch}
    PROVE  Entry(n, h, b) \in MadeEntry
BY DEF Entry, MadeEntry

LEMMA MadeEntryFields ==
    ASSUME NEW e \in MadeEntry
    PROVE  e.numHashes \in 1 .. HashesPerTick /\ e.hash \in Made
BY DEF MadeEntry

LEMMA MadeBlockFields ==
    ASSUME NEW b \in MadeBlock
    PROVE  b.prevHash \in Made /\ b.entries \in Seq(MadeEntry) /\ b.clean \in BOOLEAN
BY DEF MadeBlock

LEMMA LastEntryHashMade == ASSUME NEW b \in MadeBlock PROVE LastEntryHash(b) \in Made
<1> DEFINE es == b.entries
<1>1. es \in Seq(MadeEntry)
  BY MadeBlockFields
<1>2. LastEntryHash(b) = IF es = <<>> THEN Seed(0) ELSE es[Len(es)].hash
  BY DEF LastEntryHash
<1> HIDE DEF es
<1>3. CASE es = <<>>
  BY <1>2, <1>3, SeedMade
<1>4. CASE es # <<>>
  <2>1. es[Len(es)] \in MadeEntry
    BY <1>1, <1>4
  <2> QED BY <1>2, <1>4, <2>1, MadeEntryFields
<1> QED BY <1>3, <1>4

LEMMA PeerBlockMade == ASSUME NEW s \in Nat PROVE PeerBlock(s) \in MadeBlock
<1>1. Entry(1, Seed(s), NoBatch) \in MadeEntry
  BY SeedMade, EntryMade, ClockAssumption
<1>2. <<Entry(1, Seed(s), NoBatch)>> \in Seq(MadeEntry)
  BY <1>1
<1>3. Seed(0) \in Made
  BY SeedMade
<1> QED BY <1>2, <1>3 DEF PeerBlock, MadeBlock

-----------------------------------------------------------------------------
\* The inductive invariant

\* The counters of Poh, the recorder, leadership and the store.  What keeps an
\* entry within one tick is that the hashes counted for the next entry and the
\* hashes left before the tick never add up to more than a tick.
Clock ==
    /\ hash \in Made /\ seedHash \in Made
    /\ numHashes \in Nat /\ remainingHashes \in 1 .. HashesPerTick
    /\ numHashes + remainingHashes <= HashesPerTick
    /\ tickHeight \in 0 .. MaxSlot * TicksPerSlot
    /\ \A s \in DOMAIN slotHashes : s \in Slots /\ slotHashes[s] \in Made
    /\ rolePc \in {"monitor", "wait", "reset", "fields", "stuck"}
    /\ roleSlot \in 0 .. MaxSlot + 1 /\ leaderStartAtSlot \in 0 .. MaxSlot + 1
    /\ rolePc \in {"wait", "reset", "fields"} => roleSlot >= 1
    /\ blocks \in [Slots -> MadeBlock \cup {NoBlock}]
    /\ latestStore \in Slots /\ blocks[latestStore] \in MadeBlock

\* Entries on their way from Record and Tick to the store, and the control state
\* of the loops that carry them.
Flow ==
    /\ entries \in Seq(MadeEntry) /\ flushed \in Seq(MadeEntry)
    /\ collectedEntries \in Seq(MadeEntry)
    /\ \A b \in broadcast : b.slot \in Slots /\ b.block \in MadeBlock
    /\ flushPc \in {"drain", "tick", "entry"} /\ batchPc \in {"check", "record"}
    /\ pending \subseteq Batches
    /\ recvPc \in {"idle", "sync"} /\ recvSlot \in Slots
    /\ recvPc = "sync" => blocks[recvSlot] \in MadeBlock
    /\ clean \in BOOLEAN

LEMMA Div ==
    ASSUME NEW n \in Nat, NEW t \in Nat \ {0}, NEW m \in Nat, n <= m * t
    PROVE  n \div t \in 0 .. m
<1> DEFINE q == n \div t
<1>1. q \in Int /\ q * t <= n /\ n < (q + 1) * t
  BY SMTT(30)
<1>2. q <= m
  BY <1>1, SMTT(30)
<1>3. q >= 0
  BY <1>1, SMTT(30)
<1> QED BY <1>1, <1>2, <1>3

LEMMA Product == ASSUME NEW a \in Nat, NEW b \in Nat PROVE a * b \in Nat
OBVIOUS

LEMMA ProductMonotone ==
    ASSUME NEW a \in Nat, NEW b \in Nat, NEW c \in Nat, a <= b PROVE a * c <= b * c
BY SMTT(30)

LEMMA PutMade ==
    ASSUME NEW q, \A s \in DOMAIN q : s \in Slots /\ q[s] \in Made,
           NEW slot \in Slots, NEW h \in Made
    PROVE  \A s \in DOMAIN Put(q, slot, h) : s \in Slots /\ Put(q, slot, h)[s] \in Made
BY DEF Put

LEMMA SlotBounds ==
    ASSUME Clock
    PROVE  tickHeight \div TicksPerSlot \in Slots /\ CurrentSlot \in 1 .. MaxSlot + 1
           /\ CurrentSlot - 1 \in Slots
<1>1. tickHeight \in Nat /\ TicksPerSlot \in Nat \ {0} /\ MaxSlot \in Nat
      /\ tickHeight <= MaxSlot * TicksPerSlot
  BY ClockAssumption, Product DEF Clock
<1>2. tickHeight \div TicksPerSlot \in 0 .. MaxSlot
  BY <1>1, Div
<1> QED BY <1>1, <1>2 DEF CurrentSlot, Slots

LEMMA InitClock == Init => Clock /\ Flow
<1> SUFFICES ASSUME Init PROVE Clock /\ Flow
  OBVIOUS
<1>1. MaxSlot \in Nat /\ HashesPerTick \in Nat /\ HashesPerTick > 1 /\ 0 \in Slots
  BY ClockAssumption DEF Slots
<1>2. Seed(0) \in Made /\ PeerBlock(0) \in MadeBlock
  BY SeedMade, PeerBlockMade
<1>3. 0 \in 0 .. MaxSlot * TicksPerSlot
  BY ClockAssumption, Product
<1>4. Clock
  BY <1>1, <1>2, <1>3 DEF Init, Clock
<1>5. Flow
  BY <1>1 DEF Init, Flow
<1> QED BY <1>4, <1>5

LEMMA ResetClock ==
    ASSUME Clock, NEW h \in Made, NEW slot \in Slots, Reset(h, slot)
    PROVE  /\ hash' \in Made /\ numHashes' \in Nat /\ remainingHashes' \in 1 .. HashesPerTick
           /\ numHashes' + remainingHashes' <= HashesPerTick
           /\ tickHeight' \in 0 .. MaxSlot * TicksPerSlot
           /\ \A s \in DOMAIN slotHashes' : s \in Slots /\ slotHashes'[s] \in Made
<1>1. slot * TicksPerSlot \in 0 .. MaxSlot * TicksPerSlot
  BY ClockAssumption, Product, ProductMonotone DEF Slots
<1>2. \A s \in DOMAIN slotHashes' : s \in Slots /\ slotHashes'[s] \in Made
  BY PutMade, Zenon DEF Clock, Reset
<1> QED BY <1>1, <1>2, ClockAssumption DEF Reset

LEMMA ClockInductive == Clock /\ Flow /\ [Next]_vars => Clock'
<1> SUFFICES ASSUME Clock, Flow, [Next]_vars PROVE Clock'
  OBVIOUS
<1> USE DEF pohVars, recorderVars, flushVars, leaderVars, batchVars, roleVars, storeVars, recvVars
<1>0. /\ HashesPerTick \in Nat /\ HashesPerTick > 1
      /\ MaxSlot \in Nat /\ TicksPerSlot \in Nat \ {0}
  BY ClockAssumption
<1>1. CASE AutoHash
  <2>1. HashN(hash, 1) \in Made
    BY HashNMade DEF Clock
  <2> QED BY <1>0, <1>1, <2>1 DEF AutoHash, Clock
<1>2. CASE DrainEntries
  BY <1>2 DEF DrainEntries, Clock
<1>3. CASE Tick
  <2>1. HashN(hash, 1) \in Made
    BY HashNMade DEF Clock
  <2>2. tickHeight + 1 \in Nat /\ tickHeight + 1 <= MaxSlot * TicksPerSlot
    BY <1>0, <1>3, Product DEF Tick, Clock
  <2>3. (tickHeight + 1) \div TicksPerSlot \in Slots
    BY <1>0, <2>2, Div DEF Slots
  <2>4. \A s \in DOMAIN slotHashes' : s \in Slots /\ slotHashes'[s] \in Made
    BY <1>3, <2>1, <2>3, PutMade DEF Tick, Clock
  <2>5. hash' \in Made /\ numHashes' = 0 /\ remainingHashes' = HashesPerTick
        /\ tickHeight' = tickHeight + 1
    BY <1>3, <2>1 DEF Tick
  <2>6. UNCHANGED <<leaderVars, roleVars, storeVars>>
    BY <1>3 DEF Tick
  <2> QED BY <1>0, <2>2, <2>4, <2>5, <2>6, Product DEF Clock
<1>4. CASE NoTick
  BY <1>4 DEF NoTick, Clock
<1>5. CASE HandleEntry
  BY <1>5 DEF HandleEntry, Clock
<1>6. CASE BatchCheck
  BY <1>6 DEF BatchCheck, Clock
<1>7. ASSUME NEW b \in Batches, RecordTxs(b) PROVE Clock'
  <2>1. HashMixin(hash, b) \in Made
    BY HashMixinMade DEF Clock
  <2> QED BY <1>0, <1>7, <2>1 DEF RecordTxs, Clock
<1>8. CASE RecordRefused
  BY <1>8 DEF RecordRefused, Clock
<1>9. CASE LeaderSlotStart
  <2>1. CurrentSlot \in 1 .. MaxSlot + 1
    BY SlotBounds
  <2> QED BY <1>0, <1>9, <2>1 DEF LeaderSlotStart, Clock
<1>10. CASE LeaderSlotEnd
  BY <1>0, <1>10 DEF LeaderSlotEnd, Clock
<1>11. CASE PrevBlockFound
  <2>1. blocks[roleSlot - 1] \in MadeBlock
    BY <1>0, <1>11 DEF PrevBlockFound, Clock, Slots
  <2>2. LastEntryHash(blocks[roleSlot - 1]) \in Made
    BY <2>1, LastEntryHashMade
  <2> QED BY <1>11, <2>2 DEF PrevBlockFound, Clock
<1>12. CASE Deadline
  <2>1. LastSeenHash \in Made
    BY LastEntryHashMade DEF LastSeenHash, Clock
  <2>2. CASE latestStore < roleSlot
    <3> DEFINE n == (roleSlot - 1 - latestStore) * TicksPerSlot * HashesPerTick
               h == HashN(LastSeenHash, n)
    <3>1. roleSlot - 1 - latestStore \in Nat
      BY <1>0, <2>2 DEF Clock, Slots
    <3>2. n \in Nat
      BY <1>0, <3>1, Product
    <3>3. h \in Made
      <4> HIDE DEF n
      <4> QED BY <2>1, <3>2, HashNMade
    <3>4. hash' = h /\ seedHash' = h /\ numHashes' = 0 /\ remainingHashes' = HashesPerTick
          /\ rolePc' = "reset"
      BY <1>12, <2>2 DEF Deadline
    <3>5. UNCHANGED <<recorderVars, leaderVars, roleSlot, storeVars>> /\ rolePc = "wait"
      BY <1>12 DEF Deadline
    <3> HIDE DEF h
    <3> QED BY <1>0, <3>3, <3>4, <3>5 DEF Clock
  <2>3. CASE ~ (latestStore < roleSlot)
    BY <1>12, <2>3 DEF Deadline, Clock
  <2> QED BY <2>2, <2>3
<1>13. CASE LeaderReset
  <2>1. roleSlot - 1 \in Slots /\ seedHash \in Made
    BY <1>0, <1>13 DEF LeaderReset, Clock, Slots
  <2>2. Reset(seedHash, roleSlot - 1)
    BY <1>13 DEF LeaderReset
  <2>3. UNCHANGED <<leaderVars, roleSlot, seedHash, storeVars>> /\ rolePc' = "fields"
        /\ rolePc = "reset"
    BY <1>13 DEF LeaderReset
  <2> QED BY <2>1, <2>2, <2>3, ResetClock DEF Clock
<1>14. CASE LeaderReady
  BY <1>0, <1>14, SeedMade DEF LeaderReady, Clock
<1>15. ASSUME NEW b \in broadcast, BroadcastBlock(b) PROVE Clock'
  <2>1. b.slot \in Slots /\ b.block \in MadeBlock
    BY DEF Flow
  <2>2. CASE blocks[b.slot] = NoBlock
    <3>1. blocks' = [blocks EXCEPT ![b.slot] = b.block]
          /\ latestStore' \in {latestStore, b.slot}
      BY <1>15, <2>2 DEF BroadcastBlock, Higher
    <3>2. blocks' \in [Slots -> MadeBlock \cup {NoBlock}] /\ latestStore' \in Slots
          /\ blocks'[latestStore'] \in MadeBlock
      BY <2>1, <3>1 DEF Clock
    <3> QED BY <1>15, <3>2 DEF BroadcastBlock, Clock
  <2>3. CASE blocks[b.slot] # NoBlock
    BY <1>15, <2>3 DEF BroadcastBlock, Clock
  <2> QED BY <2>2, <2>3
<1>16. ASSUME NEW s \in Slots, ReceiveBlock(s) PROVE Clock'
  <2>1. PeerBlock(s) \in MadeBlock
    BY <1>0, PeerBlockMade DEF Slots
  <2>2. blocks' = [blocks EXCEPT ![s] = PeerBlock(s)] /\ latestStore' \in {latestStore, s}
    BY <1>16 DEF ReceiveBlock, Higher
  <2>3. blocks' \in [Slots -> MadeBlock \cup {NoBlock}] /\ latestStore' \in Slots
        /\ blocks'[latestStore'] \in MadeBlock
    BY <2>1, <2>2 DEF Clock
  <2> QED BY <1>16, <2>3 DEF ReceiveBlock, Clock
<1>17. CASE SyncPohFromLeader
  <2>1. UNCHANGED <<leaderVars, roleVars, storeVars>> /\ recvPc = "sync"
    BY <1>17 DEF SyncPohFromLeader
  <2>2. CASE UNCHANGED <<pohVars, recorderVars>>
    BY <2>1, <2>2 DEF Clock
  <2>3. CASE Reset(LastEntryHash(blocks[recvSlot]), recvSlot)
    <3>1. LastEntryHash(blocks[recvSlot]) \in Made /\ recvSlot \in Slots
      BY <2>1, LastEntryHashMade DEF Flow
    <3> QED BY <2>1, <2>3, <3>1, ResetClock DEF Clock
  <2> QED BY <1>17, <2>2, <2>3 DEF SyncPohFromLeader
<1>18. CASE UNCHANGED vars
  BY <1>18 DEF vars, Clock
<1> QED BY <1>1, <1>2, <1>3, <1>4, <1>5, <1>6, <1>7, <1>8, <1>9, <1>10, <1>11, <1>12, <1>13,
           <1>14, <1>15, <1>16, <1>17, <1>18 DEF Next, Flush, Role, Broadcast

LEMMA FlowInductive == Clock /\ Flow /\ [Next]_vars => Flow'
<1> SUFFICES ASSUME Clock, Flow, [Next]_vars PROVE Flow'
  OBVIOUS
<1> USE DEF pohVars, recorderVars, flushVars, leaderVars, batchVars, roleVars, storeVars, recvVars
<1>0. HashesPerTick \in Nat /\ HashesPerTick > 1 /\ MaxSlot \in Nat
  BY ClockAssumption
<1>1. CASE AutoHash
  BY <1>1, Zenon DEF AutoHash, Flow
<1>2. CASE DrainEntries
  <2>1. <<>> \in Seq(MadeEntry)
    OBVIOUS
  <2> QED BY <1>2, <2>1, Zenon DEF DrainEntries, Flow
<1>3. CASE Tick
  <2> DEFINE e == Entry(numHashes + 1, HashN(hash, 1), NoBatch)
  <2>1. HashN(hash, 1) \in Made
    BY HashNMade DEF Clock
  <2>2. numHashes + 1 \in 1 .. HashesPerTick
    BY <1>0, <1>3 DEF Tick, Clock
  <2>3. e \in MadeEntry
    BY <2>1, <2>2, EntryMade
  <2>4. flushed' = Append(flushed, e) /\ clean' \in BOOLEAN /\ flushPc' = "entry"
    BY <1>3 DEF Tick
  <2> HIDE DEF e
  <2>5. flushed' \in Seq(MadeEntry)
    BY <2>3, <2>4 DEF Flow
  <2>6. UNCHANGED <<entries, leaderVars, batchVars, storeVars, recvVars>>
    BY <1>3 DEF Tick
  <2> QED BY <2>4, <2>5, <2>6, Zenon DEF Flow
<1>4. CASE NoTick
  BY <1>4 DEF NoTick, Flow
<1>5. CASE HandleEntry
  <2>1. collectedEntries \o flushed \in Seq(MadeEntry)
    BY ConcatProperties DEF Flow
  <2>2. collectedEntries' \in Seq(MadeEntry)
    <3>1. collectedEntries' \in {<<>>, collectedEntries, collectedEntries \o flushed}
      BY <1>5 DEF HandleEntry
    <3>2. <<>> \in Seq(MadeEntry) /\ collectedEntries \in Seq(MadeEntry)
      BY DEF Flow
    <3> QED BY <2>1, <3>1, <3>2, Zenon
  <2>3. GetSlotHash(CurrentSlot - 2) \in Made
    BY SeedMade DEF GetSlotHash, Clock
  <2>4. Assembled.slot \in Slots /\ Assembled.block \in MadeBlock
    BY <2>1, <2>3, SlotBounds DEF Assembled, MadeBlock, Flow
  <2>5. broadcast' \subseteq broadcast \cup {Assembled}
    BY <1>5 DEF HandleEntry
  <2>6. \A b \in broadcast' : b.slot \in Slots /\ b.block \in MadeBlock
    <3> HIDE DEF Assembled
    <3> QED BY <2>4, <2>5 DEF Flow
  <2>7. /\ clean' \in BOOLEAN /\ flushed' = <<>> /\ flushPc' = "drain"
        /\ UNCHANGED <<recorderVars, batchVars, blocks, recvVars>>
    BY <1>5 DEF HandleEntry
  <2> QED BY <2>2, <2>6, <2>7 DEF Flow
<1>6. CASE BatchCheck
  BY <1>6 DEF BatchCheck, Flow
<1>7. ASSUME NEW b \in Batches, RecordTxs(b) PROVE Flow'
  <2> DEFINE e == Entry(numHashes + 1, HashMixin(hash, b), b)
  <2>1. HashMixin(hash, b) \in Made
    BY HashMixinMade DEF Clock
  <2>2. numHashes + 1 \in 1 .. HashesPerTick
    BY <1>0, <1>7 DEF RecordTxs, Clock
  <2>3. e \in MadeEntry
    BY <2>1, <2>2, EntryMade
  <2>4. entries' = Append(entries, e) /\ clean' \in BOOLEAN /\ batchPc' = "check"
        /\ pending' = pending \ {b}
    BY <1>7 DEF RecordTxs
  <2> HIDE DEF e
  <2>5. entries' \in Seq(MadeEntry)
    BY <2>3, <2>4 DEF Flow
  <2>6. UNCHANGED <<flushVars, leaderVars, storeVars, recvVars>>
    BY <1>7 DEF RecordTxs
  <2> QED BY <2>4, <2>5, <2>6 DEF Flow
<1>8. CASE RecordRefused
  BY <1>8 DEF RecordRefused, Flow
<1>9. CASE LeaderSlotStart
  BY <1>9 DEF LeaderSlotStart, Flow
<1>10. CASE LeaderSlotEnd
  BY <1>10 DEF LeaderSlotEnd, Flow
<1>11. CASE PrevBlockFound
  BY <1>11 DEF PrevBlockFound, Flow
<1>12. CASE Deadline
  BY <1>12 DEF Deadline, Flow
<1>13. CASE LeaderReset
  BY <1>13 DEF LeaderReset, Reset, Flow
<1>14. CASE LeaderReady
  BY <1>14 DEF LeaderReady, Flow
<1>15. ASSUME NEW b \in broadcast, BroadcastBlock(b) PROVE Flow'
  <2>1. b.slot \in Slots /\ b.block \in MadeBlock
    BY DEF Flow
  <2>2. blocks' = blocks \/ blocks' = [blocks EXCEPT ![b.slot] = b.block]
    BY <1>15 DEF BroadcastBlock
  <2>3. recvPc = "sync" => blocks'[recvSlot] \in MadeBlock
    BY <2>1, <2>2 DEF Flow, Clock
  <2>4. broadcast' \subseteq broadcast
        /\ UNCHANGED <<recorderVars, flushVars, leaderVars, batchVars, recvVars, clean>>
    BY <1>15 DEF BroadcastBlock
  <2> QED BY <2>3, <2>4 DEF Flow
<1>16. ASSUME NEW s \in Slots, ReceiveBlock(s) PROVE Flow'
  <2>1. PeerBlock(s) \in MadeBlock
    BY <1>0, PeerBlockMade DEF Slots
  <2>2. blocks'[s] \in MadeBlock
    BY <1>16, <2>1 DEF ReceiveBlock, Clock
  <2>3. recvPc' = "sync" /\ recvSlot' = s
    BY <1>16 DEF ReceiveBlock
  <2>4. UNCHANGED <<recorderVars, flushVars, leaderVars, batchVars, broadcast, clean>>
    BY <1>16 DEF ReceiveBlock
  <2> QED BY <2>2, <2>3, <2>4 DEF Flow
<1>17. CASE SyncPohFromLeader
  <2>1. entries' = entries \/ entries' = <<>>
    BY <1>17 DEF SyncPohFromLeader, Reset
  <2>2. recvPc' = "idle" /\ recvSlot' = 0
        /\ UNCHANGED <<flushVars, leaderVars, batchVars, storeVars, clean>>
    BY <1>17 DEF SyncPohFromLeader
  <2>3. entries' \in Seq(MadeEntry)
    <3>1. <<>> \in Seq(MadeEntry) /\ entries \in Seq(MadeEntry)
      BY DEF Flow
    <3> QED BY <2>1, <3>1, Zenon
  <2>4. recvSlot' \in Slots
    BY <1>0, <2>2 DEF Slots
  <2> QED BY <2>2, <2>3, <2>4 DEF Flow
<1>18. CASE UNCHANGED vars
  BY <1>18 DEF vars, Flow
<1> QED BY <1>1, <1>2, <1>3, <1>4, <1>5, <1>6, <1>7, <1>8, <1>9, <1>10, <1>11, <1>12, <1>13,
           <1>14, <1>15, <1>16, <1>17, <1>18 DEF Next, Flush, Role, Broadcast

LEMMA Invariant == Spec => [](Clock /\ Flow)
BY InitClock, ClockInductive, FlowInductive, PTL DEF Spec

LEMMA MadeSubsets == MadeEntry \subseteq Entries /\ MadeBlock \subseteq Blocks
<1>1. Made \subseteq Hashes
  BY DEF Made, Hashes, Link
<1>2. MadeEntry \subseteq Entries
  BY <1>1, ClockAssumption DEF MadeEntry, Entries
<1>3. Seq(MadeEntry) \subseteq Seq(Entries)
  BY <1>2
<1> QED BY <1>1, <1>2, <1>3 DEF MadeBlock, Blocks

\* The variables of the clock, of leadership and of the store keep their types.
THEOREM ClockTypeCorrect == Spec => []TypeOK
<1>1. Clock /\ Flow => TypeOK
  <2> SUFFICES ASSUME Clock, Flow PROVE TypeOK
    OBVIOUS
  <2>1. Made = Hashes \ {<<>>}
    BY DEF Made, Hashes, Link
  <2>2. Seq(MadeEntry) \subseteq Seq(Entries) /\ MadeBlock \subseteq Blocks
    BY MadeSubsets
  <2>3. blocks \in [Slots -> Blocks \cup {NoBlock}]
    BY <2>2 DEF Clock
  <2> QED BY <2>1, <2>2, <2>3 DEF Clock, Flow, TypeOK
<1> QED BY <1>1, Invariant, PTL

\* Every entry, wherever it is between Record or Tick and the store, stands for
\* at least one hash and at most one tick's worth, for any hashes per tick: the
\* bounds VerifyEntries relies on when it counts to NumHashes - 1.
THEOREM EntryHashesAlwaysInRange == Spec => []EntryHashesInRange
<1>1. Clock /\ Flow => EntryHashesInRange
  <2> SUFFICES ASSUME Clock, Flow, NEW e \in AllEntries PROVE e.numHashes \in 1 .. HashesPerTick
    BY DEF EntryHashesInRange
  <2>1. \A seq \in Seq(MadeEntry) : \A i \in DOMAIN seq : seq[i] \in MadeEntry
    OBVIOUS
  <2>2. \A b \in broadcast : b.block.entries \in Seq(MadeEntry)
    BY MadeBlockFields DEF Flow
  <2>3. \A s \in Slots : blocks[s] # NoBlock => blocks[s].entries \in Seq(MadeEntry)
    BY MadeBlockFields DEF Clock
  <2>4. e \in MadeEntry
    BY <2>1, <2>2, <2>3, SMTT(40) DEF AllEntries, Flow
  <2> QED BY <2>4, MadeEntryFields
<1> QED BY <1>1, Invariant, PTL

-----------------------------------------------------------------------------
\* A leader's own blocks

LEMMA HashNothing == ASSUME NEW h \in Made PROVE HashN(h, 0) = h
<1> DEFINE last == h[Len(h)]
<1>1. h \in Seq(Link) /\ Len(h) \in DOMAIN h /\ last \in Link
  BY DEF Made
<1>2. [last EXCEPT !.then = @ + 0] = last
  BY <1>1 DEF Link
<1>3. HashN(h, 0) = [h EXCEPT ![Len(h)] = [last EXCEPT !.then = @ + 0]]
  BY DEF HashN
<1> HIDE DEF last
<1>4. [h EXCEPT ![Len(h)] = last] = h
  BY <1>1 DEF last
<1> QED BY <1>2, <1>3, <1>4

LEMMA HashOneMore ==
    ASSUME NEW h \in Made, NEW n \in Nat
    PROVE  HashN(HashN(h, n), 1) = HashN(h, n + 1)
<1> DEFINE last == h[Len(h)]
           more(k) == [last EXCEPT !.then = @ + k]
<1>1. h \in Seq(Link) /\ Len(h) \in DOMAIN h /\ last \in Link
  BY DEF Made
<1>2. \A k : HashN(h, k) = [h EXCEPT ![Len(h)] = more(k)]
  BY DEF HashN
<1>3. more(n) \in Link /\ [more(n) EXCEPT !.then = @ + 1] = more(n + 1)
  <2>1. PICK o \in Nat \cup Batches, k \in Nat : last = [of |-> o, then |-> k]
    BY <1>1 DEF Link
  <2> HIDE DEF last
  <2>2. more(n) = [of |-> o, then |-> k + n] /\ more(n + 1) = [of |-> o, then |-> k + (n + 1)]
    BY <2>1
  <2>3. k + n \in Nat /\ (k + n) + 1 = k + (n + 1)
    OBVIOUS
  <2> HIDE DEF more
  <2> QED BY <2>2, <2>3 DEF Link
<1> HIDE DEF more, last
<1> DEFINE g == [h EXCEPT ![Len(h)] = more(n)]
<1>4. g \in Seq(Link) /\ Len(g) = Len(h) /\ g[Len(g)] = more(n)
  BY <1>1, <1>3
<1>5. HashN(g, 1) = [g EXCEPT ![Len(g)] = [g[Len(g)] EXCEPT !.then = @ + 1]]
  BY DEF HashN
<1>6. [g EXCEPT ![Len(g)] = more(n + 1)] = [h EXCEPT ![Len(h)] = more(n + 1)]
  BY <1>1, <1>4
<1> HIDE DEF g
<1>7. HashN(g, 1) = [h EXCEPT ![Len(h)] = more(n + 1)]
  BY <1>3, <1>4, <1>5, <1>6, Zenon
<1> QED BY <1>2, <1>7, Zenon DEF g

\* Every entry of seq is what VerifyEntries computes from the one before it, the
\* first from base.
Follows(base, seq) ==
    \A i \in DOMAIN seq :
        seq[i].hash = Replay(IF i = 1 THEN base ELSE seq[i - 1].hash, seq[i])

EndOf(base, seq) == IF seq = <<>> THEN base ELSE seq[Len(seq)].hash

\* The entries of seq lead from base to where n more hashes give h, and there are
\* at most m of them.
Line(base, seq, h, n, m) ==
    Follows(base, seq) /\ h = HashN(EndOf(base, seq), n) /\ Len(seq) <= m

LEMMA EndOfMade ==
    ASSUME NEW base \in Made, NEW seq \in Seq(MadeEntry)
    PROVE  EndOf(base, seq) \in Made
<1>1. CASE seq = <<>>
  BY <1>1 DEF EndOf
<1>2. CASE seq # <<>>
  <2>1. seq[Len(seq)] \in MadeEntry
    BY <1>2
  <2> QED BY <1>2, <2>1, MadeEntryFields DEF EndOf
<1> QED BY <1>1, <1>2

LEMMA LineStarts ==
    ASSUME NEW base \in Made, NEW m \in Nat
    PROVE  Line(base, <<>>, base, 0, m)
<1>1. EndOf(base, <<>>) = base /\ Follows(base, <<>>)
  BY DEF EndOf, Follows
<1> QED BY <1>1, HashNothing DEF Line

LEMMA LineHashes ==
    ASSUME NEW base \in Made, NEW seq \in Seq(MadeEntry), NEW h, NEW n \in Nat, NEW m \in Nat,
           Line(base, seq, h, n, m)
    PROVE  Line(base, seq, HashN(h, 1), n + 1, m + 1)
<1>1. HashN(h, 1) = HashN(EndOf(base, seq), n + 1)
  BY EndOfMade, HashOneMore, Zenon DEF Line
<1>2. Len(seq) <= m + 1
  BY DEF Line
<1> QED BY <1>1, <1>2, Zenon DEF Line

\* A further entry extends the line if it is what the end of the line gives.
LEMMA LineExtends ==
    ASSUME NEW base \in Made, NEW seq \in Seq(MadeEntry), NEW e \in MadeEntry, NEW m \in Nat,
           Follows(base, seq), Len(seq) <= m, e.hash = Replay(EndOf(base, seq), e)
    PROVE  Line(base, Append(seq, e), e.hash, 0, m + 1)
<1> DEFINE t == Append(seq, e)
           k == Len(seq) + 1
<1>1. /\ t \in Seq(MadeEntry) /\ Len(t) = k /\ t # <<>> /\ t[k] = e
      /\ \A i \in 1 .. Len(seq) : t[i] = seq[i]
      /\ Len(seq) \in Nat
  BY AppendProperties
<1> HIDE DEF t
<1>2. EndOf(base, t) = e.hash
  BY <1>1 DEF EndOf
<1>3. ASSUME NEW i \in DOMAIN t
      PROVE  t[i].hash = Replay(IF i = 1 THEN base ELSE t[i - 1].hash, t[i])
  <2>1. CASE i = k
    <3>1. EndOf(base, seq) = IF i = 1 THEN base ELSE t[i - 1].hash
      <4>1. CASE seq = <<>>
        BY <1>1, <2>1, <4>1 DEF EndOf
      <4>2. CASE seq # <<>>
        <5>1. Len(seq) # 0 /\ i - 1 = Len(seq) /\ Len(seq) \in 1 .. Len(seq) /\ i # 1
          BY <1>1, <2>1, <4>2
        <5> QED BY <1>1, <4>2, <5>1 DEF EndOf
      <4> QED BY <4>1, <4>2
    <3> QED BY <1>1, <2>1, <3>1, Zenon
  <2>2. CASE i # k
    <3>1. i \in 1 .. Len(seq) /\ i \in DOMAIN seq /\ (i # 1 => i - 1 \in 1 .. Len(seq))
      BY <1>1, <2>2
    <3>2. seq[i].hash = Replay(IF i = 1 THEN base ELSE seq[i - 1].hash, seq[i])
      BY <3>1 DEF Follows
    <3> QED BY <1>1, <3>1, <3>2, Zenon
  <2> QED BY <2>1, <2>2
<1>4. e.hash = HashN(EndOf(base, t), 0)
  BY <1>2, HashNothing, MadeEntryFields
<1>5. Len(t) <= m + 1
  BY <1>1
<1> QED BY <1>3, <1>4, <1>5 DEF Line, Follows, t

\* Record adds an entry with a batch, Tick one without.
LEMMA LineRecords ==
    ASSUME NEW base \in Made, NEW seq \in Seq(MadeEntry), NEW h \in Made, NEW n \in Nat,
           NEW m \in Nat, Line(base, seq, h, n, m), NEW b \in Batches, n + 1 <= HashesPerTick
    PROVE  Line(base, Append(seq, Entry(n + 1, HashMixin(h, b), b)), HashMixin(h, b), 0, m + 1)
<1> DEFINE e == Entry(n + 1, HashMixin(h, b), b)
<1>1. e \in MadeEntry
  BY EntryMade, HashMixinMade, ClockAssumption
<1>2. e.numHashes - 1 = n /\ e.hash = HashMixin(h, b) /\ e.batch = b /\ b # NoBatch
  BY ClockAssumption DEF Entry
<1> HIDE DEF e
<1>3. e.hash = Replay(EndOf(base, seq), e)
  BY <1>2 DEF Replay, Line
<1>4. Follows(base, seq) /\ Len(seq) <= m
  BY DEF Line
<1>5. Line(base, Append(seq, e), e.hash, 0, m + 1)
  BY <1>1, <1>3, <1>4, LineExtends
<1> QED BY <1>2, <1>5, Zenon DEF e

LEMMA LineTicks ==
    ASSUME NEW base \in Made, NEW seq \in Seq(MadeEntry), NEW h \in Made, NEW n \in Nat,
           NEW m \in Nat, Line(base, seq, h, n, m), n + 1 <= HashesPerTick
    PROVE  Line(base, Append(seq, Entry(n + 1, HashN(h, 1), NoBatch)), HashN(h, 1), 0, m + 1)
<1> DEFINE e == Entry(n + 1, HashN(h, 1), NoBatch)
<1>1. e \in MadeEntry
  BY EntryMade, HashNMade, ClockAssumption
<1>2. e.numHashes = n + 1 /\ e.hash = HashN(h, 1) /\ e.batch = NoBatch
  BY DEF Entry
<1> HIDE DEF e
<1>3. HashN(h, 1) = HashN(EndOf(base, seq), n + 1)
  BY EndOfMade, HashOneMore, Zenon DEF Line
<1>4. e.hash = Replay(EndOf(base, seq), e)
  BY <1>2, <1>3 DEF Replay
<1>5. Follows(base, seq) /\ Len(seq) <= m
  BY DEF Line
<1>6. Line(base, Append(seq, e), e.hash, 0, m + 1)
  BY <1>1, <1>4, <1>5, LineExtends
<1> QED BY <1>2, <1>6, Zenon DEF e

\* Division by a number of ticks

LEMMA DivMod ==
    ASSUME NEW n \in Nat, NEW t \in Nat \ {0}
    PROVE  /\ n \div t \in Nat /\ n % t \in 0 .. t - 1
           /\ n = (n \div t) * t + (n % t)
BY SMTT(30)

LEMMA Quotient ==
    ASSUME NEW t \in Nat \ {0}, NEW p \in Nat, NEW q \in Nat, NEW a \in 0 .. t - 1,
           NEW b \in 0 .. t - 1, p * t + a = q * t + b
    PROVE  p = q /\ a = b
<1>1. ASSUME NEW x \in Nat, NEW y \in Nat, x < y PROVE x * t + t <= y * t
  <2>1. x + 1 <= y /\ x + 1 \in Nat
    BY <1>1
  <2>2. (x + 1) * t <= y * t
    BY <2>1, ProductMonotone
  <2>3. (x + 1) * t = x * t + t
    BY SMTT(30)
  <2> QED BY <2>2, <2>3
<1>2. p * t \in Nat /\ q * t \in Nat
  BY Product
<1>3. ~ (p < q)
  BY <1>1, <1>2
<1>4. ~ (q < p)
  BY <1>1, <1>2
<1>5. p = q
  BY <1>3, <1>4
<1> QED BY <1>2, <1>5

LEMMA DivModOf ==
    ASSUME NEW t \in Nat \ {0}, NEW q \in Nat, NEW a \in 0 .. t - 1
    PROVE  (q * t + a) \div t = q /\ (q * t + a) % t = a
<1> DEFINE n == q * t + a
<1>1. n \in Nat
  BY Product
<1>2. /\ n \div t \in Nat /\ n % t \in 0 .. t - 1
      /\ n = (n \div t) * t + (n % t)
  <2> HIDE DEF n
  <2> QED BY <1>1, DivMod
<1>3. q * t + a = (n \div t) * t + (n % t)
  BY <1>2, Zenon
<1> HIDE DEF n
<1>4. q = n \div t /\ a = n % t
  BY <1>2, <1>3, Quotient
<1> QED BY <1>4, Zenon DEF n

\* What a tick does to the slot and to the ticks of the slot
LEMMA NextTick ==
    ASSUME NEW n \in Nat, NEW t \in Nat \ {0}
    PROVE  /\ (n + 1) % t # 0 => (n + 1) \div t = n \div t /\ (n + 1) % t = (n % t) + 1
           /\ (n + 1) % t = 0 => (n + 1) \div t = n \div t + 1 /\ n % t = t - 1
<1> DEFINE q == n \div t
           a == n % t
<1>1. q \in Nat /\ a \in 0 .. t - 1 /\ n = q * t + a
  BY DivMod
<1> HIDE DEF q, a
<1>2. q * t \in Nat
  BY <1>1, Product
<1>3. CASE a = t - 1
  <2>1. (q + 1) * t = q * t + t
    BY <1>1, SMTT(30)
  <2>2. n + 1 = (q + 1) * t + 0
    BY <1>1, <1>2, <1>3, <2>1
  <2>3. ((q + 1) * t + 0) \div t = q + 1 /\ ((q + 1) * t + 0) % t = 0
    <3>1. q + 1 \in Nat /\ 0 \in 0 .. t - 1
      BY <1>1
    <3> QED BY <3>1, DivModOf
  <2> QED BY <1>3, <2>2, <2>3, Zenon DEF q, a
<1>4. CASE a # t - 1
  <2>1. a + 1 \in 0 .. t - 1 /\ n + 1 = q * t + (a + 1) /\ a + 1 # 0
    BY <1>1, <1>2, <1>4
  <2>2. (q * t + (a + 1)) \div t = q /\ (q * t + (a + 1)) % t = a + 1
    BY <1>1, <2>1, DivModOf
  <2> QED BY <2>1, <2>2, Zenon DEF q, a
<1> QED BY <1>3, <1>4

\* The loops by themselves: who may lead when, what kind of entries are where, and
\* that a received block is never above the latest one in the store.
Loops ==
    /\ rolePc # "monitor" => leaderStartAtSlot = 0
    /\ rolePc \in {"wait", "reset", "fields"} => IsLeader(roleSlot)
    /\ flushPc = "drain" => flushed = <<>>
    /\ flushPc = "entry" => flushed # <<>>
    /\ \A i \in DOMAIN entries : entries[i].batch \in Batches
    /\ flushPc = "tick" => \A i \in DOMAIN flushed : flushed[i].batch \in Batches
    /\ recvPc = "sync" => recvSlot <= latestStore

\* A tick is on its way to handleEntry; it ended a slot.
Ticked == flushPc = "entry" /\ flushed[Len(flushed)].batch = NoBatch
Ended == Ticked /\ IsLastTickOfSlot

\* This validator leads the current slot, or is about to once its fields are set.
Leads == rolePc = "fields" \/ (leaderStartAtSlot # 0 /\ IsLeader(CurrentSlot))

\* What handleEntry has collected of the current slot, the entries of the slot so
\* far, and the hashes of the slot so far
Held == IF rolePc = "fields" THEN <<>> ELSE collectedEntries
Sofar == IF Ended THEN entries ELSE Held \o (flushed \o entries)
Hashed == (tickHeight % TicksPerSlot) * HashesPerTick + (HashesPerTick - remainingHashes)

\* A leader's entries, wherever they are, lead from the hash that ended the
\* previous slot to the hash of the clock.
Led ==
    /\ Line(GetSlotHash(CurrentSlot - 1), Sofar, hash, numHashes, Hashed)
    /\ flushPc = "tick" => entries = <<>>
    /\ rolePc = "fields" => CurrentSlot = roleSlot /\ ~ Ended
    /\ Ended => IsLeader(CurrentSlot - 1) /\ collectedEntries # <<>>
    /\ ~ Ended => \/ Held # <<>>
                  \/ tickHeight % TicksPerSlot = 0
                  \/ tickHeight % TicksPerSlot = 1 /\ Ticked

Leading == clean /\ Leads => Led

\* The entries of a block
Sound(prev, seq) == Follows(prev, seq) /\ Len(seq) <= TicksPerSlot * HashesPerTick

\* At the end of a slot, what is there makes the block.
Ending ==
    clean /\ Ended /\ collectedEntries # <<>> =>
    /\ IsLeader(CurrentSlot - 1)
    /\ Sound(GetSlotHash(CurrentSlot - 2), collectedEntries \o flushed)

Idle == clean /\ ~ Leads /\ ~ Ended => collectedEntries = <<>>

\* Blocks on their way to the store, and in it
Delivered ==
    /\ \A b \in broadcast : b.block.clean => Sound(b.block.prevHash, b.block.entries)
    /\ \A s \in Slots :
         blocks[s] # NoBlock /\ blocks[s].clean => Sound(blocks[s].prevHash, blocks[s].entries)

LEMMA InitChains == Init => Loops /\ Leading /\ Ending /\ Idle /\ Delivered
<1> SUFFICES ASSUME Init PROVE Loops /\ Leading /\ Ending /\ Idle /\ Delivered
  OBVIOUS
<1>1. Loops
  BY DEF Init, Loops
<1>2. Leading /\ Ending /\ Idle
  BY Zenon DEF Init, Leading, Ending, Idle
<1>3. Delivered
  BY DEF Init, Delivered, PeerBlock
<1> QED BY <1>1, <1>2, <1>3

LEMMA SyncNotAhead ==
    ASSUME Clock, Flow, Loops, recvPc = "sync" PROVE ~ (recvSlot > latestStore)
<1>1. recvSlot \in Nat /\ latestStore \in Nat
  BY ClockAssumption DEF Flow, Clock, Slots
<1>2. recvSlot <= latestStore
  BY Zenon DEF Loops
<1> QED BY <1>1, <1>2

LEMMA LoopsInductive == Clock /\ Flow /\ Loops /\ [Next]_vars => Loops'
<1> SUFFICES ASSUME Clock, Flow, Loops, [Next]_vars PROVE Loops'
  OBVIOUS
<1> USE DEF pohVars, recorderVars, flushVars, leaderVars, batchVars, roleVars, storeVars, recvVars
<1>1. CASE AutoHash
  BY <1>1, Zenon DEF AutoHash, Loops
<1>2. CASE DrainEntries
  BY <1>2 DEF DrainEntries, Loops
<1>3. CASE Tick
  <2>1. flushed' # <<>>
    BY <1>3 DEF Tick, Flow
  <2> QED BY <1>3, <2>1, Zenon DEF Tick, Loops
<1>4. CASE NoTick
  BY <1>4 DEF NoTick, Loops
<1>5. CASE HandleEntry
  BY <1>5, Zenon DEF HandleEntry, Loops
<1>6. CASE BatchCheck
  BY <1>6, Zenon DEF BatchCheck, Loops
<1>7. ASSUME NEW b \in Batches, RecordTxs(b) PROVE Loops'
  <2> DEFINE e == Entry(numHashes + 1, hash', b)
  <2>1. entries' = Append(entries, e) /\ e.batch = b
    BY <1>7 DEF RecordTxs, Entry
  <2> HIDE DEF e
  <2>2. \A i \in DOMAIN entries' : entries'[i].batch \in Batches
    BY <2>1 DEF Loops, Flow
  <2> QED BY <1>7, <2>2, Zenon DEF RecordTxs, Loops
<1>8. CASE RecordRefused
  BY <1>8, Zenon DEF RecordRefused, Loops
<1>9. CASE LeaderSlotStart
  BY <1>9, Zenon DEF LeaderSlotStart, Loops
<1>10. CASE LeaderSlotEnd
  BY <1>10, Zenon DEF LeaderSlotEnd, Loops
<1>11. CASE PrevBlockFound
  BY <1>11, Zenon DEF PrevBlockFound, Loops
<1>12. CASE Deadline
  BY <1>12, Zenon DEF Deadline, Loops
<1>13. CASE LeaderReset
  <2>1. entries' = <<>> /\ rolePc = "reset" /\ rolePc' = "fields"
        /\ UNCHANGED <<flushPc, flushed, leaderStartAtSlot, roleSlot, recvPc, recvSlot, latestStore>>
    BY <1>13, Zenon DEF LeaderReset, Reset
  <2>2. \A i \in DOMAIN entries' : entries'[i].batch \in Batches
    BY <2>1
  <2> QED BY <2>1, <2>2, Zenon DEF Loops
<1>14. CASE LeaderReady
  BY <1>14, Zenon DEF LeaderReady, Loops
<1>15. ASSUME NEW b \in broadcast, BroadcastBlock(b) PROVE Loops'
  <2>1. latestStore' >= latestStore /\ latestStore \in Nat /\ latestStore' \in Nat /\ recvSlot \in Nat
    <3>1. b.slot \in Nat /\ latestStore \in Nat /\ recvSlot \in Nat
      BY ClockAssumption DEF Flow, Clock, Slots
    <3> QED BY <1>15, <3>1 DEF BroadcastBlock, Higher
  <2>2. recvPc = "sync" => recvSlot <= latestStore'
    BY <2>1 DEF Loops
  <2> QED BY <1>15, <2>2, Zenon DEF BroadcastBlock, Loops
<1>16. ASSUME NEW s \in Slots, ReceiveBlock(s) PROVE Loops'
  <2>1. recvSlot' <= latestStore'
    <3>1. s \in Nat /\ latestStore \in Nat
      BY ClockAssumption DEF Clock, Slots
    <3> QED BY <1>16, <3>1 DEF ReceiveBlock, Higher
  <2> QED BY <1>16, <2>1, Zenon DEF ReceiveBlock, Loops
<1>17. CASE SyncPohFromLeader
  <2>1. ~ (recvSlot > latestStore)
    BY <1>17, SyncNotAhead, Zenon DEF SyncPohFromLeader
  <2> QED BY <1>17, <2>1, Zenon DEF SyncPohFromLeader, Loops
<1>18. CASE UNCHANGED vars
  BY <1>18, Zenon DEF vars, Loops
<1> QED BY <1>1, <1>2, <1>3, <1>4, <1>5, <1>6, <1>7, <1>8, <1>9, <1>10, <1>11, <1>12, <1>13,
           <1>14, <1>15, <1>16, <1>17, <1>18 DEF Next, Flush, Role, Broadcast

Chains == Leading /\ Ending /\ Idle

LEMMA SofarTyped ==
    ASSUME Clock, Flow
    PROVE  /\ Held \in Seq(MadeEntry) /\ Sofar \in Seq(MadeEntry) /\ Hashed \in Nat
           /\ \A s : GetSlotHash(s) \in Made
<1>1. Held \in Seq(MadeEntry)
  BY DEF Held, Flow
<1>2. Sofar \in Seq(MadeEntry)
  BY <1>1, ConcatProperties, Zenon DEF Sofar, Flow
<1>3. \A s : GetSlotHash(s) \in Made
  BY SeedMade DEF GetSlotHash, Clock
<1>4. tickHeight % TicksPerSlot \in Nat
  BY ClockAssumption, DivMod, Product DEF Clock
<1>5. Hashed \in Nat
  <2>1. (tickHeight % TicksPerSlot) * HashesPerTick \in Nat
    BY <1>4, Product, ClockAssumption
  <2>2. HashesPerTick - remainingHashes \in Nat
    BY ClockAssumption DEF Clock
  <2> QED BY <2>1, <2>2 DEF Hashed
<1> QED BY <1>1, <1>2, <1>3, <1>5, Zenon

\* Steps that do not touch the clock, the entries or leadership
LEMMA ChainsSame ==
    ASSUME Chains,
           UNCHANGED <<hash, numHashes, remainingHashes, tickHeight, entries, slotHashes, flushPc,
                       flushed, leaderStartAtSlot, collectedEntries, rolePc, roleSlot, clean>>
    PROVE  Chains'
<1>1. Ticked' = Ticked /\ CurrentSlot' = CurrentSlot /\ Held' = Held /\ Hashed' = Hashed
      /\ IsLastTickOfSlot' = IsLastTickOfSlot
      /\ \A s : GetSlotHash(s)' = GetSlotHash(s)
  BY Zenon DEF Ticked, CurrentSlot, Held, Hashed, IsLastTickOfSlot, GetSlotHash
<1>2. Ended' = Ended
  BY <1>1, Zenon DEF Ended
<1>3. Sofar' = Sofar /\ Leads' = Leads
  BY <1>1, <1>2, Zenon DEF Sofar, Leads
<1>4. Led' = Led
  BY <1>1, <1>2, <1>3, Zenon DEF Led
<1> QED BY <1>1, <1>2, <1>3, <1>4, Zenon DEF Chains, Leading, Ending, Idle

\* Steps of a validator that does not lead
LEMMA ChainsAside ==
    ASSUME Chains, ~ Leads, ~ Leads',
           UNCHANGED <<tickHeight, slotHashes, flushPc, flushed, collectedEntries, clean>>
    PROVE  Chains'
<1>1. Ticked' = Ticked /\ CurrentSlot' = CurrentSlot
      /\ IsLastTickOfSlot' = IsLastTickOfSlot
      /\ \A s : GetSlotHash(s)' = GetSlotHash(s)
  BY Zenon DEF Ticked, CurrentSlot, IsLastTickOfSlot, GetSlotHash
<1>2. Ended' = Ended
  BY <1>1, Zenon DEF Ended
<1> QED BY <1>1, <1>2, Zenon DEF Chains, Leading, Ending, Idle

LEMMA AutoHashChains == ASSUME Clock, Flow, Chains, AutoHash PROVE Chains'
<1> USE DEF recorderVars, flushVars, leaderVars, roleVars
<1>1. Ticked' = Ticked /\ CurrentSlot' = CurrentSlot /\ Held' = Held
      /\ IsLastTickOfSlot' = IsLastTickOfSlot
      /\ \A s : GetSlotHash(s)' = GetSlotHash(s)
  BY Zenon DEF AutoHash, Ticked, CurrentSlot, Held, IsLastTickOfSlot, GetSlotHash
<1>2. Ended' = Ended
  BY <1>1, Zenon DEF Ended
<1>3. Sofar' = Sofar /\ Leads' = Leads
  BY <1>1, <1>2, Zenon DEF AutoHash, Sofar, Leads
<1>4. Hashed' = Hashed + 1
  <2>1. PICK x \in Nat : x = (tickHeight % TicksPerSlot) * HashesPerTick
    BY Product, DivMod, ClockAssumption DEF Clock
  <2>2. tickHeight' = tickHeight /\ remainingHashes' = remainingHashes - 1
    BY Zenon DEF AutoHash
  <2>3. Hashed = x + (HashesPerTick - remainingHashes)
        /\ Hashed' = x + (HashesPerTick - (remainingHashes - 1))
    BY <2>1, <2>2, Zenon DEF Hashed
  <2> QED BY <2>3, ClockAssumption DEF Clock
<1>5. ASSUME Led PROVE Led'
  <2>1. Line(GetSlotHash(CurrentSlot - 1), Sofar, HashN(hash, 1), numHashes + 1, Hashed + 1)
    BY <1>5, SofarTyped, LineHashes, Zenon DEF Led, Clock
  <2>2. Line(GetSlotHash(CurrentSlot - 1), Sofar, hash, numHashes, Hashed)'
    BY <1>1, <1>3, <1>4, <2>1, Zenon DEF AutoHash
  <2> QED BY <1>1, <1>2, <1>5, <2>2, Zenon DEF Led, AutoHash
<1> QED BY <1>1, <1>2, <1>3, <1>5, Zenon DEF Chains, Leading, Ending, Idle, AutoHash

\* Joining what is collected, handed over and recorded
LEMMA JoinLast ==
    ASSUME NEW a \in Seq(MadeEntry), NEW b \in Seq(MadeEntry), NEW e \in MadeEntry
    PROVE  a \o Append(b, e) = Append(a \o b, e)
BY SMTT(30)

LEMMA DrainChains == ASSUME Clock, Flow, Loops, Chains, DrainEntries PROVE Chains'
<1> USE DEF pohVars, leaderVars, roleVars
<1>1. CurrentSlot' = CurrentSlot /\ Held' = Held /\ Hashed' = Hashed /\ Leads' = Leads
      /\ \A s : GetSlotHash(s)' = GetSlotHash(s)
  BY Zenon DEF DrainEntries, CurrentSlot, Held, Hashed, Leads, GetSlotHash
<1>2. ~ Ticked /\ ~ Ended /\ ~ Ticked' /\ ~ Ended' /\ flushed = <<>>
  BY DEF DrainEntries, Ticked, Ended, Loops
<1>3. Sofar' = Sofar
  <2>1. Sofar = Held \o (<<>> \o entries) /\ Sofar' = Held' \o (entries \o <<>>)
    BY <1>2, Zenon DEF Sofar, DrainEntries
  <2>2. <<>> \o entries = entries /\ entries \o <<>> = entries
    BY ConcatEmptySeq DEF Flow
  <2> QED BY <1>1, <2>1, <2>2, Zenon
<1>4. Led => Led'
  BY <1>1, <1>2, <1>3, Zenon DEF Led, DrainEntries
<1> QED BY <1>1, <1>2, <1>4, Zenon DEF Chains, Leading, Ending, Idle, DrainEntries

LEMMA NoTickChains == ASSUME Clock, Flow, Loops, Chains, NoTick PROVE Chains'
<1> USE DEF pohVars, recorderVars, leaderVars, roleVars
<1>1. CurrentSlot' = CurrentSlot /\ Held' = Held /\ Hashed' = Hashed /\ Leads' = Leads
      /\ \A s : GetSlotHash(s)' = GetSlotHash(s)
  BY Zenon DEF NoTick, CurrentSlot, Held, Hashed, Leads, GetSlotHash
<1>2. ~ Ticked /\ ~ Ended
  BY DEF NoTick, Ticked, Ended
<1>3. ~ Ticked' /\ ~ Ended'
  <2>1. flushed # <<>> => flushed[Len(flushed)].batch \in Batches
    <3>1. flushed # <<>> => Len(flushed) \in DOMAIN flushed
      BY DEF Flow
    <3> QED BY <3>1, Zenon DEF Loops, NoTick
  <2>2. flushPc' = "entry" => flushed'[Len(flushed')].batch # NoBatch
    BY <2>1, ClockAssumption DEF NoTick
  <2> QED BY <2>2, Zenon DEF Ticked, Ended
<1>4. Sofar' = Sofar /\ flushPc' # "tick"
  BY <1>1, <1>2, <1>3 DEF Sofar, NoTick
<1>5. Led => Led'
  BY <1>1, <1>2, <1>3, <1>4, Zenon DEF Led, NoTick
<1> QED BY <1>1, <1>2, <1>3, <1>5, Zenon DEF Chains, Leading, Ending, Idle, NoTick

LEMMA RecordTxsChains ==
    ASSUME Clock, Flow, Chains, NEW b \in Batches, RecordTxs(b) PROVE Chains'
<1> USE DEF flushVars, leaderVars, roleVars
<1>1. CurrentSlot' = CurrentSlot /\ Held' = Held /\ Leads' = Leads /\ Ticked' = Ticked
      /\ IsLastTickOfSlot' = IsLastTickOfSlot
      /\ \A s : GetSlotHash(s)' = GetSlotHash(s)
  BY Zenon DEF RecordTxs, CurrentSlot, Held, Leads, Ticked, IsLastTickOfSlot, GetSlotHash
<1>2. Ended' = Ended
  BY <1>1, Zenon DEF Ended
<1>3. PICK e : e = Entry(numHashes + 1, HashMixin(hash, b), b)
  BY Zenon
<1>4. entries' = Append(entries, e) /\ hash' = HashMixin(hash, b) /\ numHashes' = 0
      /\ remainingHashes' = remainingHashes - 1
  BY <1>3, Zenon DEF RecordTxs
<1>5. numHashes + 1 <= HashesPerTick
  BY ClockAssumption DEF Clock
<1>6. e \in MadeEntry
  BY <1>3, <1>5, EntryMade, HashMixinMade, ClockAssumption DEF Clock
<1>7. Sofar' = Append(Sofar, e)
  <2>1. Held \o (flushed \o Append(entries, e)) = Append(Held \o (flushed \o entries), e)
    <3>1. Held \in Seq(MadeEntry) /\ flushed \in Seq(MadeEntry) /\ entries \in Seq(MadeEntry)
      BY SofarTyped, Zenon DEF Flow
    <3>2. flushed \o entries \in Seq(MadeEntry)
      BY <3>1, ConcatProperties
    <3>3. flushed \o Append(entries, e) = Append(flushed \o entries, e)
      BY <1>6, <3>1, JoinLast
    <3>4. Held \o Append(flushed \o entries, e) = Append(Held \o (flushed \o entries), e)
      BY <1>6, <3>1, <3>2, JoinLast
    <3> QED BY <3>3, <3>4, Zenon
  <2>2. flushed' = flushed
    BY Zenon DEF RecordTxs
  <2> QED BY <1>1, <1>2, <1>4, <2>1, <2>2, Zenon DEF Sofar
<1>8. Hashed' = Hashed + 1
  <2>1. PICK x \in Nat : x = (tickHeight % TicksPerSlot) * HashesPerTick
    BY Product, DivMod, ClockAssumption DEF Clock
  <2>2. tickHeight' = tickHeight
    BY Zenon DEF RecordTxs
  <2>3. Hashed = x + (HashesPerTick - remainingHashes)
        /\ Hashed' = x + (HashesPerTick - (remainingHashes - 1))
    BY <1>4, <2>1, <2>2, Zenon DEF Hashed
  <2> QED BY <2>3, ClockAssumption DEF Clock
<1>9. ASSUME Led, flushPc # "tick" PROVE Led'
  <2>1. Line(GetSlotHash(CurrentSlot - 1), Append(Sofar, e), HashMixin(hash, b), 0, Hashed + 1)
    <3>1. /\ GetSlotHash(CurrentSlot - 1) \in Made /\ Sofar \in Seq(MadeEntry) /\ hash \in Made
          /\ numHashes \in Nat /\ Hashed \in Nat
      BY SofarTyped, Zenon DEF Clock
    <3>2. Line(GetSlotHash(CurrentSlot - 1), Sofar, hash, numHashes, Hashed)
      BY <1>9, Zenon DEF Led
    <3> QED BY <1>3, <1>5, <3>1, <3>2, LineRecords, Zenon
  <2>2. Line(GetSlotHash(CurrentSlot - 1), Sofar, hash, numHashes, Hashed)'
    BY <1>1, <1>4, <1>7, <1>8, <2>1, Zenon
  <2> QED BY <1>1, <1>2, <1>9, <2>2, Zenon DEF Led, RecordTxs
<1> QED BY <1>1, <1>2, <1>9, Zenon DEF Chains, Leading, Ending, Idle, RecordTxs

LEMMA HandleEntryChains == ASSUME Clock, Flow, Loops, Chains, HandleEntry PROVE Chains'
<1> USE DEF pohVars, recorderVars, roleVars
<1> SUFFICES ASSUME clean, rolePc # "fields" PROVE Chains'
  <2>1. clean' => clean /\ rolePc # "fields"
    BY Zenon DEF HandleEntry
  <2> QED BY <2>1, Zenon DEF Chains, Leading, Ending, Idle
<1>1. CurrentSlot' = CurrentSlot /\ Hashed' = Hashed /\ Leads' = Leads
      /\ \A s : GetSlotHash(s)' = GetSlotHash(s)
  BY Zenon DEF HandleEntry, CurrentSlot, Hashed, Leads, GetSlotHash
<1>2. ~ Ticked' /\ ~ Ended' /\ flushed' = <<>> /\ entries' = entries
  BY DEF HandleEntry, Ticked, Ended
<1>3. Held = collectedEntries /\ Held' = collectedEntries'
  BY Zenon DEF Held, HandleEntry
<1>4. Leads <=> ReadyToStart(CurrentSlot)
  BY Zenon DEF Leads, ReadyToStart
<1>5. Ended /\ IsLeader(CurrentSlot - 1) /\ collectedEntries # <<>> => collectedEntries' = <<>>
  BY Zenon DEF HandleEntry, Ended, Ticked
<1>6. ~ (Ended /\ IsLeader(CurrentSlot - 1) /\ collectedEntries # <<>>) =>
      collectedEntries' = IF Leads THEN collectedEntries \o flushed ELSE collectedEntries
  BY <1>4, Zenon DEF HandleEntry, Ended, Ticked
<1>7. Sofar' = collectedEntries' \o entries
  <2>1. Sofar' = Held' \o (<<>> \o entries)
    BY <1>2, Zenon DEF Sofar
  <2>2. <<>> \o entries = entries
    BY ConcatEmptySeq DEF Flow
  <2> QED BY <1>3, <2>1, <2>2, Zenon
<1>8. CASE Leads
  <2>1. Led
    BY <1>8, Zenon DEF Chains, Leading
  <2>2. CASE Ended
    <3>1. collectedEntries' = <<>>
      BY <1>5, <2>1, <2>2, Zenon DEF Led
    <3>2. Sofar' = Sofar
      <4>1. <<>> \o entries = entries
        BY ConcatEmptySeq DEF Flow
      <4> QED BY <1>7, <2>2, <3>1, <4>1, Zenon DEF Sofar
    <3>3. tickHeight' % TicksPerSlot = 0
      BY <2>2, Zenon DEF Ended, IsLastTickOfSlot, HandleEntry
    <3>4. Line(GetSlotHash(CurrentSlot - 1), Sofar, hash, numHashes, Hashed)'
      BY <1>1, <2>1, <3>2, Zenon DEF Led, HandleEntry
    <3>5. Led'
      BY <1>2, <3>3, <3>4 DEF Led, HandleEntry
    <3> QED BY <1>1, <1>2, <1>8, <3>5, Zenon DEF Chains, Leading, Ending, Idle
  <2>3. CASE ~ Ended
    <3>1. collectedEntries' = collectedEntries \o flushed
      BY <1>6, <1>8, <2>3, Zenon
    <3>2. Sofar' = Sofar
      <4>1. (collectedEntries \o flushed) \o entries = collectedEntries \o (flushed \o entries)
        BY ConcatAssociative DEF Flow
      <4> QED BY <1>3, <1>7, <2>3, <3>1, <4>1, Zenon DEF Sofar
    <3>3. Held' # <<>>
      <4>1. flushed # <<>>
        BY Zenon DEF Loops, HandleEntry
      <4>2. collectedEntries \o flushed # <<>>
        BY <4>1, ConcatProperties, EmptySeq DEF Flow
      <4> QED BY <1>3, <3>1, <4>2, Zenon
    <3>4. Line(GetSlotHash(CurrentSlot - 1), Sofar, hash, numHashes, Hashed)'
      BY <1>1, <2>1, <3>2, Zenon DEF Led, HandleEntry
    <3>5. Led'
      BY <1>2, <3>3, <3>4 DEF Led, HandleEntry
    <3> QED BY <1>1, <1>2, <1>8, <3>5, Zenon DEF Chains, Leading, Ending, Idle
  <2> QED BY <2>2, <2>3
<1>9. CASE ~ Leads
  <2>1. collectedEntries' = <<>>
    BY <1>5, <1>6, <1>9, Zenon DEF Chains, Ending, Idle
  <2> QED BY <1>1, <1>2, <1>9, <2>1, Zenon DEF Chains, Leading, Ending, Idle
<1> QED BY <1>8, <1>9

\* The hashes of a slot add up to its ticks.
LEMMA HashedByTick ==
    ASSUME NEW a \in Nat, NEW h \in Nat
    PROVE  (a * h + (h - 1)) + 1 = (a + 1) * h + (h - h)
<1>1. (a + 1) * h = a * h + h
  BY SMTT(30)
<1>2. a * h \in Nat
  BY Product
<1> QED BY <1>1, <1>2

LEMMA TickChains ==
    ASSUME TicksPerSlot > 1, Clock, Flow, Loops, Chains, Tick PROVE Chains'
<1> USE DEF leaderVars, roleVars
<1> SUFFICES ASSUME clean PROVE Chains'
  <2>1. clean' => clean
    BY Zenon DEF Tick
  <2> QED BY <2>1, Zenon DEF Chains, Leading, Ending, Idle
<1>1. PICK e, h : h = HashN(hash, 1) /\ e = Entry(numHashes + 1, h, NoBatch)
  BY Zenon
<1>2. PICK a \in Nat : a = tickHeight % TicksPerSlot
  BY DivMod, ClockAssumption, Product DEF Clock
<1>3. /\ hash' = h /\ numHashes' = 0 /\ remainingHashes = 1 /\ remainingHashes' = HashesPerTick
      /\ tickHeight' = tickHeight + 1 /\ flushed' = Append(flushed, e)
      /\ flushPc = "tick" /\ flushPc' = "entry" /\ entries' = entries
      /\ UNCHANGED <<leaderStartAtSlot, collectedEntries, rolePc, roleSlot>>
  BY <1>1, Zenon DEF Tick
<1>4. tickHeight \in Nat /\ TicksPerSlot \in Nat \ {0} /\ HashesPerTick \in Nat
      /\ numHashes \in Nat /\ numHashes + 1 <= HashesPerTick
  BY <1>3, ClockAssumption, Product DEF Clock
<1>5. e \in MadeEntry /\ e.batch = NoBatch /\ h \in Made
  <2>1. h \in Made
    BY <1>1, HashNMade DEF Clock
  <2> QED BY <1>1, <1>4, <2>1, EntryMade DEF Entry
<1>6. ~ Ticked /\ ~ Ended
  BY <1>3 DEF Ticked, Ended
<1>7. Ticked'
  <2>1. Len(flushed') = Len(flushed) + 1 /\ flushed'[Len(flushed) + 1] = e
    <3>1. flushed \in Seq(MadeEntry)
      BY Zenon DEF Flow
    <3> QED BY <1>3, <1>5, <3>1, AppendProperties
  <2> QED BY <1>3, <1>5, <2>1, Zenon DEF Ticked
<1>8. Held' = Held
  BY <1>3, Zenon DEF Held
<1>9. Hashed + 1 = (a + 1) * HashesPerTick + (HashesPerTick - HashesPerTick)
  BY <1>2, <1>3, <1>4, HashedByTick, Zenon DEF Hashed
\* The tick extends what the leader has.
<1>10. ASSUME Led
       PROVE  /\ entries = <<>>
              /\ Held \o flushed' \in Seq(MadeEntry)
              /\ Line(GetSlotHash(CurrentSlot - 1), Held \o flushed', h, 0, Hashed + 1)
  <2>1. entries = <<>>
    BY <1>3, <1>10, Zenon DEF Led
  <2>2. flushed \in Seq(MadeEntry) /\ Held \in Seq(MadeEntry) /\ Sofar \in Seq(MadeEntry)
        /\ hash \in Made /\ Hashed \in Nat /\ GetSlotHash(CurrentSlot - 1) \in Made
    BY SofarTyped, Zenon DEF Flow, Clock
  <2>3. Sofar = Held \o flushed
    <3>1. Sofar = Held \o (flushed \o <<>>)
      BY <1>6, <2>1, Zenon DEF Sofar
    <3>2. flushed \o <<>> = flushed
      BY <2>2, ConcatEmptySeq
    <3> QED BY <3>1, <3>2, Zenon
  <2>4. Held \o flushed' = Append(Sofar, e)
    BY <1>3, <1>5, <2>2, <2>3, JoinLast
  <2>5. Append(Sofar, e) \in Seq(MadeEntry)
    BY <1>5, <2>2, AppendProperties
  <2>6. Line(GetSlotHash(CurrentSlot - 1), Sofar, hash, numHashes, Hashed)
    BY <1>10, Zenon DEF Led
  <2>7. Line(GetSlotHash(CurrentSlot - 1), Append(Sofar, e), h, 0, Hashed + 1)
    BY <1>1, <1>4, <2>2, <2>6, LineTicks, Zenon
  <2> QED BY <2>1, <2>4, <2>5, <2>7, Zenon
<1>11. CASE (tickHeight + 1) % TicksPerSlot # 0
  <2>1. (tickHeight + 1) \div TicksPerSlot = tickHeight \div TicksPerSlot
        /\ (tickHeight + 1) % TicksPerSlot = a + 1
    BY <1>2, <1>4, <1>11, NextTick, Zenon
  <2>2. CurrentSlot' = CurrentSlot /\ tickHeight' % TicksPerSlot = a + 1 /\ a + 1 # 0
    BY <1>3, <2>1 DEF CurrentSlot
  <2>3. Leads' = Leads /\ ~ Ended'
    BY <1>3, <2>2, Zenon DEF Leads, Ended, IsLastTickOfSlot
  <2>4. slotHashes' = slotHashes /\ clean' = clean
    BY <1>11, Zenon DEF Tick, Flow
  <2>5. Hashed' = Hashed + 1
    BY <1>3, <1>9, <2>2, Zenon DEF Hashed
  <2>6. ASSUME Led PROVE Led'
    <3>1. Sofar' = Held \o flushed'
      <4>1. Sofar' = Held \o (flushed' \o <<>>)
        BY <1>3, <1>8, <1>10, <2>3, <2>6, Zenon DEF Sofar
      <4>2. flushed' \o <<>> = flushed'
        BY <1>3, <1>5, AppendProperties, ConcatEmptySeq DEF Flow
      <4> QED BY <4>1, <4>2, Zenon
    <3>2. GetSlotHash(CurrentSlot - 1)' = GetSlotHash(CurrentSlot - 1)
      BY <2>2, <2>4, Zenon DEF GetSlotHash
    <3>3. Line(GetSlotHash(CurrentSlot - 1), Sofar, hash, numHashes, Hashed)'
      BY <1>3, <1>10, <2>5, <2>6, <3>1, <3>2, Zenon
    <3>4. Held # <<>> \/ a = 0
      BY <1>2, <1>6, <2>6, Zenon DEF Led
    <3>5. Held' # <<>> \/ (tickHeight' % TicksPerSlot = 1 /\ Ticked')
      BY <1>7, <1>8, <2>2, <3>4
    <3>6. rolePc' = "fields" => CurrentSlot' = roleSlot'
      BY <1>3, <2>2, <2>6, Zenon DEF Led
    <3> QED BY <1>3, <2>3, <3>3, <3>5, <3>6 DEF Led
  <2> QED BY <1>3, <1>6, <2>3, <2>4, <2>6, Zenon DEF Chains, Leading, Ending, Idle
<1>12. CASE (tickHeight + 1) % TicksPerSlot = 0
  <2> DEFINE s == tickHeight \div TicksPerSlot
  <2>1. (tickHeight + 1) \div TicksPerSlot = s + 1 /\ a = TicksPerSlot - 1 /\ s \in Nat
    BY <1>2, <1>4, <1>12, NextTick, DivMod, Zenon
  <2>2. CurrentSlot = s + 1 /\ CurrentSlot' = (s + 1) + 1
    BY <1>3, <2>1, Zenon DEF CurrentSlot
  <2> HIDE DEF s
  <2>3. CurrentSlot' - 1 = CurrentSlot /\ CurrentSlot' - 2 = CurrentSlot - 1
        /\ CurrentSlot - 1 # CurrentSlot /\ CurrentSlot' = CurrentSlot + 1
    BY <2>1, <2>2
  <2>4. Ended' /\ tickHeight' % TicksPerSlot = 0
    BY <1>3, <1>7, <1>12, Zenon DEF Ended, IsLastTickOfSlot
  <2>5. slotHashes' = Put(slotHashes, CurrentSlot, h)
        /\ clean' = (clean /\ ~ (IsLeader(CurrentSlot + 1) /\ ~ IsLeader(CurrentSlot)
                                 /\ leaderStartAtSlot # 0))
    BY <1>1, <1>12, <2>1, <2>2 DEF Tick
  <2>6. \A x : GetSlotHash(x)' = IF x = CurrentSlot THEN h ELSE GetSlotHash(x)
    BY <2>5 DEF GetSlotHash, Put
  <2>7. CASE Leads
    <3>1. Led
      BY <2>7, Zenon DEF Chains, Leading
    <3>2. a # 0
      BY <2>1, <1>4
    <3>3. Held # <<>>
      BY <1>2, <1>6, <3>1, <3>2, Zenon DEF Led
    <3>4. rolePc # "fields" /\ Held = collectedEntries
      BY <3>3 DEF Held
    <3>5. IsLeader(CurrentSlot) /\ collectedEntries' # <<>>
      BY <1>3, <2>7, <3>3, <3>4, Zenon DEF Leads
    <3>6. Hashed + 1 = TicksPerSlot * HashesPerTick
      <4>1. a + 1 = TicksPerSlot /\ HashesPerTick - HashesPerTick = 0
        BY <1>4, <2>1
      <4>2. TicksPerSlot * HashesPerTick + 0 = TicksPerSlot * HashesPerTick
        BY <1>4, Product
      <4> QED BY <1>9, <4>1, <4>2, Zenon
    <3>7. Line(GetSlotHash(CurrentSlot - 1), collectedEntries \o flushed', h, 0,
               TicksPerSlot * HashesPerTick)
      BY <1>10, <3>1, <3>4, <3>6, Zenon
    <3>8. Sound(GetSlotHash(CurrentSlot - 1), collectedEntries \o flushed')
      BY <3>7, Zenon DEF Line, Sound
    <3>9. GetSlotHash(CurrentSlot - 2)' = GetSlotHash(CurrentSlot - 1)
      BY <2>3, <2>6
    <3>10. Ending'
      BY <1>3, <2>3, <3>5, <3>8, <3>9, Zenon DEF Ending
    <3>11. Led'
      <4>1. GetSlotHash(CurrentSlot - 1)' = h
        BY <2>3, <2>6
      <4>2. Sofar' = <<>>
        BY <1>3, <1>10, <2>4, <3>1, Zenon DEF Sofar
      <4>3. Hashed' = 0
        BY <1>3, <1>4, <2>4 DEF Hashed
      <4>4. Line(h, <<>>, h, 0, 0)
        BY <1>5, LineStarts
      <4>5. Line(GetSlotHash(CurrentSlot - 1), Sofar, hash, numHashes, Hashed)'
        BY <1>3, <4>1, <4>2, <4>3, <4>4, Zenon
      <4>6. IsLeader(CurrentSlot - 1)'
        BY <2>3, <3>5, Zenon
      <4> QED BY <1>3, <2>4, <3>4, <3>5, <4>5, <4>6 DEF Led
    <3> QED BY <2>4, <3>10, <3>11, Zenon DEF Chains, Leading, Idle
  <2>8. CASE ~ Leads
    <3>1. collectedEntries' = <<>>
      BY <1>3, <1>6, <2>8, Zenon DEF Chains, Idle
    <3>2. ~ (clean' /\ Leads')
      BY <1>3, <2>3, <2>5, <2>8, Zenon DEF Leads
    <3> QED BY <2>4, <3>1, <3>2, Zenon DEF Chains, Leading, Ending, Idle
  <2> QED BY <2>7, <2>8
<1> QED BY <1>11, <1>12

LEMMA LeaderResetChains == ASSUME Clock, Flow, Loops, Chains, LeaderReset PROVE Chains'
<1> USE DEF flushVars, leaderVars
<1> SUFFICES ASSUME flushed = <<>> PROVE Chains'
  <2>1. clean' => flushed = <<>>
    BY Zenon DEF LeaderReset
  <2> QED BY <2>1, Zenon DEF Chains, Leading, Ending, Idle
<1>1. /\ hash' = seedHash /\ numHashes' = 0 /\ remainingHashes' = HashesPerTick
      /\ tickHeight' = (roleSlot - 1) * TicksPerSlot /\ entries' = <<>>
      /\ slotHashes' = Put(slotHashes, roleSlot - 1, seedHash)
      /\ flushed' = <<>> /\ flushPc' = flushPc /\ rolePc' = "fields" /\ roleSlot' = roleSlot
  BY Zenon DEF LeaderReset, Reset
<1>2. flushPc # "entry"
  BY Zenon DEF Loops
<1>3. ~ Ticked' /\ ~ Ended' /\ Leads' /\ Held' = <<>>
  BY <1>1, <1>2, Zenon DEF Ticked, Ended, Leads, Held
<1>4. roleSlot - 1 \in Nat /\ roleSlot \in Nat /\ TicksPerSlot \in Nat \ {0}
      /\ HashesPerTick \in Nat
  BY ClockAssumption DEF LeaderReset, Clock
<1>5. tickHeight' \div TicksPerSlot = roleSlot - 1 /\ tickHeight' % TicksPerSlot = 0
  <2>1. PICK q \in Nat : q = roleSlot - 1
    BY <1>4
  <2>2. q * TicksPerSlot + 0 = q * TicksPerSlot /\ 0 \in 0 .. TicksPerSlot - 1
    BY <1>4, <2>1, Product
  <2>3. (q * TicksPerSlot + 0) \div TicksPerSlot = q /\ (q * TicksPerSlot + 0) % TicksPerSlot = 0
    BY <1>4, <2>1, <2>2, DivModOf
  <2> QED BY <1>1, <2>1, <2>2, <2>3, Zenon
<1>6. CurrentSlot' = roleSlot
  BY <1>4, <1>5 DEF CurrentSlot
<1>7. GetSlotHash(CurrentSlot - 1)' = seedHash
  <2>1. \A x : x = roleSlot - 1 => GetSlotHash(x)' = seedHash
    BY <1>1 DEF GetSlotHash, Put
  <2> QED BY <1>6, <2>1
<1>8. Sofar' = <<>>
  <2>1. Sofar' = <<>> \o (<<>> \o <<>>)
    BY <1>1, <1>3, Zenon DEF Sofar
  <2> QED BY <2>1
<1>9. Hashed' = 0
  BY <1>1, <1>4, <1>5 DEF Hashed
<1>10. Line(seedHash, <<>>, seedHash, 0, 0)
  BY LineStarts DEF Clock
<1>11. Line(GetSlotHash(CurrentSlot - 1), Sofar, hash, numHashes, Hashed)'
  BY <1>1, <1>7, <1>8, <1>9, <1>10, Zenon
<1>12. Led'
  BY <1>1, <1>3, <1>5, <1>6, <1>11, Zenon DEF Led
<1> QED BY <1>3, <1>12, Zenon DEF Chains, Leading, Ending, Idle

LEMMA LeaderReadyChains == ASSUME Clock, Flow, Loops, Chains, LeaderReady PROVE Chains'
<1> USE DEF pohVars, recorderVars, flushVars
<1> SUFFICES ASSUME clean PROVE Chains'
  BY Zenon DEF LeaderReady, Chains, Leading, Ending, Idle
<1>1. rolePc = "fields" /\ rolePc' = "monitor" /\ leaderStartAtSlot' = roleSlot
      /\ collectedEntries' = <<>>
      /\ UNCHANGED <<hash, numHashes, remainingHashes, tickHeight, entries, slotHashes, flushPc,
                     flushed, clean>>
  BY Zenon DEF LeaderReady
<1>2. CurrentSlot' = CurrentSlot /\ Hashed' = Hashed /\ Ticked' = Ticked
      /\ IsLastTickOfSlot' = IsLastTickOfSlot
      /\ \A s : GetSlotHash(s)' = GetSlotHash(s)
  BY <1>1, Zenon DEF CurrentSlot, Hashed, Ticked, IsLastTickOfSlot, GetSlotHash
<1>3. Ended' = Ended
  BY <1>2, Zenon DEF Ended
<1>4. Led
  BY <1>1, Zenon DEF Chains, Leading, Leads
<1>5. CurrentSlot = roleSlot /\ ~ Ended
  BY <1>1, <1>4, Zenon DEF Led
<1>6. Leads'
  <2>1. IsLeader(roleSlot) /\ roleSlot # 0
    BY <1>1 DEF Loops, Clock
  <2> QED BY <1>1, <1>2, <1>5, <2>1, Zenon DEF Leads
<1>7. Held' = Held
  BY <1>1 DEF Held
<1>8. Sofar' = Sofar
  BY <1>1, <1>3, <1>7, Zenon DEF Sofar
<1>9. Line(GetSlotHash(CurrentSlot - 1), Sofar, hash, numHashes, Hashed)'
  BY <1>1, <1>2, <1>4, <1>8, Zenon DEF Led
<1>10. Led'
  BY <1>1, <1>2, <1>3, <1>4, <1>5, <1>7, <1>9 DEF Led
<1> QED BY <1>3, <1>5, <1>6, <1>10, Zenon DEF Chains, Leading, Ending, Idle

LEMMA ChainsInductive ==
    ASSUME TicksPerSlot > 1 PROVE Clock /\ Flow /\ Loops /\ Chains /\ [Next]_vars => Chains'
<1> SUFFICES ASSUME Clock, Flow, Loops, Chains, [Next]_vars PROVE Chains'
  OBVIOUS
<1> USE DEF pohVars, recorderVars, flushVars, leaderVars, roleVars
<1>1. CASE AutoHash \/ Flush \/ (\E b \in Batches : RecordTxs(b)) \/ LeaderReset \/ LeaderReady
  BY <1>1, AutoHashChains, DrainChains, TickChains, NoTickChains, HandleEntryChains,
     RecordTxsChains, LeaderResetChains, LeaderReadyChains, Zenon DEF Flush
<1>2. CASE BatchCheck
  BY <1>2, ChainsSame, Zenon DEF BatchCheck
<1>3. CASE RecordRefused
  BY <1>3, ChainsSame, Zenon DEF RecordRefused
<1>4. CASE LeaderSlotStart
  <2>1. ~ Leads /\ ~ Leads'
    BY <1>4 DEF LeaderSlotStart, Leads
  <2> QED BY <1>4, <2>1, ChainsAside, Zenon DEF LeaderSlotStart
<1>5. CASE LeaderSlotEnd
  <2>1. ~ Leads /\ ~ Leads'
    BY <1>5 DEF LeaderSlotEnd, Leads
  <2> QED BY <1>5, <2>1, ChainsAside, Zenon DEF LeaderSlotEnd
<1>6. CASE PrevBlockFound
  <2>1. ~ Leads /\ ~ Leads'
    BY <1>6 DEF PrevBlockFound, Leads, Loops
  <2> QED BY <1>6, <2>1, ChainsAside, Zenon DEF PrevBlockFound
<1>7. CASE Deadline
  <2>1. ~ Leads /\ ~ Leads'
    BY <1>7 DEF Deadline, Leads, Loops
  <2> QED BY <1>7, <2>1, ChainsAside, Zenon DEF Deadline
<1>8. CASE Broadcast \/ \E s \in Slots : ReceiveBlock(s)
  BY <1>8, ChainsSame, Zenon DEF Broadcast, BroadcastBlock, ReceiveBlock
<1>9. CASE SyncPohFromLeader
  <2>1. ~ (recvSlot > latestStore)
    BY <1>9, SyncNotAhead, Zenon DEF SyncPohFromLeader
  <2> QED BY <1>9, <2>1, ChainsSame, Zenon DEF SyncPohFromLeader
<1>10. CASE UNCHANGED vars
  BY <1>10, ChainsSame, Zenon DEF vars
<1> QED BY <1>1, <1>2, <1>3, <1>4, <1>5, <1>6, <1>7, <1>8, <1>9, <1>10, Zenon DEF Next, Role

LEMMA DeliveredInductive == Clock /\ Flow /\ Chains /\ Delivered /\ [Next]_vars => Delivered'
<1> SUFFICES ASSUME Clock, Flow, Chains, Delivered, [Next]_vars PROVE Delivered'
  OBVIOUS
<1> USE DEF storeVars
<1>1. CASE HandleEntry
  <2>1. UNCHANGED blocks
    BY <1>1, Zenon DEF HandleEntry
  <2>2. ASSUME NEW b \in broadcast', b.block.clean
        PROVE  Sound(b.block.prevHash, b.block.entries)
    <3>1. CASE b \in broadcast
      BY <2>2, <3>1, Zenon DEF Delivered
    <3>2. CASE b \notin broadcast
      <4>1. b = Assembled /\ Ended /\ collectedEntries # <<>>
        BY <1>1, <2>2, <3>2, Zenon DEF HandleEntry, Ended, Ticked
      <4>2. /\ b.block.prevHash = GetSlotHash(CurrentSlot - 2)
            /\ b.block.entries = collectedEntries \o flushed
            /\ b.block.clean = clean
        BY <4>1 DEF Assembled
      <4> QED BY <2>2, <4>1, <4>2, Zenon DEF Chains, Ending
    <3> QED BY <3>1, <3>2
  <2> QED BY <2>1, <2>2, Zenon DEF Delivered
<1>2. ASSUME NEW b \in broadcast, BroadcastBlock(b) PROVE Delivered'
  <2>1. broadcast' \subseteq broadcast
    BY <1>2, Zenon DEF BroadcastBlock
  <2>2. \A s \in Slots : blocks'[s] = blocks[s] \/ blocks'[s] = b.block
    BY <1>2 DEF BroadcastBlock, Clock
  <2> QED BY <1>2, <2>1, <2>2, Zenon DEF Delivered
<1>3. ASSUME NEW r \in Slots, ReceiveBlock(r) PROVE Delivered'
  <2>1. UNCHANGED broadcast
    BY <1>3, Zenon DEF ReceiveBlock
  <2>2. \A s \in Slots : blocks'[s] = blocks[s] \/ ~ blocks'[s].clean
    BY <1>3 DEF ReceiveBlock, Clock, PeerBlock
  <2> QED BY <2>1, <2>2, Zenon DEF Delivered
<1>4. ASSUME UNCHANGED <<broadcast, blocks>> PROVE Delivered'
  BY <1>4, Zenon DEF Delivered
<1>5. CASE AutoHash \/ DrainEntries \/ Tick \/ NoTick \/ BatchCheck \/ RecordRefused
  BY <1>4, <1>5, Zenon DEF AutoHash, DrainEntries, Tick, NoTick, BatchCheck, RecordRefused
<1>6. CASE (\E b \in Batches : RecordTxs(b)) \/ Role \/ SyncPohFromLeader \/ UNCHANGED vars
  BY <1>4, <1>6, Zenon DEF RecordTxs, Role, LeaderSlotStart, LeaderSlotEnd, PrevBlockFound,
     Deadline, LeaderReset, LeaderReady, SyncPohFromLeader, vars
<1> QED BY <1>1, <1>2, <1>3, <1>5, <1>6, Zenon DEF Next, Flush, Broadcast

LEMMA ChainsInvariant ==
    ASSUME TicksPerSlot > 1 PROVE Spec => [](Clock /\ Flow /\ Loops /\ Chains /\ Delivered)
<1>1. Init => Loops /\ Chains /\ Delivered
  BY InitChains, Zenon DEF Chains
<1> QED BY <1>1, Invariant, LoopsInductive, ChainsInductive, DeliveredInductive, PTL DEF Spec

\* The blocks a leader makes without one of the four races are chains of hashes:
\* every entry, from Record or from Tick, is what VerifyEntries computes from the
\* entry before it, and the first from the hash that ended the previous slot.
\* The entries pass through the recorder, tickAndFlush and collectedEntries on
\* the way, each changed by a loop of its own.
OwnEntriesFollow ==
    \A s \in Slots :
        blocks[s] # NoBlock /\ blocks[s].clean => Follows(blocks[s].prevHash, blocks[s].entries)

THEOREM OwnEntriesAlwaysFollow == ASSUME TicksPerSlot > 1 PROVE Spec => []OwnEntriesFollow
<1>1. Delivered => OwnEntriesFollow
  BY Zenon DEF Delivered, Sound, OwnEntriesFollow
<1> QED BY <1>1, ChainsInvariant, PTL

\* A leader's own block passes the VerifyPoH of the other nodes, unless one of the
\* four races hit its leadership.  A slot has more than one tick: handleEntry
\* makes no block of a slot whose only tick is also its last.  The limit of
\* VerifyEntries is on the entries of a block, Record's is on the entries between
\* two drains, so the hashes of a slot must not exceed it.
THEOREM OwnBlocksAlwaysVerify ==
    ASSUME TicksPerSlot > 1, TicksPerSlot * HashesPerTick <= MaxEntriesPerSlot
    PROVE  Spec => []OwnBlockVerifies
<1>1. Clock /\ Delivered => OwnBlockVerifies
  <2> SUFFICES ASSUME Clock, Delivered, NEW s \in OwnSlots \cap Slots, blocks[s] # NoBlock,
                      blocks[s].clean
               PROVE  VerifyEntries(blocks[s])
    BY Zenon DEF OwnBlockVerifies
  <2>1. Sound(blocks[s].prevHash, blocks[s].entries)
    BY Zenon DEF Delivered
  <2>2. Len(blocks[s].entries) \in Nat
    <3>1. blocks[s] \in MadeBlock
      BY DEF Clock
    <3>2. blocks[s].entries \in Seq(MadeEntry)
      BY <3>1, MadeBlockFields, Zenon
    <3> QED BY <3>2
  <2>3. Len(blocks[s].entries) <= MaxEntriesPerSlot
    BY <2>1, <2>2, Product, ClockAssumption DEF Sound
  <2> QED BY <2>1, <2>3, Zenon DEF Sound, Follows, VerifyEntries
<1> QED BY <1>1, ChainsInvariant, PTL
=============================================================================
