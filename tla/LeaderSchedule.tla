--------------------------- MODULE LeaderSchedule ---------------------------
(***************************************************************************)
(* The leader schedule (poh/lead_schedule.go): ranges of slots with their  *)
(* leaders, sorted and without overlap, repeated for ever.                 *)
(***************************************************************************)
EXTENDS Integers, Sequences

CONSTANTS
    Leaders,
    Schedule,   \* entries, sorted by Validate: startSlot, endSlot, leader
    NoLeader

ScheduleEntry == [startSlot : Nat \ {0}, endSlot : Nat \ {0}, leader : Leaders]

\* NewLeaderSchedule accepts the entries.
Validate ==
    /\ \A i, j \in DOMAIN Schedule :
         i < j => Schedule[i].startSlot <= Schedule[j].startSlot
    /\ \A i \in 2 .. Len(Schedule) : Schedule[i].startSlot > Schedule[i - 1].endSlot

ASSUME ScheduleAssumption ==
    /\ Schedule \in Seq(ScheduleEntry) /\ Schedule # <<>>
    /\ NoLeader \notin Leaders
    /\ Validate

maxSlot == Schedule[Len(Schedule)].endSlot

\* The slot of the first round of the schedule that slot repeats.
Wrapped(slot) == IF slot % maxSlot = 0 THEN maxSlot ELSE slot % maxSlot

\* What sort.Search returns: how many entries start at or before slot.
Search(slot) ==
    CHOOSE i \in 0 .. Len(Schedule) :
        /\ i > 0 => Schedule[i].startSlot <= slot
        /\ i < Len(Schedule) => Schedule[i + 1].startSlot > slot

LeaderAt(slot) ==
    LET w == Wrapped(slot)
        i == Search(w)
    IN  IF i > 0 /\ w <= Schedule[i].endSlot THEN Schedule[i].leader ELSE NoLeader
=============================================================================
