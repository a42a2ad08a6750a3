---------------------------- MODULE MCLeaderClock ---------------------------
(***************************************************************************)
(* LeaderClock for TLC: this node leads slots 1 and 3.                     *)
(***************************************************************************)
EXTENDS LeaderClock

CONSTANTS me, peer

MCLeaders == {me, peer}
MCSchedule == <<[startSlot |-> 1, endSlot |-> 1, leader |-> me],
                [startSlot |-> 2, endSlot |-> 2, leader |-> peer]>>
=============================================================================
