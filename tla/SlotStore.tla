------------------------------ MODULE SlotStore ------------------------------
(***************************************************************************)
(* What the block store promises to the rest of the node about the life of *)
(* a slot.  A slot has no block, then a pending block, then the same block *)
(* finalized, and it stays there.  The promise covers the slots inside the *)
(* lock window, the last KeepRecent slots before the highest finalized     *)
(* one.  An older slot may have lost its mutex to the periodic cleanup of  *)
(* slot locks, and of such a slot nothing is promised but that its block   *)
(* does not disappear.                                                     *)
(***************************************************************************)
EXTENDS Naturals

CONSTANTS
    MaxSlot,      \* slots are 0 .. MaxSlot, slot 0 is genesis
    Contents,     \* what tells two blocks of one slot apart
    Genesis,      \* the content of the genesis block
    KeepRecent    \* number of recent slots whose locks are never cleaned up

ASSUME MaxSlotAssumption == MaxSlot \in Nat
ASSUME GenesisAssumption == Genesis \in Contents
ASSUME KeepRecentAssumption == KeepRecent \in Nat

VARIABLES
    blocks,       \* the block record under each slot's block key, or NoBlock
    finalized     \* the slots that carry a finalized marker

svars == <<blocks, finalized>>

Slots == 0 .. MaxSlot

Stored == [content : Contents, status : {"pending", "finalized"}]

\* The record under the block key of a slot that was never written.
NoBlock == [content |-> "none", status |-> "none"]

Pending(c) == [content |-> c, status |-> "pending"]

Finalized(c) == [content |-> c, status |-> "finalized"]

HasBlock(s) == blocks[s].status # "none"

\* No finalized slot is more than KeepRecent ahead of s.
InWindow(s) == \A f \in finalized : f <= s + KeepRecent

SInit ==
    /\ blocks = [s \in Slots |-> IF s = 0 THEN Finalized(Genesis) ELSE NoBlock]
    /\ finalized = {0}

Add(s, c) ==
    /\ ~ HasBlock(s)
    /\ blocks' = [blocks EXCEPT ![s] = Pending(c)]
    /\ UNCHANGED finalized

Finalize(s) ==
    /\ HasBlock(s)
    /\ blocks' = [blocks EXCEPT ![s].status = "finalized"]
    /\ finalized' = finalized \cup {s}

\* A write that raced with another one for a slot whose lock was cleaned up.
RacedWrite(s, b) ==
    /\ ~ InWindow(s)
    /\ blocks' = [blocks EXCEPT ![s] = b]
    /\ finalized' \in {finalized, finalized \cup {s}}

SNext ==
    \/ \E s \in Slots, c \in Contents : Add(s, c)
    \/ \E s \in Slots : Finalize(s)
    \/ \E s \in Slots, b \in Stored : RacedWrite(s, b)

SSpec == SInit /\ [][SNext]_svars
=============================================================================
