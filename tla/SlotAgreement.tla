--------------------------- MODULE SlotAgreement ----------------------------
(***************************************************************************)
(* What the nodes promise together about finality.  The leader of a slot   *)
(* proposes at most one block for it, and may make a filler besides.  A    *)
(* node decides a slot once and for all, on the proposal or on the filler; *)
(* sync decides several slots in one step.  So of a slot without filler    *)
(* all nodes decide the same block.                                        *)
(***************************************************************************)
CONSTANTS Nodes, Slots, Proposals, Empty, NoBlock

VARIABLES
    proposal,   \* proposal[s]: the block of the leader of s, or NoBlock
    fillers,    \* the slots with a filler
    decided     \* decided[n][s]: the block n has decided on for s, or NoBlock

avars == <<proposal, fillers, decided>>

AInit ==
    /\ proposal = [s \in Slots |-> NoBlock]
    /\ fillers = {}
    /\ decided = [n \in Nodes |-> [s \in Slots |-> NoBlock]]

Propose(s, c) ==
    /\ proposal[s] = NoBlock
    /\ proposal' = [proposal EXCEPT ![s] = c]

\* What may be decided for s, a proposal or filler of this very step included
Choices(s) == ({proposal'[s]} \ {NoBlock}) \cup (IF s \in fillers' THEN {Empty} ELSE {})

\* Node n decides on some slots.
Decide(n) ==
    /\ decided' = [decided EXCEPT ![n] = decided'[n]]
    /\ \A s \in Slots :
         \/ decided'[n][s] = decided[n][s]
         \/ decided[n][s] = NoBlock /\ decided'[n][s] \in Choices(s)

ANext ==
    /\ \/ UNCHANGED proposal
       \/ \E s \in Slots, c \in Proposals : Propose(s, c)
    /\ fillers \subseteq fillers'
    /\ UNCHANGED decided \/ \E n \in Nodes : Decide(n)

ASpec == AInit /\ [][ANext]_avars
=============================================================================
