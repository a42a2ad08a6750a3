--------------------------- MODULE MCNodeFinality ---------------------------
(***************************************************************************)
(* NodeFinality for TLC.  The other voters are interchangeable.            *)
(***************************************************************************)
EXTENDS NodeFinality, TLC

VoterSymmetry == Permutations(Voters \ {Self})
=============================================================================
