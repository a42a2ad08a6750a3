----------------------------- MODULE MCCluster -----------------------------
(***************************************************************************)
(* Cluster for TLC: the first node leads slot 1, the second the others.    *)
(***************************************************************************)
EXTENDS Cluster, TLC

CONSTANTS First, Second

Schedule == [s \in Slots |-> IF s = 1 THEN First ELSE Second]

ProposalSymmetry == Permutations(Proposals)
=============================================================================
