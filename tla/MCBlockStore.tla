---------------------------- MODULE MCBlockStore ----------------------------
(***************************************************************************)
(* Small instances of BlockStore: two goroutines, blocks of two contents,  *)
(* slots up to MaxSlot and a lock window of one slot, so that a finalized  *)
(* slot 3 lets the cleanup delete the lock of slot 1.                      *)
(***************************************************************************)
EXTENDS BlockStore, TLC

\* The goroutines are interchangeable.
ThreadSymmetry == Permutations(Threads)
=============================================================================
