----------------------------- MODULE MCNodeInit -----------------------------
(***************************************************************************)
(* NodeInit for TLC: an allocation of three accounts.                      *)
(***************************************************************************)
EXTENDS NodeInit

CONSTANTS x, y, z

MCAddresses == {x, y, z}
MCAlloc == <<x, y, z>>
=============================================================================
