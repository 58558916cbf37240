---------------------------- MODULE MCGiopReply ----------------------------
(***************************************************************************)
(* Small instances of GiopReply: slots and connections are model values.   *)
(***************************************************************************)
EXTENDS GiopReply, TLC

Callers == Permutations(Sync)
=============================================================================
