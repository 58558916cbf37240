---------------------------- MODULE MCFragments ----------------------------
(* Two ids, messages of up to three pieces, and a connection that is       *)
(* connected twice; both versions of the protocol.                         *)
EXTENDS Fragments, TLC

Alike == Permutations(Ids)
=============================================================================
