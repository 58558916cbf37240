----------------------------- MODULE MCObjectRef -----------------------------
(* A server with two addresses and two objects, the first of which it      *)
(* forwards to the second, and an object of this process.                  *)
EXTENDS ObjectRef, TLC

CONSTANTS s1, s2, t1, t2, here, there, gone, pipe, tcp, own1, own2, none

TwoRemote == {[key |-> there, addrs |-> <<pipe, tcp>>],
              [key |-> gone, addrs |-> <<tcp>>]}
OneForward == {[key |-> gone, addrs |-> <<tcp>>]}
TwoStarts == <<<<own1>>, <<own2>>>>

Symmetry == Permutations({s1, s2}) \cup Permutations({t1, t2})
=============================================================================
