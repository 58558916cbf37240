---------------------------- MODULE MCNameServer ----------------------------
(* Two contexts, two names and two objects of other processes; structures  *)
(* and objects are interchangeable, names too.                             *)
EXTENDS NameServer, TLC

CONSTANTS none, root, sub, o1, o2, n1, n2, b1, b2

Symmetry ==
  Permutations({o1, o2}) \cup Permutations({n1, n2}) \cup Permutations({b1, b2})
=============================================================================
