------------------------------- MODULE MCPoa -------------------------------
(* A POA with two objects below the root POA. *)
EXTENDS Poa, TLC

CONSTANTS root, child, o1, o2, s1, s2, t1, t2

ParentOf == root :> NoPoa @@ child :> root
HomeOf == o1 :> child @@ o2 :> child

Policy(process, retain) == [process |-> process, retain |-> retain]
RunPolicies == {Policy("map", TRUE), Policy("default", TRUE),
                Policy("default", FALSE), Policy("manager", FALSE)}

Symmetry == Permutations({o1, o2}) \cup Permutations({s1, s2})
              \cup Permutations({t1, t2})
=============================================================================
