--------------------------- MODULE MCGiopThread ---------------------------
(***************************************************************************)
(* Small instances of GiopThread.  The requests of the first exercise the  *)
(* pool: two have one key, one has none and one is for the main thread,    *)
(* so that threads can call each other in a cycle.  Those of the second    *)
(* exercise the main thread, a thread of the application and policies.     *)
(***************************************************************************)
EXTENDS GiopThread, TLC

CONSTANTS r1, r2, r3, r4, r5, k1, c1, poa1, poa2

PoolRequests == {r1, r2, r3, r4}
PoolKeyOf == r1 :> k1 @@ r2 :> k1 @@ r3 :> NoKey @@ r4 :> MainQueue
PoolPoaOf == [r \in PoolRequests |-> poa1]

MainRequests == {r1, r4, r5}
MainKeyOf == r1 :> k1 @@ r4 :> MainQueue @@ r5 :> MainQueue
MainPoaOf == r1 :> poa1 @@ r4 :> poa1 @@ r5 :> poa2
MainPolicies == {{poa2}}
MainAskerOf == c1 :> Main

NoAskerOf == [c \in {} |-> Main]
=============================================================================
