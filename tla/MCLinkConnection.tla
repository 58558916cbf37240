-------------------------- MODULE MCLinkConnection --------------------------
(* One connection with two threads of the application. *)
EXTENDS LinkConnection

CONSTANTS t1, t2, t3, io, none, l1
=============================================================================
