----------------------------- MODULE ByteStream -----------------------------
(***************************************************************************)
(* What a connection promises those who write to it: on one socket the     *)
(* peer gets messages whole and one after the other, in the order they     *)
(* were accepted in, whichever of their bytes went out at once and which   *)
(* had to wait.  A connection that breaks forgets what waits.              *)
(***************************************************************************)
EXTENDS Naturals, Sequences, SequencesExt

CONSTANTS
  Messages,
  Size         \* the parts in which a message can go out

VARIABLES
  sent,        \* what the socket took, the parts of a message by its name
  pending      \* what waits for the socket to take it

Parts(m, n) == [i \in 1 .. n |-> m]

Init == sent = <<>> /\ pending = <<>>

(* The socket takes the first k parts of all that is to be sent. *)
Take(all, k) ==
  /\ sent' = sent \o SubSeq(all, 1, k)
  /\ pending' = SubSeq(all, k + 1, Len(all))

Accept(m) ==
  /\ m \notin ToSet(sent) \cup ToSet(pending)
  /\ LET all == pending \o Parts(m, Size)
     IN  \E k \in 0 .. Len(all) : Take(all, k)

Transmit == \E k \in 1 .. Len(pending) : Take(pending, k)

Break == sent' = <<>> /\ pending' = <<>>

Next == (\E m \in Messages : Accept(m)) \/ Transmit \/ Break

Spec == Init /\ [][Next]_<<sent, pending>>
=============================================================================
