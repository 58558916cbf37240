----------------------------- MODULE Directory -----------------------------
(***************************************************************************)
(* What the name service promises its clients, whichever structures it     *)
(* keeps bindings in: a name stays bound to what it was bound to until     *)
(* somebody takes it away or binds it again, one name at a time or all     *)
(* with their context, in which nothing is bound any more; and whoever     *)
(* lists a context is told what it had at that moment, each name once,     *)
(* though it reads it bit by bit while others go on changing the context.  *)
(***************************************************************************)
EXTENDS Naturals, SequencesExt

CONSTANTS Contexts, Names, Values, Listings, None

VARIABLES
  entry,     \* context -> name -> what is bound to it, or None
  gone,      \* contexts that were destroyed
  unread,    \* listing -> what its client has still to be told
  told       \* listing -> what its client was told

Entry == [obj : Values, sub : BOOLEAN]
Listed(c) == {<<n, entry[c][n].sub>> : n \in {m \in Names : entry[c][m] # None}}

Init ==
  /\ entry = [c \in Contexts |-> [n \in Names |-> None]]
  /\ gone = {}
  /\ unread = [l \in Listings |-> <<>>]
  /\ told = [l \in Listings |-> <<>>]

(* The name is bound, bound to something else, or (None) taken away. *)
Put(c, n) ==
  /\ c \notin gone
  /\ entry'[c][n] \in Entry \cup {None}
  /\ entry' = [entry EXCEPT ![c] = [@ EXCEPT ![n] = entry'[c][n]]]
  /\ UNCHANGED <<gone, unread, told>>

Destroy(c) ==
  /\ c \notin gone
  /\ gone' = gone \cup {c}
  /\ entry' = [entry EXCEPT ![c] = [n \in Names |-> None]]
  /\ UNCHANGED <<unread, told>>

(* A client is told the first k of all that is to be told. *)
Tell(l, before, all, k) ==
  /\ told' = [told EXCEPT ![l] = before \o SubSeq(all, 1, k)]
  /\ unread' = [unread EXCEPT ![l] = SubSeq(all, k + 1, Len(all))]
  /\ UNCHANGED <<entry, gone>>

List(c, l) ==
  /\ c \notin gone
  /\ \E all \in SetToSeqs(Listed(c)) : \E k \in 0 .. Len(all) : Tell(l, <<>>, all, k)

ReadOn(l) == \E k \in 0 .. Len(unread[l]) : Tell(l, told[l], unread[l], k)

Close(l) == Tell(l, <<>>, <<>>, 0)

Next ==
  \/ \E c \in Contexts, n \in Names : Put(c, n)
  \/ \E c \in Contexts : Destroy(c)
  \/ \E c \in Contexts, l \in Listings : List(c, l)
  \/ \E l \in Listings : ReadOn(l) \/ Close(l)

Spec == Init /\ [][Next]_<<entry, gone, unread, told>>
=============================================================================
