----------------------------- MODULE Fragments -----------------------------
(***************************************************************************)
(* How a connection puts together the messages that its peer sends in      *)
(* pieces (giop-recv-buffer.c).  A connection keeps a list of the pieces   *)
(* of each unfinished message.  It outlives its socket: it is connected    *)
(* again, and the ids of messages (addresses in the stacks of the callers) *)
(* come again.  Every buffer holds a reference to its connection.          *)
(*                                                                         *)
(* The peer keeps to the protocol: pieces in order, one unfinished message *)
(* of an id at a time, and in version 1.1, whose later pieces carry no id, *)
(* one at all.  A list is found by the id of its first piece; by           *)
(* construction of the code there is at most one of an id.                 *)
(***************************************************************************)
EXTENDS Integers, Sequences

CONSTANTS
  Ids,         \* ids of messages
  MaxParts,    \* pieces of a message
  MaxMessages, \* messages that the peer begins
  MaxSockets   \* times the connection is connected

ASSUME Bounds == MaxParts \in Nat /\ MaxMessages \in Nat /\ MaxSockets \in Nat

VARIABLES
  giop_1_1,  \* the peer speaks GIOP 1.1
  socket,    \* the number of the socket
  up,        \* it is connected
  sending,   \* what the peer is at: a message of each id and its next piece
  msgs,      \* messages begun
  incoming,  \* incoming_msg: the piece that is being read, if any
  frags,     \* incoming_frags: the list that begins with a piece of that id
  using,     \* messages handed to the program, with the socket of that time
  freed,     \* pieces whose buffer was freed
  owned,     \* the rest of the program refers to the connection
  refs,      \* references to the connection
  disposed

vars == <<giop_1_1, socket, up, sending, msgs, incoming, frags, using, freed, owned, refs,
          disposed>>
receiving == <<frags, using, freed>>
life == <<owned, disposed>>

Piece == [id : Ids, msg : Nat, index : Nat \ {0}, last : BOOLEAN, socket : Nat]
Message == [msg : Nat, next : Nat \ {0}, parts : Nat]

Idle == [msg |-> 0, next |-> 1, parts |-> 0]
Unfinished(id) == sending[id].next <= sending[id].parts
Pieces(s) == {s[i] : i \in DOMAIN s}

Init ==
  /\ giop_1_1 \in BOOLEAN
  /\ socket = 1 /\ up = TRUE /\ msgs = 0 /\ incoming = <<>>
  /\ sending = [id \in Ids |-> Idle]
  /\ frags = [id \in Ids |-> <<>>] /\ using = {} /\ freed = {}
  /\ owned = TRUE /\ refs = 1 /\ disposed = FALSE

-----------------------------------------------------------------------------
(* A buffer is taken for the next piece, and its header is read.           *)
TakeAlone(id, message) ==
  /\ incoming' = <<[id |-> id, msg |-> message.msg, index |-> message.next,
                    last |-> message.next = message.parts, socket |-> socket]>>
  /\ sending' = [sending EXCEPT ![id] = [message EXCEPT !.next = @ + 1]]
  /\ UNCHANGED refs
Take(id, message) ==
  /\ incoming' = <<[id |-> id, msg |-> message.msg, index |-> message.next,
                    last |-> message.next = message.parts, socket |-> socket]>>
  /\ sending' = [sending EXCEPT ![id] = [message EXCEPT !.next = @ + 1]]
  /\ refs' = refs + 1

ReadFirst(id, parts) ==
  /\ up /\ refs > 0 /\ incoming = <<>> /\ ~ Unfinished(id) /\ msgs < MaxMessages
  /\ giop_1_1 => \A other \in Ids : ~ Unfinished(other)
  /\ msgs' = msgs + 1
  /\ Take(id, [msg |-> msgs + 1, next |-> 1, parts |-> parts])
  /\ UNCHANGED <<giop_1_1, socket, up, receiving, life>>

ReadNext(id) ==
  /\ up /\ refs > 0 /\ incoming = <<>> /\ Unfinished(id)
  /\ Take(id, sending[id])
  /\ UNCHANGED <<giop_1_1, socket, up, msgs, receiving, life>>

(* The lists that giop_connection_get_frag finds: the one of the id, which *)
(* a later piece of version 1.1 does not have, else in version 1.1 any.    *)
get_fragAny(p) ==
  LET own == {id \in Ids : id = p.id /\ frags[id] # <<>>}
  IN IF own = {} THEN {id \in Ids : frags[id] # <<>>} ELSE own
get_frag(p) ==
  LET own == {id \in Ids : id = p.id /\ (giop_1_1 => p.index = 1) /\ frags[id] # <<>>}
  IN IF own = {} /\ giop_1_1 THEN {id \in Ids : frags[id] # <<>>} ELSE own

HandedOver(pieces) == using' = using \cup {[pieces |-> pieces, socket |-> socket]}

(* A message in one piece.                                                 *)
HandleWhole ==
  /\ up /\ incoming # <<>>
  /\ incoming[1].index = 1 /\ incoming[1].last
  /\ incoming' = <<>> /\ HandedOver(incoming)
  /\ UNCHANGED <<giop_1_1, socket, up, sending, msgs, frags, freed, life, refs>>

InPieces == up /\ incoming # <<>> /\ ~ (incoming[1].index = 1 /\ incoming[1].last)

(* giop_connection_add_frag                                                *)
HandleHead ==
  /\ InPieces /\ get_frag(incoming[1]) = {} /\ ~ incoming[1].last
  /\ frags' = [frags EXCEPT ![incoming[1].id] = incoming] /\ incoming' = <<>>
  /\ UNCHANGED <<giop_1_1, socket, up, sending, msgs, using, freed, life, refs>>

HandleMore ==
  /\ InPieces /\ ~ incoming[1].last
  /\ \E id \in get_frag(incoming[1]) :
       frags' = [frags EXCEPT ![id] = Append(@, incoming[1])]
  /\ incoming' = <<>>
  /\ UNCHANGED <<giop_1_1, socket, up, sending, msgs, using, freed, life, refs>>

(* giop_connection_remove_frag keeps the first buffer, which has been      *)
(* given the contents of the others.                                       *)
RemovedAll(list) == list
Removed(list) == Tail(list)

HandleLast ==
  /\ InPieces /\ incoming[1].last
  /\ \E id \in get_frag(incoming[1]) :
       LET list == Append(frags[id], incoming[1]) IN
       /\ HandedOver(list)
       /\ freed' = freed \cup Pieces(Removed(list))
       /\ refs' = refs - Len(Removed(list))
       /\ frags' = [frags EXCEPT ![id] = <<>>]
  /\ incoming' = <<>>
  /\ UNCHANGED <<giop_1_1, socket, up, sending, msgs, life>>

(* The connection breaks, from either side: the piece that is being read   *)
(* goes, the lists stay.                                                   *)
Break ==
  /\ up
  /\ up' = FALSE /\ sending' = [id \in Ids |-> Idle]
  /\ freed' = freed \cup Pieces(incoming) /\ refs' = refs - Len(incoming)
  /\ incoming' = <<>>
  /\ UNCHANGED <<giop_1_1, socket, msgs, frags, using, life>>

Reconnect ==
  /\ ~ up /\ owned /\ socket < MaxSockets
  /\ up' = TRUE /\ socket' = socket + 1
  /\ UNCHANGED <<giop_1_1, sending, msgs, incoming, receiving, life, refs>>

(* The program is done with a message (giop_recv_buffer_unuse).            *)
Unuse(m) ==
  /\ using' = using \ {m} /\ freed' = freed \cup {m.pieces[1]}
  /\ refs' = refs - 1
  /\ UNCHANGED <<giop_1_1, socket, up, sending, msgs, incoming, frags, life>>

LetGo ==
  /\ owned /\ owned' = FALSE /\ refs' = refs - 1
  /\ UNCHANGED <<giop_1_1, socket, up, sending, msgs, incoming, receiving, disposed>>

(* The last reference: giop_connection_dispose closes the connection and   *)
(* frees what is in the lists.                                             *)
Dispose ==
  /\ refs = 0 /\ ~ disposed
  /\ disposed' = TRUE /\ up' = FALSE
  /\ sending' = [id \in Ids |-> Idle]
  /\ freed' = freed \cup Pieces(incoming)
                    \cup UNION {Pieces(frags[id]) : id \in Ids}
  /\ incoming' = <<>> /\ frags' = [id \in Ids |-> <<>>]
  /\ UNCHANGED <<giop_1_1, socket, msgs, using, owned, refs>>

Next ==
  \/ \E id \in Ids : ReadNext(id) \/ \E parts \in 1 .. MaxParts : ReadFirst(id, parts)
  \/ HandleWhole \/ HandleHead \/ HandleMore \/ HandleLast
  \/ Break \/ Reconnect \/ LetGo \/ Dispose
  \/ \E m \in using : Unuse(m)

Spec == Init /\ [][Next]_vars

-----------------------------------------------------------------------------
TypeOK ==
  /\ giop_1_1 \in BOOLEAN /\ socket \in Nat /\ up \in BOOLEAN /\ msgs \in Nat /\ refs \in Int
  /\ sending \in [Ids -> Message]
  /\ incoming \in Seq(Piece) /\ Len(incoming) <= 1
  /\ frags \in [Ids -> Seq(Piece)]
  /\ using \subseteq [pieces : Seq(Piece) \ {<<>>}, socket : Nat]
  /\ freed \subseteq Piece
  /\ owned \in BOOLEAN /\ disposed \in BOOLEAN

(* A message whose first piece came over the socket of its last consists   *)
(* of all the pieces of one message of the peer, in order, whatever else   *)
(* was unfinished meanwhile or was left from an earlier socket             *)
(* (giop_recv_buffer_handle_fragmented).                                   *)
Whole(pieces) ==
  /\ pieces # <<>> /\ pieces[Len(pieces)].last
  /\ \A i \in DOMAIN pieces :
       /\ pieces[i].msg = pieces[1].msg /\ pieces[i].index = i
       /\ pieces[i].last => i = Len(pieces)
WholeHere ==
  \A m \in using : m.pieces[1].socket = m.socket => Whole(m.pieces)

(* A buffer that somebody may still use is not freed: the one being read,  *)
(* those in lists and the first one of a message in the hands of the       *)
(* program (giop_connection_remove_frag, giop_connection_destroy_frags).   *)
Listed == UNION {Pieces(frags[id]) : id \in Ids}
Heads == {m.pieces[1] : m \in using}
Held == Pieces(incoming) \cup Listed \cup Heads
HeldNotFreed == Held \cap freed = {}

(* Buffers and their references agree, so that the connection goes when    *)
(* nothing of it is left: no buffer outlives it, and it holds no piece and *)
(* reads none when it goes (the assertion at giop-connection.c:72).  What  *)
(* giop_connection_destroy_frags would free at that time is never there.   *)
GoesClean ==
  /\ ~ disposed => (refs = 0 => Held = {})
  /\ disposed => Held = {} /\ ~ owned
=============================================================================
