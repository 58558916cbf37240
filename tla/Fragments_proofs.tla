-------------------------- MODULE Fragments_proofs --------------------------
(***************************************************************************)
(* Proofs about Fragments, for all ids and bounds: the types, that what    *)
(* was put together over one socket is a whole message (WholeHere), that   *)
(* no buffer is freed in use (HeldNotFreed) and that the connection goes   *)
(* when nothing of it is left (GoesClean).                                 *)
(*                                                                         *)
(* The first argument follows the messages that are open: the peer still   *)
(* sends them, or their last piece is being read.  Once a piece of an open *)
(* message was handled there is a list for the next one (Found), and where *)
(* such a list was begun over this socket it is exactly the pieces of the  *)
(* open message so far (Current).  In version 1.1, where a later piece is  *)
(* put into whatever list there is, there is one list and one open message *)
(* at most (OneList, OneOpen).  The second, about buffers, follows further *)
(* down.                                                                   *)
(***************************************************************************)
EXTENDS Fragments, SequenceTheorems, FiniteSetTheorems, TLAPS


Reads(id) == incoming # <<>> /\ incoming[1].id = id
Open(id) == Unfinished(id) \/ Reads(id)
Handled(id) == IF Reads(id) THEN sending[id].next - 2 ELSE sending[id].next - 1

Quiet == ~ up => incoming = <<>> /\ \A id \in Ids : ~ Unfinished(id)

OneOpen == giop_1_1 => \A a, b \in Ids : Open(a) /\ Open(b) => a = b

OneList ==
  giop_1_1 => \A a, b \in Ids : frags[a] # <<>> /\ frags[b] # <<>> => a = b

FromPeer ==
  incoming # <<>> =>
    LET p == incoming[1]
        s == sending[p.id]
    IN /\ p.msg = s.msg /\ p.socket = socket
       /\ p.index = s.next - 1 /\ p.index <= s.parts
       /\ p.last <=> p.index = s.parts

Found ==
  \A id \in Ids :
    Open(id) /\ Handled(id) > 0 =>
      frags[id] # <<>> \/ (giop_1_1 /\ \E k \in Ids : frags[k] # <<>>)

Current ==
  \A id \in Ids :
    up /\ frags[id] # <<>> /\ frags[id][1].socket = socket =>
      /\ Open(id) /\ Handled(id) = Len(frags[id])
      /\ \A i \in DOMAIN frags[id] :
           /\ frags[id][i].msg = sending[id].msg /\ frags[id][i].index = i
           /\ ~ frags[id][i].last

Earlier == \A id \in Ids : frags[id] # <<>> => frags[id][1].socket <= socket

IInv == /\ TypeOK /\ Quiet /\ OneOpen /\ OneList /\ FromPeer /\ Found /\ Current
        /\ Earlier /\ WholeHere

-----------------------------------------------------------------------------
LEMMA ListFound ==
  ASSUME NEW p PROVE get_frag(p) \subseteq {id \in Ids : frags[id] # <<>>}
BY DEF get_frag

LEMMA Headless ==
  ASSUME NEW s \in Seq(Piece), s # <<>>
  PROVE /\ Tail(s) \in Seq(Piece) /\ Pieces(Tail(s)) \subseteq Piece
        /\ Pieces(s) \subseteq Piece /\ s[1] \in Piece /\ Len(Tail(s)) \in Nat
<1>1. s[1] \in Piece /\ Pieces(s) \subseteq Piece BY DEF Pieces
<1>2. Tail(s) \in Seq(Piece) /\ Len(Tail(s)) \in Nat BY HeadTailProperties
<1>3. Pieces(Tail(s)) \subseteq Piece BY <1>2 DEF Pieces
<1> QED BY <1>1, <1>2, <1>3

LEMMA TypeInit == Init => TypeOK
<1> SUFFICES ASSUME Init PROVE TypeOK OBVIOUS
<1>1. Idle \in Message BY DEF Idle, Message
<1>2. socket \in Nat /\ msgs \in Nat /\ refs \in Int BY DEF Init
<1>3. incoming \in Seq(Piece) /\ Len(incoming) <= 1 BY DEF Init
<1>4. frags \in [Ids -> Seq(Piece)] BY DEF Init
<1> QED BY <1>1, <1>2, <1>3, <1>4 DEF Init, TypeOK

(* One step per action: what it changes keeps its type.                    *)
LEMMA TypeTake ==
  ASSUME TypeOK, NEW id \in Ids, NEW message \in Message, Take(id, message)
  PROVE /\ incoming' \in Seq(Piece) /\ Len(incoming') <= 1
        /\ sending' \in [Ids -> Message] /\ refs' \in Int
<1>1. [id |-> id, msg |-> message.msg, index |-> message.next,
       last |-> message.next = message.parts, socket |-> socket] \in Piece
  BY DEF TypeOK, Message, Piece
<1>2. [message EXCEPT !.next = @ + 1] \in Message
  BY DEF Message
<1> QED BY <1>1, <1>2 DEF Take, TypeOK

LEMMA TypeNext == TypeOK /\ [Next]_vars => TypeOK'
<1> SUFFICES ASSUME TypeOK, [Next]_vars PROVE TypeOK' OBVIOUS
<1> USE DEF receiving, life
<1>1. ASSUME NEW id \in Ids, ReadNext(id) PROVE TypeOK'
  <2>1. sending[id] \in Message BY DEF TypeOK
  <2> QED BY <1>1, <2>1, TypeTake DEF ReadNext, TypeOK
<1>2. ASSUME NEW id \in Ids, NEW parts \in 1 .. MaxParts, ReadFirst(id, parts)
      PROVE TypeOK'
  <2>1. [msg |-> msgs + 1, next |-> 1, parts |-> parts] \in Message
    BY Bounds DEF Message, TypeOK
  <2> QED BY <1>2, <2>1, TypeTake DEF ReadFirst, TypeOK
<1>3. CASE HandleWhole
  <2>1. [pieces |-> incoming, socket |-> socket]
          \in [pieces : Seq(Piece) \ {<<>>}, socket : Nat]
    BY <1>3 DEF HandleWhole, TypeOK
  <2> QED BY <1>3, <2>1 DEF HandleWhole, HandedOver, TypeOK
<1>4. CASE HandleHead
  <2>1. frags' \in [Ids -> Seq(Piece)] BY <1>4 DEF HandleHead, InPieces, TypeOK
  <2>2. incoming' \in Seq(Piece) /\ Len(incoming') <= 1 BY <1>4 DEF HandleHead
  <2> QED BY <1>4, <2>1, <2>2 DEF HandleHead, TypeOK
<1>5. CASE HandleMore
  <2>1. PICK id \in get_frag(incoming[1]) :
          frags' = [frags EXCEPT ![id] = Append(@, incoming[1])]
    BY <1>5 DEF HandleMore
  <2>2. id \in Ids BY <2>1, ListFound
  <2>3. incoming[1] \in Piece BY <1>5, Headless DEF HandleMore, InPieces, TypeOK
  <2>4. Append(frags[id], incoming[1]) \in Seq(Piece) BY <2>2, <2>3 DEF TypeOK
  <2> QED BY <1>5, <2>1, <2>2, <2>4 DEF HandleMore, TypeOK
<1>6. CASE HandleLast
  <2>1. PICK id \in get_frag(incoming[1]) :
          LET list == Append(frags[id], incoming[1]) IN
          /\ HandedOver(list) /\ freed' = freed \cup Pieces(Removed(list))
          /\ refs' = refs - Len(Removed(list)) /\ frags' = [frags EXCEPT ![id] = <<>>]
    BY <1>6 DEF HandleLast
  <2> DEFINE list == Append(frags[id], incoming[1])
  <2>2. id \in Ids BY <2>1, ListFound
  <2>3. incoming[1] \in Piece BY <1>6, Headless DEF HandleLast, InPieces, TypeOK
  <2>4. list \in Seq(Piece) /\ list # <<>>
    BY <2>2, <2>3, AppendProperties DEF TypeOK
  <2>5. [pieces |-> list, socket |-> socket]
          \in [pieces : Seq(Piece) \ {<<>>}, socket : Nat]
    BY <2>4 DEF TypeOK
  <2>6. using' \subseteq [pieces : Seq(Piece) \ {<<>>}, socket : Nat]
    BY <2>1, <2>5 DEF HandedOver, TypeOK
  <2> HIDE DEF list
  <2>7. Pieces(Tail(list)) \subseteq Piece /\ Len(Tail(list)) \in Nat
    BY <2>4, Headless
  <2>8. freed' \subseteq Piece BY <2>1, <2>7 DEF Removed, TypeOK, list
  <2>9. refs' \in Int BY <2>1, <2>7 DEF Removed, TypeOK, list
  <2>10. frags' \in [Ids -> Seq(Piece)] BY <2>1, <2>2 DEF TypeOK
  <2>11. incoming' \in Seq(Piece) /\ Len(incoming') <= 1 BY <1>6 DEF HandleLast
  <2> QED BY <1>6, <2>6, <2>8, <2>9, <2>10, <2>11 DEF HandleLast, TypeOK
<1>7. CASE Break
  <2>1. Idle \in Message BY DEF Idle, Message
  <2>2. Pieces(incoming) \subseteq Piece BY DEF Pieces, TypeOK
  <2>3. refs' \in Int BY <1>7 DEF Break, TypeOK
  <2>4. incoming' \in Seq(Piece) /\ Len(incoming') <= 1 BY <1>7 DEF Break
  <2>5. freed' \subseteq Piece BY <1>7, <2>2 DEF Break, TypeOK
  <2> QED BY <1>7, <2>1, <2>3, <2>4, <2>5 DEF Break, TypeOK
<1>8. CASE Reconnect BY <1>8 DEF Reconnect, TypeOK
<1>9. CASE LetGo
  <2>1. refs' \in Int BY <1>9 DEF LetGo, TypeOK
  <2> QED BY <1>9, <2>1 DEF LetGo, TypeOK
<1>10. CASE Dispose
  <2>1. Idle \in Message BY DEF Idle, Message
  <2>2. \A id \in Ids : Pieces(frags[id]) \subseteq Piece BY DEF Pieces, TypeOK
  <2>3. frags' \in [Ids -> Seq(Piece)] BY <1>10 DEF Dispose
  <2>4. Pieces(incoming) \subseteq Piece BY DEF Pieces, TypeOK
  <2>5. freed' \subseteq Piece BY <1>10, <2>2, <2>4 DEF Dispose, TypeOK
  <2>6. incoming' \in Seq(Piece) /\ Len(incoming') <= 1 BY <1>10 DEF Dispose
  <2> QED BY <1>10, <2>1, <2>3, <2>5, <2>6 DEF Dispose, TypeOK
<1>11. ASSUME NEW m \in using, Unuse(m) PROVE TypeOK'
  <2>1. m.pieces \in Seq(Piece) \ {<<>>} BY DEF TypeOK
  <2>2. m.pieces[1] \in Piece BY <2>1, Headless
  <2>3. refs' \in Int BY <1>11 DEF Unuse, TypeOK
  <2>4. freed' \subseteq Piece BY <1>11, <2>2 DEF Unuse, TypeOK
  <2>5. using' \subseteq using BY <1>11 DEF Unuse
  <2> QED BY <1>11, <2>3, <2>4, <2>5 DEF Unuse, TypeOK
<1>12. CASE UNCHANGED vars BY <1>12 DEF vars, TypeOK
<1> QED
  BY <1>1, <1>2, <1>3, <1>4, <1>5, <1>6, <1>7, <1>8, <1>9, <1>10, <1>11, <1>12
  DEF Next

(* Every variable keeps its type, whatever the ids and the bounds.         *)
THEOREM Typed == Spec => []TypeOK
BY TypeInit, TypeNext, PTL DEF Spec

-----------------------------------------------------------------------------
(* What is being read, where it is put, and why that is its own list.      *)
LEMMA TheOneRead ==
  ASSUME TypeOK, incoming # <<>>
  PROVE /\ incoming[1] \in Piece /\ incoming = <<incoming[1]>>
        /\ Open(incoming[1].id)
        /\ Handled(incoming[1].id) = sending[incoming[1].id].next - 2
        /\ sending[incoming[1].id] \in Message
<1>0. incoming \in Seq(Piece) /\ Len(incoming) <= 1 BY DEF TypeOK
<1>1. Len(incoming) = 1 /\ incoming[1] \in Piece BY <1>0, EmptySeq
<1>2. incoming = <<incoming[1]>> BY <1>0, <1>1
<1>3. incoming[1].id \in Ids BY <1>1 DEF Piece
<1> QED BY <1>1, <1>2, <1>3 DEF TypeOK, Open, Reads, Handled

LEMMA ItsList ==
  ASSUME IInv, incoming # <<>>, NEW k \in get_frag(incoming[1]),
         frags[k][1].socket = socket
  PROVE /\ k = incoming[1].id
        /\ Len(frags[k]) = incoming[1].index - 1
        /\ \A i \in DOMAIN frags[k] :
             /\ frags[k][i].msg = incoming[1].msg /\ frags[k][i].index = i
             /\ ~ frags[k][i].last
<1> DEFINE p == incoming[1]
<1>1. k \in Ids /\ frags[k] # <<>> BY ListFound
<1>2. up BY DEF IInv, Quiet
<1>3. Open(k) /\ Handled(k) = Len(frags[k])
  BY <1>1, <1>2 DEF IInv, Current
<1>4. p.id \in Ids /\ Open(p.id) BY TheOneRead DEF IInv, Piece
<1>5. k = p.id
  <2>1. CASE giop_1_1 BY <1>1, <1>3, <1>4, <2>1 DEF IInv, OneOpen
  <2>2. CASE ~ giop_1_1 BY <2>2 DEF get_frag
  <2> QED BY <2>1, <2>2
<1>6. p.index = sending[k].next - 1 /\ p.msg = sending[k].msg
  BY <1>5 DEF IInv, FromPeer
<1>7. Handled(k) = sending[k].next - 2 /\ sending[k] \in Message
  BY <1>5, TheOneRead DEF IInv
<1>8. Len(frags[k]) = p.index - 1 BY <1>3, <1>6, <1>7 DEF Message
<1> QED BY <1>1, <1>2, <1>5, <1>6, <1>8 DEF IInv, Current

(* Another list is not one of the message whose piece is being read.       *)
LEMMA OtherLists ==
  ASSUME IInv, incoming # <<>>, NEW k \in get_frag(incoming[1]),
         NEW a \in Ids, a # k, frags[a] # <<>>
  PROVE a # incoming[1].id
<1>1. k \in Ids /\ frags[k] # <<>> BY ListFound
<1>2. CASE giop_1_1 BY <1>1, <1>2 DEF IInv, OneList
<1>3. CASE ~ giop_1_1 BY <1>3 DEF get_frag
<1> QED BY <1>2, <1>3

(* The first piece of a list is the first of a message.                    *)
LEMMA HeadIsFirst ==
  ASSUME IInv, incoming # <<>>, get_frag(incoming[1]) = {}
  PROVE /\ incoming[1].index = 1
        /\ giop_1_1 => \A k \in Ids : frags[k] = <<>>
<1> DEFINE p == incoming[1]
<1>1. p \in Piece /\ p.id \in Ids /\ p.index \in Nat \ {0}
  BY TheOneRead DEF IInv, Piece
<1>2. giop_1_1 => \A k \in Ids : frags[k] = <<>>
  BY DEF get_frag
<1>3. ASSUME p.index # 1 PROVE FALSE
  <2>1. Open(p.id) /\ Handled(p.id) = p.index - 1
    BY <1>1, TheOneRead DEF IInv, FromPeer, Message
  <2>2. frags[p.id] # <<>> \/ (giop_1_1 /\ \E k \in Ids : frags[k] # <<>>)
    BY <1>1, <1>3, <2>1 DEF IInv, Found
  <2>3. ~ giop_1_1 /\ frags[p.id] # <<>> BY <1>1, <1>2, <2>2
  <2>4. p.id \in get_frag(p) BY <1>1, <2>3 DEF get_frag
  <2> QED BY <2>4
<1> QED BY <1>2, <1>3

LEMMA InitInv == Init => IInv
<1> SUFFICES ASSUME Init PROVE IInv OBVIOUS
<1>1. TypeOK BY TypeInit
<1>2. incoming = <<>> /\ using = {} /\ up BY DEF Init
<1>3. \A id \in Ids : frags[id] = <<>> /\ ~ Unfinished(id) /\ ~ Open(id)
  <2> SUFFICES ASSUME NEW id \in Ids
               PROVE frags[id] = <<>> /\ ~ Unfinished(id) /\ ~ Open(id)
    OBVIOUS
  <2>1. frags[id] = <<>> /\ sending[id] = Idle BY DEF Init
  <2>2. ~ Unfinished(id) BY <2>1 DEF Unfinished, Idle
  <2> QED BY <1>2, <2>1, <2>2 DEF Open, Reads
<1> QED
  BY <1>1, <1>2, <1>3
  DEF IInv, Quiet, OneOpen, OneList, FromPeer, Found, Current, Earlier, WholeHere

-----------------------------------------------------------------------------
(* The next piece of a message is taken: what was said of the message holds*)
(* with one piece more under way.                                          *)
LEMMA TakeKeeps ==
  ASSUME IInv, TypeOK', NEW id \in Ids, NEW message \in Message, Take(id, message),
         UNCHANGED <<giop_1_1, socket, up, frags, using>>,
         up, incoming = <<>>, message.next <= message.parts,
         giop_1_1 => \A other \in Ids : Unfinished(other) => other = id,
         \/ message.next = 1 /\ ~ Unfinished(id)
         \/ message = sending[id]
  PROVE IInv'
<1> DEFINE p == incoming'[1]
<1>1. /\ incoming' # <<>> /\ p.id = id /\ p.msg = message.msg /\ p.socket = socket
      /\ p.index = message.next /\ (p.last <=> message.next = message.parts)
  BY DEF Take
<1>2. /\ sending'[id] = [message EXCEPT !.next = @ + 1]
      /\ \A a \in Ids : a # id => sending'[a] = sending[a]
  BY DEF Take, IInv, TypeOK
<1>3. sending'[id].msg = message.msg /\ sending'[id].next = message.next + 1
      /\ sending'[id].parts = message.parts
  BY <1>2 DEF Message
<1>4. message.next \in Nat \ {0} /\ message.parts \in Nat BY DEF Message
<1>5. Open(id)' /\ Handled(id)' = message.next - 1
  BY <1>1, <1>3, <1>4 DEF Open, Reads, Handled
<1>6. \A a \in Ids : ~ Reads(a) /\ (Open(a) <=> Unfinished(a))
  BY DEF Reads, Open
<1>7. \A a \in Ids : a # id => /\ Unfinished(a)' = Unfinished(a) /\ ~ Reads(a)'
                              /\ Open(a)' = Open(a) /\ Handled(a)' = Handled(a)
  BY <1>1, <1>2, <1>6 DEF Unfinished, Open, Reads, Handled
<1>8. Quiet' BY DEF Quiet
<1>9. OneOpen' BY <1>6, <1>7 DEF OneOpen
<1>10. OneList' BY DEF IInv, OneList
<1>11. FromPeer' BY <1>1, <1>3, <1>4 DEF FromPeer
<1>12. ASSUME message = sending[id] PROVE Open(id) /\ Handled(id) = message.next - 1
  BY <1>6, <1>12 DEF Unfinished, Handled
<1>13. Found'
  <2>1. ASSUME Handled(id)' > 0 PROVE Open(id) /\ Handled(id) > 0
    BY <1>4, <1>5, <1>12, <2>1
  <2> QED BY <1>7, <2>1 DEF IInv, Found
<1>14. Current'
  <2>1. ASSUME frags[id] # <<>>, frags[id][1].socket = socket
        PROVE message = sending[id]
    BY <1>6, <2>1 DEF IInv, Current
  <2>2. ASSUME NEW a \in Ids, up', frags'[a] # <<>>, frags'[a][1].socket = socket'
        PROVE /\ Open(a)' /\ Handled(a)' = Len(frags'[a])
              /\ \A i \in DOMAIN frags'[a] :
                   /\ frags'[a][i].msg = sending'[a].msg /\ frags'[a][i].index = i
                   /\ ~ frags'[a][i].last
    <3>1. CASE a = id
      BY <1>3, <1>5, <1>12, <2>1, <2>2, <3>1 DEF IInv, Current
    <3>2. CASE a # id
      BY <1>2, <1>7, <2>2, <3>2 DEF IInv, Current
    <3> QED BY <3>1, <3>2
  <2> QED BY <2>2 DEF Current
<1>15. Earlier' /\ WholeHere' BY DEF IInv, Earlier, WholeHere
<1> QED BY <1>8, <1>9, <1>10, <1>11, <1>13, <1>14, <1>15 DEF IInv

Undisturbed(id) == (Open(id)' <=> Open(id)) /\ Handled(id)' = Handled(id)

(* A piece was handled: no piece is read, the peer is where it was.        *)
LEMMA AfterHandling ==
  ASSUME IInv, incoming # <<>>, incoming' = <<>>, UNCHANGED sending,
         NEW j \in Ids, j = incoming[1].id
  PROVE /\ \A a \in Ids : (Open(a)' <=> Unfinished(a)) /\ (a # j => Undisturbed(a))
        /\ Handled(j)' = incoming[1].index
        /\ Unfinished(j) <=> ~ incoming[1].last
        /\ UNCHANGED giop_1_1 => OneOpen'
        /\ FromPeer'
<1> DEFINE p == incoming[1]
<1>1. p \in Piece BY TheOneRead DEF IInv
<1>2. \A a \in Ids : ~ Reads(a)' /\ (Unfinished(a)' <=> Unfinished(a))
                    /\ (Open(a)' <=> Unfinished(a))
  BY DEF Reads, Unfinished, Open
<1>3. \A a \in Ids : a # j => ~ Reads(a) BY DEF Reads
<1>4. \A a \in Ids : a # j => Undisturbed(a)
  BY <1>2, <1>3 DEF Undisturbed, Open, Handled
<1>5. Handled(j)' = p.index
  <2>1. Handled(j)' = sending[j].next - 1 BY <1>1, <1>2 DEF Handled
  <2>2. p.index = sending[j].next - 1 BY DEF IInv, FromPeer
  <2> QED BY <2>1, <2>2
<1>6. Unfinished(j) <=> ~ p.last
  BY <1>1, TheOneRead DEF IInv, FromPeer, Unfinished, Message
<1>7. UNCHANGED giop_1_1 => OneOpen' BY <1>2 DEF IInv, OneOpen, Open
<1>8. FromPeer' BY DEF FromPeer
<1> QED BY <1>2, <1>4, <1>5, <1>6, <1>7, <1>8

LEMMA WholeKeeps == IInv /\ TypeOK' /\ HandleWhole => IInv'
<1> SUFFICES ASSUME IInv, TypeOK', HandleWhole PROVE IInv' OBVIOUS
<1> DEFINE p == incoming[1]
<1>1. /\ up /\ incoming # <<>> /\ p.index = 1 /\ p.last /\ incoming' = <<>>
      /\ using' = using \cup {[pieces |-> incoming, socket |-> socket]}
      /\ UNCHANGED <<giop_1_1, socket, up, sending, frags>>
  BY DEF HandleWhole, HandedOver, receiving, life
<1>0. PICK j \in Ids : j = p.id BY <1>1, TheOneRead DEF IInv, Piece
<1>2. incoming = <<p>> /\ Handled(j) = p.index - 1
  BY <1>0, <1>1, TheOneRead DEF IInv, FromPeer, Message
<1>3. /\ \A a \in Ids : (Open(a)' <=> Unfinished(a)) /\ (a # j => Undisturbed(a))
      /\ ~ Unfinished(j) /\ OneOpen' /\ FromPeer'
  BY <1>0, <1>1, AfterHandling
<1>4. Quiet' BY <1>1 DEF Quiet
<1>5. OneList' BY <1>1 DEF IInv, OneList
<1>6. Found'
  <2> SUFFICES ASSUME NEW a \in Ids, Open(a)', Handled(a)' > 0
               PROVE (frags[a] # <<>> \/ (giop_1_1 /\ \E i \in Ids : frags[i] # <<>>))'
    BY DEF Found
  <2>1. a # j BY <1>3
  <2>2. Open(a) /\ Handled(a) > 0 BY <1>3, <2>1 DEF Undisturbed
  <2>3. frags[a] # <<>> \/ (giop_1_1 /\ \E k \in Ids : frags[k] # <<>>)
    BY <2>2 DEF IInv, Found
  <2> QED BY <1>1, <2>3
<1>7. Current'
  <2>1. ASSUME frags[j] # <<>>, frags[j][1].socket = socket PROVE FALSE
    <3>1. Handled(j) = Len(frags[j]) BY <1>1, <1>2, <2>1 DEF IInv, Current
    <3>2. frags[j] \in Seq(Piece) BY <1>2 DEF IInv, TypeOK
    <3> QED BY <1>1, <1>2, <2>1, <3>1, <3>2, EmptySeq
  <2> SUFFICES ASSUME NEW a \in Ids, up', frags'[a] # <<>>, frags'[a][1].socket = socket'
               PROVE /\ Open(a)' /\ Handled(a)' = Len(frags'[a])
                     /\ \A i \in DOMAIN frags'[a] :
                          /\ frags'[a][i].msg = sending'[a].msg
                          /\ frags'[a][i].index = i /\ ~ frags'[a][i].last
    BY DEF Current
  <2>2. a # j BY <1>1, <2>1
  <2>3. /\ Open(a) /\ Handled(a) = Len(frags[a])
           /\ \A i \in DOMAIN frags[a] :
                /\ frags[a][i].msg = sending[a].msg /\ frags[a][i].index = i
                /\ ~ frags[a][i].last
    BY <1>1 DEF IInv, Current
  <2> QED BY <1>1, <1>3, <2>2, <2>3 DEF Undisturbed
<1>8. Earlier' BY <1>1 DEF IInv, Earlier
<1>9. WholeHere'
  <2>1. Len(incoming) = 1 /\ DOMAIN incoming = {1} BY <1>2
  <2>2. Whole(incoming) BY <1>1, <2>1 DEF Whole
  <2> QED BY <1>1, <2>2 DEF IInv, WholeHere
<1> QED BY <1>3, <1>4, <1>5, <1>6, <1>7, <1>8, <1>9 DEF IInv

LEMMA HeadKeeps == IInv /\ TypeOK' /\ HandleHead => IInv'
<1> SUFFICES ASSUME IInv, TypeOK', HandleHead PROVE IInv' OBVIOUS
<1> DEFINE p == incoming[1]
<1>1. /\ up /\ incoming # <<>> /\ ~ p.last /\ get_frag(p) = {} /\ incoming' = <<>>
      /\ frags' = [frags EXCEPT ![p.id] = incoming]
      /\ UNCHANGED <<giop_1_1, socket, up, sending, using>>
  BY DEF HandleHead, InPieces, receiving, life
<1>0. PICK j \in Ids : j = p.id BY <1>1, TheOneRead DEF IInv, Piece
<1>2. incoming = <<p>> BY <1>1, TheOneRead DEF IInv
<1>3. p.index = 1 /\ (giop_1_1 => \A k \in Ids : frags[k] = <<>>)
  BY <1>1, HeadIsFirst
<1>4. /\ \A a \in Ids : (Open(a)' <=> Unfinished(a)) /\ (a # j => Undisturbed(a))
      /\ Unfinished(j) /\ Handled(j)' = 1 /\ OneOpen' /\ FromPeer'
  BY <1>0, <1>1, <1>3, AfterHandling
<1>5. /\ frags'[j] = <<p>>
      /\ \A a \in Ids : a # j => frags'[a] = frags[a]
  BY <1>0, <1>1, <1>2 DEF IInv, TypeOK
<1>6. Quiet' BY <1>1 DEF Quiet
<1>7. OneList' BY <1>1, <1>3, <1>5 DEF OneList
<1>8. Found'
  <2>1. \A a \in Ids : frags[a] # <<>> => frags'[a] # <<>> BY <1>5
  <2>2. frags'[j] # <<>> BY <1>5
  <2> SUFFICES ASSUME NEW a \in Ids, Open(a)', Handled(a)' > 0
               PROVE (frags[a] # <<>> \/ (giop_1_1 /\ \E i \in Ids : frags[i] # <<>>))'
    BY DEF Found
  <2>3. CASE a = j BY <2>2, <2>3
  <2>4. CASE a # j
    <3>1. Open(a) /\ Handled(a) > 0 BY <1>4, <2>4 DEF Undisturbed
    <3>2. frags[a] # <<>> \/ (giop_1_1 /\ \E k \in Ids : frags[k] # <<>>)
      BY <3>1 DEF IInv, Found
    <3> QED BY <1>1, <2>1, <3>2
  <2> QED BY <2>3, <2>4
<1>9. Current'
  <2>1. p.msg = sending[j].msg BY <1>0, <1>1 DEF IInv, FromPeer
  <2>2. /\ Open(j)' /\ Handled(j)' = Len(frags'[j])
        /\ \A i \in DOMAIN frags'[j] :
             /\ frags'[j][i].msg = sending'[j].msg
             /\ frags'[j][i].index = i /\ ~ frags'[j][i].last
    <3>1. frags'[j] = <<p>> /\ Len(<<p>>) = 1 /\ DOMAIN <<p>> = {1} /\ <<p>>[1] = p
      BY <1>5
    <3>2. Open(j)' /\ Handled(j)' = Len(frags'[j]) BY <1>4, <3>1
    <3> QED BY <1>1, <1>3, <2>1, <3>1, <3>2
  <2> SUFFICES ASSUME NEW a \in Ids, up', frags'[a] # <<>>, frags'[a][1].socket = socket'
               PROVE /\ Open(a)' /\ Handled(a)' = Len(frags'[a])
                     /\ \A i \in DOMAIN frags'[a] :
                          /\ frags'[a][i].msg = sending'[a].msg
                          /\ frags'[a][i].index = i /\ ~ frags'[a][i].last
    BY DEF Current
  <2>3. CASE a = j BY <2>2, <2>3
  <2>4. CASE a # j
    <3>1. /\ Open(a) /\ Handled(a) = Len(frags[a])
           /\ \A i \in DOMAIN frags[a] :
                /\ frags[a][i].msg = sending[a].msg /\ frags[a][i].index = i
                /\ ~ frags[a][i].last
      BY <1>1, <1>5, <2>4 DEF IInv, Current
    <3> QED BY <1>1, <1>4, <1>5, <2>4, <3>1 DEF Undisturbed
  <2> QED BY <2>3, <2>4
<1>10. Earlier'
  <2>1. p.socket = socket /\ socket \in Nat BY <1>1 DEF IInv, FromPeer, TypeOK
  <2>2. frags'[j][1].socket <= socket BY <1>5, <2>1
  <2> QED BY <1>1, <1>5, <2>2 DEF IInv, Earlier
<1>11. WholeHere' BY <1>1 DEF IInv, WholeHere
<1> QED BY <1>4, <1>6, <1>7, <1>8, <1>9, <1>10, <1>11 DEF IInv

LEMMA MoreKeeps == IInv /\ TypeOK' /\ HandleMore => IInv'
<1> SUFFICES ASSUME IInv, TypeOK', HandleMore PROVE IInv' OBVIOUS
<1> DEFINE p == incoming[1]
<1>1. PICK k \in get_frag(p) : frags' = [frags EXCEPT ![k] = Append(@, p)]
  BY DEF HandleMore
<1>2. /\ up /\ incoming # <<>> /\ ~ p.last /\ incoming' = <<>>
      /\ UNCHANGED <<giop_1_1, socket, up, sending, using>>
  BY DEF HandleMore, InPieces, receiving, life
<1>0. PICK j \in Ids : j = p.id BY <1>2, TheOneRead DEF IInv, Piece
<1>3. p \in Piece BY <1>2, TheOneRead DEF IInv
<1>4. k \in Ids /\ frags[k] # <<>> /\ frags[k] \in Seq(Piece)
  BY ListFound DEF IInv, TypeOK
<1>5. /\ \A a \in Ids : (Open(a)' <=> Unfinished(a)) /\ (a # j => Undisturbed(a))
      /\ Unfinished(j) /\ Handled(j)' = p.index /\ OneOpen' /\ FromPeer'
  BY <1>0, <1>2, AfterHandling
<1>6. /\ frags'[k] = Append(frags[k], p) /\ Len(frags'[k]) = Len(frags[k]) + 1
      /\ frags'[k] # <<>> /\ frags'[k][1] = frags[k][1]
      /\ \A a \in Ids : a # k => frags'[a] = frags[a]
  <2>1. frags'[k] = Append(frags[k], p) /\ \A a \in Ids : a # k => frags'[a] = frags[a]
    BY <1>1, <1>4 DEF IInv, TypeOK
  <2> QED BY <1>3, <1>4, <2>1, AppendProperties, EmptySeq
<1>7. Quiet' BY <1>2 DEF Quiet
<1>8. OneList' BY <1>2, <1>4, <1>6 DEF IInv, OneList
<1>9. Found'
  <2>1. \A a \in Ids : frags[a] # <<>> => frags'[a] # <<>> BY <1>6
  <2>2. frags'[j] # <<>> \/ giop_1_1
    BY <1>0, <1>6 DEF get_frag
  <2> SUFFICES ASSUME NEW a \in Ids, Open(a)', Handled(a)' > 0
               PROVE (frags[a] # <<>> \/ (giop_1_1 /\ \E i \in Ids : frags[i] # <<>>))'
    BY DEF Found
  <2>3. CASE a = j BY <1>2, <1>4, <1>6, <2>2, <2>3
  <2>4. CASE a # j
    <3>1. Open(a) /\ Handled(a) > 0 BY <1>5, <2>4 DEF Undisturbed
    <3>2. frags[a] # <<>> \/ (giop_1_1 /\ \E i \in Ids : frags[i] # <<>>)
      BY <3>1 DEF IInv, Found
    <3> QED BY <1>2, <2>1, <3>2
  <2> QED BY <2>3, <2>4
<1>10. Current'
  <2>1. ASSUME frags[k][1].socket = socket
        PROVE /\ Open(k)' /\ Handled(k)' = Len(frags'[k])
              /\ \A i \in DOMAIN frags'[k] :
                   /\ frags'[k][i].msg = sending'[k].msg
                   /\ frags'[k][i].index = i /\ ~ frags'[k][i].last
    <3>1. /\ k = j /\ Len(frags[k]) = p.index - 1
          /\ \A i \in DOMAIN frags[k] :
               /\ frags[k][i].msg = p.msg /\ frags[k][i].index = i
               /\ ~ frags[k][i].last
      BY <1>0, <1>2, <2>1, ItsList
    <3>2. p.msg = sending[k].msg BY <1>0, <1>2, <3>1 DEF IInv, FromPeer
    <3>3. p.index \in Nat BY <1>3 DEF Piece
    <3>4. Open(k)' /\ Handled(k)' = Len(frags'[k])
      BY <1>4, <1>5, <1>6, <3>1, <3>3
    <3>5. ASSUME NEW i \in DOMAIN frags'[k]
          PROVE /\ frags'[k][i].msg = p.msg
                /\ frags'[k][i].index = i /\ ~ frags'[k][i].last
      <4>1. frags'[k] = Append(frags[k], p) BY <1>6
      <4>2. CASE i \in DOMAIN frags[k]
        <5>1. frags'[k][i] = frags[k][i] BY <1>4, <4>1, <4>2
        <5> QED BY <3>1, <4>2, <5>1
      <4>3. CASE i = Len(frags[k]) + 1
        <5>1. frags'[k][i] = p BY <1>3, <1>4, <4>1, <4>3
        <5>2. p.index = i BY <3>1, <3>3, <4>3
        <5> QED BY <1>2, <5>1, <5>2
      <4> QED BY <1>3, <1>4, <4>1, <4>2, <4>3
    <3> QED BY <1>2, <3>2, <3>4, <3>5
  <2>2. ASSUME NEW a \in Ids, a # k, frags[a] # <<>> PROVE a # j
    BY <1>0, <1>1, <1>2, <2>2, OtherLists
  <2> SUFFICES ASSUME NEW a \in Ids, up', frags'[a] # <<>>, frags'[a][1].socket = socket'
               PROVE /\ Open(a)' /\ Handled(a)' = Len(frags'[a])
                     /\ \A i \in DOMAIN frags'[a] :
                          /\ frags'[a][i].msg = sending'[a].msg
                          /\ frags'[a][i].index = i /\ ~ frags'[a][i].last
    BY DEF Current
  <2>3. CASE a = k BY <1>2, <1>6, <2>1, <2>3
  <2>4. CASE a # k
    <3>1. frags[a] = frags'[a] /\ a # j BY <1>6, <2>2, <2>4
    <3>2. /\ Open(a) /\ Handled(a) = Len(frags[a])
           /\ \A i \in DOMAIN frags[a] :
                /\ frags[a][i].msg = sending[a].msg /\ frags[a][i].index = i
                /\ ~ frags[a][i].last
      BY <1>2, <3>1 DEF IInv, Current
    <3> QED BY <1>2, <1>5, <3>1, <3>2 DEF Undisturbed
  <2> QED BY <2>3, <2>4
<1>11. Earlier' BY <1>2, <1>4, <1>6 DEF IInv, Earlier
<1>12. WholeHere' BY <1>2 DEF IInv, WholeHere
<1> QED BY <1>5, <1>7, <1>8, <1>9, <1>10, <1>11, <1>12 DEF IInv

LEMMA LastKeeps == IInv /\ TypeOK' /\ HandleLast => IInv'
<1> SUFFICES ASSUME IInv, TypeOK', HandleLast PROVE IInv' OBVIOUS
<1> DEFINE p == incoming[1]
           list(k) == Append(frags[k], p)
<1>1. PICK k \in get_frag(p) :
        /\ frags' = [frags EXCEPT ![k] = <<>>]
        /\ using' = using \cup {[pieces |-> list(k), socket |-> socket]}
  BY DEF HandleLast, HandedOver
<1>2. /\ up /\ incoming # <<>> /\ p.last /\ incoming' = <<>>
      /\ UNCHANGED <<giop_1_1, socket, up, sending>>
  BY DEF HandleLast, InPieces, life
<1>0. PICK j \in Ids : j = p.id BY <1>2, TheOneRead DEF IInv, Piece
<1>3. p \in Piece BY <1>2, TheOneRead DEF IInv
<1>4. k \in Ids /\ frags[k] # <<>> /\ frags[k] \in Seq(Piece)
  BY ListFound DEF IInv, TypeOK
<1>5. /\ \A a \in Ids : (Open(a)' <=> Unfinished(a)) /\ (a # j => Undisturbed(a))
      /\ ~ Unfinished(j) /\ OneOpen' /\ FromPeer'
  BY <1>0, <1>2, AfterHandling
<1>6. frags'[k] = <<>> /\ \A a \in Ids : a # k => frags'[a] = frags[a]
  BY <1>1, <1>4 DEF IInv, TypeOK
<1>7. Quiet' BY <1>2 DEF Quiet
<1>8. OneList' BY <1>2, <1>6 DEF IInv, OneList
<1>9. Found'
  <2> SUFFICES ASSUME NEW a \in Ids, Open(a)', Handled(a)' > 0
               PROVE (frags[a] # <<>> \/ (giop_1_1 /\ \E i \in Ids : frags[i] # <<>>))'
    BY DEF Found
  <2>1. a # j BY <1>5
  <2>2. Open(a) /\ Handled(a) > 0 BY <1>5, <2>1 DEF Undisturbed
  <2>3. ~ giop_1_1
    BY <1>0, <1>2, <2>1, <2>2, TheOneRead DEF IInv, OneOpen
  <2>4. k = j BY <1>0, <2>3 DEF get_frag
  <2>5. frags[a] # <<>> BY <2>2, <2>3 DEF IInv, Found
  <2> QED BY <1>6, <2>1, <2>4, <2>5
<1>10. Current'
  <2> SUFFICES ASSUME NEW a \in Ids, up', frags'[a] # <<>>, frags'[a][1].socket = socket'
               PROVE /\ Open(a)' /\ Handled(a)' = Len(frags'[a])
                     /\ \A i \in DOMAIN frags'[a] :
                          /\ frags'[a][i].msg = sending'[a].msg
                          /\ frags'[a][i].index = i /\ ~ frags'[a][i].last
    BY DEF Current
  <2>1. a # k /\ frags'[a] = frags[a] BY <1>6
  <2>2. a # j BY <1>0, <1>1, <1>2, <2>1, OtherLists
  <2>3. /\ Open(a) /\ Handled(a) = Len(frags[a])
        /\ \A i \in DOMAIN frags[a] :
             /\ frags[a][i].msg = sending[a].msg /\ frags[a][i].index = i
             /\ ~ frags[a][i].last
    BY <1>2, <2>1 DEF IInv, Current
  <2> QED BY <1>2, <1>5, <2>1, <2>2, <2>3 DEF Undisturbed
<1>11. Earlier' BY <1>2, <1>6 DEF IInv, Earlier
<1>12. WholeHere'
  <2>1. /\ list(k) # <<>> /\ list(k)[1] = frags[k][1]
        /\ Len(list(k)) = Len(frags[k]) + 1 /\ list(k)[Len(list(k))] = p
        /\ DOMAIN list(k) = 1 .. Len(list(k))
        /\ \A i \in DOMAIN frags[k] : list(k)[i] = frags[k][i]
    BY <1>3, <1>4, AppendProperties, EmptySeq
  <2>2. ASSUME frags[k][1].socket = socket PROVE Whole(list(k))
    <3>1. /\ Len(frags[k]) = p.index - 1
          /\ \A i \in DOMAIN frags[k] :
               /\ frags[k][i].msg = p.msg /\ frags[k][i].index = i
               /\ ~ frags[k][i].last
      BY <1>2, <2>2, ItsList
    <3>2. p.index \in Nat /\ Len(list(k)) = p.index BY <1>3, <2>1, <3>1 DEF Piece
    <3>3. ASSUME NEW i \in DOMAIN list(k)
          PROVE /\ list(k)[i].msg = p.msg /\ list(k)[i].index = i
                /\ list(k)[i].last => i = Len(list(k))
      <4>1. CASE i \in DOMAIN frags[k] BY <2>1, <3>1, <4>1
      <4>2. CASE i = Len(list(k)) BY <2>1, <3>2, <4>2
      <4>3. i \in DOMAIN frags[k] \/ i = Len(list(k)) BY <1>4, <2>1
      <4> QED BY <4>1, <4>2, <4>3
    <3>4. 1 \in DOMAIN list(k) BY <1>3, <2>1, <3>2 DEF Piece
    <3> HIDE DEF list
    <3> QED BY <1>2, <2>1, <3>3, <3>4 DEF Whole
  <2> HIDE DEF list
  <2> QED BY <1>1, <2>1, <2>2 DEF IInv, WholeHere
<1> QED BY <1>5, <1>7, <1>8, <1>9, <1>10, <1>11, <1>12 DEF IInv

-----------------------------------------------------------------------------
(* The connection breaks, is made again or goes.                           *)
LEMMA BrokenInv ==
  ASSUME IInv, TypeOK', incoming' = <<>>, up' = FALSE,
         sending' = [id \in Ids |-> Idle], UNCHANGED <<giop_1_1, socket, using>>,
         UNCHANGED frags \/ frags' = [id \in Ids |-> <<>>]
  PROVE IInv'
<1>1. \A a \in Ids : ~ Unfinished(a)' /\ ~ Open(a)' BY DEF Unfinished, Open, Reads, Idle
<1>2. Quiet' /\ OneOpen' /\ FromPeer' /\ Found' /\ Current'
  BY <1>1 DEF Quiet, OneOpen, FromPeer, Found, Current
<1>3. \A a \in Ids : frags'[a] # <<>> => frags'[a] = frags[a] OBVIOUS
<1>4. OneList' /\ Earlier' BY <1>3 DEF IInv, OneList, Earlier
<1>5. WholeHere' BY DEF IInv, WholeHere
<1> QED BY <1>2, <1>4, <1>5 DEF IInv

LEMMA ReconnectKeeps == IInv /\ TypeOK' /\ Reconnect => IInv'
<1> SUFFICES ASSUME IInv, TypeOK', Reconnect PROVE IInv' OBVIOUS
<1>1. /\ ~ up /\ socket' = socket + 1
      /\ UNCHANGED <<giop_1_1, sending, incoming, frags, using>>
  BY DEF Reconnect, receiving
<1>2. incoming = <<>> /\ \A a \in Ids : ~ Unfinished(a)' /\ ~ Open(a)'
  BY <1>1 DEF IInv, Quiet, Unfinished, Open, Reads
<1>3. Quiet' /\ OneOpen' /\ FromPeer' /\ Found'
  BY <1>1, <1>2 DEF Quiet, OneOpen, FromPeer, Found
<1>4. ASSUME NEW a \in Ids, frags[a] # <<>>
      PROVE frags[a][1].socket <= socket' /\ frags[a][1].socket # socket'
  <2>1. frags[a][1] \in Piece BY <1>4, Headless DEF IInv, TypeOK
  <2>2. frags[a][1].socket \in Nat /\ socket \in Nat BY <2>1 DEF Piece, IInv, TypeOK
  <2>3. frags[a][1].socket <= socket BY <1>4 DEF IInv, Earlier
  <2> QED BY <1>1, <2>2, <2>3
<1>5. Current' /\ Earlier' BY <1>1, <1>4 DEF Current, Earlier
<1>6. OneList' /\ WholeHere' BY <1>1 DEF IInv, OneList, WholeHere
<1> QED BY <1>3, <1>5, <1>6 DEF IInv

LEMMA StillInv ==
  ASSUME IInv, TypeOK', UNCHANGED <<giop_1_1, socket, up, sending, incoming, frags>>,
         using' \subseteq using
  PROVE IInv'
<1>1. \A a \in Ids : (Open(a)' <=> Open(a)) /\ (Unfinished(a)' <=> Unfinished(a))
                    /\ Handled(a)' = Handled(a)
  BY DEF Open, Unfinished, Reads, Handled
<1>2. Quiet' /\ OneOpen' /\ OneList' BY <1>1 DEF IInv, Quiet, OneOpen, OneList
<1>3. FromPeer' /\ Earlier' BY DEF IInv, FromPeer, Earlier
<1>4. Found' /\ Current' BY <1>1 DEF IInv, Found, Current
<1>5. WholeHere' BY DEF IInv, WholeHere
<1> QED BY <1>2, <1>3, <1>4, <1>5 DEF IInv

LEMMA NextInv == IInv /\ [Next]_vars => IInv'
<1> SUFFICES ASSUME IInv, [Next]_vars PROVE IInv' OBVIOUS
<1>0. TypeOK' BY TypeNext DEF IInv
<1>1. ASSUME NEW id \in Ids, ReadNext(id) PROVE IInv'
  <2>1. sending[id] \in Message BY DEF IInv, TypeOK
  <2>2. Open(id) BY <1>1 DEF ReadNext, Open
  <2>3. giop_1_1 => \A other \in Ids : Unfinished(other) => other = id
    BY <2>2 DEF IInv, OneOpen, Open
  <2>4. sending[id].next <= sending[id].parts BY <1>1 DEF ReadNext, Unfinished
  <2> QED BY <1>0, <1>1, <2>1, <2>3, <2>4, TakeKeeps DEF ReadNext, receiving
<1>2. ASSUME NEW id \in Ids, NEW parts \in 1 .. MaxParts, ReadFirst(id, parts)
      PROVE IInv'
  <2> DEFINE message == [msg |-> msgs + 1, next |-> 1, parts |-> parts]
  <2>1. message \in Message /\ message.next = 1 /\ message.next <= message.parts
    BY Bounds DEF Message, IInv, TypeOK
  <2>2. Take(id, message) BY <1>2 DEF ReadFirst
  <2> HIDE DEF message
  <2> QED BY <1>0, <1>2, <2>1, <2>2, TakeKeeps DEF ReadFirst, receiving
<1>3. CASE HandleWhole BY <1>0, <1>3, WholeKeeps
<1>4. CASE HandleHead BY <1>0, <1>4, HeadKeeps
<1>5. CASE HandleMore BY <1>0, <1>5, MoreKeeps
<1>6. CASE HandleLast BY <1>0, <1>6, LastKeeps
<1>7. CASE Break BY <1>0, <1>7, BrokenInv DEF Break
<1>8. CASE Reconnect BY <1>0, <1>8, ReconnectKeeps
<1>9. CASE LetGo BY <1>0, <1>9, StillInv DEF LetGo, receiving
<1>10. CASE Dispose BY <1>0, <1>10, BrokenInv DEF Dispose
<1>11. ASSUME NEW m \in using, Unuse(m) PROVE IInv'
  BY <1>0, <1>11, StillInv DEF Unuse
<1>12. CASE UNCHANGED vars BY <1>0, <1>12, StillInv DEF vars
<1> QED
  BY <1>1, <1>2, <1>3, <1>4, <1>5, <1>6, <1>7, <1>8, <1>9, <1>10, <1>11, <1>12
  DEF Next

(* What is put together from pieces that all came over one socket is one   *)
(* message of the peer, whole and in order, whatever else is unfinished    *)
(* and whatever an earlier socket left.                                    *)
THEOREM WholeMessages == Spec => []WholeHere
<1>1. IInv => WholeHere BY DEF IInv
<1> QED BY InitInv, NextInv, <1>1, PTL DEF Spec

-----------------------------------------------------------------------------
(* Buffers.  Each is in one place only (Apart), because a piece that is    *)
(* read is none of those that came before (Numbered); so what holds a      *)
(* reference to the connection is the set of buffers that are held and the *)
(* owner (Counted), and what is freed leaves that set for good.            *)
Apart ==
  /\ \A a, b \in Ids : \A i \in DOMAIN frags[a], j \in DOMAIN frags[b] :
       frags[a][i] = frags[b][j] => a = b /\ i = j
  /\ Listed \cap (Pieces(incoming) \cup Heads) = {}
  /\ Pieces(incoming) \cap Heads = {}
  /\ \A m, n \in using : m.pieces[1] = n.pieces[1] => m = n

Numbered ==
  /\ \A p \in Held \cup freed :
       /\ p.msg <= msgs
       /\ \A id \in Ids :
            Unfinished(id) /\ sending[id].msg = p.msg => p.index < sending[id].next
  /\ \A id \in Ids : sending[id].msg <= msgs
  /\ \A a, b \in Ids :
       Unfinished(a) /\ Unfinished(b) /\ sending[a].msg = sending[b].msg => a = b

Counted == IsFiniteSet(Held) /\ refs = Cardinality(Held) + IF owned THEN 1 ELSE 0

Gone == disposed => Held = {} /\ ~ owned

Buffers == TypeOK /\ Apart /\ Numbered /\ HeldNotFreed /\ Counted /\ Gone

LEMMA One ==
  ASSUME TypeOK
  PROVE  Pieces(incoming) = IF incoming = <<>> THEN {} ELSE {incoming[1]}
<1>1. incoming \in Seq(Piece) /\ Len(incoming) <= 1
  BY DEF TypeOK
<1>2. Len(incoming) = 0 \/ Len(incoming) = 1
  <2> DEFINE n == Len(incoming)
  <2>1. n \in Nat /\ n <= 1 BY <1>1
  <2> HIDE DEF n
  <2>2. n = 0 \/ n = 1 BY <2>1
  <2> QED BY <2>2 DEF n
<1>3. DOMAIN incoming = 1 .. Len(incoming) /\ (incoming = <<>> <=> Len(incoming) = 0)
  BY <1>1
<1> QED BY <1>2, <1>3 DEF Pieces

(* Buffers are freed, or change their place, or neither.                   *)
LEMMA Fewer ==
  ASSUME Buffers, NEW S \in SUBSET Held,
         Held' = Held \ S, freed' = freed \cup S, msgs' = msgs,
         sending' = sending \/ \A id \in Ids : sending'[id] = Idle,
         refs' = refs - Cardinality(S), owned' = owned, disposed' = disposed
  PROVE  Numbered' /\ HeldNotFreed' /\ Counted' /\ Gone'
<1>1. IsFiniteSet(Held) /\ IsFiniteSet(S) /\ Cardinality(S) \in Nat
      /\ Cardinality(Held) \in Nat
  BY FS_Subset, FS_CardinalityType DEF Buffers, Counted
<1>2. IsFiniteSet(Held') /\ Cardinality(Held') = Cardinality(Held) - Cardinality(S)
  <2>1. Held \cap S = S OBVIOUS
  <2> QED BY <1>1, <2>1, FS_Difference
<1>3. Counted'
  BY <1>1, <1>2 DEF Buffers, Counted
<1>4. HeldNotFreed' /\ Gone'
  BY DEF Buffers, HeldNotFreed, Gone
<1>5. Held' \cup freed' = Held \cup freed
  OBVIOUS
<1>6. Numbered'
  <2>1. CASE sending' = sending
    BY <1>5, <2>1 DEF Buffers, Numbered, Unfinished
  <2>2. CASE \A id \in Ids : sending'[id] = Idle
    <3>1. \A id \in Ids : ~ Unfinished(id)' /\ sending'[id].msg = 0
      BY <2>2 DEF Unfinished, Idle
    <3>2. msgs \in Nat
      BY DEF Buffers, TypeOK
    <3> QED BY <1>5, <3>1, <3>2 DEF Buffers, Numbered
  <2> QED BY <2>1, <2>2
<1> QED BY <1>3, <1>4, <1>6

(* Buffers that stay in their lists and messages.                          *)
LEMMA StillApart ==
  ASSUME Buffers, frags' = frags \/ frags' = [id \in Ids |-> <<>>],
         using' \subseteq using, Pieces(incoming') \subseteq Pieces(incoming)
  PROVE  Apart'
<1>1. Listed' \subseteq Listed /\ Heads' \subseteq Heads
  BY DEF Listed, Heads, Pieces
<1> QED BY <1>1 DEF Buffers, Apart

LEMMA NoPieces == Pieces(<<>>) = {}
BY DEF Pieces

LEMMA NewRead ==
  ASSUME Buffers, TypeOK', NEW id \in Ids, NEW message \in Message, Take(id, message),
         incoming = <<>>, UNCHANGED <<frags, using, freed, owned, disposed>>, refs > 0,
         msgs' \in Nat, msgs <= msgs', message.msg <= msgs',
         \A p \in Held \cup freed : p.msg = message.msg => p.index < message.next,
         \A a \in Ids : Unfinished(a) /\ a # id => sending[a].msg # message.msg
  PROVE  Buffers'
<1> DEFINE p == [id |-> id, msg |-> message.msg, index |-> message.next,
                 last |-> message.next = message.parts, socket |-> socket]
<1>1. incoming' = <<p>> /\ Pieces(incoming') = {p} /\ Pieces(incoming) = {}
  BY NoPieces DEF Take, Pieces
<1>2. p.msg = message.msg /\ p.index = message.next /\ message.next \in Nat
      /\ message.msg \in Nat /\ msgs \in Nat
  BY DEF Message, Buffers, TypeOK
<1> HIDE DEF p
<1>3. p \notin Held \cup freed
  BY <1>2
<1>4. Listed' = Listed /\ Heads' = Heads
  BY DEF Listed, Heads
<1>5. Held' = Held \cup {p}
  BY <1>1, <1>4 DEF Held
<1>6. Apart'
  <2>1. Listed \cap ({p} \cup Heads) = {} /\ {p} \cap Heads = {}
    BY <1>3 DEF Held, Buffers, Apart
  <2> QED BY <1>1, <1>4, <2>1 DEF Buffers, Apart
<1>7. HeldNotFreed'
  BY <1>3, <1>5 DEF Buffers, HeldNotFreed
<1>8. Counted'
  <2>1. IsFiniteSet(Held') /\ Cardinality(Held') = Cardinality(Held) + 1
    BY <1>3, <1>5, FS_AddElement DEF Buffers, Counted
  <2>2. Cardinality(Held) \in Nat /\ refs' = refs + 1
    BY FS_CardinalityType DEF Buffers, Counted, Take
  <2> QED BY <2>1, <2>2 DEF Buffers, Counted
<1>9. Gone'
  <2>1. ~ disposed
    BY FS_EmptySet DEF Buffers, Gone, Counted
  <2> QED BY <2>1 DEF Gone
<1>10. Numbered'
  <2>1. /\ \A a \in Ids : a # id => sending'[a] = sending[a]
        /\ sending'[id].msg = message.msg /\ sending'[id].next = message.next + 1
    BY DEF Take, Buffers, TypeOK, Message
  <2>2. \A q \in Held \cup freed : q \in Piece
    <3>1. \A q \in Held : q \in Piece
      <4>1. Pieces(incoming) \subseteq Piece
        BY DEF Buffers, TypeOK, Pieces
      <4>2. Listed \subseteq Piece
        BY DEF Buffers, TypeOK, Pieces, Listed
      <4>3. ASSUME NEW m \in using PROVE m.pieces[1] \in Piece
        BY Headless DEF Buffers, TypeOK
      <4> QED BY <4>1, <4>2, <4>3 DEF Held, Heads
    <3> QED BY <3>1 DEF Buffers, TypeOK
  <2>3. ASSUME NEW q \in Held' \cup freed'
        PROVE  /\ q.msg <= msgs'
               /\ \A a \in Ids : Unfinished(a)' /\ sending'[a].msg = q.msg
                                   => q.index < sending'[a].next
    <3>1. CASE q = p
      <4>1. ASSUME NEW a \in Ids, Unfinished(a)', sending'[a].msg = q.msg
            PROVE  a = id
        BY <1>2, <2>1, <3>1, <4>1 DEF Unfinished
      <4> QED BY <1>2, <2>1, <3>1, <4>1
    <3>2. CASE q # p
      <4>1. q \in Held \cup freed /\ q.msg \in Nat /\ q.index \in Nat
        BY <1>5, <2>2, <3>2 DEF Piece
      <4>2. q.msg <= msgs
        BY <4>1 DEF Buffers, Numbered
      <4>3. ASSUME NEW a \in Ids, Unfinished(a)', sending'[a].msg = q.msg
            PROVE  q.index < sending'[a].next
        <5>1. CASE a = id
          BY <1>2, <2>1, <4>1, <4>3, <5>1
        <5>2. CASE a # id
          BY <2>1, <4>1, <4>3, <5>2 DEF Buffers, Numbered, Unfinished
        <5> QED BY <5>1, <5>2
      <4> QED BY <1>2, <4>1, <4>2, <4>3
    <3> QED BY <3>1, <3>2
  <2>4. ASSUME NEW a \in Ids PROVE sending'[a].msg <= msgs'
    <3>1. sending[a].msg \in Nat /\ sending[a].msg <= msgs
      BY DEF Buffers, TypeOK, Message, Numbered
    <3> QED BY <1>2, <2>1, <3>1
  <2>5. ASSUME NEW a \in Ids, NEW b \in Ids, Unfinished(a)', Unfinished(b)',
               sending'[a].msg = sending'[b].msg
        PROVE  a = b
    BY <2>1, <2>5 DEF Buffers, Numbered, Unfinished
  <2> QED BY <2>3, <2>4, <2>5 DEF Numbered
<1> QED BY <1>6, <1>7, <1>8, <1>9, <1>10 DEF Buffers

(* The piece that was read becomes a message.                              *)
LEMMA WholeBuffers == ASSUME Buffers, TypeOK', HandleWhole PROVE Buffers'
<1> DEFINE new == [pieces |-> incoming, socket |-> socket]
<1>1. /\ incoming # <<>> /\ incoming' = <<>> /\ frags' = frags /\ freed' = freed
      /\ sending' = sending /\ msgs' = msgs /\ refs' = refs
      /\ owned' = owned /\ disposed' = disposed /\ using' = using \cup {new}
  BY DEF HandleWhole, HandedOver, life
<1>2. new.pieces[1] = incoming[1]
  OBVIOUS
<1> HIDE DEF new
<1>3. Pieces(incoming) = {incoming[1]} /\ Pieces(incoming') = {}
  BY <1>1, One, NoPieces DEF Buffers
<1>4. Heads' = Heads \cup {incoming[1]} /\ Listed' = Listed
  BY <1>1, <1>2 DEF Heads, Listed
<1>5. Held' = Held
  BY <1>3, <1>4 DEF Held
<1>6. Apart'
  <2>1. \A m \in using : m.pieces[1] # incoming[1]
    BY <1>3 DEF Buffers, Apart, Heads
  <2> QED BY <1>1, <1>2, <1>3, <1>4, <2>1 DEF Buffers, Apart
<1>7. Cardinality({}) = 0 /\ refs \in Int
  BY FS_EmptySet DEF Buffers, TypeOK
<1>8. Numbered' /\ HeldNotFreed' /\ Counted' /\ Gone'
  <2>1. Held' = Held \ {} /\ freed' = freed \cup {} /\ refs' = refs - Cardinality({})
    BY <1>1, <1>5, <1>7
  <2> QED BY <1>1, <2>1, Fewer
<1> QED BY <1>6, <1>8 DEF Buffers

(* A list takes the piece that was read, at its end.                       *)
Extended(id) == Append(frags[id], incoming[1])

LEMMA Longer ==
  ASSUME TypeOK, Apart, NEW id \in Ids, incoming # <<>>,
         NEW list, list = Extended(id)
  PROVE  /\ frags[id] \in Seq(Piece) /\ incoming[1] \in Piece
         /\ list \in Seq(Piece) /\ list # <<>> /\ Len(list) \in Nat
         /\ Len(list) = Len(frags[id]) + 1
         /\ Pieces(list) = Pieces(frags[id]) \cup {incoming[1]}
         /\ \A i, j \in DOMAIN list : list[i] = list[j] => i = j
<1>1. frags[id] \in Seq(Piece) /\ incoming[1] \in Piece
  BY Headless DEF TypeOK
<1> DEFINE n == Len(frags[id])
<1>2. /\ list \in Seq(Piece) /\ list # <<>> /\ Len(list) = n + 1 /\ n \in Nat
      /\ \A i \in 1 .. n : list[i] = frags[id][i]
      /\ list[n + 1] = incoming[1]
      /\ DOMAIN frags[id] = 1 .. n /\ DOMAIN list = 1 .. n + 1
  BY <1>1, AppendProperties DEF Extended
<1> HIDE DEF n
<1>3. \A i \in 1 .. n + 1 : i \in 1 .. n \/ i = n + 1
  BY <1>2
<1>4. n + 1 \in 1 .. n + 1 /\ \A i \in 1 .. n : i \in 1 .. n + 1
  BY <1>2
<1>5. Pieces(list) = Pieces(frags[id]) \cup {incoming[1]}
  BY <1>2, <1>3, <1>4 DEF Pieces
<1>6. \A i \in 1 .. n : frags[id][i] # incoming[1]
  <2>1. \A i \in 1 .. n : frags[id][i] \in Listed
    BY <1>2 DEF Listed, Pieces
  <2>2. incoming[1] \in Pieces(incoming)
    BY One
  <2> QED BY <2>1, <2>2 DEF Apart
<1>7. ASSUME NEW i \in 1 .. n + 1, NEW j \in 1 .. n + 1, list[i] = list[j]
      PROVE  i = j
  <2>1. CASE i \in 1 .. n /\ j \in 1 .. n
    BY <1>2, <1>7, <2>1 DEF Apart
  <2>2. CASE i = n + 1 \/ j = n + 1
    BY <1>2, <1>3, <1>6, <1>7, <2>2
  <2> QED BY <1>3, <2>1, <2>2
<1> QED BY <1>1, <1>2, <1>5, <1>7 DEF n

LEMMA ListBuffers ==
  ASSUME Buffers, TypeOK', NEW id \in Ids, incoming # <<>>, incoming' = <<>>,
         frags' = [frags EXCEPT ![id] = Extended(id)],
         UNCHANGED <<using, freed, sending, msgs, refs, owned, disposed>>
  PROVE  Buffers'
<1> DEFINE list == Extended(id)
           n == Len(frags[id])
<1>1. /\ frags[id] \in Seq(Piece) /\ n \in Nat
      /\ list \in Seq(Piece) /\ Len(list) = n + 1
      /\ Pieces(list) = Pieces(frags[id]) \cup {incoming[1]}
      /\ \A i, j \in DOMAIN list : list[i] = list[j] => i = j
  BY Longer DEF Buffers
<1>2. frags'[id] = list /\ \A a \in Ids : a # id => frags'[a] = frags[a]
  BY DEF Buffers, TypeOK
<1> HIDE DEF list, n
<1>3. Pieces(incoming) = {incoming[1]} /\ Pieces(incoming') = {}
  BY One, NoPieces DEF Buffers
<1>4. Listed' = Listed \cup {incoming[1]}
  <2>1. \A a \in Ids : a # id => Pieces(frags'[a]) = Pieces(frags[a])
    BY <1>2
  <2>2. Pieces(frags'[id]) = Pieces(frags[id]) \cup {incoming[1]}
    BY <1>1, <1>2
  <2> QED BY <2>1, <2>2 DEF Listed
<1>5. Heads' = Heads
  BY DEF Heads
<1>6. Held' = Held
  BY <1>3, <1>4, <1>5 DEF Held
<1>7. ASSUME NEW a \in Ids, NEW b \in Ids, NEW i \in DOMAIN frags'[a],
             NEW j \in DOMAIN frags'[b], frags'[a][i] = frags'[b][j]
      PROVE  a = b /\ i = j
  <2>1. ASSUME NEW c \in Ids, c # id, NEW k \in DOMAIN frags[c], NEW l \in DOMAIN list
        PROVE  frags[c][k] # list[l]
    <3>1. frags[c][k] # incoming[1]
      <4>1. frags[c][k] \in Listed
        BY <2>1 DEF Listed, Pieces
      <4> QED BY <1>3, <4>1 DEF Buffers, Apart
    <3>2. frags[c][k] \notin Pieces(frags[id])
      BY <2>1 DEF Buffers, Apart, Pieces
    <3>3. list[l] \in Pieces(frags[id]) \cup {incoming[1]}
      BY <1>1, <2>1 DEF Pieces
    <3> QED BY <3>1, <3>2, <3>3
  <2>2. CASE a = id /\ b = id
    BY <1>1, <1>2, <1>7, <2>2
  <2>3. CASE a # id /\ b # id
    BY <1>2, <1>7, <2>3 DEF Buffers, Apart
  <2>4. CASE a # id /\ b = id
    BY <1>2, <1>7, <2>1, <2>4
  <2>5. CASE a = id /\ b # id
    BY <1>2, <1>7, <2>1, <2>5
  <2> QED BY <2>2, <2>3, <2>4, <2>5
<1>8. Apart'
  <2>1. Listed' \cap Heads' = {}
    BY <1>3, <1>4, <1>5 DEF Buffers, Apart
  <2> QED BY <1>3, <1>7, <2>1 DEF Buffers, Apart
<1>9. Numbered' /\ HeldNotFreed' /\ Counted' /\ Gone'
  <2>1. Cardinality({}) = 0 /\ refs \in Int
    BY FS_EmptySet DEF Buffers, TypeOK
  <2>2. Held' = Held \ {} /\ freed' = freed \cup {} /\ refs' = refs - Cardinality({})
    BY <1>6, <2>1
  <2> QED BY <2>2, Fewer
<1> QED BY <1>8, <1>9 DEF Buffers

(* The buffers of a list but the first, which are freed when its message   *)
(* is complete.                                                            *)
LEMMA Behind ==
  ASSUME NEW list \in Seq(Piece), list # <<>>,
         \A i, j \in DOMAIN list : list[i] = list[j] => i = j
  PROVE  /\ IsFiniteSet(Pieces(Tail(list))) /\ Cardinality(Pieces(Tail(list))) = Len(Tail(list))
         /\ Pieces(list) = Pieces(Tail(list)) \cup {list[1]}
         /\ list[1] \notin Pieces(Tail(list))
<1> DEFINE rest == Tail(list)
           n == Len(rest)
<1>1. /\ rest \in Seq(Piece) /\ n \in Nat /\ Len(list) = n + 1
      /\ \A i \in 1 .. n : rest[i] = list[i + 1]
      /\ DOMAIN rest = 1 .. n /\ DOMAIN list = 1 .. n + 1
  BY HeadTailProperties
<1> HIDE DEF rest, n
<1>2. \A i \in 1 .. n : i + 1 \in 1 .. n + 1 /\ i + 1 # 1
  BY <1>1
<1>3. \A i \in 1 .. n + 1 : i = 1 \/ (i - 1 \in 1 .. n /\ (i - 1) + 1 = i)
  BY <1>1
<1>4. 1 \in 1 .. n + 1
  BY <1>1
<1>5. \A i, j \in 1 .. n : rest[i] = rest[j] => i = j
  <2> SUFFICES ASSUME NEW i \in 1 .. n, NEW j \in 1 .. n, rest[i] = rest[j]
               PROVE  i = j
    OBVIOUS
  <2>1. i + 1 = j + 1
    BY <1>1, <1>2
  <2> QED BY <1>1, <2>1
<1>6. rest \in Bijection(1 .. n, Pieces(rest))
  <2>1. rest \in [1 .. n -> Pieces(rest)]
    BY <1>1 DEF Pieces
  <2>2. \A p \in Pieces(rest) : \E i \in 1 .. n : rest[i] = p
    BY <1>1 DEF Pieces
  <2> QED BY <1>5, <2>1, <2>2 DEF Bijection, Injection, Surjection, IsInjective
<1>7. IsFiniteSet(1 .. n) /\ Cardinality(1 .. n) = n
  BY <1>1, FS_Interval
<1>8. IsFiniteSet(Pieces(rest)) /\ Cardinality(Pieces(rest)) = n
  BY <1>6, <1>7, FS_Bijection DEF ExistsBijection
<1>9. Pieces(list) = Pieces(rest) \cup {list[1]}
  <2>1. \A i \in 1 .. n : list[i + 1] \in Pieces(rest)
    BY <1>1 DEF Pieces
  <2>2. \A i \in 1 .. n + 1 : list[i] \in Pieces(rest) \cup {list[1]}
    BY <1>3, <2>1
  <2>3. \A p \in Pieces(rest) : p \in Pieces(list)
    BY <1>1, <1>2 DEF Pieces
  <2>4. Pieces(list) \subseteq Pieces(rest) \cup {list[1]}
    BY <1>1, <2>2 DEF Pieces
  <2>5. list[1] \in Pieces(list)
    BY <1>1, <1>4 DEF Pieces
  <2> QED BY <2>3, <2>4, <2>5
<1>10. list[1] \notin Pieces(rest)
  <2>1. \A i \in 1 .. n : list[1] # list[i + 1]
    BY <1>1, <1>2, <1>4
  <2> QED BY <1>1, <2>1 DEF Pieces
<1> QED BY <1>8, <1>9, <1>10 DEF rest, n

LEMMA LastBuffers ==
  ASSUME Buffers, TypeOK', NEW id \in Ids, incoming # <<>>, incoming' = <<>>,
         HandedOver(Extended(id)),
         freed' = freed \cup Pieces(Tail(Extended(id))),
         refs' = refs - Len(Tail(Extended(id))),
         frags' = [frags EXCEPT ![id] = <<>>],
         UNCHANGED <<sending, msgs, owned, disposed>>
  PROVE  Buffers'
<1> DEFINE list == Extended(id)
           new == [pieces |-> list, socket |-> socket]
           rest == Pieces(Tail(list))
<1>1. /\ list \in Seq(Piece) /\ list # <<>>
      /\ Pieces(list) = Pieces(frags[id]) \cup {incoming[1]}
      /\ \A i, j \in DOMAIN list : list[i] = list[j] => i = j
  BY Longer DEF Buffers
<1>2. /\ using' = using \cup {new} /\ new.pieces = list
      /\ freed' = freed \cup rest /\ refs' = refs - Len(Tail(list))
  BY DEF HandedOver
<1>3. /\ frags'[id] = <<>> /\ \A a \in Ids : a # id => frags'[a] = frags[a]
  BY DEF Buffers, TypeOK
<1> HIDE DEF list, new, rest
<1>4. /\ Cardinality(rest) = Len(Tail(list)) /\ list[1] \notin rest
      /\ Pieces(list) = rest \cup {list[1]}
  BY <1>1, Behind DEF rest
<1>5. Pieces(incoming) = {incoming[1]} /\ Pieces(incoming') = {}
  BY One, NoPieces DEF Buffers
<1>6. Heads' = Heads \cup {list[1]}
  BY <1>2 DEF Heads
<1>7. Pieces(list) \subseteq Listed \cup Pieces(incoming)
  BY <1>1, <1>5 DEF Listed
<1>8. Listed' = Listed \ Pieces(list)
  <2>1. ASSUME NEW a \in Ids, a # id PROVE Pieces(frags[a]) \cap Pieces(list) = {}
    <3>1. Pieces(frags[a]) \cap Pieces(frags[id]) = {}
      BY <2>1 DEF Buffers, Apart, Pieces
    <3>2. Pieces(frags[a]) \cap Pieces(incoming) = {}
      BY DEF Buffers, Apart, Listed
    <3> QED BY <1>1, <1>5, <3>1, <3>2
  <2>2. Pieces(frags[id]) \subseteq Pieces(list)
    BY <1>1
  <2>3. Pieces(frags'[id]) = {}
    BY <1>3, NoPieces
  <2>4. \A a \in Ids : a # id => Pieces(frags'[a]) = Pieces(frags[a])
    BY <1>3
  <2> QED BY <2>1, <2>2, <2>3, <2>4 DEF Listed
<1>9. Heads \cap Pieces(list) = {}
  BY <1>7 DEF Buffers, Apart
<1>10. Held' = Held \ rest /\ rest \subseteq Held
  <2>1. incoming[1] \in Pieces(list)
    BY <1>1
  <2> QED BY <1>4, <1>5, <1>6, <1>7, <1>8, <1>9, <2>1 DEF Held
<1>11. Apart'
  <2>1. list[1] \in Pieces(list)
    BY <1>4
  <2>2. Listed' \cap (Pieces(incoming') \cup Heads') = {} /\ Pieces(incoming') \cap Heads' = {}
    BY <1>5, <1>6, <1>8, <2>1 DEF Buffers, Apart
  <2>3. ASSUME NEW m \in using', NEW n \in using', m.pieces[1] = n.pieces[1]
        PROVE  m = n
    <3>1. \A k \in using : k.pieces[1] # list[1]
      BY <1>9, <2>1 DEF Heads
    <3> QED BY <1>2, <2>3, <3>1 DEF Buffers, Apart
  <2>4. ASSUME NEW a \in Ids, NEW b \in Ids, NEW i \in DOMAIN frags'[a],
               NEW j \in DOMAIN frags'[b], frags'[a][i] = frags'[b][j]
        PROVE  a = b /\ i = j
    <3>1. a # id /\ b # id
      BY <1>3, <2>4
    <3> QED BY <1>3, <2>4, <3>1 DEF Buffers, Apart
  <2> QED BY <2>2, <2>3, <2>4 DEF Apart
<1>12. Numbered' /\ HeldNotFreed' /\ Counted' /\ Gone'
  BY <1>2, <1>4, <1>10, Fewer
<1> QED BY <1>11, <1>12 DEF Buffers

(* The program is done with a message.                                     *)
LEMMA UnuseBuffers == ASSUME Buffers, TypeOK', NEW m \in using, Unuse(m) PROVE Buffers'
<1>1. /\ using' = using \ {m} /\ freed' = freed \cup {m.pieces[1]} /\ refs' = refs - 1
      /\ UNCHANGED <<sending, msgs, incoming, frags, owned, disposed>>
  BY DEF Unuse, life
<1>2. Heads' = Heads \ {m.pieces[1]} /\ m.pieces[1] \in Heads
  BY <1>1 DEF Heads, Buffers, Apart
<1>3. m.pieces[1] \notin Listed /\ m.pieces[1] \notin Pieces(incoming)
  BY <1>2 DEF Buffers, Apart
<1>4. Listed' = Listed /\ Pieces(incoming') = Pieces(incoming)
  BY <1>1 DEF Listed
<1>5. Held' = Held \ {m.pieces[1]} /\ {m.pieces[1]} \in SUBSET Held
  BY <1>2, <1>3, <1>4 DEF Held
<1>6. Cardinality({m.pieces[1]}) = 1
  BY FS_Singleton
<1>7. Numbered' /\ HeldNotFreed' /\ Counted' /\ Gone'
  BY <1>1, <1>5, <1>6, Fewer
<1>8. Apart'
  BY <1>1, <1>4, StillApart
<1> QED BY <1>7, <1>8 DEF Buffers

LEMMA BreakBuffers == ASSUME Buffers, TypeOK', Break PROVE Buffers'
<1>1. /\ \A id \in Ids : sending'[id] = Idle
      /\ freed' = freed \cup Pieces(incoming) /\ refs' = refs - Len(incoming)
      /\ incoming' = <<>> /\ UNCHANGED <<msgs, frags, using, owned, disposed>>
  BY DEF Break, life
<1>2. Pieces(incoming') = {} /\ Listed' = Listed /\ Heads' = Heads
  BY <1>1, NoPieces DEF Listed, Heads
<1>3. Held' = Held \ Pieces(incoming) /\ Pieces(incoming) \in SUBSET Held
  BY <1>2 DEF Held, Buffers, Apart
<1>4. Cardinality(Pieces(incoming)) = Len(incoming)
  <2>1. CASE incoming = <<>>
    BY <2>1, One, FS_EmptySet DEF Buffers
  <2>2. CASE incoming # <<>>
    <3>1. incoming \in Seq(Piece) /\ Len(incoming) <= 1
      BY DEF Buffers, TypeOK
    <3> DEFINE n == Len(incoming)
    <3>2. n \in Nat /\ n <= 1 /\ n # 0
      BY <2>2, <3>1
    <3> HIDE DEF n
    <3>3. n = 1
      BY <3>2
    <3> QED BY <2>2, <3>3, One, FS_Singleton DEF Buffers, n
  <2> QED BY <2>1, <2>2
<1>5. Numbered' /\ HeldNotFreed' /\ Counted' /\ Gone'
  BY <1>1, <1>3, <1>4, Fewer
<1>6. Apart'
  BY <1>1, <1>2, StillApart
<1> QED BY <1>5, <1>6 DEF Buffers

(* With the last reference nothing is left to free.                        *)
LEMMA DisposeBuffers == ASSUME Buffers, TypeOK', Dispose PROVE Buffers'
<1>1. /\ refs = 0 /\ disposed' /\ \A id \in Ids : sending'[id] = Idle
      /\ incoming' = <<>> /\ frags' = [id \in Ids |-> <<>>]
      /\ freed' = freed \cup Pieces(incoming) \cup Listed
      /\ UNCHANGED <<msgs, using, owned, refs>>
  BY DEF Dispose, Listed
<1>2. Held = {} /\ ~ owned
  BY <1>1, FS_CardinalityType, FS_EmptySet DEF Buffers, Counted
<1>3. Pieces(incoming) = {} /\ Listed = {} /\ Heads = {} /\ freed' = freed
  BY <1>1, <1>2 DEF Held
<1>4. Held' = {}
  <2>1. Pieces(incoming') = {} /\ Heads' = {}
    BY <1>1, <1>3, NoPieces DEF Heads
  <2>2. Listed' = {}
    BY <1>1, NoPieces DEF Listed
  <2> QED BY <2>1, <2>2 DEF Held
<1>5. Apart'
  BY <1>1, <1>3, NoPieces, StillApart
<1>6. Numbered'
  <2>1. \A id \in Ids : ~ Unfinished(id)' /\ sending'[id].msg = 0
    BY <1>1 DEF Unfinished, Idle
  <2>2. msgs \in Nat
    BY DEF Buffers, TypeOK
  <2> QED BY <1>1, <1>3, <1>4, <2>1, <2>2 DEF Buffers, Numbered
<1>7. HeldNotFreed' /\ Gone' /\ Counted'
  BY <1>1, <1>2, <1>4, FS_EmptySet DEF HeldNotFreed, Gone, Counted
<1> QED BY <1>5, <1>6, <1>7 DEF Buffers

(* Nothing of what buffers depend on changes but the owner's reference.    *)
LEMMA SameBuffers ==
  ASSUME Buffers, TypeOK', UNCHANGED <<sending, msgs, incoming, frags, using, freed, disposed>>,
         UNCHANGED <<owned, refs>> \/ LetGo
  PROVE  Buffers'
<1>1. Listed' = Listed /\ Heads' = Heads /\ Held' = Held
  BY DEF Listed, Heads, Held
<1>2. Apart' /\ Numbered' /\ HeldNotFreed'
  BY <1>1 DEF Buffers, Apart, Numbered, HeldNotFreed, Unfinished
<1>3. Counted' /\ Gone'
  <2>1. CASE UNCHANGED <<owned, refs>>
    BY <1>1, <2>1 DEF Buffers, Counted, Gone
  <2>2. CASE LetGo
    <3>1. owned /\ ~ owned' /\ refs' = refs - 1
      BY <2>2 DEF LetGo
    <3>2. Cardinality(Held) \in Nat
      BY FS_CardinalityType DEF Buffers, Counted
    <3> QED BY <1>1, <3>1, <3>2 DEF Buffers, Counted, Gone
  <2> QED BY <2>1, <2>2
<1> QED BY <1>2, <1>3 DEF Buffers

LEMMA InitBuffers == Init => Buffers
<1> SUFFICES ASSUME Init PROVE Buffers OBVIOUS
<1>1. Listed = {} /\ Heads = {} /\ Pieces(incoming) = {}
  BY NoPieces DEF Init, Listed, Heads
<1>2. Held = {} /\ refs = 1 /\ owned /\ ~ disposed
  BY <1>1 DEF Held, Init
<1>3. Apart
  BY <1>1 DEF Apart, Init
<1>4. Numbered
  <2>1. \A id \in Ids : ~ Unfinished(id) /\ sending[id].msg = 0
    <3>1. \A id \in Ids : sending[id] = Idle
      BY DEF Init
    <3>2. Idle.msg = 0 /\ Idle.next = 1 /\ Idle.parts = 0
      BY DEF Idle
    <3>3. ~ (1 <= 0)
      OBVIOUS
    <3> QED BY <3>1, <3>2, <3>3 DEF Unfinished
  <2>2. Held \cup freed = {} /\ msgs = 0
    BY <1>2 DEF Init
  <2> QED BY <2>1, <2>2 DEF Numbered
<1> QED BY <1>2, <1>3, <1>4, TypeInit, FS_EmptySet
        DEF Buffers, HeldNotFreed, Counted, Gone

LEMMA NextBuffers == Buffers /\ [Next]_vars => Buffers'
<1> SUFFICES ASSUME Buffers, [Next]_vars PROVE Buffers' OBVIOUS
<1>0. TypeOK /\ TypeOK' BY TypeNext DEF Buffers
<1>1. ASSUME NEW id \in Ids, ReadNext(id) PROVE Buffers'
  <2>1. sending[id] \in Message /\ msgs \in Nat BY <1>0 DEF TypeOK
  <2>2. sending[id].msg <= msgs /\ Unfinished(id)
    BY <1>1 DEF Buffers, Numbered, ReadNext
  <2>3. /\ \A p \in Held \cup freed : p.msg = sending[id].msg => p.index < sending[id].next
        /\ \A a \in Ids : Unfinished(a) /\ a # id => sending[a].msg # sending[id].msg
    BY <2>2 DEF Buffers, Numbered
  <2>4. msgs' = msgs /\ msgs <= msgs'
    BY <1>1, <2>1 DEF ReadNext
  <2> QED BY <1>0, <1>1, <2>1, <2>2, <2>3, <2>4, NewRead DEF ReadNext, receiving, life
<1>2. ASSUME NEW id \in Ids, NEW parts \in 1 .. MaxParts, ReadFirst(id, parts)
      PROVE Buffers'
  <2> DEFINE message == [msg |-> msgs + 1, next |-> 1, parts |-> parts]
  <2>1. message \in Message /\ message.msg = msgs + 1 /\ message.next = 1
    BY <1>0, Bounds DEF Message, TypeOK
  <2>2. Take(id, message) BY <1>2 DEF ReadFirst
  <2> HIDE DEF message
  <2>3. msgs \in Nat /\ msgs' = msgs + 1 /\ msgs' \in Nat
    BY <1>0, <1>2 DEF TypeOK, ReadFirst
  <2>4. \A p \in Held \cup freed : p.msg # message.msg
    <3>1. \A p \in Held \cup freed : p.msg <= msgs
      BY DEF Buffers, Numbered
    <3>2. ~ (msgs + 1 <= msgs)
      BY <2>3
    <3> QED BY <2>1, <3>1, <3>2
  <2>5. \A a \in Ids : sending[a].msg # message.msg
    <3>1. \A a \in Ids : sending[a].msg <= msgs
      BY DEF Buffers, Numbered
    <3>2. ~ (msgs + 1 <= msgs)
      BY <2>3
    <3> QED BY <2>1, <3>1, <3>2
  <2>6. msgs <= msgs' /\ message.msg <= msgs'
    BY <2>1, <2>3
  <2> QED BY <1>0, <1>2, <2>1, <2>2, <2>3, <2>4, <2>5, <2>6, NewRead
          DEF ReadFirst, receiving, life
<1>3. CASE HandleWhole BY <1>0, <1>3, WholeBuffers
<1>4. CASE HandleHead
  <2>1. incoming # <<>> /\ incoming[1] \in Piece
    BY <1>0, <1>4, Headless DEF HandleHead, InPieces, TypeOK
  <2>2. incoming[1].id \in Ids BY <2>1 DEF Piece
  <2>3. frags[incoming[1].id] = <<>>
    BY <1>4, <2>2 DEF HandleHead, get_frag
  <2>4. Extended(incoming[1].id) = incoming
    <3>1. incoming \in Seq(Piece) /\ Len(incoming) <= 1 BY <1>0 DEF TypeOK
    <3>2. Append(<<>>, incoming[1]) = <<incoming[1]>> OBVIOUS
    <3> DEFINE n == Len(incoming)
    <3>3. n \in Nat /\ n <= 1 /\ n # 0
      BY <2>1, <3>1
    <3> HIDE DEF n
    <3>4. n = 1
      BY <3>3
    <3>5. incoming = <<incoming[1]>>
      BY <3>1, <3>4 DEF n
    <3> QED BY <2>3, <3>2, <3>5 DEF Extended
  <2> QED BY <1>0, <1>4, <2>1, <2>2, <2>4, ListBuffers DEF HandleHead, life
<1>5. CASE HandleMore
  <2>1. PICK id \in get_frag(incoming[1]) :
          frags' = [frags EXCEPT ![id] = Append(@, incoming[1])]
    BY <1>5 DEF HandleMore
  <2>2. id \in Ids BY <2>1, ListFound
  <2>3. frags' = [frags EXCEPT ![id] = Extended(id)]
    BY <2>1 DEF Extended
  <2> QED BY <1>0, <1>5, <2>2, <2>3, ListBuffers DEF HandleMore, InPieces, life
<1>6. CASE HandleLast
  <2>1. PICK id \in get_frag(incoming[1]) :
          /\ HandedOver(Extended(id))
          /\ freed' = freed \cup Pieces(Tail(Extended(id)))
          /\ refs' = refs - Len(Tail(Extended(id)))
          /\ frags' = [frags EXCEPT ![id] = <<>>]
    BY <1>6 DEF HandleLast, Extended, Removed
  <2>2. id \in Ids BY <2>1, ListFound
  <2> QED BY <1>0, <1>6, <2>1, <2>2, LastBuffers DEF HandleLast, InPieces, life
<1>7. CASE Break BY <1>0, <1>7, BreakBuffers
<1>8. CASE Reconnect BY <1>0, <1>8, SameBuffers DEF Reconnect, receiving, life
<1>9. CASE LetGo BY <1>0, <1>9, SameBuffers DEF LetGo, receiving
<1>10. CASE Dispose BY <1>0, <1>10, DisposeBuffers
<1>11. ASSUME NEW m \in using, Unuse(m) PROVE Buffers'
  BY <1>0, <1>11, UnuseBuffers
<1>12. CASE UNCHANGED vars BY <1>0, <1>12, SameBuffers DEF vars
<1> QED
  BY <1>1, <1>2, <1>3, <1>4, <1>5, <1>6, <1>7, <1>8, <1>9, <1>10, <1>11, <1>12
  DEF Next

(* No buffer is freed while it is read, listed or in the hands of the      *)
(* program.                                                                *)
THEOREM NothingFreedInUse == Spec => []HeldNotFreed
<1>1. Buffers => HeldNotFreed BY DEF Buffers
<1> QED BY InitBuffers, NextBuffers, <1>1, PTL DEF Spec

(* The last reference goes when no buffer is left, and none comes after.   *)
THEOREM ConnectionGoesClean == Spec => []GoesClean
<1>1. Buffers => GoesClean
  <2> SUFFICES ASSUME Buffers PROVE GoesClean OBVIOUS
  <2>1. refs = 0 => Held = {}
    BY FS_CardinalityType, FS_EmptySet DEF Buffers, Counted
  <2> QED BY <2>1 DEF Buffers, Gone, GoesClean
<1> QED BY InitBuffers, NextBuffers, <1>1, PTL DEF Spec
=============================================================================
