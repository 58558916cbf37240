----------------------- MODULE LinkConnection_proofs -----------------------
(***************************************************************************)
(* Proofs about LinkConnection: the types, that a listener is called once, *)
(* and that the connection is a ByteStream, for any number of threads,     *)
(* messages, parts, sockets and listeners.                                 *)
(*                                                                         *)
(* All steps but three (Emits, below) only put functions on a thread's     *)
(* stack that call no listener (Plain), and change the connection as a     *)
(* whole (Settled).  Moves says so; what is proved of a step is that it    *)
(* Moves, and what it does to the stream: nothing, all is forgotten, a     *)
(* message is accepted, or something goes out.                             *)
(***************************************************************************)
EXTENDS LinkConnection, SequenceTheorems, FiniteSetTheorems, TLAPS

Statuses == Down \cup {"connecting", "connected"}

(* write_queue_bytes never falls below what waits. *)
Settled(c) ==
  /\ c \in Connection
  /\ ~ c.tag => c.cond = {}
  /\ Len(c.queue) <= c.bytes

(* Listeners are called from the top of the main thread's stack only. *)
Plain == {f \in Frame : f.at # "emitting"}
Layered(t) ==
  stack[t] # <<>> =>
    /\ Tail(stack[t]) \in Seq(Plain)
    /\ Head(stack[t]).at = "emitting" => t = Main

Emits(l) == At(Main, "emitting") /\ l \in Head(stack[Main]).list

Once ==
  \A l \in Listeners :
    /\ heard[l] <= 1
    /\ l \in cnx.callbacks => heard[l] = 0 /\ ~ Emits(l)
    /\ Emits(l) => heard[l] = 0

IInv == TypeOK /\ Settled(cnx) /\ (\A t \in Threads : Layered(t)) /\ Once

Commands == {"set_condition", "disconnect"}

(* What nearly every step does; c is the connection it starts from. *)
Moves(t, c) ==
  /\ Settled(cnx') /\ cnx'.callbacks = c.callbacks
  /\ stack' \in [Threads -> Seq(Frame)] /\ stack'[t] \in Seq(Plain)
  /\ \A u \in Threads \ {t} : stack'[u] = stack[u]
  /\ lock' \in Threads \cup {Nobody} /\ waiting' \subseteq Users

Counts ==
  /\ cmds' \in Seq(Commands) /\ nth' \in [Users -> 0 .. MaxWrites]
  /\ sockets' \in 0 .. MaxSockets

LEMMA PlainFrame == Seq(Plain) \subseteq Seq(Frame)
BY SeqMonotonic DEF Plain

LEMMA PlainTail == ASSUME NEW s \in Seq(Plain), s # <<>>
                   PROVE  Head(s) \in Plain /\ Tail(s) \in Seq(Plain)
BY HeadTailProperties

LEMMA MovesKeep ==
  ASSUME IInv, NEW t \in Threads, NEW c, c.callbacks = cnx.callbacks,
         Moves(t, c), Counts, UNCHANGED heard
  PROVE  IInv'
<1>1. TypeOK'
  BY DEF IInv, TypeOK, Moves, Counts, Settled, Commands
<1>2. ASSUME NEW u \in Threads PROVE Layered(u)'
  <2>1. CASE u = t /\ stack'[t] # <<>>
    <3>1. Head(stack'[t]) \in Plain /\ Tail(stack'[t]) \in Seq(Plain)
      BY <2>1, PlainTail DEF Moves
    <3> QED BY <2>1, <3>1 DEF Layered, Plain
  <2>2. CASE u # t
    BY <2>2 DEF Moves, Layered, IInv
  <2> QED BY <2>1, <2>2 DEF Layered
<1>3. Once'
  <2>0. Main \in Threads
    BY ThreadsAssumption DEF Threads
  <2>1. ASSUME NEW l \in Listeners PROVE Emits(l)' => Emits(l)
    <3>1. CASE t = Main
      <4>1. stack'[Main] # <<>> => Head(stack'[Main]).at # "emitting"
        BY <3>1, PlainTail DEF Moves, Plain
      <4> QED BY <4>1 DEF Emits, At
    <3>2. CASE t # Main
      BY <2>0, <3>2 DEF Moves, Emits, At
    <3> QED BY <3>1, <3>2
  <2>2. cnx'.callbacks = cnx.callbacks
    BY DEF Moves
  <2> QED BY <2>1, <2>2 DEF IInv, Once
<1> QED BY <1>1, <1>2, <1>3 DEF IInv, Moves

-----------------------------------------------------------------------------
(* What the operators of the module do. *)

LEMMA GotoType ==
  ASSUME TypeOK, NEW t \in Threads, NEW frames \in Seq(Plain), goto(t, frames)
  PROVE  /\ stack' \in [Threads -> Seq(Frame)] /\ stack'[t] \in Seq(Plain)
         /\ \A u \in Threads \ {t} : stack'[u] = stack[u]
         /\ lock' \in Threads \cup {Nobody}
<1>1. frames \in Seq(Frame)
  BY PlainFrame
<1> QED BY <1>1 DEF goto, TypeOK

LEMMA Pushed ==
  ASSUME NEW f \in Plain, NEW rest \in Seq(Plain)
  PROVE  <<f>> \o rest \in Seq(Plain)
<1>1. <<f>> \in Seq(Plain)
  OBVIOUS
<1> QED BY <1>1, ConcatProperties

LEMMA PlainKinds ==
  /\ \A at \in {"broken", "class", "initiated", "wait", "try", "connecting", "flush",
                "connected"} : frame(at) \in Plain
  /\ \A poll \in BOOLEAN : [at |-> "queued", poll |-> poll] \in Plain
  /\ \A at \in {"handler", "input", "output", "events"},
       cond \in SUBSET {"IN", "OUT", "ERR"} : handler(at, cond) \in Plain
  /\ \A done \in {"yes", "no", "if empty"} : [at |-> "flushed", done |-> done] \in Plain
  /\ \A list \in Seq(Commands) \ {<<>>} : [at |-> "commands", list |-> list] \in Plain
BY DEF Plain, Frame, frame, handler, Commands

LEMMA Single == <<>> \in Seq(Plain) /\ \A f \in Plain : <<f>> \in Seq(Plain)
OBVIOUS

LEMMA Lowered ==
  ASSUME IInv, NEW t \in Threads, stack[t] # <<>>
  PROVE  /\ Tail(stack[t]) \in Seq(Plain) /\ Head(stack[t]) \in Frame
         /\ Head(stack[t]).at # "emitting" => stack[t] \in Seq(Plain)
<1>1. stack[t] \in Seq(Frame)
  BY DEF IInv, TypeOK
<1>2. Head(stack[t]) \in Frame
  BY <1>1, HeadTailProperties
<1>3. Tail(stack[t]) \in Seq(Plain)
  BY DEF IInv, Layered
<1>4. stack[t] = <<Head(stack[t])>> \o Tail(stack[t])
  BY <1>1
<1> QED BY <1>2, <1>3, <1>4, Pushed DEF Plain

LEMMA HeadTailOfPush ==
  ASSUME NEW f \in Frame, NEW rest \in Seq(Frame)
  PROVE  /\ <<f>> \o rest \in Seq(Frame) /\ <<f>> \o rest # <<>>
         /\ Head(<<f>> \o rest) = f /\ Tail(<<f>> \o rest) = rest
OBVIOUS

LEMMA Conditioned ==
  ASSUME NEW c, Settled(c), NEW cond \in SUBSET {"IN", "OUT"}
  PROVE  LET d == set_condition(c, cond)
         IN Settled(d) /\ d.callbacks = c.callbacks /\ d.sent = c.sent /\ d.queue = c.queue
BY DEF Settled, set_condition, Connection

LEMMA IdleAdded ==
  ASSUME NEW c, Settled(c)
  PROVE  LET d == add_idle_broken(c)
         IN Settled(d) /\ d.callbacks = c.callbacks /\ d.sent = c.sent /\ d.queue = c.queue
BY DEF Settled, add_idle_broken, Connection

LEMMA Switched ==
  ASSUME NEW c, Settled(c), NEW status \in Statuses
  PROVE  LET d == switched(c, status)
         IN /\ Settled(d) /\ d.callbacks = c.callbacks
            /\ status \in Down => d.sent = <<>> /\ d.queue = <<>>
            /\ status \notin Down => d.sent = c.sent /\ d.queue = c.queue
<1>1. CASE status = "connected"
  BY <1>1 DEF Settled, switched, Connection, Down
<1>2. CASE status = "connecting"
  BY <1>2 DEF Settled, switched, Connection, Down
<1>3. CASE status \in Down
  <2> DEFINE d == [c EXCEPT !.status = status, !.tag = FALSE, !.cond = {},
                    !.queue = <<>>, !.peer = "none", !.input = "none", !.sent = <<>>]
  <2>1. switched(c, status) = d
    BY <1>3 DEF switched, Down
  <2>2. <<>> \in Seq(Messages) /\ Len(<<>>) = 0
    BY EmptySeq
  <2>3. d \in Connection /\ d.callbacks = c.callbacks /\ d.sent = <<>> /\ d.queue = <<>>
    BY <1>3, <2>2 DEF Settled, Connection
  <2>4. d.tag = FALSE /\ d.cond = {} /\ d.bytes = c.bytes /\ c.bytes \in Nat
    BY DEF Settled, Connection
  <2>5. Settled(d)
    BY <2>2, <2>3, <2>4 DEF Settled
  <2> QED BY <1>3, <2>1, <2>3, <2>5
<1> QED BY <1>1, <1>2, <1>3 DEF Statuses

(* link_connection_state_changed_T_R forgets the stream where the          *)
(* connection goes down.                                                   *)
LEMMA StateChanged ==
  ASSUME TypeOK, NEW t \in Threads, NEW c, Settled(c), NEW status \in Statuses,
         NEW rest \in Seq(Plain), state_changed(t, c, status, rest)
  PROVE  /\ Moves(t, c)
         /\ status \in Down => cnx'.sent = <<>> /\ cnx'.queue = <<>>
         /\ status \notin Down => cnx'.sent = c.sent /\ cnx'.queue = c.queue
<1> DEFINE d == switched(c, status)
<1>1. /\ Settled(d) /\ d.callbacks = c.callbacks
      /\ status \in Down => d.sent = <<>> /\ d.queue = <<>>
      /\ status \notin Down => d.sent = c.sent /\ d.queue = c.queue
  BY Switched
<1>2. LET e == add_idle_broken(d)
      IN Settled(e) /\ e.callbacks = d.callbacks /\ e.sent = d.sent /\ e.queue = d.queue
  BY <1>1, IdleAdded
<1>3. \/ cnx' = d /\ goto(t, <<frame("broken")>> \o rest) /\ UNCHANGED waiting
      \/ call_class(t, d, rest)
      \/ call_class(t, add_idle_broken(d), rest)
  BY DEF state_changed
<1> HIDE DEF d
<1>4. <<frame("broken")>> \o rest \in Seq(Plain) /\ <<frame("class")>> \o rest \in Seq(Plain)
  BY Pushed, PlainKinds
<1>5. CASE cnx' = d /\ goto(t, <<frame("broken")>> \o rest) /\ UNCHANGED waiting
  <2>1. waiting' \subseteq Users
    BY <1>5 DEF TypeOK
  <2> QED BY <1>1, <1>4, <1>5, <2>1, GotoType DEF Moves
<1>6. CASE call_class(t, d, rest)
  BY <1>1, <1>4, <1>6, GotoType DEF Moves, call_class
<1>7. CASE call_class(t, add_idle_broken(d), rest)
  BY <1>1, <1>2, <1>4, <1>7, GotoType DEF Moves, call_class
<1> QED BY <1>3, <1>5, <1>6, <1>7

-----------------------------------------------------------------------------
(* The steps, each with what it does to the stream.                        *)
Same == cnx'.sent = cnx.sent /\ cnx'.queue = cnx.queue
Gone == cnx'.sent = <<>> /\ cnx'.queue = <<>>
Quietly(t) == Moves(t, cnx) /\ Counts /\ UNCHANGED heard /\ (Same \/ Gone)

LEMMA CommandAdded ==
  ASSUME TypeOK, NEW cmd \in Commands, exec_command(cmd)
  PROVE  cmds' \in Seq(Commands)
BY AppendProperties DEF exec_command, TypeOK, Commands

LEMMA Unmoved ==
  ASSUME TypeOK, UNCHANGED <<cmds, nth, sockets>>
  PROVE  Counts
BY DEF TypeOK, Counts, Commands

LEMMA Returned ==
  ASSUME IInv, NEW t \in Threads, Emitted(t) \/ ClassReturned(t) \/ Queued(t)
  PROVE  Quietly(t)
<1>1. Tail(stack[t]) \in Seq(Plain)
  BY Lowered DEF Emitted, ClassReturned, Queued, Entering, Holding, At
<1>2. CASE Emitted(t)
  <2> DEFINE d == add_idle_broken(cnx)
  <2>1. Settled(d) /\ d.callbacks = cnx.callbacks /\ d.sent = cnx.sent /\ d.queue = cnx.queue
    BY IdleAdded DEF IInv
  <2>2. cnx' = d /\ waiting' = {} /\ goto(t, <<frame("class")>> \o Tail(stack[t]))
    BY <1>2 DEF Emitted, call_class
  <2>3. <<frame("class")>> \o Tail(stack[t]) \in Seq(Plain)
    BY <1>1, Pushed, PlainKinds
  <2>4. Counts /\ UNCHANGED heard
    BY <1>2, Unmoved DEF Emitted, IInv
  <2> HIDE DEF d
  <2> QED BY <2>1, <2>2, <2>3, <2>4, GotoType DEF Quietly, Moves, Same, IInv
<1>3. CASE ClassReturned(t)
  <2>1. Counts /\ UNCHANGED heard
    BY <1>3, Unmoved DEF ClassReturned, IInv
  <2>2. UNCHANGED <<cnx, waiting>> /\ goto(t, Tail(stack[t]))
    BY <1>3 DEF ClassReturned
  <2> QED BY <1>1, <2>1, <2>2, GotoType DEF Quietly, Moves, Same, IInv, TypeOK
<1>4. CASE Queued(t)
  <2>1. cmds' \in Seq(Commands)
    BY <1>4, CommandAdded DEF Queued, IInv, TypeOK, Commands
  <2>2. Counts /\ UNCHANGED heard
    BY <1>4, <2>1 DEF Queued, IInv, TypeOK, Counts
  <2>3. UNCHANGED <<cnx, waiting>> /\ goto(t, Tail(stack[t]))
    BY <1>4 DEF Queued
  <2> QED BY <1>1, <2>2, <2>3, GotoType DEF Quietly, Moves, Same, IInv, TypeOK
<1> QED BY <1>2, <1>3, <1>4

LEMMA Waits ==
  ASSUME IInv, NEW t \in Users, WaitConnected(t) \/ Reconnecting(t) \/ GetConnection(t)
  PROVE  Quietly(t)
<1>0. t \in Threads
  BY DEF Threads
<1>1. <<frame("wait")>> \in Seq(Plain) /\ <<frame("try")>> \in Seq(Plain)
      /\ <<frame("connecting")>> \in Seq(Plain) /\ <<>> \in Seq(Plain)
  BY PlainKinds, Single
<1>2. Counts /\ UNCHANGED heard
  BY Unmoved DEF WaitConnected, Reconnecting, GetConnection, IInv
<1>3. CASE WaitConnected(t)
  <2>1. /\ UNCHANGED cnx /\ waiting' \subseteq Users
        /\ \E frames \in Seq(Plain) : goto(t, frames)
    BY <1>1, <1>3 DEF WaitConnected, link_wait, IInv, TypeOK
  <2> QED BY <1>0, <1>2, <2>1, GotoType DEF Quietly, Moves, Same, IInv
<1>4. CASE Reconnecting(t)
  <2>1. /\ \E b \in BOOLEAN : cnx' = [cnx EXCEPT !.was = b]
        /\ waiting' \subseteq Users
        /\ \E frames \in Seq(Plain) : goto(t, frames)
    BY <1>1, <1>4 DEF Reconnecting, link_wait, IInv, TypeOK
  <2>2. Settled(cnx') /\ cnx'.callbacks = cnx.callbacks /\ Same
    BY <2>1 DEF IInv, Settled, Connection, Same
  <2> QED BY <1>0, <1>2, <2>1, <2>2, GotoType DEF Quietly, Moves, IInv
<1>5. CASE GetConnection(t)
  BY <1>0, <1>1, <1>2, <1>5, PlainFrame
  DEF GetConnection, Quietly, Moves, Same, IInv, TypeOK
<1> QED BY <1>3, <1>4, <1>5

LEMMA Reconnects ==
  ASSUME IInv, NEW t \in Users, TryReconnect(t)
  PROVE  Quietly(t)
<1>0. t \in Threads
  BY DEF Threads
<1>1. <<frame("initiated")>> \in Seq(Plain) /\ <<>> \in Seq(Plain)
  BY PlainKinds, Single
<1>2. cmds' \in Seq(Commands) /\ nth' \in [Users -> 0 .. MaxWrites] /\ UNCHANGED heard
  BY DEF TryReconnect, IInv, TypeOK, Commands
<1>3. sockets' \in 0 .. MaxSockets
  BY SizesAssumption DEF TryReconnect, IInv, TypeOK
<1>4. CASE /\ UNCHANGED <<cnx, waiting>>
           /\ \E frames \in Seq(Plain) : goto(t, frames)
  BY <1>0, <1>2, <1>3, <1>4, GotoType DEF Quietly, Counts, Moves, Same, IInv, TypeOK
<1>5. ASSUME NEW peer \in {"up", "trying"}, NEW status \in {"connected", "connecting"},
             state_changed(t, [cnx EXCEPT !.peer = peer], status, <<frame("initiated")>>)
      PROVE  Quietly(t)
  <2> DEFINE c == [cnx EXCEPT !.peer = peer]
  <2>1. Settled(c) /\ c.callbacks = cnx.callbacks /\ c.sent = cnx.sent /\ c.queue = cnx.queue
    BY DEF IInv, Settled, Connection
  <2>2. state_changed(t, c, status, <<frame("initiated")>>)
    BY <1>5
  <2> HIDE DEF c
  <2>3. Moves(t, c) /\ cnx'.sent = c.sent /\ cnx'.queue = c.queue
    BY <1>0, <1>1, <2>1, <2>2, StateChanged DEF Statuses, Down, IInv
  <2> QED BY <1>2, <1>3, <2>1, <2>3 DEF Quietly, Counts, Same, Moves
<1> QED BY <1>1, <1>4, <1>5 DEF TryReconnect

LEMMA Handles ==
  ASSUME IInv, Poll \/ IoHandler \/ Output \/ Connected \/ TakeCommands
  PROVE  Quietly(Io)
<1>0. Io \in Threads
  BY DEF Threads
<1>1. UNCHANGED <<cnx, waiting, heard>>
  BY DEF Poll, IoHandler, Output, Connected, TakeCommands
<1>2. CASE Poll
  <2>1. PICK events \in Pollable : LET cond == events \cap (cnx.cond \cup {"ERR"})
                                   IN stack' = [stack EXCEPT ![Io] = <<handler("handler", cond)>>]
    BY <1>2 DEF Poll
  <2> DEFINE cond == events \cap (cnx.cond \cup {"ERR"})
  <2>2. cond \in SUBSET {"IN", "OUT", "ERR"}
    BY DEF IInv, TypeOK, Connection
  <2> HIDE DEF cond
  <2>3. <<handler("handler", cond)>> \in Seq(Plain)
    BY <2>2, PlainKinds, Single
  <2>4. stack' = [stack EXCEPT ![Io] = <<handler("handler", cond)>>]
    BY <2>1 DEF cond
  <2>5. Counts /\ UNCHANGED lock
    BY <1>2, Unmoved DEF Poll, IInv
  <2> QED BY <1>0, <1>1, <2>3, <2>4, <2>5, PlainFrame DEF Quietly, Moves, Same, IInv, TypeOK
<1>3. CASE TakeCommands
  <2>1. stack' = [stack EXCEPT ![Io] = <<[at |-> "commands", list |-> cmds]>>]
    BY <1>3 DEF TakeCommands
  <2>2. <<[at |-> "commands", list |-> cmds]>> \in Seq(Plain)
    BY <1>3, PlainKinds, Single DEF TakeCommands, IInv, TypeOK, Commands
  <2>3. Counts /\ UNCHANGED lock
    BY <1>3, EmptySeq DEF TakeCommands, IInv, TypeOK, Counts, Commands
  <2> QED BY <1>0, <1>1, <2>1, <2>2, <2>3, PlainFrame DEF Quietly, Moves, Same, IInv, TypeOK
<1>4. CASE IoHandler \/ Output \/ Connected
  <2>1. stack[Io] # <<>> /\ Tail(stack[Io]) \in Seq(Plain) /\ Head(stack[Io]) \in Frame
    BY <1>0, <1>4, Lowered DEF IoHandler, Output, Connected, Entering, Holding, At
  <2>2. ASSUME IoHandler \/ Output PROVE Head(stack[Io]).cond \in SUBSET {"IN", "OUT", "ERR"}
    BY <2>1, <2>2 DEF IoHandler, Output, Entering, Holding, At, Frame
  <2>3. \E frames \in Seq(Plain) : goto(Io, frames)
    <3>1. CASE IoHandler
      BY <2>2, <3>1, PlainKinds, Single DEF IoHandler
    <3>2. CASE Output
      <4> DEFINE cond == Head(stack[Io]).cond
      <4>1. handler("events", cond) \in Plain /\ frame("flush") \in Plain
        BY <2>2, <3>2, PlainKinds
      <4>2. <<handler("events", cond)>> \in Seq(Plain)
        BY <4>1
      <4>3. <<frame("flush")>> \o <<handler("events", cond)>> \in Seq(Plain)
        BY <4>1, <4>2, Pushed
      <4> QED BY <3>2, <4>2, <4>3 DEF Output
    <3>3. CASE Connected
      <4>1. <<frame("flush")>> \in Seq(Plain) /\ <<>> \in Seq(Plain)
        BY PlainKinds, Single
      <4> QED BY <3>3, <4>1 DEF Connected
    <3> QED BY <1>4, <3>1, <3>2, <3>3
  <2>4. Counts
    BY <1>4, Unmoved DEF IoHandler, Output, Connected, IInv
  <2> QED BY <1>0, <1>1, <2>3, <2>4, GotoType DEF Quietly, Moves, Same, IInv, TypeOK
<1> QED BY <1>2, <1>3, <1>4

LEMMA Breaks ==
  ASSUME IInv, HandleInput \/ Flushed \/ Events \/ RunCommand \/ Timeout
  PROVE  Quietly(Io)
<1>0. Io \in Threads /\ TypeOK /\ Settled(cnx)
  BY DEF Threads, IInv
<1>1. Counts /\ UNCHANGED heard
  BY Unmoved DEF HandleInput, Flushed, Events, RunCommand, Timeout, IInv
<1>2. ASSUME NEW rest \in Seq(Plain), NEW c, NEW status \in Statuses,
             Settled(c), c.callbacks = cnx.callbacks, c.sent = cnx.sent, c.queue = cnx.queue,
             state_changed(Io, c, status, rest)
      PROVE  Quietly(Io)
  BY <1>0, <1>1, <1>2, StateChanged DEF Quietly, Moves, Same, Gone
<1>3. ASSUME NEW rest \in Seq(Plain), UNCHANGED waiting, goto(Io, rest),
             NEW c, cnx' = c, Settled(c), c.callbacks = cnx.callbacks,
             c.sent = cnx.sent, c.queue = cnx.queue
      PROVE  Quietly(Io)
  <2>1. waiting' \subseteq Users
    BY <1>0, <1>3 DEF TypeOK
  <2> QED BY <1>0, <1>1, <1>3, <2>1, GotoType DEF Quietly, Moves, Same
<1>4. "disconnected" \in Statuses /\ "timeout" \in Statuses /\ "connected" \in Statuses
  BY DEF Statuses, Down
<1>5. CASE Timeout
  BY <1>0, <1>2, <1>4, <1>5, Single DEF Timeout
<1>6. ASSUME ~ Timeout
      PROVE  stack[Io] # <<>> /\ Tail(stack[Io]) \in Seq(Plain) /\ Head(stack[Io]) \in Frame
  BY <1>0, <1>6, Lowered DEF HandleInput, Flushed, Events, RunCommand, Entering, Holding, At
<1>7. CASE HandleInput
  <2> DEFINE next == <<handler("output", Head(stack[Io]).cond)>>
             c == [cnx EXCEPT !.input = IF @ = "some" THEN "read" ELSE @]
  <2>0. ~ Timeout
    BY <1>7 DEF HandleInput, Timeout, Entering, At
  <2>1. Head(stack[Io]).cond \in SUBSET {"IN", "OUT", "ERR"}
    BY <1>6, <1>7, <2>0 DEF HandleInput, Entering, At, Frame
  <2>2. next \in Seq(Plain)
    BY <2>1, PlainKinds, Single
  <2>3. /\ Settled(c) /\ c.callbacks = cnx.callbacks /\ c.sent = cnx.sent
        /\ c.queue = cnx.queue
    BY <1>0 DEF Settled, Connection
  <2>4. \/ cnx' = c /\ goto(Io, next) /\ UNCHANGED waiting
        \/ state_changed(Io, cnx, "disconnected", next)
    BY <1>7 DEF HandleInput
  <2> HIDE DEF next, c
  <2> QED BY <1>0, <1>2, <1>3, <1>4, <2>2, <2>3, <2>4
<1>8. CASE Flushed
  <2>0. ~ Timeout
    BY <1>8 DEF Flushed, Timeout, Holding, At
  <2>1. PICK cond \in SUBSET {"IN", "OUT"} : cnx' = set_condition(cnx, cond)
    BY <1>8 DEF Flushed
  <2>2. goto(Io, Tail(stack[Io])) /\ UNCHANGED waiting
    BY <1>8 DEF Flushed
  <2> QED BY <1>0, <1>3, <1>6, <2>0, <2>1, <2>2, Conditioned
<1>9. CASE Events
  <2> DEFINE c == set_condition(cnx, {"IN"})
  <2>1. /\ Settled(c) /\ c.callbacks = cnx.callbacks /\ c.sent = cnx.sent
        /\ c.queue = cnx.queue
    BY <1>0, Conditioned
  <2>2. <<frame("connected")>> \in Seq(Plain) /\ <<>> \in Seq(Plain)
    BY PlainKinds, Single
  <2>3. \/ state_changed(Io, c, "connected", <<frame("connected")>>)
        \/ state_changed(Io, cnx, "disconnected", <<>>)
        \/ goto(Io, <<>>) /\ UNCHANGED <<cnx, waiting>>
    BY <1>9 DEF Events
  <2> HIDE DEF c
  <2> QED BY <1>0, <1>2, <1>3, <1>4, <2>1, <2>2, <2>3
<1>10. CASE RunCommand
  <2> DEFINE list == Head(stack[Io]).list
             next == IF Len(list) = 1 THEN <<>>
                     ELSE <<[at |-> "commands", list |-> Tail(list)]>>
  <2>0. ~ Timeout
    BY <1>10 DEF RunCommand, Timeout, Entering, At
  <2>1. list \in Seq(Commands) /\ list # <<>>
    BY <1>6, <1>10, <2>0 DEF RunCommand, Entering, At, Frame, Commands
  <2> HIDE DEF list
  <2>2. ASSUME Len(list) # 1 PROVE Tail(list) \in Seq(Commands) \ {<<>>}
    <3>1. Tail(list) \in Seq(Commands) /\ Len(Tail(list)) = Len(list) - 1
      BY <2>1, HeadTailProperties
    <3>2. Len(list) \in Nat
      BY <2>1, LenProperties
    <3>3. Len(Tail(list)) # 0
      BY <2>2, <3>1, <3>2
    <3> QED BY <3>1, <3>3, EmptySeq
  <2>3. next \in Seq(Plain)
    BY <2>2, PlainKinds, Single
  <2>4. \/ cnx' = set_condition(cnx, {"IN", "OUT"}) /\ goto(Io, next) /\ UNCHANGED waiting
        \/ state_changed(Io, cnx, "disconnected", next)
    BY <1>10 DEF RunCommand, list
  <2> HIDE DEF next
  <2> QED BY <1>0, <1>2, <1>3, <1>4, <2>3, <2>4, Conditioned
<1> QED BY <1>5, <1>7, <1>8, <1>9, <1>10

LEMMA Disconnects ==
  ASSUME IInv, NEW t \in Users, Disconnect(t)
  PROVE  Quietly(t)
<1>0. t \in Threads
  BY DEF Threads
<1>1. cmds' \in Seq(Commands)
  BY CommandAdded DEF Disconnect, Commands, IInv
<1>2. stack[t] \in Seq(Plain)
  BY Single DEF Disconnect
<1> QED BY <1>0, <1>1, <1>2 DEF Disconnect, Quietly, Counts, Moves, Same, IInv, TypeOK

(* The far end changes nothing but itself. *)
LEMMA FarEnd ==
  ASSUME IInv, Answered \/ Closed \/ Sends
  PROVE  IInv' /\ Same
<1>1. /\ Settled(cnx') /\ cnx'.callbacks = cnx.callbacks /\ Same
      /\ cnx'.tag = cnx.tag /\ cnx'.cond = cnx.cond
  BY DEF Answered, Closed, Sends, peer_becomes, IInv, Settled, Connection, Same
<1>2. UNCHANGED <<lock, waiting, stack, cmds, nth, sockets, heard>>
  BY DEF Answered, Closed, Sends, peer_becomes
<1>3. TypeOK'
  BY <1>1, <1>2 DEF IInv, TypeOK, Settled
<1>4. (\A t \in Threads : Layered(t))'
  BY <1>2 DEF IInv, Layered
<1>5. Once'
  BY <1>1, <1>2 DEF IInv, Once, Emits, At
<1> QED BY <1>1, <1>3, <1>4, <1>5 DEF IInv

-----------------------------------------------------------------------------
(* Writing.  A message is new: its number is above those of all the parts  *)
(* that its thread has in the stream.                                      *)
Old(s, n) == \A i \in DOMAIN s : s[i][2] <= n[s[i][1]]
Fresh == Old(cnx.sent, nth) /\ Old(cnx.queue, nth)

LEMMA Parted ==
  ASSUME NEW m \in Messages, NEW n \in Nat
  PROVE  /\ Parts(m, n) \in Seq(Messages) /\ Len(Parts(m, n)) = n
         /\ \A i \in 1 .. n : Parts(m, n)[i] = m
BY DEF Parts

LEMMA PartsCut ==
  ASSUME NEW m \in Messages, NEW n \in Nat, NEW k \in 0 .. n
  PROVE  /\ SubSeq(Parts(m, n), 1, k) = Parts(m, k)
         /\ SubSeq(Parts(m, n), k + 1, n) = Parts(m, n - k)
<1> DEFINE s == Parts(m, n)
           a == SubSeq(s, 1, k)
           b == SubSeq(s, k + 1, n)
           c == Parts(m, k)
           d == Parts(m, n - k)
<1>0. k \in Nat /\ n - k \in Nat
  OBVIOUS
<1>1. /\ c \in Seq(Messages) /\ Len(c) = k /\ \A i \in 1 .. k : c[i] = m
      /\ d \in Seq(Messages) /\ Len(d) = n - k /\ \A i \in 1 .. n - k : d[i] = m
      /\ \A i \in 1 .. n : s[i] = m
  BY <1>0, Parted
<1> HIDE DEF s, c, d
<1>2. a \in Seq(Messages) /\ Len(a) = k /\ \A i \in 1 .. k : a[i] = m
  <2>1. \A i \in 1 .. k : s[i] \in Messages
    BY <1>1
  <2>2. /\ a \in Seq(Messages) /\ Len(a) = IF 1 <= k THEN k - 1 + 1 ELSE 0
        /\ \A i \in 1 .. k - 1 + 1 : a[i] = s[1 + i - 1]
    BY <2>1, SubSeqProperties
  <2> HIDE DEF a
  <2>3. \A i \in 1 .. k : a[i] = s[i]
    BY <2>2
  <2>4. Len(a) = k
    BY <1>0, <2>2
  <2>5. \A i \in 1 .. k : s[i] = m
    BY <1>1
  <2> QED BY <2>2, <2>3, <2>4, <2>5
<1>3. b \in Seq(Messages) /\ Len(b) = n - k /\ \A i \in 1 .. n - k : b[i] = m
  <2>1. \A i \in k + 1 .. n : s[i] \in Messages
    BY <1>1
  <2>2. /\ b \in Seq(Messages) /\ Len(b) = IF k + 1 <= n THEN n - (k + 1) + 1 ELSE 0
        /\ \A i \in 1 .. n - (k + 1) + 1 : b[i] = s[(k + 1) + i - 1]
    BY <2>1, SubSeqProperties
  <2> HIDE DEF b
  <2>3. \A i \in 1 .. n - k : b[i] = s[k + i]
    BY <2>2
  <2>4. \A i \in 1 .. n - k : k + i \in 1 .. n
    OBVIOUS
  <2> QED BY <1>1, <2>2, <2>3, <2>4
<1> HIDE DEF a, b
<1>4. a = c
  <2>1. \A i \in 1 .. Len(a) : a[i] = c[i]
    BY <1>1, <1>2
  <2> QED BY <1>1, <1>2, <2>1, SeqEqual
<1>5. b = d
  <2>1. \A i \in 1 .. Len(b) : b[i] = d[i]
    BY <1>1, <1>3
  <2> QED BY <1>1, <1>3, <2>1, SeqEqual
<1> QED BY <1>4, <1>5 DEF a, b, c, d, s

LEMMA Flattened ==
  ASSUME IInv, NEW t \in Users, stack[t] = <<>>, NEW c, Settled(c),
         NEW m \in Messages, NEW n \in Nat, NEW poll \in BOOLEAN,
         lock = Nobody, queue_flattened(t, c, m, n, poll)
  PROVE  /\ Moves(t, c) /\ cmds' \in Seq(Commands)
         /\ \/ cnx'.sent = c.sent /\ cnx'.queue = c.queue \o Parts(m, n)
            \/ Gone
<1> DEFINE q == [c EXCEPT !.queue = @ \o Parts(m, n), !.bytes = @ + n]
           full == MaxBuffer > 0 /\ q.bytes >= MaxBuffer
           last == poll /\ c.queue = <<>>
<1>0. t \in Threads /\ TypeOK
  BY DEF Threads, IInv
<1>1. /\ c.queue \o Parts(m, n) \in Seq(Messages)
      /\ Len(c.queue \o Parts(m, n)) = Len(c.queue) + n
      /\ c \in Connection /\ c.bytes \in Nat /\ Len(c.queue) \in Nat
  <2>1. c \in Connection /\ c.queue \in Seq(Messages) /\ c.bytes \in Nat
    BY DEF Settled, Connection
  <2>2. Parts(m, n) \in Seq(Messages) /\ Len(Parts(m, n)) = n
    BY Parted
  <2>3. Len(c.queue) \in Nat
    BY <2>1, LenProperties
  <2>4. /\ c.queue \o Parts(m, n) \in Seq(Messages)
        /\ Len(c.queue \o Parts(m, n)) = Len(c.queue) + Len(Parts(m, n))
    BY <2>1, <2>2, ConcatProperties
  <2> QED BY <2>1, <2>2, <2>3, <2>4
<1>2. /\ q \in Connection /\ q.queue = c.queue \o Parts(m, n) /\ q.bytes = c.bytes + n
      /\ q.sent = c.sent /\ q.callbacks = c.callbacks /\ q.tag = c.tag /\ q.cond = c.cond
  <2>1. c.bytes + n \in Nat
    BY <1>1
  <2> QED BY <1>1, <2>1 DEF Connection
<1>3. Settled(q)
  <2>1. Len(q.queue) <= q.bytes
    <3> DEFINE l == Len(c.queue)
    <3>1. Len(q.queue) = l + n /\ q.bytes = c.bytes + n /\ l <= c.bytes /\ l \in Nat
      BY <1>1, <1>2 DEF Settled
    <3> HIDE DEF l, q
    <3> QED BY <1>1, <3>1
  <2> QED BY <1>2, <2>1 DEF Settled
<1>4. CASE full
  <2>1. /\ state_changed(t, q, "disconnected", <<[at |-> "queued", poll |-> last]>>)
        /\ UNCHANGED cmds
    BY <1>4 DEF queue_flattened
  <2>2. last \in BOOLEAN
    OBVIOUS
  <2>3. <<[at |-> "queued", poll |-> last]>> \in Seq(Plain)
    BY <2>2, PlainKinds, Single
  <2>4. "disconnected" \in Statuses /\ "disconnected" \in Down
    BY DEF Statuses, Down
  <2> HIDE DEF q, last
  <2>5. Moves(t, q) /\ Gone
    BY <1>0, <1>3, <2>1, <2>3, <2>4, StateChanged DEF Gone
  <2> QED BY <1>0, <1>2, <2>1, <2>5 DEF Moves, TypeOK, Commands
<1>5. CASE ~ full
  <2>1. cnx' = q /\ UNCHANGED <<stack, lock, waiting>>
    BY <1>5 DEF queue_flattened
  <2>2. exec_command("set_condition") \/ UNCHANGED cmds
    BY <1>5 DEF queue_flattened
  <2>3. cmds' \in Seq(Commands)
    BY <1>0, <2>2, CommandAdded DEF TypeOK, Commands
  <2>4. stack[t] \in Seq(Plain)
    BY Single
  <2> HIDE DEF q
  <2> QED BY <1>0, <1>2, <1>3, <2>1, <2>3, <2>4 DEF Moves, TypeOK
<1> QED BY <1>4, <1>5

(* A write in whole: what was accepted, and where it is.                   *)
Written(t) ==
  LET m == <<t, nth[t] + 1>>
  IN /\ nth[t] < MaxWrites /\ nth' = [nth EXCEPT ![t] = @ + 1]
     /\ \/ Same \/ Gone
        \/ cnx'.sent = cnx.sent /\ cnx'.queue = cnx.queue \o Parts(m, Size)
        \/ /\ cnx.queue = <<>>
           /\ \E k \in 0 .. Size : /\ cnx'.sent = cnx.sent \o Parts(m, k)
                                   /\ cnx'.queue = Parts(m, Size - k)

LEMMA Writes ==
  ASSUME IInv, NEW t \in Users, Writev(t)
  PROVE  Moves(t, cnx) /\ Counts /\ UNCHANGED heard /\ Written(t)
<1> DEFINE m == <<t, nth[t] + 1>>
<1>0. t \in Threads /\ TypeOK /\ Settled(cnx) /\ stack[t] = <<>> /\ lock = Nobody
  BY DEF Threads, IInv, Writev
<1>1. nth[t] \in Nat /\ nth[t] < MaxWrites /\ MaxWrites \in Nat /\ Size \in Nat
  BY SizesAssumption DEF Writev, TypeOK, IInv
<1>2. m \in Messages
  BY <1>1 DEF Messages
<1>3. /\ nth' = [nth EXCEPT ![t] = @ + 1] /\ nth' \in [Users -> 0 .. MaxWrites]
      /\ UNCHANGED <<sockets, heard>> /\ sockets' \in 0 .. MaxSockets
  BY <1>0, <1>1 DEF Writev, TypeOK
<1>4. \/ \E poll \in BOOLEAN : queue_flattened(t, cnx, m, Size, poll)
      \/ /\ cnx.queue = <<>>
         /\ \E k \in Taken(0, Size) :
              LET c == [cnx EXCEPT !.sent = @ \o Parts(m, k)]
              IN IF k = Size
                 THEN cnx' = c /\ UNCHANGED <<stack, lock, waiting, cmds>>
                 ELSE queue_flattened(t, c, m, Size - k, TRUE)
      \/ UNCHANGED <<cnx, stack, lock, waiting, cmds>>
  BY DEF Writev
<1> HIDE DEF m
<1>5. ASSUME NEW poll \in BOOLEAN, queue_flattened(t, cnx, m, Size, poll)
      PROVE  Moves(t, cnx) /\ Counts /\ UNCHANGED heard /\ Written(t)
  <2>1. /\ Moves(t, cnx) /\ cmds' \in Seq(Commands)
        /\ \/ cnx'.sent = cnx.sent /\ cnx'.queue = cnx.queue \o Parts(m, Size)
           \/ Gone
    BY <1>0, <1>1, <1>2, <1>5, Flattened
  <2> QED BY <1>1, <1>3, <2>1 DEF Counts, Written, m
<1>6. ASSUME cnx.queue = <<>>, NEW k \in Taken(0, Size),
             LET c == [cnx EXCEPT !.sent = @ \o Parts(m, k)]
             IN IF k = Size
                THEN cnx' = c /\ UNCHANGED <<stack, lock, waiting, cmds>>
                ELSE queue_flattened(t, c, m, Size - k, TRUE)
      PROVE  Moves(t, cnx) /\ Counts /\ UNCHANGED heard /\ Written(t)
  <2> DEFINE c == [cnx EXCEPT !.sent = @ \o Parts(m, k)]
  <2>1. k \in 0 .. Size /\ k \in Nat /\ Size - k \in Nat
    BY <1>1, <1>6 DEF Taken
  <2>2. cnx.sent \o Parts(m, k) \in Seq(Messages)
    BY <1>0, <1>2, <2>1, Parted, ConcatProperties DEF Settled, Connection
  <2>3. /\ Settled(c) /\ c.sent = cnx.sent \o Parts(m, k) /\ c.queue = <<>>
        /\ c.callbacks = cnx.callbacks
    BY <1>0, <1>6, <2>2 DEF Settled, Connection
  <2>4. CASE k = Size
    <3>1. cnx' = c /\ UNCHANGED <<stack, lock, waiting, cmds>>
      BY <1>6, <2>4
    <3>2. stack[t] \in Seq(Plain)
      BY <1>0, Single
    <3>3. cnx'.queue = Parts(m, Size - k)
      BY <1>1, <2>3, <2>4, <3>1 DEF Parts
    <3> HIDE DEF c
    <3>4. Moves(t, cnx)
      BY <1>0, <2>3, <3>1, <3>2 DEF Moves, TypeOK
    <3>5. cmds' \in Seq(Commands)
      BY <1>0, <3>1 DEF TypeOK, Commands
    <3> QED BY <1>1, <1>3, <1>6, <2>1, <2>3, <3>1, <3>3, <3>4, <3>5 DEF Counts, Written, m
  <2>5. CASE k # Size
    <3>1. queue_flattened(t, c, m, Size - k, TRUE)
      BY <1>6, <2>5
    <3> HIDE DEF c
    <3>2. /\ Moves(t, c) /\ cmds' \in Seq(Commands)
          /\ \/ cnx'.sent = c.sent /\ cnx'.queue = c.queue \o Parts(m, Size - k)
             \/ Gone
      BY <1>0, <1>2, <2>1, <2>3, <3>1, Flattened
    <3>3. c.queue \o Parts(m, Size - k) = Parts(m, Size - k)
      BY <1>2, <2>1, <2>3, Parted, ConcatEmptySeq
    <3>4. Moves(t, cnx)
      BY <2>3, <3>2 DEF Moves
    <3> QED BY <1>1, <1>3, <1>6, <2>1, <2>3, <3>2, <3>3, <3>4 DEF Counts, Written, m
  <2> QED BY <2>4, <2>5
<1>7. ASSUME UNCHANGED <<cnx, stack, lock, waiting, cmds>>
      PROVE  Moves(t, cnx) /\ Counts /\ UNCHANGED heard /\ Written(t)
  <2>1. stack[t] \in Seq(Plain)
    BY <1>0, Single
  <2> QED BY <1>0, <1>1, <1>3, <1>7, <2>1
      DEF Moves, TypeOK, Counts, Commands, Written, Same
<1> QED BY <1>4, <1>5, <1>6, <1>7

LEMMA HeadSized ==
  ASSUME NEW q \in Seq(Messages)
  PROVE  HeadSize(q) \in Nat /\ HeadSize(q) <= Len(q)
<1> DEFINE n == Len(q)
           heads == {i \in DOMAIN q : q[i] = q[1]}
<1>1. n \in Nat /\ heads \subseteq 1 .. n
  BY LenProperties
<1> HIDE DEF n, heads
<1>2. IsFiniteSet(1 .. n) /\ Cardinality(1 .. n) = n
  BY <1>1, FS_Interval
<1>3. IsFiniteSet(heads) /\ Cardinality(heads) <= n
  BY <1>1, <1>2, FS_Subset
<1>4. Cardinality(heads) \in Nat
  BY <1>3, FS_CardinalityType
<1> QED BY <1>3, <1>4 DEF HeadSize, heads, n

Transmitted ==
  \E k \in 1 .. Len(cnx.queue) :
    /\ cnx'.sent = cnx.sent \o SubSeq(cnx.queue, 1, k)
    /\ cnx'.queue = SubSeq(cnx.queue, k + 1, Len(cnx.queue))

LEMMA CutNowhere ==
  ASSUME NEW q \in Seq(Messages)
  PROVE  SubSeq(q, 1, 0) = <<>> /\ SubSeq(q, 0 + 1, Len(q)) = q
<1>1. SubSeq(q, 1, 0) = <<>>
  BY SubSeqEmpty
<1>2. SubSeq(q, 1, Len(q)) = q
  BY SubSeqFull
<1>3. 0 + 1 = 1
  OBVIOUS
<1> QED BY <1>1, <1>2, <1>3

LEMMA Flushes ==
  ASSUME IInv, Flush
  PROVE  Moves(Io, cnx) /\ Counts /\ UNCHANGED heard /\ (Same \/ Gone \/ Transmitted)
<1> DEFINE q == cnx.queue
           n == HeadSize(q)
           flushed(done) == <<[at |-> "flushed", done |-> done]>> \o Tail(stack[Io])
           c(k) == [cnx EXCEPT !.sent = @ \o SubSeq(q, 1, k),
                               !.queue = SubSeq(q, k + 1, Len(q)),
                               !.bytes = IF k = n THEN @ - n ELSE @]
<1>0. Io \in Threads /\ TypeOK /\ Settled(cnx)
  BY DEF Threads, IInv
<1>1. Counts /\ UNCHANGED heard
  BY Unmoved DEF Flush, IInv
<1>2. ASSUME NEW done \in {"yes", "no", "if empty"} PROVE flushed(done) \in Seq(Plain)
  <2>1. Tail(stack[Io]) \in Seq(Plain)
    BY <1>0, Lowered DEF Flush, Holding, At
  <2>2. [at |-> "flushed", done |-> done] \in Plain
    BY PlainKinds
  <2> QED BY <2>1, <2>2, Pushed
<1>3. q \in Seq(Messages) /\ Len(q) \in Nat /\ Len(q) <= cnx.bytes /\ cnx.bytes \in Nat
      /\ n \in Nat /\ n <= Len(q) /\ cnx.sent \in Seq(Messages)
  BY <1>0, HeadSized DEF Settled, Connection
<1>4. "disconnected" \in Statuses /\ "disconnected" \in Down
  BY DEF Statuses, Down
<1>5. \/ goto(Io, flushed("yes")) /\ UNCHANGED <<cnx, waiting>>
      \/ state_changed(Io, cnx, "disconnected", flushed("yes"))
      \/ \E k \in Taken(1, n) :
           \/ state_changed(Io, c(k), "disconnected", flushed("if empty"))
           \/ /\ cnx' = c(k) /\ UNCHANGED waiting
              /\ \E done \in {"yes", "no", "if empty"} : goto(Io, flushed(done))
  BY DEF Flush
<1>6. CASE goto(Io, flushed("yes")) /\ UNCHANGED <<cnx, waiting>>
  <2>1. flushed("yes") \in Seq(Plain)
    BY <1>2
  <2> HIDE DEF flushed
  <2> QED BY <1>0, <1>1, <1>6, <2>1, GotoType DEF Moves, Same, TypeOK
<1>7. CASE state_changed(Io, cnx, "disconnected", flushed("yes"))
  <2>1. flushed("yes") \in Seq(Plain)
    BY <1>2
  <2> HIDE DEF flushed
  <2> QED BY <1>0, <1>1, <1>4, <1>7, <2>1, StateChanged DEF Gone
<1>8. ASSUME NEW k \in Taken(1, n),
             \/ state_changed(Io, c(k), "disconnected", flushed("if empty"))
             \/ /\ cnx' = c(k) /\ UNCHANGED waiting
                /\ \E done \in {"yes", "no", "if empty"} : goto(Io, flushed(done))
      PROVE  Moves(Io, cnx) /\ (Same \/ Gone \/ Transmitted)
  <2> DEFINE d == c(k)
             l == Len(q)
             a == SubSeq(q, 1, k)
             b == SubSeq(q, k + 1, l)
  <2>1. k \in 0 .. n
    BY <1>3 DEF Taken
  <2>2. l \in Nat /\ l <= cnx.bytes /\ k \in Nat /\ k <= l /\ \A i \in 1 .. l : q[i] \in Messages
    BY <1>3, <2>1, ElementOfSeq
  <2> HIDE DEF l
  <2>3. a \in Seq(Messages) /\ b \in Seq(Messages) /\ Len(b) = l - k
    <3>1. (\A i \in 1 .. k : q[i] \in Messages) /\ (\A i \in k + 1 .. l : q[i] \in Messages)
      BY <2>2
    <3>2. a \in Seq(Messages)
      BY <2>2, <3>1, SubSeqProperties
    <3>3. b \in Seq(Messages) /\ Len(b) = IF k + 1 <= l THEN l - (k + 1) + 1 ELSE 0
      BY <2>2, <3>1, SubSeqProperties
    <3> HIDE DEF a, b
    <3> QED BY <2>2, <3>2, <3>3
  <2>4. cnx.sent \o a \in Seq(Messages)
    BY <1>3, <2>3, ConcatProperties
  <2>5. (IF k = n THEN cnx.bytes - n ELSE cnx.bytes) \in Nat
    BY <1>3, <2>2 DEF l
  <2>6. /\ d \in Connection /\ d.sent = cnx.sent \o a /\ d.queue = b
        /\ d.bytes = (IF k = n THEN cnx.bytes - n ELSE cnx.bytes)
        /\ d.callbacks = cnx.callbacks /\ d.tag = cnx.tag /\ d.cond = cnx.cond
    BY <1>0, <2>3, <2>4, <2>5 DEF Settled, Connection, l
  <2>7. l - k <= (IF k = n THEN cnx.bytes - n ELSE cnx.bytes)
    BY <1>3, <2>2
  <2>8. k # 0 => k \in 1 .. l
    BY <2>2
  <2> HIDE DEF a, b, d
  <2>9. Settled(d)
    BY <1>0, <2>3, <2>6, <2>7 DEF Settled
  <2>10. CASE state_changed(Io, d, "disconnected", flushed("if empty"))
    <3>1. flushed("if empty") \in Seq(Plain)
      BY <1>2
    <3> HIDE DEF flushed
    <3> QED BY <1>0, <1>4, <2>6, <2>9, <2>10, <3>1, StateChanged DEF Gone, Moves
  <2>11. CASE /\ cnx' = d /\ UNCHANGED waiting
              /\ \E done \in {"yes", "no", "if empty"} : goto(Io, flushed(done))
    <3>1. PICK done \in {"yes", "no", "if empty"} : goto(Io, flushed(done))
      BY <2>11
    <3>2. flushed(done) \in Seq(Plain)
      BY <1>2
    <3> HIDE DEF flushed
    <3>3. Moves(Io, cnx)
      BY <1>0, <2>6, <2>9, <2>11, <3>1, <3>2, GotoType DEF Moves, TypeOK
    <3>4. cnx'.sent = cnx.sent \o a /\ cnx'.queue = b
      BY <2>6, <2>11
    <3>5. CASE k = 0
      <4>1. a = <<>> /\ b = q
        BY <1>3, <3>5, CutNowhere DEF a, b, l
      <4> QED BY <1>3, <3>3, <3>4, <4>1, ConcatEmptySeq DEF Same
    <3>6. CASE k # 0
      <4>1. k \in 1 .. Len(cnx.queue)
        BY <2>8, <3>6 DEF l
      <4>2. /\ cnx'.sent = cnx.sent \o SubSeq(cnx.queue, 1, k)
            /\ cnx'.queue = SubSeq(cnx.queue, k + 1, Len(cnx.queue))
        BY <3>4 DEF a, b, l
      <4> QED BY <3>3, <4>1, <4>2 DEF Transmitted
    <3> QED BY <3>5, <3>6
  <2> QED BY <1>8, <2>10, <2>11 DEF d
<1> QED BY <1>1, <1>5, <1>6, <1>7, <1>8

-----------------------------------------------------------------------------
(* The three steps that have to do with the listeners: those who dispatch  *)
(* take all of them off the connection.                                    *)
LEMMA Dispatches ==
  ASSUME IInv, NEW rest \in Seq(Plain), NEW idle \in BOOLEAN,
         cnx' = [cnx EXCEPT !.idle = idle, !.callbacks = {}, !.inhibit = FALSE],
         dispatch_callbacks(Main, rest), waiting' \subseteq Users,
         UNCHANGED <<cmds, nth, sockets, heard>>
  PROVE  IInv' /\ Same
<1> DEFINE f == [at |-> "emitting", list |-> cnx.callbacks]
<1>0. Main \in Threads /\ TypeOK /\ Settled(cnx)
  BY ThreadsAssumption DEF Threads, IInv
<1>1. /\ Settled(cnx') /\ Same /\ cnx'.callbacks = {}
      /\ cnx'.tag = cnx.tag /\ cnx'.cond = cnx.cond
  BY <1>0 DEF Settled, Connection, Same
<1>2. f \in Frame /\ f.at = "emitting" /\ f.list = cnx.callbacks /\ f.at \notin Locked
  BY <1>0 DEF Settled, Connection, Frame, Locked
<1> HIDE DEF f
<1>3. <<f>> \in Seq(Frame) /\ rest \in Seq(Frame)
  BY <1>2, PlainFrame
<1>4. /\ <<f>> \o rest \in Seq(Frame) /\ <<f>> \o rest # <<>>
      /\ Head(<<f>> \o rest) = f /\ Tail(<<f>> \o rest) = rest
  BY <1>3, HeadTailOfPush
<1>5. /\ stack' = [stack EXCEPT ![Main] = <<f>> \o rest]
      /\ lock' = Nobody
  BY <1>2, <1>4 DEF dispatch_callbacks, goto, f
<1>6. TypeOK'
  BY <1>0, <1>1, <1>4, <1>5 DEF TypeOK, Settled
<1>7. ASSUME NEW t \in Threads PROVE Layered(t)'
  <2>1. CASE t = Main
    BY <1>0, <1>4, <1>5, <2>1 DEF Layered, TypeOK
  <2>2. CASE t # Main
    <3>1. stack'[t] = stack[t] /\ Layered(t)
      BY <1>0, <1>5, <2>2 DEF TypeOK, IInv
    <3> QED BY <3>1 DEF Layered
  <2> QED BY <2>1, <2>2
<1>8. Once'
  <2>1. stack'[Main] = <<f>> \o rest
    BY <1>0, <1>5 DEF TypeOK
  <2>2. ASSUME NEW l \in Listeners, Emits(l)' PROVE l \in cnx.callbacks
    BY <1>2, <1>4, <2>1, <2>2 DEF Emits
  <2> QED BY <1>1, <2>2 DEF Once, IInv
<1> QED BY <1>1, <1>6, <1>7, <1>8 DEF IInv

LEMMA Inhibits ==
  ASSUME IInv, NEW t \in Users, Inhibited(t)
  PROVE  IInv' /\ (Same \/ Gone) /\ UNCHANGED nth
<1>0. t \in Threads /\ TypeOK
  BY DEF Threads, IInv
<1>1. <<frame("try")>> \in Seq(Plain)
  BY PlainKinds, Single
<1>2. UNCHANGED <<cmds, nth, sockets, heard>> /\ Counts
  BY Unmoved DEF Inhibited, IInv
<1>3. CASE t = Main
  <2>1. cnx.idle \in BOOLEAN
    BY <1>0 DEF TypeOK, Connection
  <2>2. /\ cnx' = [cnx EXCEPT !.inhibit = FALSE, !.callbacks = {}]
        /\ dispatch_callbacks(Main, <<frame("try")>>) /\ UNCHANGED waiting
    BY <1>3 DEF Inhibited
  <2>3. cnx' = [cnx EXCEPT !.idle = cnx.idle, !.callbacks = {}, !.inhibit = FALSE]
    BY <1>0, <2>2 DEF TypeOK, Connection
  <2>4. waiting' \subseteq Users
    BY <1>0, <2>2 DEF TypeOK
  <2> QED BY <1>1, <1>2, <2>1, <2>2, <2>3, <2>4, Dispatches
<1>4. CASE t # Main
  <2>1. link_wait(t, "try") /\ UNCHANGED cnx
    BY <1>4 DEF Inhibited
  <2>2. Moves(t, cnx) /\ Same
    BY <1>0, <1>1, <2>1, GotoType DEF link_wait, Moves, Same, TypeOK, IInv
  <2> QED BY <1>0, <1>2, <2>2, MovesKeep
<1> QED BY <1>3, <1>4

LEMMA Idles ==
  ASSUME IInv, BrokenIdle
  PROVE  IInv' /\ Same /\ UNCHANGED nth
<1>1. /\ cnx' = [cnx EXCEPT !.idle = FALSE, !.callbacks = {}, !.inhibit = FALSE]
      /\ waiting' \subseteq Users /\ dispatch_callbacks(Main, <<>>)
      /\ UNCHANGED <<cmds, nth, sockets, heard>>
  BY DEF BrokenIdle
<1> QED BY <1>1, Single, Dispatches

LEMMA EmitsOnce ==
  ASSUME IInv, EmitBroken
  PROVE  IInv' /\ Same /\ UNCHANGED nth
<1>0. Main \in Threads /\ TypeOK /\ stack[Main] # <<>>
  BY ThreadsAssumption DEF Threads, IInv, EmitBroken, At
<1>1. /\ UNCHANGED <<cnx, lock, waiting, cmds, nth, sockets>>
      /\ stack' = [stack EXCEPT ![Main] = Tail(stack[Main])]
      /\ Tail(stack[Main]) \in Seq(Plain) /\ Tail(stack[Main]) \in Seq(Frame)
  BY <1>0, Lowered, PlainFrame DEF EmitBroken, IInv
<1>2. ASSUME NEW l \in Listeners
      PROVE  heard'[l] = IF Emits(l) THEN heard[l] + 1 ELSE heard[l]
  BY DEF EmitBroken, Emits
<1>3. TypeOK'
  <2>1. heard' \in [Listeners -> Nat]
    BY <1>0 DEF EmitBroken, TypeOK
  <2> QED BY <1>0, <1>1, <2>1 DEF TypeOK
<1>4. ASSUME NEW t \in Threads PROVE Layered(t)'
  <2>1. CASE t = Main /\ stack'[Main] # <<>>
    <3>1. stack'[Main] \in Seq(Plain)
      BY <1>0, <1>1 DEF TypeOK
    <3>2. Head(stack'[Main]) \in Plain /\ Tail(stack'[Main]) \in Seq(Plain)
      BY <2>1, <3>1, PlainTail
    <3> QED BY <2>1, <3>2 DEF Layered
  <2>2. CASE t # Main
    <3>1. stack'[t] = stack[t] /\ Layered(t)
      BY <1>0, <1>1, <2>2 DEF TypeOK, IInv
    <3> QED BY <3>1 DEF Layered
  <2> QED BY <2>1, <2>2 DEF Layered
<1>5. Once'
  <2>1. stack'[Main] \in Seq(Plain)
    BY <1>0, <1>1 DEF TypeOK
  <2>2. stack'[Main] # <<>> => Head(stack'[Main]).at # "emitting"
    BY <2>1, PlainTail DEF Plain
  <2>3. \A l \in Listeners : ~ Emits(l)'
    BY <2>2 DEF Emits, At
  <2>4. ASSUME NEW l \in Listeners
        PROVE  heard'[l] <= 1 /\ (l \in cnx'.callbacks => heard'[l] = 0)
    <3>1. /\ heard[l] \in Nat /\ heard[l] <= 1
          /\ l \in cnx.callbacks => heard[l] = 0 /\ ~ Emits(l)
          /\ Emits(l) => heard[l] = 0
      BY DEF IInv, Once, TypeOK
    <3> QED BY <1>1, <1>2, <3>1
  <2> QED BY <2>3, <2>4 DEF Once
<1> QED BY <1>1, <1>3, <1>4, <1>5 DEF IInv, Settled, Same

LEMMA InitIInv == Init => IInv
<1> SUFFICES ASSUME Init PROVE IInv
  OBVIOUS
<1>0. Main \in Threads
  BY ThreadsAssumption DEF Threads
<1>1. Settled(cnx)
  <2>1. <<>> \in Seq(Messages) /\ Len(<<>>) = 0
    BY EmptySeq
  <2> QED BY <2>1 DEF Init, Settled, Connection, Down
<1>2. TypeOK
  <2>1. <<>> \in Seq(Frame) /\ <<>> \in Seq(Commands)
    BY EmptySeq
  <2>2. 0 \in 0 .. MaxWrites /\ 0 \in 0 .. MaxSockets
    BY SizesAssumption
  <2> QED BY <1>1, <2>1, <2>2 DEF Init, TypeOK, Settled, Commands
<1>3. \A t \in Threads : stack[t] = <<>>
  BY DEF Init
<1>4. Once
  BY <1>0, <1>3 DEF Once, Emits, At, Init
<1> QED BY <1>1, <1>2, <1>3, <1>4 DEF IInv, Layered

Streams ==
  \/ UNCHANGED nth /\ (Same \/ Gone \/ Transmitted)
  \/ \E t \in Users : Written(t)

LEMMA NextIInv == IInv /\ [Next]_vars => IInv' /\ Streams
<1> SUFFICES ASSUME IInv, [Next]_vars PROVE IInv' /\ Streams
  OBVIOUS
<1>0. Io \in Threads /\ Users \subseteq Threads
  BY DEF Threads
<1>1. ASSUME NEW t \in Threads, Quietly(t), UNCHANGED nth PROVE IInv' /\ Streams
  BY <1>1, MovesKeep DEF Quietly, Streams
<1>2. ASSUME NEW t \in Threads, Emitted(t) \/ ClassReturned(t) \/ Queued(t)
      PROVE  IInv' /\ Streams
  <2>1. UNCHANGED nth
    BY <1>2 DEF Emitted, ClassReturned, Queued
  <2> QED BY <1>1, <1>2, <2>1, Returned
<1>3. ASSUME NEW t \in Users, WaitConnected(t) \/ Reconnecting(t) \/ GetConnection(t)
      PROVE  IInv' /\ Streams
  <2>1. UNCHANGED nth
    BY <1>3 DEF WaitConnected, Reconnecting, GetConnection
  <2> QED BY <1>0, <1>1, <1>3, <2>1, Waits
<1>4. ASSUME NEW t \in Users, TryReconnect(t) PROVE IInv' /\ Streams
  <2>1. UNCHANGED nth
    BY <1>4 DEF TryReconnect
  <2> QED BY <1>0, <1>1, <1>4, <2>1, Reconnects
<1>5. ASSUME NEW t \in Users, Inhibited(t) PROVE IInv' /\ Streams
  BY <1>5, Inhibits DEF Streams
<1>6. ASSUME NEW t \in Users, Writev(t) PROVE IInv' /\ Streams
  BY <1>0, <1>6, Writes, MovesKeep DEF Streams
<1>7. ASSUME NEW t \in Users, Disconnect(t) PROVE IInv' /\ Streams
  <2>1. UNCHANGED nth
    BY <1>7 DEF Disconnect
  <2> QED BY <1>0, <1>1, <1>7, <2>1, Disconnects
<1>8. CASE BrokenIdle \/ EmitBroken
  BY <1>8, Idles, EmitsOnce DEF Streams
<1>9. CASE Poll \/ IoHandler \/ Output \/ Connected \/ TakeCommands
  <2>1. UNCHANGED nth
    BY <1>9 DEF Poll, IoHandler, Output, Connected, TakeCommands
  <2> QED BY <1>0, <1>1, <1>9, <2>1, Handles
<1>10. CASE HandleInput \/ Flushed \/ Events \/ RunCommand \/ Timeout
  <2>1. UNCHANGED nth
    BY <1>10 DEF HandleInput, Flushed, Events, RunCommand, Timeout
  <2> QED BY <1>0, <1>1, <1>10, <2>1, Breaks
<1>11. CASE Flush
  <2>1. UNCHANGED nth
    BY <1>11 DEF Flush
  <2> QED BY <1>0, <1>11, <2>1, Flushes, MovesKeep DEF Streams
<1>12. CASE Answered \/ Closed \/ Sends
  <2>1. UNCHANGED nth
    BY <1>12 DEF Answered, Closed, Sends, peer_becomes
  <2> QED BY <1>12, <2>1, FarEnd DEF Streams
<1>13. CASE UNCHANGED vars
  <2>1. TypeOK' /\ Settled(cnx)' /\ (\A t \in Threads : Layered(t))'
    BY <1>13 DEF vars, IInv, TypeOK, Settled, Layered
  <2>2. Once'
    BY <1>13 DEF vars, IInv, Once, Emits, At
  <2> QED BY <1>13, <2>1, <2>2 DEF vars, IInv, Streams, Same
<1> QED
  BY <1>0, <1>2, <1>3, <1>4, <1>5, <1>6, <1>7, <1>8, <1>9, <1>10, <1>11, <1>12, <1>13
  DEF Next, UserStep, IoStep

-----------------------------------------------------------------------------
(* The numbers of the messages in the stream.                              *)
LEMMA OldJoined ==
  ASSUME NEW a \in Seq(Messages), NEW b \in Seq(Messages), NEW n, Old(a, n), Old(b, n)
  PROVE  Old(a \o b, n)
<1> DEFINE c == a \o b
           la == Len(a)
           lb == Len(b)
<1>1. /\ la \in Nat /\ lb \in Nat /\ DOMAIN a = 1 .. la /\ DOMAIN b = 1 .. lb
      /\ DOMAIN c = 1 .. la + lb
      /\ \A i \in 1 .. la + lb : c[i] = IF i <= la THEN a[i] ELSE b[i - la]
  OBVIOUS
<1> HIDE DEF c, la, lb
<1>2. \A i \in 1 .. la + lb : (i <= la => i \in 1 .. la) /\ (i > la => i - la \in 1 .. lb)
  BY <1>1
<1>3. ASSUME NEW i \in DOMAIN c PROVE \E d \in {a, b}, j \in Nat : j \in DOMAIN d /\ c[i] = d[j]
  <2>1. i \in 1 .. la + lb /\ i \in Nat
    BY <1>1
  <2>2. CASE i <= la
    BY <1>1, <1>2, <2>1, <2>2
  <2>3. CASE ~ (i <= la)
    BY <1>1, <1>2, <2>1, <2>3
  <2> QED BY <2>2, <2>3
<1> QED BY <1>3 DEF Old, c

LEMMA OldCut ==
  ASSUME NEW q \in Seq(Messages), NEW n, Old(q, n), NEW i \in 1 .. Len(q) + 1, NEW j \in 0 .. Len(q)
  PROVE  Old(SubSeq(q, i, j), n)
<1> DEFINE s == SubSeq(q, i, j)
           l == Len(q)
<1>1. l \in Nat /\ DOMAIN q = 1 .. l
  BY LenProperties
<1> HIDE DEF l
<1>2. i \in 1 .. l + 1 /\ j \in 0 .. l
  BY DEF l
<1>3. DOMAIN s = 1 .. (j - i + 1) /\ \A k \in 1 .. (j - i + 1) : s[k] = q[i + k - 1]
  BY DEF s
<1> HIDE DEF s
<1>4. \A k \in 1 .. (j - i + 1) : i + k - 1 \in 1 .. l
  BY <1>1, <1>2
<1> QED BY <1>1, <1>3, <1>4 DEF Old, s

LEMMA FreshKept ==
  ASSUME IInv, IInv', Fresh, Streams
  PROVE  Fresh'
<1>1. /\ cnx.sent \in Seq(Messages) /\ cnx.queue \in Seq(Messages)
      /\ nth \in [Users -> 0 .. MaxWrites] /\ MaxWrites \in Nat
  BY SizesAssumption DEF IInv, TypeOK, Connection
<1>2. Old(cnx.sent, nth) /\ Old(cnx.queue, nth)
  BY DEF Fresh
<1>3. Old(<<>>, nth')
  BY DEF Old
<1>4. CASE UNCHANGED nth /\ Transmitted
  <2>1. PICK k \in 1 .. Len(cnx.queue) :
          /\ cnx'.sent = cnx.sent \o SubSeq(cnx.queue, 1, k)
          /\ cnx'.queue = SubSeq(cnx.queue, k + 1, Len(cnx.queue))
    BY <1>4 DEF Transmitted
  <2> DEFINE l == Len(cnx.queue)
  <2>2. l \in Nat /\ DOMAIN cnx.queue = 1 .. l
    BY <1>1, LenProperties
  <2>3. k \in 1 .. l
    OBVIOUS
  <2> HIDE DEF l
  <2>4. k \in 0 .. l /\ k + 1 \in 1 .. l + 1 /\ 1 \in 1 .. l + 1 /\ l \in 0 .. l
    BY <2>2, <2>3
  <2>5. \A i \in 1 .. k : i \in 1 .. l
    BY <2>2, <2>3
  <2>6. SubSeq(cnx.queue, 1, k) \in Seq(Messages)
    <3>1. \A i \in 1 .. k : cnx.queue[i] \in Messages
      BY <1>1, <2>5, ElementOfSeq DEF l
    <3> QED BY <2>3, <3>1, SubSeqProperties
  <2>7. Old(SubSeq(cnx.queue, 1, k), nth) /\ Old(SubSeq(cnx.queue, k + 1, l), nth)
    BY <1>1, <1>2, <2>4, OldCut DEF l
  <2>8. Old(cnx.sent \o SubSeq(cnx.queue, 1, k), nth)
    BY <1>1, <1>2, <2>6, <2>7, OldJoined
  <2> QED BY <1>4, <2>1, <2>7, <2>8 DEF Fresh, l
<1>5. CASE UNCHANGED nth /\ (Same \/ Gone)
  BY <1>2, <1>3, <1>5 DEF Fresh, Same, Gone
<1>6. ASSUME NEW t \in Users, Written(t) PROVE Fresh'
  <2> DEFINE m == <<t, nth[t] + 1>>
  <2>1. nth' = [nth EXCEPT ![t] = @ + 1] /\ nth[t] \in Nat /\ nth[t] < MaxWrites
    BY <1>1, <1>6 DEF Written
  <2>2. m \in Messages /\ m[1] = t /\ m[2] = nth'[t]
    BY <1>1, <2>1 DEF Messages
  <2>3. ASSUME NEW s \in Seq(Messages), Old(s, nth) PROVE Old(s, nth')
    <3> SUFFICES ASSUME NEW i \in DOMAIN s PROVE s[i][2] <= nth'[s[i][1]]
      BY DEF Old
    <3>1. s[i] \in Messages
      OBVIOUS
    <3>2. s[i][1] \in Users /\ s[i][2] \in Nat
      BY <3>1 DEF Messages
    <3>3. s[i][2] <= nth[s[i][1]]
      BY <2>3 DEF Old
    <3>4. nth[s[i][1]] <= nth'[s[i][1]] /\ nth[s[i][1]] \in Nat /\ nth'[s[i][1]] \in Nat
      BY <1>1, <2>1, <3>2
    <3> QED BY <3>2, <3>3, <3>4
  <2>4. Old(cnx.sent, nth') /\ Old(cnx.queue, nth')
    BY <1>1, <1>2, <2>3
  <2> HIDE DEF m
  <2>5. ASSUME NEW k \in Nat PROVE Old(Parts(m, k), nth') /\ Parts(m, k) \in Seq(Messages)
    <3>1. Parts(m, k) \in Seq(Messages) /\ DOMAIN Parts(m, k) = 1 .. k
          /\ \A i \in 1 .. k : Parts(m, k)[i] = m
      BY <2>2, Parted DEF Parts
    <3>2. m[2] <= nth'[m[1]]
      BY <1>1, <2>1, <2>2
    <3> QED BY <3>1, <3>2 DEF Old
  <2>6. CASE Same \/ Gone
    BY <1>3, <2>4, <2>6 DEF Fresh, Same, Gone
  <2>7. CASE cnx'.sent = cnx.sent /\ cnx'.queue = cnx.queue \o Parts(m, Size)
    <3>1. Old(cnx.queue \o Parts(m, Size), nth')
      BY <1>1, <2>4, <2>5, OldJoined, SizesAssumption
    <3> QED BY <2>4, <2>7, <3>1 DEF Fresh
  <2>8. ASSUME NEW k \in 0 .. Size, cnx'.sent = cnx.sent \o Parts(m, k),
               cnx'.queue = Parts(m, Size - k)
        PROVE  Fresh'
    <3>1. k \in Nat /\ Size - k \in Nat
      BY SizesAssumption
    <3>2. Old(cnx.sent \o Parts(m, k), nth')
      BY <1>1, <2>4, <2>5, <3>1, OldJoined
    <3> QED BY <2>5, <2>8, <3>1, <3>2 DEF Fresh
  <2> QED BY <1>6, <2>6, <2>7, <2>8 DEF Written, m
<1> QED BY <1>4, <1>5, <1>6 DEF Streams

(* Every step is a step of ByteStream or leaves the stream as it is.       *)
LEMMA StepRefines ==
  ASSUME IInv, Fresh, Streams
  PROVE  [Stream!Next]_<<cnx.sent, cnx.queue>>
<1>1. /\ cnx.sent \in Seq(Messages) /\ cnx.queue \in Seq(Messages)
      /\ nth \in [Users -> 0 .. MaxWrites] /\ Size \in Nat
  BY SizesAssumption DEF IInv, TypeOK, Connection
<1>2. CASE Same
  BY <1>2 DEF Same
<1>3. CASE Gone
  BY <1>3 DEF Gone, Stream!Next, Stream!Break
<1>4. CASE Transmitted
  BY <1>4 DEF Transmitted, Stream!Next, Stream!Transmit, Stream!Take
<1>5. ASSUME NEW t \in Users, Written(t), ~ Same, ~ Gone PROVE Stream!Next
  <2> DEFINE m == <<t, nth[t] + 1>>
             all == cnx.queue \o Parts(m, Size)
  <2>1. m \in Messages
    <3>1. nth[t] \in Nat /\ nth[t] < MaxWrites /\ MaxWrites \in Nat
      BY <1>1, <1>5, SizesAssumption DEF Written
    <3> QED BY <3>1 DEF Messages
  <2>2. m \notin {cnx.sent[i] : i \in DOMAIN cnx.sent} \cup {cnx.queue[i] : i \in DOMAIN cnx.queue}
    BY <1>1 DEF Fresh, Old
  <2>3. Stream!ToSet(cnx.sent) = {cnx.sent[i] : i \in DOMAIN cnx.sent}
        /\ Stream!ToSet(cnx.queue) = {cnx.queue[i] : i \in DOMAIN cnx.queue}
    BY DEF Stream!ToSet
  <2>4. \A n : Stream!Parts(m, n) = Parts(m, n)
    BY DEF Stream!Parts, Parts
  <2>5. all \in Seq(Messages) /\ Len(all) \in Nat
    BY <1>1, <2>1, Parted, ConcatProperties, LenProperties
  <2>6. \E k \in 0 .. Len(all) :
          /\ cnx'.sent = cnx.sent \o SubSeq(all, 1, k)
          /\ cnx'.queue = SubSeq(all, k + 1, Len(all))
    <3>1. CASE cnx'.sent = cnx.sent /\ cnx'.queue = all
      <4>1. SubSeq(all, 1, 0) = <<>> /\ SubSeq(all, 0 + 1, Len(all)) = all
        BY <2>5, CutNowhere
      <4>2. cnx.sent \o <<>> = cnx.sent
        BY <1>1, ConcatEmptySeq
      <4>3. 0 \in 0 .. Len(all)
        BY <2>5
      <4> HIDE DEF all
      <4> QED BY <3>1, <4>1, <4>2, <4>3
    <3>2. ASSUME cnx.queue = <<>>, NEW k \in 0 .. Size, cnx'.sent = cnx.sent \o Parts(m, k),
                 cnx'.queue = Parts(m, Size - k)
          PROVE  \E j \in 0 .. Len(all) :
                   /\ cnx'.sent = cnx.sent \o SubSeq(all, 1, j)
                   /\ cnx'.queue = SubSeq(all, j + 1, Len(all))
      <4>1. all = Parts(m, Size)
        BY <1>1, <2>1, <3>2, Parted, ConcatEmptySeq
      <4>2. Len(all) = Size
        BY <1>1, <2>1, <4>1, Parted
      <4>3. SubSeq(all, 1, k) = Parts(m, k) /\ SubSeq(all, k + 1, Size) = Parts(m, Size - k)
        BY <1>1, <2>1, <4>1, PartsCut
      <4> HIDE DEF all, m
      <4> QED BY <3>2, <4>2, <4>3
    <3> QED BY <1>5, <3>1, <3>2 DEF Written
  <2>7. \E k \in 0 .. Len(all) : Stream!Take(all, k)
    BY <2>6 DEF Stream!Take
  <2> HIDE DEF m
  <2>8. Stream!Accept(m)
    BY <2>2, <2>3, <2>4, <2>7 DEF Stream!Accept
  <2> QED BY <2>1, <2>8 DEF Stream!Next
<1> QED BY <1>2, <1>3, <1>4, <1>5 DEF Streams

LEMMA InitRefines == Init => Fresh /\ Stream!Init
BY DEF Init, Fresh, Old, Stream!Init

-----------------------------------------------------------------------------
(* The connection and what surrounds it keep their types: whatever a step  *)
(* of some thread finds on top of its stack is what it takes it for.       *)
THEOREM TypeCorrect == Spec => []TypeOK
<1>1. IInv => TypeOK
  BY DEF IInv
<1> QED BY <1>1, InitIInv, NextIInv, PTL DEF Spec

(* Whoever listens for the connection to break hears of it at most once,   *)
(* whichever of the main loop and the threads that reconnect dispatches.   *)
THEOREM ListenersHearOnce == Spec => []HeardOnce
<1>1. IInv => HeardOnce
  BY DEF IInv, Once, HeardOnce
<1> QED BY <1>1, InitIInv, NextIInv, PTL DEF Spec

(* On each socket the far end gets messages whole and one after the other, *)
(* in the order they were accepted in: the connection is a ByteStream.     *)
THEOREM StreamKept == Spec => StreamInOrder
<1>1. IInv /\ Fresh /\ [Next]_vars => (IInv /\ Fresh)' /\ [Stream!Next]_<<cnx.sent, cnx.queue>>
  BY NextIInv, FreshKept, StepRefines
<1> QED BY <1>1, InitIInv, InitRefines, PTL DEF Spec, StreamInOrder, Stream!Spec
=============================================================================
