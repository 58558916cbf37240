--------------------------- MODULE LinkConnection ---------------------------
(***************************************************************************)
(* One connection of linc2 (linc2/src/linc-connection.c) and the commands  *)
(* for its I/O thread (linc2/src/linc.c): the application's threads write  *)
(* to it and make it again when it broke, the I/O thread watches its       *)
(* socket, and the main loop tells those who listen that it broke.         *)
(*                                                                         *)
(* All of it runs under one lock, which link_connection_state_changed_T_R  *)
(* drops twice in its midst, so that whatever called it goes on with a     *)
(* connection that may have changed.  A thread's stack holds the functions *)
(* it is in and where they go on.                                          *)
(***************************************************************************)
EXTENDS Naturals, Sequences, FiniteSets

CONSTANTS
  Users,       \* threads of the application
  Main,        \* the one of them that runs the main loop
  Io,          \* the I/O thread
  Nobody,
  Listeners,   \* callbacks for a broken connection, registered at first
  Local,       \* a UNIX socket: connect() does not wait
  Timed,       \* invocations on the connection may time out
  Size,        \* the parts in which a message can be written
  MaxBuffer,   \* max_buffer_bytes, 0 for none
  MaxWrites,   \* bound on the messages of a thread
  MaxSockets   \* bound on the sockets of the connection

Threads == Users \cup {Io}

ASSUME ThreadsAssumption ==
  /\ Main \in Users /\ Io \notin Users /\ Nobody \notin Threads
ASSUME SizesAssumption ==
  /\ Local \in BOOLEAN /\ Timed \in BOOLEAN
  /\ Size \in Nat \ {0} /\ MaxBuffer \in Nat
  /\ MaxWrites \in Nat /\ MaxSockets \in Nat

VARIABLES
  cnx,         \* the connection and the far end of its socket
  lock,        \* the thread that holds link_main_lock
  waiting,     \* threads in link_wait
  stack,       \* of a thread, the innermost function first
  cmds,        \* link_cmd_queue
  nth,         \* messages of a thread
  sockets,     \* sockets opened so far
  heard        \* how often a listener was called

vars == <<cnx, lock, waiting, stack, cmds, nth, sockets, heard>>

Down == {"disconnected", "timeout"}

(* One part of a message stands in write_queue as its name; the parts of   *)
(* one message in a row are a QueuedWrite.                                 *)
Messages == Users \X (1 .. MaxWrites)
Parts(m, n) == [i \in 1 .. n |-> m]
HeadSize(q) == Cardinality({i \in DOMAIN q : q[i] = q[1]})

At(t, where) == stack[t] # <<>> /\ Head(stack[t]).at = where
Entering(t, where) == At(t, where) /\ lock = Nobody
Holding(t, where) == At(t, where) /\ lock = t

(* The functions that go on under the lock they were called with. *)
Locked == {"queued", "initiated", "output", "flush", "flushed", "events",
           "connected"}

goto(t, frames) ==
  /\ stack' = [stack EXCEPT ![t] = frames]
  /\ lock' = IF frames # <<>> /\ Head(frames).at \in Locked THEN t ELSE Nobody

frame(where) == [at |-> where]
handler(where, cond) == [at |-> where, cond |-> cond]

Init ==
  /\ cnx = [status |-> "disconnected", tag |-> FALSE, cond |-> {},
            queue |-> <<>>, bytes |-> 0, inhibit |-> FALSE, was |-> FALSE,
            callbacks |-> Listeners, idle |-> FALSE,
            peer |-> "none", input |-> "none", sent |-> <<>>]
  /\ lock = Nobody
  /\ waiting = {}
  /\ stack = [t \in Threads |-> <<>>]
  /\ cmds = <<>>
  /\ nth = [t \in Users |-> 0]
  /\ sockets = 0
  /\ heard = [l \in Listeners |-> 0]

----------------------------------------------------------------------------
(* link_watch_set_condition, on a tag that may be NULL *)
set_condition(c, cond) == IF c.tag THEN [c EXCEPT !.cond = cond] ELSE c

(* The switch of link_connection_state_changed_T_R: the watch, the socket  *)
(* and the queue, but not write_queue_bytes.                               *)
switched(c, status) ==
  CASE status = "connected" ->
         [c EXCEPT !.status = status, !.tag = TRUE,
                   !.cond = IF c.tag THEN @ ELSE {"IN"}]
    [] status = "connecting" ->
         [c EXCEPT !.status = status, !.tag = TRUE, !.cond = {"OUT"}]
    [] OTHER ->
         [c EXCEPT !.status = status, !.tag = FALSE, !.cond = {},
                   !.queue = <<>>, !.peer = "none", !.input = "none",
                   !.sent = <<>>]

(* add_idle_broken_for_cnx_T, if someone listens; the list idle_broken_cnxs*)
(* has no other connection on it.                                          *)
add_idle_broken(c) ==
  IF c.callbacks = {} \/ c.idle THEN c
  ELSE [c EXCEPT !.idle = TRUE, !.inhibit = TRUE]

(* link_signal, and klass->state_changed without the lock. *)
call_class(t, c, rest) ==
  /\ cnx' = c
  /\ waiting' = {}
  /\ goto(t, <<frame("class")>> \o rest)

(* link_connection_state_changed_T_R, called with the lock, up to where it *)
(* drops it first.                                                         *)
state_changed(t, c, status, rest) ==
  LET breaks == status \in Down /\ c.status # status
      d == switched(c, status)
  IN  IF breaks /\ ~ c.was
      THEN cnx' = d /\ goto(t, <<frame("broken")>> \o rest)
                    /\ UNCHANGED waiting
      ELSE call_class(t, IF breaks THEN add_idle_broken(d) ELSE d, rest)

(* The handlers of the signal "broken" have run. *)
Emitted(t) ==
  /\ Entering(t, "broken")
  /\ call_class(t, add_idle_broken(cnx), Tail(stack[t]))
  /\ UNCHANGED <<cmds, nth, sockets, heard>>

(* klass->state_changed has returned, and its caller goes on. *)
ClassReturned(t) ==
  /\ Entering(t, "class")
  /\ goto(t, Tail(stack[t]))
  /\ UNCHANGED <<cnx, waiting, cmds, nth, sockets, heard>>

----------------------------------------------------------------------------
(* What the socket takes of a write of n parts, at least min of them. *)
Taken(min, n) ==
  CASE cnx.peer \in {"up", "closed"} -> min .. n
    [] cnx.peer = "trying" -> {0}
    [] OTHER -> {}

WriteMayFail == cnx.peer \in {"refused", "closed"}

(* link_exec_command from a thread of the application *)
exec_command(cmd) == cmds' = Append(cmds, cmd)

(* queue_flattened_T_R and queue_signal_T_R of n parts of m *)
queue_flattened(t, c, m, n, update_poll) ==
  LET q == [c EXCEPT !.queue = @ \o Parts(m, n), !.bytes = @ + n]
      poll == update_poll /\ c.queue = <<>>
  IN  IF MaxBuffer > 0 /\ q.bytes >= MaxBuffer
      THEN /\ state_changed(t, q, "disconnected",
                            <<[at |-> "queued", poll |-> poll]>>)
           /\ UNCHANGED cmds
      ELSE /\ cnx' = q
           /\ IF poll THEN exec_command("set_condition") ELSE UNCHANGED cmds
           /\ UNCHANGED <<stack, lock, waiting>>

(* Variant: what waits already is overlooked. *)
WriteDirectly(t) ==
  /\ stack[t] = <<>> /\ lock = Nobody
  /\ nth[t] < MaxWrites
  /\ nth' = [nth EXCEPT ![t] = @ + 1]
  /\ cnx.status = "connected"
  /\ LET m == <<t, nth[t] + 1>>
     IN  \E k \in Taken(0, Size) :
           LET c == [cnx EXCEPT !.sent = @ \o Parts(m, k)]
           IN  IF k = Size
               THEN cnx' = c /\ UNCHANGED <<stack, lock, waiting, cmds>>
               ELSE queue_flattened(t, c, m, Size - k, TRUE)
  /\ UNCHANGED <<sockets, heard>>

(* link_connection_writev in thread-safe mode *)
Writev(t) ==
  /\ stack[t] = <<>> /\ lock = Nobody
  /\ nth[t] < MaxWrites
  /\ nth' = [nth EXCEPT ![t] = @ + 1]
  /\ LET m == <<t, nth[t] + 1>>
     IN  \/ /\ cnx.status = "connecting"
            /\ queue_flattened(t, cnx, m, Size, TRUE)
         \/ /\ cnx.status \notin {"connecting", "disconnected"}
            /\ cnx.queue # <<>>
            /\ queue_flattened(t, cnx, m, Size, FALSE)
         \/ /\ cnx.status = "connected" /\ cnx.queue = <<>>
            /\ \E k \in Taken(0, Size) :
                 LET c == [cnx EXCEPT !.sent = @ \o Parts(m, k)]
                 IN  IF k = Size
                     THEN cnx' = c /\ UNCHANGED <<stack, lock, waiting, cmds>>
                     ELSE queue_flattened(t, c, m, Size - k, TRUE)
         \/ /\ \/ cnx.status \in Down
               \/ cnx.status = "connected" /\ cnx.queue = <<>> /\ WriteMayFail
            /\ UNCHANGED <<cnx, stack, lock, waiting, cmds>>
  /\ UNCHANGED <<sockets, heard>>

(* The end of queue_flattened_T_R after the queue got too long. *)
Queued(t) ==
  /\ Holding(t, "queued")
  /\ IF Head(stack[t]).poll THEN exec_command("set_condition")
     ELSE UNCHANGED cmds
  /\ goto(t, Tail(stack[t]))
  /\ UNCHANGED <<cnx, waiting, nth, sockets, heard>>

(* link_connection_disconnect *)
Disconnect(t) ==
  /\ stack[t] = <<>>
  /\ cnx.status \notin Down /\ "disconnect" \notin {cmds[i] : i \in DOMAIN cmds}
  /\ exec_command("disconnect")
  /\ UNCHANGED <<cnx, lock, waiting, stack, nth, sockets, heard>>

----------------------------------------------------------------------------
(* MateCORBA_try_connection_T: link_connection_wait_connected, and         *)
(* link_connection_try_reconnect if it is not.                             *)
GetConnection(t) ==
  /\ stack[t] = <<>>
  /\ stack' = [stack EXCEPT ![t] = <<frame("wait")>>]
  /\ UNCHANGED <<cnx, lock, waiting, cmds, nth, sockets, heard>>

link_wait(t, where) ==
  /\ waiting' = waiting \cup {t}
  /\ goto(t, <<frame(where)>>)

WaitConnected(t) ==
  /\ Entering(t, "wait") /\ t \notin waiting
  /\ IF cnx.status = "connecting" THEN link_wait(t, "wait")
     ELSE /\ goto(t, IF cnx.status \in Down THEN <<frame("try")>> ELSE <<>>)
          /\ UNCHANGED waiting
  /\ UNCHANGED <<cnx, cmds, nth, sockets, heard>>

(* dispatch_callbacks_drop_lock, up to where it has dropped the lock; and  *)
(* the same in link_connection_broken_idle.                                *)
dispatch_callbacks(t, rest) ==
  goto(t, <<[at |-> "emitting", list |-> cnx.callbacks]>> \o rest)

(* g_main_context_acquire fails while another thread runs the main loop. *)
Inhibited(t) ==
  /\ Entering(t, "try") /\ t \notin waiting /\ cnx.inhibit
  /\ IF t = Main
     THEN /\ cnx' = [cnx EXCEPT !.inhibit = FALSE, !.callbacks = {}]
          /\ dispatch_callbacks(t, <<frame("try")>>)
          /\ UNCHANGED waiting
     ELSE link_wait(t, "try") /\ UNCHANGED cnx
  /\ UNCHANGED <<cmds, nth, sockets, heard>>

(* link_connection_do_initiate; a socket that cannot be connected is       *)
(* closed at once.                                                         *)
TryReconnect(t) ==
  /\ Entering(t, "try") /\ t \notin waiting /\ ~ cnx.inhibit
  /\ \/ /\ cnx.status \in Down /\ sockets < MaxSockets
        /\ sockets' = sockets + 1
        /\ state_changed(t, [cnx EXCEPT !.peer = IF Local THEN "up"
                                                 ELSE "trying"],
                         IF Local THEN "connected" ELSE "connecting",
                         <<frame("initiated")>>)
     \/ /\ cnx.status \in Down
        /\ goto(t, <<>>)
        /\ UNCHANGED <<cnx, waiting, sockets>>
     \/ /\ cnx.status \notin Down                 \* with a warning
        /\ goto(t, <<frame("initiated")>>)
        /\ UNCHANGED <<cnx, waiting, sockets>>
  /\ UNCHANGED <<cmds, nth, heard>>

(* The end of link_connection_try_reconnect: it waits for the connection,  *)
(* whose breaking is not signalled meanwhile.                              *)
Reconnecting(t) ==
  /\ \/ Holding(t, "initiated")
     \/ Entering(t, "connecting") /\ t \notin waiting
  /\ IF cnx.status = "connecting"
     THEN cnx' = [cnx EXCEPT !.was = TRUE] /\ link_wait(t, "connecting")
     ELSE /\ cnx' = [cnx EXCEPT !.was = FALSE]
          /\ goto(t, <<>>)
          /\ UNCHANGED waiting
  /\ UNCHANGED <<cmds, nth, sockets, heard>>

(* Variants: the callbacks stay; nobody is signalled. *)
IdleKeepsCallbacks ==
  /\ stack[Main] = <<>> /\ lock = Nobody /\ cnx.idle
  /\ cnx' = [cnx EXCEPT !.idle = FALSE, !.inhibit = FALSE]
  /\ waiting' = {}
  /\ dispatch_callbacks(Main, <<>>)
  /\ UNCHANGED <<cmds, nth, sockets, heard>>

IdleWithoutSignal ==
  /\ stack[Main] = <<>> /\ lock = Nobody /\ cnx.idle
  /\ cnx' = [cnx EXCEPT !.idle = FALSE, !.callbacks = {}, !.inhibit = FALSE]
  /\ dispatch_callbacks(Main, <<>>)
  /\ UNCHANGED <<waiting, cmds, nth, sockets, heard>>

(* link_connection_broken_idle, in the main loop *)
BrokenIdle ==
  /\ stack[Main] = <<>> /\ lock = Nobody /\ cnx.idle
  /\ cnx' = [cnx EXCEPT !.idle = FALSE, !.callbacks = {}, !.inhibit = FALSE]
  /\ waiting' = {}
  /\ dispatch_callbacks(Main, <<>>)
  /\ UNCHANGED <<cmds, nth, sockets, heard>>

(* link_connection_emit_broken *)
EmitBroken ==
  /\ At(Main, "emitting")
  /\ heard' = [l \in Listeners |->
                 IF l \in Head(stack[Main]).list THEN heard[l] + 1 ELSE heard[l]]
  /\ stack' = [stack EXCEPT ![Main] = Tail(@)]
  /\ UNCHANGED <<cnx, lock, waiting, cmds, nth, sockets>>

----------------------------------------------------------------------------
(* What poll may find on the socket. *)
Pollable ==
  CASE cnx.peer = "up" -> {{"OUT"} \cup IF cnx.input = "some" THEN {"IN"} ELSE {}}
    [] cnx.peer = "refused" -> {{"OUT", "ERR"}}
    [] cnx.peer = "closed" -> {{"IN", "OUT"}, {"IN", "OUT", "ERR"}}
    [] OTHER -> {}

Poll ==
  /\ stack[Io] = <<>> /\ cnx.tag
  /\ \E events \in Pollable :
       LET cond == events \cap (cnx.cond \cup {"ERR"})
       IN  /\ cond # {}
           /\ stack' = [stack EXCEPT ![Io] = <<handler("handler", cond)>>]
  /\ UNCHANGED <<cnx, lock, waiting, cmds, nth, sockets, heard>>

(* link_connection_io_handler *)
IoHandler ==
  /\ Entering(Io, "handler")
  /\ LET cond == Head(stack[Io]).cond
     IN  goto(Io, IF cnx.status = "connected" /\ "IN" \in cond
                  THEN <<handler("input", cond)>>
                  ELSE <<handler("output", cond)>>)
  /\ UNCHANGED <<cnx, waiting, cmds, nth, sockets, heard>>

(* klass->handle_input, without the lock: it reads what is there, or finds *)
(* that the connection is no good any more.                                *)
HandleInput ==
  /\ Entering(Io, "input")
  /\ LET next == <<handler("output", Head(stack[Io]).cond)>>
     IN  IF cnx.status = "connected" /\ cnx.peer \in {"up", "trying"}
         THEN /\ cnx' = [cnx EXCEPT !.input = IF @ = "some" THEN "read"
                                                   ELSE @]
              /\ goto(Io, next)
              /\ UNCHANGED waiting
         ELSE state_changed(Io, cnx, "disconnected", next)
  /\ UNCHANGED <<cmds, nth, sockets, heard>>

Output ==
  /\ Holding(Io, "output")
  /\ LET cond == Head(stack[Io]).cond
         next == <<handler("events", cond)>>
     IN  goto(Io, IF cnx.status = "connected" /\ "OUT" \in cond
                  THEN <<frame("flush")>> \o next ELSE next)
  /\ UNCHANGED <<cnx, waiting, cmds, nth, sockets, heard>>

(* link_connection_flush_write_queue_T_R: only the write of the whole head *)
(* is taken off write_queue_bytes.                                         *)
Flush ==
  /\ Holding(Io, "flush")
  /\ LET q == cnx.queue
         n == HeadSize(q)
         flushed(done) == <<[at |-> "flushed", done |-> done]>>
                          \o Tail(stack[Io])
     IN  \/ /\ q = <<>>
            /\ goto(Io, flushed("yes"))
            /\ UNCHANGED <<cnx, waiting>>
         \/ /\ q # <<>>
            /\ \E k \in Taken(1, n) :
                 LET c == [cnx EXCEPT !.sent = @ \o SubSeq(q, 1, k),
                                      !.queue = SubSeq(q, k + 1, Len(q)),
                                      !.bytes = IF k = n THEN @ - n ELSE @]
                 IN  IF k = n /\ MaxBuffer > 0 /\ c.bytes >= MaxBuffer
                     THEN state_changed(Io, c, "disconnected",
                                        flushed("if empty"))
                     ELSE /\ cnx' = c
                          /\ goto(Io, flushed(IF k = n THEN "if empty"
                                                       ELSE "no"))
                          /\ UNCHANGED waiting
         \/ /\ q # <<>> /\ WriteMayFail
            /\ state_changed(Io, cnx, "disconnected", flushed("yes"))
  /\ UNCHANGED <<cmds, nth, sockets, heard>>

(* Variant: a write that blocked is taken for done. *)
FlushedAnyway ==
  /\ Holding(Io, "flushed")
  /\ cnx' = set_condition(cnx, {"IN"})
  /\ goto(Io, Tail(stack[Io]))
  /\ UNCHANGED <<waiting, cmds, nth, sockets, heard>>

(* Its end: the watch listens for room if there is more to write. *)
Flushed ==
  /\ Holding(Io, "flushed")
  /\ LET done == Head(stack[Io]).done
         all == done = "yes" \/ (done = "if empty" /\ cnx.queue = <<>>)
     IN  cnx' = set_condition(cnx, IF all THEN {"IN"} ELSE {"IN", "OUT"})
  /\ goto(Io, Tail(stack[Io]))
  /\ UNCHANGED <<waiting, cmds, nth, sockets, heard>>

(* The socket's SO_ERROR. *)
SocketErrors ==
  CASE cnx.peer = "refused" -> {TRUE}
    [] cnx.peer = "closed" -> BOOLEAN
    [] OTHER -> {FALSE}

(* The end of link_connection_io_handler: the condition that was polled    *)
(* meets the status of now.                                                *)
Events ==
  /\ Holding(Io, "events")
  /\ LET cond == Head(stack[Io]).cond
     IN  \/ /\ cnx.status = "connecting" /\ cond \cap {"OUT", "ERR"} # {}
            /\ \E error \in SocketErrors :
                 IF ~ error /\ cond = {"OUT"}
                 THEN state_changed(Io, set_condition(cnx, {"IN"}),
                                    "connected", <<frame("connected")>>)
                 ELSE state_changed(Io, cnx, "disconnected", <<>>)
         \/ /\ cnx.status = "connected" /\ "ERR" \in cond
            /\ state_changed(Io, cnx, "disconnected", <<>>)
         \/ /\ ~ (cnx.status = "connecting" /\ cond \cap {"OUT", "ERR"} # {})
            /\ ~ (cnx.status = "connected" /\ "ERR" \in cond)
            /\ goto(Io, <<>>)
            /\ UNCHANGED <<cnx, waiting>>
  /\ UNCHANGED <<cmds, nth, sockets, heard>>

Connected ==
  /\ Holding(Io, "connected")
  /\ goto(Io, IF cnx.queue = <<>> THEN <<>> ELSE <<frame("flush")>>)
  /\ UNCHANGED <<cnx, waiting, cmds, nth, sockets, heard>>

(* link_mainloop_handle_input takes all commands and runs them one by one. *)
TakeCommands ==
  /\ stack[Io] = <<>> /\ cmds # <<>>
  /\ stack' = [stack EXCEPT ![Io] = <<[at |-> "commands", list |-> cmds]>>]
  /\ cmds' = <<>>
  /\ UNCHANGED <<cnx, lock, waiting, nth, sockets, heard>>

RunCommand ==
  /\ Entering(Io, "commands")
  /\ LET list == Head(stack[Io]).list
         next == IF Len(list) = 1 THEN <<>>
                 ELSE <<[at |-> "commands", list |-> Tail(list)]>>
     IN  IF Head(list) = "set_condition"
         THEN /\ cnx' = set_condition(cnx, {"IN", "OUT"})
              /\ goto(Io, next)
              /\ UNCHANGED waiting
         ELSE state_changed(Io, cnx, "disconnected", next)
  /\ UNCHANGED <<cmds, nth, sockets, heard>>

(* giop_timeout *)
Timeout ==
  /\ Timed /\ stack[Io] = <<>> /\ lock = Nobody
  /\ cnx.status \notin Down
  /\ state_changed(Io, cnx, "timeout", <<>>)
  /\ UNCHANGED <<cmds, nth, sockets, heard>>

----------------------------------------------------------------------------
(* The far end: it takes the connection or refuses it, closes it, and      *)
(* sends something once on each socket.                                    *)
peer_becomes(old, new) ==
  /\ cnx.peer = old
  /\ cnx' = [cnx EXCEPT !.peer = new]
  /\ UNCHANGED <<lock, waiting, stack, cmds, nth, sockets, heard>>

Answered == peer_becomes("trying", "up") \/ peer_becomes("trying", "refused")
Closed == peer_becomes("up", "closed")

Sends ==
  /\ cnx.peer = "up" /\ cnx.input = "none" /\ cnx.sent # <<>>
  /\ cnx' = [cnx EXCEPT !.input = "some"]
  /\ UNCHANGED <<lock, waiting, stack, cmds, nth, sockets, heard>>

----------------------------------------------------------------------------
UserStep(t) ==
  \/ Emitted(t) \/ ClassReturned(t) \/ Queued(t)
  \/ WaitConnected(t) \/ Inhibited(t) \/ TryReconnect(t) \/ Reconnecting(t)

IoStep ==
  \/ Emitted(Io) \/ ClassReturned(Io) \/ Poll \/ IoHandler \/ HandleInput
  \/ Output \/ Flush \/ Flushed \/ Events \/ Connected
  \/ TakeCommands \/ RunCommand

Next ==
  \/ \E t \in Users :
       UserStep(t) \/ Writev(t) \/ Disconnect(t) \/ GetConnection(t)
  \/ BrokenIdle \/ EmitBroken \/ IoStep \/ Timeout
  \/ Answered \/ Closed \/ Sends

Spec == Init /\ [][Next]_vars

(* A function that was called goes on, the I/O thread runs and does not    *)
(* leave commands alone for its sockets, a connect() ends, and the main    *)
(* thread comes back to its loop, whatever else it is made to do.          *)
Fairness ==
  /\ \A t \in Users : WF_vars(UserStep(t))
  /\ SF_vars(BrokenIdle) /\ WF_vars(EmitBroken)
  /\ WF_vars(IoStep) /\ SF_vars(TakeCommands)
  /\ WF_vars(Answered)

FairSpec == Spec /\ Fairness

----------------------------------------------------------------------------
Frame ==
  [at : {"broken", "class", "initiated", "wait", "try", "connecting", "flush",
         "connected"}]
  \cup [at : {"queued"}, poll : BOOLEAN]
  \cup [at : {"emitting"}, list : SUBSET Listeners]
  \cup [at : {"handler", "input", "output", "events"},
        cond : SUBSET {"IN", "OUT", "ERR"}]
  \cup [at : {"flushed"}, done : {"yes", "no", "if empty"}]
  \cup [at : {"commands"}, list : Seq({"set_condition", "disconnect"}) \ {<<>>}]

Connection ==
  [status : Down \cup {"connecting", "connected"}, tag : BOOLEAN,
   cond : SUBSET {"IN", "OUT"}, queue : Seq(Messages), bytes : Nat,
   inhibit : BOOLEAN, was : BOOLEAN, callbacks : SUBSET Listeners, idle : BOOLEAN,
   peer : {"none", "trying", "up", "refused", "closed"},
   input : {"none", "some", "read"}, sent : Seq(Messages)]

TypeOK ==
  /\ cnx \in Connection
  /\ ~ cnx.tag => cnx.cond = {}
  /\ lock \in Threads \cup {Nobody}
  /\ waiting \subseteq Users
  /\ stack \in [Threads -> Seq(Frame)]
  /\ cmds \in Seq({"set_condition", "disconnect"})
  /\ nth \in [Users -> 0 .. MaxWrites]
  /\ sockets \in 0 .. MaxSockets
  /\ heard \in [Listeners -> Nat]

(* What has gone to the socket and what waits, as ByteStream has it. *)
Stream == INSTANCE ByteStream WITH
  sent <- cnx.sent, pending <- cnx.queue

(* Every message of the connection goes out whole and in its turn. *)
StreamInOrder == Stream!Spec

(* Whoever listens for the connection to break hears of it once, though    *)
(* the main loop and a thread that reconnects both dispatch the callbacks. *)
HeardOnce == \A l \in Listeners : heard[l] <= 1

(* What waits in the queue is written or thrown away with its socket: the  *)
(* watch listens for room, or will do so.                                  *)
QueueFlushed == cnx.queue # <<>> ~> cnx.queue = <<>>

(* A thread that makes the connection again, or waits for it, returns. *)
ReconnectEnds ==
  \A t \in Users :
    At(t, "wait") \/ At(t, "connecting") \/ At(t, "try") ~> stack[t] = <<>>

=============================================================================
