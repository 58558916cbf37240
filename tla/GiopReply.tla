----------------------------- MODULE GiopReply -----------------------------
(***************************************************************************)
(* Invocations and their replies (src/orb/GIOP/giop-recv-buffer.c, the     *)
(* stubs of src/orb/orb-core/matecorba-small.c).  An invocation puts an    *)
(* entry on the list giop_queued_messages, writes its request and waits;   *)
(* the I/O thread finds the entry of a reply by its request id, zaps the   *)
(* entries of a connection that breaks, and runs the connection's timer.   *)
(*                                                                         *)
(* The id of a request is the address of the entry or of the caller's      *)
(* frame, so that the next invocation at that address has it again.  A     *)
(* slot stands for such an address: a thread's frame for a synchronous     *)
(* invocation, a block of memory for an asynchronous one.                  *)
(*                                                                         *)
(* One step is one critical section, or what runs between two of them.  A  *)
(* writer breaks its own connection when more than max_buffer_bytes are    *)
(* queued on it, and then does the I/O thread's zapping itself.            *)
(***************************************************************************)
EXTENDS Naturals, FiniteSets

CONSTANTS
  Sync,        \* slots of synchronous invocations
  Async,       \* slots of asynchronous invocations
  Oneways,     \* the synchronous slots that also make oneway invocations
  Cnxs,        \* connections of the process to servers
  Unix,        \* those whose connect() is done when it returns
  Timed,       \* those with a timeout_msec, all of them TCP
  Limited,     \* those with a max_buffer_bytes
  Deactivated, \* those to objects their servers may deactivate meanwhile
  MaxCalls,    \* bound on the invocations of a slot
  MaxSockets,  \* bound on the sockets a connection opens
  NoCnx, NoReply, NoSlot

Slots == Sync \cup Async

ASSUME SlotsAssumption ==
  /\ Sync \cap Async = {} /\ Oneways \subseteq Sync /\ NoSlot \notin Slots
ASSUME CnxsAssumption ==
  /\ NoCnx \notin Cnxs /\ Unix \subseteq Cnxs /\ Timed \subseteq Cnxs \ Unix
  /\ Limited \subseteq Cnxs /\ Deactivated \subseteq Cnxs
ASSUME BoundsAssumption == MaxCalls \in Nat /\ MaxSockets \in Nat

VARIABLES
  status,      \* cnx->status
  sockets,     \* sockets opened for a connection so far
  wire,        \* requests on the connection's socket and not answered yet
  listed,      \* giop_queued_messages
  ent,         \* the entry of a slot: its connection and its buffer
  cnx,         \* the connection the stub of a slot holds
  nth,         \* invocations a slot has made
  pc,          \* where the invocation of a slot is
  notify,      \* entries a writer that zapped has still to pass on
  posted,      \* asynchronous entries queued for the thread that made them
  timer,       \* the fields of a connection's time-out
  io,          \* what the I/O thread is in
  crashed,     \* memory of a call that has gone, or a null pointer was used
  unwaited,    \* (history) calls that did not wait for a reply, and returned
               \* while another thread held their entry
  overflowed,  \* (history) connections a writer has broken
  raced        \* (history) those whose timer a caller stopped while another
               \* was setting it

link == <<status, sockets, wire>>
calls == <<cnx, nth>>
history == <<unwaited, overflowed, raced>>
vars == <<link, listed, ent, calls, pc, notify, posted, timer, io, crashed,
          history>>

Call == Slots \X (1 .. MaxCalls)
AsyncCall == Async \X (1 .. MaxCalls)

Request == [id : Slots, n : 1 .. MaxCalls, oneway : BOOLEAN]

ASSUME RepliesAssumption == NoReply \notin Request

Entry   == [cnx : Cnxs \cup {NoCnx}, buffer : Request \cup {NoReply}]
Timer   == [mutex : BOOLEAN, pending : BOOLEAN, id : BOOLEAN,
            status : {"unknown", "yes", "no"}, owner : Slots \cup {NoSlot}]
Idle    == [in |-> "poll"]

PCs == {"idle", "connecting", "got", "listed", "set", "arming", "send", "sent",
        "zapping", "notifying", "check", "asleep", "timer", "locking", "leave",
        "out", "freed"}

NoEntry == [cnx |-> NoCnx, buffer |-> NoReply]
NoTimer == [mutex |-> FALSE, pending |-> FALSE, id |-> FALSE,
            status |-> "unknown", owner |-> NoSlot]

(* An entry is on a frame of its caller, or in allocated memory. *)
InUse(s) == pc[s] \notin {"idle", "connecting", "got", "freed"}

current(s) == <<s, nth[s]>>
Alive(e) == nth[e[1]] = e[2] /\ InUse(e[1])

(* async_cb is set once the entry is on the list. *)
CallsBack(s) == s \in Async /\ pc[s] # "listed"

Broken(c) == status[c] \in {"disconnected", "timeout"}

(* Variant: an entry that was taken off the list is taken to be filled. *)
check_gotUnlisted(s) ==
  \/ s \notin listed
  \/ ent[s].cnx = NoCnx
  \/ Broken(ent[s].cnx)

check_got(s) ==
  \/ ent[s].buffer # NoReply
  \/ ent[s].cnx = NoCnx
  \/ Broken(ent[s].cnx)

Init ==
  /\ status = [c \in Cnxs |-> "disconnected"]
  /\ sockets = [c \in Cnxs |-> 0]
  /\ wire = [c \in Cnxs |-> {}]
  /\ listed = {}
  /\ ent = [s \in Slots |-> NoEntry]
  /\ cnx = [s \in Slots |-> NoCnx]
  /\ nth = [s \in Slots |-> 0]
  /\ pc = [s \in Slots |-> "idle"]
  /\ notify = [s \in Slots |-> {}]
  /\ posted = {}
  /\ timer = [c \in Cnxs |-> NoTimer]
  /\ io = Idle
  /\ crashed = FALSE
  /\ unwaited = {} /\ overflowed = {} /\ raced = {}

----------------------------------------------------------------------------
(* A new socket; the requests of the old one are lost with it. *)
do_initiate(c) ==
  /\ sockets[c] < MaxSockets
  /\ sockets' = [sockets EXCEPT ![c] = @ + 1]
  /\ status' = [status EXCEPT ![c] = IF c \in Unix THEN "connected"
                                     ELSE "connecting"]

(* MateCORBA_object_get_connection: a connection that is being made is     *)
(* waited for, one that broke is made again.                               *)
GetConnection(s, c) ==
  /\ pc[s] = "idle" /\ s \notin posted
  /\ nth[s] < MaxCalls
  /\ nth' = [nth EXCEPT ![s] = @ + 1]
  /\ cnx' = [cnx EXCEPT ![s] = c]
  /\ \/ /\ status[c] = "connected"
        /\ pc' = [pc EXCEPT ![s] = "got"]
        /\ UNCHANGED <<status, sockets>>
     \/ /\ Broken(c)
        /\ do_initiate(c)
        /\ pc' = [pc EXCEPT ![s] = "connecting"]
  /\ UNCHANGED <<wire, listed, ent, notify, posted, timer, io, crashed, history>>

(* link_connection_try_reconnect comes back from its wait. *)
Reconnected(s) ==
  /\ pc[s] = "connecting" /\ status[cnx[s]] # "connecting"
  /\ pc' = [pc EXCEPT ![s] = IF Broken(cnx[s]) THEN "idle" ELSE "got"]
  /\ UNCHANGED <<link, listed, ent, calls, notify, posted, timer, io, crashed,
                 history>>

(* giop_recv_list_setup_queue_entry *)
Setup(s) ==
  /\ pc[s] = "got"
  /\ ent' = [ent EXCEPT ![s] = [cnx |-> cnx[s], buffer |-> NoReply]]
  /\ listed' = listed \cup {s}
  /\ pc' = [pc EXCEPT ![s] = IF s \in Sync THEN "set" ELSE "listed"]
  /\ UNCHANGED <<link, calls, notify, posted, timer, io, crashed, history>>

(* giop_recv_list_setup_queue_entry_async *)
SetupAsync(s) ==
  /\ pc[s] = "listed"
  /\ pc' = [pc EXCEPT ![s] = "set"]
  /\ UNCHANGED <<link, listed, ent, calls, notify, posted, timer, io, crashed,
                 history>>

Arming(c) == {s \in Slots : pc[s] = "arming" /\ cnx[s] = c}

(* giop_timeout_add, under its static mutex, up to the timer's creation.   *)
Arm(s) ==
  /\ pc[s] = "set" /\ cnx[s] \in Timed /\ ~ timer[cnx[s]].id
  /\ \A c \in Cnxs : Arming(c) = {}
  /\ timer' = [timer EXCEPT ![cnx[s]].mutex = TRUE,
                            ![cnx[s]].status = "unknown",
                            ![cnx[s]].owner = s]
  /\ pc' = [pc EXCEPT ![s] = "arming"]
  /\ UNCHANGED <<link, listed, ent, calls, notify, posted, io, crashed, history>>

StartTimer(s) ==
  /\ pc[s] = "arming"
  /\ timer' = [timer EXCEPT ![cnx[s]].pending = TRUE, ![cnx[s]].id = TRUE]
  /\ pc' = [pc EXCEPT ![s] = "send"]
  /\ UNCHANGED <<link, listed, ent, calls, notify, posted, io, crashed, history>>

(* The timer fires before its id is noted, which is that of no timer then. *)
FiresFirst(s) ==
  /\ pc[s] = "arming"
  /\ io = Idle /\ status[cnx[s]] # "disconnected"
  /\ timer[cnx[s]].status = "unknown"
  /\ timer' = [timer EXCEPT ![cnx[s]].id = TRUE, ![cnx[s]].status = "yes"]
  /\ io' = [in |-> "timeout", cnx |-> cnx[s], owner |-> timer[cnx[s]].owner]
  /\ pc' = [pc EXCEPT ![s] = "send"]
  /\ UNCHANGED <<link, listed, ent, calls, notify, posted, crashed, history>>

(* giop_recv_list_destroy_queue_entry *)
destroy_queue_entry(s) ==
  /\ listed' = listed \ {s}
  /\ ent' = [ent EXCEPT ![s].cnx = NoCnx]

(* A call that writes now; a oneway invocation sets no timer. *)
WritesOneway(s) == pc[s] = "set" /\ s \in Oneways

WritesTwoway(s) ==
  \/ pc[s] = "send"
  \/ pc[s] = "set" /\ (cnx[s] \in Timed => timer[cnx[s]].id)

sent(s, oneway) ==
  wire' = [wire EXCEPT ![cnx[s]] =
             @ \cup {[id |-> s, n |-> nth[s], oneway |-> oneway]}]

(* giop_send_buffer_write and what follows: the caller waits for its reply,*)
(* or the asynchronous invocation is under way.                            *)
Send(s) ==
  /\ WritesTwoway(s) /\ ~ Broken(cnx[s])
  /\ sent(s, FALSE)
  /\ pc' = [pc EXCEPT ![s] = IF s \in Sync THEN "check" ELSE "out"]
  /\ UNCHANGED <<status, sockets, listed, ent, calls, notify, posted, timer, io,
                 crashed, history>>

SendOneway(s) ==
  /\ WritesOneway(s) /\ ~ Broken(cnx[s])
  /\ sent(s, TRUE)
  /\ pc' = [pc EXCEPT ![s] = "sent"]
  /\ UNCHANGED <<status, sockets, listed, ent, calls, notify, posted, timer, io,
                 crashed, history>>

(* Entries a thread has to fill or to pass on, and has taken off the list. *)
ToNotify ==
  (IF io.in = "notify" THEN io.rest ELSE {}) \cup UNION {notify[s] : s \in Slots}

Held == ToNotify \cup (IF io.in = "reply" THEN {io.of} ELSE {})

(* A call returns that has not waited. *)
returns(s) ==
  /\ destroy_queue_entry(s)
  /\ unwaited' = unwaited \cup ({current(s)} \cap Held)
  /\ pc' = [pc EXCEPT ![s] = IF s \in Sync THEN "idle" ELSE "freed"]

FinishOneway(s) ==
  /\ pc[s] = "sent"
  /\ returns(s)
  /\ UNCHANGED <<link, calls, notify, posted, timer, io, crashed, overflowed,
                 raced>>

(* The write fails: COMM_FAILURE, and an asynchronous entry is freed.  The *)
(* socket may be found broken before the connection is; nothing fails while*)
(* it is being made, for what is written then is queued.                   *)
SendFails(s) ==
  /\ WritesOneway(s) \/ WritesTwoway(s)
  /\ status[cnx[s]] # "connecting"
  /\ returns(s)
  /\ UNCHANGED <<link, calls, notify, posted, timer, io, crashed, overflowed,
                 raced>>

(* link_connection_state_changed to LINK_DISCONNECTED up to the point      *)
(* where it drops the link lock to call giop_recv_list_zap.                *)
disconnected(c) ==
  /\ status' = [status EXCEPT ![c] = "disconnected"]
  /\ wire' = [wire EXCEPT ![c] = {}]

(* The request is queued, and max_buffer_bytes with it are too many:       *)
(* queue_signal_T_R breaks the connection in the writer's thread.          *)
Overflow(s) ==
  /\ WritesOneway(s) \/ WritesTwoway(s)
  /\ cnx[s] \in Limited /\ ~ Broken(cnx[s])
  /\ disconnected(cnx[s])
  /\ overflowed' = overflowed \cup {cnx[s]}
  /\ pc' = [pc EXCEPT ![s] = "zapping"]
  /\ UNCHANGED <<sockets, listed, ent, calls, notify, posted, timer, io, crashed,
                 unwaited, raced>>

(* giop_incoming_signal_T for the threads that wait with these entries.    *)
signalled(S) ==
  [s \in Slots |-> IF s \in S /\ pc[s] = "asleep" THEN "check" ELSE pc[s]]

Zapped(c) == {s \in listed : ent[s].cnx = c}
CalledBack(c) == {current(s) : s \in {u \in Zapped(c) : CallsBack(u)}}

(* giop_recv_list_zap, under giop_queued_messages_lock. *)
zap(c) ==
  /\ ent' = [s \in Slots |-> IF s \in Zapped(c) THEN NoEntry ELSE ent[s]]
  /\ listed' = listed \ Zapped(c)

(* The end of giop_recv_list_zap, without the lock: giop_invoke_async for  *)
(* an entry.                                                               *)
invoke_async(e) ==
  IF Alive(e) THEN posted' = posted \cup {e[1]} /\ UNCHANGED crashed
              ELSE crashed' = TRUE /\ UNCHANGED posted

WriterZap(s) ==
  /\ pc[s] = "zapping"
  /\ zap(cnx[s])
  /\ notify' = [notify EXCEPT ![s] = CalledBack(cnx[s])]
  /\ pc' = [signalled(Zapped(cnx[s])) EXCEPT ![s] = "notifying"]
  /\ UNCHANGED <<link, calls, posted, timer, io, crashed, history>>

(* The callback of a thread's own entry runs at once, and frees what       *)
(* MateCORBA_small_invoke_async goes on to use.                            *)
WriterNotify(s, e) ==
  /\ pc[s] = "notifying" /\ e \in notify[s]
  /\ notify' = [notify EXCEPT ![s] = @ \ {e}]
  /\ IF e = current(s) THEN crashed' = TRUE /\ UNCHANGED posted
                       ELSE invoke_async(e)
  /\ UNCHANGED <<link, listed, ent, calls, pc, timer, io, history>>

(* The write has queued its data, which is no error. *)
WriterReturns(s) ==
  /\ pc[s] = "notifying" /\ notify[s] = {}
  /\ \/ pc' = [pc EXCEPT ![s] = IF s \in Sync THEN "check" ELSE "out"]
     \/ s \in Oneways /\ pc' = [pc EXCEPT ![s] = "sent"]
  /\ UNCHANGED <<link, listed, ent, calls, notify, posted, timer, io, crashed,
                 history>>

----------------------------------------------------------------------------
(* giop_recv_buffer_get: the loop, under the thread's lock.  What a thread *)
(* does for others meanwhile is in GiopThread.                             *)
Check(s) ==
  /\ pc[s] = "check"
  /\ pc' = [pc EXCEPT ![s] = IF check_got(s) THEN "timer" ELSE "asleep"]
  /\ UNCHANGED <<link, listed, ent, calls, notify, posted, timer, io, crashed,
                 history>>

(* g_cond_wait returns without a signal, or with one meant for others. *)
SpuriousWakeup(s) ==
  /\ pc[s] = "asleep"
  /\ pc' = [pc EXCEPT ![s] = "check"]
  /\ UNCHANGED <<link, listed, ent, calls, notify, posted, timer, io, crashed,
                 history>>

(* After the loop, without a lock: has the entry a connection, has that a  *)
(* timeout_mutex?                                                          *)
TestTimer(s) ==
  /\ pc[s] = "timer"
  /\ pc' = [pc EXCEPT ![s] =
              IF ent[s].cnx # NoCnx /\ timer[ent[s].cnx].mutex
              THEN "locking" ELSE "leave"]
  /\ UNCHANGED <<link, listed, ent, calls, notify, posted, timer, io, crashed,
                 history>>

(* ent->cnx is read again, and may have been zapped since. *)
StopTimer(s) ==
  /\ pc[s] = "locking"
  /\ IF ent[s].cnx = NoCnx
     THEN crashed' = TRUE /\ UNCHANGED <<timer, pc, raced>>
     ELSE /\ IF timer[ent[s].cnx].status = "unknown"
             THEN /\ timer' = [timer EXCEPT ![ent[s].cnx].pending = FALSE,
                                            ![ent[s].cnx].id = FALSE,
                                            ![ent[s].cnx].status = "no"]
                  /\ raced' = raced \cup {cnx[u] : u \in Arming(ent[s].cnx)}
             ELSE UNCHANGED <<timer, raced>>
          /\ pc' = [pc EXCEPT ![s] = "leave"]
          /\ UNCHANGED crashed
  /\ UNCHANGED <<link, listed, ent, calls, notify, posted, io, unwaited,
                 overflowed>>

(* StopTimer finds no id to remove, another caller creates its timer and   *)
(* notes the id, and StopTimer forgets it: two mutexes guard the fields.   *)
StopMissesTimer(s, u) ==
  /\ pc[s] = "locking" /\ u \in Arming(ent[s].cnx)
  /\ timer[cnx[u]].status = "unknown"
  /\ timer' = [timer EXCEPT ![cnx[u]].pending = TRUE, ![cnx[u]].id = FALSE,
                            ![cnx[u]].status = "no"]
  /\ raced' = raced \cup {cnx[u]}
  /\ pc' = [pc EXCEPT ![s] = "leave", ![u] = "send"]
  /\ UNCHANGED <<link, listed, ent, calls, notify, posted, io, crashed,
                 unwaited, overflowed>>

(* The end of giop_recv_buffer_get; the stub demarshals the buffer, or     *)
(* raises COMM_FAILURE or TIMEOUT, and returns.                            *)
Leave(s) ==
  /\ pc[s] = "leave"
  /\ destroy_queue_entry(s)
  /\ pc' = [pc EXCEPT ![s] = "idle"]
  /\ UNCHANGED <<link, calls, notify, posted, timer, io, crashed, history>>

(* The thread that made an asynchronous invocation runs its callback       *)
(* (async_recv_cb), which frees the entry, once its stub has returned.     *)
Callback(s) ==
  /\ s \in posted /\ pc[s] \in {"out", "freed"}
  /\ posted' = posted \ {s}
  /\ IF pc[s] = "out"
     THEN /\ destroy_queue_entry(s)
          /\ pc' = [pc EXCEPT ![s] = "freed"]
          /\ UNCHANGED crashed
     ELSE crashed' = TRUE /\ UNCHANGED <<pc, listed, ent>>
  /\ UNCHANGED <<link, calls, notify, timer, io, history>>

(* The memory of an entry that was freed is allocated again. *)
Reuse(s) ==
  /\ pc[s] = "freed" /\ s \notin posted
  /\ pc' = [pc EXCEPT ![s] = "idle"]
  /\ UNCHANGED <<link, listed, ent, calls, notify, posted, timer, io, crashed,
                 history>>

----------------------------------------------------------------------------
(* The I/O thread has read a message.  A server answers requests in any    *)
(* order, and a oneway request to a deactivated object with a bogus system *)
(* exception.                                                              *)
ReadReply(c, m) ==
  /\ io = Idle /\ status[c] = "connected"
  /\ m \in wire[c] /\ (m.oneway => c \in Deactivated)
  /\ wire' = [wire EXCEPT ![c] = @ \ {m}]
  /\ io' = [in |-> "read", cnx |-> c, msg |-> m]
  /\ UNCHANGED <<status, sockets, listed, ent, calls, pc, notify, posted, timer,
                 crashed, history>>

(* handle_reply, under giop_queued_messages_lock; what it takes for an     *)
(* error breaks the connection, whatever has become of that meanwhile.     *)
HandleReply(exception) ==
  /\ io.in = "read" /\ (io.msg.oneway => exception)
  /\ \/ /\ io.msg.id \notin listed /\ exception          \* dropped
        /\ io' = Idle
        /\ UNCHANGED <<status, wire, listed>>
     \/ /\ IF io.msg.id \in listed THEN ent[io.msg.id].cnx # io.cnx
                                   ELSE ~ exception
        /\ disconnected(io.cnx)
        /\ io' = [in |-> "zap", cnx |-> io.cnx]
        /\ UNCHANGED listed
     \/ /\ io.msg.id \in listed /\ ent[io.msg.id].cnx = io.cnx
        /\ listed' = listed \ {io.msg.id}
        /\ io' = [in |-> "reply", cnx |-> io.cnx, msg |-> io.msg,
                  of |-> current(io.msg.id)]
        /\ UNCHANGED <<status, wire>>
  /\ UNCHANGED <<sockets, ent, calls, pc, notify, posted, timer, crashed,
                 history>>

(* The server does not answer a oneway request. *)
Ignored(c, m) ==
  /\ m \in wire[c] /\ m.oneway /\ status[c] = "connected"
  /\ wire' = [wire EXCEPT ![c] = @ \ {m}]
  /\ UNCHANGED <<status, sockets, listed, ent, calls, pc, notify, posted, timer,
                 io, crashed, history>>

(* Variant: the caller of a reply is not signalled. *)
DeliverSilently ==
  /\ io.in = "reply"
  /\ ent' = [ent EXCEPT ![io.of[1]].buffer = io.msg]
  /\ posted' = IF CallsBack(io.of[1]) THEN posted \cup {io.of[1]} ELSE posted
  /\ io' = Idle
  /\ UNCHANGED <<link, listed, calls, pc, notify, timer, crashed, history>>

(* The rest of handle_reply, under the thread's lock, with                 *)
(* giop_invoke_async for an asynchronous entry.                            *)
Deliver ==
  /\ io.in = "reply"
  /\ IF Alive(io.of)
     THEN /\ ent' = [ent EXCEPT ![io.of[1]].buffer = io.msg]
          /\ IF CallsBack(io.of[1])
             THEN posted' = posted \cup {io.of[1]} /\ UNCHANGED pc
             ELSE pc' = signalled({io.of[1]}) /\ UNCHANGED posted
          /\ UNCHANGED crashed
     ELSE crashed' = TRUE /\ UNCHANGED <<ent, posted, pc>>
  /\ io' = Idle
  /\ UNCHANGED <<link, listed, calls, notify, timer, history>>

(* End of file, an error of the socket or a message, or the command to     *)
(* disconnect, in the I/O thread.                                          *)
Break(c) ==
  /\ io = Idle /\ status[c] # "disconnected"
  /\ disconnected(c)
  /\ io' = [in |-> "zap", cnx |-> c]
  /\ UNCHANGED <<sockets, listed, ent, calls, pc, notify, posted, timer,
                 crashed, history>>

Connected(c) ==
  /\ io = Idle /\ status[c] = "connecting"
  /\ status' = [status EXCEPT ![c] = "connected"]
  /\ UNCHANGED <<sockets, wire, listed, ent, calls, pc, notify, posted, timer,
                 io, crashed, history>>

(* Variant: the entries stay. *)
ZapNothing ==
  /\ io.in = "zap"
  /\ io' = Idle
  /\ UNCHANGED <<link, listed, ent, calls, pc, notify, posted, timer, crashed,
                 history>>

Zap ==
  /\ io.in = "zap"
  /\ zap(io.cnx)
  /\ pc' = signalled(Zapped(io.cnx))
  /\ io' = IF CalledBack(io.cnx) = {} THEN Idle
           ELSE [in |-> "notify", rest |-> CalledBack(io.cnx)]
  /\ UNCHANGED <<link, calls, notify, posted, timer, crashed, history>>

Notify(e) ==
  /\ io.in = "notify" /\ e \in io.rest
  /\ invoke_async(e)
  /\ io' = IF io.rest = {e} THEN Idle ELSE [io EXCEPT !.rest = @ \ {e}]
  /\ UNCHANGED <<link, listed, ent, calls, pc, notify, timer, history>>

(* Variant: the source stays in the loop when its id is forgotten. *)
TimerStays(c) ==
  /\ io = Idle /\ timer[c].pending
  /\ status[c] # "disconnected" /\ timer[c].status = "unknown"
  /\ timer' = [timer EXCEPT ![c].id = FALSE, ![c].status = "yes"]
  /\ io' = [in |-> "timeout", cnx |-> c, owner |-> timer[c].owner]
  /\ UNCHANGED <<link, listed, ent, calls, pc, notify, posted, crashed, history>>

(* giop_timeout, up to the unlock of timeout_mutex. *)
TimerFires(c) ==
  /\ io = Idle /\ timer[c].pending
  /\ \/ /\ status[c] = "disconnected"
        /\ timer' = [timer EXCEPT ![c].pending = FALSE]
        /\ UNCHANGED io
     \/ /\ status[c] # "disconnected" /\ timer[c].status = "unknown"
        /\ timer' = [timer EXCEPT ![c].pending = FALSE, ![c].id = FALSE,
                                  ![c].status = "yes"]
        /\ io' = [in |-> "timeout", cnx |-> c, owner |-> timer[c].owner]
  /\ UNCHANGED <<link, listed, ent, calls, pc, notify, posted, crashed, history>>

(* link_connection_state_changed to LINK_TIMEOUT: no entry is zapped. *)
TimedOut ==
  /\ io.in = "timeout"
  /\ status' = [status EXCEPT ![io.cnx] = "timeout"]
  /\ wire' = [wire EXCEPT ![io.cnx] = {}]
  /\ io' = [io EXCEPT !.in = "signal"]
  /\ UNCHANGED <<sockets, listed, ent, calls, pc, notify, posted, timer,
                 crashed, history>>

(* The thread that set the timer gets a signal. *)
SignalOwner ==
  /\ io.in = "signal"
  /\ pc' = signalled({io.owner})
  /\ io' = Idle
  /\ UNCHANGED <<link, listed, ent, calls, notify, posted, timer, crashed,
                 history>>

----------------------------------------------------------------------------
CallStep(s) ==
  \/ Reconnected(s) \/ Setup(s) \/ SetupAsync(s) \/ Arm(s) \/ StartTimer(s)
  \/ Send(s) \/ FinishOneway(s) \/ SendFails(s) \/ Check(s) \/ TestTimer(s)
  \/ StopTimer(s) \/ Leave(s) \/ Callback(s)
  \/ WriterZap(s) \/ WriterReturns(s) \/ \E e \in notify[s] : WriterNotify(s, e)

Answer(m) == \E c \in Cnxs : ReadReply(c, m)

IoStep ==
  \/ \E exception \in BOOLEAN : HandleReply(exception)
  \/ Deliver \/ Zap \/ TimedOut \/ SignalOwner
  \/ io.in = "notify" /\ \E e \in io.rest : Notify(e)

Next ==
  /\ ~ crashed
  /\ \/ \E s \in Slots :
          \/ CallStep(s) \/ SendOneway(s) \/ Overflow(s) \/ SpuriousWakeup(s)
          \/ Reuse(s) \/ FiresFirst(s)
          \/ \E u \in Slots : StopMissesTimer(s, u)
          \/ \E c \in Cnxs : GetConnection(s, c)
     \/ \E c \in Cnxs :
          \/ Break(c) \/ Connected(c) \/ TimerFires(c)
          \/ \E m \in wire[c] : Answer(m) \/ Ignored(c, m)
     \/ IoStep

Spec == Init /\ [][Next]_vars

(***************************************************************************)
(* Threads in the ORB's code go on, the I/O thread too; a connect() ends,  *)
(* a timer that is set fires, and a server answers two-way requests.       *)
(***************************************************************************)
Running ==
  /\ \A s \in Slots : WF_vars(~ crashed /\ CallStep(s))
  /\ WF_vars(~ crashed /\ IoStep)
  /\ \A c \in Cnxs : WF_vars(~ crashed /\ (Connected(c) \/ TimerFires(c)))

Answers ==
  \A s \in Slots, n \in 1 .. MaxCalls :
    WF_vars(~ crashed /\ Answer([id |-> s, n |-> n, oneway |-> FALSE]))

FairSpec == Spec /\ Running /\ Answers

----------------------------------------------------------------------------
TypeOK ==
  /\ status \in [Cnxs -> {"disconnected", "connecting", "connected", "timeout"}]
  /\ sockets \in [Cnxs -> 0 .. MaxSockets]
  /\ wire \in [Cnxs -> SUBSET Request]
  /\ listed \subseteq Slots
  /\ ent \in [Slots -> Entry]
  /\ cnx \in [Slots -> Cnxs \cup {NoCnx}]
  /\ nth \in [Slots -> 0 .. MaxCalls]
  /\ pc \in [Slots -> PCs]
  /\ notify \in [Slots -> SUBSET AsyncCall]
  /\ posted \subseteq Async
  /\ timer \in [Cnxs -> Timer]
  /\ io \in {Idle} \cup [in : {"zap"}, cnx : Cnxs]
          \cup [in : {"read"}, cnx : Cnxs, msg : Request]
          \cup [in : {"reply"}, cnx : Cnxs, msg : Request, of : Call]
          \cup [in : {"notify"}, rest : SUBSET AsyncCall]
          \cup [in : {"timeout", "signal"}, cnx : Cnxs, owner : Slots]
  /\ crashed \in BOOLEAN
  /\ unwaited \subseteq Call
  /\ overflowed \subseteq Cnxs
  /\ raced \subseteq Cnxs

(* What is on the list is in use.  The I/O thread holds pointers to entries*)
(* on the stacks of their callers and in memory they free, between the list*)
(* lock and the thread's lock of handle_reply and after the lock of        *)
(* giop_recv_list_zap: the invocation has not returned meanwhile, unless it*)
(* never waited (a oneway, or a write that failed) or, for handle_reply, a *)
(* writer has broken the connection, which the I/O thread cannot exclude.  *)
EntryAlive ==
  /\ \A s \in listed : InUse(s)
  /\ io.in = "reply" =>
       Alive(io.of) \/ io.of \in unwaited \/ io.cnx \in overflowed
  /\ \A e \in ToNotify : Alive(e) \/ e \in unwaited

(* A caller sleeps only while its entry is on the list or the I/O thread   *)
(* is about to fill it; and if its connection is broken, its entry is about*)
(* to be filled or the connection to be zapped, by the I/O thread or a     *)
(* writer: no reply and no break of the connection goes unnoticed.         *)
NoLostReply ==
  \A s \in Sync : pc[s] = "asleep" =>
    LET filling == io.in = "reply" /\ io.of = current(s)
    IN  /\ s \in listed \/ filling
        /\ ent[s].buffer = NoReply /\ ent[s].cnx # NoCnx
        /\ status[ent[s].cnx] = "disconnected" =>
             \/ filling
             \/ io.in = "zap" /\ io.cnx = ent[s].cnx
             \/ \E u \in Slots : pc[u] = "zapping" /\ cnx[u] = ent[s].cnx

(* A timer in the I/O thread's loop can be removed by the next caller with *)
(* a reply and ends the connection if it fires, for both act on an id and  *)
(* LINK_TIMEOUT_UNKNOWN only; and none is there when another is about to be*)
(* made.  It is lost in one case: a caller stops it while another is       *)
(* between its reset of timeout_status and its note of timeout_source_id.  *)
TimerRemovable ==
  \A c \in Cnxs \ raced :
    timer[c].pending =>
      timer[c].id /\ timer[c].status = "unknown" /\ Arming(c) = {}

(* An invocation on a connection without time-out ends, if its server      *)
(* answers or the connection breaks.                                       *)
CallsEnd ==
  \A s \in Sync :
    pc[s] = "asleep" /\ cnx[s] \notin Timed ~> pc[s] = "idle" \/ crashed

=============================================================================
