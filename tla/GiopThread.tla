---------------------------- MODULE GiopThread ----------------------------
(***************************************************************************)
(* The dispatch of incoming requests and of asynchronous replies to        *)
(* threads (src/orb/GIOP/giop.c).  The I/O thread decodes a request and    *)
(* hands it to a GIOPThread: the one that owns the request's key in        *)
(* giop_pool_hash, a new one that a thread of the GLib pool will run, or   *)
(* the main thread's.  A thread runs its requests one inside the other:    *)
(* while a handler waits for the reply of a call of its own it takes       *)
(* further requests of its queue (giop_recv_buffer_get).                   *)
(*                                                                         *)
(* One step is one critical section of the code, giop_pool_hash_lock or    *)
(* the GIOPThread's own lock, or what runs between two of them.            *)
(***************************************************************************)
EXTENDS Integers, Sequences, FiniteSets

CONSTANTS
  Pool,         \* the GIOPThreads that giop_thread_request_push_key may create
  Main,         \* giop_main_thread
  Users,        \* GIOPThreads of threads the application made itself
  Keys,         \* what a thread is bound to: an object, a POA, a connection
  NoKey,        \* the key NULL of the hint PER_REQUEST
  MainQueue,    \* stands for a request pushed to giop_thread_get_main
  Requests,     \* the requests that may come in
  KeyOf,        \* the key a request is pushed with
  Poas,         \* the POAs the requests are for
  PoaOf,        \* the POA of a request's object
  Policies,     \* the sets of POAs an invocation policy may allow
  Calls,        \* asynchronous invocations that may be made
  AskerOf,      \* the thread that makes an asynchronous invocation
  MaxSync,      \* bound on the synchronous calls to other processes
  PipeSize,     \* bytes the wake-up pipe of the main loop holds
  NoThread, NoRequest, NoPolicy

Threads == Pool \cup {Main} \cup Users

(* What a frame may hold beside a request. *)
Own     == "own code"
Remote  == "remote"
Nothing == "nothing"

ASSUME ThreadsAssumption ==
  /\ Main \notin Pool \cup Users
  /\ Pool \cap Users = {}
  /\ NoThread \notin Threads

ASSUME RequestsAssumption ==
  /\ NoKey \notin Keys /\ MainQueue \notin Keys /\ NoKey # MainQueue
  /\ KeyOf \in [Requests -> Keys \cup {NoKey, MainQueue}]
  /\ PoaOf \in [Requests -> Poas]
  /\ {NoRequest, Own, Remote, Nothing} \cap (Requests \cup Calls) = {}
  /\ Calls \cap Requests = {}
  /\ AskerOf \in [Calls -> Threads]
  /\ Policies \subseteq SUBSET Poas /\ NoPolicy \notin Policies

ASSUME BoundsAssumption == MaxSync \in Nat /\ PipeSize \in Nat \ {0}

VARIABLES
  hash,      \* giop_pool_hash: the GIOPThread a key is bound to
  keys,      \* tdata->keys
  queue,     \* tdata->request_queue, oldest first
  async,     \* tdata->async_ents, newest first
  pc,        \* where the thread is in its code
  valid,     \* what first_valid_request returned, read before the lock
  stack,     \* the invocations the thread is in, the innermost last
  pipe,      \* bytes in the wake-up pipe of the main loop
  req,       \* what became of each request
  call,      \* what became of each asynchronous invocation
  nsync,     \* synchronous calls to other processes made so far
  aborted    \* an assertion of the program failed

vars == <<hash, keys, queue, async, pc, valid, stack, pipe, req, call, nsync,
          aborted>>

(***************************************************************************)
(* A frame of a thread's stack is one invocation: the request or the       *)
(* asynchronous reply it serves (or the application's own code), whether   *)
(* it waits in giop_recv_buffer_get and for what, whether that came, and   *)
(* the policy it pushed for the call.                                      *)
(***************************************************************************)
Items   == Requests \cup Calls \cup {Own}
Frame   == [item : Items, on : Requests \cup {Remote, Nothing}, got : BOOLEAN,
            policy : Policies \cup {NoPolicy}]

Running(i) == [item |-> i, on |-> Nothing, got |-> FALSE, policy |-> NoPolicy]

PCs == {"none", "pooled", "fetch", "pop", "code", "check", "asleep", "loop",
        "free", "gone", "poll", "drain"}

Live(t)  == pc[t] \notin {"none", "gone"}
Depth(t) == Len(stack[t])
Top(t)   == stack[t][Depth(t)]

(* The head of tdata->invoke_policies: the policy pushed last. *)
Pushed(t) == {i \in 1 .. Depth(t) : stack[t][i].policy # NoPolicy}
Policy(t) ==
  IF Pushed(t) = {} THEN NoPolicy
  ELSE stack[t][CHOOSE i \in Pushed(t) : \A j \in Pushed(t) : j <= i].policy

(* The positions of the queue that the policy in force lets through. *)
Allowed(t) == {i \in 1 .. Len(queue[t]) : PoaOf[queue[t][i]] \in Policy(t)}

(* Variant: the policy is not looked at. *)
first_request(t) ==
  IF Policy(t) = NoPolicy \/ queue[t] = <<>> THEN NoRequest ELSE queue[t][1]

first_valid_request(t) ==
  IF Policy(t) = NoPolicy \/ Allowed(t) = {} THEN NoRequest
  ELSE queue[t][CHOOSE i \in Allowed(t) : \A j \in Allowed(t) : i <= j]

(* Variants: one of the two lists is not looked at, or the policy. *)
only_async_empty(t) == async[t] = <<>>
lists_empty(t) == queue[t] = <<>> /\ async[t] = <<>>

giop_thread_queue_empty(t) ==
  IF Policy(t) = NoPolicy THEN queue[t] = <<>> /\ async[t] = <<>>
  ELSE Allowed(t) = {}

(* Any wait in giop_recv_buffer_get is over for this frame. *)
check_got(f) == f.got

----------------------------------------------------------------------------
Init ==
  /\ hash = [k \in Keys |-> NoThread]
  /\ keys = [t \in Threads |-> {}]
  /\ queue = [t \in Threads |-> <<>>]
  /\ async = [t \in Threads |-> <<>>]
  /\ pc = [t \in Threads |-> IF t \in Pool THEN "none" ELSE "code"]
  /\ valid = [t \in Threads |-> NoRequest]
  /\ stack = [t \in Threads |-> IF t \in Pool THEN <<>> ELSE <<Running(Own)>>]
  /\ pipe = 0
  /\ req = [r \in Requests |-> "fresh"]
  /\ call = [c \in Calls |-> "fresh"]
  /\ nsync = 0
  /\ aborted = FALSE

(* Variant: no signal. *)
unsignalled(t) == [pc EXCEPT ![t] = @]

(* g_cond_signal on tdata->incoming: only its owner ever waits on it. *)
signalled(t) == [pc EXCEPT ![t] = IF @ = "asleep" THEN "check" ELSE @]

(* wakeup_mainloop; a full pipe refuses the byte and that is ignored. *)
wakeup_mainloop == pipe' = IF pipe < PipeSize THEN pipe + 1 ELSE pipe

(* Variant: the main loop is never woken. *)
no_wakeup(t) == pipe' = IF t = Main THEN pipe ELSE pipe

(* giop_incoming_signal_T for a message that is not a reply: only the main *)
(* thread has a wake_context.                                              *)
wakeup(t) == IF t = Main THEN wakeup_mainloop ELSE UNCHANGED pipe

(* Variant: the request is prepended, as asynchronous replies are. *)
request_prepend(t, r) ==
  /\ queue' = [queue EXCEPT ![t] = <<r>> \o @]
  /\ req' = [req EXCEPT ![r] = "queued"]
  /\ wakeup(t)

(* giop_thread_request_push *)
giop_thread_request_push(t, r) ==
  /\ queue' = [queue EXCEPT ![t] = Append(@, r)]
  /\ req' = [req EXCEPT ![r] = "queued"]
  /\ wakeup(t)

Incoming(r) == req[r] \in {"fresh", "sent"}

PushMain(r) ==
  /\ Incoming(r) /\ KeyOf[r] = MainQueue
  /\ giop_thread_request_push(Main, r)
  /\ pc' = signalled(Main)
  /\ UNCHANGED <<hash, keys, async, valid, stack, call, nsync, aborted>>

(* giop_thread_request_push_key, when the key has a thread *)
PushOwned(r) ==
  /\ Incoming(r) /\ KeyOf[r] \in Keys /\ hash[KeyOf[r]] # NoThread
  /\ giop_thread_request_push(hash[KeyOf[r]], r)
  /\ pc' = signalled(hash[KeyOf[r]])
  /\ UNCHANGED <<hash, keys, async, valid, stack, call, nsync, aborted>>

(* Variant: the hash is not looked up before a new thread is made. *)
PushAlwaysNew(r, t) ==
  /\ Incoming(r) /\ ~ Live(t) /\ KeyOf[r] \in Keys
  /\ hash' = [hash EXCEPT ![KeyOf[r]] = t]
  /\ keys' = [keys EXCEPT ![t] = {KeyOf[r]}]
  /\ async' = [async EXCEPT ![t] = <<>>]
  /\ queue' = [queue EXCEPT ![t] = <<r>>]
  /\ req' = [req EXCEPT ![r] = "queued"]
  /\ pc' = [pc EXCEPT ![t] = "pooled"]
  /\ UNCHANGED <<valid, stack, pipe, call, nsync, aborted>>

(* giop_thread_request_push_key, when it has none: giop_thread_new,        *)
(* giop_thread_key_add_T unless the key is NULL, g_thread_pool_push.  The  *)
(* memory may be that of a GIOPThread that was freed.                      *)
PushNew(r, t) ==
  /\ Incoming(r) /\ ~ Live(t)
  /\ \/ KeyOf[r] = NoKey /\ UNCHANGED <<hash, keys>>
     \/ /\ KeyOf[r] \in Keys /\ hash[KeyOf[r]] = NoThread
        /\ hash' = [hash EXCEPT ![KeyOf[r]] = t]
        /\ keys' = [keys EXCEPT ![t] = {KeyOf[r]}]
  /\ async' = [async EXCEPT ![t] = <<>>]
  /\ queue' = [queue EXCEPT ![t] = <<r>>]
  /\ req' = [req EXCEPT ![r] = "queued"]
  /\ pc' = [pc EXCEPT ![t] = "pooled"]
  /\ UNCHANGED <<valid, stack, pipe, call, nsync, aborted>>

(* giop_invoke_async in the I/O thread: the entry is queued for the thread *)
(* that made the invocation, whose GIOPThread the entry points to.         *)
AsyncReply(t, c) ==
  /\ call[c] = "sent" /\ t = AskerOf[c]
  /\ async' = [async EXCEPT ![t] = <<c>> \o @]
  /\ call' = [call EXCEPT ![c] = "queued"]
  /\ pc' = signalled(t)
  /\ wakeup(t)
  /\ UNCHANGED <<hash, keys, queue, valid, stack, req, nsync, aborted>>

(* handle_reply for a synchronous call: the entry gets its buffer and the  *)
(* thread a signal, under the thread's lock.                               *)
Reply(t, i) ==
  /\ stack[t][i].on \in {Remote} \cup {r \in Requests : req[r] = "done"}
  /\ ~ stack[t][i].got
  /\ stack' = [stack EXCEPT ![t][i].got = TRUE]
  /\ pc' = signalled(t)
  /\ UNCHANGED <<hash, keys, queue, async, valid, pipe, req, call, nsync,
                 aborted>>

----------------------------------------------------------------------------
(* A pool thread takes the GIOPThread up. *)
Begin(t) ==
  /\ pc[t] = "pooled"
  /\ pc' = [pc EXCEPT ![t] = "fetch"]
  /\ UNCHANGED <<hash, keys, queue, async, valid, stack, pipe, req, call,
                 nsync, aborted>>

(* giop_thread_queue_process up to its lock: first_valid_request looks at  *)
(* the queue without it.                                                   *)
Fetch(t) ==
  /\ pc[t] = "fetch"
  /\ valid' = [valid EXCEPT ![t] = first_valid_request(t)]
  /\ pc' = [pc EXCEPT ![t] = "pop"]
  /\ UNCHANGED <<hash, keys, queue, async, stack, pipe, req, call, nsync,
                 aborted>>

without(s, r) ==
  LET i == CHOOSE i \in 1 .. Len(s) : s[i] = r
  IN  SubSeq(s, 1, i - 1) \o SubSeq(s, i + 1, Len(s))

run(t, i) ==
  /\ stack' = [stack EXCEPT ![t] = Append(@, Running(i))]
  /\ pc' = [pc EXCEPT ![t] = "code"]

(* What giop_thread_queue_process takes under the lock, and the start of   *)
(* its callback: an asynchronous reply, the oldest request, or, under a    *)
(* policy, the request that was found before.                              *)
PopAsync(t) ==
  /\ pc[t] = "pop" /\ Policy(t) = NoPolicy /\ async[t] # <<>>
  /\ async' = [async EXCEPT ![t] = Tail(@)]
  /\ call' = [call EXCEPT ![Head(async[t])] = "running"]
  /\ run(t, Head(async[t]))
  /\ UNCHANGED <<hash, keys, queue, valid, pipe, req, nsync, aborted>>

PopOldest(t) ==
  /\ pc[t] = "pop" /\ Policy(t) = NoPolicy
  /\ async[t] = <<>> /\ queue[t] # <<>>
  /\ queue' = [queue EXCEPT ![t] = Tail(@)]
  /\ req' = [req EXCEPT ![Head(queue[t])] = "running"]
  /\ run(t, Head(queue[t]))
  /\ UNCHANGED <<hash, keys, async, valid, pipe, call, nsync, aborted>>

PopAllowed(t) ==
  /\ pc[t] = "pop" /\ Policy(t) # NoPolicy /\ valid[t] # NoRequest
  /\ queue' = [queue EXCEPT ![t] = without(@, valid[t])]
  /\ req' = [req EXCEPT ![valid[t]] = "running"]
  /\ run(t, valid[t])
  /\ valid' = [valid EXCEPT ![t] = NoRequest]
  /\ UNCHANGED <<hash, keys, async, pipe, call, nsync, aborted>>

----------------------------------------------------------------------------
(* The application's code in a handler, an asynchronous callback, or a     *)
(* thread of its own makes a synchronous call (giop_recv_list_setup_       *)
(* queue_entry and giop_recv_buffer_get), with or without a policy of the  *)
(* object called.                                                          *)
waiting(t, on, p) ==
  /\ pc[t] = "code"
  /\ stack' = [stack EXCEPT ![t][Depth(t)].on = on,
                            ![t][Depth(t)].got = FALSE,
                            ![t][Depth(t)].policy = p]
  /\ pc' = [pc EXCEPT ![t] = "check"]
  /\ UNCHANGED <<hash, keys, queue, async, valid, pipe, call, aborted>>

CallRemote(t, p) ==
  /\ nsync < MaxSync
  /\ nsync' = nsync + 1
  /\ waiting(t, Remote, p)
  /\ UNCHANGED req

(* MateCORBA_poa_allow_cross_thread_call refuses to call an object of this *)
(* process in the caller's thread when another thread owns its key.        *)
CallCrossThread(t, r, p) ==
  /\ req[r] = "fresh"
  /\ \/ KeyOf[r] = MainQueue /\ t # Main
     \/ KeyOf[r] \in Keys /\ hash[KeyOf[r]] \notin {NoThread, t}
  /\ req' = [req EXCEPT ![r] = "sent"]
  /\ waiting(t, r, p)
  /\ UNCHANGED nsync

CallAsync(t, c) ==
  /\ pc[t] = "code" /\ call[c] = "fresh" /\ t = AskerOf[c]
  /\ call' = [call EXCEPT ![c] = "sent"]
  /\ UNCHANGED <<hash, keys, queue, async, pc, valid, stack, pipe, req, nsync,
                 aborted>>

(* Variant: a waiting thread does not serve its queue. *)
WaitOnly(t) ==
  /\ pc[t] = "check" /\ ~ check_got(Top(t))
  /\ pc' = [pc EXCEPT ![t] = "asleep"]
  /\ UNCHANGED <<hash, keys, queue, async, valid, stack, pipe, req, call,
                 nsync, aborted>>

(* The loop of giop_recv_buffer_get, under the thread's lock. *)
KeepWaiting(t) ==
  /\ pc[t] = "check" /\ ~ check_got(Top(t))
  /\ pc' = [pc EXCEPT ![t] =
              IF giop_thread_queue_empty(t) THEN "asleep" ELSE "fetch"]
  /\ UNCHANGED <<hash, keys, queue, async, valid, stack, pipe, req, call,
                 nsync, aborted>>

(* g_cond_wait may return without a signal. *)
SpuriousWakeup(t) ==
  /\ pc[t] = "asleep"
  /\ pc' = [pc EXCEPT ![t] = "check"]
  /\ UNCHANGED <<hash, keys, queue, async, valid, stack, pipe, req, call,
                 nsync, aborted>>

(* The end of giop_recv_buffer_get, with giop_thread_queue_tail_wakeup,    *)
(* and the policy popped by the stub.                                      *)
Return(t) ==
  /\ pc[t] = "check" /\ check_got(Top(t))
  /\ stack' = [stack EXCEPT ![t][Depth(t)] = Running(Top(t).item)]
  /\ pc' = [pc EXCEPT ![t] = "code"]
  /\ IF queue[t] # <<>> \/ async[t] # <<>> THEN wakeup(t) ELSE UNCHANGED pipe
  /\ UNCHANGED <<hash, keys, queue, async, valid, req, call, nsync, aborted>>

(* Variant: the main thread serves one request for each byte it reads. *)
OnePerByte(t) ==
  IF Depth(t) > 1 /\ stack[t][Depth(t) - 1].on # Nothing THEN "check"
  ELSE IF t = Main THEN "poll" ELSE "loop"

(* Where a thread goes on when its callback returns: an outer wait, the    *)
(* loop of giop_request_handler_thread or that of                          *)
(* giop_mainloop_handle_input.                                             *)
Resumed(t) ==
  IF Depth(t) > 1 /\ stack[t][Depth(t) - 1].on # Nothing THEN "check"
  ELSE IF t = Main THEN "drain" ELSE "loop"

Finish(t) ==
  /\ pc[t] = "code" /\ Depth(t) > 0 /\ Top(t).item # Own
  /\ LET i == Top(t).item
     IN  /\ req' = IF i \in Requests THEN [req EXCEPT ![i] = "done"] ELSE req
         /\ call' = IF i \in Calls THEN [call EXCEPT ![i] = "done"] ELSE call
  /\ stack' = [stack EXCEPT ![t] = SubSeq(@, 1, Depth(t) - 1)]
  /\ pc' = [pc EXCEPT ![t] = Resumed(t)]
  /\ UNCHANGED <<hash, keys, queue, async, valid, pipe, nsync, aborted>>

----------------------------------------------------------------------------
(* Variant: the hash keeps the keys of a thread that ends. *)
still_bound(t) == IF t \in Threads THEN hash ELSE hash

unbound(t) == [k \in Keys |-> IF k \in keys[t] THEN NoThread ELSE hash[k]]

(* The end of an iteration of giop_request_handler_thread: under both      *)
(* locks, either there is more to do or the thread gives up its keys.      *)
HandlerLoop(t) ==
  /\ pc[t] = "loop"
  /\ IF giop_thread_queue_empty(t)
     THEN /\ hash' = unbound(t)
          /\ keys' = [keys EXCEPT ![t] = {}]
          /\ pc' = [pc EXCEPT ![t] = "free"]
     ELSE /\ pc' = [pc EXCEPT ![t] = "fetch"]
          /\ UNCHANGED <<hash, keys>>
  /\ UNCHANGED <<queue, async, valid, stack, pipe, req, call, nsync, aborted>>

(* A thread of the application ends: its GIOPThread is freed by the        *)
(* destructor of the thread's private data.                                *)
ThreadExit(t) ==
  /\ t \in Users /\ pc[t] = "code" /\ Depth(t) = 1 /\ Top(t).item = Own
  /\ pc' = [pc EXCEPT ![t] = "free"]
  /\ UNCHANGED <<hash, keys, queue, async, valid, stack, pipe, req, call,
                 nsync, aborted>>

giop_thread_free(t) ==
  /\ pc[t] = "free"
  /\ hash' = unbound(t)
  /\ keys' = [keys EXCEPT ![t] = {}]
  /\ pc' = [pc EXCEPT ![t] = "gone"]
  /\ UNCHANGED <<queue, async, valid, stack, pipe, req, call, nsync, aborted>>

(* MateCORBA_ObjectAdaptor_object_bind_to_current_thread: giop_thread_key_ *)
(* add, whose assertion is that no thread has the key yet.                 *)
Bind(t, k) ==
  /\ t \in Users /\ pc[t] = "code"
  /\ IF hash[k] = NoThread
     THEN /\ hash' = [hash EXCEPT ![k] = t]
          /\ keys' = [keys EXCEPT ![t] = @ \cup {k}]
          /\ UNCHANGED aborted
     ELSE aborted' = TRUE /\ UNCHANGED <<hash, keys>>
  /\ UNCHANGED <<queue, async, pc, valid, stack, pipe, req, call, nsync>>

(* The object, POA or connection a key stands for is destroyed, which      *)
(* happens when no request refers to it any more (giop_thread_key_release).*)
giop_thread_key_release(k) ==
  /\ hash[k] # NoThread
  /\ \A r \in Requests : KeyOf[r] = k => req[r] \in {"fresh", "done"}
  /\ keys' = [keys EXCEPT ![hash[k]] = @ \ {k}]
  /\ hash' = [hash EXCEPT ![k] = NoThread]
  /\ UNCHANGED <<queue, async, pc, valid, stack, pipe, req, call, nsync,
                 aborted>>

----------------------------------------------------------------------------
(* The main thread enters its main loop from, and leaves it for, code of   *)
(* the application.                                                        *)
EnterLoop ==
  /\ pc[Main] = "code" /\ Top(Main).item = Own
  /\ pc' = [pc EXCEPT ![Main] = "poll"]
  /\ UNCHANGED <<hash, keys, queue, async, valid, stack, pipe, req, call,
                 nsync, aborted>>

OtherSource ==
  /\ pc[Main] = "poll"
  /\ pc' = [pc EXCEPT ![Main] = "code"]
  /\ UNCHANGED <<hash, keys, queue, async, valid, stack, pipe, req, call,
                 nsync, aborted>>

(* giop_mainloop_handle_input reads one byte, and then works until its     *)
(* queues are empty.                                                       *)
HandleInput ==
  /\ pc[Main] = "poll" /\ pipe > 0
  /\ pipe' = pipe - 1
  /\ pc' = [pc EXCEPT ![Main] = "drain"]
  /\ UNCHANGED <<hash, keys, queue, async, valid, stack, req, call, nsync,
                 aborted>>

Drain ==
  /\ pc[Main] = "drain"
  /\ pc' = [pc EXCEPT ![Main] =
              IF giop_thread_queue_empty(Main) THEN "poll" ELSE "fetch"]
  /\ UNCHANGED <<hash, keys, queue, async, valid, stack, pipe, req, call,
                 nsync, aborted>>

----------------------------------------------------------------------------
PopStep(t) == PopAsync(t) \/ PopOldest(t) \/ PopAllowed(t)

(* What a thread does of itself once it has begun. *)
ThreadStep(t) ==
  \/ Begin(t) \/ Fetch(t) \/ PopStep(t) \/ KeepWaiting(t) \/ Return(t)
  \/ Finish(t) \/ HandlerLoop(t) \/ giop_thread_free(t)

MainStep == EnterLoop \/ HandleInput \/ Drain

Push(r) == PushMain(r) \/ PushOwned(r) \/ \E t \in Pool : PushNew(r, t)

Code(t) ==
  \/ \E p \in Policies \cup {NoPolicy} :
       CallRemote(t, p) \/ \E r \in Requests : CallCrossThread(t, r, p)
  \/ \E c \in Calls : CallAsync(t, c)
  \/ \E k \in Keys : Bind(t, k)
  \/ ThreadExit(t)

Replies(t) == \E i \in 1 .. Depth(t) : Reply(t, i)

Next ==
  /\ ~ aborted
  /\ \/ \E r \in Requests : Push(r)
     \/ \E t \in Threads :
          \/ ThreadStep(t) \/ Code(t) \/ SpuriousWakeup(t) \/ Replies(t)
          \/ \E c \in Calls : AsyncReply(t, c)
     \/ \E k \in Keys : giop_thread_key_release(k)
     \/ MainStep \/ OtherSource

Spec == Init /\ [][Next]_vars

(***************************************************************************)
(* The threads that run code of the ORB go on, handlers return, the main   *)
(* loop is entered again and polls its pipe in every iteration, the I/O    *)
(* thread decodes what was sent, and every call is answered.               *)
(***************************************************************************)
Fairness ==
  /\ \A t \in Pool \cup {Main} : WF_vars(ThreadStep(t)) /\ WF_vars(Replies(t))
  /\ WF_vars(EnterLoop) /\ SF_vars(HandleInput) /\ WF_vars(Drain)
  /\ \A r \in Requests : WF_vars(req[r] = "sent" /\ Push(r))
  /\ \A c \in Calls : WF_vars(AsyncReply(AskerOf[c], c))

FairSpec == Spec /\ Fairness

----------------------------------------------------------------------------
(* Every variable keeps to the values the code can give it. *)
TypeOK ==
  /\ hash \in [Keys -> Threads \cup {NoThread}]
  /\ keys \in [Threads -> SUBSET Keys]
  /\ queue \in [Threads -> Seq(Requests)]
  /\ async \in [Threads -> Seq(Calls)]
  /\ pc \in [Threads -> PCs]
  /\ valid \in [Threads -> Requests \cup {NoRequest}]
  /\ stack \in [Threads -> Seq(Frame)]
  /\ pipe \in 0 .. PipeSize
  /\ req \in [Requests -> {"fresh", "sent", "queued", "running", "done"}]
  /\ call \in [Calls -> {"fresh", "sent", "queued", "running", "done"}]
  /\ nsync \in 0 .. MaxSync
  /\ aborted \in BOOLEAN

(* giop_pool_hash and the key lists of the GIOPThreads agree, and a key    *)
(* never leads to a GIOPThread that is freed or was never made: the push   *)
(* of a request through the hash (giop_thread_request_push_key) cannot     *)
(* touch freed memory, whoever released which key before.                  *)
KeysOwned ==
  \A k \in Keys, t \in Threads :
    /\ hash[k] = t <=> k \in keys[t]
    /\ hash[k] = t => Live(t)

(* A thread of the pool that gave up its keys leaves no request behind:    *)
(* the check of its queues and the release of its keys are one critical    *)
(* section (giop_request_handler_thread), so that no request is pushed to  *)
(* a GIOPThread nobody will run again.                                     *)
NoOrphan == \A t \in Pool : pc[t] \in {"none", "free", "gone"} => queue[t] = <<>>

(* Where a request executes: its frame is on that thread's stack. *)
Executes(t, r) == \E i \in 1 .. Depth(t) : stack[t][i].item = r

(* Two requests with one key never execute on two threads at once, though  *)
(* the thread that serves a key changes each time it runs out of requests  *)
(* (the promise of the thread hints PER_OBJECT, PER_POA, PER_CONNECTION).  *)
PerKeySerial ==
  \A r, s \in Requests, t, u \in Threads :
    KeyOf[r] = KeyOf[s] /\ KeyOf[r] # NoKey /\ Executes(t, r) /\ Executes(u, s)
      => t = u

(* A thread sleeps on its condition only while it has nothing to do: its   *)
(* reply has not come and no queue holds what its policy lets it run.  The *)
(* condition is shared by replies, requests and asynchronous replies and   *)
(* by the nested waits of one thread, and is signalled once for each.      *)
NoLostWakeup ==
  \A t \in Threads :
    pc[t] = "asleep" => giop_thread_queue_empty(t) /\ ~ check_got(Top(t))

(* While the main thread polls, a byte is in the pipe whenever its queues  *)
(* hold anything, though one byte is read for many requests, requests are  *)
(* also served elsewhere, and a byte that does not fit is dropped.         *)
MainWillWake ==
  pc[Main] = "poll" /\ (queue[Main] # <<>> \/ async[Main] # <<>>) => pipe > 0

(* A thread that went to take work from its queues, because it saw some    *)
(* under its lock, still finds it when it holds the lock again, although   *)
(* first_valid_request searched the queue in between without the lock and  *)
(* the I/O thread appends to it: giop_thread_queue_process never unlinks a *)
(* request that is gone, and never runs empty for ever.                    *)
PopFindsWork ==
  \A t \in Threads : pc[t] = "pop" =>
    IF Policy(t) = NoPolicy THEN queue[t] # <<>> \/ async[t] # <<>>
    ELSE \E i \in 1 .. Len(queue[t]) : queue[t][i] = valid[t]

(* A request starts under a policy only if the policy allows its POA, also *)
(* in the handlers nested in the call the policy was pushed for            *)
(* (first_valid_request).                                                  *)
PolicyObeyed ==
  [][\A t \in Threads, r \in Requests :
       Executes(t, r)' /\ ~ Executes(t, r) /\ Policy(t) # NoPolicy
         => PoaOf[r] \in Policy(t)]_vars

(* A request that was queued is executed to its end. *)
Served == \A r \in Requests : req[r] = "queued" ~> req[r] = "done"

(* A call made by a handler or by other code returns: threads that wait    *)
(* for each other serve each other's requests meanwhile.                   *)
CallsReturn ==
  \A t \in Pool \cup {Main} :
    pc[t] \in {"check", "asleep"} ~> pc[t] \notin {"check", "asleep", "fetch", "pop"}

----------------------------------------------------------------------------
(***************************************************************************)
(* The refinement mapping to SerialDispatch: the order of a lane is that   *)
(* of the queue its requests are in, and a request is blocked while its    *)
(* frame is not the one whose code runs.                                   *)
(***************************************************************************)
Ahead(r, s) ==
  \E t \in Threads : pc[t] # "gone" /\ \E i, j \in 1 .. Len(queue[t]) :
    i < j /\ queue[t][i] = r /\ queue[t][j] = s

Before ==
  {p \in Requests \X Requests :
     /\ KeyOf[p[1]] # NoKey /\ KeyOf[p[1]] = KeyOf[p[2]] /\ PoaOf[p[1]] = PoaOf[p[2]]
     /\ Ahead(p[1], p[2])}

InCode(r) == \E t \in Threads : pc[t] = "code" /\ Depth(t) > 0 /\ Top(t).item = r

Lost(r) ==
  \E t \in Users : pc[t] = "gone" /\ \E i \in 1 .. Len(queue[t]) : queue[t][i] = r

PhaseOf(r) ==
  CASE req[r] \in {"fresh", "sent"} -> "fresh"
    [] req[r] = "queued" -> IF Lost(r) THEN "lost" ELSE "queued"
    [] req[r] = "running" -> IF InCode(r) THEN "running" ELSE "blocked"
    [] req[r] = "done" -> "done"

Phases == [r \in Requests |-> PhaseOf(r)]

Dispatch ==
  INSTANCE SerialDispatch WITH
    Bindable <- IF Users = {} THEN {} ELSE Keys, before <- Before, phase <- Phases

(* giop.c implements SerialDispatch: the thread that serves a key changes, *)
(* handlers nest and policies reorder, but no request is run twice, out of *)
(* the order of its key and POA, or beside another of its key.             *)
ImplementsDispatch == Dispatch!Spec
=============================================================================
