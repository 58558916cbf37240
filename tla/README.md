# A TLA+ development of mate-corba

mate-corba is a CORBA ORB in C: an object request broker with a GIOP protocol
engine (`src/orb/GIOP`), a link layer of non-blocking sockets (`linc2`), an ORB
core with object references, values and stubs (`src/orb/orb-core`), a portable
object adaptor (`src/orb/poa`), DynAny, a name service and an IDL compiler. This
directory holds TLA+ modules of it, the TLC configurations that check them on
small instances and proofs for every instance. Line numbers below are those of
the repository's files.

## The system and its parts

**Threads.** With threads on there are three sorts: the *I/O thread* runs the
link layer's main loop, reads and writes sockets and decodes messages; the
*main thread* runs the application's GLib main loop; *pool threads* run requests
for objects whose POA has a thread hint. Each thread has a `GIOPThread` with one
lock and one condition.

| part | state | operations | talks to | module |
|---|---|---|---|---|
| request dispatch (`giop.c`) | `giop_pool_hash`, per thread: keys, request queue, asynchronous entries, policies, wake-up pipe | push a request to a thread or key, serve the queue, free the thread | the I/O thread pushes, handlers run in POA code, stubs wait | `GiopThread` |
| replies (`giop-recv-buffer.c`, `matecorba-small.c`) | `giop_queued_messages` (calls that wait), one entry per call with its buffer, connection, callback; a connection's time-out | set up, send, wait, match a reply, zap a broken connection, time out | connection, dispatch | `GiopReply` |
| fragments (`giop-recv-buffer.c`) | per connection: the lists of pieces of unfinished messages | first piece, continuation, last; disposal | connection | `Fragments` |
| connection (`linc-connection.c`, `giop-connection.c`) | status, socket, write queue, watch, broken callbacks, the list of connections | initiate, connect, read, write, flush, disconnect | main loops, replies | `LinkConnection` |
| commands of the I/O thread (`linc.c`) | command queue, wake-up pipe, condition | push a command, run the queue | connection | `LinkConnection` |
| adaptor (`poa.c`, `poa-manager.c`) | POAs with life flags and held requests, objects with servants and use counts, managers | create, activate, deactivate, destroy, handle a request | dispatch, references | `Poa` |
| references (`corba-object.c`) | object table, profiles, a connection and a forward per reference | arrive, export, get connection, forward, release, shut the servers down | connection, adaptor | `ObjectRef` |
| DynAny (`dynany.c`) | a tree of values with a cursor | seek, next, insert, get, resize, destroy | values | `DynAny` |
| name service (`matecorba-name-server.c`) | contexts, bindings, iterators | bind, rebind, unbind, resolve, list, destroy | adaptor, references | `NameServer`, `Directory` |
| type codes and values (`corba-typecode.c`, `corba-any.c`, `allocators.c`) | memory described by a type code | encode, decode, copy, compare, free, edit | messages | `TypeCode`, `AnyValue` |
| profiles and strings (`iop-profiles.c`, `corba-loc.c`, `name-support.c`) | - | publish, encode, decode, copy, to and from text | messages | `IorProfile`, `NameString` |
| message headers (`giop-send-buffer.c`, `giop-recv-buffer.c`) | - | write, read | messages | `GiopMessage` |

**What is hard.** The condition of a thread is shared by replies, requests and
asynchronous replies, and its waits nest: a handler waits inside a handler. The
I/O thread and callers share calls that live on the callers' stacks. A
connection changes its state with its lock dropped, outlives its sockets, and
its pieces of messages with it. Requests are run by whichever thread owns the
key at that moment, and the owner frees itself. A POA is deactivated or
destroyed while requests are held or in a handler. The name server serves a
request inside another one that waits. References share one structure, one
connection and the ORB's profiles. A DynAny points into the memory of another
one. Values walk memory by the alignment of type codes that several makers
compute. The repository's tests (`test/everything`, `test/poa`, `test/test-giop.c`,
`test/test-dynany.c`, `test/timeout-client.c`) meet most of these orders
only by luck. `PROJECT.json` lists the hazards, each at its line with the
property that covers it or the reason why none does.

**How the modules stand to each other.** The modules with threads and those of
DynAny, the name service and references are state machines of their own; each
models what it uses of its neighbours by what they can do to it (the breaks of a
connection in `GiopReply` and `Fragments`, calls from the network in `Poa`).
`GiopThread` implements `SerialDispatch`, `LinkConnection` implements
`ByteStream`, `NameServer` implements `Directory`. `Conversions` composes the pure
algorithms: `GiopMessage`, `TypeCode`, `AnyValue`, `IorProfile` and `NameString`
meet in one message. They were written in the order of the sections below, the
behaviour that everything else depends on first.

## GiopThread: who runs a request

`GiopThread.tla` models `giop.c` and the part of `giop-recv-buffer.c` and
`poa.c` that touches a `GIOPThread`. `hash` is `giop_pool_hash`; `keys`, `queue`,
`async` and `stack` are the fields of a `GIOPThread` and the nesting of its
invocations; `pc` says where the thread is between two critical sections. One
action is one critical section or what runs between two of them, so that every
interleaving that the locks allow is a behaviour.

* The I/O thread: `PushMain`, `PushOwned`, `PushNew` (`giop_thread_request_push`,
  `giop_thread_request_push_key`), `Reply`, `AsyncReply`.
* A pool thread: `Begin`, `Fetch` (the search without the lock), `PopAsync`,
  `PopOldest`, `PopAllowed`, `Finish`, `HandlerLoop`, `giop_thread_free`.
* A thread that waits for a reply: `CallRemote`, `CallCrossThread`, `KeepWaiting`,
  `SpuriousWakeup`, `Return`.
* The main loop: `EnterLoop`, `HandleInput`, `Drain`, `OtherSource`.
* The application: `Bind`, `ThreadExit`, `CallAsync`, `giop_thread_key_release`.

`SerialDispatch.tla` is what this promises, without threads: requests of one key
never run at the same time, those of one key and POA start in order, each runs
once. Its state is which waiting requests of one key and POA came before which,
and what became of each request. `ImplementsDispatch` maps the first to the
places in the queues (`Before`), the second to the queues and stacks
(`PhaseOf`): a request is blocked while the frame that runs is another one.

| run | question | size |
|---|---|---|
| `thread_pool` | two pool threads, four requests that call each other: is anything orphaned, parallel, lost, stuck? | 37,659 states |
| `thread_main` | the main thread, a bound thread and policies: are tables, pipe and policies right? | 837,967 states |

Bounds: two requests of one key are the fewest that can overlap or overtake, a
third without key and a fourth for the main thread make a cycle of calls. Two
pool threads are the fewest between which a key can move. The pipe holds one
byte, so that a dropped byte happens at once. `MaxSync` bounds calls to other
processes; calls between threads are bounded by the requests.

Fairness (`FairSpec`): a thread that can take a step of the ORB's code takes it,
handlers return, the main loop is entered again (weak); a readable pipe is
served though other sources alternate with it (strong: GLib dispatches every
ready source of one priority in each iteration); the I/O thread decodes what was
sent and calls are answered. Nothing is assumed of spurious wake-ups, of
application threads, or of new requests.

`thread_main` does not check deadlock: the application may have nothing more to
do.

## GiopReply: an invocation and its reply

`GiopReply.tla` models an invocation from its connection to its return:
`giop_recv_list_*`, `giop_recv_buffer_get`, `giop_timeout*` and `handle_reply`
of `giop-recv-buffer.c`, the stubs of `matecorba-small.c`. `listed` is
`giop_queued_messages`, `ent` the `GIOPMessageQueueEntry` of a slot, `wire` the
requests that are on a connection's socket and not answered, `timer` the
`timeout_*` fields of a connection, `io` what the I/O thread is in the middle
of. A *slot* is an address: the stack frame of a synchronous invocation or the
memory of an asynchronous one. Request ids are such addresses
(`matecorba-small.c:643`), so the next invocation of a slot has the id of the
last one.

| caller | I/O thread |
|---|---|
| `GetConnection`, `Reconnected` (`MateCORBA_object_get_connection`) | `ReadReply` (the message is read), `HandleReply`, `Deliver` (`handle_reply`, in its two critical sections) |
| `Setup`, `SetupAsync`, `Arm`, `StartTimer`, `FiresFirst` (entry and time-out) | `Break`, `Connected` (the status, up to where the lock is dropped) |
| `Send`, `SendOneway`, `FinishOneway`, `SendFails` (the write) | `Zap`, `Notify` (`giop_recv_list_zap`, with and without the list lock) |
| `Overflow`, `WriterZap`, `WriterNotify`, `WriterReturns` (a writer over `max_buffer_bytes` breaks the connection and zaps it itself) | `TimerFires`, `TimedOut`, `SignalOwner` (`giop_timeout`) |
| `Check`, `SpuriousWakeup`, `TestTimer`, `StopTimer`, `StopMissesTimer`, `Leave` (`giop_recv_buffer_get`) | |
| `Callback`, `Reuse` (asynchronous) | |

A step that would use freed memory or a null pointer sets `crashed`, after
which the model stops. What a waiting thread does for others is in `GiopThread`.

| run | question | size |
|---|---|---|
| `reply_calls` | two callers, a UNIX and a TCP connection that break and are made again: does every invocation notice its end? | 241,283 states |
| `reply_mixed` | synchronous, oneway and asynchronous invocations with a time-out: is an entry used after its return, when is a timer lost? | 2,217,015 states |

Bounds: `MaxCalls = 2` in `reply_calls` lets the second invocation of a slot
meet what the first left behind; `MaxSockets = 2` lets a connection break and be
made again, which is when an entry of the old socket and one of the new exist
together. Two callers are the fewest that share a timer or a reconnection.

Two properties have exceptions, for the code does what they would forbid; each
is a history variable, set by one step and never reset.

* `EntryAlive`. A thread that holds the pointer to an entry uses it after its
  invocation returned when the invocation did not wait: a oneway that a
  deactivated object answers, a write that fails between a break and its zap,
  an asynchronous invocation that a zap finds as its write fails (`unwaited`).
  And the I/O thread does so in `handle_reply` when a writer breaks the
  connection between its two critical sections (`linc-connection.c:398`): the
  caller finds `LINK_DISCONNECTED` and leaves (`overflowed`). Both are reached
  in `reply_mixed`. A writer's disconnect also frees the connection's
  `incoming_msg` while the I/O thread may be reading into it
  (`giop-connection.c:29`); `Fragments`, where those buffers are, lets the I/O
  thread alone break a connection.
* `TimerRemovable`. `timeout_source_id` is written under the static mutex of
  `giop_timeout_add` and cleared under `timeout_mutex`. A caller that has its
  reply and stops the timer after another has reset `timeout_status` and before
  that has noted the id of its timer leaves a timer that nobody removes: its
  status is `LINK_TIMEOUT_NO`, so that later callers pass it by and
  `giop_timeout` returns TRUE for ever (`giop-recv-buffer.c:1382` counts on
  "the one who sets timeout_status"). Such connections are in `raced`. A timer
  that fires on a broken connection keeps its id and status (line 1372), and the
  next caller with a reply drops the connection's reference once more; one that
  fires before its id is noted (`FiresFirst`) leaves an id that keeps every
  later caller from setting one. Neither is in the loop then, so that the
  property does not speak of them.

`handle_reply` knows that a oneway invocation on a deactivated object may get a
bogus exception in reply (`giop-recv-buffer.c:1082`) and drops it when nobody
waits with its id; the next invocation of the same frame has the same id and
would take it for its own. The model does the same; no property forbids it.

Fairness: `Running` makes threads in the ORB's code and the I/O thread go on, a
`connect()` end and a set timer fire. `Answers` makes each two-way request of a
live connection be answered. Without it a time-out ends the wait of the thread
that set the timer only; others that wait on the same connection sleep on
(`giop_timeout`, line 1390), so `CallsEnd` needs it.

No reply run checks deadlock: an application that has made all its invocations
stops.

## LinkConnection: one connection and the I/O thread

`LinkConnection.tla` models `linc-connection.c` for one connection in
thread-safe mode, and the command queue of `linc.c`. Everything runs under
`link_main_lock`, but `link_connection_state_changed_T_R` drops the lock twice
in its midst (for the signal "broken" and for `klass->state_changed`) and is
called from the middle of a write, a flush, a reconnection and the socket's
handler. So each thread has a `stack` of the functions that go on after it, and
`lock` says who has got the lock back: a function that was called with the lock
goes on with it, while another thread may have run in between.

`cnx` is the `LinkConnection`: `status`, `tag` and `cond` (the watch), `queue`
and `bytes` (`write_queue`, `write_queue_bytes`), `inhibit`
(`inhibit_reconnect`), `was` (`was_disconnected`), `callbacks`, and `idle`, that
it is on `idle_broken_cnxs`; and of its socket the far end (`peer`), what came
in (`input`) and what went out (`sent`). `cmds` is `link_cmd_queue`.

* A thread of the application: `Writev` with `Queued`, `Disconnect`,
  `GetConnection`, `WaitConnected`, `Inhibited`, `TryReconnect`, `Reconnecting`.
* The main loop: `BrokenIdle`, `EmitBroken`.
* The I/O thread: `Poll`, then `IoHandler`, `HandleInput`, `Output`, `Flush`,
  `Flushed`, `Events`, `Connected`; `TakeCommands`, `RunCommand`; `Timeout`.
* Whoever changes the status: `Emitted`, `ClassReturned`.
* The far end, not part of the repository: `Answered`, `Closed`, `Sends`.

`ByteStream.tla` is what writers are promised: on one socket messages go out
whole and in the order they were accepted in. `StreamInOrder` maps its two
variables to `cnx.sent` and `cnx.queue`; a message is its `Size` parts.

| run | question | size |
|---|---|---|
| `link_writes` | two threads write to a TCP connection that blocks, exceeds `max_buffer_bytes`, times out and breaks: is the stream in order, is every queue written or dropped? | 795,950 states |
| `link_broken` | three threads and the main loop on a UNIX connection: do listeners hear of a break once, does each reconnection return? | 65,636 states |

Bounds: two parts are the fewest that can be written in part. A buffer of three
parts is exceeded by two messages that wait, and by a part that waits with a
message behind it. Two sockets are the fewest that can be mixed up, three let
the connection break again after a reconnection. The far end sends once per
socket, and `Disconnect` adds no second command while one waits: more of the
same would only repeat them.

Fairness: threads inside these functions go on, connects end, the I/O thread
runs (weak). `TakeCommands` and `BrokenIdle` are strong: other sources alternate
with them, and a GLib main loop dispatches every source that stays ready.
Nothing makes an application write, connect or disconnect.

`ReconnectEnds` is checked on UNIX sockets only. Over TCP it fails in the code:
a flush whose write failed disconnects with the lock dropped, another thread
reconnects, and the end of the flush (`linc-connection.c:1160`) sets the new
watch to input only, so that `G_IO_OUT` is never seen and everyone who waits for
the connection waits for ever. The hazard is listed with this note.

Left out: reference counts and disposal (`Fragments` has what keeps a
connection), SSL, the mode without an I/O thread, the signal "blocking", writes
by the I/O thread itself (which run their commands at once), listeners that are
added later, other connections on `idle_broken_cnxs`, the synchronous commands.

## Poa: objects, their servants and their adaptors

`Poa.tla` models `poa.c` and `poa-manager.c`. `obj` is what `oid_to_obj_map`
holds for an object id: the servant, `use_cnt`, the reference count and the life
flags of a `MateCORBA_POAObject`; an object that was freed during a traversal is
"dead" until `remove_cb`. `poa` holds the life flags of a POA, `lock` its mutex,
`held` whether `held_requests` is not empty, `objref` whether the application
has the `CORBA_Object`, `manager` the state of the one POA manager. `stack` is
what each thread has still to do: a method or a finalizer runs with the lock
dropped, and the function that called it goes on afterwards.

| code | actions |
|---|---|
| `PortableServer_POA_activate_object_with_id`, `_deactivate_object`, `_create_reference`, `_servant_to_reference`, `CORBA_Object_release` | `Activate`, `Deactivate`, `CreateReference`, `ReleaseReference` |
| `MateCORBA_POA_handle_request` | `Lookup`, `Found` |
| `MateCORBA_POAObject_handle_request`, up to the method and after it | `HandleRequest`, `Refuse`; `MethodReturns` |
| `MateCORBA_POAObject_invoke_incoming_request`, at its end | `Release` |
| `MateCORBA_c_stub_invoke` | `CallDirect`, `DirectReturns` |
| `MateCORBA_POA_deactivate_object_T` | `DeactivateObject` (in the actions that call it), `FinalizerReturns` |
| `MateCORBA_POA_deactivate` | `Visit` (an object), `Visited` (the end) |
| `PortableServer_POA_destroy`, `MateCORBA_POA_destroy_T_R` | `Destroy`, `DestroyChild`, `DestroySelf` |
| `PortableServer_POAManager_*` | `ManagerActivate`, `ManagerTurns`, `ManagerDeactivate`, `DeactivateNext`, `ManagerReturns` |

The process ends at the first failed assertion and nothing is to be said of one
that uses freed memory, so the model stops there, and `crash` says why:

| `crash` | in the code |
|---|---|
| `freed`, `unreferenced` | an object is used after it was freed; `do_unref` of an object without references |
| `released_active` | `g_assert (pobj->servant == NULL)` in `release_cb` |
| `reactivated` | an assertion of `activate_object_T`: the POA is to be deactivated, or the object is used |
| `null_servant` | the default servant of a destroyed POA, or a servant that a locator's other call took away |
| `modified` | `oid_to_obj_map` grows while it is traversed |
| `held_buffer` | a request that was held is handled after its buffer was freed |
| `not_locked` | the manager's deactivation drops a lock it does not hold |
| `wait` | `g_assert (done || !wait_for_completion)` |

All of them are reached. The invariants speak of what comes before.

| run | question | size |
|---|---|---|
| `poa_objects` | two threads, two objects, two servants, a POA below the root, four policies: do use counts and references agree with who uses an object, does a servant outlast its calls, is what was put off done? | 3,768,407 states |

Bounds: two threads are the fewest that can race, and a thread's stack holds a
destruction within which a finalizer runs. The objects are in the child, so that
one traversal meets an idle and a busy object, and the root shows the order of
destruction. Two servants let one be finalized while the other serves. The
policies are the active object map, a default servant with and without
retention, and a servant locator; a servant activator satisfies the same
invariants (over 8 million states, three minutes) and is left out of the run for
its size. `CallsKeepServant` excepts servant locators, where the first of two
calls to return takes the servant of the other; `FinalizedUnused` excepts
default servants, which many objects share. Both speak of calls through the POA:
a stub of the same process calls the servant without `use_cnt` (the code that
counted is commented out, `poa.c:2626`), and another thread's deactivation
finalizes the servant during such a method, though the comment at `poa.c:1046`
promises to wait for it.

Calls made from methods and finalizers are calls of another thread that end
sooner. `use_cnt` of a POA is never changed by the code and is not modelled.
Left out: creation and memory of POAs, the life cycle lock, the accessors,
`IsCleanup`, exits of failed preconditions, which keep the lock. Servants have
a finalizer, as those of generated skeletons do. An application does not
activate a servant that is being finalized. No run of `Poa` checks deadlock: an
application may stop, and the model stops at a crash.

## Fragments: messages in pieces

`Fragments.tla` models how `giop-recv-buffer.c` collects the pieces of messages,
and what keeps a connection alive. `incoming` is `incoming_msg`, `frags` the
lists of `incoming_frags` by the id of their first piece, `using` the messages
that the program has, `freed` the buffers that were freed, `refs` the references
to the connection: one of its owner, one of each buffer. A connection outlives
its socket, and ids come again.

| code | actions |
|---|---|
| `giop_connection_handle_input`, the header is read | `ReadFirst`, `ReadNext` |
| `handle_message` and `giop_recv_buffer_handle_fragmented` with `giop_connection_add_frag`, `giop_connection_get_frag`, `concat_frags`, `giop_connection_remove_frag` | `HandleWhole`, `HandleHead`, `HandleMore`, `HandleLast` |
| `giop_recv_buffer_unuse` | `Unuse` |
| `giop_connection_dispose`, `giop_connection_destroy_frags` | `Dispose` |
| the link layer (external) | `Break`, `Reconnect`, `LetGo` |

| run | question | size |
|---|---|---|
| `fragments` | two ids, messages of up to three pieces, two sockets, both kinds of peers: is what is joined one message, is a buffer freed in use, does the connection go when nothing is left? | 2,204,134 states |

Bounds: three pieces have a first, a middle and a last. With four messages each
id comes again over the second socket, with and without a list that the first
one left. The peer keeps to the protocol.

What `WholeHere` leaves out is so in the code: a list survives the socket it
began on, so that after a reconnection a message in pieces with the same id is
joined to it (`giop-recv-buffer.c:842`). Because each listed buffer refers to the
connection, a connection with an unfinished message is never disposed, and what
`giop_connection_destroy_frags` would free is never there; `GoesClean` says so.

## ObjectRef: references and their connections

`ObjectRef.tla` models `corba-object.c` with the servers and the shutdown of
`corba-orb.c`. `registry` is `orb->objrefs`: an entry has the hash it was filed
under, the structure its key points to and the one that is its value. `object`
holds the fields of a structure; a list of profiles is the ORB's own of some
start of the servers (`of`) or one of the structure. `call` says where a thread
is in `MateCORBA_object_get_connection`, which drops `OBJECT_LOCK` while it
waits.

| code | actions |
|---|---|
| `MateCORBA_objref_new`; `MateCORBA_RootObject_duplicate`, `CORBA_Object_release` | `CreateLocal`; `Duplicate`, `Release` |
| `MateCORBA_demarshal_object` with `objref_find` | `Arrives` |
| `IOP_generate_profiles` with `MateCORBA_ORB_start_servers`, `MateCORBA_register_objref` | `Export` |
| `MateCORBA_objref_get_proxy` | `GetProxy` |
| `MateCORBA_object_get_connection`, `MateCORBA_try_connection_T` | `Begin`, `Wakes` |
| `MateCORBA_handle_location_forward` | `LocationForward` |
| `MateCORBA_ORB_shutdown_servers` | `Shutdown` |

| run | question | size |
|---|---|---|
| `refs` | two threads, two structures, a remote server with two addresses that forwards one object to another, a local object, servers started twice: is the table sound, is an object one structure, are shared profiles alive? | 6,185,606 states |

Bounds: two structures are the fewest of which one can take the place of the
other in the table; a UNIX and a TCP address of one host make a failed UNIX
socket skip the other; a second start of the servers gives the ORB other
profiles than the ones that structures may still have. An address is assumed to
be of one server (`ServerAssumption`).

`fault` says where the process ends: `connection` is the assertion
`corba-object.c:284`, which fails when two threads wait for the first address of
one object and the first of them has gone on to the second; `profiles` the
assertion of `IOP_generate_profiles` after a shutdown; `freed` and `null` are uses
of freed profiles and of a missing key. All are reached; the invariants speak of
what comes before. The comment "We already ensure uniqueness of the CORBA_Object
structure" (line 478) holds up to proxies, whose release takes the entry of the
original out of the table, and forwards that are followed, which replace the
value of an equal structure's entry: `UniqueHere` excepts their keys (`split`).
Left out: counts of connections, `is_a`, corbaloc strings (in `IorProfile`).

## NameServer and NameString: the name service

`NameServer.tla` models `matecorba-name-server.c`: contexts with their tables of
`RegisteredName` structures, and the iterators that list them. The server has
one thread, but asks a bound object whether it still exists and serves other
requests while it waits for the answer: `calls` is the stack of requests that
wait this way, and `Resume` goes on with the innermost.

| code | actions |
|---|---|
| `bind`, `bind_context`, `bind_new_context`, `rebind`, `rebind_context` | `BindName`, `BindContext`, `BindNewContext`, `Rebind` |
| `unbind`, `resolve` | `Unbind`, `Resolve` |
| what they do after `CORBA_Object_non_existent` | `Resume` |
| `new_context`, `destroy` | `NewContext`, `Destroy` |
| `list`, `next_n`, `next_one`, the iterator's `destroy` | `List`, `Next_n`, `IteratorDestroy` |
| the answer of `CORBA_Object_non_existent` | `ExistsAnswers` |

`Directory.tla` is what clients are promised, without structures, counts and
requests inside each other's waits: what is bound to a name changes only when it
is bound or unbound, one name by one request; a context that is destroyed loses
all its names and takes no more; whoever lists a context is told, bit by bit, what
it held at that moment, in some order. `ImplementsDirectory` maps the structure in
a table to the object and kind it holds (`Entries`) and the structures an iterator
still has to those that are to be told (`Unread`), which reads through pointers: a
structure freed too early and allocated for another name shows. A crash (below)
is the end of a behaviour and promises nothing more.

`NameString.tla` is `name-support.c`: a name as text, with its escapes.

| run | question | size |
|---|---|---|
| `names` | two contexts, two objects of other servers, two names, one listing, requests inside another's wait: are bindings counted right, is a listing complete, do clients see a directory? | 63,233 states |

Bounds: two names are the fewest a listing can mix up, two bindings let one be
freed and allocated again for another name, and one request that waits lets
every other operation happen inside its wait.

Clients keep to the rules (`Careful`): none calls a context or an iterator that
it knows destroyed, whose servant is freed but stays active, and none calls
`next_one` on an iterator that was read to its end, which hands out NULL. With
`Careful = FALSE` both crash. `crashed` is also reached by a careful client: a
resolve that waits returns the object of a binding that may have been freed
meanwhile. The finalizers at exit, options and signals are left out.

`CORBA_Object_non_existent` asks for a connection, not for the object
(`corba-object.c:464-474`): no is also the answer where a connection to a living
server cannot be made, and yes where the end of a dead one was not noticed. So
`ExistsAnswers` are both, whatever became of the server, and no property says that
the name of a living object is kept: the code does not keep it. `bind` unbinds
whatever stands under the name after its wait, as `ImplementsDirectory` allows.

## DynAny: values and components

`DynAny.tla` models `dynany.c`: `dyn` holds the objects (`any`, `idx`, `parent`,
`children`, whether the value is its own and where it points to), `store` the
values that objects own, as trees of `Leaf` and `Parts`. Each operation of the
interfaces `DynAny`, `DynEnum`, `DynStruct`, `DynUnion`, `DynSequence` and
`DynArray` that changes state is an action; `Raise` keeps the exception in `ev`
and every early return is a disjunct. A component points into its parent's
value, so replacing or shrinking that value must tell it (`dynany_invalidate`).

| run | question | size |
|---|---|---|
| `dynany_values` | a struct with a sequence, an enum, a union, an alias; a value, its component and a component of that: are values well-typed, do parents and components know each other, is freed memory used? | 447,235 states |

Bounds: three objects are the shortest chain in which something in the middle
goes; sequences of up to two elements grow, shrink and empty; two values that
own their memory let one be assigned to the other.

`MemorySafe` is claimed for applications that follow the three rules its comment
names (`Careful`). Without them the code reads freed memory: the comment at
`dynany.c:124` says that a value stays valid as long as its object lives, which a
sequence's `set_length` breaks for components. It frees the buffer they look into
(`Moved`), and where it shrinks below one of them, its loop reads the link that
`dynany_invalidate` has just removed from the list and freed
(`dynany.c:2014-2019`, `151-153`): the model stops there (`"list"`), and goes on
only where the loop takes nothing away (`Shrunk`).

`set_members` and `set_elements` look at all that they are given before they write
any of it, in one call of one thread, so that one action stands for the check that
fails and one for the write. That a failing call changes no value holds by the
order of the two loops, and is no property of a run.

What a component sees is an owner and a path of positions (`root`, `path`);
`Follow` and `Put` read and write at the end of one. A view whose buffer was
overwritten in place by a copy (`Cut`) keeps the old buffer, which is never
freed (`leaked`): what it holds then is any value of its type. A transfer from
other DynAnys (`Transferred`) copies one after the other, and each copy reads what
the ones before it left; `set_elements_as_dyn_any` invalidates before it reads,
so that an element below the destination has lost its any when its value is asked
for (`dynany.c:1934-1943`), while `set_members_as_dyn_any` reads first.

Three assumptions say what the IDL compiler makes of types: how many parts each
kind has (`PartsAssumption`), that no type is a part of itself
(`NoTypeInItself`), and that what the application gives is of the type it names
(`GivenAssumption`).

## Conversions: values, references and names in a message

Five modules of operators model the pure algorithms, which `Conversions.tla`
composes: a program writes a header and parts behind each other into one message
(`Write`, `Send`), another reads them (`Read`), copies them (`CopyAny`,
`CopyRef`), edits the sequences among them (`AppendElement`, `RemoveElement`,
`Shorten`, `Lengthen`, `Concat`) and frees them (`Free`, `FreeCopy`). What is
read depends on everything before it, by its alignment and by the type codes
that are shared.

* `TypeCode.tla` (`corba-typecode.c`, the `create_*_tc` of `corba-orb.c`): a
  message is a sequence of cells at offsets; alignments, the lengths of
  encapsulations and the offsets of repeated type codes are computed as in the
  code, structures are shared by `ptr` and counted.
* `AnyValue.tla` (`corba-any.c`, `allocators.c`): memory is a function of
  offsets. `Laid` is where a C compiler puts members; `marshal_value`,
  `demarshal_value`, `copy_value_core`, `value_equivalent`, `freekids` walk it
  with the sizes and alignments of the type codes.
* `IorProfile.tla` (`iop-profiles.c`, `corba-loc.c`): the profiles of servers,
  their encoding with every component, keys, copies, `IOR:` strings, corbalocs.
* `GiopMessage.tla` (`giop-send-buffer.c`, `giop-recv-buffer.c`): the headers of
  each message of GIOP 1.0, 1.1 and 1.2.

| run | question | size |
|---|---|---|
| `messages` | every header with one or two parts out of values of all kinds, references with all profiles and components, and names: is read what was written, do copies stay, does freeing come by every pointer once and by nothing else, is a type code alive just while it is used or leaked? | 391,684 states |

Bounds: two parts let each be first and second behind every alignment and every
shared type code; a chunk of two elements makes a sequence of three grow while
it is read; one copy, edits up to two elements, and `MaxLeaks` = 4 references
leaked by edits, which is two edits and the concatenation of an element.

`FreesAll` looks at the order in which `freekids` comes by slots: each pointer
once, and nothing that is none. The code clears a slot it has freed, so that
coming by again does nothing; the property asks for more. Values are trees here,
so that a block shared by two slots, as between a copy and its original, cannot
be expressed.

`MateCORBA_sequence_set_size`, `_append`, `_remove` and `_concat` ask the sequence
for its type by `MateCORBA_alloc_get_tcval`, which takes a reference
(`allocators.c:356`), and never give it back: each call leaks one, a concatenation
one more for each element. `leaked` keeps these, and `TypesCounted` says that they
are all that leaks: any other structure of a type code goes with the last value
that uses it. The references of blocks to their own type codes
(`MateCORBA_alloc_tcval`), which come and go with them, are not counted.

Where the code differs from what one would expect, the samples stay clear of it
and the operators still say what it does: type codes made by
`CORBA_ORB_create_*_tc` have no alignment (the samples have the compiler's);
unions whose discriminator is an alias, a long long or a wchar end the process,
and unsigned labels from the sign bit up never match; the walk that frees a union
whose arms are narrower than its alignment, as one of a long with only an octet,
ends before the union does (`allocators.c:87`, where the comment of line 10 says it
ends with it), so that in a struct of it, an octet and a string the octet's place
is freed as a string, which `FreesAll` shows with such a sample; the size of a union
is aligned for its last arm that is wider than the one before it, which is too
small for a double, nine octets and a short (`corba-any.c:75-92`); `value_equivalent` knows no
wide strings and compares no nested any; recursive type codes end in `g_error`;
a profile of version 1.0 is written with components that are not read
(`Delivered`); the copy of a reference has its profiles reversed (`RefKept` asks
for the same places in any order); a corbaloc of two places does not parse back,
and an SSL profile loses its plain port in it; sequences of octets as they are
received have another prefix than `realloc` expects (`Editable`); a component of
a name that consists of escaped characters only is lost when the name is read.

## Proofs

All theorems hold for every value of the constants that satisfies the named
assumptions of the modules, which TLC evaluates in the runs.

**`GiopThread_proofs`** proves `TypeCorrect` (`Spec => []TypeOK`),
`KeysAlwaysOwned` (`KeysOwned`) and `NoWakeupLost` (`NoLostWakeup`). `TypeOK` is
not inductive: the element that is taken from the queue under the lock must
still be there (`Found`), which holds because every other step only appends to a
queue (`OnlyAppended`), and a step that touches the innermost frame needs one
(`Framed`). `Typed` is their conjunction. `NoLostWakeup` needs `UndisturbedSleep`,
what a step may do to a thread that sleeps.

The second part of the module proves `WorkFound` (`PopFindsWork`),
`NothingOrphaned` (`NoOrphan`) and `MainIsWoken` (`MainWillWake`). All rest on how
waits nest: `Nested` relates the stack of a thread to its `pc`, `Busy` says that a
thread which saw work has it, `Quiet` that a thread that ended has none.

The last part proves `OneThreadPerKey` (`PerKeySerial`), `PolicyKept`
(`PolicyObeyed`) and `ImplementsSerialDispatch` (`Spec => ImplementsDispatch`).
`Serial` says where a request of a key can be: in the queue of the key's owner or
begun by it (`Lined`, `Engaged`), and in one place only (`LinedOnce`,
`EngagedOnce`). `Chosen` carries what the search found under a policy to the moment
it is popped. The refinement needs two facts more (`Waiting`): a request that is
queued is in some queue (`Queued`), so that whoever accepts another one of its
lane appends it behind it, and what was found under a policy is the oldest for
its POA (`Foremost`), so that taking it from the middle of a queue is in order.
Each step is one step of `SerialDispatch` (`AcceptStep`, `StartStep`, `WaitStep`,
`ReturnStep`, `FinishStep`, `LoseStep`) or none of it (`SameDispatch`).

**`GiopReply_proofs`** proves `TypeCorrect`, `TimersRemovable`
(`TimerRemovable`), `NothingLost` (`NoLostReply`) and `EntriesAlive`
(`EntryAlive`), for any mixture of synchronous, asynchronous and oneway
invocations. `Timers` is the
invariant of time-outs. The last two rest on `Once` and `Safe`. `Once`: an entry that a thread holds or
that is posted is not on the list, and no two threads hold it. `Safe`: the caller
cannot leave between the two critical sections of `handle_reply`, because its
entry is empty and its connection up (`EntriesOpen`, `Quiet`, `FillingStays`);
that it was not already on its way out needs a fact about the wire
(`NoneExpected`); `Reachable` and `ZapComes` carry `NoLostReply` across the check
that precedes a wait.

**`LinkConnection_proofs`** proves `TypeCorrect`, `ListenersHearOnce`
(`HeardOnce`) and `StreamKept`: `Spec => StreamInOrder`, that the connection
implements `ByteStream`. Its invariant says what the socket of each status has
(`Settled`), which frames can lie below which (`Layered`), that a callback that
was dispatched is in no list (`Once`), and, for the refinement, that a message
number is used once (`Fresh`). Each step maps to a stutter, to a message
accepted, to a part transmitted or to a new socket (`StepRefines`).

**`Fragments_proofs`** proves `Typed`, `WholeMessages` (`WholeHere`),
`NothingFreedInUse` (`HeldNotFreed`) and `ConnectionGoesClean` (`GoesClean`). The
first invariant says of every list over the present socket that it is the
beginning of the message the peer is sending (`Found`, `Current`), that in
version 1.1 at most one message and one list are open (`OneOpen`, `OneList`), and
that pieces come from messages of the peer (`FromPeer`). The second (`Buffers`) says
that a buffer is in one place (`Apart`), since a piece that is read is none of those
before (`Numbered`), and that the references to the connection are the set of buffers
held and the owner (`Counted`).

**`Poa_proofs`** proves `TypeCorrect`, `CallsKeepTheirServant`
(`CallsKeepServant`), `FinalizedNotUsed` (`FinalizedUnused`),
`DeactivationNotForgotten` (`DeactivationPending`) and `ReferencesCounted`
(`RefsCounted`). While no assertion has failed, `Sound` holds: the use count of an
object is the number of frames that use it, over all stacks; a deactivation that
was put off has a frame that will finish it; references balance; a servant that
is being finalized is in no call (`Apart`), and under a locator stacks are as
short as the code makes them (`Bare`). After a crash only `FinalizedUnused`
remains. `Shaped` describes what can lie above what on a stack. `Stepped` and
`Calling` say once what a step of one thread on one object must keep; the lemma
of each action shows that it is such a step. The whole invariant was checked
with TLC on the instance of `poa_objects` before it was proved.

**`ObjectRef_proofs`** proves `TypeCorrect`, `TableSound` (`RegistrySound`),
`OneStructure` (`UniqueHere`) and `SharedProfilesLive` (`SharedListLives`). An
entry of the table is of structures that are alive, under the key they have now,
and there is at most one of each object (`Entries`). That needs
`ServerAssumption`: an address is of one server, so that lists of profiles which
share an address with a third one share one with each other; else "a profile in
common" is no equivalence, and what the hash table does is chance. A structure
that alone stands for its object is in the table (`Listed`), an unproxied one
with addresses of this process is local (`OwnHere`), threads that wait hold a
structure that is alive (`InCalls`). `OneStructure` follows: two such structures
would be two values of one entry.

**`NameServer_proofs`** proves `TypeCorrect`, `BindingsCounted` (`RefsCounted`),
`ListingsWhole` (`ListedOnce`) and `KeepsPromise` (`Spec => ImplementsDirectory`) from one invariant, `Right`. A
structure is bound to one key at most (`OneKey`) and filed under its own name
(`Named`), so that a handler which changes one binding changes one count
(`Counted`). What is counted is not freed; so what a listing has still to tell
keeps its name while it waits (`Reading`), and what a waiting request found
keeps its object as long as it is not freed (`Remembered`). `Right` speaks of a
table, structures, listings and requests, not of the variables: handlers are
composed of a few changes (a name is unbound, a structure inserted, a listing
opened or read on), with one lemma for each, which hold between two steps of a
handler too. `Names` and `Listings` must be finite, since references to them are
counted. For the refinement a change must keep what everything else stands for
(`UnboundKeeps`, `InsertedKeeps`): what a table or a listing points to is
counted, so it is not freed by the change (`EntriesSteady`, `UnreadSteady`) nor
the new structure. Each step is then one step of `Directory` or none (`PutStep`,
`TellPromised`, `StepPromised`); that a listing in any order of the bindings is
one of the names needs `OneKey` and `Named` (`ListedInOrder`).

**`DynAny_proofs`** proves all three properties of the run, `ComponentsKnown`
(`ParentKnows`), `ValuesKeepTypes` (`ValuesTyped`) and `CarefulIsSafe`
(`MemorySafe`), and what they rest on: `NoViewOutlivesValue` (an object that has
an any looks into the value of one that exists and owns it, up to the first use
of freed memory, whatever the application does), `ChildrenLive` and
`ComponentsFindValues` for a careful one, and `CopyIsEqual`.

Its first part is about objects. What is below an object (`Below`) is the least
set closed under children, so no induction over depth is needed: an object that
lives has its parent there (`BelowLiveParent`), and since every set of objects has
one whose parent is outside (`Forest`), no object is below itself
(`NotBelowItself`), and what `dynany_invalidate` and the end of a value reach is
exactly what looks into it (`OnlyItsOwn`). `Right` joins this with the links
(`Linking`), the roots of views (`Roots`) and what careful applications keep
(`Listed`, `Viewed`); operations are composed of new objects (`MasterRight`,
`LinkedRight`), cuts (`CutRight`), releases (`RemovedRight`) and assignments
(`OwnedRight`).

The second part is about values. `ValuesTyped` alone is not inductive: a write
through a component keeps the type of the owner's value only if the component
still says the type of the place it writes to. `Typed` adds that: the path of
every object leads from the value of its owner through parts that are there
(`Leads`) to a part of its type, owners stand at the empty path, the cursor of an
array is within it. A write at a path keeps the type of the whole value
(`PutTyped`) and leaves all other paths their way (`StillLeads`) if it spares
them: they do not go on behind it, or what is written has as many parts and no
sequence is further behind (`Spares`), since only sequences of one type differ in
how many parts they have (`SameWidth`). That is what `CutOff` and the rule about
`set_length` are for; a transfer needs it after each of its copies (`Halfway`).
`AlwaysReadable` and `AtCursor` follow, which exclude each use of a value as
another type. TLC checked `Typed` on the instance of `dynany_values` first.

`Real`, `Values`, `Default` and `Copy` are functions defined by recursion over
types, and `Along`, `TypesAlong`, `Put` and `Transferred` hold some over numbers.
Their equations are proved: there is a solution up to each number or type, since
there is no least one without (`LeastNumber`, from the well-foundedness of `<`;
`LeastType`, which is `NoTypeInItself`), and two solutions agree (`OneSolution`,
`WholeDefined`, `AlongDefined`, `PutDefined`, `TransferredIs`). In the same way
what they compute is of its type (`DefaultTyped`, `CopyTyped`) for every type.

**Model-checked only.** Liveness (`NoLostWakeup` is safety; `Served`, `CallsReturn`,
`CallsEnd`, `QueueFlushed`, `ReconnectEnds` are liveness) is out of the prover's
reach, and so is what RECURSIVE operators compute, with which the five modules
under `Conversions` are written: `MessageKept`, `CopiesKeep`, `FreesAll` and
`TypesCounted`. For these there is TLC, whose instances are small but complete.

## Not modelled

The IDL compiler and the C it generates (a batch translation), the primitives of
sockets and of SSL (the operating system's), the loading of modules and the IMR,
options and initial references of the ORB object (text and tables), the
acceptance of connections (it makes a connection in the state CONNECTED, which
`LinkConnection` starts from on its own), the prefixes of memory blocks. Of the
parts that are modelled, the sections above and the notes in `PROJECT.json` say
what is left out.
