-------------------------------- MODULE Poa --------------------------------
(***************************************************************************)
(* Portable object adaptors (orb/poa/poa.c, poa-manager.c): objects that   *)
(* are activated, called, deactivated and released, and POAs that are      *)
(* deactivated and destroyed while calls run in them.                      *)
(*                                                                         *)
(* A thread holds the lock of a POA while it works in it, and drops it for *)
(* a method and for a servant's finalizer.  What it must still do stands   *)
(* on its stack.  A call from within a method or a finalizer is a call of  *)
(* another thread that ends sooner.  The process stops at the first        *)
(* assertion that fails and at the first object that is freed while it is  *)
(* still to be used: crash says which.                                     *)
(***************************************************************************)
EXTENDS Naturals, Sequences, FiniteSets

CONSTANTS
  Poas,        \* with one POA manager
  Parent,      \* the parent_poa of a POA, NoPoa for the first
  NoPoa,
  Oids,        \* object ids, an object is known by its id
  Home,        \* the POA of an object id
  Servants,
  DefaultServant,
  NoServant,
  Threads,
  Nobody,
  Policies     \* request processing and servant retention the POAs may have

ASSUME PoasAssumption ==
  /\ NoPoa \notin Poas
  /\ Parent \in [Poas -> Poas \cup {NoPoa}] /\ Home \in [Oids -> Poas]
ASSUME ServantsAssumption ==
  /\ DefaultServant \notin Servants
  /\ NoServant \notin Servants \cup {DefaultServant}
ASSUME ThreadsAssumption == IsFiniteSet(Threads) /\ Nobody \notin Threads
ASSUME PoliciesAssumption ==
  /\ Policies \subseteq [process : {"map", "default", "manager"},
                         retain : BOOLEAN]
  /\ [process |-> "map", retain |-> FALSE] \notin Policies

VARIABLES
  policy,      \* p_request_processing, p_servant_retention
  manager,     \* the state of the POA manager
  poa,         \* life_flags of a POA; Orphan: default_servant was set to NULL
  held,        \* a POA has held_requests
  lock,        \* the thread that holds the lock of a POA
  obj,         \* the objects in oid_to_obj_map
  objref,      \* the application holds the CORBA_Object of an object
  stack,       \* of a thread, the innermost function first
  crash

vars == <<policy, manager, poa, held, lock, obj, objref, stack, crash>>

AllServants == Servants \cup {DefaultServant}
Children(p) == {c \in Poas : Parent[c] = p /\ "Destroyed" \notin poa[c]}
HasChildren(p) == Children(p) # {}

Absent == [state |-> "absent", servant |-> NoServant, use |-> 0, refs |-> 0,
           flags |-> {}]
Created(refs) == [Absent EXCEPT !.state = "live", !.refs = refs]

At(t, where) == stack[t] # <<>> /\ Head(stack[t]).at = where
On(t, where, o) == At(t, where) /\ Head(stack[t]).oid = o
goto(t, frames) == stack' = [stack EXCEPT ![t] = frames]
frame(where, o) == [at |-> where, oid |-> o]
running(where, o, kind, s) ==
  [at |-> where, oid |-> o, kind |-> kind, servant |-> s]

Unlocked(p) == lock[p] = Nobody
Die(why) == /\ crash' = why
            /\ UNCHANGED <<policy, manager, poa, held, lock, obj, objref, stack>>

Init ==
  /\ policy \in Policies
  /\ manager = "HOLDING"
  /\ poa = [p \in Poas |-> {}]
  /\ held = [p \in Poas |-> FALSE]
  /\ lock = [p \in Poas |-> Nobody]
  /\ obj = [o \in Oids |-> Absent]
  /\ objref = [o \in Oids |-> FALSE]
  /\ stack = [t \in Threads |-> <<>>]
  /\ crash = "no"

-----------------------------------------------------------------------------
(* Reference counts *)

(* What is left of an object that loses a reference.  While its POA is     *)
(* deactivated the map is traversed, and the object is only marked.        *)
Unreffed(r, p) ==
  IF r.refs > 1 THEN [r EXCEPT !.refs = @ - 1]
  ELSE IF "Deactivating" \in poa[p] THEN [Absent EXCEPT !.state = "dead"]
  ELSE Absent

(* The object of the application's reference, and those of frames that go  *)
(* on to use them.                                                         *)
Referred(o) ==
  \/ objref'[o]
  \/ \E t \in Threads : \E i \in DOMAIN stack'[t] :
       /\ stack'[t][i].at \in {"found", "request", "method", "final", "release"}
       /\ stack'[t][i].oid = o

UnrefCrash(o, r) ==
  IF r.refs = 0 THEN "unreferenced"
  ELSE IF r.refs > 1 THEN "no"
  ELSE IF r.servant # NoServant THEN "released_active"
  ELSE IF Referred(o) THEN "freed"
  ELSE "no"

Unref(o, r) ==
  /\ crash' = UnrefCrash(o, r)
  /\ obj' = [obj EXCEPT ![o] =
               IF UnrefCrash(o, r) = "no" THEN Unreffed(r, Home[o]) ELSE r]

(* Servants that stand in an object, and those whose finalizer runs. *)
Incarnating == {obj[o].servant : o \in Oids} \ {NoServant}
Finalizing ==
  {Head(stack[t]).servant : t \in {u \in Threads : At(u, "final")}}

-----------------------------------------------------------------------------
(* Deactivation of an object.  With the lock held; object r is o as the    *)
(* caller has left it, and the caller goes on with frames.                 *)

Idle(r) == FALSE
Busy(r) == r.use > 0

Marked(r, etherealize) ==
  IF etherealize /\ "DeactivateDo" \notin r.flags
  THEN [r EXCEPT !.flags = @ \cup {"DoEtherealize"}] ELSE r

(* The deactivation is put off until the object is not used. *)
Wanted(r) == [r EXCEPT !.flags = @ \cup {"DeactivateDo"}]
PutOff(r) == [r EXCEPT !.flags = @ \cup {"DeactivateDo", "NeedPostInvoke"}]

(* The object counts as used, so that it is not activated again, while the *)
(* servant is finalized.                                                   *)
Finalized(r) == [r EXCEPT !.servant = NoServant, !.use = @ + 1]

DeactivateObject(t, o, r, etherealize, frames) ==
  LET m == Marked(r, etherealize)
  IN \/ /\ r.servant = NoServant
        /\ obj' = [obj EXCEPT ![o] = r]
        /\ goto(t, frames)
        /\ UNCHANGED <<lock, crash>>
     \/ /\ r.servant # NoServant /\ Busy(r)
        /\ obj' = [obj EXCEPT ![o] = PutOff(m)]
        /\ goto(t, frames)
        /\ UNCHANGED <<lock, crash>>
     \/ /\ r.servant # NoServant /\ ~Busy(r) /\ "DoEtherealize" \in m.flags
        /\ obj' = [obj EXCEPT ![o] = Finalized(m)]
        /\ goto(t, <<running("final", o, "local", r.servant)>> \o frames)
        /\ lock' = [lock EXCEPT ![Home[o]] = Nobody]
        /\ UNCHANGED crash
     \/ /\ r.servant # NoServant /\ ~Busy(r) /\ "DoEtherealize" \notin m.flags
        /\ goto(t, frames)
        /\ Unref(o, [m EXCEPT !.servant = NoServant,
                              !.flags = @ \ {"DeactivateDo"}])
        /\ UNCHANGED lock

(* The finalizer returns.  A traversal goes on with the lock. *)
FinalizerReturns(t) ==
  /\ At(t, "final")
  /\ UNCHANGED <<policy, manager, poa, held, objref>>
  /\ LET o == Head(stack[t]).oid
         rest == Tail(stack[t])
     IN /\ Unlocked(Home[o])
        /\ goto(t, rest)
        /\ Unref(o, [obj[o] EXCEPT !.use = @ - 1,
                       !.flags = @ \ {"DeactivateDo", "DoEtherealize"}])
        /\ lock' = [lock EXCEPT ![Home[o]] =
             IF rest # <<>> /\ Head(rest).at = "deactivate" THEN t ELSE Nobody]

-----------------------------------------------------------------------------
(* What the application asks of an object *)

Usable(t, o) == stack[t] = <<>> /\ Unlocked(Home[o])

(* To make object o would change the map while it is traversed. *)
Modifies(o) == obj[o].state = "absent" /\ "Deactivating" \in poa[Home[o]]

Incarnate(r, s) == [r EXCEPT !.servant = s, !.refs = @ + 1]

(* PortableServer_POA_activate_object_with_id.  The reference of the       *)
(* lookup is dropped at the end.                                           *)
Activate(t, o, s) ==
  /\ Usable(t, o)
  /\ policy.retain
  /\ s \notin Incarnating \cup Finalizing
  /\ obj[o].servant = NoServant
  /\ IF obj[o].state = "dead" THEN Die("freed")
     ELSE IF Modifies(o) THEN Die("modified")
     ELSE IF "DeactivateDo" \in poa[Home[o]] \/ obj[o].use > 0
       THEN Die("reactivated")
     ELSE /\ obj' = [obj EXCEPT ![o] =
               Incarnate(IF obj[o].state = "absent" THEN Created(0) ELSE obj[o], s)]
          /\ UNCHANGED <<policy, manager, poa, held, lock, objref, stack, crash>>

(* PortableServer_POA_deactivate_object *)
Deactivate(t, o) ==
  /\ Usable(t, o)
  /\ policy.retain
  /\ obj[o].servant # NoServant
  /\ UNCHANGED <<policy, manager, poa, held, objref>>
  /\ DeactivateObject(t, o, [obj[o] EXCEPT !.refs = @ + 1], TRUE,
                      <<frame("release", o)>>)

(* PortableServer_POA_create_reference makes an object nobody incarnates,  *)
(* PortableServer_POA_servant_to_reference finds an active one.            *)
CreateReference(t, o) ==
  /\ Usable(t, o)
  /\ ~objref[o]
  /\ IF Modifies(o) THEN Die("modified")
     ELSE /\ \/ obj[o].state = "absent" /\ obj' = [obj EXCEPT ![o] = Created(1)]
             \/ /\ obj[o].servant # NoServant
                /\ obj' = [obj EXCEPT ![o].refs = @ + 1]
          /\ objref' = [objref EXCEPT ![o] = TRUE]
          /\ UNCHANGED <<policy, manager, poa, held, lock, stack, crash>>

(* CORBA_Object_release of the last reference, under the life cycle lock   *)
(* and not the POA's.  A caller keeps its reference during the call.       *)
ReleaseReference(o) ==
  /\ objref[o]
  /\ \A t \in Threads : \A i \in DOMAIN stack[t] :
       ~(stack[t][i].at \in {"method", "direct"}
          /\ stack[t][i].oid = o /\ stack[t][i].kind = "local")
  /\ objref' = [objref EXCEPT ![o] = FALSE]
  /\ UNCHANGED <<policy, manager, poa, held, lock, stack>>
  /\ Unref(o, obj[o])

-----------------------------------------------------------------------------
(* Calls *)

(* MateCORBA_POA_handle_request: the object is looked up, then referenced. *)
Lookup(t, o) ==
  /\ Usable(t, o)
  /\ "Destroyed" \notin poa[Home[o]]
  /\ IF obj[o].state = "dead" THEN Die("freed")
     ELSE IF Modifies(o) /\ policy.process # "map" THEN Die("modified")
     ELSE \/ /\ obj[o].state = "live"
             /\ goto(t, <<frame("found", o)>>)
             /\ lock' = [lock EXCEPT ![Home[o]] = t]
             /\ UNCHANGED <<policy, manager, poa, held, obj, objref, crash>>
          \/ /\ obj[o].state = "absent"
             /\ policy.process # "map"
             /\ obj' = [obj EXCEPT ![o] = Created(0)]
             /\ goto(t, <<frame("request", o)>>)
             /\ UNCHANGED <<policy, manager, poa, held, lock, objref, crash>>

(* The reference is taken; the lock is dropped and the request given to    *)
(* the thread that handles it.                                             *)
Found(t) ==
  /\ At(t, "found")
  /\ LET o == Head(stack[t]).oid
     IN /\ obj' = [obj EXCEPT ![o].refs = @ + 1]
        /\ goto(t, <<frame("request", o)>>)
        /\ lock' = [lock EXCEPT ![Home[o]] = Nobody]
        /\ UNCHANGED <<policy, manager, poa, held, objref, crash>>

(* MateCORBA_c_stub_invoke: the method is called with nothing counted. *)
CallDirect(t, o) ==
  /\ stack[t] = <<>> /\ objref[o]
  /\ obj[o].servant # NoServant
  /\ goto(t, <<running("direct", o, "local", obj[o].servant)>>)
  /\ UNCHANGED <<policy, manager, poa, held, lock, obj, objref, crash>>

DirectReturns(t) ==
  /\ At(t, "direct")
  /\ goto(t, Tail(stack[t]))
  /\ UNCHANGED <<policy, manager, poa, held, lock, obj, objref, crash>>

Dropped(t) == <<>>

(* The caller of handle_request drops the reference of the lookup. *)
After(t) ==
  IF At(t, "method") /\ Head(stack[t]).kind = "local" THEN <<>>
  ELSE <<frame("release", Head(stack[t]).oid)>>

(* The manager or the lack of a servant turns a request away, or the       *)
(* request waits for the manager.  A local call that is turned away leaves *)
(* everything as it is.                                                    *)
Refuse(t) ==
  /\ At(t, "request")
  /\ LET o == Head(stack[t]).oid
     IN /\ Unlocked(Home[o])
        /\ \/ manager # "ACTIVE"
           \/ obj[o].servant = NoServant /\ policy.process \in {"map", "manager"}
        /\ held' = [held EXCEPT ![Home[o]] = @ \/ manager = "HOLDING"]
  /\ goto(t, After(t))
  /\ UNCHANGED <<policy, manager, poa, lock, obj, objref, crash>>

uncounted(r) == r
used(r) == [r EXCEPT !.use = @ + 1]

Invoke(t, o, kind, r) ==
  /\ obj' = [obj EXCEPT ![o] = used(r)]
  /\ goto(t, <<running("method", o, kind, r.servant)>>)
  /\ UNCHANGED <<policy, manager, poa, held, lock, objref, crash>>

(* MateCORBA_POAObject_handle_request of a request that was received, or   *)
(* of a call the application makes with its reference.  The servant        *)
(* manager may have a servant for an object that has none.  A call of an   *)
(* unknown operation is a method that returns at once.                     *)
HandleRequest(t, o, kind) ==
  /\ \/ kind = "remote" /\ On(t, "request", o)
     \/ kind = "local" /\ stack[t] = <<>> /\ objref[o]
  /\ Unlocked(Home[o])
  /\ manager = "ACTIVE"
  /\ LET r == obj[o]
     IN \/ r.servant # NoServant /\ Invoke(t, o, kind, r)
        \/ /\ r.servant = NoServant /\ policy.process = "default"
           /\ IF "DeactivateDo" \in poa[Home[o]] \/ r.use > 0
              THEN Die("reactivated")
              ELSE IF "Orphan" \in poa[Home[o]] THEN Die("null_servant")
              ELSE Invoke(t, o, kind, Incarnate(r, DefaultServant))
        \/ /\ r.servant = NoServant /\ policy.process = "manager"
           /\ \E s \in Servants \ (Incarnating \cup Finalizing) :
                Invoke(t, o, kind, Incarnate(r, s))

(* The method returns, and the deactivation that waited for it is done. *)
MethodReturns(t) ==
  /\ At(t, "method")
  /\ LET o == Head(stack[t]).oid
         p == Home[o]
         default == ~policy.retain /\ policy.process = "default"
         r == [obj[o] EXCEPT !.use = @ - 1,
                !.flags = @ \cup (IF default /\ obj[o].servant # NoServant
                                  THEN {"DeactivateDo", "NeedPostInvoke"}
                                  ELSE {})]
     IN /\ Unlocked(p)
        /\ IF ~policy.retain /\ policy.process = "manager"
           THEN IF r.servant = NoServant THEN Die("null_servant")
                ELSE /\ goto(t, After(t))
                     /\ UNCHANGED <<policy, manager, poa, held, lock, objref>>
                     /\ Unref(o, [r EXCEPT !.servant = NoServant])
           ELSE IF r.use = 0 /\ {"NeedPostInvoke", "DeactivateDo"} \subseteq r.flags
           THEN /\ UNCHANGED <<policy, manager, poa, held, objref>>
                /\ DeactivateObject(t, o, r, FALSE, After(t))
           ELSE /\ obj' = [obj EXCEPT ![o] = r]
                /\ goto(t, After(t))
                /\ UNCHANGED <<policy, manager, poa, held, lock, objref, crash>>

(* The reference of a lookup is dropped, after the lock of the POA. *)
Release(t) ==
  /\ At(t, "release")
  /\ goto(t, Tail(stack[t]))
  /\ UNCHANGED <<policy, manager, poa, held, lock, objref>>
  /\ Unref(Head(stack[t]).oid, obj[Head(stack[t]).oid])

-----------------------------------------------------------------------------
(* Deactivation of a POA, for its destruction or for its manager *)

SetLife(flags, etherealize, do) ==
  flags \cup {do}
    \cup (IF etherealize /\ flags \cap {"DeactivateDo", "DestroyDo"} = {}
          THEN {"DoEtherealize"} ELSE {})

(* Servants are not looked for in a POA that does not retain them. *)
Traversal(p, locked) ==
  [at |-> "deactivate", poa |-> p, locked |-> locked, inuse |-> FALSE,
   todo |-> IF policy.retain
            THEN {o \in Oids : Home[o] = p /\ obj[o].state # "absent"} ELSE {}]

Destruction(p, etherealize, wait) ==
  [at |-> "destroy", poa |-> p, etherealize |-> etherealize, wait |-> wait,
   todo |-> {c \in Poas : Parent[c] = p}]

InUse(p) == \E o \in Oids : Home[o] = p /\ obj[o].use > 0

(* A POA and those below it. *)
Under(p) ==
  {c \in Poas : \E n \in 1 .. Cardinality(Poas) : \E path \in [1 .. n -> Poas] :
     /\ path[1] = c /\ path[n] = p
     /\ \A i \in 1 .. n - 1 : path[i] \in Children(path[i + 1])}

ManagerFree == \A t \in Threads : \A i \in DOMAIN stack[t] :
  stack[t][i].at # "manager"

found_in_use(before, r) == before \/ r.use > 0

(* traverse_cb: an object that is not yet visited. *)
Visit(t) ==
  /\ At(t, "deactivate")
  /\ LET f == Head(stack[t])
     IN \E o \in f.todo :
          LET r == obj[o]
          IN IF ~f.locked /\ r.servant # NoServant /\ ~Busy(r)
                  /\ "DoEtherealize" \in Marked(r, "DoEtherealize" \in poa[f.poa]).flags
             THEN Die("not_locked")
             ELSE /\ UNCHANGED <<policy, manager, poa, held, objref>>
                  /\ DeactivateObject(t, o, r, "DoEtherealize" \in poa[f.poa],
                       <<[f EXCEPT !.todo = @ \ {o}, !.inuse = found_in_use(@, r)]>>
                         \o Tail(stack[t]))

(* remove_cb frees what was marked; the POA is deactivated if no call runs *)
(* in it, and then destroyed if that was the purpose.                      *)
Visited(t) ==
  /\ At(t, "deactivate")
  /\ Head(stack[t]).todo = {}
  /\ LET f == Head(stack[t])
         rest == Tail(stack[t])
         destroying == Head(rest).at = "destroy"
         done == IF f.inuse THEN {}
                 ELSE IF destroying THEN {"Deactivated", "Destroyed"}
                 ELSE {"Deactivated"}
     IN /\ "Destroyed" \in done => ManagerFree
        /\ obj' = [o \in Oids |->
             IF policy.retain /\ Home[o] = f.poa /\ obj[o].state = "dead"
             THEN Absent ELSE obj[o]]
        /\ poa' = [poa EXCEPT ![f.poa] =
             (@ \ (IF destroying THEN {"Deactivating", "Destroying"}
                   ELSE {"Deactivating"})) \cup done]
        /\ goto(t, IF destroying THEN Tail(rest) ELSE rest)
        /\ lock' = [lock EXCEPT ![f.poa] = IF f.locked THEN Nobody ELSE @]
        /\ crash' = IF destroying /\ Head(rest).wait /\ f.inuse THEN "wait" ELSE "no"
  /\ UNCHANGED <<policy, manager, held, objref>>

-----------------------------------------------------------------------------
(* Destruction of a POA *)

(* MateCORBA_POA_destroy_T_R of a POA that is not yet destroyed. *)
BeginDestroy(t, p, etherealize, wait, frames) ==
  LET flags == SetLife(poa[p], etherealize, "DestroyDo")
      busy == {"Deactivating", "Destroying"} \cap flags # {}
  IN /\ poa' = [poa EXCEPT ![p] = IF busy THEN flags
                                  ELSE flags \cup {"Destroying"}]
     /\ goto(t, IF busy THEN frames
                ELSE <<Destruction(p, etherealize, wait)>> \o frames)
     /\ crash' = IF busy /\ wait THEN "wait" ELSE "no"
     /\ UNCHANGED <<policy, manager, held, lock, obj, objref>>

(* PortableServer_POA_destroy *)
Destroy(t, p, etherealize, wait) ==
  /\ stack[t] = <<>> /\ Unlocked(p)
  /\ "Destroyed" \notin poa[p]
  /\ wait => \A c \in Under(p) : Unlocked(c) /\ ~InUse(c)
  /\ BeginDestroy(t, p, etherealize, wait, <<>>)

(* With the lock dropped, the children are destroyed. *)
DestroyChild(t) ==
  /\ At(t, "destroy")
  /\ \E c \in Head(stack[t]).todo :
       LET f == Head(stack[t])
           frames == <<[f EXCEPT !.todo = @ \ {c}]>> \o Tail(stack[t])
       IN /\ Unlocked(c)
          /\ IF "Destroyed" \in poa[c]
             THEN /\ goto(t, frames)
                  /\ UNCHANGED <<policy, manager, poa, held, lock, obj, objref,
                                 crash>>
             ELSE BeginDestroy(t, c, f.etherealize, FALSE, frames)

(* The lock is taken again, and the POA deactivated. *)
DestroySelf(t) ==
  /\ At(t, "destroy")
  /\ Head(stack[t]).todo = {}
  /\ LET f == Head(stack[t])
         p == f.poa
         stays == HasChildren(p)
                    \/ ("Deactivating" \in poa[p] /\ "Deactivated" \notin poa[p])
         flags == poa[p] \cup {"Orphan"}
                    \cup (IF HasChildren(p) THEN {} ELSE {"DeactivateDo"})
     IN /\ Unlocked(p)
        /\ \/ /\ stays
              /\ poa' = [poa EXCEPT ![p] = flags \ {"Destroying"}]
              /\ goto(t, Tail(stack[t]))
              /\ crash' = IF f.wait THEN "wait" ELSE "no"
              /\ UNCHANGED lock
           \/ /\ ~stays /\ "Deactivated" \in poa[p] /\ ManagerFree
              /\ poa' = [poa EXCEPT ![p] =
                           (flags \ {"Destroying"}) \cup {"Destroyed"}]
              /\ goto(t, Tail(stack[t]))
              /\ UNCHANGED <<lock, crash>>
           \/ /\ ~stays /\ "Deactivated" \notin poa[p] /\ held[p]
              /\ crash' = "held_buffer"
              /\ UNCHANGED <<poa, stack, lock>>
           \/ /\ ~stays /\ "Deactivated" \notin poa[p] /\ ~held[p]
              /\ poa' = [poa EXCEPT ![p] = flags \cup {"Deactivating"}]
              /\ goto(t, <<Traversal(p, TRUE)>> \o stack[t])
              /\ lock' = [lock EXCEPT ![p] = t]
              /\ UNCHANGED crash
  /\ UNCHANGED <<policy, manager, held, obj, objref>>

-----------------------------------------------------------------------------
(* The POA manager, whose lock every operation holds *)

Registered == {p \in Poas : "Destroyed" \notin poa[p]}

(* A request that was held has been freed by the caller of handle_request. *)
ManagerActivate ==
  /\ ManagerFree /\ manager \notin {"INACTIVE", "ACTIVE"}
  /\ IF \E p \in Registered : held[p] THEN Die("held_buffer")
     ELSE /\ manager' = "ACTIVE"
          /\ UNCHANGED <<policy, poa, held, lock, obj, objref, stack, crash>>

ManagerTurns(state) ==
  /\ ManagerFree /\ manager # "INACTIVE"
  /\ manager' = state
  /\ UNCHANGED <<policy, poa, held, lock, obj, objref, stack, crash>>

(* With wait_for_completion, a POA that is not in use ends it. *)
ManagerDeactivate(t, etherealize, wait) ==
  /\ stack[t] = <<>>
  /\ ManagerFree /\ manager # "INACTIVE"
  /\ wait => \A p \in Registered : Unlocked(p) /\ InUse(p)
  /\ manager' = "INACTIVE"
  /\ goto(t, <<[at |-> "manager", todo |-> Registered,
                etherealize |-> etherealize]>>)
  /\ UNCHANGED <<policy, poa, held, lock, obj, objref, crash>>

(* MateCORBA_POA_deactivate of the next POA, without the lock of the POA. *)
DeactivateNext(t) ==
  /\ At(t, "manager")
  /\ \E p \in Head(stack[t]).todo :
       LET f == Head(stack[t])
           flags == SetLife(poa[p], f.etherealize, "DeactivateDo")
           frames == <<[f EXCEPT !.todo = @ \ {p}]>>
       IN IF {"Deactivated", "Deactivating"} \cap flags # {}
          THEN /\ poa' = [poa EXCEPT ![p] = flags]
               /\ goto(t, frames)
               /\ UNCHANGED crash
          ELSE IF held[p]
          THEN crash' = "held_buffer" /\ UNCHANGED <<poa, stack>>
          ELSE /\ poa' = [poa EXCEPT ![p] = flags \cup {"Deactivating"}]
               /\ goto(t, <<Traversal(p, FALSE)>> \o frames)
               /\ UNCHANGED crash
  /\ UNCHANGED <<policy, manager, held, lock, obj, objref>>

ManagerReturns(t) ==
  /\ At(t, "manager")
  /\ Head(stack[t]).todo = {}
  /\ goto(t, <<>>)
  /\ UNCHANGED <<policy, manager, poa, held, lock, obj, objref, crash>>
-----------------------------------------------------------------------------
Next ==
  /\ crash = "no"
  /\ \/ \E t \in Threads, o \in Oids :
          \/ \E s \in Servants : Activate(t, o, s)
          \/ Deactivate(t, o) \/ CreateReference(t, o)
          \/ Lookup(t, o) \/ CallDirect(t, o)
          \/ \E kind \in {"remote", "local"} : HandleRequest(t, o, kind)
     \/ \E o \in Oids : ReleaseReference(o)
     \/ \E t \in Threads :
          \/ Found(t) \/ Refuse(t) \/ MethodReturns(t)
          \/ DirectReturns(t) \/ Release(t) \/ FinalizerReturns(t)
          \/ Visit(t) \/ Visited(t) \/ DestroyChild(t) \/ DestroySelf(t)
          \/ DeactivateNext(t) \/ ManagerReturns(t)
     \/ \E t \in Threads, etherealize, wait \in BOOLEAN :
          \/ ManagerDeactivate(t, etherealize, wait)
          \/ \E p \in Poas : Destroy(t, p, etherealize, wait)
     \/ ManagerActivate
     \/ \E state \in {"HOLDING", "DISCARDING"} : ManagerTurns(state)

Spec == Init /\ [][Next]_vars

-----------------------------------------------------------------------------
Object ==
  [state : {"absent", "live", "dead"}, servant : AllServants \cup {NoServant},
   use : Nat, refs : Nat,
   flags : SUBSET {"NeedPostInvoke", "DoEtherealize", "DeactivateDo"}]

Life == {"DoEtherealize", "DeactivateDo", "Deactivating", "Deactivated",
         "DestroyDo", "Destroying", "Destroyed", "Orphan"}

Frame ==
  [at : {"found", "request", "release"}, oid : Oids]
  \cup [at : {"method", "direct", "final"}, oid : Oids,
        kind : {"local", "remote"}, servant : AllServants]
  \cup [at : {"deactivate"}, poa : Poas, locked : BOOLEAN, inuse : BOOLEAN,
        todo : SUBSET Oids]
  \cup [at : {"destroy"}, poa : Poas, etherealize : BOOLEAN, wait : BOOLEAN,
        todo : SUBSET Poas]
  \cup [at : {"manager"}, etherealize : BOOLEAN, todo : SUBSET Poas]

TypeOK ==
  /\ policy \in Policies
  /\ manager \in {"HOLDING", "ACTIVE", "DISCARDING", "INACTIVE"}
  /\ poa \in [Poas -> SUBSET Life]
  /\ held \in [Poas -> BOOLEAN]
  /\ lock \in [Poas -> Threads \cup {Nobody}]
  /\ obj \in [Oids -> Object]
  /\ objref \in [Oids -> BOOLEAN]
  /\ stack \in [Threads -> Seq(Frame)]
  /\ crash \in {"no", "freed", "unreferenced", "released_active", "reactivated",
                "modified", "null_servant", "held_buffer", "not_locked", "wait"}

Calls(o) == {t \in Threads : On(t, "method", o)}
Finalizers(o) == {t \in Threads : On(t, "final", o)}

(* A method that was called through the POA runs with the servant that its *)
(* object still has: deactivation waits for it                             *)
(* (MateCORBA_POA_deactivate_object_T).  Two calls of one object of a servant  *)
(* locator share the servant that the first of them takes away.            *)
CallsKeepServant ==
  crash = "no" /\ (policy.retain \/ policy.process = "default")
    => \A t \in Threads : At(t, "method")
         => obj[Head(stack[t]).oid].servant = Head(stack[t]).servant

(* While a servant's finalizer runs, which may free it, no method that was *)
(* called through the POA runs in it.                                      *)
FinalizedUnused ==
  policy.process # "default" =>
    \A t, u \in Threads : At(t, "final") /\ At(u, "method")
      => Head(stack[t]).servant # Head(stack[u]).servant

(* A deactivation that was put off is not forgotten: as long as it is      *)
(* wanted, a call or a finalizer is there to finish it (post_invoke).      *)
DeactivationPending ==
  crash = "no" => \A o \in Oids :
    "DeactivateDo" \in obj[o].flags => Calls(o) \cup Finalizers(o) # {}

(* Where only active objects are called, the references of an object are   *)
(* those of the application, of its activation and of the requests in      *)
(* progress: none is lost and none is dropped twice.  An object that a     *)
(* request makes in the other POAs gets no reference for that request.     *)
RefsCounted ==
  crash = "no" /\ policy.process = "map" => \A o \in Oids :
    obj[o].refs =
      Cardinality({t \in Threads : \E i \in DOMAIN stack[t] :
        /\ stack[t][i].at \in {"request", "method", "release"}
        /\ stack[t][i].oid = o
        /\ stack[t][i].at = "method" => stack[t][i].kind = "remote"})
      + (IF objref[o] THEN 1 ELSE 0)
      + (IF obj[o].servant # NoServant \/ Finalizers(o) # {} THEN 1 ELSE 0)

=============================================================================
