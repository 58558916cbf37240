------------------------------ MODULE ObjectRef ------------------------------
(***************************************************************************)
(* Object references of one ORB: the table that makes two references to    *)
(* the same object one structure (orb->objrefs), their reference counts,   *)
(* their profiles, which local objects share with the ORB, and the         *)
(* connection that a reference finds, loses to a location forward and      *)
(* shares between threads.  (orb/orb-core/corba-object.c, iop-profiles.c,  *)
(* the servers and the shutdown of corba-orb.c)                            *)
(*                                                                         *)
(* A structure is found again by its object key, the hash of the table,    *)
(* and any one profile in common.  The table is under orb->lock, the       *)
(* counts under the life cycle lock, the connection under OBJECT_LOCK (one *)
(* mutex for all objects), which MateCORBA_try_connection_T drops while it *)
(* waits for the connection; each step below runs under these locks.       *)
(***************************************************************************)
EXTENDS Naturals, FiniteSets, Sequences

CONSTANTS
  Threads, Slots,   \* threads; structures that can be allocated
  Remote,           \* IORs that arrive: [key, addrs], addrs a sequence
  Forwards,         \* IORs of LOCATION_FORWARD replies
  LocalKeys,        \* the keys of objects of this process
  Own,              \* the addresses of the g-th start of this process's servers
  Unix, LocalHost,  \* addresses that are UNIX sockets; that name this host
  None,
  MaxHeld           \* bound: references of the application to one structure

Keys == {r.key : r \in Remote \cup Forwards} \cup LocalKeys
Addresses == UNION {{r.addrs[i] : i \in DOMAIN r.addrs} : r \in Remote \cup Forwards}
               \cup UNION {{Own[g][i] : i \in DOMAIN Own[g]} : g \in DOMAIN Own}

(* The lists of addresses that references have.                            *)
Foreign == {r.addrs : r \in Remote \cup Forwards}
Published == Foreign \cup {Own[g] : g \in DOMAIN Own}
Members(f) == {f[i] : i \in DOMAIN f}
Meet(a, b) == Members(a) \cap Members(b) # {}

ASSUME ObjectRefAssumption ==
  /\ None \notin Keys \cup Addresses \cup Slots
  /\ MaxHeld \in Nat
  /\ IsFiniteSet(Threads)
  /\ Own \in Seq(Seq(Addresses))
  /\ \A a \in Published : a \in Seq(Addresses) /\ a # <<>>

(* An address is of one server: lists that share an address with a third    *)
(* one share an address, and no other process has an address of this one.  *)
ASSUME ServerAssumption ==
  /\ \A a, b, c \in Published : Meet(a, b) /\ Meet(b, c) => Meet(a, c)
  /\ \A a \in Foreign, g \in DOMAIN Own : ~Meet(a, Own[g])

VARIABLES
  object,       \* structure -> its fields
  held,         \* structure -> references that the application holds
  registry,     \* entries of orb->objrefs: hash, key pointer, value
  servers,      \* how often servers were started; profiles of the last start
  serving,      \* orb->servers
  call,         \* thread -> its place in MateCORBA_object_get_connection
  split,        \* keys of objects that were proxied, or whose key a forward changed
  fault         \* how the process ended, None while it runs

vars == <<object, held, registry, servers, serving, call, split, fault>>

(* A list of profiles: the ORB's own of some start, or one to free.        *)
NoList == [of |-> 0, addrs |-> <<>>]
OwnList(addrs) == [of |-> 0, addrs |-> addrs]
Shared == [of |-> servers, addrs |-> Own[servers]]

Free == [refs |-> 0, orb |-> FALSE, local |-> None, key |-> None,
         profiles |-> NoList, forward |-> NoList, forward_key |-> None, cnx |-> None,
         used |-> FALSE]

Idle == [obj |-> None, rest |-> <<>>, objkey |-> None, cnx |-> None,
         existing |-> FALSE, stale |-> FALSE, unix_failed |-> FALSE]

Lists == [of : {0} \cup DOMAIN Own, addrs : Seq(Addresses)]
Object == [refs : Nat, orb : BOOLEAN, local : LocalKeys \cup {None},
           key : Keys \cup {None}, profiles : Lists, forward : Lists,
           forward_key : Keys \cup {None}, cnx : Addresses \cup {None}, used : BOOLEAN]
Entry == [hash : Keys, key : Slots, value : Slots]
Frame == [obj : Slots \cup {None}, rest : Seq(Addresses), objkey : Keys \cup {None},
          cnx : Addresses \cup {None}, existing : BOOLEAN, stale : BOOLEAN,
          unix_failed : BOOLEAN]

TypeOK ==
  /\ object \in [Slots -> Object]
  /\ held \in [Slots -> Nat]
  /\ registry \subseteq Entry
  /\ servers \in {0} \cup DOMAIN Own
  /\ serving \in BOOLEAN
  /\ call \in [Threads -> Frame]
  /\ split \subseteq Keys \cup {None}
  /\ fault \in {None, "connection", "profiles", "freed", "null"}

Init ==
  /\ object = [s \in Slots |-> Free]
  /\ held = [s \in Slots |-> 0]
  /\ registry = {}
  /\ servers = 0
  /\ serving = FALSE
  /\ call = [t \in Threads |-> Idle]
  /\ split = {}
  /\ fault = None

Running == fault = None
Fault(kind) == /\ fault' = kind
               /\ UNCHANGED <<object, held, registry, servers, serving, call, split>>

Live(s) == object[s].refs > 0

-----------------------------------------------------------------------------
(* g_CORBA_Object_equal: same key and a profile in common.                 *)
Equal(a, b) ==
  /\ a.key = b.key
  /\ Meet(a.profiles.addrs, b.profiles.addrs)

(* The entries that a lookup of o can hit.                                 *)
Matches(reg, o, objs) == {e \in reg : e.hash = o.key /\ Equal(objs[e.key], o)}

(* An implementation whose release leaves the table alone.                 *)
RemovedNot(reg, o, objs) == {reg}

(* The tables after g_hash_table_remove; after g_hash_table_insert of s,   *)
(* which replaces the value of an equal entry and keeps its key.           *)
Removed(reg, o, objs) ==
  IF Matches(reg, o, objs) = {} THEN {reg}
  ELSE {reg \ {e} : e \in Matches(reg, o, objs)}

(* An implementation that registers nothing.                               *)
InsertedNot(reg, s, objs) == {reg}

Inserted(reg, s, objs) ==
  IF Matches(reg, objs[s], objs) = {}
  THEN {reg \cup {[hash |-> objs[s].key, key |-> s, value |-> s]}}
  ELSE {(reg \ {e}) \cup {[e EXCEPT !.value = s]} : e \in Matches(reg, objs[s], objs)}

Allocatable == {s \in Slots : ~Live(s) /\ \A e \in registry : s \notin {e.key, e.value}}

-----------------------------------------------------------------------------
(* MateCORBA_objref_new for a servant of this process.                     *)
CreateLocal(s, k) ==
  /\ Running
  /\ s \in Allocatable
  /\ \A u \in Slots : object[u].local # k
  /\ object' = [object EXCEPT ![s] = [Free EXCEPT !.refs = 1, !.orb = TRUE, !.local = k]]
  /\ held' = [held EXCEPT ![s] = 1]
  /\ UNCHANGED <<registry, servers, serving, call, split, fault>>

(* MateCORBA_RootObject_duplicate.                                    *)
Counted(s) == [object EXCEPT ![s].refs = @ + 1]

(* MateCORBA_demarshal_object of an IOR: objref_find.                      *)
Arrives(ior) ==
  LET o == [Free EXCEPT !.refs = 1, !.orb = TRUE, !.key = ior.key,
                        !.profiles = OwnList(ior.addrs)]
      found == Matches(registry, o, object)
  IN  /\ Running
      /\ \/ \E e \in found :
              /\ held[e.value] < MaxHeld
              /\ object' = Counted(e.value)
              /\ held' = [held EXCEPT ![e.value] = @ + 1]
              /\ UNCHANGED registry
         \/ /\ found = {}
            /\ \E s \in Allocatable :
                 /\ object' = [object EXCEPT ![s] = o]
                 /\ held' = [held EXCEPT ![s] = 1]
                 /\ registry' \in Inserted(registry, s, object')
      /\ UNCHANGED <<servers, serving, call, split, fault>>

(* IORs that can arrive: of other processes, and of own objects while some *)
(* server of this process can have given them out.                         *)
Iors ==
  Remote \cup {[key |-> object[s].local, addrs |-> object[s].profiles.addrs] :
                 s \in {u \in Slots : object[u].local # None /\ object[u].profiles # NoList}}

(* The reference is marshalled (marshal_object, object_to_corbaloc,        *)
(* get_proxy): a local object gets the ORB's profiles, whose servers are   *)
(* started when there are none, and its key, and enters the table.         *)
Generated(s) == [object[s] EXCEPT !.key = object[s].local, !.profiles = Shared']

(* An implementation that does not put the local object into the table.    *)
ExportedUnlisted(s) ==
  /\ object[s].orb
  /\ servers' = IF serving THEN servers ELSE servers + 1
  /\ servers' \in DOMAIN Own
  /\ serving' = TRUE
  /\ object' = [object EXCEPT ![s] = Generated(s)]
  /\ UNCHANGED registry

Exported(s) ==
  /\ object[s].orb
  /\ servers' = IF serving THEN servers ELSE servers + 1
  /\ servers' \in DOMAIN Own
  /\ serving' = TRUE
  /\ object' = [object EXCEPT ![s] = Generated(s)]
  /\ registry' \in Inserted(registry, s, object')

Export(s) ==
  /\ Running
  /\ held[s] > 0
  /\ object[s].profiles = NoList
  /\ \/ /\ Exported(s)
        /\ UNCHANGED <<held, call, split, fault>>
     \/ /\ ~object[s].orb       \* g_assert in IOP_generate_profiles
        /\ Fault("profiles")

(* MateCORBA_objref_get_proxy of an exported object: a copy that is not in *)
(* the table.                                                              *)
GetProxy(s) ==
  /\ Running
  /\ held[s] > 0
  /\ object[s].profiles # NoList
  /\ \E u \in Allocatable :
       /\ object' = [object EXCEPT ![u] =
            [Free EXCEPT !.refs = 1, !.orb = TRUE, !.key = object[s].key,
                         !.profiles = OwnList(object[s].profiles.addrs)]]
       /\ held' = [held EXCEPT ![u] = 1]
  /\ split' = split \cup {object[s].key}
  /\ UNCHANGED <<registry, servers, serving, call, fault>>

Duplicate(s) ==
  /\ Running
  /\ 0 < held[s] /\ held[s] < MaxHeld
  /\ object' = Counted(s)
  /\ held' = [held EXCEPT ![s] = @ + 1]
  /\ UNCHANGED <<registry, servers, serving, call, split, fault>>

(* A list is freed, but not the ORB's; a list of servers shut down since   *)
(* is freed a second time.                                                 *)
FreedTwice(list) == list.of # 0 /\ ~(serving /\ list.of = servers)

Users(s) == {t \in Threads : call[t].obj = s}

(* CORBA_Object_release; a thread that uses a reference holds one.         *)
Release(s) ==
  /\ Running
  /\ held[s] > Cardinality(Users(s))
  /\ IF object[s].refs > 1
     THEN /\ object' = [object EXCEPT ![s].refs = @ - 1]
          /\ held' = [held EXCEPT ![s] = @ - 1]
          /\ UNCHANGED <<registry, servers, serving, call, split, fault>>
     ELSE IF FreedTwice(object[s].profiles) THEN Fault("freed")
     ELSE /\ registry' \in IF object[s].orb /\ object[s].profiles # NoList
                           THEN Removed(registry, object[s], object)
                           ELSE {registry}
          /\ object' = [object EXCEPT ![s] = Free]
          /\ held' = [held EXCEPT ![s] = 0]
          /\ UNCHANGED <<servers, serving, call, split, fault>>

-----------------------------------------------------------------------------
(* MateCORBA_object_get_connection.  The profiles are tried in turn; those *)
(* whose connection fails at once, and addresses of this host after a UNIX *)
(* socket failed, are passed over without a wait.                          *)
Tried(o, cnx, key) == [o EXCEPT !.cnx = cnx, !.forward_key = key]

NextTried(t, s, frame, key) ==
  LET list == frame.rest IN
  \E n \in 1 .. Len(list) + 1 :
    LET failed(i) == \E j \in 1 .. i - 1 : list[j] \in Unix
        skipped(i) == list[i] \in LocalHost /\ (frame.unix_failed \/ failed(i))
        tried == \E i \in 1 .. n - 1 : ~skipped(i)
    IN  \/ /\ n <= Len(list)
           /\ ~skipped(n)
           /\ object' = [object EXCEPT ![s] = Tried(@, list[n], key)]
           /\ call' = [call EXCEPT ![t] =
                [frame EXCEPT !.rest = SubSeq(list, n + 1, Len(list)),
                              !.cnx = list[n],
                              !.unix_failed = @ \/ failed(n)]]
        \/ /\ n = Len(list) + 1
           /\ object' = [object EXCEPT ![s] =
                Tried(@, IF tried THEN None ELSE object[s].cnx, key)]
           /\ call' = [call EXCEPT ![t] = Idle]

(* The first call after a forward takes the key out of the forward's       *)
(* profiles (IOP_profiles_sync_objkey); a later one finds none.            *)
Begin(t, s) ==
  LET o == object[s]
      forwarded == o.forward # NoList
  IN  /\ Running
      /\ call[t] = Idle
      /\ held[s] > Cardinality(Users(s))
      /\ o.profiles # NoList \/ o.cnx # None
      /\ \/ /\ o.cnx # None
            /\ call' = [call EXCEPT ![t] =
                 [Idle EXCEPT !.obj = s, !.cnx = o.cnx, !.existing = TRUE]]
            /\ UNCHANGED object
         \/ /\ o.cnx = None
            /\ NextTried(t, s,
                 [Idle EXCEPT !.obj = s,
                    !.rest = IF forwarded THEN o.forward.addrs ELSE o.profiles.addrs,
                    !.objkey = IF forwarded THEN o.forward_key ELSE o.key],
                 None)
      /\ UNCHANGED <<held, registry, servers, serving, split, fault>>

(* The connection is connected or not: the thread has OBJECT_LOCK again    *)
(* and asserts that the object still has this connection.                  *)
SameConnection(t) == object[call[t].obj].cnx = call[t].cnx

Rekeyed(t, s) ==
  LET moved == [object EXCEPT ![s].key = call[t].objkey, ![s].used = TRUE] IN
  /\ object' = moved
  /\ \E reg \in Removed(registry, object[s], object) :
       registry' \in Inserted(reg, s, moved)
  /\ split' = split \cup {object[s].key, call[t].objkey}

Connected(t, s) ==
  /\ \/ /\ call[t].existing \/ call[t].objkey = object[s].key
        /\ object' = [object EXCEPT ![s].used = TRUE]
        /\ UNCHANGED <<registry, split>>
     \/ /\ ~call[t].existing
        /\ call[t].objkey # object[s].key
        /\ Rekeyed(t, s)
  /\ call' = [call EXCEPT ![t] = Idle]

Wakes(t) ==
  LET s == call[t].obj
      frame == call[t]
      rekeys == ~frame.existing /\ frame.objkey # object[s].key
  IN  /\ Running
      /\ s # None
      /\ \/ /\ ~SameConnection(t)
            /\ Fault("connection")
         \/ /\ SameConnection(t)           \* connected
            /\ IF rekeys /\ (frame.objkey = None \/ ~object[s].orb)
               THEN Fault("null")
               ELSE /\ Connected(t, s)
                    /\ UNCHANGED <<held, servers, serving, fault>>
         \/ /\ SameConnection(t)           \* not connected, nor made again
            /\ IF frame.stale /\ ~frame.existing THEN Fault("freed")
               ELSE /\ \/ /\ frame.existing
                          /\ call' = [call EXCEPT ![t] = Idle]
                          /\ UNCHANGED object
                       \/ /\ ~frame.existing
                          /\ NextTried(t, s, frame, object[s].forward_key)
                    /\ UNCHANGED <<held, registry, servers, serving, split, fault>>

(* MateCORBA_handle_location_forward: a thread's request was answered with *)
(* another reference, on a connection of the object that was connected;    *)
(* the list that other threads go through is freed.                        *)
Dropped(s) == [t \in Threads |->
  IF call[t].obj = s THEN [call[t] EXCEPT !.stale = TRUE] ELSE call[t]]

LocationForward(t, s, ior) ==
  /\ Running
  /\ call[t] = Idle
  /\ held[s] > Cardinality(Users(s))
  /\ object[s].local = None
  /\ object[s].used
  /\ object' = [object EXCEPT ![s].forward = OwnList(ior.addrs),
                              ![s].forward_key = ior.key, ![s].cnx = None]
  /\ call' = IF object[s].forward = NoList THEN call ELSE Dropped(s)
  /\ UNCHANGED <<held, registry, servers, serving, split, fault>>

-----------------------------------------------------------------------------
(* MateCORBA_ORB_shutdown_servers: objects in the table lose the ORB and   *)
(* their profiles, and the ORB's own profiles are freed.                   *)
Shutdown ==
  LET listed == {e.key : e \in registry} IN
  /\ Running
  /\ serving \/ registry # {}
  /\ object' = [s \in Slots |->
       IF s \in listed
       THEN [object[s] EXCEPT !.orb = FALSE, !.profiles = NoList, !.forward = NoList,
                              !.forward_key = None]
       ELSE object[s]]
  /\ call' = [t \in Threads |->
       IF call[t].obj \in listed THEN [call[t] EXCEPT !.stale = TRUE] ELSE call[t]]
  /\ registry' = {}
  /\ serving' = FALSE
  /\ UNCHANGED <<held, servers, split, fault>>

Next ==
  \/ \E s \in Slots :
       \/ \E k \in LocalKeys : CreateLocal(s, k)
       \/ Export(s) \/ GetProxy(s) \/ Duplicate(s) \/ Release(s)
       \/ \E t \in Threads, ior \in Forwards : LocationForward(t, s, ior)
  \/ \E ior \in Iors : Arrives(ior)
  \/ \E t \in Threads : Wakes(t) \/ \E s \in Slots : Begin(t, s)
  \/ Shutdown

Spec == Init /\ [][Next]_vars

-----------------------------------------------------------------------------
(* The table holds no pointer to a freed structure, every structure in it  *)
(* is found under the key it has now (its key changes when a forward is    *)
(* followed), and a structure is filed once.                               *)
RegistrySound ==
  \A e \in registry :
    /\ Live(e.key) /\ Live(e.value)
    /\ e.hash = object[e.key].key
    /\ Equal(object[e.key], object[e.value])
    /\ \A f \in registry : f.value = e.value => f = e

(* Two structures never stand for one object (line 478: "We already ensure *)
(* uniqueness of the CORBA_Object structure"), which is_equivalent and     *)
(* hash take for granted.  Two things split an object for good: a proxy,   *)
(* whose release takes the entry of the object it was made of out of the   *)
(* table, and a forward that is followed, which replaces the value of an   *)
(* equal structure's entry; until then the object is one structure,        *)
(* however references to it arrive, are exported, released and forwarded.  *)
Whole(s) == object[s].orb /\ object[s].key \notin split

UniqueHere ==
  \A s, u \in Slots : s # u /\ Whole(s) /\ Whole(u) => ~Equal(object[s], object[u])

(* A local object shares the profiles of servers that still run: freed     *)
(* with the servers they are never marshalled, compared or freed again     *)
(* (an object that a proxy's release took out of the table excepted).      *)
SharedListLives ==
  \A s \in Slots : Live(s) /\ object[s].key \notin split => ~FreedTwice(object[s].profiles)

=============================================================================
