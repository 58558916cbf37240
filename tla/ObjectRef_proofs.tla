-------------------------- MODULE ObjectRef_proofs --------------------------
(***************************************************************************)
(* Proofs about ObjectRef for any threads, structures, references and      *)
(* starts of the servers: the variables keep their types, the table of     *)
(* references is sound, an object is one structure, and the profiles that  *)
(* a local object shares with the ORB are alive.                           *)
(*                                                                         *)
(* That the code's lookup by "one profile in common" finds at most one     *)
(* entry rests on the assumption that an address is of one server; without *)
(* it g_CORBA_Object_equal is no equivalence.                              *)
(***************************************************************************)
EXTENDS ObjectRef, FiniteSetTheorems, SequenceTheorems, TLAPS

USE DEF Live

-----------------------------------------------------------------------------
(* Lists of addresses.                                                     *)
LEMMA Meets ==
  /\ \A a, b : Meet(a, b) => Meet(b, a)
  /\ \A a \in Published : Meet(a, a)
  /\ \A a : ~Meet(<<>>, a) /\ ~Meet(a, <<>>)
  /\ \A a, b, c \in Published : Meet(a, b) /\ Meet(b, c) => Meet(a, c)
  /\ \A a \in Foreign, g \in DOMAIN Own : ~Meet(a, Own[g])
<1>1. \A a \in Published : Meet(a, a)
  <2> SUFFICES ASSUME NEW a \in Published  PROVE Meet(a, a)
    OBVIOUS
  <2>1. a \in Seq(Addresses) /\ a # <<>>
    BY ObjectRefAssumption
  <2>2. 1 \in DOMAIN a
    BY <2>1
  <2> QED BY <2>2 DEF Meet, Members
<1>2. \A a : ~Meet(<<>>, a) /\ ~Meet(a, <<>>)
  BY DEF Meet, Members
<1>3. \A a, b : Meet(a, b) => Meet(b, a)
  BY DEF Meet
<1> QED BY <1>1, <1>2, <1>3, ServerAssumption

(* What a structure of the table has.                                      *)
Proper(o) == o.profiles # NoList => o.profiles.addrs \in Published

LEMMA Equals ==
  ASSUME NEW a, NEW b, NEW c, Proper(a), Proper(b), Proper(c)
  PROVE  /\ Equal(a, b) => Equal(b, a) /\ a.profiles # NoList /\ b.profiles # NoList
         /\ Equal(a, b) /\ Equal(b, c) => Equal(a, c)
         /\ a.profiles # NoList => Equal(a, a)
<1>1. ASSUME NEW p, NEW q, Equal(p, q)
      PROVE  p.profiles # NoList /\ q.profiles # NoList
  BY <1>1, Meets DEF Equal, NoList
<1> QED BY <1>1, Meets DEF Equal, Proper

-----------------------------------------------------------------------------
(* The table: an entry is of structures that are alive, under the key they *)
(* have, and of any object there is at most one.                           *)
Entries(reg, objs) ==
  /\ reg \subseteq Entry
  /\ \A e \in reg :
       /\ objs[e.key].refs > 0 /\ objs[e.value].refs > 0
       /\ e.hash = objs[e.key].key
       /\ Equal(objs[e.key], objs[e.value])
  /\ \A e, f \in reg : Equal(objs[e.key], objs[f.key]) => e = f

Unmentioned(s, reg) == \A e \in reg : e.key # s /\ e.value # s
Values(reg) == {e.value : e \in reg}

(* The fields that the table depends on.                                   *)
Alike(a, b) ==
  /\ a.refs > 0 <=> b.refs > 0
  /\ a.key = b.key /\ a.profiles = b.profiles

LEMMA SameEntries ==
  ASSUME NEW reg, NEW objs, NEW new, Entries(reg, objs),
         \A s \in Slots : Alike(objs[s], new[s]) \/ Unmentioned(s, reg)
  PROVE  Entries(reg, new)
<1>1. \A e \in reg : e.key \in Slots /\ e.value \in Slots
  BY DEF Entries, Entry
<1>2. \A e \in reg : Alike(objs[e.key], new[e.key]) /\ Alike(objs[e.value], new[e.value])
  BY <1>1 DEF Unmentioned
<1> QED BY <1>2 DEF Entries, Alike, Equal

LEMMA OneMatch ==
  ASSUME NEW reg, NEW objs, Entries(reg, objs), NEW o, Proper(o),
         \A s \in Slots : Proper(objs[s])
  PROVE  /\ \A e \in Matches(reg, o, objs) : e \in reg /\ Equal(objs[e.key], o) /\ Equal(objs[e.value], o)
         /\ \A e, f \in Matches(reg, o, objs) : e = f
         /\ \A e \in reg : Equal(objs[e.key], o) \/ Equal(objs[e.value], o)
                             => e \in Matches(reg, o, objs)
<1>1. \A e \in reg : e.key \in Slots /\ e.value \in Slots
  BY DEF Entries, Entry
<1>2. ASSUME NEW e \in Matches(reg, o, objs)
      PROVE  e \in reg /\ Equal(objs[e.key], o) /\ Equal(objs[e.value], o)
  <2>1. e \in reg /\ Equal(objs[e.key], o)
    BY <1>2 DEF Matches
  <2>2. Equal(objs[e.key], objs[e.value])
    BY <2>1 DEF Entries
  <2> QED BY <1>1, <2>1, <2>2, Equals
<1>3. ASSUME NEW e \in Matches(reg, o, objs), NEW f \in Matches(reg, o, objs)
      PROVE  e = f
  <2>1. Equal(objs[e.key], o) /\ Equal(objs[f.key], o) /\ e \in reg /\ f \in reg
    BY <1>2, <1>3
  <2>2. Equal(objs[e.key], objs[f.key])
    BY <1>1, <2>1, Equals
  <2> QED BY <2>1, <2>2 DEF Entries
<1>4. ASSUME NEW e \in reg, Equal(objs[e.key], o) \/ Equal(objs[e.value], o)
      PROVE  e \in Matches(reg, o, objs)
  <2>1. Equal(objs[e.key], objs[e.value]) /\ e.hash = objs[e.key].key
    BY DEF Entries
  <2>2. Equal(objs[e.key], o)
    BY <1>1, <1>4, <2>1, Equals
  <2> QED BY <2>1, <2>2 DEF Matches, Equal
<1> QED BY <1>2, <1>3, <1>4

(* g_hash_table_remove takes the one entry of an equal structure.          *)
LEMMA Removing ==
  ASSUME NEW reg, NEW objs, Entries(reg, objs), NEW s \in Slots,
         \A u \in Slots : Proper(objs[u]),
         NEW new \in Removed(reg, objs[s], objs)
  PROVE  /\ Entries(new, objs) /\ new \subseteq reg
         /\ Unmentioned(s, new)
         /\ \A e \in reg : e \in new \/ Equal(objs[e.value], objs[s])
<1>1. \A e \in reg : e.key \in Slots /\ e.value \in Slots
  BY DEF Entries, Entry
<1>2. new \subseteq reg
  BY DEF Removed
<1>3. Entries(new, objs)
  BY <1>2 DEF Entries
<1>4. \A e \in Matches(reg, objs[s], objs) : e \notin new
  <2>1. CASE Matches(reg, objs[s], objs) = {}
    BY <2>1
  <2>2. CASE Matches(reg, objs[s], objs) # {}
    BY <2>2, OneMatch DEF Removed
  <2> QED BY <2>1, <2>2
<1>5. \A e \in reg : e.key = s \/ e.value = s => e \in Matches(reg, objs[s], objs)
  <2> SUFFICES ASSUME NEW e \in reg, e.key = s \/ e.value = s
               PROVE  e \in Matches(reg, objs[s], objs)
    OBVIOUS
  <2>1. Equal(objs[e.key], objs[e.value])
    BY DEF Entries
  <2>2. Equal(objs[s], objs[s])
    BY <1>1, <2>1, Equals
  <2> QED BY <2>2, OneMatch
<1>6. Unmentioned(s, new)
  BY <1>2, <1>4, <1>5 DEF Unmentioned
<1>7. ASSUME NEW e \in reg, e \notin new
      PROVE  Equal(objs[e.value], objs[s])
  <2>1. e \in Matches(reg, objs[s], objs)
    BY <1>7 DEF Removed
  <2> QED BY <2>1, OneMatch
<1> QED BY <1>2, <1>3, <1>6, <1>7

(* g_hash_table_insert files a structure once: in the entry of an equal    *)
(* one, whose value it becomes, or in one of its own.                      *)
LEMMA Inserting ==
  ASSUME NEW reg, NEW objs, Entries(reg, objs), NEW s \in Slots,
         \A u \in Slots : Proper(objs[u]),
         objs[s].refs > 0, objs[s].key \in Keys, objs[s].profiles # NoList,
         Unmentioned(s, reg), NEW new \in Inserted(reg, s, objs)
  PROVE  /\ Entries(new, objs)
         /\ s \in Values(new)
         /\ \A e \in reg : e.value \in Values(new) \/ Equal(objs[e.value], objs[s])
<1>0. \A e \in reg : e.key \in Slots /\ e.value \in Slots
  BY DEF Entries, Entry
<1>1. Equal(objs[s], objs[s])
  BY Equals
<1>2. CASE Matches(reg, objs[s], objs) = {}
  <2> DEFINE g == [hash |-> objs[s].key, key |-> s, value |-> s]
  <2>1. new = reg \cup {g}
    BY <1>2 DEF Inserted
  <2>2. g \in Entry
    BY DEF Entry
  <2>3. \A e \in reg : ~Equal(objs[e.key], objs[s]) /\ ~Equal(objs[s], objs[e.key])
    BY <1>0, <1>2, OneMatch, Equals
  <2>4. \A e \in new :
          /\ objs[e.key].refs > 0 /\ objs[e.value].refs > 0
          /\ e.hash = objs[e.key].key
          /\ Equal(objs[e.key], objs[e.value])
    BY <1>1, <2>1 DEF Entries
  <2>5. \A e, f \in new : Equal(objs[e.key], objs[f.key]) => e = f
    BY <2>1, <2>3 DEF Entries
  <2>6. Entries(new, objs)
    BY <2>1, <2>2, <2>4, <2>5 DEF Entries
  <2>7. g \in new /\ g.value = s
    BY <2>1
  <2>8. s \in Values(new) /\ \A e \in reg : e.value \in Values(new)
    BY <2>1, <2>7 DEF Values
  <2> QED BY <2>6, <2>8
<1>3. CASE Matches(reg, objs[s], objs) # {}
  <2>1. PICK e \in Matches(reg, objs[s], objs) :
          new = (reg \ {e}) \cup {[e EXCEPT !.value = s]}
    BY <1>3 DEF Inserted
  <2> DEFINE g == [e EXCEPT !.value = s]
  <2>2. e \in reg /\ Equal(objs[e.key], objs[s]) /\ Equal(objs[e.value], objs[s])
    BY OneMatch
  <2>3. e \in Entry
    BY <2>2 DEF Entries
  <2>4. g \in Entry /\ g.key = e.key /\ g.hash = e.hash /\ g.value = s
    BY <2>3 DEF Entry
  <2> HIDE DEF g
  <2>5. new = (reg \ {e}) \cup {g}
    BY <2>1 DEF g
  <2>6. \A f \in new :
          /\ objs[f.key].refs > 0 /\ objs[f.value].refs > 0
          /\ f.hash = objs[f.key].key
          /\ Equal(objs[f.key], objs[f.value])
    BY <2>2, <2>4, <2>5 DEF Entries
  <2>7. \A f, h \in new : Equal(objs[f.key], objs[h.key]) => f = h
    <3>1. \A f \in reg \ {e} : ~Equal(objs[f.key], objs[g.key]) /\ ~Equal(objs[g.key], objs[f.key])
      BY <2>2, <2>4 DEF Entries
    <3> QED BY <2>5, <3>1 DEF Entries
  <2>8. Entries(new, objs)
    BY <2>4, <2>5, <2>6, <2>7 DEF Entries
  <2>9. s \in Values(new)
    BY <2>4, <2>5 DEF Values
  <2>10. \A f \in reg : f.value \in Values(new) \/ Equal(objs[f.value], objs[s])
    BY <2>2, <2>5 DEF Values
  <2> QED BY <2>8, <2>9, <2>10
<1> QED BY <1>2, <1>3

-----------------------------------------------------------------------------
(* The invariant.  A structure: freed ones are blank, one with profiles    *)
(* has the ORB and a key, one of the ORB without them is local, and a      *)
(* local one is never forwarded and shares the profiles of some start.     *)
Standing(o) ==
  /\ o.refs = 0 => o = Free
  /\ o.profiles # NoList =>
       o.profiles.addrs \in Published /\ o.orb /\ o.key \in Keys
  /\ o.orb /\ o.profiles = NoList => o.local # None
  /\ o.local # None =>
       /\ o.forward = NoList
       /\ o.profiles # NoList =>
            o.key = o.local /\ \E g \in DOMAIN Own : o.profiles.addrs = Own[g]

Stand == \A s \in Slots : Standing(object[s]) /\ object[s].refs = held[s]

LocalOnce ==
  \A s, u \in Slots : object[s].local # None /\ object[s].local = object[u].local => s = u

(* A structure that stands for its object alone is in the table.           *)
Listed ==
  \A s \in Slots : Whole(s) /\ object[s].profiles # NoList => s \in Values(registry)

(* What has an address of this process and is no proxy is local.           *)
OwnHere ==
  \A s \in Slots, g \in DOMAIN Own :
    Whole(s) /\ Meet(object[s].profiles.addrs, Own[g]) => object[s].local # None

(* A thread waits for the connection of a live structure, and takes no     *)
(* local one for another object.                                           *)
InCall(f) ==
  f.obj # None =>
    /\ Live(f.obj)
    /\ object[f.obj].local # None /\ ~f.existing =>
         /\ f.objkey = object[f.obj].local
         /\ object[f.obj].orb => object[f.obj].profiles # NoList
InCalls == \A t \in Threads : InCall(call[t])

IInv ==
  /\ TypeOK /\ Stand /\ LocalOnce
  /\ Entries(registry, object) /\ Listed /\ OwnHere
  /\ InCalls /\ SharedListLives

LEMMA AllProper ==
  ASSUME Stand  PROVE \A s \in Slots : Proper(object[s])
BY DEF Stand, Standing, Proper

LEMMA Mentioned ==
  ASSUME IInv, NEW s \in Slots, ~Unmentioned(s, registry)
  PROVE  object[s].profiles # NoList /\ object[s].orb /\ Live(s) /\ object[s].key \in Keys
<1>1. PICK e \in registry : e.key = s \/ e.value = s
  BY DEF Unmentioned
<1>2. e.key \in Slots /\ e.value \in Slots
  BY DEF IInv, Entries, Entry
<1>3. Equal(object[e.key], object[e.value])
  BY DEF IInv, Entries
<1>4. object[s].profiles # NoList
  BY <1>1, <1>2, <1>3, AllProper, Equals DEF IInv
<1>5. Live(s)
  BY <1>1 DEF IInv, Entries
<1> QED BY <1>4, <1>5 DEF IInv, Stand, Standing

(* Two structures of one object would be two values of one entry.          *)
LEMMA Unique ==
  ASSUME IInv  PROVE UniqueHere
<1> SUFFICES ASSUME NEW s \in Slots, NEW u \in Slots, Whole(s), Whole(u),
                    Equal(object[s], object[u])
             PROVE  s = u
  BY DEF UniqueHere
<1>1. \A v \in Slots : Proper(object[v])
  BY AllProper DEF IInv
<1>2. object[s].profiles # NoList /\ object[u].profiles # NoList
  BY <1>1, Equals
<1>3. s \in Values(registry) /\ u \in Values(registry)
  BY <1>2 DEF IInv, Listed
<1>4. PICK e \in registry, f \in registry : e.value = s /\ f.value = u
  BY <1>3 DEF Values
<1>5. /\ e.key \in Slots /\ f.key \in Slots
      /\ Equal(object[e.key], object[s]) /\ Equal(object[f.key], object[u])
  BY <1>4 DEF IInv, Entries, Entry
<1>6. Equal(object[e.key], object[u]) /\ Equal(object[u], object[f.key])
  BY <1>1, <1>5, Equals
<1>7. Equal(object[e.key], object[f.key])
  BY <1>1, <1>5, <1>6, Equals
<1>8. e = f
  BY <1>7 DEF IInv, Entries
<1> QED BY <1>4, <1>8

LEMMA Sound ==
  ASSUME IInv  PROVE RegistrySound
<1>1. ASSUME NEW e \in registry, NEW f \in registry, f.value = e.value
      PROVE  f = e
  <2>1. /\ e.key \in Slots /\ f.key \in Slots /\ e.value \in Slots
        /\ Equal(object[e.key], object[e.value]) /\ Equal(object[f.key], object[e.value])
    BY <1>1 DEF IInv, Entries, Entry
  <2>2. \A v \in Slots : Proper(object[v])
    BY AllProper DEF IInv
  <2>3. Equal(object[e.value], object[e.key])
    BY <2>1, <2>2, Equals
  <2>4. Equal(object[f.key], object[e.key])
    BY <2>1, <2>2, <2>3, Equals
  <2> QED BY <2>4 DEF IInv, Entries
<1> QED BY <1>1 DEF RegistrySound, IInv, Entries

-----------------------------------------------------------------------------
(* Steps that neither the table nor what stands in it sees.                *)
Kept(a, b) ==
  /\ Alike(a, b)
  /\ a.orb = b.orb /\ a.local = b.local

LEMMA Quietly ==
  ASSUME IInv, TypeOK', Stand', InCalls',
         \A s \in Slots : Kept(object[s], object'[s]),
         UNCHANGED <<registry, servers, serving, split>>
  PROVE  IInv'
<1>1. Entries(registry', object')
  BY SameEntries DEF IInv, Kept
<1>2. LocalOnce'
  BY DEF IInv, LocalOnce, Kept
<1>3. Listed'
  BY DEF IInv, Listed, Whole, Kept, Alike
<1>4. OwnHere'
  BY DEF IInv, OwnHere, Whole, Kept, Alike
<1>5. SharedListLives'
  BY DEF IInv, SharedListLives, FreedTwice, Kept, Alike
<1> QED BY <1>1, <1>2, <1>3, <1>4, <1>5 DEF IInv

LEMMA Types ==
  /\ Free \in Object /\ Idle \in Frame /\ NoList \in Lists
  /\ None \notin Keys /\ None \notin Slots
  /\ \A a \in Published : OwnList(a) \in Lists /\ a \in Seq(Addresses)
  /\ \A r \in Remote \cup Forwards : r.key \in Keys /\ r.addrs \in Foreign /\ r.addrs \in Published
  /\ \A k \in LocalKeys : k \in Keys
  /\ \A g \in DOMAIN Own : Own[g] \in Published
<1>1. \A a \in Published : a \in Seq(Addresses)
  BY ObjectRefAssumption
<1>2. <<>> \in Seq(Addresses)
  OBVIOUS
<1>3. NoList \in Lists
  BY <1>2 DEF NoList, Lists
<1>4. Free \in Object
  BY <1>3 DEF Free, Object
<1>5. Idle \in Frame
  BY <1>2 DEF Idle, Frame
<1>6. \A a \in Published : OwnList(a) \in Lists
  BY <1>1 DEF OwnList, Lists
<1> QED BY <1>1, <1>3, <1>4, <1>5, <1>6, ObjectRefAssumption DEF Keys, Foreign, Published

LEMMA InitIInv == Init => IInv
<1> SUFFICES ASSUME Init  PROVE IInv
  OBVIOUS
<1>1. TypeOK
  BY Types DEF Init, TypeOK
<1>2. Stand
  BY DEF Init, Stand, Standing, Free
<1>3. LocalOnce
  BY DEF Init, LocalOnce, Free
<1>4. Entries(registry, object)
  BY DEF Init, Entries
<1>5. Listed /\ OwnHere
  BY DEF Init, Listed, OwnHere, Whole, Free
<1>6. InCalls
  BY DEF Init, InCalls, InCall, Idle
<1>7. SharedListLives
  BY DEF Init, SharedListLives, Free
<1> QED BY <1>1, <1>2, <1>3, <1>4, <1>5, <1>6, <1>7 DEF IInv

-----------------------------------------------------------------------------
(* A structure that nobody refers to comes into use.                       *)
LEMMA Appears ==
  ASSUME IInv, TypeOK', Stand', NEW s \in Allocatable,
         \A u \in Slots : u # s => object'[u] = object[u],
         object'[s].refs > 0, object'[s].profiles.of = 0,
         object'[s].local # None => \A u \in Slots : object[u].local # object'[s].local,
         \/ /\ registry' = registry
            /\ object'[s].profiles = NoList \/ object'[s].key \in split'
         \/ /\ registry' \in Inserted(registry, s, object')
            /\ object'[s].profiles # NoList
            /\ Matches(registry, object'[s], object) = {},
         \A g \in DOMAIN Own : Whole(s)' /\ Meet(object'[s].profiles.addrs, Own[g])
                                 => object'[s].local # None,
         split \subseteq split', UNCHANGED <<servers, serving, call>>
  PROVE  IInv'
<1>1. s \in Slots /\ ~Live(s) /\ Unmentioned(s, registry)
  BY DEF Allocatable, Unmentioned
<1>2. \A u \in Slots : Proper(object'[u])
  BY DEF Stand, Standing, Proper
<1>3. \A u \in Slots : u # s => Alike(object[u], object'[u])
  BY DEF Alike
<1>4. Entries(registry, object')
  BY <1>1, <1>3, SameEntries DEF IInv
<1>5. \A u \in Slots : u # s /\ Whole(u)' => Whole(u)
  BY DEF Whole
<1>6. Entries(registry', object') /\ Listed'
  <2>1. CASE /\ registry' = registry
             /\ object'[s].profiles = NoList \/ object'[s].key \in split'
    <3>1. Listed'
      BY <1>5, <2>1 DEF IInv, Listed, Whole
    <3> QED BY <1>4, <2>1, <3>1
  <2>2. CASE /\ registry' \in Inserted(registry, s, object')
             /\ object'[s].profiles # NoList
             /\ Matches(registry, object'[s], object) = {}
    <3>1. object'[s].key \in Keys
      BY <1>1, <2>2 DEF Stand, Standing
    <3>2. /\ Entries(registry', object')
          /\ s \in Values(registry')
          /\ \A e \in registry : e.value \in Values(registry') \/ Equal(object'[e.value], object'[s])
      BY <1>1, <1>2, <1>4, <2>2, <3>1, Inserting
    <3>3. Matches(registry, object'[s], object') = {}
      <4>1. \A e \in registry : object'[e.key] = object[e.key]
        BY <1>1 DEF Unmentioned, IInv, Entries, Entry
      <4> QED BY <2>2, <4>1 DEF Matches
    <3>4. \A e \in registry : ~Equal(object'[e.value], object'[s])
      BY <1>1, <1>2, <1>4, <3>3, OneMatch
    <3>5. \A u \in Values(registry) : u \in Values(registry')
      BY <3>2, <3>4 DEF Values
    <3>6. Listed'
      BY <1>5, <3>2, <3>5 DEF IInv, Listed
    <3> QED BY <3>2, <3>6
  <2> QED BY <2>1, <2>2
<1>7. LocalOnce'
  BY <1>1 DEF IInv, LocalOnce
<1>8. OwnHere'
  BY <1>5 DEF IInv, OwnHere
<1>9. InCalls'
  <2>1. \A t \in Threads : call[t].obj # None => call[t].obj \in Slots
    BY DEF IInv, TypeOK, Frame
  <2> QED BY <1>1, <2>1 DEF IInv, InCalls, InCall
<1>10. SharedListLives'
  BY <1>5 DEF IInv, SharedListLives, FreedTwice
<1> QED BY <1>6, <1>7, <1>8, <1>9, <1>10 DEF IInv

LEMMA CreatesLocal ==
  ASSUME IInv, NEW s \in Slots, NEW k \in LocalKeys, CreateLocal(s, k)
  PROVE  IInv'
<1> DEFINE o == [Free EXCEPT !.refs = 1, !.orb = TRUE, !.local = k]
<1>1. o \in Object /\ o.refs = 1 /\ o.local = k /\ o.orb /\ o.profiles = NoList
        /\ o.forward = NoList
  BY Types DEF Free, Object
<1> HIDE DEF o
<1>2. object' = [object EXCEPT ![s] = o] /\ held' = [held EXCEPT ![s] = 1]
  BY DEF CreateLocal, o
<1>3. object'[s] = o /\ \A u \in Slots : u # s => object'[u] = object[u]
  BY <1>2 DEF IInv, TypeOK
<1>4. TypeOK'
  BY <1>1, <1>2 DEF CreateLocal, IInv, TypeOK
<1>5. k # None
  BY Types
<1>6. Standing(o)
  BY <1>1, <1>5 DEF Standing
<1>7. Stand'
  BY <1>1, <1>2, <1>3, <1>6 DEF IInv, TypeOK, Stand
<1>8. o.profiles.of = 0 /\ \A g \in DOMAIN Own : ~Meet(o.profiles.addrs, Own[g])
  BY <1>1, Meets DEF NoList
<1>9. /\ s \in Allocatable /\ (\A u \in Slots : object[u].local # k)
      /\ UNCHANGED <<registry, servers, serving, call, split>>
  BY DEF CreateLocal
<1> QED BY <1>1, <1>3, <1>4, <1>7, <1>8, <1>9, Appears

LEMMA GetsProxy ==
  ASSUME IInv, NEW s \in Slots, GetProxy(s)
  PROVE  IInv'
<1>1. PICK u \in Allocatable :
        /\ object' = [object EXCEPT ![u] =
             [Free EXCEPT !.refs = 1, !.orb = TRUE, !.key = object[s].key,
                          !.profiles = OwnList(object[s].profiles.addrs)]]
        /\ held' = [held EXCEPT ![u] = 1]
  BY DEF GetProxy
<1> DEFINE o == [Free EXCEPT !.refs = 1, !.orb = TRUE, !.key = object[s].key,
                             !.profiles = OwnList(object[s].profiles.addrs)]
<1>2. u \in Slots
  BY DEF Allocatable
<1>3. object[s].profiles.addrs \in Published /\ object[s].key \in Keys
  BY DEF GetProxy, IInv, Stand, Standing
<1>4. /\ o \in Object /\ o.refs = 1 /\ o.local = None /\ o.orb /\ o.key = object[s].key
      /\ o.profiles = OwnList(object[s].profiles.addrs)
  BY <1>3, Types DEF Free, Object
<1> HIDE DEF o
<1>5. object'[u] = o /\ \A v \in Slots : v # u => object'[v] = object[v]
  BY <1>1, <1>2 DEF IInv, TypeOK, o
<1>6. TypeOK'
  BY <1>1, <1>2, <1>3, <1>4 DEF GetProxy, IInv, TypeOK, o
<1>7. o.profiles.of = 0 /\ o.profiles.addrs \in Published
  BY <1>3, <1>4 DEF OwnList
<1>8. o.profiles # NoList
  BY <1>7, Meets DEF NoList
<1>9. Standing(o)
  BY <1>3, <1>4, <1>7, <1>8 DEF Standing
<1>10. Stand'
  BY <1>1, <1>2, <1>4, <1>5, <1>9 DEF IInv, TypeOK, Stand
<1>11. /\ o.key \in split' /\ split \subseteq split' /\ ~Whole(u)'
       /\ UNCHANGED <<registry, servers, serving, call>>
  BY <1>4, <1>5 DEF GetProxy, Whole
<1> QED BY <1>4, <1>5, <1>6, <1>7, <1>10, <1>11, Appears

LEMMA Counts ==
  ASSUME IInv, NEW s \in Slots, Live(s), object' = Counted(s),
         held' = [held EXCEPT ![s] = @ + 1],
         UNCHANGED <<registry, servers, serving, call, split, fault>>
  PROVE  IInv'
<1>1. object \in [Slots -> Object] /\ held \in [Slots -> Nat]
  BY DEF IInv, TypeOK
<1>2. object[s] \in Object
  BY <1>1
<1> DEFINE o == [object[s] EXCEPT !.refs = @ + 1]
<1>3. /\ o \in Object /\ o.refs = object[s].refs + 1 /\ o.refs > 0
      /\ o.orb = object[s].orb /\ o.local = object[s].local /\ o.key = object[s].key
      /\ o.profiles = object[s].profiles /\ o.forward = object[s].forward
  BY <1>2 DEF Object
<1> HIDE DEF o
<1>4. object' = [object EXCEPT ![s] = o]
  BY <1>1 DEF Counted, o
<1>5. object'[s] = o /\ \A u \in Slots : u # s => object'[u] = object[u]
  BY <1>1, <1>4
<1>6. TypeOK'
  BY <1>1, <1>3, <1>4 DEF IInv, TypeOK
<1>7. Standing(o)
  BY <1>3 DEF IInv, Stand, Standing
<1>8. Stand'
  BY <1>1, <1>3, <1>5, <1>7 DEF IInv, Stand
<1>9. \A u \in Slots : Kept(object[u], object'[u])
  BY <1>3, <1>5 DEF Kept, Alike
<1>10. InCalls'
  <2>1. \A t \in Threads : call[t].obj # None => call[t].obj \in Slots
    BY DEF IInv, TypeOK, Frame
  <2> QED BY <1>9, <2>1 DEF IInv, InCalls, InCall, Kept, Alike
<1> QED BY <1>6, <1>8, <1>9, <1>10, Quietly

LEMMA Duplicates ==
  ASSUME IInv, NEW s \in Slots, Duplicate(s)
  PROVE  IInv'
<1>1. Live(s)
  BY DEF Duplicate, IInv, Stand
<1> QED BY <1>1, Counts DEF Duplicate

LEMMA ArrivesKnown ==
  ASSUME IInv, NEW r, Arrives(r),
         NEW e \in registry, object' = Counted(e.value),
         held' = [held EXCEPT ![e.value] = @ + 1], UNCHANGED registry
  PROVE  IInv'
<1>1. e.value \in Slots /\ Live(e.value)
  BY DEF IInv, Entries, Entry
<1> QED BY <1>1, Counts DEF Arrives

(* A reference comes that no structure is known to be equal to.            *)
LEMMA ArrivesNew ==
  ASSUME IInv, NEW key \in Keys, NEW addrs \in Published, NEW o \in Object,
         o.refs = 1, o.local = None, o.orb, o.key = key, o.profiles = OwnList(addrs),
         key \in split \/ (\A g \in DOMAIN Own : ~Meet(addrs, Own[g])),
         Matches(registry, o, object) = {}, NEW s \in Allocatable,
         object' = [object EXCEPT ![s] = o], held' = [held EXCEPT ![s] = 1],
         registry' \in Inserted(registry, s, object'),
         UNCHANGED <<servers, serving, call, split, fault>>
  PROVE  IInv'
<1>1. s \in Slots /\ Unmentioned(s, registry)
  BY DEF Allocatable, Unmentioned
<1>2. /\ o \in Object /\ o.refs = 1 /\ o.local = None /\ o.orb /\ o.key = key
      /\ o.profiles = OwnList(addrs)
  OBVIOUS
<1>3. object'[s] = o /\ \A v \in Slots : v # s => object'[v] = object[v]
  BY <1>1 DEF IInv, TypeOK
<1>4. o.profiles.of = 0 /\ o.profiles.addrs = addrs
  BY <1>2 DEF OwnList
<1>5. o.profiles # NoList
  BY <1>4, Meets DEF NoList
<1>6. Standing(o)
  BY <1>2, <1>4, <1>5 DEF Standing
<1>7. Stand'
  BY <1>1, <1>2, <1>3, <1>6 DEF IInv, TypeOK, Stand
<1>8. \A u \in Slots : Proper(object'[u])
  BY <1>7 DEF Stand, Standing, Proper
<1>a. \A v \in Slots : Alike(object[v], object'[v]) \/ Unmentioned(v, registry)
  BY <1>1, <1>3 DEF Alike
<1>b. Entries(registry, object)
  BY DEF IInv
<1>9. Entries(registry, object')
  BY <1>a, <1>b, SameEntries
<1>c. object'[s].refs > 0 /\ object'[s].key \in Keys /\ object'[s].profiles # NoList
  BY <1>2, <1>3, <1>5
<1>10. Entries(registry', object')
  BY <1>1, <1>8, <1>9, <1>c, Inserting
<1>11. TypeOK'
  BY <1>1, <1>2, <1>10 DEF IInv, TypeOK, Entries
<1>12. \A g \in DOMAIN Own : ~(Whole(s)' /\ Meet(object'[s].profiles.addrs, Own[g]))
  BY <1>2, <1>3, <1>4 DEF Whole
<1>13. /\ registry' \in Inserted(registry, s, object')
       /\ object'[s].profiles # NoList
       /\ Matches(registry, object'[s], object) = {}
  BY <1>3, <1>5
<1>14. /\ object'[s].refs > 0 /\ object'[s].profiles.of = 0 /\ object'[s].local = None
       /\ split \subseteq split' /\ UNCHANGED <<servers, serving, call>>
  BY <1>2, <1>3, <1>4
<1> QED BY <1>3, <1>7, <1>11, <1>12, <1>13, <1>14, Appears

LEMMA SomethingArrives ==
  ASSUME IInv, NEW r \in Iors, Arrives(r)
  PROVE  IInv'
<1> DEFINE o == [Free EXCEPT !.refs = 1, !.orb = TRUE, !.key = r.key,
                             !.profiles = OwnList(r.addrs)]
<1>1. CASE \E e \in Matches(registry, o, object) :
             /\ object' = Counted(e.value)
             /\ held' = [held EXCEPT ![e.value] = @ + 1]
             /\ UNCHANGED registry
  BY <1>1, ArrivesKnown DEF Matches
<1>2. CASE /\ Matches(registry, o, object) = {}
           /\ \E s \in Allocatable :
                /\ object' = [object EXCEPT ![s] = o]
                /\ held' = [held EXCEPT ![s] = 1]
                /\ registry' \in Inserted(registry, s, object')
  <2>1. /\ r.key \in Keys /\ r.addrs \in Published
        /\ r.key \in split \/ (\A g \in DOMAIN Own : ~Meet(r.addrs, Own[g]))
    <3>1. CASE r \in Remote
      BY <3>1, Types, Meets
    <3>2. CASE \E u \in Slots : /\ r.key = object[u].local /\ r.addrs = object[u].profiles.addrs
                                /\ object[u].local # None /\ object[u].profiles # NoList
      <4>1. PICK u \in Slots : /\ r.key = object[u].local /\ r.addrs = object[u].profiles.addrs
                               /\ object[u].local # None /\ object[u].profiles # NoList
        BY <3>2
      <4>2. /\ r.key = object[u].key /\ object[u].orb /\ r.key \in Keys
            /\ r.addrs \in Published
        BY <4>1 DEF IInv, Stand, Standing
      <4>3. ASSUME r.key \notin split  PROVE FALSE
        <5>1. u \in Values(registry)
          BY <4>1, <4>2, <4>3 DEF IInv, Listed, Whole
        <5>2. PICK e \in registry : e.value = u
          BY <5>1 DEF Values
        <5>3. o.key = object[u].key /\ o.profiles = OwnList(r.addrs)
          BY <4>2 DEF Free
        <5>4. o.profiles.addrs = r.addrs
          BY <5>3 DEF OwnList
        <5>5. Proper(o) /\ Equal(object[u], o)
          BY <4>1, <4>2, <5>3, <5>4, Meets DEF Proper, Equal
        <5> HIDE DEF o
        <5>6. e \in Matches(registry, o, object)
          BY <5>2, <5>5, OneMatch, AllProper DEF IInv
        <5> QED BY <1>2, <5>6
      <4> QED BY <4>2, <4>3
    <3> QED BY <3>1, <3>2 DEF Iors
  <2>2. UNCHANGED <<servers, serving, call, split, fault>>
    BY DEF Arrives
  <2>3. /\ o \in Object /\ o.refs = 1 /\ o.local = None /\ o.orb /\ o.key = r.key
        /\ o.profiles = OwnList(r.addrs)
    BY <2>1, Types DEF Free, Object
  <2> HIDE DEF o
  <2> QED BY <1>2, <2>1, <2>2, <2>3, ArrivesNew
<1> QED BY <1>1, <1>2 DEF Arrives

LEMMA Faults ==
  ASSUME IInv, NEW kind \in {"connection", "profiles", "freed", "null"}, Fault(kind)
  PROVE  IInv'
<1>1. UNCHANGED <<object, held, registry, servers, serving, call, split>> /\ fault' = kind
  BY DEF Fault
<1>2. TypeOK'
  BY <1>1 DEF IInv, TypeOK
<1>3. Stand' /\ InCalls'
  BY <1>1 DEF IInv, Stand, InCalls, InCall
<1>4. \A s \in Slots : Kept(object[s], object'[s])
  BY <1>1 DEF Kept, Alike
<1> QED BY <1>1, <1>2, <1>3, <1>4, Quietly

LEMMA Exports ==
  ASSUME IInv, NEW s \in Slots, Export(s)
  PROVE  IInv'
<1>1. CASE ~object[s].orb /\ Fault("profiles")
  BY <1>1, Faults
<1>2. CASE Exported(s) /\ UNCHANGED <<held, call, split, fault>>
  <2> DEFINE o == Generated(s)
             list == [of |-> servers', addrs |-> Own[servers']]
  <2>1. /\ object[s].orb /\ servers' \in DOMAIN Own /\ serving' = TRUE
        /\ object' = [object EXCEPT ![s] = o] /\ registry' \in Inserted(registry, s, object')
        /\ servers' = IF serving THEN servers ELSE servers + 1
    BY <1>2 DEF Exported
  <2>2. object[s].profiles = NoList /\ held[s] > 0
    BY DEF Export
  <2>3. object[s] \in Object /\ object \in [Slots -> Object]
    BY DEF IInv, TypeOK
  <2>4. /\ Own[servers'] \in Published /\ Own[servers'] \in Seq(Addresses)
        /\ list \in Lists /\ list.of = servers' /\ list.addrs = Own[servers']
    BY <2>1, Types DEF Lists
  <2>5. list # NoList
    BY <2>4, Meets DEF NoList
  <2>6. object[s].local # None
    BY <2>1, <2>2 DEF IInv, Stand, Standing
  <2>7. object[s].local \in Keys
    BY <2>3, <2>6, Types DEF Object
  <2>8. o = [object[s] EXCEPT !.key = object[s].local, !.profiles = list]
    BY DEF Generated, Shared
  <2> HIDE DEF list
  <2>9. /\ o \in Object /\ o.refs = object[s].refs /\ o.orb = object[s].orb
        /\ o.local = object[s].local /\ o.key = object[s].local /\ o.profiles = list
        /\ o.forward = object[s].forward
    BY <2>3, <2>4, <2>7, <2>8 DEF Object
  <2> HIDE DEF o
  <2>10. object'[s] = o /\ \A u \in Slots : u # s => object'[u] = object[u]
    BY <2>1, <2>3
  <2>11. Standing(object[s]) /\ object[s].refs > 0 /\ object[s].refs = held[s]
    BY <2>2 DEF IInv, Stand
  <2>12. Standing(o)
    BY <2>1, <2>4, <2>5, <2>6, <2>7, <2>9, <2>11 DEF Standing
  <2>13. Stand'
    BY <1>2, <2>9, <2>10, <2>11, <2>12 DEF IInv, Stand
  <2>14. Unmentioned(s, registry)
    BY <2>2, Mentioned
  <2>15. \A u \in Slots : Proper(object'[u])
    BY <2>13 DEF Stand, Standing, Proper
  <2>16. \A u \in Slots : Alike(object[u], object'[u]) \/ Unmentioned(u, registry)
    BY <2>10, <2>14 DEF Alike
  <2>17. Entries(registry, object')
    BY <2>16, SameEntries DEF IInv
  <2>18. object'[s].refs > 0 /\ object'[s].key \in Keys /\ object'[s].profiles # NoList
    BY <2>5, <2>7, <2>9, <2>10, <2>11
  <2>19. /\ Entries(registry', object')
         /\ s \in Values(registry')
         /\ \A e \in registry : e.value \in Values(registry') \/ Equal(object'[e.value], object'[s])
    BY <2>1, <2>14, <2>15, <2>17, <2>18, Inserting
  <2>20. TypeOK'
    BY <1>2, <2>1, <2>3, <2>9, <2>19 DEF IInv, TypeOK, Entries
  <2>21. LocalOnce'
    BY <2>9, <2>10 DEF IInv, LocalOnce
  <2>22. \A u \in Slots : Whole(u)' => Whole(u) \/ u = s
    BY <1>2, <2>10 DEF Whole
  <2>23. ASSUME NEW u \in Slots, u # s, Whole(u), Equal(object'[u], object'[s])
         PROVE  FALSE
    <3>1. object[u].key = object[s].local /\ Meet(object[u].profiles.addrs, Own[servers'])
      BY <2>4, <2>9, <2>10, <2>23 DEF Equal
    <3>2. object[u].local # None
      BY <2>1, <2>23, <3>1 DEF IInv, OwnHere
    <3>3. object[u].profiles # NoList
      BY <3>1, Meets DEF NoList
    <3>4. object[u].key = object[u].local
      BY <3>2, <3>3 DEF IInv, Stand, Standing
    <3> QED BY <2>6, <2>23, <3>1, <3>4 DEF IInv, LocalOnce
  <2>24. Listed'
    <3> SUFFICES ASSUME NEW u \in Slots, Whole(u)', object'[u].profiles # NoList
                 PROVE  u \in Values(registry')
      BY DEF Listed
    <3>1. CASE u = s
      BY <2>19, <3>1
    <3>2. CASE u # s
      <4>1. Whole(u) /\ u \in Values(registry)
        BY <2>10, <2>22, <3>2 DEF IInv, Listed
      <4>2. PICK e \in registry : e.value = u
        BY <4>1 DEF Values
      <4> QED BY <2>19, <2>23, <3>2, <4>1, <4>2
    <3> QED BY <3>1, <3>2
  <2>25. OwnHere'
    BY <2>6, <2>9, <2>10, <2>22 DEF IInv, OwnHere
  <2>26. InCalls'
    <3>1. \A t \in Threads : call[t].obj = s /\ object[s].local # None => call[t].existing
      BY <2>1, <2>2, Types DEF IInv, InCalls, InCall
    <3>2. \A t \in Threads : call[t].obj # None => call[t].obj \in Slots
      BY DEF IInv, TypeOK, Frame
    <3> QED BY <1>2, <2>6, <2>9, <2>10, <2>11, <3>1, <3>2 DEF IInv, InCalls, InCall
  <2>27. SharedListLives'
    <3> SUFFICES ASSUME NEW u \in Slots, Live(u)', object'[u].key \notin split'
                 PROVE  ~FreedTwice(object[u].profiles)'
      BY DEF SharedListLives
    <3>1. CASE u = s
      BY <2>1, <2>4, <2>9, <2>10, <3>1 DEF FreedTwice
    <3>2. CASE u # s
      <4>1. ~FreedTwice(object[u].profiles) /\ object'[u] = object[u]
        BY <1>2, <2>10, <3>2 DEF IInv, SharedListLives
      <4> QED BY <2>1, <4>1 DEF FreedTwice
    <3> QED BY <3>1, <3>2
  <2> QED BY <2>13, <2>19, <2>20, <2>21, <2>24, <2>25, <2>26, <2>27 DEF IInv
<1> QED BY <1>1, <1>2 DEF Export

LEMMA UsersCounted ==
  ASSUME NEW s
  PROVE  /\ Cardinality(Users(s)) \in Nat
         /\ Cardinality(Users(s)) = 0 => \A t \in Threads : call[t].obj # s
<1>1. IsFiniteSet(Users(s))
  <2>1. Users(s) \subseteq Threads
    BY DEF Users
  <2> QED BY <2>1, FS_Subset, ObjectRefAssumption
<1> QED BY <1>1, FS_CardinalityType, FS_EmptySet DEF Users

LEMMA Releases ==
  ASSUME IInv, NEW s \in Slots, Release(s)
  PROVE  IInv'
<1>1. object[s] \in Object /\ object \in [Slots -> Object] /\ held \in [Slots -> Nat]
  BY DEF IInv, TypeOK
<1>2. object[s].refs = held[s] /\ object[s].refs \in Nat /\ held[s] > 0
  BY <1>1, UsersCounted DEF Release, IInv, Stand, Object
<1>3. \A t \in Threads : call[t].obj # None => call[t].obj \in Slots
  BY DEF IInv, TypeOK, Frame
<1>4. CASE /\ object[s].refs > 1
           /\ object' = [object EXCEPT ![s].refs = @ - 1]
           /\ held' = [held EXCEPT ![s] = @ - 1]
           /\ UNCHANGED <<registry, servers, serving, call, split, fault>>
  <2> DEFINE o == [object[s] EXCEPT !.refs = @ - 1]
  <2>1. /\ o \in Object /\ o.refs = object[s].refs - 1 /\ o.refs > 0
        /\ o.orb = object[s].orb /\ o.local = object[s].local /\ o.key = object[s].key
        /\ o.profiles = object[s].profiles /\ o.forward = object[s].forward
    BY <1>1, <1>4 DEF Object
  <2> HIDE DEF o
  <2>2. object' = [object EXCEPT ![s] = o]
    BY <1>1, <1>4 DEF o
  <2>3. object'[s] = o /\ \A u \in Slots : u # s => object'[u] = object[u]
    BY <1>1, <2>2
  <2>4. held' \in [Slots -> Nat] /\ held'[s] = o.refs /\ \A u \in Slots : u # s => held'[u] = held[u]
    BY <1>1, <1>2, <1>4, <2>1
  <2>5. TypeOK'
    BY <1>1, <1>4, <2>1, <2>2, <2>4 DEF IInv, TypeOK
  <2>6. Standing(o)
    BY <1>4, <2>1 DEF IInv, Stand, Standing
  <2>7. Stand'
    BY <2>3, <2>4, <2>6 DEF IInv, Stand
  <2>8. \A u \in Slots : Kept(object[u], object'[u])
    BY <1>2, <2>1, <2>3 DEF Kept, Alike
  <2>9. InCalls'
    BY <1>3, <1>4, <2>8 DEF IInv, InCalls, InCall, Kept, Alike
  <2> QED BY <1>4, <2>5, <2>7, <2>8, <2>9, Quietly
<1>5. CASE Fault("freed")
  BY <1>5, Faults
<1>6. CASE /\ ~(object[s].refs > 1)
           /\ registry' \in IF object[s].orb /\ object[s].profiles # NoList
                            THEN Removed(registry, object[s], object)
                            ELSE {registry}
           /\ object' = [object EXCEPT ![s] = Free]
           /\ held' = [held EXCEPT ![s] = 0]
           /\ UNCHANGED <<servers, serving, call, split, fault>>
  <2>1. object'[s] = Free /\ \A u \in Slots : u # s => object'[u] = object[u]
    BY <1>1, <1>6
  <2>2. \A u \in Slots : Proper(object[u])
    BY AllProper DEF IInv
  <2>3. /\ Entries(registry', object) /\ registry' \subseteq registry
        /\ Unmentioned(s, registry')
        /\ \A e \in registry : e \in registry' \/ Equal(object[e.value], object[s])
    <3>1. CASE object[s].profiles # NoList
      <4>1. object[s].orb
        BY <3>1 DEF IInv, Stand, Standing
      <4>2. registry' \in Removed(registry, object[s], object)
        BY <1>6, <3>1, <4>1
      <4>3. Entries(registry, object)
        BY DEF IInv
      <4> QED BY <2>2, <4>2, <4>3, Removing
    <3>2. CASE object[s].profiles = NoList
      <4>1. Unmentioned(s, registry)
        BY <3>2, Mentioned
      <4> QED BY <1>6, <3>2, <4>1 DEF IInv
    <3> QED BY <3>1, <3>2
  <2>4. \A u \in Slots : Alike(object[u], object'[u]) \/ Unmentioned(u, registry')
    BY <2>1, <2>3 DEF Alike
  <2>5. Entries(registry', object')
    BY <2>3, <2>4, SameEntries
  <2>6. TypeOK'
    BY <1>1, <1>6, <2>5, Types DEF IInv, TypeOK, Entries
  <2>7. Free.refs = 0 /\ Free.local = None /\ ~Free.orb /\ Free.profiles = NoList
    BY DEF Free
  <2>8. Standing(Free)
    BY <2>7 DEF Standing
  <2>9. Stand'
    BY <1>1, <1>6, <2>1, <2>7, <2>8 DEF IInv, Stand
  <2>10. LocalOnce'
    BY <2>1, <2>7 DEF IInv, LocalOnce
  <2>11. \A u \in Slots : Whole(u)' => u # s /\ Whole(u) /\ object'[u] = object[u]
    BY <1>6, <2>1, <2>7 DEF Whole
  <2>12. Listed'
    <3> SUFFICES ASSUME NEW u \in Slots, Whole(u)', object'[u].profiles # NoList
                 PROVE  u \in Values(registry')
      BY DEF Listed
    <3>1. u # s /\ Whole(u) /\ u \in Values(registry)
      BY <2>11 DEF IInv, Listed
    <3>2. ~Equal(object[u], object[s])
      <4> SUFFICES ASSUME Equal(object[u], object[s])  PROVE FALSE
        OBVIOUS
      <4>1. object[s].profiles # NoList /\ object[s].key = object[u].key
        BY <2>2, Equals DEF Equal
      <4>2. Whole(s)
        BY <3>1, <4>1 DEF Whole, IInv, Stand, Standing
      <4> QED BY <3>1, <4>2, Unique DEF UniqueHere
    <3>3. PICK e \in registry : e.value = u
      BY <3>1 DEF Values
    <3> QED BY <2>3, <3>2, <3>3 DEF Values
  <2>13. OwnHere'
    BY <2>11 DEF IInv, OwnHere
  <2>14. InCalls'
    <3>1. \A t \in Threads : call[t].obj # s
      <4>1. Cardinality(Users(s)) < held[s]
        BY DEF Release
      <4> QED BY <1>2, <1>6, <4>1, UsersCounted
    <3> QED BY <1>3, <1>6, <2>1, <3>1 DEF IInv, InCalls, InCall
  <2>15. SharedListLives'
    BY <1>6, <2>1, <2>7 DEF IInv, SharedListLives, FreedTwice
  <2> QED BY <2>5, <2>6, <2>9, <2>10, <2>12, <2>13, <2>14, <2>15 DEF IInv
<1> QED BY <1>4, <1>5, <1>6 DEF Release

-----------------------------------------------------------------------------
(* Waiting for connections.                                                *)

(* A structure changes what the table does not see, and one thread its     *)
(* place.                                                                  *)
LEMMA Touches ==
  ASSUME IInv, NEW s \in Slots, Live(s), NEW o \in Object,
         object' = [object EXCEPT ![s] = o],
         o.refs = object[s].refs, o.orb = object[s].orb, o.local = object[s].local,
         o.key = object[s].key, o.profiles = object[s].profiles,
         o.local # None => o.forward = object[s].forward,
         call' \in [Threads -> Frame],
         \A t \in Threads : InCall(call'[t]),
         UNCHANGED <<held, registry, servers, serving, split, fault>>
  PROVE  IInv'
<1>1. object \in [Slots -> Object]
  BY DEF IInv, TypeOK
<1>2. object'[s] = o /\ \A u \in Slots : u # s => object'[u] = object[u]
  BY <1>1
<1>3. TypeOK'
  BY <1>1 DEF IInv, TypeOK
<1>4. Standing(o)
  BY DEF IInv, Stand, Standing
<1>5. Stand'
  BY <1>2, <1>4 DEF IInv, Stand
<1>6. \A u \in Slots : Kept(object[u], object'[u])
  BY <1>2 DEF Kept, Alike
<1>7. InCalls'
  <2>1. \A t \in Threads : call'[t].obj # None => call'[t].obj \in Slots
    BY DEF Frame
  <2> QED BY <1>6, <2>1 DEF InCalls, InCall, Kept, Alike
<1> QED BY <1>3, <1>5, <1>6, <1>7, Quietly

(* A thread goes on to the next profile, or gives up.                      *)
LEMMA Tries ==
  ASSUME IInv, NEW s \in Slots, Live(s), NEW t \in Threads,
         NEW frame \in Frame, frame.obj = s, InCall(frame),
         NEW key \in Keys \cup {None}, NextTried(t, s, frame, key),
         UNCHANGED <<held, registry, servers, serving, split, fault>>
  PROVE  IInv'
<1>1. object \in [Slots -> Object] /\ object[s] \in Object /\ call \in [Threads -> Frame]
  BY DEF IInv, TypeOK
<1>2. \A cnx \in Addresses \cup {None} :
        LET o == Tried(object[s], cnx, key) IN
        /\ o \in Object /\ o.refs = object[s].refs /\ o.orb = object[s].orb
        /\ o.local = object[s].local /\ o.key = object[s].key
        /\ o.profiles = object[s].profiles /\ o.forward = object[s].forward
  BY <1>1 DEF Tried, Object
<1>3. \A u \in Threads : InCall(call[u])
  BY DEF IInv, InCalls
<1>4. \A cnx \in Addresses \cup {None} : \A f \in Frame :
        /\ object' = [object EXCEPT ![s] = Tried(object[s], cnx, key)]
        /\ call' = [call EXCEPT ![t] = f]
        /\ InCall(f)
        => IInv'
  <2> SUFFICES ASSUME NEW cnx \in Addresses \cup {None}, NEW f \in Frame,
                      object' = [object EXCEPT ![s] = Tried(object[s], cnx, key)],
                      call' = [call EXCEPT ![t] = f], InCall(f)
               PROVE  IInv'
    OBVIOUS
  <2> DEFINE o == Tried(object[s], cnx, key)
  <2>1. /\ o \in Object /\ o.refs = object[s].refs /\ o.orb = object[s].orb
        /\ o.local = object[s].local /\ o.key = object[s].key
        /\ o.profiles = object[s].profiles /\ o.forward = object[s].forward
    BY <1>2
  <2>2. object' = [object EXCEPT ![s] = o]
    OBVIOUS
  <2>3. call' \in [Threads -> Frame]
    BY <1>1
  <2>4. \A u \in Threads : InCall(call'[u])
    BY <1>1, <1>3
  <2> HIDE DEF o
  <2> QED BY <2>1, <2>2, <2>3, <2>4, Touches
<1>5. frame.rest \in Seq(Addresses)
  BY DEF Frame
<1> DEFINE list == frame.rest
           failed(i) == \E j \in 1 .. i - 1 : list[j] \in Unix
<1>6. PICK n \in 1 .. Len(list) + 1 : \E tried \in BOOLEAN :
        \/ /\ n <= Len(list)
           /\ object' = [object EXCEPT ![s] = Tried(@, list[n], key)]
           /\ call' = [call EXCEPT ![t] =
                [frame EXCEPT !.rest = SubSeq(list, n + 1, Len(list)),
                              !.cnx = list[n],
                              !.unix_failed = @ \/ failed(n)]]
        \/ /\ object' = [object EXCEPT ![s] =
                Tried(@, IF tried THEN None ELSE object[s].cnx, key)]
           /\ call' = [call EXCEPT ![t] = Idle]
  BY DEF NextTried
<1>7. PICK tried \in BOOLEAN :
        \/ /\ n <= Len(list)
           /\ object' = [object EXCEPT ![s] = Tried(@, list[n], key)]
           /\ call' = [call EXCEPT ![t] =
                [frame EXCEPT !.rest = SubSeq(list, n + 1, Len(list)),
                              !.cnx = list[n],
                              !.unix_failed = @ \/ failed(n)]]
        \/ /\ object' = [object EXCEPT ![s] =
                Tried(@, IF tried THEN None ELSE object[s].cnx, key)]
           /\ call' = [call EXCEPT ![t] = Idle]
  BY <1>6
<1>8. CASE /\ n <= Len(list)
           /\ object' = [object EXCEPT ![s] = Tried(@, list[n], key)]
           /\ call' = [call EXCEPT ![t] =
                [frame EXCEPT !.rest = SubSeq(list, n + 1, Len(list)),
                              !.cnx = list[n],
                              !.unix_failed = @ \/ failed(n)]]
  <2> DEFINE late == frame.unix_failed \/ failed(n)
             f == [frame EXCEPT !.rest = SubSeq(list, n + 1, Len(list)),
                                !.cnx = list[n], !.unix_failed = late]
  <2>1. list[n] \in Addresses /\ SubSeq(list, n + 1, Len(list)) \in Seq(Addresses)
    BY <1>5, <1>8, SubSeqProperties
  <2>2. late \in BOOLEAN
    OBVIOUS
  <2>3. object' = [object EXCEPT ![s] = Tried(object[s], list[n], key)]
    BY <1>1, <1>8
  <2>4. call' = [call EXCEPT ![t] = f]
    BY <1>8
  <2> HIDE DEF late, list
  <2>5. f \in Frame /\ f.obj = s /\ f.existing = frame.existing /\ f.objkey = frame.objkey
    BY <2>1, <2>2 DEF Frame
  <2> HIDE DEF f
  <2>6. InCall(f)
    BY <2>5 DEF InCall
  <2> QED BY <1>4, <2>1, <2>3, <2>4, <2>5, <2>6
<1>9. CASE /\ object' = [object EXCEPT ![s] =
                Tried(@, IF tried THEN None ELSE object[s].cnx, key)]
           /\ call' = [call EXCEPT ![t] = Idle]
  <2> DEFINE cnx == IF tried THEN None ELSE object[s].cnx
  <2>1. cnx \in Addresses \cup {None}
    BY <1>1 DEF Object
  <2>2. object' = [object EXCEPT ![s] = Tried(object[s], cnx, key)]
    BY <1>1, <1>9
  <2>3. InCall(Idle)
    BY DEF InCall, Idle
  <2> HIDE DEF cnx
  <2> QED BY <1>4, <1>9, <2>1, <2>2, <2>3, Types
<1> QED BY <1>7, <1>8, <1>9

LEMMA Begins ==
  ASSUME IInv, NEW t \in Threads, NEW s \in Slots, Begin(t, s)
  PROVE  IInv'
<1>1. object[s] \in Object /\ call \in [Threads -> Frame] /\ held \in [Slots -> Nat]
  BY DEF IInv, TypeOK
<1>2. Live(s)
  BY <1>1, UsersCounted DEF Begin, IInv, Stand
<1>3. UNCHANGED <<held, registry, servers, serving, split, fault>>
  BY DEF Begin
<1>4. CASE /\ object[s].cnx # None
           /\ call' = [call EXCEPT ![t] =
                [Idle EXCEPT !.obj = s, !.cnx = object[s].cnx, !.existing = TRUE]]
           /\ UNCHANGED object
  <2> DEFINE f == [Idle EXCEPT !.obj = s, !.cnx = object[s].cnx, !.existing = TRUE]
             o == object[s]
  <2>1. f \in Frame /\ f.existing /\ f.obj = s
    BY <1>1, Types DEF Idle, Frame, Object
  <2> HIDE DEF f
  <2>2. call' = [call EXCEPT ![t] = f]
    BY <1>4 DEF f
  <2>3. InCall(f)
    BY <1>2, <2>1 DEF InCall
  <2>4. call' \in [Threads -> Frame] /\ \A u \in Threads : InCall(call'[u])
    BY <1>1, <2>1, <2>2, <2>3 DEF IInv, InCalls
  <2>5. object' = [object EXCEPT ![s] = o]
    BY <1>4 DEF IInv, TypeOK
  <2> HIDE DEF o
  <2>6. o = object[s]
    BY DEF o
  <2> QED BY <1>1, <1>2, <1>3, <2>4, <2>5, <2>6, Touches
<1>5. ASSUME object[s].cnx = None, NEW rest, NEW objkey,
             rest = IF object[s].forward # NoList THEN object[s].forward.addrs
                                                  ELSE object[s].profiles.addrs,
             objkey = IF object[s].forward # NoList THEN object[s].forward_key
                                                    ELSE object[s].key,
             NextTried(t, s, [Idle EXCEPT !.obj = s, !.rest = rest, !.objkey = objkey], None)
      PROVE  IInv'
  <2> DEFINE f == [Idle EXCEPT !.obj = s, !.rest = rest, !.objkey = objkey]
  <2>1. rest \in Seq(Addresses) /\ objkey \in Keys \cup {None}
    BY <1>1, <1>5 DEF Object, Lists
  <2>2. f \in Frame /\ f.obj = s /\ f.objkey = objkey
    BY <2>1, Types DEF Idle, Frame
  <2>3. NextTried(t, s, f, None)
    BY <1>5
  <2> HIDE DEF f
  <2>4. object[s].profiles # NoList
    BY <1>5 DEF Begin
  <2>5. object[s].local # None => objkey = object[s].local
    BY <1>5, <2>4 DEF IInv, Stand, Standing
  <2>6. InCall(f)
    BY <1>2, <2>2, <2>4, <2>5 DEF InCall
  <2> QED BY <1>2, <1>3, <2>2, <2>3, <2>6, Tries
<1> QED BY <1>4, <1>5 DEF Begin

(* The thread that connected to where the object was forwarded to gives it *)
(* the other key, and files it there.                                      *)
LEMMA Rekeys ==
  ASSUME IInv, NEW t \in Threads, NEW s \in Slots, call[t].obj = s,
         ~call[t].existing, call[t].objkey # object[s].key, call[t].objkey # None,
         object[s].orb, Rekeyed(t, s), call' = [call EXCEPT ![t] = Idle],
         UNCHANGED <<held, servers, serving, fault>>
  PROVE  IInv'
<1> DEFINE k == call[t].objkey
           o == [object[s] EXCEPT !.key = k, !.used = TRUE]
<1>1. object \in [Slots -> Object] /\ object[s] \in Object /\ call \in [Threads -> Frame]
  BY DEF IInv, TypeOK
<1>2. Standing(object[s]) /\ Live(s) /\ InCall(call[t])
  BY Types DEF IInv, Stand, InCalls, InCall
<1>3. object[s].local = None
  <2> SUFFICES ASSUME object[s].local # None  PROVE FALSE
    OBVIOUS
  <2>1. call[t].obj # None
    BY Types
  <2>2. call[t].objkey = object[s].local /\ object[s].profiles # NoList
    BY <1>2, <2>1 DEF InCall
  <2> QED BY <1>2, <2>2 DEF Standing
<1>4. object[s].profiles # NoList /\ object[s].key \in Keys
  BY <1>2, <1>3 DEF Standing
<1>5. k \in Keys
  BY <1>1 DEF Frame
<1>6. /\ o \in Object /\ o.refs = object[s].refs /\ o.orb /\ o.local = None
      /\ o.key = k /\ o.profiles = object[s].profiles
  BY <1>1, <1>3, <1>5 DEF Object
<1>7. /\ object' = [object EXCEPT ![s] = o]
      /\ \E reg \in Removed(registry, object[s], object) :
           registry' \in Inserted(reg, s, object')
      /\ split' = split \cup {object[s].key, k}
  <2>1. [object EXCEPT ![s].key = k, ![s].used = TRUE] = [object EXCEPT ![s] = o]
    BY <1>1
  <2> QED BY <2>1 DEF Rekeyed
<1> HIDE DEF o, k
<1>8. object'[s] = o /\ \A u \in Slots : u # s => object'[u] = object[u]
  BY <1>1, <1>7
<1>9. Standing(o)
  BY <1>2, <1>4, <1>5, <1>6 DEF Standing
<1>10. Stand'
  BY <1>6, <1>8, <1>9 DEF IInv, Stand
<1>11. PICK reg \in Removed(registry, object[s], object) :
          registry' \in Inserted(reg, s, object')
  BY <1>7
<1>12. /\ \A u \in Slots : Proper(object[u]) /\ Proper(object'[u])
       /\ Entries(registry, object)
  BY <1>10, AllProper DEF IInv, Stand, Standing, Proper
<1>13. /\ Entries(reg, object) /\ Unmentioned(s, reg)
       /\ \A e \in registry : e \in reg \/ Equal(object[e.value], object[s])
  BY <1>11, <1>12, Removing
<1>14. \A u \in Slots : Alike(object[u], object'[u]) \/ Unmentioned(u, reg)
  BY <1>8, <1>13 DEF Alike
<1>15. Entries(reg, object')
  BY <1>13, <1>14, SameEntries
<1>16. object'[s].refs > 0 /\ object'[s].key \in Keys /\ object'[s].profiles # NoList
  BY <1>2, <1>4, <1>5, <1>6, <1>8
<1>17. /\ Entries(registry', object')
       /\ \A e \in reg : e.value \in Values(registry') \/ Equal(object'[e.value], object'[s])
  BY <1>11, <1>12, <1>13, <1>15, <1>16, Inserting
<1>18. call' \in [Threads -> Frame] /\ \A u \in Threads : call'[u] = Idle \/ call'[u] = call[u]
  BY <1>1, Types
<1>19. TypeOK'
  BY <1>1, <1>4, <1>5, <1>6, <1>7, <1>17, <1>18 DEF IInv, TypeOK, Entries
<1>20. LocalOnce'
  BY <1>3, <1>6, <1>8 DEF IInv, LocalOnce
<1>21. \A u \in Slots : Whole(u)' =>
          u # s /\ Whole(u) /\ object[u].key # object[s].key /\ object[u].key # k
  BY <1>6, <1>7, <1>8 DEF Whole
<1>22. Listed'
  <2> SUFFICES ASSUME NEW u \in Slots, Whole(u)', object'[u].profiles # NoList
               PROVE  u \in Values(registry')
    BY DEF Listed
  <2>1. /\ u # s /\ object'[u] = object[u] /\ u \in Values(registry)
        /\ object[u].key # object[s].key /\ object[u].key # k
    BY <1>8, <1>21 DEF IInv, Listed
  <2>2. PICK e \in registry : e.value = u
    BY <2>1 DEF Values
  <2>3. ~Equal(object[u], object[s]) /\ ~Equal(object'[u], object'[s])
    BY <1>6, <1>8, <2>1 DEF Equal
  <2> QED BY <1>13, <1>17, <2>2, <2>3
<1>23. OwnHere'
  BY <1>8, <1>21 DEF IInv, OwnHere
<1>24. InCalls'
  <2> SUFFICES ASSUME NEW u \in Threads, call'[u] = call[u]  PROVE InCall(call[u])'
    BY <1>18 DEF InCalls, InCall, Idle
  <2>1. InCall(call[u]) /\ (call[u].obj # None => call[u].obj \in Slots)
    BY <1>1 DEF IInv, InCalls, Frame
  <2> QED BY <1>2, <1>3, <1>6, <1>8, <2>1 DEF InCall
<1>25. SharedListLives'
  <2> SUFFICES ASSUME NEW u \in Slots, Live(u)', object'[u].key \notin split'
               PROVE  ~FreedTwice(object[u].profiles)'
    BY DEF SharedListLives
  <2>1. u # s /\ object'[u] = object[u] /\ object[u].key \notin split
    BY <1>6, <1>7, <1>8
  <2> QED BY <2>1 DEF IInv, SharedListLives, FreedTwice
<1> QED BY <1>10, <1>17, <1>19, <1>20, <1>22, <1>23, <1>24, <1>25 DEF IInv

LEMMA Awakes ==
  ASSUME IInv, NEW t \in Threads, Wakes(t)
  PROVE  IInv'
<1> DEFINE s == call[t].obj
           frame == call[t]
<1>1. object \in [Slots -> Object] /\ call \in [Threads -> Frame]
  BY DEF IInv, TypeOK
<1>2. frame \in Frame /\ s \in Slots /\ s # None /\ InCall(frame)
  BY <1>1 DEF Wakes, IInv, InCalls, Frame
<1>3. Live(s) /\ object[s] \in Object
  BY <1>1, <1>2 DEF InCall
<1>4. CASE \E kind \in {"connection", "null", "freed"} : Fault(kind)
  BY <1>4, Faults
<1>5. ASSUME call' = [call EXCEPT ![t] = Idle], NEW o \in Object,
             object' = [object EXCEPT ![s] = o],
             o = object[s] \/ o = [object[s] EXCEPT !.used = TRUE],
             UNCHANGED <<held, registry, servers, serving, split, fault>>
      PROVE  IInv'
  <2>1. /\ o.refs = object[s].refs /\ o.orb = object[s].orb
        /\ o.local = object[s].local /\ o.key = object[s].key
        /\ o.profiles = object[s].profiles /\ o.forward = object[s].forward
    BY <1>3, <1>5 DEF Object
  <2>2. call' \in [Threads -> Frame] /\ \A u \in Threads : InCall(call'[u])
    BY <1>1, <1>5, Types DEF IInv, InCalls, InCall, Idle
  <2> HIDE DEF s
  <2> QED BY <1>2, <1>3, <1>5, <2>1, <2>2, Touches
<1>6. CASE /\ ~(~frame.existing /\ frame.objkey # object[s].key
                  /\ (frame.objkey = None \/ ~object[s].orb))
           /\ Connected(t, s) /\ UNCHANGED <<held, servers, serving, fault>>
  <2>1. CASE /\ object' = [object EXCEPT ![s].used = TRUE]
             /\ UNCHANGED <<registry, split>>
    <3> DEFINE o == [object[s] EXCEPT !.used = TRUE]
    <3>1. o \in Object
      BY <1>3 DEF Object
    <3>2. object' = [object EXCEPT ![s] = o]
      BY <1>1, <2>1
    <3>3. call' = [call EXCEPT ![t] = Idle]
      BY <1>6 DEF Connected
    <3> QED BY <1>5, <1>6, <2>1, <3>1, <3>2, <3>3
  <2>2. CASE ~frame.existing /\ frame.objkey # object[s].key /\ Rekeyed(t, s)
    <3>1. call' = [call EXCEPT ![t] = Idle] /\ frame.objkey # None /\ object[s].orb
      BY <1>6, <2>2 DEF Connected
    <3> QED BY <1>2, <1>6, <2>2, <3>1, Rekeys
  <2> QED BY <1>6, <2>1, <2>2 DEF Connected
<1>7. CASE /\ frame.existing /\ call' = [call EXCEPT ![t] = Idle]
           /\ UNCHANGED object
           /\ UNCHANGED <<held, registry, servers, serving, split, fault>>
  <2>1. object' = [object EXCEPT ![s] = object[s]]
    BY <1>1, <1>7
  <2> QED BY <1>3, <1>5, <1>7, <2>1
<1>8. CASE /\ ~frame.existing /\ NextTried(t, s, frame, object[s].forward_key)
           /\ UNCHANGED <<held, registry, servers, serving, split, fault>>
  <2>1. object[s].forward_key \in Keys \cup {None}
    BY <1>3 DEF Object
  <2> QED BY <1>2, <1>3, <1>8, <2>1, Tries
<1>9. \/ \E kind \in {"connection", "null", "freed"} : Fault(kind)
      \/ /\ ~(~frame.existing /\ frame.objkey # object[s].key
                /\ (frame.objkey = None \/ ~object[s].orb))
         /\ Connected(t, s) /\ UNCHANGED <<held, servers, serving, fault>>
      \/ /\ frame.existing /\ call' = [call EXCEPT ![t] = Idle]
         /\ UNCHANGED object
         /\ UNCHANGED <<held, registry, servers, serving, split, fault>>
      \/ /\ ~frame.existing /\ NextTried(t, s, frame, object[s].forward_key)
         /\ UNCHANGED <<held, registry, servers, serving, split, fault>>
  BY DEF Wakes
<1> QED BY <1>4, <1>6, <1>7, <1>8, <1>9

LEMMA Forwarded ==
  ASSUME IInv, NEW t \in Threads, NEW s \in Slots, NEW r \in Forwards,
         LocationForward(t, s, r)
  PROVE  IInv'
<1> DEFINE o == [object[s] EXCEPT !.forward = OwnList(r.addrs), !.forward_key = r.key,
                                  !.cnx = None]
<1>1. /\ object \in [Slots -> Object] /\ object[s] \in Object
      /\ call \in [Threads -> Frame] /\ held \in [Slots -> Nat]
  BY DEF IInv, TypeOK
<1>2. Live(s) /\ object[s].local = None
  BY <1>1, UsersCounted DEF LocationForward, IInv, Stand
<1>3. /\ o \in Object /\ o.refs = object[s].refs /\ o.orb = object[s].orb
      /\ o.local = object[s].local /\ o.key = object[s].key
      /\ o.profiles = object[s].profiles
  BY <1>1, Types DEF Object
<1>4. object' = [object EXCEPT ![s] = o]
  BY <1>1 DEF LocationForward
<1> HIDE DEF o
<1>5. call' \in [Threads -> Frame] /\ \A u \in Threads : InCall(call'[u])
  <2>1. CASE call' = call
    BY <1>1, <2>1 DEF IInv, InCalls
  <2>2. CASE call' = Dropped(s)
    <3>1. \A u \in Threads : LET f == [call[u] EXCEPT !.stale = TRUE] IN
            f \in Frame /\ f.obj = call[u].obj /\ f.existing = call[u].existing
              /\ f.objkey = call[u].objkey
      BY <1>1 DEF Frame
    <3>2. \A u \in Threads :
            /\ call'[u] \in Frame /\ call'[u].obj = call[u].obj
            /\ call'[u].existing = call[u].existing /\ call'[u].objkey = call[u].objkey
      BY <1>1, <2>2, <3>1 DEF Dropped
    <3>3. call' \in [Threads -> Frame]
      BY <2>2, <3>2 DEF Dropped
    <3> QED BY <3>2, <3>3 DEF IInv, InCalls, InCall
  <2> QED BY <2>1, <2>2 DEF LocationForward
<1>6. UNCHANGED <<held, registry, servers, serving, split, fault>>
  BY DEF LocationForward
<1> QED BY <1>2, <1>3, <1>4, <1>5, <1>6, Touches

(* Every structure in the table loses its profiles; what stands for its    *)
(* object alone is the key of its entry.                                   *)
LEMMA ShutsDown ==
  ASSUME IInv, Shutdown
  PROVE  IInv'
<1> DEFINE listed == {e.key : e \in registry}
           o(s) == [object[s] EXCEPT !.orb = FALSE, !.profiles = NoList,
                                     !.forward = NoList, !.forward_key = None]
<1>1. object \in [Slots -> Object] /\ call \in [Threads -> Frame]
  BY DEF IInv, TypeOK
<1>2. \A s \in Slots :
        /\ o(s) \in Object /\ o(s).refs = object[s].refs /\ ~o(s).orb
        /\ o(s).local = object[s].local /\ o(s).key = object[s].key
        /\ o(s).profiles = NoList /\ o(s).forward = NoList
  BY <1>1, Types DEF Object
<1>3. \A s \in Slots : object'[s] = IF s \in listed THEN o(s) ELSE object[s]
  BY DEF Shutdown
<1>4. object' \in [Slots -> Object]
  BY <1>1, <1>2, <1>3 DEF Shutdown
<1> HIDE DEF o
<1>5. \A s \in Slots :
        /\ object'[s].refs = object[s].refs /\ object'[s].local = object[s].local
        /\ object'[s].key = object[s].key
        /\ object'[s].orb => s \notin listed /\ object'[s] = object[s]
        /\ object'[s] = object[s] \/ (object'[s].profiles = NoList /\ ~object'[s].orb)
  BY <1>2, <1>3
<1>6. \A t \in Threads : LET f == [call[t] EXCEPT !.stale = TRUE] IN
        f \in Frame /\ f.obj = call[t].obj /\ f.existing = call[t].existing
          /\ f.objkey = call[t].objkey
  BY <1>1 DEF Frame
<1>7. \A t \in Threads :
        /\ call'[t] \in Frame /\ call'[t].obj = call[t].obj
        /\ call'[t].existing = call[t].existing /\ call'[t].objkey = call[t].objkey
  BY <1>1, <1>6 DEF Shutdown
<1>8. call' \in [Threads -> Frame]
  BY <1>7 DEF Shutdown
<1>9. registry' = {} /\ serving' = FALSE /\ UNCHANGED <<held, servers, split, fault>>
  BY DEF Shutdown
<1>10. TypeOK'
  BY <1>4, <1>8, <1>9 DEF IInv, TypeOK
<1>11. \A s \in listed : Live(s)
  BY DEF IInv, Entries
<1>12. Stand'
  <2> SUFFICES ASSUME NEW s \in Slots  PROVE Standing(object'[s]) /\ object'[s].refs = held[s]
    BY <1>9 DEF Stand
  <2>1. CASE s \in listed
    <3>1. object'[s] = o(s) /\ Live(s) /\ object[s].refs = held[s]
      BY <1>3, <1>11, <2>1 DEF IInv, Stand
    <3> QED BY <1>2, <3>1 DEF Standing
  <2>2. CASE s \notin listed
    BY <1>3, <2>2 DEF IInv, Stand
  <2> QED BY <2>1, <2>2
<1>13. LocalOnce'
  BY <1>5 DEF IInv, LocalOnce
<1>14. Entries(registry', object')
  BY <1>9 DEF Entries
<1>15. ASSUME NEW s \in Slots, Whole(s), object[s].profiles # NoList
       PROVE  s \in listed
  <2>1. s \in Values(registry)
    BY <1>15 DEF IInv, Listed
  <2>2. PICK e \in registry : e.value = s
    BY <2>1 DEF Values
  <2>3. e.key \in Slots /\ Equal(object[e.key], object[s])
    BY <2>2 DEF IInv, Entries, Entry
  <2>4. object[e.key].orb /\ object[e.key].key = object[s].key
    BY <2>3, Mentioned DEF Unmentioned, Equal
  <2>5. Whole(e.key)
    BY <1>15, <2>4 DEF Whole
  <2>6. e.key = s
    BY <1>15, <2>3, <2>5, Unique DEF UniqueHere
  <2> QED BY <2>2, <2>6
<1>16. \A s \in Slots : Whole(s)' => Whole(s) /\ object'[s] = object[s] /\ s \notin listed
  BY <1>5, <1>9 DEF Whole
<1>17. Listed'
  BY <1>15, <1>16 DEF Listed
<1>18. OwnHere'
  BY <1>16 DEF IInv, OwnHere
<1>19. InCalls'
  <2>1. \A t \in Threads : call[t].obj # None => call[t].obj \in Slots
    BY <1>1 DEF Frame
  <2> QED BY <1>5, <1>7, <2>1 DEF IInv, InCalls, InCall
<1>20. SharedListLives'
  <2> SUFFICES ASSUME NEW s \in Slots, Live(s)', object'[s].key \notin split'
               PROVE  object'[s].profiles.of = 0
    BY DEF SharedListLives, FreedTwice
  <2>1. CASE object'[s].profiles = NoList
    BY <2>1 DEF NoList
  <2>2. CASE object'[s].profiles # NoList
    <3>1. object'[s] = object[s] /\ object[s].key \notin split
      BY <1>5, <1>9, <2>2
    <3>2. object[s].orb
      BY <2>2, <3>1 DEF IInv, Stand, Standing
    <3>3. s \in listed
      BY <1>15, <2>2, <3>1, <3>2 DEF Whole
    <3> QED BY <1>5, <3>1, <3>2, <3>3
  <2> QED BY <2>1, <2>2
<1> QED BY <1>10, <1>12, <1>13, <1>14, <1>17, <1>18, <1>19, <1>20 DEF IInv

LEMMA NextIInv == IInv /\ [Next]_vars => IInv'
<1> SUFFICES ASSUME IInv, [Next]_vars  PROVE IInv'
  OBVIOUS
<1>1. CASE \E s \in Slots, k \in LocalKeys : CreateLocal(s, k)
  BY <1>1, CreatesLocal
<1>2. CASE \E s \in Slots : Export(s)
  BY <1>2, Exports
<1>3. CASE \E s \in Slots : GetProxy(s)
  BY <1>3, GetsProxy
<1>4. CASE \E s \in Slots : Duplicate(s)
  BY <1>4, Duplicates
<1>5. CASE \E s \in Slots : Release(s)
  BY <1>5, Releases
<1>6. CASE \E s \in Slots, t \in Threads, r \in Forwards : LocationForward(t, s, r)
  BY <1>6, Forwarded
<1>7. CASE \E r \in Iors : Arrives(r)
  BY <1>7, SomethingArrives
<1>8. CASE \E t \in Threads : Wakes(t)
  BY <1>8, Awakes
<1>9. CASE \E t \in Threads, s \in Slots : Begin(t, s)
  BY <1>9, Begins
<1>10. CASE Shutdown
  BY <1>10, ShutsDown
<1>11. CASE UNCHANGED vars
  <2>1. TypeOK' /\ Stand' /\ InCalls'
    BY <1>11 DEF IInv, vars, TypeOK, Stand, InCalls, InCall
  <2>2. \A s \in Slots : Kept(object[s], object'[s])
    BY <1>11 DEF vars, Kept, Alike
  <2> QED BY <1>11, <2>1, <2>2, Quietly DEF vars
<1> QED BY <1>1, <1>2, <1>3, <1>4, <1>5, <1>6, <1>7, <1>8, <1>9, <1>10, <1>11 DEF Next

LEMMA Invariant == Spec => []IInv
BY InitIInv, NextIInv, PTL DEF Spec

-----------------------------------------------------------------------------
(* Every variable keeps its type, whatever arrives, is forwarded and shut  *)
(* down.                                                                   *)
THEOREM TypeCorrect == Spec => []TypeOK
<1>1. IInv => TypeOK
  BY DEF IInv
<1> QED BY <1>1, Invariant, PTL

(* The table of references leads to no freed structure and to each under   *)
(* the key it has (corba-object.c, MateCORBA_register_objref and           *)
(* MateCORBA_objref_find).                                                 *)
THEOREM TableSound == Spec => []RegistrySound
BY Sound, Invariant, PTL

(* An object that was never proxied and whose key no forward changed is    *)
(* one structure.                                                          *)
THEOREM OneStructure == Spec => []UniqueHere
BY Unique, Invariant, PTL

(* A local object that was never proxied shares only profiles of servers   *)
(* that run (IOP_generate_profiles, MateCORBA_ORB_shutdown_servers).       *)
THEOREM SharedProfilesLive == Spec => []SharedListLives
<1>1. IInv => SharedListLives
  BY DEF IInv
<1> QED BY <1>1, Invariant, PTL
=============================================================================
