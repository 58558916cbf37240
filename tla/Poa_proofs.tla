----------------------------- MODULE Poa_proofs -----------------------------
(***************************************************************************)
(* Proofs about Poa, for any POAs, objects, servants and threads: the      *)
(* types, and what its run checks.                                         *)
(*                                                                         *)
(* What can be said of an object depends on three sets of threads: those   *)
(* that use it (a method or a finalizer runs), those that finalize it and  *)
(* those that hold a reference of it.  Core relates them to the object's   *)
(* record.  Almost every step changes one object and the stack of one      *)
(* thread, and leaves the Core of the other objects alone because both     *)
(* stacks of the thread look Alike to them.                                *)
(***************************************************************************)
EXTENDS Poa, SequenceTheorems, FiniteSetTheorems, TLAPS

-----------------------------------------------------------------------------
(* The shapes of a stack.  A call is alone on it; below a finalizer there  *)
(* is the end of PortableServer_POA_deactivate_object or what deactivates  *)
(* a POA, and below a traversal those who asked for it.                    *)
LeafKinds == {"found", "request", "method", "direct", "release"}
WorkKinds == {"deactivate", "destroy", "manager"}
Leaves == {f \in Frame : f.at \in LeafKinds}
Finals == {f \in Frame : f.at = "final"}
Works == {f \in Frame : f.at \in WorkKinds}

Chains == {s \in Seq(Works) : s # <<>> => s[Len(s)].at # "deactivate"}
Rests == Chains \cup {<<f>> : f \in {g \in Frame : g.at = "release"}}
Shaped(s) ==
  \/ s \in Chains
  \/ \E f \in Leaves : s = <<f>>
  \/ \E f \in Finals, r \in Rests : s = <<f>> \o r

LEMMA Pushing ==
  ASSUME NEW f \in Frame, NEW r \in Seq(Frame)
  PROVE  /\ <<f>> \o r \in Seq(Frame) /\ <<f>> \o r # <<>>
         /\ Head(<<f>> \o r) = f /\ Tail(<<f>> \o r) = r
         /\ Len(<<f>> \o r) = 1 + Len(r)
         /\ (<<f>> \o r)[1] = f
         /\ \A i \in 1 .. Len(r) : (<<f>> \o r)[i + 1] = r[i]
OBVIOUS

LEMMA Alone ==
  ASSUME NEW f \in Frame
  PROVE  /\ <<f>> \in Seq(Frame) /\ <<f>> # <<>> /\ Len(<<f>>) = 1
         /\ Head(<<f>>) = f /\ Tail(<<f>>) = <<>> /\ <<f>>[1] = f
OBVIOUS

LEMMA FrameKinds ==
  ASSUME NEW f \in Frame
  PROVE  f \in Leaves \/ f \in Finals \/ f \in Works
BY DEF Frame, Leaves, Finals, Works, LeafKinds, WorkKinds

LEMMA ChainFrames ==
  /\ <<>> \in Chains
  /\ Chains \subseteq Seq(Frame) /\ Rests \subseteq Seq(Frame)
<1>1. Seq(Works) \subseteq Seq(Frame)
  BY SeqMonotonic DEF Works
<1>2. <<>> \in Seq(Works)
  BY EmptySeq
<1> QED BY <1>1, <1>2, Alone DEF Chains, Rests

LEMMA ChainPush ==
  ASSUME NEW f \in Works, NEW s \in Chains, f.at = "deactivate" => s # <<>>
  PROVE  <<f>> \o s \in Chains
<1> DEFINE u == <<f>> \o s
           n == Len(s)
<1>1. f \in Frame /\ s \in Seq(Frame) /\ s \in Seq(Works) /\ n \in Nat
  BY ChainFrames, LenProperties DEF Works, Chains
<1>2. u \in Seq(Works)
  <2>1. <<f>> \in Seq(Works)
    OBVIOUS
  <2> QED BY <1>1, <2>1, ConcatProperties
<1>3. Len(u) = 1 + n /\ u[1] = f /\ \A i \in 1 .. n : u[i + 1] = s[i]
  BY <1>1, Pushing
<1>4. s # <<>> => n # 0
  BY <1>1, EmptySeq
<1>5. s = <<>> => n = 0
  BY EmptySeq
<1> HIDE DEF u, n
<1>6. CASE s = <<>>
  BY <1>2, <1>3, <1>5, <1>6 DEF Chains, u
<1>7. CASE s # <<>>
  <2>1. n \in 1 .. n /\ n + 1 = 1 + n
    BY <1>1, <1>4, <1>7
  <2>2. u[Len(u)] = s[n]
    BY <1>3, <2>1
  <2>3. s[n].at # "deactivate"
    BY <1>7 DEF Chains, n
  <2> QED BY <1>2, <2>2, <2>3 DEF Chains, u
<1> QED BY <1>6, <1>7

LEMMA ChainPop ==
  ASSUME NEW s \in Chains, s # <<>>
  PROVE  /\ Head(s) \in Works /\ Tail(s) \in Chains /\ s = <<Head(s)>> \o Tail(s)
         /\ Head(s).at = "deactivate" => Tail(s) # <<>>
<1> DEFINE u == Tail(s)
           n == Len(s)
<1>1. s \in Seq(Works) /\ n \in Nat /\ n # 0 /\ s[n].at # "deactivate"
  BY EmptySeq, LenProperties DEF Chains
<1>2. /\ Head(s) \in Works /\ u \in Seq(Works) /\ Len(u) = n - 1
      /\ Head(s) = s[1] /\ \A i \in 1 .. n - 1 : u[i] = s[i + 1]
  BY <1>1, HeadTailProperties
<1>3. s = <<Head(s)>> \o Tail(s)
  BY <1>1
<1>4. u # <<>> => Len(u) # 0
  BY <1>2, EmptySeq
<1>5. u = <<>> => Len(u) = 0
  BY EmptySeq
<1> HIDE DEF u, n
<1>6. CASE u = <<>>
  <2>1. n = 1
    BY <1>1, <1>2, <1>5, <1>6
  <2> QED BY <1>1, <1>2, <1>3, <1>6, <2>1, ChainFrames DEF u
<1>7. CASE u # <<>>
  <2>1. n - 1 \in 1 .. n - 1 /\ (n - 1) + 1 = n
    BY <1>1, <1>2, <1>4, <1>7
  <2>2. u[Len(u)] = s[n]
    BY <1>2, <2>1
  <2>3. u \in Chains
    BY <1>1, <1>2, <2>2 DEF Chains
  <2> QED BY <1>2, <1>3, <1>7, <2>3 DEF u
<1> QED BY <1>6, <1>7

LEMMA ShapeFrames ==
  ASSUME NEW s, Shaped(s)
  PROVE  s \in Seq(Frame)
<1>1. CASE s \in Chains
  BY <1>1, ChainFrames
<1>2. CASE \E f \in Leaves : s = <<f>>
  BY <1>2, Alone DEF Leaves
<1>3. CASE \E f \in Finals, r \in Rests : s = <<f>> \o r
  BY <1>3, ChainFrames, Pushing DEF Finals
<1> QED BY <1>1, <1>2, <1>3 DEF Shaped

(* What is found below the top of a stack. *)
LEMMA ShapeTop ==
  ASSUME NEW s, Shaped(s), s # <<>>
  PROVE  /\ Head(s) \in Frame /\ Head(s).at \in LeafKinds \cup WorkKinds \cup {"final"}
         /\ Head(s).at \in LeafKinds => s = <<Head(s)>> /\ Tail(s) = <<>>
         /\ Head(s).at = "final" => Tail(s) \in Rests /\ s = <<Head(s)>> \o Tail(s)
         /\ Head(s).at \in WorkKinds => s \in Chains
<1>1. CASE s \in Chains
  <2>1. Head(s) \in Works
    BY <1>1, ChainPop
  <2> QED BY <1>1, <2>1 DEF Works, LeafKinds, WorkKinds
<1>2. ASSUME NEW f \in Leaves, s = <<f>> PROVE Head(s) \in Leaves /\ s = <<Head(s)>> /\ Tail(s) = <<>>
  BY <1>2, Alone DEF Leaves
<1>3. ASSUME NEW f \in Finals, NEW r \in Rests, s = <<f>> \o r
      PROVE  Head(s) \in Finals /\ Tail(s) \in Rests /\ s = <<Head(s)>> \o Tail(s)
  BY <1>3, ChainFrames, Pushing DEF Finals
<1> QED BY <1>1, <1>2, <1>3 DEF Shaped, Leaves, Finals, LeafKinds, WorkKinds

-----------------------------------------------------------------------------
(* Who uses, finalizes, refers to and holds a reference of an object.      *)
Refers(o) ==
  {f \in Frame : f.at \in {"found", "request", "method", "final", "release"} /\ f.oid = o}
Holds(o) ==
  {f \in Frame : /\ f.at \in {"request", "method", "release"} /\ f.oid = o
                 /\ f.at = "method" => f.kind = "remote"}

UseOf(s, o) == s # <<>> /\ Head(s).at \in {"method", "final"} /\ Head(s).oid = o
FinalOf(s, o) == s # <<>> /\ Head(s).at = "final" /\ Head(s).oid = o
RefOf(s, o) == \E i \in DOMAIN s : s[i] \in Refers(o)
HoldOf(s, o) == \E i \in DOMAIN s : s[i] \in Holds(o)

Using(st, o) == {t \in Threads : UseOf(st[t], o)}
Ending(st, o) == {t \in Threads : FinalOf(st[t], o)}
Holding(st, o) == {t \in Threads : HoldOf(st[t], o)}

LEMMA ViewPush ==
  ASSUME NEW f \in Frame, NEW r \in Seq(Frame), NEW o \in Oids
  PROVE  LET s == <<f>> \o r
         IN /\ UseOf(s, o) <=> f.at \in {"method", "final"} /\ f.oid = o
            /\ FinalOf(s, o) <=> f.at = "final" /\ f.oid = o
            /\ RefOf(s, o) <=> f \in Refers(o) \/ RefOf(r, o)
            /\ HoldOf(s, o) <=> f \in Holds(o) \/ HoldOf(r, o)
<1> DEFINE s == <<f>> \o r
           n == Len(r)
<1>1. /\ s # <<>> /\ Head(s) = f /\ s[1] = f /\ \A i \in 1 .. n : s[i + 1] = r[i]
      /\ s \in Seq(Frame) /\ Len(s) = 1 + n /\ n \in Nat
  BY Pushing, LenProperties
<1>2. DOMAIN s = 1 .. 1 + n /\ DOMAIN r = 1 .. n
  BY <1>1, LenProperties
<1> HIDE DEF s, n
<1>3. ASSUME NEW S
      PROVE  (\E i \in DOMAIN s : s[i] \in S) <=> f \in S \/ \E i \in DOMAIN r : r[i] \in S
  <2>1. 1 \in DOMAIN s
    BY <1>1, <1>2
  <2>2. ASSUME NEW i \in DOMAIN r PROVE i + 1 \in DOMAIN s /\ s[i + 1] = r[i]
    BY <1>1, <1>2
  <2>3. ASSUME NEW i \in DOMAIN s PROVE i = 1 \/ (i - 1 \in DOMAIN r /\ s[i] = r[i - 1])
    <3>1. i \in 1 .. 1 + n
      BY <1>2
    <3>2. CASE i # 1
      <4>1. i - 1 \in 1 .. n /\ (i - 1) + 1 = i
        BY <1>1, <3>1, <3>2
      <4> QED BY <1>1, <1>2, <4>1
    <3> QED BY <3>2
  <2> QED BY <1>1, <2>1, <2>2, <2>3
<1> QED BY <1>1, <1>3 DEF UseOf, FinalOf, RefOf, HoldOf, s

LEMMA ViewEmpty ==
  ASSUME NEW o
  PROVE  ~ UseOf(<<>>, o) /\ ~ FinalOf(<<>>, o) /\ ~ RefOf(<<>>, o) /\ ~ HoldOf(<<>>, o)
BY DEF UseOf, FinalOf, RefOf, HoldOf

LEMMA ViewAlone ==
  ASSUME NEW f \in Frame, NEW o \in Oids
  PROVE  /\ UseOf(<<f>>, o) <=> f.at \in {"method", "final"} /\ f.oid = o
         /\ FinalOf(<<f>>, o) <=> f.at = "final" /\ f.oid = o
         /\ RefOf(<<f>>, o) <=> f \in Refers(o)
         /\ HoldOf(<<f>>, o) <=> f \in Holds(o)
<1>1. <<>> \in Seq(Frame) /\ <<f>> \o <<>> = <<f>>
  BY EmptySeq, Alone, ConcatEmptySeq
<1> QED BY <1>1, ViewPush, ViewEmpty

LEMMA ViewChain ==
  ASSUME NEW s \in Chains, NEW o
  PROVE  ~ UseOf(s, o) /\ ~ FinalOf(s, o) /\ ~ RefOf(s, o) /\ ~ HoldOf(s, o)
<1>1. \A i \in DOMAIN s : s[i] \in Works
  BY DEF Chains
<1>2. s # <<>> => Head(s) \in Works
  BY ChainPop
<1> QED BY <1>1, <1>2 DEF UseOf, FinalOf, RefOf, HoldOf, Refers, Holds, Works, WorkKinds

LEMMA ViewRest ==
  ASSUME NEW s \in Rests, NEW o \in Oids
  PROVE  ~ UseOf(s, o) /\ ~ FinalOf(s, o)
<1>1. CASE s \in Chains
  BY <1>1, ViewChain
<1>2. ASSUME NEW f \in Frame, f.at = "release", s = <<f>>
      PROVE  ~ UseOf(s, o) /\ ~ FinalOf(s, o)
  BY <1>2, ViewAlone
<1> QED BY <1>1, <1>2 DEF Rests

-----------------------------------------------------------------------------
(* Counting threads.                                                       *)
One(b) == IF b THEN 1 ELSE 0

LEMMA Counted ==
  ASSUME NEW A \in SUBSET Threads, NEW B \in SUBSET Threads, NEW t \in Threads,
         \A u \in Threads \ {t} : u \in A <=> u \in B
  PROVE  /\ Cardinality(A) \in Nat /\ Cardinality(B) \in Nat
         /\ Cardinality(B) = Cardinality(A) - One(t \in A) + One(t \in B)
<1>1. IsFiniteSet(A) /\ IsFiniteSet(B)
  BY ThreadsAssumption, FS_Subset
<1>2. Cardinality(A) \in Nat /\ Cardinality(B) \in Nat
  BY <1>1, FS_CardinalityType
<1>3. CASE t \in A <=> t \in B
  <2>1. A = B
    BY <1>3
  <2> QED BY <1>2, <1>3, <2>1 DEF One
<1>4. CASE t \in A /\ t \notin B
  <2>1. A = B \cup {t}
    BY <1>4
  <2>2. Cardinality(A) = Cardinality(B) + 1
    BY <1>1, <1>4, <2>1, FS_AddElement
  <2> QED BY <1>2, <1>4, <2>2 DEF One
<1>5. CASE t \notin A /\ t \in B
  <2>1. B = A \cup {t}
    BY <1>5
  <2>2. Cardinality(B) = Cardinality(A) + 1
    BY <1>1, <1>5, <2>1, FS_AddElement
  <2> QED BY <1>2, <1>5, <2>2 DEF One
<1> QED BY <1>3, <1>4, <1>5

LEMMA Someone ==
  ASSUME NEW A \in SUBSET Threads
  PROVE  Cardinality(A) \in Nat /\ (Cardinality(A) = 0 <=> A = {})
<1>1. IsFiniteSet(A)
  BY ThreadsAssumption, FS_Subset
<1> QED BY <1>1, FS_CardinalityType, FS_EmptySet

-----------------------------------------------------------------------------
(* What holds of object o with record r, given all stacks and whether the  *)
(* application has a reference; k references more than are accounted for.  *)
Locator(pol) == ~ pol.retain /\ pol.process = "manager"

Present(o, r, st, x) ==
  /\ r.state # "live" => r = [Absent EXCEPT !.state = r.state]
  /\ x \/ (\E t \in Threads : RefOf(st[t], o)) => r.state = "live"

Pending(pol, r) ==
  /\ "DeactivateDo" \in r.flags => "NeedPostInvoke" \in r.flags /\ r.use > 0
  /\ Locator(pol) => "DeactivateDo" \notin r.flags

Kept(pol, o, r, st) ==
  ~ Locator(pol) => \A t \in Using(st, o) :
    Head(st[t]).at = "method" => r.servant = Head(st[t]).servant

Active(o, r, st) == r.servant # NoServant \/ Ending(st, o) # {}

Balanced(pol, o, r, st, x, k) ==
  pol.process = "map" =>
    /\ Ending(st, o) # {} => r.servant = NoServant
    /\ \A t, u \in Ending(st, o) : t = u
    /\ r.refs = Cardinality(Holding(st, o)) + One(x) + One(Active(o, r, st)) + k

Core(pol, o, r, st, x, k) ==
  /\ Present(o, r, st, x)
  /\ r.use = Cardinality(Using(st, o))
  /\ Pending(pol, r)
  /\ Kept(pol, o, r, st)
  /\ Balanced(pol, o, r, st, x, k)

Stacks == [Threads -> Seq(Frame)]

(* The thread changes nothing in these respects. *)
Alike(a, b, o) ==
  /\ ~ UseOf(a, o) /\ ~ UseOf(b, o)
  /\ RefOf(a, o) <=> RefOf(b, o)
  /\ HoldOf(a, o) <=> HoldOf(b, o)

LEMMA Elsewhere ==
  ASSUME NEW pol, NEW o, NEW r, NEW st \in Stacks, NEW x, NEW k,
         Core(pol, o, r, st, x, k),
         NEW t \in Threads, NEW s, Alike(st[t], s, o)
  PROVE  Core(pol, o, r, [st EXCEPT ![t] = s], x, k)
<1> DEFINE sk == [st EXCEPT ![t] = s]
<1>1. sk[t] = s /\ \A u \in Threads \ {t} : sk[u] = st[u]
  BY DEF Stacks
<1> HIDE DEF sk
<1>2. ~ FinalOf(st[t], o) /\ ~ FinalOf(s, o)
  BY DEF Alike, FinalOf, UseOf
<1>3. /\ Using(sk, o) = Using(st, o) /\ Ending(sk, o) = Ending(st, o)
      /\ Holding(sk, o) = Holding(st, o)
      /\ (\E u \in Threads : RefOf(sk[u], o)) <=> (\E u \in Threads : RefOf(st[u], o))
  <2>1. \A u \in Threads : /\ UseOf(sk[u], o) <=> UseOf(st[u], o)
                           /\ FinalOf(sk[u], o) <=> FinalOf(st[u], o)
                           /\ HoldOf(sk[u], o) <=> HoldOf(st[u], o)
                           /\ RefOf(sk[u], o) <=> RefOf(st[u], o)
    BY <1>1, <1>2 DEF Alike
  <2> QED BY <2>1 DEF Using, Ending, Holding
<1>4. \A u \in Using(st, o) : sk[u] = st[u]
  BY <1>1 DEF Using, Alike
<1> QED BY <1>3, <1>4 DEF Core, Present, Kept, Balanced, Active, sk

(* How the sets change when a thread's stack becomes s. *)
LEMMA Recounted ==
  ASSUME NEW o, NEW st \in Stacks, NEW t \in Threads, NEW s
  PROVE  LET sk == [st EXCEPT ![t] = s]
         IN /\ Cardinality(Using(st, o)) \in Nat /\ Cardinality(Holding(st, o)) \in Nat
            /\ Cardinality(Using(sk, o)) \in Nat /\ Cardinality(Holding(sk, o)) \in Nat
            /\ Cardinality(Using(sk, o)) =
                 Cardinality(Using(st, o)) - One(UseOf(st[t], o)) + One(UseOf(s, o))
            /\ Cardinality(Holding(sk, o)) =
                 Cardinality(Holding(st, o)) - One(HoldOf(st[t], o)) + One(HoldOf(s, o))
<1> DEFINE sk == [st EXCEPT ![t] = s]
<1>1. sk[t] = s /\ \A u \in Threads \ {t} : sk[u] = st[u]
  BY DEF Stacks
<1> HIDE DEF sk
<1>2. /\ t \in Using(st, o) <=> UseOf(st[t], o)
      /\ t \in Using(sk, o) <=> UseOf(s, o)
      /\ t \in Holding(st, o) <=> HoldOf(st[t], o)
      /\ t \in Holding(sk, o) <=> HoldOf(s, o)
      /\ \A u \in Threads \ {t} : /\ u \in Using(st, o) <=> u \in Using(sk, o)
                                  /\ u \in Holding(st, o) <=> u \in Holding(sk, o)
  BY <1>1 DEF Using, Holding
<1>3. /\ Using(st, o) \in SUBSET Threads /\ Using(sk, o) \in SUBSET Threads
      /\ Holding(st, o) \in SUBSET Threads /\ Holding(sk, o) \in SUBSET Threads
  BY DEF Using, Holding
<1>4. /\ Cardinality(Using(st, o)) \in Nat /\ Cardinality(Using(sk, o)) \in Nat
      /\ Cardinality(Using(sk, o)) =
           Cardinality(Using(st, o)) - One(t \in Using(st, o)) + One(t \in Using(sk, o))
  BY <1>2, <1>3, Counted
<1>5. /\ Cardinality(Holding(st, o)) \in Nat /\ Cardinality(Holding(sk, o)) \in Nat
      /\ Cardinality(Holding(sk, o)) =
           Cardinality(Holding(st, o)) - One(t \in Holding(st, o)) + One(t \in Holding(sk, o))
  BY <1>2, <1>3, Counted
<1>6. /\ One(t \in Using(st, o)) = One(UseOf(st[t], o))
      /\ One(t \in Using(sk, o)) = One(UseOf(s, o))
      /\ One(t \in Holding(st, o)) = One(HoldOf(st[t], o))
      /\ One(t \in Holding(sk, o)) = One(HoldOf(s, o))
  BY <1>2 DEF One
<1> QED BY <1>4, <1>5, <1>6 DEF sk

(* Nobody uses what is not in use. *)
LEMMA Unused ==
  ASSUME NEW o, NEW st
  PROVE  /\ Cardinality(Using(st, o)) \in Nat /\ Cardinality(Holding(st, o)) \in Nat
         /\ Cardinality(Using(st, o)) = 0 =>
              Using(st, o) = {} /\ Ending(st, o) = {}
         /\ ~ (\E t \in Threads : RefOf(st[t], o)) /\ st \in Stacks =>
              /\ Cardinality(Using(st, o)) = 0 /\ Cardinality(Holding(st, o)) = 0
              /\ Using(st, o) = {} /\ Ending(st, o) = {} /\ Holding(st, o) = {}
<1>1. Using(st, o) \in SUBSET Threads /\ Holding(st, o) \in SUBSET Threads
  BY DEF Using, Holding
<1>2. Ending(st, o) \subseteq Using(st, o)
  BY DEF Ending, Using, FinalOf, UseOf
<1>3. ASSUME st \in Stacks, NEW t \in Threads, ~ RefOf(st[t], o)
      PROVE  ~ UseOf(st[t], o) /\ ~ HoldOf(st[t], o)
  <2>1. Holds(o) \subseteq Refers(o)
    BY DEF Holds, Refers
  <2>2. ASSUME UseOf(st[t], o) PROVE FALSE
    <3>1. st[t] \in Seq(Frame) /\ st[t] # <<>>
      BY <1>3, <2>2 DEF Stacks, UseOf
    <3>2. 1 \in DOMAIN st[t] /\ st[t][1] = Head(st[t]) /\ Head(st[t]) \in Frame
      BY <3>1
    <3>3. Head(st[t]) \in Refers(o)
      BY <2>2, <3>2 DEF UseOf, Refers
    <3> QED BY <1>3, <3>2, <3>3 DEF RefOf
  <2> QED BY <1>3, <2>1, <2>2 DEF RefOf, HoldOf
<1>4. ~ (\E t \in Threads : RefOf(st[t], o)) /\ st \in Stacks =>
        Using(st, o) = {} /\ Holding(st, o) = {}
  BY <1>3 DEF Using, Holding
<1> QED BY <1>1, <1>2, <1>4, Someone

-----------------------------------------------------------------------------
(* A reference is dropped. *)
Crashes == {"no", "freed", "unreferenced", "released_active", "reactivated",
            "modified", "null_servant", "held_buffer", "not_locked", "wait"}

LEMMA AbsentObject ==
  \A state \in {"absent", "live", "dead"} : [Absent EXCEPT !.state = state] \in Object
BY DEF Absent, Object

LEMMA UnrefType ==
  ASSUME TypeOK, NEW o \in Oids, NEW r \in Object, Unref(o, r)
  PROVE  /\ crash' \in Crashes /\ obj' \in [Oids -> Object]
         /\ \A u \in Oids \ {o} : obj'[u] = obj[u]
<1>1. Unreffed(r, Home[o]) \in Object
  <2>1. CASE r.refs > 1
    <3>1. r.refs \in Nat /\ r.refs - 1 \in Nat
      BY <2>1 DEF Object
    <3> QED BY <2>1, <3>1 DEF Unreffed, Object
  <2>2. CASE ~ (r.refs > 1)
    <3>1. [Absent EXCEPT !.state = "dead"] \in Object /\ Absent \in Object
      BY DEF Absent, Object
    <3> QED BY <2>2, <3>1 DEF Unreffed
  <2> QED BY <2>1, <2>2
<1>2. crash' \in Crashes
  BY DEF Unref, UnrefCrash, Crashes
<1> QED BY <1>1, <1>2 DEF Unref, TypeOK

(* The references that are left are those that somebody holds. *)
LEMMA UnrefCore ==
  ASSUME TypeOK, NEW o \in Oids, NEW r \in Object, Unref(o, r), crash' = "no",
         NEW st \in Stacks, stack' = st, NEW x \in BOOLEAN, objref'[o] = x,
         NEW pol, Core(pol, o, r, st, x, 1)
  PROVE  obj'[o].servant = r.servant /\ Core(pol, o, obj'[o], st, x, 0)
<1>1. /\ obj'[o] = Unreffed(r, Home[o]) /\ r.refs # 0
      /\ ~ (r.refs > 1) => r.servant = NoServant /\ ~ Referred(o)
  BY DEF Unref, UnrefCrash, TypeOK
<1>2. CASE r.refs > 1
  <2> DEFINE q == [r EXCEPT !.refs = @ - 1]
  <2>1. /\ q.state = r.state /\ q.servant = r.servant /\ q.use = r.use
        /\ q.flags = r.flags /\ q.refs = r.refs - 1 /\ r.refs \in Nat
    BY DEF Object
  <2>2. r.state = "live"
    <3>1. [Absent EXCEPT !.state = r.state].refs = 0
      BY DEF Absent
    <3>2. r.state # "live" => r = [Absent EXCEPT !.state = r.state]
      BY DEF Core, Present
    <3>3. r.state # "live" => r.refs = 0
      BY <3>1, <3>2, Zenon
    <3> QED BY <1>2, <3>3
  <2>3. obj'[o] = q
    BY <1>1, <1>2 DEF Unreffed
  <2> HIDE DEF q
  <2>4. Present(o, q, st, x) /\ Pending(pol, q) /\ Kept(pol, o, q, st)
    BY <2>1, <2>2 DEF Core, Present, Pending, Kept
  <2>5. Balanced(pol, o, q, st, x, 0)
    <3> SUFFICES ASSUME pol.process = "map"
                 PROVE  /\ Ending(st, o) # {} => q.servant = NoServant
                        /\ \A t, u \in Ending(st, o) : t = u
                        /\ q.refs = Cardinality(Holding(st, o)) + One(x)
                                      + One(Active(o, q, st)) + 0
      BY DEF Balanced
    <3>1. /\ Ending(st, o) # {} => r.servant = NoServant
          /\ \A t, u \in Ending(st, o) : t = u
          /\ r.refs = Cardinality(Holding(st, o)) + One(x) + One(Active(o, r, st)) + 1
      BY DEF Core, Balanced
    <3>2. Active(o, q, st) = Active(o, r, st)
      BY <2>1 DEF Active
    <3>3. Cardinality(Holding(st, o)) \in Nat
      BY Unused
    <3> QED BY <2>1, <3>1, <3>2, <3>3 DEF One
  <2> QED BY <2>1, <2>3, <2>4, <2>5 DEF Core
<1>3. CASE ~ (r.refs > 1)
  <2>1. ~ x /\ ~ (\E t \in Threads : RefOf(st[t], o))
    BY <1>1, <1>3 DEF Referred, RefOf, Refers
  <2>2. /\ Cardinality(Using(st, o)) = 0 /\ Cardinality(Holding(st, o)) = 0
        /\ Using(st, o) = {} /\ Ending(st, o) = {}
    BY <2>1, Unused
  <2>3. PICK state \in {"absent", "dead"} : obj'[o] = [Absent EXCEPT !.state = state]
    BY <1>1, <1>3 DEF Unreffed, Absent
  <2> DEFINE q == obj'[o]
  <2>4. /\ q.state = state /\ q.servant = NoServant /\ q.use = 0 /\ q.refs = 0
        /\ q.flags = {} /\ q = [Absent EXCEPT !.state = q.state]
    BY <2>3 DEF Absent
  <2> HIDE DEF q
  <2>5. Present(o, q, st, x) /\ Pending(pol, q) /\ Kept(pol, o, q, st)
    BY <2>1, <2>2, <2>4 DEF Present, Pending, Kept
  <2>6. ~ Active(o, q, st)
    BY <2>2, <2>4 DEF Active
  <2>7. Balanced(pol, o, q, st, x, 0)
    BY <2>1, <2>2, <2>4, <2>6 DEF Balanced, One
  <2> QED BY <1>1, <1>3, <2>2, <2>4, <2>5, <2>7 DEF Core, q
<1> QED BY <1>2, <1>3

-----------------------------------------------------------------------------
(* An object is deactivated, or will be, or has no servant already.        *)
Deferrable(pol, r) ==
  /\ ~ Locator(pol)
  /\ "DeactivateDo" \in r.flags =>
       "NeedPostInvoke" \in r.flags /\ (r.use > 0 \/ r.servant # NoServant)

(* The servant that was in r is finalized now. *)
Ends(t, o, r, frames) ==
  /\ crash' = "no" /\ obj'[o].servant = NoServant
  /\ \E f \in Finals : /\ f.oid = o /\ f.servant = r.servant
                       /\ stack' = [stack EXCEPT ![t] = <<f>> \o frames]

LEMMA DeactivateType ==
  ASSUME TypeOK, NEW t \in Threads, NEW o \in Oids, NEW r \in Object, NEW etherealize,
         NEW frames \in Rests, crash = "no", DeactivateObject(t, o, r, etherealize, frames)
  PROVE  /\ crash' \in Crashes /\ obj' \in [Oids -> Object]
         /\ lock' \in [Poas -> Threads \cup {Nobody}]
         /\ \A u \in Oids \ {o} : obj'[u] = obj[u]
         /\ \/ stack' = [stack EXCEPT ![t] = frames]
            \/ Ends(t, o, r, frames)
<1> DEFINE m == Marked(r, etherealize)
<1>1. /\ m \in Object /\ m.state = r.state /\ m.servant = r.servant /\ m.use = r.use
      /\ m.refs = r.refs /\ r.flags \subseteq m.flags
      /\ "DeactivateDo" \in m.flags <=> "DeactivateDo" \in r.flags
  BY DEF Marked, Object
<1>2. PutOff(m) \in Object
  BY <1>1 DEF PutOff, Object
<1>3. Finalized(m) \in Object /\ Finalized(m).servant = NoServant
  <2>1. m.use \in Nat /\ m.use + 1 \in Nat
    BY <1>1 DEF Object
  <2> QED BY <1>1, <2>1 DEF Finalized, Object
<1> DEFINE q == [m EXCEPT !.servant = NoServant, !.flags = @ \ {"DeactivateDo"}]
<1>4. q \in Object
  BY <1>1 DEF Object
<1> HIDE DEF m, q
<1>5. CASE /\ obj' = [obj EXCEPT ![o] = r] \/ obj' = [obj EXCEPT ![o] = PutOff(m)]
           /\ goto(t, frames) /\ UNCHANGED <<lock, crash>>
  <2>1. /\ obj' \in [Oids -> Object] /\ \A u \in Oids \ {o} : obj'[u] = obj[u]
    BY <1>2, <1>5 DEF TypeOK
  <2> QED BY <1>5, <2>1 DEF TypeOK, goto, Crashes
<1>6. CASE /\ r.servant # NoServant
           /\ obj' = [obj EXCEPT ![o] = Finalized(m)]
           /\ goto(t, <<running("final", o, "local", r.servant)>> \o frames)
           /\ lock' = [lock EXCEPT ![Home[o]] = Nobody]
           /\ UNCHANGED crash
  <2>1. /\ obj' \in [Oids -> Object] /\ \A u \in Oids \ {o} : obj'[u] = obj[u]
        /\ obj'[o].servant = NoServant
    BY <1>3, <1>6 DEF TypeOK
  <2>2. lock' \in [Poas -> Threads \cup {Nobody}]
    BY <1>6 DEF TypeOK
  <2> DEFINE f == running("final", o, "local", r.servant)
  <2>3. f \in Finals /\ f.oid = o /\ f.servant = r.servant
    BY <1>6 DEF Finals, Frame, running, Object
  <2> HIDE DEF f
  <2>4. stack' = [stack EXCEPT ![t] = <<f>> \o frames]
    BY <1>6 DEF goto, f
  <2> QED BY <1>6, <2>1, <2>2, <2>3, <2>4 DEF Crashes, Ends
<1>7. CASE goto(t, frames) /\ Unref(o, q) /\ UNCHANGED lock
  <2>1. /\ crash' \in Crashes /\ obj' \in [Oids -> Object]
        /\ \A u \in Oids \ {o} : obj'[u] = obj[u]
    BY <1>4, <1>7, UnrefType
  <2> QED BY <1>7, <2>1 DEF TypeOK, goto
<1> QED BY <1>5, <1>6, <1>7 DEF DeactivateObject, m, q

LEMMA DeactivateCore ==
  ASSUME TypeOK, NEW t \in Threads, NEW o \in Oids, NEW r \in Object, NEW etherealize,
         NEW frames \in Rests, crash = "no", DeactivateObject(t, o, r, etherealize, frames),
         crash' = "no", NEW pol, Deferrable(pol, r), objref'[o] \in BOOLEAN,
         Present(o, r, [stack EXCEPT ![t] = frames], objref'[o]),
         r.use = Cardinality(Using([stack EXCEPT ![t] = frames], o)),
         Kept(pol, o, r, [stack EXCEPT ![t] = frames]),
         Balanced(pol, o, r, [stack EXCEPT ![t] = frames], objref'[o], 0)
  PROVE  /\ Core(pol, o, obj'[o], stack', objref'[o], 0)
         /\ obj'[o].servant \in {r.servant, NoServant}
<1> DEFINE m == Marked(r, etherealize)
           st == [stack EXCEPT ![t] = frames]
           x == objref'[o]
           q == [m EXCEPT !.servant = NoServant, !.flags = @ \ {"DeactivateDo"}]
<1>1. /\ m \in Object /\ m.state = r.state /\ m.servant = r.servant /\ m.use = r.use
      /\ m.refs = r.refs /\ r.flags \subseteq m.flags
      /\ "DeactivateDo" \in m.flags <=> "DeactivateDo" \in r.flags
  BY DEF Marked, Object
<1>2. st \in Stacks /\ frames \in Seq(Frame) /\ stack \in Stacks
  BY ChainFrames DEF TypeOK, Stacks
<1>3. r.state # "live" => r.servant = NoServant
  <2>1. [Absent EXCEPT !.state = r.state].servant = NoServant
    BY DEF Absent
  <2> QED BY <2>1, Zenon DEF Present
<1>4. /\ Present(o, r, st, x) /\ r.use = Cardinality(Using(st, o)) /\ Kept(pol, o, r, st)
      /\ Balanced(pol, o, r, st, x, 0) /\ x \in BOOLEAN
  OBVIOUS
<1> HIDE DEF m, st, x, q
<1>5. CASE /\ r.servant = NoServant /\ obj' = [obj EXCEPT ![o] = r] /\ goto(t, frames)
  <2>1. obj'[o] = r /\ stack' = st
    BY <1>5 DEF TypeOK, goto, st
  <2> QED BY <1>4, <1>5, <2>1 DEF Core, Deferrable, Pending, x
<1>6. CASE /\ r.servant # NoServant /\ Busy(r) /\ obj' = [obj EXCEPT ![o] = PutOff(m)]
           /\ goto(t, frames)
  <2> DEFINE p == PutOff(m)
  <2>1. obj'[o] = p /\ stack' = st
    BY <1>6 DEF TypeOK, goto, st
  <2>2. /\ p.state = r.state /\ p.servant = r.servant /\ p.use = r.use /\ p.refs = r.refs
        /\ p.flags = m.flags \cup {"DeactivateDo", "NeedPostInvoke"}
    BY <1>1 DEF PutOff, Object
  <2> HIDE DEF p
  <2>3. Present(o, p, st, x) /\ Kept(pol, o, p, st) /\ Pending(pol, p)
    BY <1>3, <1>4, <1>6, <2>2 DEF Present, Kept, Pending, Deferrable, Busy
  <2>4. Balanced(pol, o, p, st, x, 0)
    BY <1>4, <2>2 DEF Balanced, Active
  <2> QED BY <1>4, <2>1, <2>2, <2>3, <2>4 DEF Core, x
<1>7. CASE /\ r.servant # NoServant /\ ~ Busy(r)
           /\ obj' = [obj EXCEPT ![o] = Finalized(m)]
           /\ goto(t, <<running("final", o, "local", r.servant)>> \o frames)
  <2> DEFINE p == Finalized(m)
             f == running("final", o, "local", r.servant)
             s == <<f>> \o frames
             sk == [stack EXCEPT ![t] = s]
  <2>0. f \in Frame /\ f.at = "final" /\ f.oid = o
    BY <1>7 DEF Frame, running, Object
  <2>1. obj'[o] = p /\ stack' = sk
    BY <1>7 DEF TypeOK, goto
  <2>2. /\ p.state = r.state /\ p.servant = NoServant /\ p.use = 1 /\ p.refs = r.refs
        /\ p.flags = m.flags /\ r.use = 0
    BY <1>1, <1>7 DEF Finalized, Object, Busy
  <2> HIDE DEF p, f
  <2>3. /\ UseOf(s, o) /\ FinalOf(s, o) /\ RefOf(s, o)
        /\ HoldOf(s, o) <=> HoldOf(frames, o)
        /\ s \in Seq(Frame) /\ Head(s) = f
    BY <1>2, <2>0, ViewPush, Pushing DEF Refers, Holds
  <2> HIDE DEF s
  <2>4. Using(st, o) = {} /\ Ending(st, o) = {}
    BY <1>4, <2>2, Unused
  <2>5. sk = [st EXCEPT ![t] = s] /\ st[t] = frames /\ sk[t] = s
        /\ \A u \in Threads \ {t} : sk[u] = st[u]
    BY DEF st, TypeOK
  <2> HIDE DEF sk
  <2>6. ~ UseOf(frames, o)
    BY ViewRest
  <2>7. /\ Using(sk, o) = {t} /\ Ending(sk, o) = {t}
        /\ Cardinality(Using(sk, o)) = 1
        /\ Cardinality(Holding(sk, o)) = Cardinality(Holding(st, o))
        /\ Cardinality(Holding(st, o)) \in Nat
    <3> DEFINE uses == Cardinality(Using(st, o))
               holds == Cardinality(Holding(st, o))
               uses_ == Cardinality(Using(sk, o))
               holds_ == Cardinality(Holding(sk, o))
    <3>1. /\ uses_ = uses - One(UseOf(st[t], o)) + One(UseOf(s, o))
          /\ holds_ = holds - One(HoldOf(st[t], o)) + One(HoldOf(s, o))
          /\ holds \in Nat
      <4> DEFINE sl == [st EXCEPT ![t] = s]
      <4>1. /\ Cardinality(Using(sl, o)) = uses - One(UseOf(st[t], o)) + One(UseOf(s, o))
            /\ Cardinality(Holding(sl, o)) = holds - One(HoldOf(st[t], o)) + One(HoldOf(s, o))
            /\ holds \in Nat
        <5> HIDE DEF st
        <5> QED BY <1>2, Recounted
      <4>2. sl = sk
        BY <2>5
      <4> QED BY <4>1, <4>2
    <3>2. One(HoldOf(st[t], o)) = One(HoldOf(s, o)) /\ One(HoldOf(s, o)) \in Nat
          /\ One(UseOf(st[t], o)) = 0 /\ One(UseOf(s, o)) = 1
      BY <2>3, <2>5, <2>6 DEF One
    <3>3. Using(sk, o) = {t} /\ Ending(sk, o) = {t}
      BY <2>3, <2>4, <2>5 DEF Using, Ending
    <3>4. uses = 0
      BY <1>4, <2>2
    <3> HIDE DEF uses, holds, uses_, holds_
    <3>5. uses_ = 1 /\ holds_ = holds
      BY <3>1, <3>2, <3>4
    <3> QED BY <3>1, <3>3, <3>5 DEF uses_, holds_, holds
  <2>8. Present(o, p, sk, x)
    BY <1>3, <1>7, <2>2 DEF Present
  <2>9. Pending(pol, p)
    BY <1>1, <2>2 DEF Pending, Deferrable
  <2>10. Kept(pol, o, p, sk)
    BY <2>0, <2>3, <2>5, <2>7 DEF Kept
  <2>11. Balanced(pol, o, p, sk, x, 0)
    <3>1. Active(o, r, st) /\ Active(o, p, sk)
      BY <1>7, <2>7 DEF Active
    <3> QED BY <1>4, <2>2, <2>7, <3>1 DEF Balanced, One
  <2> QED BY <2>1, <2>2, <2>7, <2>8, <2>9, <2>10, <2>11 DEF Core, x
<1>8. CASE /\ r.servant # NoServant /\ ~ Busy(r) /\ goto(t, frames) /\ Unref(o, q)
  <2>0. r.use = 0
    BY <1>8 DEF Object, Busy
  <2>1. /\ q \in Object /\ q.state = r.state /\ q.servant = NoServant /\ q.use = r.use
        /\ q.refs = r.refs /\ "DeactivateDo" \notin q.flags
    BY <1>1 DEF Object, q
  <2>2. Using(st, o) = {} /\ Ending(st, o) = {} /\ Cardinality(Holding(st, o)) \in Nat
    BY <1>4, <2>0, Unused
  <2>3. Present(o, q, st, x)
    BY <1>3, <1>4, <1>8, <2>1 DEF Present
  <2>4. Pending(pol, q) /\ Kept(pol, o, q, st)
    BY <2>1, <2>2 DEF Pending, Kept
  <2>5. Balanced(pol, o, q, st, x, 1)
    <3>1. Active(o, r, st) /\ ~ Active(o, q, st)
      BY <1>8, <2>1, <2>2 DEF Active
    <3> QED BY <1>4, <2>1, <2>2, <3>1 DEF Balanced, One
  <2>6. Core(pol, o, q, st, x, 1)
    BY <1>4, <2>1, <2>3, <2>4, <2>5 DEF Core
  <2>7. stack' = st
    BY <1>8 DEF goto, st
  <2> QED BY <1>2, <1>4, <1>8, <2>1, <2>6, <2>7, UnrefCore DEF x
<1> QED BY <1>5, <1>6, <1>7, <1>8 DEF DeactivateObject, m, q

-----------------------------------------------------------------------------
(* The invariant.  Objects have servants of their own, and what is being   *)
(* finalized stands in none; a POA without retention, but with a servant   *)
(* manager, does not come to finalizing at all.  All of it is given up     *)
(* with a crash, but for the last property, which a crash leaves alone.    *)
Apart(pol, ob, st) ==
  pol.process # "default" =>
    /\ \A o, p \in Oids :
         ob[o].servant = ob[p].servant /\ ob[o].servant # NoServant => o = p
    /\ \A t \in Threads, o \in Oids :
         st[t] # <<>> /\ Head(st[t]).at = "final"
           => ob[o].servant # Head(st[t]).servant

Bares == {f \in Frame : f.at # "final" /\ (f.at = "deactivate" => f.todo = {})}
Bare(pol, s) == Locator(pol) => s \in Seq(Bares)

Sound ==
  /\ \A o \in Oids : Core(policy, o, obj[o], stack, objref[o], 0)
  /\ Apart(policy, obj, stack)
  /\ \A t \in Threads : Bare(policy, stack[t])

IInv ==
  /\ TypeOK
  /\ \A t \in Threads : Shaped(stack[t])
  /\ crash = "no" => Sound
  /\ crash # "no" => FinalizedUnused

LEMMA BareStacks ==
  ASSUME NEW pol
  PROVE  /\ Bare(pol, <<>>)
         /\ \A f \in Bares : Bare(pol, <<f>>)
         /\ \A f \in Bares : \A s : Bare(pol, s) => Bare(pol, <<f>> \o s)
         /\ \A s : Bare(pol, s) /\ s # <<>> =>
              Bare(pol, Tail(s)) /\ (Locator(pol) => Head(s) \in Bares)
<1>1. <<>> \in Seq(Bares) /\ \A f \in Bares : <<f>> \in Seq(Bares)
  OBVIOUS
<1>2. \A f \in Bares : \A s \in Seq(Bares) : <<f>> \o s \in Seq(Bares)
  BY <1>1, ConcatProperties
<1>3. \A s \in Seq(Bares) : s # <<>> => Head(s) \in Bares /\ Tail(s) \in Seq(Bares)
  BY HeadTailProperties
<1> QED BY <1>1, <1>2, <1>3 DEF Bare

LEMMA SoundUnused ==
  ASSUME TypeOK, Sound
  PROVE  FinalizedUnused
<1> SUFFICES ASSUME policy.process # "default", NEW t \in Threads, NEW u \in Threads,
                    At(t, "final"), At(u, "method")
             PROVE  Head(stack[t]).servant # Head(stack[u]).servant
  BY DEF FinalizedUnused
<1>1. stack[t] # <<>> /\ Head(stack[t]).at = "final"
  BY DEF At
<1>2. stack[u] \in Seq(Frame) /\ stack[u] # <<>> /\ Head(stack[u]).at = "method"
  BY DEF TypeOK, At
<1>3. ~ Locator(policy)
  <2>1. Head(stack[t]) \notin Bares
    BY <1>1 DEF Bares
  <2> QED BY <1>1, <2>1, BareStacks DEF Sound
<1>4. Head(stack[u]).oid \in Oids
  <2>1. Head(stack[u]) \in Frame
    BY <1>2, HeadTailProperties
  <2> QED BY <1>2, <2>1 DEF Frame
<1>5. obj[Head(stack[u]).oid].servant = Head(stack[u]).servant
  BY <1>2, <1>3, <1>4 DEF Sound, Core, Kept, Using, UseOf
<1> QED BY <1>1, <1>4, <1>5 DEF Sound, Apart

LEMMA StaysUnused ==
  ASSUME TypeOK, FinalizedUnused, UNCHANGED policy, NEW t \in Threads, NEW s,
         stack' = [stack EXCEPT ![t] = s],
         s # <<>> => Head(s).at \notin {"method", "final"}
  PROVE  FinalizedUnused'
<1>1. stack'[t] = s /\ \A u \in Threads \ {t} : stack'[u] = stack[u]
  BY DEF TypeOK
<1> QED BY <1>1 DEF FinalizedUnused, At

LEMMA ApartKept ==
  ASSUME TypeOK, Apart(policy, obj, stack), UNCHANGED policy, NEW t \in Threads, NEW s,
         NEW o \in Oids, stack' = [stack EXCEPT ![t] = s],
         \A u \in Oids \ {o} : obj'[u] = obj[u],
         obj'[o].servant \in {obj[o].servant, NoServant},
         s # <<>> /\ Head(s).at = "final" =>
           \/ obj'[o].servant = NoServant /\ Head(s).servant = obj[o].servant
              /\ obj[o].servant # NoServant
  PROVE  Apart(policy, obj', stack')
<1> SUFFICES ASSUME policy.process # "default"
             PROVE  Apart(policy, obj', stack')
  BY DEF Apart
<1>1. stack'[t] = s /\ \A u \in Threads \ {t} : stack'[u] = stack[u]
  BY DEF TypeOK
<1>2. \A u \in Oids : obj'[u].servant \in {obj[u].servant, NoServant}
  OBVIOUS
<1>3. \A p, q \in Oids : obj'[p].servant = obj'[q].servant /\ obj'[p].servant # NoServant => p = q
  BY <1>2 DEF Apart
<1>4. ASSUME NEW u \in Threads, NEW p \in Oids, stack'[u] # <<>>, Head(stack'[u]).at = "final"
      PROVE  obj'[p].servant # Head(stack'[u]).servant
  <2>1. stack'[u] \in Seq(Frame) => Head(stack'[u]).servant # NoServant
    <3>1. stack'[u] \in Seq(Frame) => Head(stack'[u]) \in Frame
      BY <1>4, HeadTailProperties
    <3> QED BY <1>4, <3>1, ServantsAssumption DEF Frame, AllServants
  <2>2. CASE u = t
    <3>1. /\ obj'[o].servant = NoServant /\ Head(s).servant = obj[o].servant
          /\ obj[o].servant # NoServant
      BY <1>1, <1>4, <2>2
    <3>2. p # o => obj[p].servant # obj[o].servant
      BY <3>1 DEF Apart
    <3> QED BY <1>1, <2>2, <3>1, <3>2
  <2>3. CASE u # t
    <3>1. stack'[u] = stack[u] /\ stack[u] \in Seq(Frame)
      BY <1>1, <2>3 DEF TypeOK
    <3>2. obj[p].servant # Head(stack[u]).servant
      BY <1>4, <3>1 DEF Apart
    <3> QED BY <1>2, <2>1, <3>1, <3>2
  <2> QED BY <2>2, <2>3
<1> QED BY <1>3, <1>4 DEF Apart

LEMMA ApartJoined ==
  ASSUME TypeOK, Apart(policy, obj, stack), UNCHANGED policy, NEW t \in Threads, NEW s,
         NEW o \in Oids, stack' = [stack EXCEPT ![t] = s],
         \A u \in Oids \ {o} : obj'[u] = obj[u],
         obj'[o].servant \notin Incarnating \cup Finalizing,
         s # <<>> => Head(s).at # "final"
  PROVE  Apart(policy, obj', stack')
<1> SUFFICES ASSUME policy.process # "default"
             PROVE  Apart(policy, obj', stack')
  BY DEF Apart
<1>1. stack'[t] = s /\ \A u \in Threads \ {t} : stack'[u] = stack[u]
  BY DEF TypeOK
<1>2. \A p \in Oids : obj[p].servant = obj'[o].servant => obj'[o].servant = NoServant
  BY DEF Incarnating
<1>3. \A p, q \in Oids : obj'[p].servant = obj'[q].servant /\ obj'[p].servant # NoServant => p = q
  BY <1>2 DEF Apart
<1>4. ASSUME NEW u \in Threads, NEW p \in Oids, stack'[u] # <<>>, Head(stack'[u]).at = "final"
      PROVE  obj'[p].servant # Head(stack'[u]).servant
  <2>1. u # t /\ stack'[u] = stack[u]
    BY <1>1, <1>4
  <2>2. CASE p = o
    BY <1>4, <2>1, <2>2 DEF Finalizing, At
  <2>3. CASE p # o
    BY <1>4, <2>1, <2>3 DEF Apart
  <2> QED BY <2>2, <2>3
<1> QED BY <1>3, <1>4 DEF Apart

(* A step that concerns object o and the stack of thread t. *)
LEMMA Stepped ==
  ASSUME IInv, crash = "no", TypeOK', UNCHANGED policy,
         NEW t \in Threads, NEW s, Shaped(s), NEW o \in Oids,
         stack' = [stack EXCEPT ![t] = s],
         \A u \in Oids \ {o} : /\ obj'[u] = obj[u] /\ objref'[u] = objref[u]
                               /\ Alike(stack[t], s, u),
         crash' = "no" => /\ Core(policy, o, obj'[o], stack', objref'[o], 0)
                          /\ Apart(policy, obj', stack') /\ Bare(policy, s),
         crash' = "no" \/ (s # <<>> => Head(s).at \notin {"method", "final"})
  PROVE  IInv'
<1>1. TypeOK /\ Sound /\ FinalizedUnused /\ stack \in Stacks
  BY SoundUnused DEF IInv, TypeOK, Stacks
<1>2. stack'[t] = s /\ \A u \in Threads \ {t} : stack'[u] = stack[u]
  BY <1>1 DEF TypeOK
<1>3. \A u \in Threads : Shaped(stack'[u])
  BY <1>2 DEF IInv
<1>4. ASSUME crash' = "no" PROVE Sound'
  <2>1. ASSUME NEW u \in Oids PROVE Core(policy, u, obj'[u], stack', objref'[u], 0)
    <3>1. CASE u = o
      BY <1>4, <3>1
    <3>2. CASE u # o
      <4>1. Core(policy, u, obj[u], stack, objref[u], 0)
        BY <1>1 DEF Sound
      <4>2. Core(policy, u, obj[u], [stack EXCEPT ![t] = s], objref[u], 0)
        BY <1>1, <3>2, <4>1, Elsewhere
      <4> QED BY <3>2, <4>2
    <3> QED BY <3>1, <3>2
  <2>2. \A u \in Threads : Bare(policy, stack'[u])
    BY <1>1, <1>2, <1>4 DEF Sound
  <2> QED BY <1>4, <2>1, <2>2 DEF Sound
<1>5. ASSUME crash' # "no" PROVE FinalizedUnused'
  BY <1>1, <1>5, StaysUnused
<1> QED BY <1>3, <1>4, <1>5 DEF IInv

-----------------------------------------------------------------------------
(* Steps that leave the objects alone. *)
Rest ==
  /\ manager' \in {"HOLDING", "ACTIVE", "DISCARDING", "INACTIVE"}
  /\ poa' \in [Poas -> SUBSET Life] /\ held' \in [Poas -> BOOLEAN]
  /\ lock' \in [Poas -> Threads \cup {Nobody}] /\ crash' \in Crashes

LEMMA Dies ==
  ASSUME IInv, crash = "no", NEW why \in Crashes \ {"no"}, Die(why)
  PROVE  IInv'
<1>1. TypeOK'
  BY DEF IInv, TypeOK, Die, Crashes
<1>2. FinalizedUnused'
  <2>1. FinalizedUnused
    BY SoundUnused DEF IInv
  <2> QED BY <2>1 DEF Die, FinalizedUnused, At
<1> QED BY <1>1, <1>2 DEF IInv, Die, Shaped

LEMMA Still ==
  ASSUME IInv, crash = "no", UNCHANGED <<policy, obj, objref, stack>>, Rest
  PROVE  IInv'
<1>1. TypeOK'
  BY DEF IInv, TypeOK, Rest, Crashes
<1>2. FinalizedUnused'
  <2>1. FinalizedUnused
    BY SoundUnused DEF IInv
  <2> QED BY <2>1 DEF FinalizedUnused, At
<1>3. Sound'
  BY DEF IInv, Sound
<1> QED BY <1>1, <1>2, <1>3 DEF IInv

LEMMA Goes ==
  ASSUME IInv, crash = "no", UNCHANGED <<policy, obj, objref>>, Rest,
         NEW t \in Threads, NEW s, Shaped(s), Bare(policy, s),
         stack' = [stack EXCEPT ![t] = s], \A o \in Oids : Alike(stack[t], s, o),
         s # <<>> => Head(s).at \notin {"method", "final"}
  PROVE  IInv'
<1>1. TypeOK /\ Sound /\ FinalizedUnused /\ stack \in Stacks
  BY SoundUnused DEF IInv, TypeOK, Stacks
<1>2. stack'[t] = s /\ \A u \in Threads \ {t} : stack'[u] = stack[u]
  BY <1>1 DEF TypeOK
<1>3. \A u \in Threads : Shaped(stack'[u])
  BY <1>2 DEF IInv
<1>4. TypeOK'
  <2>1. s \in Seq(Frame)
    BY ShapeFrames
  <2>2. stack' \in [Threads -> Seq(Frame)]
    BY <1>1, <2>1 DEF TypeOK
  <2> QED BY <1>1, <2>2 DEF TypeOK, Rest, Crashes
<1>5. FinalizedUnused'
  BY <1>1, StaysUnused
<1>6. ASSUME NEW o \in Oids PROVE Core(policy, o, obj[o], stack', objref[o], 0)
  <2>1. Core(policy, o, obj[o], stack, objref[o], 0)
    BY <1>1 DEF Sound
  <2> QED BY <1>1, <2>1, Elsewhere
<1>7. Apart(policy, obj, stack')
  <2>1. ASSUME NEW u \in Threads, stack'[u] # <<>>, Head(stack'[u]).at = "final"
        PROVE  stack'[u] = stack[u]
    BY <1>2, <2>1
  <2> QED BY <1>1, <2>1 DEF Sound, Apart
<1>8. \A u \in Threads : Bare(policy, stack'[u])
  BY <1>1, <1>2 DEF Sound
<1> QED BY <1>3, <1>4, <1>5, <1>6, <1>7, <1>8 DEF IInv, Sound

(* What works on POAs only. *)
LEMMA WorkDone ==
  ASSUME IInv, crash = "no", UNCHANGED <<policy, obj, objref>>, Rest,
         NEW t \in Threads, stack[t] \in Chains, NEW s \in Chains, Bare(policy, s),
         stack' = [stack EXCEPT ![t] = s]
  PROVE  IInv'
<1>1. Shaped(s)
  BY DEF Shaped
<1>2. \A o \in Oids : Alike(stack[t], s, o)
  BY ViewChain DEF Alike
<1>3. s # <<>> => Head(s).at \notin {"method", "final"}
  BY ChainPop DEF Works, WorkKinds
<1> QED BY <1>1, <1>2, <1>3, Goes

LEMMA Lives ==
  ASSUME TypeOK, NEW p \in Poas, NEW etherealize, NEW do \in {"DeactivateDo", "DestroyDo"}
  PROVE  SetLife(poa[p], etherealize, do) \subseteq Life
BY DEF TypeOK, SetLife, Life

LEMMA Frames ==
  ASSUME NEW p \in Poas
  PROVE  /\ \A e, w \in BOOLEAN : /\ Destruction(p, e, w) \in Works
                                  /\ Destruction(p, e, w) \in Bares
                                  /\ Destruction(p, e, w).at = "destroy"
         /\ \A l \in BOOLEAN : /\ Traversal(p, l) \in Works
                               /\ Locator(policy) => Traversal(p, l) \in Bares
<1>1. \A e, w \in BOOLEAN : Destruction(p, e, w) \in Frame
  BY DEF Destruction, Frame
<1>2. \A l \in BOOLEAN : Traversal(p, l) \in Frame
  BY DEF Traversal, Frame
<1> QED BY <1>1, <1>2 DEF Destruction, Traversal, Works, WorkKinds, Bares, Locator

LEMMA Begins ==
  ASSUME IInv, crash = "no", NEW t \in Threads, NEW p \in Poas,
         NEW etherealize \in BOOLEAN, NEW wait \in BOOLEAN,
         stack[t] \in Chains, NEW frames \in Chains, Bare(policy, frames),
         BeginDestroy(t, p, etherealize, wait, frames)
  PROVE  IInv'
<1> DEFINE flags == SetLife(poa[p], etherealize, "DestroyDo")
           f == Destruction(p, etherealize, wait)
<1>1. TypeOK
  BY DEF IInv
<1>2. flags \subseteq Life /\ "Destroying" \in Life
  BY <1>1, Lives DEF Life
<1>3. Rest
  BY <1>1, <1>2 DEF BeginDestroy, Rest, TypeOK, Crashes
<1>4. <<f>> \o frames \in Chains /\ Bare(policy, <<f>> \o frames)
  <2>1. f \in Works /\ f \in Bares /\ f.at = "destroy"
    BY Frames
  <2> HIDE DEF f
  <2> QED BY <2>1, ChainPush, BareStacks
<1>5. stack' = [stack EXCEPT ![t] = frames] \/ stack' = [stack EXCEPT ![t] = <<f>> \o frames]
  BY DEF BeginDestroy, goto
<1>6. UNCHANGED <<policy, obj, objref>>
  BY DEF BeginDestroy
<1> HIDE DEF f, flags
<1> QED BY <1>3, <1>4, <1>5, <1>6, WorkDone

-----------------------------------------------------------------------------
(* The steps of POAs and of their manager. *)

(* A thread that works on POAs. *)
LEMMA AtWork ==
  ASSUME IInv, crash = "no", NEW t \in Threads, stack[t] # <<>>, Head(stack[t]).at \in WorkKinds
  PROVE  /\ stack[t] \in Chains /\ Tail(stack[t]) \in Chains
         /\ Head(stack[t]) \in Works /\ Head(stack[t]) \in Frame
         /\ Bare(policy, stack[t]) /\ Bare(policy, Tail(stack[t]))
         /\ Locator(policy) => Head(stack[t]) \in Bares
         /\ Head(stack[t]).at = "deactivate" => Tail(stack[t]) # <<>>
<1>1. stack[t] \in Chains
  BY ShapeTop DEF IInv
<1>2. Bare(policy, stack[t])
  BY DEF IInv, Sound
<1> QED BY <1>1, <1>2, ChainPop, BareStacks DEF Works

LEMMA AtRest ==
  ASSUME IInv, crash = "no", NEW t \in Threads, stack[t] = <<>>
  PROVE  stack[t] \in Chains /\ <<>> \in Chains /\ Bare(policy, <<>>)
BY ChainFrames, BareStacks

LEMMA Manages ==
  ASSUME IInv, crash = "no", ManagerActivate \/ \E state \in {"HOLDING", "DISCARDING"} : ManagerTurns(state)
  PROVE  IInv'
<1>1. CASE Die("held_buffer")
  BY <1>1, Dies DEF Crashes
<1>2. CASE ~ Die("held_buffer")
  <2>1. Rest
    BY <1>2 DEF ManagerActivate, ManagerTurns, Rest, IInv, TypeOK, Crashes
  <2>2. UNCHANGED <<policy, obj, objref, stack>>
    BY <1>2 DEF ManagerActivate, ManagerTurns
  <2> QED BY <2>1, <2>2, Still
<1> QED BY <1>1, <1>2

LEMMA ManagerDeactivates ==
  ASSUME IInv, crash = "no", NEW t \in Threads, NEW etherealize \in BOOLEAN, NEW wait \in BOOLEAN,
         ManagerDeactivate(t, etherealize, wait)
  PROVE  IInv'
<1> DEFINE f == [at |-> "manager", todo |-> Registered, etherealize |-> etherealize]
<1>1. f \in Works /\ f \in Bares /\ f.at = "manager"
  BY DEF Works, WorkKinds, Bares, Frame, Registered
<1>2. stack' = [stack EXCEPT ![t] = <<f>>] /\ UNCHANGED <<policy, obj, objref>> /\ stack[t] = <<>>
  BY DEF ManagerDeactivate, goto
<1> HIDE DEF f
<1>3. <<f>> \in Chains /\ Bare(policy, <<f>>)
  <2>1. <<f>> \o <<>> = <<f>>
    BY <1>1, ConcatEmptySeq, Alone DEF Works
  <2> QED BY <1>1, <2>1, ChainPush, ChainFrames, BareStacks
<1>4. Rest
  BY DEF ManagerDeactivate, Rest, IInv, TypeOK, Crashes
<1> QED BY <1>2, <1>3, <1>4, ChainFrames, WorkDone

LEMMA ManagerGoesOn ==
  ASSUME IInv, crash = "no", NEW t \in Threads, DeactivateNext(t) \/ ManagerReturns(t)
  PROVE  IInv'
<1>1. /\ TypeOK /\ stack[t] # <<>> /\ Head(stack[t]).at = "manager"
      /\ UNCHANGED <<policy, obj, objref>>
  BY DEF DeactivateNext, ManagerReturns, At, IInv
<1>2. stack[t] \in Chains /\ Head(stack[t]) \in Frame /\ Head(stack[t]).at = "manager"
  BY <1>1, AtWork DEF WorkKinds
<1>3. CASE ManagerReturns(t)
  <2>1. Rest
    BY <1>1, <1>3 DEF ManagerReturns, Rest, TypeOK, Crashes
  <2>2. stack' = [stack EXCEPT ![t] = <<>>]
    BY <1>3 DEF ManagerReturns, goto
  <2> QED BY <1>1, <1>2, <2>1, <2>2, ChainFrames, BareStacks, WorkDone
<1>4. CASE DeactivateNext(t)
  <2>1. PICK p \in Head(stack[t]).todo :
          LET f == Head(stack[t])
              flags == SetLife(poa[p], f.etherealize, "DeactivateDo")
              frames == <<[f EXCEPT !.todo = @ \ {p}]>>
          IN \/ /\ poa' = [poa EXCEPT ![p] = flags]
                /\ goto(t, frames) /\ UNCHANGED crash
             \/ crash' = "held_buffer" /\ UNCHANGED <<poa, stack>>
             \/ /\ poa' = [poa EXCEPT ![p] = flags \cup {"Deactivating"}]
                /\ goto(t, <<Traversal(p, FALSE)>> \o frames) /\ UNCHANGED crash
    BY <1>4 DEF DeactivateNext
  <2> DEFINE f == Head(stack[t])
             g == [f EXCEPT !.todo = @ \ {p}]
             d == Traversal(p, FALSE)
             flags == SetLife(poa[p], f.etherealize, "DeactivateDo")
  <2>2. p \in Poas /\ g \in Works /\ g \in Bares /\ g.at = "manager"
    BY <1>2 DEF Frame, Works, WorkKinds, Bares
  <2>3. flags \subseteq Life /\ "Deactivating" \in Life
    BY <1>1, <2>2, Lives DEF Life
  <2>4. Rest
    <3>1. \/ UNCHANGED poa \/ poa' = [poa EXCEPT ![p] = flags]
          \/ poa' = [poa EXCEPT ![p] = flags \cup {"Deactivating"}]
      BY <2>1
    <3> HIDE DEF flags
    <3>2. poa' \in [Poas -> SUBSET Life]
      BY <1>1, <2>3, <3>1 DEF TypeOK
    <3>3. UNCHANGED <<manager, held, lock>>
      BY <1>4 DEF DeactivateNext
    <3>4. crash' \in Crashes
      BY <2>1 DEF Crashes
    <3> QED BY <1>1, <3>2, <3>3, <3>4 DEF Rest, TypeOK
  <2>5. d \in Works /\ (Locator(policy) => d \in Bares)
    BY <2>2, Frames
  <2>6. \/ stack' = [stack EXCEPT ![t] = <<g>>] \/ UNCHANGED stack
        \/ stack' = [stack EXCEPT ![t] = <<d>> \o <<g>>]
    BY <2>1 DEF goto
  <2> HIDE DEF f, g, d, flags
  <2>7. <<g>> \in Chains /\ Bare(policy, <<g>>) /\ <<g>> # <<>>
    <3>1. <<g>> \o <<>> = <<g>> /\ <<g>> # <<>>
      BY <2>2, ConcatEmptySeq, Alone DEF Works
    <3> QED BY <2>2, <3>1, ChainPush, ChainFrames, BareStacks
  <2>8. <<d>> \o <<g>> \in Chains /\ Bare(policy, <<d>> \o <<g>>)
    <3>1. Bare(policy, <<d>> \o <<g>>)
      BY <2>5, <2>7, BareStacks DEF Bare
    <3> QED BY <2>5, <2>7, <3>1, ChainPush
  <2> QED BY <1>1, <1>2, <2>4, <2>6, <2>7, <2>8, WorkDone, Still
<1> QED BY <1>3, <1>4

LEMMA Destroys ==
  ASSUME IInv, crash = "no", NEW t \in Threads, NEW etherealize \in BOOLEAN, NEW wait \in BOOLEAN,
         NEW p \in Poas, Destroy(t, p, etherealize, wait)
  PROVE  IInv'
<1>1. stack[t] \in Chains /\ <<>> \in Chains /\ Bare(policy, <<>>)
  BY AtRest DEF Destroy
<1> QED BY <1>1, Begins DEF Destroy

LEMMA DestroysChild ==
  ASSUME IInv, crash = "no", NEW t \in Threads, DestroyChild(t)
  PROVE  IInv'
<1> DEFINE f == Head(stack[t])
<1>1. TypeOK /\ stack[t] # <<>> /\ f.at = "destroy"
  BY DEF DestroyChild, At, IInv
<1>2. /\ stack[t] \in Chains /\ Tail(stack[t]) \in Chains /\ f \in Frame
      /\ Bare(policy, Tail(stack[t]))
  BY <1>1, AtWork DEF WorkKinds
<1>3. PICK c \in f.todo :
        LET frames == <<[f EXCEPT !.todo = @ \ {c}]>> \o Tail(stack[t])
        IN \/ /\ goto(t, frames)
              /\ UNCHANGED <<policy, manager, poa, held, lock, obj, objref, crash>>
           \/ BeginDestroy(t, c, f.etherealize, FALSE, frames)
  BY DEF DestroyChild
<1> DEFINE g == [f EXCEPT !.todo = @ \ {c}]
<1>4. c \in Poas /\ f.etherealize \in BOOLEAN /\ g \in Works /\ g \in Bares /\ g.at = "destroy"
  BY <1>1, <1>2 DEF Frame, Works, WorkKinds, Bares
<1> DEFINE frames == <<g>> \o Tail(stack[t])
<1>5. frames \in Chains /\ Bare(policy, frames)
  <2> HIDE DEF g
  <2> QED BY <1>2, <1>4, ChainPush, BareStacks
<1>6. CASE goto(t, frames) /\ UNCHANGED <<policy, manager, poa, held, lock, obj, objref, crash>>
  <2>1. Rest
    BY <1>1, <1>6 DEF Rest, TypeOK, Crashes
  <2>2. stack' = [stack EXCEPT ![t] = frames]
    BY <1>6 DEF goto
  <2> HIDE DEF frames
  <2> QED BY <1>2, <1>5, <1>6, <2>1, <2>2, WorkDone
<1>7. CASE BeginDestroy(t, c, f.etherealize, FALSE, frames)
  <2> HIDE DEF frames, f
  <2> QED BY <1>2, <1>4, <1>5, <1>7, Begins
<1> QED BY <1>3, <1>6, <1>7

LEMMA DestroysSelf ==
  ASSUME IInv, crash = "no", NEW t \in Threads, DestroySelf(t)
  PROVE  IInv'
<1> DEFINE f == Head(stack[t])
           p == f.poa
           d == Traversal(p, TRUE)
<1>1. TypeOK /\ stack[t] # <<>> /\ f.at = "destroy"
  BY DEF DestroySelf, At, IInv
<1>2. /\ stack[t] \in Chains /\ Tail(stack[t]) \in Chains /\ f \in Frame
      /\ Bare(policy, stack[t]) /\ Bare(policy, Tail(stack[t]))
  BY <1>1, AtWork DEF WorkKinds
<1>3. p \in Poas
  BY <1>1, <1>2 DEF Frame
<1>4. d \in Works /\ (Locator(policy) => d \in Bares)
  BY <1>3, Frames
<1>5. UNCHANGED <<policy, obj, objref>>
  BY DEF DestroySelf
<1>6. Rest
  <2>1. poa[p] \subseteq Life
    BY <1>1, <1>3 DEF TypeOK
  <2>2. {"Orphan", "DeactivateDo", "Destroyed", "Deactivating"} \subseteq Life
    BY DEF Life
  <2>3. poa' \in [Poas -> SUBSET Life]
    <3> DEFINE flags == poa[p] \cup {"Orphan"}
                          \cup (IF HasChildren(p) THEN {} ELSE {"DeactivateDo"})
    <3>1. flags \subseteq Life
      BY <2>1, <2>2
    <3>2. \/ UNCHANGED poa
          \/ poa' = [poa EXCEPT ![p] = flags \ {"Destroying"}]
          \/ poa' = [poa EXCEPT ![p] = (flags \ {"Destroying"}) \cup {"Destroyed"}]
          \/ poa' = [poa EXCEPT ![p] = flags \cup {"Deactivating"}]
      BY DEF DestroySelf
    <3> HIDE DEF flags, p
    <3>3. /\ flags \ {"Destroying"} \in SUBSET Life
          /\ (flags \ {"Destroying"}) \cup {"Destroyed"} \in SUBSET Life
          /\ flags \cup {"Deactivating"} \in SUBSET Life
      BY <2>2, <3>1
    <3> QED BY <1>1, <3>2, <3>3 DEF TypeOK
  <2>4. lock' \in [Poas -> Threads \cup {Nobody}]
    BY <1>1 DEF DestroySelf, TypeOK
  <2>5. crash' \in Crashes /\ UNCHANGED <<manager, held>>
    BY DEF DestroySelf, Crashes
  <2> QED BY <1>1, <2>3, <2>4, <2>5 DEF Rest, TypeOK
<1>7. \/ stack' = [stack EXCEPT ![t] = Tail(stack[t])] \/ UNCHANGED stack
      \/ stack' = [stack EXCEPT ![t] = <<d>> \o stack[t]]
  BY DEF DestroySelf, goto
<1> HIDE DEF d
<1>8. <<d>> \o stack[t] \in Chains /\ Bare(policy, <<d>> \o stack[t])
  <2>1. Bare(policy, <<d>> \o stack[t])
    BY <1>2, <1>4, BareStacks DEF Bare
  <2> QED BY <1>1, <1>2, <1>4, <2>1, ChainPush
<1> QED BY <1>2, <1>5, <1>6, <1>7, <1>8, WorkDone, Still

-----------------------------------------------------------------------------
(* Calls that leave the objects alone. *)

LEMMA LeafShape ==
  ASSUME NEW f \in Frame, f.at \in LeafKinds
  PROVE  /\ Shaped(<<f>>) /\ f \in Bares /\ (\A pol : Bare(pol, <<f>>))
         /\ Head(<<f>>) = f /\ <<f>> # <<>>
<1>1. f \in Leaves /\ f \in Bares
  BY DEF Leaves, Bares, LeafKinds
<1> QED BY <1>1, BareStacks, Alone DEF Shaped

LEMMA EmptyShape == Shaped(<<>>) /\ \A pol : Bare(pol, <<>>)
BY ChainFrames, BareStacks DEF Shaped

(* A thread in a call. *)
LEMMA InCall ==
  ASSUME IInv, NEW t \in Threads, stack[t] # <<>>, Head(stack[t]).at \in LeafKinds
  PROVE  /\ Head(stack[t]) \in Frame /\ Tail(stack[t]) = <<>>
         /\ Head(stack[t]).oid \in Oids
         /\ stack[t] = <<Head(stack[t])>>
         /\ \A o \in Oids :
              /\ UseOf(stack[t], o) <=> Head(stack[t]).at = "method" /\ Head(stack[t]).oid = o
              /\ FinalOf(stack[t], o) <=> FALSE
              /\ RefOf(stack[t], o) <=> Head(stack[t]) \in Refers(o)
              /\ HoldOf(stack[t], o) <=> Head(stack[t]) \in Holds(o)
<1> DEFINE f == Head(stack[t])
<1>1. f \in Frame /\ stack[t] = <<f>> /\ Tail(stack[t]) = <<>> /\ f.at \in LeafKinds
  BY ShapeTop DEF IInv
<1>2. f.oid \in Oids
  BY <1>1 DEF Frame, LeafKinds
<1> HIDE DEF f
<1>3. ASSUME NEW o \in Oids
      PROVE  /\ UseOf(<<f>>, o) <=> f.at = "method" /\ f.oid = o
             /\ ~ FinalOf(<<f>>, o)
             /\ RefOf(<<f>>, o) <=> f \in Refers(o)
             /\ HoldOf(<<f>>, o) <=> f \in Holds(o)
  BY <1>1, ViewAlone DEF LeafKinds
<1> QED BY <1>1, <1>2, <1>3 DEF f

LEMMA Direct ==
  ASSUME IInv, crash = "no", NEW t \in Threads,
         DirectReturns(t) \/ \E o \in Oids : CallDirect(t, o)
  PROVE  IInv'
<1>1. TypeOK /\ UNCHANGED <<policy, obj, objref>>
  BY DEF DirectReturns, CallDirect, IInv
<1>2. Rest
  BY <1>1 DEF DirectReturns, CallDirect, Rest, TypeOK, Crashes
<1>3. CASE DirectReturns(t)
  <2>1. stack[t] # <<>> /\ Head(stack[t]).at = "direct"
    BY <1>3 DEF DirectReturns, At
  <2>2. Tail(stack[t]) = <<>> /\ \A o \in Oids : Alike(stack[t], <<>>, o)
    BY <2>1, InCall, ViewEmpty DEF LeafKinds, Alike, Refers, Holds
  <2>3. stack' = [stack EXCEPT ![t] = <<>>]
    BY <1>3, <2>2 DEF DirectReturns, goto
  <2> QED BY <1>1, <1>2, <2>2, <2>3, EmptyShape, Goes
<1>4. ASSUME NEW o \in Oids, CallDirect(t, o) PROVE IInv'
  <2> DEFINE f == running("direct", o, "local", obj[o].servant)
  <2>1. f \in Frame /\ f.at = "direct"
    <3>1. obj[o].servant \in AllServants
      BY <1>1, <1>4 DEF CallDirect, TypeOK, Object
    <3> QED BY <3>1 DEF Frame, running
  <2>2. stack' = [stack EXCEPT ![t] = <<f>>] /\ stack[t] = <<>>
    BY <1>4 DEF CallDirect, goto
  <2> HIDE DEF f
  <2>3. \A u \in Oids : Alike(stack[t], <<f>>, u)
    BY <2>1, <2>2, ViewAlone, ViewEmpty DEF Alike, Refers, Holds
  <2>4. Shaped(<<f>>) /\ Bare(policy, <<f>>) /\ Head(<<f>>).at = "direct"
    BY <2>1, LeafShape DEF LeafKinds
  <2> QED BY <1>1, <1>2, <2>2, <2>3, <2>4, Goes
<1> QED BY <1>3, <1>4

LEMMA Refuses ==
  ASSUME IInv, crash = "no", NEW t \in Threads, Refuse(t)
  PROVE  IInv'
<1> DEFINE o == Head(stack[t]).oid
           f == frame("release", o)
<1>1. /\ TypeOK /\ UNCHANGED <<policy, obj, objref>>
      /\ stack[t] # <<>> /\ Head(stack[t]).at = "request"
  BY DEF Refuse, At, IInv
<1>2. Rest
  BY <1>1 DEF Refuse, Rest, TypeOK, Crashes
<1>3. o \in Oids /\ f \in Frame /\ f.at = "release" /\ f.oid = o
  BY <1>1, InCall DEF LeafKinds, Frame, frame
<1>4. stack' = [stack EXCEPT ![t] = <<f>>]
  BY <1>1 DEF Refuse, goto, After, At
<1>5. Head(stack[t]) \in Frame
  BY <1>1, InCall DEF LeafKinds
<1> HIDE DEF f
<1>6. ASSUME NEW u \in Oids PROVE Alike(stack[t], <<f>>, u)
  <2>1. Head(stack[t]) \in Refers(u) <=> f \in Refers(u)
    BY <1>1, <1>3, <1>5 DEF Refers
  <2>2. Head(stack[t]) \in Holds(u) <=> f \in Holds(u)
    BY <1>1, <1>3, <1>5 DEF Holds
  <2> QED BY <1>1, <1>3, <2>1, <2>2, InCall, ViewAlone DEF Alike, LeafKinds
<1>7. Shaped(<<f>>) /\ Bare(policy, <<f>>) /\ Head(<<f>>).at = "release"
  BY <1>3, LeafShape DEF LeafKinds
<1> QED BY <1>1, <1>2, <1>4, <1>6, <1>7, Goes

-----------------------------------------------------------------------------
(* References and activation. *)

(* A reference more, for the application or for a call. *)
LEMMA Replaced ==
  ASSUME IInv, NEW o \in Oids, NEW r \in Object,
         obj' = [obj EXCEPT ![o] = r]
  PROVE  /\ obj' \in [Oids -> Object] /\ obj'[o] = r
         /\ \A u \in Oids \ {o} : obj'[u] = obj[u]
BY DEF IInv, TypeOK

LEMMA LiveServant ==
  ASSUME IInv, crash = "no", NEW o \in Oids
  PROVE  /\ obj[o] \in Object /\ Core(policy, o, obj[o], stack, objref[o], 0)
         /\ objref[o] \in BOOLEAN /\ stack \in Stacks
         /\ obj[o].servant # NoServant \/ obj[o].use # 0 \/ obj[o].refs # 0
              => obj[o].state = "live"
<1>1. obj[o] \in Object /\ Core(policy, o, obj[o], stack, objref[o], 0)
      /\ objref[o] \in BOOLEAN /\ stack \in Stacks
  BY DEF IInv, Sound, TypeOK, Stacks
<1>2. obj[o].state # "live" => obj[o] = [Absent EXCEPT !.state = obj[o].state]
  BY <1>1 DEF Core, Present
<1>3. LET a == [Absent EXCEPT !.state = obj[o].state]
      IN a.servant = NoServant /\ a.use = 0 /\ a.refs = 0
  BY DEF Absent
<1> QED BY <1>1, <1>2, <1>3, Zenon

(* A thread that does not use the object comes by a reference or loses it. *)
LEMMA Relinked ==
  ASSUME NEW pol, NEW o, NEW r, NEW st \in Stacks, NEW x, NEW k \in Int,
         Core(pol, o, r, st, x, k),
         NEW t \in Threads, NEW s, ~ UseOf(st[t], o), ~ UseOf(s, o),
         RefOf(s, o) => r.state = "live"
  PROVE  Core(pol, o, r, [st EXCEPT ![t] = s], x,
              k + One(HoldOf(st[t], o)) - One(HoldOf(s, o)))
<1> DEFINE sk == [st EXCEPT ![t] = s]
           j == k + One(HoldOf(st[t], o)) - One(HoldOf(s, o))
<1>1. sk[t] = s /\ \A u \in Threads \ {t} : sk[u] = st[u]
  BY DEF Stacks
<1>2. ~ FinalOf(st[t], o) /\ ~ FinalOf(s, o)
  BY DEF FinalOf, UseOf
<1>3. Using(sk, o) = Using(st, o) /\ Ending(sk, o) = Ending(st, o)
  <2>1. \A u \in Threads : /\ UseOf(sk[u], o) <=> UseOf(st[u], o)
                           /\ FinalOf(sk[u], o) <=> FinalOf(st[u], o)
    BY <1>1, <1>2
  <2> QED BY <2>1 DEF Using, Ending
<1>4. \A u \in Using(st, o) : sk[u] = st[u]
  BY <1>1 DEF Using
<1> DEFINE holds == Cardinality(Holding(st, o))
           holds_ == Cardinality(Holding(sk, o))
<1>5. /\ holds \in Nat /\ holds_ \in Nat
      /\ holds_ = holds - One(HoldOf(st[t], o)) + One(HoldOf(s, o))
  BY Recounted
<1>6. Present(o, r, sk, x)
  BY <1>1 DEF Core, Present
<1> HIDE DEF sk
<1>7. Kept(pol, o, r, sk)
  BY <1>3, <1>4 DEF Core, Kept
<1>8. Balanced(pol, o, r, sk, x, j)
  <2> SUFFICES ASSUME pol.process = "map"
               PROVE  /\ Ending(sk, o) # {} => r.servant = NoServant
                      /\ \A u, v \in Ending(sk, o) : u = v
                      /\ r.refs = holds_ + One(x) + One(Active(o, r, sk)) + j
    BY DEF Balanced
  <2>1. /\ Ending(st, o) # {} => r.servant = NoServant
        /\ \A u, v \in Ending(st, o) : u = v
        /\ r.refs = holds + One(x) + One(Active(o, r, st)) + k
    BY DEF Core, Balanced
  <2>2. One(Active(o, r, st)) = One(Active(o, r, sk)) /\ One(Active(o, r, st)) \in Int
        /\ One(x) \in Int
    BY <1>3 DEF Active, One
  <2>3. One(HoldOf(st[t], o)) \in Int /\ One(HoldOf(s, o)) \in Int
    BY DEF One
  <2> HIDE DEF holds, holds_
  <2>4. r.refs = holds_ + One(x) + One(Active(o, r, sk)) + j
    BY <1>5, <2>1, <2>2, <2>3
  <2> QED BY <1>3, <2>1, <2>4
<1> QED BY <1>3, <1>6, <1>7, <1>8 DEF Core, sk

LEMMA Referenced ==
  ASSUME NEW pol, NEW o, NEW r \in Object, r.state = "live", NEW st, NEW x, NEW k \in Int,
         Core(pol, o, r, st, x, k)
  PROVE  /\ [r EXCEPT !.refs = @ + 1] \in Object
         /\ Core(pol, o, [r EXCEPT !.refs = @ + 1], st, x, k + 1)
<1> DEFINE q == [r EXCEPT !.refs = @ + 1]
<1>1. /\ q.state = r.state /\ q.servant = r.servant /\ q.use = r.use /\ q.flags = r.flags
      /\ q.refs = r.refs + 1 /\ r.refs \in Nat /\ q \in Object
  BY DEF Object
<1> HIDE DEF q
<1>2. Present(o, q, st, x) /\ Pending(pol, q) /\ Kept(pol, o, q, st)
  BY <1>1 DEF Core, Present, Pending, Kept
<1>3. Balanced(pol, o, q, st, x, k + 1)
  <2> DEFINE holds == Cardinality(Holding(st, o))
             a == One(x)
             b == One(Active(o, r, st))
  <2>1. holds \in Nat /\ a \in Int /\ b \in Int /\ b = One(Active(o, q, st))
    BY <1>1, Unused DEF One, Active
  <2>2. pol.process = "map" => /\ Ending(st, o) # {} => q.servant = NoServant
                               /\ \A u, v \in Ending(st, o) : u = v
                               /\ r.refs = holds + a + b + k
    BY <1>1 DEF Core, Balanced
  <2> HIDE DEF holds, a, b
  <2>3. pol.process = "map" => q.refs = holds + a + b + (k + 1)
    BY <1>1, <2>1, <2>2
  <2> QED BY <2>1, <2>2, <2>3 DEF Balanced, holds, a
<1> QED BY <1>1, <1>2, <1>3 DEF Core, q

LEMMA CreatedObject ==
  ASSUME NEW n \in Nat
  PROVE  /\ Created(n) \in Object /\ Created(n).state = "live"
         /\ Created(n).servant = NoServant /\ Created(n).use = 0
         /\ Created(n).refs = n /\ Created(n).flags = {}
BY DEF Created, Absent, Object

(* The same steps of the application. *)
LEMMA Activates ==
  ASSUME IInv, crash = "no", NEW t \in Threads, NEW o \in Oids, NEW s \in Servants,
         Activate(t, o, s)
  PROVE  IInv'
<1> DEFINE r == obj[o]
           b == IF r.state = "absent" THEN Created(0) ELSE r
           q == [b EXCEPT !.servant = s, !.refs = @ + 1]
<1>1. CASE \E why \in {"freed", "modified", "reactivated"} : Die(why)
  BY <1>1, Dies DEF Crashes
<1>2. CASE ~ (\E why \in {"freed", "modified", "reactivated"} : Die(why))
  <2>0. /\ stack[t] = <<>> /\ obj[o].servant = NoServant /\ s \notin Incarnating \cup Finalizing
        /\ obj[o].state # "dead" /\ ~ (obj[o].use > 0)
        /\ obj' = [obj EXCEPT ![o] =
               Incarnate(IF obj[o].state = "absent" THEN Created(0) ELSE obj[o], s)]
        /\ UNCHANGED <<policy, manager, poa, held, lock, objref, stack, crash>>
    BY <1>2 DEF Activate, Usable
  <2>1. /\ obj' = [obj EXCEPT ![o] = q] /\ r.state # "dead" /\ ~ (r.use > 0)
        /\ r.servant = NoServant /\ s \notin Incarnating \cup Finalizing
        /\ stack[t] = <<>>
        /\ UNCHANGED <<policy, manager, poa, held, lock, objref, stack, crash>>
    BY <2>0 DEF Incarnate
  <2>2. /\ r \in Object /\ Core(policy, o, r, stack, objref[o], 0) /\ stack \in Stacks
        /\ objref[o] \in BOOLEAN
    BY LiveServant
  <2>3. /\ b \in Object /\ b.state = "live" /\ b.servant = NoServant /\ b.use = 0
        /\ b.refs = r.refs /\ b.flags = r.flags
    <3>1. CASE r.state = "absent"
      <4>1. r = [Absent EXCEPT !.state = r.state]
        BY <2>2, <3>1 DEF Core, Present
      <4>2. [Absent EXCEPT !.state = r.state].refs = 0 /\ [Absent EXCEPT !.state = r.state].flags = {}
        BY DEF Absent
      <4>3. r.refs = 0 /\ r.flags = {}
        BY <4>1, <4>2, Zenon
      <4>4. b = Created(0)
        BY <3>1
      <4>5. /\ Created(0) \in Object /\ Created(0).state = "live"
            /\ Created(0).servant = NoServant /\ Created(0).use = 0
            /\ Created(0).refs = 0 /\ Created(0).flags = {}
        BY CreatedObject
      <4> HIDE DEF b, r
      <4> QED BY <4>3, <4>4, <4>5
    <3>2. CASE r.state # "absent"
      BY <2>1, <2>2, <3>2 DEF Object
    <3> QED BY <3>1, <3>2
  <2> HIDE DEF b
  <2>4. /\ q \in Object /\ q.state = "live" /\ q.servant = s /\ q.use = 0
        /\ q.refs = r.refs + 1 /\ q.flags = r.flags /\ r.refs \in Nat
    <3>1. b.refs \in Nat /\ b.refs + 1 \in Nat
      BY <2>3 DEF Object
    <3>2. q \in Object
      BY <2>3, <3>1 DEF Object, AllServants
    <3> QED BY <2>3, <3>1, <3>2 DEF Object
  <2>5. r.use = 0
    BY <2>1, <2>2 DEF Object
  <2> HIDE DEF q, r
  <2>6. Using(stack, o) = {} /\ Ending(stack, o) = {} /\ Cardinality(Holding(stack, o)) \in Nat
        /\ Cardinality(Using(stack, o)) = 0
    BY <2>2, <2>5, Unused DEF Core
  <2>7. Present(o, q, stack, objref[o]) /\ Pending(policy, q) /\ Kept(policy, o, q, stack)
    BY <2>2, <2>4, <2>5, <2>6 DEF Core, Present, Pending, Kept
  <2>8. Balanced(policy, o, q, stack, objref[o], 0)
    <3>1. ~ Active(o, r, stack) /\ Active(o, q, stack)
      <4>1. s # NoServant
        BY ServantsAssumption
      <4> QED BY <2>1, <2>4, <2>6, <4>1 DEF Active
    <3> QED BY <2>2, <2>4, <2>6, <3>1 DEF Core, Balanced, One
  <2>9. Core(policy, o, q, stack, objref[o], 0)
    BY <2>4, <2>6, <2>7, <2>8 DEF Core
  <2>10. /\ obj' \in [Oids -> Object] /\ obj'[o] = q /\ \A u \in Oids \ {o} : obj'[u] = obj[u]
    BY <2>1, <2>4, Replaced
  <2>11. TypeOK'
    BY <2>1, <2>10 DEF IInv, TypeOK
  <2>12. stack' = [stack EXCEPT ![t] = <<>>] /\ stack' = stack
    BY <2>1, <2>2 DEF Stacks
  <2>13. Apart(policy, obj', stack')
    BY <2>1, <2>4, <2>10, <2>12, ApartJoined DEF IInv, Sound
  <2>14. \A u \in Oids : Alike(stack[t], <<>>, u)
    BY <2>1, ViewEmpty DEF Alike
  <2> QED BY <2>1, <2>9, <2>10, <2>11, <2>12, <2>13, <2>14, EmptyShape, Stepped
<1> QED BY <1>1, <1>2

(* An object that is made is as good as one that is absent. *)
LEMMA Made ==
  ASSUME IInv, crash = "no", NEW o \in Oids, obj[o].state = "absent"
  PROVE  Core(policy, o, Created(0), stack, objref[o], 0) /\ objref[o] = FALSE
<1> DEFINE r == obj[o]
           q == Created(0)
           a == [Absent EXCEPT !.state = r.state]
<1>1. /\ Core(policy, o, r, stack, objref[o], 0) /\ stack \in Stacks
      /\ objref[o] \in BOOLEAN
  BY LiveServant
<1>2. a.servant = NoServant /\ a.use = 0 /\ a.refs = 0 /\ a.flags = {}
  BY DEF Absent
<1>3. r = a
  BY <1>1 DEF Core, Present
<1>4. r.servant = NoServant /\ r.use = 0 /\ r.refs = 0 /\ r.flags = {}
  BY <1>2, <1>3, Zenon
<1>5. /\ q.state = "live" /\ q.servant = NoServant /\ q.use = 0 /\ q.refs = 0
      /\ q.flags = {}
  BY CreatedObject
<1>6. ~ objref[o] /\ ~ (\E t \in Threads : RefOf(stack[t], o))
  BY <1>1 DEF Core, Present
<1> HIDE DEF q, r
<1>7. Present(o, q, stack, objref[o]) /\ Pending(policy, q) /\ Kept(policy, o, q, stack)
  BY <1>1, <1>4, <1>5 DEF Core, Present, Pending, Kept
<1>8. Balanced(policy, o, q, stack, objref[o], 0)
  BY <1>1, <1>4, <1>5 DEF Core, Balanced, Active
<1> QED BY <1>1, <1>4, <1>5, <1>6, <1>7, <1>8 DEF Core, q

(* The application gets or drops its reference. *)
LEMMA Handed ==
  ASSUME NEW pol, NEW o, NEW r, NEW st, NEW x \in BOOLEAN, NEW k \in Int,
         Core(pol, o, r, st, x, k), NEW y \in BOOLEAN, y => r.state = "live"
  PROVE  Core(pol, o, r, st, y, k + One(x) - One(y))
<1>1. Present(o, r, st, y)
  BY DEF Core, Present
<1>2. Balanced(pol, o, r, st, y, k + One(x) - One(y))
  <2> DEFINE holds == Cardinality(Holding(st, o))
             a == One(x)
             b == One(Active(o, r, st))
             c == One(y)
  <2>1. holds \in Nat /\ a \in Int /\ b \in Int /\ c \in Int
    BY Unused DEF One
  <2>2. pol.process = "map" => /\ Ending(st, o) # {} => r.servant = NoServant
                               /\ \A u, v \in Ending(st, o) : u = v
                               /\ r.refs = holds + a + b + k
    BY DEF Core, Balanced
  <2> HIDE DEF holds, a, b, c
  <2>3. pol.process = "map" => r.refs = holds + c + b + (k + a - c)
    BY <2>1, <2>2
  <2> QED BY <2>2, <2>3 DEF Balanced, holds, a, b, c
<1> QED BY <1>1, <1>2 DEF Core

LEMMA Creates ==
  ASSUME IInv, crash = "no", NEW t \in Threads, NEW o \in Oids, CreateReference(t, o)
  PROVE  IInv'
<1>1. CASE Die("modified")
  BY <1>1, Dies DEF Crashes
<1>2. CASE ~ Die("modified")
  <2> DEFINE b == IF obj[o].state = "absent" THEN Created(0) ELSE obj[o]
             q == [b EXCEPT !.refs = @ + 1]
  <2>1. /\ \/ obj[o].state = "absent" /\ obj' = [obj EXCEPT ![o] = Created(1)]
           \/ obj[o].servant # NoServant /\ obj' = [obj EXCEPT ![o].refs = @ + 1]
        /\ objref' = [objref EXCEPT ![o] = TRUE] /\ ~ objref[o] /\ stack[t] = <<>>
        /\ UNCHANGED <<policy, manager, poa, held, lock, stack, crash>>
    BY <1>2 DEF CreateReference, Usable
  <2>2. /\ obj[o] \in Object /\ stack \in Stacks /\ TypeOK
        /\ Core(policy, o, obj[o], stack, FALSE, 0)
        /\ obj[o].servant # NoServant => obj[o].state = "live"
        /\ obj \in [Oids -> Object]
    <3>1. objref[o] = FALSE
      BY <2>1, LiveServant
    <3> QED BY <3>1, LiveServant DEF IInv, TypeOK
  <2>3. b \in Object /\ b.state = "live" /\ Core(policy, o, b, stack, FALSE, 0)
    <3>1. CASE obj[o].state = "absent"
      BY <3>1, Made, CreatedObject
    <3>2. CASE obj[o].state # "absent"
      BY <2>1, <2>2, <3>2
    <3> QED BY <3>1, <3>2
  <2>4. obj' = [obj EXCEPT ![o] = q]
    <3>1. CASE obj[o].state = "absent"
      <4>1. b = Created(0) /\ obj' = [obj EXCEPT ![o] = Created(1)]
        BY <2>1, <2>2, <3>1
      <4>2. [Created(0) EXCEPT !.refs = @ + 1] = Created(1)
        <5> DEFINE c == Created(0)
                   d == [c EXCEPT !.refs = @ + 1]
        <5>1. /\ c \in Object /\ c.state = "live" /\ c.servant = NoServant
              /\ c.use = 0 /\ c.refs = 0 /\ c.flags = {}
          BY CreatedObject
        <5> HIDE DEF c
        <5>2. /\ d \in Object /\ d.state = "live" /\ d.servant = NoServant
              /\ d.use = 0 /\ d.refs = 1 /\ d.flags = {}
          BY <5>1 DEF Object
        <5> HIDE DEF d
        <5>3. d = Created(1)
          BY <5>2, CreatedObject DEF Object
        <5> QED BY <5>3 DEF c, d
      <4> QED BY <4>1, <4>2
    <3>2. CASE obj[o].state # "absent"
      BY <2>1, <3>2
    <3> QED BY <3>1, <3>2
  <2>5. b.servant = obj[o].servant
    <3>1. CASE obj[o].state = "absent"
      <4>1. [Absent EXCEPT !.state = obj[o].state].servant = NoServant
        BY DEF Absent
      <4>2. obj[o] = [Absent EXCEPT !.state = obj[o].state]
        BY <2>2, <3>1 DEF Core, Present
      <4>3. obj[o].servant = NoServant
        BY <4>1, <4>2, Zenon
      <4> QED BY <3>1, <4>3, CreatedObject
    <3>2. CASE obj[o].state # "absent"
      BY <3>2
    <3> QED BY <3>1, <3>2
  <2> HIDE DEF b
  <2>6. q \in Object /\ Core(policy, o, q, stack, FALSE, 1) /\ q.state = "live"
        /\ q.servant = obj[o].servant
    <3>1. q \in Object /\ Core(policy, o, q, stack, FALSE, 0 + 1)
      <4>1. 0 \in Int
        OBVIOUS
      <4> QED BY <2>3, <4>1, Referenced, Zenon
    <3>2. q.state = "live" /\ q.servant = obj[o].servant
      BY <2>3, <2>5 DEF Object
    <3>3. 0 + 1 = 1
      OBVIOUS
    <3> HIDE DEF q
    <3> QED BY <3>1, <3>2, <3>3
  <2> HIDE DEF q
  <2>7. Core(policy, o, q, stack, TRUE, 0)
    <3>1. Core(policy, o, q, stack, TRUE, 1 + One(FALSE) - One(TRUE))
      <4>1. 1 \in Int /\ FALSE \in BOOLEAN /\ TRUE \in BOOLEAN
        OBVIOUS
      <4> QED BY <2>6, <4>1, Handed, Zenon
    <3>2. 1 + One(FALSE) - One(TRUE) = 0
      BY DEF One
    <3> QED BY <3>1, <3>2
  <2>8. /\ obj' \in [Oids -> Object] /\ obj'[o] = q /\ \A u \in Oids \ {o} : obj'[u] = obj[u]
    BY <2>4, <2>6, Replaced
  <2>9. TypeOK' /\ objref'[o] = TRUE /\ \A u \in Oids \ {o} : objref'[u] = objref[u]
    BY <2>1, <2>2, <2>8 DEF TypeOK
  <2>10. stack' = [stack EXCEPT ![t] = <<>>] /\ stack' = stack
    BY <2>1, <2>2 DEF Stacks
  <2>11. Apart(policy, obj', stack')
    BY <2>1, <2>2, <2>6, <2>8, <2>10, ApartKept DEF IInv, Sound
  <2>12. \A u \in Oids : Alike(stack[t], <<>>, u)
    BY <2>1, ViewEmpty DEF Alike
  <2>13. /\ Core(policy, o, obj'[o], stack', objref'[o], 0)
         /\ \A u \in Oids \ {o} : /\ obj'[u] = obj[u] /\ objref'[u] = objref[u]
                                  /\ Alike(stack[t], <<>>, u)
         /\ crash' = "no" /\ UNCHANGED policy /\ Shaped(<<>>) /\ Bare(policy, <<>>)
    BY <2>1, <2>7, <2>8, <2>9, <2>10, <2>12, EmptyShape
  <2> QED BY <2>9, <2>10, <2>11, <2>13, Stepped
<1> QED BY <1>1, <1>2

LEMMA ReleasesReference ==
  ASSUME IInv, crash = "no", NEW o \in Oids, ReleaseReference(o)
  PROVE  IInv'
<1> DEFINE r == obj[o]
<1>1. /\ objref[o] /\ objref' = [objref EXCEPT ![o] = FALSE] /\ Unref(o, r)
      /\ UNCHANGED <<policy, manager, poa, held, lock, stack>>
  BY DEF ReleaseReference
<1>2. /\ r \in Object /\ Core(policy, o, r, stack, TRUE, 0) /\ stack \in Stacks
      /\ TypeOK /\ Sound /\ FinalizedUnused
  <2>1. objref[o] = TRUE
    BY <1>1, LiveServant
  <2> QED BY <2>1, LiveServant, SoundUnused DEF IInv
<1>3. /\ crash' \in Crashes /\ obj' \in [Oids -> Object]
      /\ \A u \in Oids \ {o} : obj'[u] = obj[u]
  BY <1>1, <1>2, UnrefType
<1>4. TypeOK' /\ objref'[o] = FALSE /\ \A u \in Oids \ {o} : objref'[u] = objref[u]
  BY <1>1, <1>2, <1>3 DEF TypeOK, Crashes
<1>5. FinalizedUnused'
  BY <1>1, <1>2 DEF FinalizedUnused, At
<1>6. ASSUME crash' = "no" PROVE Sound'
  <2>1. Core(policy, o, r, stack, FALSE, 1)
    <3>1. Core(policy, o, r, stack, FALSE, 0 + One(TRUE) - One(FALSE))
      <4>1. 0 \in Int /\ FALSE \in BOOLEAN /\ TRUE \in BOOLEAN
        OBVIOUS
      <4> QED BY <1>2, <4>1, Handed, Zenon
    <3>2. 0 + One(TRUE) - One(FALSE) = 1
      BY DEF One
    <3> QED BY <3>1, <3>2
  <2>2. obj'[o].servant = r.servant /\ Core(policy, o, obj'[o], stack, FALSE, 0)
    BY <1>1, <1>2, <1>4, <1>6, <2>1, UnrefCore
  <2>3. Apart(policy, obj', stack)
    <3>1. \A u \in Oids : obj'[u].servant = obj[u].servant
      BY <1>3, <2>2
    <3>2. Apart(policy, obj, stack)
      BY <1>2 DEF Sound
    <3> QED BY <3>1, <3>2 DEF Apart
  <2> QED BY <1>1, <1>2, <1>3, <1>4, <2>2, <2>3 DEF Sound
<1> QED BY <1>1, <1>4, <1>5, <1>6 DEF IInv

-----------------------------------------------------------------------------
(* Calls that change an object.                                            *)

(* The frames are those of calls to object o. *)
Of(s, o) ==
  \/ s = <<>>
  \/ \E f \in Frame : f.at \in LeafKinds /\ f.oid = o /\ s = <<f>>

LEMMA OfOne ==
  ASSUME NEW o \in Oids, NEW s, Of(s, o)
  PROVE  /\ Shaped(s) /\ (\A pol : Bare(pol, s))
         /\ \A u \in Oids \ {o} : ~ UseOf(s, u) /\ ~ RefOf(s, u) /\ ~ HoldOf(s, u)
<1>1. CASE s = <<>>
  BY <1>1, EmptyShape, ViewEmpty
<1>2. ASSUME NEW f \in Frame, f.at \in LeafKinds, f.oid = o, s = <<f>>
      PROVE  /\ Shaped(s) /\ (\A pol : Bare(pol, s))
             /\ \A u \in Oids \ {o} : ~ UseOf(s, u) /\ ~ RefOf(s, u) /\ ~ HoldOf(s, u)
  <2>1. \A u \in Oids \ {o} : f \notin Refers(u) /\ f \notin Holds(u)
    BY <1>2 DEF Refers, Holds
  <2> QED BY <1>2, <2>1, LeafShape, ViewAlone
<1> QED BY <1>1, <1>2 DEF Of

LEMMA Calling ==
  ASSUME IInv, crash = "no", TypeOK', UNCHANGED <<policy, objref>>,
         NEW t \in Threads, NEW o \in Oids, NEW s, Of(stack[t], o), Of(s, o),
         stack' = [stack EXCEPT ![t] = s], \A u \in Oids \ {o} : obj'[u] = obj[u],
         crash' = "no" => /\ Core(policy, o, obj'[o], stack', objref[o], 0)
                          /\ \/ obj'[o].servant \in {obj[o].servant, NoServant}
                             \/ obj'[o].servant \notin Incarnating \cup Finalizing
                             \/ policy.process = "default",
         crash' = "no" \/ (s # <<>> => Head(s).at \notin {"method", "final"})
  PROVE  IInv'
<1>1. Shaped(s) /\ Bare(policy, s) /\ \A u \in Oids \ {o} : Alike(stack[t], s, u)
  BY OfOne DEF Alike
<1>2. s # <<>> => Head(s).at # "final"
  BY Alone DEF Of, LeafKinds
<1>3. TypeOK
  BY DEF IInv
<1>4. ASSUME crash' = "no" PROVE Apart(policy, obj', stack')
  <2>1. Apart(policy, obj, stack)
    BY DEF IInv, Sound
  <2>2. CASE obj'[o].servant \in {obj[o].servant, NoServant}
    BY <1>2, <1>3, <2>1, <2>2, ApartKept
  <2>3. CASE obj'[o].servant \notin Incarnating \cup Finalizing
    BY <1>2, <1>3, <2>1, <2>3, ApartJoined
  <2>4. CASE policy.process = "default"
    BY <2>4 DEF Apart
  <2> QED BY <1>4, <2>2, <2>3, <2>4
<1> QED BY <1>1, <1>4, Stepped

(* The thread that works on behalf of a call. *)
LEMMA Caller ==
  ASSUME IInv, NEW t \in Threads,
         stack[t] = <<>> \/ Head(stack[t]).at \in LeafKinds
  PROVE  /\ stack[t] = <<>> => \A o : Of(stack[t], o)
         /\ stack[t] # <<>> => Of(stack[t], Head(stack[t]).oid)
BY InCall DEF Of

LEMMA Uncounted ==
  ASSUME NEW pol, NEW o, NEW r, NEW st, NEW x, NEW k, NEW j, Core(pol, o, r, st, x, k),
         pol.process # "map"
  PROVE  Core(pol, o, r, st, x, j)
BY DEF Core, Balanced

LEMMA Calls1 ==
  ASSUME NEW o \in Oids, NEW at \in {"found", "request", "release"}
  PROVE  LET f == frame(at, o)
         IN /\ f \in Frame /\ f.at = at /\ f.oid = o
            /\ <<f>> \in Seq(Frame) /\ Of(<<f>>, o)
            /\ Head(<<f>>) = f
            /\ ~ UseOf(<<f>>, o) /\ RefOf(<<f>>, o)
            /\ HoldOf(<<f>>, o) <=> at # "found"
<1> DEFINE f == frame(at, o)
<1>1. f \in Frame /\ f.at = at /\ f.oid = o
  BY DEF frame, Frame
<1> HIDE DEF f
<1>2. f \in Refers(o) /\ (f \in Holds(o) <=> at # "found")
  BY <1>1 DEF Refers, Holds
<1>3. <<f>> \in Seq(Frame) /\ Of(<<f>>, o)
  BY <1>1, Alone DEF Of, LeafKinds
<1>4. /\ ~ UseOf(<<f>>, o) /\ RefOf(<<f>>, o)
      /\ HoldOf(<<f>>, o) <=> at # "found"
  BY <1>1, <1>2, ViewAlone
<1>5. Head(<<f>>) = f
  BY <1>1, Alone
<1> QED BY <1>1, <1>3, <1>4, <1>5 DEF f

LEMMA LooksUp ==
  ASSUME IInv, crash = "no", NEW t \in Threads, NEW o \in Oids, Lookup(t, o)
  PROVE  IInv'
<1>1. CASE \E why \in {"freed", "modified"} : Die(why)
  BY <1>1, Dies DEF Crashes
<1>2. /\ obj[o] \in Object /\ stack \in Stacks /\ TypeOK /\ objref[o] \in BOOLEAN
      /\ Core(policy, o, obj[o], stack, objref[o], 0)
  BY LiveServant DEF IInv
<1>3. stack[t] = <<>> /\ Of(stack[t], o) /\ ~ UseOf(stack[t], o) /\ ~ HoldOf(stack[t], o)
  BY ViewEmpty DEF Lookup, Usable, Of
<1>4. CASE /\ obj[o].state = "live"
           /\ goto(t, <<frame("found", o)>>)
           /\ lock' = [lock EXCEPT ![Home[o]] = t]
           /\ UNCHANGED <<policy, manager, poa, held, obj, objref, crash>>
  <2> DEFINE s == <<frame("found", o)>>
  <2>1. s \in Seq(Frame) /\ Of(s, o) /\ ~ UseOf(s, o) /\ ~ HoldOf(s, o)
        /\ s # <<>> /\ Head(s).at = "found"
    <3> DEFINE f == frame("found", o)
    <3>1. /\ f \in Frame /\ f.at = "found" /\ f.oid = o
          /\ <<f>> \in Seq(Frame) /\ Of(<<f>>, o)
          /\ Head(<<f>>) = f
          /\ ~ UseOf(<<f>>, o) /\ RefOf(<<f>>, o)
          /\ HoldOf(<<f>>, o) <=> "found" # "found"
      BY Calls1
    <3> HIDE DEF f
    <3> QED BY <3>1, Alone DEF f
  <2>2. stack' = [stack EXCEPT ![t] = s]
    BY <1>4 DEF goto
  <2> HIDE DEF s
  <2>3. TypeOK'
    BY <1>2, <1>4, <2>1, <2>2 DEF TypeOK
  <2>4. Core(policy, o, obj[o], stack', objref[o], 0)
    <3>1. Core(policy, o, obj[o], stack', objref[o],
               0 + One(HoldOf(stack[t], o)) - One(HoldOf(s, o)))
      <4>1. 0 \in Int
        OBVIOUS
      <4> QED BY <1>2, <1>3, <1>4, <2>1, <2>2, <4>1, Relinked, Zenon
    <3>2. 0 + One(HoldOf(stack[t], o)) - One(HoldOf(s, o)) = 0
      BY <1>3, <2>1 DEF One
    <3> QED BY <3>1, <3>2
  <2> QED BY <1>3, <1>4, <2>1, <2>2, <2>3, <2>4, Calling
<1>5. CASE /\ obj[o].state = "absent" /\ policy.process # "map"
           /\ obj' = [obj EXCEPT ![o] = Created(0)]
           /\ goto(t, <<frame("request", o)>>)
           /\ UNCHANGED <<policy, manager, poa, held, lock, objref, crash>>
  <2> DEFINE s == <<frame("request", o)>>
             q == Created(0)
  <2>1. s \in Seq(Frame) /\ Of(s, o) /\ ~ UseOf(s, o)
        /\ s # <<>> /\ Head(s).at = "request"
    <3> DEFINE f == frame("request", o)
    <3>1. /\ f \in Frame /\ f.at = "request" /\ f.oid = o
          /\ <<f>> \in Seq(Frame) /\ Of(<<f>>, o)
          /\ Head(<<f>>) = f
          /\ ~ UseOf(<<f>>, o) /\ RefOf(<<f>>, o)
          /\ HoldOf(<<f>>, o) <=> "request" # "found"
      BY Calls1
    <3> HIDE DEF f
    <3> QED BY <3>1, Alone DEF f
  <2>2. stack' = [stack EXCEPT ![t] = s] /\ obj' = [obj EXCEPT ![o] = q]
    BY <1>5 DEF goto
  <2>3. q \in Object /\ q.state = "live" /\ q.servant = NoServant
    BY CreatedObject
  <2>4. Core(policy, o, q, stack, objref[o], 0)
    BY <1>5, Made
  <2> HIDE DEF s, q
  <2>5. TypeOK' /\ obj'[o] = q /\ \A u \in Oids \ {o} : obj'[u] = obj[u]
    BY <1>2, <1>5, <2>1, <2>2, <2>3 DEF TypeOK
  <2>6. Core(policy, o, q, stack', objref[o], 0)
    <3>1. Core(policy, o, q, stack', objref[o],
               0 + One(HoldOf(stack[t], o)) - One(HoldOf(s, o)))
      <4>1. 0 \in Int
        OBVIOUS
      <4> QED BY <1>2, <1>3, <2>1, <2>2, <2>3, <2>4, <4>1, Relinked, Zenon
    <3> QED BY <1>5, <3>1, Uncounted
  <2> QED BY <1>3, <1>5, <2>1, <2>2, <2>3, <2>5, <2>6, Calling
<1> QED BY <1>1, <1>4, <1>5 DEF Lookup

(* What a thread in a call knows of the object. *)
LEMMA CallKnows ==
  ASSUME IInv, crash = "no", NEW t \in Threads, stack[t] # <<>>,
         Head(stack[t]).at \in {"found", "request", "method", "release"}
  PROVE  LET f == Head(stack[t])
             o == f.oid
         IN /\ o \in Oids /\ f \in Frame /\ Of(stack[t], o) /\ Tail(stack[t]) = <<>>
            /\ obj[o] \in Object /\ obj[o].state = "live" /\ objref[o] \in BOOLEAN
            /\ Core(policy, o, obj[o], stack, objref[o], 0)
            /\ UseOf(stack[t], o) <=> f.at = "method"
            /\ HoldOf(stack[t], o) <=>
                 \/ f.at \in {"request", "release"}
                 \/ f.at = "method" /\ f.kind = "remote"
<1> DEFINE f == Head(stack[t])
           o == f.oid
<1>1. /\ f \in Frame /\ Tail(stack[t]) = <<>> /\ o \in Oids
      /\ UseOf(stack[t], o) <=> f.at = "method" /\ f.oid = o
      /\ RefOf(stack[t], o) <=> f \in Refers(o)
      /\ HoldOf(stack[t], o) <=> f \in Holds(o)
  BY InCall DEF LeafKinds
<1>2. f \in Refers(o)
  BY <1>1 DEF Refers
<1>3. f \in Holds(o) <=>
        \/ f.at \in {"request", "release"}
        \/ f.at = "method" /\ f.kind = "remote"
  <2> HIDE DEF f, o
  <2>1. f \in Holds(o) <=> /\ f.at \in {"request", "method", "release"}
                           /\ f.at = "method" => f.kind = "remote"
    BY <1>1, o = f.oid DEF Holds, o
  <2> QED BY <2>1
<1>4. /\ obj[o] \in Object /\ objref[o] \in BOOLEAN
      /\ Core(policy, o, obj[o], stack, objref[o], 0)
  BY <1>1, LiveServant
<1>5. obj[o].state = "live"
  BY <1>1, <1>2, <1>4 DEF Core, Present
<1>6. Of(stack[t], o)
  BY Caller DEF LeafKinds
<1> QED BY <1>1, <1>3, <1>4, <1>5, <1>6

LEMMA Finds ==
  ASSUME IInv, crash = "no", NEW t \in Threads, Found(t)
  PROVE  IInv'
<1> DEFINE o == Head(stack[t]).oid
           s == <<frame("request", o)>>
           q == [obj[o] EXCEPT !.refs = @ + 1]
<1>1. /\ stack[t] # <<>> /\ Head(stack[t]).at = "found" /\ TypeOK /\ stack \in Stacks
      /\ obj' = [obj EXCEPT ![o].refs = @ + 1] /\ stack' = [stack EXCEPT ![t] = s]
      /\ lock' = [lock EXCEPT ![Home[o]] = Nobody]
      /\ UNCHANGED <<policy, manager, poa, held, objref, crash>>
  BY DEF Found, At, goto, IInv, TypeOK, Stacks
<1>2. /\ o \in Oids /\ Of(stack[t], o)
      /\ obj[o] \in Object /\ obj[o].state = "live" /\ objref[o] \in BOOLEAN
      /\ Core(policy, o, obj[o], stack, objref[o], 0)
      /\ ~ UseOf(stack[t], o) /\ ~ HoldOf(stack[t], o)
  BY <1>1, CallKnows
<1>3. /\ s \in Seq(Frame) /\ Of(s, o) /\ ~ UseOf(s, o) /\ HoldOf(s, o)
      /\ s # <<>> /\ Head(s).at = "request"
  <2> DEFINE f == frame("request", o)
  <2>1. /\ f \in Frame /\ f.at = "request" /\ f.oid = o
        /\ <<f>> \in Seq(Frame) /\ Of(<<f>>, o)
        /\ Head(<<f>>) = f
        /\ ~ UseOf(<<f>>, o) /\ RefOf(<<f>>, o)
        /\ HoldOf(<<f>>, o) <=> "request" # "found"
    BY <1>2, Calls1
  <2> HIDE DEF f
  <2> QED BY <2>1, Alone DEF f
<1> HIDE DEF o, s
<1>4. q \in Object /\ Core(policy, o, q, stack, objref[o], 0 + 1)
  <2>1. 0 \in Int
    OBVIOUS
  <2> QED BY <1>2, <2>1, Referenced, Zenon
<1>5. obj' = [obj EXCEPT ![o] = q] /\ q.servant = obj[o].servant /\ q.state = "live"
  BY <1>1, <1>2 DEF Object
<1> HIDE DEF q
<1>6. TypeOK' /\ obj'[o] = q /\ \A u \in Oids \ {o} : obj'[u] = obj[u]
  BY <1>1, <1>2, <1>3, <1>4, <1>5 DEF TypeOK
<1>7. Core(policy, o, q, stack', objref[o], 0)
  <2>1. Core(policy, o, q, stack', objref[o],
             (0 + 1) + One(HoldOf(stack[t], o)) - One(HoldOf(s, o)))
    <3>1. 0 + 1 \in Int
      OBVIOUS
    <3> QED BY <1>1, <1>2, <1>3, <1>4, <1>5, <3>1, Relinked, Zenon
  <2>2. (0 + 1) + One(HoldOf(stack[t], o)) - One(HoldOf(s, o)) = 0
    BY <1>2, <1>3 DEF One
  <2> QED BY <2>1, <2>2
<1> QED BY <1>1, <1>2, <1>3, <1>5, <1>6, <1>7, Calling

LEMMA Releases ==
  ASSUME IInv, crash = "no", NEW t \in Threads, Release(t)
  PROVE  IInv'
<1> DEFINE o == Head(stack[t]).oid
<1>1. /\ stack[t] # <<>> /\ Head(stack[t]).at = "release" /\ TypeOK /\ stack \in Stacks
      /\ Unref(o, obj[o]) /\ stack' = [stack EXCEPT ![t] = Tail(stack[t])]
      /\ UNCHANGED <<policy, manager, poa, held, lock, objref>>
  BY DEF Release, At, goto, IInv, TypeOK, Stacks
<1>2. /\ o \in Oids /\ Of(stack[t], o) /\ Tail(stack[t]) = <<>>
      /\ obj[o] \in Object /\ obj[o].state = "live" /\ objref[o] \in BOOLEAN
      /\ Core(policy, o, obj[o], stack, objref[o], 0)
      /\ ~ UseOf(stack[t], o) /\ HoldOf(stack[t], o)
  <2>1. HoldOf(stack[t], o) <=>
          \/ Head(stack[t]).at \in {"request", "release"}
          \/ Head(stack[t]).at = "method" /\ Head(stack[t]).kind = "remote"
    BY <1>1, CallKnows
  <2> QED BY <1>1, <2>1, CallKnows
<1> HIDE DEF o
<1>3. stack' = [stack EXCEPT ![t] = <<>>] /\ Of(<<>>, o)
  BY <1>1, <1>2 DEF Of
<1>4. /\ crash' \in Crashes /\ obj' \in [Oids -> Object]
      /\ \A u \in Oids \ {o} : obj'[u] = obj[u]
  BY <1>1, <1>2, UnrefType
<1>5. TypeOK' /\ stack' \in Stacks
  BY <1>1, <1>3, <1>4 DEF TypeOK, Crashes, Stacks
<1>6. Core(policy, o, obj[o], stack', objref[o], 1)
  <2>1. Core(policy, o, obj[o], stack', objref[o],
             0 + One(HoldOf(stack[t], o)) - One(HoldOf(<<>>, o)))
    <3>1. 0 \in Int
      OBVIOUS
    <3>2. ~ UseOf(<<>>, o) /\ ~ RefOf(<<>>, o)
      BY ViewEmpty
    <3>3. Core(policy, o, obj[o], [stack EXCEPT ![t] = <<>>], objref[o],
               0 + One(HoldOf(stack[t], o)) - One(HoldOf(<<>>, o)))
      <4>1. stack \in Stacks
        BY <1>1
      <4> QED BY <1>2, <3>1, <3>2, <4>1, Relinked, Zenon
    <3> QED BY <1>3, <3>3
  <2>2. 0 + One(HoldOf(stack[t], o)) - One(HoldOf(<<>>, o)) = 1
    BY <1>2, ViewEmpty DEF One
  <2> QED BY <2>1, <2>2
<1>7. crash' = "no" => /\ obj'[o].servant = obj[o].servant
                       /\ Core(policy, o, obj'[o], stack', objref[o], 0)
  <2>1. objref'[o] = objref[o]
    BY <1>1
  <2> QED BY <1>1, <1>2, <1>5, <1>6, <2>1, UnrefCore
<1> QED BY <1>1, <1>2, <1>3, <1>4, <1>5, <1>7, Calling

-----------------------------------------------------------------------------
(* Deactivation of objects.                                                *)

LEMMA RestShape ==
  ASSUME NEW s \in Rests
  PROVE  /\ Shaped(s) /\ s \in Seq(Frame)
         /\ s # <<>> => Head(s).at \notin {"method", "final"}
         /\ \A f \in Finals : Shaped(<<f>> \o s)
<1>1. s \in Seq(Frame) /\ \A f \in Finals : Shaped(<<f>> \o s)
  BY ChainFrames DEF Shaped
<1>2. CASE s \in Chains
  <2>1. s # <<>> => Head(s) \in Works
    BY <1>2, ChainPop
  <2> QED BY <1>1, <1>2, <2>1 DEF Shaped, Works, WorkKinds
<1>3. ASSUME NEW f \in Frame, f.at = "release", s = <<f>>
      PROVE  Shaped(s) /\ Head(s).at = "release"
  BY <1>3, LeafShape DEF LeafKinds
<1> QED BY <1>1, <1>2, <1>3 DEF Rests

LEMMA Deactivates ==
  ASSUME IInv, crash = "no", UNCHANGED <<policy, manager, poa, held, objref>>,
         NEW t \in Threads, NEW o \in Oids, NEW r \in Object, NEW etherealize,
         NEW frames \in Rests, DeactivateObject(t, o, r, etherealize, frames),
         r.servant = obj[o].servant, Deferrable(policy, r),
         Present(o, r, [stack EXCEPT ![t] = frames], objref[o]),
         r.use = Cardinality(Using([stack EXCEPT ![t] = frames], o)),
         Kept(policy, o, r, [stack EXCEPT ![t] = frames]),
         Balanced(policy, o, r, [stack EXCEPT ![t] = frames], objref[o], 0),
         \A u \in Oids \ {o} : Alike(stack[t], frames, u)
  PROVE  IInv'
<1>1. TypeOK /\ stack \in Stacks /\ objref[o] \in BOOLEAN /\ objref'[o] = objref[o]
      /\ ~ Locator(policy)
  BY DEF IInv, TypeOK, Stacks, Deferrable
<1>2. /\ crash' \in Crashes /\ obj' \in [Oids -> Object]
      /\ lock' \in [Poas -> Threads \cup {Nobody}]
      /\ \A u \in Oids \ {o} : obj'[u] = obj[u]
      /\ stack' = [stack EXCEPT ![t] = frames] \/ Ends(t, o, r, frames)
  BY <1>1, DeactivateType
<1>3. crash' = "no" => /\ Core(policy, o, obj'[o], stack', objref[o], 0)
                       /\ obj'[o].servant \in {obj[o].servant, NoServant}
  <2>1. ASSUME crash' = "no"
        PROVE  /\ Core(policy, o, obj'[o], stack', objref'[o], 0)
               /\ obj'[o].servant \in {r.servant, NoServant}
    BY <1>1, <2>1, DeactivateCore
  <2> QED BY <1>1, <2>1
<1>4. ASSUME NEW s \in Seq(Frame), Shaped(s), stack' = [stack EXCEPT ![t] = s],
             \A u \in Oids \ {o} : Alike(stack[t], s, u),
             crash' = "no" \/ (s # <<>> => Head(s).at \notin {"method", "final"}),
             s # <<>> /\ Head(s).at = "final" =>
               /\ obj'[o].servant = NoServant /\ Head(s).servant = obj[o].servant
               /\ obj[o].servant # NoServant
      PROVE  IInv'
  <2>1. TypeOK'
    BY <1>1, <1>2, <1>4 DEF TypeOK, Crashes
  <2>2. Bare(policy, s)
    BY <1>1 DEF Bare
  <2>3. crash' = "no" => Apart(policy, obj', stack')
    <3>1. Apart(policy, obj, stack)
      BY DEF IInv, Sound
    <3> QED BY <1>1, <1>2, <1>3, <1>4, <3>1, ApartKept
  <2> QED BY <1>1, <1>2, <1>3, <1>4, <2>1, <2>2, <2>3, Stepped
<1>5. CASE stack' = [stack EXCEPT ![t] = frames]
  <2>1. frames \in Seq(Frame) /\ Shaped(frames)
        /\ (frames # <<>> => Head(frames).at \notin {"method", "final"})
    BY RestShape
  <2> QED BY <1>4, <1>5, <2>1
<1>6. ASSUME NEW f \in Finals, f.oid = o, f.servant = r.servant, crash' = "no",
             obj'[o].servant = NoServant, stack' = [stack EXCEPT ![t] = <<f>> \o frames]
      PROVE  IInv'
  <2> DEFINE s == <<f>> \o frames
  <2>1. f \in Frame /\ f.at = "final" /\ frames \in Seq(Frame)
    BY RestShape DEF Finals
  <2>2. s \in Seq(Frame) /\ Shaped(s) /\ Head(s) = f
    BY <2>1, RestShape, Pushing
  <2>3. obj[o].servant # NoServant
    <3>1. f.servant \in AllServants
      BY <2>1 DEF Frame
    <3> QED BY <1>6, <3>1, ServantsAssumption DEF AllServants
  <2>4. ASSUME NEW u \in Oids \ {o} PROVE Alike(stack[t], s, u)
    <3>1. f \notin Refers(u) /\ f \notin Holds(u)
      BY <1>6 DEF Refers, Holds
    <3>2. ~ UseOf(s, u) /\ (RefOf(s, u) <=> RefOf(frames, u))
          /\ (HoldOf(s, u) <=> HoldOf(frames, u))
      BY <1>6, <2>1, <3>1, ViewPush
    <3> QED BY <3>2 DEF Alike
  <2> HIDE DEF s
  <2> QED BY <1>4, <1>6, <2>2, <2>3, <2>4 DEF s
<1> QED BY <1>2, <1>5, <1>6 DEF Ends

LEMMA DeactivatesOne ==
  ASSUME IInv, crash = "no", NEW t \in Threads, NEW o \in Oids, Deactivate(t, o)
  PROVE  IInv'
<1> DEFINE q == [obj[o] EXCEPT !.refs = @ + 1]
           g == frame("release", o)
           s == <<g>>
<1>1. /\ stack[t] = <<>> /\ policy.retain /\ obj[o].servant # NoServant
      /\ UNCHANGED <<policy, manager, poa, held, objref>>
      /\ DeactivateObject(t, o, q, TRUE, s)
  BY DEF Deactivate, Usable
<1>2. /\ obj[o] \in Object /\ objref[o] \in BOOLEAN /\ stack \in Stacks
      /\ Core(policy, o, obj[o], stack, objref[o], 0) /\ obj[o].state = "live"
  BY <1>1, LiveServant
<1>3. q \in Object /\ Core(policy, o, q, stack, objref[o], 0 + 1)
  <2>1. 0 \in Int
    OBVIOUS
  <2> QED BY <1>2, <2>1, Referenced, Zenon
<1>4. q.servant = obj[o].servant /\ q.state = "live"
  BY <1>2 DEF Object
<1>5. /\ g \in Frame /\ g.at = "release" /\ g.oid = o
      /\ s \in Seq(Frame) /\ Of(s, o) /\ Head(s) = g
      /\ ~ UseOf(s, o) /\ RefOf(s, o)
      /\ HoldOf(s, o) <=> "release" # "found"
  BY <1>2, Calls1
<1>6. s \in Rests
  BY <1>5 DEF Rests
<1> HIDE DEF q, s
<1>7. Core(policy, o, q, [stack EXCEPT ![t] = s], objref[o], 0)
  <2>1. Core(policy, o, q, [stack EXCEPT ![t] = s], objref[o],
             (0 + 1) + One(HoldOf(stack[t], o)) - One(HoldOf(s, o)))
    <3>1. 0 + 1 \in Int
      OBVIOUS
    <3>2. ~ UseOf(stack[t], o)
      BY <1>1, ViewEmpty
    <3> QED BY <1>2, <1>3, <1>4, <1>5, <3>1, <3>2, Relinked, Zenon
  <2>2. (0 + 1) + One(HoldOf(stack[t], o)) - One(HoldOf(s, o)) = 0
    BY <1>1, <1>5, ViewEmpty DEF One
  <2> QED BY <2>1, <2>2
<1>8. Deferrable(policy, q)
  BY <1>1, <1>7 DEF Core, Pending, Deferrable, Locator
<1>9. \A u \in Oids \ {o} : Alike(stack[t], s, u)
  BY <1>1, <1>5, OfOne, ViewEmpty DEF Alike
<1> QED BY <1>1, <1>3, <1>4, <1>6, <1>7, <1>8, <1>9, Deactivates DEF Core

LEMMA FinalizerEnds ==
  ASSUME IInv, crash = "no", NEW t \in Threads, FinalizerReturns(t)
  PROVE  IInv'
<1> DEFINE f == Head(stack[t])
           o == f.oid
           s == Tail(stack[t])
           r == obj[o]
           q == [r EXCEPT !.use = @ - 1, !.flags = @ \ {"DeactivateDo", "DoEtherealize"}]
<1>1. /\ stack[t] # <<>> /\ f.at = "final" /\ TypeOK /\ stack \in Stacks
      /\ UNCHANGED <<policy, manager, poa, held, objref>>
      /\ stack' = [stack EXCEPT ![t] = s] /\ Unref(o, q)
  BY DEF FinalizerReturns, At, goto, IInv, TypeOK, Stacks
<1>2. /\ f \in Frame /\ s \in Rests /\ stack[t] = <<f>> \o s
  BY <1>1, ShapeTop DEF IInv
<1>3. /\ Shaped(s) /\ s \in Seq(Frame)
      /\ s # <<>> => Head(s).at \notin {"method", "final"}
  BY <1>2, RestShape
<1>4. o \in Oids
  BY <1>1, <1>2 DEF Frame
<1>5. r \in Object /\ objref[o] \in BOOLEAN /\ Core(policy, o, r, stack, objref[o], 0)
  BY <1>4, LiveServant
<1>6. ~ Locator(policy)
  <2>1. f \notin Bares
    BY <1>1 DEF Bares
  <2> QED BY <1>1, <2>1, BareStacks DEF IInv, Sound
<1>7. lock' \in [Poas -> Threads \cup {Nobody}]
  <2>1. lock' = [lock EXCEPT ![Home[o]] = IF s # <<>> /\ Head(s).at = "deactivate"
                                          THEN t ELSE Nobody]
    BY DEF FinalizerReturns
  <2> QED BY <1>1, <2>1 DEF TypeOK
<1> HIDE DEF f, s, r
<1>8. ASSUME NEW u \in Oids
      PROVE  /\ UseOf(stack[t], u) <=> u = o
             /\ FinalOf(stack[t], u) <=> u = o
             /\ RefOf(stack[t], u) <=> u = o \/ RefOf(s, u)
             /\ HoldOf(stack[t], u) <=> HoldOf(s, u)
             /\ ~ UseOf(s, u) /\ ~ FinalOf(s, u)
  <2>1. (f \in Refers(u) <=> u = o) /\ f \notin Holds(u)
    BY <1>1, <1>2 DEF Refers, Holds
  <2>2. /\ UseOf(<<f>> \o s, u) <=> f.at \in {"method", "final"} /\ f.oid = u
        /\ FinalOf(<<f>> \o s, u) <=> f.at = "final" /\ f.oid = u
        /\ RefOf(<<f>> \o s, u) <=> f \in Refers(u) \/ RefOf(s, u)
        /\ HoldOf(<<f>> \o s, u) <=> f \in Holds(u) \/ HoldOf(s, u)
    BY <1>2, <1>3, ViewPush
  <2>3. ~ UseOf(s, u) /\ ~ FinalOf(s, u)
    BY <1>2, ViewRest
  <2> QED BY <1>1, <1>2, <2>1, <2>2, <2>3
<1> DEFINE sk == [stack EXCEPT ![t] = s]
<1>9. sk[t] = s /\ \A u \in Threads \ {t} : sk[u] = stack[u]
  BY <1>1 DEF Stacks
<1>10. r.state = "live"
  BY <1>4, <1>5, <1>8 DEF Core, Present
<1>11. /\ Cardinality(Using(stack, o)) \in Nat /\ Cardinality(Holding(stack, o)) \in Nat
       /\ Cardinality(Using(sk, o)) \in Nat
       /\ Cardinality(Using(sk, o)) = Cardinality(Using(stack, o)) - 1
       /\ Cardinality(Holding(sk, o)) = Cardinality(Holding(stack, o))
  <2> DEFINE a == Cardinality(Using(stack, o))
             b == Cardinality(Using(sk, o))
             c == Cardinality(Holding(stack, o))
             d == Cardinality(Holding(sk, o))
             i == One(HoldOf(stack[t], o))
             j == One(HoldOf(s, o))
  <2>1. /\ a \in Nat /\ b \in Nat /\ c \in Nat
        /\ b = a - One(UseOf(stack[t], o)) + One(UseOf(s, o)) /\ d = c - i + j
    BY <1>1, Recounted
  <2>2. One(UseOf(stack[t], o)) = 1 /\ One(UseOf(s, o)) = 0 /\ i = j /\ i \in Int
    BY <1>4, <1>8 DEF One
  <2> HIDE DEF a, b, c, d, i, j
  <2>3. b = a - 1 /\ d = c
    BY <2>1, <2>2
  <2> QED BY <2>1, <2>3 DEF a, b, c, d
<1>12. /\ q \in Object /\ q.state = "live" /\ q.servant = r.servant
       /\ q.use = Cardinality(Using(sk, o)) /\ q.refs = r.refs
       /\ "DeactivateDo" \notin q.flags /\ r.refs \in Nat
  <2>1. r.use = Cardinality(Using(stack, o))
    BY <1>5 DEF Core
  <2>2. r.use - 1 \in Nat /\ r.use - 1 = Cardinality(Using(sk, o))
    BY <1>11, <2>1
  <2> QED BY <1>5, <1>10, <2>2 DEF Object
<1> HIDE DEF q
<1>13. \A u \in Using(sk, o) : u \in Using(stack, o) /\ sk[u] = stack[u]
  BY <1>4, <1>8, <1>9 DEF Using
<1> HIDE DEF sk
<1>14. Core(policy, o, q, sk, objref[o], 1)
  <2>1. Present(o, q, sk, objref[o]) /\ Pending(policy, q)
    BY <1>12 DEF Present, Pending
  <2>2. Kept(policy, o, q, sk)
    BY <1>5, <1>12, <1>13 DEF Core, Kept
  <2>3. Balanced(policy, o, q, sk, objref[o], 1)
    <3> SUFFICES ASSUME policy.process = "map"
                 PROVE  /\ Ending(sk, o) # {} => q.servant = NoServant
                        /\ \A u, v \in Ending(sk, o) : u = v
                        /\ q.refs = Cardinality(Holding(sk, o)) + One(objref[o])
                                      + One(Active(o, q, sk)) + 1
      BY DEF Balanced
    <3>1. /\ Ending(stack, o) # {} => r.servant = NoServant
          /\ \A u, v \in Ending(stack, o) : u = v
          /\ r.refs = Cardinality(Holding(stack, o)) + One(objref[o])
                        + One(Active(o, r, stack)) + 0
      BY <1>5 DEF Core, Balanced
    <3>2. t \in Ending(stack, o) /\ t \notin Ending(sk, o)
          /\ Ending(sk, o) \subseteq Ending(stack, o)
      BY <1>4, <1>8, <1>9 DEF Ending
    <3>3. Ending(sk, o) = {} /\ r.servant = NoServant
      BY <3>1, <3>2
    <3>4. One(Active(o, r, stack)) = 1 /\ One(Active(o, q, sk)) = 0
      BY <1>12, <3>2, <3>3 DEF Active, One
    <3>5. One(objref[o]) \in Int
      BY DEF One
    <3> QED BY <1>11, <1>12, <3>1, <3>3, <3>4, <3>5
  <2> QED BY <1>12, <2>1, <2>2, <2>3 DEF Core
<1>15. /\ crash' \in Crashes /\ obj' \in [Oids -> Object]
       /\ \A u \in Oids \ {o} : obj'[u] = obj[u]
  BY <1>1, <1>4, <1>12, UnrefType
<1>16. TypeOK'
  BY <1>1, <1>3, <1>7, <1>15 DEF TypeOK, Crashes
<1>17. stack' = sk /\ sk \in Stacks /\ objref'[o] = objref[o]
  BY <1>1, <1>3 DEF sk, Stacks
<1>18. crash' = "no" => /\ obj'[o].servant = r.servant
                        /\ Core(policy, o, obj'[o], sk, objref[o], 0)
  <2> HIDE DEF o
  <2> QED BY <1>1, <1>4, <1>5, <1>12, <1>14, <1>17, UnrefCore
<1>19. crash' = "no" => Apart(policy, obj', stack')
  <2>1. Apart(policy, obj, stack)
    BY DEF IInv, Sound
  <2> QED BY <1>1, <1>3, <1>4, <1>15, <1>18, <2>1, ApartKept DEF r
<1>20. ASSUME NEW u \in Oids \ {o} PROVE Alike(stack[t], s, u)
  BY <1>8 DEF Alike
<1>21. Bare(policy, s)
  BY <1>6 DEF Bare
<1> QED BY <1>1, <1>3, <1>4, <1>15, <1>16, <1>17, <1>18, <1>19, <1>20, <1>21, Stepped

LEMMA Visits ==
  ASSUME IInv, crash = "no", NEW t \in Threads, Visit(t)
  PROVE  IInv'
<1> DEFINE f == Head(stack[t])
           rest == Tail(stack[t])
           e == "DoEtherealize" \in poa[f.poa]
<1>1. stack[t] # <<>> /\ f.at = "deactivate"
  BY DEF Visit, At
<1>2. /\ stack[t] \in Chains /\ rest \in Chains /\ f \in Frame /\ rest # <<>>
      /\ Locator(policy) => f \in Bares
  BY <1>1, AtWork DEF WorkKinds
<1>3. CASE Die("not_locked")
  BY <1>3, Dies DEF Crashes
<1>4. ASSUME NEW o \in f.todo, UNCHANGED <<policy, manager, poa, held, objref>>,
             DeactivateObject(t, o, obj[o], e,
               <<[f EXCEPT !.todo = @ \ {o}, !.inuse = found_in_use(@, obj[o])]>> \o rest)
      PROVE  IInv'
  <2> DEFINE g == [f EXCEPT !.todo = @ \ {o}, !.inuse = found_in_use(@, obj[o])]
             s == <<g>> \o rest
             r == obj[o]
  <2>1. o \in Oids /\ g \in Works
    BY <1>1, <1>2 DEF Frame, Works, WorkKinds, found_in_use
  <2>2. ~ Locator(policy)
    BY <1>1, <1>2, <1>4 DEF Bares
  <2> HIDE DEF g
  <2>3. s \in Chains /\ s \in Rests
    BY <1>2, <2>1, ChainPush DEF Rests
  <2>4. /\ r \in Object /\ stack \in Stacks /\ Core(policy, o, r, stack, objref[o], 0)
    BY <2>1, LiveServant
  <2>5. DeactivateObject(t, o, r, e, s)
    BY <1>4 DEF g
  <2> HIDE DEF s, r, e
  <2>6. \A u \in Oids : Alike(stack[t], s, u)
    BY <1>2, <2>3, ViewChain DEF Alike
  <2>7. Core(policy, o, r, [stack EXCEPT ![t] = s], objref[o], 0)
    BY <2>1, <2>4, <2>6, Elsewhere
  <2>8. Deferrable(policy, r)
    BY <2>2, <2>4 DEF Core, Pending, Deferrable
  <2>9. r.servant = obj[o].servant
    BY DEF r
  <2> QED BY <1>4, <2>1, <2>3, <2>4, <2>5, <2>6, <2>7, <2>8, <2>9, Deactivates DEF Core
<1> QED BY <1>3, <1>4 DEF Visit

LEMMA Visiteds ==
  ASSUME IInv, crash = "no", NEW t \in Threads, Visited(t)
  PROVE  IInv'
<1> DEFINE f == Head(stack[t])
           rest == Tail(stack[t])
<1>1. /\ stack[t] # <<>> /\ f.at = "deactivate" /\ TypeOK /\ stack \in Stacks
      /\ UNCHANGED <<policy, manager, held, objref>>
      /\ crash' \in {"wait", "no"}
  BY DEF Visited, At, IInv, TypeOK, Stacks
<1>2. /\ stack[t] \in Chains /\ rest \in Chains /\ f \in Frame /\ rest # <<>>
      /\ Bare(policy, rest)
  BY <1>1, AtWork DEF WorkKinds
<1>3. Tail(rest) \in Chains /\ Bare(policy, Tail(rest)) /\ f.poa \in Poas
  BY <1>1, <1>2, ChainPop, BareStacks DEF Frame
<1>4. PICK s \in Chains : Bare(policy, s) /\ stack' = [stack EXCEPT ![t] = s]
  <2>1. stack' = [stack EXCEPT ![t] = rest] \/ stack' = [stack EXCEPT ![t] = Tail(rest)]
    BY DEF Visited, goto
  <2> HIDE DEF rest
  <2> QED BY <1>2, <1>3, <2>1
<1>5. ASSUME NEW o \in Oids
      PROVE  \/ obj'[o] = obj[o]
             \/ obj[o].state = "dead" /\ obj'[o] = Absent
  BY <1>1 DEF Visited
<1>6. obj' \in [Oids -> Object]
  <2>1. Absent \in Object /\ \A o \in Oids : obj[o] \in Object
    BY <1>1 DEF TypeOK, Absent, Object
  <2>2. obj' = [o \in Oids |-> IF policy.retain /\ Home[o] = f.poa /\ obj[o].state = "dead"
                               THEN Absent ELSE obj[o]]
    BY DEF Visited
  <2> QED BY <2>1, <2>2
<1>7. poa' \in [Poas -> SUBSET Life]
  <2> DEFINE d == Head(rest).at = "destroy"
             done == IF f.inuse THEN {}
                     ELSE IF d THEN {"Deactivated", "Destroyed"} ELSE {"Deactivated"}
             left == IF d THEN {"Deactivating", "Destroying"} ELSE {"Deactivating"}
  <2>1. poa' = [poa EXCEPT ![f.poa] = (@ \ left) \cup done]
    BY DEF Visited
  <2>2. done \subseteq Life
    BY DEF Life
  <2> HIDE DEF done, left
  <2> QED BY <1>1, <1>3, <2>1, <2>2 DEF TypeOK
<1>8. lock' \in [Poas -> Threads \cup {Nobody}]
  <2>1. lock' = [lock EXCEPT ![f.poa] = IF f.locked THEN Nobody ELSE @]
    BY DEF Visited
  <2>2. lock[f.poa] \in Threads \cup {Nobody}
    BY <1>1, <1>3 DEF TypeOK
  <2> QED BY <1>1, <2>1, <2>2 DEF TypeOK
<1> HIDE DEF f, rest
<1>9. /\ Shaped(s) /\ s \in Seq(Frame)
      /\ s # <<>> => Head(s).at \notin {"method", "final"}
  <2>1. s \in Rests
    BY <1>4 DEF Rests
  <2> QED BY <2>1, RestShape
<1>10. TypeOK'
  <2>1. stack' \in [Threads -> Seq(Frame)]
    BY <1>1, <1>4, <1>9 DEF TypeOK
  <2> QED BY <1>1, <1>6, <1>7, <1>8, <2>1 DEF TypeOK
<1>11. Sound /\ FinalizedUnused
  BY <1>1, SoundUnused DEF IInv
<1>12. stack'[t] = s /\ \A u \in Threads \ {t} : stack'[u] = stack[u]
  BY <1>1, <1>4 DEF Stacks
<1>13. ASSUME NEW o \in Oids PROVE Core(policy, o, obj'[o], stack', objref[o], 0)
                                   /\ obj'[o].servant \in {obj[o].servant, NoServant}
  <2>1. Core(policy, o, obj[o], stack, objref[o], 0)
    BY <1>11 DEF Sound
  <2>2. Alike(stack[t], s, o)
    BY <1>2, <1>4, ViewChain DEF Alike
  <2>3. Core(policy, o, obj[o], stack', objref[o], 0)
    BY <1>1, <1>4, <2>1, <2>2, Elsewhere
  <2>4. CASE obj[o].state = "dead" /\ obj'[o] = Absent
    <3> DEFINE r == obj[o]
               a == [Absent EXCEPT !.state = r.state]
               q == obj'[o]
    <3>1. /\ a.servant = NoServant /\ a.use = 0 /\ a.refs = 0 /\ a.flags = {}
          /\ q.servant = NoServant /\ q.use = 0 /\ q.refs = 0 /\ q.flags = {}
          /\ q.state = "absent" /\ q = [Absent EXCEPT !.state = "absent"]
      BY <2>4 DEF Absent
    <3>2. r = a
      BY <2>3, <2>4 DEF Core, Present
    <3>3. r.servant = NoServant /\ r.use = 0 /\ r.refs = 0 /\ r.flags = {}
      BY <3>1, <3>2, Zenon
    <3> HIDE DEF q, r
    <3>4. Core(policy, o, r, stack', objref[o], 0) /\ r.state = "dead"
      BY <2>3, <2>4 DEF r
    <3>5. Present(o, q, stack', objref[o])
      BY <3>1, <3>4 DEF Core, Present
    <3>6. Pending(policy, q) /\ Kept(policy, o, q, stack')
      BY <3>1, <3>3, <3>4 DEF Core, Pending, Kept
    <3>7. Balanced(policy, o, q, stack', objref[o], 0)
      BY <3>1, <3>3, <3>4 DEF Core, Balanced, Active
    <3>8. q.use = Cardinality(Using(stack', o))
      BY <3>1, <3>3, <3>4 DEF Core
    <3> QED BY <3>1, <3>5, <3>6, <3>7, <3>8 DEF Core, q
  <2> QED BY <1>5, <2>3, <2>4
<1>14. Apart(policy, obj', stack')
  <2> SUFFICES ASSUME policy.process # "default"
               PROVE  Apart(policy, obj', stack')
    BY DEF Apart
  <2>1. \A o, p \in Oids : obj'[o].servant = obj'[p].servant /\ obj'[o].servant # NoServant => o = p
    BY <1>11, <1>13 DEF Sound, Apart
  <2>2. ASSUME NEW u \in Threads, NEW o \in Oids, stack'[u] # <<>>, Head(stack'[u]).at = "final"
        PROVE  obj'[o].servant # Head(stack'[u]).servant
    <3>1. stack'[u] = stack[u] /\ stack[u] \in Seq(Frame)
      BY <1>1, <1>9, <1>12, <2>2 DEF Stacks
    <3>2. Head(stack[u]) \in Frame
      BY <2>2, <3>1, HeadTailProperties
    <3>3. Head(stack[u]).servant # NoServant
      BY <2>2, <3>1, <3>2, ServantsAssumption DEF Frame, AllServants
    <3>4. obj[o].servant # Head(stack[u]).servant
      BY <1>11, <2>2, <3>1 DEF Sound, Apart
    <3> QED BY <1>13, <3>1, <3>3, <3>4
  <2> QED BY <2>1, <2>2 DEF Apart
<1>15. \A u \in Threads : Bare(policy, stack'[u]) /\ Shaped(stack'[u])
  BY <1>4, <1>9, <1>11, <1>12 DEF IInv, Sound
<1>16. Sound'
  BY <1>1, <1>13, <1>14, <1>15 DEF Sound
<1>17. FinalizedUnused'
  BY <1>1, <1>4, <1>9, <1>11, StaysUnused
<1> QED BY <1>10, <1>15, <1>16, <1>17 DEF IInv

-----------------------------------------------------------------------------
(* Methods.                                                                *)

LEMMA Methods ==
  ASSUME NEW o \in Oids, NEW kind \in {"local", "remote"}, NEW sv \in AllServants
  PROVE  LET f == running("method", o, kind, sv)
         IN /\ f \in Frame /\ f.at = "method" /\ f.oid = o /\ f.kind = kind /\ f.servant = sv
            /\ <<f>> \in Seq(Frame) /\ Of(<<f>>, o) /\ Head(<<f>>) = f
            /\ UseOf(<<f>>, o) /\ ~ FinalOf(<<f>>, o) /\ RefOf(<<f>>, o)
            /\ HoldOf(<<f>>, o) <=> kind = "remote"
<1> DEFINE f == running("method", o, kind, sv)
<1>1. f \in Frame /\ f.at = "method" /\ f.oid = o /\ f.kind = kind /\ f.servant = sv
  BY DEF running, Frame
<1> HIDE DEF f
<1>2. f \in Refers(o) /\ (f \in Holds(o) <=> kind = "remote")
  BY <1>1 DEF Refers, Holds
<1>3. <<f>> \in Seq(Frame) /\ Of(<<f>>, o) /\ Head(<<f>>) = f
  BY <1>1, Alone DEF Of, LeafKinds
<1>4. /\ UseOf(<<f>>, o) /\ ~ FinalOf(<<f>>, o) /\ RefOf(<<f>>, o)
      /\ HoldOf(<<f>>, o) <=> kind = "remote"
  BY <1>1, <1>2, ViewAlone
<1> QED BY <1>1, <1>3, <1>4 DEF f

LEMMA Invokes ==
  ASSUME IInv, crash = "no", NEW t \in Threads, NEW o \in Oids,
         NEW kind \in {"local", "remote"}, NEW r \in Object, Invoke(t, o, kind, r),
         r.state = "live", r.servant \in AllServants,
         Core(policy, o, r, stack, objref[o], 0), Of(stack[t], o),
         ~ UseOf(stack[t], o), HoldOf(stack[t], o) <=> kind = "remote",
         \/ r.servant = obj[o].servant
         \/ r.servant \notin Incarnating \cup Finalizing
         \/ policy.process = "default"
  PROVE  IInv'
<1> DEFINE f == running("method", o, kind, r.servant)
           s == <<f>>
           q == used(r)
           sk == [stack EXCEPT ![t] = s]
<1>1. TypeOK /\ stack \in Stacks /\ objref[o] \in BOOLEAN
  BY DEF IInv, TypeOK, Stacks
<1>2. /\ f \in Frame /\ f.at = "method" /\ f.oid = o /\ f.kind = kind
      /\ f.servant = r.servant
      /\ s \in Seq(Frame) /\ Of(s, o) /\ Head(s) = f
      /\ UseOf(s, o) /\ ~ FinalOf(s, o) /\ RefOf(s, o)
      /\ HoldOf(s, o) <=> kind = "remote"
  BY Methods
<1>3. /\ q \in Object /\ q.state = "live" /\ q.servant = r.servant /\ q.use = r.use + 1
      /\ q.refs = r.refs /\ q.flags = r.flags /\ r.use \in Nat
  BY DEF used, Object
<1>4. /\ obj' = [obj EXCEPT ![o] = q] /\ stack' = sk
      /\ UNCHANGED <<policy, manager, poa, held, lock, objref, crash>>
  BY DEF Invoke, goto
<1>5. sk[t] = s /\ \A u \in Threads \ {t} : sk[u] = stack[u]
  BY <1>1 DEF Stacks
<1> HIDE DEF f, s, q
<1>6. /\ Cardinality(Using(sk, o)) = r.use + 1
      /\ Cardinality(Holding(sk, o)) = Cardinality(Holding(stack, o))
  <2> DEFINE a == Cardinality(Using(stack, o))
             b == Cardinality(Using(sk, o))
             c == Cardinality(Holding(stack, o))
             d == Cardinality(Holding(sk, o))
             i == One(HoldOf(stack[t], o))
             j == One(HoldOf(s, o))
  <2>1. /\ a \in Nat /\ c \in Nat
        /\ b = a - One(UseOf(stack[t], o)) + One(UseOf(s, o)) /\ d = c - i + j
    BY <1>1, Recounted
  <2>2. One(UseOf(stack[t], o)) = 0 /\ One(UseOf(s, o)) = 1 /\ i = j /\ i \in Int
    BY <1>2 DEF One
  <2>3. a = r.use
    BY DEF Core
  <2> HIDE DEF a, b, c, d, i, j
  <2>4. b = r.use + 1 /\ d = c
    BY <2>1, <2>2, <2>3
  <2> QED BY <2>4 DEF b, c, d
<1> HIDE DEF sk
<1>7. Ending(sk, o) = Ending(stack, o)
  <2>1. ~ FinalOf(stack[t], o)
    BY DEF FinalOf, UseOf
  <2> QED BY <1>2, <1>5, <2>1 DEF Ending
<1>8. Core(policy, o, q, sk, objref[o], 0)
  <2>1. Present(o, q, sk, objref[o])
    BY <1>3 DEF Present
  <2>2. Pending(policy, q)
    BY <1>3 DEF Core, Pending
  <2>3. Kept(policy, o, q, sk)
    <3>1. \A u \in Using(sk, o) \ {t} : u \in Using(stack, o) /\ sk[u] = stack[u]
      BY <1>5 DEF Using
    <3> QED BY <1>2, <1>3, <1>5, <3>1 DEF Core, Kept
  <2>4. Balanced(policy, o, q, sk, objref[o], 0)
    BY <1>3, <1>6, <1>7 DEF Core, Balanced, Active
  <2> QED BY <1>3, <1>6, <2>1, <2>2, <2>3, <2>4 DEF Core
<1>9. TypeOK' /\ obj'[o] = q /\ \A u \in Oids \ {o} : obj'[u] = obj[u]
  <2>1. stack' \in [Threads -> Seq(Frame)]
    BY <1>1, <1>2, <1>4 DEF TypeOK, sk
  <2> QED BY <1>1, <1>3, <1>4, <2>1 DEF TypeOK
<1> QED BY <1>1, <1>2, <1>3, <1>4, <1>8, <1>9, Calling DEF sk

LEMMA Incarnates ==
  ASSUME IInv, crash = "no", NEW o \in Oids, obj[o].servant = NoServant,
         obj[o].state = "live", NEW sv \in AllServants, policy.process # "map"
  PROVE  LET q == Incarnate(obj[o], sv)
         IN /\ q \in Object /\ q.state = "live" /\ q.servant = sv
            /\ Core(policy, o, q, stack, objref[o], 0)
<1> DEFINE r == obj[o]
           q == Incarnate(r, sv)
<1>1. r \in Object /\ Core(policy, o, r, stack, objref[o], 0) /\ stack \in Stacks
  BY LiveServant
<1>2. /\ q \in Object /\ q.state = "live" /\ q.servant = sv /\ q.use = r.use
      /\ q.flags = r.flags
  <2>1. r.refs \in Nat /\ r.refs + 1 \in Nat
    BY <1>1 DEF Object
  <2> HIDE DEF r
  <2>2. /\ q \in Object /\ q.state = r.state /\ q.servant = sv /\ q.use = r.use
        /\ q.flags = r.flags
    BY <1>1, <2>1 DEF Incarnate, Object
  <2> QED BY <2>2 DEF r
<1> HIDE DEF q
<1>3. Kept(policy, o, q, stack)
  <2> SUFFICES ASSUME ~ Locator(policy), NEW t \in Using(stack, o),
                      Head(stack[t]).at = "method"
               PROVE  FALSE
    BY DEF Kept
  <2>1. stack[t] \in Seq(Frame) /\ stack[t] # <<>>
    BY <1>1 DEF Using, UseOf, Stacks
  <2>2. Head(stack[t]) \in Frame
    BY <2>1, HeadTailProperties
  <2>3. Head(stack[t]).servant \in AllServants
    BY <2>2 DEF Frame
  <2>4. r.servant = Head(stack[t]).servant
    BY <1>1 DEF Core, Kept
  <2> QED BY <2>3, <2>4, ServantsAssumption DEF AllServants
<1>4. Present(o, q, stack, objref[o]) /\ Pending(policy, q)
  BY <1>1, <1>2 DEF Core, Present, Pending
<1>5. Balanced(policy, o, q, stack, objref[o], 0)
  BY DEF Balanced
<1>6. q.use = Cardinality(Using(stack, o))
  BY <1>1, <1>2 DEF Core
<1> QED BY <1>2, <1>3, <1>4, <1>5, <1>6 DEF Core, q

LEMMA Handles ==
  ASSUME IInv, crash = "no", NEW t \in Threads, NEW o \in Oids,
         NEW kind \in {"remote", "local"}, HandleRequest(t, o, kind)
  PROVE  IInv'
<1> DEFINE r == obj[o]
<1>1. CASE \E why \in {"reactivated", "null_servant"} : Die(why)
  BY <1>1, Dies DEF Crashes
<1>2. /\ r \in Object /\ Core(policy, o, r, stack, objref[o], 0)
      /\ r.state = "live" /\ Of(stack[t], o) /\ ~ UseOf(stack[t], o)
      /\ HoldOf(stack[t], o) <=> kind = "remote"
  <2>1. CASE kind = "remote" /\ On(t, "request", o)
    <3>1. stack[t] # <<>> /\ Head(stack[t]).at = "request" /\ Head(stack[t]).oid = o
      BY <2>1 DEF On, At
    <3>2. HoldOf(stack[t], o) <=> \/ Head(stack[t]).at \in {"request", "release"}
                                  \/ Head(stack[t]).at = "method" /\ Head(stack[t]).kind = "remote"
      BY <3>1, CallKnows
    <3> QED BY <2>1, <3>1, <3>2, CallKnows
  <2>2. CASE kind = "local" /\ stack[t] = <<>> /\ objref[o]
    <3>1. r \in Object /\ Core(policy, o, r, stack, objref[o], 0)
      BY LiveServant
    <3>2. r.state = "live"
      BY <2>2, <3>1 DEF Core, Present
    <3> QED BY <2>2, <3>1, <3>2, ViewEmpty DEF Of
  <2> QED BY <2>1, <2>2 DEF HandleRequest
<1>3. CASE r.servant # NoServant /\ Invoke(t, o, kind, r)
  <2>1. r.servant \in AllServants
    BY <1>2, <1>3 DEF Object
  <2> QED BY <1>2, <1>3, <2>1, Invokes
<1>4. ASSUME r.servant = NoServant, policy.process \in {"default", "manager"},
             NEW sv \in AllServants, Invoke(t, o, kind, Incarnate(r, sv)),
             sv \notin Incarnating \cup Finalizing \/ policy.process = "default"
      PROVE  IInv'
  <2> DEFINE q == Incarnate(r, sv)
  <2>1. /\ q \in Object /\ q.state = "live" /\ q.servant = sv
        /\ Core(policy, o, q, stack, objref[o], 0)
    BY <1>2, <1>4, Incarnates
  <2>2. Invoke(t, o, kind, q)
    BY <1>4
  <2> HIDE DEF q, r
  <2> QED BY <1>2, <1>4, <2>1, <2>2, Invokes
<1>5. \/ \E why \in {"reactivated", "null_servant"} : Die(why)
      \/ r.servant # NoServant /\ Invoke(t, o, kind, r)
      \/ /\ r.servant = NoServant /\ policy.process = "default"
         /\ Invoke(t, o, kind, Incarnate(r, DefaultServant))
      \/ /\ r.servant = NoServant /\ policy.process = "manager"
         /\ \E s \in Servants \ (Incarnating \cup Finalizing) :
              Invoke(t, o, kind, Incarnate(r, s))
  BY DEF HandleRequest
<1>6. DefaultServant \in AllServants /\ Servants \subseteq AllServants
  BY DEF AllServants
<1> HIDE DEF r
<1> QED BY <1>1, <1>3, <1>4, <1>5, <1>6

(* What the end of a method leaves to do on its object. *)
LEMMA Returning ==
  ASSUME IInv, crash = "no", NEW t \in Threads, stack[t] # <<>>, Head(stack[t]).at = "method",
         NEW o, o = Head(stack[t]).oid, NEW q \in Object,
         q.state = "live", q.servant = obj[o].servant, q.refs = obj[o].refs,
         q.use = obj[o].use - 1
  PROVE  LET sk == [stack EXCEPT ![t] = After(t)]
         IN /\ After(t) \in Rests /\ Of(After(t), o) /\ ~ UseOf(After(t), o)
            /\ After(t) # <<>> => Head(After(t)).at = "release"
            /\ ~ Locator(policy) => q.servant # NoServant
            /\ Present(o, q, sk, objref[o]) /\ q.use = Cardinality(Using(sk, o))
            /\ Kept(policy, o, q, sk) /\ Balanced(policy, o, q, sk, objref[o], 0)
<1> DEFINE f == Head(stack[t])
           r == obj[o]
           s == After(t)
           sk == [stack EXCEPT ![t] = s]
<1>1. stack \in Stacks /\ f.at = "method" /\ f.oid = o
  BY DEF IInv, TypeOK, Stacks
<1>2. /\ o \in Oids /\ f \in Frame /\ r \in Object
      /\ Core(policy, o, r, stack, objref[o], 0)
      /\ UseOf(stack[t], o)
  BY <1>1, CallKnows
<1>3. HoldOf(stack[t], o) <=> f.kind = "remote"
  <2>1. HoldOf(stack[t], o) <=> \/ f.at \in {"request", "release"}
                                \/ f.at = "method" /\ f.kind = "remote"
    BY <1>1, CallKnows
  <2> QED BY <1>1, <2>1
<1>4. f.kind \in {"local", "remote"} /\ f.servant \in AllServants
  BY <1>1, <1>2 DEF Frame
<1>5. /\ s \in Rests /\ Of(s, o) /\ ~ UseOf(s, o) /\ ~ FinalOf(s, o)
      /\ s # <<>> => Head(s).at = "release"
      /\ HoldOf(s, o) <=> f.kind = "remote"
  <2>1. CASE f.kind = "local"
    <3>1. s = <<>>
      BY <1>1, <2>1 DEF After, At
    <3> QED BY <2>1, <3>1, ChainFrames, ViewEmpty DEF Rests, Of
  <2>2. CASE f.kind = "remote"
    <3> DEFINE g == frame("release", o)
    <3>1. s = <<g>>
      BY <1>1, <2>2 DEF After, At
    <3>2. /\ g \in Frame /\ g.at = "release" /\ g.oid = o
          /\ <<g>> \in Seq(Frame) /\ Of(<<g>>, o) /\ Head(<<g>>) = g
          /\ ~ UseOf(<<g>>, o) /\ RefOf(<<g>>, o)
          /\ HoldOf(<<g>>, o) <=> "release" # "found"
      BY <1>2, Calls1
    <3>3. ~ FinalOf(<<g>>, o)
      BY <3>2 DEF FinalOf, UseOf
    <3>4. <<g>> \in Rests
      BY <3>2 DEF Rests
    <3> HIDE DEF g
    <3> QED BY <2>2, <3>1, <3>2, <3>3, <3>4
  <2> QED BY <1>4, <2>1, <2>2
<1> HIDE DEF s
<1>6. sk[t] = s /\ \A u \in Threads \ {t} : sk[u] = stack[u]
  BY <1>1 DEF Stacks
<1>7. /\ Cardinality(Using(sk, o)) = r.use - 1
      /\ Cardinality(Holding(sk, o)) = Cardinality(Holding(stack, o))
  <2> DEFINE a == Cardinality(Using(stack, o))
             b == Cardinality(Using(sk, o))
             c == Cardinality(Holding(stack, o))
             d == Cardinality(Holding(sk, o))
             i == One(HoldOf(stack[t], o))
             j == One(HoldOf(s, o))
  <2>1. /\ a \in Nat /\ c \in Nat
        /\ b = a - One(UseOf(stack[t], o)) + One(UseOf(s, o)) /\ d = c - i + j
    BY <1>1, Recounted
  <2>2. One(UseOf(stack[t], o)) = 1 /\ One(UseOf(s, o)) = 0 /\ i = j /\ i \in Int
    BY <1>2, <1>3, <1>5 DEF One
  <2>3. a = r.use
    BY <1>2 DEF Core
  <2> HIDE DEF a, b, c, d, i, j
  <2>4. b = r.use - 1 /\ d = c
    BY <2>1, <2>2, <2>3
  <2> QED BY <2>4 DEF b, c, d
<1> HIDE DEF sk
<1>8. Ending(sk, o) = Ending(stack, o)
  <2>1. ~ FinalOf(stack[t], o)
    BY <1>1 DEF FinalOf
  <2> QED BY <1>5, <1>6, <2>1 DEF Ending
<1>9. ~ Locator(policy) => q.servant # NoServant
  <2>1. t \in Using(stack, o)
    BY <1>2 DEF Using
  <2>2. ~ Locator(policy) => r.servant = f.servant
    BY <1>1, <1>2, <2>1 DEF Core, Kept
  <2> QED BY <1>4, <2>2, ServantsAssumption DEF AllServants
<1>10. Present(o, q, sk, objref[o])
  BY DEF Present
<1>11. Kept(policy, o, q, sk)
  <2>1. \A u \in Using(sk, o) : u \in Using(stack, o) /\ sk[u] = stack[u]
    BY <1>5, <1>6 DEF Using
  <2> QED BY <1>2, <2>1 DEF Core, Kept
<1>12. Balanced(policy, o, q, sk, objref[o], 0)
  BY <1>2, <1>7, <1>8 DEF Core, Balanced, Active
<1> QED BY <1>5, <1>7, <1>9, <1>10, <1>11, <1>12 DEF s, sk

LEMMA Returns ==
  ASSUME IInv, crash = "no", NEW t \in Threads, MethodReturns(t)
  PROVE  IInv'
<1> DEFINE o == Head(stack[t]).oid
           x == IF ~ policy.retain /\ policy.process = "default" /\ obj[o].servant # NoServant
                THEN {"DeactivateDo", "NeedPostInvoke"} ELSE {}
           r == [obj[o] EXCEPT !.use = @ - 1, !.flags = @ \cup x]
           s == After(t)
           sk == [stack EXCEPT ![t] = s]
<1>1. stack[t] # <<>> /\ Head(stack[t]).at = "method" /\ TypeOK /\ stack \in Stacks
  BY DEF MethodReturns, At, IInv, TypeOK, Stacks
<1>2. /\ o \in Oids /\ Of(stack[t], o) /\ UseOf(stack[t], o)
      /\ obj[o] \in Object /\ obj[o].state = "live" /\ objref[o] \in BOOLEAN
      /\ Core(policy, o, obj[o], stack, objref[o], 0)
  BY <1>1, CallKnows
<1>3. x \subseteq {"DeactivateDo", "NeedPostInvoke"} /\ (Locator(policy) => x = {})
      /\ (x # {} => x = {"DeactivateDo", "NeedPostInvoke"})
  BY DEF Locator
<1>4. \/ \E why \in {"null_servant"} : Die(why)
      \/ /\ Locator(policy) /\ stack' = sk
         /\ UNCHANGED <<policy, manager, poa, held, lock, objref>>
         /\ Unref(o, [r EXCEPT !.servant = NoServant])
      \/ /\ ~ Locator(policy) /\ {"NeedPostInvoke", "DeactivateDo"} \subseteq r.flags
         /\ UNCHANGED <<policy, manager, poa, held, objref>>
         /\ DeactivateObject(t, o, r, FALSE, s)
      \/ /\ ~ Locator(policy)
         /\ ~ (r.use = 0 /\ {"NeedPostInvoke", "DeactivateDo"} \subseteq r.flags)
         /\ obj' = [obj EXCEPT ![o] = r] /\ stack' = sk
         /\ UNCHANGED <<policy, manager, poa, held, lock, objref, crash>>
  BY DEF MethodReturns, Locator, goto
<1>5. obj[o].use \in Nat /\ obj[o].use # 0
  <2>1. Using(stack, o) \in SUBSET Threads /\ t \in Using(stack, o)
    BY <1>2 DEF Using
  <2>2. Cardinality(Using(stack, o)) # 0
    BY <2>1, Someone
  <2> QED BY <1>2, <2>2 DEF Core, Object
<1> HIDE DEF x, o
<1>6. /\ r \in Object /\ r.state = "live" /\ r.servant = obj[o].servant
      /\ r.refs = obj[o].refs /\ r.use = obj[o].use - 1 /\ r.flags = obj[o].flags \cup x
  <2>1. obj[o].use - 1 \in Nat
    BY <1>5
  <2> QED BY <1>2, <1>3, <2>1 DEF Object
<1>7. o = Head(stack[t]).oid
  BY DEF o
<1> HIDE DEF r
<1>8. /\ s \in Rests /\ Of(s, o) /\ ~ UseOf(s, o)
      /\ s # <<>> => Head(s).at = "release"
      /\ ~ Locator(policy) => r.servant # NoServant
      /\ Present(o, r, sk, objref[o]) /\ r.use = Cardinality(Using(sk, o))
      /\ Kept(policy, o, r, sk) /\ Balanced(policy, o, r, sk, objref[o], 0)
  BY <1>1, <1>6, <1>7, Returning
<1> HIDE DEF s
<1>9. s \in Seq(Frame) /\ sk \in Stacks
  <2>1. s \in Seq(Frame)
    BY <1>8, RestShape
  <2> QED BY <1>1, <2>1 DEF Stacks
<1>10. Pending(policy, obj[o])
  BY <1>2 DEF Core
<1>11. CASE \E why \in {"null_servant"} : Die(why)
  BY <1>11, Dies DEF Crashes
<1>12. CASE /\ Locator(policy) /\ stack' = sk
            /\ UNCHANGED <<policy, manager, poa, held, lock, objref>>
            /\ Unref(o, [r EXCEPT !.servant = NoServant])
  <2> DEFINE q == [r EXCEPT !.servant = NoServant]
  <2>1. /\ q \in Object /\ q.state = "live" /\ q.servant = NoServant
        /\ q.use = r.use /\ q.flags = r.flags
    BY <1>6 DEF Object
  <2> HIDE DEF q
  <2>2. Present(o, q, sk, objref[o]) /\ Kept(policy, o, q, sk)
    BY <1>12, <2>1 DEF Present, Kept
  <2>3. Pending(policy, q)
    BY <1>3, <1>6, <1>10, <1>12, <2>1 DEF Pending
  <2>4. Balanced(policy, o, q, sk, objref[o], 1) /\ policy.process # "default"
    BY <1>12 DEF Balanced, Locator
  <2>5. Core(policy, o, q, sk, objref[o], 1)
    BY <1>8, <2>1, <2>2, <2>3, <2>4 DEF Core
  <2>6. Unref(o, q)
    BY <1>12 DEF q
  <2>7. /\ crash' \in Crashes /\ obj' \in [Oids -> Object]
        /\ \A u \in Oids \ {o} : obj'[u] = obj[u]
    BY <1>1, <1>2, <2>1, <2>6, UnrefType
  <2>8. TypeOK'
    <3>1. stack' \in [Threads -> Seq(Frame)]
      BY <1>9, <1>12 DEF Stacks
    <3> QED BY <1>1, <1>12, <2>7, <3>1 DEF TypeOK, Crashes
  <2> HIDE DEF sk
  <2>9. crash' = "no" => /\ obj'[o].servant = NoServant
                         /\ Core(policy, o, obj'[o], stack', objref[o], 0)
    <3>1. objref'[o] = objref[o]
      BY <1>12
    <3> QED BY <1>1, <1>2, <1>9, <1>12, <2>1, <2>5, <2>6, <3>1, UnrefCore
  <2> QED BY <1>2, <1>8, <1>12, <2>7, <2>8, <2>9, Calling DEF sk
<1>13. CASE /\ ~ Locator(policy) /\ {"NeedPostInvoke", "DeactivateDo"} \subseteq r.flags
            /\ UNCHANGED <<policy, manager, poa, held, objref>>
            /\ DeactivateObject(t, o, r, FALSE, s)
  <2>1. Deferrable(policy, r)
    BY <1>8, <1>13 DEF Deferrable
  <2>2. \A u \in Oids \ {o} : Alike(stack[t], s, u)
    BY <1>2, <1>8, OfOne DEF Alike
  <2> QED BY <1>2, <1>6, <1>8, <1>13, <2>1, <2>2, Deactivates
<1>14. CASE /\ ~ Locator(policy)
            /\ ~ (r.use = 0 /\ {"NeedPostInvoke", "DeactivateDo"} \subseteq r.flags)
            /\ obj' = [obj EXCEPT ![o] = r] /\ stack' = sk
            /\ UNCHANGED <<policy, manager, poa, held, lock, objref, crash>>
  <2>1. Pending(policy, r)
    <3>1. r.use \in Nat
      BY <1>6 DEF Object
    <3>2. "DeactivateDo" \in r.flags => "NeedPostInvoke" \in r.flags
      BY <1>3, <1>6, <1>10 DEF Pending
    <3>3. "DeactivateDo" \in r.flags => r.use # 0
      BY <1>14, <3>2
    <3> QED BY <1>14, <3>1, <3>2, <3>3 DEF Pending
  <2>2. Core(policy, o, r, sk, objref[o], 0)
    BY <1>8, <2>1 DEF Core
  <2>3. /\ obj' \in [Oids -> Object] /\ obj'[o] = r /\ \A u \in Oids \ {o} : obj'[u] = obj[u]
    BY <1>2, <1>6, <1>14, Replaced
  <2>4. TypeOK'
    <3>1. stack' \in [Threads -> Seq(Frame)]
      BY <1>9, <1>14 DEF Stacks
    <3> QED BY <1>1, <1>14, <2>3, <3>1 DEF TypeOK
  <2> QED BY <1>2, <1>6, <1>8, <1>14, <2>2, <2>3, <2>4, Calling
<1> QED BY <1>4, <1>11, <1>12, <1>13, <1>14

-----------------------------------------------------------------------------
LEMMA InitIInv == Init => IInv
<1> SUFFICES ASSUME Init PROVE IInv
  OBVIOUS
<1>1. Absent \in Object /\ <<>> \in Seq(Frame)
  BY DEF Absent, Object
<1>2. TypeOK
  BY <1>1 DEF Init, TypeOK
<1>3. \A t \in Threads : stack[t] = <<>>
  BY DEF Init
<1>4. \A t \in Threads : Shaped(stack[t]) /\ Bare(policy, stack[t])
  BY <1>3, EmptyShape
<1>5. ASSUME NEW o \in Oids PROVE Core(policy, o, obj[o], stack, objref[o], 0)
  <2> DEFINE r == obj[o]
  <2>1. /\ r.state = "absent" /\ r.servant = NoServant /\ r.use = 0 /\ r.refs = 0
        /\ r.flags = {} /\ r = [Absent EXCEPT !.state = "absent"] /\ objref[o] = FALSE
    <3> DEFINE a == [Absent EXCEPT !.state = "absent"]
    <3>1. /\ a \in Object /\ a.state = "absent" /\ a.servant = NoServant /\ a.use = 0
          /\ a.refs = 0 /\ a.flags = {}
          /\ Absent.state = "absent" /\ Absent.servant = NoServant /\ Absent.use = 0
          /\ Absent.refs = 0 /\ Absent.flags = {}
      BY DEF Absent, Object
    <3> HIDE DEF a
    <3>2. a = Absent
      BY <1>1, <3>1 DEF Object
    <3>3. r = Absent /\ objref[o] = FALSE
      BY DEF Init
    <3> HIDE DEF r
    <3> QED BY <3>1, <3>2, <3>3 DEF a
  <2> HIDE DEF r
  <2>2. stack \in Stacks /\ ~ (\E t \in Threads : RefOf(stack[t], o))
    BY <1>2, <1>3, ViewEmpty DEF Stacks, TypeOK
  <2>3. /\ Cardinality(Using(stack, o)) = 0 /\ Cardinality(Holding(stack, o)) = 0
        /\ Using(stack, o) = {} /\ Ending(stack, o) = {}
    BY <2>2, Unused
  <2>4. Present(o, r, stack, objref[o]) /\ Pending(policy, r) /\ Kept(policy, o, r, stack)
    BY <2>1, <2>2, <2>3 DEF Present, Pending, Kept
  <2>5. Balanced(policy, o, r, stack, objref[o], 0)
    BY <2>1, <2>3 DEF Balanced, Active, One
  <2> QED BY <2>1, <2>3, <2>4, <2>5 DEF Core, r
<1>6. Apart(policy, obj, stack)
  <2>1. \A o \in Oids : obj[o].servant = NoServant
    BY DEF Init, Absent
  <2> QED BY <1>3, <2>1 DEF Apart
<1>7. Sound
  BY <1>4, <1>5, <1>6 DEF Sound
<1> QED BY <1>2, <1>4, <1>7 DEF Init, IInv

LEMMA NextIInv == IInv /\ [Next]_vars => IInv'
<1> SUFFICES ASSUME IInv, [Next]_vars PROVE IInv'
  OBVIOUS
<1>1. CASE UNCHANGED vars
  <2>1. TypeOK'
    BY <1>1 DEF IInv, TypeOK, vars
  <2>2. crash = "no" => Sound'
    BY <1>1 DEF IInv, Sound, vars
  <2>3. crash # "no" => FinalizedUnused'
    BY <1>1 DEF IInv, FinalizedUnused, At, vars
  <2> QED BY <1>1, <2>1, <2>2, <2>3 DEF IInv, vars
<1>2. ASSUME Next PROVE IInv'
  <2>1. crash = "no"
    BY <1>2 DEF Next
  <2>2. ASSUME NEW t \in Threads, NEW o \in Oids,
               \/ \E s \in Servants : Activate(t, o, s)
               \/ Deactivate(t, o) \/ CreateReference(t, o) \/ Lookup(t, o)
               \/ CallDirect(t, o)
               \/ \E kind \in {"remote", "local"} : HandleRequest(t, o, kind)
        PROVE  IInv'
    BY <2>1, <2>2, Activates, DeactivatesOne, Creates, LooksUp, Direct, Handles
  <2>3. ASSUME NEW o \in Oids, ReleaseReference(o) PROVE IInv'
    BY <2>1, <2>3, ReleasesReference
  <2>4. ASSUME NEW t \in Threads,
               \/ Found(t) \/ Refuse(t) \/ MethodReturns(t)
               \/ DirectReturns(t) \/ Release(t) \/ FinalizerReturns(t)
        PROVE  IInv'
    BY <2>1, <2>4, Finds, Refuses, Returns, Direct, Releases, FinalizerEnds
  <2>5. ASSUME NEW t \in Threads,
               \/ Visit(t) \/ Visited(t) \/ DestroyChild(t) \/ DestroySelf(t)
               \/ DeactivateNext(t) \/ ManagerReturns(t)
        PROVE  IInv'
    BY <2>1, <2>5, Visits, Visiteds, DestroysChild, DestroysSelf, ManagerGoesOn
  <2>6. ASSUME NEW t \in Threads, NEW etherealize \in BOOLEAN, NEW wait \in BOOLEAN,
               \/ ManagerDeactivate(t, etherealize, wait)
               \/ \E p \in Poas : Destroy(t, p, etherealize, wait)
        PROVE  IInv'
    BY <2>1, <2>6, ManagerDeactivates, Destroys
  <2>7. CASE ManagerActivate \/ \E state \in {"HOLDING", "DISCARDING"} : ManagerTurns(state)
    BY <2>1, <2>7, Manages
  <2> QED BY <1>2, <2>2, <2>3, <2>4, <2>5, <2>6, <2>7 DEF Next
<1> QED BY <1>1, <1>2

LEMMA Invariant == Spec => []IInv
BY InitIInv, NextIInv, PTL DEF Spec

(* The objects' counts never fall below zero, every frame on a stack is    *)
(* one the code can come back to, and the lock of a POA is held by a       *)
(* thread or by nobody (poa.c).                                            *)
THEOREM TypeCorrect == Spec => []TypeOK
<1>1. IInv => TypeOK
  BY DEF IInv
<1> QED BY <1>1, Invariant, PTL

(* A method that was called through the POA runs with the servant of its   *)
(* object: deactivation is put off while the object is used                *)
(* (MateCORBA_POA_deactivate_object_T, use_cnt).                           *)
THEOREM CallsKeepTheirServant == Spec => []CallsKeepServant
<1>1. IInv => CallsKeepServant
  <2> SUFFICES ASSUME IInv, crash = "no", policy.retain \/ policy.process = "default",
                      NEW t \in Threads, At(t, "method")
               PROVE  obj[Head(stack[t]).oid].servant = Head(stack[t]).servant
    BY DEF CallsKeepServant
  <2>1. stack[t] # <<>> /\ Head(stack[t]).at = "method"
    BY DEF At
  <2> DEFINE o == Head(stack[t]).oid
  <2>2. Core(policy, o, obj[o], stack, objref[o], 0) /\ UseOf(stack[t], o)
    BY <2>1, CallKnows
  <2>3. t \in Using(stack, o) /\ ~ Locator(policy)
    BY <2>2 DEF Using, Locator
  <2> HIDE DEF o
  <2>4. obj[o].servant = Head(stack[t]).servant
    BY <2>1, <2>2, <2>3 DEF Core, Kept
  <2> QED BY <2>4 DEF o
<1> QED BY <1>1, Invariant, PTL

(* No method that was called through the POA runs in a servant that is     *)
(* finalized (etherealize_servant calls the finalizer, which may free it). *)
THEOREM FinalizedNotUsed == Spec => []FinalizedUnused
<1>1. IInv => FinalizedUnused
  BY SoundUnused DEF IInv
<1> QED BY <1>1, Invariant, PTL

(* A deactivation that was put off has a call or a finalizer that finishes *)
(* it when it returns (need_post_invoke).                                  *)
THEOREM DeactivationNotForgotten == Spec => []DeactivationPending
<1>1. IInv => DeactivationPending
  <2> SUFFICES ASSUME IInv, crash = "no", NEW o \in Oids, "DeactivateDo" \in obj[o].flags
               PROVE  Calls(o) \cup Finalizers(o) # {}
    BY DEF DeactivationPending
  <2>1. Core(policy, o, obj[o], stack, objref[o], 0)
    BY LiveServant
  <2>2. Using(stack, o) # {}
    <3>1. Using(stack, o) \in SUBSET Threads /\ Cardinality(Using(stack, o)) > 0
      BY <2>1 DEF Using, Core, Pending
    <3> QED BY <3>1, Someone
  <2>3. PICK t \in Using(stack, o) : TRUE
    BY <2>2
  <2>4. t \in Calls(o) \/ t \in Finalizers(o)
    BY <2>3 DEF Using, UseOf, Calls, Finalizers, On, At
  <2> QED BY <2>4
<1> QED BY <1>1, Invariant, PTL

(* Where only active objects are called, the references of an object are   *)
(* those of the application, of its activation and of the requests in      *)
(* progress (MateCORBA_RootObject_duplicate_T, release_T).                 *)
THEOREM ReferencesCounted == Spec => []RefsCounted
<1>1. IInv => RefsCounted
  <2> SUFFICES ASSUME IInv, crash = "no", policy.process = "map", NEW o \in Oids
               PROVE  obj[o].refs =
                 Cardinality({t \in Threads : \E i \in DOMAIN stack[t] :
                   /\ stack[t][i].at \in {"request", "method", "release"}
                   /\ stack[t][i].oid = o
                   /\ stack[t][i].at = "method" => stack[t][i].kind = "remote"})
                 + (IF objref[o] THEN 1 ELSE 0)
                 + (IF obj[o].servant # NoServant \/ Finalizers(o) # {} THEN 1 ELSE 0)
    BY DEF RefsCounted
  <2> DEFINE H == {t \in Threads : \E i \in DOMAIN stack[t] :
                     /\ stack[t][i].at \in {"request", "method", "release"}
                     /\ stack[t][i].oid = o
                     /\ stack[t][i].at = "method" => stack[t][i].kind = "remote"}
  <2>1. Core(policy, o, obj[o], stack, objref[o], 0) /\ stack \in Stacks
    BY LiveServant
  <2>2. H = Holding(stack, o)
    <3>1. ASSUME NEW t \in Threads, NEW i \in DOMAIN stack[t]
          PROVE  stack[t][i] \in Frame
      <4>1. stack[t] \in Seq(Frame)
        BY <2>1 DEF Stacks
      <4> QED BY <4>1, ElementOfSeq
    <3> QED BY <3>1 DEF Holding, HoldOf, Holds
  <2>3. Finalizers(o) = Ending(stack, o)
    BY DEF Finalizers, Ending, FinalOf, On, At
  <2>4. obj[o].refs = Cardinality(Holding(stack, o)) + One(objref[o])
                        + One(Active(o, obj[o], stack)) + 0
    BY <2>1 DEF Core, Balanced
  <2>5. Cardinality(Holding(stack, o)) \in Nat
    BY Unused
  <2>6. Active(o, obj[o], stack) <=> obj[o].servant # NoServant \/ Finalizers(o) # {}
    BY <2>3 DEF Active
  <2> HIDE DEF H
  <2> QED BY <2>2, <2>4, <2>5, <2>6 DEF One, H
<1> QED BY <1>1, Invariant, PTL
=============================================================================
