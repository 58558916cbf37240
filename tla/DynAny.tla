------------------------------- MODULE DynAny -------------------------------
(***************************************************************************)
(* Dynamic Any (orb/dynamic/dynany.c).  A DynAny that was created by the   *)
(* factory owns a value; current_component gives a DynAny for a component, *)
(* which points into the value of its parent and stands in the parent's    *)
(* list of children, so that it can be told when that memory goes.  An     *)
(* object of its own type again, or one whose any is NULL, answers         *)
(* OBJECT_NOT_EXIST.                                                       *)
(*                                                                         *)
(* Simple values are members of Data; a constructed one is the sequence of *)
(* its parts.  Where a view points to is the DynAny that owns the memory   *)
(* and a path of components.  The process stops at the first assertion     *)
(* that fails and the first use of memory that was freed or is of another  *)
(* type: crash says which.                                                 *)
(***************************************************************************)
EXTENDS Integers, Sequences, SequencesExt, FiniteSets

CONSTANTS
  Dyns,         \* memory for DynAny objects
  None,
  Types,        \* type codes, no two of them equal (CORBA_TypeCode_equal)
  Kind,         \* of a type: "single" stands for all simple ones
  Subtypes,     \* of a type, a union's discriminator first
  Length,       \* of an array, the bound of a sequence or 0, of an enum
  Padded,       \* structs with padding between two members
  Data,
  Made,         \* types of the DynAnys that the factory is asked for
  Given,        \* values of a type that the application creates, assigns, inserts
  MaxLen,       \* longest sequence
  MaxMasters,   \* DynAnys that are not components, at one time
  Careful,      \* the application does not do what the code does not survive
  ElementLists  \* what is given to set_members, set_elements: for each
                \* member its type, its value and whether its name is right

Kinds == {"single", "enum", "struct", "except", "union", "sequence", "array",
          "alias"}
ASSUME TypesAssumption ==
  /\ Kind \in [Types -> Kinds] /\ Subtypes \in [Types -> Seq(Types)]
  /\ Length \in [Types -> Nat] /\ Padded \subseteq Types /\ Made \subseteq Types
  /\ 0 \in Data /\ None \notin Dyns /\ None \notin Types
\* what IDL asks of them, a union's discriminator and one member, for example
ASSUME PartsAssumption ==
  \A t \in Types :
    /\ Kind[t] \in {"alias", "sequence", "array"} => Len(Subtypes[t]) = 1
    /\ Kind[t] = "union" => Len(Subtypes[t]) >= 2
    /\ Kind[t] \in {"enum", "array"} => Length[t] > 0
    /\ Kind[t] = "sequence" => Length[t] <= MaxLen
\* a type is made of types that were there before it: among any there is one
\* that has none of the others for a part
ASSUME NoTypeInItself ==
  \A S \in SUBSET Types :
    S # {} => \E t \in S : \A i \in DOMAIN Subtypes[t] : Subtypes[t][i] \notin S
ASSUME MaxAssumption == MaxLen \in Nat /\ MaxMasters \in Nat

VARIABLES
  dyn,      \* the DynAny objects
  store,    \* the value a DynAny owns (any->_release)
  ev,       \* the exception of a call that has already changed something
  crash

vars == <<dyn, store, ev, crash>>

(***************************************************************************)
(* Types and values                                                        *)
(***************************************************************************)
Leaf(x) == [leaf |-> x, max |-> 0, parts |-> << >>]
Parts(n, ps) == [leaf |-> None, max |-> n, parts |-> ps]

Real[t \in Types] == IF Kind[t] = "alias" THEN Real[Subtypes[t][1]] ELSE t
RealKind(t) == Kind[Real[t]]
Single(t) == RealKind(t) \in {"single", "enum"}

\* tc->sub_parts; an alias has one part, the type it names
SubParts(t) ==
  CASE Kind[t] = "union" -> Len(Subtypes[t]) - 1
    [] OTHER -> Len(Subtypes[t])

Tuples(S, n) == [1..n -> S]

\* from what there is for its subtypes (of)
ValuesOf(of, t) ==
  CASE Kind[t] = "single" -> {Leaf(x) : x \in Data}
    [] Kind[t] = "enum" -> {Leaf(x) : x \in 0..Length[t] - 1}
    [] Kind[t] = "alias" -> of[1]
    [] Kind[t] = "sequence" ->
         {Parts(n, ps) : n \in 0..MaxLen,
                         ps \in UNION {Tuples(of[1], k) : k \in 0..MaxLen}}
    [] Kind[t] = "array" -> {Parts(0, ps) : ps \in Tuples(of[1], Length[t])}
    [] Kind[t] = "union" ->
         {Parts(0, <<d, b>>) : d \in of[1], b \in UNION {of[i] : i \in DOMAIN of \ {1}}}
    [] OTHER ->
         {Parts(0, ps) : ps \in {f \in [DOMAIN of -> UNION {of[i] : i \in DOMAIN of}] :
                                   \A i \in DOMAIN of : f[i] \in of[i]}}
Values[t \in Types] ==
  ValuesOf([i \in DOMAIN Subtypes[t] |-> Values[Subtypes[t][i]]], t)

ASSUME GivenAssumption ==
  /\ \A t \in Types : Given[t] \subseteq Values[t]
  /\ \A l \in ElementLists :
       /\ l.types \in Seq(Types) /\ DOMAIN l.values = DOMAIN l.types
       /\ \A i \in DOMAIN l.types : l.values[i] \in Values[l.types[i]]

\* dynany_init_default
DefaultOf(of, t) ==
  CASE Kind[t] \in {"single", "enum"} -> Leaf(0)
    [] Kind[t] = "alias" -> of[1]
    [] Kind[t] = "sequence" -> Parts(Length[t], << >>)
    [] Kind[t] = "array" -> Parts(0, [i \in 1..Length[t] |-> of[1]])
    [] Kind[t] = "union" -> Parts(0, <<of[1], of[2]>>)
    [] OTHER -> Parts(0, of)
Default[t \in Types] ==
  DefaultOf([i \in DOMAIN Subtypes[t] |-> Default[Subtypes[t][i]]], t)

\* MateCORBA_copy_value: the copy of a sequence is as long as it may get (in a
\* union nothing looks at that, since its members have no components)
CopyOf(of, t) ==
  [v \in Values[t] |->
    CASE Kind[t] \in {"single", "enum", "union"} -> v
      [] Kind[t] = "alias" -> of[1][v]
      [] Kind[t] = "sequence" ->
           Parts(Len(v.parts), [i \in DOMAIN v.parts |-> of[1][v.parts[i]]])
      [] Kind[t] = "array" -> Parts(0, [i \in DOMAIN v.parts |-> of[1][v.parts[i]]])
      [] OTHER -> Parts(0, [i \in DOMAIN v.parts |-> of[i][v.parts[i]]])]
Copy[t \in Types] ==
  CopyOf([i \in DOMAIN Subtypes[t] |-> Copy[Subtypes[t][i]]], t)

\* the values that path leads through, v before its first step
Along(v, path) ==
  LET at[n \in 0..Len(path)] ==
        IF n = 0 THEN v ELSE at[n - 1].parts[path[n] + 1]
  IN at
Follow(v, path) == Along(v, path)[Len(path)]

\* their types, from t
PartType(t, i) ==
  Subtypes[Real[t]][IF RealKind(t) \in {"sequence", "array"} THEN 1 ELSE i + 1]
TypesAlong(t, path) ==
  LET at[n \in 0..Len(path)] ==
        IF n = 0 THEN t ELSE PartType(at[n - 1], path[n])
  IN at
PathType(t, path) == TypesAlong(t, path)[Len(path)]

Put(v, path, new) ==
  LET put[n \in 0..Len(path)] ==
        IF n = Len(path) THEN new
        ELSE [Along(v, path)[n] EXCEPT !.parts[path[n + 1] + 1] = put[n + 1]]
  IN put[0]

(***************************************************************************)
(* DynAny objects.  root and path are any->_value, mem says what became of *)
(* the memory: leaked when the buffer it is in was overwritten in place,   *)
(* freed when it was released.  What is in leaked memory is not kept: it   *)
(* may be any value of its type.                                           *)
(***************************************************************************)
NoType == None
Unused == [life |-> "unused", any |-> FALSE, type |-> NoType, owns |-> FALSE,
           root |-> None, path |-> << >>, mem |-> "ok", idx |-> 0,
           children |-> {}, parent_idx |-> 0, parent |-> None]
NoValue == Leaf(None)
Gone == [Unused EXCEPT !.life = "live"]      \* any is NULL

Live(d) == dyn[d].life = "live"
Exists(d) == Live(d) /\ dyn[d].any       \* b_return_val_if_fail
TypeOf(d) == dyn[d].type
ValueOf(d) == Follow(store[dyn[d].root], dyn[d].path)

\* memory of an object is not used again while a list still has it
Free(d) == ~Live(d) /\ \A p \in Dyns : d \notin dyn[p].children

\* the least set that has the children of d and those of its members
Descendants(d) ==
  LET closed == {S \in SUBSET Dyns : /\ dyn[d].children \subseteq S
                                     /\ \A c \in S : dyn[c].children \subseteq S}
  IN {x \in Dyns : \A S \in closed : x \in S}

\* views that point behind path of root, into a buffer or a part
Behind(root, path) ==
  {d \in Dyns : /\ Exists(d) /\ dyn[d].root = root
                /\ IsStrictPrefix(path, dyn[d].path)}
\* those of them that point into the memory that d does
Over(d) == {x \in Behind(dyn[d].root, dyn[d].path) : dyn[x].mem = dyn[d].mem}

\* dynany_invalidate of the children of d: a freed one is used
Dangling(d) == \E c \in Descendants(d) : ~Live(c)

InvalidatedOneLevel(d) ==
  [x \in Dyns |->
    IF x = d THEN [dyn[x] EXCEPT !.children = {}]
    ELSE IF x \in dyn[d].children THEN Gone ELSE dyn[x]]
InvalidatedNot(d) == dyn
Invalidated(d) ==
  [x \in Dyns |->
    IF x = d THEN [dyn[x] EXCEPT !.children = {}]
    ELSE IF x \in Descendants(d) THEN Gone ELSE dyn[x]]

\* dynany_get_cur_type with the cursor at i, NoType where it returns nil
TypeAt(d, i) ==
  LET t == Real[TypeOf(d)]
  IN CASE Single(t) -> t
       [] Kind[t] \in {"sequence", "array"} -> Subtypes[t][1]
       [] Kind[t] \in {"struct", "except"} ->
            IF i \in 0..SubParts(t) - 1 THEN Subtypes[t][i + 1] ELSE NoType
       [] Kind[t] = "union" -> IF i = 0 THEN Subtypes[t][1] ELSE NoType
CurType(d) == TypeAt(d, dyn[d].idx)

\* what d finds when it reads its value as a sequence, if it is one
Found(d) ==
  IF RealKind(TypeOf(d)) # "sequence" THEN {NoValue}
  ELSE IF dyn[d].mem = "leaked" THEN Values[TypeOf(d)] ELSE {ValueOf(d)}

\* dynany_get_value with the cursor at i, where v was found: {} is NULL, with
\* InvalidValue
PathAt(d, i, v) ==
  LET t == Real[TypeOf(d)]
  IN IF Single(t) THEN {dyn[d].path}
     ELSE IF \/ Kind[t] = "union" \/ i < 0
             \/ Kind[t] = "sequence" /\ i >= Len(v.parts)
       THEN {}
     ELSE {Append(dyn[d].path, i)}
CurPath(d, v) == PathAt(d, dyn[d].idx, v)

\* any->_value is read as a value of the type of the any
Readable(d) ==
  /\ dyn[d].mem # "freed"
  /\ dyn[d].mem = "ok" => ValueOf(d) \in Values[TypeOf(d)]

Init ==
  /\ dyn = [d \in Dyns |-> Unused] /\ store = [d \in Dyns |-> NoValue]
  /\ ev = "none" /\ crash = "none"

\* the application looks at the exception of a call before it makes another
Running == crash = "none" /\ ev = "none"
Caught == ev # "none" /\ ev' = "none" /\ UNCHANGED <<dyn, store, crash>>

\* an exception (e) of a call that has changed nothing
Raise(e) == e # ev /\ UNCHANGED vars
Nothing == UNCHANGED vars
Stop(why) == crash' = why /\ UNCHANGED <<dyn, store, ev>>
Done == ev' = "none" /\ crash' = crash

(***************************************************************************)
(* Creation and release                                                    *)
(***************************************************************************)
Master(d, t, v) ==
  /\ Cardinality({x \in Dyns : dyn[x].owns}) < MaxMasters
  /\ dyn' = [dyn EXCEPT ![d] = [Unused EXCEPT !.life = "live", !.any = TRUE,
                                  !.type = t, !.owns = TRUE, !.root = d]]
  /\ store' = [store EXCEPT ![d] = v]

Component(d, t, path, p) ==
  [Unused EXCEPT !.life = "live", !.any = TRUE, !.type = t, !.path = path,
     !.root = dyn[p].root, !.mem = dyn[p].mem,
     !.parent = p, !.parent_idx = dyn[p].idx]

\* dynany_create with a parent
Linked(d, t, path, p) ==
  [dyn EXCEPT ![d] = Component(d, t, path, p), ![p].children = @ \cup {d}]

\* DynAnyFactory_create_dyn_any
CreateDynAny(d, t, v) ==
  /\ Running /\ Free(d)
  /\ Master(d, t, Copy[t][v])
  /\ Done

\* DynAnyFactory_create_dyn_any_from_type_code
CreateFromType(d, t) ==
  /\ Running /\ Free(d)
  /\ Master(d, t, Default[t])
  /\ Done

\* CORBA_Object_release: DynamicAny_DynAny_release_fn; the object stays in
\* the list of its parent
Release(d) ==
  /\ Running /\ Live(d)
  /\ Careful => dyn[d].parent = None
  /\ IF Dangling(d) THEN Stop("list")
     ELSE /\ dyn' = [x \in Dyns |->
                      LET y == Invalidated(d)[x]
                      IN IF x = d THEN Unused
                         ELSE IF dyn[d].owns /\ y.any /\ y.root = d
                           THEN [y EXCEPT !.mem = "freed"] ELSE y]
          /\ store' = [store EXCEPT ![d] = NoValue]
          /\ Done

\* DynamicAny_DynAny_copy: under the parent of the original, at its value
CopyDynAny(d, c) ==
  /\ Running /\ Live(d) /\ Free(c)
  /\ IF ~dyn[d].any THEN Raise("OBJECT_NOT_EXIST")
     ELSE LET p == dyn[d].parent IN
       IF p = None
       THEN IF ~Readable(d) THEN Stop("value")
            ELSE /\ Master(c, TypeOf(d), Copy[TypeOf(d)][ValueOf(d)])
                 /\ Done
       ELSE /\ dyn' = [Linked(c, TypeOf(d), dyn[d].path, p)
                         EXCEPT ![c].mem = dyn[d].mem]
            /\ UNCHANGED store /\ Done

(***************************************************************************)
(* DynamicAny_DynAny_from_any and _assign.  The value is copied after the  *)
(* memory of the destination was freed.                                    *)
(***************************************************************************)
FromAny(d, t, v) ==
  /\ Running /\ Live(d)
  /\ IF ~dyn[d].any THEN Raise("OBJECT_NOT_EXIST")
     ELSE IF t # TypeOf(d) THEN Raise("TypeMismatch")
     ELSE IF Dangling(d) THEN Stop("list")
     ELSE
       /\ dyn' = [x \in Dyns |->
            LET y == Invalidated(d)[x]
                p == dyn[d].parent
            IN IF x = d THEN [y EXCEPT !.owns = TRUE, !.root = d, !.path = << >>,
                                       !.mem = "ok", !.parent = None]
               ELSE IF x = p THEN [y EXCEPT !.children = @ \ {d}]
               ELSE IF dyn[d].owns /\ y.any /\ y.root = d
                 THEN [y EXCEPT !.mem = "freed"] ELSE y]
       /\ store' = [store EXCEPT ![d] = Copy[t][v]]
       /\ Done

\* the source goes with the memory of the destination
SourceFreed(d, s) == dyn[d].owns /\ dyn[s].root = d

Assign(d, s) ==
  /\ Running /\ Live(d) /\ Live(s)
  /\ IF ~dyn[s].any THEN Raise("BAD_PARAM")
     ELSE IF dyn[d].any /\ TypeOf(s) = TypeOf(d) /\ ~Dangling(d)
             /\ (SourceFreed(d, s) \/ ~Readable(s))
       THEN Stop(IF SourceFreed(d, s) THEN "source" ELSE "value")
     ELSE IF dyn[d].any /\ TypeOf(s) = TypeOf(d) /\ dyn[s].mem = "leaked"
       THEN \E v \in Values[TypeOf(s)] : FromAny(d, TypeOf(s), v)
     ELSE FromAny(d, TypeOf(s), IF dyn[d].any /\ TypeOf(s) = TypeOf(d)
                                THEN ValueOf(s) ELSE NoValue)

(***************************************************************************)
(* The cursor                                                              *)
(***************************************************************************)
\* DynamicAny_DynAny_component_count
Count(d, v) ==
  LET t == Real[TypeOf(d)]
  IN CASE Kind[t] = "sequence" -> Len(v.parts)
       [] Kind[t] = "array" -> Length[t]
       [] Kind[t] \in {"struct", "except"} -> SubParts(t)
       [] OTHER -> 0

\* the new idx; the call returns TRUE iff it is the index asked for
SeekIdx(d, i, v) ==
  LET t == Real[TypeOf(d)]
  IN CASE Single(t) -> -1
       [] Kind[t] = "union" -> IF i \in 0..1 THEN i ELSE -1
       [] OTHER -> IF i \in 0..Count(d, v) - 1 THEN i ELSE -1

Seek(d, i) ==
  /\ Running /\ Live(d)
  /\ IF ~dyn[d].any THEN Raise("OBJECT_NOT_EXIST")
     ELSE IF RealKind(TypeOf(d)) = "sequence" /\ ~Readable(d) THEN Stop("value")
     ELSE \E v \in Found(d) :
            /\ dyn' = [dyn EXCEPT ![d].idx = SeekIdx(d, i, v)]
            /\ UNCHANGED store /\ Done

Rewind(d) == Seek(d, 0)
NextComponent(d) == Seek(d, dyn[d].idx + 1)

\* DynamicAny_DynAny_current_component: a component without value fails the
\* assertion of dynany_create
CurrentComponent(d, c) ==
  /\ Running /\ Live(d) /\ Free(c)
  /\ IF ~dyn[d].any THEN Raise("OBJECT_NOT_EXIST")
     ELSE IF dyn[d].idx < 0 THEN Nothing
     ELSE IF \/ RealKind(TypeOf(d)) = "enum"
             \/ RealKind(TypeOf(d)) = "except" /\ SubParts(Real[TypeOf(d)]) = 0
       THEN Raise("TypeMismatch")
     ELSE IF RealKind(TypeOf(d)) = "sequence" /\ ~Readable(d) THEN Stop("value")
     ELSE IF CurType(d) = NoType THEN Raise("BAD_PARAM")
     ELSE \E v \in Found(d) :
            IF CurPath(d, v) = {} THEN Stop("assert")
            ELSE \E path \in CurPath(d, v) :
                   /\ dyn' = Linked(c, CurType(d), path, d)
                   /\ UNCHANGED store /\ Done

(***************************************************************************)
(* Insertion: the simple value goes where the cursor stands                *)
(***************************************************************************)
\* a write of v at path through d; nobody sees what goes to leaked memory
Written(d, path, v) ==
  IF dyn[d].mem = "leaked" THEN store
  ELSE [store EXCEPT ![dyn[d].root] = Put(@, path, v)]

MismatchUnchecked(d, t) == CurType(d) = NoType
\* dynany_type_mismatch
Mismatch(d, t) == CurType(d) # t

Insert(d, t, v) ==
  /\ Running /\ Live(d)
  /\ IF ~dyn[d].any THEN Raise("OBJECT_NOT_EXIST")
     ELSE IF Mismatch(d, t) THEN Raise("TypeMismatch")
     ELSE IF ~Readable(d) THEN Stop("value")
     ELSE \E seq \in Found(d) :
            IF CurPath(d, seq) = {} THEN Raise("InvalidValue")
            ELSE \E path \in CurPath(d, seq) :
                   /\ store' = Written(d, path, v)
                   /\ UNCHANGED dyn /\ Done

\* DynamicAny_DynAny_get_*: what it reads, {} with an exception
Read(d, t) ==
  IF Mismatch(d, t) THEN {}
  ELSE {Follow(store[dyn[d].root], path) :
          path \in UNION {CurPath(d, v) : v \in Found(d)}}

\* DynEnum_set_as_ulong and _as_string, by the position of the name
SetEnum(d, i) ==
  LET labels == IF Kind[TypeOf(d)] = "alias" THEN 1 ELSE Length[Real[TypeOf(d)]]
  IN
  /\ Running /\ Live(d)
  /\ IF ~dyn[d].any THEN Raise("OBJECT_NOT_EXIST")
     ELSE IF RealKind(TypeOf(d)) # "enum" THEN Raise("TypeMismatch")
     ELSE IF i >= labels THEN Raise("InvalidValue")
     ELSE IF ~Readable(d) THEN Stop("value")
     ELSE /\ store' = Written(d, dyn[d].path, Leaf(i))
          /\ UNCHANGED dyn /\ Done

(***************************************************************************)
(* Structs and sequences as a whole.  A list says for each member whether  *)
(* its name is that of the type, its type and its value.                   *)
(***************************************************************************)
\* the parts of the value of d are overwritten in place: views into the
\* buffers of sequences among them keep the old buffers
Cut(d, x) ==
  /\ x \in Behind(dyn[d].root, dyn[d].path)
  /\ dyn[d].mem = "ok" /\ dyn[x].mem = "ok"
  /\ \E n \in Len(dyn[d].path) + 1..Len(dyn[x].path) - 1 :
       RealKind(TypesAlong(TypeOf(dyn[d].root), dyn[x].path)[n]) = "sequence"
CutOff(d, after) ==
  [x \in Dyns |-> IF Cut(d, x) /\ after[x].any
                  THEN [after[x] EXCEPT !.mem = "leaked"] ELSE after[x]]

FirstBad(l, ok(_)) ==
  LET bad == {i \in DOMAIN l : ~ok(i)}
  IN IF bad = {} THEN 0 ELSE CHOOSE i \in bad : \A j \in bad : i <= j

\* the children are invalidated before the members are looked at; all members
\* are looked at before the first is written, and nothing runs between the two
MembersFail(d, e) ==
  /\ dyn' = Invalidated(d) /\ ev' = e /\ UNCHANGED <<store, crash>>

Stored(d, l) ==
  LET t == Real[TypeOf(d)]
      of(i) == PathType(t, <<i - 1>>)
  IN Written(d, dyn[d].path,
       [ValueOf(d) EXCEPT !.parts = [i \in DOMAIN @ |->
          IF i \in DOMAIN l.values THEN Copy[of(i)][l.values[i]] ELSE @[i]]])

\* DynamicAny_DynStruct_set_members
SetMembers(d, l) ==
  LET t == TypeOf(d)
      bad == FirstBad(l.types, LAMBDA i : l.named[i] /\ l.types[i] = Subtypes[t][i])
  IN
  /\ Running /\ Live(d)
  /\ IF ~dyn[d].any THEN Raise("OBJECT_NOT_EXIST")
     ELSE IF RealKind(t) # "struct" \/ Len(l.types) # SubParts(t)
       THEN Raise("TypeMismatch")
     ELSE IF Dangling(d) THEN Stop("list")
     ELSE IF Kind[t] = "alias" THEN Stop("names")
     ELSE IF bad # 0
       THEN MembersFail(d, IF l.named[bad] THEN "InvalidValue" ELSE "TypeMismatch")
     ELSE IF ~Readable(d) THEN Stop("value")
     ELSE /\ store' = Stored(d, l)
          /\ dyn' = CutOff(d, Invalidated(d))
          /\ Done

\* DynamicAny_DynStruct_get_members_as_dyn_any: src does not advance
MembersAsDynAny(d, cs) ==
  LET t == TypeOf(d)
      first == IF Kind[t] = "alias" THEN dyn[d].path ELSE Append(dyn[d].path, 0)
  IN
  /\ Running /\ Live(d) /\ IsInjective(cs) /\ \A i \in DOMAIN cs : Free(cs[i])
  /\ IF ~dyn[d].any THEN Raise("OBJECT_NOT_EXIST")
     ELSE IF RealKind(t) # "struct" THEN Raise("TypeMismatch")
     ELSE /\ Len(cs) = SubParts(t)
          /\ Careful => \A i \in DOMAIN cs : Subtypes[t][i] = Subtypes[t][1]
          /\ dyn' = [x \in Dyns |->
               IF x = d THEN [dyn[d] EXCEPT !.children = @ \cup Range(cs)]
               ELSE IF x \in Range(cs)
                 THEN Component(x, Subtypes[t][CHOOSE i \in DOMAIN cs : cs[i] = x],
                                first, d)
               ELSE dyn[x]]
          /\ UNCHANGED store /\ Done

\* what cs have in memory that the store does not follow, or that is cut off
\* when a part of d is overwritten
Held(cs) ==
  {f \in [DOMAIN cs -> UNION {Values[TypeOf(c)] : c \in Range(cs)}] :
     \A i \in DOMAIN cs :
       IF dyn[cs[i]].mem = "leaked" THEN f[i] \in Values[TypeOf(cs[i])]
       ELSE f[i] = ValueOf(cs[i])}

\* what the store is after the values of cs were copied one after the other
Transferred(d, cs, held) ==
  LET after[k \in 0..Len(cs)] ==
        IF k = 0 THEN store
        ELSE LET c == cs[k]
                 v == IF dyn[c].mem = "leaked" \/ Cut(d, c) THEN held[k]
                      ELSE Follow(after[k - 1][dyn[c].root], dyn[c].path)
             IN [after[k - 1] EXCEPT ![dyn[d].root] =
                   Put(@, Append(dyn[d].path, k - 1), Copy[TypeOf(c)][v])]
  IN IF dyn[d].mem = "leaked" THEN store ELSE after[Len(cs)]

AllReadable(d, cs) == \A x \in Range(cs) \cup {d} : Readable(x)

\* DynamicAny_DynStruct_set_members_as_dyn_any; the destination is not
\* aligned from one member to the next
SetMembersAsDynAny(d, cs) ==
  LET t == TypeOf(d)
      bad == FirstBad(cs, LAMBDA i : dyn[cs[i]].any /\ TypeOf(cs[i]) = Subtypes[t][i])
  IN
  /\ Running /\ Live(d) /\ \A i \in DOMAIN cs : Live(cs[i])
  /\ IF ~dyn[d].any THEN Raise("OBJECT_NOT_EXIST")
     ELSE IF RealKind(t) # "struct" \/ Len(cs) # SubParts(t)
       THEN Raise("TypeMismatch")
     ELSE IF Kind[t] = "alias" THEN Stop("names")
     ELSE IF bad # 0
       THEN IF dyn[cs[bad]].any THEN Raise("InvalidValue") ELSE Stop("null")
     ELSE IF t \in Padded THEN Stop("layout")
     ELSE IF ~AllReadable(d, cs) THEN Stop("value")
     ELSE IF Dangling(d) THEN Stop("list")
     ELSE \E held \in Held(cs) :
            /\ store' = Transferred(d, cs, held)
            /\ dyn' = CutOff(d, Invalidated(d))
            /\ Done

(***************************************************************************)
(* Sequences: only the elements that the sequence has are checked, all     *)
(* that were given are copied.  An alias of a sequence is taken for a      *)
(* sequence of sequences.                                                  *)
(***************************************************************************)
\* DynamicAny_DynSequence_set_elements
SetElements(d, l) ==
  LET t == TypeOf(d) IN
  /\ Running /\ Live(d)
  /\ IF ~dyn[d].any THEN Raise("OBJECT_NOT_EXIST")
     ELSE IF RealKind(t) # "sequence" THEN Raise("TypeMismatch")
     ELSE IF ~Readable(d) THEN Stop("value")
     ELSE \E v \in Found(d) : LET len == Len(v.parts) IN
       IF \E i \in DOMAIN l.types : i <= len /\ l.types[i] # Subtypes[t][1]
         THEN Raise("InvalidValue")
       ELSE IF Dangling(d) THEN Stop("list")
       ELSE IF Len(l.types) > len THEN Stop("overflow")
       ELSE IF Kind[t] = "alias" /\ Len(l.types) > 0 THEN Stop("layout")
       ELSE /\ store' = Stored(d, l)
            /\ dyn' = CutOff(d, Invalidated(d))
            /\ Done

\* DynamicAny_DynSequence_get_elements_as_dyn_any takes the elements for
\* DynAny objects
ElementsAsDynAny(d) ==
  /\ Running /\ Live(d)
  /\ IF ~dyn[d].any THEN Raise("OBJECT_NOT_EXIST")
     ELSE IF RealKind(TypeOf(d)) # "sequence" THEN Raise("TypeMismatch")
     ELSE IF ~Readable(d) THEN Stop("value")
     ELSE \E v \in Found(d) : IF Len(v.parts) > 0 THEN Stop("elements") ELSE Nothing

\* DynamicAny_DynSequence_set_elements_as_dyn_any: what is below d has lost its
\* any when its value is read
SetElementsAsDynAny(d, cs) ==
  LET t == TypeOf(d) IN
  /\ Running /\ Live(d) /\ \A i \in DOMAIN cs : Live(cs[i])
  /\ IF ~dyn[d].any THEN Raise("OBJECT_NOT_EXIST")
     ELSE IF RealKind(t) # "sequence" THEN Raise("TypeMismatch")
     ELSE IF ~Readable(d) THEN Stop("value")
     ELSE \E seq \in Found(d) : LET len == Len(seq.parts) IN
       IF \E i \in DOMAIN cs : i <= len /\ \/ ~dyn[cs[i]].any
                                           \/ TypeOf(cs[i]) # Subtypes[Real[t]][1]
         THEN Raise("InvalidValue")
       ELSE IF Dangling(d) THEN Stop("list")
       ELSE IF Range(cs) \cap Descendants(d) # {} THEN Stop("null")
       ELSE IF Len(cs) > len THEN Stop("overflow")
       ELSE IF ~AllReadable(d, cs) THEN Stop("value")
       ELSE \E held \in Held(cs) :
              /\ store' = Transferred(d, cs, held)
              /\ dyn' = CutOff(d, Invalidated(d))
              /\ Done

\* dynany_sequence_realloc_to: the old elements and default ones, in a new
\* buffer; the views into the old one are not told
Resized(d, n) ==
  LET t == Real[TypeOf(d)]
      old == ValueOf(d).parts
  IN Written(d, dyn[d].path, [ValueOf(d) EXCEPT !.parts =
       [i \in 1..n |-> IF i <= Len(old) THEN old[i] ELSE Default[Subtypes[t][1]]]])

Moved(d, after) ==
  [x \in Dyns |-> IF x \in Over(d) /\ after[x].any
                  THEN [after[x] EXCEPT !.mem = "freed"] ELSE after[x]]

\* children of elements that are gone; an index of -1 is larger than any
Outside(d, n) ==
  {c \in dyn[d].children : dyn[c].parent_idx < 0 \/ dyn[c].parent_idx >= n}

\* the loop over the children takes none away when it comes to its end, since
\* it reads the link of a child that it invalidated after that was freed
Shrunk(d, n) ==
  [dyn EXCEPT ![d].idx = IF @ < 0 \/ @ >= n THEN -1 ELSE @]

\* DynamicAny_DynSequence_set_length.  Without elements there is nothing to
\* allocate, and nothing happens.  A shorter buffer gets all old elements,
\* which it may survive (lucky).
SetLength(d, n, lucky) ==
  LET t == TypeOf(d) IN
  /\ Running /\ Live(d)
  /\ IF ~dyn[d].any THEN Raise("OBJECT_NOT_EXIST")
     ELSE IF RealKind(t) # "sequence" THEN Raise("TypeMismatch")
     ELSE IF ~Readable(d) THEN Stop("value")
     ELSE \E v \in Found(d) : LET len == Len(v.parts) IN
       IF n = len THEN Nothing
       ELSE IF v.max > 0 /\ n > v.max THEN Raise("InvalidValue")
       ELSE IF n = 0 THEN Nothing
       ELSE IF Kind[t] = "alias" THEN Stop("layout")
       ELSE /\ Careful => dyn[d].children = {} /\ Over(d) = {}
            /\ IF n > len
               THEN /\ dyn' = Moved(d, [dyn EXCEPT ![d].idx = IF @ = -1 THEN len ELSE @])
                    /\ store' = Resized(d, n)
                    /\ Done
               ELSE IF ~lucky THEN Stop("overflow")
               ELSE IF \E c \in dyn[d].children : ~Live(c) \/ c \in Outside(d, n)
                 THEN Stop("list")
               ELSE /\ dyn' = Moved(d, Shrunk(d, n))
                    /\ store' = Resized(d, n)
                    /\ Done

\* the operations of unions and arrays that are not implemented assert
Unimplemented(d) ==
  /\ Running /\ Exists(d) /\ RealKind(TypeOf(d)) \in {"union", "array"}
  /\ Stop("assert")

(***************************************************************************)
(* What the accessors answer                                               *)
(***************************************************************************)
\* DynStruct_current_member_name, _kind: the position of the member, -1 with
\* InvalidValue
CurrentMember(d) ==
  IF dyn[d].idx \in 0..SubParts(TypeOf(d)) - 1 THEN dyn[d].idx ELSE -1
\* DynUnion_member_name, _kind; the cursor counts the discriminator as 0
UnionMember(d) ==
  IF dyn[d].idx \in 0..SubParts(TypeOf(d)) - 1 THEN dyn[d].idx ELSE -1
UnionDiscriminator(d) ==
  IF Kind[TypeOf(d)] = "union" THEN Subtypes[TypeOf(d)][1] ELSE NoType
HasNoActiveMember(d) == dyn[d].idx = 0
\* DynStruct_get_members, DynSequence_get_elements
MembersOf(d) ==
  [i \in DOMAIN ValueOf(d).parts |->
     [type |-> PathType(TypeOf(d), <<i - 1>>), value |-> ValueOf(d).parts[i]]]
\* DynSequence_get_length
LengthOf(d) == Len(ValueOf(d).parts)

ToAny(d) == [type |-> TypeOf(d), value |-> Copy[TypeOf(d)][ValueOf(d)]]
\* DynamicAny_DynAny_equal, for values that MateCORBA_any_equivalent compares
Equal(d, e) == ToAny(d) = ToAny(e)

Pairs == [1..2 -> Dyns]      \* the structs of the instances have two members

Next ==
  \/ \E d \in Dyns, t \in Made : CreateFromType(d, t)
  \/ \E d \in Dyns, t \in Made : \E v \in Given[t] : CreateDynAny(d, t, v)
  \/ \E d \in Dyns, t \in Types : \E v \in Given[t] : FromAny(d, t, v)
  \/ Caught
  \/ \E d \in Dyns : \/ Release(d) \/ Rewind(d) \/ NextComponent(d)
                     \/ ElementsAsDynAny(d) \/ Unimplemented(d)
  \/ \E d, c \in Dyns : CopyDynAny(d, c) \/ CurrentComponent(d, c) \/ Assign(d, c)
  \/ \E d \in Dyns, i \in -1..MaxLen : Seek(d, i)
  \/ \E d \in Dyns, t \in Types : Kind[t] = "single" /\ \E v \in Given[t] : Insert(d, t, v)
  \/ \E d \in Dyns, i \in 0..MaxLen : SetEnum(d, i)
  \/ \E d \in Dyns, l \in ElementLists : SetMembers(d, l) \/ SetElements(d, l)
  \/ \E d \in Dyns, cs \in Pairs : MembersAsDynAny(d, cs) \/ SetMembersAsDynAny(d, cs)
  \/ \E d, c \in Dyns : SetElementsAsDynAny(d, <<c>>)
  \/ \E d \in Dyns, n \in 0..MaxLen, lucky \in BOOLEAN : SetLength(d, n, lucky)

Spec == Init /\ [][Next]_vars

(***************************************************************************)
(* Properties                                                              *)
(***************************************************************************)
\* An object that has a value of its own has one of its type, however it was
\* written, member by member, through a component or as a whole (the checks of
\* dynany_type_mismatch, set_members, set_elements), for a careful application
\* (see MemorySafe).
ValuesTyped ==
  Careful =>
  \A d \in Dyns : Exists(d) /\ dyn[d].owns => store[d] \in Values[TypeOf(d)]

\* A component and its parent know each other, and a component that lost its
\* parent has no any: it answers OBJECT_NOT_EXIST (dynany_invalidate).
ParentKnows ==
  crash = "none" =>
  \A d \in Dyns : Live(d) =>
    /\ dyn[d].parent # None =>
         LET p == dyn[d].parent
         IN Exists(p) /\ d \in dyn[p].children /\ dyn[d].any /\ ~dyn[d].owns
    /\ \A c \in dyn[d].children : Live(c) => dyn[c].parent = d
    /\ dyn[d].any => dyn[d].owns \/ dyn[d].parent # None
    /\ ~dyn[d].any => dyn[d].children = {}

\* Neither a list of children nor a value leads to memory that was freed or
\* is of another type, for an application that releases no component before
\* its parent, changes the length of no sequence that it has components of, and
\* takes the members of a struct as DynAnys only where they are of one type.
MemorySafe == Careful => crash \notin {"list", "value"}
=============================================================================
