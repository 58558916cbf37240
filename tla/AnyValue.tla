------------------------------ MODULE AnyValue ------------------------------
(***************************************************************************)
(* Values described by type codes (corba-any.c, allocators.c): how they are*)
(* written to a message, read, copied, compared and freed in memory.       *)
(*                                                                         *)
(* A memory is a function from the offsets where something is stored; what *)
(* a pointer leads to (a string, the buffer of a sequence, the value of an *)
(* any) is in the item that holds the pointer.  The walks of the code step *)
(* through it by sizes and alignments; Laid says where a C compiler puts   *)
(* the members.  fixed ends the process (g_error) and is no value here.    *)
(***************************************************************************)
EXTENDS TypeCode, TLC

LOCAL INSTANCE FiniteSetsExt

CONSTANT Chunk    \* elements a sequence is first allocated for (4096)

Octets == {"boolean", "char", "octet"}
BaseTypes == {"short", "ushort", "wchar", "long", "ulong", "enum", "float",
              "double", "longlong", "ulonglong", "longdouble"} \cup Octets

SizeOf(kind) ==
  CASE kind \in Octets -> 1
    [] kind \in {"short", "ushort", "wchar"} -> 2
    [] kind \in {"long", "ulong", "float", "enum"} -> 4
    [] kind \in {"longlong", "ulonglong", "double", "string", "wstring",
                 "TypeCode", "objref"} -> 8
    [] kind = "longdouble" -> 16
    [] kind \in {"any", "sequence", "Principal"} -> 24
    [] OTHER -> 0

Zeroed == [ptr |-> FALSE, num |-> 0, str |-> "", len |-> 0, room |-> 0,
           mem |-> <<>>, tcs |-> <<>>]
At(m, off) == IF off \in DOMAIN m THEN m[off] ELSE Zeroed
Stored(m, off, item) == (off :> item) @@ m

Scalar(n) == [Zeroed EXCEPT !.num = n]
Pointer(str) == [Zeroed EXCEPT !.ptr = TRUE, !.str = str]
Reference(n) == [Zeroed EXCEPT !.ptr = TRUE, !.num = n]
Buffer(len, room, m) ==
  [Zeroed EXCEPT !.ptr = room > 0, !.len = len, !.room = room, !.mem = m]
AnyOf(tc, m) == [Zeroed EXCEPT !.ptr = TRUE, !.tcs = <<tc>>, !.mem = m]
TypeOfCode(tc) == [Zeroed EXCEPT !.ptr = TRUE, !.tcs = <<tc>>]

-----------------------------------------------------------------------------
(* The size of a value, and the offsets of its members, as the code has    *)
(* them.                                                                   *)
RECURSIVE gather_alloc_info(_)
(* The offsets of the members of a structure, and its size.                *)
Offsets(tc) ==
  FoldLeft(LAMBDA acc, t :
             LET at == Up(acc.end, t.align) IN
             [offs |-> Append(acc.offs, at), end |-> at + gather_alloc_info(t)],
           [offs |-> <<>>, end |-> 0], tc.sub)

UnionSize(tc) ==
  LET n == {i \in DOMAIN tc.sub :
              tc.sub[i].align > (IF i = 1 THEN 1 ELSE tc.sub[i - 1].align)}
      sum == gather_alloc_info(tc.disc[1])
      largest == Max({0} \cup {gather_alloc_info(t) : t \in ToSet(tc.sub)})
  IN Up((IF n = {} THEN sum ELSE Up(sum, tc.sub[Max(n)].align)) + largest,
        tc.align)

gather_alloc_info(tc0) ==
  LET tc == SkipAlias(tc0) IN
  CASE tc.kind \in {"struct", "except"} -> Up(Offsets(tc).end, tc.align)
    [] tc.kind = "union" -> UnionSize(tc)
    [] tc.kind = "array" -> gather_alloc_info(tc.sub[1]) * tc.len
    [] OTHER -> SizeOf(tc.kind)

(* Where the arm of a union is, and where the walks go on behind it.       *)
Body(tc, off) == off + Up(gather_alloc_info(tc.disc[1]), tc.align)
AfterUnion(tc, off) ==
  Body(tc, off)
    + Up(Max({0} \cup {gather_alloc_info(t) : t \in ToSet(tc.sub)}), tc.align)

get_union_switch(tc, n) ==
  CASE SkipAlias(tc).kind \in {"short", "ushort"} -> Signed(n, 16)
    [] SkipAlias(tc).kind \in Octets -> Word(n, 8)
    [] OTHER -> n

(* The arm that the discriminator stands for: none is TC_null.             *)
get_union_tag(tc, m, off) ==
  LET value == get_union_switch(tc.disc[1], At(m, off).num)
      labelled == {i \in DOMAIN tc.sub : i - 1 # tc.dflt /\ tc.labels[i] = value}
  IN IF labelled # {} THEN tc.sub[Min(labelled)]
     ELSE IF tc.dflt >= 0 THEN tc.sub[tc.dflt + 1] ELSE Basic("null")

-----------------------------------------------------------------------------
(* Where a C compiler puts a value: v.num, v.str, v.kids and v.tcs are its *)
(* number, its text, its parts and its type code.                          *)
RECURSIVE CSize(_)
CStruct(tc) ==
  FoldLeft(LAMBDA acc, t :
             LET at == Up(acc.end, FindAlignment(t)) IN
             [offs |-> Append(acc.offs, at), end |-> at + CSize(t)],
           [offs |-> <<>>, end |-> 0], tc.sub)
CBody(tc) ==
  Up(CSize(tc.disc[1]), Max({1} \cup {FindAlignment(t) : t \in ToSet(tc.sub)}))
CSize(tc0) ==
  LET tc == SkipAlias(tc0) IN
  CASE tc.kind \in {"struct", "except"} -> Up(CStruct(tc).end, FindAlignment(tc))
    [] tc.kind = "union" ->
         Up(CBody(tc) + Max({0} \cup {CSize(t) : t \in ToSet(tc.sub)}),
            FindAlignment(tc))
    [] tc.kind = "array" -> CSize(tc.sub[1]) * tc.len
    [] OTHER -> SizeOf(tc.kind)

RECURSIVE Laid(_, _, _, _)
LaidAll(tc, vs, m) ==
  FoldLeftDomain(LAMBDA acc, i : Laid(tc, vs[i], (i - 1) * CSize(tc), acc), m, vs)
Laid(tc0, v, off, m) ==
  LET tc == SkipAlias(tc0) IN
  CASE tc.kind \in {"struct", "except"} ->
         FoldLeftDomain(LAMBDA acc, i :
           Laid(tc.sub[i], v.kids[i], off + CStruct(tc).offs[i], acc), m, tc.sub)
    [] tc.kind = "union" ->
         LET d == Laid(tc.disc[1], v, off, m) IN
         IF v.kids = <<>> THEN d
         ELSE Laid(v.tcs[1], v.kids[1], off + CBody(tc), d)
    [] tc.kind = "array" ->
         FoldLeftDomain(LAMBDA acc, i :
           Laid(tc.sub[1], v.kids[i], off + (i - 1) * CSize(tc.sub[1]), acc),
           m, v.kids)
    [] tc.kind = "sequence" ->
         Stored(m, off, Buffer(Len(v.kids), Len(v.kids),
                               LaidAll(tc.sub[1], v.kids, <<>>)))
    [] tc.kind \in {"string", "wstring", "Principal"} -> Stored(m, off, Pointer(v.str))
    [] tc.kind = "objref" -> Stored(m, off, Reference(v.num))
    [] tc.kind = "any" ->
         Stored(m, off, AnyOf(v.tcs[1], Laid(v.tcs[1], v.kids[1], 0, <<>>)))
    [] tc.kind = "TypeCode" -> Stored(m, off, TypeOfCode(v.tcs[1]))
    [] tc.kind \in {"null", "void"} -> m
    [] OTHER -> Stored(m, off, Scalar(v.num))

-----------------------------------------------------------------------------
(* Writing the value at off of m: the message, and the offset behind it.   *)
RECURSIVE marshal_value(_, _, _, _)
marshal_any(w, x) ==
  marshal_value(x.tcs[1], x.mem, 0, MateCORBA_encode_CORBA_TypeCode(x.tcs[1], w)).w

MarshalledElements(tc, m, off, w, n) ==
  FoldLeft(LAMBDA acc, i : marshal_value(tc, m, acc.off, acc.w),
           [w |-> w, off |-> off], [i \in 1 .. n |-> i])

marshal_value(tc0, m, off, w) ==
  LET tc == SkipAlias(tc0)
      x == At(m, off)
      stepped(writer) == [w |-> writer, off |-> off + SizeOf(tc.kind)]
  IN CASE tc.kind \in Octets -> stepped(PutRaw(w, 1, x.num, ""))
       [] tc.kind \in BaseTypes \ Octets -> stepped(Put(w, SizeOf(tc.kind), x.num, ""))
       [] tc.kind = "any" -> stepped(marshal_any(w, x))
       [] tc.kind = "Principal" ->
            stepped(PutRaw(PutRaw(w, 4, Len(x.str), ""), Len(x.str), 0, x.str))
       [] tc.kind = "objref" -> stepped(Put(w, 4, x.num, "object"))
       [] tc.kind = "TypeCode" -> stepped(MateCORBA_encode_CORBA_TypeCode(x.tcs[1], w))
       [] tc.kind = "string" -> stepped(PutString(w, x.str))
       [] tc.kind = "wstring" ->
            stepped(PutRaw(PutRaw(Put(w, 4, 2 * (Len(x.str) + 1), ""),
                                  2, 0, "mark"), 2 * Len(x.str), 0, x.str))
       [] tc.kind \in {"struct", "except"} ->
            [w |-> FoldLeftDomain(LAMBDA acc, i :
                     marshal_value(tc.sub[i], m, off + Offsets(tc).offs[i], acc).w,
                     w, tc.sub),
             off |-> off + Up(Offsets(tc).end, tc.align)]
       [] tc.kind = "union" ->
            [w |-> marshal_value(get_union_tag(tc, m, off), m, Body(tc, off),
                                 marshal_value(tc.disc[1], m, off, w).w).w,
             off |-> AfterUnion(tc, off)]
       [] tc.kind = "sequence" ->
            stepped(MarshalledElements(tc.sub[1], x.mem, 0,
                                       Put(w, 4, x.len, ""), x.len).w)
       [] tc.kind = "array" -> MarshalledElements(tc.sub[1], m, off, w, tc.len)
       [] OTHER -> stepped(w)

-----------------------------------------------------------------------------
(* Reading a value to off of m: the memory, the offset and the reader.     *)
RECURSIVE demarshal_value(_, _, _, _)
Valued(tc, v) == [r |-> v.r, item |-> AnyOf(tc, v.m)]
Typed(d) == Valued(d.tc, demarshal_value(d.tc, <<>>, 0, d.r))
demarshal_any(r) == Typed(MateCORBA_decode_CORBA_TypeCode(r))

(* The buffer is allocated for Chunk elements and doubles where they are   *)
(* used up; an element behind its end would be lost.                       *)
RoomKept(i, room, length) == room
RoomFor(i, room, length) ==
  IF i - 1 = room /\ room < length THEN Min({2 * room, length}) ELSE room
DemarshalledElements(tc, r, length) ==
  FoldLeft(LAMBDA acc, i :
             LET room == RoomFor(i, acc.room, length)
                 e == demarshal_value(tc, acc.m, acc.off, acc.r)
             IN [m |-> IF i <= room THEN e.m ELSE acc.m, off |-> e.off,
                 r |-> e.r, room |-> room],
           [m |-> <<>>, off |-> 0, r |-> r,
            room |-> IF tc.kind \in Octets THEN length ELSE Min({length, Chunk})],
           [i \in 1 .. length |-> i])

WithoutMark(l) == GetRaw(GetRaw(l.r, l.r.cur, 2).r, l.r.cur + 2, l.num - 2)
DemarshalledText(r, kind) ==
  CASE kind = "wstring" -> WithoutMark(CDR_get(r, 4))
    [] OTHER -> CDR_get_const_string(r)

demarshal_value(tc0, m, off, r) ==
  LET tc == SkipAlias(tc0)
      stepped(item, reader) ==
        [m |-> Stored(m, off, item), off |-> off + SizeOf(tc.kind), r |-> reader]
      number(g) == stepped(Scalar(g.num), g.r)
      text(g) == stepped(Pointer(g.str), g.r)
      any(a) == stepped(a.item, a.r)
      type(d) == stepped(TypeOfCode(d.tc), d.r)
      reference(g) == stepped(Reference(g.num), g.r)
      elements(l, e) == stepped(Buffer(l.num, e.room, e.m), e.r)
      sequence(l) == elements(l, DemarshalledElements(tc.sub[1], l.r, l.num))
  IN CASE tc.kind \in Octets -> number(GetRaw(r, r.cur, 1))
       [] tc.kind \in BaseTypes \ Octets -> number(CDR_get(r, SizeOf(tc.kind)))
       [] tc.kind = "any" -> any(demarshal_any(r))
       [] tc.kind = "objref" -> reference(CDR_get(r, 4))
       [] tc.kind = "TypeCode" -> type(MateCORBA_decode_CORBA_TypeCode(r))
       [] tc.kind \in {"string", "wstring", "Principal"} ->
            text(DemarshalledText(r, tc.kind))
       [] tc.kind \in {"struct", "except"} ->
            LET all == FoldLeftDomain(LAMBDA acc, i :
                         demarshal_value(tc.sub[i], acc.m,
                                         off + Offsets(tc).offs[i], acc.r),
                         [m |-> m, off |-> off, r |-> r], tc.sub)
            IN [all EXCEPT !.off = off + Up(Offsets(tc).end, tc.align)]
       [] tc.kind = "union" ->
            LET d == demarshal_value(tc.disc[1], m, off, r)
                b == demarshal_value(get_union_tag(tc, d.m, off), d.m,
                                     Body(tc, off), d.r)
            IN [b EXCEPT !.off = AfterUnion(tc, off)]
       [] tc.kind = "sequence" -> sequence(CDR_get(r, 4))
       [] tc.kind = "array" ->
            FoldLeft(LAMBDA acc, i : demarshal_value(tc.sub[1], acc.m, acc.off, acc.r),
                     [m |-> m, off |-> off, r |-> r], [i \in 1 .. tc.len |-> i])
       [] OTHER -> [m |-> m, off |-> off, r |-> r]

-----------------------------------------------------------------------------
(* Copying the value at off of m to noff of n.                             *)
RECURSIVE copy_value_core(_, _, _, _, _)
copy_value(tc, m) == copy_value_core(tc, m, 0, <<>>, 0).n

CopiedFirst(tc, m, off, n, noff, count) ==
  FoldLeft(LAMBDA acc, i : [copy_value_core(tc, m, off, acc.n, acc.noff) EXCEPT
                              !.off = off],
           [off |-> off, n |-> n, noff |-> noff], [i \in 1 .. count |-> i])
CopiedElements(tc, m, off, n, noff, count) ==
  FoldLeft(LAMBDA acc, i : copy_value_core(tc, m, acc.off, acc.n, acc.noff),
           [off |-> off, n |-> n, noff |-> noff], [i \in 1 .. count |-> i])

copy_value_core(tc0, m, off, n, noff) ==
  LET tc == SkipAlias(tc0)
      x == At(m, off)
      stepped(item) == [off |-> off + SizeOf(tc.kind), n |-> Stored(n, noff, item),
                        noff |-> noff + SizeOf(tc.kind)]
  IN CASE tc.kind = "any" -> stepped([x EXCEPT !.mem = copy_value(x.tcs[1], x.mem)])
       [] tc.kind \in {"struct", "except"} ->
            LET end == Up(Offsets(tc).end, tc.align) IN
            [off |-> off + end, noff |-> noff + end,
             n |-> FoldLeftDomain(LAMBDA acc, i :
                     copy_value_core(tc.sub[i], m, off + Offsets(tc).offs[i],
                                     acc, noff + Offsets(tc).offs[i]).n,
                     n, tc.sub)]
       [] tc.kind = "union" ->
            LET d == copy_value_core(tc.disc[1], m, off, n, noff)
                arm == get_union_tag(tc, m, off)
            IN [off |-> off + UnionSize(tc), noff |-> noff + UnionSize(tc),
                n |-> copy_value_core(arm, m, Body(tc, off), d.n, Body(tc, noff)).n]
       [] tc.kind = "sequence" ->
            stepped(Buffer(x.len, x.len,
                           CopiedElements(tc.sub[1], x.mem, 0, <<>>, 0, x.len).n))
       [] tc.kind = "array" -> CopiedElements(tc.sub[1], m, off, n, noff, tc.len)
       [] tc.kind \in {"null", "void"} -> [off |-> off, n |-> n, noff |-> noff]
       [] OTHER -> stepped(x)

-----------------------------------------------------------------------------
(* Comparing the value at a of m with the one at b of n.  The comparison of*)
(* a wstring is FALSE, and that of an any, a type code or a reference inside*)
(* a value reads the slot as if it were what it points to: what comes of it*)
(* is not defined, and Comparable leaves it out.                           *)
RECURSIVE Comparable(_)
Comparable(tc) ==
  /\ tc.kind \notin {"any", "objref", "TypeCode", "Principal"}
  /\ \A t \in ToSet(tc.sub \o tc.disc) : Comparable(t)

RECURSIVE value_equivalent(_, _, _, _, _)
EquivalentElements(tc, m, a, n, b, count) ==
  FoldLeft(LAMBDA acc, i :
             IF acc.same THEN value_equivalent(tc, m, acc.a, n, acc.b) ELSE acc,
           [same |-> TRUE, a |-> a, b |-> b], [i \in 1 .. count |-> i])

EquivalentMembers(tc, m, a, n, b) ==
  /\ \A i \in DOMAIN tc.sub :
       value_equivalent(tc.sub[i], m, a + Offsets(tc).offs[i],
                        n, b + Offsets(tc).offs[i]).same

EquivalentArms(tc, m, a, n, b) ==
  /\ CORBA_TypeCode_equal(get_union_tag(tc, m, a), get_union_tag(tc, n, b))
  /\ value_equivalent(tc.disc[1], m, a, n, b).same
  /\ value_equivalent(get_union_tag(tc, m, a), m, Body(tc, a), n, Body(tc, b)).same

value_equivalent(tc0, m, a, n, b) ==
  LET tc == SkipAlias(tc0)
      x == At(m, a)
      y == At(n, b)
      stepped(same, size) == [same |-> same, a |-> a + size, b |-> b + size]
      flat(same) == stepped(same, SizeOf(tc.kind))
  IN CASE tc.kind \in {"null", "void"} -> flat(TRUE)
       [] tc.kind = "boolean" -> flat((x.num = 0) = (y.num = 0))
       [] tc.kind \in BaseTypes \ {"boolean"} -> flat(x.num = y.num)
       [] tc.kind = "string" -> flat(x.str = y.str)
       [] tc.kind \in {"struct", "except"} ->
            stepped(EquivalentMembers(tc, m, a, n, b), Up(Offsets(tc).end, tc.align))
       [] tc.kind = "union" ->
            stepped(EquivalentArms(tc, m, a, n, b), Up(UnionSize(tc), tc.align))
       [] tc.kind = "sequence" ->
            flat(x.len = y.len /\
                 EquivalentElements(tc.sub[1], x.mem, 0, y.mem, 0, x.len).same)
       [] tc.kind = "array" -> EquivalentElements(tc.sub[1], m, a, n, b, tc.len)
       [] OTHER -> flat(FALSE)

any_equivalent(tcA, m, tcB, n) ==
  CORBA_TypeCode_equal(tcA, tcB) /\ value_equivalent(tcB, m, 0, n, 0).same

-----------------------------------------------------------------------------
(* Freeing what the value at off of m points to: the offset where the walk *)
(* ends, and the paths of the slots whose content it frees, in its order.  *)
(* Nothing is skipped here: each structure is aligned where the walk meets *)
(* it, and what is found where a pointer is expected is freed as one, be it*)
(* a pointer or not.  The code clears the slot, so that it could come by   *)
(* again; here the order tells whether it does.                            *)
RECURSIVE freekids(_, _, _, _)
FreedElements(tc, m, off, count, path) ==
  FoldLeft(LAMBDA acc, i :
             LET e == freekids(tc, m, acc.off, path) IN
             [off |-> e.off, freed |-> acc.freed \o e.freed],
           [off |-> off, freed |-> <<>>], [i \in 1 .. count |-> i])

FreedUnionPacked(tc, m, off, path) ==
  LET body == off + gather_alloc_info(tc.disc[1]) IN
  [off |-> body + Max({0} \cup {gather_alloc_info(t) : t \in ToSet(tc.sub)}),
   freed |-> freekids(get_union_tag(tc, m, off), m, body, path).freed]
FreedUnion(tc, m, off, path) ==
  LET at == Up(off, Max({tc.disc[1].align, tc.align}))
      widest == Max({1} \cup {t.align : t \in ToSet(tc.sub)})
      body == Up(at + gather_alloc_info(tc.disc[1]), widest)
      largest == Max({0} \cup {gather_alloc_info(t) : t \in ToSet(tc.sub)})
  IN [off |-> body + largest,
      freed |-> freekids(get_union_tag(tc, m, at), m, body, path).freed]

FreedStruct(tc, m, off, path) ==
  LET all == FoldLeft(LAMBDA acc, t :
               LET e == freekids(t, m, Up(acc.off, t.align), path) IN
               [off |-> e.off, freed |-> acc.freed \o e.freed],
               [off |-> Up(off, tc.align), freed |-> <<>>], tc.sub)
  IN [all EXCEPT !.off = Up(@, tc.align)]

(* MateCORBA_free_T on what stands at off: nothing where that is zero, and *)
(* otherwise the elements the block was allocated for, then the block.     *)
FreedBlock(tc, x, path) ==
  CASE tc.kind = "any" /\ x.tcs # <<>> -> freekids(x.tcs[1], x.mem, 0, path).freed
    [] tc.kind = "sequence" -> FreedElements(tc.sub[1], x.mem, 0, x.room, path).freed
    [] OTHER -> <<>>
FreedPointer(tc, m, off, path) ==
  LET x == At(m, off)
      slot == Append(path, off)
  IN [off |-> off + SizeOf(tc.kind),
      freed |-> IF x = Zeroed THEN <<>> ELSE Append(FreedBlock(tc, x, slot), slot)]

freekids(tc, m, off, path) ==
  CASE tc.kind \in {"any", "TypeCode", "objref", "Principal", "string", "wstring",
                    "sequence"} -> FreedPointer(tc, m, off, path)
    [] tc.kind \in {"struct", "except"} -> FreedStruct(tc, m, off, path)
    [] tc.kind = "union" -> FreedUnion(tc, m, off, path)
    [] tc.kind = "array" -> FreedElements(tc.sub[1], m, off, tc.len, path)
    [] tc.kind = "alias" -> freekids(tc.sub[1], m, off, path)
    [] OTHER -> [off |-> Up(off, tc.align) + gather_alloc_info(tc), freed |-> <<>>]

RECURSIVE Pointers(_, _)
Pointers(m, path) ==
  UNION {{Append(path, off)} \cup Pointers(m[off].mem, Append(path, off)) :
           off \in {o \in DOMAIN m : m[o].ptr}}

-----------------------------------------------------------------------------
(* The sequence operations of the library, on a buffer of elements of tc.  *)
(* Each first asks the sequence for its type, and never gives back the     *)
(* reference that it is given: alloc_get_tcval takes it where they are used.*)
Shifted(m, from, to, size) ==
  LET kept == {o \in DOMAIN m : o >= from} IN
  [o \in {p - from + to : p \in kept} |-> m[o + from - to]]
Before(m, end) == [o \in {p \in DOMAIN m : p < end} |-> m[o]]

Reallocated(s, new) ==
  IF new > s.room THEN [s EXCEPT !.ptr = TRUE, !.room = new] ELSE s

(* Elements of a basic type stay in the buffer when it shrinks.            *)
sequence_set_size(tc, s, length) ==
  IF length < s.len
  THEN [s EXCEPT !.len = length,
                 !.mem = IF tc.kind \in BaseTypes THEN @
                         ELSE Before(@, length * gather_alloc_info(tc))]
  ELSE [(IF length > s.room
         THEN Reallocated(s, Max({length, 2 * s.room})) ELSE s)
        EXCEPT !.len = length]

sequence_append(tc, s, m, off) ==
  LET grown == IF s.len = s.room THEN Reallocated(s, Max({2, 2 * s.room})) ELSE s
      at == s.len * gather_alloc_info(tc)
  IN [grown EXCEPT !.len = @ + 1, !.mem = copy_value_core(tc, m, off, @, at).n]

sequence_remove(tc, s, idx) ==
  LET size == gather_alloc_info(tc)
      at == idx * size
      rest == Before(Shifted(s.mem, at + size, at, size), (s.len - 1) * size)
  IN [s EXCEPT !.len = @ - 1,
               !.mem = Before(@, at) @@ rest
                         @@ Shifted(@, s.len * size, s.len * size, size)]

sequence_concat(tc, s, t) ==
  FoldLeft(LAMBDA acc, i :
             sequence_append(tc, acc, t.mem, (i - 1) * gather_alloc_info(tc)),
           s, [i \in 1 .. t.len |-> i])
=============================================================================
