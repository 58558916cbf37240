------------------------------ MODULE TypeCode ------------------------------
(***************************************************************************)
(* Type codes (corba-typecode.c): how they are made (corba-orb.c), encoded *)
(* into a message, decoded, compared, read and freed.                      *)
(*                                                                         *)
(* A type code is a record with the type codes below it as components; ptr *)
(* is the address of its structure, so that two components with one ptr are*)
(* one shared structure; id stands for the repository id and the name, and *)
(* len for the scale of a fixed as well.  A message is a sequence of cells,*)
(* each at its offset: alignment, encapsulation lengths and the offsets of *)
(* repeated type codes are those of the code, the bytes of a cell are one  *)
(* value.                                                                  *)
(***************************************************************************)
EXTENDS Integers, Sequences, SequencesExt

LOCAL INSTANCE FiniteSetsExt

Up(n, boundary) ==
  IF boundary = 0 THEN 0 ELSE ((n + boundary - 1) \div boundary) * boundary

Word(n, bits) == n % 2^bits
Signed(n, bits) ==
  IF Word(n, bits) < 2^(bits - 1) THEN Word(n, bits) ELSE Word(n, bits) - 2^bits

-----------------------------------------------------------------------------
(* Kinds: the basic ones are static structures and go over the wire as     *)
(* their kind; strings and fixed have parameters; the others have theirs in*)
(* an encapsulation.                                                       *)
Empty == {"null", "void", "short", "ushort", "wchar", "long", "ulong", "float",
          "longlong", "ulonglong", "double", "longdouble", "boolean", "char",
          "octet", "any", "TypeCode", "Principal"}
Simple == {"string", "wstring", "fixed"}
Complex == {"objref", "struct", "union", "enum", "sequence", "array", "alias",
            "except"}

AlignOf(kind) ==
  CASE kind \in {"short", "ushort", "wchar"} -> 2
    [] kind \in {"long", "ulong", "float", "enum"} -> 4
    [] kind \in {"longlong", "ulonglong", "double", "string", "wstring", "any",
                 "TypeCode", "objref", "sequence"} -> 8
    [] kind = "longdouble" -> 16
    [] OTHER -> 1

MateCORBA_TypeCode_allocate(p) ==
  [ptr |-> p, kind |-> "null", id |-> "", names |-> <<>>, sub |-> <<>>,
   labels |-> <<>>, disc |-> <<>>, dflt |-> 0, len |-> 0, digits |-> 0,
   align |-> 0]

Basic(kind) ==
  [MateCORBA_TypeCode_allocate(0) EXCEPT !.kind = kind, !.align = AlignOf(kind)]

(* What CORBA_ORB_create_*_tc make.  They do not set c_align.              *)
Members(tc, members) ==
  [tc EXCEPT !.names = [i \in DOMAIN members |-> members[i].name],
             !.sub = [i \in DOMAIN members |-> members[i].type]]

create_struct_tc(p, kind, id, members) ==
  Members([MateCORBA_TypeCode_allocate(p) EXCEPT
             !.kind = kind, !.id = id, !.len = Len(members)], members)

(* A label is the value of an any, which an octet means to be the default. *)
copy_case_value(label) ==
  CASE label.kind \in {"ulong", "long", "enum"} -> label.num
    [] label.kind \in {"ushort", "short"} -> Signed(label.num, 16)
    [] OTHER -> Word(label.num, 8)

create_union_tc(p, id, discriminator, members) ==
  LET defaults == {i \in DOMAIN members : members[i].label.kind = "octet"} IN
  Members([MateCORBA_TypeCode_allocate(p) EXCEPT
             !.kind = "union", !.id = id, !.len = Len(members),
             !.disc = <<discriminator>>,
             !.labels = [i \in DOMAIN members |-> copy_case_value(members[i].label)],
             !.dflt = IF defaults = {} THEN -1 ELSE Max(defaults) - 1], members)

create_enum_tc(p, id, names) ==
  [MateCORBA_TypeCode_allocate(p) EXCEPT
     !.kind = "enum", !.id = id, !.names = names, !.len = Len(names)]

create_bounded_tc(p, kind, bound, element) ==
  [MateCORBA_TypeCode_allocate(p) EXCEPT
     !.kind = kind, !.len = bound, !.sub = element]

create_alias_tc(p, id, original) ==
  [MateCORBA_TypeCode_allocate(p) EXCEPT
     !.kind = "alias", !.id = id, !.len = 1, !.sub = <<original>>]

create_interface_tc(p, id) ==
  [MateCORBA_TypeCode_allocate(p) EXCEPT !.kind = "objref", !.id = id]

create_fixed_tc(p, digits, scale) ==
  [MateCORBA_TypeCode_allocate(p) EXCEPT
     !.kind = "fixed", !.digits = digits, !.len = scale]

RECURSIVE SkipAlias(_)
SkipAlias(tc) == IF tc.kind = "alias" THEN SkipAlias(tc.sub[1]) ELSE tc

(* The alignment of the C type, as the decoder finds it.                   *)
RECURSIVE FindAlignment(_)
FindAlignment(tc0) ==
  LET tc == SkipAlias(tc0) IN
  CASE tc.kind \in {"struct", "except", "union"} ->
         Max({1} \cup {FindAlignment(t) : t \in ToSet(tc.sub \o tc.disc)})
    [] tc.kind = "array" -> FindAlignment(tc.sub[1])
    [] tc.kind = "fixed" -> 2
    [] OTHER -> AlignOf(tc.kind)

-----------------------------------------------------------------------------
(* Writing: the length of the message so far, its cells, and the type codes*)
(* of this encoding with the offset where each stands.                     *)
Cell(at, size, num, str) == [at |-> at, size |-> size, num |-> num, str |-> str]

NewWriter(start) == [pos |-> start, cells |-> <<>>, prior |-> {}]

Put(w, size, num, str) ==
  LET at == Up(w.pos, size) IN
  [w EXCEPT !.pos = at + size, !.cells = Append(@, Cell(at, size, num, str))]

PutRaw(w, size, num, str) ==
  [w EXCEPT !.pos = @ + size, !.cells = Append(@, Cell(w.pos, size, num, str))]

PutString(w, str) == PutRaw(Put(w, 4, Len(str) + 1, ""), Len(str) + 1, 0, str)

LabelSize(kind) ==
  CASE kind \in {"boolean", "char"} -> 1
    [] kind \in {"short", "ushort", "wchar"} -> 2
    [] kind \in {"longlong", "ulonglong"} -> 8
    [] OTHER -> 4

Casted(kind, n) ==
  CASE kind \in {"boolean", "char"} -> Signed(n, 8)
    [] kind = "short" -> Signed(n, 16)
    [] kind \in {"ushort", "wchar"} -> Word(n, 16)
    [] OTHER -> n

(* The distance back to the type code, from behind the field that tells it.*)
Offset(index, pos) == index - pos - 4

RECURSIVE tc_enc(_, _)
EncodedMembers(tc, w) ==
  LET label(i, x) ==
        IF tc.kind = "union"
        THEN Put(x, LabelSize(tc.disc[1].kind),
                 Casted(tc.disc[1].kind, tc.labels[i]), "")
        ELSE x
      typed(i, x) == IF tc.kind = "enum" THEN x ELSE tc_enc(tc.sub[i], x)
  IN FoldLeftDomain(LAMBDA x, i : typed(i, PutString(label(i, x), tc.names[i])),
                    Put(w, 4, Len(tc.names), ""), tc.names)

Parameters(tc, w) ==
  LET named(x) == PutString(PutString(x, tc.id), tc.id) IN
  CASE tc.kind = "objref" -> named(w)
    [] tc.kind \in {"struct", "except", "enum"} -> EncodedMembers(tc, named(w))
    [] tc.kind = "union" ->
         EncodedMembers(tc, Put(tc_enc(tc.disc[1], named(w)), 4, tc.dflt, ""))
    [] tc.kind = "alias" -> tc_enc(tc.sub[1], named(w))
    [] tc.kind \in {"sequence", "array"} -> Put(tc_enc(tc.sub[1], w), 4, tc.len, "")
    [] tc.kind = "fixed" -> Put(Put(w, 2, tc.digits, ""), 2, tc.len, "")
    [] OTHER -> Put(w, 4, tc.len, "")

Encapsulated(tc, w) ==
  LET marker == Put(w, 4, 0, "")
      body == Parameters(tc, Put(marker, 1, 0, "endian"))
  IN [body EXCEPT !.cells[Len(marker.cells)].num = body.pos - marker.pos]

tc_enc(tc, w) ==
  LET a == [w EXCEPT !.pos = Up(@, 4)]
      seen == {n \in a.prior : n.ptr = tc.ptr}
      noted == [a EXCEPT !.prior = @ \cup {[ptr |-> tc.ptr, index |-> a.pos]}]
  IN IF tc.kind \in Empty THEN Put(a, 4, 0, tc.kind)
     ELSE IF seen # {}
     THEN Put(Put(a, 4, 0, "recursive"), 4,
              Offset((CHOOSE n \in seen : TRUE).index, a.pos + 4), "")
     ELSE IF tc.kind \in Simple THEN Parameters(tc, Put(noted, 4, 0, tc.kind))
     ELSE Encapsulated(tc, Put(noted, 4, 0, tc.kind))

MateCORBA_encode_CORBA_TypeCode(tc, w) ==
  [tc_enc(tc, [w EXCEPT !.prior = {}]) EXCEPT !.prior = {}]

-----------------------------------------------------------------------------
(* Reading: cur, end and body (where the buffer or the encapsulation       *)
(* starts) of a receive buffer, base for the offset of an encapsulation in *)
(* the message, the type codes of this decoding, and the reference counts  *)
(* of the structures it makes.                                             *)
NewReader(w, start) ==
  [cur |-> start, end |-> w.pos, body |-> 0, base |-> 0, cells |-> w.cells,
   prior |-> {}, refs |-> <<>>, ok |-> TRUE]

CellAt(r, at, size) ==
  SelectSeq(r.cells, LAMBDA c : c.at = at /\ c.size = size)

Cut(r, end, c) ==
  IF end > r.end \/ c = <<>>
  THEN [r |-> [r EXCEPT !.ok = FALSE], num |-> 0, str |-> ""]
  ELSE [r |-> [r EXCEPT !.cur = end], num |-> c[1].num, str |-> c[1].str]
GetRaw(r, at, size) == Cut(r, at + size, CellAt(r, at, size))

CDR_get(r, size) == GetRaw(r, Up(r.cur, size), size)

\* what stands behind its length
Following(length) == GetRaw(length.r, length.r.cur, length.num)
CDR_get_const_string(r) == Following(CDR_get(r, 4))

ReferencedNew(r, p) ==
  [r EXCEPT !.refs = IF p = 0 \/ p \in DOMAIN @ THEN @
                     ELSE [q \in DOMAIN @ \cup {p} |->
                             IF q = p THEN 1 ELSE @[q]]]
Referenced(r, p) ==
  [r EXCEPT !.refs = IF p = 0 THEN @
                     ELSE [q \in DOMAIN @ \cup {p} |->
                             IF q = p THEN (IF q \in DOMAIN @ THEN @[q] + 1 ELSE 1)
                             ELSE @[q]]]

RECURSIVE tc_dec(_)
(* A type code tc with the number g that was read for one of its fields,   *)
(* or with what was read for one of its lists.                             *)
Numbered(tc, field, g) == [r |-> g.r, tc |-> [tc EXCEPT ![field] = g.num]]
Listed(tc, field, reader, entry) ==
  [r |-> reader, tc |-> [tc EXCEPT ![field] = Append(@, entry)]]

Sub(tc, d) == Listed(tc, "sub", d.r, d.tc)
Below(d) == Sub(d.tc, tc_dec(d.r))

Identified(kind, id) ==
  [r |-> CDR_get_const_string(id.r).r,
   tc |-> [MateCORBA_TypeCode_allocate(0) EXCEPT !.kind = kind, !.id = id.str]]
Named(kind, r) == Identified(kind, CDR_get_const_string(r))

Member(tc, g) == Listed(tc, "names", g.r, g.str)
Label(tc, kind, g) == Listed(tc, "labels", g.r, Casted(kind, g.num))
Labelled(d, kind) == Label(d.tc, kind, CDR_get(d.r, LabelSize(kind)))
DecodedMember(d) ==
  LET named(x) == Member(x.tc, CDR_get_const_string(x.r)) IN
  CASE d.tc.kind = "enum" -> named(d)
    [] d.tc.kind = "union" -> Below(named(Labelled(d, d.tc.disc[1].kind)))
    [] OTHER -> Below(named(d))

Decoded(count, tc) ==
  FoldLeft(LAMBDA d, i : DecodedMember(d), [r |-> count.r, tc |-> tc],
           [i \in 1 .. count.num |-> i])
DecodedMembers(d) == Decoded(CDR_get(d.r, 4), d.tc)

Switch(tc, d) ==
  Numbered([tc EXCEPT !.disc = <<d.tc>>], "dflt", CDR_get(d.r, 4))
Discriminated(d) == Switch(d.tc, tc_dec(d.r))

Bounded(d) == Numbered(d.tc, "len", CDR_get(d.r, 4))

Scaled(d) == Numbered(d.tc, "len", CDR_get(d.r, 2))
Digits(d) == Scaled(Numbered(d.tc, "digits", CDR_get(d.r, 2)))

Decoder(kind, r) ==
  LET bare == [r |-> r, tc |-> [MateCORBA_TypeCode_allocate(0) EXCEPT !.kind = kind]]
  IN CASE kind = "objref" -> Named(kind, r)
       [] kind \in {"struct", "except", "enum"} -> DecodedMembers(Named(kind, r))
       [] kind = "union" -> DecodedMembers(Discriminated(Named(kind, r)))
       [] kind = "alias" -> Below(Named(kind, r))
       [] kind \in {"sequence", "array"} -> Bounded(Below(bare))
       [] kind = "fixed" -> Digits(bare)
       [] OTHER -> Bounded(bare)

(* The encapsulation is read through a buffer of its own; an error inside  *)
(* it is not told to the reader of the message.                            *)
Inside(length, base) ==
  [length.r EXCEPT !.cur = @ + 1, !.body = length.r.cur,
                   !.end = length.r.cur + length.num, !.base = base]
Outside(length, d) ==
  [r |-> [length.r EXCEPT !.cur = @ + length.num, !.prior = d.r.prior,
                          !.refs = d.r.refs],
   tc |-> d.tc]
Encapsulation(kind, length, base) ==
  Outside(length, Decoder(kind, Inside(length, base)))
DecodeEncapsulated(kind, r) ==
  Encapsulation(kind, CDR_get(r, 4), r.base + (r.cur - r.body) + 4)

Undecoded(r) == [r |-> [r EXCEPT !.ok = FALSE], tc |-> Basic("null")]

(* The type code that stands so far back, if there is one.                 *)
Met(r, tcs) ==
  IF tcs = {} THEN Undecoded(r)
  ELSE LET tc == CHOOSE tc \in tcs : TRUE IN [r |-> Referenced(r, tc.ptr), tc |-> tc]
Prior(back) ==
  Met(back.r, {n.tc : n \in {n \in back.r.prior :
         back.num = n.index - back.r.base - (back.r.cur - back.r.body)}})

Noted(d, index) == [d EXCEPT !.r.prior = @ \cup {[index |-> index, tc |-> d.tc]}]
Structure(d, index) ==
  [r |-> Referenced(d.r, index),
   tc |-> [d.tc EXCEPT !.ptr = index, !.align = FindAlignment(d.tc)]]

OfKind(k, index) ==
  CASE ~ k.r.ok -> Undecoded(k.r)
    [] k.r.ok /\ k.str = "recursive" -> Prior(CDR_get(k.r, 4))
    [] k.r.ok /\ k.str \in Empty ->
         Noted([r |-> k.r, tc |-> Basic(k.str)], index)
    [] OTHER ->
         Noted(Structure(IF k.str \in Simple THEN Decoder(k.str, k.r)
                         ELSE DecodeEncapsulated(k.str, k.r), index), index)

\* a type code is known by the offset of its kind in the message
tc_dec(r) == OfKind(CDR_get(r, 4), r.base + Up(r.cur, 4) - r.body)

MateCORBA_decode_CORBA_TypeCode(r) ==
  [tc_dec([r EXCEPT !.base = 0, !.prior = {}]) EXCEPT !.r.prior = {}]

(* Releasing a type code: the last reference frees it and releases those   *)
(* below it.                                                               *)
RECURSIVE ReleaseTc(_, _)
FreedBelow(tc) == tc.sub \o tc.disc
ReleaseTc(tc, refs) ==
  IF tc.ptr = 0 THEN refs
  ELSE LET less == [refs EXCEPT ![tc.ptr] = @ - 1] IN
       IF less[tc.ptr] # 0 THEN less
       ELSE FoldLeft(LAMBDA acc, t : ReleaseTc(t, acc), less, FreedBelow(tc))

-----------------------------------------------------------------------------
(* Comparing: member names count for enumerations only, and aliases only   *)
(* where the comparison is strict.                                         *)
RECURSIVE typecode_equiv_internal(_, _, _)
typecode_equiv_internal(obj0, tc0, strict) ==
  LET obj == IF strict THEN obj0 ELSE SkipAlias(obj0)
      tc == IF strict THEN tc0 ELSE SkipAlias(tc0)
      sameId == obj.id = tc.id
      below == \A i \in DOMAIN obj.sub :
                 typecode_equiv_internal(obj.sub[i], tc.sub[i], strict)
      members == sameId /\ Len(obj.sub) = Len(tc.sub) /\ below
  IN obj.kind = tc.kind /\
     CASE tc.kind \in {"string", "wstring"} -> obj.len = tc.len
       [] tc.kind = "objref" -> sameId
       [] tc.kind \in {"struct", "except"} -> members
       [] tc.kind = "union" ->
            /\ members
            /\ typecode_equiv_internal(obj.disc[1], tc.disc[1], strict)
            /\ obj.dflt = tc.dflt /\ obj.labels = tc.labels
       [] tc.kind = "enum" -> sameId /\ obj.names = tc.names
       [] tc.kind \in {"sequence", "array"} -> obj.len = tc.len /\ below
       [] tc.kind = "alias" -> sameId /\ below
       [] tc.kind = "fixed" -> obj.digits = tc.digits /\ obj.len = tc.len
       [] OTHER -> TRUE

CORBA_TypeCode_equal(obj, tc) == typecode_equiv_internal(obj, tc, TRUE)
CORBA_TypeCode_equivalent(obj, tc) == typecode_equiv_internal(obj, tc, FALSE)

(* What the operations of a type code answer; <<>> is BadKind or Bounds.   *)
CORBA_TypeCode_id(tc) ==
  IF tc.kind \in {"objref", "struct", "union", "enum", "alias", "except"}
  THEN <<tc.id>> ELSE <<>>

CORBA_TypeCode_member_count(tc) ==
  IF tc.kind \in {"struct", "union", "enum", "except"}
  THEN <<Len(tc.names)>> ELSE <<>>

CORBA_TypeCode_member_name(tc, index) ==
  IF CORBA_TypeCode_member_count(tc) = <<>> \/ index > Len(tc.names)
  THEN <<>> ELSE <<tc.names[index + 1]>>

CORBA_TypeCode_member_type(tc, index) ==
  IF CORBA_TypeCode_member_count(tc) = <<>> \/ index > Len(tc.names)
  THEN <<>> ELSE <<tc.sub[index + 1]>>

CORBA_TypeCode_member_label(tc, index) ==
  IF tc.kind # "union" \/ index > Len(tc.labels)
  THEN <<>> ELSE <<tc.labels[index + 1]>>

CORBA_TypeCode_discriminator_type(tc) == tc.disc

CORBA_TypeCode_length(tc) ==
  IF tc.kind \in {"string", "wstring", "sequence", "array"}
  THEN <<tc.len>> ELSE <<>>

CORBA_TypeCode_content_type(tc) ==
  IF tc.kind \in {"sequence", "array", "alias"} THEN <<tc.sub[1]>> ELSE <<>>
=============================================================================
