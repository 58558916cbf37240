---------------------------- MODULE Conversions ----------------------------
(***************************************************************************)
(* A program puts values, object references and names one behind the other *)
(* into a message of some type and version of GIOP; another one reads the  *)
(* headers and them, copies them, edits the sequences among them and frees *)
(* them.  GiopMessage, TypeCode, AnyValue, IorProfile and NameString are   *)
(* the operations; here they meet in one message, where each starts at the *)
(* alignment that the one before it leaves, and where the type codes that  *)
(* are read share their structures.                                        *)
(***************************************************************************)
EXTENDS GiopMessage, NameString

Ior == INSTANCE IorProfile

CONSTANTS
  Messages,   \* headers, each with the samples that may follow it
  MaxParts,   \* parts of the message
  MaxCopies,  \* copies at one time
  MaxElements, \* longest sequence that is edited
  MaxLeaks    \* references that the edits may keep for ever

VARIABLES
  sent,       \* the kind of message: its header and samples
  head,       \* the header as it was read
  parts,      \* what has been put into the message
  w,          \* the message
  reading,    \* it has been sent
  r,          \* its reader, with the references to the type codes it made
  got,        \* what has been read, as it is now
  copies,
  leaked      \* type codes with a reference that nothing will give back

vars == <<sent, head, parts, w, reading, r, got, copies, leaked>>

(* A part is an any with the value v, a reference, or a name.              *)
AnyPart(tc, v) == [any |-> <<tc>>, v |-> v, ref |-> <<>>, name |-> <<>>]
RefPart(obj) == [any |-> <<>>, v |-> <<>>, ref |-> <<obj>>, name |-> <<>>]
NamePart(name) == [any |-> <<>>, v |-> <<>>, ref |-> <<>>, name |-> <<name>>]

(* An item that was read: v is the value that an any ought to have.        *)
Item(part, any, ref, name) ==
  [any |-> any, v |-> part.v, ref |-> ref, name |-> name, held |-> TRUE]

Memory(part) == Laid(part.any[1], part.v, 0, <<>>)

-----------------------------------------------------------------------------
Init ==
  /\ sent \in Messages /\ head = sent.header
  /\ parts = <<>> /\ w = giop_send_buffer_use(sent.header)
  /\ reading = FALSE /\ r = NewReader(w, HeaderSize)
  /\ got = <<>> /\ copies = <<>> /\ leaked = <<>>

Write(part) ==
  /\ ~ reading /\ Len(parts) < MaxParts
  /\ parts' = Append(parts, part)
  /\ \/ /\ part.any # <<>>
        /\ w' = marshal_any(w, AnyOf(part.any[1], Memory(part)))
     \/ /\ part.ref # <<>>
        /\ w' = Ior!MateCORBA_marshal_object(part.ref[1], w)
     \/ /\ part.name # <<>>
        /\ w' = PutString(w, MateCORBA_CosNaming_Name_to_string(part.name[1]))
  /\ UNCHANGED <<sent, head, reading, r, got, copies, leaked>>

(* The message arrives, and its headers are read.                          *)
Send ==
  /\ ~ reading
  /\ LET d == giop_recv_buffer_demarshal(sent.header.type, sent.header.version, w)
     IN reading' = TRUE /\ r' = d.r /\ head' = d.h
  /\ UNCHANGED <<sent, parts, w, got, copies, leaked>>

Read ==
  /\ reading /\ Len(got) < Len(parts)
  /\ LET part == parts[Len(got) + 1] IN
     \/ /\ part.any # <<>>
        /\ LET d == demarshal_any(r) IN
           r' = d.r /\ got' = Append(got, Item(part, <<d.item>>, <<>>, <<>>))
     \/ /\ part.ref # <<>>
        /\ LET d == Ior!MateCORBA_demarshal_object(r) IN
           r' = d.r /\ got' = Append(got, Item(part, <<>>, <<d.obj>>, <<>>))
     \/ /\ part.name # <<>>
        /\ LET d == CDR_get_const_string(r)
               name == MateCORBA_string_to_CosNaming_Name(d.str)
           IN r' = d.r /\ got' = Append(got, Item(part, <<>>, <<>>, <<name>>))
  /\ UNCHANGED <<sent, head, parts, w, reading, copies, leaked>>

(* The type codes that an any holds references to.                         *)
RECURSIVE HeldTypes(_)
HeldTypes(x) ==
  x.tcs \o FoldFunction(LAMBDA item, acc : HeldTypes(item) \o acc, <<>>, x.mem)

(* What comes and goes brings and gives back its references.               *)
Counted(reader, comes, goes) ==
  LET more == FoldLeft(LAMBDA acc, t : Referenced(acc, t.ptr), reader, comes) IN
  [more EXCEPT !.refs = FoldLeft(LAMBDA acc, t : ReleaseTc(t, acc), @, goes)]

Room == SelectSeq(copies, LAMBDA c : c.held) = <<>> /\ Len(copies) < MaxCopies
Copied(i, how, copy) == Append(copies, copy @@ [of |-> i, how |-> how])

CopyAny(i) ==
  /\ got[i].held /\ got[i].any # <<>> /\ Room
  /\ LET x == got[i].any[1]
         y == AnyOf(x.tcs[1], copy_value(x.tcs[1], x.mem))
     IN /\ copies' = Copied(i, "copy", [got[i] EXCEPT !.any = <<y>>])
        /\ r' = Counted(r, HeldTypes(y), <<>>)
  /\ UNCHANGED <<sent, head, parts, w, reading, got, leaked>>

CopyRef(i, how) ==
  /\ got[i].held /\ got[i].ref # <<>> /\ Room
  /\ LET obj == got[i].ref[1]
         places == Ior!MateCORBA_corbaloc_from(obj.profiles, obj.key)
         again ==
           CASE how = "copy" ->
                  [obj EXCEPT !.profiles = Ior!IOP_profiles_copy(@)]
             [] how = "string" ->
                  Ior!CORBA_ORB_string_to_object(
                    Ior!CORBA_ORB_object_to_string(obj)).obj
             [] OTHER -> Ior!MateCORBA_object_by_corbaloc(places)
     IN copies' = Copied(i, how, [got[i] EXCEPT !.ref = <<again>>])
  /\ UNCHANGED <<sent, head, parts, w, reading, r, got, leaked>>

(* What a program does with a sequence that it has read: elements of a byte*)
(* each are left out (they are not in a buffer that can be resized).       *)
Editable(item) ==
  /\ item.held /\ item.any # <<>>
  /\ SkipAlias(item.any[1].tcs[1]).kind = "sequence"
  /\ SkipAlias(item.any[1].tcs[1]).sub[1].kind \notin Octets

Elements(item) == SkipAlias(item.any[1].tcs[1]).sub[1]
Sequence(item) == At(item.any[1].mem, 0)
FirstElement(item) ==
  Before(Sequence(item).mem, gather_alloc_info(Elements(item)))

(* The references to the type of the sequence that n operations take to    *)
(* look at it (MateCORBA_alloc_get_tcval) stay for ever.                   *)
alloc_get_tcval(i, n) == [k \in 1 .. n |-> got[i].any[1].tcs[1]]

Edited(i, s, kids, n) ==
  LET item == [got[i] EXCEPT !.any[1].mem = Stored(<<>>, 0, s), !.v.kids = kids]
      kept == alloc_get_tcval(i, n)
  IN /\ Len(kids) <= MaxElements /\ Len(leaked) + n <= MaxLeaks
     /\ got' = [got EXCEPT ![i] = item]
     /\ leaked' = leaked \o kept
     /\ r' = Counted(r, kept \o HeldTypes(item.any[1]), HeldTypes(got[i].any[1]))
     /\ UNCHANGED <<sent, head, parts, w, reading, copies>>

AppendElement(i) ==
  /\ Editable(got[i]) /\ got[i].v.kids # <<>>
  /\ Edited(i, sequence_append(Elements(got[i]), Sequence(got[i]),
                               FirstElement(got[i]), 0),
            Append(got[i].v.kids, got[i].v.kids[1]), 1)

RemoveElement(i, idx) ==
  /\ Editable(got[i]) /\ idx < Len(got[i].v.kids)
  /\ Edited(i, sequence_remove(Elements(got[i]), Sequence(got[i]), idx),
            RemoveAt(got[i].v.kids, idx + 1), 1)

Shorten(i, length) ==
  /\ Editable(got[i]) /\ length < Len(got[i].v.kids)
  /\ Edited(i, sequence_set_size(Elements(got[i]), Sequence(got[i]), length),
            SubSeq(got[i].v.kids, 1, length), 1)

(* Room for one more, which the program fills with a copy of the first.    *)
Lengthen(i) ==
  /\ Editable(got[i]) /\ got[i].v.kids # <<>>
  /\ LET tc == Elements(got[i])
         n == Len(got[i].v.kids)
         s == sequence_set_size(tc, Sequence(got[i]), n + 1)
     IN Edited(i, [s EXCEPT !.mem = copy_value_core(tc, FirstElement(got[i]), 0,
                                                    @, n * CSize(tc)).n],
               Append(got[i].v.kids, got[i].v.kids[1]), 1)

(* One reference itself, and one for each element that it appends.         *)
Concat(i, k) ==
  /\ Editable(got[i]) /\ Editable(got[k]) /\ i # k
  /\ CORBA_TypeCode_equal(Elements(got[i]), Elements(got[k]))
  /\ Edited(i, sequence_concat(Elements(got[i]), Sequence(got[i]), Sequence(got[k])),
            got[i].v.kids \o got[k].v.kids, 1 + Len(got[k].v.kids))

(* Freeing gives back the references to the type codes.                    *)
Freed(item) == [item EXCEPT !.any = <<>>, !.ref = <<>>, !.name = <<>>, !.held = FALSE]
Given(item) ==
  IF item.any = <<>> THEN r ELSE Counted(r, <<>>, HeldTypes(item.any[1]))

Free(i) ==
  /\ got[i].held /\ Len(got) = Len(parts)
  /\ got' = [got EXCEPT ![i] = Freed(@)] /\ r' = Given(got[i])
  /\ UNCHANGED <<sent, head, parts, w, reading, copies, leaked>>

FreeCopy(i) ==
  /\ copies[i].held
  /\ copies' = [copies EXCEPT ![i] = Freed(@)] /\ r' = Given(copies[i])
  /\ UNCHANGED <<sent, head, parts, w, reading, got, leaked>>

Next ==
  \/ \E part \in sent.samples : Write(part)
  \/ Send
  \/ Read
  \/ \E i \in DOMAIN got :
       \/ CopyAny(i)
       \/ \E how \in {"copy", "string", "corbaloc"} : CopyRef(i, how)
       \/ AppendElement(i)
       \/ \E idx \in 0 .. MaxElements - 1 : RemoveElement(i, idx)
       \/ \E length \in 0 .. MaxElements - 1 : Shorten(i, length)
       \/ Lengthen(i)
       \/ \E k \in DOMAIN got : Concat(i, k)
       \/ Free(i)
  \/ \E i \in DOMAIN copies : FreeCopy(i)

Spec == Init /\ [][Next]_vars

-----------------------------------------------------------------------------
(* A type code as its operations tell it, without sharing and alignment.   *)
RECURSIVE Described(_)
Described(tc) ==
  LET n == CORBA_TypeCode_member_count(tc)
      all(f(_, _)) == IF n = <<>> THEN <<>>
                      ELSE [i \in 1 .. n[1] |-> f(tc, i - 1)]
      each(types) == [i \in DOMAIN types |-> Described(types[i])]
  IN [kind |-> tc.kind, id |-> CORBA_TypeCode_id(tc),
      names |-> all(CORBA_TypeCode_member_name),
      labels |-> all(CORBA_TypeCode_member_label),
      types |-> IF tc.kind = "enum" THEN <<>>
                ELSE each(FlattenSeq(all(CORBA_TypeCode_member_type))),
      discriminator |-> each(CORBA_TypeCode_discriminator_type(tc)),
      length |-> CORBA_TypeCode_length(tc),
      content |-> each(CORBA_TypeCode_content_type(tc))]

(* A memory without the buffers of its sequences, whose elements count.    *)
RECURSIVE Plain(_)
Plain(m) ==
  [off \in DOMAIN m |->
     [m[off] EXCEPT !.ptr = @ /\ m[off].room = 0, !.room = 0, !.mem = Plain(@),
                    !.tcs = [i \in DOMAIN @ |-> Described(@[i])]]]

Current(x) ==
  LET tc == SkipAlias(x.tcs[1]) IN
  IF tc.kind # "sequence" THEN x.mem
  ELSE Stored(<<>>, 0, [x.mem[0] EXCEPT
                          !.mem = Before(@, x.mem[0].len * CSize(tc.sub[1]))])

IsValue(x, tc, v) ==
  /\ CORBA_TypeCode_equal(tc, x.tcs[1]) /\ Described(tc) = Described(x.tcs[1])
  /\ Plain(Current(x)) = Plain(Laid(tc, v, 0, <<>>))

(* A message of version 1.0 has no components in its profile.              *)
Delivered(obj) ==
  [obj EXCEPT !.profiles = [i \in DOMAIN @ |->
     IF @[i].tag = "INTERNET_IOP" /\ @[i].version = "1.0"
     THEN [@[i] EXCEPT !.components = <<>>] ELSE @[i]]]

Arrived(item, part) ==
  /\ part.any # <<>> => IsValue(item.any[1], part.any[1], item.v)
  /\ part.ref # <<>> => item.ref[1] = Delivered(part.ref[1])
  /\ part.name # <<>> => item.name = part.name

(* What is read is what was written, wherever in the message it stands, and*)
(* nothing of the message is left over; a sequence that was edited is the  *)
(* list that the edits make (corba-any.c, corba-typecode.c, iop-profiles.c,*)
(* name-support.c).  So do the fields of its header in every version of    *)
(* GIOP: the id by which a reply finds its call, whether a response is     *)
(* expected, the key and operation by which a request finds its object,    *)
(* the status of a reply (giop-send-buffer.c, giop-recv-buffer.c).         *)
MessageKept ==
  /\ reading => r.ok /\ head = sent.header
  /\ reading /\ Len(got) = Len(parts) => r.cur = w.pos
  /\ \A i \in DOMAIN got : got[i].held => Arrived(got[i], parts[i])

(* A copy is the value as it was when it was copied, whatever became of the*)
(* original, and compares equal with an original that has not changed.     *)
(* References keep their key and their places: in a list of copies, through*)
(* a string, and through a corbaloc of one place.                          *)
SamePlaces(a, b) ==
  \A i \in DOMAIN a.profiles :
    a.profiles[i].tag \in {"INTERNET_IOP", "MATECORBA_SPECIFIC"}
      => \E k \in DOMAIN b.profiles :
           Ior!IOP_profile_equal(a, b, a.profiles[i], b.profiles[k])

RefKept(copy, obj) ==
  LET again == copy.ref[1]
      places == Ior!MateCORBA_corbaloc_from(obj.profiles, obj.key)
  IN CASE copy.how = "string" -> again = obj
       [] copy.how = "copy" ->
            again.key = obj.key /\ SamePlaces(obj, again) /\ SamePlaces(again, obj)
       [] copy.how = "corbaloc" /\ Len(places) = 1 ->
            /\ again.key = obj.key
            /\ Ior!MateCORBA_corbaloc_from(again.profiles, again.key) = places
       [] OTHER -> TRUE

CopiesKeep ==
  \A i \in DOMAIN copies :
    LET c == copies[i]
        x == got[c.of]
    IN c.held =>
         /\ c.any # <<>> => IsValue(c.any[1], parts[c.of].any[1], c.v)
         /\ c.any # <<>> /\ x.held /\ x.v = c.v /\ Comparable(c.any[1].tcs[1])
              => any_equivalent(x.any[1].tcs[1], x.any[1].mem,
                                c.any[1].tcs[1], c.any[1].mem)
         /\ c.ref # <<>> /\ x.held => RefKept(c, x.ref[1])

HeldAnys == SelectSeq(got \o copies, LAMBDA item : item.any # <<>>)

(* Freeing a value, or a copy, whatever was done to it before: the walk of *)
(* its memory by its type code (MateCORBA_freekids_via_TypeCode_T) comes by*)
(* every pointer, also those in nested values and in sequences that were   *)
(* edited, comes by each once, and takes nothing for a pointer that is none.*)
FreesAll ==
  \A item \in ToSet(HeldAnys) :
    LET x == item.any[1]
        freed == freekids(x.tcs[1], x.mem, 0, <<>>).freed
    IN IsInjective(freed) /\ ToSet(freed) = Pointers(x.mem, <<>>)

(* The structure of a type code lives as long as a value refers to it, also*)
(* from within another type code, and goes with the last one, unless an    *)
(* operation on a sequence of the type, or of one that contains it, kept a *)
(* reference: nothing else leaks (corba-typecode.c, corba-any.c).          *)
RECURSIVE Structures(_)
Structures(tc) ==
  {tc.ptr} \cup UNION {Structures(t) : t \in ToSet(tc.sub \o tc.disc)}

TypesCounted ==
  LET held == FlattenSeq([i \in DOMAIN HeldAnys |-> HeldTypes(HeldAnys[i].any[1])])
      used == UNION {Structures(t) : t \in ToSet(held \o leaked)}
  IN \A p \in DOMAIN r.refs : r.refs[p] >= 0 /\ (r.refs[p] > 0 <=> p \in used)
=============================================================================
