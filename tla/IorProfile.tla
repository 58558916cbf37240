----------------------------- MODULE IorProfile -----------------------------
(***************************************************************************)
(* Object references outside the process (iop-profiles.c, corba-loc.c and  *)
(* the strings of corba-orb.c): the profiles a server publishes, and how a *)
(* reference goes into a message, a corbaloc and a copy, and comes back.   *)
(*                                                                         *)
(* Hosts, paths and keys are whole strings.  A reference is its type id,   *)
(* its object key and its profiles; once it is registered, no profile has a*)
(* key of its own.  The tags of the code are names here.                   *)
(***************************************************************************)
EXTENDS TypeCode

LOCAL INSTANCE FiniteSetsExt

Versions == {"1.0", "1.1", "1.2"}

Profile(tag) ==
  [tag |-> tag, version |-> "1.0", proto |-> "", host |-> "", service |-> "",
   path |-> "", port |-> 0, key |-> <<>>, components |-> <<>>, data |-> ""]
Component(tag) ==
  [tag |-> tag, service |-> "", supports |-> 0, requires |-> 0, port |-> 0,
   key |-> <<>>, chars |-> 0, charsets |-> <<>>, wchars |-> 0,
   wcharsets |-> <<>>, data |-> ""]

UTF8 == 83951617
UTF16 == 65801

-----------------------------------------------------------------------------
(* The profiles of the sockets that the ORB listens on; a server is its    *)
(* protocol, host, service (a port where it is IPv4) and whether it has SSL*)
WithServer(l, s) ==
  LET tag == IF s.proto = "IPv4" THEN "INTERNET_IOP" ELSE "GENERIC_IOP"
      met == {i \in DOMAIN l : l[i].tag = tag
                               /\ (tag = "INTERNET_IOP" \/ l[i].proto = s.proto)}
      at == IF met = {} THEN Len(l) + 1 ELSE Min(met)
      p == IF met # {} THEN l[at]
           ELSE IF s.proto = "IPv4" THEN [Profile(tag) EXCEPT !.host = s.host]
           ELSE [Profile(tag) EXCEPT !.host = s.host, !.proto = s.proto,
                                     !.version = s.version]
      secure == CASE s.proto = "IPv4" ->
                       [Component("SSL_SEC_TRANS") EXCEPT
                          !.supports = 6, !.requires = 6, !.port = s.port]
                  [] OTHER -> [Component("GENERIC_SSL_SEC_TRANS") EXCEPT
                                 !.service = s.service]
      full == CASE s.ssl -> [p EXCEPT !.components = Append(@, secure)]
                [] s.proto = "IPv4" /\ ~ s.ssl ->
                     [p EXCEPT !.port = s.port, !.version = s.version]
                [] OTHER -> [p EXCEPT !.service = s.service]
  IN IF met = {} THEN Append(l, full) ELSE [l EXCEPT ![at] = full]

IOP_start_profiles(servers) ==
  LET local == SelectSeq(servers, LAMBDA s : s.proto = "UNIX")
      osi == [Profile("MATECORBA_SPECIFIC") EXCEPT !.path = local[1].service]
      codesets == [Component("CODE_SETS") EXCEPT !.chars = UTF8, !.wchars = UTF16]
      keys == IF servers = <<>> THEN <<>> ELSE <<Component("COMPLETE_OBJECT_KEY")>>
  IN FoldLeft(WithServer, <<>>, servers)
       \o (IF local = <<>> THEN <<>> ELSE <<osi>>)
       \o <<[Profile("MULTIPLE_COMPONENTS") EXCEPT
               !.components = Append(keys, codesets)]>>

-----------------------------------------------------------------------------
(* The key that profiles bring with them is kept once, for the reference.  *)
KeysOf(p) ==
  CASE p.tag \in {"INTERNET_IOP", "MATECORBA_SPECIFIC"} -> p.key
    [] p.tag = "MULTIPLE_COMPONENTS" ->
         FoldLeft(LAMBDA acc, c :
                    IF c.tag = "COMPLETE_OBJECT_KEY" THEN acc \o c.key ELSE acc,
                  <<>>, p.components)
    [] OTHER -> <<>>

Keyless(p) ==
  CASE p.tag \in {"INTERNET_IOP", "MATECORBA_SPECIFIC"} -> [p EXCEPT !.key = <<>>]
    [] p.tag = "MULTIPLE_COMPONENTS" ->
         [p EXCEPT !.components = [i \in DOMAIN @ |->
            IF @[i].tag = "COMPLETE_OBJECT_KEY" THEN [@[i] EXCEPT !.key = <<>>]
            ELSE @[i]]]
    [] OTHER -> p

IOP_profiles_sync_objkey(profiles) ==
  LET keys == FoldLeft(LAMBDA acc, p : acc \o KeysOf(p), <<>>, profiles) IN
  [key |-> IF keys = <<>> THEN <<>> ELSE <<keys[1]>>,
   profiles |-> [i \in DOMAIN profiles |-> Keyless(profiles[i])]]

(* Two profiles that lead to the same place.  A generic profile counts only*)
(* where one of the references has a profile of components.                *)
IOP_profile_equal(ref1, ref2, p, q) ==
  LET mci(ref) == \E i \in DOMAIN ref.profiles :
                    ref.profiles[i].tag = "MULTIPLE_COMPONENTS"
  IN p.tag = q.tag /\
     CASE p.tag = "INTERNET_IOP" -> p.port = q.port /\ p.host = q.host
       [] p.tag = "GENERIC_IOP" ->
            /\ mci(ref1) \/ mci(ref2)
            /\ p.service = q.service /\ p.host = q.host /\ p.proto = q.proto
       [] p.tag = "MATECORBA_SPECIFIC" -> p.port = q.port /\ p.path = q.path
       [] OTHER -> FALSE

(* Where a connection for the profile goes: without SSL support, or none.  *)
IOP_profile_get_info(p) ==
  CASE p.tag = "INTERNET_IOP" -> <<"IPv4", p.host, ToString(p.port)>>
    [] p.tag = "GENERIC_IOP" -> <<p.proto, p.host, p.service>>
    [] p.tag = "MATECORBA_SPECIFIC" /\ p.path # "" -> <<"UNIX", "", p.path>>
    [] OTHER -> <<>>

-----------------------------------------------------------------------------
(* Writing.                                                                *)
ObjectKey_marshal(w, key) == PutRaw(Put(w, 4, Len(key), ""), Len(key), 0, key)

CodeSets_marshal(w, native, conversions) ==
  FoldLeft(LAMBDA acc, n : PutRaw(acc, 4, n, ""),
           Put(Put(w, 4, native, ""), 4, Len(conversions), ""), conversions)

EndianOctet(w) == PutRaw(w, 1, 0, "endian")

(* What follows the field for its length, which is written last.           *)
Measured(w, marker, body) ==
  [body EXCEPT !.cells[Len(w.cells) + 1].num = body.pos - marker.pos]

Component_marshal(obj, w, c) ==
  LET tagged == Put(w, 4, 0, c.tag)
      marker == Put(tagged, 4, 0, "")
      inside == EndianOctet(marker)
  IN CASE c.tag = "GENERIC_SSL_SEC_TRANS" ->
            Measured(tagged, marker, PutString(inside, c.service))
       [] c.tag = "SSL_SEC_TRANS" ->
            Measured(tagged, marker,
                     PutRaw(PutRaw(Put(inside, 4, c.supports, ""),
                                   4, c.requires, ""), 2, c.port, ""))
       [] c.tag = "CODE_SETS" ->
            Measured(tagged, marker,
                     CodeSets_marshal(CodeSets_marshal(inside, c.chars, c.charsets),
                                      c.wchars, c.wcharsets))
       [] c.tag = "COMPLETE_OBJECT_KEY" -> ObjectKey_marshal(tagged, obj.key)
       [] OTHER -> PutRaw(PutRaw(tagged, 4, Len(c.data), ""), Len(c.data), 0, c.data)

IOP_components_marshal(obj, w, components) ==
  FoldLeft(LAMBDA acc, c : Component_marshal(obj, acc, c),
           Put(w, 4, Len(components), ""), components)

INTERNET_IOP_marshal(obj, w, p) ==
  LET port == Put(PutString(PutRaw(w, 2, 0, p.version), p.host), 2, p.port, "") IN
  IOP_components_marshal(obj, ObjectKey_marshal(port, obj.key), p.components)

MATECORBA_SPECIFIC_marshal(obj, w, p) ==
  LET path == PutString(PutRaw(w, 2, 0, "1.2"), p.path) IN
  ObjectKey_marshal(Put(path, 2, p.port, ""), obj.key)

GENERIC_IOP_marshal(obj, w, p) ==
  LET names == PutString(PutString(PutRaw(w, 2, 0, p.version), p.proto), p.host)
  IN IOP_components_marshal(obj, PutString(names, p.service), p.components)

IOP_profile_marshal(obj, w, p) ==
  LET tagged == Put(w, 4, 0, p.tag)
      marker == Put(tagged, 4, 0, "")
      inside == EndianOctet(marker)
  IN Measured(tagged, marker,
       CASE p.tag = "INTERNET_IOP" -> INTERNET_IOP_marshal(obj, inside, p)
         [] p.tag = "MATECORBA_SPECIFIC" -> MATECORBA_SPECIFIC_marshal(obj, inside, p)
         [] p.tag = "GENERIC_IOP" -> GENERIC_IOP_marshal(obj, inside, p)
         [] p.tag = "MULTIPLE_COMPONENTS" ->
              IOP_components_marshal(obj, inside, p.components)
         [] OTHER -> PutRaw(marker, Len(p.data), 0, p.data))

MateCORBA_marshal_object(obj, w) ==
  FoldLeft(LAMBDA acc, p : IOP_profile_marshal(obj, acc, p),
           Put(PutString(w, obj.type), 4, Len(obj.profiles), ""), obj.profiles)

-----------------------------------------------------------------------------
(* Reading: s.r is the reader and s.it what is being made.                 *)
WithNumber(it, field, g) == [r |-> g.r, it |-> [it EXCEPT ![field] = g.num]]
WithString(it, field, g) == [r |-> g.r, it |-> [it EXCEPT ![field] = g.str]]
WithKey(it, g) == [r |-> g.r, it |-> [it EXCEPT !.key = <<g.str>>]]
Added(it, field, g, value) ==
  [r |-> g.r, it |-> [it EXCEPT ![field] = Append(@, value)]]

GotNumber(s, size, field) == WithNumber(s.it, field, CDR_get(s.r, size))
GotString(s, field) == WithString(s.it, field, CDR_get_const_string(s.r))
GotKey(s) == WithKey(s.it, CDR_get_const_string(s.r))
GotVersion(s) == WithString(s.it, "version", GetRaw(s.r, s.r.cur, 2))

(* The buffer for an encapsulation, behind its byte order, and the reader  *)
(* behind it.                                                              *)
EncapsulationAt(l, end) ==
  [sub |-> [l.r EXCEPT !.cur = @ + 1, !.end = l.r.cur + l.num,
                       !.ok = @ /\ l.r.cur + l.num <= end],
   r |-> [l.r EXCEPT !.cur = @ + l.num]]
use_encaps_buf(r) == EncapsulationAt(CDR_get(r, 4), r.end)
Unused(e, s) == [r |-> [e.r EXCEPT !.ok = @ /\ s.r.ok], it |-> s.it]

Conversion(s, conversions, g) == Added(s.it, conversions, g, g.num)
Conversions(it, conversions, count) ==
  FoldLeft(LAMBDA s, i : Conversion(s, conversions, CDR_get(s.r, 4)),
           [r |-> count.r, it |-> it], [i \in 1 .. count.num |-> i])
NativeGot(s, conversions) == Conversions(s.it, conversions, CDR_get(s.r, 4))
CodeSets_demarshal(s, native, conversions) ==
  NativeGot(GotNumber(s, 4, native), conversions)

InComponent(tag, e) ==
  LET s == [r |-> e.sub, it |-> Component(tag)] IN
  Unused(e,
    CASE tag = "GENERIC_SSL_SEC_TRANS" -> GotString(s, "service")
      [] tag = "SSL_SEC_TRANS" ->
           GotNumber(GotNumber(GotNumber(s, 4, "supports"), 4, "requires"), 2, "port")
      [] tag = "CODE_SETS" ->
           CodeSets_demarshal(CodeSets_demarshal(s, "chars", "charsets"),
                              "wchars", "wcharsets"))
TaggedComponent(id) ==
  CASE id.str = "COMPLETE_OBJECT_KEY" -> GotKey([r |-> id.r, it |-> Component(id.str)])
    [] id.str \in {"GENERIC_SSL_SEC_TRANS", "SSL_SEC_TRANS", "CODE_SETS"} ->
         InComponent(id.str, use_encaps_buf(id.r))
    [] OTHER -> GotString([r |-> id.r, it |-> Component(id.str)], "data")
Component_demarshal(r) == TaggedComponent(CDR_get(r, 4))

WithComponent(it, c) == Added(it, "components", c, c.it)
Components(it, count) ==
  FoldLeft(LAMBDA s, i : WithComponent(s.it, Component_demarshal(s.r)),
           [r |-> count.r, it |-> it], [i \in 1 .. count.num |-> i])
IOP_components_demarshal(s) == Components(s.it, CDR_get(s.r, 4))

(* Components are what version 1.0 does not have.                          *)
ComponentsOf(s) == IF s.it.version = "1.0" THEN s ELSE IOP_components_demarshal(s)
INTERNET_IOP_demarshal(s) ==
  ComponentsOf(GotKey(GotNumber(GotString(GotVersion(s), "host"), 2, "port")))

MATECORBA_SPECIFIC_demarshal(s) ==
  GotKey(GotNumber(GotString([s EXCEPT !.r.cur = @ + 2], "path"), 2, "port"))

GENERIC_IOP_demarshal(s) ==
  IOP_components_demarshal(
    GotString(GotString(GotString(GotVersion(s), "proto"), "host"), "service"))

InProfile(tag, e) ==
  LET s == [r |-> e.sub, it |-> Profile(tag)] IN
  Unused(e, CASE tag = "INTERNET_IOP" -> INTERNET_IOP_demarshal(s)
              [] tag = "MULTIPLE_COMPONENTS" -> IOP_components_demarshal(s)
              [] tag = "GENERIC_IOP" -> GENERIC_IOP_demarshal(s)
              [] tag = "MATECORBA_SPECIFIC" -> MATECORBA_SPECIFIC_demarshal(s))
TaggedProfile(id) ==
  IF id.str \in {"INTERNET_IOP", "MULTIPLE_COMPONENTS", "GENERIC_IOP",
                 "MATECORBA_SPECIFIC"}
  THEN InProfile(id.str, use_encaps_buf(id.r))
  ELSE GotString([r |-> id.r, it |-> Profile(id.str)], "data")
IOP_profile_demarshal(r) == TaggedProfile(CDR_get(r, 4))

Nil == [type |-> "", key |-> "", profiles |-> <<>>]

WithProfile(it, p) == Added(it, "profiles", p, p.it)
Profiles(it, count) ==
  FoldLeft(LAMBDA s, i : WithProfile(s.it, IOP_profile_demarshal(s.r)),
           [r |-> count.r, it |-> it], [i \in 1 .. count.num |-> i])
OfType(type) == Profiles([Nil EXCEPT !.type = type.str], CDR_get(type.r, 4))
MateCORBA_demarshal_IOR(r) == OfType(CDR_get_const_string(r))

(* The reference is found or made, and owns the key (MateCORBA_objref_find)*)
Owning(type, synced) ==
  [type |-> type, key |-> IF synced.key = <<>> THEN "" ELSE synced.key[1],
   profiles |-> synced.profiles]
Demarshalled(d) ==
  [r |-> d.r,
   obj |-> IF d.it = Nil THEN Nil
           ELSE Owning(d.it.type, IOP_profiles_sync_objkey(d.it.profiles))]
MateCORBA_demarshal_object(r) == Demarshalled(MateCORBA_demarshal_IOR(r))

(* A string is a message of its own, behind the octet of its byte order.   *)
CORBA_ORB_object_to_string(obj) ==
  MateCORBA_marshal_object(obj, EndianOctet(NewWriter(0)))
CORBA_ORB_string_to_object(w) ==
  MateCORBA_demarshal_object([NewReader(w, 0) EXCEPT !.cur = 1])

-----------------------------------------------------------------------------
(* Copies: lists are built from their ends, and the code sets stay empty.  *)
IOP_component_copy(c) ==
  CASE c.tag = "CODE_SETS" -> Component(c.tag)
    [] OTHER -> c
IOP_profile_copy(p) ==
  [p EXCEPT !.components = Reverse([i \in DOMAIN @ |-> IOP_component_copy(@[i])])]
IOP_profiles_copy(profiles) ==
  Reverse([i \in DOMAIN profiles |-> IOP_profile_copy(profiles[i])])

-----------------------------------------------------------------------------
(* A corbaloc: places separated by commas.  The text is split where the    *)
(* last '/' stands, so that a key behind another place is a part of that   *)
(* place's port.  version "" and port -1 are not in the text.              *)
Place(scheme, version, host, port, key) ==
  [scheme |-> scheme, version |-> version, host |-> host, port |-> port, key |-> key]

SslPorts(p) ==
  LET c == SelectSeq(p.components, LAMBDA x : x.tag = "SSL_SEC_TRANS") IN
  IF c = <<>> THEN <<>> ELSE <<c[1].port>>

PlaceOf(p, key) ==
  CASE p.tag = "INTERNET_IOP" /\ SslPorts(p) # <<>> ->
         <<Place("ssliop", p.version, p.host, SslPorts(p)[1], <<key>>)>>
    [] p.tag = "INTERNET_IOP" /\ SslPorts(p) = <<>> ->
         <<Place("iiop", p.version, p.host, p.port, <<key>>)>>
    [] p.tag = "MATECORBA_SPECIFIC" ->
         <<Place("uiop", "", p.path, IF p.port = 0 THEN -1 ELSE p.port, <<key>>)>>
    [] OTHER -> <<>>

MateCORBA_corbaloc_from(profiles, key) ==
  FoldLeft(LAMBDA acc, p : acc \o PlaceOf(p, key), <<>>, profiles)

corbaloc_profile_iiop(place, key) ==
  LET ssl == place.scheme \in {"iiops", "ssliop"}
      version == IF place.version # "" THEN place.version
                 ELSE IF ssl THEN "1.1" ELSE "1.0"
      port == IF place.port = -1 THEN 2809 ELSE place.port
      secure == [Component("SSL_SEC_TRANS") EXCEPT
                   !.supports = 126, !.requires = 6, !.port = port]
      p == [Profile("INTERNET_IOP") EXCEPT
              !.version = version, !.host = place.host, !.key = <<key>>,
              !.port = IF ssl THEN 0 ELSE port,
              !.components = IF ssl THEN <<secure>> ELSE <<>>]
  IN IF version \notin Versions \/ place.host = "" \/ port \notin 0 .. 65535
        \/ (ssl /\ version = "1.0")
     THEN <<>> ELSE <<p>>

corbaloc_profile_uiop(place, key) ==
  LET port == IF place.port = -1 THEN 0 ELSE place.port IN
  IF place.host = "" \/ port \notin 0 .. 65535 THEN <<>>
  ELSE <<[Profile("MATECORBA_SPECIFIC") EXCEPT
            !.path = place.host, !.port = port, !.key = <<key>>]>>

(* The profiles, none of them where one place or the key is wrong.         *)
MateCORBA_corbaloc_parse(places) ==
  LET key == IF places = <<>> THEN <<>> ELSE Last(places).key
      parsed(place) ==
        CASE place.scheme = "uiop" -> corbaloc_profile_uiop(place, key[1])
          [] place.scheme \in {"", "iiop", "iiops", "ssliop"} ->
               corbaloc_profile_iiop(place, key[1])
          [] OTHER -> <<>>
      all == [i \in DOMAIN places |->
                IF i < Len(places) /\ places[i].key # <<>> THEN <<>>
                ELSE parsed(places[i])]
  IN IF key = <<>> \/ \E i \in DOMAIN all : all[i] = <<>> THEN <<>>
     ELSE FlattenSeq(all)

ObjectAt(profiles) ==
  IF profiles = <<>> THEN Nil ELSE Owning("", IOP_profiles_sync_objkey(profiles))
MateCORBA_object_by_corbaloc(places) == ObjectAt(MateCORBA_corbaloc_parse(places))
=============================================================================
