--------------------------- MODULE MCConversions ---------------------------
(* Values of every kind of type that has a value, references with every    *)
(* kind of profile and component, and names with characters to escape.     *)
EXTENDS Conversions

M(name, type) == [name |-> name, type |-> type]
Arm(kind, num, name, type) ==
  [name |-> name, type |-> type, label |-> [kind |-> kind, num |-> num]]

\* as the IDL compiler writes them, with their alignment
RECURSIVE Compiled(_)
Compiled(tc) ==
  LET below == [tc EXCEPT !.sub = [i \in DOMAIN @ |-> Compiled(@[i])],
                          !.disc = [i \in DOMAIN @ |-> Compiled(@[i])]]
  IN [below EXCEPT !.align = FindAlignment(below)]

Str == create_bounded_tc(1, "string", 0, <<>>)
WStr == create_bounded_tc(2, "wstring", 0, <<>>)
Point == create_struct_tc(3, "struct", "P",
           <<M("o", Basic("octet")), M("d", Basic("double")), M("s", Basic("short"))>>)
Color == create_enum_tc(4, "C", <<"red", "blue">>)
Either == create_union_tc(5, "U", Basic("long"),
            <<Arm("long", 1, "a", Str), Arm("long", 2, "b", Basic("double")),
              Arm("octet", 0, "c", Basic("octet"))>>)
Tiny == create_union_tc(6, "T", Basic("boolean"),
          <<Arm("boolean", 1, "x", Basic("short"))>>)
Points == create_alias_tc(8, "A", create_bounded_tc(7, "sequence", 0, <<Point>>))
Two == create_bounded_tc(9, "array", 2, <<Either>>)
Iface == create_interface_tc(10, "I")
Bad == create_struct_tc(11, "except", "E", <<M("why", Str), M("more", Basic("any"))>>)
Nest == create_struct_tc(12, "struct", "N",
          <<M("c", Color), M("p", Points), M("q", Point), M("t", Basic("TypeCode")),
            M("u", Either), M("f", Iface), M("w", WStr)>>)
Strs == create_bounded_tc(13, "sequence", 2, <<Str>>)
Longs == create_bounded_tc(14, "sequence", 0, <<Basic("long")>>)
Anys == create_bounded_tc(15, "sequence", 0, <<Basic("any")>>)
Octs == create_bounded_tc(16, "sequence", 0, <<Basic("octet")>>)
Fix == create_fixed_tc(17, 5, 2)

V(num, str, kids, tcs) == [num |-> num, str |-> str, kids |-> kids, tcs |-> tcs]
N(num) == V(num, "", <<>>, <<>>)
S(str) == V(0, str, <<>>, <<>>)
K(kids) == V(0, "", kids, <<>>)
T(tc) == V(0, "", <<>>, <<Compiled(tc)>>)
A(tc, v) == V(0, "", <<v>>, <<Compiled(tc)>>)
U(num, tc, v) == V(num, "", <<v>>, <<Compiled(tc)>>)
P1 == K(<<N(1), N(2), N(3)>>)
P2 == K(<<N(4), N(5), N(6)>>)
U1 == U(1, Str, S("one"))
U2 == U(2, Basic("double"), N(7))
U3 == U(9, Basic("octet"), N(8))

Part(tc, v) == AnyPart(Compiled(tc), v)

Anys1 == {
  Part(Basic("octet"), N(1)), Part(Point, P1), Part(Two, K(<<U1, U2>>)),
  Part(Two, K(<<U3, U1>>)), Part(Points, K(<<P1, P2, P1>>)),
  Part(Tiny, V(0, "", <<>>, <<>>)),
  Part(Bad, K(<<S(""), A(Point, P2)>>)), Part(Bad, K(<<S("no"), A(Color, N(1))>>)),
  Part(Nest, K(<<N(1), K(<<P2>>), P1, T(Fix), U2, N(3), S("wide")>>)),
  Part(Strs, K(<<S("a"), S("bc")>>)), Part(Longs, K(<<N(1), N(2)>>)),
  Part(Anys, K(<<A(Point, P1), A(Str, S("x"))>>)),
  Part(Octs, K(<<N(1), N(2), N(3)>>)), Part(Basic("TypeCode"), T(Nest)),
  Part(Basic("longlong"), N(5))}

Server(proto, host, service, port, ssl) ==
  [proto |-> proto, host |-> host, service |-> service, port |-> port, ssl |-> ssl,
   version |-> "1.2"]
Unix == Server("UNIX", "h", "/s", 0, FALSE)
Inet == Server("IPv4", "h", "90", 90, FALSE)
Inet6 == Server("IPv6", "h6", "91", 91, FALSE)
Secure == Server("IPv4", "h", "92", 92, TRUE)

Obj(type, key, profiles) == [type |-> type, key |-> key, profiles |-> profiles]
Strange ==
  [Ior!Profile("other") EXCEPT !.data = "bytes"]
StrangePart == [Ior!Component("other") EXCEPT !.data = "more"]
Old == [Ior!Profile("INTERNET_IOP") EXCEPT !.host = "old", !.port = 7]
Sets == [Ior!Component("CODE_SETS") EXCEPT
           !.chars = 1, !.charsets = <<2, 3>>, !.wchars = 4]

Refs1 == {
  RefPart(Obj("", "", <<>>)),
  RefPart(Obj("IDL:a", "key", Ior!IOP_start_profiles(<<Unix>>))),
  RefPart(Obj("IDL:a", "key", Ior!IOP_start_profiles(<<Inet, Secure>>))),
  RefPart(Obj("IDL:a", "k", Ior!IOP_start_profiles(<<Inet6, Unix, Inet>>))),
  RefPart(Obj("IDL:b", "k",
              <<Strange, Old, [Ior!Profile("MULTIPLE_COMPONENTS") EXCEPT
                                 !.components = <<StrangePart, Sets>>]>>)),
  RefPart(Obj("IDL:b", "kk",
              <<[Ior!Profile("GENERIC_IOP") EXCEPT
                   !.proto = "IrDA", !.host = "x", !.service = "y",
                   !.components = <<[Ior!Component("GENERIC_SSL_SEC_TRANS") EXCEPT
                                       !.service = "z"]>>], Old>>))}

C(id, kind) == NameComponent(id, kind)
Names1 == {
  NamePart(<<C(<<"a">>, <<>>), C(<<>>, <<>>), C(<<"a">>, <<"a", ".">>)>>),
  NamePart(<<C(<<>>, <<"\\", "/">>), C(<<".", "a", "\\">>, <<>>)>>)}

H(type, version) == [Header(type, version, 4711) EXCEPT !.status = 1]
Call(version, key, operation) ==
  [Header("REQUEST", version, 4711) EXCEPT
     !.expected = TRUE, !.key = key, !.operation = operation]
Locate(version, key) == [Header("LOCATEREQUEST", version, 7) EXCEPT !.key = key]
With(header, samples) == [header |-> header, samples |-> samples]

\* after which every kind of part has each alignment
Few == {Part(Basic("octet"), N(1)), Part(Point, P1),
        RefPart(Obj("IDL:a", "key", Ior!IOP_start_profiles(<<Unix>>)))}

Every ==
  {With(Call("1.2", "key", "echo"), Anys1 \cup Refs1 \cup Names1)}
    \cup {With(h, Few) :
             h \in {Call("1.0", "k", "op"), Call("1.1", "", "get"),
                    [Call("1.2", "keys", "send") EXCEPT !.expected = FALSE],
                    [Call("1.0", "keys", "s") EXCEPT !.expected = FALSE]}
                  \cup {H("REPLY", v) : v \in {"1.0", "1.1", "1.2"}}
                  \cup {H("LOCATEREPLY", v) : v \in {"1.1", "1.2"}}}
    \cup {With(h, {}) : h \in {Locate("1.0", "key"), Locate("1.2", "k"),
                               Header("CLOSECONNECTION", "1.2", 0),
                               Header("MESSAGEERROR", "1.0", 0)}}
=============================================================================
