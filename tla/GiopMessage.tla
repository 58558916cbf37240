---------------------------- MODULE GiopMessage ----------------------------
(***************************************************************************)
(* The headers of the messages of each version of GIOP, as                 *)
(* giop-send-buffer.c writes them and giop-recv-buffer.c reads them.  A    *)
(* header is its type and version and what the type has of an id, a flag   *)
(* for the response, an object key, an operation and a status.  The common *)
(* header of twelve bytes is left out but for its length: offsets count    *)
(* from its start.                                                         *)
(***************************************************************************)
EXTENDS AnyValue

HeaderSize == 12

Header(type, version, id) ==
  [type |-> type, version |-> version, id |-> id, expected |-> FALSE, key |-> "",
   operation |-> "", status |-> 0]

Align(w, boundary) == [w EXCEPT !.pos = Up(@, boundary)]
Skip(r, boundary) == [r EXCEPT !.cur = Up(@, boundary)]

-----------------------------------------------------------------------------
(* The one service context that is sent, for the code sets: its octets are *)
(* the byte order, UTF-8 and UTF-16.                                       *)
CodeSets == <<1, 1, 1, 1, 1, 0, 1, 5, 9, 1, 1, 0>>

PutContexts(w) ==
  FoldLeft(LAMBDA acc, octet : PutRaw(acc, 1, octet, ""),
           PutRaw(PutRaw(PutRaw(w, 4, 1, ""), 4, 1, ""), 4, Len(CodeSets), ""),
           CodeSets)

PutKey(w, key) == PutRaw(Put(w, 4, Len(key), ""), Len(key), 0, key)

PutOperation(w, name) ==
  Align(PutRaw(PutRaw(Align(w, 4), 4, Len(name) + 1, ""), Len(name) + 1, 0, name), 4)

PutTarget(w, key) == PutKey(PutRaw(w, 2, 0, "KeyAddr"), key)

use_request(w, h) ==
  IF h.version # "1.2"
  THEN LET id == PutRaw(PutContexts(Align(w, 4)), 4, h.id, "")
           flag == PutRaw(id, 1, IF h.expected THEN 1 ELSE 0, "")
       IN PutRaw(PutOperation(PutKey(flag, h.key), h.operation), 4, 0, "")
  ELSE LET id == PutRaw(Align(w, 4), 4, h.id, "")
           flags == PutRaw(id, 1, IF h.expected THEN 3 ELSE 0, "")
           target == PutTarget(PutRaw(flags, 3, 0, ""), h.key)
       IN Align(PutContexts(PutOperation(target, h.operation)), 8)

use_replyUnversioned(w, h) ==
  Align(PutRaw(PutRaw(PutContexts(w), 4, h.id, ""), 4, h.status, ""), 8)
use_reply(w, h) ==
  IF h.version # "1.2"
  THEN PutRaw(PutRaw(PutContexts(w), 4, h.id, ""), 4, h.status, "")
  ELSE Align(PutContexts(PutRaw(PutRaw(w, 4, h.id, ""), 4, h.status, "")), 8)

use_locate_request(w, h) ==
  LET id == PutRaw(w, 4, h.id, "") IN
  IF h.version # "1.2" THEN PutKey(id, h.key) ELSE PutTarget(id, h.key)

use_locate_reply(w, h) == PutRaw(PutRaw(w, 4, h.id, ""), 4, h.status, "")

(* CLOSECONNECTION and MESSAGEERROR have no header of their own.           *)
giop_send_buffer_use(h) ==
  LET w == NewWriter(HeaderSize) IN
  CASE h.type = "REQUEST" -> use_request(w, h)
    [] h.type = "REPLY" -> use_reply(w, h)
    [] h.type = "LOCATEREQUEST" -> use_locate_request(w, h)
    [] h.type = "LOCATEREPLY" -> use_locate_reply(w, h)
    [] OTHER -> w

-----------------------------------------------------------------------------
(* Reading.  The list of service contexts is read by its type code.        *)
Compound(kind, align, sub) ==
  [MateCORBA_TypeCode_allocate(0) EXCEPT !.kind = kind, !.align = align, !.sub = sub]
TC_IOP_ServiceContextList ==
  Compound("sequence", 8,
    <<Compound("struct", 8,
        <<Basic("ulong"), Compound("sequence", 8, <<Basic("octet")>>)>>)>>)

ServiceContextList_demarshal(r) ==
  demarshal_value(TC_IOP_ServiceContextList, <<>>, 0, r).r

WithKey(h, g) == [r |-> g.r, h |-> [h EXCEPT !.key = g.str]]
GotKey(d) == WithKey(d.h, Following(GetRaw(d.r, d.r.cur, 4)))

(* Any other kind of address than a key is refused.                        *)
AtAddress(d, kind) ==
  IF kind.str # "KeyAddr" THEN [d EXCEPT !.r.ok = FALSE]
  ELSE GotKey([d EXCEPT !.r = Skip(kind.r, 4)])
TargetAddress_demarshal(d) == AtAddress(d, GetRaw(d.r, Up(d.r.cur, 2), 2))

(* The flag is an octet of the four bytes it is read from.                 *)
WithFlag(h, g) ==
  [r |-> [g.r EXCEPT !.cur = @ + 3], h |-> [h EXCEPT !.expected = g.num # 0]]
GotFlag(d) == WithFlag(d.h, GetRaw(d.r, d.r.cur, 1))

WithId(h, g) == [r |-> g.r, h |-> [h EXCEPT !.id = g.num]]
GotId(d) == WithId(d.h, GetRaw(d.r, Up(d.r.cur, 4), 4))
WithStatus(h, g) == [r |-> g.r, h |-> [h EXCEPT !.status = g.num]]
GotStatus(d) == WithStatus(d.h, GetRaw(d.r, d.r.cur, 4))
WithOperation(h, g) == [r |-> g.r, h |-> [h EXCEPT !.operation = g.str]]
GotOperation(d) == WithOperation(d.h, CDR_get_const_string(d.r))
GotContexts(d) == [d EXCEPT !.r = ServiceContextList_demarshal(@)]

(* The principal of a request is passed over.                              *)
Passed(length) == [length.r EXCEPT !.cur = @ + length.num]
GotPrincipal(d) == [d EXCEPT !.r = Passed(CDR_get(@, 4))]

request_1_1(d) ==
  GotPrincipal(GotOperation(GotKey(GotFlag(GotId(GotContexts(d))))))
request_1_2(d) ==
  [GotContexts(GotOperation(TargetAddress_demarshal(GotFlag(GotId(d)))))
   EXCEPT !.r = Skip(@, 8)]
reply_1_1(d) == GotStatus(GotId(GotContexts(d)))
reply_1_2(d) == [GotContexts(GotStatus(GotId(d))) EXCEPT !.r = Skip(@, 8)]
locate_request_1_1(d) == GotKey(GotId(d))
locate_request_1_2(d) == TargetAddress_demarshal(GotId(d))
locate_reply(d) == GotStatus(GotId(d))

(* The header of a message of that type and version, and the reader at its *)
(* body.                                                                   *)
giop_recv_buffer_demarshal(type, version, w) ==
  LET d == [r |-> NewReader(w, HeaderSize), h |-> Header(type, version, 0)]
      latest == version = "1.2"
  IN CASE type = "REQUEST" -> IF latest THEN request_1_2(d) ELSE request_1_1(d)
       [] type = "REPLY" -> IF latest THEN reply_1_2(d) ELSE reply_1_1(d)
       [] type = "LOCATEREQUEST" ->
            IF latest THEN locate_request_1_2(d) ELSE locate_request_1_1(d)
       [] type = "LOCATEREPLY" -> locate_reply(d)
       [] OTHER -> d
=============================================================================
