----------------------------- MODULE NameString -----------------------------
(***************************************************************************)
(* Names of the name service as text (name-support.c): "/id.kind/id.kind", *)
(* with a '\' before a '.', a '/' or a '\' that belongs to an id or a kind.*)
(* A text is a sequence of characters; Null is what a wrong text gives.    *)
(***************************************************************************)
EXTENDS Integers, Sequences, SequencesExt

Escaped == {".", "/", "\\"}

NameComponent(id, kind) == [id |-> id, kind |-> kind]
NoText == NameComponent(<<>>, <<>>)
Null == <<NameComponent(<<"NULL">>, <<>>)>>

(* s.used tells that the last component is one, whatever its texts are; an *)
(* escaped character does not set it.                                      *)
Start == [comps |-> <<NoText>>, kinds |-> FALSE, used |-> FALSE,
          escape |-> FALSE, wrong |-> FALSE]

Put1(s, c) ==
  [s EXCEPT !.comps[Len(s.comps)] =
     IF s.kinds THEN [@ EXCEPT !.kind = Append(@, c)]
     ELSE [@ EXCEPT !.id = Append(@, c)]]

Character(s, c) ==
  CASE s.wrong -> s
    [] ~ s.wrong /\ s.escape ->
         [Put1(s, c) EXCEPT !.escape = FALSE, !.wrong = c \notin Escaped]
    [] ~ s.wrong /\ ~ s.escape /\ c = "." ->
         [s EXCEPT !.used = TRUE, !.kinds = TRUE, !.wrong = s.kinds]
    [] ~ s.wrong /\ ~ s.escape /\ c = "/" ->
         [s EXCEPT !.comps = IF s.used THEN Append(@, NoText) ELSE @,
                   !.used = FALSE, !.kinds = FALSE]
    [] ~ s.wrong /\ ~ s.escape /\ c = "\\" -> [s EXCEPT !.escape = TRUE]
    [] OTHER -> [Put1(s, c) EXCEPT !.used = TRUE]

MateCORBA_string_to_CosNaming_Name(text) ==
  LET s == FoldLeft(Character, Start, text) IN
  IF s.wrong \/ s.escape THEN Null
  ELSE IF s.used THEN s.comps ELSE Front(s.comps)

WithEscapes(text) ==
  FoldLeft(LAMBDA acc, c : acc \o (IF c \in Escaped THEN <<"\\", c>> ELSE <<c>>),
           <<>>, text)

MateCORBA_CosNaming_NameComponent_to_string(comp) ==
  IF comp = NoText THEN <<".">>
  ELSE WithEscapes(comp.id)
         \o (IF comp.kind = <<>> THEN <<>> ELSE <<".">> \o WithEscapes(comp.kind))

MateCORBA_CosNaming_Name_to_string(name) ==
  FoldLeft(LAMBDA acc, comp :
             acc \o <<"/">> \o MateCORBA_CosNaming_NameComponent_to_string(comp),
           <<>>, name)
=============================================================================
