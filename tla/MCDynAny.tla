------------------------------ MODULE MCDynAny ------------------------------
(* A struct of a number and a sequence of numbers, an enum, a union and    *)
(* aliases; three objects: a value, its component and one of that.         *)
EXTENDS DynAny, TLC

CONSTANTS d1, d2, d3, none

AllKinds == "long" :> "single" @@ "short" :> "single" @@ "seq" :> "sequence"
            @@ "rec" :> "struct" @@ "pair" :> "struct" @@ "colour" :> "enum"
            @@ "alias" :> "alias" @@ "either" :> "union" @@ "row" :> "array"
AllSubtypes == "long" :> << >> @@ "short" :> << >> @@ "seq" :> <<"long">>
                @@ "rec" :> <<"long", "seq">> @@ "pair" :> <<"long", "long">> @@ "colour" :> << >>
                @@ "alias" :> <<"seq">> @@ "either" :> <<"long", "long">>
                @@ "row" :> <<"long">>
KindOf == [t \in Types |-> AllKinds[t]]
SubtypesOf == [t \in Types |-> AllSubtypes[t]]
LengthOfType == [t \in Types |-> IF t \in {"colour", "row"} THEN 2 ELSE 0]

List(types, named, values) == [types |-> types, named |-> named, values |-> values]
One == Leaf(0)
Lists1 == {List(<<"long">>, <<TRUE>>, <<One>>), List(<<"short">>, <<TRUE>>, <<One>>),
           List(<<"long", "long">>, <<TRUE, TRUE>>, <<One, One>>)}
Lists2 == {List(<<"long", "seq">>, <<TRUE, n>>, <<One, Parts(2, <<One>>)>>) : n \in BOOLEAN}
            \cup {List(<<"long", "long">>, <<TRUE, TRUE>>, <<One, One>>)}
RunLists == Lists1 \cup Lists2

\* made by the application: sequences of one and two elements, an enum
Few == [t \in Types |->
  CASE t = "long" -> {One}
    [] t = "seq" -> {Parts(2, <<One, Leaf(0)>>)}
    [] t = "rec" -> {Parts(0, <<One, Parts(1, <<One>>)>>)}
    [] OTHER -> {}]

Symmetry == Permutations({d1, d2, d3})
=============================================================================
