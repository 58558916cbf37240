-------------------------- MODULE NameServer_proofs -------------------------
(***************************************************************************)
(* Proofs about NameServer, for any contexts, names, objects and listings: *)
(* the types, that references are counted right (RefsCounted), that a      *)
(* listing tells everything once (ListedOnce) and that clients see no more *)
(* than Directory promises them (ImplementsDirectory).                     *)
(*                                                                         *)
(* One invariant (Right) serves all of them.  A structure is bound to one  *)
(* key at most (OneKey) and filed under its own name (Named), so that a    *)
(* handler that changes one binding changes one count (Counted).  Since    *)
(* what is counted is not freed, what a listing has still to tell does not *)
(* change while it waits (Reading), nor what a waiting request found as    *)
(* long as it is not freed (Remembered).  Handlers are composed of a few   *)
(* changes - a name is unbound, a structure inserted, a listing opened or  *)
(* read on - and there is one lemma for each change.  The refinement needs *)
(* one thing more of each change: that what everything else stands for is  *)
(* kept (EntriesSteady, UnreadSteady).                                     *)
(***************************************************************************)
EXTENDS NameServer, FiniteSetTheorems, SequenceTheorems, TLAPS

(* The facts below speak of a table T, structures R, listings L and        *)
(* waiting requests K, so that they can be used of the state between two   *)
(* steps of a handler as well.                                             *)
Tables == [Contexts -> [Names -> Bindings \cup {None}]]
Structures == [Bindings -> RegisteredName]
Lists == [Listings -> Listing]

InTable(T, b) == \E c \in Contexts, n \in Names : T[c][n] = b
InLists(L, b) == {l \in Listings : b \in ToSet(L[l].items)}
Once(T, b) == IF InTable(T, b) THEN 1 ELSE 0
Tells(R, b) == <<R[b].nc, R[b].is_subctx>>

OneKey(T) ==
  \A c1, c2 \in Contexts : \A n1, n2 \in Names :
    T[c1][n1] = T[c2][n2] /\ T[c1][n1] # None => c1 = c2 /\ n1 = n2

Named(T, R) ==
  \A c \in Contexts, n \in Names : T[c][n] # None => R[T[c][n]].nc = n

Counted(T, R, L) ==
  \A b \in Bindings : R[b].refcount = Once(T, b) + Cardinality(InLists(L, b))

Filled(R) ==
  \A b \in Bindings :
    R[b].refcount # 0 => R[b].nc \in Names /\ R[b].obj \in Values

NamesApart(R, x) ==
  \A i, j \in DOMAIN x.items : R[x.items[i]].nc = R[x.items[j]].nc => i = j
ToldApart(R, x) ==
  /\ IsInjective(x.told)
  /\ \A t \in ToSet(x.told), b \in ToSet(x.items) : t # Tells(R, b)
ToldOrDue(R, x) ==
  /\ x.state # "destroyed" => x.due = ToSet(x.told) \cup {Tells(R, b) : b \in ToSet(x.items)}
  /\ x.state = "destroyed" => x.told = <<>>
  /\ x.state # "active" => x.items = <<>>
ReadRight(R, x) == NamesApart(R, x) /\ ToldApart(R, x) /\ ToldOrDue(R, x)
Reading(R, L) == \A l \in Listings : ReadRight(R, L[l])

Remembered(R, K) ==
  \A i \in DOMAIN K :
    /\ K[i].op \in {"bind", "bind_context"} => K[i].obj \in Values
    /\ R[K[i].nom].refcount # 0 => R[K[i].nom].obj = K[i].asked

Right(T, R, L, K) ==
  /\ OneKey(T) /\ Named(T, R) /\ Counted(T, R, L)
  /\ Filled(R) /\ Reading(R, L) /\ Remembered(R, K)

IInv == TypeOK /\ Right(table, rn, listing, calls)
-----------------------------------------------------------------------------
(* A structure that is in use after a step was in use before it and tells  *)
(* the same.                                                               *)
Steady(R, R2) ==
  \A b \in Bindings :
    R2[b].refcount # 0 =>
      /\ R[b].refcount # 0 /\ R2[b].nc = R[b].nc /\ R2[b].obj = R[b].obj
      /\ R2[b].is_subctx = R[b].is_subctx

LEMMA InListsFinite ==
  ASSUME NEW L, NEW b
  PROVE  IsFiniteSet(InLists(L, b)) /\ Cardinality(InLists(L, b)) \in Nat
<1>1. InLists(L, b) \subseteq Listings BY DEF InLists
<1> QED BY <1>1, FS_Subset, FS_CardinalityType, NameServerAssumption

(* What a table or a listing points to is in use.                          *)
LEMMA InUse ==
  ASSUME NEW T \in Tables, NEW R \in Structures, NEW L, Counted(T, R, L),
         NEW b \in Bindings
  PROVE  /\ InTable(T, b) => R[b].refcount # 0
         /\ \A l \in Listings : b \in ToSet(L[l].items) => R[b].refcount # 0
<1>1. R[b].refcount = Once(T, b) + Cardinality(InLists(L, b)) BY DEF Counted
<1>2. IsFiniteSet(InLists(L, b)) /\ Cardinality(InLists(L, b)) \in Nat
  BY InListsFinite
<1>3. ASSUME InTable(T, b) PROVE R[b].refcount # 0 BY <1>1, <1>2, <1>3 DEF Once
<1>4. ASSUME NEW l \in Listings, b \in ToSet(L[l].items) PROVE R[b].refcount # 0
  <2>1. l \in InLists(L, b) BY <1>4 DEF InLists
  <2>2. Cardinality(InLists(L, b)) # 0 BY <2>1, <1>2, FS_EmptySet
  <2>3. Once(T, b) \in {0, 1} BY DEF Once
  <2> QED BY <1>1, <1>2, <2>2, <2>3
<1> QED BY <1>3, <1>4

LEMMA FilledSteady ==
  ASSUME NEW R, NEW R2, Filled(R), Steady(R, R2)
  PROVE  Filled(R2)
BY DEF Filled, Steady

LEMMA RememberedSteady ==
  ASSUME NEW R, NEW R2, NEW K \in Seq(Call), Remembered(R, K), Steady(R, R2)
  PROVE  Remembered(R2, K)
<1> SUFFICES ASSUME NEW i \in DOMAIN K
             PROVE  /\ K[i].op \in {"bind", "bind_context"} => K[i].obj \in Values
                    /\ R2[K[i].nom].refcount # 0 => R2[K[i].nom].obj = K[i].asked
  BY DEF Remembered
<1>1. K[i] \in Call OBVIOUS
<1>2. K[i].nom \in Bindings BY <1>1 DEF Call
<1> QED BY <1>2 DEF Remembered, Steady

LEMMA NamedSteady ==
  ASSUME NEW T \in Tables, NEW R \in Structures, NEW R2 \in Structures, NEW L,
         Named(T, R), Steady(R, R2), Counted(T, R2, L)
  PROVE  Named(T, R2)
<1> SUFFICES ASSUME NEW c \in Contexts, NEW n \in Names, T[c][n] # None
             PROVE  R2[T[c][n]].nc = n
  BY DEF Named
<1>1. T[c][n] \in Bindings BY DEF Tables
<1>2. InTable(T, T[c][n]) BY DEF InTable
<1>3. R2[T[c][n]].refcount # 0 BY <1>1, <1>2, InUse
<1> QED BY <1>1, <1>3 DEF Named, Steady

(* A listing is read right as long as the structures that it points to     *)
(* tell what they told.                                                    *)
LEMMA ReadRightSame ==
  ASSUME NEW R, NEW R2, NEW x \in Listing, ReadRight(R, x),
         \A b \in ToSet(x.items) : Tells(R2, b) = Tells(R, b)
  PROVE  ReadRight(R2, x)
<1>1. \A i \in DOMAIN x.items : x.items[i] \in ToSet(x.items) BY DEF ToSet
<1>2. \A i \in DOMAIN x.items : R2[x.items[i]].nc = R[x.items[i]].nc
  BY <1>1 DEF Tells
<1>3. NamesApart(R2, x) BY <1>2 DEF NamesApart, ReadRight
<1>4. ToldApart(R2, x) BY DEF ToldApart, ReadRight
<1>5. {Tells(R2, b) : b \in ToSet(x.items)} = {Tells(R, b) : b \in ToSet(x.items)}
  OBVIOUS
<1>6. ToldOrDue(R2, x) BY <1>5 DEF ToldOrDue, ReadRight
<1> QED BY <1>3, <1>4, <1>6 DEF ReadRight

LEMMA TellsSteady ==
  ASSUME NEW T \in Tables, NEW R \in Structures, NEW R2 \in Structures,
         NEW L \in Lists, Steady(R, R2), Counted(T, R2, L),
         NEW l \in Listings, NEW b \in ToSet(L[l].items)
  PROVE  b \in Bindings /\ R2[b].refcount # 0 /\ Tells(R2, b) = Tells(R, b)
<1>1. L[l].items \in Seq(Bindings) BY DEF Lists, Listing
<1>2. b \in Bindings BY <1>1 DEF ToSet
<1>3. R2[b].refcount # 0 BY <1>2, InUse
<1> QED BY <1>2, <1>3 DEF Steady, Tells

LEMMA ReadingSteady ==
  ASSUME NEW T \in Tables, NEW R \in Structures, NEW R2 \in Structures,
         NEW L \in Lists, Reading(R, L), Steady(R, R2), Counted(T, R2, L)
  PROVE  Reading(R2, L)
<1> SUFFICES ASSUME NEW l \in Listings PROVE ReadRight(R2, L[l]) BY DEF Reading
<1>1. L[l] \in Listing BY DEF Lists
<1>2. ReadRight(R, L[l]) BY DEF Reading
<1>3. \A b \in ToSet(L[l].items) : Tells(R2, b) = Tells(R, b) BY TellsSteady
<1> QED BY <1>1, <1>2, <1>3, ReadRightSame

LEMMA RightSteady ==
  ASSUME NEW T \in Tables, NEW R \in Structures, NEW R2 \in Structures,
         NEW L \in Lists, NEW K \in Seq(Call), Right(T, R, L, K), Steady(R, R2),
         NEW T2 \in Tables, OneKey(T2), Named(T2, R), Counted(T2, R2, L)
  PROVE  Right(T2, R2, L, K)
<1>1. Named(T2, R2) BY NamedSteady
<1>2. Filled(R2) BY FilledSteady DEF Right
<1>3. Reading(R2, L) BY ReadingSteady DEF Right
<1>4. Remembered(R2, K) BY RememberedSteady DEF Right
<1> QED BY <1>1, <1>2, <1>3, <1>4 DEF Right

-----------------------------------------------------------------------------
(* One reference less, for each structure of a set of those in use.        *)
LEMMA UnreffedOne ==
  ASSUME NEW nom \in RegisteredName, nom.refcount # 0
  PROVE  /\ Unreffed(nom) \in RegisteredName
         /\ Unreffed(nom).refcount = nom.refcount - 1
         /\ Unreffed(nom).refcount # 0 =>
              /\ Unreffed(nom).nc = nom.nc /\ Unreffed(nom).obj = nom.obj
              /\ Unreffed(nom).is_subctx = nom.is_subctx
<1>1. CASE nom.refcount = 1
  BY <1>1 DEF Unreffed, Freed, RegisteredName
<1>2. CASE nom.refcount # 1
  <2>1. Unreffed(nom) = [nom EXCEPT !.refcount = nom.refcount - 1]
    BY <1>2 DEF Unreffed, RegisteredName
  <2>2. nom.refcount - 1 \in Nat BY DEF RegisteredName
  <2> QED BY <2>1, <2>2 DEF RegisteredName
<1> QED BY <1>1, <1>2

LEMMA UnreffedAllOf ==
  ASSUME NEW R \in Structures, NEW S, \A b \in S : R[b].refcount # 0
  PROVE  /\ UnreffedAll(R, S) \in Structures
         /\ \A b \in Bindings \cap S : UnreffedAll(R, S)[b].refcount = R[b].refcount - 1
         /\ \A b \in Bindings \ S : UnreffedAll(R, S)[b] = R[b]
         /\ Steady(R, UnreffedAll(R, S))
<1> DEFINE R2 == UnreffedAll(R, S)
<1>1. \A b \in Bindings : R[b] \in RegisteredName BY DEF Structures
<1>2. ASSUME NEW b \in Bindings \cap S
      PROVE  /\ R2[b] = Unreffed(R[b]) /\ R2[b] \in RegisteredName
             /\ R2[b].refcount = R[b].refcount - 1
             /\ R2[b].refcount # 0 =>
                  /\ R2[b].nc = R[b].nc /\ R2[b].obj = R[b].obj
                  /\ R2[b].is_subctx = R[b].is_subctx
  <2>1. R2[b] = Unreffed(R[b]) BY DEF UnreffedAll
  <2>2. R[b] \in RegisteredName /\ R[b].refcount # 0 BY <1>1
  <2> QED BY <2>1, <2>2, UnreffedOne
<1>3. \A b \in Bindings \ S : R2[b] = R[b] BY DEF UnreffedAll
<1>4. R2 \in Structures BY <1>1, <1>2, <1>3 DEF UnreffedAll, Structures
<1>5. Steady(R, R2) BY <1>2, <1>3 DEF Steady
<1> QED BY <1>2, <1>3, <1>4, <1>5

(* A table that lost some of its bindings, each of which loses a reference.*)
LEMMA Dropped ==
  ASSUME NEW T \in Tables, NEW R \in Structures, NEW L \in Lists,
         NEW K \in Seq(Call), Right(T, R, L, K), NEW T2 \in Tables,
         \A c \in Contexts, n \in Names : T2[c][n] \in {T[c][n], None},
         NEW S \in SUBSET Bindings,
         \A b \in Bindings : b \in S <=> InTable(T, b) /\ ~ InTable(T2, b)
  PROVE  UnreffedAll(R, S) \in Structures /\ Right(T2, UnreffedAll(R, S), L, K)
<1> DEFINE R2 == UnreffedAll(R, S)
<1>0. OneKey(T) /\ Named(T, R) /\ Counted(T, R, L) BY DEF Right
<1>1. \A b \in S : R[b].refcount # 0 BY <1>0, InUse
<1>2. /\ R2 \in Structures /\ Steady(R, R2)
      /\ \A b \in Bindings \cap S : R2[b].refcount = R[b].refcount - 1
      /\ \A b \in Bindings \ S : R2[b] = R[b]
  BY <1>1, UnreffedAllOf
<1> HIDE DEF R2
<1>3. ASSUME NEW b \in Bindings
      PROVE  R2[b].refcount = Once(T2, b) + Cardinality(InLists(L, b))
  <2>1. R[b].refcount = Once(T, b) + Cardinality(InLists(L, b)) BY <1>0 DEF Counted
  <2>2. Cardinality(InLists(L, b)) \in Nat BY InListsFinite
  <2>3. InTable(T2, b) => InTable(T, b)
    <3>1. b # None BY NameServerAssumption
    <3> QED BY <3>1 DEF InTable
  <2>4. CASE b \in S
    <3>1. Once(T, b) = 1 /\ Once(T2, b) = 0 BY <2>4 DEF Once
    <3> QED BY <3>1, <2>1, <2>2, <1>2, <2>4
  <2>5. CASE b \notin S
    <3>1. Once(T, b) = Once(T2, b) BY <2>5, <2>3 DEF Once
    <3> QED BY <3>1, <2>1, <2>2, <1>2, <2>5
  <2> QED BY <2>4, <2>5
<1>4. Counted(T2, R2, L) BY <1>3 DEF Counted
<1>5. OneKey(T2)
  <2> SUFFICES ASSUME NEW c1 \in Contexts, NEW c2 \in Contexts, NEW n1 \in Names,
                      NEW n2 \in Names, T2[c1][n1] = T2[c2][n2], T2[c1][n1] # None
               PROVE  c1 = c2 /\ n1 = n2
    BY DEF OneKey
  <2>1. T2[c1][n1] = T[c1][n1] /\ T2[c2][n2] = T[c2][n2] OBVIOUS
  <2>2. T[c1][n1] = T[c2][n2] /\ T[c1][n1] # None BY <2>1
  <2> QED BY <2>2, <1>0 DEF OneKey
<1>6. Named(T2, R)
  <2> SUFFICES ASSUME NEW c \in Contexts, NEW n \in Names, T2[c][n] # None
               PROVE  R[T2[c][n]].nc = n
    BY DEF Named
  <2>1. T2[c][n] = T[c][n] OBVIOUS
  <2> QED BY <2>1, <1>0 DEF Named
<1>7. Right(T2, R2, L, K) BY <1>2, <1>4, <1>5, <1>6, RightSteady
<1> QED BY <1>2, <1>7 DEF R2

(* Whatever is bound to a name of a context is unbound.                    *)
LEMMA UnboundRight ==
  ASSUME NEW T \in Tables, NEW R \in Structures, NEW L \in Lists,
         NEW K \in Seq(Call), Right(T, R, L, K), NEW c \in Contexts, NEW n \in Names
  PROVE  LET d == Unbound([table |-> T, rn |-> R], c, n) IN
         /\ d.table \in Tables /\ d.rn \in Structures /\ Right(d.table, d.rn, L, K)
         /\ d.table[c][n] = None
         /\ \A x \in Contexts, y \in Names : x # c \/ y # n => d.table[x][y] = T[x][y]
<1> DEFINE d == Unbound([table |-> T, rn |-> R], c, n)
           T2 == [T EXCEPT ![c] = [@ EXCEPT ![n] = None]]
           b0 == T[c][n]
<1>1. CASE T[c][n] = None
  <2>1. d = [table |-> T, rn |-> R] BY <1>1 DEF Unbound
  <2> QED BY <1>1, <2>1
<1>2. CASE T[c][n] # None
  <2>1. d = [table |-> T2, rn |-> UnreffedAll(R, {b0})] BY <1>2 DEF Unbound
  <2>2. b0 \in Bindings BY <1>2 DEF Tables
  <2>3. /\ T2 \in Tables /\ T2[c][n] = None
        /\ \A x \in Contexts, y \in Names : x # c \/ y # n => T2[x][y] = T[x][y]
    BY DEF Tables
  <2> HIDE DEF T2
  <2>4. \A x \in Contexts, y \in Names : T2[x][y] \in {T[x][y], None} BY <2>3
  <2>5. OneKey(T) BY DEF Right
  <2>6. ASSUME NEW b \in Bindings
        PROVE  b \in {b0} <=> InTable(T, b) /\ ~ InTable(T2, b)
    <3>1. b # None BY NameServerAssumption
    <3>2. CASE b = b0
      <4>1. InTable(T, b) BY <3>2 DEF InTable
      <4>2. \A x \in Contexts, y \in Names : T[x][y] = b => x = c /\ y = n
        BY <3>1, <3>2, <2>5 DEF OneKey
      <4>3. ~ InTable(T2, b) BY <4>2, <2>3, <3>1 DEF InTable
      <4> QED BY <4>1, <4>3, <3>2
    <3>3. CASE b # b0
      <4>1. \A x \in Contexts, y \in Names : T[x][y] = b => T2[x][y] = b
        BY <3>3, <2>3
      <4> QED BY <4>1, <3>3 DEF InTable
    <3> QED BY <3>2, <3>3
  <2>7. /\ UnreffedAll(R, {b0}) \in Structures
        /\ Right(T2, UnreffedAll(R, {b0}), L, K)
    <3>1. {b0} \in SUBSET Bindings BY <2>2
    <3> HIDE DEF b0
    <3> QED BY <3>1, <2>3, <2>4, <2>6, Dropped
  <2> QED BY <2>1, <2>3, <2>7
<1> QED BY <1>1, <1>2

(* A new structure is bound to a free name.                                *)
LEMMA InsertedRight ==
  ASSUME NEW T \in Tables, NEW R \in Structures, NEW L \in Lists,
         NEW K \in Seq(Call), Right(T, R, L, K), NEW c \in Contexts, NEW n \in Names,
         T[c][n] = None, NEW v \in Values, NEW sub \in BOOLEAN,
         NEW b \in Bindings, R[b].refcount = 0, \A i \in DOMAIN K : K[i].nom # b
  PROVE  LET d == Inserted([table |-> T, rn |-> R], c, n, v, sub, b) IN
         /\ d.table \in Tables /\ d.rn \in Structures /\ Right(d.table, d.rn, L, K)
         /\ \A x \in Contexts, y \in Names : x # c \/ y # n => d.table[x][y] = T[x][y]
<1> DEFINE d == Inserted([table |-> T, rn |-> R], c, n, v, sub, b)
           T2 == d.table
           R2 == d.rn
           new == [nc |-> n, obj |-> v, is_subctx |-> sub, refcount |-> 1]
<1>0. /\ OneKey(T) /\ Named(T, R) /\ Counted(T, R, L)
      /\ Filled(R) /\ Reading(R, L) /\ Remembered(R, K)
  BY DEF Right
<1>1. T2 = [T EXCEPT ![c] = [@ EXCEPT ![n] = b]] /\ R2 = [R EXCEPT ![b] = new]
  BY DEF Inserted
<1> HIDE DEF T2, R2
<1>2. /\ T2 \in Tables /\ T2[c][n] = b
      /\ \A x \in Contexts, y \in Names : x # c \/ y # n => T2[x][y] = T[x][y]
  BY <1>1 DEF Tables
<1>3. new \in RegisteredName BY DEF RegisteredName, Values
<1>4. /\ R2 \in Structures /\ R2[b] = new
      /\ \A x \in Bindings : x # b => R2[x] = R[x]
  BY <1>1, <1>3 DEF Structures
<1>5. b # None /\ n # None BY NameServerAssumption
<1>6. /\ ~ InTable(T, b)
      /\ \A l \in Listings : b \notin ToSet(L[l].items)
  BY <1>0, InUse
<1>7. OneKey(T2)
  <2> SUFFICES ASSUME NEW c1 \in Contexts, NEW c2 \in Contexts, NEW n1 \in Names,
                      NEW n2 \in Names, T2[c1][n1] = T2[c2][n2], T2[c1][n1] # None
               PROVE  c1 = c2 /\ n1 = n2
    BY DEF OneKey
  <2>1. \A x \in Contexts, y \in Names : T2[x][y] = b => x = c /\ y = n
    BY <1>6, <1>2 DEF InTable
  <2>2. CASE T2[c1][n1] = b
    <3>1. c1 = c /\ n1 = n BY <2>1, <2>2
    <3>2. c2 = c /\ n2 = n BY <2>1, <2>2
    <3> QED BY <3>1, <3>2
  <2>3. CASE T2[c1][n1] # b
    <3>1. T2[c1][n1] = T[c1][n1] /\ T2[c2][n2] = T[c2][n2] BY <2>3, <1>2
    <3>2. T[c1][n1] = T[c2][n2] /\ T[c1][n1] # None BY <3>1
    <3> QED BY <3>2, <1>0 DEF OneKey
  <2> QED BY <2>2, <2>3
<1>8. Named(T2, R2)
  <2> SUFFICES ASSUME NEW x \in Contexts, NEW y \in Names, T2[x][y] # None
               PROVE  R2[T2[x][y]].nc = y
    BY DEF Named
  <2>1. CASE x = c /\ y = n BY <2>1, <1>2, <1>4
  <2>2. CASE x # c \/ y # n
    <3>1. T2[x][y] = T[x][y] /\ T[x][y] \in Bindings BY <2>2, <1>2 DEF Tables
    <3>2. T[x][y] # b BY <1>6 DEF InTable
    <3>3. R[T[x][y]].nc = y BY <3>1, <1>0 DEF Named
    <3> QED BY <3>1, <3>2, <3>3, <1>4
  <2> QED BY <2>1, <2>2
<1>9. ASSUME NEW x \in Bindings
      PROVE  R2[x].refcount = Once(T2, x) + Cardinality(InLists(L, x))
  <2>1. R[x].refcount = Once(T, x) + Cardinality(InLists(L, x)) BY <1>0 DEF Counted
  <2>2. Cardinality(InLists(L, x)) \in Nat BY InListsFinite
  <2>3. CASE x = b
    <3>1. InTable(T2, x) BY <2>3, <1>2 DEF InTable
    <3>2. Once(T2, x) = 1 /\ Once(T, x) = 0 BY <3>1, <2>3, <1>6 DEF Once
    <3>3. R2[x].refcount = 1 /\ R[x].refcount = 0 BY <2>3, <1>4
    <3> QED BY <3>2, <3>3, <2>1, <2>2
  <2>4. CASE x # b
    <3>1. x # None BY NameServerAssumption
    <3>2. \A p \in Contexts, q \in Names : T2[p][q] = x <=> T[p][q] = x
      BY <2>4, <3>1, <1>2
    <3>3. Once(T2, x) = Once(T, x) BY <3>2 DEF Once, InTable
    <3> QED BY <2>1, <2>4, <3>3, <1>4
  <2> QED BY <2>3, <2>4
<1>10. Counted(T2, R2, L) BY <1>9 DEF Counted
<1>11. Filled(R2)
  <2> SUFFICES ASSUME NEW x \in Bindings, R2[x].refcount # 0
               PROVE  R2[x].nc \in Names /\ R2[x].obj \in Values
    BY DEF Filled
  <2>1. CASE x = b BY <2>1, <1>4
  <2>2. CASE x # b BY <2>2, <1>4, <1>0 DEF Filled
  <2> QED BY <2>1, <2>2
<1>12. Reading(R2, L)
  <2> SUFFICES ASSUME NEW l \in Listings PROVE ReadRight(R2, L[l]) BY DEF Reading
  <2>1. L[l] \in Listing /\ ReadRight(R, L[l]) BY <1>0 DEF Lists, Reading
  <2>2. L[l].items \in Seq(Bindings) BY <2>1 DEF Listing
  <2>3. \A x \in ToSet(L[l].items) : x \in Bindings BY <2>2 DEF ToSet
  <2>4. \A x \in ToSet(L[l].items) : Tells(R2, x) = Tells(R, x)
    BY <2>3, <1>6, <1>4 DEF Tells
  <2> QED BY <2>1, <2>4, ReadRightSame
<1>13. Remembered(R2, K)
  <2> SUFFICES ASSUME NEW i \in DOMAIN K
               PROVE  /\ K[i].op \in {"bind", "bind_context"} => K[i].obj \in Values
                      /\ R2[K[i].nom].refcount # 0 => R2[K[i].nom].obj = K[i].asked
    BY DEF Remembered
  <2>1. K[i] \in Call OBVIOUS
  <2>2. K[i].nom \in Bindings /\ K[i].nom # b BY <2>1 DEF Call
  <2>3. R2[K[i].nom] = R[K[i].nom] BY <2>2, <1>4
  <2> QED BY <2>3, <1>0 DEF Remembered
<1>14. Right(T2, R2, L, K) BY <1>7, <1>8, <1>10, <1>11, <1>12, <1>13 DEF Right
<1> QED BY <1>2, <1>4, <1>14 DEF T2, R2

-----------------------------------------------------------------------------
(* A listing that keeps some of the structures that it pointed to; each of *)
(* the others loses a reference.                                           *)
LEMMA ReleasedCounted ==
  ASSUME NEW T \in Tables, NEW R \in Structures, NEW L \in Lists, Counted(T, R, L),
         NEW l \in Listings, NEW x \in Listing, NEW S \in SUBSET Bindings,
         ToSet(L[l].items) = S \cup ToSet(x.items), S \cap ToSet(x.items) = {}
  PROVE  /\ UnreffedAll(R, S) \in Structures /\ Steady(R, UnreffedAll(R, S))
         /\ [L EXCEPT ![l] = x] \in Lists
         /\ Counted(T, UnreffedAll(R, S), [L EXCEPT ![l] = x])
<1> DEFINE R2 == UnreffedAll(R, S)
           L2 == [L EXCEPT ![l] = x]
<1>1. \A b \in S : R[b].refcount # 0 BY InUse
<1>2. /\ R2 \in Structures /\ Steady(R, R2)
      /\ \A b \in Bindings \cap S : R2[b].refcount = R[b].refcount - 1
      /\ \A b \in Bindings \ S : R2[b] = R[b]
  BY <1>1, UnreffedAllOf
<1>3. L2 \in Lists /\ L2[l] = x /\ \A k \in Listings : k # l => L2[k] = L[k]
  BY DEF Lists
<1> HIDE DEF R2, L2
<1>4. ASSUME NEW b \in Bindings
      PROVE  R2[b].refcount = Once(T, b) + Cardinality(InLists(L2, b))
  <2>1. R[b].refcount = Once(T, b) + Cardinality(InLists(L, b)) BY DEF Counted
  <2>2. IsFiniteSet(InLists(L, b)) /\ Cardinality(InLists(L, b)) \in Nat
    BY InListsFinite
  <2>3. Once(T, b) \in {0, 1} BY DEF Once
  <2>4. CASE b \in S
    <3>1. l \in InLists(L, b) /\ l \notin InLists(L2, b) BY <2>4, <1>3 DEF InLists
    <3>2. InLists(L2, b) = InLists(L, b) \ {l} BY <3>1, <1>3 DEF InLists
    <3>3. Cardinality(InLists(L2, b)) = Cardinality(InLists(L, b)) - 1
      <4>1. Cardinality(InLists(L, b) \ {l}) = Cardinality(InLists(L, b)) - 1
        BY <3>1, <2>2, FS_RemoveElement
      <4> QED BY <4>1, <3>2
    <3> QED BY <3>3, <2>1, <2>2, <2>3, <2>4, <1>2
  <2>5. CASE b \notin S
    <3>1. InLists(L2, b) = InLists(L, b) BY <2>5, <1>3 DEF InLists
    <3> QED BY <3>1, <2>1, <2>5, <1>2
  <2> QED BY <2>4, <2>5
<1>5. Counted(T, R2, L2) BY <1>4 DEF Counted
<1> QED BY <1>2, <1>3, <1>5 DEF R2, L2

(* ... and the state stays right, if the listing tells the truth with what *)
(* the structures told before.                                             *)
LEMMA ReleasedRight ==
  ASSUME NEW T \in Tables, NEW R \in Structures, NEW L \in Lists,
         NEW K \in Seq(Call), Right(T, R, L, K),
         NEW l \in Listings, NEW x \in Listing, NEW S \in SUBSET Bindings,
         ToSet(L[l].items) = S \cup ToSet(x.items), S \cap ToSet(x.items) = {},
         ReadRight(R, x)
  PROVE  /\ UnreffedAll(R, S) \in Structures /\ [L EXCEPT ![l] = x] \in Lists
         /\ Right(T, UnreffedAll(R, S), [L EXCEPT ![l] = x], K)
<1> DEFINE R2 == UnreffedAll(R, S)
           L2 == [L EXCEPT ![l] = x]
<1>0. /\ OneKey(T) /\ Named(T, R) /\ Counted(T, R, L)
      /\ Filled(R) /\ Reading(R, L) /\ Remembered(R, K)
  BY DEF Right
<1>1. R2 \in Structures /\ Steady(R, R2) /\ L2 \in Lists /\ Counted(T, R2, L2)
  BY <1>0, ReleasedCounted
<1>2. Reading(R, L2) BY <1>0 DEF Reading, Lists
<1> HIDE DEF R2, L2
<1>3. Reading(R2, L2) BY <1>1, <1>2, ReadingSteady
<1>4. Named(T, R2) BY <1>0, <1>1, NamedSteady
<1>5. Filled(R2) /\ Remembered(R2, K)
  BY <1>0, <1>1, FilledSteady, RememberedSteady
<1>6. Right(T, R2, L2, K) BY <1>0, <1>1, <1>3, <1>4, <1>5 DEF Right
<1> QED BY <1>1, <1>6 DEF R2, L2

-----------------------------------------------------------------------------
(* A listing in any order points to each element of a set once.            *)
LEMMA InSomeOrder ==
  ASSUME NEW B \in SUBSET Bindings, IsFiniteSet(B), NEW s \in SetToSeqs(B)
  PROVE  s \in Seq(Bindings) /\ IsInjective(s) /\ ToSet(s) = B
<1> DEFINE D == 1 .. Cardinality(B)
<1>1. Cardinality(B) \in Nat BY FS_CardinalityType
<1>2. s \in [D -> B] /\ \A i, j \in D : i # j => s[i] # s[j] BY DEF SetToSeqs
<1>3. s \in Seq(Bindings) BY <1>1, <1>2
<1>4. IsInjective(s) BY <1>2 DEF IsInjective
<1>5. s \in Injection(D, B) BY <1>2, <1>4 DEF Injection
<1>6. IsFiniteSet(D) /\ Cardinality(D) = Cardinality(B) BY <1>1, FS_Interval
<1>7. s \in Surjection(D, B) BY <1>5, <1>6, FS_Injection
<1>8. DOMAIN s = D BY <1>2
<1>9. ToSet(s) = B BY <1>2, <1>7, <1>8 DEF ToSet, Surjection
<1> QED BY <1>3, <1>4, <1>9

LEMMA BoundFinite ==
  ASSUME NEW c
  PROVE  Bound(c) \subseteq Bindings /\ IsFiniteSet(Bound(c))
<1> DEFINE values == {table[c][m] : m \in Names}
           f == [m \in Names |-> table[c][m]]
<1>1. f \in Surjection(Names, values) BY DEF Surjection
<1>2. IsFiniteSet(values) BY <1>1, FS_Surjection, NameServerAssumption
<1>3. Bound(c) \subseteq values BY DEF Bound
<1> QED BY <1>2, <1>3, FS_Subset DEF Bound

(* The first n items of a listing are read.                                *)
LEMMA ReadAndLeft ==
  ASSUME NEW items \in Seq(Bindings), NEW n \in 0 .. Len(items)
  PROVE  /\ Read(items, n) \in Seq(Bindings) /\ Len(Read(items, n)) = n
         /\ \A i \in 1 .. n : Read(items, n)[i] = items[i]
         /\ Left(items, n) \in Seq(Bindings) /\ Len(Left(items, n)) = Len(items) - n
         /\ \A i \in 1 .. Len(items) - n : Left(items, n)[i] = items[n + i]
         /\ ToSet(items) = ToSet(Read(items, n)) \cup ToSet(Left(items, n))
         /\ IsInjective(items) => ToSet(Read(items, n)) \cap ToSet(Left(items, n)) = {}
<1> DEFINE len == Len(items)
           r == Read(items, n)
           m == Left(items, n)
<1>1. len \in Nat /\ n \in Nat /\ n <= len BY LenProperties
<1>2. r \in Seq(Bindings) /\ Len(r) = n /\ \A i \in 1 .. n : r[i] = items[i]
  BY <1>1, SubSeqProperties DEF Read
<1>3. /\ m \in Seq(Bindings) /\ Len(m) = len - n
      /\ \A i \in 1 .. len - n : m[i] = items[n + i]
  BY <1>1, SubSeqProperties DEF Left
<1> HIDE DEF r, m
<1>4. DOMAIN items = 1 .. len /\ DOMAIN r = 1 .. n /\ DOMAIN m = 1 .. len - n
  BY <1>2, <1>3, LenProperties
<1> HIDE DEF len
<1>5. ASSUME NEW b \in ToSet(items) PROVE b \in ToSet(r) \cup ToSet(m)
  <2>1. PICK i \in 1 .. len : b = items[i] BY <1>4 DEF ToSet
  <2>2. CASE i <= n
    <3>1. i \in 1 .. n BY <1>1, <2>2
    <3> QED BY <3>1, <2>1, <1>2, <1>4 DEF ToSet
  <2>3. CASE i > n
    <3>1. i - n \in 1 .. len - n /\ n + (i - n) = i BY <1>1, <2>3
    <3> QED BY <3>1, <2>1, <1>3, <1>4 DEF ToSet
  <2> QED BY <1>1, <2>2, <2>3
<1>6. ASSUME NEW b \in ToSet(r) PROVE \E i \in 1 .. len : i <= n /\ b = items[i]
  <2>1. PICK i \in 1 .. n : b = r[i] BY <1>4 DEF ToSet
  <2>2. i \in 1 .. len /\ i <= n BY <1>1
  <2> QED BY <2>1, <2>2, <1>2
<1>7. ASSUME NEW b \in ToSet(m) PROVE \E i \in 1 .. len : i > n /\ b = items[i]
  <2>1. PICK i \in 1 .. len - n : b = m[i] BY <1>4 DEF ToSet
  <2>2. n + i \in 1 .. len /\ n + i > n BY <1>1
  <2> QED BY <2>1, <2>2, <1>3
<1>8. ToSet(items) = ToSet(r) \cup ToSet(m)
  BY <1>4, <1>5, <1>6, <1>7 DEF ToSet
<1>9. ASSUME IsInjective(items), NEW b \in ToSet(r), b \in ToSet(m) PROVE FALSE
  <2>1. PICK i \in 1 .. len : i <= n /\ b = items[i] BY <1>6
  <2>2. PICK j \in 1 .. len : j > n /\ b = items[j] BY <1>7, <1>9
  <2>3. i = j BY <2>1, <2>2, <1>4, <1>9 DEF IsInjective
  <2> QED BY <2>1, <2>2, <2>3, <1>1
<1> QED BY <1>2, <1>3, <1>8, <1>9 DEF r, m, len

(* The first n items of listing y are told to the client.                  *)
ToldOf(R, read) == [i \in DOMAIN read |-> Tells(R, read[i])]
ReadOn(R, y, n, st) ==
  [state |-> st, items |-> Left(y.items, n),
   told |-> y.told \o ToldOf(R, Read(y.items, n)), due |-> y.due]

LEMMA ReadOnTyped ==
  ASSUME NEW R \in Structures, NEW y \in Listing, NEW n \in 0 .. Len(y.items),
         \A b \in ToSet(y.items) : R[b].nc \in Names,
         NEW st \in {"none", "active", "destroyed"}
  PROVE  /\ ToldOf(R, Read(y.items, n)) \in Seq(Names \X BOOLEAN)
         /\ Len(ToldOf(R, Read(y.items, n))) = n
         /\ \A i \in 1 .. n : ToldOf(R, Read(y.items, n))[i] = Tells(R, y.items[i])
         /\ ReadOn(R, y, n, st) \in Listing
<1> DEFINE r == Read(y.items, n)
           t == ToldOf(R, r)
<1>1. /\ y.items \in Seq(Bindings) /\ y.told \in Seq(Names \X BOOLEAN)
      /\ y.due \in SUBSET (Names \X BOOLEAN)
  BY DEF Listing
<1>2. /\ r \in Seq(Bindings) /\ Len(r) = n /\ \A i \in 1 .. n : r[i] = y.items[i]
      /\ Left(y.items, n) \in Seq(Bindings)
      /\ ToSet(r) \subseteq ToSet(y.items)
  BY <1>1, ReadAndLeft
<1>3. DOMAIN r = 1 .. n /\ n \in Nat BY <1>2, LenProperties
<1> HIDE DEF r
<1>4. ASSUME NEW i \in 1 .. n
      PROVE  Tells(R, r[i]) \in Names \X BOOLEAN /\ Tells(R, r[i]) = Tells(R, y.items[i])
  <2>1. r[i] \in ToSet(r) /\ r[i] \in Bindings BY <1>2, <1>3 DEF ToSet
  <2>2. R[r[i]] \in RegisteredName BY <2>1 DEF Structures
  <2>3. R[r[i]].is_subctx \in BOOLEAN BY <2>2 DEF RegisteredName
  <2>4. R[r[i]].nc \in Names BY <2>1, <1>2
  <2> QED BY <2>3, <2>4, <1>2 DEF Tells
<1>5. t = [i \in 1 .. n |-> Tells(R, r[i])] BY <1>3 DEF ToldOf
<1>6. t \in Seq(Names \X BOOLEAN) /\ Len(t) = n BY <1>3, <1>4, <1>5
<1>7. \A i \in 1 .. n : t[i] = Tells(R, y.items[i]) BY <1>4, <1>5
<1> HIDE DEF t
<1>8. y.told \o t \in Seq(Names \X BOOLEAN) BY <1>1, <1>6, ConcatProperties
<1>9. ReadOn(R, y, n, st) \in Listing BY <1>1, <1>2, <1>8 DEF ReadOn, Listing, r, t
<1> QED BY <1>6, <1>7, <1>9 DEF t, r

LEMMA ReadOnRight ==
  ASSUME NEW R \in Structures, NEW y \in Listing, NEW n \in 0 .. Len(y.items),
         \A b \in ToSet(y.items) : R[b].nc \in Names,
         NEW st \in {"none", "active"}, y.state # "destroyed", ReadRight(R, y),
         st # "active" => Left(y.items, n) = <<>>
  PROVE  ReadRight(R, ReadOn(R, y, n, st))
<1> DEFINE x == ReadOn(R, y, n, st)
           t == ToldOf(R, Read(y.items, n))
           m == Left(y.items, n)
           len == Len(y.items)
           tlen == Len(y.told)
<1>1. /\ y.items \in Seq(Bindings) /\ y.told \in Seq(Names \X BOOLEAN)
      /\ len \in Nat /\ tlen \in Nat /\ n \in Nat /\ n <= len
      /\ DOMAIN y.items = 1 .. len /\ DOMAIN y.told = 1 .. tlen
  BY LenProperties DEF Listing
<1>2. /\ NamesApart(R, y) /\ ToldApart(R, y)
      /\ y.due = ToSet(y.told) \cup {Tells(R, b) : b \in ToSet(y.items)}
  BY DEF ReadRight, ToldOrDue
<1>3. /\ x.items = m /\ x.told = y.told \o t /\ x.due = y.due /\ x.state = st
  BY DEF ReadOn
<1>4. /\ m \in Seq(Bindings) /\ Len(m) = len - n
      /\ \A i \in 1 .. len - n : m[i] = y.items[n + i]
      /\ ToSet(y.items) = ToSet(Read(y.items, n)) \cup ToSet(m)
  <2>1. y.items \in Seq(Bindings) /\ n \in 0 .. Len(y.items) BY <1>1
  <2> QED BY <2>1, ReadAndLeft
<1>5. /\ t \in Seq(Names \X BOOLEAN) /\ Len(t) = n
      /\ \A i \in 1 .. n : t[i] = Tells(R, y.items[i])
  BY ReadOnTyped
<1>read. /\ Read(y.items, n) \in Seq(Bindings) /\ Len(Read(y.items, n)) = n
         /\ \A i \in 1 .. n : Read(y.items, n)[i] = y.items[i]
  <2>1. y.items \in Seq(Bindings) /\ n \in 0 .. Len(y.items) BY <1>1
  <2> QED BY <2>1, ReadAndLeft
<1>domain. DOMAIN Read(y.items, n) = 1 .. n BY <1>read, LenProperties
<1> HIDE DEF m, t, x, len, tlen
<1>6. DOMAIN m = 1 .. len - n BY <1>4, LenProperties
<1>7. DOMAIN t = 1 .. n BY <1>5, LenProperties
<1>8. NamesApart(R, x)
  <2> SUFFICES ASSUME NEW i \in 1 .. len - n, NEW j \in 1 .. len - n,
                      R[m[i]].nc = R[m[j]].nc
               PROVE  i = j
    BY <1>3, <1>6 DEF NamesApart
  <2>1. n + i \in 1 .. len /\ n + j \in 1 .. len BY <1>1
  <2>2. R[y.items[n + i]].nc = R[y.items[n + j]].nc BY <1>4
  <2>3. n + i = n + j BY <2>1, <2>2, <1>1, <1>2 DEF NamesApart
  <2> QED BY <2>3, <1>1
<1>9. /\ Len(y.told \o t) = tlen + n /\ y.told \o t \in Seq(Names \X BOOLEAN)
      /\ \A i \in 1 .. tlen : (y.told \o t)[i] = y.told[i]
      /\ \A i \in 1 .. n : (y.told \o t)[tlen + i] = t[i]
  <2>1. /\ Len(y.told \o t) = tlen + n /\ y.told \o t \in Seq(Names \X BOOLEAN)
        /\ \A i \in 1 .. tlen + n :
             (y.told \o t)[i] = IF i <= tlen THEN y.told[i] ELSE t[i - tlen]
    BY <1>1, <1>5, ConcatProperties DEF tlen
  <2>2. \A i \in 1 .. tlen : i \in 1 .. tlen + n /\ i <= tlen BY <1>1
  <2>3. \A i \in 1 .. n : /\ tlen + i \in 1 .. tlen + n /\ ~ (tlen + i <= tlen)
                          /\ (tlen + i) - tlen = i
    BY <1>1
  <2> QED BY <2>1, <2>2, <2>3
<1>10. DOMAIN x.told = 1 .. tlen + n BY <1>3, <1>9, LenProperties
(* What is told now differs from what was told before, and from the rest.  *)
<1>11. ASSUME NEW i \in 1 .. n
       PROVE  /\ t[i] \notin ToSet(y.told)
              /\ \A j \in 1 .. len : t[i] = Tells(R, y.items[j]) => i = j
  <2>1. i \in 1 .. len /\ t[i] = Tells(R, y.items[i]) BY <1>1, <1>5
  <2>2. y.items[i] \in ToSet(y.items) BY <2>1, <1>1 DEF ToSet
  <2>3. t[i] \notin ToSet(y.told) BY <2>1, <2>2, <1>2 DEF ToldApart
  <2>4. ASSUME NEW j \in 1 .. len, t[i] = Tells(R, y.items[j]) PROVE i = j
    <3>1. R[y.items[i]].nc = R[y.items[j]].nc BY <2>1, <2>4 DEF Tells
    <3> QED BY <3>1, <2>1, <1>1, <1>2 DEF NamesApart
  <2> QED BY <2>3, <2>4
<1>12. ASSUME NEW i \in 1 .. tlen + n
       PROVE  \/ i \in 1 .. tlen /\ x.told[i] = y.told[i]
              \/ i - tlen \in 1 .. n /\ x.told[i] = t[i - tlen]
  <2>1. CASE i <= tlen
    <3>1. i \in 1 .. tlen BY <2>1, <1>1
    <3> QED BY <3>1, <1>3, <1>9
  <2>2. CASE i > tlen
    <3>1. i - tlen \in 1 .. n /\ tlen + (i - tlen) = i BY <2>2, <1>1
    <3> QED BY <3>1, <1>3, <1>9
  <2> QED BY <2>1, <2>2, <1>1
<1>13. IsInjective(x.told)
  <2> SUFFICES ASSUME NEW i \in 1 .. tlen + n, NEW j \in 1 .. tlen + n,
                      x.told[i] = x.told[j]
               PROVE  i = j
    BY <1>10 DEF IsInjective
  <2>1. CASE i \in 1 .. tlen /\ x.told[i] = y.told[i]
    <3>1. x.told[i] \in ToSet(y.told) BY <2>1, <1>1 DEF ToSet
    <3>2. ~ (j - tlen \in 1 .. n /\ x.told[j] = t[j - tlen]) BY <3>1, <1>11
    <3>3. j \in 1 .. tlen /\ x.told[j] = y.told[j] BY <3>2, <1>12
    <3>4. y.told[i] = y.told[j] BY <2>1, <3>3
    <3> QED BY <2>1, <3>3, <3>4, <1>1, <1>2 DEF ToldApart, IsInjective
  <2>2. CASE i - tlen \in 1 .. n /\ x.told[i] = t[i - tlen]
    <3>1. x.told[i] \notin ToSet(y.told) BY <2>2, <1>11
    <3>2. ~ (j \in 1 .. tlen /\ x.told[j] = y.told[j]) BY <3>1, <1>1 DEF ToSet
    <3>3. j - tlen \in 1 .. n /\ x.told[j] = t[j - tlen] BY <3>2, <1>12
    <3>4. j - tlen \in 1 .. len /\ t[i - tlen] = Tells(R, y.items[j - tlen])
      <4>1. j - tlen \in 1 .. len BY <3>3, <1>1
      <4>2. t[j - tlen] = Tells(R, y.items[j - tlen]) BY <3>3, <1>5
      <4> QED BY <4>1, <4>2, <2>2, <3>3
    <3>5. i - tlen = j - tlen BY <2>2, <3>4, <1>11
    <3> QED BY <3>5, <1>1
  <2> QED BY <2>1, <2>2, <1>12
<1>14. ASSUME NEW v \in ToSet(x.told)
       PROVE  v \in ToSet(y.told) \/ \E i \in 1 .. n : v = t[i]
  <2>1. PICK i \in 1 .. tlen + n : v = x.told[i] BY <1>10 DEF ToSet
  <2>2. CASE i \in 1 .. tlen /\ x.told[i] = y.told[i] BY <2>1, <2>2, <1>1 DEF ToSet
  <2>3. CASE i - tlen \in 1 .. n /\ x.told[i] = t[i - tlen] BY <2>1, <2>3
  <2> QED BY <2>2, <2>3, <1>12
<1>15. ASSUME NEW b \in ToSet(m) PROVE \E j \in n + 1 .. len : b = y.items[j]
  <2>1. PICK i \in 1 .. len - n : b = m[i] BY <1>6 DEF ToSet
  <2>2. n + i \in n + 1 .. len BY <1>1
  <2> QED BY <2>1, <2>2, <1>4
<1>16. ToldApart(R, x)
  <2> SUFFICES ASSUME NEW v \in ToSet(x.told), NEW b \in ToSet(m), v = Tells(R, b)
               PROVE  FALSE
    BY <1>3, <1>13 DEF ToldApart
  <2>1. PICK j \in n + 1 .. len : b = y.items[j] BY <1>15
  <2>2. CASE v \in ToSet(y.told) BY <2>2, <1>2, <1>4 DEF ToldApart
  <2>3. CASE \E i \in 1 .. n : v = t[i]
    <3>1. PICK i \in 1 .. n : v = t[i] BY <2>3
    <3>2. j \in 1 .. len /\ i # j BY <1>1, <2>1
    <3> QED BY <3>1, <3>2, <2>1, <1>11
  <2> QED BY <2>2, <2>3, <1>14
<1>17. ToSet(x.told) \cup {Tells(R, b) : b \in ToSet(m)} = y.due
  <2>1. ASSUME NEW v \in ToSet(x.told) PROVE v \in y.due
    <3>1. CASE v \in ToSet(y.told) BY <3>1, <1>2
    <3>2. CASE \E i \in 1 .. n : v = t[i]
      <4>1. PICK i \in 1 .. n : v = t[i] BY <3>2
      <4>2. i \in 1 .. len /\ v = Tells(R, y.items[i]) BY <4>1, <1>1, <1>5
      <4>3. y.items[i] \in ToSet(y.items) BY <4>2, <1>1 DEF ToSet
      <4> QED BY <4>2, <4>3, <1>2
    <3> QED BY <3>1, <3>2, <2>1, <1>14
  <2>2. ASSUME NEW b \in ToSet(m) PROVE Tells(R, b) \in y.due BY <1>2, <1>4
  <2>3. ASSUME NEW v \in ToSet(y.told) PROVE v \in ToSet(x.told)
    <3>1. PICK i \in 1 .. tlen : v = y.told[i] BY <1>1 DEF ToSet
    <3>2. i \in 1 .. tlen + n /\ x.told[i] = v BY <3>1, <1>1, <1>3, <1>9
    <3> QED BY <3>2, <1>10 DEF ToSet
  <2>4. ASSUME NEW b \in ToSet(Read(y.items, n)) PROVE Tells(R, b) \in ToSet(x.told)
    <3>1. PICK i \in 1 .. n : b = Read(y.items, n)[i] BY <1>domain DEF ToSet
    <3>2. t[i] = Tells(R, b) BY <3>1, <1>read, <1>5
    <3>3. tlen + i \in 1 .. tlen + n BY <1>1
    <3>4. x.told[tlen + i] = t[i] BY <1>3, <1>9
    <3> QED BY <3>2, <3>3, <3>4, <1>10 DEF ToSet
  <2> QED BY <2>1, <2>2, <2>3, <2>4, <1>2, <1>4
<1>18. ToldOrDue(R, x) BY <1>3, <1>17 DEF ToldOrDue, m
<1> QED BY <1>8, <1>16, <1>18 DEF ReadRight, x

-----------------------------------------------------------------------------
LEMMA ItemsKnown ==
  ASSUME NEW T \in Tables, NEW R \in Structures, NEW L \in Lists,
         NEW K, Right(T, R, L, K), NEW l \in Listings
  PROVE  /\ L[l] \in Listing /\ L[l].items \in Seq(Bindings)
         /\ ReadRight(R, L[l]) /\ IsInjective(L[l].items)
         /\ \A b \in ToSet(L[l].items) : b \in Bindings /\ R[b].nc \in Names
<1>1. L[l] \in Listing /\ ReadRight(R, L[l]) BY DEF Lists, Right, Reading
<1>2. L[l].items \in Seq(Bindings) BY <1>1 DEF Listing
<1>3. IsInjective(L[l].items) BY <1>1 DEF ReadRight, NamesApart, IsInjective
<1>4. ASSUME NEW b \in ToSet(L[l].items) PROVE b \in Bindings /\ R[b].nc \in Names
  <2>1. b \in Bindings BY <1>2 DEF ToSet
  <2>2. Counted(T, R, L) /\ Filled(R) BY DEF Right
  <2>3. R[b].refcount # 0 BY <2>1, <2>2, InUse
  <2> QED BY <2>1, <2>2, <2>3 DEF Filled
<1> QED BY <1>1, <1>2, <1>3, <1>4

(* The first items of a listing are told and released.                     *)
LEMMA ReadOnStep ==
  ASSUME NEW T \in Tables, NEW R \in Structures, NEW L \in Lists,
         NEW K \in Seq(Call), Right(T, R, L, K), NEW l \in Listings,
         NEW n \in 0 .. Len(L[l].items), NEW st \in {"none", "active"},
         L[l].state # "destroyed", st # "active" => Left(L[l].items, n) = <<>>
  PROVE  LET R2 == UnreffedAll(R, ToSet(Read(L[l].items, n)))
             L2 == [L EXCEPT ![l] = ReadOn(R, L[l], n, st)]
         IN  R2 \in Structures /\ L2 \in Lists /\ Right(T, R2, L2, K)
<1> DEFINE x == ReadOn(R, L[l], n, st)
           S == ToSet(Read(L[l].items, n))
<1>1. /\ L[l] \in Listing /\ L[l].items \in Seq(Bindings)
      /\ ReadRight(R, L[l]) /\ IsInjective(L[l].items)
      /\ \A b \in ToSet(L[l].items) : b \in Bindings /\ R[b].nc \in Names
  BY ItemsKnown
<1>2. x \in Listing BY <1>1, ReadOnTyped
<1>3. ReadRight(R, x) BY <1>1, ReadOnRight
<1>4. /\ ToSet(L[l].items) = S \cup ToSet(Left(L[l].items, n))
      /\ S \cap ToSet(Left(L[l].items, n)) = {}
  BY <1>1, ReadAndLeft
<1>5. x.items = Left(L[l].items, n) BY DEF ReadOn
<1>6. S \in SUBSET Bindings BY <1>1, <1>4
<1> HIDE DEF x, S
<1>7. ToSet(L[l].items) = S \cup ToSet(x.items) /\ S \cap ToSet(x.items) = {}
  BY <1>4, <1>5
<1>8. /\ UnreffedAll(R, S) \in Structures /\ [L EXCEPT ![l] = x] \in Lists
      /\ Right(T, UnreffedAll(R, S), [L EXCEPT ![l] = x], K)
  BY <1>2, <1>3, <1>6, <1>7, ReleasedRight
<1> QED BY <1>8 DEF x, S

(* A listing that nobody reads any more.                                   *)
LEMMA EmptiedStep ==
  ASSUME NEW T \in Tables, NEW R \in Structures, NEW L \in Lists,
         NEW K \in Seq(Call), Right(T, R, L, K), NEW l \in Listings
  PROVE  LET R2 == UnreffedAll(R, ToSet(L[l].items))
             L2 == [L EXCEPT ![l] = [Unused EXCEPT !.state = "destroyed"]]
         IN  R2 \in Structures /\ L2 \in Lists /\ Right(T, R2, L2, K)
<1> DEFINE x == [Unused EXCEPT !.state = "destroyed"]
           S == ToSet(L[l].items)
<1>1. x.state = "destroyed" /\ x.items = <<>> /\ x.told = <<>> /\ x.due = {}
  BY DEF Unused
<1>2. Unused \in Listing BY DEF Listing, Unused
<1>3. x \in Listing BY <1>2 DEF Listing
<1> HIDE DEF x
<1>empty. ToSet(<<>>) = {} BY DEF ToSet
<1>4. ReadRight(R, x)
  BY <1>1, <1>empty DEF ReadRight, NamesApart, ToldApart, ToldOrDue, IsInjective
<1>5. S \in SUBSET Bindings BY ItemsKnown
<1>6. S = S \cup ToSet(x.items) /\ S \cap ToSet(x.items) = {} BY <1>1, <1>empty
<1>7. /\ UnreffedAll(R, S) \in Structures /\ [L EXCEPT ![l] = x] \in Lists
      /\ Right(T, UnreffedAll(R, S), [L EXCEPT ![l] = x], K)
  BY <1>3, <1>4, <1>5, <1>6, ReleasedRight
<1> QED BY <1>7 DEF x

(* A reference to each structure that a context points to is taken.        *)
Opened(R, B, items) ==
  [state |-> "active", items |-> items, told |-> <<>>, due |-> {Tells(R, b) : b \in B}]

LEMMA OpenedStep ==
  ASSUME NEW T \in Tables, NEW R \in Structures, NEW L \in Lists,
         NEW K \in Seq(Call), Right(T, R, L, K), NEW l \in Listings,
         L[l].state # "active", NEW c \in Contexts, NEW B \in SUBSET Bindings,
         \A b \in B : \E n \in Names : T[c][n] = b,
         NEW items \in Seq(Bindings), IsInjective(items), ToSet(items) = B
  PROVE  LET R2 == Reffed(R, B)
             L2 == [L EXCEPT ![l] = Opened(R, B, items)]
         IN  R2 \in Structures /\ L2 \in Lists /\ Right(T, R2, L2, K)
<1> DEFINE x == Opened(R, B, items)
           R2 == Reffed(R, B)
           L2 == [L EXCEPT ![l] = x]
<1>0. /\ OneKey(T) /\ Named(T, R) /\ Counted(T, R, L)
      /\ Filled(R) /\ Reading(R, L) /\ Remembered(R, K)
  BY DEF Right
<1>1. /\ x.items = items /\ x.told = <<>> /\ x.state = "active"
      /\ x.due = {Tells(R, b) : b \in B}
  BY DEF Opened
<1>2. ASSUME NEW b \in B
      PROVE  R[b].refcount # 0 /\ R[b].nc \in Names /\ Tells(R, b) \in Names \X BOOLEAN
  <2>1. InTable(T, b) BY DEF InTable
  <2>2. R[b].refcount # 0 BY <2>1, <1>0, InUse
  <2>3. R[b] \in RegisteredName BY DEF Structures
  <2>4. R[b].is_subctx \in BOOLEAN BY <2>3 DEF RegisteredName
  <2> QED BY <2>2, <2>4, <1>0 DEF Filled, Tells
<1>3. x.due \subseteq Names \X BOOLEAN BY <1>1, <1>2
<1>4. x \in Listing BY <1>3 DEF Opened, Listing
<1>5. ASSUME NEW b \in B
      PROVE  /\ R2[b] \in RegisteredName /\ R2[b].refcount = R[b].refcount + 1
             /\ R2[b].nc = R[b].nc /\ R2[b].obj = R[b].obj
             /\ R2[b].is_subctx = R[b].is_subctx
  <2>1. R[b] \in RegisteredName BY DEF Structures
  <2>2. R2[b] = [R[b] EXCEPT !.refcount = R[b].refcount + 1]
    BY <2>1 DEF Reffed, RegisteredName
  <2>3. R[b].refcount + 1 \in Nat BY <2>1 DEF RegisteredName
  <2> QED BY <2>1, <2>2, <2>3 DEF RegisteredName
<1>6. \A b \in Bindings \ B : R2[b] = R[b] BY DEF Reffed
<1>7. R2 \in Structures BY <1>5, <1>6 DEF Reffed, Structures
<1>8. Steady(R, R2) BY <1>2, <1>5, <1>6 DEF Steady
<1>9. L2 \in Lists /\ L2[l] = x /\ \A k \in Listings : k # l => L2[k] = L[k]
  BY <1>4 DEF Lists
<1> HIDE DEF x, R2, L2
<1>10. L[l].items = <<>> BY <1>0 DEF Reading, ReadRight, ToldOrDue
<1>11. ToSet(<<>>) = {} BY DEF ToSet
<1>12. ASSUME NEW b \in Bindings
       PROVE  R2[b].refcount = Once(T, b) + Cardinality(InLists(L2, b))
  <2>1. R[b].refcount = Once(T, b) + Cardinality(InLists(L, b)) BY <1>0 DEF Counted
  <2>2. IsFiniteSet(InLists(L, b)) /\ Cardinality(InLists(L, b)) \in Nat
    BY InListsFinite
  <2>3. Once(T, b) \in {0, 1} BY DEF Once
  <2>4. l \notin InLists(L, b) BY <1>10, <1>11 DEF InLists
  <2>5. CASE b \in B
    <3>1. InLists(L2, b) = InLists(L, b) \cup {l} BY <2>5, <1>1, <1>9 DEF InLists
    <3>2. Cardinality(InLists(L, b) \cup {l}) = Cardinality(InLists(L, b)) + 1
      BY <2>2, <2>4, FS_AddElement
    <3> QED BY <3>1, <3>2, <2>1, <2>2, <2>3, <2>5, <1>5
  <2>6. CASE b \notin B
    <3>1. InLists(L2, b) = InLists(L, b) BY <2>4, <2>6, <1>1, <1>9 DEF InLists
    <3> QED BY <3>1, <2>1, <2>6, <1>6
  <2> QED BY <2>5, <2>6
<1>13. Counted(T, R2, L2) BY <1>12 DEF Counted
<1>14. NamesApart(R, x)
  <2> SUFFICES ASSUME NEW i \in DOMAIN items, NEW j \in DOMAIN items,
                      R[items[i]].nc = R[items[j]].nc
               PROVE  i = j
    BY <1>1 DEF NamesApart
  <2>1. items[i] \in B /\ items[j] \in B BY DEF ToSet
  <2>2. PICK p \in Names : T[c][p] = items[i] BY <2>1
  <2>3. PICK q \in Names : T[c][q] = items[j] BY <2>1
  <2>4. items[i] # None /\ items[j] # None BY <2>1, NameServerAssumption
  <2>5. R[items[i]].nc = p BY <2>2, <2>4, <1>0 DEF Named
  <2>6. R[items[j]].nc = q BY <2>3, <2>4, <1>0 DEF Named
  <2>7. items[i] = items[j] BY <2>2, <2>3, <2>5, <2>6
  <2> QED BY <2>7 DEF IsInjective
<1>15. ToldApart(R, x) BY <1>1, <1>11 DEF ToldApart, IsInjective
<1>16. ToldOrDue(R, x) BY <1>1, <1>11 DEF ToldOrDue
<1>17. Reading(R, L2)
  BY <1>0, <1>9, <1>14, <1>15, <1>16 DEF Reading, ReadRight
<1>18. Reading(R2, L2) BY <1>7, <1>8, <1>9, <1>13, <1>17, ReadingSteady
<1>19. Named(T, R2) BY <1>0, <1>7, <1>8, <1>13, NamedSteady
<1>20. Filled(R2) /\ Remembered(R2, K)
  BY <1>0, <1>8, FilledSteady, RememberedSteady
<1>21. Right(T, R2, L2, K) BY <1>0, <1>13, <1>18, <1>19, <1>20 DEF Right
<1> QED BY <1>7, <1>9, <1>21 DEF R2, L2, x

(* A context drops everything that it binds.                               *)
LEMMA DestroyedStep ==
  ASSUME NEW T \in Tables, NEW R \in Structures, NEW L \in Lists,
         NEW K \in Seq(Call), Right(T, R, L, K), NEW c \in Contexts,
         NEW S \in SUBSET Bindings,
         \A b \in Bindings : b \in S <=> \E n \in Names : T[c][n] = b
  PROVE  LET T2 == [T EXCEPT ![c] = [n \in Names |-> None]]
             R2 == UnreffedAll(R, S)
         IN  T2 \in Tables /\ R2 \in Structures /\ Right(T2, R2, L, K)
<1> DEFINE T2 == [T EXCEPT ![c] = [n \in Names |-> None]]
<1>1. /\ T2 \in Tables /\ \A n \in Names : T2[c][n] = None
      /\ \A x \in Contexts, n \in Names : x # c => T2[x][n] = T[x][n]
  BY DEF Tables
<1> HIDE DEF T2
<1>2. \A x \in Contexts, n \in Names : T2[x][n] \in {T[x][n], None} BY <1>1
<1>3. OneKey(T) BY DEF Right
<1>4. ASSUME NEW b \in Bindings
      PROVE  b \in S <=> InTable(T, b) /\ ~ InTable(T2, b)
  <2>1. b # None BY NameServerAssumption
  <2>2. CASE b \in S
    <3>1. PICK m \in Names : T[c][m] = b BY <2>2
    <3>2. \A x \in Contexts, n \in Names : T[x][n] = b => x = c
      BY <3>1, <2>1, <1>3 DEF OneKey
    <3>3. \A x \in Contexts, n \in Names : T2[x][n] # b
      BY <3>2, <2>1, <1>1
    <3> QED BY <3>1, <3>3, <2>2 DEF InTable
  <2>3. CASE b \notin S
    <3>1. \A x \in Contexts, n \in Names : T[x][n] = b => x # c BY <2>3
    <3>2. \A x \in Contexts, n \in Names : T[x][n] = b => T2[x][n] = b
      BY <3>1, <1>1
    <3> QED BY <3>2, <2>3 DEF InTable
  <2> QED BY <2>2, <2>3
<1>5. UnreffedAll(R, S) \in Structures /\ Right(T2, UnreffedAll(R, S), L, K)
  BY <1>1, <1>2, <1>4, Dropped
<1> QED BY <1>1, <1>5 DEF T2

-----------------------------------------------------------------------------
LEMMA InitRight == Init => IInv
<1> SUFFICES ASSUME Init PROVE IInv OBVIOUS
<1>1. Freed \in RegisteredName /\ Unused \in Listing
  BY DEF Freed, RegisteredName, Unused, Listing
<1>2. context \in [Contexts -> {"none", "active", "destroyed"}] BY DEF Init
<1>3. Len(calls) <= MaxCalls BY NameServerAssumption DEF Init
<1>4. calls \in Seq(Call) BY DEF Init
<1>5. TypeOK BY <1>1, <1>2, <1>3, <1>4 DEF Init, TypeOK
<1>6. ToSet(<<>>) = {} BY DEF ToSet
<1>7. \A l \in Listings : /\ listing[l].items = <<>> /\ listing[l].told = <<>>
                          /\ listing[l].due = {} /\ listing[l].state = "none"
  BY DEF Init, Unused
<1>8. \A b \in Bindings : rn[b].refcount = 0 BY DEF Init, Freed
<1>9. \A c \in Contexts, n \in Names : table[c][n] = None BY DEF Init
<1>10. OneKey(table) /\ Named(table, rn) BY <1>9 DEF OneKey, Named
<1>11. Filled(rn) BY <1>8 DEF Filled
<1>12. ASSUME NEW b \in Bindings
       PROVE  rn[b].refcount = Once(table, b) + Cardinality(InLists(listing, b))
  <2>1. Once(table, b) = 0 BY <1>9, NameServerAssumption DEF Once, InTable
  <2>2. InLists(listing, b) = {} BY <1>6, <1>7 DEF InLists
  <2>3. Cardinality({}) = 0 BY FS_EmptySet
  <2> QED BY <2>1, <2>2, <2>3, <1>8
<1>13. Counted(table, rn, listing) BY <1>12 DEF Counted
<1>14. Reading(rn, listing)
  BY <1>6, <1>7
  DEF Reading, ReadRight, NamesApart, ToldApart, ToldOrDue, IsInjective
<1>15. Remembered(rn, calls) BY DEF Init, Remembered
<1> QED BY <1>5, <1>10, <1>11, <1>13, <1>14, <1>15 DEF IInv, Right

(* The parts of TypeOK, as the lemmas about steps name them.               *)
LEMMA Types ==
  ASSUME IInv
  PROVE  /\ table \in Tables /\ rn \in Structures /\ listing \in Lists
         /\ calls \in Seq(Call) /\ Right(table, rn, listing, calls)
BY DEF IInv, TypeOK, Tables, Structures, Lists

(* A step that changes tables, structures and contexts alone.              *)
LEMMA DirStep ==
  ASSUME IInv, table' \in Tables, rn' \in Structures,
         Right(table', rn', listing, calls),
         context' \in [Contexts -> {"none", "active", "destroyed"}],
         UNCHANGED <<listing, calls, crashed>>
  PROVE  IInv'
BY DEF IInv, TypeOK, Tables, Structures

LEMMA ListStep ==
  ASSUME IInv, rn' \in Structures, listing' \in Lists,
         Right(table, rn', listing', calls),
         UNCHANGED <<context, table, calls, crashed>>
  PROVE  IInv'
BY DEF IInv, TypeOK, Structures, Lists

LEMMA Stays ==
  ASSUME IInv, UNCHANGED <<context, table, rn, listing, calls>>,
         crashed' \in BOOLEAN
  PROVE  IInv'
BY DEF IInv, TypeOK

LEMMA Nothing == IInv /\ (Crash \/ Fail) => IInv'
BY Stays DEF Crash, Fail, vars, IInv, TypeOK

LEMMA ElsewhereStep ==
  ASSUME IInv, NEW c, NEW path, NEW resolving, Elsewhere(c, path, resolving)
  PROVE  IInv'
BY Nothing DEF Elsewhere

LEMMA ServantContext ==
  ASSUME NEW c, NEW path, NEW resolving, NEW at \in Servant(c, path, resolving)
  PROVE  at \in Contexts
BY DEF Servant

LEMMA LastName ==
  ASSUME NEW path \in Paths
  PROVE  Last(path) \in Names
BY DEF Paths, Last

-----------------------------------------------------------------------------
LEMMA UnboundStep ==
  ASSUME IInv, NEW c \in Contexts, NEW n \in Names, BecomesDir(Unbound(Dir, c, n))
  PROVE  /\ table' \in Tables /\ rn' \in Structures
         /\ Right(table', rn', listing, calls)
BY Types, UnboundRight DEF BecomesDir, Dir

(* Whatever was bound to the name is unbound, and a new structure is bound.*)
LEMMA ReboundStep ==
  ASSUME IInv, NEW c \in Contexts, NEW n \in Names, NEW v \in Values,
         NEW sub \in BOOLEAN, NEW b \in Allocated(Unbound(Dir, c, n)),
         BecomesDir(Inserted(Unbound(Dir, c, n), c, n, v, sub, b))
  PROVE  /\ table' \in Tables /\ rn' \in Structures
         /\ Right(table', rn', listing, calls)
<1> DEFINE d == Unbound(Dir, c, n)
           T == d.table
           R == d.rn
           e == Inserted([table |-> T, rn |-> R], c, n, v, sub, b)
<1>1. /\ d.table \in Tables /\ d.rn \in Structures
      /\ Right(d.table, d.rn, listing, calls) /\ d.table[c][n] = None
      /\ \A x \in Contexts, y \in Names : x # c \/ y # n => d.table[x][y] = table[x][y]
  BY Types, UnboundRight DEF Dir
<1>2. b \in Bindings /\ d.rn[b].refcount = 0 /\ \A i \in DOMAIN calls : calls[i].nom # b
  BY DEF Allocated
<1>3. Inserted(d, c, n, v, sub, b) = e BY DEF Inserted
<1>types. listing \in Lists /\ calls \in Seq(Call) BY Types
<1> HIDE DEF d, T, R
<1>free. /\ T \in Tables /\ R \in Structures /\ Right(T, R, listing, calls)
      /\ T[c][n] = None /\ R[b].refcount = 0
  BY <1>1, <1>2 DEF T, R
<1>4. /\ e.table \in Tables /\ e.rn \in Structures
      /\ Right(e.table, e.rn, listing, calls)
      /\ \A x \in Contexts, y \in Names : x # c \/ y # n => e.table[x][y] = T[x][y]
  <2>1. /\ \A i \in DOMAIN calls : calls[i].nom # b
        /\ b \in Bindings
    BY <1>2
  <2> QED BY <2>1, <1>types, <1>free, InsertedRight
<1>5. table' = e.table /\ rn' = e.rn BY <1>3 DEF BecomesDir, d, T, R
<1> HIDE DEF e
<1> QED BY <1>4, <1>5

LEMMA BindStep ==
  ASSUME IInv, NEW op \in Ops \ {"resolve"}, NEW c \in Contexts, NEW n \in Names,
         NEW v, op \in {"bind", "bind_context"} => v \in Values,
         NEW w \in FreeContexts(op), Bind(op, c, n, v, w)
  PROVE  /\ table' \in Tables /\ rn' \in Structures
         /\ Right(table', rn', listing, calls)
         /\ context' \in [Contexts -> {"none", "active", "destroyed"}]
<1>1. PICK b \in Allocated(Unbound(Dir, c, n)) :
        IF op = "bind_new_context"
        THEN /\ BecomesDir(Inserted(Unbound(Dir, c, n), c, n, w, TRUE, b))
             /\ context' = [context EXCEPT ![w] = "active"]
        ELSE /\ BecomesDir(Inserted(Unbound(Dir, c, n), c, n, v, op = "bind_context", b))
             /\ UNCHANGED context
  BY DEF Bind
<1>2. context \in [Contexts -> {"none", "active", "destroyed"}] BY DEF IInv, TypeOK
<1>3. CASE op = "bind_new_context"
  <2>1. w \in Contexts /\ w \in Values BY <1>3 DEF FreeContexts, Values
  <2>2. context' \in [Contexts -> {"none", "active", "destroyed"}]
    BY <1>1, <1>2, <1>3
  <2> QED BY <1>1, <1>3, <2>1, <2>2, ReboundStep
<1>4. CASE op # "bind_new_context"
  <2>1. v \in Values BY <1>4 DEF Ops
  <2>2. (op = "bind_context") \in BOOLEAN OBVIOUS
  <2> QED BY <1>1, <1>2, <1>4, <2>1, <2>2, ReboundStep
<1> QED BY <1>3, <1>4

(* What a request that begins to wait remembers is true.                   *)
LEMMA WaitsStep ==
  ASSUME IInv, NEW op \in Ops, NEW c \in Contexts, NEW n \in Names,
         NEW v \in Values \cup {None}, op \in {"bind", "bind_context"} => v \in Values,
         table[c][n] # None, ~ Local(table[c][n]), Waits(op, c, n, v)
  PROVE  IInv'
<1> DEFINE nom == table[c][n]
           call == [op |-> op, in |-> c, name |-> n, obj |-> v,
                    nom |-> nom, asked |-> rn[nom].obj]
<1>1. Right(table, rn, listing, calls) /\ table \in Tables /\ rn \in Structures
      /\ calls \in Seq(Call)
  BY Types
<1>2. nom \in Bindings BY <1>1 DEF Tables
<1>3. InTable(table, nom) BY DEF InTable
<1>4. rn[nom].refcount # 0 BY <1>1, <1>2, <1>3, InUse DEF Right
<1>5. rn[nom].obj \in Objects BY <1>1, <1>2, <1>4 DEF Right, Filled, Local, Values
<1>6. call \in Call BY <1>2, <1>5 DEF Call
<1>7. /\ call.op = op /\ call.obj = v /\ call.nom = nom /\ call.asked = rn[nom].obj
  OBVIOUS
<1>8. calls' = Append(calls, call) /\ Len(calls) < MaxCalls BY DEF Waits
<1> HIDE DEF call
<1>9. /\ calls' \in Seq(Call) /\ Len(calls') = Len(calls) + 1
      /\ DOMAIN calls' = 1 .. Len(calls) + 1 /\ Len(calls) \in Nat
      /\ \A i \in DOMAIN calls : i \in DOMAIN calls' /\ calls'[i] = calls[i]
      /\ calls'[Len(calls) + 1] = call
      /\ \A i \in DOMAIN calls' : i \in DOMAIN calls \/ i = Len(calls) + 1
  BY <1>1, <1>6, <1>8, AppendProperties
<1>10. Remembered(rn, calls')
  <2> SUFFICES ASSUME NEW i \in DOMAIN calls'
               PROVE  /\ calls'[i].op \in {"bind", "bind_context"}
                           => calls'[i].obj \in Values
                      /\ rn[calls'[i].nom].refcount # 0
                           => rn[calls'[i].nom].obj = calls'[i].asked
    BY DEF Remembered
  <2>1. CASE i \in DOMAIN calls
    <3>1. calls'[i] = calls[i] BY <1>9, <2>1
    <3>2. Remembered(rn, calls) BY <1>1 DEF Right
    <3> QED BY <3>1, <3>2, <2>1 DEF Remembered
  <2>2. CASE i = Len(calls) + 1 BY <1>7, <1>9, <2>2
  <2> QED BY <1>9, <2>1, <2>2
<1>11. Right(table, rn, listing, calls') BY <1>1, <1>10 DEF Right
<1>12. Len(calls') <= MaxCalls BY <1>8, <1>9, NameServerAssumption
<1> QED BY <1>9, <1>11, <1>12 DEF Waits, IInv, TypeOK

LEMMA BindHereStep ==
  ASSUME IInv, NEW op \in Ops \ {"resolve"}, NEW v \in Values \cup {None},
         op \in {"bind", "bind_context"} => v \in Values,
         NEW c \in Contexts, NEW n \in Names, BindHere(op, v, c, n)
  PROVE  IInv'
<1>1. CASE (\E w \in FreeContexts(op) : Bind(op, c, n, v, w))
           /\ UNCHANGED <<listing, calls, crashed>>
  <2>1. PICK w \in FreeContexts(op) : Bind(op, c, n, v, w) BY <1>1
  <2>2. /\ table' \in Tables /\ rn' \in Structures
        /\ Right(table', rn', listing, calls)
        /\ context' \in [Contexts -> {"none", "active", "destroyed"}]
    BY <2>1, BindStep
  <2> QED BY <1>1, <2>2, DirStep
<1>2. CASE Fail BY <1>2, Nothing
<1>3. CASE table[c][n] # None /\ ~ Local(table[c][n]) /\ Waits(op, c, n, v)
  BY <1>3, WaitsStep
<1> QED BY <1>1, <1>2, <1>3 DEF BindHere

LEMMA RebindHereStep ==
  ASSUME IInv, NEW v \in Values, NEW sub \in BOOLEAN,
         NEW c \in Contexts, NEW n \in Names, RebindHere(v, sub, c, n)
  PROVE  IInv'
<1>1. PICK b \in Allocated(Unbound(Dir, c, n)) :
        BecomesDir(Inserted(Unbound(Dir, c, n), c, n, v, sub, b))
  BY DEF RebindHere
<1>2. context' \in [Contexts -> {"none", "active", "destroyed"}]
  BY DEF RebindHere, IInv, TypeOK
<1>3. UNCHANGED <<listing, calls, crashed>> BY DEF RebindHere
<1> QED BY <1>1, <1>2, <1>3, ReboundStep, DirStep

LEMMA UnbindHereStep ==
  ASSUME IInv, NEW c \in Contexts, NEW n \in Names, UnbindHere(c, n)
  PROVE  IInv'
<1>1. context' \in [Contexts -> {"none", "active", "destroyed"}]
  BY DEF UnbindHere, IInv, TypeOK
<1>2. UNCHANGED <<listing, calls, crashed>> BY DEF UnbindHere
<1> QED BY <1>1, <1>2, UnboundStep, DirStep DEF UnbindHere

LEMMA ResolveHereStep ==
  ASSUME IInv, NEW c \in Contexts, NEW n \in Names, ResolveHere(c, n)
  PROVE  IInv'
<1>1. CASE Fail BY <1>1, Nothing
<1>2. CASE table[c][n] # None /\ ~ Local(table[c][n]) /\ Waits("resolve", c, n, None)
  BY <1>2, WaitsStep DEF Ops
<1> QED BY <1>1, <1>2 DEF ResolveHere

(* The innermost request goes on: what the others remember stays true.     *)
LEMMA FrontOfCalls ==
  ASSUME IInv, calls # <<>>
  PROVE  /\ Asked \in Call /\ Asked = calls[Len(calls)] /\ Len(calls) \in DOMAIN calls
         /\ Front(calls) \in Seq(Call) /\ Len(Front(calls)) = Len(calls) - 1
         /\ Len(calls) \in Nat \ {0}
         /\ \A i \in DOMAIN Front(calls) : i \in DOMAIN calls /\ Front(calls)[i] = calls[i]
<1>1. calls \in Seq(Call) BY Types
<1>2. Len(calls) \in Nat \ {0} BY <1>1, EmptySeq
<1>3. Asked \in Call /\ Asked = calls[Len(calls)] /\ Len(calls) \in DOMAIN calls
  BY <1>1, <1>2 DEF Asked, Last
<1>4. /\ Front(calls) \in Seq(Call) /\ Len(Front(calls)) = Len(calls) - 1
      /\ \A i \in 1 .. Len(calls) - 1 : Front(calls)[i] = calls[i]
  <2>1. \A i \in 1 .. Len(calls) - 1 : calls[i] \in Call BY <1>1, <1>2
  <2> DEFINE k == Len(calls) - 1
  <2>length. k \in Nat BY <1>2
  <2>3. \A i \in 1 .. k : calls[i] \in Call BY <2>1
  <2> HIDE DEF k
  <2>2. k - 1 + 1 = k /\ (~ 1 <= k => k = 0) /\ \A i \in 1 .. k : 1 + i - 1 = i
    BY <2>length
  <2>4. /\ SubSeq(calls, 1, k) \in Seq(Call) /\ Len(SubSeq(calls, 1, k)) = k
        /\ \A i \in 1 .. k : SubSeq(calls, 1, k)[i] = calls[i]
    BY <2>length, <2>2, <2>3, SubSeqProperties
  <2> QED BY <2>4 DEF Front, k
<1>5. \A i \in DOMAIN Front(calls) : i \in DOMAIN calls /\ Front(calls)[i] = calls[i]
  BY <1>1, <1>2, <1>4
<1> QED BY <1>2, <1>3, <1>4, <1>5

LEMMA GoesOnStep ==
  ASSUME IInv, calls # <<>>, NEW exists \in BOOLEAN, GoesOn(exists)
  PROVE  IInv'
<1>1. /\ Asked \in Call /\ Asked = calls[Len(calls)] /\ Len(calls) \in DOMAIN calls
      /\ Front(calls) \in Seq(Call) /\ Len(Front(calls)) = Len(calls) - 1
      /\ Len(calls) \in Nat \ {0}
      /\ \A i \in DOMAIN Front(calls) : i \in DOMAIN calls /\ Front(calls)[i] = calls[i]
  BY FrontOfCalls
<1>2. Asked.in \in Contexts /\ Asked.name \in Names /\ Asked.op \in Ops
  BY <1>1 DEF Call
<1>3. Remembered(rn, calls) BY DEF IInv, Right
<1>4. Asked.op \in {"bind", "bind_context"} => Asked.obj \in Values
  BY <1>1, <1>3 DEF Remembered
<1>5. context \in [Contexts -> {"none", "active", "destroyed"}] BY DEF IInv, TypeOK
<1>6. /\ table' \in Tables /\ rn' \in Structures
      /\ Right(table', rn', listing, calls)
      /\ context' \in [Contexts -> {"none", "active", "destroyed"}]
  <2>1. CASE UNCHANGED <<context, table, rn>> BY <2>1, <1>5, Types
  <2>2. CASE /\ ~ exists /\ BecomesDir(Unbound(Dir, Asked.in, Asked.name))
             /\ UNCHANGED context
    BY <2>2, <1>2, <1>5, UnboundStep
  <2>3. CASE /\ ~ exists /\ Asked.op # "resolve"
             /\ \E w \in FreeContexts(Asked.op) :
                  Bind(Asked.op, Asked.in, Asked.name, Asked.obj, w)
    <3>1. PICK w \in FreeContexts(Asked.op) :
            Bind(Asked.op, Asked.in, Asked.name, Asked.obj, w)
      BY <2>3
    <3>2. Asked.op \in Ops \ {"resolve"} BY <1>2, <2>3
    <3> QED BY <3>1, <3>2, <2>3, <1>2, <1>4, BindStep
  <2> QED BY <2>1, <2>2, <2>3 DEF GoesOn
<1>7. calls' = Front(calls) /\ UNCHANGED <<listing, crashed>> BY DEF GoesOn
<1>8. Remembered(rn', calls') BY <1>1, <1>6, <1>7 DEF Right, Remembered
<1>9. Right(table', rn', listing', calls') BY <1>6, <1>7, <1>8 DEF Right
<1>10. Len(calls') <= MaxCalls
  BY <1>1, <1>7, NameServerAssumption DEF IInv, TypeOK
<1> QED BY <1>1, <1>6, <1>7, <1>9, <1>10 DEF IInv, TypeOK, Tables, Structures

-----------------------------------------------------------------------------
LEMMA CountRead ==
  ASSUME NEW items \in Seq(Bindings), NEW k \in Nat
  PROVE  Least(k, Len(items)) \in 0 .. Len(items)
<1>1. Len(items) \in Nat BY LenProperties
<1> QED BY <1>1 DEF Least

(* What the model says was told is what ReadOn tells.                      *)
LEMMA ToldIsToldOf ==
  ASSUME NEW read PROVE [i \in DOMAIN read |-> Told(read[i])] = ToldOf(rn, read)
BY DEF Told, ToldOf, Tells

LEMMA DestroyStep ==
  ASSUME IInv, NEW c \in Contexts, Destroy(c)
  PROVE  IInv'
<1>1. CASE Crash BY <1>1, Nothing
<1>2. CASE /\ context' = [context EXCEPT ![c] = "destroyed"]
           /\ table' = [table EXCEPT ![c] = [n \in Names |-> None]]
           /\ rn' = UnreffedAll(rn, Bound(c))
           /\ UNCHANGED <<listing, calls, crashed>>
  <2>1. /\ Bound(c) \in SUBSET Bindings
        /\ \A b \in Bindings : b \in Bound(c) <=> \E n \in Names : table[c][n] = b
    BY DEF Bound
  <2>2. /\ table' \in Tables /\ rn' \in Structures
        /\ Right(table', rn', listing, calls)
    BY <1>2, <2>1, Types, DestroyedStep
  <2>3. context' \in [Contexts -> {"none", "active", "destroyed"}]
    BY <1>2 DEF IInv, TypeOK
  <2> QED BY <1>2, <2>2, <2>3, DirStep
<1> QED BY <1>1, <1>2 DEF Destroy

LEMMA NextNStep ==
  ASSUME IInv, NEW l \in Listings, NEW k \in Nat, NEW one \in BOOLEAN,
         Next_n(l, k, one)
  PROVE  IInv'
<1> DEFINE items == listing[l].items
           n == Least(k, Len(items))
<1>1. CASE Crash BY <1>1, Nothing
<1>2. CASE /\ listing[l].state # "destroyed"
           /\ rn' = UnreffedAll(rn, ToSet(Read(items, n)))
           /\ listing' = [listing EXCEPT ![l] =
                [state |-> "active",
                 items |-> Left(items, n),
                 told |-> @.told \o [i \in DOMAIN Read(items, n) |->
                                        Told(Read(items, n)[i])],
                 due |-> @.due]]
           /\ UNCHANGED <<context, table, calls, crashed>>
           /\ listing[l].state # "none"
  <2>1. listing[l] \in Listing /\ items \in Seq(Bindings) /\ listing \in Lists
    BY Types, ItemsKnown
  <2>2. n \in 0 .. Len(items) BY <2>1, CountRead
  <2>3. listing[l].state = "active" BY <1>2, <2>1 DEF Listing
  <2>4. listing' = [listing EXCEPT ![l] =
                      [state |-> "active", items |-> Left(items, n),
                       told |-> listing[l].told \o ToldOf(rn, Read(items, n)),
                       due |-> listing[l].due]]
    <3> DEFINE F == [i \in DOMAIN Read(items, n) |-> Told(Read(items, n)[i])]
    <3>1. listing' = [listing EXCEPT ![l] =
                        [state |-> "active", items |-> Left(items, n),
                         told |-> listing[l].told \o F, due |-> listing[l].due]]
      BY <1>2
    <3>2. F = ToldOf(rn, Read(items, n)) BY ToldIsToldOf
    <3> HIDE DEF F
    <3> QED BY <3>1, <3>2
  <2>5. rn' = UnreffedAll(rn, ToSet(Read(items, n))) BY <1>2
  <2> HIDE DEF n
  <2>6. listing' = [listing EXCEPT ![l] = ReadOn(rn, listing[l], n, "active")]
    BY <2>4 DEF ReadOn
  <2>7. /\ UnreffedAll(rn, ToSet(Read(items, n))) \in Structures
        /\ [listing EXCEPT ![l] = ReadOn(rn, listing[l], n, "active")] \in Lists
        /\ Right(table, UnreffedAll(rn, ToSet(Read(items, n))),
                 [listing EXCEPT ![l] = ReadOn(rn, listing[l], n, "active")], calls)
    <3>1. listing[l].state # "destroyed" /\ "active" \in {"none", "active"} BY <2>3
    <3> QED BY <2>2, <3>1, Types, ReadOnStep
  <2>8. rn' \in Structures /\ listing' \in Lists /\ Right(table, rn', listing', calls)
    BY <2>4, <2>5, <2>6, <2>7
  <2> QED BY <1>2, <2>8, ListStep
<1> QED BY <1>1, <1>2 DEF Next_n

LEMMA IteratorDestroyStep ==
  ASSUME IInv, NEW l \in Listings, IteratorDestroy(l)
  PROVE  IInv'
<1>1. rn' \in Structures /\ listing' \in Lists /\ Right(table, rn', listing', calls)
  BY Types, EmptiedStep DEF IteratorDestroy
<1> QED BY <1>1, ListStep DEF IteratorDestroy

LEMMA ListedStep ==
  ASSUME IInv, NEW c \in Contexts, NEW l \in Listings, NEW k \in Nat, List(c, l, k)
  PROVE  IInv'
<1>1. CASE Crash BY <1>1, Nothing
<1>2. ASSUME NEW items \in SetToSeqs(Bound(c)),
             rn' = UnreffedAll(Reffed(rn, Bound(c)),
                               ToSet(Read(items, Least(k, Len(items))))),
             listing' = [listing EXCEPT ![l] =
               [state |-> IF Left(items, Least(k, Len(items))) = <<>>
                          THEN "none" ELSE "active",
                items |-> Left(items, Least(k, Len(items))),
                told |-> [i \in DOMAIN Read(items, Least(k, Len(items))) |->
                            Told(Read(items, Least(k, Len(items)))[i])],
                due |-> {Told(b) : b \in Bound(c)}]],
             listing[l].state # "active",
             UNCHANGED <<context, table, calls, crashed>>
      PROVE  IInv'
  <2> DEFINE B == Bound(c)
             n == Least(k, Len(items))
             R == Reffed(rn, B)
             y == Opened(rn, B, items)
             L == [listing EXCEPT ![l] = y]
             st == IF Left(items, n) = <<>> THEN "none" ELSE "active"
  <2>1. B \in SUBSET Bindings /\ IsFiniteSet(B) BY BoundFinite
  <2>2. items \in Seq(Bindings) /\ IsInjective(items) /\ ToSet(items) = B
    BY <2>1, InSomeOrder
  <2>3. \A b \in B : \E m \in Names : table[c][m] = b BY DEF Bound
  <2>4. n \in 0 .. Len(items) BY <2>2, CountRead
  <2>5. listing \in Lists /\ table \in Tables /\ calls \in Seq(Call) /\ rn \in Structures
        /\ Right(table, rn, listing, calls)
    BY Types
  <2>6. L[l] = y /\ y.items = items /\ y.state = "active" /\ y.told = <<>>
        /\ y.due = {Tells(rn, b) : b \in B}
    BY <2>5 DEF Lists, Opened
  <2>7. {Told(b) : b \in B} = {Tells(rn, b) : b \in B} BY DEF Told, Tells
  <2>8. \A i \in 1 .. n : Read(items, n)[i] \in B
    <3>1. /\ Len(Read(items, n)) = n /\ Read(items, n) \in Seq(Bindings)
          /\ ToSet(Read(items, n)) \subseteq ToSet(items)
      BY <2>2, <2>4, ReadAndLeft
    <3>2. DOMAIN Read(items, n) = 1 .. n BY <3>1, LenProperties
    <3> HIDE DEF n
    <3>3. \A i \in 1 .. n : Read(items, n)[i] \in ToSet(Read(items, n))
      BY <3>2 DEF ToSet
    <3> QED BY <3>1, <3>3, <2>2
  <2>9. DOMAIN Read(items, n) = 1 .. n
    BY <2>2, <2>4, ReadAndLeft, LenProperties
  <2>10. \A b \in B : Told(b) = Tells(R, b)
    <3> SUFFICES ASSUME NEW b \in B PROVE Told(b) = Tells(R, b) OBVIOUS
    <3>1. rn[b] \in RegisteredName BY <2>1, <2>5 DEF Structures
    <3>2. R[b] = [rn[b] EXCEPT !.refcount = @ + 1] BY <2>1 DEF Reffed
    <3> QED BY <3>1, <3>2 DEF Told, Tells, RegisteredName
  <2>11. [i \in DOMAIN Read(items, n) |-> Told(Read(items, n)[i])]
           = ToldOf(R, Read(items, n))
    BY <2>8, <2>9, <2>10 DEF ToldOf
  <2>12. R \in Structures /\ L \in Lists /\ Right(table, R, L, calls)
    BY <1>2, <2>1, <2>2, <2>3, <2>5, OpenedStep
  <2>13. st \in {"none", "active"} /\ (st # "active" => Left(items, n) = <<>>) OBVIOUS
  <2>14. listing' = [listing EXCEPT ![l] =
                       [state |-> st, items |-> Left(items, n),
                        told |-> [i \in DOMAIN Read(items, n) |-> Told(Read(items, n)[i])],
                        due |-> {Told(b) : b \in B}]]
    BY <1>2
  <2>15. rn' = UnreffedAll(R, ToSet(Read(items, n))) BY <1>2
  <2> HIDE DEF st, R, n, B, y
  <2>16. <<>> \o ToldOf(R, Read(items, n)) = ToldOf(R, Read(items, n))
    <3>1. /\ \A b \in ToSet(L[l].items) : R[b].nc \in Names
          /\ L[l] \in Listing
      BY <2>12, <2>5, ItemsKnown
    <3>2. ToldOf(R, Read(L[l].items, n)) \in Seq(Names \X BOOLEAN)
      BY <3>1, <2>4, <2>6, <2>12, ReadOnTyped
    <3> QED BY <3>2, <2>6, ConcatEmptySeq
  <2>17. ReadOn(R, L[l], n, st)
           = [state |-> st, items |-> Left(items, n),
              told |-> ToldOf(R, Read(items, n)), due |-> {Tells(rn, b) : b \in B}]
    BY <2>6, <2>16 DEF ReadOn
  <2>18. listing' = [listing EXCEPT ![l] = ReadOn(R, L[l], n, st)]
    BY <2>7, <2>11, <2>14, <2>17
  <2>19. listing' = [L EXCEPT ![l] = ReadOn(R, L[l], n, st)]
    BY <2>5, <2>18 DEF Lists
  <2> HIDE DEF L
  <2>20. L[l].state # "destroyed" /\ n \in 0 .. Len(L[l].items)
         /\ (st # "active" => Left(L[l].items, n) = <<>>)
    BY <2>4, <2>6, <2>13
  <2>21. rn' \in Structures /\ listing' \in Lists /\ Right(table, rn', listing', calls)
    <3>1. /\ UnreffedAll(R, ToSet(Read(L[l].items, n))) \in Structures
          /\ [L EXCEPT ![l] = ReadOn(R, L[l], n, st)] \in Lists
          /\ Right(table, UnreffedAll(R, ToSet(Read(L[l].items, n))),
                   [L EXCEPT ![l] = ReadOn(R, L[l], n, st)], calls)
      BY <2>5, <2>12, <2>13, <2>20, ReadOnStep
    <3> QED BY <3>1, <2>6, <2>15, <2>19
  <2> QED BY <1>2, <2>21, ListStep
<1> QED BY <1>1, <1>2 DEF List

-----------------------------------------------------------------------------
LEMMA BindNameStep ==
  ASSUME IInv, NEW c \in Contexts, NEW path \in Paths, NEW v \in Values,
         BindName(c, path, v) \/ BindContext(c, path, v)
  PROVE  IInv'
<1>1. Last(path) \in Names BY LastName
<1>2. CASE Elsewhere(c, path, FALSE) BY <1>2, ElsewhereStep
<1>3. CASE \E at \in Servant(c, path, FALSE) : BindHere("bind", v, at, Last(path))
  BY <1>1, <1>3, ServantContext, BindHereStep DEF Ops
<1>4. CASE \E at \in Servant(c, path, FALSE) :
             BindHere("bind_context", v, at, Last(path))
  BY <1>1, <1>4, ServantContext, BindHereStep DEF Ops
<1> QED BY <1>2, <1>3, <1>4 DEF BindName, BindContext

LEMMA BindNewContextStep ==
  ASSUME IInv, NEW c \in Contexts, NEW path \in Paths, BindNewContext(c, path)
  PROVE  IInv'
<1>1. Last(path) \in Names BY LastName
<1>2. CASE Elsewhere(c, path, FALSE) BY <1>2, ElsewhereStep
<1>3. CASE \E at \in Servant(c, path, FALSE) :
             BindHere("bind_new_context", None, at, Last(path))
  BY <1>1, <1>3, ServantContext, BindHereStep DEF Ops
<1> QED BY <1>2, <1>3 DEF BindNewContext

LEMMA RebindStep ==
  ASSUME IInv, NEW c \in Contexts, NEW path \in Paths, NEW v \in Values,
         NEW sub \in BOOLEAN, Rebind(c, path, v, sub)
  PROVE  IInv'
<1>1. Last(path) \in Names BY LastName
<1> QED BY <1>1, ElsewhereStep, ServantContext, RebindHereStep DEF Rebind

LEMMA UnbindStep ==
  ASSUME IInv, NEW c \in Contexts, NEW path \in Paths, Unbind(c, path)
  PROVE  IInv'
<1>1. Last(path) \in Names BY LastName
<1> QED BY <1>1, ElsewhereStep, ServantContext, UnbindHereStep DEF Unbind

LEMMA ResolveStep ==
  ASSUME IInv, NEW c \in Contexts, NEW path \in Paths, Resolve(c, path)
  PROVE  IInv'
<1>1. Last(path) \in Names BY LastName
<1> QED BY <1>1, ElsewhereStep, ServantContext, ResolveHereStep DEF Resolve

LEMMA ResumeStep ==
  ASSUME IInv, Resume
  PROVE  IInv'
<1>1. CASE Crash BY <1>1, Nothing DEF Crash
<1>2. ASSUME NEW exists \in BOOLEAN, GoesOn(exists), calls # <<>> PROVE IInv'
  BY <1>2, GoesOnStep
<1> QED BY <1>1, <1>2 DEF Resume, ExistsAnswers

LEMMA NewContextStep ==
  ASSUME IInv, NewContext
  PROVE  IInv'
<1>1. PICK w \in FreeContexts("bind_new_context") :
        context' = [context EXCEPT ![w] = "active"]
  BY DEF NewContext
<1>2. context' \in [Contexts -> {"none", "active", "destroyed"}]
  BY <1>1 DEF IInv, TypeOK
<1>3. UNCHANGED <<table, rn, listing, calls, crashed>> BY DEF NewContext
<1> QED BY <1>2, <1>3, Types, DirStep

LEMMA Preserved == IInv /\ [Next]_vars => IInv'
<1> SUFFICES ASSUME IInv, [Next]_vars PROVE IInv' OBVIOUS
<1>1. CASE UNCHANGED vars BY <1>1, Nothing DEF Fail
<1>2. ASSUME NEW c \in Contexts, NEW path \in Paths,
             \/ \E v \in Values : BindName(c, path, v) \/ BindContext(c, path, v)
             \/ BindNewContext(c, path)
             \/ \E v \in Values, sub \in BOOLEAN : Rebind(c, path, v, sub)
             \/ Unbind(c, path)
             \/ Resolve(c, path)
      PROVE  IInv'
  BY <1>2, BindNameStep, BindNewContextStep, RebindStep, UnbindStep, ResolveStep
<1>3. CASE Resume BY <1>3, ResumeStep
<1>4. CASE NewContext BY <1>4, NewContextStep
<1>5. CASE \E c \in Contexts : Destroy(c) BY <1>5, DestroyStep
<1>6. CASE \E c \in Contexts, l \in Listings, k \in 0 .. 1 : List(c, l, k)
  BY <1>6, ListedStep
<1>7. CASE \E l \in Listings, k \in 0 .. 2 : Next_n(l, k, FALSE)
  <2>1. PICK l \in Listings, k \in 0 .. 2 : Next_n(l, k, FALSE) BY <1>7
  <2>2. k \in Nat /\ FALSE \in BOOLEAN OBVIOUS
  <2> QED BY <2>1, <2>2, NextNStep
<1>8. CASE \E l \in Listings : Next_n(l, 1, TRUE) BY <1>8, NextNStep
<1>9. CASE \E l \in Listings : IteratorDestroy(l) BY <1>9, IteratorDestroyStep
<1> QED
  BY <1>1, <1>2, <1>3, <1>4, <1>5, <1>6, <1>7, <1>8, <1>9 DEF Next

LEMMA Inductive == Spec => []IInv
BY InitRight, Preserved, PTL DEF Spec

-----------------------------------------------------------------------------
(* What IInv says of tables in general, RefsCounted says by counting.      *)
LEMMA CountsRefs == IInv => RefsCounted
<1> SUFFICES ASSUME IInv PROVE RefsCounted OBVIOUS
<1>1. /\ OneKey(table) /\ Named(table, rn) /\ Counted(table, rn, listing)
      /\ table \in Tables /\ rn \in Structures /\ listing \in Lists
  BY Types DEF Right
<1>2. ASSUME NEW l \in Listings PROVE IsInjective(listing[l].items)
  BY Types, ItemsKnown
<1>3. ASSUME NEW b \in Bindings
      PROVE  /\ rn[b].refcount = Cardinality(Held(b)) + Cardinality(Listed(b))
             /\ Cardinality(Held(b)) <= 1
             /\ \A p \in Held(b) : rn[b].nc = p[2]
  <2>1. Listed(b) = InLists(listing, b) BY DEF Listed, InLists
  <2>2. rn[b].refcount = Once(table, b) + Cardinality(Listed(b))
    BY <1>1, <2>1 DEF Counted
  <2>3. b # None BY NameServerAssumption
  <2>4. ASSUME NEW p \in Held(b)
        PROVE  /\ p[1] \in Contexts /\ p[2] \in Names /\ p = <<p[1], p[2]>>
               /\ table[p[1]][p[2]] = b
    BY DEF Held
  <2>5. Cardinality(Held(b)) = Once(table, b)
    <3>1. CASE Held(b) = {}
      <4>1. ~ InTable(table, b)
        <5> SUFFICES ASSUME NEW c \in Contexts, NEW n \in Names, table[c][n] = b
                     PROVE  FALSE
          BY DEF InTable
        <5>1. <<c, n>> \in Held(b) BY DEF Held
        <5> QED BY <5>1, <3>1
      <4> QED BY <3>1, <4>1, FS_EmptySet DEF Once
    <3>2. CASE Held(b) # {}
      <4>1. PICK p \in Held(b) : TRUE BY <3>2
      <4>2. InTable(table, b) BY <4>1, <2>4 DEF InTable
      <4>3. ASSUME NEW q \in Held(b) PROVE q = p
        <5>1. table[q[1]][q[2]] = table[p[1]][p[2]] /\ table[q[1]][q[2]] # None
          BY <2>3, <2>4
        <5>2. q[1] = p[1] /\ q[2] = p[2] BY <5>1, <2>4, <1>1 DEF OneKey
        <5> QED BY <5>2, <2>4
      <4>4. Held(b) = {p} BY <4>1, <4>3
      <4>5. Cardinality({p}) = 1 BY FS_Singleton
      <4> QED BY <4>2, <4>4, <4>5 DEF Once
    <3> QED BY <3>1, <3>2
  <2>6. Once(table, b) \in {0, 1} BY DEF Once
  <2>7. ASSUME NEW p \in Held(b) PROVE rn[b].nc = p[2]
    BY <2>3, <2>4, <1>1 DEF Named
  <2> QED BY <2>2, <2>5, <2>6, <2>7
<1> QED BY <1>2, <1>3 DEF RefsCounted

LEMMA TellsOnce == IInv => ListedOnce
<1> SUFFICES ASSUME IInv, NEW l \in Listings
             PROVE  /\ IsInjective(listing[l].told)
                    /\ ToSet(listing[l].told) \subseteq listing[l].due
                    /\ listing[l].items = <<>> /\ listing[l].state # "destroyed"
                         => ToSet(listing[l].told) = listing[l].due
  BY DEF ListedOnce
<1>1. ReadRight(rn, listing[l]) BY Types, ItemsKnown
<1>2. IsInjective(listing[l].told) BY <1>1 DEF ReadRight, ToldApart
<1>3. ToSet(<<>>) = {} BY DEF ToSet
<1>4. CASE listing[l].state = "destroyed"
  BY <1>1, <1>2, <1>3, <1>4 DEF ReadRight, ToldOrDue
<1>5. CASE listing[l].state # "destroyed"
  <2>1. listing[l].due
          = ToSet(listing[l].told) \cup {Tells(rn, b) : b \in ToSet(listing[l].items)}
    BY <1>1, <1>5 DEF ReadRight, ToldOrDue
  <2>2. listing[l].items = <<>> => ToSet(listing[l].told) = listing[l].due
    BY <2>1, <1>3
  <2> QED BY <1>2, <2>1, <2>2
<1> QED BY <1>4, <1>5

-----------------------------------------------------------------------------
(* What tables and structures stand for, of a table T, structures R and    *)
(* listings L.                                                             *)
EntriesOf(T, R) ==
  [c \in Contexts |-> [n \in Names |->
    IF T[c][n] = None THEN None
    ELSE [obj |-> R[T[c][n]].obj, sub |-> R[T[c][n]].is_subctx]]]
UnreadOf(R, L) == [l \in Listings |-> ToldOf(R, L[l].items)]

LEMMA StandsFor ==
  /\ Entries = EntriesOf(table, rn) /\ Entries' = EntriesOf(table', rn')
  /\ Unread = UnreadOf(rn, listing) /\ Unread' = UnreadOf(rn', listing')
BY ToldIsToldOf DEF Entries, EntryOf, EntriesOf, Unread, UnreadOf, ToldOf, Told, Tells

SameBut(T, R, T2, R2, c, n) ==
  \A x \in Contexts, y \in Names :
    x # c \/ y # n => EntriesOf(T2, R2)[x][y] = EntriesOf(T, R)[x][y]

(* What is steady and counted stands for what it stood for.                *)
LEMMA EntriesSteady ==
  ASSUME NEW T \in Tables, NEW T2 \in Tables, NEW R \in Structures,
         NEW R2 \in Structures, NEW L, Steady(R, R2), Counted(T2, R2, L),
         NEW x \in Contexts, NEW y \in Names, T2[x][y] = T[x][y]
  PROVE  EntriesOf(T2, R2)[x][y] = EntriesOf(T, R)[x][y]
<1>1. CASE T2[x][y] = None BY <1>1 DEF EntriesOf
<1>2. CASE T2[x][y] # None
  <2>1. T2[x][y] \in Bindings BY <1>2 DEF Tables
  <2>2. InTable(T2, T2[x][y]) BY DEF InTable
  <2>3. R2[T2[x][y]].refcount # 0 BY <2>1, <2>2, InUse
  <2> QED BY <1>2, <2>1, <2>3 DEF Steady, EntriesOf
<1> QED BY <1>1, <1>2

LEMMA UnreadSteady ==
  ASSUME NEW T \in Tables, NEW R \in Structures, NEW R2 \in Structures,
         NEW L \in Lists, Steady(R, R2), Counted(T, R2, L), NEW l \in Listings
  PROVE  ToldOf(R2, L[l].items) = ToldOf(R, L[l].items)
<1>1. L[l].items \in Seq(Bindings) BY DEF Lists, Listing
<1>2. \A i \in DOMAIN L[l].items : L[l].items[i] \in ToSet(L[l].items) BY DEF ToSet
<1>3. \A i \in DOMAIN L[l].items : Tells(R2, L[l].items[i]) = Tells(R, L[l].items[i])
  BY <1>2, TellsSteady
<1> QED BY <1>3 DEF ToldOf

(* Unbinding a name changes nothing else.                                  *)
LEMMA UnboundKeeps ==
  ASSUME NEW T \in Tables, NEW R \in Structures, NEW L \in Lists,
         NEW K \in Seq(Call), Right(T, R, L, K), NEW c \in Contexts, NEW n \in Names
  PROVE  LET d == Unbound([table |-> T, rn |-> R], c, n) IN
         /\ SameBut(T, R, d.table, d.rn, c, n)
         /\ UnreadOf(d.rn, L) = UnreadOf(R, L)
<1> DEFINE d == Unbound([table |-> T, rn |-> R], c, n)
           T2 == d.table
           R2 == d.rn
<1>1. /\ T2 \in Tables /\ R2 \in Structures /\ Right(T2, R2, L, K)
      /\ \A x \in Contexts, y \in Names : x # c \/ y # n => T2[x][y] = T[x][y]
  BY UnboundRight
<1>2. Steady(R, R2)
  <2>1. CASE T[c][n] = None BY <2>1 DEF Unbound, Steady
  <2>2. CASE T[c][n] # None
    <3>1. R2 = UnreffedAll(R, {T[c][n]}) BY <2>2 DEF Unbound
    <3>2. T[c][n] \in Bindings BY <2>2 DEF Tables
    <3>3. InTable(T, T[c][n]) BY DEF InTable
    <3>4. R[T[c][n]].refcount # 0 BY <3>2, <3>3, InUse DEF Right
    <3>5. Steady(R, UnreffedAll(R, {T[c][n]})) BY <3>4, UnreffedAllOf
    <3> QED BY <3>1, <3>5
  <2> QED BY <2>1, <2>2
<1> HIDE DEF T2, R2
<1>3. Counted(T2, R2, L) BY <1>1 DEF Right
<1>4. SameBut(T, R, T2, R2, c, n) BY <1>1, <1>2, <1>3, EntriesSteady DEF SameBut
<1>5. UnreadOf(R2, L) = UnreadOf(R, L) BY <1>1, <1>2, <1>3, UnreadSteady DEF UnreadOf
<1> QED BY <1>4, <1>5 DEF T2, R2

(* So does inserting a new structure: nothing else pointed to it.          *)
LEMMA InsertedKeeps ==
  ASSUME NEW T \in Tables, NEW R \in Structures, NEW L \in Lists,
         NEW K, Right(T, R, L, K), NEW c \in Contexts, NEW n \in Names,
         NEW v, NEW sub, NEW b \in Bindings, R[b].refcount = 0
  PROVE  LET d == Inserted([table |-> T, rn |-> R], c, n, v, sub, b) IN
         /\ SameBut(T, R, d.table, d.rn, c, n)
         /\ UnreadOf(d.rn, L) = UnreadOf(R, L)
<1> DEFINE d == Inserted([table |-> T, rn |-> R], c, n, v, sub, b)
           T2 == d.table
           R2 == d.rn
<1>0. Counted(T, R, L) BY DEF Right
<1>1. /\ \A x \in Contexts, y \in Names : x # c \/ y # n => T2[x][y] = T[x][y]
      /\ \A a \in Bindings : a # b => R2[a] = R[a]
  BY DEF Inserted, Tables, Structures
<1> HIDE DEF T2, R2
<1>2. ASSUME NEW x \in Contexts, NEW y \in Names, x # c \/ y # n
      PROVE  EntriesOf(T2, R2)[x][y] = EntriesOf(T, R)[x][y]
  <2>1. T2[x][y] = T[x][y] BY <1>1, <1>2
  <2>2. CASE T[x][y] = None BY <2>1, <2>2 DEF EntriesOf
  <2>3. CASE T[x][y] # None
    <3>1. T[x][y] \in Bindings BY <2>3 DEF Tables
    <3>2. InTable(T, T[x][y]) BY DEF InTable
    <3>3. R[T[x][y]].refcount # 0 BY <1>0, <3>1, <3>2, InUse
    <3>4. R2[T[x][y]] = R[T[x][y]] BY <1>1, <3>1, <3>3
    <3> QED BY <2>1, <3>4 DEF EntriesOf
  <2> QED BY <2>2, <2>3
<1>3. ASSUME NEW l \in Listings
      PROVE  ToldOf(R2, L[l].items) = ToldOf(R, L[l].items)
  <2>1. L[l].items \in Seq(Bindings) BY DEF Lists, Listing
  <2>2. \A i \in DOMAIN L[l].items : L[l].items[i] \in Bindings /\ L[l].items[i] \in ToSet(L[l].items)
    BY <2>1 DEF ToSet
  <2>3. \A i \in DOMAIN L[l].items : R[L[l].items[i]].refcount # 0
    BY <1>0, <2>2, InUse
  <2>4. \A i \in DOMAIN L[l].items : R2[L[l].items[i]] = R[L[l].items[i]]
    BY <1>1, <2>2, <2>3
  <2> QED BY <2>4 DEF ToldOf, Tells
<1>4. SameBut(T, R, T2, R2, c, n) BY <1>2 DEF SameBut
<1>5. UnreadOf(R2, L) = UnreadOf(R, L) BY <1>3 DEF UnreadOf
<1> QED BY <1>4, <1>5 DEF T2, R2

(* What a table holds is typed as Directory types it.                      *)
LEMMA EntryTyped ==
  ASSUME NEW T \in Tables, NEW R \in Structures, NEW L, NEW K, Right(T, R, L, K),
         NEW c \in Contexts, NEW n \in Names
  PROVE  /\ EntriesOf(T, R)[c][n] \in Promise!Entry \cup {None}
         /\ T[c][n] # None => EntriesOf(T, R)[c][n] # None
<1>1. CASE T[c][n] = None BY <1>1 DEF EntriesOf
<1>2. CASE T[c][n] # None
  <2>1. T[c][n] \in Bindings BY <1>2 DEF Tables
  <2>2. InTable(T, T[c][n]) BY DEF InTable
  <2>3. R[T[c][n]].refcount # 0 BY <2>1, <2>2, InUse DEF Right
  <2>4. R[T[c][n]].obj \in Values BY <2>1, <2>3 DEF Right, Filled
  <2>5. R[T[c][n]].is_subctx \in BOOLEAN BY <2>1 DEF Structures, RegisteredName
  <2>6. EntriesOf(T, R)[c][n] = [obj |-> R[T[c][n]].obj, sub |-> R[T[c][n]].is_subctx]
    BY <1>2 DEF EntriesOf
  <2>7. EntriesOf(T, R)[c][n] \in [obj : Values, sub : BOOLEAN] BY <2>4, <2>5, <2>6
  <2> QED BY <2>7, NameServerAssumption DEF Promise!Entry
<1> QED BY <1>1, <1>2

(* Functions of functions that differ in one place.                        *)
LEMMA OnePlace ==
  ASSUME NEW T, NEW R, NEW T2, NEW R2, NEW c \in Contexts, NEW n \in Names,
         SameBut(T, R, T2, R2, c, n)
  PROVE  EntriesOf(T2, R2) = [EntriesOf(T, R) EXCEPT
           ![c] = [@ EXCEPT ![n] = EntriesOf(T2, R2)[c][n]]]
<1> DEFINE E == EntriesOf(T, R)
           F == EntriesOf(T2, R2)
           G == [E EXCEPT ![c] = [E[c] EXCEPT ![n] = F[c][n]]]
<1>1. /\ E = [x \in Contexts |-> E[x]] /\ F = [x \in Contexts |-> F[x]]
      /\ \A x \in Contexts : /\ E[x] = [y \in Names |-> E[x][y]]
                             /\ F[x] = [y \in Names |-> F[x][y]]
  BY DEF EntriesOf
<1>2. \A x \in Contexts, y \in Names : x # c \/ y # n => F[x][y] = E[x][y]
  BY DEF SameBut
<1> HIDE DEF E, F
<1>3. \A x \in Contexts : x # c => F[x] = E[x] BY <1>1, <1>2
<1>4. [E[c] EXCEPT ![n] = F[c][n]] = F[c]
  <2> DEFINE g == [E[c] EXCEPT ![n] = F[c][n]]
  <2>1. g = [y \in Names |-> g[y]] BY <1>1
  <2>2. \A y \in Names : g[y] = F[c][y] BY <1>1, <1>2
  <2> HIDE DEF g
  <2>3. g = F[c] BY <2>1, <2>2, <1>1
  <2> QED BY <2>3 DEF g
<1>5. G = [x \in Contexts |-> G[x]] BY <1>1
<1>6. \A x \in Contexts : G[x] = F[x] BY <1>1, <1>3, <1>4
<1> HIDE DEF G
<1>7. F = G BY <1>1, <1>5, <1>6
<1> QED BY <1>7 DEF E, F, G

(* One name of a context that is not gone was bound or unbound.            *)
LEMMA PutStep ==
  ASSUME NEW c \in Contexts, NEW n \in Names, context[c] # "destroyed",
         {x \in Contexts : context'[x] = "destroyed"}
           = {x \in Contexts : context[x] = "destroyed"},
         table' \in Tables, rn' \in Structures, Right(table', rn', listing, calls),
         SameBut(table, rn, table', rn', c, n),
         UnreadOf(rn', listing) = UnreadOf(rn, listing), listing' = listing
  PROVE  Promise!Put(c, n)
<1>1. Entries'[c][n] \in Promise!Entry \cup {None} BY StandsFor, EntryTyped
<1>2. Entries' = [Entries EXCEPT ![c] = [@ EXCEPT ![n] = Entries'[c][n]]]
  BY StandsFor, OnePlace
<1>3. Unread' = Unread BY StandsFor
<1>4. [l \in Listings |-> listing'[l].told] = [l \in Listings |-> listing[l].told]
  OBVIOUS
<1>5. c \notin {x \in Contexts : context[x] = "destroyed"} OBVIOUS
<1> QED BY <1>1, <1>2, <1>3, <1>4, <1>5 DEF Promise!Put

LEMMA UnboundPut ==
  ASSUME IInv, NEW c \in Contexts, NEW n \in Names, context[c] # "destroyed",
         BecomesDir(Unbound(Dir, c, n)), context' = context, listing' = listing
  PROVE  Promise!Put(c, n)
<1>1. /\ table' \in Tables /\ rn' \in Structures /\ Right(table', rn', listing, calls)
  BY UnboundStep
<1>2. SameBut(table, rn, table', rn', c, n) /\ UnreadOf(rn', listing) = UnreadOf(rn, listing)
  BY Types, UnboundKeeps DEF BecomesDir, Dir
<1> QED BY <1>1, <1>2, PutStep

LEMMA ReboundPut ==
  ASSUME IInv, NEW c \in Contexts, NEW n \in Names, NEW v \in Values,
         NEW sub \in BOOLEAN, NEW b \in Allocated(Unbound(Dir, c, n)),
         BecomesDir(Inserted(Unbound(Dir, c, n), c, n, v, sub, b)),
         context[c] # "destroyed", listing' = listing,
         {x \in Contexts : context'[x] = "destroyed"}
           = {x \in Contexts : context[x] = "destroyed"}
  PROVE  Promise!Put(c, n)
<1> DEFINE d == Unbound(Dir, c, n)
           T == d.table
           R == d.rn
           e == Inserted([table |-> T, rn |-> R], c, n, v, sub, b)
<1>1. /\ d.table \in Tables /\ d.rn \in Structures
      /\ Right(d.table, d.rn, listing, calls)
      /\ SameBut(table, rn, d.table, d.rn, c, n)
      /\ UnreadOf(d.rn, listing) = UnreadOf(rn, listing)
  BY Types, UnboundRight, UnboundKeeps DEF Dir
<1>2. b \in Bindings /\ d.rn[b].refcount = 0 BY DEF Allocated
<1>3. Inserted(d, c, n, v, sub, b) = e BY DEF Inserted
<1>4. /\ table' \in Tables /\ rn' \in Structures /\ Right(table', rn', listing, calls)
  BY ReboundStep
<1>types. listing \in Lists /\ calls \in Seq(Call) BY Types
<1> HIDE DEF d, T, R
<1>free. /\ T \in Tables /\ R \in Structures /\ Right(T, R, listing, calls)
         /\ R[b].refcount = 0 /\ b \in Bindings
  BY <1>1, <1>2 DEF T, R
<1>5. /\ SameBut(T, R, e.table, e.rn, c, n)
      /\ UnreadOf(e.rn, listing) = UnreadOf(R, listing)
  BY <1>types, <1>free, InsertedKeeps
<1>6. table' = e.table /\ rn' = e.rn BY <1>3 DEF BecomesDir, d, T, R
<1> HIDE DEF e
<1>7. SameBut(table, rn, table', rn', c, n) BY <1>1, <1>5, <1>6 DEF SameBut, T, R
<1>8. UnreadOf(rn', listing) = UnreadOf(rn, listing) BY <1>1, <1>5, <1>6 DEF R
<1> QED BY <1>4, <1>7, <1>8, PutStep

(* What a step of the name service is for its clients.                     *)
Seen ==
  <<Entries, {c \in Contexts : context[c] = "destroyed"}, Unread,
    [l \in Listings |-> listing[l].told]>>
Promised == Promise!Next \/ UNCHANGED Seen

LEMMA Stutters ==
  ASSUME UNCHANGED <<table, rn, listing>>,
         {x \in Contexts : context'[x] = "destroyed"}
           = {x \in Contexts : context[x] = "destroyed"}
  PROVE  Promised
<1>1. Entries' = Entries /\ Unread' = Unread BY StandsFor
<1> QED BY <1>1 DEF Promised, Seen

LEMMA PutPromised ==
  ASSUME NEW c \in Contexts, NEW n \in Names, Promise!Put(c, n)
  PROVE  Promised
BY DEF Promise!Next, Promised

LEMMA NothingPromised == Crash \/ Fail => Promised
BY Stutters DEF Crash, Fail, vars

LEMMA ElsewherePromised ==
  ASSUME NEW c, NEW path, NEW resolving, Elsewhere(c, path, resolving)
  PROVE  Promised
BY NothingPromised DEF Elsewhere

LEMMA ServantLives ==
  ASSUME NEW c, NEW path, NEW resolving, NEW at \in Servant(c, path, resolving)
  PROVE  at \in Contexts /\ context[at] # "destroyed"
BY DEF Servant

(* A context that begins to be used was not gone.                          *)
LEMMA BegunNotGone ==
  ASSUME IInv, NEW w \in Contexts, context[w] = "none",
         context' = [context EXCEPT ![w] = "active"]
  PROVE  {x \in Contexts : context'[x] = "destroyed"}
           = {x \in Contexts : context[x] = "destroyed"}
BY DEF IInv, TypeOK

LEMMA BindPromised ==
  ASSUME IInv, NEW op \in Ops \ {"resolve"}, NEW c \in Contexts, NEW n \in Names,
         NEW v, op \in {"bind", "bind_context"} => v \in Values,
         NEW w \in FreeContexts(op), Bind(op, c, n, v, w),
         context[c] # "destroyed", listing' = listing
  PROVE  Promised
<1>1. PICK b \in Allocated(Unbound(Dir, c, n)) :
        IF op = "bind_new_context"
        THEN /\ BecomesDir(Inserted(Unbound(Dir, c, n), c, n, w, TRUE, b))
             /\ context' = [context EXCEPT ![w] = "active"]
        ELSE /\ BecomesDir(Inserted(Unbound(Dir, c, n), c, n, v, op = "bind_context", b))
             /\ UNCHANGED context
  BY DEF Bind
<1>2. CASE op = "bind_new_context"
  <2>1. w \in Contexts /\ w \in Values /\ context[w] = "none"
    BY <1>2 DEF FreeContexts, Values
  <2>2. {x \in Contexts : context'[x] = "destroyed"}
          = {x \in Contexts : context[x] = "destroyed"}
    BY <1>1, <1>2, <2>1, BegunNotGone
  <2>3. Promise!Put(c, n) BY <1>1, <1>2, <2>1, <2>2, ReboundPut
  <2> QED BY <2>3, PutPromised
<1>3. CASE op # "bind_new_context"
  <2>1. v \in Values BY <1>3 DEF Ops
  <2>2. (op = "bind_context") \in BOOLEAN OBVIOUS
  <2>3. Promise!Put(c, n) BY <1>1, <1>3, <2>1, <2>2, ReboundPut
  <2> QED BY <2>3, PutPromised
<1> QED BY <1>2, <1>3

LEMMA BindHerePromised ==
  ASSUME IInv, NEW op \in Ops \ {"resolve"}, NEW v \in Values \cup {None},
         op \in {"bind", "bind_context"} => v \in Values,
         NEW c \in Contexts, NEW n \in Names, context[c] # "destroyed",
         BindHere(op, v, c, n)
  PROVE  Promised
<1>1. CASE (\E w \in FreeContexts(op) : Bind(op, c, n, v, w))
           /\ UNCHANGED <<listing, calls, crashed>>
  BY <1>1, BindPromised
<1>2. CASE Fail BY <1>2, NothingPromised
<1>3. CASE Waits(op, c, n, v) BY <1>3, Stutters DEF Waits
<1> QED BY <1>1, <1>2, <1>3 DEF BindHere

LEMMA BindNamePromised ==
  ASSUME IInv, NEW c \in Contexts, NEW path \in Paths, NEW v \in Values,
         BindName(c, path, v) \/ BindContext(c, path, v)
  PROVE  Promised
<1>1. Last(path) \in Names BY LastName
<1>2. CASE Elsewhere(c, path, FALSE) BY <1>2, ElsewherePromised
<1>3. CASE \E at \in Servant(c, path, FALSE) : BindHere("bind", v, at, Last(path))
  BY <1>1, <1>3, ServantLives, BindHerePromised DEF Ops
<1>4. CASE \E at \in Servant(c, path, FALSE) :
             BindHere("bind_context", v, at, Last(path))
  BY <1>1, <1>4, ServantLives, BindHerePromised DEF Ops
<1> QED BY <1>2, <1>3, <1>4 DEF BindName, BindContext

LEMMA BindNewContextPromised ==
  ASSUME IInv, NEW c \in Contexts, NEW path \in Paths, BindNewContext(c, path)
  PROVE  Promised
<1>1. Last(path) \in Names BY LastName
<1>2. CASE Elsewhere(c, path, FALSE) BY <1>2, ElsewherePromised
<1>3. CASE \E at \in Servant(c, path, FALSE) :
             BindHere("bind_new_context", None, at, Last(path))
  BY <1>1, <1>3, ServantLives, BindHerePromised DEF Ops
<1> QED BY <1>2, <1>3 DEF BindNewContext

LEMMA RebindPromised ==
  ASSUME IInv, NEW c \in Contexts, NEW path \in Paths, NEW v \in Values,
         NEW sub \in BOOLEAN, Rebind(c, path, v, sub)
  PROVE  Promised
<1>1. Last(path) \in Names BY LastName
<1>2. CASE Elsewhere(c, path, FALSE) BY <1>2, ElsewherePromised
<1>3. ASSUME NEW at \in Servant(c, path, FALSE), RebindHere(v, sub, at, Last(path))
      PROVE  Promised
  <2>1. at \in Contexts /\ context[at] # "destroyed" BY ServantLives
  <2>2. PICK b \in Allocated(Unbound(Dir, at, Last(path))) :
          BecomesDir(Inserted(Unbound(Dir, at, Last(path)), at, Last(path), v, sub, b))
    BY <1>3 DEF RebindHere
  <2>3. context' = context /\ listing' = listing BY <1>3 DEF RebindHere
  <2>4. Promise!Put(at, Last(path)) BY <1>1, <2>1, <2>2, <2>3, ReboundPut
  <2> QED BY <1>1, <2>1, <2>4, PutPromised
<1> QED BY <1>2, <1>3 DEF Rebind

LEMMA UnbindPromised ==
  ASSUME IInv, NEW c \in Contexts, NEW path \in Paths, Unbind(c, path)
  PROVE  Promised
<1>1. Last(path) \in Names BY LastName
<1>2. CASE Elsewhere(c, path, FALSE) BY <1>2, ElsewherePromised
<1>3. ASSUME NEW at \in Servant(c, path, FALSE), UnbindHere(at, Last(path))
      PROVE  Promised
  <2>1. at \in Contexts /\ context[at] # "destroyed" BY ServantLives
  <2>2. Promise!Put(at, Last(path)) BY <1>1, <1>3, <2>1, UnboundPut DEF UnbindHere
  <2> QED BY <1>1, <2>1, <2>2, PutPromised
<1> QED BY <1>2, <1>3 DEF Unbind

LEMMA ResolvePromised ==
  ASSUME NEW c \in Contexts, NEW path \in Paths, Resolve(c, path)
  PROVE  Promised
<1>1. CASE Elsewhere(c, path, TRUE) BY <1>1, ElsewherePromised
<1>2. ASSUME NEW at \in Contexts, ResolveHere(at, Last(path)) PROVE Promised
  BY <1>2, NothingPromised, Stutters DEF ResolveHere, Waits
<1> QED BY <1>1, <1>2, ServantContext DEF Resolve

(* After its wait a handler finds the context that it was called in        *)
(* destroyed only if the answer was yes, or it does not go on.             *)
LEMMA ResumePromised ==
  ASSUME IInv, Resume
  PROVE  Promised
<1>1. CASE Crash BY <1>1, NothingPromised
<1>2. ASSUME NEW exists \in BOOLEAN, calls # <<>>, ~ Misused(exists), GoesOn(exists)
      PROVE  Promised
  <2>1. /\ Asked.in \in Contexts /\ Asked.name \in Names /\ Asked.op \in Ops
        /\ Asked.op \in {"bind", "bind_context"} => Asked.obj \in Values
    <3>1. Remembered(rn, calls) BY DEF IInv, Right
    <3>2. Asked \in Call /\ Asked = calls[Len(calls)] /\ Len(calls) \in DOMAIN calls
      BY <1>2, FrontOfCalls
    <3> QED BY <3>1, <3>2 DEF Call, Remembered
  <2>2. ~ exists => context[Asked.in] # "destroyed" BY <1>2 DEF Misused
  <2>3. listing' = listing BY <1>2 DEF GoesOn
  <2>4. CASE UNCHANGED <<context, table, rn>> BY <2>3, <2>4, Stutters
  <2>5. CASE /\ ~ exists /\ BecomesDir(Unbound(Dir, Asked.in, Asked.name))
             /\ UNCHANGED context
    <3>1. Promise!Put(Asked.in, Asked.name) BY <2>1, <2>2, <2>3, <2>5, UnboundPut
    <3> QED BY <2>1, <3>1, PutPromised
  <2>6. CASE /\ ~ exists /\ Asked.op # "resolve"
             /\ \E w \in FreeContexts(Asked.op) :
                  Bind(Asked.op, Asked.in, Asked.name, Asked.obj, w)
    <3>1. PICK w \in FreeContexts(Asked.op) :
            Bind(Asked.op, Asked.in, Asked.name, Asked.obj, w)
      BY <2>6
    <3>2. Asked.op \in Ops \ {"resolve"} BY <2>1, <2>6
    <3> QED BY <3>1, <3>2, <2>6, <2>1, <2>2, <2>3, BindPromised
  <2> QED BY <1>2, <2>4, <2>5, <2>6 DEF GoesOn
<1> QED BY <1>1, <1>2 DEF Resume, ExistsAnswers

LEMMA NewContextPromised ==
  ASSUME IInv, NewContext
  PROVE  Promised
<1>1. PICK w \in FreeContexts("bind_new_context") :
        context' = [context EXCEPT ![w] = "active"]
  BY DEF NewContext
<1>2. w \in Contexts /\ context[w] = "none" BY DEF FreeContexts
<1>3. UNCHANGED <<table, rn, listing>> BY DEF NewContext
<1> QED BY <1>1, <1>2, <1>3, BegunNotGone, Stutters

LEMMA DestroyPromised ==
  ASSUME IInv, NEW c \in Contexts, Destroy(c)
  PROVE  Promised
<1>1. CASE Crash BY <1>1, NothingPromised
<1>2. CASE /\ context[c] # "destroyed"
           /\ context' = [context EXCEPT ![c] = "destroyed"]
           /\ table' = [table EXCEPT ![c] = [n \in Names |-> None]]
           /\ rn' = UnreffedAll(rn, Bound(c))
           /\ UNCHANGED <<listing, calls, crashed>>
  <2> DEFINE gone == {x \in Contexts : context[x] = "destroyed"}
  <2>1. table \in Tables /\ rn \in Structures /\ listing \in Lists
        /\ Right(table, rn, listing, calls)
    BY Types
  <2>2. IInv' BY DestroyStep
  <2>3. table' \in Tables /\ rn' \in Structures /\ Right(table', rn', listing, calls)
    BY <1>2, <2>2 DEF IInv, TypeOK, Tables, Structures
  <2>4. Steady(rn, rn')
    <3>1. \A b \in Bound(c) : b \in Bindings /\ InTable(table, b) BY DEF Bound, InTable
    <3>2. \A b \in Bound(c) : rn[b].refcount # 0 BY <2>1, <3>1, InUse DEF Right
    <3> QED BY <1>2, <2>1, <3>2, UnreffedAllOf
  <2>5. Counted(table', rn', listing) BY <2>3 DEF Right
  <2>6. ASSUME NEW x \in Contexts, NEW y \in Names, x # c
        PROVE  EntriesOf(table', rn')[x][y] = EntriesOf(table, rn)[x][y]
    <3>1. table'[x][y] = table[x][y] BY <1>2, <2>6 DEF IInv, TypeOK
    <3> QED BY <2>1, <2>3, <2>4, <2>5, <3>1, EntriesSteady
  <2>7. \A y \in Names : table'[c][y] = None BY <1>2, <2>1 DEF Tables
  <2>8. EntriesOf(table', rn')[c] = [y \in Names |-> None] BY <2>7 DEF EntriesOf
  <2>9. \A x \in Contexts : x # c => EntriesOf(table', rn')[x] = EntriesOf(table, rn)[x]
    BY <2>6 DEF EntriesOf
  <2>10. EntriesOf(table', rn')
           = [EntriesOf(table, rn) EXCEPT ![c] = [y \in Names |-> None]]
    <3> DEFINE E == EntriesOf(table, rn)
               F == EntriesOf(table', rn')
    <3>1. E = [x \in Contexts |-> E[x]] /\ F = [x \in Contexts |-> F[x]]
      BY DEF EntriesOf
    <3>2. F[c] = [y \in Names |-> None] /\ \A x \in Contexts : x # c => F[x] = E[x]
      BY <2>8, <2>9
    <3> HIDE DEF E, F
    <3>3. F = [E EXCEPT ![c] = [y \in Names |-> None]] BY <3>1, <3>2
    <3> QED BY <3>3 DEF E, F
  <2>11. UnreadOf(rn', listing) = UnreadOf(rn, listing)
    <3>1. \A l \in Listings : ToldOf(rn', listing[l].items) = ToldOf(rn, listing[l].items)
      BY <2>1, <2>3, <2>4, <2>5, UnreadSteady
    <3> QED BY <3>1 DEF UnreadOf
  <2>12. {x \in Contexts : context'[x] = "destroyed"} = gone \cup {c}
    BY <1>2 DEF IInv, TypeOK
  <2>13. c \notin gone BY <1>2
  <2>14. Entries' = [Entries EXCEPT ![c] = [y \in Names |-> None]] BY <2>10, StandsFor
  <2>15. Unread' = Unread BY <1>2, <2>11, StandsFor
  <2>16. [l \in Listings |-> listing'[l].told] = [l \in Listings |-> listing[l].told]
    BY <1>2
  <2>17. Promise!Destroy(c) BY <2>12, <2>13, <2>14, <2>15, <2>16 DEF Promise!Destroy
  <2> QED BY <2>17 DEF Promised, Promise!Next
<1> QED BY <1>1, <1>2 DEF Destroy

(* The items read and the items left tell the two parts of what all tell.  *)
LEMMA ToldParts ==
  ASSUME NEW R, NEW items \in Seq(Bindings), NEW n \in 0 .. Len(items)
  PROVE  /\ Len(ToldOf(R, items)) = Len(items)
         /\ ToldOf(R, Read(items, n)) = SubSeq(ToldOf(R, items), 1, n)
         /\ ToldOf(R, Left(items, n))
              = SubSeq(ToldOf(R, items), n + 1, Len(ToldOf(R, items)))
<1> DEFINE S == {Tells(R, b) : b \in Bindings}
           all == ToldOf(R, items)
           m == Len(items)
<1>1. m \in Nat /\ n \in Nat /\ n <= m /\ DOMAIN items = 1 .. m
      /\ \A i \in 1 .. m : items[i] \in Bindings
  BY LenProperties
<1>2. all = [i \in 1 .. m |-> Tells(R, items[i])] /\ \A i \in 1 .. m : all[i] \in S
  BY <1>1 DEF ToldOf
<1>3. all \in [1 .. m -> S] BY <1>2
<1>4. all \in Seq(S) /\ Len(all) = m BY <1>1, <1>3
<1>5. /\ Read(items, n) \in Seq(Bindings) /\ Len(Read(items, n)) = n
      /\ \A i \in 1 .. n : Read(items, n)[i] = items[i]
      /\ Left(items, n) \in Seq(Bindings) /\ Len(Left(items, n)) = m - n
      /\ \A i \in 1 .. m - n : Left(items, n)[i] = items[n + i]
  BY ReadAndLeft
<1>6. DOMAIN Read(items, n) = 1 .. n /\ DOMAIN Left(items, n) = 1 .. m - n
  BY <1>5, LenProperties
<1> HIDE DEF all, m, S
<1>7. ToldOf(R, Read(items, n)) = [i \in 1 .. n |-> all[i]]
  BY <1>1, <1>2, <1>5, <1>6 DEF ToldOf
<1>8. ToldOf(R, Left(items, n)) = [i \in 1 .. m - n |-> all[n + i]]
  <2>1. \A i \in 1 .. m - n : n + i \in 1 .. m BY <1>1
  <2> QED BY <1>2, <1>5, <1>6, <2>1 DEF ToldOf
<1>9. SubSeq(all, 1, n) = [i \in 1 .. n |-> all[i]]
  <2>1. /\ SubSeq(all, 1, n) \in Seq(S) /\ Len(SubSeq(all, 1, n)) = n
        /\ \A i \in 1 .. n : SubSeq(all, 1, n)[i] = all[i]
    <3>1. \A i \in 1 .. n : all[i] \in S BY <1>1, <1>2
    <3>2. n - 1 + 1 = n /\ (~ 1 <= n => n = 0) /\ (\A i \in 1 .. n : 1 + i - 1 = i)
          /\ n \in Int /\ 1 \in Int
      BY <1>1
    <3> QED BY <3>1, <3>2, SubSeqProperties
  <2> QED BY <2>1, LenProperties
<1>10. SubSeq(all, n + 1, m) = [i \in 1 .. m - n |-> all[n + i]]
  <2>1. /\ SubSeq(all, n + 1, m) \in Seq(S) /\ Len(SubSeq(all, n + 1, m)) = m - n
        /\ \A i \in 1 .. m - n : SubSeq(all, n + 1, m)[i] = all[n + i]
    <3>1. \A i \in n + 1 .. m : all[i] \in S BY <1>1, <1>2
    <3>2. /\ m - (n + 1) + 1 = m - n /\ (~ n + 1 <= m => m - n = 0)
          /\ (\A i \in 1 .. m - n : n + 1 + i - 1 = n + i)
          /\ n + 1 \in Int /\ m \in Int
      BY <1>1
    <3> QED BY <3>1, <3>2, SubSeqProperties
  <2> QED BY <2>1, LenProperties
<1> QED BY <1>4, <1>7, <1>8, <1>9, <1>10 DEF all, m

LEMMA SteadyOn ==
  ASSUME NEW R, NEW R2, NEW R3, Steady(R, R2), Steady(R2, R3)
  PROVE  Steady(R, R3)
BY DEF Steady

LEMMA ReffedSteady ==
  ASSUME NEW R \in Structures, NEW B, \A b \in B : R[b].refcount # 0
  PROVE  /\ Reffed(R, B) \in Structures /\ Steady(R, Reffed(R, B))
         /\ \A b \in B : Reffed(R, B)[b].refcount # 0 \/ b \notin Bindings
<1> DEFINE R2 == Reffed(R, B)
<1>1. ASSUME NEW b \in Bindings
      PROVE  /\ R2[b] \in RegisteredName
             /\ R2[b].nc = R[b].nc /\ R2[b].obj = R[b].obj
             /\ R2[b].is_subctx = R[b].is_subctx
             /\ R2[b].refcount # 0 => R[b].refcount # 0
             /\ b \in B => R2[b].refcount # 0
  <2>1. R[b] \in RegisteredName BY DEF Structures
  <2>2. R[b].refcount + 1 \in Nat /\ R[b].refcount + 1 # 0
    BY <2>1 DEF RegisteredName
  <2>3. CASE b \in B
    <3>1. R2[b] = [R[b] EXCEPT !.refcount = R[b].refcount + 1]
      BY <2>1, <2>3 DEF Reffed, RegisteredName
    <3> QED BY <2>1, <2>2, <2>3, <3>1 DEF RegisteredName
  <2>4. CASE b \notin B BY <2>1, <2>4 DEF Reffed
  <2> QED BY <2>3, <2>4
<1>2. R2 \in Structures BY <1>1 DEF Reffed, Structures
<1> HIDE DEF R2
<1>3. Steady(R, R2) BY <1>1 DEF Steady
<1>4. \A b \in B : R2[b].refcount # 0 \/ b \notin Bindings BY <1>1
<1> QED BY <1>2, <1>3, <1>4 DEF R2

(* One listing is told more, and has less to tell.                         *)
LEMMA TellPromised ==
  ASSUME IInv, IInv', NEW l \in Listings, NEW x, NEW before, NEW all, NEW k,
         Steady(rn, rn'), UNCHANGED <<context, table>>,
         listing' = [listing EXCEPT ![l] = x],
         x.told = before \o SubSeq(all, 1, k),
         ToldOf(rn, x.items) = SubSeq(all, k + 1, Len(all))
  PROVE  /\ [j \in Listings |-> listing'[j].told]
              = [[j \in Listings |-> listing[j].told] EXCEPT
                   ![l] = before \o SubSeq(all, 1, k)]
         /\ Unread' = [Unread EXCEPT ![l] = SubSeq(all, k + 1, Len(all))]
         /\ Entries' = Entries
         /\ {c \in Contexts : context'[c] = "destroyed"}
              = {c \in Contexts : context[c] = "destroyed"}
<1>1. /\ table \in Tables /\ rn \in Structures /\ listing \in Lists
      /\ table' \in Tables /\ rn' \in Structures /\ listing' \in Lists
      /\ Counted(table', rn', listing')
  BY DEF IInv, TypeOK, Tables, Structures, Lists, Right
<1>2. \A c \in Contexts, n \in Names :
        EntriesOf(table', rn')[c][n] = EntriesOf(table, rn)[c][n]
  <2> SUFFICES ASSUME NEW c \in Contexts, NEW n \in Names
               PROVE  EntriesOf(table', rn')[c][n] = EntriesOf(table, rn)[c][n]
    OBVIOUS
  <2>1. table'[c][n] = table[c][n] OBVIOUS
  <2> QED BY <1>1, <2>1, EntriesSteady
<1>3. Entries' = Entries BY <1>2, StandsFor DEF EntriesOf
<1>4. \A j \in Listings : ToldOf(rn', listing'[j].items) = ToldOf(rn, listing'[j].items)
  <2> DEFINE T == table'
             R == rn
             R2 == rn'
             L == listing'
  <2>1. /\ T \in Tables /\ R \in Structures /\ R2 \in Structures /\ L \in Lists
        /\ Steady(R, R2) /\ Counted(T, R2, L)
    BY <1>1
  <2> HIDE DEF T, R, R2, L
  <2>2. \A j \in Listings : ToldOf(R2, L[j].items) = ToldOf(R, L[j].items)
    BY <2>1, UnreadSteady
  <2> QED BY <2>2 DEF R, R2, L
<1>5. listing'[l] = x /\ \A j \in Listings : j # l => listing'[j] = listing[j]
  BY <1>1 DEF Lists
<1>6. Unread' = [Unread EXCEPT ![l] = SubSeq(all, k + 1, Len(all))]
  <2> DEFINE u == SubSeq(all, k + 1, Len(all))
             U == UnreadOf(rn, listing)
             V == UnreadOf(rn', listing')
  <2>1. U = [j \in Listings |-> U[j]] /\ V = [j \in Listings |-> V[j]]
        /\ V[l] = u /\ \A j \in Listings : j # l => V[j] = U[j]
    BY <1>4, <1>5 DEF UnreadOf
  <2> HIDE DEF u, U, V
  <2>2. V = [U EXCEPT ![l] = u] BY <2>1
  <2> QED BY <2>2, StandsFor DEF u, U, V
<1>7. [j \in Listings |-> listing'[j].told]
        = [[j \in Listings |-> listing[j].told] EXCEPT ![l] = before \o SubSeq(all, 1, k)]
  <2> DEFINE w == before \o SubSeq(all, 1, k)
             A == [j \in Listings |-> listing[j].told]
             B == [j \in Listings |-> listing'[j].told]
  <2>1. A = [j \in Listings |-> A[j]] /\ B = [j \in Listings |-> B[j]] OBVIOUS
  <2>2. B[l] = w
    <3>1. B[l] = listing'[l].told OBVIOUS
    <3> HIDE DEF B
    <3> QED BY <3>1, <1>5
  <2>3. \A j \in Listings : j # l => B[j] = A[j] BY <1>5
  <2> HIDE DEF w, A, B
  <2>4. B = [A EXCEPT ![l] = w] BY <2>1, <2>2, <2>3
  <2> QED BY <2>4 DEF w, A, B
<1>8. {c \in Contexts : context'[c] = "destroyed"} = {c \in Contexts : context[c] = "destroyed"}
  OBVIOUS
<1> QED BY <1>3, <1>6, <1>7, <1>8

LEMMA ReadPromised ==
  ASSUME IInv, NEW l \in Listings, NEW k \in Nat, NEW one \in BOOLEAN,
         Next_n(l, k, one)
  PROVE  Promised
<1> DEFINE items == listing[l].items
           n == Least(k, Len(items))
           x == [state |-> "active", items |-> Left(items, n),
                 told |-> listing[l].told \o [i \in DOMAIN Read(items, n) |->
                                                Told(Read(items, n)[i])],
                 due |-> listing[l].due]
<1>1. CASE Crash BY <1>1, NothingPromised
<1>2. CASE /\ rn' = UnreffedAll(rn, ToSet(Read(items, n)))
           /\ listing' = [listing EXCEPT ![l] = x]
           /\ UNCHANGED <<context, table, calls, crashed>>
  <2>1. IInv' BY NextNStep
  <2>2. /\ items \in Seq(Bindings) /\ listing \in Lists /\ table \in Tables
        /\ rn \in Structures /\ Right(table, rn, listing, calls)
    BY Types, ItemsKnown
  <2>3. n \in 0 .. Len(items) BY <2>2, CountRead
  <2>4. /\ ToSet(Read(items, n)) \subseteq ToSet(items)
        /\ \A b \in ToSet(items) : b \in Bindings
    <3>1. ToSet(items) = ToSet(Read(items, n)) \cup ToSet(Left(items, n))
      BY <2>2, <2>3, ReadAndLeft
    <3>2. \A b \in ToSet(items) : b \in Bindings BY Types, ItemsKnown
    <3> HIDE DEF items, n
    <3> QED BY <3>1, <3>2
  <2>5. \A b \in ToSet(Read(items, n)) : rn[b].refcount # 0
    BY <2>2, <2>4, InUse DEF Right
  <2>6. Steady(rn, rn') BY <1>2, <2>2, <2>5, UnreffedAllOf
  <2> DEFINE all == ToldOf(rn, items)
  <2>7. /\ Len(all) = Len(items)
        /\ ToldOf(rn, Read(items, n)) = SubSeq(all, 1, n)
        /\ ToldOf(rn, Left(items, n)) = SubSeq(all, n + 1, Len(all))
    BY <2>2, <2>3, ToldParts
  <2>8. x.items = Left(items, n) /\ x.told = listing[l].told \o SubSeq(all, 1, n)
    BY <2>7, ToldIsToldOf
  <2>9. all = Unread[l] BY StandsFor DEF UnreadOf
  <2> HIDE DEF n, all, x
  <2>10. /\ [j \in Listings |-> listing'[j].told]
              = [[j \in Listings |-> listing[j].told] EXCEPT
                   ![l] = listing[l].told \o SubSeq(all, 1, n)]
         /\ Unread' = [Unread EXCEPT ![l] = SubSeq(all, n + 1, Len(all))]
         /\ Entries' = Entries
         /\ {c \in Contexts : context'[c] = "destroyed"}
              = {c \in Contexts : context[c] = "destroyed"}
    <3>1. ToldOf(rn, x.items) = SubSeq(all, n + 1, Len(all)) BY <2>7, <2>8
    <3>2. UNCHANGED <<context, table>> /\ listing' = [listing EXCEPT ![l] = x] BY <1>2
    <3>3. x.told = listing[l].told \o SubSeq(all, 1, n) BY <2>8
    <3> QED BY <3>1, <3>2, <3>3, <2>1, <2>6, TellPromised
  <2>11. n \in 0 .. Len(Unread[l]) BY <2>3, <2>7, <2>9
  <2>12. [j \in Listings |-> listing[j].told][l] = listing[l].told OBVIOUS
  <2>13. Promise!ReadOn(l)
    BY <2>9, <2>10, <2>11, <2>12 DEF Promise!ReadOn, Promise!Tell
  <2> QED BY <2>13 DEF Promised, Promise!Next
<1> QED BY <1>1, <1>2 DEF Next_n

LEMMA ClosePromised ==
  ASSUME IInv, NEW l \in Listings, IteratorDestroy(l)
  PROVE  Promised
<1> DEFINE x == [Unused EXCEPT !.state = "destroyed"]
<1>1. IInv' BY IteratorDestroyStep
<1>2. /\ listing \in Lists /\ table \in Tables /\ rn \in Structures
      /\ Right(table, rn, listing, calls)
      /\ \A b \in ToSet(listing[l].items) : b \in Bindings
  BY Types, ItemsKnown
<1>3. \A b \in ToSet(listing[l].items) : rn[b].refcount # 0 BY <1>2, InUse DEF Right
<1>4. Steady(rn, rn') BY <1>2, <1>3, UnreffedAllOf DEF IteratorDestroy
<1>5. x.told = <<>> /\ x.items = <<>> BY DEF Unused
<1>6. ToldOf(rn, <<>>) = <<>> BY DEF ToldOf
<1>7. SubSeq(<<>>, 1, 0) = <<>> /\ Len(<<>>) = 0 /\ <<>> \o <<>> = <<>>
  <2>1. <<>> \in Seq(Nat) BY EmptySeq
  <2> QED BY <2>1, EmptySeq, SubSeqEmpty, ConcatEmptySeq
<1>8. UNCHANGED <<context, table>> /\ listing' = [listing EXCEPT ![l] = x]
  BY DEF IteratorDestroy
<1> HIDE DEF x
<1>9. x.told = <<>> \o SubSeq(<<>>, 1, 0)
      /\ ToldOf(rn, x.items) = SubSeq(<<>>, 0 + 1, Len(<<>>))
  <2>1. 0 + 1 = 1 OBVIOUS
  <2> QED BY <1>5, <1>6, <1>7, <2>1
<1>10. Promise!Tell(l, <<>>, <<>>, 0)
  BY <1>1, <1>4, <1>8, <1>9, TellPromised DEF Promise!Tell
<1> QED BY <1>10 DEF Promised, Promise!Next, Promise!Close

(* The bindings of a context, in some order, tell what Directory lists, in *)
(* the same order.                                                         *)
LEMMA ListedInOrder ==
  ASSUME IInv, NEW c \in Contexts, NEW items \in SetToSeqs(Bound(c))
  PROVE  ToldOf(rn, items) \in SetToSeqs(Promise!Listed(c))
<1> DEFINE B == Bound(c)
           P == Promise!Listed(c)
           D == 1 .. Cardinality(B)
           f == [b \in B |-> Tells(rn, b)]
           g == ToldOf(rn, items)
<1>1. /\ OneKey(table) /\ Named(table, rn) /\ table \in Tables /\ rn \in Structures
      /\ Right(table, rn, listing, calls)
  BY Types DEF Right
<1>2. B \in SUBSET Bindings /\ IsFiniteSet(B) BY BoundFinite
<1>3. items \in [D -> B] /\ \A i, j \in D : i # j => items[i] # items[j]
  BY DEF SetToSeqs
<1>4. ASSUME NEW b \in B
      PROVE  \E n \in Names : /\ table[c][n] = b /\ b # None /\ rn[b].nc = n
                              /\ Entries[c][n] # None
                              /\ Entries[c][n].sub = rn[b].is_subctx
  <2>1. PICK n \in Names : table[c][n] = b BY DEF Bound
  <2>2. b # None BY <1>2, NameServerAssumption
  <2>3. rn[b].nc = n BY <1>1, <2>1, <2>2 DEF Named
  <2>4. EntriesOf(table, rn)[c][n] # None BY <1>1, <2>1, <2>2, EntryTyped
  <2>5. EntriesOf(table, rn)[c][n].sub = rn[b].is_subctx BY <2>1, <2>2 DEF EntriesOf
  <2> QED BY <2>1, <2>2, <2>3, <2>4, <2>5, StandsFor
<1>5. ASSUME NEW n \in Names, Entries[c][n] # None
      PROVE  \E b \in B : rn[b].nc = n /\ Entries[c][n].sub = rn[b].is_subctx
  <2>1. EntriesOf(table, rn)[c][n] # None BY <1>5, StandsFor
  <2>2. table[c][n] # None BY <2>1 DEF EntriesOf
  <2>3. table[c][n] \in Bindings BY <1>1, <2>2 DEF Tables
  <2>4. table[c][n] \in B BY <2>3 DEF Bound
  <2>5. rn[table[c][n]].nc = n BY <1>1, <2>2 DEF Named
  <2>6. EntriesOf(table, rn)[c][n].sub = rn[table[c][n]].is_subctx
    BY <2>2 DEF EntriesOf
  <2> QED BY <2>4, <2>5, <2>6, StandsFor
<1>6. P = {<<n, Entries[c][n].sub>> : n \in {m \in Names : Entries[c][m] # None}}
  BY DEF Promise!Listed
<1> HIDE DEF B, P
<1>7. ASSUME NEW b \in B PROVE f[b] \in P
  <2>1. PICK n \in Names : /\ rn[b].nc = n /\ Entries[c][n] # None
                           /\ Entries[c][n].sub = rn[b].is_subctx
    BY <1>4
  <2>2. f[b] = <<n, Entries[c][n].sub>> BY <2>1 DEF Tells
  <2> QED BY <1>6, <2>1, <2>2
<1>8. ASSUME NEW a \in B, NEW b \in B, f[a] = f[b] PROVE a = b
  <2>1. rn[a].nc = rn[b].nc BY <1>8 DEF Tells
  <2>2. PICK m \in Names : table[c][m] = a /\ rn[a].nc = m BY <1>4
  <2>3. PICK n \in Names : table[c][n] = b /\ rn[b].nc = n BY <1>4
  <2> QED BY <2>1, <2>2, <2>3
<1>9. ASSUME NEW p \in P PROVE \E b \in B : f[b] = p
  <2>1. PICK n \in Names : Entries[c][n] # None /\ p = <<n, Entries[c][n].sub>>
    BY <1>6
  <2>2. PICK b \in B : rn[b].nc = n /\ Entries[c][n].sub = rn[b].is_subctx
    BY <1>5, <2>1
  <2>3. f[b] = p BY <2>1, <2>2 DEF Tells
  <2> QED BY <2>3
<1>10. DOMAIN f = B OBVIOUS
<1>11. g = [i \in D |-> f[items[i]]]
  <2>1. DOMAIN items = D BY <1>3
  <2>2. \A i \in D : items[i] \in B BY <1>3
  <2> QED BY <2>1, <2>2 DEF ToldOf
<1>12. f = [b \in B |-> f[b]] OBVIOUS
<1> HIDE DEF f, g
<1>13. f \in [B -> P] BY <1>7, <1>12
<1>14. f \in Bijection(B, P)
  BY <1>8, <1>9, <1>10, <1>13 DEF Bijection, Injection, Surjection, IsInjective
<1>15. Cardinality(P) = Cardinality(B)
  BY <1>2, <1>14, FS_Bijection DEF ExistsBijection
<1>16. \A i \in D : items[i] \in B BY <1>3
<1>17. g \in [D -> P] BY <1>7, <1>11, <1>16
<1>18. \A i, j \in D : i # j => g[i] # g[j] BY <1>3, <1>8, <1>11, <1>16
<1>19. g \in SetToSeqs(P) BY <1>15, <1>17, <1>18 DEF SetToSeqs
<1> QED BY <1>19 DEF g, P

LEMMA ListPromised ==
  ASSUME IInv, NEW c \in Contexts, NEW l \in Listings, NEW k \in Nat, List(c, l, k)
  PROVE  Promised
<1>1. CASE Crash BY <1>1, NothingPromised
<1>2. ASSUME context[c] # "destroyed", NEW items \in SetToSeqs(Bound(c)),
             rn' = UnreffedAll(Reffed(rn, Bound(c)),
                               ToSet(Read(items, Least(k, Len(items))))),
             listing' = [listing EXCEPT ![l] =
               [state |-> IF Left(items, Least(k, Len(items))) = <<>>
                          THEN "none" ELSE "active",
                items |-> Left(items, Least(k, Len(items))),
                told |-> [i \in DOMAIN Read(items, Least(k, Len(items))) |->
                            Told(Read(items, Least(k, Len(items)))[i])],
                due |-> {Told(b) : b \in Bound(c)}]],
             UNCHANGED <<context, table, calls, crashed>>
      PROVE  Promised
  <2> DEFINE B == Bound(c)
             n == Least(k, Len(items))
             R == Reffed(rn, B)
             x == [state |-> IF Left(items, n) = <<>> THEN "none" ELSE "active",
                   items |-> Left(items, n),
                   told |-> [i \in DOMAIN Read(items, n) |-> Told(Read(items, n)[i])],
                   due |-> {Told(b) : b \in B}]
             all == ToldOf(rn, items)
  <2>1. IInv' BY ListedStep
  <2>2. /\ listing \in Lists /\ table \in Tables /\ rn \in Structures
        /\ Right(table, rn, listing, calls)
    BY Types
  <2>3. B \in SUBSET Bindings /\ IsFiniteSet(B) BY BoundFinite
  <2>4. items \in Seq(Bindings) /\ ToSet(items) = B BY <2>3, InSomeOrder
  <2>5. n \in 0 .. Len(items) BY <2>4, CountRead
  <2>6. \A b \in B : InTable(table, b) BY DEF Bound, InTable
  <2>7. \A b \in B : rn[b].refcount # 0 BY <2>2, <2>3, <2>6, InUse DEF Right
  <2>8. R \in Structures /\ Steady(rn, R) /\ \A b \in B : R[b].refcount # 0
    BY <2>2, <2>3, <2>7, ReffedSteady
  <2>9. ToSet(Read(items, n)) \subseteq B BY <2>4, <2>5, ReadAndLeft
  <2>10. rn' = UnreffedAll(R, ToSet(Read(items, n))) BY <1>2
  <2>11. /\ Len(all) = Len(items)
         /\ ToldOf(rn, Read(items, n)) = SubSeq(all, 1, n)
         /\ ToldOf(rn, Left(items, n)) = SubSeq(all, n + 1, Len(all))
    BY <2>4, <2>5, ToldParts
  <2>12. x.items = Left(items, n) /\ x.told = ToldOf(rn, Read(items, n))
    BY ToldIsToldOf
  <2>13. listing' = [listing EXCEPT ![l] = x] /\ UNCHANGED <<context, table>> BY <1>2
  <2>14. all \in SetToSeqs(Promise!Listed(c)) BY ListedInOrder
  <2>15. ToldOf(rn, Read(items, n)) = <<>> \o SubSeq(all, 1, n)
    <3> DEFINE S == {Tells(rn, b) : b \in Bindings}
    <3>1. /\ Len(Read(items, n)) = n /\ n \in Nat
          /\ Read(items, n) \in Seq(Bindings)
      BY <2>4, <2>5, ReadAndLeft, LenProperties
    <3>2. ToldOf(rn, Read(items, n)) = [i \in 1 .. n |-> Tells(rn, Read(items, n)[i])]
          /\ \A i \in 1 .. n : Read(items, n)[i] \in Bindings
      BY <3>1, LenProperties DEF ToldOf
    <3> HIDE DEF n
    <3>3. ToldOf(rn, Read(items, n)) \in Seq(S) BY <3>1, <3>2
    <3> HIDE DEF S, all
    <3> QED BY <3>3, <2>11, ConcatEmptySeq
  <2> HIDE DEF B, n, R, x, all
  <2>16. Steady(R, rn') BY <2>8, <2>9, <2>10, UnreffedAllOf
  <2>17. Steady(rn, rn') BY <2>8, <2>16, SteadyOn
  <2>18. /\ [j \in Listings |-> listing'[j].told]
              = [[j \in Listings |-> listing[j].told] EXCEPT
                   ![l] = <<>> \o SubSeq(all, 1, n)]
         /\ Unread' = [Unread EXCEPT ![l] = SubSeq(all, n + 1, Len(all))]
         /\ Entries' = Entries
         /\ {y \in Contexts : context'[y] = "destroyed"}
              = {y \in Contexts : context[y] = "destroyed"}
    <3>1. ToldOf(rn, x.items) = SubSeq(all, n + 1, Len(all)) BY <2>11, <2>12
    <3>2. x.told = <<>> \o SubSeq(all, 1, n) BY <2>12, <2>15
    <3> QED BY <3>1, <3>2, <2>1, <2>13, <2>17, TellPromised
  <2>19. n \in 0 .. Len(all) BY <2>5, <2>11
  <2>20. c \notin {y \in Contexts : context[y] = "destroyed"} BY <1>2
  <2>21. Promise!List(c, l)
    <3>1. PICK s, j : s = all /\ j = n OBVIOUS
    <3>2. Promise!Tell(l, <<>>, s, j) BY <3>1, <2>18 DEF Promise!Tell
    <3>3. s \in Promise!SetToSeqs(Promise!Listed(c))
      <4>1. Promise!Cardinality(Promise!Listed(c)) = Cardinality(Promise!Listed(c))
        BY DEF Promise!Cardinality, Cardinality
      <4> QED BY <3>1, <2>14, <4>1 DEF SetToSeqs, Promise!SetToSeqs
    <3>4. j \in 0 .. Len(s) BY <3>1, <2>19
    <3> QED BY <3>2, <3>3, <3>4, <2>20 DEF Promise!List
  <2> QED BY <2>21 DEF Promised, Promise!Next
<1> QED BY <1>1, <1>2 DEF List

LEMMA StepPromised == IInv /\ [Next]_vars => Promised
<1> SUFFICES ASSUME IInv, [Next]_vars PROVE Promised OBVIOUS
<1>1. CASE UNCHANGED vars BY <1>1, NothingPromised DEF Fail
<1>2. ASSUME NEW c \in Contexts, NEW path \in Paths,
             \/ \E v \in Values : BindName(c, path, v) \/ BindContext(c, path, v)
             \/ BindNewContext(c, path)
             \/ \E v \in Values, sub \in BOOLEAN : Rebind(c, path, v, sub)
             \/ Unbind(c, path)
             \/ Resolve(c, path)
      PROVE  Promised
  BY <1>2, BindNamePromised, BindNewContextPromised, RebindPromised, UnbindPromised,
     ResolvePromised
<1>3. CASE Resume BY <1>3, ResumePromised
<1>4. CASE NewContext BY <1>4, NewContextPromised
<1>5. CASE \E c \in Contexts : Destroy(c) BY <1>5, DestroyPromised
<1>6. CASE \E c \in Contexts, l \in Listings, k \in 0 .. 1 : List(c, l, k)
  BY <1>6, ListPromised
<1>7. CASE \E l \in Listings, k \in 0 .. 2 : Next_n(l, k, FALSE)
  <2>1. PICK l \in Listings, k \in 0 .. 2 : Next_n(l, k, FALSE) BY <1>7
  <2>2. k \in Nat /\ FALSE \in BOOLEAN OBVIOUS
  <2> QED BY <2>1, <2>2, ReadPromised
<1>8. CASE \E l \in Listings : Next_n(l, 1, TRUE) BY <1>8, ReadPromised
<1>9. CASE \E l \in Listings : IteratorDestroy(l) BY <1>9, ClosePromised
<1> QED
  BY <1>1, <1>2, <1>3, <1>4, <1>5, <1>6, <1>7, <1>8, <1>9 DEF Next

LEMMA BeginsPromised == Init => Promise!Init
<1> SUFFICES ASSUME Init PROVE Promise!Init OBVIOUS
<1>1. Entries = [c \in Contexts |-> [n \in Names |-> None]] BY DEF Init, Entries
<1>2. {c \in Contexts : context[c] = "destroyed"} = {} BY DEF Init
<1>3. \A l \in Listings : listing[l].items = <<>> /\ listing[l].told = <<>>
  BY DEF Init, Unused
<1>4. ToldOf(rn, <<>>) = <<>> BY DEF ToldOf
<1>5. Unread = [l \in Listings |-> <<>>] BY <1>3, <1>4, StandsFor DEF UnreadOf
<1>6. [l \in Listings |-> listing[l].told] = [l \in Listings |-> <<>>] BY <1>3
<1> QED BY <1>1, <1>2, <1>5, <1>6 DEF Promise!Init

-----------------------------------------------------------------------------
(* Contexts, tables, structures and listings keep their types, and no more *)
(* requests wait than are allowed to.                                      *)
THEOREM TypeCorrect == Spec => []TypeOK
BY Inductive, PTL DEF IInv

(* Every structure has as many references as tables and listings point to  *)
(* it (rn_ref, rn_unref), whatever clients do with whichever contexts.     *)
THEOREM BindingsCounted == Spec => []RefsCounted
BY Inductive, CountsRefs, PTL

(* A client is told each binding of the context that it lists once, and in *)
(* the end all of them (n_names_into_bindinglist).                         *)
THEOREM ListingsWhole == Spec => []ListedOnce
BY Inductive, TellsOnce, PTL

(* matecorba-name-server.c implements Directory, whatever is freed and     *)
(* allocated again, and however many requests run inside the waits of      *)
(* others: what is bound to a name changes only as a client asked, all of  *)
(* it goes with its context, and a listing is read as it was taken.        *)
THEOREM KeepsPromise == Spec => ImplementsDirectory
<1>1. IInv /\ [Next]_vars => [Promise!Next]_Seen BY StepPromised DEF Promised
<1> QED BY <1>1, BeginsPromised, Inductive, PTL
        DEF Spec, ImplementsDirectory, Promise!Spec, Seen
=============================================================================
