---------------------------- MODULE DynAny_proofs ----------------------------
(***************************************************************************)
(* Proofs about DynAny, for all types, values and objects: components and  *)
(* their parents know each other (ParentKnows), values keep their types    *)
(* (ValuesTyped) and no call uses memory that is gone (MemorySafe).        *)
(*                                                                         *)
(* One invariant (Right) serves all that is about objects.  What is below  *)
(* an object is the least set that is closed under children (Below).  Any  *)
(* set of objects has one whose parent is outside of it (Forest), so that  *)
(* no object is below itself, and what dynany_invalidate reaches is what   *)
(* looks into the value (OnlyItsOwn).  There is one lemma for each way in  *)
(* which the objects change, and one for each operation.                   *)
(*                                                                         *)
(* A second one (Typed) is about values: the path of every object leads    *)
(* from the value of its owner, through parts that are there, to a part of *)
(* its type.  What the recursive definitions of DynAny say is proved by    *)
(* looking at the least number, or the least type, for which they do not.  *)
(***************************************************************************)
EXTENDS DynAny, TLAPS, WellFoundedInduction

(* The facts below speak of objects D, so that they can be used of what a  *)
(* call has done when it is half through as well.                          *)
IsLive(D, d) == D[d].life = "live"
HasAny(D, d) == IsLive(D, d) /\ D[d].any
Used == {"life", "any", "type", "owns", "root", "path", "mem", "idx", "children",
         "parent"}

Shaped(D) ==
  /\ D = [d \in Dyns |-> D[d]]
  /\ \A d \in Dyns :
       /\ Used \subseteq DOMAIN D[d]
       /\ D[d].any \in BOOLEAN /\ D[d].owns \in BOOLEAN
       /\ D[d].children \subseteq Dyns

(* Memory that is no object has nothing.                                   *)
Blank(D) ==
  \A d \in Dyns :
    ~ IsLive(D, d) =>
      D[d].children = {} /\ ~ D[d].any /\ ~ D[d].owns /\ D[d].parent = None

Linking(D) ==
  \A d \in Dyns :
    IsLive(D, d) =>
      /\ D[d].parent # None =>
           /\ D[d].parent \in Dyns /\ HasAny(D, D[d].parent)
           /\ d \in D[D[d].parent].children /\ D[d].any /\ ~ D[d].owns
      /\ \A c \in D[d].children : IsLive(D, c) => D[c].parent = d
      /\ D[d].any => D[d].owns \/ D[d].parent # None
      /\ ~ D[d].any => D[d].children = {} /\ ~ D[d].owns

(* No object is below itself.                                              *)
Forest(D) ==
  \A S \in SUBSET Dyns : S # {} => \E x \in S : D[x].parent \notin S

Roots(D) ==
  \A d \in Dyns :
    HasAny(D, d) =>
      /\ D[d].owns => D[d].root = d
      /\ D[d].parent # None => D[d].root = D[D[d].parent].root

Listed(D) == Careful => \A d \in Dyns : \A c \in D[d].children : IsLive(D, c)
Viewed(D) == Careful => \A d \in Dyns : HasAny(D, d) => D[d].mem # "freed"

Right(D) ==
  /\ Shaped(D) /\ Blank(D) /\ Linking(D) /\ Forest(D) /\ Roots(D)
  /\ Listed(D) /\ Viewed(D)

NoDeadList == Careful => crash # "list"
IInv == Right(dyn) /\ NoDeadList

(* An object that has an any looks into the value of one that owns it.     *)
ViewsOwned ==
  \A d \in Dyns : Exists(d) =>
    dyn[d].root \in Dyns /\ Exists(dyn[d].root) /\ dyn[dyn[d].root].owns
-----------------------------------------------------------------------------
(* An object that changes in what this argument does not look at.          *)
Kept(D, D2, d) ==
  /\ D2[d].life = D[d].life /\ D2[d].any = D[d].any /\ D2[d].owns = D[d].owns
  /\ D2[d].root = D[d].root /\ D2[d].parent = D[d].parent

LEMMA AllKept ==
  ASSUME NEW D, NEW D2, Right(D), Shaped(D2),
         \A d \in Dyns : Kept(D, D2, d) /\ D2[d].children = D[d].children,
         Careful => \A d \in Dyns : D2[d].mem = D[d].mem \/ D2[d].mem # "freed"
  PROVE  Right(D2)
<1>1. Shaped(D) /\ Blank(D) /\ Linking(D) /\ Forest(D) /\ Roots(D)
      /\ Listed(D) /\ Viewed(D)
  BY DEF Right
<1>2. \A d \in Dyns : /\ IsLive(D2, d) <=> IsLive(D, d)
                      /\ HasAny(D2, d) <=> HasAny(D, d)
  BY DEF Kept, IsLive, HasAny
<1>3. Blank(D2) BY <1>1, <1>2 DEF Blank, Kept
<1>4. Linking(D2)
  <2> SUFFICES ASSUME NEW d \in Dyns, IsLive(D2, d)
               PROVE  /\ D2[d].parent # None =>
                           /\ D2[d].parent \in Dyns /\ HasAny(D2, D2[d].parent)
                           /\ d \in D2[D2[d].parent].children
                           /\ D2[d].any /\ ~ D2[d].owns
                      /\ \A c \in D2[d].children : IsLive(D2, c) => D2[c].parent = d
                      /\ D2[d].any => D2[d].owns \/ D2[d].parent # None
                      /\ ~ D2[d].any => D2[d].children = {} /\ ~ D2[d].owns
    BY DEF Linking
  <2>1. D[d].children \subseteq Dyns BY <1>1 DEF Shaped
  <2> QED BY <1>1, <1>2, <2>1 DEF Linking, Kept
<1>5. Forest(D2) BY <1>1 DEF Forest, Kept
<1>6. Roots(D2)
  <2> SUFFICES ASSUME NEW d \in Dyns, HasAny(D2, d)
               PROVE  /\ D2[d].owns => D2[d].root = d
                      /\ D2[d].parent # None => D2[d].root = D2[D2[d].parent].root
    BY DEF Roots
  <2>1. HasAny(D, d) BY <1>2
  <2>2. D[d].parent # None => D[d].parent \in Dyns
    BY <1>1, <2>1 DEF Linking, HasAny
  <2> QED BY <1>1, <2>1, <2>2 DEF Roots, Kept
<1>7. Listed(D2)
  <2> SUFFICES ASSUME Careful, NEW d \in Dyns, NEW c \in D2[d].children
               PROVE  IsLive(D2, c)
    BY DEF Listed
  <2>1. c \in D[d].children /\ c \in Dyns BY <1>1 DEF Shaped
  <2> QED BY <1>1, <1>2, <2>1 DEF Listed
<1>8. Viewed(D2) BY <1>1, <1>2 DEF Viewed
<1> QED BY <1>3, <1>4, <1>5, <1>6, <1>7, <1>8 DEF Right

(* A new object with a value of its own.                                   *)
LEMMA MasterRight ==
  ASSUME NEW D, NEW D2, Right(D), Shaped(D2), NEW d \in Dyns, ~ IsLive(D, d),
         \A p \in Dyns : d \notin D[p].children,
         \A x \in Dyns : x # d => D2[x] = D[x],
         D2[d].life = "live", D2[d].any, D2[d].owns, D2[d].root = d,
         D2[d].mem = "ok", D2[d].children = {}, D2[d].parent = None
  PROVE  Right(D2)
<1>1. Shaped(D) /\ Blank(D) /\ Linking(D) /\ Forest(D) /\ Roots(D)
      /\ Listed(D) /\ Viewed(D)
  BY DEF Right
<1>2. \A x \in Dyns : x # d => /\ IsLive(D2, x) <=> IsLive(D, x)
                               /\ HasAny(D2, x) <=> HasAny(D, x)
  BY DEF IsLive, HasAny
<1>3. None \notin Dyns BY TypesAssumption
<1>4. \A x \in Dyns : D[x].children \subseteq Dyns BY <1>1 DEF Shaped
(* Nobody had it for a parent.                                             *)
<1>5. \A x \in Dyns : IsLive(D, x) => D[x].parent # d
  BY <1>1, <1>3 DEF Linking, HasAny
<1>6. Blank(D2) BY <1>1, <1>2 DEF Blank, IsLive
<1>7. Linking(D2)
  <2> SUFFICES ASSUME NEW x \in Dyns, IsLive(D2, x)
               PROVE  /\ D2[x].parent # None =>
                           /\ D2[x].parent \in Dyns /\ HasAny(D2, D2[x].parent)
                           /\ x \in D2[D2[x].parent].children
                           /\ D2[x].any /\ ~ D2[x].owns
                      /\ \A c \in D2[x].children : IsLive(D2, c) => D2[c].parent = x
                      /\ D2[x].any => D2[x].owns \/ D2[x].parent # None
                      /\ ~ D2[x].any => D2[x].children = {} /\ ~ D2[x].owns
    BY DEF Linking
  <2>1. CASE x = d BY <2>1
  <2>2. CASE x # d
    <3>1. IsLive(D, x) /\ D2[x] = D[x] BY <2>2, <1>2
    <3>2. \A c \in D[x].children : c \in Dyns /\ c # d /\ D2[c] = D[c] BY <1>4
    <3>3. D[x].parent # None => D[x].parent \in Dyns /\ D2[D[x].parent] = D[D[x].parent]
      BY <1>1, <1>5, <3>1 DEF Linking
    <3> QED BY <3>1, <3>2, <3>3, <1>1, <1>2 DEF Linking, HasAny, IsLive
  <2> QED BY <2>1, <2>2
<1>8. Forest(D2)
  <2> SUFFICES ASSUME NEW S \in SUBSET Dyns, S # {},
                      \A x \in S : D2[x].parent \in S
               PROVE  FALSE
    BY DEF Forest
  <2>1. d \notin S BY <1>3
  <2>2. \A x \in S : D[x].parent \in S BY <2>1
  <2> QED BY <2>2, <1>1 DEF Forest
<1>9. Roots(D2)
  <2> SUFFICES ASSUME NEW x \in Dyns, HasAny(D2, x)
               PROVE  /\ D2[x].owns => D2[x].root = x
                      /\ D2[x].parent # None => D2[x].root = D2[D2[x].parent].root
    BY DEF Roots
  <2>1. CASE x = d BY <2>1
  <2>2. CASE x # d
    <3>1. HasAny(D, x) /\ D2[x] = D[x] BY <2>2, <1>2
    <3>2. D[x].parent # None => D[x].parent \in Dyns /\ D[x].parent # d
      BY <1>1, <1>5, <3>1 DEF Linking, HasAny
    <3> QED BY <3>1, <3>2, <1>1 DEF Roots
  <2> QED BY <2>1, <2>2
<1>10. Listed(D2)
  <2> SUFFICES ASSUME Careful, NEW x \in Dyns, NEW c \in D2[x].children
               PROVE  IsLive(D2, c)
    BY DEF Listed
  <2>1. x # d OBVIOUS
  <2>2. c \in D[x].children /\ c \in Dyns /\ c # d BY <2>1, <1>4
  <2> QED BY <2>2, <1>1, <1>2 DEF Listed
<1>11. Viewed(D2) BY <1>1, <1>2 DEF Viewed
<1> QED BY <1>6, <1>7, <1>8, <1>9, <1>10, <1>11 DEF Right

(* Objects C that no object is linked to.                                  *)
Fresh(D, C) ==
  \A c \in C : ~ IsLive(D, c) /\ \A x \in Dyns : c \notin D[x].children

(* New components C of the object p.                                       *)
LEMMA LinkedRight ==
  ASSUME NEW D, NEW D2, Right(D), Shaped(D2), NEW p \in Dyns, HasAny(D, p),
         NEW C \in SUBSET Dyns, Fresh(D, C),
         \A x \in Dyns \ (C \cup {p}) : D2[x] = D[x],
         Kept(D, D2, p), D2[p].mem = D[p].mem, D2[p].children = D[p].children \cup C,
         \A c \in C : /\ D2[c].life = "live" /\ D2[c].any /\ ~ D2[c].owns
                      /\ D2[c].root = D[p].root /\ D2[c].children = {}
                      /\ D2[c].parent = p
                      /\ Careful => D2[c].mem # "freed"
  PROVE  Right(D2)
<1>0. \A c \in C : ~ IsLive(D, c) /\ \A x \in Dyns : c \notin D[x].children
  BY DEF Fresh
<1>1. Shaped(D) /\ Blank(D) /\ Linking(D) /\ Forest(D) /\ Roots(D)
      /\ Listed(D) /\ Viewed(D)
  BY DEF Right
<1>2. p \notin C BY <1>0 DEF HasAny
<1>3. \A x \in Dyns \ C : /\ Kept(D, D2, x) /\ D2[x].mem = D[x].mem
                          /\ D2[x].children = IF x = p THEN D[x].children \cup C
                                              ELSE D[x].children
  BY <1>2 DEF Kept
<1>4. \A x \in Dyns \ C : /\ IsLive(D2, x) <=> IsLive(D, x)
                          /\ HasAny(D2, x) <=> HasAny(D, x)
  BY <1>3 DEF IsLive, HasAny, Kept
<1>5. \A c \in C : IsLive(D2, c) /\ HasAny(D2, c) BY DEF IsLive, HasAny
<1>6. None \notin Dyns BY TypesAssumption
<1>7. \A x \in Dyns : D[x].children \subseteq Dyns \ C BY <1>0, <1>1 DEF Shaped
<1>8. \A x \in Dyns : IsLive(D, x) => D[x].parent \notin C
  BY <1>0, <1>1, <1>6 DEF Linking, HasAny
<1>9. Blank(D2) BY <1>1, <1>2, <1>3, <1>4, <1>5 DEF Blank, Kept, HasAny
<1>10. Linking(D2)
  <2> SUFFICES ASSUME NEW x \in Dyns, IsLive(D2, x)
               PROVE  /\ D2[x].parent # None =>
                           /\ D2[x].parent \in Dyns /\ HasAny(D2, D2[x].parent)
                           /\ x \in D2[D2[x].parent].children
                           /\ D2[x].any /\ ~ D2[x].owns
                      /\ \A c \in D2[x].children : IsLive(D2, c) => D2[c].parent = x
                      /\ D2[x].any => D2[x].owns \/ D2[x].parent # None
                      /\ ~ D2[x].any => D2[x].children = {} /\ ~ D2[x].owns
    BY DEF Linking
  <2>1. CASE x \in C
    <3>1. HasAny(D2, p) /\ x \in D2[p].children BY <2>1, <1>2, <1>4
    <3> QED BY <2>1, <3>1, <1>6
  <2>2. CASE x \notin C
    <3>1. IsLive(D, x) /\ Kept(D, D2, x) BY <2>2, <1>3, <1>4
    <3>2. \A c \in D[x].children : c \in Dyns \ C /\ Kept(D, D2, c)
      BY <1>3, <1>7
    <3>3. ASSUME D[x].parent # None
          PROVE  /\ D[x].parent \in Dyns \ C /\ HasAny(D2, D[x].parent)
                 /\ x \in D2[D[x].parent].children /\ D[x].any /\ ~ D[x].owns
      <4>1. /\ D[x].parent \in Dyns \ C /\ HasAny(D, D[x].parent)
            /\ x \in D[D[x].parent].children /\ D[x].any /\ ~ D[x].owns
        BY <3>1, <3>3, <1>1, <1>8 DEF Linking
      <4> QED BY <4>1, <1>3, <1>4
    <3>4. ASSUME NEW c \in D2[x].children, IsLive(D2, c) PROVE D2[c].parent = x
      <4>1. CASE c \in D[x].children
        BY <4>1, <3>1, <3>2, <3>4, <1>1, <1>4 DEF Linking, Kept
      <4>2. CASE c \in C /\ x = p BY <4>2
      <4> QED BY <4>1, <4>2, <2>2, <1>3
    <3>5. ~ D[x].any => x # p BY DEF HasAny
    <3>6. (D[x].any => D[x].owns \/ D[x].parent # None)
          /\ (~ D[x].any => D[x].children = {} /\ ~ D[x].owns)
      BY <3>1, <1>1 DEF Linking
    <3> QED BY <3>1, <3>3, <3>4, <3>5, <3>6, <2>2, <1>3 DEF Kept
  <2> QED BY <2>1, <2>2
<1>11. Forest(D2)
  <2> SUFFICES ASSUME NEW S \in SUBSET Dyns, S # {}
               PROVE  \E x \in S : D2[x].parent \notin S
    BY DEF Forest
  <2>1. CASE S \subseteq C BY <2>1, <1>2
  <2>2. CASE ~ S \subseteq C
    <3>1. PICK x \in S \ C : D[x].parent \notin S \ C BY <2>2, <1>1 DEF Forest
    <3>2. D2[x].parent = D[x].parent BY <3>1, <1>3 DEF Kept
    <3>3. D[x].parent \notin C
      <4>1. CASE IsLive(D, x) BY <4>1, <1>8
      <4>2. CASE ~ IsLive(D, x) BY <4>2, <3>1, <1>1, <1>6 DEF Blank
      <4> QED BY <4>1, <4>2
    <3> QED BY <3>1, <3>2, <3>3
  <2> QED BY <2>1, <2>2
<1>12. Roots(D2)
  <2> SUFFICES ASSUME NEW x \in Dyns, HasAny(D2, x)
               PROVE  /\ D2[x].owns => D2[x].root = x
                      /\ D2[x].parent # None => D2[x].root = D2[D2[x].parent].root
    BY DEF Roots
  <2>1. CASE x \in C BY <2>1 DEF Kept
  <2>2. CASE x \notin C
    <3>1. HasAny(D, x) /\ Kept(D, D2, x) BY <2>2, <1>3, <1>4
    <3>2. D[x].parent # None => D[x].parent \in Dyns \ C
      BY <1>1, <1>8, <3>1 DEF Linking, HasAny
    <3> QED BY <3>1, <3>2, <1>1, <1>3 DEF Roots, Kept
  <2> QED BY <2>1, <2>2
<1>13. Listed(D2)
  <2> SUFFICES ASSUME Careful, NEW x \in Dyns, NEW c \in D2[x].children
               PROVE  IsLive(D2, c)
    BY DEF Listed
  <2>1. CASE c \in C BY <2>1, <1>5
  <2>2. CASE c \notin C
    <3>1. x \notin C BY <2>2
    <3>2. c \in D[x].children /\ c \in Dyns \ C BY <2>2, <3>1, <1>3, <1>7
    <3> QED BY <3>2, <1>1, <1>4 DEF Listed
  <2> QED BY <2>1, <2>2
<1>14. Viewed(D2)
  <2> SUFFICES ASSUME Careful, NEW x \in Dyns, HasAny(D2, x)
               PROVE  D2[x].mem # "freed"
    BY DEF Viewed
  <2>1. CASE x \notin C BY <2>1, <1>1, <1>3, <1>4 DEF Viewed
  <2> QED BY <2>1
<1> QED BY <1>9, <1>10, <1>11, <1>12, <1>13, <1>14 DEF Right

LEMMA OneLinked ==
  ASSUME NEW D, NEW D2, Right(D), NEW d \in Dyns, NEW c \in Dyns, NEW new, NEW par,
         HasAny(D, d), Fresh(D, {c}), c # d,
         D2 = [x \in Dyns |-> IF x = c THEN new ELSE IF x = d THEN par ELSE D[x]],
         Used \subseteq DOMAIN new, new.life = "live", new.any = TRUE,
         new.owns = FALSE, new.root = D[d].root, new.children = {}, new.parent = d,
         Careful => new.mem # "freed",
         Used \subseteq DOMAIN par, par.life = D[d].life, par.any = D[d].any,
         par.owns = D[d].owns, par.root = D[d].root, par.mem = D[d].mem,
         par.parent = D[d].parent, par.children = D[d].children \cup {c}
  PROVE  Right(D2)
<1> DEFINE C == {c}
<1>1. D2[c] = new /\ D2[d] = par /\ \A x \in Dyns \ (C \cup {d}) : D2[x] = D[x]
  OBVIOUS
<1>2. Shaped(D2)
  <2>1. par.any \in BOOLEAN /\ par.owns \in BOOLEAN /\ par.children \subseteq Dyns
    BY DEF Right, Shaped
  <2>2. D2 = [x \in Dyns |-> D2[x]] OBVIOUS
  <2> SUFFICES ASSUME NEW x \in Dyns
               PROVE  /\ Used \subseteq DOMAIN D2[x]
                      /\ D2[x].any \in BOOLEAN /\ D2[x].owns \in BOOLEAN
                      /\ D2[x].children \subseteq Dyns
    BY <2>2 DEF Shaped
  <2>3. CASE x = c BY <2>3, <1>1
  <2>4. CASE x = d BY <2>4, <2>1, <1>1
  <2>5. CASE x \notin {c, d} BY <2>5, <1>1 DEF Right, Shaped
  <2> QED BY <2>3, <2>4, <2>5
<1>3. /\ Kept(D, D2, d) /\ D2[d].mem = D[d].mem
      /\ D2[d].children = D[d].children \cup C
  BY <1>1 DEF Kept
<1>4. \A x \in C : /\ D2[x].life = "live" /\ D2[x].any /\ ~ D2[x].owns
                   /\ D2[x].root = D[d].root /\ D2[x].children = {}
                   /\ D2[x].parent = d
                   /\ Careful => D2[x].mem # "freed"
  BY <1>1
<1>5. C \in SUBSET Dyns /\ Fresh(D, C) OBVIOUS
<1> HIDE DEF C
<1> QED BY <1>1, <1>2, <1>3, <1>4, <1>5, LinkedRight

(* The objects G, which all are components and have no others below them,  *)
(* lose what they have, and those above them lose them.                    *)
LEMMA CutRight ==
  ASSUME NEW D, NEW D2, Right(D), Shaped(D2), NEW G \in SUBSET Dyns,
         \A x \in G : IsLive(D, x) /\ D[x].children \subseteq G,
         \A x \in G : /\ D2[x].life = "live" /\ ~ D2[x].any /\ ~ D2[x].owns
                      /\ D2[x].children = {} /\ D2[x].parent = None,
         \A x \in Dyns \ G : Kept(D, D2, x) /\ D2[x].children = D[x].children \ G,
         Careful => \A x \in Dyns \ G : D2[x].mem = D[x].mem \/ D2[x].mem # "freed"
  PROVE  Right(D2)
<1>1. Shaped(D) /\ Blank(D) /\ Linking(D) /\ Forest(D) /\ Roots(D)
      /\ Listed(D) /\ Viewed(D)
  BY DEF Right
<1>2. \A x \in Dyns \ G : /\ IsLive(D2, x) <=> IsLive(D, x)
                          /\ HasAny(D2, x) <=> HasAny(D, x)
  BY DEF IsLive, HasAny, Kept
<1>3. \A x \in G : IsLive(D2, x) /\ ~ HasAny(D2, x) BY DEF IsLive, HasAny
<1>4. None \notin Dyns BY TypesAssumption
<1>5. \A x \in Dyns : D[x].children \subseteq Dyns BY <1>1 DEF Shaped
(* A live object outside G has its parent outside.                         *)
<1>6. ASSUME NEW x \in Dyns \ G, IsLive(D, x), D[x].parent # None
      PROVE  /\ D[x].parent \in Dyns \ G /\ HasAny(D, D[x].parent)
             /\ x \in D[D[x].parent].children /\ D[x].any /\ ~ D[x].owns
  <2>1. /\ D[x].parent \in Dyns /\ HasAny(D, D[x].parent)
        /\ x \in D[D[x].parent].children /\ D[x].any /\ ~ D[x].owns
    BY <1>1, <1>6 DEF Linking
  <2> QED BY <2>1
<1>7. Blank(D2) BY <1>1, <1>2, <1>3 DEF Blank, Kept
<1>8. Linking(D2)
  <2> SUFFICES ASSUME NEW x \in Dyns, IsLive(D2, x)
               PROVE  /\ D2[x].parent # None =>
                           /\ D2[x].parent \in Dyns /\ HasAny(D2, D2[x].parent)
                           /\ x \in D2[D2[x].parent].children
                           /\ D2[x].any /\ ~ D2[x].owns
                      /\ \A c \in D2[x].children : IsLive(D2, c) => D2[c].parent = x
                      /\ D2[x].any => D2[x].owns \/ D2[x].parent # None
                      /\ ~ D2[x].any => D2[x].children = {} /\ ~ D2[x].owns
    BY DEF Linking
  <2>1. CASE x \in G BY <2>1
  <2>2. CASE x \notin G
    <3>1. IsLive(D, x) /\ Kept(D, D2, x) /\ D2[x].children = D[x].children \ G
      BY <2>2, <1>2
    <3>2. ASSUME D[x].parent # None
          PROVE  /\ D[x].parent \in Dyns /\ HasAny(D2, D[x].parent)
                 /\ x \in D2[D[x].parent].children /\ D[x].any /\ ~ D[x].owns
      BY <1>6, <1>2, <2>2, <3>1, <3>2
    <3>3. ASSUME NEW c \in D2[x].children, IsLive(D2, c) PROVE D2[c].parent = x
      <4>1. c \in D[x].children /\ c \in Dyns \ G BY <3>1, <1>5
      <4> QED BY <4>1, <3>1, <3>3, <1>1, <1>2 DEF Linking, Kept
    <3>4. (D[x].any => D[x].owns \/ D[x].parent # None)
          /\ (~ D[x].any => D[x].children = {} /\ ~ D[x].owns)
      BY <3>1, <1>1 DEF Linking
    <3> QED BY <3>1, <3>2, <3>3, <3>4 DEF Kept
  <2> QED BY <2>1, <2>2
<1>9. Forest(D2)
  <2> SUFFICES ASSUME NEW S \in SUBSET Dyns, S # {}, \A x \in S : D2[x].parent \in S
               PROVE  FALSE
    BY DEF Forest
  <2>1. \A x \in S : x \notin G BY <1>4
  <2>2. \A x \in S : D[x].parent \in S BY <2>1 DEF Kept
  <2> QED BY <2>2, <1>1 DEF Forest
<1>10. Roots(D2)
  <2> SUFFICES ASSUME NEW x \in Dyns \ G, HasAny(D2, x)
               PROVE  /\ D2[x].owns => D2[x].root = x
                      /\ D2[x].parent # None => D2[x].root = D2[D2[x].parent].root
    BY <1>3 DEF Roots
  <2>1. HasAny(D, x) /\ IsLive(D, x) /\ Kept(D, D2, x) BY <1>2 DEF HasAny
  <2>2. D[x].parent # None => D[x].parent \in Dyns \ G BY <1>6, <2>1
  <2> QED BY <2>1, <2>2, <1>1 DEF Roots, Kept
<1>11. Listed(D2)
  <2> SUFFICES ASSUME Careful, NEW x \in Dyns, NEW c \in D2[x].children
               PROVE  IsLive(D2, c)
    BY DEF Listed
  <2>1. x \notin G OBVIOUS
  <2>2. c \in D[x].children /\ c \in Dyns \ G BY <2>1, <1>5
  <2> QED BY <2>2, <1>1, <1>2 DEF Listed
<1>12. Viewed(D2) BY <1>1, <1>2, <1>3 DEF Viewed
<1> QED BY <1>7, <1>8, <1>9, <1>10, <1>11, <1>12 DEF Right

-----------------------------------------------------------------------------
(* What is below an object.                                                *)
Closed(D, d) ==
  {S \in SUBSET Dyns : /\ D[d].children \subseteq S
                       /\ \A c \in S : D[c].children \subseteq S}
Below(D, d) == {x \in Dyns : \A S \in Closed(D, d) : x \in S}

LEMMA DescendantsBelow == \A d : Descendants(d) = Below(dyn, d)
BY DEF Descendants, Below, Closed

LEMMA BelowClosed ==
  ASSUME NEW D, Shaped(D), NEW d \in Dyns
  PROVE  /\ Below(D, d) \in Closed(D, d) /\ Below(D, d) \subseteq Dyns
         /\ \A S \in Closed(D, d) : Below(D, d) \subseteq S
<1>1. \A S \in Closed(D, d) : Below(D, d) \subseteq S BY DEF Below
<1>2. D[d].children \subseteq Below(D, d)
  BY DEF Below, Closed, Shaped
<1>3. ASSUME NEW c \in Below(D, d), NEW y \in D[c].children PROVE y \in Below(D, d)
  <2>1. c \in Dyns /\ y \in Dyns BY DEF Below, Shaped
  <2>2. \A S \in Closed(D, d) : y \in S BY <1>1 DEF Closed
  <2> QED BY <2>1, <2>2 DEF Below
<1>4. Below(D, d) \subseteq Dyns BY DEF Below
<1> QED BY <1>1, <1>2, <1>3, <1>4 DEF Closed

(* Whatever is below d has a parent that is d or below d.                  *)
LEMMA BelowParent ==
  ASSUME NEW D, Right(D), NEW d \in Dyns, NEW x \in Below(D, d)
  PROVE  \E y \in Below(D, d) \cup {d} : x \in D[y].children
<1> DEFINE B == Below(D, d)
           S == {z \in B : \E y \in B \cup {d} : z \in D[y].children}
<1>1. Shaped(D) BY DEF Right
<1>2. B \in Closed(D, d) /\ B \subseteq Dyns /\ \A T \in Closed(D, d) : B \subseteq T
  BY <1>1, BelowClosed
<1> HIDE DEF B
<1>3. S \in Closed(D, d) BY <1>2 DEF Closed
<1>4. x \in S BY <1>2, <1>3 DEF B
<1> QED BY <1>4 DEF B

LEMMA BelowLiveParent ==
  ASSUME NEW D, Right(D), NEW d \in Dyns, NEW x \in Below(D, d), IsLive(D, x)
  PROVE  D[x].parent \in Below(D, d) \cup {d}
<1>1. PICK y \in Below(D, d) \cup {d} : x \in D[y].children BY BelowParent
<1>2. y \in Dyns BY DEF Below
<1>3. IsLive(D, y) BY <1>1, <1>2 DEF Right, Blank
<1> QED BY <1>1, <1>2, <1>3 DEF Right, Linking

(* No object is below itself.                                              *)
LEMMA NotBelowItself ==
  ASSUME NEW D, Right(D), NEW d \in Dyns, IsLive(D, d)
  PROVE  d \notin Below(D, d)
<1> SUFFICES ASSUME d \in Below(D, d) PROVE FALSE OBVIOUS
<1> DEFINE S == {x \in Below(D, d) : IsLive(D, x)}
<1>1. S \in SUBSET Dyns /\ d \in S BY DEF Below
<1>2. ASSUME NEW x \in S PROVE D[x].parent \in S
  <2>1. D[x].parent \in Below(D, d) BY BelowLiveParent
  <2>2. x \in Dyns /\ D[x].parent \in Dyns BY <2>1 DEF Below
  <2>3. D[x].parent # None BY <2>2, TypesAssumption
  <2>4. HasAny(D, D[x].parent) BY <2>2, <2>3 DEF Right, Linking
  <2> QED BY <2>1, <2>4 DEF HasAny
<1> HIDE DEF S
<1> QED BY <1>1, <1>2 DEF Right, Forest

-----------------------------------------------------------------------------
LEMMA GoneFields ==
  /\ Used \subseteq DOMAIN Unused /\ ~ Unused.any /\ ~ Unused.owns
  /\ Unused.any \in BOOLEAN /\ Unused.owns \in BOOLEAN
  /\ Unused.life = "unused" /\ Unused.children = {} /\ Unused.parent = None
  /\ Unused.mem = "ok"
  /\ Used \subseteq DOMAIN Gone /\ ~ Gone.any /\ ~ Gone.owns
  /\ Gone.any \in BOOLEAN /\ Gone.owns \in BOOLEAN
  /\ Gone.life = "live" /\ Gone.children = {} /\ Gone.parent = None
  /\ Gone.mem = "ok"
BY DEF Unused, Gone, Used

LEMMA DanglingOnlyCareless ==
  ASSUME Right(dyn), Careful, NEW d \in Dyns
  PROVE  ~ Dangling(d)
<1> DEFINE S == {x \in Dyns : IsLive(dyn, x)}
<1>1. Shaped(dyn) /\ Listed(dyn) BY DEF Right
<1>2. S \in Closed(dyn, d) BY <1>1 DEF Closed, Listed, Shaped
<1>3. Below(dyn, d) \subseteq S BY <1>1, <1>2, BelowClosed
<1> QED BY <1>3, DescendantsBelow DEF Dangling, Live, IsLive

(* dynany_invalidate of the children of d, down to the last.               *)
LEMMA InvalidatedRight ==
  ASSUME Right(dyn), NEW d \in Dyns, IsLive(dyn, d), ~ Dangling(d)
  PROVE  /\ Right(Invalidated(d)) /\ Kept(dyn, Invalidated(d), d)
         /\ Invalidated(d)[d].children = {} /\ Invalidated(d)[d].mem = dyn[d].mem
         /\ Invalidated(d)[d] = [dyn[d] EXCEPT !.children = {}]
         /\ \A x \in Dyns \ (Below(dyn, d) \cup {d}) : Invalidated(d)[x] = dyn[x]
         /\ \A x \in Below(dyn, d) : Invalidated(d)[x] = Gone
<1> DEFINE G == Below(dyn, d)
           D2 == Invalidated(d)
<1>1. Shaped(dyn) /\ Linking(dyn) /\ Blank(dyn) BY DEF Right
<1>2. Descendants(d) = G BY DescendantsBelow
<1>3. G \in SUBSET Dyns /\ dyn[d].children \subseteq G
      /\ \A x \in G : dyn[x].children \subseteq G
  BY <1>1, BelowClosed DEF Closed
<1>4. \A x \in G : IsLive(dyn, x) BY <1>2 DEF Dangling, Live, IsLive
<1>5. d \notin G BY NotBelowItself
<1>6. /\ D2 = [x \in Dyns |-> D2[x]] /\ D2[d] = [dyn[d] EXCEPT !.children = {}]
      /\ \A x \in G : D2[x] = Gone
      /\ \A x \in Dyns \ (G \cup {d}) : D2[x] = dyn[x]
  BY <1>2, <1>3, <1>5 DEF Invalidated
<1> HIDE DEF D2, G
<1>7. /\ Used \subseteq DOMAIN D2[d] /\ D2[d].children = {}
      /\ Kept(dyn, D2, d) /\ D2[d].mem = dyn[d].mem
      /\ D2[d].any \in BOOLEAN /\ D2[d].owns \in BOOLEAN
  BY <1>1, <1>6 DEF Shaped, Used, Kept
<1>8. Shaped(D2) BY <1>1, <1>6, <1>7, GoneFields DEF Shaped
(* An object outside G, other than d, has no children in G.                *)
<1>9. ASSUME NEW x \in Dyns \ (G \cup {d}), NEW c \in dyn[x].children PROVE c \notin G
  <2> SUFFICES ASSUME c \in G PROVE FALSE OBVIOUS
  <2>1. IsLive(dyn, c) BY <1>4
  <2>2. dyn[c].parent \in G \cup {d} BY <2>1, BelowLiveParent DEF G
  <2>3. IsLive(dyn, x) BY <1>1 DEF Blank
  <2>4. dyn[c].parent = x BY <2>1, <2>3, <1>1 DEF Linking
  <2> QED BY <2>2, <2>4
<1>10. \A x \in Dyns \ G : Kept(dyn, D2, x) /\ D2[x].children = dyn[x].children \ G
  <2> SUFFICES ASSUME NEW x \in Dyns \ G
               PROVE  Kept(dyn, D2, x) /\ D2[x].children = dyn[x].children \ G
    OBVIOUS
  <2>1. CASE x = d BY <2>1, <1>3, <1>7
  <2>2. CASE x # d
    <3>1. D2[x] = dyn[x] BY <2>2, <1>6
    <3> QED BY <2>2, <3>1, <1>9 DEF Kept
  <2> QED BY <2>1, <2>2
<1>11. \A x \in Dyns \ G : D2[x].mem = dyn[x].mem BY <1>6, <1>7
<1>12. \A x \in G : /\ D2[x].life = "live" /\ ~ D2[x].any /\ ~ D2[x].owns
                    /\ D2[x].children = {} /\ D2[x].parent = None
  BY <1>6, GoneFields
<1>13. Right(D2) BY <1>3, <1>4, <1>8, <1>10, <1>11, <1>12, CutRight
<1> QED BY <1>6, <1>7, <1>13 DEF D2, G

(* No object looks into the value of another that has no components.       *)
LEMMA OnlyItsOwn ==
  ASSUME NEW D, Right(D), NEW d \in Dyns, D[d].children = {},
         NEW y \in Dyns, D[y].any, D[y].root = d
  PROVE  y = d
<1> SUFFICES ASSUME y # d PROVE FALSE OBVIOUS
<1>1. Shaped(D) /\ Linking(D) /\ Blank(D) /\ Roots(D) /\ Forest(D) BY DEF Right
<1> DEFINE S == {x \in Dyns : x # d /\ HasAny(D, x) /\ D[x].root = d}
<1>2. y \in S BY <1>1 DEF Blank, HasAny
<1>3. ASSUME NEW x \in S PROVE D[x].parent \in S
  <2>1. HasAny(D, x) /\ x # d /\ D[x].root = d /\ x \in Dyns OBVIOUS
  <2>2. ~ D[x].owns BY <2>1, <1>1 DEF Roots
  <2>3. D[x].parent # None BY <2>1, <2>2, <1>1 DEF Linking, HasAny
  <2>4. D[x].parent \in Dyns /\ HasAny(D, D[x].parent) /\ x \in D[D[x].parent].children
    BY <2>1, <2>3, <1>1 DEF Linking, HasAny
  <2>5. D[D[x].parent].root = d BY <2>1, <2>3, <1>1 DEF Roots
  <2> QED BY <2>4, <2>5
<1>4. S \in SUBSET Dyns OBVIOUS
<1> HIDE DEF S
<1> QED BY <1>1, <1>2, <1>3, <1>4 DEF Forest

(* An object without children is released.                                 *)
LEMMA RemovedRight ==
  ASSUME NEW D, NEW D2, Right(D), Shaped(D2), NEW d \in Dyns, IsLive(D, d),
         D[d].children = {}, Careful => D[d].parent = None,
         D2[d] = Unused, \A x \in Dyns \ {d} : D2[x] = D[x]
  PROVE  Right(D2)
<1>1. Shaped(D) /\ Blank(D) /\ Linking(D) /\ Forest(D) /\ Roots(D)
      /\ Listed(D) /\ Viewed(D)
  BY DEF Right
<1>2. \A x \in Dyns \ {d} : /\ IsLive(D2, x) <=> IsLive(D, x)
                            /\ HasAny(D2, x) <=> HasAny(D, x)
  BY DEF IsLive, HasAny
<1>3. ~ IsLive(D2, d) /\ ~ HasAny(D2, d) BY GoneFields DEF IsLive, HasAny
<1>4. \A x \in Dyns : D[x].children \subseteq Dyns BY <1>1 DEF Shaped
<1>5. ASSUME NEW x \in Dyns, IsLive(D, x) PROVE D[x].parent # d
  <2>1. d # None BY TypesAssumption
  <2> QED BY <2>1, <1>1, <1>5 DEF Linking
<1>6. Blank(D2) BY <1>1, <1>2, GoneFields DEF Blank
<1>7. Linking(D2)
  <2> SUFFICES ASSUME NEW x \in Dyns, IsLive(D2, x)
               PROVE  /\ D2[x].parent # None =>
                           /\ D2[x].parent \in Dyns /\ HasAny(D2, D2[x].parent)
                           /\ x \in D2[D2[x].parent].children
                           /\ D2[x].any /\ ~ D2[x].owns
                      /\ \A c \in D2[x].children : IsLive(D2, c) => D2[c].parent = x
                      /\ D2[x].any => D2[x].owns \/ D2[x].parent # None
                      /\ ~ D2[x].any => D2[x].children = {} /\ ~ D2[x].owns
    BY DEF Linking
  <2>1. x # d BY <1>3
  <2>2. IsLive(D, x) /\ D2[x] = D[x] BY <2>1, <1>2
  <2>3. D[x].parent # None =>
          /\ D[x].parent \in Dyns \ {d} /\ HasAny(D, D[x].parent)
          /\ x \in D[D[x].parent].children /\ D[x].any /\ ~ D[x].owns
    BY <2>2, <1>1, <1>5 DEF Linking
  <2>4. \A c \in D[x].children : IsLive(D2, c) => D2[c].parent = x
    BY <2>2, <1>1, <1>2, <1>3, <1>4 DEF Linking
  <2>5. (D[x].any => D[x].owns \/ D[x].parent # None)
        /\ (~ D[x].any => D[x].children = {} /\ ~ D[x].owns)
    BY <2>2, <1>1 DEF Linking
  <2> QED BY <2>2, <2>3, <2>4, <2>5, <1>2
<1>8. Forest(D2)
  <2> SUFFICES ASSUME NEW S \in SUBSET Dyns, S # {}, \A x \in S : D2[x].parent \in S
               PROVE  FALSE
    BY DEF Forest
  <2>1. d \notin S BY GoneFields, TypesAssumption
  <2>2. \A x \in S : D[x].parent \in S BY <2>1
  <2> QED BY <2>2, <1>1 DEF Forest
<1>9. Roots(D2)
  <2> SUFFICES ASSUME NEW x \in Dyns, HasAny(D2, x)
               PROVE  /\ D2[x].owns => D2[x].root = x
                      /\ D2[x].parent # None => D2[x].root = D2[D2[x].parent].root
    BY DEF Roots
  <2>1. x # d /\ HasAny(D, x) /\ D2[x] = D[x] BY <1>2, <1>3
  <2>2. D[x].parent # None => D[x].parent \in Dyns \ {d}
    BY <2>1, <1>1, <1>5 DEF Linking, HasAny
  <2> QED BY <2>1, <2>2, <1>1 DEF Roots
<1>10. Listed(D2)
  <2> SUFFICES ASSUME Careful, NEW x \in Dyns, NEW c \in D2[x].children
               PROVE  IsLive(D2, c)
    BY DEF Listed
  <2>1. x # d BY GoneFields
  <2>2. c \in D[x].children /\ c \in Dyns /\ IsLive(D, c) BY <2>1, <1>1, <1>4 DEF Listed
  <2>3. IsLive(D, x) BY <2>2, <1>1 DEF Blank
  <2>4. D[c].parent = x BY <2>2, <2>3, <1>1 DEF Linking
  <2>5. x # None BY TypesAssumption
  <2>6. c # d BY <2>4, <2>5
  <2> QED BY <2>2, <2>6, <1>2
<1>11. Viewed(D2) BY <1>1, <1>2, <1>3 DEF Viewed
<1> QED BY <1>6, <1>7, <1>8, <1>9, <1>10, <1>11 DEF Right

(* An object without children gets a value of its own.                     *)
LEMMA OwnedRight ==
  ASSUME NEW D, NEW D2, Right(D), Shaped(D2), NEW d \in Dyns, HasAny(D, d),
         D[d].children = {}, D2[d].life = "live", D2[d].any, D2[d].owns,
         D2[d].root = d, D2[d].mem = "ok", D2[d].children = {}, D2[d].parent = None,
         \A x \in Dyns \ {d} : /\ Kept(D, D2, x) /\ D2[x].mem = D[x].mem
                               /\ D2[x].children = D[x].children \ {d}
  PROVE  Right(D2)
<1>1. Shaped(D) /\ Blank(D) /\ Linking(D) /\ Forest(D) /\ Roots(D)
      /\ Listed(D) /\ Viewed(D)
  BY DEF Right
<1>2. \A x \in Dyns : /\ IsLive(D2, x) <=> IsLive(D, x)
                      /\ HasAny(D2, x) <=> HasAny(D, x)
  BY DEF IsLive, HasAny, Kept
<1>4. \A x \in Dyns : D[x].children \subseteq Dyns BY <1>1 DEF Shaped
<1>5. ASSUME NEW x \in Dyns, IsLive(D, x) PROVE D[x].parent # d
  <2>1. d # None BY TypesAssumption
  <2> QED BY <2>1, <1>1, <1>5 DEF Linking
<1>6. Blank(D2) BY <1>1, <1>2 DEF Blank, Kept, HasAny
<1>7. Linking(D2)
  <2> SUFFICES ASSUME NEW x \in Dyns, IsLive(D2, x)
               PROVE  /\ D2[x].parent # None =>
                           /\ D2[x].parent \in Dyns /\ HasAny(D2, D2[x].parent)
                           /\ x \in D2[D2[x].parent].children
                           /\ D2[x].any /\ ~ D2[x].owns
                      /\ \A c \in D2[x].children : IsLive(D2, c) => D2[c].parent = x
                      /\ D2[x].any => D2[x].owns \/ D2[x].parent # None
                      /\ ~ D2[x].any => D2[x].children = {} /\ ~ D2[x].owns
    BY DEF Linking
  <2>1. CASE x = d BY <2>1
  <2>2. CASE x # d
    <3>1. IsLive(D, x) /\ Kept(D, D2, x) /\ D2[x].children = D[x].children \ {d}
      BY <2>2, <1>2
    <3>2. D[x].parent # None =>
            /\ D[x].parent \in Dyns \ {d} /\ HasAny(D2, D[x].parent)
            /\ x \in D2[D[x].parent].children /\ D[x].any /\ ~ D[x].owns
      BY <3>1, <2>2, <1>1, <1>2, <1>5 DEF Linking
    <3>3. ASSUME NEW c \in D2[x].children, IsLive(D2, c) PROVE D2[c].parent = x
      <4>1. c \in D[x].children /\ c \in Dyns \ {d} BY <3>1, <1>4
      <4> QED BY <4>1, <3>1, <3>3, <1>1, <1>2 DEF Linking, Kept
    <3>4. (D[x].any => D[x].owns \/ D[x].parent # None)
          /\ (~ D[x].any => D[x].children = {} /\ ~ D[x].owns)
      BY <3>1, <1>1 DEF Linking
    <3> QED BY <3>1, <3>2, <3>3, <3>4 DEF Kept
  <2> QED BY <2>1, <2>2
<1>8. Forest(D2)
  <2> SUFFICES ASSUME NEW S \in SUBSET Dyns, S # {}, \A x \in S : D2[x].parent \in S
               PROVE  FALSE
    BY DEF Forest
  <2>1. d \notin S BY TypesAssumption
  <2>2. \A x \in S : D[x].parent \in S BY <2>1 DEF Kept
  <2> QED BY <2>2, <1>1 DEF Forest
<1>9. Roots(D2)
  <2> SUFFICES ASSUME NEW x \in Dyns, HasAny(D2, x)
               PROVE  /\ D2[x].owns => D2[x].root = x
                      /\ D2[x].parent # None => D2[x].root = D2[D2[x].parent].root
    BY DEF Roots
  <2>1. CASE x = d BY <2>1
  <2>2. CASE x # d
    <3>1. HasAny(D, x) /\ Kept(D, D2, x) BY <2>2, <1>2
    <3>2. D[x].parent # None => D[x].parent \in Dyns \ {d}
      BY <3>1, <1>1, <1>5 DEF Linking, HasAny
    <3> QED BY <3>1, <3>2, <1>1 DEF Roots, Kept
  <2> QED BY <2>1, <2>2
<1>10. Listed(D2)
  <2> SUFFICES ASSUME Careful, NEW x \in Dyns, NEW c \in D2[x].children
               PROVE  IsLive(D2, c)
    BY DEF Listed
  <2>1. x # d OBVIOUS
  <2>2. c \in D[x].children /\ c \in Dyns BY <2>1, <1>4
  <2> QED BY <2>2, <1>1, <1>2 DEF Listed
<1>11. Viewed(D2) BY <1>1, <1>2 DEF Viewed
<1> QED BY <1>6, <1>7, <1>8, <1>9, <1>10, <1>11 DEF Right

-----------------------------------------------------------------------------
(* The operations.                                                         *)
LEMMA InitRight == Init => IInv
<1> SUFFICES ASSUME Init PROVE IInv OBVIOUS
<1>1. dyn = [d \in Dyns |-> Unused] /\ crash = "none" BY DEF Init
<1>2. \A d \in Dyns : dyn[d] = Unused BY <1>1
<1>3. \A d \in Dyns : ~ IsLive(dyn, d) /\ ~ HasAny(dyn, d)
  BY <1>2, GoneFields DEF IsLive, HasAny
<1>4. Shaped(dyn) BY <1>1, <1>2, GoneFields DEF Shaped
<1>5. Blank(dyn) BY <1>2, GoneFields DEF Blank
<1>6. Forest(dyn)
  <2> SUFFICES ASSUME NEW S \in SUBSET Dyns, S # {}
               PROVE  \E x \in S : dyn[x].parent \notin S
    BY DEF Forest
  <2> QED BY <1>2, GoneFields, TypesAssumption
<1>7. Linking(dyn) /\ Roots(dyn) /\ Viewed(dyn)
  BY <1>3 DEF Linking, Roots, Viewed
<1>8. Listed(dyn) BY <1>2, GoneFields DEF Listed
<1> QED BY <1>1, <1>4, <1>5, <1>6, <1>7, <1>8 DEF IInv, Right, NoDeadList

LEMMA Same ==
  ASSUME IInv, dyn' = dyn, crash' = crash
  PROVE  IInv'
BY DEF IInv, NoDeadList

LEMMA Stopped ==
  ASSUME IInv, NEW why, Stop(why), Careful => why # "list"
  PROVE  IInv'
BY DEF IInv, NoDeadList, Stop

LEMMA Moving ==
  ASSUME IInv, Right(dyn'), Done
  PROVE  IInv'
BY DEF IInv, NoDeadList, Done

LEMMA Raising ==
  ASSUME IInv, NEW e, Raise(e)
  PROVE  IInv'
BY Same DEF Raise, vars

LEMMA Idle ==
  ASSUME IInv, Nothing
  PROVE  IInv'
BY Same DEF Nothing, vars

LEMMA MasterStep ==
  ASSUME IInv, NEW d \in Dyns, NEW t, NEW v, Free(d), Master(d, t, v), Done
  PROVE  IInv'
<1> DEFINE new == [Unused EXCEPT !.life = "live", !.any = TRUE,
                                 !.type = t, !.owns = TRUE, !.root = d]
<1>1. Right(dyn) /\ Shaped(dyn) BY DEF IInv, Right
<1>2. dyn' = [dyn EXCEPT ![d] = new] BY DEF Master
<1>3. /\ Used \subseteq DOMAIN new /\ new.life = "live" /\ new.any = TRUE
      /\ new.owns = TRUE /\ new.root = d /\ new.mem = "ok" /\ new.children = {}
      /\ new.parent = None
  BY DEF Unused, Used
<1> HIDE DEF new
<1>4. dyn' = [x \in Dyns |-> IF x = d THEN new ELSE dyn[x]]
  BY <1>1, <1>2 DEF Shaped
<1>5. dyn'[d] = new /\ \A x \in Dyns : x # d => dyn'[x] = dyn[x] BY <1>4
<1>6. Shaped(dyn') BY <1>1, <1>3, <1>4, <1>5 DEF Shaped
<1>7. ~ IsLive(dyn, d) /\ \A p \in Dyns : d \notin dyn[p].children
  BY DEF Free, Live, IsLive
<1>8. Right(dyn') BY <1>1, <1>3, <1>5, <1>6, <1>7, MasterRight
<1> QED BY <1>8, Moving

LEMMA CreateStep ==
  ASSUME IInv, NEW d \in Dyns, NEW t, NEW v,
         CreateDynAny(d, t, v) \/ CreateFromType(d, t)
  PROVE  IInv'
BY MasterStep DEF CreateDynAny, CreateFromType

(* dynany_create with a parent.                                            *)
LEMMA LinkedStep ==
  ASSUME IInv, NEW d \in Dyns, NEW c \in Dyns, NEW t, NEW path, NEW m,
         Exists(d), Free(c), Careful => m # "freed", Done,
         dyn' = [Linked(c, t, path, d) EXCEPT ![c].mem = m]
  PROVE  IInv'
<1> DEFINE new == [Component(c, t, path, d) EXCEPT !.mem = m]
           par == [dyn[d] EXCEPT !.children = @ \cup {c}]
<1>1. Right(dyn) /\ Shaped(dyn) BY DEF IInv, Right
<1>2. ~ IsLive(dyn, c) /\ \A x \in Dyns : c \notin dyn[x].children
  BY DEF Free, Live, IsLive
<1>3. HasAny(dyn, d) BY DEF Exists, Live, HasAny, IsLive
<1>4. c # d BY <1>2, <1>3 DEF HasAny
<1>5. /\ Used \subseteq DOMAIN new /\ new.life = "live" /\ new.any = TRUE
      /\ new.owns = FALSE /\ new.root = dyn[d].root /\ new.mem = m
      /\ new.children = {} /\ new.parent = d
  BY DEF Component, Unused, Used
<1>6. /\ Used \subseteq DOMAIN par /\ par.life = dyn[d].life /\ par.any = dyn[d].any
      /\ par.owns = dyn[d].owns /\ par.root = dyn[d].root /\ par.mem = dyn[d].mem
      /\ par.parent = dyn[d].parent /\ par.children = dyn[d].children \cup {c}
  BY <1>1 DEF Shaped, Used
<1>7. dyn' = [x \in Dyns |-> IF x = c THEN new ELSE IF x = d THEN par ELSE dyn[x]]
  <2> DEFINE comp == Component(c, t, path, d)
             lnk == Linked(c, t, path, d)
  <2>1. lnk = [dyn EXCEPT ![c] = comp, ![d].children = @ \cup {c}] BY DEF Linked
  <2> HIDE DEF comp
  <2>2. lnk = [x \in Dyns |-> IF x = c THEN comp ELSE IF x = d THEN par ELSE dyn[x]]
    BY <2>1, <1>1, <1>4 DEF Shaped
  <2>3. dyn' = [lnk EXCEPT ![c].mem = m] OBVIOUS
  <2> HIDE DEF lnk, par
  <2>4. dyn' = [x \in Dyns |-> IF x = c THEN [lnk[c] EXCEPT !.mem = m] ELSE lnk[x]]
    BY <2>2, <2>3
  <2>5. lnk[c] = comp BY <2>2
  <2>6. new = [lnk[c] EXCEPT !.mem = m] BY <2>5 DEF comp
  <2> HIDE DEF new
  <2> QED BY <2>2, <2>4, <2>6
<1> HIDE DEF new, par
<1>8. Fresh(dyn, {c}) BY <1>2 DEF Fresh
<1>9. Right(dyn') BY <1>1, <1>3, <1>4, <1>5, <1>6, <1>7, <1>8, OneLinked
<1> QED BY <1>9, Moving

LEMMA ParentExists ==
  ASSUME IInv, NEW d \in Dyns, Live(d), dyn[d].parent # None
  PROVE  dyn[d].parent \in Dyns /\ Exists(dyn[d].parent) /\ dyn[d].any
BY DEF IInv, Right, Linking, Live, IsLive, HasAny, Exists

LEMMA NotFreed ==
  ASSUME IInv, NEW d \in Dyns, Exists(d)
  PROVE  Careful => dyn[d].mem # "freed"
BY DEF IInv, Right, Viewed, HasAny, IsLive, Live, Exists

LEMMA CopyStep ==
  ASSUME IInv, NEW d \in Dyns, NEW c \in Dyns, CopyDynAny(d, c)
  PROVE  IInv'
<1>1. Live(d) /\ Free(c) BY DEF CopyDynAny
<1>2. CASE ~ dyn[d].any
  <2>1. Raise("OBJECT_NOT_EXIST") BY <1>2 DEF CopyDynAny
  <2> QED BY <2>1, Raising
<1>3. CASE dyn[d].any /\ dyn[d].parent = None
  <2>1. CASE ~ Readable(d)
    <3>1. Stop("value") BY <1>3, <2>1 DEF CopyDynAny
    <3> QED BY <3>1, Stopped
  <2>2. CASE Readable(d)
    <3> DEFINE v == Copy[TypeOf(d)][ValueOf(d)]
               t == TypeOf(d)
    <3>1. Master(c, t, v) /\ Done BY <1>3, <2>2 DEF CopyDynAny
    <3> HIDE DEF v, t
    <3> QED BY <1>1, <3>1, MasterStep
  <2> QED BY <2>1, <2>2
<1>4. CASE dyn[d].any /\ dyn[d].parent # None
  <2> DEFINE p == dyn[d].parent
             t == TypeOf(d)
             path == dyn[d].path
             mm == dyn[d].mem
  <2>1. dyn' = [Linked(c, t, path, p) EXCEPT ![c].mem = mm] /\ Done
    BY <1>4 DEF CopyDynAny
  <2>2. p \in Dyns /\ Exists(p) BY <1>1, <1>4, ParentExists
  <2>3. Careful => mm # "freed" BY <1>1, <1>4, NotFreed DEF Exists
  <2> HIDE DEF p, t, path, mm
  <2> QED BY <1>1, <2>1, <2>2, <2>3, LinkedStep
<1> QED BY <1>2, <1>3, <1>4

LEMMA ComponentStep ==
  ASSUME IInv, NEW d \in Dyns, NEW c \in Dyns, CurrentComponent(d, c)
  PROVE  IInv'
<1>1. Live(d) /\ Free(c) BY DEF CurrentComponent
<1>2. \/ Raise("OBJECT_NOT_EXIST") \/ Nothing \/ Raise("TypeMismatch")
      \/ Stop("value") \/ Raise("BAD_PARAM") \/ Stop("assert")
      \/ (Exists(d) /\ Done /\ \E path : dyn' = Linked(c, CurType(d), path, d))
  BY <1>1 DEF CurrentComponent, Exists
<1>3. ASSUME Exists(d), Done, NEW path, dyn' = Linked(c, CurType(d), path, d)
      PROVE  IInv'
  <2> DEFINE t == CurType(d)
             comp == Component(c, t, path, d)
             lnk == Linked(c, t, path, d)
             m == dyn[d].mem
  <2>1. dyn' = lnk BY <1>3
  <2>2. lnk = [dyn EXCEPT ![c] = comp, ![d].children = @ \cup {c}] BY DEF Linked
  <2>3. Shaped(dyn) /\ c # d
    BY <1>1, <1>3 DEF IInv, Right, Free, Live, Exists
  <2>4. lnk = [x \in Dyns |-> IF x = c THEN comp ELSE lnk[x]]
    <3> DEFINE par == [dyn[d] EXCEPT !.children = @ \cup {c}]
    <3> HIDE DEF comp
    <3>1. lnk = [x \in Dyns |-> IF x = c THEN comp ELSE IF x = d THEN par ELSE dyn[x]]
      BY <2>2, <2>3 DEF Shaped
    <3> HIDE DEF lnk, par
    <3> QED BY <3>1
  <2>5. comp = [comp EXCEPT !.mem = m] BY DEF Component, Unused
  <2>6. dyn' = [lnk EXCEPT ![c].mem = m]
    <3> HIDE DEF lnk, comp, m
    <3>1. lnk[c] = comp BY <2>4
    <3>2. [lnk EXCEPT ![c].mem = m] = [x \in Dyns |->
             IF x = c THEN [lnk[c] EXCEPT !.mem = m] ELSE lnk[x]]
      BY <2>4
    <3>3. [lnk EXCEPT ![c].mem = m] = [x \in Dyns |-> IF x = c THEN comp ELSE lnk[x]]
      BY <3>1, <3>2, <2>5
    <3> QED BY <3>3, <2>1, <2>4
  <2>7. Careful => m # "freed" BY <1>3, NotFreed
  <2> HIDE DEF t, m
  <2>8. dyn' = [Linked(c, t, path, d) EXCEPT ![c].mem = m] BY <2>6
  <2> QED BY <1>1, <1>3, <2>7, <2>8, LinkedStep
<1> QED BY <1>2, <1>3, Raising, Idle, Stopped

LEMMA MembersStep ==
  ASSUME IInv, NEW d \in Dyns, NEW cs \in Pairs, MembersAsDynAny(d, cs)
  PROVE  IInv'
<1> DEFINE C == Range(cs)
           t == TypeOf(d)
           first == IF Kind[t] = "alias" THEN dyn[d].path ELSE Append(dyn[d].path, 0)
           new(x) == Component(x, Subtypes[t][CHOOSE i \in DOMAIN cs : cs[i] = x],
                               first, d)
           par == [dyn[d] EXCEPT !.children = @ \cup C]
<1>1. Live(d) /\ \A i \in DOMAIN cs : Free(cs[i]) BY DEF MembersAsDynAny
<1>2. \/ Raise("OBJECT_NOT_EXIST") \/ Raise("TypeMismatch")
      \/ /\ dyn[d].any /\ Done
         /\ dyn' = [x \in Dyns |-> IF x = d THEN par ELSE IF x \in C THEN new(x)
                                   ELSE dyn[x]]
  BY DEF MembersAsDynAny
<1>3. C \in SUBSET Dyns /\ \A c \in C : Free(c)
  <2>1. cs \in [1..2 -> Dyns] /\ C = {cs[i] : i \in DOMAIN cs} BY DEF Pairs, Range
  <2> QED BY <2>1, <1>1
<1>4. Fresh(dyn, C) BY <1>3 DEF Fresh, Free, Live, IsLive
<1>5. ASSUME dyn[d].any, Done,
             dyn' = [x \in Dyns |-> IF x = d THEN par ELSE IF x \in C THEN new(x)
                                    ELSE dyn[x]]
      PROVE  IInv'
  <2>1. Right(dyn) /\ Shaped(dyn) /\ HasAny(dyn, d)
    BY <1>1, <1>5 DEF IInv, Right, HasAny, IsLive, Live
  <2>2. d \notin C BY <1>4, <2>1 DEF Fresh, HasAny
  <2>3. \A x \in C : /\ Used \subseteq DOMAIN new(x) /\ new(x).life = "live"
                     /\ new(x).any = TRUE /\ new(x).owns = FALSE
                     /\ new(x).root = dyn[d].root /\ new(x).mem = dyn[d].mem
                     /\ new(x).children = {} /\ new(x).parent = d
    BY DEF Component, Unused, Used
  <2>4. /\ Used \subseteq DOMAIN par /\ par.life = dyn[d].life /\ par.any = dyn[d].any
        /\ par.owns = dyn[d].owns /\ par.root = dyn[d].root /\ par.mem = dyn[d].mem
        /\ par.parent = dyn[d].parent /\ par.children = dyn[d].children \cup C
    BY <2>1 DEF Shaped, Used
  <2>5. Careful => dyn[d].mem # "freed" BY <1>1, <1>5, NotFreed DEF Exists
  <2> HIDE DEF new, par, C
  <2>6. /\ dyn'[d] = par /\ \A x \in C : dyn'[x] = new(x)
        /\ \A x \in Dyns \ (C \cup {d}) : dyn'[x] = dyn[x]
        /\ dyn' = [x \in Dyns |-> dyn'[x]]
    BY <1>3, <1>5, <2>2
  <2>7. Shaped(dyn')
    <3>1. par.any \in BOOLEAN /\ par.owns \in BOOLEAN /\ par.children \subseteq Dyns
      BY <1>3, <2>1, <2>4 DEF Shaped
    <3> SUFFICES ASSUME NEW x \in Dyns
                 PROVE  /\ Used \subseteq DOMAIN dyn'[x]
                        /\ dyn'[x].any \in BOOLEAN /\ dyn'[x].owns \in BOOLEAN
                        /\ dyn'[x].children \subseteq Dyns
      BY <2>6 DEF Shaped
    <3>2. CASE x = d BY <3>1, <3>2, <2>4, <2>6
    <3>3. CASE x \in C BY <3>3, <2>3, <2>6
    <3>4. CASE x # d /\ x \notin C BY <3>4, <2>1, <2>6 DEF Shaped
    <3> QED BY <3>2, <3>3, <3>4
  <2>8. /\ Kept(dyn, dyn', d) /\ dyn'[d].mem = dyn[d].mem
        /\ dyn'[d].children = dyn[d].children \cup C
    BY <2>4, <2>6 DEF Kept
  <2>9. \A x \in C : /\ dyn'[x].life = "live" /\ dyn'[x].any /\ ~ dyn'[x].owns
                     /\ dyn'[x].root = dyn[d].root /\ dyn'[x].children = {}
                     /\ dyn'[x].parent = d
                     /\ Careful => dyn'[x].mem # "freed"
    BY <2>3, <2>5, <2>6
  <2>10. Right(dyn')
    BY <1>3, <1>4, <2>1, <2>6, <2>7, <2>8, <2>9, LinkedRight
  <2> QED BY <1>5, <2>10, Moving
<1> QED BY <1>2, <1>5, Raising

(* A freed child is only told by an application that is not careful.       *)
LEMMA Dangled ==
  ASSUME IInv, NEW d \in Dyns, Dangling(d), NEW why, Stop(why)
  PROVE  IInv'
<1>1. ~ Careful BY DanglingOnlyCareless DEF IInv
<1> QED BY <1>1, Stopped

LEMMA ReleaseStep ==
  ASSUME IInv, NEW d \in Dyns, Release(d)
  PROVE  IInv'
<1>1. Live(d) /\ (Careful => dyn[d].parent = None) BY DEF Release
<1>2. CASE Dangling(d)
  <2>1. Stop("list") BY <1>2 DEF Release
  <2> QED BY <1>2, <2>1, Dangled
<1>3. CASE ~ Dangling(d)
  <2> DEFINE D == Invalidated(d)
             f(y) == IF dyn[d].owns /\ y.any /\ y.root = d
                     THEN [y EXCEPT !.mem = "freed"] ELSE y
  <2>1. /\ dyn' = [x \in Dyns |-> IF x = d THEN Unused ELSE f(D[x])]
        /\ Done
    BY <1>3 DEF Release
  <2>2. Right(dyn) /\ IsLive(dyn, d) BY <1>1 DEF IInv, Live, IsLive
  <2>3. Right(D) /\ Kept(dyn, D, d) /\ D[d].children = {}
    BY <1>3, <2>2, InvalidatedRight
  <2>4. Shaped(D) BY <2>3 DEF Right
  <2> HIDE DEF D
(* Nobody else looks into the value that goes.                             *)
  <2>5. ASSUME NEW x \in Dyns \ {d} PROVE f(D[x]) = D[x]
    BY <2>3, OnlyItsOwn
  <2>6. dyn' = [x \in Dyns |-> IF x = d THEN Unused ELSE D[x]]
    <3> HIDE DEF f
    <3> QED BY <2>1, <2>5
  <2>7. dyn'[d] = Unused /\ \A x \in Dyns \ {d} : dyn'[x] = D[x] BY <2>6
  <2>8. Shaped(dyn') BY <2>4, <2>6, <2>7, GoneFields DEF Shaped
  <2>9. IsLive(D, d) /\ (Careful => D[d].parent = None)
    BY <1>1, <2>2, <2>3 DEF Kept, IsLive
  <2>10. Right(dyn') BY <2>3, <2>7, <2>8, <2>9, RemovedRight
  <2> QED BY <2>1, <2>10, Moving
<1> QED BY <1>2, <1>3

LEMMA FromAnyStep ==
  ASSUME IInv, NEW d \in Dyns, NEW t, NEW v, FromAny(d, t, v)
  PROVE  IInv'
<1>1. Live(d) BY DEF FromAny
<1>2. CASE ~ dyn[d].any \/ t # TypeOf(d)
  <2>1. Raise("OBJECT_NOT_EXIST") \/ Raise("TypeMismatch") BY <1>2 DEF FromAny
  <2> QED BY <2>1, Raising
<1>3. CASE dyn[d].any /\ t = TypeOf(d) /\ Dangling(d)
  <2>1. Stop("list") BY <1>3 DEF FromAny
  <2> QED BY <1>3, <2>1, Dangled
<1>4. CASE dyn[d].any /\ t = TypeOf(d) /\ ~ Dangling(d)
  <2> DEFINE D == Invalidated(d)
             p == dyn[d].parent
             own(y) == [y EXCEPT !.owns = TRUE, !.root = d, !.path = << >>,
                                 !.mem = "ok", !.parent = None]
             drop(y) == [y EXCEPT !.children = @ \ {d}]
             gone(y) == IF dyn[d].owns /\ y.any /\ y.root = d
                        THEN [y EXCEPT !.mem = "freed"] ELSE y
  <2>1. dyn' = [x \in Dyns |-> IF x = d THEN own(D[x])
                               ELSE IF x = p THEN drop(D[x]) ELSE gone(D[x])]
    BY <1>4 DEF FromAny
  <2>2. Done BY <1>4 DEF FromAny
  <2>3. Right(dyn) /\ IsLive(dyn, d) /\ HasAny(dyn, d)
    BY <1>1, <1>4 DEF IInv, Live, IsLive, HasAny
  <2>4. Right(D) /\ Kept(dyn, D, d) /\ D[d].children = {}
    BY <1>4, <2>3, InvalidatedRight
  <2>5. Shaped(D) /\ Linking(D) /\ Blank(D) BY <2>4 DEF Right
  <2>6. p = D[d].parent BY <2>4 DEF Kept
  <2> HIDE DEF D, p
  <2>7. ASSUME NEW x \in Dyns \ {d} PROVE gone(D[x]) = D[x]
    BY <2>4, OnlyItsOwn
  <2> HIDE DEF gone
  <2>8. HasAny(D, d) BY <2>3, <2>4 DEF Kept, HasAny, IsLive
  <2>9. LET y == own(D[d])
        IN /\ Used \subseteq DOMAIN y /\ y.life = D[d].life /\ y.any = D[d].any
           /\ y.owns = TRUE /\ y.root = d /\ y.mem = "ok" /\ y.parent = None
           /\ y.children = D[d].children
    BY <2>5 DEF Shaped, Used
  <2>10. \A x \in Dyns :
           LET y == drop(D[x])
           IN /\ Used \subseteq DOMAIN y /\ y.life = D[x].life /\ y.any = D[x].any
              /\ y.owns = D[x].owns /\ y.root = D[x].root /\ y.mem = D[x].mem
              /\ y.parent = D[x].parent /\ y.children = D[x].children \ {d}
    BY <2>5 DEF Shaped, Used
  <2> HIDE DEF own, drop
  <2>11. /\ dyn' = [x \in Dyns |-> dyn'[x]] /\ dyn'[d] = own(D[d])
         /\ \A x \in Dyns \ {d} : dyn'[x] = IF x = p THEN drop(D[x]) ELSE D[x]
    BY <2>1, <2>7
(* Only the parent has it among its children.                              *)
  <2>12. ASSUME NEW x \in Dyns \ {d}, x # p PROVE d \notin D[x].children
    <3> SUFFICES ASSUME d \in D[x].children PROVE FALSE OBVIOUS
    <3>1. IsLive(D, x) BY <2>5 DEF Blank
    <3>2. D[d].parent = x BY <2>5, <2>8, <3>1 DEF Linking, HasAny
    <3> QED BY <2>6, <2>12, <3>2
  <2>13. \A x \in Dyns \ {d} : /\ Kept(D, dyn', x) /\ dyn'[x].mem = D[x].mem
                               /\ dyn'[x].children = D[x].children \ {d}
                               /\ Used \subseteq DOMAIN dyn'[x]
    <3> SUFFICES ASSUME NEW x \in Dyns \ {d}
                 PROVE  /\ Kept(D, dyn', x) /\ dyn'[x].mem = D[x].mem
                        /\ dyn'[x].children = D[x].children \ {d}
                        /\ Used \subseteq DOMAIN dyn'[x]
      OBVIOUS
    <3>1. CASE x = p BY <3>1, <2>10, <2>11 DEF Kept
    <3>2. CASE x # p
      <4>1. dyn'[x] = D[x] BY <3>2, <2>11
      <4> QED BY <3>2, <4>1, <2>5, <2>12 DEF Kept, Shaped
    <3> QED BY <3>1, <3>2
  <2>14. /\ dyn'[d].life = "live" /\ dyn'[d].any /\ dyn'[d].owns /\ dyn'[d].root = d
         /\ dyn'[d].mem = "ok" /\ dyn'[d].children = {} /\ dyn'[d].parent = None
         /\ Used \subseteq DOMAIN dyn'[d]
         /\ dyn'[d].any \in BOOLEAN /\ dyn'[d].owns \in BOOLEAN
    BY <2>4, <2>5, <2>8, <2>9, <2>11 DEF HasAny, IsLive, Shaped
  <2>15. Shaped(dyn')
    <3> SUFFICES ASSUME NEW x \in Dyns
                 PROVE  /\ Used \subseteq DOMAIN dyn'[x]
                        /\ dyn'[x].any \in BOOLEAN /\ dyn'[x].owns \in BOOLEAN
                        /\ dyn'[x].children \subseteq Dyns
      BY <2>11 DEF Shaped
    <3>1. CASE x = d BY <3>1, <2>14
    <3>2. CASE x # d BY <3>2, <2>5, <2>13 DEF Shaped, Kept
    <3> QED BY <3>1, <3>2
  <2>16. Right(dyn') BY <2>4, <2>8, <2>13, <2>14, <2>15, OwnedRight
  <2> QED BY <2>2, <2>16, Moving
<1> QED BY <1>2, <1>3, <1>4

LEMMA AssignStep ==
  ASSUME IInv, NEW d \in Dyns, NEW s \in Dyns, Assign(d, s)
  PROVE  IInv'
<1>1. \/ Raise("BAD_PARAM") \/ Stop("source") \/ Stop("value")
      \/ \E v : FromAny(d, TypeOf(s), v)
  BY DEF Assign
<1> QED BY <1>1, Raising, Stopped, FromAnyStep

(* What a call changes of the cursor and of the state of the memory only.  *)
LEMMA CursorStep ==
  ASSUME IInv, Shaped(dyn'), Done,
         \A x \in Dyns : /\ Kept(dyn, dyn', x) /\ dyn'[x].mem = dyn[x].mem
                         /\ dyn'[x].children = dyn[x].children
  PROVE  IInv'
<1>1. Right(dyn') BY AllKept DEF IInv
<1> QED BY <1>1, Moving

LEMMA SeekStep ==
  ASSUME IInv, NEW d \in Dyns, NEW i, Seek(d, i)
  PROVE  IInv'
<1>1. \/ Raise("OBJECT_NOT_EXIST") \/ Stop("value")
      \/ \E k : dyn' = [dyn EXCEPT ![d].idx = k] /\ Done
  BY DEF Seek
<1>2. ASSUME NEW k, dyn' = [dyn EXCEPT ![d].idx = k], Done PROVE IInv'
  <2> DEFINE new == [dyn[d] EXCEPT !.idx = k]
  <2>1. Shaped(dyn) BY DEF IInv, Right
  <2>2. /\ Used \subseteq DOMAIN new /\ new.life = dyn[d].life
        /\ new.any = dyn[d].any /\ new.owns = dyn[d].owns
        /\ new.root = dyn[d].root /\ new.mem = dyn[d].mem
        /\ new.parent = dyn[d].parent /\ new.children = dyn[d].children
    BY <2>1 DEF Shaped, Used
  <2>3. dyn' = [x \in Dyns |-> IF x = d THEN new ELSE dyn[x]]
    BY <1>2, <2>1 DEF Shaped
  <2> HIDE DEF new
  <2>4. \A x \in Dyns : /\ Kept(dyn, dyn', x) /\ dyn'[x].mem = dyn[x].mem
                        /\ dyn'[x].children = dyn[x].children
    BY <2>2, <2>3 DEF Kept
  <2>5. Shaped(dyn')
    <3>1. dyn' = [x \in Dyns |-> dyn'[x]] BY <2>3
    <3>2. \A x \in Dyns : Used \subseteq DOMAIN dyn'[x]
      BY <2>1, <2>2, <2>3 DEF Shaped
    <3> QED BY <2>1, <2>4, <3>1, <3>2 DEF Shaped, Kept
  <2> QED BY <1>2, <2>4, <2>5, CursorStep
<1> QED BY <1>1, <1>2, Raising, Stopped

LEMMA InsertStep ==
  ASSUME IInv, NEW d \in Dyns, NEW t, NEW v, NEW i, Insert(d, t, v) \/ SetEnum(d, i)
  PROVE  IInv'
<1>1. \/ Raise("OBJECT_NOT_EXIST") \/ Raise("TypeMismatch") \/ Raise("InvalidValue")
      \/ Stop("value") \/ (dyn' = dyn /\ crash' = crash)
  BY DEF Insert, SetEnum, Done
<1> QED BY <1>1, Raising, Stopped, Same

(* Some views are told what became of the memory they look into.           *)
LEMMA MemRight ==
  ASSUME NEW D, NEW D2, NEW why, NEW W \in SUBSET Dyns, Right(D),
         D2 = [x \in Dyns |-> IF x \in W THEN [D[x] EXCEPT !.mem = why] ELSE D[x]],
         Careful => why # "freed" \/ W = {}
  PROVE  Right(D2)
<1>1. Shaped(D) BY DEF Right
<1>2. \A x \in Dyns :
        LET y == [D[x] EXCEPT !.mem = why]
        IN /\ Used \subseteq DOMAIN y /\ y.life = D[x].life /\ y.any = D[x].any
           /\ y.owns = D[x].owns /\ y.root = D[x].root /\ y.mem = why
           /\ y.parent = D[x].parent /\ y.children = D[x].children
  BY <1>1 DEF Shaped, Used
<1>3. \A x \in Dyns : /\ Kept(D, D2, x) /\ D2[x].children = D[x].children
                      /\ D2[x].mem = IF x \in W THEN why ELSE D[x].mem
                      /\ Used \subseteq DOMAIN D2[x]
  <2> SUFFICES ASSUME NEW x \in Dyns
               PROVE  /\ Kept(D, D2, x) /\ D2[x].children = D[x].children
                      /\ D2[x].mem = IF x \in W THEN why ELSE D[x].mem
                      /\ Used \subseteq DOMAIN D2[x]
    OBVIOUS
  <2> DEFINE y == [D[x] EXCEPT !.mem = why]
  <2>1. /\ Used \subseteq DOMAIN y /\ y.life = D[x].life /\ y.any = D[x].any
        /\ y.owns = D[x].owns /\ y.root = D[x].root /\ y.mem = why
        /\ y.parent = D[x].parent /\ y.children = D[x].children
    BY <1>2
  <2>2. D2[x] = IF x \in W THEN y ELSE D[x] OBVIOUS
  <2>3. Used \subseteq DOMAIN D[x] BY <1>1 DEF Shaped
  <2> HIDE DEF y
  <2> QED BY <2>1, <2>2, <2>3 DEF Kept
<1>4. D2 = [x \in Dyns |-> D2[x]] OBVIOUS
<1>5. Shaped(D2) BY <1>1, <1>3, <1>4 DEF Shaped, Kept
<1>6. Careful => \A x \in Dyns : D2[x].mem = D[x].mem \/ D2[x].mem # "freed"
  BY <1>3
<1> QED BY <1>3, <1>5, <1>6, AllKept

LEMMA InvalidatedStep ==
  ASSUME IInv, NEW d \in Dyns, Live(d), ~ Dangling(d), crash' = crash,
         dyn' = Invalidated(d) \/ dyn' = CutOff(d, Invalidated(d))
  PROVE  IInv'
<1> DEFINE D == Invalidated(d)
<1>1. Right(D) BY InvalidatedRight DEF IInv, Live, IsLive
<1>2. CASE dyn' = D BY <1>1, <1>2 DEF IInv, NoDeadList
<1>3. CASE dyn' = CutOff(d, D)
  <2> DEFINE cut(x) == Cut(d, x) /\ D[x].any
             W == {x \in Dyns : cut(x)}
  <2>1. dyn' = [x \in Dyns |-> IF cut(x) THEN [D[x] EXCEPT !.mem = "leaked"]
                               ELSE D[x]]
    BY <1>3 DEF CutOff
  <2> HIDE DEF cut, D
  <2>2. W \in SUBSET Dyns
        /\ dyn' = [x \in Dyns |-> IF x \in W THEN [D[x] EXCEPT !.mem = "leaked"]
                                  ELSE D[x]]
    BY <2>1
  <2> HIDE DEF W
  <2>3. Right(dyn') BY <1>1, <2>2, MemRight
  <2> QED BY <2>3 DEF IInv, NoDeadList
<1> QED BY <1>2, <1>3

LEMMA MembersFailStep ==
  ASSUME IInv, NEW d \in Dyns, Live(d), ~ Dangling(d), NEW e, MembersFail(d, e)
  PROVE  IInv'
BY InvalidatedStep DEF MembersFail

LEMMA SetMembersStep ==
  ASSUME IInv, NEW d \in Dyns, NEW l, SetMembers(d, l)
  PROVE  IInv'
<1>1. Live(d) BY DEF SetMembers
<1>2. \/ Raise("OBJECT_NOT_EXIST") \/ Raise("TypeMismatch")
      \/ (Dangling(d) /\ Stop("list")) \/ Stop("names") \/ Stop("value")
      \/ (~ Dangling(d) /\ \E e : MembersFail(d, e))
      \/ (~ Dangling(d) /\ dyn' = CutOff(d, Invalidated(d)) /\ Done)
  BY DEF SetMembers
<1>3. CASE ~ Dangling(d) /\ dyn' = CutOff(d, Invalidated(d)) /\ Done
  BY <1>1, <1>3, InvalidatedStep DEF Done
<1> QED BY <1>1, <1>2, <1>3, Raising, Stopped, Dangled, MembersFailStep

LEMMA SetOthersStep ==
  ASSUME IInv, NEW d \in Dyns, NEW cs, NEW l,
         SetMembersAsDynAny(d, cs) \/ SetElementsAsDynAny(d, cs) \/ SetElements(d, l)
  PROVE  IInv'
<1>1. Live(d) BY DEF SetMembersAsDynAny, SetElementsAsDynAny, SetElements
<1>2. \/ Raise("OBJECT_NOT_EXIST") \/ Raise("TypeMismatch") \/ Raise("InvalidValue")
      \/ (Dangling(d) /\ Stop("list")) \/ Stop("names") \/ Stop("value")
      \/ Stop("null") \/ Stop("layout") \/ Stop("overflow")
      \/ (~ Dangling(d) /\ dyn' = CutOff(d, Invalidated(d)) /\ Done)
  <2>1. CASE SetMembersAsDynAny(d, cs) BY <2>1 DEF SetMembersAsDynAny
  <2>2. CASE SetElementsAsDynAny(d, cs) BY <2>2 DEF SetElementsAsDynAny
  <2>3. CASE SetElements(d, l) BY <2>3 DEF SetElements
  <2> QED BY <2>1, <2>2, <2>3
<1>3. CASE ~ Dangling(d) /\ dyn' = CutOff(d, Invalidated(d)) /\ Done
  BY <1>1, <1>3, InvalidatedStep DEF Done
<1> QED BY <1>1, <1>2, <1>3, Raising, Stopped, Dangled

LEMMA MovedRight ==
  ASSUME NEW d \in Dyns, NEW D, Right(D),
         Careful => Over(d) = {}
  PROVE  Right(Moved(d, D))
<1> DEFINE W == {x \in Over(d) : D[x].any}
           D2 == Moved(d, D)
           why == "freed"
<1>1. W \in SUBSET Dyns BY DEF Behind, Over
<1>2. D2 = [x \in Dyns |-> IF x \in W THEN [D[x] EXCEPT !.mem = why] ELSE D[x]]
  BY DEF Moved
<1>3. Careful => why # "freed" \/ W = {} OBVIOUS
<1> HIDE DEF W, D2, why
<1>4. Right(D2) BY <1>1, <1>2, <1>3, MemRight
<1> QED BY <1>4 DEF D2

LEMMA SetLengthStep ==
  ASSUME IInv, NEW d \in Dyns, NEW n, NEW lucky, SetLength(d, n, lucky)
  PROVE  IInv'
<1>1. Live(d) /\ Right(dyn) /\ Shaped(dyn) BY DEF SetLength, IInv, Right
<1> DEFINE E(k) == [dyn EXCEPT ![d].idx = k]
           alone == Careful => Over(d) = {}
<1>2. \/ Raise("OBJECT_NOT_EXIST") \/ Raise("TypeMismatch") \/ Raise("InvalidValue")
      \/ Stop("value") \/ Stop("layout") \/ Stop("overflow") \/ Nothing
      \/ (~ Careful /\ Stop("list"))
      \/ (\E k : dyn' = Moved(d, E(k)) /\ alone /\ Done)
  BY DEF SetLength, Shrunk
<1>3. CASE ~ Careful /\ Stop("list") BY <1>3, Stopped
<1>4. ASSUME NEW k, dyn' = Moved(d, E(k)), alone, Done PROVE IInv'
  <2> DEFINE new == [dyn[d] EXCEPT !.idx = k]
  <2>2. /\ Used \subseteq DOMAIN new /\ new.life = dyn[d].life
        /\ new.any = dyn[d].any /\ new.owns = dyn[d].owns
        /\ new.root = dyn[d].root /\ new.mem = dyn[d].mem
        /\ new.parent = dyn[d].parent /\ new.children = dyn[d].children
    BY <1>1 DEF Shaped, Used
  <2> DEFINE F == E(k)
  <2>1. dyn' = Moved(d, F) BY <1>4
  <2>3. F = [x \in Dyns |-> IF x = d THEN new ELSE dyn[x]] BY <1>1 DEF Shaped
  <2> HIDE DEF new, F
  <2>4. \A x \in Dyns : /\ Kept(dyn, F, x) /\ F[x].mem = dyn[x].mem
                        /\ F[x].children = dyn[x].children
                        /\ Used \subseteq DOMAIN F[x]
    BY <1>1, <2>2, <2>3 DEF Kept, Shaped
  <2>5. F = [x \in Dyns |-> F[x]] BY <2>3
  <2>6. Shaped(F) BY <1>1, <2>4, <2>5 DEF Shaped, Kept
  <2>7. Right(F) BY <1>1, <2>4, <2>6, AllKept
  <2>8. Right(dyn') BY <1>4, <2>1, <2>7, MovedRight
  <2> QED BY <1>4, <2>8, Moving
<1> QED BY <1>2, <1>3, <1>4, Raising, Idle, Stopped

LEMMA OthersStep ==
  ASSUME IInv, NEW d \in Dyns,
         ElementsAsDynAny(d) \/ Unimplemented(d) \/ Caught
  PROVE  IInv'
<1>1. \/ Raise("OBJECT_NOT_EXIST") \/ Raise("TypeMismatch") \/ Nothing
      \/ Stop("value") \/ Stop("elements") \/ Stop("assert")
      \/ (dyn' = dyn /\ crash' = crash)
  BY DEF ElementsAsDynAny, Unimplemented, Caught
<1> QED BY <1>1, Raising, Idle, Stopped, Same

LEMMA Preserved == IInv /\ [Next]_vars => IInv'
<1> SUFFICES ASSUME IInv, [Next]_vars PROVE IInv' OBVIOUS
<1>1. ASSUME NEW d \in Dyns, NEW t, NEW v,
             CreateDynAny(d, t, v) \/ CreateFromType(d, t)
      PROVE  IInv'
  BY <1>1, CreateStep
<1>2. ASSUME NEW d \in Dyns, NEW t, NEW v, FromAny(d, t, v) PROVE IInv'
  BY <1>2, FromAnyStep
<1>3. CASE Caught
  <2>1. dyn' = dyn /\ crash' = crash BY <1>3 DEF Caught
  <2> QED BY <2>1, Same
<1>4. ASSUME NEW d \in Dyns, \/ Release(d) \/ Rewind(d) \/ NextComponent(d)
                             \/ ElementsAsDynAny(d) \/ Unimplemented(d)
      PROVE  IInv'
  BY <1>4, ReleaseStep, SeekStep, OthersStep DEF Rewind, NextComponent
<1>5. ASSUME NEW d \in Dyns, NEW c \in Dyns,
             CopyDynAny(d, c) \/ CurrentComponent(d, c) \/ Assign(d, c)
      PROVE  IInv'
  BY <1>5, CopyStep, ComponentStep, AssignStep
<1>6. ASSUME NEW d \in Dyns, NEW i, Seek(d, i) PROVE IInv'
  BY <1>6, SeekStep
<1>7. ASSUME NEW d \in Dyns, NEW t, NEW v, Insert(d, t, v) PROVE IInv'
  BY <1>7, InsertStep
<1>8. ASSUME NEW d \in Dyns, NEW i, SetEnum(d, i) PROVE IInv'
  BY <1>8, InsertStep
<1>9. ASSUME NEW d \in Dyns, NEW l, SetMembers(d, l) \/ SetElements(d, l) PROVE IInv'
  BY <1>9, SetMembersStep, SetOthersStep
<1>10. ASSUME NEW d \in Dyns, NEW cs \in Pairs,
              MembersAsDynAny(d, cs) \/ SetMembersAsDynAny(d, cs)
       PROVE  IInv'
  BY <1>10, MembersStep, SetOthersStep
<1>11. ASSUME NEW d \in Dyns, NEW cs, SetElementsAsDynAny(d, cs) PROVE IInv'
  BY <1>11, SetOthersStep
<1>12. ASSUME NEW d \in Dyns, NEW n, NEW lucky, SetLength(d, n, lucky) PROVE IInv'
  BY <1>12, SetLengthStep
<1>13. CASE UNCHANGED vars
  <2>1. dyn' = dyn /\ crash' = crash BY <1>13 DEF vars
  <2> QED BY <2>1, Same
<1>14. CASE Next
  BY <1>1, <1>2, <1>3, <1>4, <1>5, <1>6, <1>7, <1>8, <1>9, <1>10, <1>11, <1>12, <1>14
     DEF Next
<1> QED BY <1>13, <1>14

LEMMA Inductive == Spec => []IInv
BY InitRight, Preserved, PTL DEF Spec

-----------------------------------------------------------------------------
(* A component and its parent know each other, and a component that lost   *)
(* its parent has no any (dynany_create and dynany_invalidate).            *)
THEOREM ComponentsKnown == Spec => []ParentKnows
<1>1. IInv => ParentKnows
  <2> SUFFICES ASSUME IInv, NEW d \in Dyns, Live(d)
               PROVE  /\ dyn[d].parent # None =>
                           LET p == dyn[d].parent
                           IN Exists(p) /\ d \in dyn[p].children
                              /\ dyn[d].any /\ ~ dyn[d].owns
                      /\ \A c \in dyn[d].children : Live(c) => dyn[c].parent = d
                      /\ dyn[d].any => dyn[d].owns \/ dyn[d].parent # None
                      /\ ~ dyn[d].any => dyn[d].children = {}
    BY DEF ParentKnows
  <2> QED BY DEF IInv, Right, Linking, IsLive, HasAny, Live, Exists
<1> QED BY <1>1, Inductive, PTL

(* Where the application releases no component before its parent, no list  *)
(* of children leads to an object that was freed (dynany_invalidate).      *)
THEOREM ChildrenLive == Spec => []NoDeadList
<1>1. IInv => NoDeadList BY DEF IInv
<1> QED BY <1>1, Inductive, PTL

(* Whatever the application does, an object that has an any looks into the *)
(* value of an object that still owns it: what is released or assigned has *)
(* told all that looked into it, however deep (dynany_invalidate).         *)
THEOREM NoViewOutlivesValue == Spec => []ViewsOwned
<1>1. IInv => ViewsOwned
  <2> SUFFICES ASSUME IInv PROVE ViewsOwned OBVIOUS
  <2> DEFINE good(x) == dyn[x].root \in Dyns /\ Exists(dyn[x].root)
                        /\ dyn[dyn[x].root].owns
             S == {x \in Dyns : Exists(x) /\ ~ good(x)}
  <2>1. Linking(dyn) /\ Forest(dyn) /\ Roots(dyn) BY DEF IInv, Right
  <2>2. ASSUME NEW x \in S PROVE dyn[x].parent \in S
    <3>1. x \in Dyns /\ HasAny(dyn, x) /\ Exists(x) /\ ~ good(x)
      BY DEF Exists, Live, HasAny, IsLive
    <3>2. ~ dyn[x].owns BY <3>1, <2>1 DEF Roots
    <3>3. dyn[x].parent # None BY <3>1, <3>2, <2>1 DEF Linking, HasAny
    <3>4. dyn[x].parent \in Dyns /\ HasAny(dyn, dyn[x].parent)
      BY <3>1, <3>3, <2>1 DEF Linking, HasAny
    <3>5. dyn[x].root = dyn[dyn[x].parent].root BY <3>1, <3>3, <2>1 DEF Roots
    <3> QED BY <3>1, <3>4, <3>5 DEF Exists, Live, HasAny, IsLive
  <2>3. S \in SUBSET Dyns OBVIOUS
  <2>4. S = {}
    <3> HIDE DEF S
    <3> QED BY <2>1, <2>2, <2>3 DEF Forest
  <2> QED BY <2>4 DEF ViewsOwned
<1> QED BY <1>1, Inductive, PTL

-----------------------------------------------------------------------------
(***************************************************************************)
(* Functions over types.  Those of DynAny are recursive, and only their    *)
(* definition says what they are: the equation holds where a solution is   *)
(* known to exist.  WholeOf gathers the four of them, so that there is one *)
(* proof that there is one (WholeDefined).                                 *)
(***************************************************************************)
LEMMA LeastNumber ==
  ASSUME NEW S \in SUBSET Nat, S # {}
  PROVE  \E m \in S : \A k \in S : m <= k
<1> DEFINE R == {ss \in Nat \X Nat : ss[1] < ss[2]}
<1>1. IsWellFoundedOn(R, Nat) BY NatLessThanWellFounded DEF OpToRel
<1> HIDE DEF R
<1>2. PICK m \in S : \A k \in S : ~ (<<k, m>> \in R) BY <1>1, WFMin
<1>3. \A k \in S : ~ (k < m)
  <2> SUFFICES ASSUME NEW k \in S, k < m PROVE FALSE OBVIOUS
  <2>1. <<k, m>> \in R BY DEF R
  <2> QED BY <1>2, <2>1
<1> QED BY <1>3

(* The functions over types, from their values for the subtypes.           *)
RealOf(of, t) == IF Kind[t] = "alias" THEN of[1] ELSE t
WholeOf(of, t) ==
  [real |-> RealOf([i \in DOMAIN of |-> of[i].real], t),
   values |-> ValuesOf([i \in DOMAIN of |-> of[i].values], t),
   default |-> DefaultOf([i \in DOMAIN of |-> of[i].default], t),
   copy |-> CopyOf([i \in DOMAIN of |-> of[i].copy], t)]
Subs(f, t) == [i \in DOMAIN Subtypes[t] |-> f[Subtypes[t][i]]]

Down(D) ==
  D \subseteq Types /\ \A u \in D : \A i \in DOMAIN Subtypes[u] : Subtypes[u][i] \in D
Solves(g, D) == \A u \in D : g[u] = WholeOf(Subs(g, u), u)
Solution(t, g) == \E D : t \in D /\ Down(D) /\ Solves(g, D)

LEMMA SameSubs ==
  ASSUME NEW f, NEW g, NEW t,
         \A i \in DOMAIN Subtypes[t] : f[Subtypes[t][i]] = g[Subtypes[t][i]]
  PROVE  Subs(f, t) = Subs(g, t)
BY DEF Subs

LEMMA LeastType ==
  ASSUME NEW S, S \subseteq Types, S # {}
  PROVE  \E t \in S : \A i \in DOMAIN Subtypes[t] : Subtypes[t][i] \notin S
BY NoTypeInItself

LEMMA OneSolution ==
  ASSUME NEW D, NEW E, Down(D), Down(E), NEW g, NEW h, Solves(g, D), Solves(h, E)
  PROVE  \A u \in D \cap E : g[u] = h[u]
<1> DEFINE S == {u \in D \cap E : g[u] # h[u]}
<1> SUFFICES ASSUME S # {} PROVE FALSE OBVIOUS
<1>1. S \subseteq Types BY DEF Down
<1> HIDE DEF S
<1>2. PICK u \in S : \A i \in DOMAIN Subtypes[u] : Subtypes[u][i] \notin S
  BY <1>1, LeastType
<1> USE DEF S
<1>3. u \in D /\ u \in E OBVIOUS
<1>4. \A i \in DOMAIN Subtypes[u] : g[Subtypes[u][i]] = h[Subtypes[u][i]]
  BY <1>2, <1>3 DEF Down
<1>5. Subs(g, u) = Subs(h, u) BY <1>4, SameSubs
<1>6. g[u] = h[u] BY <1>3, <1>5 DEF Solves
<1> QED BY <1>6

LEMMA WholeDefined == \E f : f = [t \in Types |-> WholeOf(Subs(f, t), t)]
<1> DEFINE Z == {t \in Types : \E g : Solution(t, g)}
           f == [t \in Types |-> (CHOOSE g : Solution(t, g))[t]]
<1>1. ASSUME NEW t, NEW g, Solution(t, g), t \in Types
      PROVE  f[t] = g[t] /\ t \in Z
  <2>1. Solution(t, CHOOSE h : Solution(t, h)) BY <1>1, Zenon
  <2> DEFINE h == CHOOSE k : Solution(t, k)
  <2>2. f[t] = h[t] BY <1>1
  <2>3. Solution(t, h) BY <2>1
  <2> HIDE DEF h
  <2>4. PICK D : t \in D /\ Down(D) /\ Solves(g, D) BY <1>1 DEF Solution
  <2>5. PICK E : t \in E /\ Down(E) /\ Solves(h, E) BY <2>3 DEF Solution
  <2>6. h[t] = g[t] BY <2>4, <2>5, OneSolution
  <2> QED BY <2>2, <2>6, <1>1
<1>2. ASSUME NEW t \in Z
      PROVE  /\ f[t] = WholeOf(Subs(f, t), t)
             /\ \A i \in DOMAIN Subtypes[t] : Subtypes[t][i] \in Z
  <2>1. PICK g : Solution(t, g) OBVIOUS
  <2>2. PICK D : t \in D /\ Down(D) /\ Solves(g, D) BY <2>1 DEF Solution
  <2>3. \A u \in D : Solution(u, g) /\ u \in Types BY <2>2 DEF Solution, Down
  <2>4. \A u \in D : f[u] = g[u] /\ u \in Z BY <2>3, <1>1
  <2>5. \A i \in DOMAIN Subtypes[t] : Subtypes[t][i] \in D BY <2>2 DEF Down
  <2> HIDE DEF f, Z
  <2>6. Subs(f, t) = Subs(g, t)
    <3>1. \A i \in DOMAIN Subtypes[t] : f[Subtypes[t][i]] = g[Subtypes[t][i]]
      BY <2>4, <2>5
    <3> QED BY <3>1, SameSubs
  <2>7. f[t] = g[t] BY <2>2, <2>4
  <2>8. g[t] = WholeOf(Subs(g, t), t) BY <2>2 DEF Solves
  <2> QED BY <2>4, <2>5, <2>6, <2>7, <2>8
<1>3. Types \subseteq Z
  <2> DEFINE R == Types \ Z
  <2> SUFFICES ASSUME R # {} PROVE FALSE OBVIOUS
  <2>1. R \subseteq Types OBVIOUS
  <2> HIDE DEF R, f
  <2>2. PICK t \in R : \A i \in DOMAIN Subtypes[t] : Subtypes[t][i] \notin R
    BY <2>1, LeastType
  <2>3. t \in Types /\ t \notin Z BY DEF R
  <2>4. \A i \in DOMAIN Subtypes[t] : Subtypes[t][i] \in Types
    BY <2>3, TypesAssumption
  <2>5. \A i \in DOMAIN Subtypes[t] : Subtypes[t][i] \in Z /\ Subtypes[t][i] # t
    BY <2>2, <2>3, <2>4 DEF R
  <2> DEFINE h == [u \in Types |-> IF u = t THEN WholeOf(Subs(f, t), t) ELSE f[u]]
             D == Z \cup {t}
  <2>6. \A u \in Z : h[u] = f[u] /\ u \in Types BY <2>3
  <2>7. h[t] = WholeOf(Subs(f, t), t) BY <2>3
  <2> HIDE DEF h, Z
  <2>8. Subs(h, t) = Subs(f, t) BY <2>5, <2>6, SameSubs
  <2>9. ASSUME NEW u \in Z PROVE h[u] = WholeOf(Subs(h, u), u)
    <3>1. f[u] = WholeOf(Subs(f, u), u)
          /\ \A i \in DOMAIN Subtypes[u] : Subtypes[u][i] \in Z
      BY <1>2
    <3>2. Subs(h, u) = Subs(f, u)
      <4>1. \A i \in DOMAIN Subtypes[u] : h[Subtypes[u][i]] = f[Subtypes[u][i]]
        BY <3>1, <2>6
      <4> QED BY <4>1, SameSubs
    <3> QED BY <2>6, <3>1, <3>2
  <2>10. Solves(h, D) BY <2>7, <2>8, <2>9 DEF Solves
  <2>11. Down(D) BY <1>2, <2>3, <2>5, <2>6 DEF Down
  <2>12. Solution(t, h) BY <2>10, <2>11 DEF Solution
  <2> QED BY <2>3, <2>12 DEF Z
<1>4. \A t \in Types : f[t] = WholeOf(Subs(f, t), t) BY <1>2, <1>3
<1>5. f = [t \in Types |-> f[t]] OBVIOUS
<1> HIDE DEF f
<1>6. f = [t \in Types |-> WholeOf(Subs(f, t), t)] BY <1>4, <1>5
<1> QED BY <1>6

(* Each of them is what its definition says.                               *)
LEMMA RealDefined ==
  \A t \in Types : Real[t] = IF Kind[t] = "alias" THEN Real[Subtypes[t][1]] ELSE t
<1> DEFINE Body(f, t) == IF Kind[t] = "alias" THEN f[Subtypes[t][1]] ELSE t
           P(f) == f = [t \in Types |-> Body(f, t)]
<1>1. PICK F : F = [t \in Types |-> WholeOf(Subs(F, t), t)] BY WholeDefined
<1> DEFINE f == [t \in Types |-> F[t].real]
<1>2. ASSUME NEW t \in Types PROVE f[t] = Body(f, t)
  <2> DEFINE of == Subs(F, t)
             here == [i \in DOMAIN of |-> of[i].real]
  <2>1. F[t] = WholeOf(of, t) BY <1>1
  <2>2. F[t].real = RealOf(here, t) BY <2>1 DEF WholeOf
  <2>3. Kind[t] = "alias" => here[1] = f[Subtypes[t][1]]
    BY TypesAssumption, PartsAssumption DEF Subs
  <2> QED BY <2>2, <2>3 DEF RealOf
<1>3. f = [t \in Types |-> f[t]] OBVIOUS
<1> HIDE DEF f
<1>4. P(f) BY <1>2, <1>3
<1>5. P(CHOOSE g : P(g)) BY <1>4, Zenon
<1>6. Real = CHOOSE g : P(g) BY Zenon DEF Real
<1>7. P(Real) BY <1>5, <1>6, Zenon
<1> QED BY <1>7

LEMMA ValuesDefined == \A t \in Types : Values[t] = ValuesOf(Subs(Values, t), t)
<1> DEFINE P(f) == f = [t \in Types |->
                          ValuesOf([i \in DOMAIN Subtypes[t] |-> f[Subtypes[t][i]]], t)]
<1>1. PICK F : F = [t \in Types |-> WholeOf(Subs(F, t), t)] BY WholeDefined
<1> DEFINE f == [t \in Types |-> F[t].values]
<1>2. ASSUME NEW t \in Types PROVE f[t] = ValuesOf(Subs(f, t), t)
  <2> DEFINE of == Subs(F, t)
             here == [i \in DOMAIN of |-> of[i].values]
  <2>1. F[t] = WholeOf(of, t) BY <1>1
  <2>2. F[t].values = ValuesOf(here, t) BY <2>1 DEF WholeOf
  <2>3. here = Subs(f, t) BY TypesAssumption DEF Subs
  <2> QED BY <2>2, <2>3
<1>3. f = [t \in Types |-> f[t]] OBVIOUS
<1> HIDE DEF f
<1>4. P(f) BY <1>2, <1>3 DEF Subs
<1>5. P(CHOOSE g : P(g)) BY <1>4, Zenon
<1>6. Values = CHOOSE g : P(g) BY Zenon DEF Values
<1>7. P(Values) BY <1>5, <1>6, Zenon
<1> QED BY <1>7 DEF Subs

LEMMA DefaultDefined == \A t \in Types : Default[t] = DefaultOf(Subs(Default, t), t)
<1> DEFINE P(f) == f = [t \in Types |->
                          DefaultOf([i \in DOMAIN Subtypes[t] |-> f[Subtypes[t][i]]], t)]
<1>1. PICK F : F = [t \in Types |-> WholeOf(Subs(F, t), t)] BY WholeDefined
<1> DEFINE f == [t \in Types |-> F[t].default]
<1>2. ASSUME NEW t \in Types PROVE f[t] = DefaultOf(Subs(f, t), t)
  <2> DEFINE of == Subs(F, t)
             here == [i \in DOMAIN of |-> of[i].default]
  <2>1. F[t] = WholeOf(of, t) BY <1>1
  <2>2. F[t].default = DefaultOf(here, t) BY <2>1 DEF WholeOf
  <2>3. here = Subs(f, t) BY TypesAssumption DEF Subs
  <2> QED BY <2>2, <2>3
<1>3. f = [t \in Types |-> f[t]] OBVIOUS
<1> HIDE DEF f
<1>4. P(f) BY <1>2, <1>3 DEF Subs
<1>5. P(CHOOSE g : P(g)) BY <1>4, Zenon
<1>6. Default = CHOOSE g : P(g) BY Zenon DEF Default
<1>7. P(Default) BY <1>5, <1>6, Zenon
<1> QED BY <1>7 DEF Subs

LEMMA CopyDefined == \A t \in Types : Copy[t] = CopyOf(Subs(Copy, t), t)
<1> DEFINE P(f) == f = [t \in Types |->
                          CopyOf([i \in DOMAIN Subtypes[t] |-> f[Subtypes[t][i]]], t)]
<1>1. PICK F : F = [t \in Types |-> WholeOf(Subs(F, t), t)] BY WholeDefined
<1> DEFINE f == [t \in Types |-> F[t].copy]
<1>2. ASSUME NEW t \in Types PROVE f[t] = CopyOf(Subs(f, t), t)
  <2> DEFINE of == Subs(F, t)
             here == [i \in DOMAIN of |-> of[i].copy]
  <2>1. F[t] = WholeOf(of, t) BY <1>1
  <2>2. F[t].copy = CopyOf(here, t) BY <2>1 DEF WholeOf
  <2>3. here = Subs(f, t) BY TypesAssumption DEF Subs
  <2> QED BY <2>2, <2>3
<1>3. f = [t \in Types |-> f[t]] OBVIOUS
<1> HIDE DEF f
<1>4. P(f) BY <1>2, <1>3 DEF Subs
<1>5. P(CHOOSE g : P(g)) BY <1>4, Zenon
<1>6. Copy = CHOOSE g : P(g) BY Zenon DEF Copy
<1>7. P(Copy) BY <1>5, <1>6, Zenon
<1> QED BY <1>7 DEF Subs

-----------------------------------------------------------------------------
(***************************************************************************)
(* The values of constructed types, as sequences of parts of a number that *)
(* the type allows (Widths) and of types that it names (PartType).         *)
(***************************************************************************)
(* What stands behind the names of a type has the values of the type.      *)
LEMMA RealRight ==
  \A t \in Types : /\ Real[t] \in Types /\ Kind[Real[t]] # "alias"
                   /\ Real[Real[t]] = Real[t] /\ Values[Real[t]] = Values[t]
<1> DEFINE good(t) == /\ Real[t] \in Types /\ Kind[Real[t]] # "alias"
                      /\ Real[Real[t]] = Real[t] /\ Values[Real[t]] = Values[t]
           S == {t \in Types : ~ good(t)}
<1> SUFFICES ASSUME S # {} PROVE FALSE OBVIOUS
<1>1. S \subseteq Types OBVIOUS
<1> HIDE DEF S
<1>2. PICK t \in S : \A i \in DOMAIN Subtypes[t] : Subtypes[t][i] \notin S
  BY <1>1, LeastType
<1> USE DEF S
<1>3. t \in Types /\ ~ good(t) OBVIOUS
<1>4. CASE Kind[t] # "alias"
  <2>1. Real[t] = t BY <1>3, <1>4, RealDefined
  <2> QED BY <1>3, <1>4, <2>1
<1>5. CASE Kind[t] = "alias"
  <2> DEFINE u == Subtypes[t][1]
  <2>1. 1 \in DOMAIN Subtypes[t] /\ u \in Types
    <3>1. Subtypes[t] \in Seq(Types) /\ Len(Subtypes[t]) = 1
      BY <1>3, <1>5, TypesAssumption, PartsAssumption
    <3> QED BY <3>1
  <2>2. good(u) BY <1>2, <2>1
  <2>3. Real[t] = Real[u] BY <1>3, <1>5, RealDefined
  <2>4. Values[t] = Values[u]
    <3>1. Values[t] = ValuesOf(Subs(Values, t), t) BY <1>3, ValuesDefined
    <3>2. Subs(Values, t)[1] = Values[u] BY <2>1 DEF Subs
    <3> QED BY <1>5, <3>1, <3>2 DEF ValuesOf
  <2> HIDE DEF u
  <2> QED BY <1>3, <2>2, <2>3, <2>4
<1> QED BY <1>4, <1>5

Composite == {"struct", "except", "sequence", "array"}

(* How many parts a value may have, as the sets of their positions.        *)
Widths(t) ==
  IF Kind[t] = "sequence" THEN {1..k : k \in 0..MaxLen}
  ELSE IF Kind[t] = "array" THEN {1..Length[t]} ELSE {DOMAIN Subtypes[t]}
Bounds(t) == IF Kind[t] = "sequence" THEN 0..MaxLen ELSE {0}

WellMade(t, n, ps) ==
  /\ n \in Bounds(t) /\ DOMAIN ps \in Widths(t)
  /\ ps = [j \in DOMAIN ps |-> ps[j]]
  /\ \A j \in DOMAIN ps : ps[j] \in Values[PartType(t, j - 1)]

LEMMA PartsIs ==
  ASSUME NEW n, NEW ps
  PROVE  Parts(n, ps).max = n /\ Parts(n, ps).parts = ps /\ Parts(n, ps).leaf = None
BY DEF Parts

LEMMA PartsSame ==
  ASSUME NEW n, NEW ps, NEW m, NEW qs
  PROVE  Parts(n, ps) = Parts(m, qs) <=> n = m /\ ps = qs
BY DEF Parts

LEMMA PartTypes ==
  ASSUME NEW t \in Types, Kind[t] \in Composite
  PROVE  /\ Real[t] = t
         /\ Kind[t] \in {"sequence", "array"} =>
              \A i : PartType(t, i) = Subtypes[t][1] /\ PartType(t, i) \in Types
         /\ Kind[t] \in {"struct", "except"} =>
              \A j \in DOMAIN Subtypes[t] :
                PartType(t, j - 1) = Subtypes[t][j] /\ PartType(t, j - 1) \in Types
<1>1. Real[t] = t BY RealDefined DEF Composite
<1>2. CASE Kind[t] \in {"sequence", "array"}
  <2>1. 1 \in DOMAIN Subtypes[t] BY <1>2, TypesAssumption, PartsAssumption
  <2> QED BY <1>1, <1>2, <2>1, TypesAssumption DEF PartType, RealKind
<1>3. CASE Kind[t] \in {"struct", "except"}
  <2>1. DOMAIN Subtypes[t] \subseteq Nat BY TypesAssumption
  <2>2. \A j \in Nat : j - 1 + 1 = j OBVIOUS
  <2> QED BY <1>1, <1>3, <2>1, <2>2, TypesAssumption DEF PartType, RealKind
<1> QED BY <1>1, <1>2, <1>3 DEF Composite

LEMMA ValuesComposed ==
  ASSUME NEW t \in Types, Kind[t] \in Composite
  PROVE  /\ Kind[t] = "sequence" =>
              Values[t] = {Parts(n, ps) : n \in 0..MaxLen,
                             ps \in UNION {[1..k -> Values[Subtypes[t][1]]] : k \in 0..MaxLen}}
         /\ Kind[t] = "array" =>
              Values[t] = {Parts(0, ps) : ps \in [1..Length[t] -> Values[Subtypes[t][1]]]}
         /\ Kind[t] \in {"struct", "except"} =>
              Values[t] = {Parts(0, ps) :
                ps \in {f \in [DOMAIN Subtypes[t] -> UNION {Subs(Values, t)[i] : i \in DOMAIN Subtypes[t]}] :
                         \A i \in DOMAIN Subtypes[t] : f[i] \in Values[Subtypes[t][i]]}}
<1> DEFINE of == Subs(Values, t)
<1>1. Values[t] = ValuesOf(of, t) BY ValuesDefined
<1>2. DOMAIN of = DOMAIN Subtypes[t] /\ \A i \in DOMAIN Subtypes[t] : of[i] = Values[Subtypes[t][i]]
  BY DEF Subs
<1>3. ASSUME Kind[t] \in {"sequence", "array"} PROVE of[1] = Values[Subtypes[t][1]]
  <2>1. Subtypes[t] \in Seq(Types) /\ Len(Subtypes[t]) = 1
    BY <1>3, TypesAssumption, PartsAssumption
  <2> QED BY <1>2, <2>1
<1> HIDE DEF of
<1>4. CASE Kind[t] = "sequence"
  BY <1>1, <1>3, <1>4 DEF ValuesOf, Tuples
<1>5. CASE Kind[t] = "array"
  BY <1>1, <1>3, <1>5 DEF ValuesOf, Tuples
<1>6. CASE Kind[t] \in {"struct", "except"}
  <2>1. Values[t] = {Parts(0, ps) : ps \in {f \in [DOMAIN of -> UNION {of[i] : i \in DOMAIN of}] :
                                   \A i \in DOMAIN of : f[i] \in of[i]}}
    BY <1>1, <1>6 DEF ValuesOf
  <2>2. {f \in [DOMAIN of -> UNION {of[i] : i \in DOMAIN of}] :
                                   \A i \in DOMAIN of : f[i] \in of[i]} =
        {f \in [DOMAIN Subtypes[t] -> UNION {of[i] : i \in DOMAIN Subtypes[t]}] :
                         \A i \in DOMAIN Subtypes[t] : f[i] \in Values[Subtypes[t][i]]}
    BY <1>2
  <2> QED BY <1>6, <2>1, <2>2 DEF of
<1> QED BY <1>4, <1>5, <1>6 DEF Composite

LEMMA Composing ==
  ASSUME NEW t \in Types, Kind[t] \in Composite, NEW n, NEW ps, WellMade(t, n, ps)
  PROVE  Parts(n, ps) \in Values[t]
<1> USE DEF WellMade
<1>1. CASE Kind[t] = "sequence"
  <2>1. PICK k \in 0..MaxLen : DOMAIN ps = 1..k BY <1>1 DEF Widths
  <2>2. ps \in [1..k -> Values[Subtypes[t][1]]] BY <1>1, <2>1, PartTypes
  <2>3. n \in 0..MaxLen BY <1>1 DEF Bounds
  <2> QED BY <1>1, <2>2, <2>3, ValuesComposed
<1>2. CASE Kind[t] = "array"
  <2>1. DOMAIN ps = 1..Length[t] /\ n = 0 BY <1>2 DEF Widths, Bounds
  <2>2. ps \in [1..Length[t] -> Values[Subtypes[t][1]]] BY <1>2, <2>1, PartTypes
  <2> QED BY <1>2, <2>1, <2>2, ValuesComposed
<1>3. CASE Kind[t] \in {"struct", "except"}
  <2>1. DOMAIN ps = DOMAIN Subtypes[t] /\ n = 0 BY <1>3 DEF Widths, Bounds
  <2>2. \A i \in DOMAIN Subtypes[t] : ps[i] \in Values[Subtypes[t][i]]
    BY <1>3, <2>1, PartTypes
  <2>3. \A i \in DOMAIN Subtypes[t] : Subs(Values, t)[i] = Values[Subtypes[t][i]] BY DEF Subs
  <2>4. ps \in [DOMAIN Subtypes[t] -> UNION {Subs(Values, t)[i] : i \in DOMAIN Subtypes[t]}]
    BY <2>1, <2>2, <2>3
  <2> QED BY <1>3, <2>1, <2>2, <2>4, ValuesComposed
<1> QED BY <1>1, <1>2, <1>3 DEF Composite

LEMMA Composed ==
  ASSUME NEW t \in Types, Kind[t] \in Composite, NEW v \in Values[t]
  PROVE  v = Parts(v.max, v.parts) /\ WellMade(t, v.max, v.parts)
<1> SUFFICES \E n, ps : v = Parts(n, ps) /\ WellMade(t, n, ps)
  BY PartsIs
<1>1. CASE Kind[t] = "sequence"
  <2>1. PICK n \in 0..MaxLen, ps \in UNION {[1..k -> Values[Subtypes[t][1]]] : k \in 0..MaxLen} :
          v = Parts(n, ps)
    BY <1>1, ValuesComposed
  <2>2. PICK k \in 0..MaxLen : ps \in [1..k -> Values[Subtypes[t][1]]] OBVIOUS
  <2>3. WellMade(t, n, ps) BY <1>1, <2>2, PartTypes DEF WellMade, Bounds, Widths
  <2> QED BY <2>1, <2>3
<1>2. CASE Kind[t] = "array"
  <2>1. PICK ps \in [1..Length[t] -> Values[Subtypes[t][1]]] : v = Parts(0, ps)
    BY <1>2, ValuesComposed
  <2>2. WellMade(t, 0, ps) BY <1>2, PartTypes DEF WellMade, Bounds, Widths
  <2> QED BY <2>1, <2>2
<1>3. CASE Kind[t] \in {"struct", "except"}
  <2> DEFINE U == UNION {Subs(Values, t)[i] : i \in DOMAIN Subtypes[t]}
  <2>1. PICK ps : /\ ps \in [DOMAIN Subtypes[t] -> U] /\ v = Parts(0, ps)
                  /\ \A i \in DOMAIN Subtypes[t] : ps[i] \in Values[Subtypes[t][i]]
    BY <1>3, ValuesComposed
  <2> HIDE DEF U
  <2>2. WellMade(t, 0, ps) BY <1>3, <2>1, PartTypes DEF WellMade, Bounds, Widths
  <2> QED BY <2>1, <2>2
<1> QED BY <1>1, <1>2, <1>3 DEF Composite

-----------------------------------------------------------------------------
(***************************************************************************)
(* Default values and copies are values of their types.                    *)
(***************************************************************************)
LEMMA SimpleValues ==
  ASSUME NEW t \in Types
  PROVE  /\ Kind[t] = "single" => Values[t] = {Leaf(x) : x \in Data}
         /\ Kind[t] = "enum" => Values[t] = {Leaf(x) : x \in 0..Length[t] - 1}
         /\ Kind[t] = "alias" =>
              /\ 1 \in DOMAIN Subtypes[t] /\ Subtypes[t][1] \in Types
              /\ Values[t] = Values[Subtypes[t][1]]
         /\ Kind[t] = "union" =>
              /\ 1 \in DOMAIN Subtypes[t] /\ 2 \in DOMAIN Subtypes[t]
              /\ \A d \in Values[Subtypes[t][1]], b \in Values[Subtypes[t][2]] :
                   Parts(0, <<d, b>>) \in Values[t]
<1> DEFINE of == Subs(Values, t)
<1>1. Values[t] = ValuesOf(of, t) BY ValuesDefined
<1>2. DOMAIN of = DOMAIN Subtypes[t] /\ \A i \in DOMAIN Subtypes[t] : of[i] = Values[Subtypes[t][i]]
  BY DEF Subs
<1> HIDE DEF of
<1>3. Kind[t] = "single" => Values[t] = {Leaf(x) : x \in Data} BY <1>1 DEF ValuesOf
<1>4. Kind[t] = "enum" => Values[t] = {Leaf(x) : x \in 0..Length[t] - 1} BY <1>1 DEF ValuesOf
<1>5. ASSUME Kind[t] = "alias"
      PROVE  /\ 1 \in DOMAIN Subtypes[t] /\ Subtypes[t][1] \in Types
             /\ Values[t] = Values[Subtypes[t][1]]
  <2>1. Subtypes[t] \in Seq(Types) /\ Len(Subtypes[t]) = 1
    BY <1>5, TypesAssumption, PartsAssumption
  <2>2. 1 \in DOMAIN Subtypes[t] /\ Subtypes[t][1] \in Types BY <2>1
  <2> QED BY <1>1, <1>2, <1>5, <2>2 DEF ValuesOf
<1>6. ASSUME Kind[t] = "union"
      PROVE  /\ 1 \in DOMAIN Subtypes[t] /\ 2 \in DOMAIN Subtypes[t]
             /\ \A d \in Values[Subtypes[t][1]], b \in Values[Subtypes[t][2]] :
                  Parts(0, <<d, b>>) \in Values[t]
  <2>1. Subtypes[t] \in Seq(Types) /\ Len(Subtypes[t]) >= 2
    BY <1>6, TypesAssumption, PartsAssumption
  <2>2. 1 \in DOMAIN Subtypes[t] /\ 2 \in DOMAIN Subtypes[t] BY <2>1
  <2>3. Values[t] = {Parts(0, <<d, b>>) : d \in of[1], b \in UNION {of[i] : i \in DOMAIN of \ {1}}}
    BY <1>1, <1>6 DEF ValuesOf
  <2>4. of[1] = Values[Subtypes[t][1]]
        /\ Values[Subtypes[t][2]] \subseteq UNION {of[i] : i \in DOMAIN of \ {1}}
    BY <1>2, <2>2
  <2> QED BY <2>2, <2>3, <2>4
<1> QED BY <1>3, <1>4, <1>5, <1>6

LEMMA DefaultTyped == \A t \in Types : Default[t] \in Values[t]
<1> DEFINE S == {t \in Types : Default[t] \notin Values[t]}
<1> SUFFICES ASSUME S # {} PROVE FALSE OBVIOUS
<1>1. S \subseteq Types OBVIOUS
<1> HIDE DEF S
<1>2. PICK t \in S : \A i \in DOMAIN Subtypes[t] : Subtypes[t][i] \notin S
  BY <1>1, LeastType
<1>3. t \in Types /\ Default[t] \notin Values[t] BY DEF S
<1> DEFINE of == Subs(Default, t)
<1>4. Default[t] = DefaultOf(of, t) BY <1>3, DefaultDefined
<1>5. Subtypes[t] \in Seq(Types) BY <1>3, TypesAssumption
<1>6. /\ of = [i \in DOMAIN Subtypes[t] |-> of[i]]
      /\ \A i \in DOMAIN Subtypes[t] : of[i] \in Values[Subtypes[t][i]] /\ Subtypes[t][i] \in Types
  <2>1. \A i \in DOMAIN Subtypes[t] : Subtypes[t][i] \in Types BY <1>5
  <2> QED BY <1>2, <2>1 DEF Subs, S
<1> HIDE DEF of
<1>7. CASE Kind[t] = "single"
  BY <1>3, <1>4, <1>7, SimpleValues, TypesAssumption DEF DefaultOf
<1>8. CASE Kind[t] = "enum"
  <2>1. 0 \in 0..Length[t] - 1 BY <1>3, <1>8, TypesAssumption, PartsAssumption
  <2> QED BY <1>3, <1>4, <1>8, <2>1, SimpleValues DEF DefaultOf
<1>9. CASE Kind[t] = "alias"
  BY <1>3, <1>4, <1>6, <1>9, SimpleValues DEF DefaultOf
<1>10. CASE Kind[t] = "union"
  BY <1>3, <1>4, <1>6, <1>10, SimpleValues DEF DefaultOf
<1>11. CASE Kind[t] = "sequence"
  <2>1. Length[t] \in 0..MaxLen BY <1>3, <1>11, TypesAssumption, PartsAssumption, MaxAssumption
  <2>2. Length[t] \in Bounds(t) BY <2>1, <1>11 DEF Bounds
  <2>3. DOMAIN << >> \in Widths(t)
    <3>1. DOMAIN << >> = 1..0 OBVIOUS
    <3> QED BY <1>11, <3>1, MaxAssumption DEF Widths
  <2>4. WellMade(t, Length[t], << >>) BY <2>2, <2>3 DEF WellMade
  <2> QED BY <1>3, <1>4, <1>11, <2>4, Composing DEF DefaultOf, Composite
<1>12. CASE Kind[t] = "array"
  <2> DEFINE ps == [i \in 1..Length[t] |-> of[1]]
  <2>1. Len(Subtypes[t]) = 1 BY <1>3, <1>12, PartsAssumption
  <2>2. of[1] \in Values[Subtypes[t][1]] BY <1>5, <1>6, <2>1
  <2>3. WellMade(t, 0, ps)
    BY <1>3, <1>12, <2>2, PartTypes DEF WellMade, Bounds, Widths, Composite
  <2> QED BY <1>3, <1>4, <1>12, <2>3, Composing DEF DefaultOf, Composite
<1>13. CASE Kind[t] \in {"struct", "except"}
  <2>1. WellMade(t, 0, of)
    BY <1>3, <1>6, <1>13, PartTypes DEF WellMade, Bounds, Widths, Composite
  <2>2. Default[t] = Parts(0, of) BY <1>4, <1>13 DEF DefaultOf
  <2> QED BY <1>3, <1>13, <2>1, <2>2, Composing DEF Composite
<1> QED BY <1>3, <1>7, <1>8, <1>9, <1>10, <1>11, <1>12, <1>13, TypesAssumption DEF Kinds

LEMMA CopyTyped == \A t \in Types : \A v \in Values[t] : Copy[t][v] \in Values[t]
<1> DEFINE S == {t \in Types : \E v \in Values[t] : Copy[t][v] \notin Values[t]}
<1> SUFFICES ASSUME S # {} PROVE FALSE OBVIOUS
<1>1. S \subseteq Types OBVIOUS
<1> HIDE DEF S
<1>2. PICK t \in S : \A i \in DOMAIN Subtypes[t] : Subtypes[t][i] \notin S
  BY <1>1, LeastType
<1>3. PICK v \in Values[t] : t \in Types /\ Copy[t][v] \notin Values[t] BY DEF S
<1> DEFINE of == Subs(Copy, t)
<1>4. Copy[t] = CopyOf(of, t) BY <1>3, CopyDefined
<1>5. Subtypes[t] \in Seq(Types) BY <1>3, TypesAssumption
<1>6. \A i \in DOMAIN Subtypes[t] :
        \A w \in Values[Subtypes[t][i]] : of[i][w] \in Values[Subtypes[t][i]]
  <2>1. \A i \in DOMAIN Subtypes[t] : Subtypes[t][i] \in Types BY <1>5
  <2> QED BY <1>2, <2>1 DEF Subs, S
<1> HIDE DEF of
<1>7. CASE Kind[t] \in {"single", "enum", "union"}
  BY <1>3, <1>4, <1>7 DEF CopyOf
<1>8. CASE Kind[t] = "alias"
  <2>1. Copy[t][v] = of[1][v] BY <1>3, <1>4, <1>8 DEF CopyOf
  <2> QED BY <1>3, <1>6, <1>8, <2>1, SimpleValues
<1>9. CASE Kind[t] \in Composite
  <2>1. v = Parts(v.max, v.parts) /\ WellMade(t, v.max, v.parts) BY <1>3, <1>9, Composed
  <2>2. CASE Kind[t] = "sequence"
    <3> DEFINE ps == [i \in DOMAIN v.parts |-> of[1][v.parts[i]]]
    <3>1. Copy[t][v] = Parts(Len(v.parts), ps) BY <1>3, <1>4, <2>2 DEF CopyOf
    <3>2. PICK k \in 0..MaxLen : DOMAIN v.parts = 1..k BY <2>1, <2>2 DEF WellMade, Widths
    <3>3. Len(v.parts) = k
      <4>1. v.parts \in Seq({v.parts[j] : j \in 1..k}) BY <2>1, <3>2, MaxAssumption DEF WellMade
      <4> QED BY <3>2, <4>1, MaxAssumption
    <3>4. 1 \in DOMAIN Subtypes[t] BY <1>3, <1>5, <2>2, PartsAssumption
    <3>5. WellMade(t, k, ps)
      <4>1. \A j \in DOMAIN ps : ps[j] \in Values[PartType(t, j - 1)]
        BY <1>3, <1>6, <1>9, <2>1, <2>2, <3>4, PartTypes DEF WellMade
      <4> QED BY <2>2, <3>2, <4>1 DEF WellMade, Bounds, Widths
    <3> QED BY <1>3, <1>9, <3>1, <3>3, <3>5, Composing
  <2>3. CASE Kind[t] = "array"
    <3> DEFINE ps == [i \in DOMAIN v.parts |-> of[1][v.parts[i]]]
    <3>1. Copy[t][v] = Parts(0, ps) BY <1>3, <1>4, <2>3 DEF CopyOf
    <3>2. 1 \in DOMAIN Subtypes[t] BY <1>3, <1>5, <2>3, PartsAssumption
    <3>3. WellMade(t, 0, ps)
      <4>1. \A j \in DOMAIN ps : ps[j] \in Values[PartType(t, j - 1)]
        BY <1>3, <1>6, <1>9, <2>1, <2>3, <3>2, PartTypes DEF WellMade
      <4> QED BY <2>1, <2>3, <4>1 DEF WellMade, Bounds, Widths
    <3> QED BY <1>3, <1>9, <3>1, <3>3, Composing
  <2>4. CASE Kind[t] \in {"struct", "except"}
    <3> DEFINE ps == [i \in DOMAIN v.parts |-> of[i][v.parts[i]]]
    <3>1. Copy[t][v] = Parts(0, ps) BY <1>3, <1>4, <2>4 DEF CopyOf
    <3>2. DOMAIN v.parts = DOMAIN Subtypes[t] BY <2>1, <2>4 DEF WellMade, Widths
    <3>3. WellMade(t, 0, ps)
      <4>1. \A j \in DOMAIN ps : ps[j] \in Values[PartType(t, j - 1)]
        BY <1>3, <1>6, <1>9, <2>1, <2>4, <3>2, PartTypes DEF WellMade
      <4> QED BY <2>1, <2>4, <4>1 DEF WellMade, Bounds, Widths
    <3> QED BY <1>3, <1>9, <3>1, <3>3, Composing
  <2> QED BY <1>9, <2>2, <2>3, <2>4 DEF Composite
<1> QED BY <1>3, <1>7, <1>8, <1>9, TypesAssumption DEF Kinds, Composite

(* A copy has nothing that a copy of it would not have.                    *)
LEMMA CopyAgain ==
  \A t \in Types : \A v \in Values[t] : Copy[t][Copy[t][v]] = Copy[t][v]
<1> DEFINE S == {t \in Types : \E v \in Values[t] : Copy[t][Copy[t][v]] # Copy[t][v]}
<1> SUFFICES ASSUME S # {} PROVE FALSE OBVIOUS
<1>1. S \subseteq Types OBVIOUS
<1> HIDE DEF S
<1>2. PICK t \in S : \A i \in DOMAIN Subtypes[t] : Subtypes[t][i] \notin S
  BY <1>1, LeastType
<1>3. PICK v \in Values[t] : t \in Types /\ Copy[t][Copy[t][v]] # Copy[t][v] BY DEF S
<1> DEFINE of == Subs(Copy, t)
           c == Copy[t][v]
<1>4. Copy[t] = CopyOf(of, t) BY <1>3, CopyDefined
<1>5. Subtypes[t] \in Seq(Types) BY <1>3, TypesAssumption
<1>6. \A i \in DOMAIN Subtypes[t] :
        \A w \in Values[Subtypes[t][i]] : of[i][of[i][w]] = of[i][w]
  <2>1. \A i \in DOMAIN Subtypes[t] : Subtypes[t][i] \in Types BY <1>5
  <2> QED BY <1>2, <2>1 DEF Subs, S
<1>7. c \in Values[t] BY <1>3, CopyTyped
<1> HIDE DEF of
<1>8. CASE Kind[t] \in {"single", "enum", "union"}
  BY <1>3, <1>4, <1>8 DEF CopyOf
<1>9. CASE Kind[t] = "alias"
  <2>1. \A w \in Values[t] : Copy[t][w] = of[1][w] BY <1>3, <1>4, <1>9 DEF CopyOf
  <2>2. 1 \in DOMAIN Subtypes[t] /\ Values[t] = Values[Subtypes[t][1]]
    BY <1>3, <1>9, SimpleValues
  <2>3. c = of[1][v] /\ Copy[t][c] = of[1][c] BY <1>3, <1>7, <2>1
  <2> QED BY <1>3, <1>6, <2>2, <2>3
<1>10. CASE Kind[t] \in Composite
  <2>1. v = Parts(v.max, v.parts) /\ WellMade(t, v.max, v.parts)
    BY <1>3, <1>10, Composed
  <2>2. CASE Kind[t] = "sequence"
    <3> DEFINE ps == [i \in DOMAIN v.parts |-> of[1][v.parts[i]]]
               qs == [i \in DOMAIN ps |-> of[1][ps[i]]]
    <3>1. c = Parts(Len(v.parts), ps) BY <1>3, <1>4, <2>2 DEF CopyOf
    <3>2. c.parts = ps BY <3>1, PartsIs
    <3>10. \A w \in Values[t] :
             Copy[t][w] = Parts(Len(w.parts), [i \in DOMAIN w.parts |-> of[1][w.parts[i]]])
      BY <1>4, <2>2 DEF CopyOf
    <3>11. Copy[t][c] = Parts(Len(c.parts), [i \in DOMAIN c.parts |-> of[1][c.parts[i]]])
      BY <1>7, <3>10
    <3>3. Copy[t][c] = Parts(Len(ps), qs) BY <3>2, <3>11
    <3>4. 1 \in DOMAIN Subtypes[t] BY <1>3, <1>5, <2>2, PartsAssumption
    <3>5. \A j \in DOMAIN v.parts : v.parts[j] \in Values[Subtypes[t][1]]
      BY <1>3, <1>10, <2>1, <2>2, PartTypes DEF WellMade
    <3>6. \A j \in DOMAIN v.parts : of[1][ps[j]] = ps[j] BY <1>6, <3>4, <3>5
    <3>7. qs = ps BY <3>6
    <3>8. PICK k \in 0..MaxLen : DOMAIN v.parts = 1..k
      BY <2>1, <2>2 DEF WellMade, Widths
    <3>9. Len(v.parts) = k /\ Len(ps) = k
      <4>1. v.parts \in Seq({v.parts[j] : j \in 1..k})
        BY <2>1, <3>8, MaxAssumption DEF WellMade
      <4>2. DOMAIN ps = 1..k /\ ps = [j \in 1..k |-> ps[j]] BY <3>8
      <4> HIDE DEF ps
      <4>3. ps \in Seq({ps[j] : j \in 1..k}) BY <4>2, MaxAssumption
      <4> QED BY <3>8, <4>1, <4>2, <4>3, MaxAssumption
    <3> QED BY <1>3, <3>1, <3>3, <3>7, <3>9
  <2>3. CASE Kind[t] = "array"
    <3> DEFINE ps == [i \in DOMAIN v.parts |-> of[1][v.parts[i]]]
               qs == [i \in DOMAIN ps |-> of[1][ps[i]]]
    <3>1. c = Parts(0, ps) BY <1>3, <1>4, <2>3 DEF CopyOf
    <3>2. c.parts = ps BY <3>1, PartsIs
    <3>10. \A w \in Values[t] :
             Copy[t][w] = Parts(0, [i \in DOMAIN w.parts |-> of[1][w.parts[i]]])
      BY <1>4, <2>3 DEF CopyOf
    <3>11. Copy[t][c] = Parts(0, [i \in DOMAIN c.parts |-> of[1][c.parts[i]]])
      BY <1>7, <3>10
    <3>3. Copy[t][c] = Parts(0, qs) BY <3>2, <3>11
    <3>4. 1 \in DOMAIN Subtypes[t] BY <1>3, <1>5, <2>3, PartsAssumption
    <3>5. \A j \in DOMAIN v.parts : v.parts[j] \in Values[Subtypes[t][1]]
      BY <1>3, <1>10, <2>1, <2>3, PartTypes DEF WellMade
    <3>6. \A j \in DOMAIN v.parts : of[1][ps[j]] = ps[j] BY <1>6, <3>4, <3>5
    <3>7. qs = ps BY <3>6
    <3> QED BY <1>3, <3>1, <3>3, <3>7
  <2>4. CASE Kind[t] \in {"struct", "except"}
    <3> DEFINE ps == [i \in DOMAIN v.parts |-> of[i][v.parts[i]]]
               qs == [i \in DOMAIN ps |-> of[i][ps[i]]]
    <3>1. c = Parts(0, ps) BY <1>3, <1>4, <2>4 DEF CopyOf
    <3>2. c.parts = ps BY <3>1, PartsIs
    <3>10. \A w \in Values[t] :
             Copy[t][w] = Parts(0, [i \in DOMAIN w.parts |-> of[i][w.parts[i]]])
      BY <1>4, <2>4 DEF CopyOf
    <3>11. Copy[t][c] = Parts(0, [i \in DOMAIN c.parts |-> of[i][c.parts[i]]])
      BY <1>7, <3>10
    <3>3. Copy[t][c] = Parts(0, qs) BY <3>2, <3>11
    <3>4. DOMAIN v.parts = DOMAIN Subtypes[t] BY <2>1, <2>4 DEF WellMade, Widths
    <3>5. \A j \in DOMAIN v.parts : v.parts[j] \in Values[Subtypes[t][j]]
      BY <1>3, <1>10, <2>1, <2>4, <3>4, PartTypes DEF WellMade
    <3>6. \A j \in DOMAIN v.parts : of[j][ps[j]] = ps[j] BY <1>6, <3>4, <3>5
    <3>7. qs = ps BY <3>6
    <3> QED BY <1>3, <3>1, <3>3, <3>7
  <2> QED BY <1>10, <2>2, <2>3, <2>4 DEF Composite
<1> QED BY <1>3, <1>8, <1>9, <1>10, TypesAssumption DEF Kinds, Composite

-----------------------------------------------------------------------------
(***************************************************************************)
(* Paths.  What Along and TypesAlong are, step by step.                    *)
(***************************************************************************)
LEMMA AlongDefined ==
  ASSUME NEW v, NEW p \in Seq(Nat)
  PROVE  /\ Along(v, p) = [n \in 0..Len(p) |-> Along(v, p)[n]]
         /\ Along(v, p)[0] = v
         /\ \A n \in 1..Len(p) :
              Along(v, p)[n] = Along(v, p)[n - 1].parts[p[n] + 1]
<1> DEFINE Body(f, n) == IF n = 0 THEN v ELSE f[n - 1].parts[p[n] + 1]
           P(f) == f = [n \in 0..Len(p) |-> Body(f, n)]
           upto(f, n) == \A k \in 0..n : f[k] = Body(f, k)
           S == {n \in 0..Len(p) : ~ \E f : f = [k \in 0..Len(p) |-> f[k]] /\ upto(f, n)}
<1>1. Len(p) \in Nat OBVIOUS
<1>2. S = {}
  <2> SUFFICES ASSUME S # {} PROVE FALSE OBVIOUS
  <2>1. S \in SUBSET Nat BY <1>1
  <2> HIDE DEF S
  <2>2. PICK m \in S : \A k \in S : m <= k
    <3>1. S # {} OBVIOUS
    <3> QED BY <2>1, <3>1, LeastNumber
  <2>3. m \in 0..Len(p) /\ m \in Nat BY <2>1 DEF S
  <2>4. CASE m = 0
    <3> DEFINE g == [k \in 0..Len(p) |-> v]
    <3>1. upto(g, 0) BY <1>1
    <3>2. g = [k \in 0..Len(p) |-> g[k]] OBVIOUS
    <3> HIDE DEF g, upto
    <3> QED BY <2>2, <2>4, <3>1, <3>2 DEF S
  <2>5. CASE m # 0
    <3>1. m - 1 \in 0..Len(p) /\ m - 1 \notin S BY <1>1, <2>2, <2>3, <2>5, <2>1
    <3> HIDE DEF upto
    <3>2. PICK f : f = [k \in 0..Len(p) |-> f[k]] /\ upto(f, m - 1) BY <3>1 DEF S
    <3> USE DEF upto
    <3> DEFINE g == [k \in 0..Len(p) |-> IF k = m THEN Body(f, m) ELSE f[k]]
    <3>3. \A k \in 0..m - 1 : g[k] = f[k] BY <1>1, <2>3
    <3>4. g[m] = Body(f, m) BY <2>3
    <3>5. g = [k \in 0..Len(p) |-> g[k]] OBVIOUS
    <3> HIDE DEF g
    <3>6. Body(f, m) = Body(g, m) BY <2>3, <2>5, <3>3
    <3>7. \A k \in 0..m - 1 : Body(f, k) = Body(g, k)
      <4> SUFFICES ASSUME NEW k \in 0..m - 1 PROVE Body(f, k) = Body(g, k) OBVIOUS
      <4>1. k # 0 => k - 1 \in 0..m - 1 BY <2>3
      <4> QED BY <4>1, <3>3
    <3>8. upto(g, m)
      <4> SUFFICES ASSUME NEW k \in 0..m PROVE g[k] = Body(g, k) OBVIOUS
      <4>1. CASE k = m BY <4>1, <3>4, <3>6
      <4>2. CASE k \in 0..m - 1
        <5>1. f[k] = Body(f, k) BY <3>2, <4>2
        <5> HIDE DEF Body
        <5> QED BY <5>1, <4>2, <3>3, <3>7
      <4> QED BY <4>1, <4>2, <2>3
    <3> HIDE DEF upto
    <3> QED BY <2>2, <3>5, <3>8 DEF S
  <2> QED BY <2>4, <2>5
<1>3. Len(p) \notin S BY <1>2
<1> HIDE DEF upto
<1>4. PICK f : f = [k \in 0..Len(p) |-> f[k]] /\ upto(f, Len(p)) BY <1>1, <1>3
<1>5. P(f)
  <2>1. \A k \in 0..Len(p) : f[k] = Body(f, k) BY <1>4 DEF upto
  <2> HIDE DEF Body
  <2> QED BY <1>4, <2>1
<1>6. P(CHOOSE g : P(g)) BY <1>5, Zenon
<1>7. Along(v, p) = CHOOSE g : P(g) BY Zenon DEF Along
<1>8. P(Along(v, p)) BY <1>6, <1>7, Zenon
<1> DEFINE A == Along(v, p)
<1>9. A = [n \in 0..Len(p) |-> Body(A, n)] BY <1>8
<1> HIDE DEF A
<1>10. A[0] = v BY <1>1, <1>9
<1>12. ASSUME NEW n \in 1..Len(p) PROVE A[n] = A[n - 1].parts[p[n] + 1]
  <2>1. n \in 0..Len(p) /\ n # 0 BY <1>1
  <2>2. A[n] = Body(A, n)
    <3> HIDE DEF Body
    <3> QED BY <1>9, <2>1
  <2> QED BY <2>1, <2>2
<1>11. A = [n \in 0..Len(p) |-> A[n]] BY <1>9
<1> QED BY <1>10, <1>11, <1>12 DEF A

LEMMA TypesAlongDefined ==
  ASSUME NEW t, NEW p \in Seq(Nat)
  PROVE  /\ TypesAlong(t, p) = [n \in 0..Len(p) |-> TypesAlong(t, p)[n]]
         /\ TypesAlong(t, p)[0] = t
         /\ \A n \in 1..Len(p) :
              TypesAlong(t, p)[n] = PartType(TypesAlong(t, p)[n - 1], p[n])
<1> DEFINE Body(f, n) == IF n = 0 THEN t ELSE PartType(f[n - 1], p[n])
           P(f) == f = [n \in 0..Len(p) |-> Body(f, n)]
           upto(f, n) == \A k \in 0..n : f[k] = Body(f, k)
           S == {n \in 0..Len(p) : ~ \E f : f = [k \in 0..Len(p) |-> f[k]] /\ upto(f, n)}
<1>1. Len(p) \in Nat OBVIOUS
<1>2. S = {}
  <2> SUFFICES ASSUME S # {} PROVE FALSE OBVIOUS
  <2>1. S \in SUBSET Nat BY <1>1
  <2> HIDE DEF S
  <2>2. PICK m \in S : \A k \in S : m <= k
    <3>1. S # {} OBVIOUS
    <3> QED BY <2>1, <3>1, LeastNumber
  <2>3. m \in 0..Len(p) /\ m \in Nat BY <2>1 DEF S
  <2>4. CASE m = 0
    <3> DEFINE g == [k \in 0..Len(p) |-> t]
    <3>1. upto(g, 0) BY <1>1
    <3>2. g = [k \in 0..Len(p) |-> g[k]] OBVIOUS
    <3> HIDE DEF g, upto
    <3> QED BY <2>2, <2>4, <3>1, <3>2 DEF S
  <2>5. CASE m # 0
    <3>1. m - 1 \in 0..Len(p) /\ m - 1 \notin S BY <1>1, <2>2, <2>3, <2>5, <2>1
    <3> HIDE DEF upto
    <3>2. PICK f : f = [k \in 0..Len(p) |-> f[k]] /\ upto(f, m - 1) BY <3>1 DEF S
    <3> USE DEF upto
    <3> DEFINE g == [k \in 0..Len(p) |-> IF k = m THEN Body(f, m) ELSE f[k]]
    <3>3. \A k \in 0..m - 1 : g[k] = f[k] BY <1>1, <2>3
    <3>4. g[m] = Body(f, m) BY <2>3
    <3>5. g = [k \in 0..Len(p) |-> g[k]] OBVIOUS
    <3> HIDE DEF g
    <3>6. Body(f, m) = Body(g, m) BY <2>3, <2>5, <3>3
    <3>7. \A k \in 0..m - 1 : Body(f, k) = Body(g, k)
      <4> SUFFICES ASSUME NEW k \in 0..m - 1 PROVE Body(f, k) = Body(g, k) OBVIOUS
      <4>1. k # 0 => k - 1 \in 0..m - 1 BY <2>3
      <4> QED BY <4>1, <3>3
    <3>8. upto(g, m)
      <4> SUFFICES ASSUME NEW k \in 0..m PROVE g[k] = Body(g, k) OBVIOUS
      <4>1. CASE k = m BY <4>1, <3>4, <3>6
      <4>2. CASE k \in 0..m - 1
        <5>1. f[k] = Body(f, k) BY <3>2, <4>2
        <5> HIDE DEF Body
        <5> QED BY <5>1, <4>2, <3>3, <3>7
      <4> QED BY <4>1, <4>2, <2>3
    <3> HIDE DEF upto
    <3> QED BY <2>2, <3>5, <3>8 DEF S
  <2> QED BY <2>4, <2>5
<1>3. Len(p) \notin S BY <1>2
<1> HIDE DEF upto
<1>4. PICK f : f = [k \in 0..Len(p) |-> f[k]] /\ upto(f, Len(p)) BY <1>1, <1>3
<1>5. P(f)
  <2>1. \A k \in 0..Len(p) : f[k] = Body(f, k) BY <1>4 DEF upto
  <2> HIDE DEF Body
  <2> QED BY <1>4, <2>1
<1>6. P(CHOOSE g : P(g)) BY <1>5, Zenon
<1>7. TypesAlong(t, p) = CHOOSE g : P(g) BY Zenon DEF TypesAlong
<1>8. P(TypesAlong(t, p)) BY <1>6, <1>7, Zenon
<1> DEFINE A == TypesAlong(t, p)
<1>9. A = [n \in 0..Len(p) |-> Body(A, n)] BY <1>8
<1> HIDE DEF A
<1>10. A[0] = t BY <1>1, <1>9
<1>12. ASSUME NEW n \in 1..Len(p) PROVE A[n] = PartType(A[n - 1], p[n])
  <2>1. n \in 0..Len(p) /\ n # 0 BY <1>1
  <2>2. A[n] = Body(A, n)
    <3> HIDE DEF Body
    <3> QED BY <1>9, <2>1
  <2> QED BY <2>1, <2>2
<1>11. A = [n \in 0..Len(p) |-> A[n]] BY <1>9
<1> QED BY <1>10, <1>11, <1>12 DEF A

-----------------------------------------------------------------------------
(***************************************************************************)
(* What Put makes, from the end of the path back.                          *)
(***************************************************************************)
(* The values that Put makes on its way back, from the new one at the end  *)
(* of the path.                                                            *)
PutsBack(v, p, new, f) ==
  /\ f[Len(p)] = new
  /\ \A n \in 0..Len(p) - 1 :
       f[n] = [Along(v, p)[n] EXCEPT !.parts[p[n + 1] + 1] = f[n + 1]]

LEMMA PutDefined ==
  ASSUME NEW v, NEW p \in Seq(Nat), NEW new
  PROVE  \E f : PutsBack(v, p, new, f) /\ Put(v, p, new) = f[0]
<1> DEFINE L == Len(p)
           Body(f, n) == IF n = Len(p) THEN new
                         ELSE [Along(v, p)[n] EXCEPT !.parts[p[n + 1] + 1] = f[n + 1]]
           P(f) == f = [n \in 0..Len(p) |-> Body(f, n)]
           from(f, n) == \A k \in L - n..L : f[k] = Body(f, k)
           S == {n \in 0..L : ~ \E f : f = [k \in 0..L |-> f[k]] /\ from(f, n)}
<1>1. L \in Nat OBVIOUS
<1> HIDE DEF L
<1>2. S = {}
  <2> SUFFICES ASSUME S # {} PROVE FALSE OBVIOUS
  <2>1. S \in SUBSET Nat BY <1>1
  <2> HIDE DEF S
  <2>2. PICK m \in S : \A k \in S : m <= k BY <2>1, LeastNumber
  <2>3. m \in 0..L /\ m \in Nat BY <2>1 DEF S
  <2> DEFINE j == L - m
  <2>4. j \in 0..L BY <1>1, <2>3
  <2>5. CASE m = 0
    <3> DEFINE g == [k \in 0..L |-> new]
    <3>1. from(g, 0)
      <4>1. \A k \in L - 0..L : k = L BY <1>1
      <4>2. L \in 0..L BY <1>1
      <4> QED BY <4>1, <4>2 DEF L
    <3>2. g = [k \in 0..L |-> g[k]] OBVIOUS
    <3> HIDE DEF g, from
    <3> QED BY <2>2, <2>5, <3>1, <3>2 DEF S
  <2>6. CASE m # 0
    <3>1. m - 1 \in 0..L /\ m - 1 \notin S BY <1>1, <2>2, <2>3, <2>6, <2>1
    <3> HIDE DEF from
    <3>2. PICK f : f = [k \in 0..L |-> f[k]] /\ from(f, m - 1) BY <3>1 DEF S
    <3> USE DEF from
    <3> DEFINE g == [k \in 0..L |-> IF k = j THEN Body(f, j) ELSE f[k]]
    <3>3. \A k \in L - (m - 1)..L : g[k] = f[k] /\ k \in 0..L BY <1>1, <2>3, <2>6
    <3>4. g[j] = Body(f, j) BY <2>4
    <3>5. g = [k \in 0..L |-> g[k]] OBVIOUS
    <3> HIDE DEF g
    <3>6. Body(f, j) = Body(g, j)
      <4>1. j + 1 \in L - (m - 1)..L BY <1>1, <2>3, <2>6
      <4> QED BY <3>3, <4>1
    <3>7. \A k \in L - (m - 1)..L : Body(f, k) = Body(g, k)
      <4> SUFFICES ASSUME NEW k \in L - (m - 1)..L PROVE Body(f, k) = Body(g, k) OBVIOUS
      <4>1. k # L => k + 1 \in L - (m - 1)..L BY <1>1, <2>3
      <4> QED BY <4>1, <3>3 DEF L
    <3>8. from(g, m)
      <4> SUFFICES ASSUME NEW k \in L - m..L PROVE g[k] = Body(g, k) OBVIOUS
      <4>1. CASE k = j BY <4>1, <3>4, <3>6
      <4>2. CASE k \in L - (m - 1)..L
        <5>1. f[k] = Body(f, k) BY <3>2, <4>2
        <5> HIDE DEF Body
        <5> QED BY <5>1, <4>2, <3>3, <3>7
      <4> QED BY <4>1, <4>2, <1>1, <2>3
    <3> HIDE DEF from
    <3> QED BY <2>2, <3>5, <3>8 DEF S
  <2> QED BY <2>5, <2>6
<1>3. L \notin S BY <1>2
<1> HIDE DEF from
<1>4. PICK f : f = [k \in 0..L |-> f[k]] /\ from(f, L) BY <1>1, <1>3
<1>5. P(f)
  <2>1. \A k \in 0..L : f[k] = Body(f, k)
    <3>1. L - L = 0 BY <1>1
    <3> QED BY <1>4, <3>1 DEF from
  <2> HIDE DEF Body
  <2> QED BY <1>4, <2>1 DEF L
<1>6. P(CHOOSE g : P(g)) BY <1>5, Zenon
<1> DEFINE g == CHOOSE h : P(h)
<1>7. Put(v, p, new) = g[0] BY Zenon DEF Put
<1>8. P(g) BY <1>6
<1> HIDE DEF g
<1>9. ASSUME NEW n \in 0..L PROVE g[n] = Body(g, n)
  <2> HIDE DEF Body
  <2> QED BY <1>8 DEF L
<1>10. g[Len(p)] = new
  <2>1. L \in 0..L BY <1>1
  <2> QED BY <1>9, <2>1 DEF L
<1>11. ASSUME NEW n \in 0..Len(p) - 1
       PROVE  g[n] = [Along(v, p)[n] EXCEPT !.parts[p[n + 1] + 1] = g[n + 1]]
  <2>1. n \in 0..L /\ n # Len(p) BY <1>1 DEF L
  <2> QED BY <1>9, <2>1
<1>12. PutsBack(v, p, new, g) BY <1>10, <1>11 DEF PutsBack
<1> QED BY <1>7, <1>12

(* Paths that begin in the same way lead through the same values.          *)
Agree(p, q, n) == \A k \in 1..n : p[k] = q[k]

LEMMA SameWay ==
  ASSUME NEW v, NEW t, NEW p \in Seq(Nat), NEW q \in Seq(Nat), NEW n \in Nat,
         n <= Len(p), n <= Len(q), Agree(p, q, n)
  PROVE  Along(v, p)[n] = Along(v, q)[n] /\ TypesAlong(t, p)[n] = TypesAlong(t, q)[n]
<1> DEFINE S == {k \in 0..n : ~ /\ Along(v, p)[k] = Along(v, q)[k]
                                /\ TypesAlong(t, p)[k] = TypesAlong(t, q)[k]}
<1>1. S \in SUBSET Nat OBVIOUS
<1>2. CASE S = {} BY <1>2
<1>3. CASE S # {}
  <2> HIDE DEF S
  <2>1. PICK m \in S : \A k \in S : m <= k BY <1>1, <1>3, LeastNumber
  <2>2. m \in 0..n BY DEF S
  <2>3. m # 0
    <3> SUFFICES ASSUME m = 0 PROVE FALSE OBVIOUS
    <3> QED BY AlongDefined, TypesAlongDefined DEF S
  <2>4. m - 1 \in 0..n /\ m - 1 \notin S BY <1>1, <2>1, <2>2, <2>3
  <2>5. Along(v, p)[m - 1] = Along(v, q)[m - 1]
        /\ TypesAlong(t, p)[m - 1] = TypesAlong(t, q)[m - 1]
    BY <2>4 DEF S
  <2>6. m \in 1..Len(p) /\ m \in 1..Len(q) /\ m \in 1..n BY <2>2, <2>3
  <2>7. p[m] = q[m] BY <2>6 DEF Agree
  <2>8. Along(v, p)[m] = Along(v, p)[m - 1].parts[p[m] + 1]
        /\ Along(v, q)[m] = Along(v, q)[m - 1].parts[q[m] + 1]
    <3>1. \A k \in 1..Len(p) : Along(v, p)[k] = Along(v, p)[k - 1].parts[p[k] + 1]
      BY AlongDefined
    <3>2. \A k \in 1..Len(q) : Along(v, q)[k] = Along(v, q)[k - 1].parts[q[k] + 1]
      BY AlongDefined
    <3> QED BY <2>6, <3>1, <3>2
  <2>9. TypesAlong(t, p)[m] = PartType(TypesAlong(t, p)[m - 1], p[m])
        /\ TypesAlong(t, q)[m] = PartType(TypesAlong(t, q)[m - 1], q[m])
    BY <2>6, TypesAlongDefined
  <2> QED BY <2>2, <2>5, <2>7, <2>8, <2>9 DEF S
<1> QED BY <1>2, <1>3

-----------------------------------------------------------------------------
(***************************************************************************)
(* A part is of its type (PartTyped), and one may be replaced by another of*)
(* that type (ReplacedTyped).  Leads says that a path stays within the value.*)
(***************************************************************************)
(* One step: the parts of a value have the types of the parts, and it stays *)
(* a value when one of them is replaced.                                   *)
LEMMA RealPartType ==
  ASSUME NEW t \in Types, NEW i
  PROVE  PartType(t, i) = PartType(Real[t], i) /\ RealKind(t) = Kind[Real[t]]
BY RealRight DEF PartType, RealKind

LEMMA PartTyped ==
  ASSUME NEW t \in Types, RealKind(t) \in Composite, NEW v \in Values[t]
  PROVE  /\ v = Parts(v.max, v.parts) /\ WellMade(Real[t], v.max, v.parts)
         /\ \A i \in Nat : i + 1 \in DOMAIN v.parts =>
              PartType(t, i) \in Types /\ v.parts[i + 1] \in Values[PartType(t, i)]
<1> DEFINE u == Real[t]
<1>1. u \in Types /\ Kind[u] \in Composite /\ v \in Values[u]
  BY RealRight, RealPartType
<1>2. \A i : PartType(t, i) = PartType(u, i) BY RealPartType
<1> HIDE DEF u
<1>3. v = Parts(v.max, v.parts) /\ WellMade(u, v.max, v.parts) BY <1>1, Composed
<1>4. ASSUME NEW i \in Nat, i + 1 \in DOMAIN v.parts
      PROVE  PartType(t, i) \in Types /\ v.parts[i + 1] \in Values[PartType(t, i)]
  <2>1. v.parts[i + 1] \in Values[PartType(u, i + 1 - 1)] BY <1>3, <1>4 DEF WellMade
  <2>2. i + 1 - 1 = i OBVIOUS
  <2>3. PartType(u, i) \in Types
    <3>1. CASE Kind[u] \in {"sequence", "array"} BY <1>1, <3>1, PartTypes
    <3>2. CASE Kind[u] \in {"struct", "except"}
      <4>1. i + 1 \in DOMAIN Subtypes[u] BY <1>3, <1>4, <3>2 DEF WellMade, Widths
      <4> QED BY <1>1, <2>2, <3>2, <4>1, PartTypes
    <3> QED BY <1>1, <3>1, <3>2 DEF Composite
  <2> QED BY <1>2, <2>1, <2>2, <2>3
<1> QED BY <1>3, <1>4 DEF u

Replaced(v, j, w) == [v EXCEPT !.parts[j] = w]

LEMMA PartReplaced ==
  ASSUME NEW v, v = Parts(v.max, v.parts), NEW j \in DOMAIN v.parts, NEW w,
         v.parts = [k \in DOMAIN v.parts |-> v.parts[k]],
         NEW y, y = Replaced(v, j, w)
  PROVE  /\ y = Parts(y.max, y.parts) /\ y.max = v.max
         /\ DOMAIN y.parts = DOMAIN v.parts
         /\ y.parts = [k \in DOMAIN v.parts |-> IF k = j THEN w ELSE v.parts[k]]
<1> DEFINE ps == [v.parts EXCEPT ![j] = w]
<1>1. y = [v EXCEPT !.parts = ps] BY DEF Replaced
<1>2. v = [leaf |-> None, max |-> v.max, parts |-> v.parts] BY DEF Parts
<1> HIDE DEF ps
<1>3. [v EXCEPT !.parts = ps] = [leaf |-> None, max |-> v.max, parts |-> ps] BY <1>2
<1>4. y = Parts(v.max, ps) BY <1>1, <1>3 DEF Parts
<1>5. y.max = v.max /\ y.parts = ps BY <1>4 DEF Parts
<1>6. ps = [k \in DOMAIN v.parts |-> IF k = j THEN w ELSE v.parts[k]] BY DEF ps
<1> QED BY <1>4, <1>5, <1>6

LEMMA ReplacedTyped ==
  ASSUME NEW t \in Types, RealKind(t) \in Composite, NEW v \in Values[t],
         NEW i \in Nat, i + 1 \in DOMAIN v.parts, NEW w \in Values[PartType(t, i)],
         NEW y, y = Replaced(v, i + 1, w)
  PROVE  /\ y \in Values[t] /\ DOMAIN y.parts = DOMAIN v.parts
         /\ y.parts[i + 1] = w
         /\ \A k \in DOMAIN v.parts : k # i + 1 => y.parts[k] = v.parts[k]
<1> DEFINE u == Real[t]
           j == i + 1
<1>0. y = Replaced(v, j, w) OBVIOUS
<1>1. u \in Types /\ Kind[u] \in Composite /\ Values[u] = Values[t]
  BY RealRight, RealPartType
<1>2. v = Parts(v.max, v.parts) /\ WellMade(u, v.max, v.parts) BY PartTyped
<1>3. PartType(t, i) = PartType(u, j - 1)
  <2>1. j - 1 = i OBVIOUS
  <2> QED BY <2>1, RealPartType
<1>4. j \in DOMAIN v.parts OBVIOUS
<1> HIDE DEF u, j
<1>5. v.parts = [k \in DOMAIN v.parts |-> v.parts[k]] BY <1>2 DEF WellMade
<1>6. /\ y = Parts(y.max, y.parts) /\ y.max = v.max
      /\ DOMAIN y.parts = DOMAIN v.parts
      /\ y.parts = [k \in DOMAIN v.parts |-> IF k = j THEN w ELSE v.parts[k]]
  BY <1>0, <1>2, <1>4, <1>5, PartReplaced
<1>7. /\ y.parts[j] = w
      /\ \A k \in DOMAIN v.parts : k # j => y.parts[k] = v.parts[k]
  BY <1>4, <1>6
<1>8. WellMade(u, y.max, y.parts)
  <2>1. y.parts = [k \in DOMAIN y.parts |-> y.parts[k]] BY <1>6
  <2>2. \A k \in DOMAIN y.parts : y.parts[k] \in Values[PartType(u, k - 1)]
    <3> SUFFICES ASSUME NEW k \in DOMAIN y.parts PROVE y.parts[k] \in Values[PartType(u, k - 1)]
      OBVIOUS
    <3>1. CASE k = j BY <1>3, <1>7, <3>1
    <3>2. CASE k # j BY <1>2, <1>6, <1>7, <3>2 DEF WellMade
    <3> QED BY <3>1, <3>2
  <2> QED BY <1>2, <1>6, <2>1, <2>2 DEF WellMade
<1>9. y \in Values[t]
  <2>1. Parts(y.max, y.parts) \in Values[u] BY <1>1, <1>8, Composing
  <2> QED BY <1>1, <1>6, <2>1
<1> QED BY <1>6, <1>7, <1>9 DEF j

(* Only the values of sequences differ in how many parts they have.        *)
LEMMA SameWidth ==
  ASSUME NEW t \in Types, RealKind(t) \in Composite, RealKind(t) # "sequence",
         NEW v \in Values[t], NEW w \in Values[t]
  PROVE  DOMAIN v.parts = DOMAIN w.parts
<1>1. WellMade(Real[t], v.max, v.parts) /\ WellMade(Real[t], w.max, w.parts)
  BY PartTyped
<1>2. Kind[Real[t]] # "sequence" BY RealPartType
<1> QED BY <1>1, <1>2 DEF WellMade, Widths

(* A path that leads from v, of type t, through parts that are there.      *)
Leads(t, v, p) ==
  /\ p \in Seq(Nat)
  /\ \A n \in 0..Len(p) - 1 :
       /\ RealKind(TypesAlong(t, p)[n]) \in Composite
       /\ p[n + 1] + 1 \in DOMAIN Along(v, p)[n].parts

(* Seen from within: A the values and T the types along p.                 *)
Way(t, v, p, A, T) ==
  /\ A[0] = v /\ T[0] = t
  /\ \A n \in 0..Len(p) - 1 :
       A[n + 1] = A[n].parts[p[n + 1] + 1] /\ T[n + 1] = PartType(T[n], p[n + 1])

LEMMA WayIs ==
  ASSUME NEW t, NEW v, NEW p \in Seq(Nat)
  PROVE  Way(t, v, p, Along(v, p), TypesAlong(t, p))
<1>1. Along(v, p)[0] = v /\ TypesAlong(t, p)[0] = t BY AlongDefined, TypesAlongDefined
<1>2. \A k \in 1..Len(p) : Along(v, p)[k] = Along(v, p)[k - 1].parts[p[k] + 1]
  BY AlongDefined
<1>3. \A k \in 1..Len(p) : TypesAlong(t, p)[k] = PartType(TypesAlong(t, p)[k - 1], p[k])
  BY TypesAlongDefined
<1> DEFINE A == Along(v, p)
           T == TypesAlong(t, p)
<1> HIDE DEF A, T
<1>4. ASSUME NEW n \in 0..Len(p) - 1
      PROVE  A[n + 1] = A[n].parts[p[n + 1] + 1] /\ T[n + 1] = PartType(T[n], p[n + 1])
  <2>1. n + 1 \in 1..Len(p) /\ n + 1 - 1 = n OBVIOUS
  <2>2. A[n + 1] = A[n + 1 - 1].parts[p[n + 1] + 1] BY <1>2, <2>1 DEF A
  <2>3. T[n + 1] = PartType(T[n + 1 - 1], p[n + 1]) BY <1>3, <2>1 DEF T
  <2> QED BY <2>1, <2>2, <2>3
<1> QED BY <1>1, <1>4 DEF Way, A, T

LEMMA LeadsTyped ==
  ASSUME NEW t \in Types, NEW v \in Values[t], NEW p, Leads(t, v, p)
  PROVE  \A n \in 0..Len(p) : /\ TypesAlong(t, p)[n] \in Types
                              /\ Along(v, p)[n] \in Values[TypesAlong(t, p)[n]]
<1> DEFINE A == Along(v, p)
           T == TypesAlong(t, p)
           S == {n \in 0..Len(p) : ~ (T[n] \in Types /\ A[n] \in Values[T[n]])}
<1> SUFFICES ASSUME S # {} PROVE FALSE OBVIOUS
<1>1. p \in Seq(Nat) /\ Len(p) \in Nat BY DEF Leads
<1>2. Way(t, v, p, A, T) BY <1>1, WayIs
<1>3. \A n \in 0..Len(p) - 1 : RealKind(T[n]) \in Composite /\ p[n + 1] + 1 \in DOMAIN A[n].parts
  BY DEF Leads
<1> HIDE DEF A, T
<1>4. S \in SUBSET Nat BY <1>1
<1> HIDE DEF S
<1>5. PICK m \in S : \A k \in S : m <= k BY <1>4, LeastNumber
<1>6. m \in 0..Len(p) /\ ~ (T[m] \in Types /\ A[m] \in Values[T[m]]) BY DEF S
<1>7. m # 0 BY <1>2, <1>6 DEF Way
<1> DEFINE n == m - 1
<1>8. n \in 0..Len(p) - 1 /\ n + 1 = m /\ n \in 0..Len(p) BY <1>1, <1>6, <1>7
<1>9. n \notin S BY <1>5, <1>8, <1>4
<1> HIDE DEF n
<1>10. T[n] \in Types /\ A[n] \in Values[T[n]] BY <1>8, <1>9 DEF S
<1>11. RealKind(T[n]) \in Composite /\ p[n + 1] + 1 \in DOMAIN A[n].parts /\ p[n + 1] \in Nat
  BY <1>1, <1>3, <1>8
<1>12. PartType(T[n], p[n + 1]) \in Types
       /\ A[n].parts[p[n + 1] + 1] \in Values[PartType(T[n], p[n + 1])]
  BY <1>10, <1>11, PartTyped
<1>13. T[n + 1] \in Types /\ A[n + 1] \in Values[T[n + 1]] BY <1>2, <1>8, <1>12 DEF Way
<1> QED BY <1>6, <1>8, <1>13

-----------------------------------------------------------------------------
(***************************************************************************)
(* A write at the end of a path: the value stays one of its type (PutTyped),*)
(* and other paths still lead where they led (StillLeads) if the write spares*)
(* them.                                                                   *)
(***************************************************************************)
(* What Put makes on its way back is of the types along the path, and      *)
(* differs from what was there in one part.                                *)
PutWay(t, v, p, f) ==
  /\ \A n \in 0..Len(p) : f[n] \in Values[TypesAlong(t, p)[n]]
  /\ \A n \in 0..Len(p) - 1 :
       /\ DOMAIN f[n].parts = DOMAIN Along(v, p)[n].parts
       /\ f[n].parts[p[n + 1] + 1] = f[n + 1]
       /\ \A k \in DOMAIN f[n].parts :
            k # p[n + 1] + 1 => f[n].parts[k] = Along(v, p)[n].parts[k]

LEMMA PutStep ==
  ASSUME NEW t \in Types, NEW v \in Values[t], NEW p, Leads(t, v, p), NEW new, NEW f,
         PutsBack(v, p, new, f), NEW n \in 0..Len(p) - 1,
         f[n + 1] \in Values[TypesAlong(t, p)[n + 1]]
  PROVE  /\ f[n] \in Values[TypesAlong(t, p)[n]]
         /\ DOMAIN f[n].parts = DOMAIN Along(v, p)[n].parts
         /\ f[n].parts[p[n + 1] + 1] = f[n + 1]
         /\ \A k \in DOMAIN f[n].parts :
              k # p[n + 1] + 1 => f[n].parts[k] = Along(v, p)[n].parts[k]
<1> DEFINE A == Along(v, p)
           T == TypesAlong(t, p)
           i == p[n + 1]
<1>1. p \in Seq(Nat) /\ Len(p) \in Nat BY DEF Leads
<1>2. n \in 0..Len(p) /\ n + 1 \in 1..Len(p) BY <1>1
<1>3. i \in Nat BY <1>1, <1>2
<1>4. T[n] \in Types /\ A[n] \in Values[T[n]] BY <1>2, LeadsTyped
<1>5. RealKind(T[n]) \in Composite /\ i + 1 \in DOMAIN A[n].parts BY DEF Leads
<1>6. T[n + 1] = PartType(T[n], i)
  <2>1. Way(t, v, p, A, T) BY <1>1, WayIs
  <2> QED BY <2>1 DEF Way
<1>7. f[n] = Replaced(A[n], i + 1, f[n + 1]) BY DEF PutsBack, Replaced
<1>8. f[n + 1] \in Values[PartType(T[n], i)] BY <1>6
<1> HIDE DEF A, T, i
<1>9. /\ f[n] \in Values[T[n]] /\ DOMAIN f[n].parts = DOMAIN A[n].parts
      /\ f[n].parts[i + 1] = f[n + 1]
      /\ \A k \in DOMAIN A[n].parts : k # i + 1 => f[n].parts[k] = A[n].parts[k]
  BY <1>3, <1>4, <1>5, <1>7, <1>8, ReplacedTyped
<1> QED BY <1>9 DEF A, T, i

LEMMA PutWayIs ==
  ASSUME NEW t \in Types, NEW v \in Values[t], NEW p, Leads(t, v, p),
         NEW new \in Values[PathType(t, p)]
  PROVE  \E f : PutWay(t, v, p, f) /\ Put(v, p, new) = f[0] /\ f[Len(p)] = new
<1>1. p \in Seq(Nat) /\ Len(p) \in Nat BY DEF Leads
<1>2. PICK f : PutsBack(v, p, new, f) /\ Put(v, p, new) = f[0] BY <1>1, PutDefined
<1> DEFINE T == TypesAlong(t, p)
           S == {m \in 0..Len(p) : f[Len(p) - m] \notin Values[T[Len(p) - m]]}
<1>3. f[Len(p)] = new /\ new \in Values[T[Len(p)]] BY <1>2 DEF PutsBack, PathType
<1>4. S = {}
  <2> SUFFICES ASSUME S # {} PROVE FALSE OBVIOUS
  <2>1. S \in SUBSET Nat BY <1>1
  <2> HIDE DEF S, T
  <2>2. PICK m \in S : \A k \in S : m <= k BY <2>1, LeastNumber
  <2>3. m \in 0..Len(p) /\ f[Len(p) - m] \notin Values[T[Len(p) - m]] BY DEF S
  <2>4. m # 0
    <3> SUFFICES ASSUME m = 0 PROVE FALSE OBVIOUS
    <3>1. Len(p) - m = Len(p) BY <1>1
    <3> QED BY <1>3, <2>3, <3>1
  <2>5. m - 1 \in 0..Len(p) /\ m - 1 \notin S BY <1>1, <2>1, <2>2, <2>3, <2>4
  <2>6. f[Len(p) - (m - 1)] \in Values[T[Len(p) - (m - 1)]] BY <2>5 DEF S
  <2> DEFINE n == Len(p) - m
  <2>7. n \in 0..Len(p) - 1 /\ n + 1 = Len(p) - (m - 1) BY <1>1, <2>3, <2>4
  <2> HIDE DEF n
  <2>8. f[n + 1] \in Values[T[n + 1]] BY <2>6, <2>7
  <2>9. f[n] \in Values[T[n]] BY <1>2, <2>7, <2>8, PutStep DEF T
  <2> QED BY <2>3, <2>9 DEF n
<1>5. ASSUME NEW n \in 0..Len(p) PROVE f[n] \in Values[T[n]]
  <2>1. Len(p) - n \in 0..Len(p) /\ Len(p) - (Len(p) - n) = n BY <1>1
  <2> QED BY <1>4, <2>1
<1>6. \A n \in 0..Len(p) - 1 : n + 1 \in 0..Len(p) BY <1>1
<1>7. ASSUME NEW n \in 0..Len(p) - 1
      PROVE  /\ DOMAIN f[n].parts = DOMAIN Along(v, p)[n].parts
             /\ f[n].parts[p[n + 1] + 1] = f[n + 1]
             /\ \A k \in DOMAIN f[n].parts :
                  k # p[n + 1] + 1 => f[n].parts[k] = Along(v, p)[n].parts[k]
  <2>1. f[n + 1] \in Values[TypesAlong(t, p)[n + 1]] BY <1>5, <1>6
  <2> QED BY <1>2, <2>1, PutStep
<1>8. PutWay(t, v, p, f) BY <1>5, <1>7 DEF PutWay
<1> QED BY <1>2, <1>3, <1>8

(* A value of its type stays one when a part of it, however deep, is       *)
(* replaced by a value of the type of that part.                           *)
LEMMA PutTyped ==
  ASSUME NEW t \in Types, NEW v \in Values[t], NEW p, Leads(t, v, p),
         NEW new \in Values[PathType(t, p)]
  PROVE  Put(v, p, new) \in Values[t]
<1>1. p \in Seq(Nat) BY DEF Leads
<1>2. PICK f : PutWay(t, v, p, f) /\ Put(v, p, new) = f[0] BY PutWayIs
<1>3. 0 \in 0..Len(p) /\ TypesAlong(t, p)[0] = t BY <1>1, TypesAlongDefined
<1> QED BY <1>2, <1>3 DEF PutWay

(* A write through p leaves q its way: it does not go on behind p, or the  *)
(* new value there has as many parts as the old one and no sequence is     *)
(* further behind.                                                         *)
Spares(t, v, p, new, q) ==
  Len(p) < Len(q) /\ Agree(p, q, Len(p)) =>
    /\ DOMAIN new.parts = DOMAIN Follow(v, p).parts
    /\ \A n \in Len(p) + 1..Len(q) - 1 : RealKind(TypesAlong(t, q)[n]) # "sequence"

LEMMA StillLeads ==
  ASSUME NEW t \in Types, NEW v \in Values[t], NEW p, Leads(t, v, p),
         NEW new \in Values[PathType(t, p)], NEW q, Leads(t, v, q),
         Spares(t, v, p, new, q), NEW w, w = Put(v, p, new)
  PROVE  Leads(t, w, q)
<1> DEFINE V == Along(v, q)
           W == Along(w, q)
           T == TypesAlong(t, q)
           P == Along(v, p)
           off(n) == \E k \in 1..n : k <= Len(p) /\ p[k] # q[k]
           wide(n) == n < Len(q) => DOMAIN W[n].parts = DOMAIN V[n].parts
           good(n) == /\ W[n] \in Values[T[n]] /\ wide(n)
                      /\ off(n) => W[n] = V[n]
<1>1. p \in Seq(Nat) /\ Len(p) \in Nat /\ q \in Seq(Nat) /\ Len(q) \in Nat BY DEF Leads
<1>2. PICK f : PutWay(t, v, p, f) /\ w = f[0] /\ f[Len(p)] = new BY PutWayIs
<1> DEFINE fine(n) == n <= Len(p) /\ ~ off(n) => W[n] = f[n]
           S == {n \in 0..Len(q) : ~ (good(n) /\ fine(n))}
<1>3. Way(t, v, q, V, T) /\ Way(t, w, q, W, T) BY <1>1, WayIs
<1>4. \A n \in 0..Len(q) - 1 :
        RealKind(T[n]) \in Composite /\ q[n + 1] + 1 \in DOMAIN V[n].parts
  BY DEF Leads
<1>5. \A n \in 0..Len(q) : T[n] \in Types /\ V[n] \in Values[T[n]] BY LeadsTyped
(* as long as q goes the way of p, it goes through the same values         *)
<1>6. ASSUME NEW n \in Nat, n <= Len(p), n <= Len(q), ~ off(n)
      PROVE  P[n] = V[n]
  <2>1. Agree(p, q, n) BY <1>6, <1>1 DEF Agree
  <2> QED BY <1>1, <1>6, <2>1, SameWay
<1>7. ASSUME NEW n \in 0..Len(p) - 1
      PROVE  /\ DOMAIN f[n].parts = DOMAIN P[n].parts
             /\ f[n].parts[p[n + 1] + 1] = f[n + 1]
             /\ \A k \in DOMAIN f[n].parts :
                  k # p[n + 1] + 1 => f[n].parts[k] = P[n].parts[k]
  BY <1>2, <1>7 DEF PutWay
<1>8. \A n : n <= Len(p) /\ n < Len(q) /\ n = Len(p) /\ ~ off(n) =>
        DOMAIN new.parts = DOMAIN V[n].parts
  <2> SUFFICES ASSUME Len(p) < Len(q), ~ off(Len(p))
               PROVE  DOMAIN new.parts = DOMAIN V[Len(p)].parts
    OBVIOUS
  <2>1. Agree(p, q, Len(p)) BY <1>1 DEF Agree
  <2>2. DOMAIN new.parts = DOMAIN P[Len(p)].parts BY <2>1 DEF Spares, Follow
  <2>3. P[Len(p)] = V[Len(p)] BY <1>1, <1>6
  <2> QED BY <2>2, <2>3
<1>9. \A n \in 0..Len(q) : n > Len(p) /\ n < Len(q) /\ ~ off(n) => RealKind(T[n]) # "sequence"
  <2> SUFFICES ASSUME NEW n \in 0..Len(q), n > Len(p), n < Len(q), ~ off(n)
               PROVE  RealKind(T[n]) # "sequence"
    OBVIOUS
  <2>1. Agree(p, q, Len(p)) BY <1>1 DEF Agree
  <2>2. Len(p) < Len(q) /\ n \in Len(p) + 1..Len(q) - 1 BY <1>1
  <2> QED BY <2>1, <2>2 DEF Spares
<1>10. \A n \in 0..Len(q), m \in 0..Len(q) : m = n + 1 =>
         /\ off(n) => off(m)
         /\ off(m) /\ ~ off(n) => m <= Len(p) /\ p[m] # q[m]
         /\ ~ off(m) /\ m <= Len(p) => p[m] = q[m]
  BY <1>1
<1>11. ~ off(0) OBVIOUS
<1> HIDE DEF V, W, T, P, off
(* widths and types at n, given what is there                              *)
<1>12. ASSUME NEW n \in 0..Len(q), W[n] \in Values[T[n]], fine(n), off(n) => W[n] = V[n]
       PROVE  wide(n)
  <2> SUFFICES ASSUME n < Len(q) PROVE DOMAIN W[n].parts = DOMAIN V[n].parts OBVIOUS
  <2>1. CASE off(n) BY <1>12, <2>1
  <2>2. CASE ~ off(n) /\ n < Len(p)
    <3>1. W[n] = f[n] /\ P[n] = V[n] BY <1>1, <1>6, <1>12, <2>2
    <3> QED BY <1>1, <1>7, <2>2, <3>1
  <2>3. CASE ~ off(n) /\ n = Len(p) BY <1>1, <1>2, <1>8, <1>12, <2>3
  <2>4. CASE ~ off(n) /\ n > Len(p)
    <3>1. RealKind(T[n]) \in Composite /\ RealKind(T[n]) # "sequence"
      BY <1>1, <1>4, <1>9, <2>4
    <3> QED BY <1>5, <1>12, <3>1, SameWidth
  <2> QED BY <1>1, <2>1, <2>2, <2>3, <2>4
<1>13. S = {}
  <2> SUFFICES ASSUME S # {} PROVE FALSE OBVIOUS
  <2>1. S \in SUBSET Nat BY <1>1
  <2> HIDE DEF S
  <2>2. PICK m \in S : \A k \in S : m <= k BY <2>1, LeastNumber
  <2>3. m \in 0..Len(q) /\ ~ (good(m) /\ fine(m)) BY DEF S
  <2>4. CASE m = 0
    <3>1. W[0] = w /\ T[0] = t BY <1>3 DEF Way
    <3>2. W[0] \in Values[T[0]] BY <3>1, PutTyped
    <3>3. fine(0) BY <1>2, <3>1
    <3>4. wide(0) BY <1>11, <1>12, <2>3, <2>4, <3>2, <3>3
    <3> QED BY <1>11, <2>3, <2>4, <3>2, <3>3, <3>4
  <2>5. CASE m # 0
    <3> DEFINE n == m - 1
    <3>1. n \in 0..Len(q) - 1 /\ n \in 0..Len(q) /\ n + 1 = m /\ n < Len(q) /\ n \in Nat
      BY <1>1, <2>3, <2>5
    <3>2. n \notin S BY <2>1, <2>2, <3>1
    <3>3. good(n) /\ fine(n) BY <3>1, <3>2 DEF S
    <3> HIDE DEF n
    <3>4. W[m] = W[n].parts[q[m] + 1] /\ V[m] = V[n].parts[q[m] + 1]
          /\ T[m] = PartType(T[n], q[m])
      BY <1>3, <3>1 DEF Way
    <3>5. q[m] \in Nat /\ RealKind(T[n]) \in Composite /\ q[m] + 1 \in DOMAIN V[n].parts
      BY <1>1, <1>4, <2>3, <2>5, <3>1
    <3>6. q[m] + 1 \in DOMAIN W[n].parts BY <3>1, <3>3, <3>5
    <3>7. W[m] \in Values[T[m]]
      <4>1. T[n] \in Types /\ W[n] \in Values[T[n]] BY <1>5, <3>1, <3>3
      <4> QED BY <3>4, <3>5, <3>6, <4>1, PartTyped
    <3>8. off(m) => W[m] = V[m]
      <4>1. CASE off(n) BY <3>3, <3>4, <4>1
      <4>2. CASE off(m) /\ ~ off(n)
        <5>1. m <= Len(p) /\ p[m] # q[m] BY <1>10, <2>3, <3>1, <4>2
        <5>2. n \in 0..Len(p) - 1 /\ n <= Len(p) /\ n <= Len(q) BY <1>1, <3>1, <5>1
        <5>3. W[n] = f[n] BY <3>3, <4>2, <5>2
        <5>4. q[m] + 1 # p[m] + 1
          <6>1. p[m] \in Nat BY <1>1, <2>3, <2>5, <5>1
          <6> QED BY <3>5, <5>1, <6>1
        <5>5. f[n].parts[q[m] + 1] = P[n].parts[q[m] + 1]
          BY <1>7, <3>1, <3>6, <5>2, <5>3, <5>4
        <5>6. P[n] = V[n] BY <1>6, <3>1, <4>2, <5>2
        <5> QED BY <3>4, <5>3, <5>5, <5>6
      <4> QED BY <4>1, <4>2
    <3>9. fine(m)
      <4> SUFFICES ASSUME m <= Len(p), ~ off(m) PROVE W[m] = f[m] OBVIOUS
      <4>1. p[m] = q[m] /\ ~ off(n) BY <1>10, <2>3, <3>1
      <4>2. n \in 0..Len(p) - 1 /\ n <= Len(p) BY <1>1, <3>1
      <4>3. W[n] = f[n] BY <3>3, <4>1, <4>2
      <4> QED BY <1>7, <3>1, <3>4, <4>1, <4>2, <4>3
    <3>10. wide(m) BY <1>12, <2>3, <3>7, <3>8, <3>9
    <3> QED BY <2>3, <3>7, <3>8, <3>9, <3>10
  <2> QED BY <2>4, <2>5
<1>14. ASSUME NEW n \in 0..Len(q) - 1
       PROVE  RealKind(T[n]) \in Composite /\ q[n + 1] + 1 \in DOMAIN W[n].parts
  <2>1. n \in 0..Len(q) /\ n < Len(q) BY <1>1
  <2>2. wide(n)
    <3>1. n \notin S BY <1>13
    <3> QED BY <2>1, <3>1
  <2> QED BY <1>4, <2>1, <2>2
<1> QED BY <1>1, <1>14 DEF Leads, W, T

-----------------------------------------------------------------------------
(***************************************************************************)
(* The second invariant, and the ways in which objects and values change   *)
(* together that keep it.                                                  *)
(***************************************************************************)
(* What d sees: values s of their types, at the end of a path that is      *)
(* there, with the cursor of an array within it.                           *)
View(D, s, d) ==
  /\ D[d].type \in Types /\ D[d].idx \in Int /\ D[d].mem \in {"ok", "leaked", "freed"}
  /\ RealKind(D[d].type) = "array" => D[d].idx < Length[Real[D[d].type]]
  /\ D[d].owns => D[d].path = << >> /\ D[d].mem = "ok"
  /\ D[d].mem = "ok" =>
       /\ Leads(D[D[d].root].type, s[D[d].root], D[d].path)
       /\ Real[D[d].type] = Real[PathType(D[D[d].root].type, D[d].path)]

Typed(D, s) ==
  /\ s = [d \in Dyns |-> s[d]]
  /\ \A d \in Dyns :
       HasAny(D, d) => View(D, s, d) /\ (D[d].owns => s[d] \in Values[D[d].type])

(* Who has an any looks into the value of one that owns it.                *)
Rooted(D) ==
  \A d \in Dyns : HasAny(D, d) =>
    D[d].root \in Dyns /\ HasAny(D, D[d].root) /\ D[D[d].root].owns
      /\ D[D[d].root].root = D[d].root

LEMMA RootsOwn ==
  ASSUME NEW D, Right(D)
  PROVE  Rooted(D)
<1> DEFINE good(x) == D[x].root \in Dyns /\ HasAny(D, D[x].root) /\ D[D[x].root].owns
                      /\ D[D[x].root].root = D[x].root
           S == {x \in Dyns : HasAny(D, x) /\ ~ good(x)}
<1>1. Linking(D) /\ Forest(D) /\ Roots(D) BY DEF Right
<1>2. ASSUME NEW x \in S PROVE D[x].parent \in S
  <2>1. x \in Dyns /\ HasAny(D, x) /\ ~ good(x) OBVIOUS
  <2>2. ~ D[x].owns BY <2>1, <1>1 DEF Roots
  <2>3. D[x].parent # None BY <2>1, <2>2, <1>1 DEF Linking, HasAny
  <2>4. D[x].parent \in Dyns /\ HasAny(D, D[x].parent)
    BY <2>1, <2>3, <1>1 DEF Linking, HasAny
  <2>5. D[x].root = D[D[x].parent].root BY <2>1, <2>3, <1>1 DEF Roots
  <2> QED BY <2>1, <2>4, <2>5
<1>3. S \in SUBSET Dyns OBVIOUS
<1>4. S = {}
  <2> HIDE DEF S
  <2> QED BY <1>1, <1>2, <1>3 DEF Forest
<1> QED BY <1>4 DEF Rooted

(* An object that sees what it saw, or has lost it to a buffer that is not *)
(* freed.                                                                  *)
SameView(D, D2, d) ==
  /\ HasAny(D, d)
  /\ D2[d].type = D[d].type /\ D2[d].root = D[d].root /\ D2[d].path = D[d].path
  /\ D2[d].owns = D[d].owns
  /\ D2[d].mem = D[d].mem \/ (D2[d].mem = "leaked" /\ ~ D[d].owns)
  /\ \/ D2[d].idx = D[d].idx
     \/ /\ D2[d].idx \in Int
        /\ RealKind(D[d].type) = "array" => D2[d].idx < Length[Real[D[d].type]]

LEMMA ViewKept ==
  ASSUME NEW D, NEW s, NEW D2, NEW s2, NEW d, View(D, s, d), SameView(D, D2, d),
         NEW r, r = D[d].root, D2[r].type = D[r].type,
         D2[d].mem = "ok" => Leads(D[r].type, s2[r], D[d].path)
  PROVE  View(D2, s2, d)
BY DEF View, SameView

(* The ways in which a call changes objects and values.                    *)
LEMMA SameTyped ==
  ASSUME NEW D, NEW s, NEW D2, NEW s2, Typed(D, s), Right(D2),
         \A x \in Dyns : HasAny(D2, x) => SameView(D, D2, x),
         s2 = [x \in Dyns |-> s2[x]],
         \A x \in Dyns : HasAny(D2, x) /\ D2[x].owns => s2[x] = s[x]
  PROVE  Typed(D2, s2)
<1>1. Rooted(D2) BY RootsOwn
<1>2. ASSUME NEW x \in Dyns, HasAny(D2, x)
      PROVE  View(D2, s2, x) /\ (D2[x].owns => s2[x] \in Values[D2[x].type])
  <2>1. View(D, s, x) /\ SameView(D, D2, x) /\ (D[x].owns => s[x] \in Values[D[x].type])
    BY <1>2 DEF Typed, SameView
  <2> DEFINE r == D[x].root
  <2>2. r \in Dyns /\ HasAny(D2, r) /\ D2[r].owns BY <1>1, <1>2, <2>1 DEF Rooted, SameView
  <2>3. D2[r].type = D[r].type /\ s2[r] = s[r] BY <2>2 DEF SameView
  <2>4. D2[x].mem = "ok" => D[x].mem = "ok" BY <2>1 DEF SameView
  <2>5. D2[x].mem = "ok" => Leads(D[r].type, s2[r], D[x].path)
    BY <2>1, <2>3, <2>4 DEF View
  <2> HIDE DEF r
  <2>6. View(D2, s2, x)
    <3>1. r = D[x].root BY DEF r
    <3> QED BY <2>1, <2>3, <2>5, <3>1, ViewKept
  <2>7. D2[x].owns => s2[x] \in Values[D2[x].type] BY <1>2, <2>1 DEF SameView
  <2> QED BY <2>6, <2>7
<1> QED BY <1>2 DEF Typed

LEMMA WriteTyped ==
  ASSUME NEW D, NEW s, NEW D2, NEW s2, Typed(D, s), Right(D2),
         \A x \in Dyns : HasAny(D2, x) => SameView(D, D2, x),
         NEW r \in Dyns, D[r].type \in Types, s[r] \in Values[D[r].type],
         NEW p, Leads(D[r].type, s[r], p), NEW new \in Values[PathType(D[r].type, p)],
         s2 = [s EXCEPT ![r] = Put(@, p, new)],
         \A x \in Dyns : HasAny(D2, x) /\ D2[x].root = r /\ D2[x].mem = "ok" =>
           Spares(D[r].type, s[r], p, new, D2[x].path)
  PROVE  Typed(D2, s2)
<1>1. Rooted(D2) BY RootsOwn
<1>2. /\ s2 = [x \in Dyns |-> s2[x]] /\ s2[r] = Put(s[r], p, new)
      /\ \A x \in Dyns \ {r} : s2[x] = s[x]
  BY DEF Typed
<1>3. s2[r] \in Values[D[r].type] BY <1>2, PutTyped
<1>4. ASSUME NEW x \in Dyns, HasAny(D2, x)
      PROVE  View(D2, s2, x) /\ (D2[x].owns => s2[x] \in Values[D2[x].type])
  <2>1. View(D, s, x) /\ SameView(D, D2, x) /\ (D[x].owns => s[x] \in Values[D[x].type])
    BY <1>4 DEF Typed, SameView
  <2> DEFINE o == D[x].root
  <2>2. o \in Dyns /\ HasAny(D2, o) BY <1>1, <1>4, <2>1 DEF Rooted, SameView
  <2>3. D2[o].type = D[o].type BY <2>2 DEF SameView
  <2>4. D2[x].mem = "ok" => D[x].mem = "ok" BY <2>1 DEF SameView
  <2>5. D2[x].mem = "ok" => Leads(D[o].type, s[o], D[x].path) BY <2>1, <2>4 DEF View
  <2>6. D2[x].root = o /\ D2[x].path = D[x].path BY <2>1 DEF SameView
  <2> HIDE DEF o
  <2>7. D2[x].mem = "ok" => Leads(D[o].type, s2[o], D[x].path)
    <3>1. CASE o # r BY <1>2, <2>2, <2>5, <3>1
    <3>2. ASSUME o = r, D2[x].mem = "ok" PROVE Leads(D[o].type, s2[o], D[x].path)
      <4>1. Spares(D[r].type, s[r], p, new, D[x].path) BY <1>4, <2>6, <3>2
      <4>2. Leads(D[r].type, s[r], D[x].path) BY <2>5, <3>2
      <4> DEFINE t == D[r].type
                 v == s[r]
                 w == s2[r]
                 q == D[x].path
      <4>3. t \in Types /\ v \in Values[t] /\ Leads(t, v, p) /\ new \in Values[PathType(t, p)]
            /\ Leads(t, v, q) /\ Spares(t, v, p, new, q) /\ w = Put(v, p, new)
        BY <1>2, <4>1, <4>2
      <4> HIDE DEF t, v, w, q
      <4>4. Leads(t, w, q) BY <4>3, StillLeads
      <4> QED BY <3>2, <4>4 DEF t, w, q
    <3> QED BY <3>1, <3>2
  <2>8. View(D2, s2, x)
    <3>1. o = D[x].root BY DEF o
    <3> QED BY <2>1, <2>3, <2>7, <3>1, ViewKept
  <2>9. D2[x].owns => s2[x] \in Values[D2[x].type]
    <3>1. D2[x].type = D[x].type /\ D2[x].owns = D[x].owns BY <2>1 DEF SameView
    <3>2. CASE x = r BY <1>3, <3>1, <3>2
    <3>3. CASE x # r BY <1>2, <2>1, <3>1, <3>3
    <3> QED BY <3>2, <3>3
  <2> QED BY <2>8, <2>9
<1> QED BY <1>2, <1>4 DEF Typed

(* New components C.                                                       *)
LEMMA NewTyped ==
  ASSUME NEW D, NEW s, NEW D2, Typed(D, s), Right(D2), NEW C,
         \A x \in Dyns : HasAny(D2, x) =>
           IF x \in C THEN View(D2, s, x) /\ ~ D2[x].owns ELSE SameView(D, D2, x)
  PROVE  Typed(D2, s)
<1>1. Rooted(D2) BY RootsOwn
<1>2. ASSUME NEW x \in Dyns, HasAny(D2, x)
      PROVE  View(D2, s, x) /\ (D2[x].owns => s[x] \in Values[D2[x].type])
  <2>1. CASE x \in C BY <1>2, <2>1
  <2>2. CASE x \notin C
    <3>1. View(D, s, x) /\ SameView(D, D2, x) /\ (D[x].owns => s[x] \in Values[D[x].type])
      BY <1>2, <2>2 DEF Typed, SameView
    <3> DEFINE r == D[x].root
    <3>2. r \in Dyns /\ HasAny(D2, r) /\ D2[r].owns BY <1>1, <1>2, <3>1 DEF Rooted, SameView
    <3>3. r \notin C BY <3>2
    <3>4. D2[r].type = D[r].type BY <3>2, <3>3 DEF SameView
    <3>5. D2[x].mem = "ok" => D[x].mem = "ok" BY <3>1 DEF SameView
    <3>6. D2[x].mem = "ok" => Leads(D[r].type, s[r], D[x].path) BY <3>1, <3>5 DEF View
    <3> HIDE DEF r
    <3>7. View(D2, s, x)
      <4>1. r = D[x].root BY DEF r
      <4> QED BY <3>1, <3>4, <3>6, <4>1, ViewKept
    <3> QED BY <3>1, <3>7 DEF SameView
  <2> QED BY <2>1, <2>2
<1> QED BY <1>2 DEF Typed

(* d has a value v of its own now.                                         *)
LEMMA OwnerTyped ==
  ASSUME NEW D, NEW s, NEW D2, NEW s2, Typed(D, s), Right(D2), NEW d \in Dyns,
         \A x \in Dyns \ {d} : HasAny(D2, x) => SameView(D, D2, x) /\ D2[x].root # d,
         s2 = [x \in Dyns |-> s2[x]], \A x \in Dyns \ {d} : s2[x] = s[x],
         D2[d].type \in Types, s2[d] \in Values[D2[d].type],
         D2[d].root = d, D2[d].path = << >>, D2[d].mem = "ok", D2[d].idx \in Int,
         RealKind(D2[d].type) = "array" => D2[d].idx < Length[Real[D2[d].type]]
  PROVE  Typed(D2, s2)
<1>1. Rooted(D2) BY RootsOwn
<1>2. View(D2, s2, d)
  <2>1. Leads(D2[d].type, s2[d], << >>)
    <3>1. << >> \in Seq(Nat) /\ Len(<< >>) = 0 OBVIOUS
    <3>2. 0..Len(<< >>) - 1 = {} BY <3>1
    <3> QED BY <3>1, <3>2 DEF Leads
  <2>2. PathType(D2[d].type, << >>) = D2[d].type
    <3>1. << >> \in Seq(Nat) /\ Len(<< >>) = 0 OBVIOUS
    <3>2. TypesAlong(D2[d].type, << >>)[0] = D2[d].type BY <3>1, TypesAlongDefined
    <3> QED BY <3>1, <3>2 DEF PathType
  <2> QED BY <2>1, <2>2 DEF View
<1>3. ASSUME NEW x \in Dyns \ {d}, HasAny(D2, x)
      PROVE  View(D2, s2, x) /\ (D2[x].owns => s2[x] \in Values[D2[x].type])
  <2>1. View(D, s, x) /\ SameView(D, D2, x) /\ (D[x].owns => s[x] \in Values[D[x].type])
    BY <1>3 DEF Typed, SameView
  <2> DEFINE r == D[x].root
  <2>2. r \in Dyns \ {d} /\ HasAny(D2, r) BY <1>1, <1>3, <2>1 DEF Rooted, SameView
  <2>3. D2[r].type = D[r].type /\ s2[r] = s[r] BY <2>2 DEF SameView
  <2>4. D2[x].mem = "ok" => D[x].mem = "ok" BY <2>1 DEF SameView
  <2>5. D2[x].mem = "ok" => Leads(D[r].type, s2[r], D[x].path)
    BY <2>1, <2>3, <2>4 DEF View
  <2> HIDE DEF r
  <2>6. View(D2, s2, x)
    <3>1. r = D[x].root BY DEF r
    <3> QED BY <2>1, <2>3, <2>5, <3>1, ViewKept
  <2> QED BY <2>1, <2>6, <1>3 DEF SameView
<1> QED BY <1>2, <1>3 DEF Typed

-----------------------------------------------------------------------------
(***************************************************************************)
(* What an object finds at its path and at its cursor.                     *)
(***************************************************************************)
(* One step further.                                                       *)
Further(p, i) == Append(p, i)

LEMMA PartLeads ==
  ASSUME NEW t \in Types, NEW v \in Values[t], NEW p, Leads(t, v, p), NEW i \in Nat,
         RealKind(PathType(t, p)) \in Composite, i + 1 \in DOMAIN Follow(v, p).parts
  PROVE  /\ Leads(t, v, Further(p, i))
         /\ PathType(t, Further(p, i)) = PartType(PathType(t, p), i)
<1> DEFINE q == Further(p, i)
<1>1. p \in Seq(Nat) /\ Len(p) \in Nat BY DEF Leads
<1>2. q \in Seq(Nat) /\ Len(q) = Len(p) + 1 /\ q[Len(p) + 1] = i
      /\ \A k \in 1..Len(p) : q[k] = p[k]
  BY <1>1 DEF Further
<1> HIDE DEF q
<1>3. ASSUME NEW n \in 0..Len(p)
      PROVE  Along(v, p)[n] = Along(v, q)[n] /\ TypesAlong(t, p)[n] = TypesAlong(t, q)[n]
  <2>1. n \in Nat /\ n <= Len(p) /\ n <= Len(q) BY <1>1, <1>2
  <2>4. \A k \in 1..n : k \in 1..Len(p) BY <1>1
  <2>2. Agree(p, q, n) BY <1>2, <2>4 DEF Agree
  <2>3. p \in Seq(Nat) /\ q \in Seq(Nat) BY <1>1, <1>2
  <2> QED BY <2>1, <2>2, <2>3, SameWay
<1>4. ASSUME NEW n \in 0..Len(q) - 1
      PROVE  RealKind(TypesAlong(t, q)[n]) \in Composite
             /\ q[n + 1] + 1 \in DOMAIN Along(v, q)[n].parts
  <2>1. n \in 0..Len(p) BY <1>1, <1>2
  <2>2. CASE n = Len(p) BY <1>2, <1>3, <2>1, <2>2 DEF PathType, Follow
  <2>3. CASE n # Len(p)
    <3>1. n \in 0..Len(p) - 1 /\ n + 1 \in 1..Len(p) BY <1>1, <2>1, <2>3
    <3>2. RealKind(TypesAlong(t, p)[n]) \in Composite
          /\ p[n + 1] + 1 \in DOMAIN Along(v, p)[n].parts
      BY <3>1 DEF Leads
    <3> QED BY <1>2, <1>3, <2>1, <3>1, <3>2
  <2> QED BY <2>2, <2>3
<1>5. PathType(t, q) = PartType(PathType(t, p), i)
  <2>1. Len(p) \in 0..Len(q) - 1 /\ Len(p) \in 0..Len(p) BY <1>1, <1>2
  <2>2. Way(t, v, q, Along(v, q), TypesAlong(t, q)) BY <1>2, WayIs
  <2>3. TypesAlong(t, q)[Len(p) + 1] = PartType(TypesAlong(t, q)[Len(p)], q[Len(p) + 1])
    BY <2>1, <2>2 DEF Way
  <2> QED BY <1>2, <1>3, <2>1, <2>3 DEF PathType
<1> QED BY <1>2, <1>4, <1>5 DEF Leads, q

LEMMA SequenceWidth ==
  ASSUME NEW t \in Types, RealKind(t) = "sequence", NEW v \in Values[t]
  PROVE  \E k \in 0..MaxLen : DOMAIN v.parts = 1..k /\ Len(v.parts) = k
<1>1. v = Parts(v.max, v.parts) /\ WellMade(Real[t], v.max, v.parts)
  BY PartTyped DEF Composite
<1>2. Kind[Real[t]] = "sequence" BY RealPartType
<1>3. PICK k \in 0..MaxLen : DOMAIN v.parts = 1..k BY <1>1, <1>2 DEF WellMade, Widths
<1>4. v.parts = [j \in 1..k |-> v.parts[j]] BY <1>1, <1>3 DEF WellMade
<1>5. k \in Nat BY MaxAssumption
<1>6. v.parts \in Seq({v.parts[j] : j \in 1..k}) BY <1>4, <1>5
<1>7. Len(v.parts) = k BY <1>3, <1>5, <1>6
<1> QED BY <1>3, <1>7

(* A path that ends behind another one.                                    *)
LEMMA StrictPrefix ==
  ASSUME NEW p \in Seq(Nat), NEW q \in Seq(Nat), Len(p) < Len(q), Agree(p, q, Len(p))
  PROVE  IsStrictPrefix(p, q)
<1>1. \A k \in 1..Len(p) : p[k] = q[k] BY DEF Agree
<1>2. SubSeq(p, 1, Len(p)) = SubSeq(q, 1, Len(p)) BY <1>1
<1> QED BY <1>2 DEF IsStrictPrefix, IsPrefix

LEMMA NothingBehind ==
  ASSUME NEW t \in Types, NEW v \in Values[t], NEW p, Leads(t, v, p),
         RealKind(PathType(t, p)) \notin Composite, NEW q, Leads(t, v, q), NEW new
  PROVE  Spares(t, v, p, new, q)
<1> SUFFICES ASSUME Len(p) < Len(q), Agree(p, q, Len(p)) PROVE FALSE BY DEF Spares
<1>1. p \in Seq(Nat) /\ Len(p) \in Nat /\ q \in Seq(Nat) BY DEF Leads
<1>2. TypesAlong(t, p)[Len(p)] = TypesAlong(t, q)[Len(p)] BY <1>1, SameWay
<1>3. Len(p) \in 0..Len(q) - 1 BY <1>1
<1>4. RealKind(TypesAlong(t, q)[Len(p)]) \in Composite BY <1>3 DEF Leads
<1> QED BY <1>2, <1>4 DEF PathType

-----------------------------------------------------------------------------
(* What an object finds, in an application that is careful.                *)
Now == IInv /\ Careful /\ Typed(dyn, store)
RootOf(d) == dyn[d].root
RootType(d) == dyn[dyn[d].root].type
RootValue(d) == store[dyn[d].root]

LEMMA Seen ==
  ASSUME Now, NEW d \in Dyns, Exists(d)
  PROVE  /\ RootOf(d) \in Dyns /\ HasAny(dyn, RootOf(d))
         /\ RootType(d) \in Types /\ RootValue(d) \in Values[RootType(d)]
         /\ TypeOf(d) \in Types /\ dyn[d].idx \in Int /\ dyn[d].mem \in {"ok", "leaked"}
         /\ RealKind(TypeOf(d)) = "array" => dyn[d].idx < Length[Real[TypeOf(d)]]
<1>1. HasAny(dyn, d) /\ View(dyn, store, d)
  BY DEF Now, Typed, Exists, Live, HasAny, IsLive
<1>2. Rooted(dyn) /\ Viewed(dyn) BY RootsOwn DEF Now, IInv, Right
<1>3. dyn[d].mem # "freed" BY <1>1, <1>2 DEF Viewed, Now
<1>4. RootOf(d) \in Dyns /\ HasAny(dyn, RootOf(d)) /\ dyn[RootOf(d)].owns
  BY <1>1, <1>2 DEF Rooted, RootOf
<1>5. View(dyn, store, RootOf(d)) /\ store[RootOf(d)] \in Values[dyn[RootOf(d)].type]
  BY <1>4 DEF Now, Typed
<1> QED BY <1>1, <1>3, <1>4, <1>5 DEF View, RootOf, RootType, RootValue, TypeOf

LEMMA SeenWell ==
  ASSUME Now, NEW d \in Dyns, Exists(d), dyn[d].mem = "ok"
  PROVE  /\ Leads(RootType(d), RootValue(d), dyn[d].path)
         /\ PathType(RootType(d), dyn[d].path) \in Types
         /\ Real[TypeOf(d)] = Real[PathType(RootType(d), dyn[d].path)]
         /\ Values[TypeOf(d)] = Values[PathType(RootType(d), dyn[d].path)]
         /\ ValueOf(d) \in Values[TypeOf(d)]
<1>1. View(dyn, store, d) BY DEF Now, Typed, Exists, Live, HasAny, IsLive
<1>2. RootType(d) \in Types /\ RootValue(d) \in Values[RootType(d)] /\ TypeOf(d) \in Types
  BY Seen
<1> DEFINE t == RootType(d)
           v == RootValue(d)
           p == dyn[d].path
<1>3. Leads(t, v, p) /\ Real[TypeOf(d)] = Real[PathType(t, p)]
  BY <1>1 DEF View, RootType, RootValue, TypeOf
<1>4. ValueOf(d) = Follow(v, p) BY DEF ValueOf, RootValue
<1> HIDE DEF t, v, p
<1>5. p \in Seq(Nat) /\ Len(p) \in 0..Len(p) BY <1>3 DEF Leads
<1>6. PathType(t, p) \in Types /\ Follow(v, p) \in Values[PathType(t, p)]
  BY <1>2, <1>3, <1>5, LeadsTyped DEF t, v, PathType, Follow
<1>7. Values[TypeOf(d)] = Values[PathType(t, p)]
  <2>1. Values[Real[TypeOf(d)]] = Values[TypeOf(d)]
        /\ Values[Real[PathType(t, p)]] = Values[PathType(t, p)]
    BY <1>2, <1>6, RealRight
  <2> QED BY <1>3, <2>1
<1> QED BY <1>3, <1>4, <1>6, <1>7 DEF t, v, p

(* It may be read as a value of its type.                                  *)
LEMMA AlwaysReadable ==
  ASSUME Now, NEW d \in Dyns, Exists(d)
  PROVE  Readable(d)
BY Seen, SeenWell DEF Readable

LEMMA KindsOfReal ==
  ASSUME NEW t \in Types
  PROVE  Kind[Real[t]] \in Kinds \ {"alias"} /\ RealKind(t) = Kind[Real[t]]
BY RealRight, TypesAssumption DEF RealKind

(* Where the cursor stands there is a part of the type that it says.       *)
LEMMA AtCursor ==
  ASSUME Now, NEW d \in Dyns, Exists(d), NEW v \in Found(d), NEW path \in CurPath(d, v),
         CurType(d) # NoType
  PROVE  /\ CurType(d) \in Types
         /\ dyn[d].mem = "ok" =>
              /\ Leads(RootType(d), RootValue(d), path)
              /\ Real[CurType(d)] = Real[PathType(RootType(d), path)]
<1> DEFINE t == TypeOf(d)
           u == Real[t]
           i == dyn[d].idx
           p == dyn[d].path
<1>1. t \in Types /\ i \in Int /\ (Kind[u] = "array" => i < Length[u])
  BY Seen, KindsOfReal
<1>2. u \in Types /\ Real[u] = u /\ Kind[u] \in Kinds \ {"alias"} /\ Subtypes[u] \in Seq(Types)
      /\ RealKind(t) = Kind[u] /\ Real[u] = Real[t]
  BY <1>1, RealRight, KindsOfReal, TypesAssumption
<1>3. CASE Single(t)
  <2>1. path = p BY <1>2, <1>3 DEF CurPath, PathAt, Single, RealKind
  <2>2. CurType(d) = u BY <1>2, <1>3 DEF CurType, TypeAt, Single, RealKind
  <2>3. Real[CurType(d)] = Real[t] BY <1>2, <2>2
  <2>4. dyn[d].mem = "ok" => /\ Leads(RootType(d), RootValue(d), p)
                             /\ Real[t] = Real[PathType(RootType(d), p)]
    BY SeenWell
  <2> HIDE DEF t, u, p
  <2> QED BY <1>2, <2>1, <2>2, <2>3, <2>4
<1>4. CASE ~ Single(t)
  <2>1. ~ Single(u) BY <1>2, <1>4 DEF Single, RealKind
  <2>2. /\ path = Append(p, i) /\ i \in Nat /\ Kind[u] # "union"
        /\ Kind[u] = "sequence" => i < Len(v.parts)
    BY <1>1, <2>1 DEF CurPath, PathAt
  <2>3. Kind[u] \in Composite BY <1>2, <2>1, <2>2 DEF Kinds, Single, RealKind, Composite
  <2>4. CurType(d) = PartType(u, i) /\ CurType(d) \in Types
        /\ (Kind[u] \in {"struct", "except"} => i + 1 \in DOMAIN Subtypes[u])
    <3>1. CASE Kind[u] \in {"sequence", "array"}
      <4>1. CurType(d) = Subtypes[u][1] BY <2>1, <3>1 DEF CurType, TypeAt
      <4> QED BY <1>2, <2>3, <3>1, <4>1, PartTypes
    <3>2. CASE Kind[u] \in {"struct", "except"}
      <4>1. i \in 0..SubParts(u) - 1 /\ CurType(d) = Subtypes[u][i + 1]
        BY <2>1, <3>2 DEF CurType, TypeAt
      <4>2. i + 1 \in DOMAIN Subtypes[u] BY <1>2, <2>2, <3>2, <4>1 DEF SubParts
      <4> DEFINE j == i + 1
      <4>4. j - 1 = i BY <1>1
      <4> HIDE DEF j, u
      <4>3. PartType(u, j - 1) = Subtypes[u][j] /\ PartType(u, j - 1) \in Types
        BY <1>2, <2>3, <3>2, <4>2, PartTypes DEF j
      <4> USE DEF j
      <4> QED BY <4>1, <4>2, <4>3, <4>4
    <3> QED BY <2>3, <3>1, <3>2 DEF Composite
  <2>5. ASSUME dyn[d].mem = "ok"
        PROVE  /\ Leads(RootType(d), RootValue(d), path)
               /\ Real[CurType(d)] = Real[PathType(RootType(d), path)]
    <3> DEFINE T == RootType(d)
               V == RootValue(d)
    <3>1. /\ Leads(T, V, p) /\ PathType(T, p) \in Types
          /\ u = Real[PathType(T, p)] /\ ValueOf(d) \in Values[t]
      BY <2>5, SeenWell
    <3>2. Follow(V, p) = ValueOf(d) BY DEF ValueOf, RootValue
    <3>3. T \in Types /\ V \in Values[T] BY Seen
    <3>4. Kind[u] = "sequence" => v = ValueOf(d) BY <1>2, <2>5 DEF Found
    <3> HIDE DEF T, V, p, i, t
    <3>5. WellMade(u, Follow(V, p).max, Follow(V, p).parts)
      BY <1>1, <1>2, <2>3, <3>1, <3>2, PartTyped
    <3>6. i + 1 \in DOMAIN Follow(V, p).parts
      <4>1. CASE Kind[u] = "sequence"
        <5>1. PICK k \in 0..MaxLen : DOMAIN v.parts = 1..k /\ Len(v.parts) = k
          BY <1>1, <1>2, <3>1, <3>4, <4>1, SequenceWidth
        <5> QED BY <2>2, <3>2, <3>4, <4>1, <5>1, MaxAssumption
      <4>2. CASE Kind[u] = "array"
        <5>1. DOMAIN Follow(V, p).parts = 1..Length[u] BY <3>5, <4>2 DEF WellMade, Widths
        <5>2. Length[u] \in Nat BY <1>2, TypesAssumption
        <5> QED BY <1>1, <2>2, <4>2, <5>1, <5>2
      <4>3. CASE Kind[u] \in {"struct", "except"}
        <5>1. DOMAIN Follow(V, p).parts = DOMAIN Subtypes[u]
          BY <3>5, <4>3 DEF WellMade, Widths
        <5> QED BY <2>4, <4>3, <5>1
      <4> QED BY <2>3, <4>1, <4>2, <4>3 DEF Composite
    <3>7. RealKind(PathType(T, p)) \in Composite BY <2>3, <3>1 DEF RealKind
    <3> HIDE DEF u
    <3>10. i \in Nat /\ path = Append(p, i) /\ Leads(T, V, p) BY <2>2, <3>1
    <3>8. Leads(T, V, path) /\ PathType(T, path) = PartType(PathType(T, p), i)
      
      <4>1. path = Further(p, i) BY <3>10 DEF Further
      <4> QED BY <3>10, <3>3, <3>6, <3>7, <4>1, PartLeads
    <3>9. PartType(PathType(T, p), i) = PartType(u, i) BY <3>1, RealPartType
    <3> QED BY <2>4, <3>8, <3>9 DEF T, V
  <2> QED BY <2>4, <2>5
<1> QED BY <1>3, <1>4

-----------------------------------------------------------------------------
(***************************************************************************)
(* The operations again, for the second invariant.                         *)
(***************************************************************************)
(* A call that does nothing but raise an exception or stop the process.    *)
LEMMA StayTyped ==
  ASSUME Now, crash # "value",
         (\E e : Raise(e)) \/ Nothing \/ (\E why : why # "value" /\ Stop(why))
  PROVE  Typed(dyn', store') /\ crash' # "value"
BY DEF Now, Raise, Nothing, Stop, vars

(* Creation.                                                               *)
LEMMA MasterTyped ==
  ASSUME Now, crash # "value", NEW d \in Dyns, NEW t \in Types, NEW v \in Values[t],
         Free(d), Master(d, t, v), Done
  PROVE  Typed(dyn', store') /\ crash' # "value"
<1> DEFINE new == [Unused EXCEPT !.life = "live", !.any = TRUE,
                                 !.type = t, !.owns = TRUE, !.root = d]
<1>1. Right(dyn) /\ Shaped(dyn) /\ Typed(dyn, store) /\ Right(dyn')
  BY MasterStep DEF Now, IInv, Right
<1>2. /\ new.type = t /\ new.root = d /\ new.path = << >> /\ new.mem = "ok" /\ new.idx = 0
  BY DEF Unused
<1>3. dyn' = [dyn EXCEPT ![d] = new] /\ store' = [store EXCEPT ![d] = v] BY DEF Master
<1> HIDE DEF new
<1>4. /\ dyn'[d] = new /\ \A x \in Dyns \ {d} : dyn'[x] = dyn[x]
      /\ store' = [x \in Dyns |-> store'[x]]
      /\ store'[d] = v /\ \A x \in Dyns \ {d} : store'[x] = store[x]
  BY <1>1, <1>3 DEF Shaped, Typed
<1>5. ASSUME NEW x \in Dyns \ {d}, HasAny(dyn', x)
      PROVE  SameView(dyn, dyn', x) /\ dyn'[x].root # d
  <2>1. dyn'[x] = dyn[x] /\ HasAny(dyn, x) BY <1>4, <1>5 DEF HasAny, IsLive
  <2>2. Exists(x) BY <2>1 DEF Exists, Live, HasAny, IsLive
  <2>3. HasAny(dyn, dyn[x].root) BY <2>2, Seen DEF RootOf
  <2>4. ~ HasAny(dyn, d) BY DEF Free, Live, HasAny, IsLive
  <2> QED BY <2>1, <2>3, <2>4 DEF SameView
<1>6. RealKind(t) = "array" => 0 < Length[Real[t]]
  BY RealRight, KindsOfReal, PartsAssumption, TypesAssumption
<1>7. Typed(dyn', store')
  <2> DEFINE D2 == dyn'
             s2 == store'
  <2>1. D2[d] = new /\ s2[d] = v BY <1>4
  <2>2. Typed(dyn, store) /\ Right(D2) /\ D2[d].type \in Types
        /\ s2[d] \in Values[D2[d].type] /\ D2[d].root = d /\ D2[d].path = << >>
        /\ D2[d].mem = "ok" /\ D2[d].idx \in Int
        /\ (RealKind(D2[d].type) = "array" => D2[d].idx < Length[Real[D2[d].type]])
    BY <1>1, <1>2, <1>6, <2>1
  <2>3. s2 = [x \in Dyns |-> s2[x]] /\ \A x \in Dyns \ {d} : s2[x] = store[x] BY <1>4
  <2>4. \A x \in Dyns \ {d} : HasAny(D2, x) => SameView(dyn, D2, x) /\ D2[x].root # d
    BY <1>5
  <2> HIDE DEF D2, s2
  <2>5. Typed(D2, s2) BY <2>2, <2>3, <2>4, OwnerTyped
  <2> QED BY <2>5 DEF D2, s2
<1> QED BY <1>7 DEF Done

LEMMA CreateTyped ==
  ASSUME Now, crash # "value", NEW d \in Dyns, NEW t \in Types, NEW v \in Given[t],
         CreateDynAny(d, t, v) \/ CreateFromType(d, t)
  PROVE  Typed(dyn', store') /\ crash' # "value"
<1>1. v \in Values[t] BY GivenAssumption
<1>2. Copy[t][v] \in Values[t] /\ Default[t] \in Values[t] BY <1>1, CopyTyped, DefaultTyped
<1>3. Free(d) /\ Done BY DEF CreateDynAny, CreateFromType
<1> DEFINE c == Copy[t][v]
           e == Default[t]
<1>4. Master(d, t, c) \/ Master(d, t, e) BY DEF CreateDynAny, CreateFromType
<1>5. c \in Values[t] /\ e \in Values[t] BY <1>2
<1> HIDE DEF c, e
<1> QED BY <1>3, <1>4, <1>5, MasterTyped

(* New components, which see a part of what their parent sees.             *)
LEMMA ComponentView ==
  ASSUME Now, NEW d \in Dyns, Exists(d), NEW D2, NEW c,
         D2[c].type \in Types, D2[c].root = dyn[d].root, D2[c].mem = dyn[d].mem,
         D2[c].idx = 0, ~ D2[c].owns,
         D2[dyn[d].root].type = RootType(d),
         dyn[d].mem = "ok" =>
           /\ Leads(RootType(d), RootValue(d), D2[c].path)
           /\ Real[D2[c].type] = Real[PathType(RootType(d), D2[c].path)]
  PROVE  View(D2, store, c)
<1>1. dyn[d].mem \in {"ok", "leaked"} BY Seen
<1>2. RealKind(D2[c].type) = "array" => 0 < Length[Real[D2[c].type]]
  BY RealRight, KindsOfReal, PartsAssumption, TypesAssumption
<1> QED BY <1>1, <1>2 DEF View, RootType, RootValue

LEMMA LinkedTyped ==
  ASSUME Now, crash # "value", NEW d \in Dyns, Exists(d), NEW o \in Dyns, Exists(o),
         NEW c \in Dyns, Free(c), NEW t \in Types, NEW path, Right(dyn'),
         dyn' = [Linked(c, t, path, d) EXCEPT ![c].mem = dyn[o].mem],
         dyn[d].root = dyn[o].root, store' = store, Done,
         dyn[o].mem = "ok" =>
           /\ Leads(RootType(o), RootValue(o), path)
           /\ Real[t] = Real[PathType(RootType(o), path)]
  PROVE  Typed(dyn', store') /\ crash' # "value"
<1> DEFINE m == dyn[o].mem
           new == [Component(c, t, path, d) EXCEPT !.mem = m]
           par == [dyn[d] EXCEPT !.children = @ \cup {c}]
<1>1. Shaped(dyn) /\ Typed(dyn, store) BY DEF Now, IInv, Right
<1>2. c # d /\ ~ HasAny(dyn, c) BY DEF Free, Exists, Live, HasAny, IsLive
<1>3. /\ new.type = t /\ new.owns = FALSE /\ new.root = dyn[d].root /\ new.mem = m
      /\ new.path = path /\ new.idx = 0
  BY DEF Component, Unused
<1>4. /\ par.life = dyn[d].life /\ par.any = dyn[d].any /\ par.type = dyn[d].type
      /\ par.owns = dyn[d].owns /\ par.root = dyn[d].root /\ par.mem = dyn[d].mem
      /\ par.path = dyn[d].path /\ par.idx = dyn[d].idx
  BY <1>1 DEF Shaped, Used
<1>5. dyn' = [x \in Dyns |-> IF x = c THEN new ELSE IF x = d THEN par ELSE dyn[x]]
  <2> DEFINE comp == Component(c, t, path, d)
             lnk == Linked(c, t, path, d)
  <2>1. lnk = [dyn EXCEPT ![c] = comp, ![d].children = @ \cup {c}] BY DEF Linked
  <2> HIDE DEF comp
  <2>2. lnk = [x \in Dyns |-> IF x = c THEN comp ELSE IF x = d THEN par ELSE dyn[x]]
    BY <2>1, <1>1, <1>2 DEF Shaped
  <2>3. dyn' = [lnk EXCEPT ![c].mem = m] OBVIOUS
  <2> HIDE DEF lnk, par
  <2>4. dyn' = [x \in Dyns |-> IF x = c THEN [lnk[c] EXCEPT !.mem = m] ELSE lnk[x]]
    BY <2>2, <2>3
  <2>5. lnk[c] = comp BY <2>2
  <2>6. new = [lnk[c] EXCEPT !.mem = m] BY <2>5 DEF comp
  <2> HIDE DEF new
  <2> QED BY <2>2, <2>4, <2>6
<1> HIDE DEF new, par, m
<1>6. /\ dyn'[c] = new /\ dyn'[d] = par
      /\ \A x \in Dyns \ {c, d} : dyn'[x] = dyn[x]
  BY <1>2, <1>5
<1>7. ASSUME NEW x \in Dyns \ {c}, HasAny(dyn', x) PROVE SameView(dyn, dyn', x)
  <2>1. CASE x = d BY <1>4, <1>6, <1>7, <2>1 DEF SameView, HasAny, IsLive
  <2>2. CASE x # d BY <1>6, <1>7, <2>2 DEF SameView, HasAny, IsLive
  <2> QED BY <2>1, <2>2
<1>8. dyn'[dyn[o].root].type = RootType(o)
  <2>1. RootOf(o) \in Dyns /\ HasAny(dyn, RootOf(o)) BY Seen
  <2>2. RootOf(o) # c BY <1>2, <2>1
  <2> QED BY <1>4, <1>6, <2>1, <2>2 DEF RootOf, RootType
<1>9. View(dyn', store, c)
  <2> DEFINE D2 == dyn'
  <2>1. D2[c].type = t /\ D2[c].root = dyn[o].root /\ D2[c].mem = dyn[o].mem
        /\ D2[c].idx = 0 /\ ~ D2[c].owns /\ D2[c].path = path
        /\ D2[dyn[o].root].type = RootType(o)
    BY <1>3, <1>6, <1>8 DEF m
  <2> HIDE DEF D2
  <2>2. View(D2, store, c) BY <2>1, ComponentView
  <2> QED BY <2>2 DEF D2
<1>10. Typed(dyn', store)
  <2> DEFINE C == {c}
             D2 == dyn'
  <2>1. \A x \in Dyns : HasAny(D2, x) =>
          IF x \in C THEN View(D2, store, x) /\ ~ D2[x].owns ELSE SameView(dyn, D2, x)
    BY <1>3, <1>6, <1>7, <1>9
  <2>2. Right(D2) /\ Typed(dyn, store) BY <1>1
  <2> HIDE DEF C, D2
  <2>3. Typed(D2, store) BY <2>1, <2>2, NewTyped
  <2> QED BY <2>3 DEF D2
<1> QED BY <1>10 DEF Done

LEMMA CopyStepTyped ==
  ASSUME Now, crash # "value", NEW d \in Dyns, NEW c \in Dyns, CopyDynAny(d, c)
  PROVE  Typed(dyn', store') /\ crash' # "value"
<1>1. Live(d) /\ Free(c) BY DEF CopyDynAny
<1>2. CASE ~ dyn[d].any
  <2>1. Raise("OBJECT_NOT_EXIST") BY <1>2 DEF CopyDynAny
  <2> QED BY <2>1, StayTyped
<1>3. CASE dyn[d].any /\ dyn[d].parent = None
  <2>1. Exists(d) BY <1>1, <1>3 DEF Exists
  <2>2. Readable(d) /\ TypeOf(d) \in Types BY <2>1, AlwaysReadable, Seen
  <2> DEFINE v == Copy[TypeOf(d)][ValueOf(d)]
             t == TypeOf(d)
  <2>3. Master(c, t, v) /\ Done BY <1>3, <2>2 DEF CopyDynAny
  <2>4. dyn[d].mem = "ok"
    <3>1. dyn[d].owns BY <1>1, <1>3 DEF Now, IInv, Right, Linking, Live, IsLive
    <3>2. View(dyn, store, d) BY <2>1 DEF Now, Typed, Exists, Live, HasAny, IsLive
    <3> QED BY <3>1, <3>2 DEF View
  <2>5. ValueOf(d) \in Values[TypeOf(d)] BY <2>1, <2>4, SeenWell
  <2>6. v \in Values[t] /\ t \in Types BY <2>2, <2>5, CopyTyped
  <2> HIDE DEF v, t
  <2> QED BY <1>1, <2>3, <2>6, MasterTyped
<1>4. CASE dyn[d].any /\ dyn[d].parent # None
  <2> DEFINE p == dyn[d].parent
             t == TypeOf(d)
             path == dyn[d].path
  <2>1. /\ dyn' = [Linked(c, t, path, p) EXCEPT ![c].mem = dyn[d].mem]
        /\ Done /\ store' = store
    BY <1>4 DEF CopyDynAny
  <2>2. IInv BY DEF Now
  <2>3. p \in Dyns /\ Exists(p) BY <1>1, <1>4, <2>2, ParentExists
  <2>4. Right(dyn') BY <2>2, CopyStep DEF IInv
  <2>5. Exists(d) BY <1>1, <1>4 DEF Exists
  <2>6. dyn[p].root = dyn[d].root
    BY <1>4, <2>2, <2>5 DEF IInv, Right, Roots, Exists, Live, HasAny, IsLive
  <2>7. t \in Types BY <2>5, Seen
  <2>8. dyn[d].mem = "ok" => /\ Leads(RootType(d), RootValue(d), path)
                             /\ Real[t] = Real[PathType(RootType(d), path)]
    BY <2>5, SeenWell
  <2> HIDE DEF p, t, path
  <2> QED BY <1>1, <2>1, <2>3, <2>4, <2>5, <2>6, <2>7, <2>8, LinkedTyped
<1> QED BY <1>2, <1>3, <1>4

LEMMA ComponentTyped ==
  ASSUME Now, crash # "value", NEW d \in Dyns, NEW c \in Dyns, CurrentComponent(d, c)
  PROVE  Typed(dyn', store') /\ crash' # "value"
<1>1. Live(d) /\ Free(c) BY DEF CurrentComponent
<1>2. Exists(d) => Readable(d) BY AlwaysReadable
<1>3. \/ Raise("OBJECT_NOT_EXIST") \/ Nothing \/ Raise("TypeMismatch")
      \/ Raise("BAD_PARAM") \/ Stop("assert")
      \/ /\ Exists(d) /\ Done /\ CurType(d) # NoType /\ store' = store
         /\ \E v \in Found(d) : \E path \in CurPath(d, v) :
              dyn' = Linked(c, CurType(d), path, d)
  BY <1>1, <1>2 DEF CurrentComponent, Exists
<1>4. ASSUME Exists(d), Done, CurType(d) # NoType, store' = store,
             NEW v \in Found(d), NEW path \in CurPath(d, v),
             dyn' = Linked(c, CurType(d), path, d)
      PROVE  Typed(dyn', store') /\ crash' # "value"
  <2> DEFINE t == CurType(d)
             comp == Component(c, t, path, d)
             lnk == Linked(c, t, path, d)
             m == dyn[d].mem
  <2>1. dyn' = lnk BY <1>4
  <2>2. lnk = [dyn EXCEPT ![c] = comp, ![d].children = @ \cup {c}] BY DEF Linked
  <2>3. Shaped(dyn) /\ c # d
    BY <1>1, <1>4 DEF Now, IInv, Right, Free, Live, Exists
  <2>4. lnk = [x \in Dyns |-> IF x = c THEN comp ELSE lnk[x]]
    <3> DEFINE par == [dyn[d] EXCEPT !.children = @ \cup {c}]
    <3> HIDE DEF comp
    <3>1. lnk = [x \in Dyns |-> IF x = c THEN comp ELSE IF x = d THEN par ELSE dyn[x]]
      BY <2>2, <2>3 DEF Shaped
    <3> HIDE DEF lnk, par
    <3> QED BY <3>1
  <2>5. comp = [comp EXCEPT !.mem = m] BY DEF Component, Unused
  <2>6. dyn' = [lnk EXCEPT ![c].mem = m]
    <3> HIDE DEF lnk, comp, m
    <3>1. lnk[c] = comp BY <2>4
    <3>2. [lnk EXCEPT ![c].mem = m] = [x \in Dyns |->
             IF x = c THEN [lnk[c] EXCEPT !.mem = m] ELSE lnk[x]]
      BY <2>4
    <3>3. [lnk EXCEPT ![c].mem = m] = [x \in Dyns |-> IF x = c THEN comp ELSE lnk[x]]
      BY <3>1, <3>2, <2>5
    <3> QED BY <3>3, <2>1, <2>4
  <2>7. Right(dyn') BY ComponentStep DEF Now, IInv
  <2>8. /\ t \in Types
        /\ dyn[d].mem = "ok" => /\ Leads(RootType(d), RootValue(d), path)
                                /\ Real[t] = Real[PathType(RootType(d), path)]
    BY <1>4, AtCursor
  <2> HIDE DEF t
  <2>9. dyn' = [Linked(c, t, path, d) EXCEPT ![c].mem = dyn[d].mem] BY <2>6
  <2>10. dyn[d].root = dyn[d].root OBVIOUS
  <2> QED BY <1>1, <1>4, <2>7, <2>8, <2>9, <2>10, LinkedTyped
<1> QED BY <1>3, <1>4, StayTyped

LEMMA MembersTyped ==
  ASSUME Now, crash # "value", NEW d \in Dyns, NEW cs \in Pairs, MembersAsDynAny(d, cs)
  PROVE  Typed(dyn', store') /\ crash' # "value"
<1> DEFINE C == Range(cs)
           t == TypeOf(d)
           first == IF Kind[t] = "alias" THEN dyn[d].path ELSE Append(dyn[d].path, 0)
           sub(x) == Subtypes[t][CHOOSE i \in DOMAIN cs : cs[i] = x]
           new(x) == Component(x, sub(x), first, d)
           par == [dyn[d] EXCEPT !.children = @ \cup C]
<1>1. Live(d) /\ \A i \in DOMAIN cs : Free(cs[i]) BY DEF MembersAsDynAny
<1>2. \/ Raise("OBJECT_NOT_EXIST") \/ Raise("TypeMismatch")
      \/ /\ dyn[d].any /\ Done /\ RealKind(t) = "struct" /\ Len(cs) = SubParts(t)
         /\ \A i \in DOMAIN cs : Subtypes[t][i] = Subtypes[t][1]
         /\ store' = store
         /\ dyn' = [x \in Dyns |-> IF x = d THEN par ELSE IF x \in C THEN new(x)
                                   ELSE dyn[x]]
  BY DEF MembersAsDynAny, Now
<1>3. C \in SUBSET Dyns /\ (\A c \in C : Free(c)) /\ DOMAIN cs = 1..2 /\ Len(cs) = 2
  <2>1. cs \in [1..2 -> Dyns] /\ C = {cs[i] : i \in DOMAIN cs} BY DEF Pairs, Range
  <2>2. cs \in Seq(Dyns) BY <2>1
  <2>3. Len(cs) = 2 BY <2>1, <2>2
  <2> QED BY <2>1, <2>3, <1>1
<1>4. CASE /\ dyn[d].any /\ Done /\ RealKind(t) = "struct" /\ Len(cs) = SubParts(t)
           /\ \A i \in DOMAIN cs : Subtypes[t][i] = Subtypes[t][1]
           /\ store' = store
           /\ dyn' = [x \in Dyns |-> IF x = d THEN par ELSE IF x \in C THEN new(x)
                                     ELSE dyn[x]]
  <2>1. Right(dyn') /\ Shaped(dyn) /\ Typed(dyn, store)
    BY MembersStep DEF Now, IInv, Right
  <2>2. Exists(d) /\ HasAny(dyn, d) BY <1>1, <1>4 DEF Exists, HasAny, IsLive, Live
  <2>3. \A c \in C : c # d /\ ~ HasAny(dyn, c)
    BY <1>3, <2>2 DEF Free, Live, HasAny, IsLive
  <2>4. t \in Types BY <2>2, Seen
  <2>5. Subtypes[t] \in Seq(Types) BY <2>4, TypesAssumption
  <2>6. Kind[t] # "alias" /\ Len(Subtypes[t]) = 2
    <3>1. Kind[t] # "union"
      <4> SUFFICES ASSUME Kind[t] = "union" PROVE FALSE OBVIOUS
      <4>1. Real[t] = t BY <2>4, RealDefined
      <4> QED BY <1>4, <4>1 DEF RealKind
    <3>2. Len(Subtypes[t]) = 2 BY <1>3, <1>4, <3>1 DEF SubParts
    <3> QED BY <2>4, <3>2, PartsAssumption
  <2>7. Real[t] = t BY <2>4, <2>6, RealDefined
  <2>8. Kind[t] = "struct" BY <1>4, <2>7 DEF RealKind
  <2>9. 1 \in DOMAIN Subtypes[t] /\ Subtypes[t][1] \in Types BY <2>5, <2>6
  <2>10. PartType(t, 0) = Subtypes[t][1] BY <2>7, <2>8 DEF PartType, RealKind
  <2>11. \A x \in C : sub(x) = PartType(t, 0) /\ sub(x) \in Types
    <3> SUFFICES ASSUME NEW x \in C PROVE sub(x) = PartType(t, 0)
      BY <2>9, <2>10
    <3>1. \E i \in DOMAIN cs : cs[i] = x BY DEF Range
    <3>2. (CHOOSE i \in DOMAIN cs : cs[i] = x) \in DOMAIN cs BY <3>1
    <3> QED BY <1>4, <2>10, <3>2
  <2>12. first = Further(dyn[d].path, 0) BY <2>6 DEF Further
  <2> HIDE DEF first, sub
  <2>13. dyn[d].mem = "ok" =>
           /\ Leads(RootType(d), RootValue(d), first)
           /\ PartType(t, 0) = PathType(RootType(d), first)
    <3> SUFFICES ASSUME dyn[d].mem = "ok"
                 PROVE  /\ Leads(RootType(d), RootValue(d), first)
                        /\ PartType(t, 0) = PathType(RootType(d), first)
      OBVIOUS
    <3> DEFINE T == RootType(d)
               V == RootValue(d)
               p == dyn[d].path
               z == 0
    <3>1. /\ T \in Types /\ V \in Values[T] /\ Leads(T, V, p)
          /\ PathType(T, p) \in Types /\ Real[t] = Real[PathType(T, p)]
          /\ ValueOf(d) \in Values[t]
      BY <2>2, Seen, SeenWell
    <3>2. Follow(V, p) = ValueOf(d) BY DEF ValueOf, RootValue
    <3>3. z + 1 \in DOMAIN Follow(V, p).parts
      <4>1. RealKind(t) \in Composite BY <1>4 DEF Composite
      <4>2. WellMade(t, ValueOf(d).max, ValueOf(d).parts)
        BY <2>4, <2>7, <3>1, <4>1, PartTyped
      <4> QED BY <2>8, <2>9, <3>2, <4>2 DEF WellMade, Widths
    <3>4. RealKind(PathType(T, p)) \in Composite /\ z \in Nat
      BY <1>4, <3>1 DEF RealKind, Composite
    <3>5. PartType(PathType(T, p), z) = PartType(t, 0)
      BY <2>4, <3>1, RealPartType
    <3>6. first = Further(p, z) BY <2>12
    <3> HIDE DEF T, V, p, z
    <3>7. Leads(T, V, first) /\ PathType(T, first) = PartType(PathType(T, p), z)
      BY <3>1, <3>3, <3>4, <3>6, PartLeads
    <3> QED BY <3>5, <3>7 DEF T, V
  <2>14. \A x \in C : /\ new(x).type = sub(x) /\ new(x).owns = FALSE
                      /\ new(x).root = dyn[d].root /\ new(x).mem = dyn[d].mem
                      /\ new(x).path = first /\ new(x).idx = 0
    BY DEF Component, Unused
  <2>15. /\ par.life = dyn[d].life /\ par.any = dyn[d].any /\ par.type = dyn[d].type
         /\ par.owns = dyn[d].owns /\ par.root = dyn[d].root /\ par.mem = dyn[d].mem
         /\ par.path = dyn[d].path /\ par.idx = dyn[d].idx
    BY <2>1 DEF Shaped, Used
  <2> HIDE DEF new, par, C
  <2>16. /\ dyn'[d] = par /\ \A x \in C : dyn'[x] = new(x)
         /\ \A x \in Dyns \ C : x # d => dyn'[x] = dyn[x]
    BY <1>3, <1>4, <2>3
  <2>17. ASSUME NEW x \in Dyns \ C, HasAny(dyn', x) PROVE SameView(dyn, dyn', x)
    <3>1. CASE x = d BY <2>15, <2>16, <2>17, <3>1 DEF SameView, HasAny, IsLive
    <3>2. CASE x # d BY <2>16, <2>17, <3>2 DEF SameView, HasAny, IsLive
    <3> QED BY <3>1, <3>2
  <2>18. dyn'[dyn[d].root].type = RootType(d)
    <3>1. RootOf(d) \in Dyns /\ HasAny(dyn, RootOf(d)) BY <2>2, Seen
    <3>2. RootOf(d) \notin C BY <2>3, <3>1
    <3> QED BY <2>15, <2>16, <3>1, <3>2 DEF RootOf, RootType
  <2>19. ASSUME NEW c \in C PROVE View(dyn', store, c)
    <3> DEFINE D2 == dyn'
    <3>1. D2[c].type = PartType(t, 0) /\ D2[c].type \in Types
          /\ D2[c].root = dyn[d].root /\ D2[c].mem = dyn[d].mem
          /\ D2[c].idx = 0 /\ ~ D2[c].owns /\ D2[c].path = first
          /\ D2[dyn[d].root].type = RootType(d)
      BY <2>11, <2>14, <2>16, <2>18
    <3> HIDE DEF D2
    <3>2. dyn[d].mem = "ok" =>
           /\ Leads(RootType(d), RootValue(d), D2[c].path)
           /\ Real[D2[c].type] = Real[PathType(RootType(d), D2[c].path)]
      BY <2>13, <3>1
    <3>3. View(D2, store, c) BY <2>2, <3>1, <3>2, ComponentView
    <3> QED BY <3>3 DEF D2
  <2>20. Typed(dyn', store)
    <3> DEFINE D2 == dyn'
    <3>1. \A x \in Dyns : HasAny(D2, x) =>
            IF x \in C THEN View(D2, store, x) /\ ~ D2[x].owns ELSE SameView(dyn, D2, x)
      BY <2>14, <2>16, <2>17, <2>19
    <3>2. Right(D2) /\ Typed(dyn, store) BY <2>1
    <3> HIDE DEF D2
    <3>3. Typed(D2, store) BY <3>1, <3>2, NewTyped
    <3> QED BY <3>3 DEF D2
  <2> QED BY <1>4, <2>20 DEF Done
<1> QED BY <1>2, <1>4, StayTyped

(* The cursor of an array stays within it.                                 *)
LEMMA SeekTyped ==
  ASSUME Now, crash # "value", NEW d \in Dyns, NEW i \in Int, Seek(d, i)
  PROVE  Typed(dyn', store') /\ crash' # "value"
<1>1. Live(d) BY DEF Seek
<1>2. Exists(d) => Readable(d) BY AlwaysReadable
<1>3. \/ Raise("OBJECT_NOT_EXIST")
      \/ /\ Exists(d) /\ Done /\ store' = store
         /\ \E v \in Found(d) : dyn' = [dyn EXCEPT ![d].idx = SeekIdx(d, i, v)]
  BY <1>1, <1>2 DEF Seek, Exists
<1>4. ASSUME Exists(d), Done, store' = store, NEW v \in Found(d),
             dyn' = [dyn EXCEPT ![d].idx = SeekIdx(d, i, v)]
      PROVE  Typed(dyn', store') /\ crash' # "value"
  <2> DEFINE k == SeekIdx(d, i, v)
             new == [dyn[d] EXCEPT !.idx = k]
  <2>1. Shaped(dyn) /\ Typed(dyn, store) /\ Right(dyn') BY SeekStep DEF Now, IInv, Right
  <2>2. TypeOf(d) \in Types BY <1>4, Seen
  <2>3. k \in Int /\ (RealKind(TypeOf(d)) = "array" => k < Length[Real[TypeOf(d)]])
    <3> DEFINE u == Real[TypeOf(d)]
    <3>1. u \in Types /\ Kind[u] \in Kinds \ {"alias"} /\ RealKind(TypeOf(d)) = Kind[u]
          /\ Real[u] = u
      BY <2>2, RealRight, KindsOfReal
    <3>2. Length[u] \in Nat BY <3>1, TypesAssumption
    <3>3. Single(u) <=> Kind[u] \in {"single", "enum"} BY <3>1 DEF Single, RealKind
    <3>4. CASE Single(u)
      <4>1. k = -1 BY <3>3, <3>4 DEF SeekIdx
      <4> QED BY <3>1, <3>2, <3>3, <3>4, <4>1
    <3>5. CASE Kind[u] = "union"
      <4>1. k = -1 \/ k = i BY <3>3, <3>5 DEF SeekIdx
      <4> QED BY <3>1, <3>5, <4>1
    <3>6. CASE ~ Single(u) /\ Kind[u] # "union"
      <4>1. k = IF i \in 0..Count(d, v) - 1 THEN i ELSE -1 BY <3>6 DEF SeekIdx
      <4>2. Kind[u] = "array" => Count(d, v) = Length[u] BY DEF Count
      <4> HIDE DEF k, u
      <4> QED BY <3>1, <3>2, <4>1, <4>2 DEF u
    <3> QED BY <3>4, <3>5, <3>6
  <2>4. /\ new.life = dyn[d].life /\ new.any = dyn[d].any /\ new.owns = dyn[d].owns
        /\ new.root = dyn[d].root /\ new.mem = dyn[d].mem /\ new.path = dyn[d].path
        /\ new.type = dyn[d].type /\ new.idx = k
    BY <2>1 DEF Shaped, Used
  <2>5. dyn'[d] = new /\ \A x \in Dyns \ {d} : dyn'[x] = dyn[x]
    BY <1>4, <2>1 DEF Shaped
  <2> HIDE DEF new, k
  <2>6. ASSUME NEW x \in Dyns, HasAny(dyn', x) PROVE SameView(dyn, dyn', x)
    <3>1. CASE x = d BY <2>3, <2>4, <2>5, <2>6, <3>1 DEF SameView, HasAny, IsLive, TypeOf
    <3>2. CASE x # d BY <2>5, <2>6, <3>2 DEF SameView, HasAny, IsLive
    <3> QED BY <3>1, <3>2
  <2>7. Typed(dyn', store)
    <3> DEFINE D2 == dyn'
    <3>1. \A x \in Dyns : HasAny(D2, x) => SameView(dyn, D2, x) BY <2>6
    <3>2. Right(D2) /\ Typed(dyn, store) /\ store = [x \in Dyns |-> store[x]]
      BY <2>1 DEF Typed
    <3> HIDE DEF D2
    <3>3. Typed(D2, store) BY <3>1, <3>2, SameTyped
    <3> QED BY <3>3 DEF D2
  <2> QED BY <1>4, <2>7 DEF Done
<1> QED BY <1>3, <1>4, StayTyped

(* Who has an any after the components of d were told sees what it saw.    *)
LEMMA InvalidatedViews ==
  ASSUME Now, NEW d \in Dyns, Live(d)
  PROVE  /\ ~ Dangling(d) /\ Right(Invalidated(d))
         /\ Invalidated(d)[d].children = {}
         /\ Invalidated(d)[d].any = dyn[d].any /\ IsLive(Invalidated(d), d)
         /\ \A x \in Dyns : /\ HasAny(Invalidated(d), x) => SameView(dyn, Invalidated(d), x)
                            /\ Used \subseteq DOMAIN Invalidated(d)[x]
<1> DEFINE D == Invalidated(d)
<1>1. Right(dyn) /\ IsLive(dyn, d) BY DEF Now, IInv, Live, IsLive
<1>2. ~ Dangling(d) BY <1>1, DanglingOnlyCareless DEF Now
<1>3. /\ Right(D) /\ Kept(dyn, D, d) /\ D[d] = [dyn[d] EXCEPT !.children = {}]
      /\ D[d].children = {}
      /\ \A x \in Dyns \ (Below(dyn, d) \cup {d}) : D[x] = dyn[x]
      /\ \A x \in Below(dyn, d) : D[x] = Gone
  BY <1>1, <1>2, InvalidatedRight
<1>4. Shaped(dyn) /\ Shaped(D) BY <1>1, <1>3 DEF Right
<1>5. /\ D[d].life = dyn[d].life /\ D[d].any = dyn[d].any /\ D[d].type = dyn[d].type
      /\ D[d].owns = dyn[d].owns /\ D[d].root = dyn[d].root /\ D[d].mem = dyn[d].mem
      /\ D[d].path = dyn[d].path /\ D[d].idx = dyn[d].idx
  BY <1>3, <1>4 DEF Shaped, Used
<1> HIDE DEF D
<1>6. ASSUME NEW x \in Dyns, HasAny(D, x) PROVE SameView(dyn, D, x)
  <2>1. x \notin Below(dyn, d) BY <1>3, <1>6, GoneFields DEF HasAny
  <2>2. CASE x = d BY <1>5, <1>6, <2>2 DEF SameView, HasAny, IsLive
  <2>3. CASE x # d BY <1>3, <1>6, <2>1, <2>3 DEF SameView, HasAny, IsLive
  <2> QED BY <2>2, <2>3
<1>7. IsLive(D, d) BY <1>1, <1>5 DEF IsLive
<1> QED BY <1>2, <1>3, <1>4, <1>5, <1>6, <1>7 DEF D, Shaped

LEMMA ReleaseTyped ==
  ASSUME Now, crash # "value", NEW d \in Dyns, Release(d)
  PROVE  Typed(dyn', store') /\ crash' # "value"
<1>1. Live(d) BY DEF Release
<1> DEFINE D == Invalidated(d)
           f(y) == IF dyn[d].owns /\ y.any /\ y.root = d
                   THEN [y EXCEPT !.mem = "freed"] ELSE y
<1>2. /\ ~ Dangling(d) /\ Right(D) /\ D[d].children = {}
      /\ \A x \in Dyns : HasAny(D, x) => SameView(dyn, D, x)
  BY <1>1, InvalidatedViews
<1>3. /\ dyn' = [x \in Dyns |-> IF x = d THEN Unused ELSE f(D[x])]
      /\ store' = [store EXCEPT ![d] = NoValue] /\ Done
  BY <1>2 DEF Release
<1>4. Right(dyn') /\ Typed(dyn, store) BY ReleaseStep DEF Now, IInv
<1> HIDE DEF D
<1>5. ASSUME NEW x \in Dyns \ {d} PROVE f(D[x]) = D[x]
  BY <1>2, OnlyItsOwn
<1> HIDE DEF f
<1>6. dyn'[d] = Unused /\ \A x \in Dyns \ {d} : dyn'[x] = D[x] BY <1>3, <1>5
<1>7. ASSUME NEW x \in Dyns, HasAny(dyn', x) PROVE SameView(dyn, dyn', x) /\ x # d
  <2>1. x # d BY <1>6, <1>7, GoneFields DEF HasAny
  <2> QED BY <1>2, <1>6, <1>7, <2>1 DEF SameView, HasAny, IsLive
<1>8. /\ store' = [x \in Dyns |-> store'[x]]
      /\ \A x \in Dyns \ {d} : store'[x] = store[x]
  BY <1>3, <1>4 DEF Typed
<1>9. Typed(dyn', store')
  <2> DEFINE D2 == dyn'
             s2 == store'
  <2>1. \A x \in Dyns : HasAny(D2, x) => SameView(dyn, D2, x) BY <1>7
  <2>2. Right(D2) /\ Typed(dyn, store) /\ s2 = [x \in Dyns |-> s2[x]] BY <1>4, <1>8
  <2>3. \A x \in Dyns : HasAny(D2, x) /\ D2[x].owns => s2[x] = store[x] BY <1>7, <1>8
  <2> HIDE DEF D2, s2
  <2>4. Typed(D2, s2) BY <2>1, <2>2, <2>3, SameTyped
  <2> QED BY <2>4 DEF D2, s2
<1> QED BY <1>3, <1>9 DEF Done

LEMMA FromAnyTyped ==
  ASSUME Now, crash # "value", NEW d \in Dyns, NEW t, NEW v, FromAny(d, t, v),
         Exists(d) /\ t = TypeOf(d) => v \in Values[t]
  PROVE  Typed(dyn', store') /\ crash' # "value"
<1>1. Live(d) BY DEF FromAny
<1> DEFINE D == Invalidated(d)
           p == dyn[d].parent
           own(y) == [y EXCEPT !.owns = TRUE, !.root = d, !.path = << >>,
                               !.mem = "ok", !.parent = None]
           drop(y) == [y EXCEPT !.children = @ \ {d}]
           gone(y) == IF dyn[d].owns /\ y.any /\ y.root = d
                      THEN [y EXCEPT !.mem = "freed"] ELSE y
<1>2. /\ ~ Dangling(d) /\ Right(D) /\ D[d].children = {} /\ D[d].any = dyn[d].any
      /\ IsLive(D, d)
      /\ \A x \in Dyns : /\ HasAny(D, x) => SameView(dyn, D, x)
                         /\ Used \subseteq DOMAIN D[x]
  BY <1>1, InvalidatedViews
<1>3. \/ Raise("OBJECT_NOT_EXIST") \/ Raise("TypeMismatch")
      \/ /\ Exists(d) /\ t = TypeOf(d) /\ Done
         /\ dyn' = [x \in Dyns |-> IF x = d THEN own(D[x])
                                   ELSE IF x = p THEN drop(D[x]) ELSE gone(D[x])]
         /\ store' = [store EXCEPT ![d] = Copy[t][v]]
  BY <1>1, <1>2 DEF FromAny, Exists
<1>4. CASE /\ Exists(d) /\ t = TypeOf(d) /\ Done
           /\ dyn' = [x \in Dyns |-> IF x = d THEN own(D[x])
                                     ELSE IF x = p THEN drop(D[x]) ELSE gone(D[x])]
           /\ store' = [store EXCEPT ![d] = Copy[t][v]]
  <2>1. Right(dyn') /\ Typed(dyn, store) BY FromAnyStep DEF Now, IInv
  <2>2. t \in Types /\ v \in Values[t] BY <1>4, Seen
  <2>3. Copy[t][v] \in Values[t] BY <2>2, CopyTyped
  <2> HIDE DEF D, p
  <2>4. ASSUME NEW x \in Dyns \ {d}, D[x].any PROVE D[x].root # d
    BY <1>2, <2>4, OnlyItsOwn
  <2>5. ASSUME NEW x \in Dyns \ {d} PROVE gone(D[x]) = D[x] BY <2>4
  <2> HIDE DEF gone
  <2>6. LET y == own(D[d])
        IN y.root = d /\ y.path = << >> /\ y.mem = "ok" /\ y.type = D[d].type
           /\ y.idx = D[d].idx
    BY <1>2 DEF Used
  <2>7. \A x \in Dyns :
          LET y == drop(D[x])
          IN /\ y.life = D[x].life /\ y.any = D[x].any /\ y.owns = D[x].owns
             /\ y.root = D[x].root /\ y.mem = D[x].mem /\ y.type = D[x].type
             /\ y.path = D[x].path /\ y.idx = D[x].idx
    BY <1>2 DEF Used
  <2> HIDE DEF own, drop
  <2>8. /\ dyn'[d] = own(D[d])
        /\ \A x \in Dyns \ {d} : dyn'[x] = IF x = p THEN drop(D[x]) ELSE D[x]
    BY <1>4, <2>5
  <2>9. ASSUME NEW x \in Dyns \ {d}
        PROVE  /\ dyn'[x].life = D[x].life /\ dyn'[x].any = D[x].any
               /\ dyn'[x].owns = D[x].owns /\ dyn'[x].root = D[x].root
               /\ dyn'[x].mem = D[x].mem /\ dyn'[x].type = D[x].type
               /\ dyn'[x].path = D[x].path /\ dyn'[x].idx = D[x].idx
    BY <2>7, <2>8
  <2>10. ASSUME NEW x \in Dyns \ {d}, HasAny(dyn', x)
         PROVE  SameView(dyn, dyn', x) /\ dyn'[x].root # d
    <3>1. HasAny(D, x) BY <2>9, <2>10 DEF HasAny, IsLive
    <3>2. SameView(dyn, D, x) BY <1>2, <3>1
    <3> QED BY <2>4, <2>9, <3>1, <3>2 DEF SameView, HasAny
  <2>11. /\ store' = [x \in Dyns |-> store'[x]] /\ store'[d] = Copy[t][v]
         /\ \A x \in Dyns \ {d} : store'[x] = store[x]
    BY <1>4, <2>1 DEF Typed
  <2>12. /\ dyn'[d].type = t /\ dyn'[d].root = d /\ dyn'[d].path = << >>
         /\ dyn'[d].mem = "ok" /\ dyn'[d].idx \in Int
         /\ RealKind(t) = "array" => dyn'[d].idx < Length[Real[t]]
    <3>1. HasAny(D, d) BY <1>2, <1>4 DEF HasAny, Exists
    <3>2. SameView(dyn, D, d) BY <1>2, <3>1
    <3>3. /\ dyn[d].idx \in Int
          /\ RealKind(TypeOf(d)) = "array" => dyn[d].idx < Length[Real[TypeOf(d)]]
      BY <1>4, Seen
    <3>4. /\ D[d].idx \in Int /\ D[d].type = t
          /\ RealKind(t) = "array" => D[d].idx < Length[Real[t]]
      BY <1>4, <3>2, <3>3 DEF SameView, TypeOf
    <3> QED BY <2>6, <2>8, <3>4
  <2>13. Typed(dyn', store')
    <3> DEFINE D2 == dyn'
               s2 == store'
    <3>1. Typed(dyn, store) /\ Right(D2) /\ D2[d].type \in Types
          /\ s2[d] \in Values[D2[d].type] /\ D2[d].root = d /\ D2[d].path = << >>
          /\ D2[d].mem = "ok" /\ D2[d].idx \in Int
          /\ (RealKind(D2[d].type) = "array" => D2[d].idx < Length[Real[D2[d].type]])
      BY <2>1, <2>2, <2>3, <2>11, <2>12
    <3>2. s2 = [x \in Dyns |-> s2[x]] /\ \A x \in Dyns \ {d} : s2[x] = store[x] BY <2>11
    <3>3. \A x \in Dyns \ {d} : HasAny(D2, x) => SameView(dyn, D2, x) /\ D2[x].root # d
      BY <2>10
    <3> HIDE DEF D2, s2
    <3>4. Typed(D2, s2) BY <3>1, <3>2, <3>3, OwnerTyped
    <3> QED BY <3>4 DEF D2, s2
  <2> QED BY <1>4, <2>13 DEF Done
<1> QED BY <1>3, <1>4, StayTyped

LEMMA AssignTyped ==
  ASSUME Now, crash # "value", NEW d \in Dyns, NEW s \in Dyns, Assign(d, s)
  PROVE  Typed(dyn', store') /\ crash' # "value"
<1>1. Live(d) /\ Live(s) BY DEF Assign
<1>2. CASE ~ dyn[s].any
  <2>1. Raise("BAD_PARAM") BY <1>2 DEF Assign
  <2> QED BY <2>1, StayTyped
<1>3. CASE dyn[s].any
  <2>1. Exists(s) BY <1>1, <1>3 DEF Exists
  <2>2. Readable(s) /\ dyn[s].mem \in {"ok", "leaked"} BY <2>1, AlwaysReadable, Seen
  <2>3. dyn[s].mem = "ok" => ValueOf(s) \in Values[TypeOf(s)] BY <2>1, SeenWell
  <2> DEFINE t == TypeOf(s)
             w == ValueOf(s)
             n == NoValue
  <2>4. \/ Stop("source")
        \/ \E v \in Values[t] : FromAny(d, t, v)
        \/ FromAny(d, t, w) /\ dyn[s].mem # "leaked"
        \/ FromAny(d, t, n) /\ ~ (dyn[d].any /\ t = TypeOf(d))
    BY <1>3, <2>2 DEF Assign
  <2> HIDE DEF t, w, n
  <2>5. CASE \E v \in Values[t] : FromAny(d, t, v) BY <2>5, FromAnyTyped
  <2>6. CASE FromAny(d, t, w) /\ dyn[s].mem # "leaked"
    <3>1. w \in Values[t] BY <2>2, <2>3, <2>6 DEF t, w
    <3> QED BY <2>6, <3>1, FromAnyTyped
  <2>7. CASE FromAny(d, t, n) /\ ~ (dyn[d].any /\ t = TypeOf(d))
    BY <2>7, FromAnyTyped DEF Exists
  <2> QED BY <2>4, <2>5, <2>6, <2>7, StayTyped
<1> QED BY <1>2, <1>3

(* A write through d.                                                      *)
LEMMA WrittenTyped ==
  ASSUME Now, crash # "value", NEW d \in Dyns, Exists(d), NEW p, NEW new,
         dyn[d].mem = "ok" => /\ Leads(RootType(d), RootValue(d), p)
                              /\ new \in Values[PathType(RootType(d), p)],
         Right(dyn'), \A x \in Dyns : HasAny(dyn', x) => SameView(dyn, dyn', x),
         dyn[d].mem = "ok" =>
           \A x \in Dyns :
             HasAny(dyn', x) /\ dyn'[x].root = dyn[d].root /\ dyn'[x].mem = "ok" =>
               Spares(RootType(d), RootValue(d), p, new, dyn'[x].path),
         store' = Written(d, p, new), Done
  PROVE  Typed(dyn', store') /\ crash' # "value"
<1>1. Typed(dyn, store) /\ store = [x \in Dyns |-> store[x]] BY DEF Now, Typed
<1>2. dyn[d].mem \in {"ok", "leaked"} /\ RootOf(d) \in Dyns /\ RootType(d) \in Types
      /\ RootValue(d) \in Values[RootType(d)]
  BY Seen
<1> DEFINE D2 == dyn'
           s2 == store'
           r == RootOf(d)
<1>3. Right(D2) /\ \A x \in Dyns : HasAny(D2, x) => SameView(dyn, D2, x) OBVIOUS
<1>4. CASE dyn[d].mem = "leaked"
  <2>1. s2 = store BY <1>4 DEF Written
  <2> HIDE DEF D2, s2
  <2>2. Typed(D2, s2) BY <1>1, <1>3, <2>1, SameTyped
  <2> QED BY <2>2 DEF D2, s2, Done
<1>5. CASE dyn[d].mem = "ok"
  <2>1. s2 = [store EXCEPT ![r] = Put(@, p, new)] BY <1>5 DEF Written, RootOf
  <2>2. RootType(d) = dyn[r].type /\ RootValue(d) = store[r]
    BY DEF RootOf, RootType, RootValue
  <2>3. /\ r \in Dyns /\ dyn[r].type \in Types /\ store[r] \in Values[dyn[r].type]
        /\ Leads(dyn[r].type, store[r], p) /\ new \in Values[PathType(dyn[r].type, p)]
    BY <1>2, <1>5, <2>2
  <2>4. \A x \in Dyns : HasAny(D2, x) /\ D2[x].root = r /\ D2[x].mem = "ok" =>
          Spares(dyn[r].type, store[r], p, new, D2[x].path)
    BY <1>5, <2>2 DEF RootOf
  <2> HIDE DEF D2, s2, r
  <2>5. Typed(D2, s2) BY <1>1, <1>3, <2>1, <2>3, <2>4, WriteTyped
  <2> QED BY <2>5 DEF D2, s2, Done
<1> QED BY <1>2, <1>4, <1>5

(* Nobody sees a part of a simple value.                                   *)
LEMMA SimpleWritten ==
  ASSUME Now, crash # "value", NEW d \in Dyns, Exists(d), NEW p, NEW new, NEW t \in Types,
         RealKind(t) \in {"single", "enum"}, new \in Values[t],
         dyn[d].mem = "ok" => /\ Leads(RootType(d), RootValue(d), p)
                              /\ Real[t] = Real[PathType(RootType(d), p)],
         dyn' = dyn, store' = Written(d, p, new), Done
  PROVE  Typed(dyn', store') /\ crash' # "value"
<1>1. Right(dyn') /\ \A x \in Dyns : HasAny(dyn', x) => SameView(dyn, dyn', x)
  BY DEF Now, IInv, SameView
<1>2. RootType(d) \in Types /\ RootValue(d) \in Values[RootType(d)] BY Seen
<1>3. ASSUME dyn[d].mem = "ok"
      PROVE  /\ new \in Values[PathType(RootType(d), p)]
             /\ RealKind(PathType(RootType(d), p)) \notin Composite
  <2> DEFINE u == PathType(RootType(d), p)
             n == Len(p)
  <2>1. Leads(RootType(d), RootValue(d), p) /\ p \in Seq(Nat) BY <1>3 DEF Leads
  <2>2. n \in 0..Len(p) BY <2>1
  <2>3. u = TypesAlong(RootType(d), p)[n] BY DEF PathType
  <2> HIDE DEF n, u
  <2>4. u \in Types BY <1>2, <2>1, <2>2, <2>3, LeadsTyped
  <2>5. Values[u] = Values[Real[u]] /\ Values[t] = Values[Real[t]] /\ Real[t] = Real[u]
    BY <1>3, <2>4, RealRight DEF u
  <2> QED BY <2>5 DEF u, RealKind, Composite
<1>4. ASSUME dyn[d].mem = "ok", NEW x \in Dyns, HasAny(dyn', x),
             dyn'[x].root = dyn[d].root, dyn'[x].mem = "ok"
      PROVE  Spares(RootType(d), RootValue(d), p, new, dyn'[x].path)
  <2>1. Exists(x) /\ dyn[x].mem = "ok" BY <1>4 DEF Exists, Live, HasAny, IsLive
  <2>2. Leads(RootType(x), RootValue(x), dyn[x].path) BY <2>1, SeenWell
  <2> DEFINE T == RootType(d)
             V == RootValue(d)
             q == dyn[x].path
  <2>3. Leads(T, V, q) BY <1>4, <2>2 DEF RootType, RootValue
  <2>4. Leads(T, V, p) /\ RealKind(PathType(T, p)) \notin Composite
        /\ T \in Types /\ V \in Values[T]
    BY <1>2, <1>3, <1>4
  <2>5. dyn'[x].path = q OBVIOUS
  <2> HIDE DEF T, V, q
  <2>6. Spares(T, V, p, new, q) BY <2>3, <2>4, NothingBehind
  <2> QED BY <2>5, <2>6 DEF T, V
<1> QED BY <1>1, <1>3, <1>4, WrittenTyped

LEMMA InsertTyped ==
  ASSUME Now, crash # "value", NEW d \in Dyns, NEW t \in Types, Kind[t] = "single",
         NEW v \in Given[t], Insert(d, t, v)
  PROVE  Typed(dyn', store') /\ crash' # "value"
<1>1. Live(d) BY DEF Insert
<1>2. Exists(d) => Readable(d) BY AlwaysReadable
<1>3. \/ Raise("OBJECT_NOT_EXIST") \/ Raise("TypeMismatch") \/ Raise("InvalidValue")
      \/ /\ Exists(d) /\ Done /\ CurType(d) = t /\ dyn' = dyn
         /\ \E w \in Found(d) : \E p \in CurPath(d, w) : store' = Written(d, p, v)
  BY <1>1, <1>2 DEF Insert, Exists, Mismatch
<1>4. ASSUME Exists(d), Done, CurType(d) = t, dyn' = dyn,
             NEW w \in Found(d), NEW p \in CurPath(d, w), store' = Written(d, p, v)
      PROVE  Typed(dyn', store') /\ crash' # "value"
  <2>1. t # NoType BY TypesAssumption DEF NoType
  <2>2. dyn[d].mem = "ok" => /\ Leads(RootType(d), RootValue(d), p)
                             /\ Real[t] = Real[PathType(RootType(d), p)]
    BY <1>4, <2>1, AtCursor
  <2>3. v \in Values[t] BY GivenAssumption
  <2>4. RealKind(t) \in {"single", "enum"} BY RealDefined DEF RealKind
  <2> QED BY <1>4, <2>2, <2>3, <2>4, SimpleWritten
<1> QED BY <1>3, <1>4, StayTyped

LEMMA SetEnumTyped ==
  ASSUME Now, crash # "value", NEW d \in Dyns, NEW i \in Nat, SetEnum(d, i)
  PROVE  Typed(dyn', store') /\ crash' # "value"
<1>1. Live(d) BY DEF SetEnum
<1>2. Exists(d) => Readable(d) BY AlwaysReadable
<1> DEFINE t == TypeOf(d)
           labels == IF Kind[t] = "alias" THEN 1 ELSE Length[Real[t]]
           p == dyn[d].path
           new == Leaf(i)
<1>3. \/ Raise("OBJECT_NOT_EXIST") \/ Raise("TypeMismatch") \/ Raise("InvalidValue")
      \/ /\ Exists(d) /\ Done /\ RealKind(t) = "enum" /\ ~ (i >= labels) /\ dyn' = dyn
         /\ store' = Written(d, p, new)
  BY <1>1, <1>2 DEF SetEnum, Exists
<1>4. CASE /\ Exists(d) /\ Done /\ RealKind(t) = "enum" /\ ~ (i >= labels) /\ dyn' = dyn
           /\ store' = Written(d, p, new)
  <2>1. t \in Types BY <1>4, Seen
  <2>2. Real[t] \in Types /\ Kind[Real[t]] = "enum" /\ Values[Real[t]] = Values[t]
    BY <1>4, <2>1, RealRight DEF RealKind
  <2>3. Length[Real[t]] \in Nat /\ Length[Real[t]] > 0
    BY <2>2, TypesAssumption, PartsAssumption
  <2>4. i \in 0..Length[Real[t]] - 1 BY <1>4, <2>3
  <2>5. new \in Values[t] BY <2>2, <2>4, SimpleValues
  <2>6. dyn[d].mem = "ok" => /\ Leads(RootType(d), RootValue(d), p)
                             /\ Real[t] = Real[PathType(RootType(d), p)]
    BY <1>4, SeenWell
  <2> HIDE DEF t, p, new
  <2> QED BY <1>4, <2>1, <2>5, <2>6, SimpleWritten
<1> QED BY <1>3, <1>4, StayTyped

-----------------------------------------------------------------------------
(* Values whose parts are written as a whole.                              *)
Refilled(v, ps) == [v EXCEPT !.parts = ps]

LEMMA RefilledTyped ==
  ASSUME NEW t \in Types, RealKind(t) \in Composite, NEW v \in Values[t], NEW ps,
         ps = [j \in DOMAIN ps |-> ps[j]], DOMAIN ps \in Widths(Real[t]),
         \A j \in DOMAIN ps : ps[j] \in Values[PartType(t, j - 1)]
  PROVE  Refilled(v, ps) \in Values[t] /\ Refilled(v, ps).parts = ps
<1> DEFINE y == Refilled(v, ps)
<1>1. v = Parts(v.max, v.parts) /\ WellMade(Real[t], v.max, v.parts) BY PartTyped
<1>2. v = [leaf |-> None, max |-> v.max, parts |-> v.parts] BY <1>1 DEF Parts
<1>3. y = [leaf |-> None, max |-> v.max, parts |-> ps] BY <1>2 DEF Refilled
<1>4. y = Parts(v.max, ps) BY <1>3 DEF Parts
<1>5. y.max = v.max /\ y.parts = ps BY <1>3
<1>6. Real[t] \in Types /\ Kind[Real[t]] \in Composite /\ Values[Real[t]] = Values[t]
  BY RealRight, RealPartType
<1>7. WellMade(Real[t], v.max, ps) BY <1>1, RealPartType DEF WellMade
<1> HIDE DEF y
<1>8. Parts(v.max, ps) \in Values[Real[t]] BY <1>6, <1>7, Composing
<1> QED BY <1>4, <1>5, <1>6, <1>8 DEF y

LEMMA OneStep ==
  ASSUME NEW t, NEW i \in Nat
  PROVE  PathType(t, <<i>>) = PartType(t, i)
<1> DEFINE p == <<i>>
<1>1. p \in Seq(Nat) /\ Len(p) = 1 /\ p[1] = i OBVIOUS
<1> HIDE DEF p
<1>2. TypesAlong(t, p)[0] = t
      /\ \A n \in 1..Len(p) : TypesAlong(t, p)[n] = PartType(TypesAlong(t, p)[n - 1], p[n])
  BY <1>1, TypesAlongDefined
<1>3. TypesAlong(t, p)[1] = PartType(TypesAlong(t, p)[0], i)
  <2>1. 1 \in 1..Len(p) /\ 1 - 1 = 0 BY <1>1
  <2> QED BY <1>1, <1>2, <2>1
<1>4. PathType(t, p) = PartType(t, i) BY <1>1, <1>2, <1>3 DEF PathType
<1> QED BY <1>4 DEF p

(* What is cut off is told so, and nobody else loses his way.              *)
LEMMA CutViews ==
  ASSUME Now, NEW d \in Dyns, Exists(d), dyn' = CutOff(d, Invalidated(d))
  PROVE  \A x \in Dyns : HasAny(dyn', x) =>
           SameView(dyn, dyn', x) /\ (dyn'[x].mem = "ok" => ~ Cut(d, x))
<1> DEFINE D == Invalidated(d)
<1>1. \A x \in Dyns : /\ HasAny(D, x) => SameView(dyn, D, x)
                      /\ Used \subseteq DOMAIN D[x]
  BY InvalidatedViews DEF Exists
<1> SUFFICES ASSUME NEW x \in Dyns, HasAny(dyn', x)
             PROVE  SameView(dyn, dyn', x) /\ (dyn'[x].mem = "ok" => ~ Cut(d, x))
  OBVIOUS
<1>2. dyn'[x] = IF Cut(d, x) /\ D[x].any THEN [D[x] EXCEPT !.mem = "leaked"] ELSE D[x]
  BY DEF CutOff
<1> HIDE DEF D
<1> DEFINE y == [D[x] EXCEPT !.mem = "leaked"]
<1>3. /\ y.life = D[x].life /\ y.any = D[x].any /\ y.owns = D[x].owns
      /\ y.root = D[x].root /\ y.mem = "leaked" /\ y.type = D[x].type
      /\ y.path = D[x].path /\ y.idx = D[x].idx
  BY <1>1 DEF Used
<1>4. dyn'[x] = IF Cut(d, x) /\ D[x].any THEN y ELSE D[x] BY <1>2
<1> HIDE DEF y
<1>5. HasAny(D, x) BY <1>3, <1>4 DEF HasAny, IsLive
<1>6. SameView(dyn, D, x) BY <1>1, <1>5
<1>7. CASE ~ (Cut(d, x) /\ D[x].any)
  BY <1>4, <1>5, <1>6, <1>7 DEF SameView, HasAny
<1>8. CASE Cut(d, x) /\ D[x].any
  <2>1. dyn[d].mem = "ok" /\ dyn[x].mem = "ok" /\ Exists(x) BY <1>8 DEF Cut, Behind
  <2>2. dyn[d].path \in Seq(Nat) /\ dyn[x].path \in Seq(Nat)
    BY <2>1, SeenWell DEF Leads
  <2>3. PICK n : n \in Len(dyn[d].path) + 1..Len(dyn[x].path) - 1 BY <1>8 DEF Cut
  <2>4. dyn[x].path # << >>
    <3>1. Len(dyn[d].path) \in Nat /\ Len(dyn[x].path) \in Nat BY <2>2
    <3>2. Len(dyn[x].path) # 0 BY <2>3, <3>1
    <3> QED BY <3>2
  <2>5. View(dyn, store, x) BY <2>1 DEF Now, Typed, Exists, Live, HasAny, IsLive
  <2>6. ~ dyn[x].owns BY <2>4, <2>5 DEF View
  <2> QED BY <1>3, <1>4, <1>6, <1>8, <2>6 DEF SameView
<1> QED BY <1>7, <1>8

LEMMA CutSpares ==
  ASSUME Now, NEW d \in Dyns, Exists(d), dyn[d].mem = "ok",
         NEW x \in Dyns, Exists(x), dyn[x].mem = "ok", dyn[x].root = dyn[d].root,
         ~ Cut(d, x), NEW new, DOMAIN new.parts = DOMAIN ValueOf(d).parts
  PROVE  Spares(RootType(d), RootValue(d), dyn[d].path, new, dyn[x].path)
<1> DEFINE p == dyn[d].path
           q == dyn[x].path
<1> SUFFICES ASSUME Len(p) < Len(q), Agree(p, q, Len(p))
             PROVE  /\ DOMAIN new.parts = DOMAIN Follow(RootValue(d), p).parts
                    /\ \A n \in Len(p) + 1..Len(q) - 1 :
                         RealKind(TypesAlong(RootType(d), q)[n]) # "sequence"
  BY DEF Spares
<1>1. p \in Seq(Nat) /\ q \in Seq(Nat) BY SeenWell DEF Leads
<1>2. IsStrictPrefix(p, q)
  <2> HIDE DEF p, q
  <2> QED BY <1>1, StrictPrefix
<1>3. x \in Behind(dyn[d].root, dyn[d].path) BY <1>2 DEF Behind
<1>4. \A n \in Len(p) + 1..Len(q) - 1 : RealKind(TypesAlong(RootType(d), q)[n]) # "sequence"
  BY <1>3 DEF Cut, RootType, TypeOf
<1> QED BY <1>4 DEF ValueOf, RootValue

(* What is at d is replaced by a value with as many parts.                 *)
LEMMA OverwrittenTyped ==
  ASSUME Now, crash # "value", NEW d \in Dyns, Exists(d), NEW new,
         dyn[d].mem = "ok" =>
           new \in Values[TypeOf(d)] /\ DOMAIN new.parts = DOMAIN ValueOf(d).parts,
         Right(dyn'), dyn' = CutOff(d, Invalidated(d)),
         store' = Written(d, dyn[d].path, new), Done
  PROVE  Typed(dyn', store') /\ crash' # "value"
<1>1. \A x \in Dyns : HasAny(dyn', x) =>
        SameView(dyn, dyn', x) /\ (dyn'[x].mem = "ok" => ~ Cut(d, x))
  BY CutViews
<1> DEFINE p == dyn[d].path
<1>2. dyn[d].mem = "ok" => /\ Leads(RootType(d), RootValue(d), p)
                           /\ new \in Values[PathType(RootType(d), p)]
  BY SeenWell
<1>3. ASSUME dyn[d].mem = "ok", NEW x \in Dyns, HasAny(dyn', x),
             dyn'[x].root = dyn[d].root, dyn'[x].mem = "ok"
      PROVE  Spares(RootType(d), RootValue(d), p, new, dyn'[x].path)
  <2>1. SameView(dyn, dyn', x) /\ ~ Cut(d, x) BY <1>1, <1>3
  <2>2. Exists(x) /\ dyn[x].mem = "ok" /\ dyn[x].root = dyn[d].root
        /\ dyn'[x].path = dyn[x].path
    BY <1>3, <2>1 DEF SameView, Exists, Live, HasAny, IsLive
  <2>3. Spares(RootType(d), RootValue(d), dyn[d].path, new, dyn[x].path)
    BY <1>3, <2>1, <2>2, CutSpares
  <2> QED BY <2>2, <2>3
<1>4. store' = Written(d, p, new) /\ \A x \in Dyns : HasAny(dyn', x) => SameView(dyn, dyn', x)
  BY <1>1
<1> HIDE DEF p
<1> QED BY <1>2, <1>3, <1>4, WrittenTyped

(* The members or elements that are given have the types of the parts.     *)
LEMMA StoredTyped ==
  ASSUME Now, crash # "value", NEW d \in Dyns, Exists(d), NEW l \in ElementLists,
         RealKind(TypeOf(d)) \in Composite,
         \A i \in DOMAIN l.types :
           dyn[d].mem = "ok" /\ i \in DOMAIN ValueOf(d).parts =>
             l.types[i] = PartType(TypeOf(d), i - 1),
         Right(dyn'), dyn' = CutOff(d, Invalidated(d)), store' = Stored(d, l), Done
  PROVE  Typed(dyn', store') /\ crash' # "value"
<1> DEFINE t == TypeOf(d)
           v == ValueOf(d)
           of(i) == PathType(Real[t], <<i - 1>>)
           ps == [i \in DOMAIN v.parts |->
                    IF i \in DOMAIN l.values THEN Copy[of(i)][l.values[i]] ELSE v.parts[i]]
           new == Refilled(v, ps)
<1>1. store' = Written(d, dyn[d].path, new) BY DEF Stored, Refilled
<1>2. t \in Types BY Seen
<1>3. l.types \in Seq(Types) /\ DOMAIN l.values = DOMAIN l.types
      /\ \A i \in DOMAIN l.types : l.values[i] \in Values[l.types[i]]
  BY GivenAssumption
<1>4. ASSUME dyn[d].mem = "ok"
      PROVE  new \in Values[t] /\ DOMAIN new.parts = DOMAIN v.parts
  <2>1. v \in Values[t] BY <1>4, SeenWell
  <2> HIDE DEF t, v
  <2>2. v = Parts(v.max, v.parts) /\ WellMade(Real[t], v.max, v.parts)
    BY <1>2, <2>1, PartTyped DEF t
  <2>3. DOMAIN v.parts \in Widths(Real[t])
        /\ \A j \in DOMAIN v.parts : v.parts[j] \in Values[PartType(t, j - 1)]
    BY <1>2, <2>2, RealPartType DEF WellMade
  <2>4. ASSUME NEW j \in DOMAIN v.parts PROVE ps[j] \in Values[PartType(t, j - 1)]
    <3>1. CASE j \in DOMAIN l.values
      <4>1. j \in DOMAIN l.types /\ j - 1 \in Nat BY <1>3, <3>1
      <4>2. l.types[j] = PartType(t, j - 1) BY <1>4, <4>1 DEF t, v
      <4> DEFINE u == l.types[j]
                 k == j - 1
      <4>3. u \in Types /\ l.values[j] \in Values[u] BY <1>3, <4>1
      <4>4. PathType(Real[t], <<k>>) = PartType(Real[t], k) BY <4>1, OneStep
      <4>5. PartType(t, k) = PartType(Real[t], k) BY <1>2, RealPartType
      <4>6. of(j) = u BY <4>2, <4>4, <4>5
      <4>7. ps[j] = Copy[u][l.values[j]] BY <3>1, <4>6
      <4> HIDE DEF ps, u
      <4>8. Copy[u][l.values[j]] \in Values[u] BY <4>3, CopyTyped
      <4> QED BY <4>2, <4>7, <4>8 DEF u
    <3>2. CASE j \notin DOMAIN l.values BY <2>3, <3>2
    <3> QED BY <3>1, <3>2
  <2>5. DOMAIN ps = DOMAIN v.parts /\ ps = [j \in DOMAIN ps |-> ps[j]] OBVIOUS
  <2> HIDE DEF ps
  <2>6. DOMAIN ps \in Widths(Real[t])
        /\ \A j \in DOMAIN ps : ps[j] \in Values[PartType(t, j - 1)]
    BY <2>3, <2>4, <2>5
  <2>7. RealKind(t) \in Composite BY DEF t
  <2>8. Refilled(v, ps) \in Values[t] /\ Refilled(v, ps).parts = ps
    BY <1>2, <2>1, <2>5, <2>6, <2>7, RefilledTyped
  <2> QED BY <2>5, <2>8
<1> HIDE DEF new
<1> QED BY <1>1, <1>4, OverwrittenTyped DEF t, v

LEMMA FailTyped ==
  ASSUME Now, crash # "value", NEW d \in Dyns, Live(d), NEW e, MembersFail(d, e)
  PROVE  Typed(dyn', store') /\ crash' # "value"
<1>1. ~ Dangling(d) /\ \A x \in Dyns : HasAny(dyn', x) => SameView(dyn, dyn', x)
  BY InvalidatedViews DEF MembersFail
<1>2. Right(dyn') /\ Typed(dyn, store) /\ store = [x \in Dyns |-> store[x]]
  BY <1>1, MembersFailStep DEF Now, IInv, Typed
<1>3. store' = store /\ crash' = crash BY DEF MembersFail
<1> DEFINE D2 == dyn'
<1>4. Right(D2) /\ \A x \in Dyns : HasAny(D2, x) => SameView(dyn, D2, x) BY <1>1, <1>2
<1> HIDE DEF D2
<1>5. Typed(D2, store) BY <1>2, <1>4, SameTyped
<1> QED BY <1>3, <1>5 DEF D2

LEMMA SetMembersTyped ==
  ASSUME Now, crash # "value", NEW d \in Dyns, NEW l \in ElementLists, SetMembers(d, l)
  PROVE  Typed(dyn', store') /\ crash' # "value"
<1> DEFINE t == TypeOf(d)
           B == {i \in DOMAIN l.types : ~ (l.named[i] /\ l.types[i] = Subtypes[t][i])}
           bad == IF B = {} THEN 0 ELSE CHOOSE i \in B : \A j \in B : i <= j
<1>1. Live(d) BY DEF SetMembers
<1>2. ~ Dangling(d) /\ (Exists(d) => Readable(d))
  BY <1>1, InvalidatedViews, AlwaysReadable
<1>3. \/ Raise("OBJECT_NOT_EXIST") \/ Raise("TypeMismatch") \/ Stop("names")
      \/ \E e : MembersFail(d, e)
      \/ /\ Exists(d) /\ Done /\ RealKind(t) = "struct" /\ Kind[t] # "alias" /\ bad = 0
         /\ store' = Stored(d, l) /\ dyn' = CutOff(d, Invalidated(d))
  BY <1>1, <1>2 DEF SetMembers, Exists, FirstBad
<1>4. CASE /\ Exists(d) /\ Done /\ RealKind(t) = "struct" /\ Kind[t] # "alias" /\ bad = 0
           /\ store' = Stored(d, l) /\ dyn' = CutOff(d, Invalidated(d))
  <2>1. t \in Types BY <1>4, Seen
  <2>2. Real[t] = t BY <1>4, <2>1, RealDefined
  <2>3. l.types \in Seq(Types) BY GivenAssumption
  <2>4. B = {}
    <3> SUFFICES ASSUME B # {} PROVE FALSE OBVIOUS
    <3>1. B \subseteq DOMAIN l.types /\ 0 \notin B /\ B \in SUBSET Nat BY <2>3
    <3> HIDE DEF B
    <3>2. \E i \in B : \A j \in B : i <= j BY <3>1, LeastNumber
    <3>3. bad \in B BY <3>2
    <3> QED BY <1>4, <3>1, <3>3
  <2>5. ASSUME NEW i \in DOMAIN l.types,
               dyn[d].mem = "ok" /\ i \in DOMAIN ValueOf(d).parts
        PROVE  l.types[i] = PartType(t, i - 1)
    <3>1. l.types[i] = Subtypes[t][i] BY <2>4
    <3>2. ValueOf(d) \in Values[t] /\ RealKind(t) \in Composite
      BY <1>4, <2>5, SeenWell DEF Composite
    <3>3. WellMade(t, ValueOf(d).max, ValueOf(d).parts) /\ Kind[t] = "struct"
      BY <1>4, <2>1, <2>2, <3>2, PartTyped DEF RealKind
    <3>4. i \in DOMAIN Subtypes[t] BY <2>5, <3>3 DEF WellMade, Widths
    <3> HIDE DEF t
    <3>5. PartType(t, i - 1) = Subtypes[t][i] BY <2>1, <3>3, <3>4, PartTypes DEF Composite
    <3> QED BY <3>1, <3>5
  <2>6. Right(dyn') BY SetMembersStep DEF Now, IInv
  <2>7. RealKind(TypeOf(d)) \in Composite BY <1>4 DEF Composite
  <2> HIDE DEF t
  <2> QED BY <1>4, <2>5, <2>6, <2>7, StoredTyped DEF t
<1> QED BY <1>1, <1>3, <1>4, StayTyped, FailTyped

LEMMA SetElementsTyped ==
  ASSUME Now, crash # "value", NEW d \in Dyns, NEW l \in ElementLists, SetElements(d, l)
  PROVE  Typed(dyn', store') /\ crash' # "value"
<1> DEFINE t == TypeOf(d)
<1>1. Live(d) BY DEF SetElements
<1>2. ~ Dangling(d) /\ (Exists(d) => Readable(d))
  BY <1>1, InvalidatedViews, AlwaysReadable
<1>3. \/ Raise("OBJECT_NOT_EXIST") \/ Raise("TypeMismatch") \/ Raise("InvalidValue")
      \/ Stop("overflow") \/ Stop("layout")
      \/ /\ Exists(d) /\ Done /\ RealKind(t) = "sequence"
         /\ \E v \in Found(d) :
              /\ ~ \E i \in DOMAIN l.types : i <= Len(v.parts) /\ l.types[i] # Subtypes[t][1]
              /\ ~ (Len(l.types) > Len(v.parts)) /\ ~ (Kind[t] = "alias" /\ Len(l.types) > 0)
         /\ store' = Stored(d, l) /\ dyn' = CutOff(d, Invalidated(d))
  BY <1>1, <1>2 DEF SetElements, Exists
<1>4. ASSUME Exists(d), Done, RealKind(t) = "sequence", NEW v \in Found(d),
             ~ \E i \in DOMAIN l.types : i <= Len(v.parts) /\ l.types[i] # Subtypes[t][1],
             ~ (Len(l.types) > Len(v.parts)), ~ (Kind[t] = "alias" /\ Len(l.types) > 0),
             store' = Stored(d, l), dyn' = CutOff(d, Invalidated(d))
      PROVE  Typed(dyn', store') /\ crash' # "value"
  <2>1. t \in Types BY <1>4, Seen
  <2>2. l.types \in Seq(Types) BY GivenAssumption
  <2>3. ASSUME NEW i \in DOMAIN l.types,
               dyn[d].mem = "ok" /\ i \in DOMAIN ValueOf(d).parts
        PROVE  l.types[i] = PartType(t, i - 1)
    <3>1. Len(l.types) \in Nat /\ Len(l.types) > 0 /\ i \in 1..Len(l.types) BY <2>2
    <3>2. Kind[t] # "alias" BY <1>4, <3>1
    <3>3. Real[t] = t BY <2>1, <3>2, RealDefined
    <3>4. v = ValueOf(d) /\ v \in Values[t] BY <1>4, <2>3, SeenWell DEF Found
    <3>5. PICK k \in 0..MaxLen : DOMAIN v.parts = 1..k /\ Len(v.parts) = k
      BY <1>4, <2>1, <3>4, SequenceWidth
    <3>6. k \in Nat /\ i <= Len(v.parts) BY <2>3, <3>4, <3>5, MaxAssumption
    <3>7. l.types[i] = Subtypes[t][1] BY <1>4, <3>6
    <3>8. Kind[t] = "sequence" BY <1>4, <3>3 DEF RealKind
    <3> HIDE DEF t
    <3>9. PartType(t, i - 1) = Subtypes[t][1] BY <2>1, <3>8, PartTypes DEF Composite
    <3> QED BY <3>7, <3>9
  <2>4. Right(dyn') BY SetOthersStep DEF Now, IInv
  <2>5. RealKind(TypeOf(d)) \in Composite BY <1>4 DEF Composite
  <2> HIDE DEF t
  <2> QED BY <1>4, <2>3, <2>4, <2>5, StoredTyped DEF t
<1> QED BY <1>3, <1>4, StayTyped

(* A sequence that nobody has components of gets another length.           *)
LEMMA ResizedTyped ==
  ASSUME Now, crash # "value", NEW d \in Dyns, Exists(d),
         RealKind(TypeOf(d)) = "sequence", Kind[TypeOf(d)] # "alias",
         NEW n \in 1..MaxLen, Over(d) = {}, Right(dyn'),
         \A x \in Dyns : HasAny(dyn', x) => SameView(dyn, dyn', x),
         store' = Resized(d, n), Done
  PROVE  Typed(dyn', store') /\ crash' # "value"
<1> DEFINE t == TypeOf(d)
           v == ValueOf(d)
           p == dyn[d].path
           ps == [i \in 1..n |-> IF i <= Len(v.parts) THEN v.parts[i]
                                 ELSE Default[Subtypes[Real[t]][1]]]
           new == Refilled(v, ps)
<1>1. store' = Written(d, p, new) BY DEF Resized, Refilled
<1>2. t \in Types BY Seen
<1>3. Real[t] = t BY <1>2, RealDefined
<1>4. Kind[t] = "sequence" /\ RealKind(t) \in Composite BY <1>3 DEF RealKind, Composite
<1>5. n \in Nat /\ n \in 0..MaxLen BY MaxAssumption
<1>6. ASSUME dyn[d].mem = "ok" PROVE new \in Values[t]
  <2>1. v \in Values[t] BY <1>6, SeenWell
  <2> HIDE DEF t, v
  <2>2. PICK k \in 0..MaxLen : DOMAIN v.parts = 1..k /\ Len(v.parts) = k
    BY <1>2, <2>1, SequenceWidth DEF t
  <2>3. k \in Nat BY MaxAssumption
  <2>4. v = Parts(v.max, v.parts) /\ WellMade(t, v.max, v.parts)
    BY <1>2, <1>3, <1>4, <2>1, PartTyped
  <2>5. \A j : PartType(t, j) = Subtypes[t][1] /\ PartType(t, j) \in Types
    BY <1>2, <1>4, PartTypes DEF Composite
  <2>6. Subtypes[t][1] \in Types BY <2>5
  <2>7. Default[Subtypes[t][1]] \in Values[Subtypes[t][1]] BY <2>6, DefaultTyped
  <2>8. ASSUME NEW j \in 1..n PROVE ps[j] \in Values[PartType(t, j - 1)]
    <3>1. PartType(t, j - 1) = Subtypes[t][1] BY <2>5
    <3>2. CASE j <= k
      <4>1. j \in DOMAIN v.parts BY <1>5, <2>2, <2>3, <3>2
      <4>2. v.parts[j] \in Values[PartType(t, j - 1)] BY <2>4, <4>1 DEF WellMade
      <4> QED BY <2>2, <3>2, <4>2
    <3>3. CASE ~ (j <= k) BY <1>3, <2>2, <2>7, <3>1, <3>3
    <3> QED BY <3>2, <3>3
  <2>9. DOMAIN ps = 1..n /\ ps = [j \in DOMAIN ps |-> ps[j]] OBVIOUS
  <2> HIDE DEF ps
  <2>10. DOMAIN ps \in Widths(Real[t]) BY <1>3, <1>4, <1>5, <2>9 DEF Widths
  <2>11. \A j \in DOMAIN ps : ps[j] \in Values[PartType(t, j - 1)] BY <2>8, <2>9
  <2>12. Refilled(v, ps) \in Values[t] BY <1>2, <1>4, <2>1, <2>9, <2>10, <2>11, RefilledTyped
  <2> QED BY <2>12
<1>7. dyn[d].mem = "ok" => /\ Leads(RootType(d), RootValue(d), p)
                           /\ new \in Values[PathType(RootType(d), p)]
  BY <1>6, SeenWell
<1>8. ASSUME dyn[d].mem = "ok", NEW x \in Dyns, HasAny(dyn', x),
             dyn'[x].root = dyn[d].root, dyn'[x].mem = "ok"
      PROVE  Spares(RootType(d), RootValue(d), p, new, dyn'[x].path)
  <2>1. SameView(dyn, dyn', x) BY <1>8
  <2>2. Exists(x) /\ dyn[x].mem = "ok" /\ dyn[x].root = dyn[d].root
        /\ dyn'[x].path = dyn[x].path
    BY <1>8, <2>1 DEF SameView, Exists, Live, HasAny, IsLive
  <2> DEFINE q == dyn[x].path
  <2>3. ASSUME Len(p) < Len(q), Agree(p, q, Len(p)) PROVE FALSE
    <3>1. p \in Seq(Nat) /\ q \in Seq(Nat) BY <1>8, <2>2, SeenWell DEF Leads
    <3> HIDE DEF p, q
    <3>2. IsStrictPrefix(p, q) BY <2>3, <3>1, StrictPrefix
    <3> USE DEF p, q
    <3>3. x \in Over(d) BY <1>8, <2>2, <3>2 DEF Over, Behind
    <3> QED BY <3>3
  <2> HIDE DEF p, new
  <2> QED BY <2>2, <2>3 DEF Spares
<1>9. store' = Written(d, p, new) /\ \A x \in Dyns : HasAny(dyn', x) => SameView(dyn, dyn', x)
  BY <1>1
<1> HIDE DEF p, new
<1> QED BY <1>7, <1>8, <1>9, WrittenTyped

(* The cursor of a sequence may stand anywhere.                            *)
LEMMA ShrunkViews ==
  ASSUME Now, NEW d \in Dyns, Exists(d), RealKind(TypeOf(d)) = "sequence", NEW n
  PROVE  \A x \in Dyns : HasAny(Shrunk(d, n), x) => SameView(dyn, Shrunk(d, n), x)
<1> SUFFICES ASSUME NEW x \in Dyns, HasAny(Shrunk(d, n), x)
             PROVE  SameView(dyn, Shrunk(d, n), x)
  OBVIOUS
<1> DEFINE new == [dyn[d] EXCEPT !.idx = IF @ < 0 \/ @ >= n THEN -1 ELSE @]
<1>1. Shrunk(d, n)[x] = IF x = d THEN new ELSE dyn[x]
  BY DEF Shrunk, Now, IInv, Right, Shaped
<1>2. Used \subseteq DOMAIN dyn[d] BY DEF Now, IInv, Right, Shaped
<1>3. dyn[d].idx \in Int BY Seen
<1>4. /\ new.life = dyn[d].life /\ new.any = dyn[d].any /\ new.owns = dyn[d].owns
      /\ new.type = dyn[d].type /\ new.root = dyn[d].root /\ new.path = dyn[d].path
      /\ new.mem = dyn[d].mem /\ new.idx = (IF dyn[d].idx < 0 \/ dyn[d].idx >= n THEN -1 ELSE dyn[d].idx)
  BY <1>2 DEF Used
<1> HIDE DEF new
<1>5. new.idx \in Int BY <1>3, <1>4
<1>6. CASE x = d
  BY <1>1, <1>4, <1>5, <1>6 DEF SameView, HasAny, IsLive, Exists, Live, TypeOf
<1>7. CASE x # d BY <1>1, <1>7 DEF SameView, HasAny, IsLive
<1> QED BY <1>6, <1>7

LEMMA SetLengthTyped ==
  ASSUME Now, crash # "value", NEW d \in Dyns, NEW n \in 0..MaxLen, NEW lucky,
         SetLength(d, n, lucky)
  PROVE  Typed(dyn', store') /\ crash' # "value"
<1> DEFINE t == TypeOf(d)
           E(v) == [dyn EXCEPT ![d].idx = IF @ = -1 THEN Len(v.parts) ELSE @]
<1>1. Live(d) BY DEF SetLength
<1>2. Exists(d) => Readable(d) BY AlwaysReadable
<1>3. \/ Raise("OBJECT_NOT_EXIST") \/ Raise("TypeMismatch") \/ Raise("InvalidValue")
      \/ Stop("overflow") \/ Stop("layout") \/ Nothing
      \/ /\ Exists(d) /\ Done /\ RealKind(t) = "sequence" /\ Kind[t] # "alias" /\ n # 0
         /\ Over(d) = {} /\ store' = Resized(d, n)
         /\ \/ \E v \in Found(d) : dyn' = Moved(d, E(v))
            \/ dyn' = Moved(d, Shrunk(d, n))
  BY <1>1, <1>2 DEF SetLength, Exists, Now
<1>4. ASSUME Exists(d), Done, RealKind(t) = "sequence", Kind[t] # "alias", n # 0,
             Over(d) = {}, store' = Resized(d, n),
             (\E v \in Found(d) : dyn' = Moved(d, E(v))) \/ dyn' = Moved(d, Shrunk(d, n))
      PROVE  Typed(dyn', store') /\ crash' # "value"
  <2>1. Right(dyn') BY SetLengthStep DEF Now, IInv
  <2>2. n \in 1..MaxLen BY <1>4, MaxAssumption
  <2>3. \A D : \A x \in Dyns : Moved(d, D)[x] = D[x] BY <1>4 DEF Moved
  <2>4. ASSUME NEW v \in Found(d), dyn' = Moved(d, E(v)), NEW x \in Dyns, HasAny(dyn', x)
        PROVE  SameView(dyn, dyn', x)
    <3> DEFINE new == [dyn[d] EXCEPT !.idx = IF @ = -1 THEN Len(v.parts) ELSE @]
               D2 == dyn'
    <3>1. Used \subseteq DOMAIN dyn[d] /\ dyn = [y \in Dyns |-> dyn[y]]
      BY DEF Now, IInv, Right, Shaped
    <3>2. D2[x] = IF x = d THEN new ELSE dyn[x] BY <2>3, <2>4, <3>1
    <3>3. /\ new.life = dyn[d].life /\ new.any = dyn[d].any /\ new.owns = dyn[d].owns
          /\ new.type = dyn[d].type /\ new.root = dyn[d].root /\ new.path = dyn[d].path
          /\ new.mem = dyn[d].mem
          /\ new.idx = (IF dyn[d].idx = -1 THEN Len(v.parts) ELSE dyn[d].idx)
      BY <3>1 DEF Used
    <3>4. t \in Types /\ dyn[d].idx \in Int /\ dyn[d].mem \in {"ok", "leaked"} BY <1>4, Seen
    <3>5. v \in Values[t] BY <1>4, <3>4, SeenWell DEF Found
    <3>6. PICK k \in 0..MaxLen : Len(v.parts) = k BY <1>4, <3>4, <3>5, SequenceWidth
    <3>7. new.idx \in Int BY <3>3, <3>4, <3>6, MaxAssumption
    <3>8. HasAny(D2, x) BY <2>4
    <3> HIDE DEF new, D2
    <3>9. x = d => SameView(dyn, D2, x)
      BY <1>4, <3>2, <3>3, <3>7 DEF SameView, HasAny, IsLive, Exists, Live, TypeOf
    <3>10. x # d => SameView(dyn, D2, x) BY <3>2, <3>8 DEF SameView, HasAny, IsLive
    <3> QED BY <3>9, <3>10 DEF D2
  <2>5. ASSUME dyn' = Moved(d, Shrunk(d, n)), NEW x \in Dyns, HasAny(dyn', x)
        PROVE  SameView(dyn, dyn', x)
    <3>1. dyn'[x] = Shrunk(d, n)[x] BY <2>3, <2>5
    <3>2. HasAny(Shrunk(d, n), x) BY <2>5, <3>1 DEF HasAny, IsLive
    <3>3. SameView(dyn, Shrunk(d, n), x) BY <1>4, <3>2, ShrunkViews
    <3> QED BY <3>1, <3>3 DEF SameView
  <2>6. \A x \in Dyns : HasAny(dyn', x) => SameView(dyn, dyn', x)
    BY <1>4, <2>4, <2>5
  <2> QED BY <1>4, <2>1, <2>2, <2>6, ResizedTyped
<1> QED BY <1>3, <1>4, StayTyped

-----------------------------------------------------------------------------
(***************************************************************************)
(* set_members_as_dyn_any and set_elements_as_dyn_any: parts are copied one*)
(* after the other, and each copy reads what the ones before it have left. *)
(***************************************************************************)
(* The copy of the k-th value into the k-th part.                          *)
ValueMoved(d, cs, held, s, k) ==
  IF dyn[cs[k]].mem = "leaked" \/ Cut(d, cs[k]) THEN held[k]
  ELSE Follow(s[dyn[cs[k]].root], dyn[cs[k]].path)
PartMoved(d, cs, held, s, k) ==
  [s EXCEPT ![dyn[d].root] =
     Put(@, Append(dyn[d].path, k - 1), Copy[TypeOf(cs[k])][ValueMoved(d, cs, held, s, k)])]

LEMMA TransferredIs ==
  ASSUME NEW d, NEW cs \in Seq(Dyns), NEW held, dyn[d].mem # "leaked"
  PROVE  \E f : /\ f[0] = store
                /\ \A k \in 1..Len(cs) : f[k] = PartMoved(d, cs, held, f[k - 1], k)
                /\ Transferred(d, cs, held) = f[Len(cs)]
<1> DEFINE Body(f, n) == IF n = 0 THEN store ELSE PartMoved(d, cs, held, f[n - 1], n)
           P(f) == f = [n \in 0..Len(cs) |-> Body(f, n)]
           upto(f, n) == \A k \in 0..n : f[k] = Body(f, k)
           S == {n \in 0..Len(cs) : ~ \E f : f = [k \in 0..Len(cs) |-> f[k]] /\ upto(f, n)}
<1>1. Len(cs) \in Nat OBVIOUS
<1>2. S = {}
  <2> SUFFICES ASSUME S # {} PROVE FALSE OBVIOUS
  <2>1. S \in SUBSET Nat BY <1>1
  <2> HIDE DEF S
  <2>2. PICK m \in S : \A k \in S : m <= k
    <3>1. S # {} OBVIOUS
    <3> QED BY <2>1, <3>1, LeastNumber
  <2>3. m \in 0..Len(cs) /\ m \in Nat BY <2>1 DEF S
  <2>4. CASE m = 0
    <3> DEFINE g == [k \in 0..Len(cs) |-> store]
    <3>1. upto(g, 0) BY <1>1
    <3>2. g = [k \in 0..Len(cs) |-> g[k]] OBVIOUS
    <3> HIDE DEF g, upto
    <3> QED BY <2>2, <2>4, <3>1, <3>2 DEF S
  <2>5. CASE m # 0
    <3>1. m - 1 \in 0..Len(cs) /\ m - 1 \notin S BY <1>1, <2>2, <2>3, <2>5, <2>1
    <3> HIDE DEF upto
    <3>2. PICK f : f = [k \in 0..Len(cs) |-> f[k]] /\ upto(f, m - 1) BY <3>1 DEF S
    <3> USE DEF upto
    <3> DEFINE g == [k \in 0..Len(cs) |-> IF k = m THEN Body(f, m) ELSE f[k]]
    <3>3. \A k \in 0..m - 1 : g[k] = f[k] BY <1>1, <2>3
    <3>4. g[m] = Body(f, m) BY <2>3
    <3>5. g = [k \in 0..Len(cs) |-> g[k]] OBVIOUS
    <3> HIDE DEF g
    <3>6. Body(f, m) = Body(g, m) BY <2>3, <2>5, <3>3
    <3>7. \A k \in 0..m - 1 : Body(f, k) = Body(g, k)
      <4> SUFFICES ASSUME NEW k \in 0..m - 1 PROVE Body(f, k) = Body(g, k) OBVIOUS
      <4>1. k # 0 => k - 1 \in 0..m - 1 BY <2>3
      <4> QED BY <4>1, <3>3
    <3>8. upto(g, m)
      <4> SUFFICES ASSUME NEW k \in 0..m PROVE g[k] = Body(g, k) OBVIOUS
      <4>1. CASE k = m BY <4>1, <3>4, <3>6
      <4>2. CASE k \in 0..m - 1
        <5>1. f[k] = Body(f, k) BY <3>2, <4>2
        <5> HIDE DEF Body
        <5> QED BY <5>1, <4>2, <3>3, <3>7
      <4> QED BY <4>1, <4>2, <2>3
    <3> HIDE DEF upto
    <3> QED BY <2>2, <3>5, <3>8 DEF S
  <2> QED BY <2>4, <2>5
<1>3. Len(cs) \notin S BY <1>2
<1> HIDE DEF upto
<1>4. PICK f : f = [k \in 0..Len(cs) |-> f[k]] /\ upto(f, Len(cs)) BY <1>1, <1>3
<1>5. P(f)
  <2>1. \A k \in 0..Len(cs) : f[k] = Body(f, k) BY <1>4 DEF upto
  <2> HIDE DEF Body
  <2> QED BY <1>4, <2>1
<1>6. P(CHOOSE g : P(g)) BY <1>5, Zenon
<1> DEFINE A == CHOOSE g : P(g)
<1>7. Transferred(d, cs, held) = A[Len(cs)]
  BY Zenon DEF Transferred, PartMoved, ValueMoved
<1>8. P(A) BY <1>6, Zenon
<1>9. A = [n \in 0..Len(cs) |-> Body(A, n)] BY <1>8
<1> HIDE DEF A
<1>10. A[0] = store BY <1>1, <1>9
<1>12. ASSUME NEW n \in 1..Len(cs) PROVE A[n] = PartMoved(d, cs, held, A[n - 1], n)
  <2>1. n \in 0..Len(cs) /\ n # 0 BY <1>1
  <2>2. A[n] = Body(A, n)
    <3> HIDE DEF Body
    <3> QED BY <1>9, <2>1
  <2> QED BY <2>1, <2>2
<1> QED BY <1>7, <1>10, <1>12

(* Values change in one place, and everybody still finds his way.          *)
LEMMA LedTyped ==
  ASSUME NEW D, NEW s, NEW D2, NEW s2, Typed(D, s), Right(D2),
         \A x \in Dyns : HasAny(D2, x) => SameView(D, D2, x),
         NEW r \in Dyns, s2[r] \in Values[D[r].type],
         s2 = [x \in Dyns |-> s2[x]], \A x \in Dyns \ {r} : s2[x] = s[x],
         \A x \in Dyns : HasAny(D2, x) /\ D2[x].root = r /\ D2[x].mem = "ok" =>
           Leads(D[r].type, s2[r], D2[x].path)
  PROVE  Typed(D2, s2)
<1>1. Rooted(D2) BY RootsOwn
<1>4. ASSUME NEW x \in Dyns, HasAny(D2, x)
      PROVE  View(D2, s2, x) /\ (D2[x].owns => s2[x] \in Values[D2[x].type])
  <2>1. View(D, s, x) /\ SameView(D, D2, x) /\ (D[x].owns => s[x] \in Values[D[x].type])
    BY <1>4 DEF Typed, SameView
  <2> DEFINE o == D[x].root
  <2>2. o \in Dyns /\ HasAny(D2, o) BY <1>1, <1>4, <2>1 DEF Rooted, SameView
  <2>3. D2[o].type = D[o].type BY <2>2 DEF SameView
  <2>4. D2[x].mem = "ok" => D[x].mem = "ok" BY <2>1 DEF SameView
  <2>5. D2[x].mem = "ok" => Leads(D[o].type, s[o], D[x].path) BY <2>1, <2>4 DEF View
  <2>6. D2[x].root = o /\ D2[x].path = D[x].path BY <2>1 DEF SameView
  <2> HIDE DEF o
  <2>7. D2[x].mem = "ok" => Leads(D[o].type, s2[o], D[x].path)
    <3>1. CASE o # r
      <4>1. s2[o] = s[o] BY <2>2, <3>1
      <4> QED BY <2>5, <4>1
    <3>2. CASE o = r BY <1>4, <2>6, <3>2
    <3> QED BY <3>1, <3>2
  <2>8. View(D2, s2, x)
    <3>1. o = D[x].root BY DEF o
    <3> QED BY <2>1, <2>3, <2>7, <3>1, ViewKept
  <2>9. D2[x].owns => s2[x] \in Values[D2[x].type]
    <3>1. D2[x].type = D[x].type /\ D2[x].owns = D[x].owns BY <2>1 DEF SameView
    <3>2. CASE x = r BY <3>1, <3>2
    <3>3. CASE x # r
      <4>1. s2[x] = s[x] BY <3>3
      <4> QED BY <2>1, <3>1, <4>1
    <3> QED BY <3>2, <3>3
  <2> QED BY <2>8, <2>9
<1> QED BY <1>4 DEF Typed

(* The ways into the value of d's owner that must stay: to what is not cut *)
(* off, and to the parts of d that are written.                            *)
Stays(d, x) ==
  Exists(x) /\ dyn[x].root = dyn[d].root /\ dyn[x].mem = "ok" /\ ~ Cut(d, x)
Ways(d, cs) ==
  {dyn[x].path : x \in {y \in Dyns : Stays(d, y)}}
    \cup {Further(dyn[d].path, j - 1) : j \in 1..Len(cs)}

Halfway(d, cs, s) ==
  /\ s = [x \in Dyns |-> s[x]] /\ \A x \in Dyns \ {RootOf(d)} : s[x] = store[x]
  /\ s[RootOf(d)] \in Values[RootType(d)]
  /\ \A q \in Ways(d, cs) : Leads(RootType(d), s[RootOf(d)], q)

(* What is given for the parts of d.                                       *)
Fits(d, cs, held) ==
  /\ cs \in Seq(Dyns) /\ RealKind(TypeOf(d)) \in Composite
  /\ \A k \in 1..Len(cs) :
       /\ Exists(cs[k]) /\ TypeOf(cs[k]) = PartType(TypeOf(d), k - 1)
       /\ k \in DOMAIN ValueOf(d).parts
       /\ IF dyn[cs[k]].mem = "leaked" THEN held[k] \in Values[TypeOf(cs[k])]
          ELSE held[k] = ValueOf(cs[k])

LEMMA PartWay ==
  ASSUME Now, NEW d \in Dyns, Exists(d), dyn[d].mem = "ok", NEW cs, NEW held,
         Fits(d, cs, held), NEW k \in 1..Len(cs)
  PROVE  /\ Leads(RootType(d), RootValue(d), Further(dyn[d].path, k - 1))
         /\ PathType(RootType(d), Further(dyn[d].path, k - 1)) = TypeOf(cs[k])
<1> DEFINE T == RootType(d)
           V == RootValue(d)
           p == dyn[d].path
           j == k - 1
           u == PathType(T, p)
<1>1. j \in Nat /\ j + 1 = k BY DEF Fits
<1>2. T \in Types /\ V \in Values[T] /\ TypeOf(d) \in Types BY Seen
<1>3. Leads(T, V, p) /\ u \in Types /\ Real[TypeOf(d)] = Real[u] BY SeenWell
<1>4. RealKind(u) \in Composite /\ PartType(TypeOf(d), j) = PartType(u, j)
  BY <1>2, <1>3, RealPartType DEF Fits, RealKind
<1>5. k \in DOMAIN Follow(V, p).parts /\ TypeOf(cs[k]) = PartType(TypeOf(d), j)
  BY DEF Fits, ValueOf, RootValue
<1> HIDE DEF T, V, p, j
<1>6. j + 1 \in DOMAIN Follow(V, p).parts BY <1>1, <1>5
<1>7. Leads(T, V, Further(p, j)) /\ PathType(T, Further(p, j)) = PartType(u, j)
  BY <1>1, <1>2, <1>3, <1>4, <1>6, PartLeads
<1> QED BY <1>4, <1>5, <1>7 DEF T, V, p, j

(* The value that is read is of its type, whatever was written before.     *)
LEMMA MovedValue ==
  ASSUME Now, NEW d \in Dyns, Exists(d), dyn[d].mem = "ok", NEW cs, NEW held,
         Fits(d, cs, held), NEW s, Halfway(d, cs, s), NEW k \in 1..Len(cs)
  PROVE  ValueMoved(d, cs, held, s, k) \in Values[TypeOf(cs[k])]
<1> DEFINE c == cs[k]
<1>1. c \in Dyns /\ Exists(c) BY DEF Fits
<1>2. dyn[c].mem \in {"ok", "leaked"} /\ RootOf(c) \in Dyns /\ RootType(c) \in Types BY <1>1, Seen
<1>3. CASE dyn[c].mem = "leaked" BY <1>3 DEF ValueMoved, Fits
<1>4. CASE dyn[c].mem = "ok"
  <2>1. /\ Leads(RootType(c), RootValue(c), dyn[c].path)
        /\ Values[TypeOf(c)] = Values[PathType(RootType(c), dyn[c].path)]
        /\ ValueOf(c) \in Values[TypeOf(c)]
    BY <1>1, <1>4, SeenWell
  <2>2. CASE Cut(d, c) BY <1>4, <2>1, <2>2 DEF ValueMoved, Fits
  <2>3. CASE ~ Cut(d, c) /\ dyn[c].root # dyn[d].root
    <3>1. s[RootOf(c)] = store[RootOf(c)] BY <1>2, <2>3 DEF Halfway, RootOf
    <3>2. ValueMoved(d, cs, held, s, k) = Follow(s[RootOf(c)], dyn[c].path)
      BY <1>4, <2>3 DEF ValueMoved, RootOf
    <3>3. ValueMoved(d, cs, held, s, k) = ValueOf(c) BY <3>1, <3>2 DEF ValueOf, RootOf
    <3> QED BY <2>1, <3>3
  <2>4. CASE ~ Cut(d, c) /\ dyn[c].root = dyn[d].root
    <3> DEFINE T == RootType(d)
               w == s[RootOf(d)]
               q == dyn[c].path
               n == Len(q)
    <3>1. q \in Ways(d, cs) BY <1>1, <1>4, <2>4 DEF Ways, Stays
    <3>2. Leads(T, w, q) /\ w \in Values[T] BY <3>1 DEF Halfway
    <3>3. T \in Types /\ T = RootType(c) BY <1>2, <2>4 DEF RootType
    <3>4. ValueMoved(d, cs, held, s, k) = Follow(w, q)
      BY <1>4, <2>4 DEF ValueMoved, RootOf
    <3> HIDE DEF T, w, q
    <3>5. n \in 0..Len(q) BY <3>2 DEF Leads
    <3>6. Follow(w, q) \in Values[PathType(T, q)]
      BY <3>2, <3>3, <3>5, LeadsTyped DEF Follow, PathType
    <3> QED BY <2>1, <3>3, <3>4, <3>6 DEF q
  <2> QED BY <2>2, <2>3, <2>4
<1> QED BY <1>2, <1>3, <1>4

(* The k-th part is written.                                               *)
LEMMA HalfwayStep ==
  ASSUME Now, NEW d \in Dyns, Exists(d), dyn[d].mem = "ok", NEW cs, NEW held,
         Fits(d, cs, held), NEW s, Halfway(d, cs, s), NEW k \in 1..Len(cs)
  PROVE  Halfway(d, cs, PartMoved(d, cs, held, s, k))
<1> DEFINE T == RootType(d)
           r == RootOf(d)
           p == dyn[d].path
           pk == Further(p, k - 1)
           u == TypeOf(cs[k])
           new == Copy[u][ValueMoved(d, cs, held, s, k)]
           v == s[r]
           w == Put(v, pk, new)
           s2 == PartMoved(d, cs, held, s, k)
<1>1. T \in Types /\ r \in Dyns BY Seen
<1>2. cs[k] \in Dyns /\ Exists(cs[k]) BY DEF Fits
<1>3. u \in Types BY <1>2, Seen
<1>4. ValueMoved(d, cs, held, s, k) \in Values[u] BY MovedValue
<1>5. new \in Values[u]
  <2> DEFINE m == ValueMoved(d, cs, held, s, k)
  <2>1. m \in Values[u] BY <1>4
  <2> HIDE DEF m, u
  <2>2. Copy[u][m] \in Values[u] BY <1>3, <2>1, CopyTyped
  <2> QED BY <2>2 DEF m
<1>6. PathType(T, pk) = u BY PartWay
<1>7. pk \in Ways(d, cs) BY DEF Ways
<1>8. v \in Values[T] /\ Leads(T, v, pk) BY <1>7 DEF Halfway
<1>9. s2 = [s EXCEPT ![r] = w] BY DEF PartMoved, Further, RootOf
<1>10. s = [x \in Dyns |-> s[x]] /\ \A x \in Dyns \ {r} : s[x] = store[x]
  BY DEF Halfway
<1>11. p \in Seq(Nat) /\ Len(p) \in Nat BY SeenWell DEF Leads
<1>12. pk \in Seq(Nat) /\ Len(pk) = Len(p) + 1 /\ Agree(p, pk, Len(p))
  BY <1>11 DEF Further, Fits, Agree
<1>13. ASSUME NEW q \in Ways(d, cs) PROVE Leads(T, v, q) /\ Spares(T, v, pk, new, q)
  <2>1. Leads(T, v, q) BY DEF Halfway
  <2>2. q \in Seq(Nat) /\ Len(q) \in Nat BY <2>1 DEF Leads
  <2>3. ASSUME Len(pk) < Len(q), Agree(pk, q, Len(pk))
        PROVE  /\ DOMAIN new.parts = DOMAIN Follow(v, pk).parts
               /\ \A n \in Len(pk) + 1..Len(q) - 1 : RealKind(TypesAlong(T, q)[n]) # "sequence"
    <3>1. PICK x \in Dyns : Stays(d, x) /\ q = dyn[x].path
      <4>1. CASE q \in {Further(p, j - 1) : j \in 1..Len(cs)}
        <5>1. PICK j \in 1..Len(cs) : q = Further(p, j - 1) BY <4>1
        <5>2. Len(q) = Len(p) + 1 BY <1>11, <5>1 DEF Further
        <5> QED BY <1>11, <1>12, <2>3, <5>2
      <4>2. CASE q \notin {Further(p, j - 1) : j \in 1..Len(cs)} BY <4>2 DEF Ways
      <4> QED BY <4>1, <4>2
    <3> HIDE DEF pk, new, v, T
    <3>2. Len(p) < Len(q) /\ Agree(p, q, Len(p))
      <4>1. \A i \in 1..Len(pk) : pk[i] = q[i] BY <2>3 DEF Agree
      <4>2. \A i \in 1..Len(p) : p[i] = pk[i] /\ i \in 1..Len(pk) BY <1>11, <1>12 DEF Agree
      <4> QED BY <1>11, <1>12, <2>2, <2>3, <4>1, <4>2 DEF Agree
    <3> HIDE DEF p
    <3>3. IsStrictPrefix(p, q) BY <1>11, <2>2, <3>2, StrictPrefix
    <3> USE DEF p
    <3>4. x \in Behind(dyn[d].root, dyn[d].path) BY <3>1, <3>3 DEF Behind, Stays
    <3>5. \A n \in Len(p) + 1..Len(q) - 1 : RealKind(TypesAlong(T, q)[n]) # "sequence"
      BY <3>1, <3>4 DEF Stays, Cut, T, RootType, TypeOf
    <3> HIDE DEF p
    <3>6. \A n \in Len(pk) + 1..Len(q) - 1 : n \in Len(p) + 1..Len(q) - 1
      BY <1>11, <1>12, <2>2
    <3> DEFINE m == Len(pk)
    <3>7. m \in Len(p) + 1..Len(q) - 1 /\ m \in 0..Len(q) - 1 /\ m \in Nat /\ m <= Len(q)
          /\ m \in 0..Len(pk)
      BY <1>11, <1>12, <2>2, <2>3
    <3>8. Agree(pk, q, m) /\ m <= Len(pk) BY <2>3, <3>7
    <3>12. m = Len(pk) OBVIOUS
    <3> HIDE DEF m
    <3>9. TypesAlong(T, pk)[m] = TypesAlong(T, q)[m]
      BY <1>12, <2>2, <3>7, <3>8, SameWay
    <3>10. TypesAlong(T, pk)[m] = u /\ Along(v, pk)[m] = Follow(v, pk)
      BY <1>6, <3>12 DEF PathType, Follow
    <3>11. RealKind(u) \in Composite /\ RealKind(u) # "sequence"
      BY <2>1, <3>5, <3>7, <3>9, <3>10 DEF Leads
    <3>13. Follow(v, pk) \in Values[u]
      <4>1. Along(v, pk)[m] \in Values[TypesAlong(T, pk)[m]]
        BY <1>1, <1>8, <3>7, LeadsTyped
      <4> QED BY <3>10, <4>1
    <3> HIDE DEF u
    <3>14. DOMAIN new.parts = DOMAIN Follow(v, pk).parts
      BY <1>3, <1>5, <3>11, <3>13, SameWidth
    <3> QED BY <3>5, <3>6, <3>14
  <2> HIDE DEF pk, new, v, T
  <2> QED BY <2>1, <2>3 DEF Spares
<1>14. s2[r] = w /\ s2 = [x \in Dyns |-> s2[x]] /\ \A x \in Dyns \ {r} : s2[x] = s[x]
  <2> HIDE DEF s2, w, r
  <2> QED BY <1>1, <1>9, <1>10
<1>15. w = Put(v, pk, new) OBVIOUS
<1>16. new \in Values[PathType(T, pk)] BY <1>5, <1>6
<1> HIDE DEF w, new, v, pk, T, s2, p
<1>17. w \in Values[T] BY <1>1, <1>8, <1>15, <1>16, PutTyped
<1>18. ASSUME NEW q \in Ways(d, cs) PROVE Leads(T, w, q)
  <2>1. Leads(T, v, q) /\ Spares(T, v, pk, new, q) BY <1>13
  <2> QED BY <1>1, <1>8, <1>15, <1>16, <2>1, StillLeads
<1> QED BY <1>10, <1>14, <1>17, <1>18 DEF Halfway, T, s2

(* The values of cs are copied into the parts of d, one after the other.   *)
LEMMA TransferTyped ==
  ASSUME Now, crash # "value", NEW d \in Dyns, Exists(d), NEW cs \in Seq(Dyns), NEW held,
         dyn[d].mem = "ok" => Fits(d, cs, held),
         Right(dyn'), dyn' = CutOff(d, Invalidated(d)),
         store' = Transferred(d, cs, held), Done
  PROVE  Typed(dyn', store') /\ crash' # "value"
<1>1. \A x \in Dyns : HasAny(dyn', x) =>
        SameView(dyn, dyn', x) /\ (dyn'[x].mem = "ok" => ~ Cut(d, x))
  BY CutViews
<1>2. Typed(dyn, store) /\ store = [x \in Dyns |-> store[x]] BY DEF Now, Typed
<1>3. dyn[d].mem \in {"ok", "leaked"} /\ RootOf(d) \in Dyns
      /\ RootType(d) \in Types /\ RootValue(d) \in Values[RootType(d)]
  BY Seen
<1> DEFINE D2 == dyn'
           s2 == store'
           r == RootOf(d)
<1>4. Right(D2) /\ \A x \in Dyns : HasAny(D2, x) => SameView(dyn, D2, x) BY <1>1
<1>5. CASE dyn[d].mem = "leaked"
  <2>1. s2 = store BY <1>5 DEF Transferred
  <2> HIDE DEF D2, s2
  <2>2. Typed(D2, s2) BY <1>2, <1>4, <2>1, SameTyped
  <2> QED BY <2>2 DEF D2, s2, Done
<1>6. CASE dyn[d].mem = "ok"
  <2>1. PICK f : /\ f[0] = store
                 /\ \A k \in 1..Len(cs) : f[k] = PartMoved(d, cs, held, f[k - 1], k)
                 /\ Transferred(d, cs, held) = f[Len(cs)]
    BY <1>6, TransferredIs
  <2>2. Fits(d, cs, held) /\ Len(cs) \in Nat BY <1>6
  <2>3. Halfway(d, cs, store)
    <3>1. ASSUME NEW q \in Ways(d, cs) PROVE Leads(RootType(d), RootValue(d), q)
      <4>1. CASE q \in {Further(dyn[d].path, j - 1) : j \in 1..Len(cs)}
        BY <1>6, <2>2, <4>1, PartWay
      <4>2. CASE q \in {dyn[x].path : x \in {y \in Dyns : Stays(d, y)}}
        <5>1. PICK x \in Dyns : Stays(d, x) /\ q = dyn[x].path BY <4>2
        <5>2. Exists(x) /\ dyn[x].mem = "ok" /\ dyn[x].root = dyn[d].root BY <5>1 DEF Stays
        <5>3. Leads(RootType(x), RootValue(x), dyn[x].path) BY <5>2, SeenWell
        <5> QED BY <5>1, <5>2, <5>3 DEF RootType, RootValue
      <4> QED BY <4>1, <4>2 DEF Ways
    <3>2. RootValue(d) = store[RootOf(d)] BY DEF RootValue, RootOf
    <3> QED BY <1>2, <1>3, <3>1, <3>2 DEF Halfway
  <2> DEFINE S == {n \in 0..Len(cs) : ~ Halfway(d, cs, f[n])}
  <2>4. S = {}
    <3> SUFFICES ASSUME S # {} PROVE FALSE OBVIOUS
    <3>1. S \in SUBSET Nat BY <2>2
    <3> HIDE DEF S
    <3>2. PICK m \in S : \A k \in S : m <= k
      <4>1. S # {} OBVIOUS
      <4> QED BY <3>1, <4>1, LeastNumber
    <3>3. m \in 0..Len(cs) /\ ~ Halfway(d, cs, f[m]) BY DEF S
    <3>4. m # 0 BY <2>1, <2>3, <3>3
    <3>5. m - 1 \in 0..Len(cs) /\ m - 1 \notin S /\ m \in 1..Len(cs)
      BY <2>2, <3>1, <3>2, <3>3, <3>4
    <3>6. Halfway(d, cs, f[m - 1]) BY <3>5 DEF S
    <3>7. f[m] = PartMoved(d, cs, held, f[m - 1], m) BY <2>1, <3>5
    <3>8. Halfway(d, cs, PartMoved(d, cs, held, f[m - 1], m))
      <4> DEFINE s == f[m - 1]
      <4>1. Halfway(d, cs, s) BY <3>6
      <4> HIDE DEF s
      <4>2. Halfway(d, cs, PartMoved(d, cs, held, s, m)) BY <1>6, <2>2, <3>5, <4>1, HalfwayStep
      <4> QED BY <4>2 DEF s
    <3> QED BY <3>3, <3>7, <3>8
  <2>5. Len(cs) \in 0..Len(cs) BY <2>2
  <2>6. Halfway(d, cs, s2) BY <2>1, <2>4, <2>5
  <2>7. ASSUME NEW x \in Dyns, HasAny(D2, x), D2[x].root = r, D2[x].mem = "ok"
        PROVE  Leads(dyn[r].type, s2[r], D2[x].path)
    <3>1. SameView(dyn, dyn', x) /\ ~ Cut(d, x) BY <1>1, <2>7
    <3>2. Stays(d, x) /\ D2[x].path = dyn[x].path
      BY <2>7, <3>1 DEF SameView, Stays, Exists, Live, HasAny, IsLive, RootOf
    <3>3. dyn[x].path \in Ways(d, cs) BY <3>2 DEF Ways
    <3>4. Leads(RootType(d), s2[RootOf(d)], dyn[x].path) BY <2>6, <3>3 DEF Halfway
    <3> QED BY <3>2, <3>4 DEF RootType, RootOf
  <2>8. /\ s2 = [x \in Dyns |-> s2[x]] /\ \A x \in Dyns \ {r} : s2[x] = store[x]
        /\ s2[r] \in Values[dyn[r].type]
    BY <2>6 DEF Halfway, RootType, RootOf
  <2>9. r \in Dyns BY <1>3
  <2> HIDE DEF D2, s2, r
  <2>10. Typed(D2, s2) BY <1>2, <1>4, <2>7, <2>8, <2>9, LedTyped
  <2> QED BY <2>10 DEF D2, s2, Done
<1> QED BY <1>3, <1>5, <1>6

LEMMA MembersMovedTyped ==
  ASSUME Now, crash # "value", NEW d \in Dyns, NEW cs \in Pairs, SetMembersAsDynAny(d, cs)
  PROVE  Typed(dyn', store') /\ crash' # "value"
<1> DEFINE t == TypeOf(d)
           B == {i \in DOMAIN cs : ~ (dyn[cs[i]].any /\ TypeOf(cs[i]) = Subtypes[t][i])}
           bad == IF B = {} THEN 0 ELSE CHOOSE i \in B : \A j \in B : i <= j
<1>1. Live(d) /\ \A i \in DOMAIN cs : Live(cs[i]) BY DEF SetMembersAsDynAny
<1>2. ~ Dangling(d) BY <1>1, InvalidatedViews
<1>3. cs \in Seq(Dyns) /\ DOMAIN cs = 1..2 /\ Len(cs) = 2
  <2>1. 2 \in Nat /\ cs \in [1..2 -> Dyns] BY DEF Pairs
  <2>2. DOMAIN cs = 1..2 /\ cs = [i \in 1..2 |-> cs[i]] /\ \A i \in 1..2 : cs[i] \in Dyns
    BY <2>1
  <2>3. cs \in Seq(Dyns) BY <2>2
  <2> QED BY <2>2, <2>3
<1>4. bad = 0 => \A i \in DOMAIN cs : dyn[cs[i]].any /\ TypeOf(cs[i]) = Subtypes[t][i]
  <2> SUFFICES ASSUME bad = 0, B # {} PROVE FALSE OBVIOUS
  <2>1. B \subseteq DOMAIN cs /\ 0 \notin B /\ B \in SUBSET Nat BY <1>3
  <2> HIDE DEF B
  <2>2. \E i \in B : \A j \in B : i <= j BY <2>1, LeastNumber
  <2>3. bad \in B BY <2>2
  <2> QED BY <2>1, <2>3
<1>5. Exists(d) /\ bad = 0 => AllReadable(d, cs)
  <2> SUFFICES ASSUME Exists(d), bad = 0, NEW x \in Range(cs) \cup {d} PROVE Readable(x)
    BY DEF AllReadable
  <2>1. x \in Dyns /\ Exists(x) BY <1>1, <1>3, <1>4 DEF Range, Exists
  <2> QED BY <2>1, AlwaysReadable
<1>6. \/ Raise("OBJECT_NOT_EXIST") \/ Raise("TypeMismatch") \/ Raise("InvalidValue")
      \/ Stop("names") \/ Stop("null") \/ Stop("layout")
      \/ /\ Exists(d) /\ Done /\ RealKind(t) = "struct" /\ Kind[t] # "alias"
         /\ Len(cs) = SubParts(t) /\ bad = 0 /\ dyn' = CutOff(d, Invalidated(d))
         /\ \E held \in Held(cs) : store' = Transferred(d, cs, held)
  BY <1>1, <1>2, <1>5 DEF SetMembersAsDynAny, Exists, FirstBad
<1>7. ASSUME Exists(d), Done, RealKind(t) = "struct", Kind[t] # "alias",
             Len(cs) = SubParts(t), bad = 0, dyn' = CutOff(d, Invalidated(d)),
             NEW held \in Held(cs), store' = Transferred(d, cs, held)
      PROVE  Typed(dyn', store') /\ crash' # "value"
  <2>1. t \in Types BY <1>7, Seen
  <2>2. Real[t] = t BY <1>7, <2>1, RealDefined
  <2>3. Kind[t] = "struct" /\ Subtypes[t] \in Seq(Types)
    BY <1>7, <2>1, <2>2, TypesAssumption DEF RealKind
  <2>4. DOMAIN Subtypes[t] = DOMAIN cs BY <1>3, <1>7, <2>3 DEF SubParts
  <2>5. \A i \in DOMAIN cs : IF dyn[cs[i]].mem = "leaked" THEN held[i] \in Values[TypeOf(cs[i])]
                             ELSE held[i] = ValueOf(cs[i])
    BY DEF Held
  <2>6. \A i \in DOMAIN cs : dyn[cs[i]].any /\ TypeOf(cs[i]) = Subtypes[t][i] BY <1>4, <1>7
  <2>7. RealKind(t) \in Composite BY <1>7 DEF Composite
  <2>8. ASSUME dyn[d].mem = "ok" PROVE Fits(d, cs, held)
    <3>1. ValueOf(d) \in Values[t] BY <1>7, <2>8, SeenWell
    <3>2. WellMade(t, ValueOf(d).max, ValueOf(d).parts) BY <2>1, <2>2, <2>7, <3>1, PartTyped
    <3>3. DOMAIN ValueOf(d).parts = DOMAIN cs BY <2>3, <2>4, <3>2 DEF WellMade, Widths
    <3>4. ASSUME NEW k \in 1..Len(cs)
          PROVE  /\ Exists(cs[k]) /\ TypeOf(cs[k]) = PartType(t, k - 1)
                 /\ k \in DOMAIN ValueOf(d).parts
                 /\ IF dyn[cs[k]].mem = "leaked" THEN held[k] \in Values[TypeOf(cs[k])]
                    ELSE held[k] = ValueOf(cs[k])
      <4>1. k \in DOMAIN cs BY <1>3
      <4>2. TypeOf(cs[k]) = Subtypes[t][k] /\ Exists(cs[k]) BY <1>1, <2>6, <4>1 DEF Exists
      <4>3. k \in DOMAIN Subtypes[t] BY <2>4, <4>1
      <4>4. PartType(t, k - 1) = Subtypes[t][k]
        <5> HIDE DEF t
        <5> QED BY <2>1, <2>3, <4>3, PartTypes DEF Composite
      <4>5. IF dyn[cs[k]].mem = "leaked" THEN held[k] \in Values[TypeOf(cs[k])]
            ELSE held[k] = ValueOf(cs[k])
        BY <2>5, <4>1
      <4> QED BY <3>3, <4>1, <4>2, <4>4, <4>5
    <3> QED BY <1>3, <2>7, <3>4 DEF Fits
  <2>9. Right(dyn') BY SetOthersStep DEF Now, IInv
  <2> HIDE DEF t
  <2> QED BY <1>3, <1>7, <2>8, <2>9, TransferTyped
<1> QED BY <1>6, <1>7, StayTyped

LEMMA ElementsMovedTyped ==
  ASSUME Now, crash # "value", NEW d \in Dyns, NEW cs \in Seq(Dyns),
         SetElementsAsDynAny(d, cs)
  PROVE  Typed(dyn', store') /\ crash' # "value"
<1> DEFINE t == TypeOf(d)
           fine(v) == \A i \in DOMAIN cs :
                        dyn[cs[i]].any /\ TypeOf(cs[i]) = Subtypes[Real[t]][1]
<1>1. Live(d) /\ \A i \in DOMAIN cs : Live(cs[i]) BY DEF SetElementsAsDynAny
<1>2. ~ Dangling(d) /\ (Exists(d) => Readable(d)) BY <1>1, InvalidatedViews, AlwaysReadable
<1>3. DOMAIN cs = 1..Len(cs) /\ Len(cs) \in Nat /\ \A i \in DOMAIN cs : cs[i] \in Dyns OBVIOUS
<1>4. \/ Raise("OBJECT_NOT_EXIST") \/ Raise("TypeMismatch") \/ Raise("InvalidValue")
      \/ Stop("null") \/ Stop("overflow")
      \/ /\ Exists(d) /\ RealKind(t) = "sequence"
         /\ \E v \in Found(d) :
              /\ ~ \E i \in DOMAIN cs : i <= Len(v.parts)
                     /\ (~ dyn[cs[i]].any \/ TypeOf(cs[i]) # Subtypes[Real[t]][1])
              /\ ~ (Len(cs) > Len(v.parts))
              /\ \/ ~ AllReadable(d, cs) /\ Stop("value")
                 \/ /\ Done /\ dyn' = CutOff(d, Invalidated(d))
                    /\ \E held \in Held(cs) : store' = Transferred(d, cs, held)
  BY <1>1, <1>2 DEF SetElementsAsDynAny, Exists
<1>5. ASSUME Exists(d), RealKind(t) = "sequence", NEW v \in Found(d),
             ~ \E i \in DOMAIN cs : i <= Len(v.parts)
                 /\ (~ dyn[cs[i]].any \/ TypeOf(cs[i]) # Subtypes[Real[t]][1]),
             ~ (Len(cs) > Len(v.parts)),
             \/ ~ AllReadable(d, cs) /\ Stop("value")
             \/ /\ Done /\ dyn' = CutOff(d, Invalidated(d))
                /\ \E held \in Held(cs) : store' = Transferred(d, cs, held)
      PROVE  Typed(dyn', store') /\ crash' # "value"
  <2>1. t \in Types BY <1>5, Seen
  <2>2. v \in Values[t] /\ (dyn[d].mem = "ok" => v = ValueOf(d))
    BY <1>5, Seen, SeenWell DEF Found
  <2>3. PICK m \in 0..MaxLen : DOMAIN v.parts = 1..m /\ Len(v.parts) = m
    BY <1>5, <2>1, <2>2, SequenceWidth
  <2>4. m \in Nat BY MaxAssumption
  <2>5. \A i \in DOMAIN cs : dyn[cs[i]].any /\ TypeOf(cs[i]) = Subtypes[Real[t]][1]
    BY <1>3, <1>5, <2>3, <2>4
  <2>6. AllReadable(d, cs)
    <3> SUFFICES ASSUME NEW x \in Range(cs) \cup {d} PROVE Readable(x) BY DEF AllReadable
    <3>1. x \in Dyns /\ Exists(x) BY <1>1, <1>3, <1>5, <2>5 DEF Range, Exists
    <3> QED BY <3>1, AlwaysReadable
  <2>7. PICK held \in Held(cs) : store' = Transferred(d, cs, held) BY <1>5, <2>6
  <2>8. Done /\ dyn' = CutOff(d, Invalidated(d)) BY <1>5, <2>6
  <2>9. \A i \in DOMAIN cs : IF dyn[cs[i]].mem = "leaked" THEN held[i] \in Values[TypeOf(cs[i])]
                             ELSE held[i] = ValueOf(cs[i])
    BY DEF Held
  <2>10. RealKind(t) \in Composite BY <1>5 DEF Composite
  <2>11. ASSUME dyn[d].mem = "ok" PROVE Fits(d, cs, held)
    <3>1. ASSUME NEW k \in 1..Len(cs)
          PROVE  /\ Exists(cs[k]) /\ TypeOf(cs[k]) = PartType(t, k - 1)
                 /\ k \in DOMAIN ValueOf(d).parts
                 /\ IF dyn[cs[k]].mem = "leaked" THEN held[k] \in Values[TypeOf(cs[k])]
                    ELSE held[k] = ValueOf(cs[k])
      <4>1. k \in DOMAIN cs BY <1>3
      <4>2. TypeOf(cs[k]) = Subtypes[Real[t]][1] /\ Exists(cs[k])
        BY <1>1, <2>5, <4>1 DEF Exists
      <4>3. PartType(t, k - 1) = Subtypes[Real[t]][1] BY <1>5 DEF PartType
      <4>4. k \in DOMAIN ValueOf(d).parts
        BY <1>3, <1>5, <2>2, <2>3, <2>4, <2>11
      <4>5. IF dyn[cs[k]].mem = "leaked" THEN held[k] \in Values[TypeOf(cs[k])]
            ELSE held[k] = ValueOf(cs[k])
        BY <2>9, <4>1
      <4> QED BY <4>2, <4>3, <4>4, <4>5
    <3> QED BY <2>10, <3>1 DEF Fits
  <2>12. Right(dyn') BY SetOthersStep DEF Now, IInv
  <2> HIDE DEF t
  <2> QED BY <1>5, <2>7, <2>8, <2>11, <2>12, TransferTyped
<1> QED BY <1>4, <1>5, StayTyped

-----------------------------------------------------------------------------
(***************************************************************************)
(* The results about values.                                               *)
(***************************************************************************)
(* Where the application is careful, values and what looks into them have  *)
(* their types, and no value was used that has not.                        *)
AllTyped == Careful => Typed(dyn, store) /\ crash # "value"

LEMMA InitTyped == Init => AllTyped
<1> SUFFICES ASSUME Init PROVE Typed(dyn, store) /\ crash # "value" BY DEF AllTyped
<1>1. store = [d \in Dyns |-> store[d]] BY DEF Init
<1>2. \A d \in Dyns : ~ HasAny(dyn, d) BY DEF Init, HasAny, Unused
<1> QED BY <1>1, <1>2 DEF Typed, Init

LEMMA StaysTyped == IInv /\ AllTyped /\ [Next]_vars => AllTyped'
<1> SUFFICES ASSUME IInv, AllTyped, [Next]_vars, Careful
             PROVE  Typed(dyn', store') /\ crash' # "value"
  BY DEF AllTyped
<1> DEFINE good == Typed(dyn', store') /\ crash' # "value"
<1>1. Now /\ crash # "value" BY DEF Now, AllTyped
<1> HIDE DEF good
<1>2. ASSUME UNCHANGED <<dyn, store, crash>> PROVE good
  BY <1>1, <1>2 DEF Now, good
<1>3. ASSUME NEW d \in Dyns, NEW t \in Made PROVE CreateFromType(d, t) => good
  <2>1. t \in Types BY TypesAssumption
  <2>2. Default[t] \in Values[t] BY <2>1, DefaultTyped
  <2> QED BY <1>1, <2>1, <2>2, MasterTyped DEF CreateFromType, good
<1>4. ASSUME NEW d \in Dyns, NEW t \in Made, NEW v \in Given[t]
      PROVE  CreateDynAny(d, t, v) => good
  <2>1. t \in Types BY TypesAssumption
  <2> QED BY <1>1, <2>1, CreateTyped DEF good
<1>5. ASSUME NEW d \in Dyns, NEW t \in Types, NEW v \in Given[t]
      PROVE  FromAny(d, t, v) => good
  <2>1. v \in Values[t] BY GivenAssumption
  <2> QED BY <1>1, <2>1, FromAnyTyped DEF good
<1>6. Caught => good BY <1>2 DEF Caught
<1>7. ASSUME NEW d \in Dyns
      PROVE  /\ Release(d) => good
             /\ Rewind(d) => good
             /\ NextComponent(d) => good
             /\ ElementsAsDynAny(d) => good
             /\ Unimplemented(d) => good
  <2>1. Release(d) => good BY <1>1, ReleaseTyped DEF good
  <2>2. Rewind(d) => good BY <1>1, SeekTyped DEF good, Rewind
  <2>3. NextComponent(d) => good
    <3>1. CASE Exists(d)
      <4> DEFINE i == dyn[d].idx + 1
      <4>1. i \in Int BY <1>1, <3>1, Seen
      <4>2. NextComponent(d) => Seek(d, i) BY DEF NextComponent
      <4> HIDE DEF i
      <4> QED BY <1>1, <4>1, <4>2, SeekTyped DEF good
    <3>2. CASE ~ Exists(d)
      <4>1. NextComponent(d) => Raise("OBJECT_NOT_EXIST")
        BY <3>2 DEF NextComponent, Seek, Exists
      <4> QED BY <1>1, <4>1, StayTyped DEF good
    <3> QED BY <3>1, <3>2
  <2>4. ElementsAsDynAny(d) => good
    <3>1. ElementsAsDynAny(d) =>
            \/ Raise("OBJECT_NOT_EXIST") \/ Raise("TypeMismatch") \/ Nothing
            \/ Stop("elements")
      <4>1. Exists(d) => Readable(d) BY <1>1, AlwaysReadable
      <4> QED BY <4>1 DEF ElementsAsDynAny, Exists
    <3> QED BY <1>1, <3>1, StayTyped DEF good
  <2>5. Unimplemented(d) => good
    <3>1. Unimplemented(d) => Stop("assert") BY DEF Unimplemented
    <3> QED BY <1>1, <3>1, StayTyped DEF good
  <2> QED BY <2>1, <2>2, <2>3, <2>4, <2>5
<1>8. ASSUME NEW d \in Dyns, NEW c \in Dyns
      PROVE  CopyDynAny(d, c) \/ CurrentComponent(d, c) \/ Assign(d, c) => good
  BY <1>1, CopyStepTyped, ComponentTyped, AssignTyped DEF good
<1>9. ASSUME NEW d \in Dyns, NEW i \in -1..MaxLen PROVE Seek(d, i) => good
  <2>1. i \in Int BY MaxAssumption
  <2> QED BY <1>1, <2>1, SeekTyped DEF good
<1>10. ASSUME NEW d \in Dyns, NEW t \in Types, Kind[t] = "single", NEW v \in Given[t]
       PROVE  Insert(d, t, v) => good
  BY <1>1, <1>10, InsertTyped DEF good
<1>11. ASSUME NEW d \in Dyns, NEW i \in 0..MaxLen PROVE SetEnum(d, i) => good
  <2>1. i \in Nat BY MaxAssumption
  <2> QED BY <1>1, <2>1, SetEnumTyped DEF good
<1>12. ASSUME NEW d \in Dyns, NEW l \in ElementLists
       PROVE  SetMembers(d, l) \/ SetElements(d, l) => good
  BY <1>1, SetMembersTyped, SetElementsTyped DEF good
<1>13. ASSUME NEW d \in Dyns, NEW cs \in Pairs
       PROVE  MembersAsDynAny(d, cs) \/ SetMembersAsDynAny(d, cs) => good
  BY <1>1, MembersTyped, MembersMovedTyped DEF good
<1>14. ASSUME NEW d \in Dyns, NEW c \in Dyns PROVE SetElementsAsDynAny(d, <<c>>) => good
  <2> DEFINE cs == <<c>>
  <2>1. cs \in Seq(Dyns) OBVIOUS
  <2> HIDE DEF cs
  <2>2. SetElementsAsDynAny(d, cs) => good BY <1>1, <2>1, ElementsMovedTyped DEF good
  <2> QED BY <2>2 DEF cs
<1>15. ASSUME NEW d \in Dyns, NEW n \in 0..MaxLen, NEW lucky \in BOOLEAN
       PROVE  SetLength(d, n, lucky) => good
  BY <1>1, SetLengthTyped DEF good
<1>16. CASE UNCHANGED vars BY <1>2, <1>16 DEF vars, good
<1>17. CASE Next
  BY <1>3, <1>4, <1>5, <1>6, <1>7, <1>8, <1>9, <1>10, <1>11, <1>12, <1>13, <1>14, <1>15,
     <1>17 DEF Next, good
<1> QED BY <1>16, <1>17 DEF good

LEMMA TypedInductive == Spec => [](IInv /\ AllTyped)
<1>1. Init => IInv /\ AllTyped BY InitRight, InitTyped
<1>2. IInv /\ AllTyped /\ [Next]_vars => (IInv /\ AllTyped)' BY Preserved, StaysTyped
<1> QED BY <1>1, <1>2, PTL DEF Spec

(* For an application that releases no component before its parent,        *)
(* changes the length of no sequence that it has components of, and takes  *)
(* the members of a struct as DynAnys only where they are of one type,     *)
(* every value is of its type: however it was made, written or copied      *)
(* (dynany_type_mismatch and the checks of set_members and set_elements).  *)
THEOREM ValuesKeepTypes == Spec => []ValuesTyped
<1>1. IInv /\ AllTyped => ValuesTyped
  <2> SUFFICES ASSUME AllTyped, Careful, NEW d \in Dyns, Exists(d), dyn[d].owns
               PROVE  store[d] \in Values[TypeOf(d)]
    BY DEF ValuesTyped
  <2>1. HasAny(dyn, d) BY DEF Exists, Live, HasAny, IsLive
  <2> QED BY <2>1 DEF AllTyped, Typed, TypeOf
<1> QED BY <1>1, TypedInductive, PTL

(* Such an application is safe: no list of children leads to an object     *)
(* that was freed, and what a DynAny points to is a value of its type, in  *)
(* memory that is still there, whenever a call reads it.                   *)
THEOREM CarefulIsSafe == Spec => []MemorySafe
<1>1. IInv /\ AllTyped => MemorySafe BY DEF IInv, NoDeadList, AllTyped, MemorySafe
<1> QED BY <1>1, TypedInductive, PTL

ViewsTyped ==
  Careful => \A d \in Dyns : Exists(d) /\ dyn[d].mem = "ok" =>
    /\ Leads(RootType(d), RootValue(d), dyn[d].path)
    /\ ValueOf(d) \in Values[TypeOf(d)]

(* Where a component stands in the value of its owner there is a part of   *)
(* the type that it says, at every moment (dynany_get_cur_type and         *)
(* dynany_get_value, which must agree on where the cursor is).             *)
THEOREM ComponentsFindValues == Spec => []ViewsTyped
<1>1. IInv /\ AllTyped => ViewsTyped
  <2> SUFFICES ASSUME IInv, AllTyped, Careful, NEW d \in Dyns, Exists(d), dyn[d].mem = "ok"
               PROVE  /\ Leads(RootType(d), RootValue(d), dyn[d].path)
                      /\ ValueOf(d) \in Values[TypeOf(d)]
    BY DEF ViewsTyped
  <2>1. Now BY DEF Now, AllTyped
  <2> QED BY <2>1, SeenWell
<1> QED BY <1>1, TypedInductive, PTL

(* A copy is equal to what it was copied from, and stays so however often  *)
(* it is copied, for values of every type (MateCORBA_copy_value,           *)
(* DynamicAny_DynAny_equal).                                               *)
THEOREM CopyIsEqual ==
  ASSUME NEW d \in Dyns, NEW e \in Dyns, TypeOf(d) \in Types, TypeOf(e) = TypeOf(d),
         ValueOf(d) \in Values[TypeOf(d)], ValueOf(e) = Copy[TypeOf(d)][ValueOf(d)]
  PROVE  Equal(d, e)
<1> DEFINE t == TypeOf(d)
           v == ValueOf(d)
<1>1. Copy[t][Copy[t][v]] = Copy[t][v]
  <2>1. t \in Types /\ v \in Values[t] OBVIOUS
  <2> HIDE DEF t, v
  <2> QED BY <2>1, CopyAgain
<1> QED BY <1>1 DEF Equal, ToAny
=============================================================================
