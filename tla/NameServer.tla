----------------------------- MODULE NameServer -----------------------------
(***************************************************************************)
(* The name service: naming contexts, their tables of reference-counted    *)
(* bindings, and the iterators that list them.                             *)
(* (services/name/matecorba-name-server.c, and boot.c that starts it)      *)
(*                                                                         *)
(* One thread serves every client, but it serves a second request while it *)
(* waits, inside a first one, for a server that it asks whether the object *)
(* bound to a name still exists (CORBA_Object_non_existent, which runs the *)
(* main loop).  `calls' is the stack of the requests that wait this way:   *)
(* only the last one can go on.  Contexts are objects of the process of    *)
(* the name server; a compound name is followed from context to context by *)
(* direct calls.                                                           *)
(***************************************************************************)
EXTENDS Naturals, FiniteSets, SequencesExt

CONSTANTS
  Contexts,     \* naming contexts (servants) that can be made
  Root,         \* the one the program makes when it starts
  Objects,      \* objects of other processes
  Names,        \* name components (an id and a kind)
  Bindings,     \* RegisteredName structures that can be allocated
  Listings,     \* calls of list whose results are being read
  None,
  MaxCalls,     \* bound: requests that wait at one time
  Careful       \* TRUE: no client calls an object that it knows destroyed

Values == Contexts \cup Objects

ASSUME NameServerAssumption ==
  /\ Root \in Contexts
  /\ None \notin Contexts \cup Objects \cup Names \cup Bindings
  /\ None \notin [obj : Values, sub : BOOLEAN]
  /\ IsFiniteSet(Names) /\ IsFiniteSet(Listings)
  /\ Contexts \cap Objects = {}
  /\ MaxCalls \in Nat
  /\ Careful \in BOOLEAN

VARIABLES
  context,      \* context -> its servant
  table,        \* context -> name -> RegisteredName (names)
  rn,           \* RegisteredName -> its fields; refcount 0: freed
  listing,      \* listing -> the iterator's items and what the client was told
  calls,        \* the requests that wait for a server, innermost last
  crashed       \* freed memory was used, or NULL

vars == <<context, table, rn, listing, calls, crashed>>

Freed == [nc |-> None, obj |-> None, is_subctx |-> FALSE, refcount |-> 0]
Unused == [state |-> "none", items |-> <<>>, told |-> <<>>, due |-> {}]
Ops == {"bind", "bind_context", "bind_new_context", "resolve"}

RegisteredName ==
  [nc : Names \cup {None}, obj : Values \cup {None}, is_subctx : BOOLEAN,
   refcount : Nat]
Listing ==
  [state : {"none", "active", "destroyed"}, items : Seq(Bindings),
   told : Seq(Names \X BOOLEAN), due : SUBSET (Names \X BOOLEAN)]
Call ==
  [op : Ops, in : Contexts, name : Names, obj : Values \cup {None},
   nom : Bindings, asked : Objects]

TypeOK ==
  /\ context \in [Contexts -> {"none", "active", "destroyed"}]
  /\ table \in [Contexts -> [Names -> Bindings \cup {None}]]
  /\ rn \in [Bindings -> RegisteredName]
  /\ listing \in [Listings -> Listing]
  /\ calls \in Seq(Call)
  /\ Len(calls) <= MaxCalls
  /\ crashed \in BOOLEAN

-----------------------------------------------------------------------------
(* The program starts with one context, bound nowhere.                     *)
Init ==
  /\ context = [c \in Contexts |-> IF c = Root THEN "active" ELSE "none"]
  /\ table = [c \in Contexts |-> [n \in Names |-> None]]
  /\ rn = [b \in Bindings |-> Freed]
  /\ listing = [l \in Listings |-> Unused]
  /\ calls = <<>>
  /\ crashed = FALSE

(* An implementation that frees the structure outright.                    *)
UnreffedOutright(nom) == Freed

(* rn_unref: one reference less; the last one frees the structure.         *)
Unreffed(nom) == IF nom.refcount = 1 THEN Freed ELSE [nom EXCEPT !.refcount = @ - 1]

(* Each structure of the set bs loses one reference.  (A table and a list  *)
(* point to a structure once: RefsCounted.)                             *)
UnreffedAll(r, bs) == [b \in Bindings |-> IF b \in bs THEN Unreffed(r[b]) ELSE r[b]]

(* The structures that the table of context c points to.                   *)
Bound(c) == {b \in Bindings : \E n \in Names : table[c][n] = b}

(* The table and the structures after name n of context c is unbound; of   *)
(* an unbound name unbind raises NotFound and changes nothing.             *)
Dir == [table |-> table, rn |-> rn]

Unbound(d, c, n) ==
  IF d.table[c][n] = None THEN d
  ELSE [table |-> [d.table EXCEPT ![c] = [@ EXCEPT ![n] = None]],
        rn |-> UnreffedAll(d.rn, {d.table[c][n]})]

(* rn_new and g_hash_table_insert.                                         *)
Inserted(d, c, n, v, sub, b) ==
  [table |-> [d.table EXCEPT ![c] = [@ EXCEPT ![n] = b]],
   rn |-> [d.rn EXCEPT ![b] =
             [nc |-> n, obj |-> v, is_subctx |-> sub, refcount |-> 1]]]

(* A structure that can be allocated: no request that waits has a pointer  *)
(* to it, so that a pointer to freed memory is seen to be one.             *)
Allocated(d) ==
  {b \in Bindings : d.rn[b].refcount = 0 /\ \A i \in DOMAIN calls : calls[i].nom # b}

BecomesDir(d) == table' = d.table /\ rn' = d.rn

(* Some pointers that no handler may follow.                               *)
Crash ==
  /\ crashed' = TRUE
  /\ UNCHANGED <<context, table, rn, listing, calls>>

Fail == UNCHANGED vars

-----------------------------------------------------------------------------
(* The context in which the last component of a compound name is handled:  *)
(* every handler but resolve goes on only through a binding to a context.  *)
(* Another process's object refuses (BAD_OPERATION).                       *)
Walked(c, path, resolving) ==
  FoldLeft(LAMBDA at, n :
             IF at \notin Contexts \/ context[at] = "destroyed" THEN at
             ELSE LET nom == table[at][n] IN
                  IF nom # None /\ (resolving \/ rn[nom].is_subctx)
                  THEN rn[nom].obj ELSE None,
           c, Front(path))

(* A client holds references to contexts; what it does with a reference to *)
(* a destroyed context is its choice.                                      *)
Callable(c) ==
  /\ ~crashed
  /\ context[c] # "none"
  /\ context[c] = "destroyed" => ~Careful

(* A request for the name path in context c is handled in the context that *)
(* the name leads to, or refused, or run in a servant that was freed.      *)
Servant(c, path, resolving) ==
  {at \in {Walked(c, path, resolving)} \cap Contexts : context[at] # "destroyed"}

Elsewhere(c, path, resolving) ==
  LET at == Walked(c, path, resolving) IN
  \/ at \notin Contexts /\ Fail
  \/ at \in Contexts /\ context[at] = "destroyed" /\ Crash

(* The handler waits for the server of the object that is bound.           *)
Waits(op, c, n, v) ==
  /\ Len(calls) < MaxCalls
  /\ calls' = Append(calls, [op |-> op, in |-> c, name |-> n, obj |-> v,
                             nom |-> table[c][n], asked |-> rn[table[c][n]].obj])
  /\ UNCHANGED <<context, table, rn, listing, crashed>>

(* CORBA_Object_non_existent of an object of this process, destroyed ones  *)
(* included, answers at once: it is active.                                *)
Local(nom) == rn[nom].obj \in Contexts

(* What bind, bind_context and bind_new_context do once nothing is bound   *)
(* to the name: w is a context that bind_new_context makes.                *)
Bind(op, c, n, v, w) ==
  LET d == Unbound(Dir, c, n) IN
  \E b \in Allocated(d) :
    IF op = "bind_new_context"
    THEN /\ BecomesDir(Inserted(d, c, n, w, TRUE, b))
         /\ context' = [context EXCEPT ![w] = "active"]
    ELSE /\ BecomesDir(Inserted(d, c, n, v, op = "bind_context", b))
         /\ UNCHANGED context

FreeContexts(op) ==
  IF op = "bind_new_context" THEN {w \in Contexts : context[w] = "none"} ELSE {None}

BindHere(op, v, c, n) ==
  \/ /\ table[c][n] = None
     /\ \E w \in FreeContexts(op) : Bind(op, c, n, v, w)
     /\ UNCHANGED <<listing, calls, crashed>>
  \/ /\ table[c][n] # None
     /\ Local(table[c][n])
     /\ Fail
  \/ /\ table[c][n] # None
     /\ ~Local(table[c][n])
     /\ Waits(op, c, n, v)

(* References that clients can bind: any object, and contexts in use.      *)
Bindable == Objects \cup {c \in Contexts : context[c] # "none"}

BindName(c, path, v) ==
  /\ Callable(c)
  /\ v \in Bindable
  /\ \/ Elsewhere(c, path, FALSE)
     \/ \E at \in Servant(c, path, FALSE) : BindHere("bind", v, at, Last(path))

(* A compound name is handed on to bind, not to bind_context.              *)
BindContext(c, path, v) ==
  /\ Callable(c)
  /\ v \in Bindable \cap Contexts
  /\ \/ Elsewhere(c, path, FALSE)
     \/ \E at \in Servant(c, path, FALSE) :
          BindHere(IF Len(path) = 1 THEN "bind_context" ELSE "bind", v, at, Last(path))

BindNewContext(c, path) ==
  /\ Callable(c)
  /\ \/ Elsewhere(c, path, FALSE)
     \/ \E at \in Servant(c, path, FALSE) :
          BindHere("bind_new_context", None, at, Last(path))

(* rebind and rebind_context replace whatever is bound and ask nobody.     *)
RebindHere(v, sub, c, n) ==
  LET d == Unbound(Dir, c, n) IN
  /\ \E b \in Allocated(d) : BecomesDir(Inserted(d, c, n, v, sub, b))
  /\ UNCHANGED <<context, listing, calls, crashed>>

Rebind(c, path, v, sub) ==
  /\ Callable(c)
  /\ v \in Bindable
  /\ sub => v \in Contexts
  /\ \/ Elsewhere(c, path, FALSE)
     \/ \E at \in Servant(c, path, FALSE) : RebindHere(v, sub, at, Last(path))

UnbindHere(c, n) ==
  /\ BecomesDir(Unbound(Dir, c, n))
  /\ UNCHANGED <<context, listing, calls, crashed>>

Unbind(c, path) ==
  /\ Callable(c)
  /\ \/ Elsewhere(c, path, FALSE)
     \/ \E at \in Servant(c, path, FALSE) : UnbindHere(at, Last(path))

(* resolve (and resolve_str of a name that is not empty) answers a bound   *)
(* context at once and asks the server of any other object.                *)
ResolveHere(c, n) ==
  IF table[c][n] # None /\ ~Local(table[c][n])
  THEN Waits("resolve", c, n, None)
  ELSE Fail

Resolve(c, path) ==
  /\ Callable(c)
  /\ \/ Elsewhere(c, path, TRUE)
     \/ \E at \in Servant(c, path, TRUE) : ResolveHere(at, Last(path))

(* The innermost request goes on when the connection it waits for is       *)
(* connected or has failed.  It looks the name up again, but resolve       *)
(* returns the object of the structure it found before (nom).  When that   *)
(* was freed, and the object with it, the wait itself may end in freed     *)
(* memory (the connection is stored in the object).                        *)
Asked == Last(calls)

(* CORBA_Object_non_existent tells whether there is a connection now: yes  *)
(* to a server that is gone, as long as that was not noticed, and no where *)
(* it could not be made, to one that is alive as well.  Nothing says which.*)
ExistsAnswers == BOOLEAN

NomFreed == rn[Asked.nom].refcount = 0
ObjFreed == \A b \in Bindings : rn[b].obj # Asked.asked

Misused(exists) ==
  \/ NomFreed /\ exists /\ Asked.op = "resolve"
  \/ ~exists /\ context[Asked.in] = "destroyed"

GoesOn(exists) ==
  /\ calls' = Front(calls)
  /\ \/ /\ exists
        /\ UNCHANGED <<context, table, rn>>
     \/ /\ ~exists
        /\ Asked.op = "resolve"
        /\ BecomesDir(Unbound(Dir, Asked.in, Asked.name))
        /\ UNCHANGED context
     \/ /\ ~exists
        /\ Asked.op # "resolve"
        /\ \E w \in FreeContexts(Asked.op) :
             Bind(Asked.op, Asked.in, Asked.name, Asked.obj, w)
  /\ UNCHANGED <<listing, crashed>>

Resume ==
  /\ ~crashed
  /\ calls # <<>>
  /\ \E exists \in ExistsAnswers :
       \/ ~Misused(exists) /\ GoesOn(exists)
       \/ (Misused(exists) \/ (NomFreed /\ ObjFreed)) /\ Crash

NewContext ==
  \E w \in FreeContexts("bind_new_context") :
    /\ ~crashed
    /\ context' = [context EXCEPT ![w] = "active"]
    /\ UNCHANGED <<table, rn, listing, calls, crashed>>

(* Every binding is released and the servant is freed; the object stays    *)
(* active in the POA and bound wherever it is.                             *)
Destroy(c) ==
  /\ Callable(c)
  /\ IF context[c] = "destroyed" THEN Crash
     ELSE /\ context' = [context EXCEPT ![c] = "destroyed"]
          /\ table' = [table EXCEPT ![c] = [n \in Names |-> None]]
          /\ rn' = UnreffedAll(rn, Bound(c))
          /\ UNCHANGED <<listing, calls, crashed>>

-----------------------------------------------------------------------------
(* Listing a context.  The iterator takes a reference to each binding, so  *)
(* that it outlives its name.                                              *)
Told(b) == <<rn[b].nc, rn[b].is_subctx>>

(* An implementation whose iterators take no reference.                    *)
NotReffed(r, bs) == r

Reffed(r, bs) == [b \in Bindings |->
  IF b \in bs THEN [r[b] EXCEPT !.refcount = @ + 1] ELSE r[b]]

(* An implementation that drops the binding after the last one told.       *)
LeftOneLess(items, n) == SubSeq(items, n + 2, Len(items))

(* n_names_into_bindinglist: the first n bindings are told and released.   *)
Read(items, n) == SubSeq(items, 1, n)
Left(items, n) == SubSeq(items, n + 1, Len(items))

Least(m, n) == IF m < n THEN m ELSE n

List(c, l, how_many) ==
  /\ Callable(c)
  /\ listing[l].state # "active"
  /\ IF context[c] = "destroyed" THEN Crash
     ELSE \E items \in SetToSeqs(Bound(c)) :
            LET n == Least(how_many, Len(items))
                told == Read(items, n)
            IN  /\ rn' = UnreffedAll(Reffed(rn, Bound(c)), ToSet(told))
                /\ listing' = [listing EXCEPT ![l] =
                     [state |-> IF Left(items, n) = <<>> THEN "none" ELSE "active",
                      items |-> Left(items, n),
                      told |-> [i \in DOMAIN told |-> Told(told[i])],
                      due |-> {Told(b) : b \in Bound(c)}]]
                /\ UNCHANGED <<context, table, calls, crashed>>

(* next_n, and next_one, which tells one binding and answers whether items *)
(* are left; without any it hands out NULL, which cannot be marshalled.    *)
Next_n(l, how_many, one) ==
  LET items == listing[l].items
      n == Least(how_many, Len(items))
      told == Read(items, n)
  IN  /\ ~crashed
      /\ listing[l].state = "destroyed" => ~Careful
      /\ listing[l].state # "none"
      /\ one /\ items = <<>> => ~Careful
      /\ IF listing[l].state = "destroyed" \/ (one /\ items = <<>>) THEN Crash
         ELSE /\ rn' = UnreffedAll(rn, ToSet(told))
              /\ listing' = [listing EXCEPT ![l] =
                   [state |-> "active",
                    items |-> Left(items, n),
                    told |-> @.told \o [i \in DOMAIN told |-> Told(told[i])],
                    due |-> @.due]]
              /\ UNCHANGED <<context, table, calls, crashed>>

IteratorDestroy(l) ==
  /\ ~crashed
  /\ listing[l].state = "active"
  /\ rn' = UnreffedAll(rn, ToSet(listing[l].items))
  /\ listing' = [listing EXCEPT ![l] = [Unused EXCEPT !.state = "destroyed"]]
  /\ UNCHANGED <<context, table, calls, crashed>>

Paths == {<<n>> : n \in Names} \cup (Names \X Names)

Next ==
  \/ \E c \in Contexts, path \in Paths :
       \/ \E v \in Values : BindName(c, path, v) \/ BindContext(c, path, v)
       \/ BindNewContext(c, path)
       \/ \E v \in Values, sub \in BOOLEAN : Rebind(c, path, v, sub)
       \/ Unbind(c, path)
       \/ Resolve(c, path)
  \/ Resume
  \/ NewContext
  \/ \E c \in Contexts : Destroy(c)
  \/ \E c \in Contexts, l \in Listings, k \in 0 .. 1 : List(c, l, k)
  \/ \E l \in Listings, k \in 0 .. 2 : Next_n(l, k, FALSE)
  \/ \E l \in Listings : Next_n(l, 1, TRUE) \/ IteratorDestroy(l)

Spec == Init /\ [][Next]_vars

-----------------------------------------------------------------------------
(* Every structure has exactly as many references as tables and iterators  *)
(* point to it, so that none of these points to freed memory and none      *)
(* leaks (a request that waits points to one without a reference); it is   *)
(* filed under its own name, the name its key points into, and in one      *)
(* table (rn_ref, rn_unref, the order of remove and unref in unbind); an   *)
(* iterator points to it once.                                             *)
Held(b) == {p \in Contexts \X Names : table[p[1]][p[2]] = b}
Listed(b) == {l \in Listings : b \in ToSet(listing[l].items)}

RefsCounted ==
  /\ \A b \in Bindings :
       /\ rn[b].refcount = Cardinality(Held(b)) + Cardinality(Listed(b))
       /\ Cardinality(Held(b)) <= 1
       /\ \A p \in Held(b) : rn[b].nc = p[2]
  /\ \A l \in Listings : IsInjective(listing[l].items)

(* A client that lists a context and reads the iterator to its end is told *)
(* every binding of the context as it was when it listed it, each once,    *)
(* whatever other clients bind, unbind or destroy meanwhile.               *)
ListedOnce ==
  \A l \in Listings :
    /\ IsInjective(listing[l].told)
    /\ ToSet(listing[l].told) \subseteq listing[l].due
    /\ listing[l].items = <<>> /\ listing[l].state # "destroyed"
         => ToSet(listing[l].told) = listing[l].due

(* What tables, structures and listings stand for, as Directory has it.    *)
EntryOf(b) == [obj |-> rn[b].obj, sub |-> rn[b].is_subctx]
Entries ==
  [c \in Contexts |-> [n \in Names |->
    IF table[c][n] = None THEN None ELSE EntryOf(table[c][n])]]
Unread ==
  [l \in Listings |-> [i \in DOMAIN listing[l].items |-> Told(listing[l].items[i])]]

Promise ==
  INSTANCE Directory WITH
    entry <- Entries, gone <- {c \in Contexts : context[c] = "destroyed"},
    unread <- Unread, told <- [l \in Listings |-> listing[l].told]

(* matecorba-name-server.c implements Directory: structures are shared,    *)
(* counted, freed and allocated again for other names, handlers run inside *)
(* the waits of others, but no client sees any of it: a name keeps what is *)
(* bound to it until it is taken away, and a listing is read as it was.    *)
ImplementsDirectory == Promise!Spec
=============================================================================
