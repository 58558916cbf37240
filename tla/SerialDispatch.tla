-------------------------- MODULE SerialDispatch --------------------------
(***************************************************************************)
(* What the dispatch of requests promises, whatever threads serve them:    *)
(* the requests with one key are run by one thread at a time, those of one *)
(* key and POA start in the order they came, a request that starts while   *)
(* another with its key is unfinished does so only inside a call the other *)
(* waits in, and a request that was accepted runs exactly once.  A request *)
(* is lost only with the application's thread its key was bound to.        *)
(***************************************************************************)
CONSTANTS
  Requests, KeyOf, PoaOf,
  NoKey,      \* the key of requests that are not ordered with any other
  Bindable    \* the keys that threads of the application may be bound to

VARIABLES
  before,     \* pairs of waiting requests of one key and POA, the older first
  phase       \* fresh, queued, running, blocked in a call, done or lost

SameLane(r, s) == KeyOf[r] = KeyOf[s] /\ PoaOf[r] = PoaOf[s]
Keyed(r) == KeyOf[r] # NoKey
KeyIdle(r) == \A s \in Requests : KeyOf[s] = KeyOf[r] => phase[s] # "running"

Init ==
  /\ before = {}
  /\ phase = [r \in Requests |-> "fresh"]

Accept(r) ==
  /\ phase[r] = "fresh"
  /\ phase' = [phase EXCEPT ![r] = "queued"]
  /\ before' = before \cup
       {<<s, r>> : s \in {w \in Requests : Keyed(w) /\ phase[w] = "queued" /\ SameLane(w, r)}}

Start(r) ==
  /\ phase[r] = "queued"
  /\ Keyed(r) => KeyIdle(r) /\ \A s \in Requests : <<s, r>> \notin before
  /\ before' = {p \in before : p[1] # r /\ p[2] # r}
  /\ phase' = [phase EXCEPT ![r] = "running"]

Block(r) ==
  /\ phase[r] = "running"
  /\ phase' = [phase EXCEPT ![r] = "blocked"]
  /\ UNCHANGED before

Resume(r) ==
  /\ phase[r] = "blocked"
  /\ Keyed(r) => KeyIdle(r)
  /\ phase' = [phase EXCEPT ![r] = "running"]
  /\ UNCHANGED before

Finish(r) ==
  /\ phase[r] = "running"
  /\ phase' = [phase EXCEPT ![r] = "done"]
  /\ UNCHANGED before

Lose(K) ==
  /\ phase' = [r \in Requests |-> IF KeyOf[r] \in K /\ phase[r] = "queued"
                                  THEN "lost" ELSE phase[r]]
  /\ before' = {p \in before : KeyOf[p[1]] \notin K}

Next ==
  \/ \E r \in Requests :
       Accept(r) \/ Start(r) \/ Block(r) \/ Resume(r) \/ Finish(r)
  \/ \E K \in SUBSET Bindable : Lose(K)

Spec == Init /\ [][Next]_<<before, phase>>
=============================================================================
