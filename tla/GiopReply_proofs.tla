-------------------------- MODULE GiopReply_proofs --------------------------
(***************************************************************************)
(* Proofs about GiopReply, for any sets of callers and connections.        *)
(***************************************************************************)
EXTENDS GiopReply, TLAPS

(* An invocation that has begun has a number and a connection, and a timer *)
(* that is set or about to be has an owner; what is on the list is in use. *)
Named ==
  /\ \A s \in Slots : pc[s] \notin {"idle", "freed"} =>
       nth[s] \in 1 .. MaxCalls /\ cnx[s] \in Cnxs
  /\ \A s \in Slots : pc[s] = "arming" => timer[cnx[s]].mutex
  /\ \A c \in Cnxs : /\ timer[c].pending => timer[c].mutex
                     /\ timer[c].mutex => timer[c].owner \in Slots
  /\ \A s \in listed : InUse(s)

Typed == TypeOK /\ Named

USE SlotsAssumption, CnxsAssumption, BoundsAssumption DEF SlotsAssumption, CnxsAssumption, BoundsAssumption

LEMMA InitTyped == Init => Typed
<1> SUFFICES ASSUME Init PROVE Typed
  OBVIOUS
<1>1. NoEntry \in Entry /\ NoTimer \in Timer /\ ~ NoTimer.pending /\ ~ NoTimer.mutex
  BY DEF NoEntry, NoTimer, Entry, Timer
<1>2. ent \in [Slots -> Entry] /\ timer \in [Cnxs -> Timer]
  BY <1>1 DEF Init
<1>3. Named
  BY <1>1 DEF Init, Named
<1>4. sockets \in [Cnxs -> 0 .. MaxSockets] /\ nth \in [Slots -> 0 .. MaxCalls]
  BY DEF Init
<1> QED BY <1>2, <1>3, <1>4 DEF Init, Typed, TypeOK, PCs

(* What becomes of a time-out when its fields are set. *)
Owned == {t \in Timer : /\ t.pending => t.mutex
                        /\ t.mutex => t.owner \in Slots}

LEMMA TimerFields ==
  ASSUME NEW t \in Owned, NEW s \in Slots
  PROVE  /\ [t EXCEPT !.mutex = TRUE, !.status = "unknown", !.owner = s] \in Owned
         /\ [t EXCEPT !.mutex = TRUE, !.status = "unknown", !.owner = s].mutex
         /\ t.mutex => [t EXCEPT !.pending = TRUE, !.id = TRUE] \in Owned
         /\ [t EXCEPT !.pending = TRUE, !.id = TRUE].mutex = t.mutex
         /\ [t EXCEPT !.pending = FALSE] \in Owned
         /\ [t EXCEPT !.pending = FALSE].mutex = t.mutex
         /\ t.mutex => [t EXCEPT !.pending = TRUE, !.id = FALSE,
                                 !.status = "no"] \in Owned
         /\ [t EXCEPT !.pending = TRUE, !.id = FALSE,
                      !.status = "no"].mutex = t.mutex
         /\ [t EXCEPT !.id = TRUE, !.status = "yes"] \in Owned
         /\ [t EXCEPT !.id = TRUE, !.status = "yes"].mutex = t.mutex
         /\ \A v \in {"yes", "no"} :
              LET u == [t EXCEPT !.pending = FALSE, !.id = FALSE, !.status = v]
              IN  u \in Owned /\ u.mutex = t.mutex
BY DEF Timer, Owned

LEMMA TimerTyped ==
  ASSUME Typed, NEW c \in Cnxs, NEW t \in Owned,
         timer[c].mutex => t.mutex,
         timer' = [timer EXCEPT ![c] = t]
  PROVE  /\ timer' \in [Cnxs -> Timer]
         /\ \A d \in Cnxs : /\ timer'[d].pending => timer'[d].mutex
                            /\ timer'[d].mutex => timer'[d].owner \in Slots
         /\ \A s \in Slots : pc[s] = "arming" => timer'[cnx[s]].mutex
BY DEF Typed, TypeOK, Named, Owned

LEMMA TimerOwned ==
  ASSUME Typed, NEW c \in Cnxs
  PROVE  timer[c] \in Owned
BY DEF Typed, TypeOK, Named, Owned

LEMMA ListedCalls ==
  ASSUME Typed, NEW c \in Cnxs
  PROVE  CalledBack(c) \subseteq AsyncCall
BY DEF Typed, TypeOK, Named, InUse, CalledBack, Zapped, CallsBack, current, AsyncCall

SlotStep(s) ==
  \/ CallStep(s) \/ SendOneway(s) \/ Overflow(s) \/ SpuriousWakeup(s)
  \/ Reuse(s) \/ FiresFirst(s)
  \/ \E u \in Slots : StopMissesTimer(s, u)
  \/ \E c \in Cnxs : GetConnection(s, c)

(* A step of a slot that has a connection. *)
LEMMA CallTyped ==
  ASSUME Typed, NEW s \in Slots,
         SlotStep(s)
  PROVE  Typed'
<1> USE DEF Typed, TypeOK, Named, PCs, InUse, link, calls, history
<1>1. CASE Reconnected(s)
  BY <1>1 DEF Reconnected
<1>2. CASE Setup(s)
  BY <1>2 DEF Setup, Entry
<1>3. CASE Arm(s)
  <2> DEFINE c == cnx[s]
             t == [timer[c] EXCEPT !.mutex = TRUE, !.status = "unknown",
                                   !.owner = s]
  <2>1. c \in Cnxs /\ timer[c] \in Owned
    BY <1>3, TimerOwned DEF Arm
  <2>2. timer' = [timer EXCEPT ![c] = t]
    BY <1>3, <2>1 DEF Arm
  <2>3. t \in Owned /\ t.mutex
    BY <2>1, TimerFields
  <2> HIDE DEF c, t
  <2>4. timer'[c].mutex
    BY <2>1, <2>2, <2>3
  <2>5. /\ timer' \in [Cnxs -> Timer]
        /\ \A d \in Cnxs : /\ timer'[d].pending => timer'[d].mutex
                           /\ timer'[d].mutex => timer'[d].owner \in Slots
        /\ \A u \in Slots : pc[u] = "arming" => timer'[cnx[u]].mutex
    BY <2>1, <2>2, <2>3, TimerTyped
  <2>6. Named'
    BY <1>3, <2>4, <2>5 DEF Arm, c
  <2>7. TypeOK'
    BY <1>3, <2>5 DEF Arm
  <2> QED BY <2>6, <2>7
<1>4. CASE StartTimer(s)
  <2> DEFINE c == cnx[s]
             t == [timer[c] EXCEPT !.pending = TRUE, !.id = TRUE]
  <2>1. c \in Cnxs /\ timer[c] \in Owned /\ timer[c].mutex
    BY <1>4, TimerOwned DEF StartTimer
  <2>2. timer' = [timer EXCEPT ![c] = t]
    BY <1>4, <2>1 DEF StartTimer
  <2>3. t \in Owned /\ t.mutex = timer[c].mutex
    BY <2>1, TimerFields
  <2> HIDE DEF c, t
  <2>4. /\ timer' \in [Cnxs -> Timer]
        /\ \A d \in Cnxs : /\ timer'[d].pending => timer'[d].mutex
                           /\ timer'[d].mutex => timer'[d].owner \in Slots
        /\ \A u \in Slots : pc[u] = "arming" => timer'[cnx[u]].mutex
    BY <2>1, <2>2, <2>3, TimerTyped
  <2>5. Named'
    BY <1>4, <2>4 DEF StartTimer
  <2>6. TypeOK'
    BY <1>4, <2>4 DEF StartTimer
  <2> QED BY <2>5, <2>6
<1>5. CASE Send(s)
  <2>1. [id |-> s, n |-> nth[s], oneway |-> FALSE] \in Request
    BY <1>5 DEF Send, WritesTwoway, Request
  <2>2. wire' \in [Cnxs -> SUBSET Request]
    BY <1>5, <2>1 DEF Send, sent
  <2>3. pc' \in [Slots -> PCs]
    BY <1>5 DEF Send
  <2> QED BY <1>5, <2>2, <2>3 DEF Send, WritesTwoway
<1>6. CASE SendFails(s)
  <2>1. current(s) \in Call
    BY <1>6 DEF SendFails, WritesOneway, WritesTwoway, current, Call
  <2>2. unwaited' \subseteq Call /\ ent' \in [Slots -> Entry]
    BY <1>6, <2>1 DEF SendFails, returns, destroy_queue_entry, Entry
  <2>3. /\ pc' = [pc EXCEPT ![s] = IF s \in Sync THEN "idle" ELSE "freed"]
        /\ listed' = listed \ {s}
    BY <1>6 DEF SendFails, returns, destroy_queue_entry
  <2>4. Named'
    BY <1>6, <2>3 DEF SendFails
  <2> HIDE DEF Named
  <2> QED BY <1>6, <2>2, <2>3, <2>4 DEF SendFails
<1>7. CASE Check(s)
  BY <1>7 DEF Check
<1>8. CASE TestTimer(s)
  BY <1>8 DEF TestTimer
<1>9. CASE StopTimer(s)
  <2> DEFINE c == ent[s].cnx
             t == [timer[c] EXCEPT !.pending = FALSE, !.id = FALSE,
                                   !.status = "no"]
  <2>0. /\ crashed' = crashed \/ crashed' = TRUE
        /\ raced' \subseteq Cnxs
    BY <1>9 DEF StopTimer, Arming
  <2>1. CASE UNCHANGED timer
    <3>1. pc' = pc \/ pc' = [pc EXCEPT ![s] = "leave"]
      BY <1>9 DEF StopTimer
    <3>2. Named'
      BY <1>9, <2>1, <3>1 DEF StopTimer
    <3>3. pc' \in [Slots -> PCs]
      BY <3>1
    <3> HIDE DEF Named
    <3> QED BY <1>9, <2>0, <2>1, <3>2, <3>3 DEF StopTimer
  <2>2. CASE ~ UNCHANGED timer
    <3>1. c \in Cnxs /\ timer[c] \in Owned
      BY <1>9, <2>2, TimerOwned DEF StopTimer, Entry
    <3>2. timer' = [timer EXCEPT ![c] = t]
      <4>1. timer' = [timer EXCEPT ![c].pending = FALSE, ![c].id = FALSE,
                                   ![c].status = "no"]
        BY <1>9, <2>2 DEF StopTimer
      <4> HIDE DEF c
      <4> QED BY <4>1, <3>1
    <3>3. t \in Owned /\ t.mutex = timer[c].mutex
      BY <3>1, TimerFields
    <3> HIDE DEF c, t
    <3>4. /\ timer' \in [Cnxs -> Timer]
          /\ \A d \in Cnxs : /\ timer'[d].pending => timer'[d].mutex
                             /\ timer'[d].mutex => timer'[d].owner \in Slots
          /\ \A u \in Slots : pc[u] = "arming" => timer'[cnx[u]].mutex
      BY <3>1, <3>2, <3>3, TimerTyped
    <3>5. Named'
      BY <1>9, <3>4 DEF StopTimer
    <3>6. TypeOK'
      BY <1>9, <2>0, <3>4 DEF StopTimer
    <3> QED BY <3>5, <3>6
  <2> QED BY <2>1, <2>2
<1>10. CASE Leave(s)
  BY <1>10 DEF Leave, destroy_queue_entry, Entry
<1>11. CASE Callback(s)
  <2>1. CASE pc[s] = "out"
    <3>1. /\ ent' = [ent EXCEPT ![s].cnx = NoCnx]
          /\ listed' = listed \ {s} /\ posted' = posted \ {s}
          /\ pc' = [pc EXCEPT ![s] = "freed"]
      BY <1>11, <2>1 DEF Callback, destroy_queue_entry
    <3>2. ent' \in [Slots -> Entry] /\ pc' \in [Slots -> PCs]
      BY <3>1 DEF Entry
    <3> QED BY <1>11, <2>1, <3>1, <3>2 DEF Callback
  <2>2. CASE pc[s] # "out"
    BY <1>11, <2>2 DEF Callback
  <2> QED BY <2>1, <2>2
<1>12. CASE SendOneway(s)
  <2>1. [id |-> s, n |-> nth[s], oneway |-> TRUE] \in Request
    BY <1>12 DEF SendOneway, WritesOneway, Request
  <2>2. wire' \in [Cnxs -> SUBSET Request]
    BY <1>12, <2>1 DEF SendOneway, sent
  <2>3. pc' \in [Slots -> PCs]
    BY <1>12 DEF SendOneway
  <2> QED BY <1>12, <2>2, <2>3 DEF SendOneway, WritesOneway
<1>13. CASE SpuriousWakeup(s)
  BY <1>13 DEF SpuriousWakeup
<1>14. CASE Reuse(s)
  BY <1>14 DEF Reuse
<1>15. ASSUME NEW c \in Cnxs, GetConnection(s, c) PROVE Typed'
  BY <1>15 DEF GetConnection, do_initiate
<1>16. CASE SetupAsync(s)
  BY <1>16 DEF SetupAsync
<1>17. CASE FinishOneway(s)
  <2>1. current(s) \in Call
    BY <1>17 DEF FinishOneway, current, Call
  <2>2. unwaited' \subseteq Call /\ ent' \in [Slots -> Entry]
    BY <1>17, <2>1 DEF FinishOneway, returns, destroy_queue_entry, Entry
  <2> QED
    BY <1>17, <2>2 DEF FinishOneway, returns, destroy_queue_entry
<1>18. CASE Overflow(s)
  BY <1>18 DEF Overflow, disconnected, WritesOneway, WritesTwoway
<1>19. CASE WriterZap(s)
  <2>1. CalledBack(cnx[s]) \subseteq AsyncCall
    BY ListedCalls, <1>19 DEF WriterZap
  <2>2. ent' \in [Slots -> Entry]
    BY <1>19 DEF WriterZap, zap, Entry, NoEntry
  <2>3. /\ pc' \in [Slots -> PCs]
        /\ \A u \in Slots : \/ pc'[u] = pc[u]
                            \/ u = s /\ pc'[u] = "notifying"
                            \/ pc[u] = "asleep" /\ pc'[u] = "check"
    BY <1>19 DEF WriterZap, signalled
  <2>4. Named'
    BY <1>19, <2>3 DEF WriterZap, zap
  <2> HIDE DEF Named
  <2> QED BY <1>19, <2>1, <2>2, <2>3, <2>4 DEF WriterZap, zap
<1>20. ASSUME NEW e \in notify[s], WriterNotify(s, e) PROVE Typed'
  <2>1. e[1] \in Async
    BY DEF AsyncCall
  <2>2. posted' \subseteq Async
    BY <1>20, <2>1 DEF WriterNotify, invoke_async
  <2>3. crashed' = crashed \/ crashed' = TRUE
    BY <1>20 DEF WriterNotify, invoke_async
  <2>4. notify' \in [Slots -> SUBSET AsyncCall]
    BY <1>20 DEF WriterNotify
  <2> QED BY <1>20, <2>2, <2>3, <2>4 DEF WriterNotify
<1>21. CASE WriterReturns(s)
  BY <1>21 DEF WriterReturns
<1>22. ASSUME NEW v \in Slots, StopMissesTimer(s, v) PROVE Typed'
  <2> DEFINE c == cnx[v]
             t == [timer[c] EXCEPT !.pending = TRUE, !.id = FALSE, !.status = "no"]
  <2>1. c \in Cnxs /\ timer[c] \in Owned /\ timer[c].mutex
    BY <1>22, TimerOwned DEF StopMissesTimer, Arming
  <2>2. timer' = [timer EXCEPT ![c] = t]
    BY <1>22, <2>1 DEF StopMissesTimer
  <2>3. t \in Owned /\ t.mutex = timer[c].mutex
    BY <2>1, TimerFields
  <2> HIDE DEF t
  <2>4. /\ timer' \in [Cnxs -> Timer]
        /\ \A d \in Cnxs : /\ timer'[d].pending => timer'[d].mutex
                           /\ timer'[d].mutex => timer'[d].owner \in Slots
        /\ \A u \in Slots : pc[u] = "arming" => timer'[cnx[u]].mutex
    BY <2>1, <2>2, <2>3, TimerTyped
  <2>5. Named'
    BY <1>22, <2>4 DEF StopMissesTimer, Arming
  <2>6. TypeOK'
    BY <1>22, <2>1, <2>4 DEF StopMissesTimer
  <2> QED BY <2>5, <2>6
<1>23. CASE FiresFirst(s)
  <2> DEFINE c == cnx[s]
             t == [timer[c] EXCEPT !.id = TRUE, !.status = "yes"]
  <2>1. c \in Cnxs /\ timer[c] \in Owned /\ timer[c].mutex
    BY <1>23, TimerOwned DEF FiresFirst
  <2>2. timer' = [timer EXCEPT ![c] = t]
    BY <1>23, <2>1 DEF FiresFirst
  <2>3. t \in Owned /\ t.mutex = timer[c].mutex
    BY <2>1, TimerFields
  <2>0. timer[c].owner \in Slots
    BY <2>1 DEF Owned
  <2> HIDE DEF t
  <2>4. /\ timer' \in [Cnxs -> Timer]
        /\ \A d \in Cnxs : /\ timer'[d].pending => timer'[d].mutex
                           /\ timer'[d].mutex => timer'[d].owner \in Slots
        /\ \A u \in Slots : pc[u] = "arming" => timer'[cnx[u]].mutex
    BY <2>1, <2>2, <2>3, TimerTyped
  <2>5. Named'
    BY <1>23, <2>4 DEF FiresFirst
  <2>6. TypeOK'
    BY <1>23, <2>0, <2>1, <2>4 DEF FiresFirst
  <2> QED BY <2>5, <2>6
<1> QED
  BY <1>1, <1>2, <1>3, <1>4, <1>5, <1>6, <1>7, <1>8, <1>9, <1>10, <1>11,
     <1>12, <1>13, <1>14, <1>15, <1>16, <1>17, <1>18, <1>19, <1>20, <1>21,
     <1>22, <1>23
  DEF SlotStep, CallStep

LEMMA CnxTyped ==
  ASSUME Typed, NEW c \in Cnxs,
         \/ Break(c) \/ Connected(c) \/ TimerFires(c)
         \/ \E m \in wire[c] : Answer(m) \/ Ignored(c, m)
  PROVE  Typed'
<1> USE DEF Typed, TypeOK, Named, PCs, InUse, link, calls, history
<1>1. CASE Break(c)
  BY <1>1 DEF Break, disconnected
<1>2. CASE Connected(c)
  BY <1>2 DEF Connected
<1>3. CASE TimerFires(c)
  <2>1. timer[c] \in Owned /\ timer[c].owner \in Slots
    BY <1>3, TimerOwned DEF TimerFires
  <2>2. CASE timer' = [timer EXCEPT ![c].pending = FALSE] /\ UNCHANGED io
    <3> DEFINE t == [timer[c] EXCEPT !.pending = FALSE]
    <3>1. timer' = [timer EXCEPT ![c] = t]
      BY <2>2 DEF Owned
    <3>2. t \in Owned /\ t.mutex = timer[c].mutex
      BY <2>1, TimerFields
    <3> HIDE DEF t
    <3>4. /\ timer' \in [Cnxs -> Timer]
          /\ \A d \in Cnxs : /\ timer'[d].pending => timer'[d].mutex
                             /\ timer'[d].mutex => timer'[d].owner \in Slots
          /\ \A u \in Slots : pc[u] = "arming" => timer'[cnx[u]].mutex
      BY <3>1, <3>2, TimerTyped
    <3>5. Named'
      BY <1>3, <2>2, <3>4 DEF TimerFires
    <3>6. TypeOK'
      BY <1>3, <2>2, <3>4 DEF TimerFires
    <3> QED BY <3>5, <3>6
  <2>3. CASE /\ timer' = [timer EXCEPT ![c].pending = FALSE, ![c].id = FALSE,
                                       ![c].status = "yes"]
             /\ io' = [in |-> "timeout", cnx |-> c, owner |-> timer[c].owner]
    <3> DEFINE t == [timer[c] EXCEPT !.pending = FALSE, !.id = FALSE,
                                     !.status = "yes"]
    <3>1. timer' = [timer EXCEPT ![c] = t]
      BY <2>3 DEF Owned
    <3>2. t \in Owned /\ t.mutex = timer[c].mutex
      BY <2>1, TimerFields
    <3> HIDE DEF t
    <3>4. /\ timer' \in [Cnxs -> Timer]
          /\ \A d \in Cnxs : /\ timer'[d].pending => timer'[d].mutex
                             /\ timer'[d].mutex => timer'[d].owner \in Slots
          /\ \A u \in Slots : pc[u] = "arming" => timer'[cnx[u]].mutex
      BY <2>1, <3>1, <3>2, TimerTyped
    <3>5. Named'
      BY <1>3, <2>3, <3>4 DEF TimerFires
    <3>6. TypeOK'
      BY <1>3, <2>1, <2>3, <3>4 DEF TimerFires
    <3> QED BY <3>5, <3>6
  <2> QED BY <1>3, <2>2, <2>3 DEF TimerFires
<1>4. ASSUME NEW m \in wire[c], NEW d \in Cnxs,
             ReadReply(d, m)
      PROVE  Typed'
  <2>1. m \in Request
    OBVIOUS
  <2> QED BY <1>4, <2>1 DEF ReadReply
<1>5. ASSUME NEW m \in wire[c], Ignored(c, m) PROVE Typed'
  BY <1>5 DEF Ignored
<1> QED BY <1>1, <1>2, <1>3, <1>4, <1>5 DEF Answer

LEMMA IoTyped ==
  ASSUME Typed, IoStep
  PROVE  Typed'
<1> USE DEF Typed, TypeOK, Named, PCs, InUse, link, calls, history
<1>1. CASE Deliver
  <2>1. io.msg \in Request
    BY <1>1 DEF Deliver, Idle
  <2>2. ent' \in [Slots -> Entry]
    <3>1. ent' = ent \/ ent' = [ent EXCEPT ![io.of[1]].buffer = io.msg]
      BY <1>1 DEF Deliver
    <3> QED BY <2>1, <3>1 DEF Entry
  <2>3. /\ pc' \in [Slots -> PCs]
        /\ \A s \in Slots : pc'[s] # pc[s] => pc[s] = "asleep" /\ pc'[s] = "check"
    BY <1>1 DEF Deliver, signalled
  <2>4. Named'
    BY <1>1, <2>3 DEF Deliver
  <2>5. posted' \subseteq Async /\ io' = Idle
    BY <1>1 DEF Deliver, CallsBack
  <2>6. crashed' = crashed \/ crashed' = TRUE
    BY <1>1 DEF Deliver
  <2> HIDE DEF Named
  <2> QED BY <1>1, <2>2, <2>3, <2>4, <2>5, <2>6 DEF Deliver
<1>2. CASE Zap
  <2>1. io.cnx \in Cnxs
    BY <1>2 DEF Zap, Idle
  <2>2. CalledBack(io.cnx) \subseteq AsyncCall
    BY <2>1, ListedCalls
  <2>3. ent' \in [Slots -> Entry]
    BY <1>2 DEF Zap, zap, Entry, NoEntry
  <2>4. /\ pc' \in [Slots -> PCs]
        /\ \A s \in Slots : pc'[s] # pc[s] => pc[s] = "asleep" /\ pc'[s] = "check"
    BY <1>2 DEF Zap, signalled
  <2>5. Named'
    BY <1>2, <2>4 DEF Zap, zap
  <2> HIDE DEF Named
  <2> QED BY <1>2, <2>2, <2>3, <2>4, <2>5 DEF Zap, zap
<1>3. ASSUME NEW e \in io.rest, Notify(e) PROVE Typed'
  <2>1. io.rest \subseteq AsyncCall /\ e[1] \in Async
    BY <1>3 DEF Notify, Idle, AsyncCall
  <2>2. io' \in {Idle} \cup [in : {"notify"}, rest : SUBSET AsyncCall]
    BY <1>3, <2>1 DEF Notify, Idle
  <2>3. posted' \subseteq Async
    BY <1>3, <2>1 DEF Notify, invoke_async
  <2>4. crashed' = crashed \/ crashed' = TRUE
    BY <1>3 DEF Notify, invoke_async
  <2> QED BY <1>3, <2>2, <2>3, <2>4 DEF Notify
<1>4. CASE TimedOut
  <2>1. io \in [in : {"timeout", "signal"}, cnx : Cnxs, owner : Slots]
    BY <1>4 DEF TimedOut, Idle
  <2> QED BY <1>4, <2>1 DEF TimedOut
<1>5. CASE SignalOwner
  BY <1>5 DEF SignalOwner, Idle, signalled
<1>6. ASSUME NEW exception \in BOOLEAN, HandleReply(exception) PROVE Typed'
  <2>1. io.cnx \in Cnxs /\ io.msg \in Request
    BY <1>6 DEF HandleReply, Idle
  <2>2. io.msg.id \in listed => current(io.msg.id) \in Call
    BY DEF current, Call
  <2>3. CASE UNCHANGED <<status, wire, listed>> /\ io' = Idle
    BY <1>6, <2>3 DEF HandleReply
  <2>4. CASE /\ disconnected(io.cnx) /\ UNCHANGED listed
             /\ io' = [in |-> "zap", cnx |-> io.cnx]
    BY <1>6, <2>1, <2>4 DEF HandleReply, disconnected
  <2>5. CASE /\ io.msg.id \in listed /\ listed' = listed \ {io.msg.id}
             /\ io' = [in |-> "reply", cnx |-> io.cnx, msg |-> io.msg,
                       of |-> current(io.msg.id)]
             /\ UNCHANGED <<status, wire>>
    <3>1. io' \in [in : {"reply"}, cnx : Cnxs, msg : Request, of : Call]
      BY <2>1, <2>2, <2>5
    <3>2. listed' \subseteq Slots
      BY <2>5
    <3>3. Named'
      BY <1>6, <2>5 DEF HandleReply
    <3> HIDE DEF Named
    <3> QED BY <1>6, <2>5, <3>1, <3>2, <3>3 DEF HandleReply
  <2> QED BY <1>6, <2>3, <2>4, <2>5 DEF HandleReply
<1> QED BY <1>1, <1>2, <1>3, <1>4, <1>5, <1>6 DEF IoStep

LEMMA NextTyped == Typed /\ [Next]_vars => Typed'
<1> SUFFICES ASSUME Typed, [Next]_vars PROVE Typed'
  OBVIOUS
<1>1. CASE Next
  BY <1>1, CallTyped, CnxTyped, IoTyped DEF Next, SlotStep
<1>2. CASE UNCHANGED vars
  BY <1>2 DEF vars, link, calls, history, Typed, TypeOK, Named, InUse
<1> QED BY <1>1, <1>2

LEMMA TypedInvariant == Spec => []Typed
BY InitTyped, NextTyped, PTL DEF Spec

(* Every variable of the model keeps its type, so that the I/O thread and  *)
(* the callers agree on what is in an entry and in a time-out.             *)
THEOREM TypeCorrect == Spec => []TypeOK
<1>1. Typed => TypeOK
  BY DEF Typed
<1> QED BY <1>1, TypedInvariant, PTL

-----------------------------------------------------------------------------
(* A timer that is pending has its id, and one thread at a time creates one*)
(* where there was no id.                                                  *)
Timers ==
  /\ \A s, u \in Slots : pc[s] = "arming" /\ pc[u] = "arming" => s = u
  /\ \A c \in Cnxs \ raced :
       timer[c].pending => timer[c].id /\ timer[c].status = "unknown"
  /\ \A s \in Slots : pc[s] = "arming" /\ cnx[s] \notin raced =>
       ~ timer[cnx[s]].id /\ timer[cnx[s]].status = "unknown"

LEMMA NextTimers ==
  ASSUME Typed, Timers, [Next]_vars
  PROVE  Timers'
<1> USE DEF Typed, TypeOK, Named, Timer, Timers, Arming
<1>1. ASSUME NEW s \in Slots, Arm(s) PROVE Timers'
  <2>1. \A d \in Cnxs : IF d = cnx[s] THEN /\ timer'[d].pending = timer[d].pending
                                           /\ timer'[d].id = timer[d].id
                                           /\ timer'[d].status = "unknown"
                        ELSE timer'[d] = timer[d]
    BY <1>1 DEF Arm
  <2>2. \A u \in Slots : pc'[u] = IF u = s THEN "arming" ELSE pc[u]
    BY <1>1 DEF Arm
  <2>3. \A u \in Slots : pc[u] # "arming"
    BY <1>1 DEF Arm
  <2> QED BY <1>1, <2>1, <2>2, <2>3 DEF Arm, calls, history
<1>2. ASSUME NEW s \in Slots, StartTimer(s) PROVE Timers'
  <2>1. \A d \in Cnxs : IF d = cnx[s] THEN /\ timer'[d].id
                                           /\ timer'[d].status = timer[d].status
                        ELSE timer'[d] = timer[d]
    BY <1>2 DEF StartTimer
  <2>2. \A u \in Slots : pc'[u] = "arming" => pc[u] = "arming" /\ u # s
    BY <1>2 DEF StartTimer
  <2> QED BY <1>2, <2>1, <2>2 DEF StartTimer, calls, history
<1>3. ASSUME NEW s \in Slots, StopTimer(s) PROVE Timers'
  <2>1. \A d \in Cnxs : \/ timer'[d] = timer[d]
                        \/ /\ ~ timer'[d].pending /\ ~ timer'[d].id
                           /\ \A u \in Slots : pc[u] = "arming" /\ cnx[u] = d
                                => d \in raced'
    BY <1>3 DEF StopTimer
  <2>2. \A u \in Slots : pc'[u] = "arming" => pc[u] = "arming"
    BY <1>3 DEF StopTimer
  <2>3. raced \subseteq raced' /\ cnx' = cnx
    BY <1>3 DEF StopTimer, calls
  <2> QED BY <1>3, <2>1, <2>2, <2>3
<1>4. ASSUME NEW c \in Cnxs, TimerFires(c) PROVE Timers'
  <2>1. /\ \A d \in Cnxs : d # c => timer'[d] = timer[d]
        /\ timer[c].pending /\ ~ timer'[c].pending
    BY <1>4 DEF TimerFires
  <2>2. UNCHANGED <<pc, cnx, raced>>
    BY <1>4 DEF TimerFires, calls, history
  <2>3. \A u \in Slots : pc[u] = "arming" /\ cnx[u] = c => c \in raced
    BY <2>1
  <2>4. \A u \in Slots : pc'[u] = "arming" /\ cnx'[u] \notin raced' =>
          ~ timer'[cnx'[u]].id /\ timer'[cnx'[u]].status = "unknown"
    <3>1. \A u \in Slots : pc[u] = "arming" => cnx[u] \in Cnxs
      OBVIOUS
    <3> HIDE DEF Typed, TypeOK, Named, Timer
    <3> QED BY <2>1, <2>2, <2>3, <3>1
  <2>5. \A d \in Cnxs \ raced' :
          timer'[d].pending => timer'[d].id /\ timer'[d].status = "unknown"
    BY <2>1, <2>2
  <2> QED BY <2>2, <2>4, <2>5
<1>5. CASE /\ UNCHANGED <<timer, cnx, raced>>
           /\ \A s \in Slots : pc'[s] = "arming" => pc[s] = "arming"
  BY <1>5
<1>6. ASSUME NEW s \in Slots, NEW c \in Cnxs, GetConnection(s, c) PROVE Timers'
  BY <1>6 DEF GetConnection, history
<1>7. ASSUME NEW s \in Slots, CallStep(s) PROVE Timers'
  <2> USE <1>5 DEF calls, history
  <2>1. CASE Reconnected(s)
    BY <2>1 DEF Reconnected
  <2>2. CASE Setup(s)
    BY <2>2 DEF Setup
  <2>3. CASE SetupAsync(s)
    BY <2>3 DEF SetupAsync
  <2>4. CASE Send(s)
    BY <2>4 DEF Send
  <2>5. CASE FinishOneway(s)
    BY <2>5 DEF FinishOneway, returns
  <2>6. CASE SendFails(s)
    BY <2>6 DEF SendFails, returns
  <2>7. CASE Check(s)
    BY <2>7 DEF Check
  <2>8. CASE TestTimer(s)
    BY <2>8 DEF TestTimer
  <2>9. CASE Leave(s)
    BY <2>9 DEF Leave
  <2>10. CASE Callback(s)
    BY <2>10 DEF Callback
  <2>11. CASE WriterZap(s)
    BY <2>11 DEF WriterZap, signalled
  <2>12. CASE WriterReturns(s)
    BY <2>12 DEF WriterReturns
  <2>13. ASSUME NEW e \in notify[s], WriterNotify(s, e) PROVE Timers'
    BY <2>13 DEF WriterNotify
  <2> QED
    BY <1>1, <1>2, <1>3, <1>7, <2>1, <2>2, <2>3, <2>4, <2>5, <2>6, <2>7, <2>8,
       <2>9, <2>10, <2>11, <2>12, <2>13 DEF CallStep
<1>8. ASSUME NEW s \in Slots,
             SendOneway(s) \/ Overflow(s) \/ SpuriousWakeup(s) \/ Reuse(s)
      PROVE  Timers'
  <2>1. UNCHANGED <<timer, cnx, raced>>
    BY <1>8 DEF SendOneway, Overflow, SpuriousWakeup, Reuse, calls, history
  <2>2. \E p \in {"sent", "zapping", "check", "idle"} : pc' = [pc EXCEPT ![s] = p]
    BY <1>8 DEF SendOneway, Overflow, SpuriousWakeup, Reuse
  <2>3. \A u \in Slots : pc'[u] = "arming" => pc[u] = "arming"
    BY <2>2
  <2> QED BY <1>5, <2>1, <2>3
<1>9. ASSUME NEW c \in Cnxs, NEW m \in wire[c], Answer(m) \/ Ignored(c, m)
      PROVE  Timers'
  BY <1>5, <1>9 DEF Answer, ReadReply, Ignored, calls, history
<1>10. ASSUME NEW c \in Cnxs, Break(c) \/ Connected(c) PROVE Timers'
  BY <1>5, <1>10 DEF Break, Connected, calls, history
<1>11. CASE IoStep
  BY <1>5, <1>11 DEF IoStep, HandleReply, Deliver, Zap, Notify, TimedOut,
     SignalOwner, signalled, calls, history
<1>12. CASE UNCHANGED vars
  BY <1>5, <1>12 DEF vars, calls, history
<1>13. ASSUME NEW s \in Slots, FiresFirst(s) PROVE Timers'
  <2>1. \A d \in Cnxs : d # cnx[s] => timer'[d] = timer[d]
    BY <1>13 DEF FiresFirst
  <2>2. \A u \in Slots : pc'[u] = "arming" => pc[u] = "arming" /\ u # s
    BY <1>13 DEF FiresFirst
  <2>3. timer'[cnx[s]].pending = timer[cnx[s]].pending
    BY <1>13 DEF FiresFirst
  <2> QED BY <1>13, <2>1, <2>2, <2>3 DEF FiresFirst, calls, history
<1>14. ASSUME NEW s \in Slots, NEW v \in Slots, StopMissesTimer(s, v) PROVE Timers'
  <2>1. \A d \in Cnxs : d # cnx[v] => timer'[d] = timer[d]
    BY <1>14 DEF StopMissesTimer
  <2>2. \A u \in Slots : pc'[u] = "arming" => pc[u] = "arming"
    BY <1>14 DEF StopMissesTimer
  <2> QED BY <1>14, <2>1, <2>2 DEF StopMissesTimer, calls
<1> QED
  BY <1>4, <1>6, <1>7, <1>8, <1>9, <1>10, <1>11, <1>12, <1>13, <1>14 DEF Next

(* A timer can be removed and ends the connection if it fires, and is the  *)
(* only one, but where a caller has stopped it while another set it.       *)
THEOREM TimersRemovable == Spec => []TimerRemovable
<1>1. Init => Timers
  BY DEF Init, NoTimer, Timers
<1>2. Typed /\ Timers /\ [Next]_vars => Timers'
  BY NextTimers
<1>3. Typed /\ Timers => TimerRemovable
  BY DEF Typed, TypeOK, Named, Timer, Timers, TimerRemovable, Arming
<1> QED BY <1>1, <1>2, <1>3, TypedInvariant, PTL DEF Spec

-----------------------------------------------------------------------------
(* An entry that a thread holds, or that is posted, is not on the list,    *)
(* and no two threads hold it: it has been listed once.                    *)
ByIo == (IF io.in = "notify" THEN io.rest ELSE {}) \cup
        (IF io.in = "reply" THEN {io.of} ELSE {})

Once ==
  /\ \A e \in ByIo : e[2] <= nth[e[1]]
  /\ \A u \in Slots : \A e \in notify[u] : e \notin ByIo /\ e[2] <= nth[e[1]]
  /\ \A u, v \in Slots : u # v => notify[u] \cap notify[v] = {}
  /\ \A s \in Slots :
       s \in listed \/ s \in posted \/ pc[s] \in {"connecting", "got"}
         => current(s) \notin ByIo /\ \A u \in Slots : current(s) \notin notify[u]
  /\ \A s \in posted : s \notin listed /\ pc[s] \notin {"connecting", "got"}


LEMMA InitOnce == Init => Once
<1> SUFFICES ASSUME Init PROVE Once
  OBVIOUS
<1>1. ByIo = {} /\ posted = {} /\ \A s \in Slots : notify[s] = {}
  BY DEF Init, ByIo, Idle
<1> QED BY <1>1 DEF Once

(* What a step does to the pointers: one that moves none, with the numbers *)
(* kept and the list and the posted entries no larger.                     *)
LEMMA OnceKept ==
  ASSUME Typed, Once, UNCHANGED <<nth, notify>>, ByIo' \subseteq ByIo,
         listed' \subseteq listed, posted' \subseteq posted,
         \A s \in Slots : \/ pc'[s] = pc[s] \/ pc[s] = "connecting"
                          \/ pc'[s] \notin {"connecting", "got"}
  PROVE  Once'
<1>1. \A s \in Slots : current(s)' = current(s)
  BY DEF current
<1>2. \A e \in ByIo' : e[2] <= nth'[e[1]]
  BY DEF Once
<1>3. \A u \in Slots : \A e \in notify'[u] : e \notin ByIo' /\ e[2] <= nth'[e[1]]
  BY DEF Once
<1>4. \A u, v \in Slots : u # v => notify'[u] \cap notify'[v] = {}
  BY DEF Once
<1>5. \A s \in Slots : pc'[s] \in {"connecting", "got"} => pc[s] \in {"connecting", "got"}
  OBVIOUS
<1>6. \A s \in Slots :
        s \in listed' \/ s \in posted' \/ pc'[s] \in {"connecting", "got"}
          => current(s) \notin ByIo' /\ \A u \in Slots : current(s) \notin notify'[u]
  BY <1>5 DEF Once
<1>7. \A s \in posted' : s \notin listed' /\ pc'[s] \notin {"connecting", "got"}
  BY <1>5 DEF Once, Typed, TypeOK, Slots
<1> QED BY <1>1, <1>2, <1>3, <1>4, <1>6, <1>7 DEF Once

(* An entry that is passed on leaves the pointers and is posted. *)
LEMMA PassedOn ==
  ASSUME Typed, Once, NEW e, UNCHANGED <<nth, listed, pc>>,
         \/ e \in ByIo /\ ByIo' \subseteq ByIo \ {e} /\ UNCHANGED notify
         \/ \E s \in Slots : /\ e \in notify[s]
                             /\ notify' = [notify EXCEPT ![s] = @ \ {e}]
                             /\ ByIo' = ByIo,
         posted' = posted \/ invoke_async(e)
  PROVE  Once'
<1> USE DEF Typed, TypeOK, Named
<1>1. e \in Call
  BY DEF ByIo, Call, AsyncCall, Slots, Idle
<1>2. \A u \in Slots : notify'[u] \subseteq notify[u] /\ e \notin notify'[u]
  BY DEF Once
<1>3. ByIo' \subseteq ByIo /\ e \notin ByIo'
  BY DEF Once
<1>4. CASE posted' \subseteq posted
  BY <1>2, <1>3, <1>4 DEF Once, current
<1>5. CASE Alive(e) /\ posted' = posted \cup {e[1]}
  <2>1. e = current(e[1]) /\ e[1] \in Slots /\ InUse(e[1])
    BY <1>1, <1>5 DEF Alive, current, Call
  <2>2. e[1] \notin listed
    BY <2>1 DEF Once
  <2> QED BY <1>2, <1>3, <1>5, <2>1, <2>2 DEF Once, current, InUse
<1> QED BY <1>4, <1>5 DEF invoke_async

LEMMA CallOnce ==
  ASSUME Typed, Once, NEW s \in Slots, SlotStep(s)
  PROVE  Once'
<1> USE DEF Typed, TypeOK, Named, InUse, PCs, link, calls, history
<1>0. io' = io => ByIo' = ByIo
  BY DEF ByIo
<1>1. CASE Reconnected(s)
  BY <1>0, <1>1, OnceKept DEF Reconnected
<1>2. CASE Setup(s)
  <2>1. \A u \in Slots : pc'[u] = IF u = s THEN IF s \in Sync THEN "set" ELSE "listed"
                                  ELSE pc[u]
    BY <1>2 DEF Setup
  <2>2. s \notin posted
    BY <1>2 DEF Setup, Once
  <2> QED BY <1>0, <1>2, <2>1, <2>2 DEF Setup, Once, current
<1>3. CASE SetupAsync(s)
  BY <1>0, <1>3, OnceKept DEF SetupAsync
<1>4. CASE Arm(s)
  BY <1>0, <1>4, OnceKept DEF Arm
<1>5. CASE StartTimer(s)
  BY <1>0, <1>5, OnceKept DEF StartTimer
<1>6. CASE Send(s)
  BY <1>0, <1>6, OnceKept DEF Send
<1>7. CASE FinishOneway(s)
  BY <1>0, <1>7, OnceKept DEF FinishOneway, returns, destroy_queue_entry
<1>8. CASE SendFails(s)
  BY <1>0, <1>8, OnceKept DEF SendFails, returns, destroy_queue_entry
<1>9. CASE Check(s)
  BY <1>0, <1>9, OnceKept DEF Check
<1>10. CASE TestTimer(s)
  BY <1>0, <1>10, OnceKept DEF TestTimer
<1>11. CASE StopTimer(s)
  <2>1. \A u \in Slots : pc'[u] = pc[u] \/ pc'[u] = "leave"
    BY <1>11 DEF StopTimer
  <2> QED BY <1>0, <1>11, <2>1, OnceKept DEF StopTimer
<1>12. CASE Leave(s)
  BY <1>0, <1>12, OnceKept DEF Leave, destroy_queue_entry
<1>13. CASE Callback(s)
  BY <1>0, <1>13, OnceKept DEF Callback, destroy_queue_entry
<1>14. CASE SendOneway(s)
  BY <1>0, <1>14, OnceKept DEF SendOneway
<1>15. CASE Overflow(s)
  BY <1>0, <1>15, OnceKept DEF Overflow
<1>16. CASE SpuriousWakeup(s)
  BY <1>0, <1>16, OnceKept DEF SpuriousWakeup
<1>17. CASE Reuse(s)
  BY <1>0, <1>17, OnceKept DEF Reuse
<1>18. CASE WriterReturns(s)
  BY <1>0, <1>18, OnceKept DEF WriterReturns
<1>19. ASSUME NEW c \in Cnxs, GetConnection(s, c) PROVE Once'
  <2>1. \A u \in Slots : /\ u # s => nth'[u] = nth[u] /\ pc'[u] = pc[u]
                         /\ nth[u] <= nth'[u]
    BY <1>19 DEF GetConnection
  <2>2. nth'[s] = nth[s] + 1 /\ s \notin listed /\ s \notin posted
    BY <1>19 DEF GetConnection
  <2>3. ByIo' = ByIo /\ UNCHANGED <<notify, listed, posted>>
    BY <1>0, <1>19 DEF GetConnection
  <2>4. \A e \in ByIo : e \in Call
    BY DEF ByIo, Call, AsyncCall, Slots, Idle
  <2>5. \A u \in Slots : \A e \in notify[u] : e \in Call
    BY DEF Call, AsyncCall, Slots
  <2>6. \A e \in ByIo : e[1] \in Slots /\ e[2] \in Nat /\ e[2] <= nth[e[1]]
    BY <2>4 DEF Call, Once
  <2>7. \A u \in Slots : \A e \in notify[u] :
          e[1] \in Slots /\ e[2] \in Nat /\ e[2] <= nth[e[1]] /\ e \notin ByIo
    BY <2>5 DEF Call, Once
  <2> DEFINE new == <<s, nth[s] + 1>>
  <2>a. \A e : e[1] \in Slots /\ e[2] \in Nat /\ e[2] <= nth[e[1]]
               => e[2] <= nth'[e[1]]
    <3> SUFFICES ASSUME NEW e, e[1] \in Slots, e[2] \in Nat, e[2] <= nth[e[1]]
                 PROVE  e[2] <= nth'[e[1]]
      OBVIOUS
    <3>1. nth[e[1]] \in Nat /\ nth'[e[1]] \in Nat /\ nth[e[1]] <= nth'[e[1]]
      BY <1>19, <2>1 DEF GetConnection
    <3> QED BY <3>1
  <2>b. \A e : e[1] \in Slots /\ e[2] \in Nat /\ e[2] <= nth[e[1]] => e # new
    <3> SUFFICES ASSUME NEW e, e[2] <= nth[e[1]], e = new PROVE FALSE
      OBVIOUS
    <3>1. e[1] = s /\ e[2] = nth[s] + 1 /\ nth[s] \in Nat
      OBVIOUS
    <3> QED BY <3>1
  <2>c. \A u \in Slots : current(u)' = IF u = s THEN new ELSE current(u)
    BY <2>1, <2>2 DEF current
  <2> HIDE DEF new
  <2>8. \A e \in ByIo : e[2] <= nth'[e[1]] /\ e # new
    BY <2>6, <2>a, <2>b
  <2>9. \A u \in Slots : \A e \in notify[u] :
          e[2] <= nth'[e[1]] /\ e # new
    BY <2>7, <2>a, <2>b
  <2>10. \A u \in Slots :
           u \in listed \/ u \in posted \/ pc'[u] \in {"connecting", "got"}
             => current(u)' \notin ByIo /\ \A v \in Slots : current(u)' \notin notify[v]
    BY <2>1, <2>2, <2>8, <2>9, <2>c DEF Once
  <2>11. \A u \in posted : u \notin listed /\ pc'[u] \notin {"connecting", "got"}
    BY <2>1, <2>2 DEF Once, Slots
  <2> QED BY <2>3, <2>8, <2>9, <2>10, <2>11 DEF Once
<1>20. CASE WriterZap(s)
  <2> DEFINE Z == CalledBack(cnx[s])
  <2>1. \A u \in Slots : \/ pc'[u] = pc[u]
                         \/ u = s /\ pc[s] = "zapping" /\ pc'[u] = "notifying"
                         \/ pc[u] = "asleep" /\ pc'[u] = "check"
    BY <1>20 DEF WriterZap, signalled
  <2>2. \A e \in Z : e[1] \in listed /\ e = current(e[1]) /\ e[1] \notin listed'
    BY <1>20 DEF WriterZap, zap, CalledBack, Zapped, current
  <2>3. /\ \A e \in Z : e[1] \in Slots /\ e[2] = nth[e[1]] /\ e \notin ByIo
        /\ \A e \in Z, u \in Slots : e \notin notify[u]
        /\ \A e \in Z : e[1] \notin posted /\ InUse(e[1])
    BY <2>2 DEF Once, current
  <2>4. \A u \in Slots : notify'[u] = IF u = s THEN Z ELSE notify[u]
    BY <1>20 DEF WriterZap
  <2>5. ByIo' = ByIo /\ listed' \subseteq listed /\ UNCHANGED <<nth, posted>>
    BY <1>0, <1>20 DEF WriterZap, zap
  <2>6. \A u \in Slots : current(u)' = current(u)
    BY <2>5 DEF current
  <2>7. \A u \in Slots : pc'[u] \in {"connecting", "got"} => pc'[u] = pc[u]
    BY <2>1
  <2>8. \A u \in Slots : u \in listed' \/ u \in posted' \/ pc'[u] \in {"connecting", "got"}
          => current(u) \notin Z
    BY <2>2, <2>3, <2>5, <2>7 DEF current
  <2> HIDE DEF Z
  <2>9. \A u, v \in Slots : u # v => notify'[u] \cap notify'[v] = {}
    BY <2>3, <2>4 DEF Once
  <2>10. \A u \in Slots : \A e \in notify'[u] : e \notin ByIo /\ e[2] <= nth[e[1]]
    BY <2>3, <2>4 DEF Once
  <2>11. \A u \in Slots : u \in listed' \/ u \in posted' \/ pc'[u] \in {"connecting", "got"}
           => current(u) \notin ByIo /\ \A v \in Slots : current(u) \notin notify'[v]
    BY <2>4, <2>5, <2>7, <2>8 DEF Once
  <2>12. \A u \in posted' : u \notin listed' /\ pc'[u] \notin {"connecting", "got"}
    BY <2>1, <2>5 DEF Once, Slots
  <2> QED BY <2>5, <2>6, <2>9, <2>10, <2>11, <2>12 DEF Once
<1>21. ASSUME NEW e \in notify[s], WriterNotify(s, e) PROVE Once'
  BY <1>0, <1>21, PassedOn DEF WriterNotify
<1>22. CASE FiresFirst(s)
  <2>1. ByIo' \subseteq ByIo
    BY <1>22 DEF FiresFirst, ByIo
  <2> QED BY <1>22, <2>1, OnceKept DEF FiresFirst
<1>23. ASSUME NEW v \in Slots, StopMissesTimer(s, v) PROVE Once'
  BY <1>0, <1>23, OnceKept DEF StopMissesTimer
<1> QED
  BY <1>1, <1>2, <1>3, <1>4, <1>5, <1>6, <1>7, <1>8, <1>9, <1>10, <1>11,
     <1>12, <1>13, <1>14, <1>15, <1>16, <1>17, <1>18, <1>19, <1>20, <1>21,
     <1>22, <1>23
  DEF SlotStep, CallStep

LEMMA CnxOnce ==
  ASSUME Typed, Once, NEW c \in Cnxs,
         \/ Break(c) \/ Connected(c) \/ TimerFires(c)
         \/ \E m \in wire[c] : Answer(m) \/ Ignored(c, m)
  PROVE  Once'
<1> USE DEF Typed, TypeOK, link, calls, history
<1>1. UNCHANGED <<nth, notify, listed, posted, pc>>
  BY DEF Break, Connected, TimerFires, Answer, ReadReply, Ignored
<1>2. io' = io \/ io'.in \in {"zap", "timeout", "read"}
  BY DEF Break, Connected, TimerFires, Answer, ReadReply, Ignored
<1>3. ByIo' \subseteq ByIo
  BY <1>2 DEF ByIo
<1> QED BY <1>1, <1>3, OnceKept

LEMMA IoOnce ==
  ASSUME Typed, Once, IoStep
  PROVE  Once'
<1> USE DEF Typed, TypeOK, Named, link, calls, history
<1>0. Idle.in = "poll"
  BY DEF Idle
<1>1. CASE Deliver
  <2>1. ByIo = {io.of} /\ ByIo' = {} /\ UNCHANGED <<nth, notify, listed>>
    BY <1>0, <1>1 DEF Deliver, ByIo
  <2>2. \A s \in Slots : pc'[s] \in {"connecting", "got"} => pc'[s] = pc[s]
    BY <1>1 DEF Deliver, signalled
  <2>3. CASE posted' = posted
    BY <2>1, <2>2, <2>3, OnceKept
  <2>4. CASE Alive(io.of) /\ posted' = posted \cup {io.of[1]} /\ UNCHANGED <<pc, crashed>>
    BY <2>1, <2>4, PassedOn DEF invoke_async
  <2> QED BY <1>1, <2>3, <2>4 DEF Deliver
<1>2. CASE Zap
  <2> DEFINE Z == CalledBack(io.cnx)
  <2>1. \A e \in Z : e[1] \in listed /\ e = current(e[1]) /\ e[1] \notin listed'
    BY <1>2 DEF Zap, zap, CalledBack, Zapped, current
  <2>2. /\ \A e \in Z, u \in Slots : e \notin notify[u]
        /\ \A e \in Z : e[1] \in Slots /\ e[1] \notin posted /\ InUse(e[1])
    BY <2>1 DEF Once
  <2>3. ByIo' \subseteq Z
    BY <1>0, <1>2 DEF Zap, ByIo
  <2>4. \A u \in Slots : pc'[u] \in {"connecting", "got"} => pc'[u] = pc[u]
    BY <1>2 DEF Zap, signalled
  <2>5. listed' \subseteq listed /\ UNCHANGED <<nth, posted, notify>>
    BY <1>2 DEF Zap, zap
  <2>6. \A u \in Slots : current(u)' = current(u)
    BY <2>5 DEF current
  <2>7. \A u \in Slots : u \in listed' \/ u \in posted' \/ pc'[u] \in {"connecting", "got"}
          => current(u) \notin Z
    <3> SUFFICES ASSUME NEW u \in Slots, current(u) \in Z
                 PROVE  /\ u \notin listed' /\ u \notin posted'
                        /\ pc'[u] \notin {"connecting", "got"}
      OBVIOUS
    <3>1. u \notin listed' /\ u \notin posted /\ InUse(u)
      BY <2>1, <2>2 DEF current
    <3> QED BY <2>4, <2>5, <3>1 DEF InUse
  <2>8. \A e \in Z : e[2] <= nth[e[1]]
    BY <2>1, <2>2 DEF current
  <2> HIDE DEF Z
  <2>9. \A u \in Slots : \A e \in notify'[u] : e \notin ByIo' /\ e[2] <= nth'[e[1]]
    BY <2>2, <2>3, <2>5 DEF Once
  <2>10. \A e \in ByIo' : e[2] <= nth'[e[1]]
    BY <2>3, <2>5, <2>8
  <2>11. \A u, v \in Slots : u # v => notify'[u] \cap notify'[v] = {}
    BY <2>5 DEF Once
  <2>12. \A u \in Slots : u \in listed' \/ u \in posted' \/ pc'[u] \in {"connecting", "got"}
           => current(u) \notin ByIo' /\ \A v \in Slots : current(u) \notin notify'[v]
    BY <2>3, <2>4, <2>5, <2>7 DEF Once
  <2>13. \A u \in posted' : u \notin listed' /\ pc'[u] \notin {"connecting", "got"}
    BY <2>4, <2>5 DEF Once, Slots
  <2> QED BY <2>6, <2>9, <2>10, <2>11, <2>12, <2>13 DEF Once
<1>3. ASSUME NEW e \in io.rest, Notify(e) PROVE Once'
  <2>1. ByIo = io.rest /\ ByIo' \subseteq ByIo \ {e}
    BY <1>0, <1>3 DEF Notify, ByIo
  <2> QED BY <1>3, <2>1, PassedOn DEF Notify
<1>4. CASE TimedOut
  BY <1>0, <1>4, OnceKept DEF TimedOut, ByIo
<1>5. CASE SignalOwner
  <2>1. ByIo' = {}
    BY <1>0, <1>5 DEF SignalOwner, ByIo
  <2> QED BY <1>5, <2>1, OnceKept DEF SignalOwner, signalled
<1>6. ASSUME NEW exception \in BOOLEAN, HandleReply(exception) PROVE Once'
  <2>1. /\ UNCHANGED <<nth, notify, posted, pc>> /\ ByIo = {}
        /\ \A u \in Slots : current(u)' = current(u)
    BY <1>0, <1>6 DEF HandleReply, ByIo, current
  <2>2. CASE io'.in # "reply"
    <3>1. ByIo' = {}
      BY <1>0, <1>6, <2>2 DEF HandleReply, ByIo
    <3>2. listed' \subseteq listed
      BY <1>6, <2>2 DEF HandleReply
    <3> QED BY <2>1, <3>1, <3>2, OnceKept
  <2>3. CASE io'.in = "reply"
    <3> DEFINE s == io.msg.id
    <3>1. s \in listed /\ listed' = listed \ {s} /\ ByIo' = {current(s)}
      BY <1>0, <1>6, <2>3 DEF HandleReply, ByIo
    <3> HIDE DEF s
    <3>2. /\ s \in Slots /\ InUse(s) /\ s \notin posted
          /\ \A u \in Slots : current(s) \notin notify[u]
      BY <3>1 DEF Once
    <3>3. current(s)[1] = s /\ current(s)[2] = nth[s] /\ nth[s] \in Nat
      BY <3>2 DEF current
    <3>4. \A u \in Slots : current(u) = current(s) => u = s
      BY DEF current
    <3>5. \A u \in Slots : u \in listed' \/ u \in posted' \/ pc'[u] \in {"connecting", "got"}
            => current(u) \notin ByIo' /\ \A v \in Slots : current(u) \notin notify'[v]
      BY <2>1, <3>1, <3>2, <3>4 DEF Once, InUse
    <3>6. \A e \in ByIo' : e[2] <= nth'[e[1]]
      BY <2>1, <3>1, <3>3
    <3>7. \A u \in Slots : \A e \in notify'[u] : e \notin ByIo' /\ e[2] <= nth'[e[1]]
      BY <2>1, <3>1, <3>2 DEF Once
    <3>8. \A u, v \in Slots : u # v => notify'[u] \cap notify'[v] = {}
      BY <2>1 DEF Once
    <3>9. \A u \in posted' : u \notin listed' /\ pc'[u] \notin {"connecting", "got"}
      BY <2>1, <3>1 DEF Once
    <3> QED BY <2>1, <3>5, <3>6, <3>7, <3>8, <3>9 DEF Once
  <2> QED BY <2>2, <2>3
<1> QED BY <1>1, <1>2, <1>3, <1>4, <1>5, <1>6 DEF IoStep

LEMMA OnceInvariant == Spec => []Once
<1>1. Typed /\ Once /\ [Next]_vars => Once'
  <2> SUFFICES ASSUME Typed, Once, [Next]_vars PROVE Once'
    OBVIOUS
  <2>1. CASE Next
    BY <2>1, CallOnce, CnxOnce, IoOnce DEF Next, SlotStep
  <2>2. CASE UNCHANGED vars
    <3>1. ByIo' = ByIo
      BY <2>2 DEF vars, ByIo
    <3> QED BY <2>2, <3>1, OnceKept DEF vars, calls
  <2> QED BY <2>1, <2>2
<1> QED BY <1>1, InitOnce, TypedInvariant, PTL DEF Spec

----------------------------------------------------------------------------
(* A caller that is on the way to its reply, or waits for it. *)
Stays(s) == pc[s] \in {"listed", "set", "arming", "send", "sent", "zapping",
                       "notifying", "check", "asleep"}
Filling(s) == io.in = "reply" /\ io.of = current(s)
Open(s) == ent[s].buffer = NoReply /\ ent[s].cnx = cnx[s]

(* The requests of a broken connection are lost, and the I/O thread reads  *)
(* from a connection that only a writer can break meanwhile.               *)
Quiet ==
  /\ \A c \in Cnxs : Broken(c) => wire[c] = {}
  /\ io.in \in {"read", "reply"} /\ io.cnx \notin overflowed =>
       status[io.cnx] = "connected"

EntriesOpen == \A s \in Sync : s \in listed \/ (Filling(s) /\ Stays(s)) => Open(s)

(* A caller that leaves with its entry on the list expects no reply. *)
NoneExpected ==
  \A s \in Sync :
    s \in listed /\ ~ Stays(s) /\ cnx[s] \notin overflowed =>
      /\ \A m \in wire[cnx[s]] : m.id # s
      /\ ~ (io.in = "read" /\ io.cnx = cnx[s] /\ io.msg.id = s)

(* The entry the I/O thread is about to fill is that of a caller that finds*)
(* no reason to leave.                                                     *)
FillingStays ==
  io.in = "reply" /\ io.of \notin unwaited /\ io.cnx \notin overflowed =>
    /\ Alive(io.of)
    /\ io.of[1] \in Sync => Stays(io.of[1]) /\ cnx[io.of[1]] = io.cnx

NotifyAlive == \A e \in ToNotify : Alive(e) \/ e \in unwaited

(* A caller that goes to sleep can be found, or need not be. *)
Reachable ==
  \A s \in Sync : Stays(s) =>
    \/ s \in listed \/ Filling(s)
    \/ pc[s] # "asleep" /\ (ent[s].buffer # NoReply \/ ent[s].cnx = NoCnx)

Zapping(c) ==
  (io.in = "zap" /\ io.cnx = c) \/ \E u \in Slots : pc[u] = "zapping" /\ cnx[u] = c

ZapComes ==
  \A s \in Sync : pc[s] = "asleep" /\ status[cnx[s]] = "disconnected" =>
    Filling(s) \/ Zapping(cnx[s])

Waits(s) == pc[s] \in {"check", "asleep", "timer", "locking", "leave"}
SyncWaits == \A s \in Async : ~ Waits(s)

Safe == /\ Quiet /\ EntriesOpen /\ NoneExpected /\ FillingStays /\ NotifyAlive
        /\ Reachable /\ ZapComes /\ SyncWaits

LEMMA InitSafe == Init => Safe
<1> SUFFICES ASSUME Init PROVE Safe
  OBVIOUS
<1>1. io.in = "poll" /\ ToNotify = {} /\ listed = {} /\ \A s \in Slots : pc[s] = "idle"
  BY DEF Init, Idle, ToNotify
<1>2. Quiet
  BY <1>1 DEF Init, Quiet
<1> QED
  BY <1>1, <1>2 DEF Safe, EntriesOpen, NoneExpected, FillingStays, NotifyAlive,
     Reachable, ZapComes, SyncWaits, Stays, Filling, Waits, Slots

(* What is on the list or posted is held by nobody. *)
LEMMA NotHeld ==
  ASSUME Typed, Once, NEW s \in Slots,
         s \in listed \/ s \in posted \/ pc[s] \in {"connecting", "got"}
  PROVE  ~ Filling(s) /\ current(s) \notin ToNotify
BY DEF Once, ByIo, ToNotify, Filling

(* A step that only moves callers on, between the places where they stay or*)
(* between those where they do not.                                        *)
LEMMA SafeKept ==
  ASSUME Typed, Safe,
         UNCHANGED <<link, listed, ent, calls, unwaited, overflowed>>,
         ToNotify' \subseteq ToNotify,
         \/ UNCHANGED io
         \/ {io.in, io'.in} \cap {"read", "reply", "zap"} = {},
         \A u \in Slots :
           \/ pc'[u] = pc[u]
           \/ /\ u \in Sync => (Stays(u) <=> Stays(u)')
              /\ InUse(u) => InUse(u)'
              /\ pc'[u] # "asleep" /\ pc[u] # "zapping"
              /\ Waits(u)' => Waits(u)  \/ u \in Sync
  PROVE  Safe'
<1> USE DEF link, calls
<1>1. \A u \in Slots : /\ u \in Sync => (Stays(u) <=> Stays(u)')
                       /\ InUse(u) => InUse(u)'
                       /\ pc'[u] = "asleep" => pc[u] = "asleep"
                       /\ pc[u] = "zapping" => pc'[u] = "zapping"
                       /\ Waits(u)' => Waits(u) \/ u \in Sync
  BY DEF Stays, InUse, Waits
<1>2. \A u \in Slots : (Filling(u) <=> Filling(u)') /\ (Open(u) <=> Open(u)')
  BY DEF Filling, Open, current
<1>3. ToNotify \subseteq Call
  BY DEF ToNotify, Typed, TypeOK, AsyncCall, Call, Slots, Idle
<1>4. \A e \in Call : Alive(e) => Alive(e)'
  BY <1>1 DEF Alive, Call
<1>5. Quiet'
  BY DEF Safe, Quiet, Broken
<1>6. EntriesOpen'
  BY <1>1, <1>2 DEF Safe, EntriesOpen, Slots
<1>7. NoneExpected'
  BY <1>1 DEF Safe, NoneExpected, Slots
<1>8. FillingStays'
  <2>1. io'.in = "reply" => io' = io
    OBVIOUS
  <2>2. io.in = "reply" => io.of \in Call /\ io.of[1] \in Slots
    BY DEF Typed, TypeOK, Idle, Call
  <2> QED BY <1>1, <1>4, <2>1, <2>2 DEF Safe, FillingStays
<1>9. NotifyAlive'
  BY <1>3, <1>4 DEF Safe, NotifyAlive
<1>10. Reachable'
  BY <1>1, <1>2 DEF Safe, Reachable, Slots
<1>11. ZapComes'
  BY <1>1, <1>2 DEF Safe, ZapComes, Zapping, Slots
<1>12. SyncWaits'
  BY <1>1 DEF Safe, SyncWaits, Slots
<1> QED BY <1>5, <1>6, <1>7, <1>8, <1>9, <1>10, <1>11, <1>12 DEF Safe

(* A caller that returns, or the callback of one, takes its entry with it: *)
(* nobody holds it who has not been told.                                  *)
LEMMA Gone ==
  ASSUME Typed, Safe, NEW s \in Slots, NEW p \in {"idle", "freed"},
         UNCHANGED <<link, calls, notify, io, overflowed>>,
         pc[s] # "zapping", pc' = [pc EXCEPT ![s] = p],
         destroy_queue_entry(s), unwaited \subseteq unwaited',
         current(s) \in ToNotify => current(s) \in unwaited',
         Filling(s) => current(s) \in unwaited' \/ io.cnx \in overflowed
  PROVE  Safe'
<1> USE DEF link, calls, destroy_queue_entry
<1>1. /\ \A u \in Slots : u # s => pc'[u] = pc[u] /\ ent'[u] = ent[u]
      /\ pc'[s] = p /\ listed' = listed \ {s}
  BY DEF Typed, TypeOK
<1>2. \A u \in Slots : u # s => /\ Stays(u) <=> Stays(u)'
                                /\ Filling(u) <=> Filling(u)'
                                /\ Open(u) <=> Open(u)'
                                /\ InUse(u) <=> InUse(u)'
                                /\ Waits(u) <=> Waits(u)'
  BY <1>1 DEF Stays, Filling, Open, InUse, current, Waits
<1>3. ~ Stays(s)' /\ ~ Waits(s)' /\ s \notin listed'
  BY <1>1 DEF Stays, Waits
<1>4. ToNotify' = ToNotify /\ ToNotify \subseteq Call
  BY DEF ToNotify, Typed, TypeOK, AsyncCall, Call, Slots, Idle
<1>5. \A e \in Call : Alive(e) => Alive(e)' \/ e = current(s)
  BY <1>1, <1>2 DEF Alive, Call, current, Typed, TypeOK
<1>6. \A c \in Cnxs : Zapping(c) => Zapping(c)'
  BY <1>1 DEF Zapping
<1>7. Quiet'
  BY DEF Safe, Quiet, Broken
<1>8. EntriesOpen'
  BY <1>1, <1>2, <1>3 DEF Safe, EntriesOpen, Slots
<1>9. NoneExpected'
  BY <1>1, <1>2, <1>3 DEF Safe, NoneExpected, Slots
<1>10. FillingStays'
  <2>1. io.in = "reply" => io.of \in Call /\ io.of[1] \in Slots
    BY DEF Typed, TypeOK, Idle, Call
  <2>2. io.in = "reply" /\ io.of \notin unwaited' /\ io.cnx \notin overflowed
          => /\ Alive(io.of) /\ io.of # current(s)
             /\ io.of[1] \in Sync => Stays(io.of[1]) /\ cnx[io.of[1]] = io.cnx
    BY DEF Safe, FillingStays, Filling
  <2>3. io.in = "reply" /\ Alive(io.of) /\ io.of # current(s) => io.of[1] # s
    BY <2>1 DEF Alive, current, Call
  <2> QED BY <1>2, <1>5, <2>1, <2>2, <2>3 DEF FillingStays
<1>11. NotifyAlive'
  BY <1>4, <1>5 DEF Safe, NotifyAlive
<1>12. Reachable'
  BY <1>1, <1>2, <1>3 DEF Safe, Reachable, Slots
<1>13. ZapComes'
  <2>1. \A u \in Sync : pc'[u] = "asleep" => u # s /\ pc[u] = "asleep" /\ cnx[u] \in Cnxs
    BY <1>1 DEF Slots, Typed, Named
  <2> QED BY <1>2, <1>6, <2>1 DEF Safe, ZapComes, Slots
<1>14. SyncWaits'
  BY <1>2, <1>3 DEF Safe, SyncWaits, Slots
<1> QED BY <1>7, <1>8, <1>9, <1>10, <1>11, <1>12, <1>13, <1>14 DEF Safe

(* Who zaps a connection wakes the callers whose entries it finds, and     *)
(* keeps those to pass on.                                                 *)
LEMMA ZapSafe ==
  ASSUME Typed, Once, Safe, NEW c \in Cnxs, zap(c),
         UNCHANGED <<link, calls, history>>,
         \A u \in Slots :
           \/ pc'[u] = signalled(Zapped(c))[u]
           \/ pc[u] = "zapping" /\ cnx[u] = c /\ pc'[u] = "notifying",
         ToNotify' \subseteq ToNotify \cup CalledBack(c),
         \/ UNCHANGED io
         \/ io.in = "zap" /\ io.cnx = c /\ io'.in \in {"poll", "notify"}
  PROVE  Safe'
<1> USE DEF link, calls, history
<1>1. \A u \in Slots : \/ pc'[u] = pc[u]
                       \/ pc[u] = "zapping" /\ cnx[u] = c /\ pc'[u] = "notifying"
                       \/ pc[u] = "asleep" /\ pc'[u] = "check"
  BY DEF signalled
<1>2. \A u \in Slots : /\ Stays(u) <=> Stays(u)'
                       /\ InUse(u) <=> InUse(u)'
                       /\ Waits(u) <=> Waits(u)'
                       /\ pc'[u] = "asleep" => pc[u] = "asleep" /\ u \notin Zapped(c)
  <2>1. \A u \in Zapped(c) : u \in Slots => signalled(Zapped(c))[u] # "asleep"
    BY DEF signalled
  <2> QED BY <1>1, <2>1 DEF Stays, InUse, Waits
<1>3. \A u \in Slots : Filling(u)' => Filling(u)
  BY DEF Filling, current
<1>4. \A u \in Slots : ent'[u] = IF u \in Zapped(c) THEN NoEntry ELSE ent[u]
  BY DEF zap
<1>5. listed' = listed \ Zapped(c) /\ Zapped(c) \subseteq listed
  BY DEF zap, Zapped
<1>6. Quiet'
  BY DEF Safe, Quiet, Broken
<1>7. EntriesOpen'
  <2> SUFFICES ASSUME NEW u \in Sync, u \in listed' \/ (Filling(u)' /\ Stays(u)')
               PROVE  Open(u)'
    BY DEF EntriesOpen
  <2>1. u \notin Zapped(c) /\ Open(u)
    BY <1>2, <1>3, <1>5, NotHeld DEF Safe, EntriesOpen, Slots
  <2> QED BY <1>4, <2>1 DEF Open, Slots
<1>8. NoneExpected'
  BY <1>2, <1>5 DEF Safe, NoneExpected, Slots
<1>9. FillingStays'
  <2>1. CASE UNCHANGED io
    <3>1. io.in = "reply" => io.of \in Call /\ io.of[1] \in Slots
      BY DEF Typed, TypeOK, Idle, Call
    <3> QED BY <1>2, <2>1, <3>1 DEF Safe, FillingStays, Alive
  <2>2. CASE io'.in \in {"poll", "notify"}
    BY <2>2 DEF FillingStays
  <2> QED BY <2>1, <2>2
<1>10. NotifyAlive'
  <2>1. \A e \in CalledBack(c) : Alive(e) /\ e \in Call
    <3> SUFFICES ASSUME NEW u \in Zapped(c) PROVE Alive(current(u)) /\ current(u) \in Call
      BY DEF CalledBack
    <3>1. InUse(u) /\ u \in Slots /\ nth[u] \in 1 .. MaxCalls
      BY <1>5 DEF Typed, TypeOK, Named, InUse
    <3> QED BY <3>1 DEF Alive, current, Call
  <2>2. ToNotify \subseteq Call
    BY DEF ToNotify, Typed, TypeOK, AsyncCall, Call, Slots, Idle
  <2>3. \A e \in Call : Alive(e) => Alive(e)'
    BY <1>2 DEF Alive, Call
  <2> QED BY <2>1, <2>2, <2>3 DEF Safe, NotifyAlive
<1>11. Reachable'
  <2> SUFFICES ASSUME NEW u \in Sync, Stays(u)'
               PROVE  \/ u \in listed' \/ Filling(u)'
                      \/ /\ pc'[u] # "asleep"
                         /\ ent'[u].buffer # NoReply \/ ent'[u].cnx = NoCnx
    BY DEF Reachable
  <2>1. u \in Slots
    BY DEF Slots
  <2>2. CASE u \in Zapped(c)
    BY <1>2, <1>4, <2>1, <2>2 DEF NoEntry
  <2>3. CASE u \notin Zapped(c)
    <3>1. Filling(u) => Filling(u)'
      BY DEF Filling, current
    <3> QED BY <1>2, <1>4, <1>5, <2>1, <2>3, <3>1 DEF Safe, Reachable
  <2> QED BY <2>2, <2>3
<1>12. ZapComes'
  <2> SUFFICES ASSUME NEW u \in Sync, pc'[u] = "asleep", status[cnx[u]] = "disconnected"
               PROVE  Filling(u)' \/ Zapping(cnx[u])'
    BY DEF ZapComes
  <2>1. u \in Slots /\ pc[u] = "asleep" /\ u \notin Zapped(c)
    BY <1>2 DEF Slots
  <2>2. CASE Filling(u)
    BY <2>2 DEF Filling, current
  <2>3. CASE ~ Filling(u)
    <3>1. u \in listed /\ ent[u].cnx = cnx[u]
      BY <2>1, <2>3 DEF Safe, Reachable, EntriesOpen, Stays, Open
    <3>2. cnx[u] # c
      BY <2>1, <3>1 DEF Zapped
    <3>3. Zapping(cnx[u])
      BY <2>1, <2>3 DEF Safe, ZapComes
    <3> QED BY <1>1, <3>2, <3>3 DEF Zapping
  <2> QED BY <2>2, <2>3
<1>13. SyncWaits'
  BY <1>2 DEF Safe, SyncWaits, Slots
<1> QED BY <1>6, <1>7, <1>8, <1>9, <1>10, <1>11, <1>12, <1>13 DEF Safe

(* A caller writes its request, or finds more than max_buffer_bytes.       *)
LEMMA WriteSafe ==
  ASSUME Typed, Safe, NEW s \in Slots,
         Send(s) \/ SendOneway(s) \/ Overflow(s)
  PROVE  Safe'
<1> USE DEF Typed, TypeOK, link, calls, history
<1> DEFINE c == cnx[s]
<1>1. /\ c \in Cnxs /\ ~ Broken(c) /\ Stays(s) /\ InUse(s)
      /\ UNCHANGED <<listed, ent, calls, notify, io, unwaited>>
      /\ overflowed \subseteq overflowed'
      /\ pc[s] \in {"set", "send"}
  BY DEF Send, SendOneway, Overflow, WritesOneway, WritesTwoway, Named, Stays, InUse
<1>2. /\ \A u \in Slots : u # s => pc'[u] = pc[u]
      /\ pc'[s] \in {"check", "sent", "zapping", "out"}
      /\ pc'[s] = "out" => s \notin Sync
      /\ pc'[s] = "check" => s \in Sync
  BY DEF Send, SendOneway, Overflow
<1>3. \A u \in Slots : /\ Stays(u) => Stays(u)' \/ u \notin Sync
                       /\ Stays(u)' => Stays(u)
                       /\ InUse(u) <=> InUse(u)'
                       /\ pc'[u] = "asleep" <=> pc[u] = "asleep"
                       /\ pc[u] = "zapping" => pc'[u] = "zapping"
                       /\ Waits(u)' => Waits(u) \/ u \in Sync
  BY <1>1, <1>2 DEF Stays, InUse, Waits
<1>4. \A u \in Slots : (Filling(u) <=> Filling(u)') /\ (Open(u) <=> Open(u)')
  BY <1>1 DEF Filling, Open, current
<1>5. ToNotify' = ToNotify /\ ToNotify \subseteq Call
  BY <1>1 DEF ToNotify, AsyncCall, Call, Slots, Idle
<1>6. \A e \in Call : Alive(e) => Alive(e)'
  BY <1>1, <1>3 DEF Alive, Call
<1>7. /\ \A d \in Cnxs : d # c => status'[d] = status[d] /\ wire'[d] = wire[d]
      /\ \/ status'[c] = status[c] /\ \A m \in wire'[c] : m \in wire[c] \/ m.id = s
         \/ /\ status'[c] = "disconnected" /\ wire'[c] = {}
            /\ c \in overflowed' /\ pc'[s] = "zapping"
  BY <1>1 DEF Send, SendOneway, Overflow, sent, disconnected
<1> HIDE DEF c
<1>8. Quiet'
  <2>1. \A d \in Cnxs : Broken(d)' => wire'[d] = {}
    <3> TAKE d \in Cnxs
    <3>1. CASE d # c
      BY <1>7, <3>1 DEF Safe, Quiet, Broken
    <3>2. CASE d = c
      BY <1>1, <1>7, <3>2 DEF Broken
    <3> QED BY <3>1, <3>2
  <2>2. io.in \in {"read", "reply"} /\ io.cnx \notin overflowed' => status'[io.cnx] = "connected"
    <3>1. io.in \in {"read", "reply"} => io.cnx \in Cnxs
      BY DEF Idle
    <3> QED BY <1>1, <1>7, <3>1 DEF Safe, Quiet
  <2> QED BY <1>1, <2>1, <2>2 DEF Quiet
<1>9. EntriesOpen'
  BY <1>1, <1>3, <1>4 DEF Safe, EntriesOpen, Slots
<1>10. NoneExpected'
  <2> SUFFICES ASSUME NEW u \in Sync, u \in listed, ~ Stays(u)', cnx[u] \notin overflowed'
               PROVE  /\ \A m \in wire'[cnx[u]] : m.id # u
                      /\ ~ (io.in = "read" /\ io.cnx = cnx[u] /\ io.msg.id = u)
    BY <1>1 DEF NoneExpected
  <2>1. u \in Slots /\ ~ Stays(u) /\ u # s /\ InUse(u) /\ cnx[u] \notin overflowed
    BY <1>1, <1>3 DEF Slots, Named
  <2>2. cnx[u] \in Cnxs
    BY <2>1 DEF Named, InUse
  <2>3. /\ \A m \in wire[cnx[u]] : m.id # u
        /\ ~ (io.in = "read" /\ io.cnx = cnx[u] /\ io.msg.id = u)
    BY <2>1 DEF Safe, NoneExpected
  <2> QED BY <1>7, <2>1, <2>2, <2>3
<1>11. FillingStays'
  <2>1. io.in = "reply" => io.of \in Call /\ io.of[1] \in Slots
    BY DEF Idle, Call
  <2> QED BY <1>1, <1>3, <1>6, <2>1 DEF Safe, FillingStays
<1>12. NotifyAlive'
  BY <1>1, <1>5, <1>6 DEF Safe, NotifyAlive
<1>13. Reachable'
  BY <1>1, <1>3, <1>4 DEF Safe, Reachable, Slots
<1>14. ZapComes'
  <2> SUFFICES ASSUME NEW u \in Sync, pc'[u] = "asleep", status'[cnx[u]] = "disconnected"
               PROVE  Filling(u)' \/ Zapping(cnx[u])'
    BY <1>1 DEF ZapComes
  <2>1. u \in Slots /\ pc[u] = "asleep" /\ cnx[u] \in Cnxs
    BY <1>3 DEF Slots, Named
  <2>2. CASE status[cnx[u]] = "disconnected"
    BY <1>1, <1>3, <1>4, <2>1, <2>2 DEF Safe, ZapComes, Zapping
  <2>3. CASE status[cnx[u]] # "disconnected"
    <3>1. cnx[u] = c /\ pc'[s] = "zapping"
      BY <1>7, <2>1, <2>3
    <3> QED BY <1>1, <3>1 DEF Zapping, c
  <2> QED BY <2>2, <2>3
<1>15. SyncWaits'
  BY <1>3 DEF Safe, SyncWaits, Slots
<1> QED BY <1>8, <1>9, <1>10, <1>11, <1>12, <1>13, <1>14, <1>15 DEF Safe

LEMMA SetupSafe ==
  ASSUME Typed, Once, Safe, NEW s \in Slots, Setup(s)
  PROVE  Safe'
<1> USE DEF link, calls, history
<1>1. /\ pc[s] = "got" /\ pc'[s] \in {"set", "listed"} /\ listed' = listed \cup {s}
      /\ \A u \in Slots : u # s => pc'[u] = pc[u] /\ ent'[u] = ent[u]
      /\ ent'[s] = [cnx |-> cnx[s], buffer |-> NoReply]
      /\ UNCHANGED <<link, calls, notify, posted, io, history>>
  BY DEF Setup, Typed, TypeOK
<1>2. \A u \in Slots : u # s => /\ Stays(u) <=> Stays(u)'
                                /\ InUse(u) <=> InUse(u)'
                                /\ Open(u) <=> Open(u)'
                                /\ Waits(u) <=> Waits(u)'
  BY <1>1 DEF Stays, InUse, Waits, Open
<1>3. \A u \in Slots : Filling(u) <=> Filling(u)'
  BY <1>1 DEF Filling, current
<1>4. Stays(s)' /\ InUse(s)' /\ Open(s)' /\ ~ Waits(s)'
  BY <1>1 DEF Stays, InUse, Waits, Open
<1>5. \A e \in Call : Alive(e) => Alive(e)'
  BY <1>1, <1>2, <1>4 DEF Alive, Call
<1>6. ToNotify' = ToNotify /\ ToNotify \subseteq Call
  BY <1>1 DEF ToNotify, Typed, TypeOK, AsyncCall, Call, Slots, Idle
<1>7. Quiet'
  BY <1>1 DEF Safe, Quiet, Broken
<1>8. EntriesOpen'
  BY <1>1, <1>2, <1>3, <1>4 DEF Safe, EntriesOpen, Slots
<1>9. NoneExpected'
  BY <1>1, <1>2, <1>4 DEF Safe, NoneExpected, Slots
<1>10. FillingStays'
  <2>1. io.in = "reply" => io.of \in Call /\ io.of[1] \in Slots
    BY DEF Typed, TypeOK, Idle, Call
  <2> QED BY <1>1, <1>2, <1>4, <1>5, <2>1 DEF Safe, FillingStays
<1>11. NotifyAlive'
  BY <1>1, <1>5, <1>6 DEF Safe, NotifyAlive
<1>12. Reachable'
  BY <1>1, <1>2, <1>3 DEF Safe, Reachable, Slots
<1>13. ZapComes'
  BY <1>1, <1>3 DEF Safe, ZapComes, Zapping, Slots
<1>14. SyncWaits'
  BY <1>2, <1>4 DEF Safe, SyncWaits, Slots
<1> QED BY <1>7, <1>8, <1>9, <1>10, <1>11, <1>12, <1>13, <1>14 DEF Safe

(* The number of a call is new, so that no pointer is to it. *)
LEMMA ConnectSafe ==
  ASSUME Typed, Once, Safe, NEW s \in Slots, NEW c \in Cnxs, GetConnection(s, c)
  PROVE  Safe'
<1> USE DEF Typed, TypeOK, link, calls, history
<1>1. /\ pc[s] = "idle" /\ pc'[s] \in {"connecting", "got"} /\ s \notin listed
      /\ \A u \in Slots : u # s => pc'[u] = pc[u] /\ cnx'[u] = cnx[u] /\ nth'[u] = nth[u]
      /\ nth'[s] = nth[s] + 1
      /\ UNCHANGED <<wire, listed, ent, notify, io, history>>
  BY DEF GetConnection, Named, InUse
<1>2. /\ \A d \in Cnxs : \/ status'[d] = status[d]
                         \/ Broken(d) /\ status'[d] \in {"connected", "connecting"}
  BY DEF GetConnection, do_initiate
<1>3. \A u \in Slots : u # s => /\ Stays(u) <=> Stays(u)'
                                /\ InUse(u) <=> InUse(u)'
                                /\ Open(u) <=> Open(u)'
                                /\ Waits(u) <=> Waits(u)'
                                /\ Filling(u) <=> Filling(u)'
  BY <1>1 DEF Stays, InUse, Waits, Open, Filling, current
<1>4. ~ Stays(s)' /\ ~ Waits(s)' /\ ~ InUse(s)
  BY <1>1 DEF Stays, InUse, Waits
<1>5. ToNotify' = ToNotify /\ ToNotify \subseteq Call
  BY <1>1 DEF ToNotify, AsyncCall, Call, Slots, Idle
<1>6. \A e \in Call : Alive(e) => Alive(e)' /\ e[1] # s
  BY <1>1, <1>3, <1>4 DEF Alive, Call
<1>7. Quiet'
  <2>1. \A d \in Cnxs : Broken(d)' => wire'[d] = {}
    BY <1>1, <1>2 DEF Safe, Quiet, Broken
  <2>2. io.in \in {"read", "reply"} => io.cnx \in Cnxs
    BY DEF Idle
  <2>3. \A d \in Cnxs : status[d] = "connected" => status'[d] = "connected"
    BY <1>2 DEF Broken
  <2> QED BY <1>1, <2>1, <2>2, <2>3 DEF Safe, Quiet
<1>8. EntriesOpen'
  BY <1>1, <1>3, <1>4 DEF Safe, EntriesOpen, Slots
<1>9. NoneExpected'
  BY <1>1, <1>3 DEF Safe, NoneExpected, Slots
<1>10. FillingStays'
  <2>1. io.in = "reply" => io.of \in Call /\ io.of[1] \in Slots
    BY DEF Idle, Call
  <2> QED BY <1>1, <1>3, <1>6, <2>1 DEF Safe, FillingStays
<1>11. NotifyAlive'
  BY <1>1, <1>5, <1>6 DEF Safe, NotifyAlive
<1>12. Reachable'
  BY <1>1, <1>3, <1>4 DEF Safe, Reachable, Slots
<1>13. ZapComes'
  <2> SUFFICES ASSUME NEW u \in Sync, pc'[u] = "asleep", status'[cnx'[u]] = "disconnected"
               PROVE  Filling(u)' \/ Zapping(cnx[u])'
    BY DEF ZapComes
  <2>1. u \in Slots /\ u # s /\ pc[u] = "asleep" /\ cnx'[u] = cnx[u] /\ cnx[u] \in Cnxs
    BY <1>1 DEF Slots, Named
  <2>2. status[cnx[u]] = "disconnected"
    BY <1>2, <2>1
  <2>3. Filling(u) \/ Zapping(cnx[u])
    BY <2>1, <2>2 DEF Safe, ZapComes
  <2>4. \A v \in Slots : pc[v] = "zapping" => pc'[v] = "zapping" /\ cnx'[v] = cnx[v]
    BY <1>1
  <2> QED BY <1>1, <1>3, <2>1, <2>3, <2>4 DEF Zapping
<1>14. SyncWaits'
  BY <1>3, <1>4 DEF Safe, SyncWaits, Slots
<1> QED BY <1>7, <1>8, <1>9, <1>10, <1>11, <1>12, <1>13, <1>14 DEF Safe

(* A caller that finds no reply and no broken connection can be found.     *)
LEMMA CheckSafe ==
  ASSUME Typed, Once, Safe, NEW s \in Slots, Check(s)
  PROVE  Safe'
<1> USE DEF link, calls, history
<1>0. s \in Sync /\ cnx[s] \in Cnxs /\ cnx[s] # NoCnx /\ pc[s] = "check" /\ Stays(s)
  BY DEF Check, Safe, SyncWaits, Slots, Waits, Typed, Named, Stays
<1>1. /\ \A u \in Slots : u # s => pc'[u] = pc[u]
      /\ pc'[s] = IF check_got(s) THEN "timer" ELSE "asleep"
      /\ UNCHANGED <<link, listed, ent, calls, notify, posted, io, history>>
  BY DEF Check, Typed, TypeOK
<1>2. \A u \in Slots : /\ InUse(u) <=> InUse(u)'
                       /\ Waits(u) <=> Waits(u)'
                       /\ Open(u) <=> Open(u)'
                       /\ Filling(u) <=> Filling(u)'
                       /\ Stays(u)' => Stays(u)
                       /\ u # s => (Stays(u) <=> Stays(u)')
                       /\ pc[u] = "zapping" => pc'[u] = "zapping"
  BY <1>0, <1>1 DEF Stays, InUse, Waits, Open, Filling, current
<1>3. Open(s) /\ check_got(s) => Broken(cnx[s])
  BY <1>0 DEF Open, check_got
<1>4. check_got(s) \/ Stays(s)'
  BY <1>0, <1>1 DEF Stays
<1>5. \A e \in Call : Alive(e) => Alive(e)'
  BY <1>1, <1>2 DEF Alive, Call
<1>6. ToNotify' = ToNotify /\ ToNotify \subseteq Call
  BY <1>1 DEF ToNotify, Typed, TypeOK, AsyncCall, Call, Slots, Idle
<1>7. Quiet'
  BY <1>1 DEF Safe, Quiet, Broken
<1>8. EntriesOpen'
  BY <1>1, <1>2 DEF Safe, EntriesOpen, Slots
<1>9. NoneExpected'
  <2> SUFFICES ASSUME NEW u \in Sync, u \in listed, ~ Stays(u)', cnx[u] \notin overflowed
               PROVE  /\ \A m \in wire[cnx[u]] : m.id # u
                      /\ ~ (io.in = "read" /\ io.cnx = cnx[u] /\ io.msg.id = u)
    BY <1>1 DEF NoneExpected
  <2>1. CASE u # s
    BY <1>2, <2>1 DEF Safe, NoneExpected, Slots
  <2>2. CASE u = s
    <3>1. Broken(cnx[s])
      BY <1>0, <1>3, <1>4, <2>2 DEF Safe, EntriesOpen
    <3>2. wire[cnx[s]] = {} /\ status[cnx[s]] # "connected"
      BY <1>0, <3>1 DEF Safe, Quiet, Broken
    <3> QED BY <2>2, <3>2 DEF Safe, Quiet
  <2> QED BY <2>1, <2>2
<1>10. FillingStays'
  <2> SUFFICES ASSUME io.in = "reply", io.of \notin unwaited, io.cnx \notin overflowed,
                      NEW u \in Slots, u = io.of[1]
               PROVE  /\ Alive(io.of)'
                      /\ u \in Sync => Stays(u)' /\ cnx[u] = io.cnx
    <3>1. io.in = "reply" => io.of[1] \in Slots
      BY DEF Typed, TypeOK, Idle, Call
    <3> QED BY <1>1, <3>1 DEF FillingStays
  <2>1. /\ io.of \in Call /\ Alive(io.of)
        /\ u \in Sync => Stays(u) /\ cnx[u] = io.cnx
    BY DEF Typed, TypeOK, Idle, Safe, FillingStays
  <2>2. Alive(io.of)'
    BY <1>1, <1>5, <2>1
  <2>3. CASE u # s
    BY <1>2, <2>1, <2>2, <2>3
  <2>4. CASE u = s
    <3>1. io.of = current(s)
      <4>1. \A e \in Call : Alive(e) => e = current(e[1])
        BY DEF Alive, current, Call
      <4> QED BY <2>1, <2>4, <4>1
    <3>2. Open(s) /\ cnx[s] = io.cnx
      BY <1>0, <2>1, <2>4, <3>1 DEF Safe, EntriesOpen, Filling
    <3>3. ~ Broken(cnx[s])
      BY <3>2 DEF Safe, Quiet, Broken
    <3> QED BY <1>3, <1>4, <2>1, <2>2, <2>4, <3>2, <3>3
  <2> QED BY <2>3, <2>4
<1>11. NotifyAlive'
  BY <1>1, <1>5, <1>6 DEF Safe, NotifyAlive
<1>12. Reachable'
  <2> SUFFICES ASSUME NEW u \in Sync, Stays(u)'
               PROVE  \/ u \in listed \/ Filling(u)'
                      \/ /\ pc'[u] # "asleep"
                         /\ ent[u].buffer # NoReply \/ ent[u].cnx = NoCnx
    BY <1>1 DEF Reachable
  <2>1. u \in Slots /\ Stays(u)
    BY <1>2 DEF Slots
  <2>2. CASE u # s
    BY <1>1, <1>2, <2>1, <2>2 DEF Safe, Reachable
  <2>3. CASE u = s
    <3>1. ~ check_got(s)
      BY <1>1, <2>3 DEF Stays
    <3>2. ent[s].buffer = NoReply /\ ent[s].cnx # NoCnx
      BY <3>1 DEF check_got
    <3> QED BY <1>0, <1>2, <2>1, <2>3, <3>2 DEF Safe, Reachable
  <2> QED BY <2>2, <2>3
<1>13. ZapComes'
  <2> SUFFICES ASSUME NEW u \in Sync, pc'[u] = "asleep", status[cnx[u]] = "disconnected"
               PROVE  Filling(u)' \/ Zapping(cnx[u])'
    BY <1>1 DEF ZapComes
  <2>1. u \in Slots
    BY DEF Slots
  <2>2. CASE u # s
    BY <1>1, <1>2, <2>1, <2>2 DEF Safe, ZapComes, Zapping
  <2>3. CASE u = s
    <3>1. ~ check_got(s)
      BY <1>1, <2>3
    <3>2. ent[s].buffer = NoReply /\ ent[s].cnx # NoCnx /\ ~ Broken(ent[s].cnx)
      BY <3>1 DEF check_got
    <3>3. Open(s)
      BY <1>0, <3>2 DEF Safe, Reachable, EntriesOpen
    <3> QED BY <2>3, <3>2, <3>3 DEF Open, Broken
  <2> QED BY <2>2, <2>3
<1>14. SyncWaits'
  BY <1>2 DEF Safe, SyncWaits, Slots
<1> QED BY <1>7, <1>8, <1>9, <1>10, <1>11, <1>12, <1>13, <1>14 DEF Safe

LEMMA CallSafe ==
  ASSUME Typed, Once, Safe, NEW s \in Slots, SlotStep(s)
  PROVE  Safe'
<1> USE DEF link, calls, history
<1>0. notify' = notify /\ io' = io => ToNotify' = ToNotify
  BY DEF ToNotify
<1>1. ASSUME UNCHANGED <<link, listed, ent, calls, notify, io, unwaited, overflowed>>,
             NEW p, pc' = [pc EXCEPT ![s] = p],
             \/ /\ pc[s] \in {"idle", "connecting", "got", "freed"}
                /\ p \in {"idle", "connecting", "got", "freed"}
             \/ pc[s] \in {"timer", "locking"} /\ p \in {"locking", "leave"}
             \/ /\ pc[s] \in {"listed", "set", "arming", "notifying"}
                /\ p \in {"set", "arming", "send", "sent"}
             \/ pc[s] = "notifying" /\ s \in Sync /\ p = "check"
             \/ pc[s] = "notifying" /\ s \notin Sync /\ p = "out"
             \/ pc[s] = "asleep" /\ p = "check"
      PROVE  Safe'
  <2>1. \A u \in Slots : pc'[u] = IF u = s THEN p ELSE pc[u]
    BY <1>1 DEF Typed, TypeOK
  <2>2. /\ s \in Sync => (Stays(s) <=> Stays(s)')
        /\ InUse(s) => InUse(s)'
        /\ pc'[s] # "asleep" /\ pc[s] # "zapping"
        /\ Waits(s)' => Waits(s) \/ s \in Sync
    BY <1>1, <2>1 DEF Stays, InUse, Waits
  <2> QED BY <1>0, <1>1, <2>1, <2>2, SafeKept
<1>2. CASE Reconnected(s)
  BY <1>1, <1>2 DEF Reconnected
<1>3. CASE SetupAsync(s)
  BY <1>1, <1>3 DEF SetupAsync
<1>4. CASE Arm(s)
  BY <1>1, <1>4 DEF Arm
<1>5. CASE StartTimer(s)
  BY <1>1, <1>5 DEF StartTimer
<1>6. CASE SpuriousWakeup(s)
  BY <1>1, <1>6 DEF SpuriousWakeup
<1>7. CASE TestTimer(s)
  BY <1>1, <1>7 DEF TestTimer
<1>8. CASE StopTimer(s)
  <2>1. CASE pc' = pc
    BY <1>0, <1>8, <2>1, SafeKept DEF StopTimer
  <2>2. CASE pc' = [pc EXCEPT ![s] = "leave"]
    BY <1>1, <1>8, <2>2 DEF StopTimer
  <2> QED BY <1>8, <2>1, <2>2 DEF StopTimer
<1>9. CASE Reuse(s)
  BY <1>1, <1>9 DEF Reuse
<1>10. CASE WriterReturns(s)
  <2>1. PICK p \in {"check", "out", "sent"} : /\ pc' = [pc EXCEPT ![s] = p]
                                              /\ p = "check" => s \in Sync
                                              /\ p = "out" => s \notin Sync
    BY <1>10 DEF WriterReturns
  <2> QED BY <1>1, <1>10, <2>1 DEF WriterReturns
<1>11. ASSUME NEW e \in notify[s], WriterNotify(s, e) PROVE Safe'
  <2>1. \A u \in Slots : notify'[u] \subseteq notify[u]
    BY <1>11 DEF WriterNotify, Typed, TypeOK
  <2>2. ToNotify' \subseteq ToNotify
    BY <1>11, <2>1 DEF WriterNotify, ToNotify
  <2> QED BY <1>11, <2>2, SafeKept DEF WriterNotify
<1>12. CASE Setup(s)
  BY <1>12, SetupSafe
<1>13. ASSUME NEW c \in Cnxs, GetConnection(s, c) PROVE Safe'
  BY <1>13, ConnectSafe
<1>14. CASE Send(s) \/ SendOneway(s) \/ Overflow(s)
  BY <1>14, WriteSafe
<1>15. CASE Check(s)
  BY <1>15, CheckSafe
<1>16. CASE FinishOneway(s) \/ SendFails(s)
  <2>1. Held = ToNotify \cup (IF io.in = "reply" THEN {io.of} ELSE {})
    BY DEF Held
  <2>2. Filling(s) => current(s) \in Held
    BY <2>1 DEF Filling
  <2>3. pc[s] # "zapping" /\ returns(s) /\ UNCHANGED <<link, calls, notify, io, overflowed>>
    BY <1>16 DEF FinishOneway, SendFails, WritesOneway, WritesTwoway
  <2>4. unwaited' = unwaited \cup ({current(s)} \cap Held)
    BY <2>3 DEF returns
  <2> QED BY <2>1, <2>2, <2>3, <2>4, Gone DEF returns
<1>17. CASE Leave(s)
  <2>1. s \in Sync /\ s \notin Async
    BY <1>17 DEF Leave, Safe, SyncWaits, Waits, Slots
  <2>2. current(s) \notin ToNotify
    <3>1. \A e \in ToNotify : e[1] \in Async
      BY DEF ToNotify, Typed, TypeOK, AsyncCall, Idle
    <3> QED BY <2>1, <3>1 DEF current
  <2>3. Filling(s) => current(s) \in unwaited \/ io.cnx \in overflowed
    <3> SUFFICES ASSUME Filling(s), io.of \notin unwaited, io.cnx \notin overflowed
                 PROVE  FALSE
      BY DEF Filling
    <3>1. io.of[1] = s
      BY DEF Filling, current
    <3> QED BY <1>17, <2>1, <3>1 DEF Filling, Safe, FillingStays, Leave, Stays
  <2> QED BY <1>17, <2>2, <2>3, Gone DEF Leave
<1>18. CASE Callback(s)
  <2>1. CASE pc[s] = "out"
    <3>1. ~ Filling(s) /\ current(s) \notin ToNotify
      BY <1>18, NotHeld DEF Callback
    <3> QED BY <1>18, <2>1, <3>1, Gone DEF Callback
  <2>2. CASE pc[s] # "out"
    BY <1>0, <1>18, <2>2, SafeKept DEF Callback
  <2> QED BY <2>1, <2>2
<1>19. CASE WriterZap(s)
  <2>1. /\ cnx[s] \in Cnxs /\ zap(cnx[s])
        /\ UNCHANGED <<link, calls, history, io>>
    BY <1>19 DEF WriterZap, Typed, Named
  <2>2. \A u \in Slots : \/ pc'[u] = signalled(Zapped(cnx[s]))[u]
                         \/ pc[u] = "zapping" /\ cnx[u] = cnx[s] /\ pc'[u] = "notifying"
    BY <1>19 DEF WriterZap, signalled
  <2>3. \A u \in Slots : notify'[u] \subseteq notify[u] \cup CalledBack(cnx[s])
    BY <1>19 DEF WriterZap, Typed, TypeOK
  <2>4. ToNotify' \subseteq ToNotify \cup CalledBack(cnx[s])
    BY <2>1, <2>3 DEF ToNotify
  <2> QED BY <2>1, <2>2, <2>4, ZapSafe
<1>20. CASE FiresFirst(s)
  <2>1. \A u \in Slots : pc'[u] = IF u = s THEN "send" ELSE pc[u]
    BY <1>20 DEF FiresFirst, Typed, TypeOK
  <2>2. ToNotify' \subseteq ToNotify /\ io.in = "poll" /\ io'.in = "timeout"
    BY <1>20 DEF FiresFirst, ToNotify, Idle
  <2> QED BY <1>20, <2>1, <2>2, SafeKept DEF FiresFirst, Stays, InUse, Waits
<1>21. ASSUME NEW v \in Slots, StopMissesTimer(s, v) PROVE Safe'
  <2>1. \A u \in Slots : \/ pc'[u] = pc[u]
                         \/ pc[u] = "locking" /\ pc'[u] = "leave"
                         \/ pc[u] = "arming" /\ pc'[u] = "send"
    BY <1>21 DEF StopMissesTimer, Arming, Typed, TypeOK
  <2>2. \A u \in Slots :
          \/ pc'[u] = pc[u]
          \/ /\ u \in Sync => (Stays(u) <=> Stays(u)')
             /\ InUse(u) => InUse(u)'
             /\ pc'[u] # "asleep" /\ pc[u] # "zapping"
             /\ Waits(u)' => Waits(u) \/ u \in Sync
    BY <2>1 DEF Stays, InUse, Waits
  <2> QED BY <1>0, <1>21, <2>2, SafeKept DEF StopMissesTimer
<1> QED
  BY <1>2, <1>3, <1>4, <1>5, <1>6, <1>7, <1>8, <1>9, <1>10, <1>11,
     <1>12, <1>13, <1>14, <1>15, <1>16, <1>17, <1>18, <1>19, <1>20, <1>21
  DEF SlotStep, CallStep

(* A step of a connection, or of the I/O thread when it fills no entry.    *)
LEMMA LinkSafe ==
  ASSUME Typed, Safe, Quiet',
         UNCHANGED <<listed, ent, calls, pc, notify, history>>,
         \A c \in Cnxs : wire'[c] \subseteq wire[c],
         \A c \in Cnxs : status'[c] = "disconnected" =>
           status[c] = "disconnected" \/ (io'.in = "zap" /\ io'.cnx = c),
         \/ UNCHANGED io
         \/ /\ io.in \notin {"reply", "zap", "notify"}
            /\ io'.in \notin {"reply", "notify"}
            /\ io'.in = "read" => io'.msg \in wire[io'.cnx]
  PROVE  Safe'
<1> USE DEF calls, history
<1>1. /\ \A u \in Slots : /\ Stays(u) <=> Stays(u)'
                          /\ Filling(u) <=> Filling(u)'
                          /\ Open(u) <=> Open(u)'
      /\ ToNotify' = ToNotify
      /\ \A e : Alive(e) <=> Alive(e)'
  BY DEF Stays, Filling, Open, current, ToNotify, Alive, InUse
<1>2. EntriesOpen'
  BY <1>1 DEF Safe, EntriesOpen, Slots
<1>3. NoneExpected'
  <2> SUFFICES ASSUME NEW u \in Sync, u \in listed, ~ Stays(u), cnx[u] \notin overflowed
               PROVE  /\ \A m \in wire'[cnx[u]] : m.id # u
                      /\ ~ (io'.in = "read" /\ io'.cnx = cnx[u] /\ io'.msg.id = u)
    BY <1>1 DEF NoneExpected, Slots
  <2>1. cnx[u] \in Cnxs
    BY DEF Typed, Named, InUse, Slots
  <2>2. /\ \A m \in wire[cnx[u]] : m.id # u
        /\ ~ (io.in = "read" /\ io.cnx = cnx[u] /\ io.msg.id = u)
    BY DEF Safe, NoneExpected
  <2> QED BY <2>1, <2>2
<1>4. FillingStays'
  <2>1. io'.in = "reply" => io' = io
    OBVIOUS
  <2> QED BY <1>1, <2>1 DEF Safe, FillingStays, Stays
<1>5. NotifyAlive'
  BY <1>1 DEF Safe, NotifyAlive
<1>6. Reachable'
  BY <1>1 DEF Safe, Reachable, Slots
<1>7. ZapComes'
  <2> SUFFICES ASSUME NEW u \in Sync, pc[u] = "asleep", status'[cnx[u]] = "disconnected"
               PROVE  Filling(u)' \/ Zapping(cnx[u])'
    BY DEF ZapComes
  <2>1. u \in Slots /\ cnx[u] \in Cnxs
    BY DEF Typed, Named, Slots
  <2>2. CASE io'.in = "zap" /\ io'.cnx = cnx[u]
    BY <2>2 DEF Zapping
  <2>3. CASE status[cnx[u]] = "disconnected"
    BY <1>1, <2>1, <2>3 DEF Safe, ZapComes, Zapping
  <2> QED BY <2>1, <2>2, <2>3
<1>8. SyncWaits'
  BY DEF Safe, SyncWaits, Waits
<1> QED BY <1>2, <1>3, <1>4, <1>5, <1>6, <1>7, <1>8 DEF Safe

LEMMA CnxSafe ==
  ASSUME Typed, Safe, NEW c \in Cnxs,
         \/ Break(c) \/ Connected(c) \/ TimerFires(c)
         \/ \E m \in wire[c] : Answer(m) \/ Ignored(c, m)
  PROVE  Safe'
<1> USE DEF Typed, TypeOK, link, calls, history
<1>0. Idle.in = "poll"
  BY DEF Idle
<1>1. CASE Break(c)
  <2>1. Quiet'
    BY <1>0, <1>1 DEF Break, disconnected, Safe, Quiet, Broken
  <2> QED BY <1>0, <1>1, <2>1, LinkSafe DEF Break, disconnected
<1>2. CASE Connected(c)
  <2>1. Quiet'
    BY <1>0, <1>2 DEF Connected, Safe, Quiet, Broken
  <2> QED BY <1>0, <1>2, <2>1, LinkSafe DEF Connected
<1>3. CASE TimerFires(c)
  <2>1. /\ io = Idle /\ UNCHANGED <<link, listed, ent, calls, pc, notify, history>>
        /\ io'.in \in {"poll", "timeout"}
    BY <1>0, <1>3 DEF TimerFires
  <2>2. Quiet'
    BY <1>0, <2>1 DEF Safe, Quiet, Broken
  <2> QED BY <1>0, <2>1, <2>2, LinkSafe
<1>4. ASSUME NEW m, NEW d \in Cnxs, ReadReply(d, m) PROVE Safe'
  <2>1. \A b \in Cnxs : wire'[b] \subseteq wire[b]
    BY <1>4 DEF ReadReply
  <2>2. Quiet'
    <3>1. \A b \in Cnxs : Broken(b)' => wire'[b] = {}
      BY <1>4, <2>1 DEF ReadReply, Safe, Quiet, Broken
    <3>2. io'.in = "read" /\ io'.cnx = d /\ status'[d] = "connected"
      BY <1>4 DEF ReadReply
    <3> QED BY <3>1, <3>2 DEF Quiet
  <2> QED BY <1>0, <1>4, <2>1, <2>2, LinkSafe DEF ReadReply
<1>5. ASSUME NEW m \in wire[c], Ignored(c, m) PROVE Safe'
  <2>1. \A b \in Cnxs : wire'[b] \subseteq wire[b]
    BY <1>5 DEF Ignored
  <2>2. Quiet'
    BY <1>5, <2>1 DEF Ignored, Safe, Quiet, Broken
  <2> QED BY <1>5, <2>1, <2>2, LinkSafe DEF Ignored
<1> QED BY <1>1, <1>2, <1>3, <1>4, <1>5 DEF Answer

(* The entry of a reply is found by its id, and is that of its caller.     *)
LEMMA ReplySafe ==
  ASSUME Typed, Once, Safe, NEW s, s = io.msg.id, io.in = "read",
         s \in listed, ent[s].cnx = io.cnx, listed' = listed \ {s},
         io' = [in |-> "reply", cnx |-> io.cnx, msg |-> io.msg, of |-> current(s)],
         UNCHANGED <<link, ent, calls, pc, notify, history>>
  PROVE  Safe'
<1> USE DEF link, calls, history
<1>1. s \in Slots /\ InUse(s) /\ cnx[s] \in Cnxs
  BY DEF Typed, TypeOK, Named, InUse
<1>2. \A u \in Slots : /\ Stays(u) <=> Stays(u)'
                       /\ Open(u) <=> Open(u)'
                       /\ Waits(u) <=> Waits(u)'
                       /\ Filling(u)' <=> u = s
                       /\ ~ Filling(u)
  BY DEF Stays, Open, Waits, Filling, current
<1>3. \A e : Alive(e) <=> Alive(e)'
  BY DEF Alive, InUse
<1>4. Quiet'
  BY DEF Safe, Quiet, Broken
<1>5. EntriesOpen'
  BY <1>2 DEF Safe, EntriesOpen, Slots
<1>6. NoneExpected'
  BY <1>2 DEF Safe, NoneExpected, Slots
<1>7. FillingStays'
  <2>1. Alive(current(s))'
    BY <1>1, <1>3 DEF Alive, current
  <2>2. s \in Sync /\ io.cnx \notin overflowed => Stays(s)' /\ cnx[s] = io.cnx
    BY <1>1, <1>2 DEF Safe, EntriesOpen, NoneExpected, Open
  <2>3. io'.of = current(s) /\ io'.of[1] = s /\ io'.cnx = io.cnx
    BY DEF current
  <2>4. Alive(io.of)'
    BY <2>1, <2>3, <1>3 DEF current
  <2> QED BY <2>2, <2>3, <2>4 DEF FillingStays
<1>8. NotifyAlive'
  <2>1. ToNotify' \subseteq ToNotify
    BY DEF ToNotify
  <2> QED BY <1>3, <2>1 DEF Safe, NotifyAlive
<1>9. Reachable'
  BY <1>2 DEF Safe, Reachable, Slots
<1>10. ZapComes'
  BY <1>2 DEF Safe, ZapComes, Zapping, Slots
<1>11. SyncWaits'
  BY <1>2 DEF Safe, SyncWaits, Slots
<1> QED BY <1>4, <1>5, <1>6, <1>7, <1>8, <1>9, <1>10, <1>11 DEF Safe

(* The reply wakes its caller, if that sleeps. *)
LEMMA DeliverSafe ==
  ASSUME Typed, Once, Safe, Deliver
  PROVE  Safe'
<1> USE DEF link, calls, history
<1> DEFINE s == io.of[1]
<1>0. /\ io.in = "reply" /\ io'.in = "poll" /\ s \in Slots
      /\ io.of \in Call /\ io.msg \in Request
      /\ UNCHANGED <<link, listed, calls, notify, history>>
  BY DEF Deliver, Idle, Typed, TypeOK, Call
<1>1. \A u \in Slots : \/ pc'[u] = pc[u]
                       \/ pc[u] = "asleep" /\ pc'[u] = "check"
  BY DEF Deliver, signalled
<1>2. \A u \in Slots : /\ Stays(u) <=> Stays(u)'
                       /\ InUse(u) <=> InUse(u)'
                       /\ Waits(u) <=> Waits(u)'
                       /\ ~ Filling(u)'
                       /\ pc'[u] = "asleep" => pc[u] = "asleep"
  BY <1>0, <1>1 DEF Stays, InUse, Waits, Filling
<1>3. \A u \in Slots : ent'[u] = ent[u] \/ Filling(u)
  <2>1. CASE Alive(io.of)
    <3>1. io.of = current(s)
      BY <1>0, <2>1 DEF Alive, current, Call
    <3>2. ent' = [ent EXCEPT ![s].buffer = io.msg]
      BY <2>1 DEF Deliver
    <3> HIDE DEF s
    <3>3. \A u \in Slots : u # s => ent'[u] = ent[u]
      BY <1>0, <3>2 DEF Typed, TypeOK
    <3> QED BY <1>0, <3>1, <3>3 DEF Filling
  <2>2. CASE ~ Alive(io.of)
    BY <2>2 DEF Deliver
  <2> QED BY <2>1, <2>2
<1>4. \A u \in Sync : Filling(u) /\ Stays(u) => pc'[u] # "asleep" /\ ent'[u].buffer # NoReply
  <2> SUFFICES ASSUME NEW u \in Sync, Filling(u), Stays(u)
               PROVE  pc'[u] # "asleep" /\ ent'[u].buffer # NoReply
    OBVIOUS
  <2>1. u \in Slots /\ u = s /\ Alive(io.of) /\ ~ CallsBack(u)
    BY DEF Slots, Filling, Stays, current, Alive, InUse, CallsBack
  <2>2. /\ ent' = [ent EXCEPT ![s].buffer = io.msg]
        /\ pc' = signalled({s})
    BY <2>1 DEF Deliver
  <2>3. ent'[u].buffer = io.msg
    BY <2>1, <2>2 DEF Typed, TypeOK, Entry
  <2>4. pc'[u] # "asleep"
    BY <2>1, <2>2 DEF signalled
  <2> QED BY <1>0, <2>3, <2>4, RepliesAssumption
<1> HIDE DEF s
<1>5. Quiet'
  BY <1>0 DEF Safe, Quiet, Broken
<1>6. EntriesOpen'
  <2> SUFFICES ASSUME NEW u \in Sync, u \in listed PROVE Open(u)'
    BY <1>0, <1>2 DEF EntriesOpen, Slots
  <2>1. u \in Slots /\ ent'[u] = ent[u] /\ Open(u)
    BY <1>3, NotHeld DEF Safe, EntriesOpen, Slots
  <2> QED BY <1>0, <2>1 DEF Open
<1>7. NoneExpected'
  BY <1>0, <1>2 DEF Safe, NoneExpected, Slots
<1>8. FillingStays'
  BY <1>0 DEF FillingStays
<1>9. NotifyAlive'
  <2>1. ToNotify' \subseteq ToNotify /\ ToNotify \subseteq Call
    BY <1>0 DEF ToNotify, Typed, TypeOK, AsyncCall, Call, Slots, Idle
  <2>2. \A e \in Call : Alive(e) => Alive(e)'
    BY <1>0, <1>2 DEF Alive, Call
  <2> QED BY <1>0, <2>1, <2>2 DEF Safe, NotifyAlive
<1>10. Reachable'
  BY <1>0, <1>2, <1>3, <1>4 DEF Safe, Reachable, Slots
<1>11. ZapComes'
  <2> SUFFICES ASSUME NEW u \in Sync, pc'[u] = "asleep", status[cnx[u]] = "disconnected"
               PROVE  Zapping(cnx[u])'
    BY <1>0 DEF ZapComes
  <2>1. pc[u] = "asleep" /\ ~ Filling(u)
    BY <1>2, <1>4 DEF Slots, Stays
  <2>2. Zapping(cnx[u])
    BY <2>1 DEF Safe, ZapComes
  <2> QED BY <1>0, <1>1, <2>2 DEF Zapping
<1>12. SyncWaits'
  BY <1>2 DEF Safe, SyncWaits, Slots
<1> QED BY <1>5, <1>6, <1>7, <1>8, <1>9, <1>10, <1>11, <1>12 DEF Safe

LEMMA IoSafe ==
  ASSUME Typed, Once, Safe, IoStep
  PROVE  Safe'
<1> USE DEF link, calls, history
<1>0. Idle.in = "poll"
  BY DEF Idle
<1>1. CASE Deliver
  BY <1>1, DeliverSafe
<1>2. CASE Zap
  <2>1. /\ io.cnx \in Cnxs /\ zap(io.cnx) /\ io.in = "zap"
        /\ io'.in \in {"poll", "notify"} /\ UNCHANGED <<link, calls, history>>
        /\ pc' = signalled(Zapped(io.cnx))
    BY <1>0, <1>2 DEF Zap, Typed, TypeOK
  <2>2. ToNotify' \subseteq ToNotify \cup CalledBack(io.cnx)
    BY <1>0, <1>2 DEF Zap, ToNotify
  <2> QED BY <2>1, <2>2, ZapSafe
<1>3. ASSUME NEW e \in io.rest, Notify(e) PROVE Safe'
  <2>1. /\ io.in = "notify" /\ io'.in \in {"poll", "notify"}
        /\ UNCHANGED <<link, listed, ent, calls, pc, notify, history>>
    BY <1>0, <1>3 DEF Notify, Typed, TypeOK
  <2>2. ToNotify' \subseteq ToNotify
    BY <1>0, <1>3 DEF Notify, ToNotify
  <2> QED BY <2>1, <2>2, SafeKept
<1>4. CASE TimedOut
  <2>1. io.in = "timeout" /\ io'.in = "signal" /\ io.cnx \in Cnxs
    BY <1>0, <1>4 DEF TimedOut, Typed, TypeOK
  <2>2. Quiet'
    BY <1>4, <2>1 DEF TimedOut, Safe, Quiet, Broken, Typed, TypeOK
  <2> QED BY <1>4, <2>1, <2>2, LinkSafe DEF TimedOut, Typed, TypeOK
<1>5. CASE SignalOwner
  <2>1. \A u \in Slots : \/ pc'[u] = pc[u]
                         \/ pc[u] = "asleep" /\ pc'[u] = "check"
    BY <1>5 DEF SignalOwner, signalled, Typed, TypeOK
  <2>2. \A u \in Slots : pc[u] = "asleep" => Waits(u)
    BY DEF Waits
  <2>3. ToNotify' \subseteq ToNotify
    BY <1>0, <1>5 DEF SignalOwner, ToNotify
  <2>4. \A u \in Slots :
          \/ pc'[u] = pc[u]
          \/ /\ u \in Sync => (Stays(u) <=> Stays(u)')
             /\ InUse(u) => InUse(u)'
             /\ pc'[u] # "asleep" /\ pc[u] # "zapping"
             /\ Waits(u)' => Waits(u) \/ u \in Sync
    BY <2>1, <2>2 DEF Stays, InUse
  <2> QED BY <1>0, <1>5, <2>3, <2>4, SafeKept DEF SignalOwner
<1>6. ASSUME NEW exception \in BOOLEAN, HandleReply(exception) PROVE Safe'
  <2>1. /\ io.in = "read" /\ io.cnx \in Cnxs
        /\ UNCHANGED <<sockets, ent, calls, pc, notify, history>>
    BY <1>6 DEF HandleReply, Typed, TypeOK, Idle
  <2>2. CASE io' = Idle /\ UNCHANGED <<status, wire, listed>>
    <3>1. Quiet'
      BY <1>0, <2>2 DEF Safe, Quiet, Broken
    <3> QED BY <1>0, <2>1, <2>2, <3>1, LinkSafe
  <2>3. CASE /\ disconnected(io.cnx)
             /\ io' = [in |-> "zap", cnx |-> io.cnx] /\ UNCHANGED listed
    <3>1. Quiet'
      BY <2>1, <2>3 DEF disconnected, Safe, Quiet, Broken, Typed, TypeOK
    <3> QED BY <2>1, <2>3, <3>1, LinkSafe DEF disconnected, Typed, TypeOK
  <2>4. CASE /\ io.msg.id \in listed /\ ent[io.msg.id].cnx = io.cnx
             /\ listed' = listed \ {io.msg.id}
             /\ io' = [in |-> "reply", cnx |-> io.cnx, msg |-> io.msg,
                       of |-> current(io.msg.id)]
             /\ UNCHANGED <<status, wire>>
    BY <2>1, <2>4, ReplySafe
  <2> QED BY <1>6, <2>2, <2>3, <2>4 DEF HandleReply
<1> QED BY <1>1, <1>2, <1>3, <1>4, <1>5, <1>6 DEF IoStep

LEMMA SafeInvariant == Spec => []Safe
<1>1. Typed /\ Once /\ Safe /\ [Next]_vars => Safe'
  <2> SUFFICES ASSUME Typed, Once, Safe, [Next]_vars PROVE Safe'
    OBVIOUS
  <2>1. CASE Next
    BY <2>1, CallSafe, CnxSafe, IoSafe DEF Next, SlotStep
  <2>2. CASE UNCHANGED vars
    <3>1. ToNotify' = ToNotify
      BY <2>2 DEF vars, ToNotify
    <3> QED BY <2>2, <3>1, SafeKept DEF vars, link, calls, history
  <2> QED BY <2>1, <2>2
<1> QED BY <1>1, InitSafe, TypedInvariant, OnceInvariant, PTL DEF Spec

(* Neither the I/O thread nor a writer that zaps touches an entry of an    *)
(* invocation that has returned, but in the cases that EntryAlive names.   *)
THEOREM EntriesAlive == Spec => []EntryAlive
<1>1. Typed /\ Safe => EntryAlive
  BY DEF Typed, Named, Safe, FillingStays, NotifyAlive, EntryAlive
<1> QED BY <1>1, TypedInvariant, SafeInvariant, PTL

(* A caller that sleeps can be found by the reply, and by whoever breaks   *)
(* its connection: no signal of giop-recv-buffer.c is lost.                *)
THEOREM NothingLost == Spec => []NoLostReply
<1>1. Typed /\ Safe => NoLostReply
  <2> SUFFICES ASSUME Typed, Safe, NEW s \in Sync, pc[s] = "asleep"
               PROVE  /\ s \in listed \/ Filling(s)
                      /\ ent[s].buffer = NoReply /\ ent[s].cnx # NoCnx
                      /\ status[ent[s].cnx] = "disconnected" =>
                           Filling(s) \/ Zapping(ent[s].cnx)
    BY DEF NoLostReply, Filling, Zapping
  <2>1. s \in Slots /\ Stays(s) /\ cnx[s] \in Cnxs
    BY DEF Slots, Stays, Typed, Named
  <2>2. s \in listed \/ Filling(s)
    BY <2>1 DEF Safe, Reachable
  <2>3. ent[s].buffer = NoReply /\ ent[s].cnx = cnx[s]
    BY <2>1, <2>2 DEF Safe, EntriesOpen, Open
  <2> QED BY <2>1, <2>2, <2>3 DEF Safe, ZapComes
<1> QED BY <1>1, TypedInvariant, SafeInvariant, PTL

=============================================================================
