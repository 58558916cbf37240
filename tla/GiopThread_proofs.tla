------------------------- MODULE GiopThread_proofs -------------------------
(***************************************************************************)
(* Proofs about GiopThread, for any sets of threads, keys, requests and    *)
(* policies.                                                               *)
(***************************************************************************)
EXTENDS GiopThread, SequenceTheorems, WellFoundedInduction, TLAPS

(* The main thread never leaves its own code for good, and a thread whose  *)
(* code runs or waits is in some invocation.                               *)
Framed ==
  /\ stack[Main] # <<>> /\ stack[Main][1].item = Own
  /\ \A t \in Threads : pc[t] \in {"code", "check", "asleep"} => stack[t] # <<>>

LEMMA InitType == Init => TypeOK /\ Framed
<1> SUFFICES ASSUME Init PROVE TypeOK /\ Framed
  OBVIOUS
<1>1. Running(Own) \in Frame /\ Running(Own).item = Own
  BY DEF Running, Frame, Items
<1>2. Main \in Threads /\ Main \notin Pool
  BY ThreadsAssumption DEF ThreadsAssumption, Threads
<1>3. stack \in [Threads -> Seq(Frame)]
  BY <1>1 DEF Init
<1>4. TypeOK
  <2>1. pipe \in 0 .. PipeSize /\ nsync \in 0 .. MaxSync
    BY BoundsAssumption DEF Init, BoundsAssumption
  <2>2. aborted \in BOOLEAN
    BY DEF Init
  <2>3. pc \in [Threads -> PCs] BY DEF Init, PCs
  <2>4. queue \in [Threads -> Seq(Requests)] /\ async \in [Threads -> Seq(Calls)]
    BY DEF Init
  <2>5. /\ hash \in [Keys -> Threads \cup {NoThread}]
        /\ keys \in [Threads -> SUBSET Keys]
        /\ valid \in [Threads -> Requests \cup {NoRequest}]
    BY DEF Init
  <2>6. req \in [Requests -> {"fresh", "sent", "queued", "running", "done"}]
    BY DEF Init
  <2>7. call \in [Calls -> {"fresh", "sent", "queued", "running", "done"}]
    BY DEF Init
  <2> QED BY <1>3, <2>1, <2>2, <2>3, <2>4, <2>5, <2>6, <2>7 DEF TypeOK
<1>5. stack[Main] = <<Running(Own)>>
  BY <1>2 DEF Init
<1>6. \A t \in Threads : pc[t] \in {"code", "check", "asleep"} => stack[t] # <<>>
  BY DEF Init
<1> QED BY <1>1, <1>4, <1>5, <1>6 DEF Framed

LEMMA PushType ==
  ASSUME TypeOK, Framed, NEW r \in Requests, Push(r)
  PROVE  TypeOK' /\ Framed'
<1>1. CASE PushMain(r)
  BY <1>1, ThreadsAssumption, BoundsAssumption
  DEF ThreadsAssumption, BoundsAssumption, PushMain, giop_thread_request_push, wakeup, wakeup_mainloop, signalled,
      TypeOK, Framed, PCs, Threads
<1>2. CASE PushOwned(r)
  BY <1>2, ThreadsAssumption, BoundsAssumption
  DEF ThreadsAssumption, BoundsAssumption, PushOwned, giop_thread_request_push, wakeup, wakeup_mainloop, signalled,
      TypeOK, Framed, PCs, Threads
<1>3. ASSUME NEW t \in Pool, PushNew(r, t) PROVE TypeOK' /\ Framed'
  <2>1. t \in Threads /\ t # Main
    BY ThreadsAssumption DEF ThreadsAssumption, Threads
  <2>2. /\ hash' \in [Keys -> Threads \cup {NoThread}]
        /\ keys' \in [Threads -> SUBSET Keys]
    <3>1. CASE KeyOf[r] = NoKey /\ UNCHANGED <<hash, keys>>
      BY <3>1 DEF TypeOK
    <3>2. CASE /\ KeyOf[r] \in Keys
               /\ hash' = [hash EXCEPT ![KeyOf[r]] = t]
               /\ keys' = [keys EXCEPT ![t] = {KeyOf[r]}]
      BY <3>2, <2>1 DEF TypeOK
    <3> QED BY <1>3, <3>1, <3>2 DEF PushNew
  <2>3. /\ queue' \in [Threads -> Seq(Requests)]
        /\ async' \in [Threads -> Seq(Calls)]
        /\ pc' \in [Threads -> PCs]
        /\ req' \in [Requests -> {"fresh", "sent", "queued", "running", "done"}]
    BY <1>3, <2>1 DEF PushNew, TypeOK, PCs
  <2>4. TypeOK'
    BY <1>3, <2>2, <2>3 DEF PushNew, TypeOK
  <2>5. Framed'
    BY <1>3, <2>1 DEF PushNew, TypeOK, Framed
  <2> QED BY <2>4, <2>5
<1> QED BY <1>1, <1>2, <1>3 DEF Push

(* What a thread's queues and frames hold when they are not empty. *)
LEMMA TopType ==
  ASSUME TypeOK, NEW t \in Threads, stack[t] # <<>>
  PROVE  /\ Depth(t) \in 1 .. Len(stack[t]) /\ Depth(t) \in Nat \ {0}
         /\ Top(t) \in Frame /\ Top(t).item \in Items
<1>1. stack[t] \in Seq(Frame) /\ stack[t] # <<>>
  BY DEF TypeOK
<1>2. Len(stack[t]) \in Nat /\ Len(stack[t]) > 0
  BY <1>1
<1>3. stack[t][Len(stack[t])] \in Frame
  BY <1>1, <1>2
<1> QED BY <1>2, <1>3 DEF Depth, Top, Frame

LEMMA RunType ==
  ASSUME TypeOK, Framed, NEW t \in Threads, NEW i \in Items, run(t, i)
  PROVE  /\ stack' \in [Threads -> Seq(Frame)] /\ pc' \in [Threads -> PCs]
         /\ Framed'
<1>1. Running(i) \in Frame
  BY DEF Running, Frame
<1>2. stack' \in [Threads -> Seq(Frame)] /\ pc' \in [Threads -> PCs]
  <2>1. stack \in [Threads -> Seq(Frame)] /\ pc \in [Threads -> PCs]
    BY DEF TypeOK
  <2>2. Append(stack[t], Running(i)) \in Seq(Frame)
    BY <1>1, <2>1
  <2>3. "code" \in PCs
    BY DEF PCs
  <2> QED BY <2>1, <2>2, <2>3 DEF run
<1>3. stack'[t] = Append(stack[t], Running(i)) /\ stack'[t] # <<>>
  <2>1. stack'[t] = Append(stack[t], Running(i))
    BY DEF run, TypeOK
  <2>2. stack[t] \in Seq(Frame)
    BY DEF TypeOK
  <2> QED BY <1>1, <2>1, <2>2, AppendProperties
<1>4. \A u \in Threads : u # t => stack'[u] = stack[u] /\ pc'[u] = pc[u]
  BY DEF run, TypeOK
<1>5. Main \in Threads
  BY DEF Threads
<1>6. stack'[Main] # <<>> /\ stack'[Main][1].item = Own
  <2>1. CASE t # Main
    BY <2>1, <1>4, <1>5 DEF Framed
  <2>2. CASE t = Main
    <3>1. stack[Main] \in Seq(Frame) /\ Len(stack[Main]) >= 1
      BY <1>5 DEF TypeOK, Framed
    <3>2. stack'[Main][1] = stack[Main][1]
      BY <3>1, <2>2, <1>1, <1>3
    <3> QED BY <3>2, <2>2, <1>3 DEF Framed
  <2> QED BY <2>1, <2>2
<1> QED BY <1>2, <1>3, <1>4, <1>6 DEF Framed

(* The request that first_valid_request found is still in the queue. *)
Found ==
  \A t \in Threads : pc[t] = "pop" /\ valid[t] # NoRequest =>
    \E i \in 1 .. Len(queue[t]) : queue[t][i] = valid[t]

LEMMA PopType ==
  ASSUME TypeOK, Framed, Found, NEW t \in Threads, PopStep(t)
  PROVE  TypeOK' /\ Framed'
<1>1. CASE PopAsync(t)
  <2>1. Head(async[t]) \in Calls /\ async' \in [Threads -> Seq(Calls)]
    BY <1>1 DEF PopAsync, TypeOK
  <2>2. Head(async[t]) \in Items /\ run(t, Head(async[t]))
    BY <1>1, <2>1 DEF PopAsync, Items
  <2>3. call' \in [Calls -> {"fresh", "sent", "queued", "running", "done"}]
    BY <1>1, <2>1 DEF PopAsync, TypeOK
  <2>4. /\ stack' \in [Threads -> Seq(Frame)] /\ pc' \in [Threads -> PCs]
        /\ Framed'
    BY <2>2, RunType
  <2> QED BY <1>1, <2>1, <2>3, <2>4 DEF PopAsync, TypeOK
<1>2. CASE PopOldest(t)
  <2>1. Head(queue[t]) \in Requests /\ queue' \in [Threads -> Seq(Requests)]
    BY <1>2 DEF PopOldest, TypeOK
  <2>2. Head(queue[t]) \in Items /\ run(t, Head(queue[t]))
    BY <1>2, <2>1 DEF PopOldest, Items
  <2>3. req' \in [Requests -> {"fresh", "sent", "queued", "running", "done"}]
    BY <1>2, <2>1 DEF PopOldest, TypeOK
  <2>4. /\ stack' \in [Threads -> Seq(Frame)] /\ pc' \in [Threads -> PCs]
        /\ Framed'
    BY <2>2, RunType
  <2> QED BY <1>2, <2>1, <2>3, <2>4 DEF PopOldest, TypeOK
<1>3. CASE PopAllowed(t)
  <2>1. valid[t] \in Requests
    BY <1>3 DEF PopAllowed, TypeOK
  <2>2. queue' \in [Threads -> Seq(Requests)]
    <3> DEFINE i == CHOOSE i \in 1 .. Len(queue[t]) : queue[t][i] = valid[t]
    <3>1. queue[t] \in Seq(Requests)
      BY DEF TypeOK
    <3>2. i \in 1 .. Len(queue[t])
      BY <1>3 DEF PopAllowed, Found
    <3>3. /\ SubSeq(queue[t], 1, i - 1) \in Seq(Requests)
          /\ SubSeq(queue[t], i + 1, Len(queue[t])) \in Seq(Requests)
      <4> HIDE DEF i
      <4>1. Len(queue[t]) \in Nat /\ \A j \in 1 .. Len(queue[t]) : queue[t][j] \in Requests
        BY <3>1
      <4>2. SubSeq(queue[t], 1, i - 1) \in Seq(Requests)
        BY <3>1, <3>2, <4>1, SubSeqProperties
      <4>3. SubSeq(queue[t], i + 1, Len(queue[t])) \in Seq(Requests)
        BY <3>1, <3>2, <4>1, SubSeqProperties
      <4> QED BY <4>2, <4>3
    <3>4. without(queue[t], valid[t]) \in Seq(Requests)
      BY <3>3 DEF without
    <3>5. queue' = [queue EXCEPT ![t] = without(queue[t], valid[t])]
      BY <1>3 DEF PopAllowed
    <3> QED BY <3>4, <3>5 DEF TypeOK
  <2>3. valid[t] \in Items /\ run(t, valid[t])
    BY <1>3, <2>1 DEF PopAllowed, Items
  <2>4. /\ stack' \in [Threads -> Seq(Frame)] /\ pc' \in [Threads -> PCs]
        /\ Framed'
    BY <2>3, RunType
  <2>5. /\ req' \in [Requests -> {"fresh", "sent", "queued", "running", "done"}]
        /\ valid' \in [Threads -> Requests \cup {NoRequest}]
    BY <1>3, <2>1 DEF PopAllowed, TypeOK
  <2> QED BY <1>3, <2>2, <2>4, <2>5 DEF PopAllowed, TypeOK
<1> QED BY <1>1, <1>2, <1>3 DEF PopStep

LEMMA CodeType ==
  ASSUME TypeOK, Framed, NEW t \in Threads, Code(t)
  PROVE  TypeOK' /\ Framed'
<1>1. ASSUME NEW on \in Requests \cup {Remote}, NEW p \in Policies \cup {NoPolicy},
             waiting(t, on, p)
      PROVE  /\ stack' \in [Threads -> Seq(Frame)] /\ pc' \in [Threads -> PCs]
             /\ Framed'
  <2> DEFINE d == Depth(t)
             f == [stack[t][d] EXCEPT !.on = on, !.got = FALSE, !.policy = p]
  <2>1. stack[t] # <<>>
    BY <1>1 DEF waiting, Framed
  <2>2. d \in 1 .. Len(stack[t]) /\ stack[t][d] \in Frame
    BY <2>1, TopType DEF Top
  <2>3. f \in Frame /\ f.item = stack[t][d].item
    BY <2>2 DEF Frame
  <2>4. stack' = [stack EXCEPT ![t] = [stack[t] EXCEPT ![d] = f]]
    BY <1>1 DEF waiting, TypeOK
  <2>5. stack[t] \in Seq(Frame)
    BY DEF TypeOK
  <2>6. /\ [stack[t] EXCEPT ![d] = f] \in Seq(Frame)
        /\ Len([stack[t] EXCEPT ![d] = f]) = Len(stack[t])
        /\ \A j \in 1 .. Len(stack[t]) :
             [stack[t] EXCEPT ![d] = f][j] = IF j = d THEN f ELSE stack[t][j]
    BY <2>2, <2>3, <2>5, ExceptSeq
  <2>7. stack' \in [Threads -> Seq(Frame)]
    BY <2>4, <2>6 DEF TypeOK
  <2>8. pc' \in [Threads -> PCs] /\ \A u \in Threads : u # t => pc'[u] = pc[u]
    BY <1>1 DEF waiting, TypeOK, PCs
  <2>9. \A u \in Threads : u # t => stack'[u] = stack[u]
    BY <2>4 DEF TypeOK
  <2>10. stack'[t] # <<>> /\ stack'[t][1].item = stack[t][1].item
    BY <2>2, <2>3, <2>4, <2>6 DEF TypeOK
  <2>11. Main \in Threads
    BY DEF Threads
  <2>12. Framed'
    BY <2>8, <2>9, <2>10, <2>11 DEF Framed
  <2> QED BY <2>7, <2>8, <2>12
<1>2. ASSUME NEW p \in Policies \cup {NoPolicy}, CallRemote(t, p)
      PROVE  TypeOK' /\ Framed'
  <2>1. waiting(t, Remote, p)
    BY <1>2 DEF CallRemote
  <2>2. nsync' \in 0 .. MaxSync
    BY <1>2, BoundsAssumption DEF BoundsAssumption, CallRemote, TypeOK
  <2> QED BY <1>1, <1>2, <2>1, <2>2 DEF CallRemote, waiting, TypeOK
<1>3. ASSUME NEW p \in Policies \cup {NoPolicy}, NEW r \in Requests,
             CallCrossThread(t, r, p)
      PROVE  TypeOK' /\ Framed'
  <2>1. waiting(t, r, p)
    BY <1>3 DEF CallCrossThread
  <2>2. req' \in [Requests -> {"fresh", "sent", "queued", "running", "done"}]
    BY <1>3 DEF CallCrossThread, TypeOK
  <2> QED BY <1>1, <1>3, <2>1, <2>2 DEF CallCrossThread, waiting, TypeOK
<1>4. ASSUME NEW c \in Calls, CallAsync(t, c)
      PROVE  TypeOK' /\ Framed'
  <2>1. call' \in [Calls -> {"fresh", "sent", "queued", "running", "done"}]
    BY <1>4 DEF CallAsync, TypeOK
  <2> QED BY <1>4, <2>1 DEF CallAsync, TypeOK, Framed
<1>5. ASSUME NEW k \in Keys, Bind(t, k)
      PROVE  TypeOK' /\ Framed'
  <2>1. CASE hash[k] = NoThread
    <3>1. t \in Threads
      OBVIOUS
    <3>2. /\ hash' = [hash EXCEPT ![k] = t]
          /\ keys' = [keys EXCEPT ![t] = keys[t] \cup {k}]
          /\ UNCHANGED <<queue, async, pc, valid, stack, pipe, req, call,
                        nsync, aborted>>
      BY <1>5, <2>1 DEF Bind
    <3>3. /\ hash' \in [Keys -> Threads \cup {NoThread}]
          /\ keys' \in [Threads -> SUBSET Keys]
      BY <3>2, <1>5 DEF TypeOK
    <3> QED BY <3>2, <3>3 DEF TypeOK, Framed
  <2>2. CASE hash[k] # NoThread
    <3>1. aborted' = TRUE /\ UNCHANGED <<hash, keys, queue, async, pc, valid,
                                        stack, pipe, req, call, nsync>>
      BY <1>5, <2>2 DEF Bind
    <3> QED BY <3>1 DEF TypeOK, Framed
  <2> QED BY <2>1, <2>2
<1>6. ASSUME ThreadExit(t)
      PROVE  TypeOK' /\ Framed'
  <2>1. pc' \in [Threads -> PCs]
    BY <1>6 DEF ThreadExit, TypeOK, PCs
  <2>2. Framed'
    BY <1>6 DEF ThreadExit, TypeOK, Framed
  <2> QED BY <1>6, <2>1, <2>2 DEF ThreadExit, TypeOK
<1> QED BY <1>2, <1>3, <1>4, <1>5, <1>6 DEF Code

(* A step that only moves a thread to another place of its code. *)
LEMMA PcType ==
  ASSUME TypeOK, Framed, NEW t \in Threads, NEW l \in PCs,
         l \in {"code", "check", "asleep"} => stack[t] # <<>>,
         pc' = [pc EXCEPT ![t] = l],
         UNCHANGED <<hash, keys, queue, async, valid, stack, req, call, nsync,
                     aborted>>,
         pipe' \in 0 .. PipeSize
  PROVE  TypeOK' /\ Framed'
<1>1. pc' \in [Threads -> PCs]
  BY DEF TypeOK
<1>2. Framed'
  BY DEF TypeOK, Framed
<1> QED BY <1>1, <1>2 DEF TypeOK

LEMMA LoopType ==
  ASSUME TypeOK, Framed, NEW t \in Threads, HandlerLoop(t) \/ giop_thread_free(t)
  PROVE  TypeOK' /\ Framed'
<1>1. pc' \in [Threads -> PCs]
  BY DEF HandlerLoop, giop_thread_free, TypeOK, PCs
<1>2. unbound(t) \in [Keys -> Threads \cup {NoThread}]
  BY DEF unbound, TypeOK
<1>3. /\ hash' \in [Keys -> Threads \cup {NoThread}]
      /\ keys' \in [Threads -> SUBSET Keys]
  BY <1>2 DEF HandlerLoop, giop_thread_free, TypeOK
<1>4. Framed'
  BY DEF HandlerLoop, giop_thread_free, TypeOK, Framed
<1> QED BY <1>1, <1>3, <1>4 DEF HandlerLoop, giop_thread_free, TypeOK

(* The least-number principle. *)
LEMMA LeastNumber ==
  ASSUME NEW S \in SUBSET Nat, S # {}
  PROVE  \E i \in S : \A j \in S : i <= j
<1> DEFINE R == OpToRel(<, Nat)
<1>1. IsWellFoundedOn(R, Nat)
  BY NatLessThanWellFounded
<1>2. \A x, y \in Nat : <<y, x>> \in R <=> y < x
  BY DEF OpToRel
<1> HIDE DEF R
<1>3. PICK i \in S : \A j \in S : ~ (<<j, i>> \in R)
  BY <1>1, WFMin
<1>4. \A j \in S : i <= j
  <2> TAKE j \in S
  <2>1. i \in Nat /\ j \in Nat /\ ~ (j < i)
    BY <1>2, <1>3
  <2> QED BY <2>1
<1> QED BY <1>4

(* first_valid_request finds the first request the policy allows.          *)
LEMMA FirstValid ==
  ASSUME TypeOK, NEW t \in Threads, first_valid_request(t) # NoRequest
  PROVE  \E i \in Allowed(t) :
           queue[t][i] = first_valid_request(t) /\ \A j \in Allowed(t) : i <= j
<1>1. Policy(t) # NoPolicy /\ Allowed(t) # {}
  BY DEF first_valid_request
<1>2. Allowed(t) \in SUBSET Nat
  BY DEF Allowed
<1>3. PICK i \in Allowed(t) : \A j \in Allowed(t) : i <= j
  BY <1>1, <1>2, LeastNumber
<1> DEFINE c == CHOOSE j \in Allowed(t) : \A k \in Allowed(t) : j <= k
<1>4. c \in Allowed(t) /\ \A k \in Allowed(t) : c <= k
  BY <1>3
<1>5. first_valid_request(t) = queue[t][c]
  BY <1>1 DEF first_valid_request
<1> HIDE DEF c
<1> QED BY <1>4, <1>5

LEMMA FetchType ==
  ASSUME TypeOK, Framed, NEW t \in Threads, Fetch(t)
  PROVE  TypeOK' /\ Framed'
<1>1. first_valid_request(t) \in Requests \cup {NoRequest}
  <2>1. \A i \in Allowed(t) : queue[t][i] \in Requests
    BY DEF Allowed, TypeOK
  <2> QED BY <2>1, FirstValid
<1>2. pc' \in [Threads -> PCs]
  BY DEF Fetch, TypeOK, PCs
<1>3. valid' \in [Threads -> Requests \cup {NoRequest}]
  BY <1>1 DEF Fetch, TypeOK
<1>4. Framed'
  BY DEF Fetch, TypeOK, Framed
<1> QED BY <1>2, <1>3, <1>4 DEF Fetch, TypeOK

LEMMA ReplyType ==
  ASSUME TypeOK, Framed, NEW t \in Threads, NEW i \in 1 .. Depth(t), Reply(t, i)
  PROVE  TypeOK' /\ Framed'
<1> DEFINE f == [stack[t][i] EXCEPT !.got = TRUE]
<1>1. stack[t] \in Seq(Frame) /\ i \in 1 .. Len(stack[t])
  BY DEF TypeOK, Depth
<1>2. stack[t][i] \in Frame
  BY <1>1
<1>3. f \in Frame /\ f.item = stack[t][i].item
  BY <1>2 DEF Frame
<1>4. stack' = [stack EXCEPT ![t] = [stack[t] EXCEPT ![i] = f]]
  BY DEF Reply, TypeOK
<1> HIDE DEF f
<1>5. /\ [stack[t] EXCEPT ![i] = f] \in Seq(Frame)
      /\ Len([stack[t] EXCEPT ![i] = f]) = Len(stack[t])
      /\ \A j \in 1 .. Len(stack[t]) :
           [stack[t] EXCEPT ![i] = f][j] = IF j = i THEN f ELSE stack[t][j]
  BY <1>1, <1>3, ExceptSeq
<1>6. stack' \in [Threads -> Seq(Frame)]
  BY <1>4, <1>5 DEF TypeOK
<1>7. pc' \in [Threads -> PCs]
  BY DEF Reply, signalled, TypeOK, PCs
<1>8. /\ \A u \in Threads : u # t => stack'[u] = stack[u]
      /\ stack'[t] # <<>> /\ stack[t] # <<>>
      /\ stack'[t][1].item = stack[t][1].item
  BY <1>1, <1>3, <1>4, <1>5 DEF TypeOK
<1>9. \A u \in Threads :
        pc'[u] \in {"code", "check", "asleep"} => pc[u] \in {"code", "check", "asleep"}
  BY DEF Reply, signalled, TypeOK
<1>10. Framed'
  BY <1>8, <1>9 DEF Framed, Threads
<1> QED BY <1>6, <1>7, <1>10 DEF Reply, TypeOK

LEMMA AsyncReplyType ==
  ASSUME TypeOK, Framed, NEW t \in Threads, NEW c \in Calls, AsyncReply(t, c)
  PROVE  TypeOK' /\ Framed'
<1>1. async' \in [Threads -> Seq(Calls)]
  <2>1. <<c>> \o async[t] \in Seq(Calls)
    BY ConcatProperties DEF TypeOK
  <2> QED BY <2>1 DEF AsyncReply, TypeOK
<1>2. call' \in [Calls -> {"fresh", "sent", "queued", "running", "done"}]
  BY DEF AsyncReply, TypeOK
<1>3. pc' \in [Threads -> PCs]
  BY DEF AsyncReply, signalled, TypeOK, PCs
<1>4. pipe' \in 0 .. PipeSize
  BY BoundsAssumption DEF BoundsAssumption, AsyncReply, wakeup, wakeup_mainloop, TypeOK
<1>5. \A u \in Threads :
        pc'[u] \in {"code", "check", "asleep"} => pc[u] \in {"code", "check", "asleep"}
  BY DEF AsyncReply, signalled, TypeOK
<1>6. Framed'
  BY <1>5 DEF AsyncReply, Framed
<1> QED BY <1>1, <1>2, <1>3, <1>4, <1>6 DEF AsyncReply, TypeOK

LEMMA ReturnType ==
  ASSUME TypeOK, Framed, NEW t \in Threads, Return(t)
  PROVE  TypeOK' /\ Framed'
<1> DEFINE d == Depth(t)
           f == Running(Top(t).item)
<1>1. stack[t] # <<>>
  BY DEF Return, Framed
<1>2. d \in 1 .. Len(stack[t]) /\ Top(t) \in Frame /\ Top(t).item \in Items
  BY <1>1, TopType
<1>3. f \in Frame /\ f.item = stack[t][d].item
  BY <1>2 DEF Frame, Running, Top
<1>4. stack' = [stack EXCEPT ![t] = [stack[t] EXCEPT ![d] = f]]
  BY DEF Return, TypeOK
<1>5. stack[t] \in Seq(Frame)
  BY DEF TypeOK
<1> HIDE DEF d, f
<1>6. /\ [stack[t] EXCEPT ![d] = f] \in Seq(Frame)
      /\ Len([stack[t] EXCEPT ![d] = f]) = Len(stack[t])
      /\ \A j \in 1 .. Len(stack[t]) :
           [stack[t] EXCEPT ![d] = f][j] = IF j = d THEN f ELSE stack[t][j]
  BY <1>2, <1>3, <1>5, ExceptSeq
<1>7. stack' \in [Threads -> Seq(Frame)]
  BY <1>4, <1>6 DEF TypeOK
<1>8. pc' = [pc EXCEPT ![t] = "code"] /\ pc' \in [Threads -> PCs]
  BY DEF Return, TypeOK, PCs
<1>9. /\ \A u \in Threads : u # t => stack'[u] = stack[u]
      /\ stack'[t] # <<>>
      /\ stack'[t][1].item = stack[t][1].item
  BY <1>1, <1>2, <1>3, <1>4, <1>5, <1>6 DEF TypeOK
<1>10. Framed'
  BY <1>8, <1>9 DEF TypeOK, Framed, Threads
<1>11. pipe' \in 0 .. PipeSize
  BY BoundsAssumption DEF BoundsAssumption, Return, wakeup, wakeup_mainloop, TypeOK
<1> QED BY <1>7, <1>8, <1>10, <1>11 DEF Return, TypeOK

LEMMA FinishType ==
  ASSUME TypeOK, Framed, NEW t \in Threads, Finish(t)
  PROVE  TypeOK' /\ Framed'
<1> DEFINE d == Depth(t)
           s == SubSeq(stack[t], 1, d - 1)
<1>1. stack[t] # <<>>
  BY DEF Finish, Framed
<1>2. d \in Nat \ {0} /\ d = Len(stack[t]) /\ Top(t).item \in Items
  BY <1>1, TopType DEF Depth
<1>3. stack[t] \in Seq(Frame)
  BY DEF TypeOK
<1>4. stack' = [stack EXCEPT ![t] = s]
  BY DEF Finish
<1> HIDE DEF d
<1>5. /\ s \in Seq(Frame) /\ Len(s) = d - 1
      /\ \A j \in 1 .. d - 1 : s[j] = stack[t][j]
  BY <1>2, <1>3, SubSeqProperties
<1> HIDE DEF s
<1>6. stack' \in [Threads -> Seq(Frame)]
  BY <1>4, <1>5 DEF TypeOK
<1>7. Resumed(t) \in {"check", "drain", "loop"} /\ (Resumed(t) = "check" => d > 1)
  BY DEF Resumed, d
<1>8. pc' = [pc EXCEPT ![t] = Resumed(t)] /\ pc' \in [Threads -> PCs]
  BY <1>7 DEF Finish, TypeOK, PCs
<1>9. Resumed(t) = "check" => s # <<>>
  BY <1>2, <1>5, <1>7
<1>10. t = Main => d # 1
  <2>1. d = 1 => Top(t) = stack[t][1]
    BY DEF Top, d
  <2> QED BY <2>1 DEF Framed, Finish
<1>11. t = Main => s # <<>> /\ s[1].item = Own
  <2> SUFFICES ASSUME t = Main PROVE s # <<>> /\ s[1].item = Own
    OBVIOUS
  <2>1. d - 1 \in Nat /\ d - 1 > 0
    <3>1. d \in Nat /\ d # 0
      BY <1>2
    <3>2. d # 1
      BY <1>10
    <3> QED BY <3>1, <3>2
  <2>2. Len(s) > 0 /\ s[1] = stack[t][1]
    BY <2>1, <1>5
  <2> QED BY <2>2, <1>5 DEF Framed
<1>12. Framed'
  BY <1>4, <1>7, <1>8, <1>9, <1>11 DEF TypeOK, Framed, Threads
<1>13. /\ req' \in [Requests -> {"fresh", "sent", "queued", "running", "done"}]
       /\ call' \in [Calls -> {"fresh", "sent", "queued", "running", "done"}]
  BY DEF Finish, TypeOK
<1> QED BY <1>6, <1>8, <1>12, <1>13 DEF Finish, TypeOK

(***************************************************************************)
(* Found is preserved: only the thread itself takes from its queue, and    *)
(* what the others do to it is to append.                                  *)
(***************************************************************************)
OnlyAppended ==
  \A t \in Threads : pc'[t] = "pop" =>
    /\ pc[t] = "pop" /\ valid'[t] = valid[t]
    /\ \/ queue'[t] = queue[t]
       \/ \E r \in Requests : queue'[t] = Append(queue[t], r)

LEMMA AppendedFound == ASSUME TypeOK, Found, OnlyAppended PROVE Found'
<1> SUFFICES ASSUME NEW t \in Threads, pc'[t] = "pop", valid'[t] # NoRequest
             PROVE  \E i \in 1 .. Len(queue'[t]) : queue'[t][i] = valid'[t]
  BY DEF Found
<1>1. PICK i \in 1 .. Len(queue[t]) : queue[t][i] = valid[t]
  BY DEF OnlyAppended, Found
<1>2. valid'[t] = valid[t]
  BY DEF OnlyAppended
<1>3. CASE queue'[t] = queue[t]
  BY <1>1, <1>2, <1>3
<1>4. ASSUME NEW r \in Requests, queue'[t] = Append(queue[t], r)
      PROVE  i \in 1 .. Len(queue'[t]) /\ queue'[t][i] = queue[t][i]
  BY <1>1, <1>4 DEF TypeOK
<1> QED BY <1>1, <1>2, <1>3, <1>4 DEF OnlyAppended

LEMMA PushFound ==
  ASSUME TypeOK, NEW r \in Requests, Push(r)
  PROVE  OnlyAppended
<1>1. CASE PushMain(r)
  BY <1>1 DEF PushMain, giop_thread_request_push, signalled, OnlyAppended, TypeOK
<1>2. CASE PushOwned(r)
  BY <1>2 DEF PushOwned, giop_thread_request_push, signalled, OnlyAppended, TypeOK
<1>3. ASSUME NEW t \in Pool, PushNew(r, t) PROVE OnlyAppended
  BY <1>3 DEF PushNew, OnlyAppended, TypeOK
<1> QED BY <1>1, <1>2, <1>3 DEF Push

LEMMA FetchFound ==
  ASSUME TypeOK, Found, NEW t \in Threads, Fetch(t)
  PROVE  Found'
<1> SUFFICES ASSUME NEW u \in Threads, pc'[u] = "pop", valid'[u] # NoRequest
             PROVE  \E i \in 1 .. Len(queue'[u]) : queue'[u][i] = valid'[u]
  BY DEF Found
<1>1. queue' = queue
  BY DEF Fetch
<1>2. CASE u = t
  <2>1. valid'[t] = first_valid_request(t)
    BY DEF Fetch, TypeOK
  <2>2. PICK i \in Allowed(t) : queue[t][i] = first_valid_request(t)
    BY <1>2, <2>1, FirstValid
  <2> QED BY <1>1, <1>2, <2>1, <2>2 DEF Allowed
<1>3. CASE u # t
  <2>1. pc[u] = "pop" /\ valid'[u] = valid[u]
    BY <1>3 DEF Fetch, TypeOK
  <2> QED BY <1>1, <2>1 DEF Found
<1> QED BY <1>2, <1>3

LEMMA ThreadFound ==
  ASSUME TypeOK, Found, NEW t \in Threads, ThreadStep(t)
  PROVE  Found'
<1>1. CASE Begin(t)
  BY <1>1, AppendedFound DEF Begin, OnlyAppended, TypeOK
<1>2. CASE Fetch(t)
  BY <1>2, FetchFound
<1>3. CASE PopStep(t)
  <2>1. \A u \in Threads : u # t =>
          pc'[u] = pc[u] /\ valid'[u] = valid[u] /\ queue'[u] = queue[u]
    BY <1>3 DEF PopStep, PopAsync, PopOldest, PopAllowed, run, TypeOK
  <2>2. pc'[t] = "code"
    BY <1>3 DEF PopStep, PopAsync, PopOldest, PopAllowed, run, TypeOK
  <2> QED BY <2>1, <2>2, AppendedFound DEF OnlyAppended
<1>4. CASE KeepWaiting(t)
  BY <1>4, AppendedFound DEF KeepWaiting, OnlyAppended, TypeOK
<1>5. CASE Return(t)
  BY <1>5, AppendedFound DEF Return, OnlyAppended, TypeOK
<1>6. CASE Finish(t)
  <2>1. Resumed(t) # "pop"
    BY DEF Resumed
  <2>2. pc' = [pc EXCEPT ![t] = Resumed(t)] /\ UNCHANGED <<valid, queue>>
    BY <1>6 DEF Finish
  <2> QED BY <2>1, <2>2, AppendedFound DEF OnlyAppended, TypeOK
<1>7. CASE HandlerLoop(t)
  BY <1>7, AppendedFound DEF HandlerLoop, OnlyAppended, TypeOK
<1>8. CASE giop_thread_free(t)
  BY <1>8, AppendedFound DEF giop_thread_free, OnlyAppended, TypeOK
<1> QED BY <1>1, <1>2, <1>3, <1>4, <1>5, <1>6, <1>7, <1>8 DEF ThreadStep

LEMMA CodeFound ==
  ASSUME TypeOK, NEW t \in Threads, Code(t)
  PROVE  OnlyAppended
<1>1. ASSUME NEW p \in Policies \cup {NoPolicy},
             \/ CallRemote(t, p)
             \/ \E r \in Requests : CallCrossThread(t, r, p)
      PROVE  OnlyAppended
  BY <1>1 DEF CallRemote, CallCrossThread, waiting, OnlyAppended, TypeOK
<1>2. ASSUME NEW c \in Calls, CallAsync(t, c) PROVE OnlyAppended
  BY <1>2 DEF CallAsync, OnlyAppended
<1>3. ASSUME NEW k \in Keys, Bind(t, k) PROVE OnlyAppended
  BY <1>3 DEF Bind, OnlyAppended
<1>4. CASE ThreadExit(t)
  BY <1>4 DEF ThreadExit, OnlyAppended, TypeOK
<1> QED BY <1>1, <1>2, <1>3, <1>4 DEF Code

LEMMA MainFound ==
  ASSUME TypeOK, MainStep \/ OtherSource
  PROVE  OnlyAppended
<1>1. Main \in Threads
  BY DEF Threads
<1>2. CASE EnterLoop
  BY <1>1, <1>2 DEF EnterLoop, OnlyAppended, TypeOK
<1>3. CASE HandleInput
  BY <1>1, <1>3 DEF HandleInput, OnlyAppended, TypeOK
<1>4. CASE Drain
  BY <1>1, <1>4 DEF Drain, OnlyAppended, TypeOK
<1>5. CASE OtherSource
  BY <1>1, <1>5 DEF OtherSource, OnlyAppended, TypeOK
<1> QED BY <1>2, <1>3, <1>4, <1>5 DEF MainStep

(* What TypeOK needs to be inductive. *)
Typed == TypeOK /\ Framed /\ Found

LEMMA ThreadTyped ==
  ASSUME Typed, NEW t \in Threads, ThreadStep(t)
  PROVE  TypeOK' /\ Framed'
<1> USE DEF Typed
<1>1. CASE Begin(t)
  <2>1. "fetch" \in PCs
    BY DEF PCs
  <2> QED BY <1>1, <2>1, PcType DEF Begin, TypeOK
<1>2. CASE Fetch(t)
  BY <1>2, FetchType
<1>3. CASE PopStep(t)
  BY <1>3, PopType
<1>4. CASE KeepWaiting(t)
  <2> DEFINE l == IF giop_thread_queue_empty(t) THEN "asleep" ELSE "fetch"
  <2>1. l \in PCs /\ stack[t] # <<>>
    BY <1>4 DEF KeepWaiting, PCs, Framed
  <2>2. pc' = [pc EXCEPT ![t] = l]
    BY <1>4 DEF KeepWaiting
  <2>3. /\ UNCHANGED <<hash, keys, queue, async, valid, stack, req, call, nsync,
                       aborted>>
        /\ pipe' \in 0 .. PipeSize
    BY <1>4 DEF KeepWaiting, TypeOK
  <2> HIDE DEF l
  <2> QED BY <2>1, <2>2, <2>3, PcType
<1>5. CASE Return(t)
  BY <1>5, ReturnType
<1>6. CASE Finish(t)
  BY <1>6, FinishType
<1>7. CASE HandlerLoop(t)
  BY <1>7, LoopType
<1>8. CASE giop_thread_free(t)
  BY <1>8, LoopType
<1> QED BY <1>1, <1>2, <1>3, <1>4, <1>5, <1>6, <1>7, <1>8 DEF ThreadStep

LEMMA MainTyped ==
  ASSUME Typed, MainStep \/ OtherSource
  PROVE  TypeOK' /\ Framed'
<1> USE DEF Typed
<1>1. Main \in Threads /\ {"poll", "code", "drain", "fetch"} \subseteq PCs
  BY DEF Threads, PCs
<1>2. stack[Main] # <<>>
  BY DEF Framed
<1>3. PICK l \in {"poll", "code", "drain", "fetch"} :
        /\ pc' = [pc EXCEPT ![Main] = l]
        /\ UNCHANGED <<hash, keys, queue, async, valid, stack, req, call, nsync,
                      aborted>>
  BY DEF MainStep, EnterLoop, HandleInput, Drain, OtherSource
<1>4. pipe' \in 0 .. PipeSize
  <2>1. CASE HandleInput
    BY <2>1, BoundsAssumption DEF BoundsAssumption, HandleInput, TypeOK
  <2>2. CASE EnterLoop \/ Drain \/ OtherSource
    BY <2>2 DEF EnterLoop, Drain, OtherSource, TypeOK
  <2> QED BY <2>1, <2>2 DEF MainStep
<1> QED BY <1>1, <1>2, <1>3, <1>4, PcType

LEMMA NextTyped == ASSUME Typed, Next PROVE Typed'
<1> USE DEF Typed
<1>1. ASSUME NEW r \in Requests, Push(r) PROVE Typed'
  BY <1>1, PushType, PushFound, AppendedFound
<1>2. ASSUME NEW t \in Threads, ThreadStep(t) PROVE Typed'
  BY <1>2, ThreadTyped, ThreadFound
<1>3. ASSUME NEW t \in Threads, Code(t) PROVE Typed'
  BY <1>3, CodeType, CodeFound, AppendedFound
<1>4. ASSUME NEW t \in Threads, SpuriousWakeup(t) PROVE Typed'
  <2>1. stack[t] # <<>> /\ "check" \in PCs
    BY <1>4 DEF SpuriousWakeup, Framed, PCs
  <2>2. TypeOK' /\ Framed'
    BY <1>4, <2>1, PcType DEF SpuriousWakeup, TypeOK
  <2>3. OnlyAppended
    BY <1>4 DEF SpuriousWakeup, OnlyAppended, TypeOK
  <2> QED BY <2>2, <2>3, AppendedFound
<1>5. ASSUME NEW t \in Threads, NEW i \in 1 .. Depth(t), Reply(t, i) PROVE Typed'
  <2>1. OnlyAppended
    BY <1>5 DEF Reply, signalled, OnlyAppended, TypeOK
  <2> QED BY <1>5, <2>1, ReplyType, AppendedFound
<1>6. ASSUME NEW t \in Threads, NEW c \in Calls, AsyncReply(t, c) PROVE Typed'
  <2>1. OnlyAppended
    BY <1>6 DEF AsyncReply, signalled, OnlyAppended, TypeOK
  <2> QED BY <1>6, <2>1, AsyncReplyType, AppendedFound
<1>7. ASSUME NEW k \in Keys, giop_thread_key_release(k) PROVE Typed'
  <2>1. OnlyAppended
    BY <1>7 DEF giop_thread_key_release, OnlyAppended
  <2>2. /\ hash' \in [Keys -> Threads \cup {NoThread}]
        /\ keys' \in [Threads -> SUBSET Keys]
    BY <1>7 DEF giop_thread_key_release, TypeOK
  <2>3. TypeOK' /\ Framed'
    BY <1>7, <2>2 DEF giop_thread_key_release, TypeOK, Framed
  <2> QED BY <2>1, <2>3, AppendedFound
<1>8. CASE MainStep \/ OtherSource
  BY <1>8, MainTyped, MainFound, AppendedFound
<1> QED BY <1>1, <1>2, <1>3, <1>4, <1>5, <1>6, <1>7, <1>8 DEF Next, Replies

LEMMA TypedInvariant == Spec => []Typed
<1>1. Init => Typed
  <2>1. Init => Found
    BY DEF Init, Found
  <2> QED BY <2>1, InitType DEF Typed
<1>2. Typed /\ UNCHANGED vars => Typed'
  BY DEF Typed, TypeOK, Framed, Found, vars
<1>3. Typed /\ [Next]_vars => Typed'
  BY <1>2, NextTyped
<1> QED BY <1>1, <1>3, PTL DEF Spec

(* The variables keep to their values: no full pipe is written to, and     *)
(* giop_thread_queue_process, which uses what it read before it had the    *)
(* lock, takes nothing but requests out of the queue.                      *)
THEOREM TypeCorrect == Spec => []TypeOK
<1>1. Typed => TypeOK
  BY DEF Typed
<1> QED BY <1>1, TypedInvariant, PTL

----------------------------------------------------------------------------
LEMMA PushKeys ==
  ASSUME TypeOK, KeysOwned, NEW r \in Requests, Push(r)
  PROVE  KeysOwned'
<1>1. CASE PushMain(r) \/ PushOwned(r)
  BY <1>1 DEF PushMain, PushOwned, signalled, KeysOwned, Live, TypeOK
<1>2. ASSUME NEW t \in Pool, PushNew(r, t) PROVE KeysOwned'
  <2>1. t \in Threads
    BY DEF Threads
  <2>2. ~ Live(t) /\ pc' = [pc EXCEPT ![t] = "pooled"]
    BY <1>2 DEF PushNew
  <2>3. \A u \in Threads : Live(u) => Live(u)'
    BY <2>1, <2>2 DEF Live, TypeOK
  <2>4. Live(t)'
    BY <2>1, <2>2 DEF Live, TypeOK
  <2>5. CASE UNCHANGED <<hash, keys>>
    BY <2>3, <2>5 DEF KeysOwned
  <2>6. CASE /\ KeyOf[r] \in Keys /\ hash[KeyOf[r]] = NoThread
             /\ hash' = [hash EXCEPT ![KeyOf[r]] = t]
             /\ keys' = [keys EXCEPT ![t] = {KeyOf[r]}]
    <3>1. \A k \in Keys : k \notin keys[t]
      BY <2>1, <2>2 DEF KeysOwned
    <3>2. \A u \in Threads : KeyOf[r] \notin keys[u]
      BY <2>6, ThreadsAssumption DEF ThreadsAssumption, KeysOwned
    <3> QED BY <2>1, <2>3, <2>4, <2>6, <3>1, <3>2 DEF KeysOwned, TypeOK
  <2> QED BY <1>2, <2>5, <2>6 DEF PushNew
<1> QED BY <1>1, <1>2 DEF Push

LEMMA UnboundKeys ==
  ASSUME TypeOK, KeysOwned, NEW t \in Threads,
         hash' = unbound(t), keys' = [keys EXCEPT ![t] = {}],
         \A u \in Threads : u # t => pc'[u] = pc[u]
  PROVE  KeysOwned'
<1> SUFFICES ASSUME NEW k \in Keys, NEW u \in Threads
             PROVE  /\ hash'[k] = u <=> k \in keys'[u]
                    /\ hash'[k] = u => Live(u)'
  BY DEF KeysOwned
<1>1. hash'[k] = IF k \in keys[t] THEN NoThread ELSE hash[k]
  BY DEF unbound
<1>2. u # NoThread
  BY ThreadsAssumption DEF ThreadsAssumption
<1>3. CASE u = t
  BY <1>1, <1>2, <1>3 DEF KeysOwned, TypeOK
<1>4. CASE u # t
  BY <1>1, <1>2, <1>4 DEF KeysOwned, TypeOK, Live
<1> QED BY <1>3, <1>4

LEMMA NextKeys ==
  ASSUME TypeOK, KeysOwned, Next
  PROVE  KeysOwned'
<1>1. ASSUME NEW r \in Requests, Push(r) PROVE KeysOwned'
  BY <1>1, PushKeys
<1>2. ASSUME UNCHANGED <<hash, keys>>, \A t \in Threads : Live(t) => Live(t)'
      PROVE  KeysOwned'
  BY <1>2 DEF KeysOwned
<1>3. ASSUME NEW t \in Threads, ThreadStep(t) PROVE KeysOwned'
  <2>1. CASE Begin(t) \/ Fetch(t) \/ KeepWaiting(t) \/ Return(t)
    BY <2>1, <1>2 DEF Begin, Fetch, KeepWaiting, Return, Live, TypeOK
  <2>2. CASE PopStep(t)
    BY <2>2, <1>2 DEF PopStep, PopAsync, PopOldest, PopAllowed, run, Live, TypeOK
  <2>3. CASE Finish(t)
    BY <2>3, <1>2 DEF Finish, Resumed, Live, TypeOK
  <2>4. CASE giop_thread_free(t)
    BY <2>4, UnboundKeys DEF giop_thread_free, TypeOK
  <2>5. CASE HandlerLoop(t)
    <3>1. CASE giop_thread_queue_empty(t)
      BY <2>5, <3>1, UnboundKeys DEF HandlerLoop, TypeOK
    <3>2. CASE ~ giop_thread_queue_empty(t)
      BY <2>5, <3>2, <1>2 DEF HandlerLoop, Live, TypeOK
    <3> QED BY <3>1, <3>2
  <2> QED BY <1>3, <2>1, <2>2, <2>3, <2>4, <2>5 DEF ThreadStep
<1>4. ASSUME NEW t \in Threads, Code(t) PROVE KeysOwned'
  <2>1. ASSUME NEW p \in Policies \cup {NoPolicy},
               \/ CallRemote(t, p)
               \/ \E r \in Requests : CallCrossThread(t, r, p)
        PROVE  KeysOwned'
    BY <2>1, <1>2 DEF CallRemote, CallCrossThread, waiting, Live, TypeOK
  <2>2. ASSUME NEW c \in Calls, CallAsync(t, c) PROVE KeysOwned'
    BY <2>2, <1>2 DEF CallAsync, Live
  <2>3. ASSUME NEW k \in Keys, Bind(t, k) PROVE KeysOwned'
    <3>1. \A u \in Threads : Live(u) => Live(u)'
      BY <2>3 DEF Bind, Live
    <3>2. CASE hash[k] = NoThread
      <4>1. \A u \in Threads : k \notin keys[u]
        BY <3>2, ThreadsAssumption DEF ThreadsAssumption, KeysOwned
      <4>2. /\ hash' = [hash EXCEPT ![k] = t]
            /\ keys' = [keys EXCEPT ![t] = keys[t] \cup {k}]
        BY <2>3, <3>2 DEF Bind
      <4>3. Live(t)'
        BY <2>3 DEF Bind, Live
      <4> QED BY <3>1, <4>1, <4>2, <4>3 DEF KeysOwned, TypeOK
    <3>3. CASE hash[k] # NoThread
      <4>1. UNCHANGED <<hash, keys>>
        BY <2>3, <3>3 DEF Bind
      <4> QED BY <1>2, <3>1, <4>1
    <3> QED BY <3>2, <3>3
  <2>4. CASE ThreadExit(t)
    BY <2>4, <1>2 DEF ThreadExit, Live, TypeOK
  <2> QED BY <1>4, <2>1, <2>2, <2>3, <2>4 DEF Code
<1>5. ASSUME NEW t \in Threads,
             \/ SpuriousWakeup(t)
             \/ \E i \in 1 .. Depth(t) : Reply(t, i)
             \/ \E c \in Calls : AsyncReply(t, c)
      PROVE  KeysOwned'
  <2>1. UNCHANGED <<hash, keys>>
    BY <1>5 DEF SpuriousWakeup, Reply, AsyncReply
  <2>2. \/ pc[t] = "asleep" /\ pc' = [pc EXCEPT ![t] = "check"]
        \/ pc' = signalled(t)
    BY <1>5 DEF SpuriousWakeup, Reply, AsyncReply
  <2>3. \A u \in Threads : Live(u) => Live(u)'
    BY <2>2 DEF signalled, Live, TypeOK
  <2> QED BY <1>2, <2>1, <2>3
<1>6. ASSUME NEW k \in Keys, giop_thread_key_release(k) PROVE KeysOwned'
  <2>1. \A u \in Threads : Live(u) => Live(u)'
    BY <1>6 DEF giop_thread_key_release, Live
  <2>2. hash[k] \in Threads
    BY <1>6 DEF giop_thread_key_release, TypeOK
  <2>3. \A u \in Threads : u # hash[k] => k \notin keys[u]
    BY <1>6 DEF KeysOwned
  <2>4. /\ keys' = [keys EXCEPT ![hash[k]] = keys[hash[k]] \ {k}]
        /\ hash' = [hash EXCEPT ![k] = NoThread]
    BY <1>6 DEF giop_thread_key_release
  <2> QED BY <2>1, <2>2, <2>3, <2>4, ThreadsAssumption
          DEF ThreadsAssumption, KeysOwned, TypeOK
<1>7. CASE MainStep \/ OtherSource
  BY <1>7, <1>2 DEF MainStep, EnterLoop, HandleInput, Drain, OtherSource, Live, TypeOK
<1> QED BY <1>1, <1>3, <1>4, <1>5, <1>6, <1>7 DEF Next, Replies

(* The hash and the GIOPThreads agree on who has which key, whoever takes  *)
(* up, releases or binds keys meanwhile: giop_thread_request_push_key      *)
(* never finds a GIOPThread that was freed.                                *)
THEOREM KeysAlwaysOwned == Spec => []KeysOwned
<1>1. Init => KeysOwned
  BY ThreadsAssumption DEF ThreadsAssumption, Init, KeysOwned
<1>2. KeysOwned /\ UNCHANGED vars => KeysOwned'
  BY DEF KeysOwned, Live, vars
<1>3. Typed /\ KeysOwned /\ [Next]_vars => KeysOwned'
  BY <1>2, NextKeys DEF Typed
<1> QED BY <1>1, <1>3, TypedInvariant, PTL DEF Spec

----------------------------------------------------------------------------
(* No step gives a sleeping thread anything without waking it.             *)
Undisturbed ==
  \A t \in Threads : pc'[t] = "asleep" =>
    /\ pc[t] = "asleep"
    /\ queue'[t] = queue[t] /\ async'[t] = async[t] /\ stack'[t] = stack[t]

LEMMA SameEmpty ==
  ASSUME NEW t \in Threads,
         queue'[t] = queue[t], async'[t] = async[t], stack'[t] = stack[t]
  PROVE  giop_thread_queue_empty(t)' = giop_thread_queue_empty(t)
<1>1. Policy(t)' = Policy(t)
  BY DEF Policy, Pushed, Depth
<1>2. Allowed(t)' = Allowed(t)
  BY <1>1 DEF Allowed
<1> QED BY <1>1, <1>2 DEF giop_thread_queue_empty

LEMMA UndisturbedSleep ==
  ASSUME NoLostWakeup, Undisturbed
  PROVE  NoLostWakeup'
<1> SUFFICES ASSUME NEW t \in Threads, pc'[t] = "asleep"
             PROVE  giop_thread_queue_empty(t)' /\ ~ check_got(Top(t)')
  BY DEF NoLostWakeup, check_got
<1>1. giop_thread_queue_empty(t)' = giop_thread_queue_empty(t)
  BY SameEmpty DEF Undisturbed
<1>2. Top(t)' = Top(t)
  BY DEF Undisturbed, Top, Depth
<1>3. giop_thread_queue_empty(t) /\ ~ check_got(Top(t))
  BY DEF NoLostWakeup, Undisturbed
<1> QED BY <1>1, <1>2, <1>3

LEMMA NextSleep ==
  ASSUME TypeOK, NoLostWakeup, Next
  PROVE  NoLostWakeup'
<1>1. ASSUME NEW r \in Requests, Push(r) PROVE NoLostWakeup'
  <2>1. CASE PushMain(r)
    BY <2>1, UndisturbedSleep
    DEF PushMain, giop_thread_request_push, signalled, Undisturbed, TypeOK
  <2>2. CASE PushOwned(r)
    BY <2>2, UndisturbedSleep
    DEF PushOwned, giop_thread_request_push, signalled, Undisturbed, TypeOK
  <2>3. ASSUME NEW t \in Pool, PushNew(r, t) PROVE NoLostWakeup'
    BY <2>3, UndisturbedSleep DEF PushNew, Undisturbed, TypeOK
  <2> QED BY <1>1, <2>1, <2>2, <2>3 DEF Push
<1>2. ASSUME NEW t \in Threads, KeepWaiting(t) PROVE NoLostWakeup'
  <2> SUFFICES ASSUME NEW u \in Threads, pc'[u] = "asleep"
               PROVE  giop_thread_queue_empty(u)' /\ ~ check_got(Top(u)')
    BY DEF NoLostWakeup, check_got
  <2>1. UNCHANGED <<queue, async, stack>>
    BY <1>2 DEF KeepWaiting
  <2>2. /\ giop_thread_queue_empty(u)' = giop_thread_queue_empty(u)
        /\ Top(u)' = Top(u)
    BY <2>1, SameEmpty DEF Top, Depth
  <2>3. giop_thread_queue_empty(u) /\ ~ check_got(Top(u))
    <3>1. CASE u = t
      <4>1. ~ check_got(Top(t))
        BY <1>2 DEF KeepWaiting
      <4>2. pc'[t] = IF giop_thread_queue_empty(t) THEN "asleep" ELSE "fetch"
        BY <1>2 DEF KeepWaiting, TypeOK
      <4> QED BY <3>1, <4>1, <4>2
    <3>2. CASE u # t
      <4>1. pc[u] = "asleep"
        BY <1>2, <3>2 DEF KeepWaiting, TypeOK
      <4> QED BY <4>1 DEF NoLostWakeup
    <3> QED BY <3>1, <3>2
  <2> QED BY <2>2, <2>3
<1>3. ASSUME NEW t \in Threads, ThreadStep(t), ~ KeepWaiting(t) PROVE NoLostWakeup'
  <2>1. CASE Begin(t) \/ Fetch(t) \/ Return(t)
    BY <2>1, UndisturbedSleep DEF Begin, Fetch, Return, Undisturbed, TypeOK
  <2>2. CASE PopStep(t)
    BY <2>2, UndisturbedSleep
    DEF PopStep, PopAsync, PopOldest, PopAllowed, run, Undisturbed, TypeOK
  <2>3. CASE Finish(t)
    <3>1. Resumed(t) # "asleep"
      BY DEF Resumed
    <3>2. /\ pc' = [pc EXCEPT ![t] = Resumed(t)] /\ UNCHANGED <<queue, async>>
          /\ \A u \in Threads : u # t => stack'[u] = stack[u]
      BY <2>3 DEF Finish, TypeOK
    <3> QED BY <3>1, <3>2, UndisturbedSleep DEF Undisturbed, TypeOK
  <2>4. CASE HandlerLoop(t) \/ giop_thread_free(t)
    BY <2>4, UndisturbedSleep DEF HandlerLoop, giop_thread_free, Undisturbed, TypeOK
  <2> QED BY <1>3, <2>1, <2>2, <2>3, <2>4 DEF ThreadStep
<1>4. ASSUME NEW t \in Threads, Code(t) PROVE NoLostWakeup'
  <2>1. ASSUME NEW p \in Policies \cup {NoPolicy},
               \/ CallRemote(t, p)
               \/ \E r \in Requests : CallCrossThread(t, r, p)
        PROVE  NoLostWakeup'
    BY <2>1, UndisturbedSleep
    DEF CallRemote, CallCrossThread, waiting, Undisturbed, TypeOK
  <2>2. CASE \/ \E c \in Calls : CallAsync(t, c)
             \/ \E k \in Keys : Bind(t, k)
    BY <2>2, UndisturbedSleep DEF CallAsync, Bind, Undisturbed
  <2>3. CASE ThreadExit(t)
    BY <2>3, UndisturbedSleep DEF ThreadExit, Undisturbed, TypeOK
  <2> QED BY <1>4, <2>1, <2>2, <2>3 DEF Code
<1>5. ASSUME NEW t \in Threads, NEW i \in 1 .. Depth(t), Reply(t, i) PROVE NoLostWakeup'
  <2>1. \A u \in Threads : u # t => stack'[u] = stack[u]
    BY <1>5 DEF Reply, TypeOK
  <2>2. pc' = signalled(t) /\ UNCHANGED <<queue, async>>
    BY <1>5 DEF Reply
  <2> QED BY <2>1, <2>2, UndisturbedSleep DEF signalled, Undisturbed, TypeOK
<1>6. ASSUME NEW t \in Threads, NEW c \in Calls, AsyncReply(t, c) PROVE NoLostWakeup'
  BY <1>6, UndisturbedSleep DEF AsyncReply, signalled, Undisturbed, TypeOK
<1>7. ASSUME NEW t \in Threads, SpuriousWakeup(t) PROVE NoLostWakeup'
  BY <1>7, UndisturbedSleep DEF SpuriousWakeup, Undisturbed, TypeOK
<1>8. ASSUME NEW k \in Keys, giop_thread_key_release(k) PROVE NoLostWakeup'
  BY <1>8, UndisturbedSleep DEF giop_thread_key_release, Undisturbed
<1>9. CASE MainStep \/ OtherSource
  <2>1. Main \in Threads
    BY DEF Threads
  <2> QED BY <1>9, <2>1, UndisturbedSleep
          DEF MainStep, EnterLoop, HandleInput, Drain, OtherSource, Undisturbed, TypeOK
<1> QED BY <1>1, <1>2, <1>3, <1>4, <1>5, <1>6, <1>7, <1>8, <1>9 DEF Next, Replies

(* No wakeup of the one condition a GIOPThread has is lost, whatever was   *)
(* pushed, answered or invoked from however deep a nesting of calls.       *)
THEOREM NoWakeupLost == Spec => []NoLostWakeup
<1>1. Init => NoLostWakeup
  <2> SUFFICES ASSUME Init, NEW t \in Threads PROVE pc[t] # "asleep"
    BY DEF NoLostWakeup
  <2> QED BY DEF Init
<1>2. NoLostWakeup /\ UNCHANGED vars => NoLostWakeup'
  <2> SUFFICES ASSUME NoLostWakeup, UNCHANGED vars PROVE NoLostWakeup'
    OBVIOUS
  <2> QED BY UndisturbedSleep DEF vars, Undisturbed
<1>3. Typed /\ NoLostWakeup /\ [Next]_vars => NoLostWakeup'
  BY <1>2, NextSleep DEF Typed
<1> QED BY <1>1, <1>3, TypedInvariant, PTL DEF Spec

-----------------------------------------------------------------------------
(***************************************************************************)
(* How the invocations of a thread nest, and what follows for its work.    *)
(***************************************************************************)
(***************************************************************************)
(* The invocations s that thread t is in: the first is the thread's own    *)
(* code unless the pool runs it, and each but the innermost waits, but for *)
(* the main thread's own code, which may be in its main loop.              *)
(***************************************************************************)
Shape(t, s) ==
  /\ t \notin Pool => s # <<>>
  /\ \A i \in 1 .. Len(s) :
       /\ s[i].item = Own <=> i = 1 /\ t \notin Pool
       /\ i < Len(s) => s[i].on # Nothing \/ (t = Main /\ i = 1)
       /\ s[i].on = Nothing => s[i].policy = NoPolicy

(* Where the thread may be in its code with these invocations.             *)
Placed(t, s, l) ==
  /\ l \in {"check", "asleep"} => s # <<>> /\ s[Len(s)].on # Nothing
  /\ l = "code" => s # <<>> /\ s[Len(s)].on = Nothing
  /\ l \in {"fetch", "pop"} =>
       \/ t \in Pool /\ s = <<>>
       \/ t = Main /\ Len(s) = 1
       \/ s # <<>> /\ s[Len(s)].on # Nothing
  /\ l \in {"none", "pooled", "loop"} => t \in Pool /\ s = <<>>
  /\ l \in {"free", "gone"} => (t \in Pool /\ s = <<>>) \/ (t \in Users /\ Len(s) = 1)
  /\ l \in {"poll", "drain"} => t = Main /\ Len(s) = 1 /\ s[1].on = Nothing

Good(t, s, l) == Shape(t, s) /\ Placed(t, s, l)

Nested == \A t \in Threads : Good(t, stack[t], pc[t])

LEMMA Distinct ==
  /\ Own \notin Requests \cup Calls /\ Remote \notin Requests \cup Calls
  /\ Nothing \notin Requests \cup Calls
  /\ Own # Remote /\ Own # Nothing /\ Remote # Nothing
  BY RequestsAssumption DEF RequestsAssumption, Own, Remote, Nothing

LEMMA RunGood ==
  ASSUME NEW t \in Threads, NEW s \in Seq(Frame), Good(t, s, "pop"),
         NEW i \in Requests \cup Calls
  PROVE  Good(t, Append(s, Running(i)), "code")
<1> DEFINE r == Running(i)
           a == Append(s, r)
<1>1. r \in Frame /\ r.item = i /\ r.on = Nothing /\ r.policy = NoPolicy
  BY DEF Running, Frame, Items
<1> HIDE DEF r
<1>2. /\ a # <<>> /\ Len(a) = Len(s) + 1 /\ a[Len(s) + 1] = r
      /\ \A j \in 1 .. Len(s) : a[j] = s[j]
  BY <1>1, AppendProperties
<1>3. Len(s) \in Nat /\ (t \notin Pool => Len(s) > 0)
  BY DEF Good, Shape
<1> HIDE DEF a
<1>4. ASSUME NEW j \in 1 .. Len(a)
      PROVE  /\ a[j].item = Own <=> j = 1 /\ t \notin Pool
             /\ j < Len(a) => a[j].on # Nothing \/ (t = Main /\ j = 1)
             /\ a[j].on = Nothing => a[j].policy = NoPolicy
  <2>1. CASE j = Len(s) + 1
    BY <1>1, <1>2, <1>3, <2>1, Distinct
  <2>2. CASE j < Len(s)
    BY <1>2, <1>3, <2>2 DEF Good, Shape
  <2>3. CASE j = Len(s)
    <3>1. /\ j \in 1 .. Len(s) /\ a[j] = s[j]
          /\ s[j].on # Nothing \/ (t = Main /\ Len(s) = 1)
      BY <1>2, <1>3, <2>3 DEF Good, Placed
    <3> QED BY <3>1, <2>3 DEF Good, Shape
  <2> QED BY <1>2, <1>3, <2>1, <2>2, <2>3
<1> QED BY <1>1, <1>2, <1>3, <1>4 DEF Good, Shape, Placed, a, r

(* The innermost invocation changes what it waits for.                     *)
LEMMA TopGood ==
  ASSUME NEW t \in Threads, NEW s \in Seq(Frame), NEW l, Good(t, s, l), s # <<>>,
         NEW f \in Frame, f.item = s[Len(s)].item,
         f.on = Nothing => f.policy = NoPolicy,
         NEW m \in {"code", "check"}, m = "code" <=> f.on = Nothing
  PROVE  Good(t, [s EXCEPT ![Len(s)] = f], m)
<1> DEFINE a == [s EXCEPT ![Len(s)] = f]
<1>1. Len(s) \in 1 .. Len(s)
  BY EmptySeq
<1>2. /\ Len(a) = Len(s) /\ a # <<>>
      /\ \A j \in 1 .. Len(s) : a[j] = IF j = Len(s) THEN f ELSE s[j]
  BY <1>1, ExceptSeq
<1> HIDE DEF a
<1>3. Shape(t, a)
  BY <1>1, <1>2 DEF Good, Shape
<1>4. Placed(t, a, m)
  BY <1>1, <1>2 DEF Placed
<1> QED BY <1>3, <1>4 DEF Good, a

LEMMA ReplyGood ==
  ASSUME NEW t \in Threads, NEW s \in Seq(Frame), NEW l, Good(t, s, l),
         NEW i \in 1 .. Len(s)
  PROVE  Good(t, [s EXCEPT ![i] = [s[i] EXCEPT !.got = TRUE]],
              IF l = "asleep" THEN "check" ELSE l)
<1> DEFINE f == [s[i] EXCEPT !.got = TRUE]
           a == [s EXCEPT ![i] = f]
<1>1. s[i] \in Frame /\ Len(s) \in Nat
  OBVIOUS
<1>2. f \in Frame /\ f.item = s[i].item /\ f.on = s[i].on /\ f.policy = s[i].policy
  BY <1>1 DEF Frame
<1> HIDE DEF f
<1>3. /\ Len(a) = Len(s) /\ a # <<>> /\ s # <<>>
      /\ \A j \in 1 .. Len(s) : a[j] = IF j = i THEN f ELSE s[j]
  BY <1>1, <1>2, ExceptSeq
<1> HIDE DEF a
<1>4. \A j \in 1 .. Len(s) :
        a[j].item = s[j].item /\ a[j].on = s[j].on /\ a[j].policy = s[j].policy
  BY <1>2, <1>3
<1>5. Shape(t, a)
  BY <1>1, <1>3, <1>4 DEF Good, Shape
<1>6. Len(s) \in 1 .. Len(s) /\ 1 \in 1 .. Len(s)
  BY <1>1
<1>7. Placed(t, a, IF l = "asleep" THEN "check" ELSE l)
  <2>1. CASE l = "asleep"
    BY <1>3, <1>4, <1>6, <2>1 DEF Good, Placed
  <2>2. CASE l # "asleep"
    BY <1>3, <1>4, <1>6, <2>2 DEF Good, Placed
  <2> QED BY <2>1, <2>2
<1> QED BY <1>5, <1>7 DEF Good, a, f

(* Where a thread goes on when its innermost invocation ends.              *)
ResumedAt(t, s) ==
  IF Len(s) > 1 /\ s[Len(s) - 1].on # Nothing THEN "check"
  ELSE IF t = Main THEN "drain" ELSE "loop"

LEMMA FinishGood ==
  ASSUME NEW t \in Threads, NEW s \in Seq(Frame), Good(t, s, "code"),
         s[Len(s)].item # Own
  PROVE  Good(t, SubSeq(s, 1, Len(s) - 1), ResumedAt(t, s))
<1> DEFINE a == SubSeq(s, 1, Len(s) - 1)
<1>1. Len(s) \in Nat /\ Len(s) > 0
  BY EmptySeq DEF Good, Placed
<1>2. /\ a \in Seq(Frame) /\ Len(a) = Len(s) - 1
      /\ \A j \in 1 .. Len(s) - 1 : a[j] = s[j]
  <2> DEFINE n == Len(s) - 1
  <2>1. n \in Nat /\ \A j \in 1 .. n : s[j] \in Frame
    BY <1>1
  <2> HIDE DEF n
  <2>2. /\ SubSeq(s, 1, n) \in Seq(Frame) /\ Len(SubSeq(s, 1, n)) = n
        /\ \A j \in 1 .. n : SubSeq(s, 1, n)[j] = s[j]
    BY <2>1, SubSeqProperties
  <2> QED BY <2>2 DEF n
<1> HIDE DEF a
<1>3. t \notin Pool => Len(s) > 1
  BY <1>1 DEF Good, Shape
<1>4. Shape(t, a)
  <2>1. t \notin Pool => a # <<>>
    BY <1>1, <1>2, <1>3
  <2> QED BY <1>1, <1>2, <2>1 DEF Good, Shape
<1>5. CASE Len(s) > 1 /\ s[Len(s) - 1].on # Nothing
  <2>1. a # <<>> /\ a[Len(a)] = s[Len(s) - 1]
    BY <1>1, <1>2, <1>5
  <2> QED BY <1>4, <1>5, <2>1 DEF Good, Placed, ResumedAt, a
<1>6. CASE ~ (Len(s) > 1 /\ s[Len(s) - 1].on # Nothing)
  <2>1. Len(s) > 1 => t = Main /\ Len(s) = 2 /\ s[1].on = Nothing
    <3> SUFFICES ASSUME Len(s) > 1 PROVE t = Main /\ Len(s) = 2 /\ s[1].on = Nothing
      OBVIOUS
    <3> DEFINE n == Len(s) - 1
    <3>1. n \in 1 .. Len(s) /\ n < Len(s) /\ s[n].on = Nothing
      BY <1>1, <1>6
    <3>2. t = Main /\ n = 1
      <4> HIDE DEF n
      <4> QED BY <3>1 DEF Good, Shape
    <3>3. Len(s) = 2
      BY <1>1, <3>2
    <3> QED BY <3>1, <3>2, <3>3
  <2>2. CASE Len(s) = 1
    <3>1. t \in Pool /\ a = <<>> /\ t # Main
      BY <1>2, <1>3, <2>2, EmptySeq, ThreadsAssumption DEF ThreadsAssumption
    <3> QED BY <1>4, <1>6, <2>2, <3>1 DEF Good, Placed, ResumedAt, a
  <2>3. CASE Len(s) > 1
    <3>1. t = Main /\ Len(a) = 1 /\ a[1].on = Nothing
      BY <1>2, <2>1, <2>3
    <3> QED BY <1>4, <1>6, <3>1 DEF Good, Placed, ResumedAt, a
  <2>4. Len(s) = 1 \/ Len(s) > 1
    <3> DEFINE n == Len(s)
    <3>1. n \in Nat /\ n > 0
      BY <1>1
    <3> HIDE DEF n
    <3>2. n = 1 \/ n > 1
      BY <3>1
    <3> QED BY <3>2 DEF n
  <2> QED BY <2>2, <2>3, <2>4
<1> QED BY <1>5, <1>6

(* A step of thread t that moves it, or another thread that it wakes.      *)
LEMMA OthersGood ==
  ASSUME Nested, NEW t \in Threads, Good(t, stack'[t], pc'[t]),
         \A u \in Threads : u # t =>
           /\ stack'[u] = stack[u]
           /\ pc'[u] = pc[u] \/ (pc[u] = "asleep" /\ pc'[u] = "check")
  PROVE  Nested'
<1> SUFFICES ASSUME NEW u \in Threads, u # t PROVE Good(u, stack'[u], pc'[u])
  BY DEF Nested
<1>1. Good(u, stack[u], pc[u])
  BY DEF Nested
<1> QED BY <1>1 DEF Good, Placed

(* A step that only moves threads.                                         *)
LEMMA MovesGood ==
  ASSUME Nested, UNCHANGED stack,
         \A u \in Threads :
           \/ pc'[u] = pc[u] \/ (pc[u] = "asleep" /\ pc'[u] = "check")
           \/ Placed(u, stack[u], pc'[u])
  PROVE  Nested'
<1> SUFFICES ASSUME NEW u \in Threads PROVE Good(u, stack'[u], pc'[u])
  BY DEF Nested
<1>1. Good(u, stack[u], pc[u]) /\ stack'[u] = stack[u]
  BY DEF Nested
<1>2. CASE pc'[u] = pc[u]
  BY <1>1, <1>2
<1>3. CASE pc[u] = "asleep" /\ pc'[u] = "check"
  BY <1>1, <1>3 DEF Good, Placed
<1>4. CASE Placed(u, stack[u], pc'[u])
  BY <1>1, <1>4 DEF Good
<1> QED BY <1>2, <1>3, <1>4

LEMMA InitNested == Init => Nested
<1> SUFFICES ASSUME Init, NEW t \in Threads PROVE Good(t, stack[t], pc[t])
  BY DEF Nested
<1>1. CASE t \in Pool
  <2>1. stack[t] = <<>> /\ pc[t] = "none"
    BY <1>1 DEF Init
  <2> QED BY <1>1, <2>1 DEF Good, Shape, Placed
<1>2. CASE t \notin Pool
  <2>1. stack[t] = <<Running(Own)>> /\ pc[t] = "code"
    BY <1>2 DEF Init
  <2>2. Len(stack[t]) = 1 /\ stack[t] # <<>> /\ stack[t][1] = Running(Own)
    BY <2>1
  <2>3. Running(Own).item = Own /\ Running(Own).on = Nothing /\ Running(Own).policy = NoPolicy
    BY DEF Running
  <2> QED BY <1>2, <2>1, <2>2, <2>3 DEF Good, Shape, Placed
<1> QED BY <1>1, <1>2

LEMMA PushNested ==
  ASSUME Typed, Nested, NEW r \in Requests, Push(r)
  PROVE  Nested'
<1>1. CASE PushMain(r)
  BY <1>1, MovesGood DEF PushMain, signalled, Typed, TypeOK
<1>2. CASE PushOwned(r)
  BY <1>2, MovesGood DEF PushOwned, signalled, Typed, TypeOK
<1>3. ASSUME NEW t \in Pool, PushNew(r, t) PROVE Nested'
  <2>1. t \in Threads /\ t \notin Users
    BY ThreadsAssumption DEF ThreadsAssumption, Threads
  <2>2. pc[t] \in {"none", "gone"} /\ stack[t] = <<>>
    BY <1>3, <2>1 DEF PushNew, Live, Nested, Good, Placed
  <2>3. Placed(t, stack[t], "pooled")
    BY <2>2 DEF Placed
  <2>4. UNCHANGED stack /\ pc' = [pc EXCEPT ![t] = "pooled"]
    BY <1>3 DEF PushNew
  <2> QED BY <2>3, <2>4, MovesGood DEF Typed, TypeOK
<1> QED BY <1>1, <1>2, <1>3 DEF Push

LEMMA CodeNested ==
  ASSUME Typed, Nested, NEW t \in Threads, Code(t)
  PROVE  Nested'
<1>1. Good(t, stack[t], pc[t]) /\ stack[t] \in Seq(Frame)
  BY DEF Nested, Typed, TypeOK
<1>2. ASSUME NEW on \in Requests \cup {Remote}, NEW p \in Policies \cup {NoPolicy},
             waiting(t, on, p)
      PROVE  Nested'
  <2> DEFINE d == Len(stack[t])
             f == [stack[t][d] EXCEPT !.on = on, !.got = FALSE, !.policy = p]
  <2>1. stack[t] # <<>>
    BY <1>1, <1>2 DEF waiting, Good, Placed
  <2>2. stack[t][d] \in Frame
    BY <2>1, TopType DEF Typed, Top, Depth
  <2>3. f \in Frame /\ f.item = stack[t][d].item /\ f.on = on /\ f.on # Nothing
    BY <2>2, Distinct DEF Frame
  <2>4. stack' = [stack EXCEPT ![t] = [stack[t] EXCEPT ![d] = f]]
    BY <1>2 DEF waiting, Typed, TypeOK, Depth
  <2>5. pc' = [pc EXCEPT ![t] = "check"]
    BY <1>2 DEF waiting
  <2> HIDE DEF f
  <2>6. Good(t, [stack[t] EXCEPT ![d] = f], "check")
    BY <1>1, <2>1, <2>3, TopGood
  <2>7. stack'[t] = [stack[t] EXCEPT ![d] = f] /\ pc'[t] = "check"
    BY <2>4, <2>5 DEF Typed, TypeOK
  <2>8. \A u \in Threads : u # t => stack'[u] = stack[u] /\ pc'[u] = pc[u]
    BY <2>4, <2>5 DEF Typed, TypeOK
  <2> QED BY <2>6, <2>7, <2>8, OthersGood
<1>3. ASSUME NEW p \in Policies \cup {NoPolicy},
             \/ CallRemote(t, p)
             \/ \E r \in Requests : CallCrossThread(t, r, p)
      PROVE  Nested'
  BY <1>2, <1>3 DEF CallRemote, CallCrossThread
<1>4. ASSUME NEW c \in Calls, CallAsync(t, c) PROVE Nested'
  BY <1>4, MovesGood DEF CallAsync
<1>5. ASSUME NEW k \in Keys, Bind(t, k) PROVE Nested'
  BY <1>5, MovesGood DEF Bind
<1>6. CASE ThreadExit(t)
  <2>1. Placed(t, stack[t], "free")
    BY <1>6 DEF ThreadExit, Placed, Depth
  <2>2. UNCHANGED stack /\ pc' = [pc EXCEPT ![t] = "free"]
    BY <1>6 DEF ThreadExit
  <2> QED BY <2>1, <2>2, MovesGood DEF Typed, TypeOK
<1> QED BY <1>3, <1>4, <1>5, <1>6 DEF Code

LEMMA ThreadNested ==
  ASSUME Typed, Nested, NEW t \in Threads, ThreadStep(t)
  PROVE  Nested'
<1>1. Good(t, stack[t], pc[t]) /\ stack[t] \in Seq(Frame)
  BY DEF Nested, Typed, TypeOK
<1>2. ASSUME NEW l, Placed(t, stack[t], l), UNCHANGED stack, pc' = [pc EXCEPT ![t] = l]
      PROVE  Nested'
  BY <1>2, MovesGood DEF Typed, TypeOK
<1>3. CASE Begin(t)
  <2>1. Placed(t, stack[t], "fetch")
    BY <1>1, <1>3 DEF Begin, Good, Placed
  <2> QED BY <1>2, <1>3, <2>1 DEF Begin
<1>4. CASE Fetch(t)
  <2>1. Placed(t, stack[t], "pop")
    BY <1>1, <1>4 DEF Fetch, Good, Placed
  <2> QED BY <1>2, <1>4, <2>1 DEF Fetch
<1>5. ASSUME NEW i \in Requests \cup Calls, pc[t] = "pop", run(t, i) PROVE Nested'
  <2>1. /\ stack'[t] = Append(stack[t], Running(i)) /\ pc'[t] = "code"
        /\ \A u \in Threads : u # t => stack'[u] = stack[u] /\ pc'[u] = pc[u]
    BY <1>5 DEF run, Typed, TypeOK
  <2>2. Good(t, Append(stack[t], Running(i)), "code")
    BY <1>1, <1>5, RunGood
  <2> QED BY <2>1, <2>2, OthersGood
<1>6. CASE PopAsync(t)
  <2>1. Head(async[t]) \in Calls
    BY <1>6 DEF PopAsync, Typed, TypeOK
  <2> QED BY <1>5, <1>6, <2>1 DEF PopAsync
<1>7. CASE PopOldest(t)
  <2>1. Head(queue[t]) \in Requests
    BY <1>7 DEF PopOldest, Typed, TypeOK
  <2> QED BY <1>5, <1>7, <2>1 DEF PopOldest
<1>8. CASE PopAllowed(t)
  <2>1. valid[t] \in Requests
    BY <1>8 DEF PopAllowed, Typed, TypeOK
  <2> QED BY <1>5, <1>8, <2>1 DEF PopAllowed
<1>9. CASE KeepWaiting(t)
  <2>1. Placed(t, stack[t], "asleep") /\ Placed(t, stack[t], "fetch")
    BY <1>1, <1>9 DEF KeepWaiting, Good, Placed
  <2>2. CASE giop_thread_queue_empty(t)
    BY <1>2, <1>9, <2>1, <2>2 DEF KeepWaiting
  <2>3. CASE ~ giop_thread_queue_empty(t)
    BY <1>2, <1>9, <2>1, <2>3 DEF KeepWaiting
  <2> QED BY <2>2, <2>3
<1>10. CASE Return(t)
  <2> DEFINE f == Running(Top(t).item)
  <2>1. stack[t] # <<>> /\ Top(t) = stack[t][Len(stack[t])]
    BY <1>1, <1>10 DEF Return, Good, Placed, Top, Depth
  <2>2. f \in Frame /\ f.item = stack[t][Len(stack[t])].item
        /\ f.on = Nothing /\ f.policy = NoPolicy
    BY <2>1, TopType DEF Typed, Frame, Running
  <2>3. /\ stack' = [stack EXCEPT ![t] = [stack[t] EXCEPT ![Len(stack[t])] = f]]
        /\ pc' = [pc EXCEPT ![t] = "code"]
    BY <1>10 DEF Return, Depth, Typed, TypeOK
  <2> HIDE DEF f
  <2>4. Good(t, [stack[t] EXCEPT ![Len(stack[t])] = f], "code")
    BY <1>1, <2>1, <2>2, TopGood
  <2>5. /\ stack'[t] = [stack[t] EXCEPT ![Len(stack[t])] = f] /\ pc'[t] = "code"
        /\ \A u \in Threads : u # t => stack'[u] = stack[u] /\ pc'[u] = pc[u]
    BY <2>3 DEF Typed, TypeOK
  <2> QED BY <2>4, <2>5, OthersGood
<1>11. CASE Finish(t)
  <2>1. /\ stack[t][Len(stack[t])].item # Own
        /\ Resumed(t) = ResumedAt(t, stack[t])
    BY <1>11 DEF Finish, Top, Depth, Resumed, ResumedAt
  <2>2. Good(t, SubSeq(stack[t], 1, Len(stack[t]) - 1), Resumed(t))
    BY <1>1, <1>11, <2>1, FinishGood DEF Finish
  <2>3. /\ stack'[t] = SubSeq(stack[t], 1, Len(stack[t]) - 1) /\ pc'[t] = Resumed(t)
        /\ \A u \in Threads : u # t => stack'[u] = stack[u] /\ pc'[u] = pc[u]
    BY <1>11 DEF Finish, Depth, Typed, TypeOK
  <2> QED BY <2>2, <2>3, OthersGood
<1>12. CASE HandlerLoop(t)
  <2>1. Placed(t, stack[t], "free") /\ Placed(t, stack[t], "fetch")
    BY <1>1, <1>12 DEF HandlerLoop, Good, Placed
  <2>2. CASE giop_thread_queue_empty(t)
    BY <1>2, <1>12, <2>1, <2>2 DEF HandlerLoop
  <2>3. CASE ~ giop_thread_queue_empty(t)
    BY <1>2, <1>12, <2>1, <2>3 DEF HandlerLoop
  <2> QED BY <2>2, <2>3
<1>13. CASE giop_thread_free(t)
  <2>1. Placed(t, stack[t], "gone")
    BY <1>1, <1>13 DEF giop_thread_free, Good, Placed
  <2> QED BY <1>2, <1>13, <2>1 DEF giop_thread_free
<1> QED BY <1>3, <1>4, <1>6, <1>7, <1>8, <1>9, <1>10, <1>11, <1>12, <1>13
        DEF ThreadStep, PopStep

LEMMA MainNested ==
  ASSUME Typed, Nested, MainStep \/ OtherSource
  PROVE  Nested'
<1>1. Main \in Threads /\ Main \notin Pool
  BY ThreadsAssumption DEF ThreadsAssumption, Threads
<1>2. Good(Main, stack[Main], pc[Main]) /\ stack[Main] \in Seq(Frame) /\ stack[Main] # <<>>
  BY <1>1 DEF Nested, Typed, TypeOK, Framed
<1>3. ASSUME NEW l, Placed(Main, stack[Main], l), UNCHANGED stack,
             pc' = [pc EXCEPT ![Main] = l]
      PROVE  Nested'
  BY <1>1, <1>3, MovesGood DEF Typed, TypeOK
<1>4. CASE EnterLoop
  <2>1. Len(stack[Main]) \in 1 .. Len(stack[Main])
    BY <1>2, EmptySeq
  <2>2. Len(stack[Main]) = 1
    BY <1>2, <1>4, <2>1 DEF EnterLoop, Good, Shape, Top, Depth
  <2>3. Placed(Main, stack[Main], "poll")
    BY <1>2, <1>4, <2>2 DEF EnterLoop, Good, Placed
  <2> QED BY <1>3, <1>4, <2>3 DEF EnterLoop
<1>5. CASE OtherSource
  <2>1. Placed(Main, stack[Main], "code")
    BY <1>2, <1>5 DEF OtherSource, Good, Placed
  <2> QED BY <1>3, <1>5, <2>1 DEF OtherSource
<1>6. CASE HandleInput
  <2>1. Placed(Main, stack[Main], "drain")
    BY <1>2, <1>6 DEF HandleInput, Good, Placed
  <2> QED BY <1>3, <1>6, <2>1 DEF HandleInput
<1>7. CASE Drain
  <2>1. Placed(Main, stack[Main], "poll") /\ Placed(Main, stack[Main], "fetch")
    BY <1>2, <1>7 DEF Drain, Good, Placed
  <2>2. CASE giop_thread_queue_empty(Main)
    BY <1>3, <1>7, <2>1, <2>2 DEF Drain
  <2>3. CASE ~ giop_thread_queue_empty(Main)
    BY <1>3, <1>7, <2>1, <2>3 DEF Drain
  <2> QED BY <2>2, <2>3
<1> QED BY <1>4, <1>5, <1>6, <1>7 DEF MainStep

LEMMA NextNested ==
  ASSUME Typed, Nested, Next
  PROVE  Nested'
<1>1. ASSUME NEW t \in Threads, SpuriousWakeup(t) PROVE Nested'
  BY <1>1, MovesGood DEF SpuriousWakeup, Typed, TypeOK
<1>2. ASSUME NEW t \in Threads, NEW i \in 1 .. Depth(t), Reply(t, i) PROVE Nested'
  <2> DEFINE f == [stack[t][i] EXCEPT !.got = TRUE]
  <2>1. Good(t, stack[t], pc[t]) /\ stack[t] \in Seq(Frame) /\ i \in 1 .. Len(stack[t])
    BY DEF Nested, Typed, TypeOK, Depth
  <2>2. /\ stack' = [stack EXCEPT ![t] = [stack[t] EXCEPT ![i] = f]]
        /\ pc' = signalled(t)
    BY <1>2 DEF Reply, Typed, TypeOK
  <2>3. Good(t, [stack[t] EXCEPT ![i] = f], IF pc[t] = "asleep" THEN "check" ELSE pc[t])
    BY <2>1, ReplyGood
  <2> HIDE DEF f
  <2>4. /\ stack'[t] = [stack[t] EXCEPT ![i] = f]
        /\ pc'[t] = IF pc[t] = "asleep" THEN "check" ELSE pc[t]
        /\ \A u \in Threads : u # t => stack'[u] = stack[u] /\ pc'[u] = pc[u]
    BY <2>2 DEF signalled, Typed, TypeOK
  <2> QED BY <2>3, <2>4, OthersGood
<1>3. ASSUME NEW t \in Threads, NEW c \in Calls, AsyncReply(t, c) PROVE Nested'
  BY <1>3, MovesGood DEF AsyncReply, signalled, Typed, TypeOK
<1>4. ASSUME NEW k \in Keys, giop_thread_key_release(k) PROVE Nested'
  BY <1>4, MovesGood DEF giop_thread_key_release
<1> QED BY <1>1, <1>2, <1>3, <1>4, PushNested, ThreadNested, CodeNested, MainNested
        DEF Next, Replies

LEMMA NestedInvariant == Spec => []Nested
<1>1. Nested /\ UNCHANGED vars => Nested'
  BY DEF Nested, vars
<1>2. Typed /\ Nested /\ [Next]_vars => Nested'
  BY <1>1, NextNested
<1> QED BY <1>2, InitNested, TypedInvariant, PTL DEF Spec

-----------------------------------------------------------------------------
LEMMA AlonePolicy ==
  ASSUME NEW t \in Threads,
         stack[t] = <<>> \/ (Len(stack[t]) = 1 /\ stack[t][1].policy = NoPolicy)
  PROVE  Policy(t) = NoPolicy
<1>1. Pushed(t) = {}
  BY EmptySeq DEF Pushed, Depth
<1> QED BY <1>1 DEF Policy

(* A thread that does not wait in a call has pushed no policy.             *)
LEMMA OuterPolicy ==
  ASSUME Nested, NEW t \in Threads, pc[t] \in {"pooled", "loop", "drain"}
  PROVE  Policy(t) = NoPolicy
<1>1. Good(t, stack[t], pc[t])
  BY DEF Nested
<1>2. CASE stack[t] = <<>>
  BY <1>2, AlonePolicy
<1>3. CASE Len(stack[t]) = 1 /\ stack[t][1].on = Nothing
  BY <1>1, <1>3, AlonePolicy DEF Good, Shape
<1> QED BY <1>1, <1>2, <1>3 DEF Good, Placed

LEMMA LastPushed ==
  ASSUME TypeOK, NEW t \in Threads, Pushed(t) # {}
  PROVE  \E i \in Pushed(t) : \A j \in Pushed(t) : j <= i
<1> DEFINE n == Len(stack[t])
           S == {m \in Nat : \E i \in Pushed(t) : m = n - i}
<1>1. n \in Nat /\ Pushed(t) \subseteq 1 .. n
  BY DEF TypeOK, Pushed, Depth
<1> HIDE DEF n
<1>2. PICK i \in Pushed(t) : TRUE
  OBVIOUS
<1>3. n - i \in S
  BY <1>1, <1>2
<1>4. S \in SUBSET Nat /\ S # {}
  BY <1>3
<1>5. PICK m \in S : \A l \in S : m <= l
  <2> HIDE DEF S
  <2> QED BY <1>4, LeastNumber
<1>6. PICK h \in Pushed(t) : m = n - h
  BY <1>5
<1>7. ASSUME NEW j \in Pushed(t) PROVE j <= h
  <2>1. n - j \in S
    BY <1>1
  <2>2. n - h <= n - j
    BY <1>5, <1>6, <2>1
  <2> QED BY <1>1, <1>6, <2>2
<1> QED BY <1>7

LEMMA SamePolicy ==
  ASSUME TypeOK, NEW t \in Threads, Len(stack'[t]) = Len(stack[t]),
         \A i \in 1 .. Len(stack[t]) : stack'[t][i].policy = stack[t][i].policy
  PROVE  Policy(t)' = Policy(t)
<1>1. Pushed(t)' = Pushed(t)
  BY DEF Pushed, Depth
<1>2. CASE Pushed(t) = {}
  BY <1>1, <1>2 DEF Policy
<1>3. CASE Pushed(t) # {}
  <2> DEFINE c == CHOOSE i \in Pushed(t) : \A j \in Pushed(t) : j <= i
  <2>1. c \in Pushed(t)
    BY <1>3, LastPushed
  <2>2. Policy(t) = stack[t][c].policy
    BY <1>3 DEF Policy
  <2>3. Policy(t)' = stack'[t][c].policy
    BY <1>1, <1>3 DEF Policy
  <2> HIDE DEF c
  <2>4. stack'[t][c].policy = stack[t][c].policy
    BY <2>1 DEF Pushed, Depth
  <2> QED BY <2>2, <2>3, <2>4
<1> QED BY <1>2, <1>3

(***************************************************************************)
(* A thread that is on its way to take work has work, and more may come.   *)
(***************************************************************************)
BusyAt(t) ==
  /\ pc[t] \in {"fetch", "pop"} => ~ giop_thread_queue_empty(t)
  /\ pc[t] = "pooled" => queue[t] # <<>>
  /\ pc[t] = "pop" /\ Policy(t) # NoPolicy => valid[t] # NoRequest

Busy == \A t \in Threads : BusyAt(t)

MoreAt(t) ==
  pc'[t] \in {"fetch", "pop", "pooled"} =>
    /\ pc'[t] = pc[t] /\ valid'[t] = valid[t]
    /\ queue'[t] = queue[t] \/ \E r \in Requests : queue'[t] = Append(queue[t], r)
    /\ async'[t] = async[t] \/ \E c \in Calls : async'[t] = <<c>> \o async[t]
    /\ Policy(t)' = Policy(t)

LEMMA MoreIsBusy ==
  ASSUME TypeOK, NEW t \in Threads, BusyAt(t), MoreAt(t)
  PROVE  BusyAt(t)'
<1> SUFFICES ASSUME pc'[t] \in {"fetch", "pop", "pooled"} PROVE BusyAt(t)'
  BY DEF BusyAt
<1>1. /\ pc'[t] = pc[t] /\ valid'[t] = valid[t] /\ Policy(t)' = Policy(t)
      /\ queue'[t] = queue[t] \/ \E r \in Requests : queue'[t] = Append(queue[t], r)
      /\ async'[t] = async[t] \/ \E c \in Calls : async'[t] = <<c>> \o async[t]
  BY DEF MoreAt
<1>2. queue[t] \in Seq(Requests) /\ async[t] \in Seq(Calls)
  BY DEF TypeOK
<1>3. /\ Len(queue[t]) \in Nat /\ Len(queue'[t]) \in Nat
      /\ Len(queue[t]) <= Len(queue'[t])
      /\ \A i \in 1 .. Len(queue[t]) : queue'[t][i] = queue[t][i]
  <2>1. CASE queue'[t] = queue[t]
    BY <1>2, <2>1
  <2>2. ASSUME NEW r \in Requests, queue'[t] = Append(queue[t], r)
        PROVE  /\ Len(queue[t]) \in Nat /\ Len(queue'[t]) = Len(queue[t]) + 1
               /\ \A i \in 1 .. Len(queue[t]) : queue'[t][i] = queue[t][i]
    BY <1>2, <2>2, AppendProperties
  <2> QED BY <1>1, <2>1, <2>2
<1>4. queue[t] # <<>> => queue'[t] # <<>>
  BY <1>2, <1>3, <1>1, AppendProperties
<1>5. async[t] # <<>> => async'[t] # <<>>
  <2>1. ASSUME NEW c \in Calls, async'[t] = <<c>> \o async[t] PROVE async'[t] # <<>>
    <3>1. <<c>> \in Seq(Calls) /\ Len(<<c>>) = 1
      OBVIOUS
    <3>2. Len(async'[t]) = 1 + Len(async[t]) /\ Len(async[t]) \in Nat
      BY <1>2, <2>1, <3>1, ConcatProperties
    <3> QED BY <3>2
  <2> QED BY <1>1, <2>1
<1>6. Allowed(t) \subseteq Allowed(t)'
  BY <1>1, <1>3 DEF Allowed
<1>7. ~ giop_thread_queue_empty(t) => ~ giop_thread_queue_empty(t)'
  BY <1>1, <1>4, <1>5, <1>6 DEF giop_thread_queue_empty
<1> QED BY <1>1, <1>4, <1>7 DEF BusyAt

LEMMA SameStackMore ==
  ASSUME TypeOK, NEW t \in Threads, stack'[t] = stack[t],
         pc'[t] \in {"fetch", "pop", "pooled"} =>
           /\ pc'[t] = pc[t] /\ valid'[t] = valid[t]
           /\ queue'[t] = queue[t] \/ \E r \in Requests : queue'[t] = Append(queue[t], r)
           /\ async'[t] = async[t] \/ \E c \in Calls : async'[t] = <<c>> \o async[t]
  PROVE  MoreAt(t)
<1>1. Policy(t)' = Policy(t)
  BY SamePolicy
<1> QED BY <1>1 DEF MoreAt

LEMMA ElsewhereBusy ==
  ASSUME TypeOK, Busy, NEW t \in Threads, BusyAt(t)',
         \A u \in Threads : u # t => /\ pc'[u] = pc[u] /\ valid'[u] = valid[u]
                                     /\ queue'[u] = queue[u] /\ async'[u] = async[u]
                                     /\ stack'[u] = stack[u]
  PROVE  Busy'
<1> SUFFICES ASSUME NEW u \in Threads, u # t PROVE BusyAt(u)'
  BY DEF Busy
<1>1. MoreAt(u)
  BY SameStackMore
<1> QED BY <1>1, MoreIsBusy DEF Busy

LEMMA MoreBusy ==
  ASSUME TypeOK, Busy, \A t \in Threads : MoreAt(t)
  PROVE  Busy'
  BY MoreIsBusy DEF Busy

LEMMA PushBusy ==
  ASSUME Typed, Busy, NEW r \in Requests, Push(r)
  PROVE  Busy'
<1> USE DEF Typed
<1>1. CASE PushMain(r) \/ PushOwned(r)
  <2>1. PICK o \in Threads : giop_thread_request_push(o, r) /\ pc' = signalled(o)
    BY <1>1 DEF PushMain, PushOwned, Threads, TypeOK
  <2>2. UNCHANGED <<async, valid, stack>>
    BY <1>1 DEF PushMain, PushOwned
  <2>3. ASSUME NEW t \in Threads
        PROVE  queue'[t] = queue[t] \/ queue'[t] = Append(queue[t], r)
    BY <2>1 DEF giop_thread_request_push, TypeOK
  <2>4. ASSUME NEW t \in Threads, pc'[t] \in {"fetch", "pop", "pooled"} PROVE pc'[t] = pc[t]
    BY <2>1, <2>4 DEF signalled, TypeOK
  <2>5. \A t \in Threads : MoreAt(t)
    BY <2>2, <2>3, <2>4, SameStackMore
  <2> QED BY <2>5, MoreBusy
<1>2. ASSUME NEW t \in Pool, PushNew(r, t) PROVE Busy'
  <2>1. t \in Threads
    BY DEF Threads
  <2>2. pc'[t] = "pooled" /\ queue'[t] = <<r>>
    BY <1>2, <2>1 DEF PushNew, TypeOK
  <2>3. BusyAt(t)'
    BY <2>2 DEF BusyAt
  <2>4. \A u \in Threads : u # t => /\ pc'[u] = pc[u] /\ valid'[u] = valid[u]
                                    /\ queue'[u] = queue[u] /\ async'[u] = async[u]
                                    /\ stack'[u] = stack[u]
    BY <1>2, <2>1 DEF PushNew, TypeOK
  <2> QED BY <2>1, <2>3, <2>4, ElsewhereBusy
<1> QED BY <1>1, <1>2 DEF Push

LEMMA ThreadBusy ==
  ASSUME Typed, Nested, Busy, NEW t \in Threads, ThreadStep(t)
  PROVE  Busy'
<1> USE DEF Typed
<1>1. \A u \in Threads : u # t => /\ pc'[u] = pc[u] /\ valid'[u] = valid[u]
                                  /\ queue'[u] = queue[u] /\ async'[u] = async[u]
                                  /\ stack'[u] = stack[u]
  <2>1. CASE PopStep(t)
    BY <2>1 DEF PopStep, PopAsync, PopOldest, PopAllowed, run, TypeOK
  <2>2. CASE Begin(t) \/ Fetch(t) \/ KeepWaiting(t) \/ Return(t)
    BY <2>2 DEF Begin, Fetch, KeepWaiting, Return, TypeOK
  <2>3. CASE Finish(t) \/ HandlerLoop(t) \/ giop_thread_free(t)
    BY <2>3 DEF Finish, HandlerLoop, giop_thread_free, TypeOK
  <2> QED BY <2>1, <2>2, <2>3 DEF ThreadStep
<1>2. ASSUME pc'[t] \notin {"fetch", "pop", "pooled"} PROVE Busy'
  BY <1>1, <1>2, ElsewhereBusy DEF BusyAt
<1>3. ASSUME UNCHANGED <<queue, async, stack>>
      PROVE  giop_thread_queue_empty(t)' = giop_thread_queue_empty(t)
  BY <1>3, SameEmpty
<1>4. CASE Begin(t)
  <2>1. Policy(t) = NoPolicy /\ queue[t] # <<>>
    BY <1>4, OuterPolicy DEF Begin, Busy, BusyAt
  <2>2. ~ giop_thread_queue_empty(t) /\ pc'[t] = "fetch"
    BY <1>4, <2>1 DEF Begin, giop_thread_queue_empty, TypeOK
  <2> QED BY <1>1, <1>3, <1>4, <2>2, ElsewhereBusy DEF Begin, BusyAt
<1>5. CASE Fetch(t)
  <2>1. ~ giop_thread_queue_empty(t)
    BY <1>5 DEF Fetch, Busy, BusyAt
  <2>2. /\ UNCHANGED <<queue, async, stack>> /\ pc'[t] = "pop"
        /\ valid'[t] = first_valid_request(t)
    BY <1>5 DEF Fetch, TypeOK
  <2>3. Policy(t)' = Policy(t)
    BY <2>2, SamePolicy
  <2>4. Policy(t) # NoPolicy => first_valid_request(t) # NoRequest
    <3> SUFFICES ASSUME Policy(t) # NoPolicy PROVE first_valid_request(t) # NoRequest
      OBVIOUS
    <3>1. Allowed(t) # {} /\ Allowed(t) \in SUBSET Nat
      BY <2>1 DEF giop_thread_queue_empty, Allowed
    <3> DEFINE c == CHOOSE j \in Allowed(t) : \A k \in Allowed(t) : j <= k
    <3>2. c \in Allowed(t)
      BY <3>1, LeastNumber
    <3>3. first_valid_request(t) = queue[t][c]
      BY <3>1 DEF first_valid_request
    <3> HIDE DEF c
    <3>4. queue[t][c] \in Requests
      BY <3>2 DEF Allowed, TypeOK
    <3> QED BY <3>3, <3>4, RequestsAssumption DEF RequestsAssumption
  <2>5. BusyAt(t)'
    BY <1>3, <2>1, <2>2, <2>3, <2>4 DEF BusyAt
  <2> QED BY <1>1, <2>5, ElsewhereBusy
<1>6. CASE PopStep(t)
  BY <1>2, <1>6 DEF PopStep, PopAsync, PopOldest, PopAllowed, run, TypeOK
<1>7. CASE KeepWaiting(t) \/ HandlerLoop(t)
  <2>1. /\ UNCHANGED <<queue, async, stack>>
        /\ pc'[t] = "fetch" => ~ giop_thread_queue_empty(t)
        /\ pc'[t] \notin {"pop", "pooled"}
    BY <1>7 DEF KeepWaiting, HandlerLoop, TypeOK
  <2> QED BY <1>1, <1>3, <2>1, ElsewhereBusy DEF BusyAt
<1>8. CASE Return(t) \/ giop_thread_free(t)
  BY <1>2, <1>8 DEF Return, giop_thread_free, TypeOK
<1>9. CASE Finish(t)
  BY <1>2, <1>9 DEF Finish, Resumed, TypeOK
<1> QED BY <1>4, <1>5, <1>6, <1>7, <1>8, <1>9 DEF ThreadStep

LEMMA NextBusy ==
  ASSUME Typed, Nested, Busy, Next
  PROVE  Busy'
<1> USE DEF Typed
<1>1. ASSUME NEW t \in Threads, Code(t) PROVE Busy'
  <2>1. ASSUME NEW u \in Threads PROVE MoreAt(u)
    <3>1. CASE pc'[u] \notin {"fetch", "pop", "pooled"}
      BY <3>1 DEF MoreAt
    <3>2. CASE pc'[u] \in {"fetch", "pop", "pooled"}
      <4>1. ASSUME NEW p \in Policies \cup {NoPolicy},
                   \/ CallRemote(t, p)
                   \/ \E r \in Requests : CallCrossThread(t, r, p)
            PROVE  stack'[u] = stack[u] /\ pc'[u] = pc[u] /\ valid' = valid
                   /\ queue' = queue /\ async' = async
        BY <3>2, <4>1 DEF CallRemote, CallCrossThread, waiting, TypeOK
      <4>2. CASE \/ \E c \in Calls : CallAsync(t, c)
                 \/ \E k \in Keys : Bind(t, k)
        BY <4>2, SameStackMore DEF CallAsync, Bind
      <4>3. CASE ThreadExit(t)
        BY <3>2, <4>3, SameStackMore DEF ThreadExit, TypeOK
      <4> QED BY <1>1, <4>1, <4>2, <4>3, SameStackMore DEF Code
    <3> QED BY <3>1, <3>2
  <2> QED BY <2>1, MoreBusy
<1>2. ASSUME NEW t \in Threads, NEW i \in 1 .. Depth(t), Reply(t, i) PROVE Busy'
  <2> DEFINE f == [stack[t][i] EXCEPT !.got = TRUE]
  <2>1. stack[t] \in Seq(Frame) /\ i \in 1 .. Len(stack[t]) /\ stack[t][i] \in Frame
    BY DEF TypeOK, Depth
  <2>2. f \in Frame /\ f.policy = stack[t][i].policy
    BY <2>1 DEF Frame
  <2>3. /\ stack' = [stack EXCEPT ![t] = [stack[t] EXCEPT ![i] = f]]
        /\ pc' = signalled(t) /\ UNCHANGED <<queue, async, valid>>
    BY <1>2 DEF Reply, TypeOK
  <2> HIDE DEF f
  <2>4. /\ Len(stack'[t]) = Len(stack[t])
        /\ \A j \in 1 .. Len(stack[t]) : stack'[t][j] = IF j = i THEN f ELSE stack[t][j]
    BY <2>1, <2>2, <2>3, ExceptSeq DEF TypeOK
  <2>5. ASSUME NEW u \in Threads PROVE Policy(u)' = Policy(u)
    <3>1. CASE u = t
      BY <2>2, <2>4, <3>1, SamePolicy
    <3>2. CASE u # t
      <4>1. stack'[u] = stack[u]
        BY <2>3, <3>2 DEF TypeOK
      <4> QED BY <4>1, SamePolicy
    <3> QED BY <3>1, <3>2
  <2>6. \A u \in Threads : MoreAt(u)
    BY <2>3, <2>5 DEF MoreAt, signalled, TypeOK
  <2> QED BY <2>6, MoreBusy
<1>3. ASSUME NEW t \in Threads, NEW c \in Calls, AsyncReply(t, c) PROVE Busy'
  <2>1. ASSUME NEW u \in Threads PROVE MoreAt(u)
    BY <1>3, SameStackMore DEF AsyncReply, signalled, TypeOK
  <2> QED BY <2>1, MoreBusy
<1>4. ASSUME NEW t \in Threads, SpuriousWakeup(t) PROVE Busy'
  <2>1. ASSUME NEW u \in Threads PROVE MoreAt(u)
    BY <1>4, SameStackMore DEF SpuriousWakeup, TypeOK
  <2> QED BY <2>1, MoreBusy
<1>5. ASSUME NEW k \in Keys, giop_thread_key_release(k) PROVE Busy'
  <2>1. ASSUME NEW u \in Threads PROVE MoreAt(u)
    BY <1>5, SameStackMore DEF giop_thread_key_release
  <2> QED BY <2>1, MoreBusy
<1>6. CASE EnterLoop \/ HandleInput \/ OtherSource
  <2>1. ASSUME NEW u \in Threads PROVE MoreAt(u)
    BY <1>6, SameStackMore DEF EnterLoop, HandleInput, OtherSource, TypeOK
  <2> QED BY <2>1, MoreBusy
<1>7. CASE Drain
  <2>1. Main \in Threads
    BY DEF Threads
  <2>2. /\ UNCHANGED <<queue, async, stack, valid>>
        /\ pc'[Main] = "fetch" => ~ giop_thread_queue_empty(Main)
        /\ pc'[Main] \notin {"pop", "pooled"}
        /\ \A u \in Threads : u # Main => pc'[u] = pc[u]
    BY <1>7, <2>1 DEF Drain, TypeOK
  <2>3. BusyAt(Main)'
    BY <2>1, <2>2, SameEmpty DEF BusyAt
  <2> QED BY <2>1, <2>2, <2>3, ElsewhereBusy
<1> QED BY <1>1, <1>2, <1>3, <1>4, <1>5, <1>6, <1>7, PushBusy, ThreadBusy
        DEF Next, Replies, MainStep

(* giop_thread_queue_process finds what its caller saw, though it searches *)
(* the queue without the lock: others only add to it.                      *)
THEOREM WorkFound == Spec => []PopFindsWork
<1>1. Init => Busy
  <2> SUFFICES ASSUME Init, NEW t \in Threads PROVE pc[t] \notin {"fetch", "pop", "pooled"}
    BY DEF Busy, BusyAt
  <2> QED BY DEF Init
<1>2. Typed /\ Busy /\ UNCHANGED vars => Busy'
  <2> SUFFICES ASSUME Typed, Busy, UNCHANGED vars PROVE Busy'
    OBVIOUS
  <2>1. ASSUME NEW u \in Threads PROVE MoreAt(u)
    BY SameStackMore DEF vars, Typed
  <2> QED BY <2>1, MoreBusy DEF Typed
<1>3. Typed /\ Nested /\ Busy /\ [Next]_vars => Busy'
  BY <1>2, NextBusy
<1>4. Typed /\ Busy => PopFindsWork
  <2> SUFFICES ASSUME Typed, Busy, NEW t \in Threads, pc[t] = "pop"
               PROVE  IF Policy(t) = NoPolicy THEN queue[t] # <<>> \/ async[t] # <<>>
                      ELSE \E i \in 1 .. Len(queue[t]) : queue[t][i] = valid[t]
    BY DEF PopFindsWork
  <2>1. BusyAt(t)
    BY DEF Busy
  <2>2. CASE Policy(t) = NoPolicy
    BY <2>1, <2>2 DEF BusyAt, giop_thread_queue_empty
  <2>3. CASE Policy(t) # NoPolicy
    BY <2>1, <2>3 DEF BusyAt, Typed, Found
  <2> QED BY <2>2, <2>3
<1> QED BY <1>1, <1>3, <1>4, TypedInvariant, NestedInvariant, PTL DEF Spec

-----------------------------------------------------------------------------
(* A thread of the pool that is to be freed has given up its keys.         *)
Quiet == NoOrphan /\ \A t \in Pool : pc[t] = "free" => keys[t] = {}

LEMMA SameQuiet ==
  ASSUME Quiet,
         \A t \in Pool : pc'[t] \in {"none", "free", "gone"} =>
           /\ queue'[t] = queue[t] /\ pc[t] \in {"none", "free", "gone"}
           /\ pc'[t] = "free" => pc[t] = "free" /\ keys'[t] \subseteq keys[t]
  PROVE  Quiet'
  BY DEF Quiet, NoOrphan

LEMMA PushQuiet ==
  ASSUME Typed, KeysOwned, Quiet, NEW r \in Requests, Push(r)
  PROVE  Quiet'
<1> USE DEF Typed
<1>1. Pool \subseteq Threads /\ Main \notin Pool
  BY ThreadsAssumption DEF ThreadsAssumption, Threads
<1>2. CASE PushMain(r)
  BY <1>1, <1>2, SameQuiet DEF PushMain, giop_thread_request_push, signalled, TypeOK
<1>3. CASE PushOwned(r)
  <2> DEFINE o == hash[KeyOf[r]]
  <2>1. o \in Threads /\ KeyOf[r] \in Keys
    BY <1>3 DEF PushOwned, TypeOK
  <2>2. Live(o) /\ KeyOf[r] \in keys[o]
    BY <2>1 DEF KeysOwned
  <2>3. o \in Pool => pc[o] \notin {"none", "free", "gone"}
    BY <2>2 DEF Live, Quiet
  <2>4. /\ queue' = [queue EXCEPT ![o] = Append(queue[o], r)] /\ pc' = signalled(o)
        /\ UNCHANGED keys
    BY <1>3 DEF PushOwned, giop_thread_request_push
  <2> HIDE DEF o
  <2> QED BY <1>1, <2>1, <2>3, <2>4, SameQuiet DEF signalled, TypeOK
<1>4. ASSUME NEW t \in Pool, PushNew(r, t) PROVE Quiet'
  <2>1. \A u \in Pool : u # t =>
          pc'[u] = pc[u] /\ queue'[u] = queue[u] /\ keys'[u] = keys[u]
    BY <1>1, <1>4 DEF PushNew, TypeOK
  <2>2. pc'[t] = "pooled"
    BY <1>1, <1>4 DEF PushNew, TypeOK
  <2> QED BY <2>1, <2>2, SameQuiet
<1> QED BY <1>2, <1>3, <1>4 DEF Push

LEMMA ThreadQuiet ==
  ASSUME Typed, Nested, Quiet, NEW t \in Threads, ThreadStep(t)
  PROVE  Quiet'
<1> USE DEF Typed
<1>1. Pool \subseteq Threads
  BY DEF Threads
<1>2. CASE PopStep(t)
  BY <1>1, <1>2, SameQuiet DEF PopStep, PopAsync, PopOldest, PopAllowed, run, TypeOK
<1>3. CASE Begin(t) \/ Fetch(t) \/ KeepWaiting(t) \/ Return(t)
  BY <1>1, <1>3, SameQuiet DEF Begin, Fetch, KeepWaiting, Return, TypeOK
<1>4. CASE Finish(t)
  BY <1>1, <1>4, SameQuiet DEF Finish, Resumed, TypeOK
<1>5. CASE HandlerLoop(t)
  <2>1. Policy(t) = NoPolicy
    BY <1>5, OuterPolicy DEF HandlerLoop
  <2>2. CASE giop_thread_queue_empty(t)
    <3>1. queue[t] = <<>>
      BY <2>1, <2>2 DEF giop_thread_queue_empty
    <3>2. /\ keys' = [keys EXCEPT ![t] = {}] /\ pc' = [pc EXCEPT ![t] = "free"]
          /\ UNCHANGED queue
      BY <1>5, <2>2 DEF HandlerLoop
    <3> QED BY <1>1, <3>1, <3>2 DEF Quiet, NoOrphan, TypeOK
  <2>3. CASE ~ giop_thread_queue_empty(t)
    BY <1>1, <1>5, <2>3, SameQuiet DEF HandlerLoop, TypeOK
  <2> QED BY <2>2, <2>3
<1>6. CASE giop_thread_free(t)
  BY <1>1, <1>6, SameQuiet DEF giop_thread_free, TypeOK
<1> QED BY <1>2, <1>3, <1>4, <1>5, <1>6 DEF ThreadStep

LEMMA NextQuiet ==
  ASSUME Typed, Nested, KeysOwned, Quiet, Next
  PROVE  Quiet'
<1> USE DEF Typed
<1>1. Pool \subseteq Threads /\ Main \notin Pool /\ Main \in Threads
  BY ThreadsAssumption DEF ThreadsAssumption, Threads
<1>2. ASSUME NEW t \in Threads, Code(t) PROVE Quiet'
  <2>1. ASSUME NEW p \in Policies \cup {NoPolicy},
               \/ CallRemote(t, p)
               \/ \E r \in Requests : CallCrossThread(t, r, p)
        PROVE  Quiet'
    BY <1>1, <2>1, SameQuiet DEF CallRemote, CallCrossThread, waiting, TypeOK
  <2>2. ASSUME NEW c \in Calls, CallAsync(t, c) PROVE Quiet'
    BY <2>2, SameQuiet DEF CallAsync
  <2>3. CASE \/ \E k \in Keys : Bind(t, k)
             \/ ThreadExit(t)
    <3>1. t \in Users /\ t \notin Pool
      BY <2>3, ThreadsAssumption DEF ThreadsAssumption, Bind, ThreadExit
    <3> QED BY <1>1, <2>3, <3>1, SameQuiet DEF Bind, ThreadExit, TypeOK
  <2> QED BY <1>2, <2>1, <2>2, <2>3 DEF Code
<1>3. ASSUME NEW t \in Threads,
             \/ SpuriousWakeup(t)
             \/ \E i \in 1 .. Depth(t) : Reply(t, i)
             \/ \E c \in Calls : AsyncReply(t, c)
      PROVE  Quiet'
  BY <1>1, <1>3, SameQuiet DEF SpuriousWakeup, Reply, AsyncReply, signalled, TypeOK
<1>4. ASSUME NEW k \in Keys, giop_thread_key_release(k) PROVE Quiet'
  <2>1. hash[k] \in Threads
    BY <1>4 DEF giop_thread_key_release, TypeOK
  <2> QED BY <1>1, <1>4, <2>1, SameQuiet DEF giop_thread_key_release, TypeOK
<1>5. CASE MainStep \/ OtherSource
  BY <1>1, <1>5, SameQuiet DEF MainStep, EnterLoop, HandleInput, Drain, OtherSource, TypeOK
<1> QED BY <1>2, <1>3, <1>4, <1>5, PushQuiet, ThreadQuiet DEF Next, Replies

LEMMA QuietInvariant == Spec => []Quiet
<1>1. Init => Quiet
  <2> SUFFICES ASSUME Init, NEW t \in Pool PROVE queue[t] = <<>> /\ pc[t] # "free"
    BY DEF Quiet, NoOrphan
  <2>1. t \in Threads
    BY DEF Threads
  <2> QED BY <2>1 DEF Init
<1>2. Quiet /\ UNCHANGED vars => Quiet'
  BY DEF Quiet, NoOrphan, vars
<1>3. Typed /\ Nested /\ KeysOwned /\ Quiet /\ [Next]_vars => Quiet'
  BY <1>2, NextQuiet
<1> QED BY <1>1, <1>3, TypedInvariant, NestedInvariant, KeysAlwaysOwned, PTL DEF Spec

(* No request is left with a GIOPThread that nobody will run again: it is  *)
(* pushed to a thread only through a key, and the thread gives up its keys *)
(* in the critical section in which it saw its queue empty.                *)
THEOREM NothingOrphaned == Spec => []NoOrphan
<1>1. Quiet => NoOrphan
  BY DEF Quiet
<1> QED BY <1>1, QuietInvariant, PTL

-----------------------------------------------------------------------------
(* The main loop is in giop_mainloop_handle_input, maybe far below, and    *)
(* will look at the queues again before it polls.                          *)
Draining ==
  \/ pc[Main] = "drain"
  \/ stack[Main][1].on = Nothing /\ (Len(stack[Main]) > 1 \/ pc[Main] \in {"fetch", "pop"})

MainServed == Draining \/ (queue[Main] = <<>> /\ async[Main] = <<>>) \/ pipe > 0

(* A step that adds no work for the main loop and takes no byte from it.   *)
LEMMA SameServed ==
  ASSUME MainServed, Draining => Draining',
         queue[Main] = <<>> => queue'[Main] = <<>>,
         async[Main] = <<>> => async'[Main] = <<>>,
         pipe' = pipe \/ pipe' > 0
  PROVE  MainServed'
<1>1. (pipe > 0) => (pipe' > 0)
  OBVIOUS
<1> QED BY <1>1 DEF MainServed

LEMMA WokenUp ==
  ASSUME TypeOK, wakeup_mainloop
  PROVE  pipe' > 0
  BY BoundsAssumption DEF BoundsAssumption, wakeup_mainloop, TypeOK

LEMMA SameDraining ==
  ASSUME stack'[Main] = stack[Main],
         \/ pc'[Main] = pc[Main]
         \/ pc[Main] = "asleep"
  PROVE  Draining => Draining'
  BY DEF Draining

LEMMA ThreadServed ==
  ASSUME Typed, Nested, MainServed, NEW t \in Threads, ThreadStep(t)
  PROVE  MainServed'
<1> USE DEF Typed
<1>1. Main \in Threads /\ Main \notin Pool /\ Main \notin Users
  BY ThreadsAssumption DEF ThreadsAssumption, Threads
<1>2. Good(Main, stack[Main], pc[Main]) /\ stack[Main] \in Seq(Frame) /\ stack[Main] # <<>>
  BY <1>1 DEF Nested, TypeOK, Framed
<1>3. Len(stack[Main]) \in Nat /\ Len(stack[Main]) > 0 /\ 1 \in 1 .. Len(stack[Main])
  BY <1>2, EmptySeq
<1>4. CASE t # Main
  <2>1. \/ pipe' = pipe
        \/ wakeup(t)
    BY <1>4 DEF ThreadStep, Begin, Fetch, PopStep, PopAsync, PopOldest, PopAllowed,
                KeepWaiting, Return, Finish, HandlerLoop, giop_thread_free
  <2>2. pipe' = pipe
    BY <1>4, <2>1 DEF wakeup
  <2>3. /\ pc'[Main] = pc[Main] /\ stack'[Main] = stack[Main]
        /\ queue'[Main] = queue[Main] /\ async'[Main] = async[Main]
    <3>1. CASE PopStep(t)
      BY <1>1, <1>4, <3>1 DEF PopStep, PopAsync, PopOldest, PopAllowed, run, TypeOK
    <3>2. CASE Begin(t) \/ Fetch(t) \/ KeepWaiting(t) \/ Return(t)
      BY <1>1, <1>4, <3>2 DEF Begin, Fetch, KeepWaiting, Return, TypeOK
    <3>3. CASE Finish(t) \/ HandlerLoop(t) \/ giop_thread_free(t)
      BY <1>1, <1>4, <3>3 DEF Finish, HandlerLoop, giop_thread_free, TypeOK
    <3> QED BY <3>1, <3>2, <3>3 DEF ThreadStep
  <2> QED BY <2>2, <2>3, SameDraining, SameServed
<1>5. CASE t = Main
  <2>1. CASE Begin(t) \/ HandlerLoop(t) \/ giop_thread_free(t)
    BY <1>1, <1>2, <1>5, <2>1 DEF Begin, HandlerLoop, giop_thread_free, Good, Placed
  <2>2. CASE Fetch(t)
    <3>1. Draining => Draining'
      BY <1>1, <1>5, <2>2 DEF Fetch, Draining, TypeOK
    <3> QED BY <2>2, <3>1, SameServed DEF Fetch
  <2>3. CASE PopStep(t)
    <3>1. \E i \in Requests \cup Calls : run(Main, i)
      BY <1>1, <1>5, <2>3 DEF PopStep, PopAsync, PopOldest, PopAllowed, TypeOK
    <3>2. PICK i \in Requests \cup Calls : run(Main, i)
      BY <3>1
    <3>3. Running(i) \in Frame
      BY DEF Running, Frame, Items
    <3>4. /\ stack'[Main] = Append(stack[Main], Running(i))
          /\ Len(stack'[Main]) = Len(stack[Main]) + 1
          /\ stack'[Main][1] = stack[Main][1]
      <4>1. stack'[Main] = Append(stack[Main], Running(i))
        BY <1>1, <3>2 DEF run, TypeOK
      <4> QED BY <1>2, <1>3, <3>3, <4>1, AppendProperties
    <3>5. Len(stack'[Main]) > 1
      BY <1>3, <3>4
    <3>6. pc[Main] = "pop"
      BY <1>5, <2>3 DEF PopStep, PopAsync, PopOldest, PopAllowed
    <3>7. Draining => Draining'
      BY <3>4, <3>5, <3>6 DEF Draining
    <3>8. /\ queue[Main] = <<>> => queue'[Main] = <<>>
          /\ async[Main] = <<>> => async'[Main] = <<>>
          /\ pipe' = pipe
      <4>1. CASE PopAsync(t)
        BY <1>1, <1>5, <4>1 DEF PopAsync, TypeOK
      <4>2. CASE PopOldest(t)
        BY <1>1, <1>5, <4>2 DEF PopOldest, TypeOK
      <4>3. CASE PopAllowed(t)
        <5>1. queue[Main] # <<>>
          <6>1. valid[Main] # NoRequest /\ pc[Main] = "pop"
            BY <1>5, <4>3 DEF PopAllowed
          <6>2. PICK j \in 1 .. Len(queue[Main]) : queue[Main][j] = valid[Main]
            BY <1>1, <6>1 DEF Found
          <6> QED BY <6>2, EmptySeq
        <5> QED BY <1>5, <4>3, <5>1 DEF PopAllowed
      <4> QED BY <2>3, <4>1, <4>2, <4>3 DEF PopStep
    <3> QED BY <3>7, <3>8, SameServed
  <2>4. CASE KeepWaiting(t)
    <3>1. Draining => Draining'
      BY <1>1, <1>3, <1>5, <2>4 DEF KeepWaiting, Draining, TypeOK
    <3> QED BY <2>4, <3>1, SameServed DEF KeepWaiting
  <2>5. CASE Return(t)
    <3> DEFINE n == Len(stack[Main])
               f == Running(Top(Main).item)
    <3>1. Draining => n > 1 /\ stack[Main][1].on = Nothing
      <4>1. pc[Main] = "check"
        BY <1>5, <2>5 DEF Return
      <4> QED BY <4>1 DEF Draining
    <3>2. stack' = [stack EXCEPT ![Main] = [stack[Main] EXCEPT ![n] = f]]
      BY <1>1, <1>5, <2>5 DEF Return, Depth, TypeOK
    <3>3. n > 1 => Len(stack'[Main]) = n /\ stack'[Main][1] = stack[Main][1]
      BY <1>1, <1>2, <1>3, <3>2 DEF TypeOK
    <3>4. Draining => Draining'
      BY <3>1, <3>3 DEF Draining
    <3>5. pipe' = pipe \/ pipe' > 0
      BY <1>5, <2>5, WokenUp DEF Return, wakeup
    <3> QED BY <2>5, <3>4, <3>5, SameServed DEF Return
  <2>6. CASE Finish(t)
    <3> DEFINE n == Len(stack[Main])
    <3>1. /\ stack' = [stack EXCEPT ![Main] = SubSeq(stack[Main], 1, n - 1)]
          /\ pc'[Main] = Resumed(Main) /\ stack[Main][n].item # Own
      BY <1>1, <1>5, <2>6 DEF Finish, Depth, Top, TypeOK
    <3>2. n > 1
      <4>1. n # 1
        BY <1>1, <1>2, <1>3, <3>1 DEF Good, Shape
      <4>2. n \in Nat /\ n > 0
        BY <1>3
      <4> HIDE DEF n
      <4> QED BY <4>1, <4>2
    <3>3. Len(stack'[Main]) = n - 1 /\ stack'[Main][1] = stack[Main][1]
      <4> DEFINE m == n - 1
      <4>1. m \in Nat /\ m > 0 /\ \A j \in 1 .. m : stack[Main][j] \in Frame
        BY <1>2, <1>3, <3>2
      <4>2. stack'[Main] = SubSeq(stack[Main], 1, m)
        BY <1>1, <3>1 DEF TypeOK
      <4> HIDE DEF m
      <4>3. /\ Len(SubSeq(stack[Main], 1, m)) = m
            /\ \A j \in 1 .. m : SubSeq(stack[Main], 1, m)[j] = stack[Main][j]
        BY <4>1, SubSeqProperties
      <4> QED BY <4>1, <4>2, <4>3 DEF m
    <3>4. stack[Main][1].on = Nothing => Draining'
      <4> SUFFICES ASSUME stack[Main][1].on = Nothing PROVE Draining'
        OBVIOUS
      <4>1. CASE n = 2
        <5>1. Resumed(Main) = "drain"
          BY <4>1 DEF Resumed, Depth
        <5> QED BY <3>1, <5>1 DEF Draining
      <4>2. CASE n # 2
        <5>1. Len(stack'[Main]) > 1
          <6>1. n \in Nat /\ n > 1 /\ Len(stack'[Main]) = n - 1
            BY <1>3, <3>2, <3>3
          <6> HIDE DEF n
          <6> QED BY <4>2, <6>1
        <5> QED BY <3>3, <5>1 DEF Draining
      <4> QED BY <4>1, <4>2
    <3>5. Draining => Draining'
      BY <2>6, <1>5, <3>4 DEF Draining, Finish
    <3> QED BY <2>6, <3>5, SameServed DEF Finish
  <2> QED BY <1>5, <2>1, <2>2, <2>3, <2>4, <2>5, <2>6 DEF ThreadStep
<1> QED BY <1>4, <1>5

LEMMA CodeServed ==
  ASSUME Typed, Nested, MainServed, NEW t \in Threads, Code(t)
  PROVE  MainServed'
<1> USE DEF Typed
<1>1. Main \in Threads /\ Main \notin Users
  BY ThreadsAssumption DEF ThreadsAssumption, Threads
<1>2. Good(Main, stack[Main], pc[Main]) /\ stack[Main] \in Seq(Frame) /\ stack[Main] # <<>>
  BY <1>1 DEF Nested, TypeOK, Framed
<1>3. UNCHANGED <<queue, async, pipe>>
  BY DEF Code, CallRemote, CallCrossThread, waiting, CallAsync, Bind, ThreadExit
<1>4. ASSUME NEW p \in Policies \cup {NoPolicy}, NEW on \in Requests \cup {Remote},
             waiting(t, on, p)
      PROVE  Draining => Draining'
  <2>1. CASE t # Main
    BY <1>1, <1>4, <2>1, SameDraining DEF waiting, TypeOK
  <2>2. CASE t = Main
    <3> SUFFICES ASSUME Draining PROVE Draining'
      OBVIOUS
    <3>1. Len(stack[Main]) > 1 /\ stack[Main][1].on = Nothing
      BY <1>4, <2>2 DEF Draining, waiting
    <3> DEFINE n == Len(stack[t])
               f == [stack[t][n] EXCEPT !.on = on, !.got = FALSE, !.policy = p]
    <3>2. stack' = [stack EXCEPT ![t] = [stack[t] EXCEPT ![n] = f]]
      BY <1>4 DEF waiting, Depth, TypeOK
    <3> HIDE DEF f
    <3>3. Len(stack'[Main]) = n /\ stack'[Main][1] = stack[Main][1]
      BY <1>1, <1>2, <2>2, <3>1, <3>2 DEF TypeOK
    <3> QED BY <2>2, <3>1, <3>3 DEF Draining
  <2> QED BY <2>1, <2>2
<1>5. ASSUME NEW p \in Policies \cup {NoPolicy},
             \/ CallRemote(t, p)
             \/ \E r \in Requests : CallCrossThread(t, r, p)
      PROVE  Draining => Draining'
  BY <1>4, <1>5 DEF CallRemote, CallCrossThread
<1>6. CASE \/ \E c \in Calls : CallAsync(t, c)
           \/ \E k \in Keys : Bind(t, k)
  BY <1>3, <1>6, SameDraining, SameServed DEF CallAsync, Bind
<1>7. CASE ThreadExit(t)
  BY <1>1, <1>3, <1>7, SameDraining, SameServed DEF ThreadExit, TypeOK
<1> QED BY <1>3, <1>5, <1>6, <1>7, SameServed DEF Code

LEMMA NextServed ==
  ASSUME Typed, Nested, MainServed, Next
  PROVE  MainServed'
<1> USE DEF Typed
<1>1. Main \in Threads /\ Main \notin Pool
  BY ThreadsAssumption DEF ThreadsAssumption, Threads
<1>2. Good(Main, stack[Main], pc[Main]) /\ stack[Main] \in Seq(Frame) /\ stack[Main] # <<>>
  BY <1>1 DEF Nested, TypeOK, Framed
<1>3. ASSUME NEW r \in Requests, NEW o \in Threads, giop_thread_request_push(o, r),
             pc' = signalled(o), UNCHANGED <<async, stack>>
      PROVE  MainServed'
  <2>1. CASE o = Main
    BY <1>3, <2>1, WokenUp DEF giop_thread_request_push, wakeup, MainServed
  <2>2. CASE o # Main
    <3>1. pipe' = pipe /\ queue'[Main] = queue[Main] /\ pc'[Main] = pc[Main]
      BY <1>1, <1>3, <2>2 DEF giop_thread_request_push, wakeup, signalled, TypeOK
    <3> QED BY <1>3, <3>1, SameDraining, SameServed
  <2> QED BY <2>1, <2>2
<1>4. ASSUME NEW r \in Requests, Push(r) PROVE MainServed'
  <2>1. CASE PushMain(r)
    BY <1>1, <1>3, <2>1 DEF PushMain
  <2>2. CASE PushOwned(r)
    <3>1. hash[KeyOf[r]] \in Threads
      BY <2>2 DEF PushOwned, TypeOK
    <3> QED BY <1>3, <2>2, <3>1 DEF PushOwned
  <2>3. ASSUME NEW t \in Pool, PushNew(r, t) PROVE MainServed'
    <3>1. /\ pipe' = pipe /\ queue'[Main] = queue[Main] /\ async'[Main] = async[Main]
          /\ pc'[Main] = pc[Main] /\ stack'[Main] = stack[Main]
      BY <1>1, <2>3 DEF PushNew, TypeOK
    <3> QED BY <3>1, SameDraining, SameServed
  <2> QED BY <1>4, <2>1, <2>2, <2>3 DEF Push
<1>5. ASSUME NEW t \in Threads, NEW c \in Calls, AsyncReply(t, c) PROVE MainServed'
  <2>1. CASE t = Main
    BY <1>5, <2>1, WokenUp DEF AsyncReply, wakeup, MainServed
  <2>2. CASE t # Main
    <3>1. /\ pipe' = pipe /\ queue' = queue /\ async'[Main] = async[Main]
          /\ pc'[Main] = pc[Main] /\ stack' = stack
      BY <1>1, <1>5, <2>2 DEF AsyncReply, wakeup, signalled, TypeOK
    <3> QED BY <3>1, SameDraining, SameServed
  <2> QED BY <2>1, <2>2
<1>6. ASSUME NEW t \in Threads, NEW i \in 1 .. Depth(t), Reply(t, i) PROVE MainServed'
  <2>1. UNCHANGED <<queue, async, pipe>> /\ pc' = signalled(t)
    BY <1>6 DEF Reply
  <2>2. pc'[Main] = pc[Main] \/ pc[Main] = "asleep"
    BY <1>1, <2>1 DEF signalled, TypeOK
  <2>3. Draining => Draining'
    <3>1. CASE t # Main
      BY <1>1, <1>6, <2>2, <3>1, SameDraining DEF Reply, TypeOK
    <3>2. CASE t = Main
      <4> DEFINE f == [stack[Main][i] EXCEPT !.got = TRUE]
      <4>1. i \in 1 .. Len(stack[Main]) /\ stack[Main][i] \in Frame
        BY <1>2, <3>2 DEF Depth
      <4>2. f \in Frame /\ f.on = stack[Main][i].on
        BY <4>1 DEF Frame
      <4>3. stack' = [stack EXCEPT ![Main] = [stack[Main] EXCEPT ![i] = f]]
        BY <1>1, <1>6, <3>2 DEF Reply, TypeOK
      <4> HIDE DEF f
      <4>4. /\ Len(stack'[Main]) = Len(stack[Main])
            /\ \A j \in 1 .. Len(stack[Main]) :
                 stack'[Main][j] = IF j = i THEN f ELSE stack[Main][j]
        BY <1>1, <1>2, <4>1, <4>2, <4>3, ExceptSeq DEF TypeOK
      <4>5. stack'[Main][1].on = stack[Main][1].on
        BY <1>2, <4>1, <4>2, <4>4
      <4> QED BY <2>2, <4>4, <4>5 DEF Draining
    <3> QED BY <3>1, <3>2
  <2> QED BY <2>1, <2>3, SameServed
<1>7. ASSUME NEW t \in Threads, SpuriousWakeup(t) PROVE MainServed'
  <2>1. pc'[Main] = pc[Main] \/ pc[Main] = "asleep"
    BY <1>1, <1>7 DEF SpuriousWakeup, TypeOK
  <2> QED BY <1>7, <2>1, SameDraining, SameServed DEF SpuriousWakeup
<1>8. ASSUME NEW k \in Keys, giop_thread_key_release(k) PROVE MainServed'
  BY <1>8, SameDraining, SameServed DEF giop_thread_key_release
<1>9. CASE EnterLoop \/ OtherSource
  <2>1. Len(stack[Main]) > 1 \/ ~ Draining
    BY <1>9 DEF EnterLoop, OtherSource, Draining
  <2>2. Draining => Draining'
    BY <1>9, <2>1 DEF EnterLoop, OtherSource, Draining
  <2> QED BY <1>9, <2>2, SameServed DEF EnterLoop, OtherSource
<1>10. CASE HandleInput
  <2>1. pc'[Main] = "drain"
    BY <1>1, <1>10 DEF HandleInput, TypeOK
  <2> QED BY <2>1 DEF MainServed, Draining
<1>11. CASE Drain
  <2>1. /\ Len(stack[Main]) = 1 /\ stack[Main][1].on = Nothing
        /\ Policy(Main) = NoPolicy
    BY <1>1, <1>2, <1>11, OuterPolicy DEF Drain, Good, Placed
  <2>2. CASE giop_thread_queue_empty(Main)
    BY <1>11, <2>1, <2>2 DEF Drain, giop_thread_queue_empty, MainServed
  <2>3. CASE ~ giop_thread_queue_empty(Main)
    <3>1. pc'[Main] = "fetch" /\ stack' = stack
      BY <1>1, <1>11, <2>3 DEF Drain, TypeOK
    <3> QED BY <2>1, <3>1 DEF MainServed, Draining
  <2> QED BY <2>2, <2>3
<1> QED BY <1>4, <1>5, <1>6, <1>7, <1>8, <1>9, <1>10, <1>11, ThreadServed, CodeServed
        DEF Next, Replies, MainStep

(* The main loop always has a byte to wake it while it polls and its       *)
(* queues hold work: a byte is only read where the queues are looked at    *)
(* again until they are empty, and a full pipe holds one already.          *)
THEOREM MainIsWoken == Spec => []MainWillWake
<1>1. Init => MainServed
  <2> SUFFICES ASSUME Init PROVE queue[Main] = <<>> /\ async[Main] = <<>>
    BY DEF MainServed
  <2> QED BY DEF Init, Threads
<1>2. MainServed /\ UNCHANGED vars => MainServed'
  BY DEF MainServed, Draining, vars
<1>3. Typed /\ Nested /\ MainServed /\ [Next]_vars => MainServed'
  BY <1>2, NextServed
<1>4. Nested /\ MainServed => MainWillWake
  <2> SUFFICES ASSUME Nested, pc[Main] = "poll" PROVE ~ Draining
    BY DEF MainServed, MainWillWake
  <2>1. Main \in Threads
    BY DEF Threads
  <2>2. Len(stack[Main]) = 1
    BY <2>1 DEF Nested, Good, Placed
  <2> QED BY <2>2 DEF Draining
<1> QED BY <1>1, <1>3, <1>4, TypedInvariant, NestedInvariant, PTL DEF Spec

-----------------------------------------------------------------------------
(***************************************************************************)
(* Why two requests of one key never execute on two threads, why what is   *)
(* started inside a call obeys its policy, and why giop.c implements       *)
(* SerialDispatch.                                                         *)
(***************************************************************************)
(* Thread t is the one that serves key k.                                  *)
Bound(t, k) ==
  (k = MainQueue => t = Main) /\ (k \in Keys => hash[k] = t) /\ (k = NoKey => t \in Pool)

(* A thread of the application that ended: its queue is never served.      *)
Left(t) == t \in Users /\ pc[t] = "gone"

(* What is in a queue is queued, and its key is the thread's.              *)
Lined ==
  \A t \in Threads : \A i \in 1 .. Len(queue[t]) :
    /\ req[queue[t][i]] = "queued"
    /\ Bound(t, KeyOf[queue[t][i]]) \/ Left(t)

(* What a thread executes is running, and its key is the thread's.         *)
Engaged ==
  \A t \in Threads : \A i \in 1 .. Len(stack[t]) :
    stack[t][i].item \in Requests =>
      req[stack[t][i].item] = "running" /\ Bound(t, KeyOf[stack[t][i].item])

(* No request is in two places of the queues.                              *)
LinedOnce ==
  \A t, u \in Threads : \A i \in 1 .. Len(queue[t]), j \in 1 .. Len(queue[u]) :
    queue[t][i] = queue[u][j] => t = u /\ i = j

(* No request is in two places of the stacks.                              *)
EngagedOnce ==
  \A t, u \in Threads : \A i \in 1 .. Len(stack[t]), j \in 1 .. Len(stack[u]) :
    stack[t][i].item = stack[u][j].item /\ stack[t][i].item \in Requests
      => t = u /\ i = j

Serial == Lined /\ Engaged /\ LinedOnce /\ EngagedOnce

LEMMA InitSerial == Init => Serial
<1> SUFFICES ASSUME Init PROVE Serial
  OBVIOUS
<1>1. \A t \in Threads : queue[t] = <<>>
  BY DEF Init
<1>2. ASSUME NEW t \in Threads, NEW i \in 1 .. Len(stack[t])
      PROVE  stack[t][i].item \notin Requests
  <2>1. CASE t \in Pool
    BY <1>2, <2>1 DEF Init
  <2>2. CASE t \notin Pool
    <3>1. stack[t] = <<Running(Own)>> /\ Running(Own).item = Own
      BY <2>2 DEF Init, Running
    <3>2. stack[t][i].item = Own
      BY <1>2, <3>1
    <3> QED BY <3>2, Distinct
  <2> QED BY <2>1, <2>2
<1> QED BY <1>1, <1>2 DEF Serial, Lined, Engaged, LinedOnce, EngagedOnce

(* What a thread's queue and invocations hold keeps no key of it.          *)
Idle(t) ==
  /\ queue[t] = <<>> \/ Left(t)'
  /\ \A i \in 1 .. Len(stack[t]) : stack[t][i].item \notin Requests

(* A step that moves no request.                                           *)
LEMMA SameSerial ==
  ASSUME Typed, Serial,
         \A t \in Threads :
           /\ queue'[t] = queue[t]
           /\ Len(stack'[t]) = Len(stack[t])
           /\ \A i \in 1 .. Len(stack[t]) : stack'[t][i].item = stack[t][i].item
           /\ Left(t) => Left(t)',
         \A r \in Requests : req[r] \in {"queued", "running"} =>
           /\ req'[r] = req[r]
           /\ \A t \in Threads : KeyOf[r] \in Keys /\ hash[KeyOf[r]] = t =>
                hash'[KeyOf[r]] = t \/ Idle(t)
  PROVE  Serial'
<1>1. Lined'
  <2> SUFFICES ASSUME NEW t \in Threads, NEW i \in 1 .. Len(queue[t])
               PROVE  /\ req'[queue[t][i]] = "queued"
                      /\ Bound(t, KeyOf[queue[t][i]])' \/ Left(t)'
    BY DEF Lined
  <2>1. /\ queue[t][i] \in Requests /\ req[queue[t][i]] = "queued"
        /\ Bound(t, KeyOf[queue[t][i]]) \/ Left(t)
    <3>1. queue[t] \in Seq(Requests)
      BY DEF Typed, TypeOK
    <3> QED BY <3>1 DEF Serial, Lined
  <2>2. queue[t] # <<>>
    BY EmptySeq
  <2> QED BY <2>1, <2>2 DEF Bound, Idle
<1>2. Engaged'
  <2> SUFFICES ASSUME NEW t \in Threads, NEW i \in 1 .. Len(stack[t]),
                      stack[t][i].item \in Requests
               PROVE  /\ req'[stack[t][i].item] = "running"
                      /\ Bound(t, KeyOf[stack[t][i].item])'
    BY DEF Engaged
  <2>1. req[stack[t][i].item] = "running" /\ Bound(t, KeyOf[stack[t][i].item])
    BY DEF Serial, Engaged
  <2> QED BY <2>1 DEF Bound, Idle
<1>3. LinedOnce'
  BY DEF Serial, LinedOnce
<1>4. EngagedOnce'
  BY DEF Serial, EngagedOnce
<1> QED BY <1>1, <1>2, <1>3, <1>4 DEF Serial

(* A request joins the queue of the thread its key has, or now gets.       *)
LEMMA PushSerial ==
  ASSUME Typed, Serial, NEW r \in Requests, NEW o \in Threads, Incoming(r),
         queue' = [queue EXCEPT ![o] = Append(queue[o], r)],
         req' = [req EXCEPT ![r] = "queued"], stack' = stack,
         \A k \in Keys : hash[k] \in Threads => hash'[k] = hash[k],
         Bound(o, KeyOf[r])',
         \A t \in Threads : Left(t) => Left(t)'
  PROVE  Serial'
<1> USE DEF Typed
<1>1. req[r] \notin {"queued", "running"} /\ req'[r] = "queued"
      /\ \A s \in Requests : s # r => req'[s] = req[s]
  BY DEF Incoming, TypeOK
<1>2. /\ queue[o] \in Seq(Requests) /\ Len(queue[o]) \in Nat
      /\ Len(queue'[o]) = Len(queue[o]) + 1
      /\ queue'[o][Len(queue[o]) + 1] = r
      /\ \A i \in 1 .. Len(queue[o]) : queue'[o][i] = queue[o][i]
      /\ \A t \in Threads : t # o => queue'[t] = queue[t]
  BY AppendProperties DEF TypeOK
<1>3. ASSUME NEW t \in Threads, NEW i \in 1 .. Len(queue'[t])
      PROVE  \/ t = o /\ i = Len(queue[o]) + 1 /\ queue'[t][i] = r
             \/ /\ i \in 1 .. Len(queue[t]) /\ queue'[t][i] = queue[t][i]
                /\ queue[t][i] \in Requests /\ req[queue[t][i]] = "queued"
                /\ queue[t][i] # r
  <2>1. ASSUME i \in 1 .. Len(queue[t])
        PROVE  queue[t][i] \in Requests /\ req[queue[t][i]] = "queued" /\ queue[t][i] # r
    BY <1>1, <2>1 DEF Serial, Lined, TypeOK
  <2>2. CASE t # o
    BY <1>2, <2>1, <2>2
  <2>3. CASE t = o
    <3> DEFINE n == Len(queue[o])
    <3>1. n \in Nat /\ i \in 1 .. n + 1
      BY <1>2, <2>3
    <3> HIDE DEF n
    <3>2. i = n + 1 \/ i \in 1 .. n
      BY <3>1
    <3> QED BY <1>2, <2>1, <2>3, <3>2 DEF n
  <2> QED BY <2>2, <2>3
<1>4. Lined'
  <2> SUFFICES ASSUME NEW t \in Threads, NEW i \in 1 .. Len(queue'[t])
               PROVE  /\ req'[queue'[t][i]] = "queued"
                      /\ Bound(t, KeyOf[queue[t][i]])' \/ Left(t)'
    BY DEF Lined
  <2>1. CASE t = o /\ i = Len(queue[o]) + 1 /\ queue'[t][i] = r
    BY <1>1, <2>1 DEF Bound
  <2>2. CASE /\ i \in 1 .. Len(queue[t]) /\ queue'[t][i] = queue[t][i]
             /\ queue[t][i] \in Requests /\ req[queue[t][i]] = "queued"
             /\ queue[t][i] # r
    <3>1. Bound(t, KeyOf[queue[t][i]]) \/ Left(t)
      BY <2>2 DEF Serial, Lined
    <3> QED BY <1>1, <2>2, <3>1 DEF Bound
  <2> QED BY <1>3, <2>1, <2>2
<1>5. Engaged'
  <2> SUFFICES ASSUME NEW t \in Threads, NEW i \in 1 .. Len(stack[t]),
                      stack[t][i].item \in Requests
               PROVE  /\ req'[stack[t][i].item] = "running"
                      /\ Bound(t, KeyOf[stack[t][i].item])'
    BY DEF Engaged
  <2>1. req[stack[t][i].item] = "running" /\ Bound(t, KeyOf[stack[t][i].item])
    BY DEF Serial, Engaged
  <2> QED BY <1>1, <2>1 DEF Bound
<1>6. LinedOnce'
  <2> SUFFICES ASSUME NEW t \in Threads, NEW u \in Threads,
                      NEW i \in 1 .. Len(queue'[t]), NEW j \in 1 .. Len(queue'[u]),
                      queue'[t][i] = queue'[u][j]
               PROVE  t = u /\ i = j
    BY DEF LinedOnce
  <2> QED BY <1>3 DEF Serial, LinedOnce
<1>7. EngagedOnce'
  BY DEF Serial, EngagedOnce
<1> QED BY <1>4, <1>5, <1>6, <1>7 DEF Serial

-----------------------------------------------------------------------------
(* Sequence q is s without its place i.                                    *)
Removed(s, i, q) ==
  /\ Len(q) = Len(s) - 1
  /\ \A j \in 1 .. Len(q) : q[j] = s[IF j < i THEN j ELSE j + 1]

LEMMA TailRemoved ==
  ASSUME NEW s \in Seq(Requests), s # <<>>
  PROVE  1 \in 1 .. Len(s) /\ Head(s) = s[1] /\ Removed(s, 1, Tail(s))
<1>1. Len(s) \in Nat /\ Len(s) > 0
  BY EmptySeq
<1>2. /\ Head(s) = s[1] /\ Len(Tail(s)) = Len(s) - 1
      /\ \A j \in 1 .. Len(Tail(s)) : Tail(s)[j] = s[j + 1]
  BY HeadTailProperties
<1> QED BY <1>1, <1>2 DEF Removed

LEMMA WithoutRemoved ==
  ASSUME NEW s \in Seq(Requests), NEW r, NEW p \in 1 .. Len(s), s[p] = r
  PROVE  \E i \in 1 .. Len(s) : s[i] = r /\ Removed(s, i, without(s, r))
<1> DEFINE i == CHOOSE i \in 1 .. Len(s) : s[i] = r
           n == Len(s)
           a == SubSeq(s, 1, i - 1)
           b == SubSeq(s, i + 1, n)
<1>1. i \in 1 .. n /\ s[i] = r
  OBVIOUS
<1>2. without(s, r) = a \o b
  BY DEF without
<1>3. n \in Nat /\ \A j \in 1 .. n : s[j] \in Requests
  OBVIOUS
<1>4. SUFFICES Removed(s, i, a \o b)
  BY <1>1, <1>2
<1> HIDE DEF i, n
<1>5. /\ a \in Seq(Requests) /\ Len(a) = i - 1
      /\ \A j \in 1 .. i - 1 : a[j] = s[j]
  BY <1>1, <1>3, SubSeqProperties
<1>6. /\ b \in Seq(Requests) /\ Len(b) = n - i
      /\ \A j \in 1 .. n - i : b[j] = s[i + j]
  BY <1>1, <1>3, SubSeqProperties
<1> HIDE DEF a, b
<1>7. /\ Len(a \o b) = n - 1
      /\ \A j \in 1 .. n - 1 :
           (a \o b)[j] = IF j <= i - 1 THEN a[j] ELSE b[j - (i - 1)]
  <2> DEFINE m == Len(a)
             l == Len(b)
  <2>1. /\ Len(a \o b) = m + l
        /\ \A j \in 1 .. m + l : (a \o b)[j] = IF j <= m THEN a[j] ELSE b[j - m]
    BY <1>5, <1>6, ConcatProperties
  <2>2. m = i - 1 /\ l = n - i
    BY <1>5, <1>6
  <2> HIDE DEF m, l
  <2>3. m + l = n - 1
    BY <1>1, <1>3, <2>2
  <2> QED BY <2>1, <2>2, <2>3
<1>8. ASSUME NEW j \in 1 .. n - 1
      PROVE  (a \o b)[j] = s[IF j < i THEN j ELSE j + 1]
  <2>1. CASE j < i
    BY <1>1, <1>3, <1>5, <1>7, <2>1
  <2>2. CASE ~ j < i
    <3>1. j - (i - 1) \in 1 .. n - i /\ i + (j - (i - 1)) = j + 1
      BY <1>1, <1>3, <2>2
    <3>2. (a \o b)[j] = b[j - (i - 1)]
      BY <1>1, <1>3, <1>7, <2>2
    <3> QED BY <1>6, <2>2, <3>1, <3>2
  <2> QED BY <2>1, <2>2
<1> QED BY <1>7, <1>8 DEF Removed, n

(* A thread takes a request from its queue and starts to execute it.       *)
LEMMA PopSerial ==
  ASSUME Typed, Serial, NEW t \in Threads, pc[t] = "pop",
         NEW p \in 1 .. Len(queue[t]), Removed(queue[t], p, queue'[t]),
         \A u \in Threads : u # t => queue'[u] = queue[u],
         req' = [req EXCEPT ![queue[t][p]] = "running"],
         run(t, queue[t][p]), hash' = hash
  PROVE  Serial'
<1> USE DEF Typed
<1> DEFINE r == queue[t][p]
           f == Running(r)
<1>1. r \in Requests /\ req[r] = "queued" /\ Bound(t, KeyOf[r])
  <2>1. queue[t] \in Seq(Requests)
    BY DEF TypeOK
  <2> QED BY <2>1 DEF Serial, Lined, Left
<1>2. f \in Frame /\ f.item = r
  BY <1>1 DEF Running, Frame, Items
<1>3. /\ stack' = [stack EXCEPT ![t] = Append(stack[t], f)]
      /\ pc' = [pc EXCEPT ![t] = "code"]
  BY DEF run
<1>4. req'[r] = "running" /\ \A s \in Requests : s # r => req'[s] = req[s]
  BY <1>1 DEF TypeOK
<1>5. \A u \in Threads : Left(u) => Left(u)'
  BY <1>3 DEF Left, TypeOK
<1>6. ASSUME NEW u \in Threads, NEW i \in 1 .. Len(queue'[u])
      PROVE  \E j \in 1 .. Len(queue[u]) :
               /\ queue'[u][i] = queue[u][j] /\ queue[u][j] \in Requests \ {r}
               /\ u = t => j = IF i < p THEN i ELSE i + 1
               /\ u # t => j = i
  <2>1. CASE u # t
    <3>1. queue[u] \in Seq(Requests) /\ i \in 1 .. Len(queue[u])
      BY <2>1 DEF TypeOK
    <3>2. queue[u][i] # r
      BY <2>1, <3>1 DEF Serial, LinedOnce
    <3> QED BY <2>1, <3>1, <3>2
  <2>2. CASE u = t
    <3> DEFINE n == Len(queue[t])
               j == IF i < p THEN i ELSE i + 1
    <3>1. n \in Nat /\ i \in 1 .. n - 1 /\ p \in 1 .. n
      BY <2>2 DEF TypeOK, Removed
    <3>2. j \in 1 .. n /\ j # p
      <4> HIDE DEF n
      <4> QED BY <3>1
    <3>3. queue'[t][i] = queue[t][j]
      BY <2>2 DEF Removed
    <3>4. queue[t][j] \in Requests
      BY <3>2 DEF TypeOK
    <3> HIDE DEF j
    <3>5. queue[t][j] # r
      BY <3>2 DEF Serial, LinedOnce
    <3> QED BY <2>2, <3>2, <3>3, <3>4, <3>5 DEF j
  <2> QED BY <2>1, <2>2
<1>7. ASSUME NEW u \in Threads, NEW i \in 1 .. Len(stack'[u])
      PROVE  \/ u = t /\ i = Len(stack[t]) + 1 /\ stack'[u][i].item = r
             \/ /\ i \in 1 .. Len(stack[u]) /\ stack'[u][i] = stack[u][i]
                /\ stack[u][i].item # r
  <2>1. ASSUME i \in 1 .. Len(stack[u]) PROVE stack[u][i].item # r
    BY <1>1, <2>1 DEF Serial, Engaged
  <2>2. CASE u # t
    BY <1>3, <2>1, <2>2 DEF TypeOK
  <2>3. CASE u = t
    <3> DEFINE n == Len(stack[t])
    <3>1. /\ n \in Nat /\ Len(stack'[t]) = n + 1 /\ stack'[t][n + 1] = f
          /\ \A j \in 1 .. n : stack'[t][j] = stack[t][j]
      <4>1. stack[t] \in Seq(Frame) /\ stack'[t] = Append(stack[t], f)
        BY <1>3 DEF TypeOK
      <4> QED BY <1>2, <4>1, AppendProperties
    <3> HIDE DEF n
    <3>2. i = n + 1 \/ i \in 1 .. n
      BY <2>3, <3>1
    <3> QED BY <1>2, <2>1, <2>3, <3>1, <3>2 DEF n
  <2> QED BY <2>2, <2>3
<1> HIDE DEF r, f
<1>8. Lined'
  <2> SUFFICES ASSUME NEW u \in Threads, NEW i \in 1 .. Len(queue'[u])
               PROVE  /\ req'[queue'[u][i]] = "queued"
                      /\ Bound(u, KeyOf[queue[u][i]])' \/ Left(u)'
    BY DEF Lined
  <2>1. PICK j \in 1 .. Len(queue[u]) :
               queue'[u][i] = queue[u][j] /\ queue[u][j] \in Requests \ {r}
    BY <1>6
  <2>2. /\ req[queue[u][j]] = "queued"
        /\ Bound(u, KeyOf[queue[u][j]]) \/ Left(u)
    BY DEF Serial, Lined
  <2> QED BY <1>4, <1>5, <2>1, <2>2 DEF Bound
<1>9. Engaged'
  <2> SUFFICES ASSUME NEW u \in Threads, NEW i \in 1 .. Len(stack'[u]),
                      stack'[u][i].item \in Requests
               PROVE  /\ req'[stack'[u][i].item] = "running"
                      /\ Bound(u, KeyOf[stack[u][i].item])'
    BY DEF Engaged
  <2>1. CASE u = t /\ i = Len(stack[t]) + 1 /\ stack'[u][i].item = r
    BY <1>1, <1>4, <2>1 DEF Bound
  <2>2. CASE /\ i \in 1 .. Len(stack[u]) /\ stack'[u][i] = stack[u][i]
             /\ stack[u][i].item # r
    <3>1. /\ req[stack[u][i].item] = "running"
          /\ Bound(u, KeyOf[stack[u][i].item])
      BY <2>2 DEF Serial, Engaged
    <3> QED BY <1>4, <2>2, <3>1 DEF Bound
  <2> QED BY <1>7, <2>1, <2>2
<1>10. LinedOnce'
  <2> SUFFICES ASSUME NEW u \in Threads, NEW v \in Threads,
                      NEW i \in 1 .. Len(queue'[u]), NEW j \in 1 .. Len(queue'[v]),
                      queue'[u][i] = queue'[v][j]
               PROVE  u = v /\ i = j
    BY DEF LinedOnce
  <2>1. PICK k \in 1 .. Len(queue[u]) :
          /\ queue'[u][i] = queue[u][k]
          /\ u = t => k = IF i < p THEN i ELSE i + 1
          /\ u # t => k = i
    BY <1>6
  <2>2. PICK l \in 1 .. Len(queue[v]) :
          /\ queue'[v][j] = queue[v][l]
          /\ v = t => l = IF j < p THEN j ELSE j + 1
          /\ v # t => l = j
    BY <1>6
  <2>3. queue[u][k] = queue[v][l]
    BY <2>1, <2>2
  <2>4. u = v /\ k = l
    BY <2>3 DEF Serial, LinedOnce
  <2>5. i \in Int /\ j \in Int /\ p \in Int
    OBVIOUS
  <2>6. CASE u = t
    <3>1. k = (IF i < p THEN i ELSE i + 1) /\ k = (IF j < p THEN j ELSE j + 1)
      BY <2>1, <2>2, <2>4, <2>6
    <3> QED BY <2>4, <2>5, <3>1
  <2>7. CASE u # t
    BY <2>1, <2>2, <2>4, <2>7
  <2> QED BY <2>6, <2>7
<1>11. EngagedOnce'
  <2> SUFFICES ASSUME NEW u \in Threads, NEW v \in Threads,
                      NEW i \in 1 .. Len(stack'[u]), NEW j \in 1 .. Len(stack'[v]),
                      stack'[u][i].item = stack'[v][j].item,
                      stack'[u][i].item \in Requests
               PROVE  u = v /\ i = j
    BY DEF EngagedOnce
  <2>1. CASE stack'[u][i].item = r
    <3>1. u = t /\ i = Len(stack[t]) + 1
      BY <1>7, <2>1
    <3>2. stack'[v][j].item = r
      BY <2>1
    <3>3. v = t /\ j = Len(stack[t]) + 1
      BY <1>7, <3>2
    <3> QED BY <3>1, <3>3
  <2>2. CASE stack'[u][i].item # r
    <3>1. /\ i \in 1 .. Len(stack[u]) /\ stack'[u][i] = stack[u][i]
          /\ j \in 1 .. Len(stack[v]) /\ stack'[v][j] = stack[v][j]
      BY <1>7, <2>2
    <3> QED BY <3>1 DEF Serial, EngagedOnce
  <2> QED BY <2>1, <2>2
<1> QED BY <1>8, <1>9, <1>10, <1>11 DEF Serial

(* A thread starts to execute an asynchronous reply.                       *)
LEMMA PopAsyncSerial ==
  ASSUME Typed, Serial, NEW t \in Threads, PopAsync(t)
  PROVE  Serial'
<1> USE DEF Typed
<1> DEFINE c == Head(async[t])
           f == Running(c)
<1>1. c \in Calls
  BY DEF PopAsync, TypeOK
<1>2. f \in Frame /\ f.item = c /\ c \notin Requests
  BY <1>1, RequestsAssumption DEF RequestsAssumption, Running, Frame, Items
<1>3. /\ stack' = [stack EXCEPT ![t] = Append(stack[t], f)]
      /\ pc' = [pc EXCEPT ![t] = "code"] /\ pc[t] = "pop"
      /\ UNCHANGED <<hash, queue, req>>
  BY DEF PopAsync, run
<1> HIDE DEF c, f
<1>4. ASSUME NEW u \in Threads, NEW i \in 1 .. Len(stack'[u]),
             stack'[u][i].item \in Requests
      PROVE  i \in 1 .. Len(stack[u]) /\ stack'[u][i] = stack[u][i]
  <2>1. CASE u # t
    BY <1>3, <2>1 DEF TypeOK
  <2>2. CASE u = t
    <3> DEFINE n == Len(stack[t])
    <3>1. /\ n \in Nat /\ Len(stack'[t]) = n + 1 /\ stack'[t][n + 1] = f
          /\ \A j \in 1 .. n : stack'[t][j] = stack[t][j]
      <4>1. stack[t] \in Seq(Frame) /\ stack'[t] = Append(stack[t], f)
        BY <1>3 DEF TypeOK
      <4> QED BY <1>2, <4>1, AppendProperties
    <3> HIDE DEF n
    <3>2. i = n + 1 \/ i \in 1 .. n
      BY <2>2, <3>1
    <3> QED BY <1>2, <1>4, <2>2, <3>1, <3>2 DEF n
  <2> QED BY <2>1, <2>2
<1>5. Lined'
  <2> SUFFICES ASSUME NEW u \in Threads, NEW i \in 1 .. Len(queue[u])
               PROVE  /\ req[queue[u][i]] = "queued"
                      /\ Bound(u, KeyOf[queue[u][i]])' \/ Left(u)'
    BY <1>3 DEF Lined
  <2>1. /\ req[queue[u][i]] = "queued"
        /\ Bound(u, KeyOf[queue[u][i]]) \/ Left(u)
    BY DEF Serial, Lined
  <2>2. Left(u) => Left(u)'
    BY <1>3 DEF Left, TypeOK
  <2> QED BY <1>3, <2>1, <2>2 DEF Bound
<1>6. Engaged'
  <2> SUFFICES ASSUME NEW u \in Threads, NEW i \in 1 .. Len(stack'[u]),
                      stack'[u][i].item \in Requests
               PROVE  /\ req'[stack'[u][i].item] = "running"
                      /\ Bound(u, KeyOf[stack[u][i].item])'
    BY DEF Engaged
  <2>1. i \in 1 .. Len(stack[u]) /\ stack'[u][i] = stack[u][i]
    BY <1>4
  <2>2. /\ req[stack[u][i].item] = "running"
        /\ Bound(u, KeyOf[stack[u][i].item])
    BY <2>1 DEF Serial, Engaged
  <2> QED BY <1>3, <2>1, <2>2 DEF Bound
<1>7. LinedOnce'
  BY <1>3 DEF Serial, LinedOnce
<1>8. EngagedOnce'
  <2> SUFFICES ASSUME NEW u \in Threads, NEW v \in Threads,
                      NEW i \in 1 .. Len(stack'[u]), NEW j \in 1 .. Len(stack'[v]),
                      stack'[u][i].item = stack'[v][j].item,
                      stack'[u][i].item \in Requests
               PROVE  u = v /\ i = j
    BY DEF EngagedOnce
  <2>1. /\ i \in 1 .. Len(stack[u]) /\ stack'[u][i] = stack[u][i]
        /\ j \in 1 .. Len(stack[v]) /\ stack'[v][j] = stack[v][j]
    BY <1>4
  <2> QED BY <2>1 DEF Serial, EngagedOnce
<1> QED BY <1>5, <1>6, <1>7, <1>8 DEF Serial

(* The innermost invocation of a thread ends.                              *)
LEMMA FinishSerial ==
  ASSUME Typed, Serial, NEW t \in Threads, Finish(t)
  PROVE  Serial'
<1> USE DEF Typed
<1> DEFINE n == Len(stack[t])
           r == stack[t][n].item
<1>1. n \in Nat /\ n > 0 /\ n \in 1 .. n
  BY DEF Finish, Depth, TypeOK
<1>2. /\ stack' = [stack EXCEPT ![t] = SubSeq(stack[t], 1, n - 1)]
      /\ req' = IF r \in Requests THEN [req EXCEPT ![r] = "done"] ELSE req
      /\ pc' = [pc EXCEPT ![t] = Resumed(t)] /\ pc[t] = "code"
      /\ UNCHANGED <<hash, queue>>
  BY DEF Finish, Top, Depth
<1>3. /\ stack[t] \in Seq(Frame) /\ Len(stack'[t]) = n - 1
      /\ \A j \in 1 .. n - 1 : stack'[t][j] = stack[t][j]
  <2> DEFINE m == n - 1
  <2>1. stack[t] \in Seq(Frame) /\ m \in Nat /\ \A j \in 1 .. m : stack[t][j] \in Frame
    BY <1>1 DEF TypeOK
  <2>2. stack'[t] = SubSeq(stack[t], 1, m)
    BY <1>2 DEF TypeOK
  <2> HIDE DEF m
  <2>3. /\ Len(SubSeq(stack[t], 1, m)) = m
        /\ \A j \in 1 .. m : SubSeq(stack[t], 1, m)[j] = stack[t][j]
    BY <2>1, SubSeqProperties
  <2> QED BY <2>1, <2>2, <2>3 DEF m
<1>4. r \in Requests => req[r] = "running"
  BY <1>1 DEF Serial, Engaged
<1>5. ASSUME NEW u \in Threads, NEW i \in 1 .. Len(stack'[u]),
             stack'[u][i].item \in Requests
      PROVE  /\ i \in 1 .. Len(stack[u]) /\ stack'[u][i] = stack[u][i]
             /\ stack[u][i].item # r
  <2>1. CASE u # t
    <3>1. i \in 1 .. Len(stack[u]) /\ stack'[u][i] = stack[u][i]
      BY <1>2, <2>1 DEF TypeOK
    <3> QED BY <1>1, <1>5, <2>1, <3>1 DEF Serial, EngagedOnce
  <2>2. CASE u = t
    <3>1. i \in 1 .. n /\ i # n /\ stack'[t][i] = stack[t][i]
      <4>1. i \in 1 .. n - 1
        BY <1>3, <2>2
      <4> HIDE DEF n
      <4> QED BY <1>1, <1>3, <4>1
    <3> QED BY <1>1, <1>5, <2>2, <3>1 DEF Serial, EngagedOnce
  <2> QED BY <2>1, <2>2
<1> HIDE DEF r
<1>6. Lined'
  <2> SUFFICES ASSUME NEW u \in Threads, NEW i \in 1 .. Len(queue[u])
               PROVE  /\ req'[queue[u][i]] = "queued"
                      /\ Bound(u, KeyOf[queue[u][i]])' \/ Left(u)'
    BY <1>2 DEF Lined
  <2>1. /\ req[queue[u][i]] = "queued"
        /\ Bound(u, KeyOf[queue[u][i]]) \/ Left(u)
    BY DEF Serial, Lined
  <2>2. Left(u) => Left(u)'
    BY <1>2 DEF Left, TypeOK
  <2>3. queue[u][i] \in Requests
    <3>1. queue[u] \in Seq(Requests)
      BY DEF TypeOK
    <3> QED BY <3>1
  <2>4. req'[queue[u][i]] = req[queue[u][i]]
    BY <1>2, <1>4, <2>1, <2>3 DEF TypeOK
  <2> QED BY <1>2, <2>1, <2>2, <2>4 DEF Bound
<1>7. Engaged'
  <2> SUFFICES ASSUME NEW u \in Threads, NEW i \in 1 .. Len(stack'[u]),
                      stack'[u][i].item \in Requests
               PROVE  /\ req'[stack'[u][i].item] = "running"
                      /\ Bound(u, KeyOf[stack[u][i].item])'
    BY DEF Engaged
  <2>1. /\ i \in 1 .. Len(stack[u]) /\ stack'[u][i] = stack[u][i]
        /\ stack[u][i].item # r
    BY <1>5
  <2>2. /\ req[stack[u][i].item] = "running"
        /\ Bound(u, KeyOf[stack[u][i].item])
    BY <2>1 DEF Serial, Engaged
  <2>3. req'[stack[u][i].item] = req[stack[u][i].item]
    BY <1>2, <2>1 DEF TypeOK
  <2> QED BY <1>2, <2>1, <2>2, <2>3 DEF Bound
<1>8. LinedOnce'
  BY <1>2 DEF Serial, LinedOnce
<1>9. EngagedOnce'
  <2> SUFFICES ASSUME NEW u \in Threads, NEW v \in Threads,
                      NEW i \in 1 .. Len(stack'[u]), NEW j \in 1 .. Len(stack'[v]),
                      stack'[u][i].item = stack'[v][j].item,
                      stack'[u][i].item \in Requests
               PROVE  u = v /\ i = j
    BY DEF EngagedOnce
  <2>1. /\ i \in 1 .. Len(stack[u]) /\ stack'[u][i] = stack[u][i]
        /\ j \in 1 .. Len(stack[v]) /\ stack'[v][j] = stack[v][j]
    BY <1>5
  <2> QED BY <2>1 DEF Serial, EngagedOnce
<1> QED BY <1>6, <1>7, <1>8, <1>9 DEF Serial

-----------------------------------------------------------------------------
LEMMA PushedSerial ==
  ASSUME Typed, KeysOwned, Nested, Quiet, Serial, NEW r \in Requests, Push(r)
  PROVE  Serial'
<1> USE DEF Typed
<1>1. Main \in Threads /\ NoKey \notin Keys /\ NoKey # MainQueue /\ MainQueue \notin Keys
      /\ NoThread \notin Threads
  BY RequestsAssumption, ThreadsAssumption DEF RequestsAssumption, ThreadsAssumption, Threads
<1>2. CASE PushMain(r)
  <2>1. /\ queue' = [queue EXCEPT ![Main] = Append(queue[Main], r)]
        /\ req' = [req EXCEPT ![r] = "queued"] /\ stack' = stack /\ hash' = hash
        /\ Incoming(r) /\ KeyOf[r] = MainQueue /\ pc' = signalled(Main)
    BY <1>2 DEF PushMain, giop_thread_request_push
  <2>2. Bound(Main, KeyOf[r])'
    BY <1>1, <2>1 DEF Bound
  <2>3. \A t \in Threads : Left(t) => Left(t)'
    BY <2>1 DEF Left, signalled, TypeOK
  <2> QED BY <1>1, <2>1, <2>2, <2>3, PushSerial
<1>3. CASE PushOwned(r)
  <2> DEFINE o == hash[KeyOf[r]]
  <2>1. /\ queue' = [queue EXCEPT ![o] = Append(queue[o], r)]
        /\ req' = [req EXCEPT ![r] = "queued"] /\ stack' = stack /\ hash' = hash
        /\ Incoming(r) /\ KeyOf[r] \in Keys /\ pc' = signalled(o)
    BY <1>3 DEF PushOwned, giop_thread_request_push
  <2>2. o \in Threads
    BY <1>3 DEF PushOwned, TypeOK
  <2>3. \A t \in Threads : Left(t) => Left(t)'
    BY <2>1, <2>2 DEF Left, signalled, TypeOK
  <2>4. PICK u \in Threads : u = o
    BY <2>2
  <2>5. Bound(u, KeyOf[r])'
    BY <1>1, <2>1, <2>4 DEF Bound
  <2> QED BY <2>1, <2>3, <2>4, <2>5, PushSerial
<1>4. ASSUME NEW t \in Pool, PushNew(r, t) PROVE Serial'
  <2>1. t \in Threads /\ queue[t] = <<>>
    <3>1. pc[t] \in {"none", "gone"} /\ t \in Threads
      BY <1>4 DEF PushNew, Live, Threads
    <3> QED BY <3>1 DEF Quiet, NoOrphan
  <2>2. Append(queue[t], r) = <<r>>
    BY <2>1
  <2>3. /\ queue' = [queue EXCEPT ![t] = Append(queue[t], r)]
        /\ req' = [req EXCEPT ![r] = "queued"] /\ stack' = stack
        /\ Incoming(r) /\ pc' = [pc EXCEPT ![t] = "pooled"]
    BY <1>4, <2>2 DEF PushNew
  <2>4. \A k \in Keys : hash[k] \in Threads => hash'[k] = hash[k]
    BY <1>1, <1>4 DEF PushNew, TypeOK
  <2>5. Bound(t, KeyOf[r])'
    BY <1>1, <1>4 DEF PushNew, Bound, TypeOK
  <2>6. \A u \in Threads : Left(u) => Left(u)'
    BY <2>3, ThreadsAssumption DEF ThreadsAssumption, Left, TypeOK
  <2> QED BY <2>1, <2>3, <2>4, <2>5, <2>6, PushSerial
<1> QED BY <1>2, <1>3, <1>4 DEF Push

(* A step that changes neither the requests nor the key hash.              *)
LEMMA StillSerial ==
  ASSUME Typed, Serial, UNCHANGED <<hash, queue, req>>,
         \A t \in Threads :
           /\ Len(stack'[t]) = Len(stack[t])
           /\ \A i \in 1 .. Len(stack[t]) : stack'[t][i].item = stack[t][i].item
           /\ Left(t) => Left(t)'
  PROVE  Serial'
  BY SameSerial

(* A thread of the application that is about to leave its GIOPThread.      *)
Ending(t) == t \in Users /\ pc[t] = "free"

(* A thread gives its keys up: it executes no request then.                *)
LEMMA UnboundSerial ==
  ASSUME Typed, KeysOwned, Serial, NEW t \in Threads,
         stack[t] = <<>> \/ Ending(t), Nested, queue[t] = <<>> \/ Left(t)',
         UNCHANGED <<queue, req, stack>>, hash' = unbound(t),
         \A u \in Threads : Left(u) => Left(u)'
  PROVE  Serial'
<1>1. \A i \in 1 .. Len(stack[t]) : stack[t][i].item \notin Requests
  <2>1. CASE stack[t] = <<>>
    BY <2>1
  <2>2. CASE Ending(t)
    <3>1. t \notin Pool
      BY <2>2, ThreadsAssumption DEF ThreadsAssumption, Ending
    <3>2. Len(stack[t]) = 1
      BY <2>2, <3>1 DEF Ending, Nested, Good, Placed
    <3>3. 1 \in 1 .. Len(stack[t])
      BY <3>2
    <3>4. stack[t][1].item = Own
      BY <3>1, <3>2, <3>3 DEF Nested, Good, Shape
    <3> QED BY <3>2, <3>4, Distinct
  <2> QED BY <2>1, <2>2
<1>2. Idle(t)
  BY <1>1 DEF Idle
<1>3. ASSUME NEW r \in Requests, NEW u \in Threads, KeyOf[r] \in Keys, hash[KeyOf[r]] = u
      PROVE  hash'[KeyOf[r]] = u \/ Idle(u)
  <2>1. CASE u = t
    BY <1>2, <2>1
  <2>2. CASE u # t
    <3>1. KeyOf[r] \notin keys[t]
      BY <1>3, <2>2 DEF KeysOwned
    <3> QED BY <1>3, <3>1 DEF unbound
  <2> QED BY <2>1, <2>2
<1> QED BY <1>3, SameSerial

LEMMA ThreadSerial ==
  ASSUME Typed, KeysOwned, Nested, Quiet, Serial, NEW t \in Threads, ThreadStep(t)
  PROVE  Serial'
<1> USE DEF Typed
<1>1. Good(t, stack[t], pc[t]) /\ queue[t] \in Seq(Requests)
  BY DEF Nested, TypeOK
<1>2. CASE Begin(t) \/ Fetch(t) \/ KeepWaiting(t)
  BY <1>2, StillSerial DEF Begin, Fetch, KeepWaiting, Left, TypeOK
<1>3. CASE PopOldest(t)
  <2>1. queue[t] # <<>>
    BY <1>3 DEF PopOldest
  <2>2. /\ 1 \in 1 .. Len(queue[t]) /\ Head(queue[t]) = queue[t][1]
        /\ Removed(queue[t], 1, Tail(queue[t]))
    BY <1>1, <2>1, TailRemoved
  <2>3. /\ queue' = [queue EXCEPT ![t] = Tail(queue[t])]
        /\ req' = [req EXCEPT ![queue[t][1]] = "running"]
        /\ run(t, queue[t][1]) /\ hash' = hash /\ pc[t] = "pop"
    BY <1>3, <2>2 DEF PopOldest
  <2>4. queue'[t] = Tail(queue[t]) /\ \A u \in Threads : u # t => queue'[u] = queue[u]
    BY <2>3 DEF TypeOK
  <2> QED BY <2>2, <2>3, <2>4, PopSerial
<1>4. CASE PopAllowed(t)
  <2>1. PICK p \in 1 .. Len(queue[t]) : queue[t][p] = valid[t]
    BY <1>4 DEF PopAllowed, Found
  <2>2. PICK i \in 1 .. Len(queue[t]) :
          /\ queue[t][i] = valid[t]
          /\ Removed(queue[t], i, without(queue[t], valid[t]))
    BY <1>1, <2>1, WithoutRemoved
  <2>3. /\ queue' = [queue EXCEPT ![t] = without(queue[t], valid[t])]
        /\ req' = [req EXCEPT ![queue[t][i]] = "running"]
        /\ run(t, queue[t][i]) /\ hash' = hash /\ pc[t] = "pop"
    BY <1>4, <2>2 DEF PopAllowed
  <2>4. /\ queue'[t] = without(queue[t], valid[t])
        /\ \A u \in Threads : u # t => queue'[u] = queue[u]
    BY <2>3 DEF TypeOK
  <2> QED BY <2>2, <2>3, <2>4, PopSerial
<1>5. CASE Return(t)
  <2> DEFINE n == Len(stack[t])
             f == Running(Top(t).item)
  <2>1. /\ stack' = [stack EXCEPT ![t] = [stack[t] EXCEPT ![n] = f]]
        /\ UNCHANGED <<hash, queue, req>> /\ pc' = [pc EXCEPT ![t] = "code"]
        /\ pc[t] = "check"
    BY <1>5 DEF Return, Depth, TypeOK
  <2>2. stack[t] # <<>> /\ Top(t) = stack[t][n]
    BY <1>1, <1>5 DEF Return, Good, Placed, Top, Depth
  <2>3. f \in Frame /\ f.item = stack[t][n].item /\ n \in 1 .. n
    <3>1. stack[t][n] \in Frame /\ stack[t] \in Seq(Frame)
      BY <2>2, TopType DEF Top, Depth, TypeOK
    <3> QED BY <2>2, <3>1, EmptySeq DEF Frame, Running
  <2> HIDE DEF f
  <2>4. /\ Len(stack'[t]) = n
        /\ \A j \in 1 .. n : stack'[t][j] = IF j = n THEN f ELSE stack[t][j]
        /\ \A u \in Threads : u # t => stack'[u] = stack[u]
    BY <2>1, <2>3, ExceptSeq DEF TypeOK
  <2>5. \A u \in Threads : Left(u) => Left(u)'
    BY <2>1 DEF Left, TypeOK
  <2> QED BY <2>1, <2>3, <2>4, <2>5, StillSerial
<1>6. CASE HandlerLoop(t)
  <2>1. CASE giop_thread_queue_empty(t)
    <3>1. stack[t] = <<>> /\ queue[t] = <<>>
      <4>1. stack[t] = <<>> /\ Policy(t) = NoPolicy
        BY <1>1, <1>6, OuterPolicy DEF HandlerLoop, Good, Placed
      <4> QED BY <2>1, <4>1 DEF giop_thread_queue_empty
    <3>2. /\ hash' = unbound(t) /\ UNCHANGED <<queue, req, stack>>
          /\ pc' = [pc EXCEPT ![t] = "free"] /\ pc[t] = "loop"
      BY <1>6, <2>1 DEF HandlerLoop
    <3>3. \A u \in Threads : Left(u) => Left(u)'
      BY <3>2 DEF Left, TypeOK
    <3> QED BY <3>1, <3>2, <3>3, UnboundSerial
  <2>2. CASE ~ giop_thread_queue_empty(t)
    BY <1>6, <2>2, StillSerial DEF HandlerLoop, Left, TypeOK
  <2> QED BY <2>1, <2>2
<1>7. CASE giop_thread_free(t)
  <2>1. /\ hash' = unbound(t) /\ UNCHANGED <<queue, req, stack>>
        /\ pc' = [pc EXCEPT ![t] = "gone"] /\ pc[t] = "free"
    BY <1>7 DEF giop_thread_free
  <2>2. \A u \in Threads : Left(u) => Left(u)'
    BY <2>1 DEF Left, TypeOK
  <2>3. CASE t \in Pool
    <3>1. stack[t] = <<>> /\ queue[t] = <<>>
      BY <1>1, <2>1, <2>3, ThreadsAssumption
      DEF Good, Placed, Quiet, NoOrphan, ThreadsAssumption
    <3> QED BY <2>1, <2>2, <3>1, UnboundSerial
  <2>4. CASE t \in Users
    <3>1. Left(t)' /\ Ending(t)
      BY <2>1, <2>4 DEF Left, Ending, TypeOK
    <3> QED BY <2>1, <2>2, <3>1, UnboundSerial
  <2> QED BY <1>1, <2>1, <2>3, <2>4 DEF Good, Placed
<1> QED BY <1>2, <1>3, <1>4, <1>5, <1>6, <1>7, PopAsyncSerial, FinishSerial
        DEF ThreadStep, PopStep

LEMMA CodeSerial ==
  ASSUME Typed, Nested, Serial, NEW t \in Threads, Code(t)
  PROVE  Serial'
<1> USE DEF Typed
<1>1. ASSUME NEW p \in Policies \cup {NoPolicy}, NEW on \in Requests \cup {Remote},
             waiting(t, on, p),
             \A r \in Requests : req[r] \in {"queued", "running"} => req'[r] = req[r]
      PROVE  Serial'
  <2> DEFINE n == Len(stack[t])
             f == [stack[t][n] EXCEPT !.on = on, !.got = FALSE, !.policy = p]
  <2>1. /\ stack' = [stack EXCEPT ![t] = [stack[t] EXCEPT ![n] = f]]
        /\ UNCHANGED <<hash, queue>> /\ pc' = [pc EXCEPT ![t] = "check"]
        /\ pc[t] = "code"
    BY <1>1 DEF waiting, Depth, TypeOK
  <2>2. stack[t] # <<>> /\ stack[t] \in Seq(Frame) /\ n \in 1 .. n
    BY <2>1, EmptySeq DEF Nested, Good, Placed, TypeOK
  <2>3. f \in Frame /\ f.item = stack[t][n].item
    <3>1. stack[t][n] \in Frame
      BY <2>2
    <3> QED BY <3>1 DEF Frame
  <2> HIDE DEF f
  <2>4. /\ Len(stack'[t]) = n
        /\ \A j \in 1 .. n : stack'[t][j] = IF j = n THEN f ELSE stack[t][j]
        /\ \A u \in Threads : u # t => stack'[u] = stack[u]
    BY <2>1, <2>2, <2>3, ExceptSeq DEF TypeOK
  <2>5. \A u \in Threads : Left(u) => Left(u)'
    BY <2>1 DEF Left, TypeOK
  <2> QED BY <1>1, <2>1, <2>3, <2>4, <2>5, SameSerial
<1>2. ASSUME NEW p \in Policies \cup {NoPolicy}, CallRemote(t, p) PROVE Serial'
  BY <1>1, <1>2 DEF CallRemote
<1>3. ASSUME NEW p \in Policies \cup {NoPolicy}, NEW r \in Requests, CallCrossThread(t, r, p)
      PROVE  Serial'
  <2>1. waiting(t, r, p) /\ req[r] = "fresh" /\ req' = [req EXCEPT ![r] = "sent"]
    BY <1>3 DEF CallCrossThread
  <2>2. \A s \in Requests : req[s] \in {"queued", "running"} => req'[s] = req[s]
    BY <2>1 DEF TypeOK
  <2> QED BY <1>1, <2>1, <2>2
<1>4. CASE \E c \in Calls : CallAsync(t, c)
  BY <1>4, StillSerial DEF CallAsync, Left
<1>5. ASSUME NEW k \in Keys, Bind(t, k) PROVE Serial'
  <2>1. \A j \in Keys, u \in Threads : hash[j] = u => hash'[j] = u
    BY <1>5, ThreadsAssumption DEF ThreadsAssumption, Bind, TypeOK
  <2>2. UNCHANGED <<queue, req, stack, pc>>
    BY <1>5 DEF Bind
  <2> QED BY <2>1, <2>2, SameSerial DEF Left
<1>6. CASE ThreadExit(t)
  BY <1>6, StillSerial DEF ThreadExit, Left, TypeOK
<1> QED BY <1>2, <1>3, <1>4, <1>5, <1>6 DEF Code

LEMMA NextSerial ==
  ASSUME Typed, KeysOwned, Nested, Quiet, Serial, Next
  PROVE  Serial'
<1> USE DEF Typed
<1>1. Main \in Threads /\ Main \notin Users
  BY ThreadsAssumption DEF ThreadsAssumption, Threads
<1>2. ASSUME NEW t \in Threads, SpuriousWakeup(t) PROVE Serial'
  BY <1>2, StillSerial DEF SpuriousWakeup, Left, TypeOK
<1>3. ASSUME NEW t \in Threads, NEW i \in 1 .. Depth(t), Reply(t, i) PROVE Serial'
  <2> DEFINE f == [stack[t][i] EXCEPT !.got = TRUE]
  <2>1. i \in 1 .. Len(stack[t]) /\ stack[t] \in Seq(Frame)
    BY DEF Depth, TypeOK
  <2>2. f \in Frame /\ f.item = stack[t][i].item
    <3>1. stack[t][i] \in Frame
      BY <2>1
    <3> QED BY <3>1 DEF Frame
  <2>3. /\ stack' = [stack EXCEPT ![t] = [stack[t] EXCEPT ![i] = f]]
        /\ UNCHANGED <<hash, queue, req>> /\ pc' = signalled(t)
    BY <1>3 DEF Reply, TypeOK
  <2> HIDE DEF f
  <2>4. /\ Len(stack'[t]) = Len(stack[t])
        /\ \A j \in 1 .. Len(stack[t]) : stack'[t][j] = IF j = i THEN f ELSE stack[t][j]
        /\ \A u \in Threads : u # t => stack'[u] = stack[u]
    BY <2>1, <2>2, <2>3, ExceptSeq DEF TypeOK
  <2>5. \A u \in Threads : Left(u) => Left(u)'
    BY <2>3 DEF Left, signalled, TypeOK
  <2> QED BY <2>2, <2>3, <2>4, <2>5, StillSerial
<1>4. ASSUME NEW t \in Threads, NEW c \in Calls, AsyncReply(t, c) PROVE Serial'
  BY <1>4, StillSerial DEF AsyncReply, signalled, Left, TypeOK
<1>5. ASSUME NEW k \in Keys, giop_thread_key_release(k) PROVE Serial'
  <2>1. /\ hash' = [hash EXCEPT ![k] = NoThread] /\ UNCHANGED <<queue, req, stack, pc>>
        /\ \A r \in Requests : KeyOf[r] = k => req[r] \in {"fresh", "done"}
    BY <1>5 DEF giop_thread_key_release
  <2>2. \A r \in Requests : req[r] \in {"queued", "running"} =>
          \A t \in Threads : KeyOf[r] \in Keys /\ hash[KeyOf[r]] = t => hash'[KeyOf[r]] = t
    BY <2>1 DEF TypeOK
  <2> QED BY <2>1, <2>2, SameSerial DEF Left
<1>6. CASE MainStep \/ OtherSource
  BY <1>1, <1>6, StillSerial
  DEF MainStep, EnterLoop, HandleInput, Drain, OtherSource, Left, TypeOK
<1> QED BY <1>2, <1>3, <1>4, <1>5, <1>6, PushedSerial, ThreadSerial, CodeSerial
        DEF Next, Replies

LEMMA SerialInvariant == Spec => []Serial
<1>1. Serial /\ UNCHANGED vars => Serial'
  BY DEF Serial, Lined, Engaged, LinedOnce, EngagedOnce, Bound, Left, vars
<1>2. Typed /\ KeysOwned /\ Nested /\ Quiet /\ Serial /\ [Next]_vars => Serial'
  BY <1>1, NextSerial
<1> QED BY <1>2, InitSerial, TypedInvariant, KeysAlwaysOwned, NestedInvariant,
           QuietInvariant, PTL DEF Spec

(* Requests of one key never execute on two threads at once, however often *)
(* the key changes hands: a thread gives a key up only with an empty queue *)
(* and no request on its stack, and every request is queued only for the   *)
(* thread its key has.                                                     *)
THEOREM OneThreadPerKey == Spec => []PerKeySerial
<1>1. Serial => PerKeySerial
  <2> SUFFICES ASSUME Serial, NEW r \in Requests, NEW s \in Requests,
                      NEW t \in Threads, NEW u \in Threads,
                      KeyOf[r] = KeyOf[s], KeyOf[r] # NoKey,
                      Executes(t, r), Executes(u, s)
               PROVE  t = u
    BY DEF PerKeySerial
  <2>1. KeyOf[r] \in Keys \cup {MainQueue}
    BY RequestsAssumption DEF RequestsAssumption
  <2>2. Bound(t, KeyOf[r]) /\ Bound(u, KeyOf[s])
    BY DEF Executes, Depth, Serial, Engaged
  <2> QED BY <2>1, <2>2 DEF Bound
<1> QED BY <1>1, SerialInvariant, PTL

-----------------------------------------------------------------------------
(* What a step does to the invocations that thread t is in: nothing that   *)
(* matters here, a call or a return, or the start of something it took.    *)
Kept(t) ==
  /\ Len(stack'[t]) = Len(stack[t])
  /\ \A i \in 1 .. Len(stack[t]) :
       /\ stack'[t][i].item = stack[t][i].item
       /\ stack'[t][i].policy = stack[t][i].policy

Turned(t) ==
  /\ pc'[t] # "pop"
  /\ \A i \in 1 .. Len(stack'[t]) :
       i \in 1 .. Len(stack[t]) /\ stack'[t][i].item = stack[t][i].item

Started(t) ==
  /\ pc[t] = "pop" /\ pc'[t] # "pop"
  /\ \E i \in Requests \cup Calls :
       /\ stack'[t] = Append(stack[t], Running(i))
       /\ i \in Requests => Policy(t) = NoPolicy \/ valid[t] = i

Stepped(t) == Kept(t) \/ Turned(t) \/ Started(t)

LEMMA SameStepped ==
  ASSUME UNCHANGED stack
  PROVE  \A t \in Threads : Stepped(t)
  BY DEF Stepped, Kept

LEMMA ThreadStepped ==
  ASSUME Typed, Nested, NEW t \in Threads, ThreadStep(t)
  PROVE  \A u \in Threads : Stepped(u)
<1> USE DEF Typed
<1>1. Good(t, stack[t], pc[t]) /\ stack[t] \in Seq(Frame) /\ Len(stack[t]) \in Nat
  BY DEF Nested, TypeOK
<1>2. ASSUME NEW i \in Requests \cup Calls, pc[t] = "pop", run(t, i),
             i \in Requests => Policy(t) = NoPolicy \/ valid[t] = i
      PROVE  \A u \in Threads : Stepped(u)
  <2>1. stack'[t] = Append(stack[t], Running(i)) /\ pc'[t] = "code"
    BY <1>2 DEF run, TypeOK
  <2>2. \A u \in Threads : u # t => stack'[u] = stack[u]
    BY <1>2 DEF run, TypeOK
  <2>3. Started(t)
    BY <1>2, <2>1 DEF Started
  <2> QED BY <2>2, <2>3 DEF Stepped, Kept
<1>3. CASE PopAsync(t)
  <2>1. Head(async[t]) \in Calls /\ Head(async[t]) \notin Requests
    BY <1>3, RequestsAssumption DEF RequestsAssumption, PopAsync, TypeOK
  <2> QED BY <1>2, <1>3, <2>1 DEF PopAsync
<1>4. CASE PopOldest(t)
  <2>1. Head(queue[t]) \in Requests
    BY <1>4 DEF PopOldest, TypeOK
  <2> QED BY <1>2, <1>4, <2>1 DEF PopOldest
<1>5. CASE PopAllowed(t)
  <2>1. valid[t] \in Requests
    BY <1>5 DEF PopAllowed, TypeOK
  <2> QED BY <1>2, <1>5, <2>1 DEF PopAllowed
<1>6. CASE Return(t)
  <2> DEFINE n == Len(stack[t])
             f == Running(Top(t).item)
  <2>1. /\ stack' = [stack EXCEPT ![t] = [stack[t] EXCEPT ![n] = f]]
        /\ pc' = [pc EXCEPT ![t] = "code"] /\ pc[t] = "check"
    BY <1>6 DEF Return, Depth, TypeOK
  <2>2. stack[t] # <<>> /\ Top(t) = stack[t][n] /\ n \in 1 .. n
    BY <1>1, <2>1, EmptySeq DEF Good, Placed, Top, Depth
  <2>3. f.item = stack[t][n].item
    BY <2>2 DEF Running
  <2> HIDE DEF f
  <2>4. /\ Len(stack'[t]) = n /\ pc'[t] # "pop"
        /\ \A j \in 1 .. n : stack'[t][j].item = stack[t][j].item
        /\ \A u \in Threads : u # t => stack'[u] = stack[u]
    BY <1>1, <2>1, <2>2, <2>3 DEF TypeOK
  <2>5. Turned(t)
    BY <2>4 DEF Turned
  <2> QED BY <2>4, <2>5 DEF Stepped, Kept
<1>7. CASE Finish(t)
  <2> DEFINE n == Len(stack[t])
             m == n - 1
  <2>1. /\ stack' = [stack EXCEPT ![t] = SubSeq(stack[t], 1, m)]
        /\ pc' = [pc EXCEPT ![t] = Resumed(t)] /\ n > 0
    BY <1>7 DEF Finish, Depth
  <2>2. m \in Nat /\ \A j \in 1 .. m : stack[t][j] \in Frame
    BY <1>1, <2>1
  <2>3. n \in Nat /\ m = n - 1 /\ stack'[t] = SubSeq(stack[t], 1, m)
    BY <1>1, <2>1 DEF TypeOK
  <2> HIDE DEF m
  <2>4. /\ Len(SubSeq(stack[t], 1, m)) = m
        /\ \A j \in 1 .. m : SubSeq(stack[t], 1, m)[j] = stack[t][j]
    BY <2>2, SubSeqProperties
  <2>5. \A j \in 1 .. Len(stack'[t]) : j \in 1 .. n /\ stack'[t][j] = stack[t][j]
    <3> HIDE DEF n
    <3> QED BY <2>2, <2>3, <2>4
  <2>6. pc'[t] # "pop"
    BY <2>1 DEF Resumed, TypeOK
  <2>7. Turned(t)
    BY <2>5, <2>6 DEF Turned
  <2>8. \A u \in Threads : u # t => stack'[u] = stack[u]
    BY <2>1 DEF TypeOK
  <2> QED BY <2>7, <2>8 DEF Stepped, Kept
<1>8. CASE \/ Begin(t) \/ Fetch(t) \/ KeepWaiting(t) \/ HandlerLoop(t) \/ giop_thread_free(t)
  BY <1>8, SameStepped DEF Begin, Fetch, KeepWaiting, HandlerLoop, giop_thread_free
<1> QED BY <1>3, <1>4, <1>5, <1>6, <1>7, <1>8 DEF ThreadStep, PopStep

LEMMA NextStepped ==
  ASSUME Typed, Nested, Next
  PROVE  \A t \in Threads : Stepped(t)
<1> USE DEF Typed
<1>1. ASSUME NEW t \in Threads, Code(t) PROVE \A u \in Threads : Stepped(u)
  <2>1. ASSUME NEW p \in Policies \cup {NoPolicy}, NEW on \in Requests \cup {Remote},
               waiting(t, on, p)
        PROVE  \A u \in Threads : Stepped(u)
    <3> DEFINE n == Len(stack[t])
               f == [stack[t][n] EXCEPT !.on = on, !.got = FALSE, !.policy = p]
    <3>1. /\ stack' = [stack EXCEPT ![t] = [stack[t] EXCEPT ![n] = f]]
          /\ pc' = [pc EXCEPT ![t] = "check"] /\ pc[t] = "code"
      BY <2>1 DEF waiting, Depth, TypeOK
    <3>2. stack[t] # <<>> /\ stack[t] \in Seq(Frame) /\ n \in 1 .. n
      BY <3>1, EmptySeq DEF Nested, Good, Placed, TypeOK
    <3>3. f.item = stack[t][n].item
      <4>1. stack[t][n] \in Frame
        BY <3>2
      <4> QED BY <4>1 DEF Frame
    <3> HIDE DEF f
    <3>4. /\ Len(stack'[t]) = n /\ pc'[t] # "pop"
          /\ \A j \in 1 .. n : stack'[t][j].item = stack[t][j].item
          /\ \A u \in Threads : u # t => stack'[u] = stack[u]
      BY <3>1, <3>2, <3>3 DEF TypeOK
    <3>5. Turned(t)
      BY <3>4 DEF Turned
    <3> QED BY <3>4, <3>5 DEF Stepped, Kept
  <2>2. ASSUME NEW p \in Policies \cup {NoPolicy},
               \/ CallRemote(t, p)
               \/ \E r \in Requests : CallCrossThread(t, r, p)
        PROVE  \A u \in Threads : Stepped(u)
    BY <2>1, <2>2 DEF CallRemote, CallCrossThread
  <2>3. CASE \/ \E c \in Calls : CallAsync(t, c)
             \/ \E k \in Keys : Bind(t, k)
             \/ ThreadExit(t)
    BY <2>3, SameStepped DEF CallAsync, Bind, ThreadExit
  <2> QED BY <1>1, <2>2, <2>3 DEF Code
<1>2. ASSUME NEW t \in Threads, NEW i \in 1 .. Depth(t), Reply(t, i)
      PROVE  \A u \in Threads : Stepped(u)
  <2> DEFINE f == [stack[t][i] EXCEPT !.got = TRUE]
  <2>1. i \in 1 .. Len(stack[t]) /\ stack[t] \in Seq(Frame)
    BY DEF Depth, TypeOK
  <2>2. f.item = stack[t][i].item /\ f.policy = stack[t][i].policy
    <3>1. stack[t][i] \in Frame
      BY <2>1
    <3> QED BY <3>1 DEF Frame
  <2>3. stack' = [stack EXCEPT ![t] = [stack[t] EXCEPT ![i] = f]]
    BY <1>2 DEF Reply, TypeOK
  <2> HIDE DEF f
  <2>4. Kept(t)
    BY <2>1, <2>2, <2>3 DEF Kept, TypeOK
  <2>5. \A u \in Threads : u # t => stack'[u] = stack[u]
    BY <2>3 DEF TypeOK
  <2> QED BY <2>4, <2>5 DEF Stepped, Kept
<1>3. ASSUME NEW r \in Requests, Push(r) PROVE \A u \in Threads : Stepped(u)
  BY <1>3, SameStepped DEF Push, PushMain, PushOwned, PushNew
<1>4. ASSUME NEW t \in Threads, SpuriousWakeup(t) \/ \E c \in Calls : AsyncReply(t, c)
      PROVE  \A u \in Threads : Stepped(u)
  BY <1>4, SameStepped DEF SpuriousWakeup, AsyncReply
<1>5. CASE MainStep \/ OtherSource \/ \E k \in Keys : giop_thread_key_release(k)
  BY <1>5, SameStepped
  DEF MainStep, EnterLoop, HandleInput, Drain, OtherSource, giop_thread_key_release
<1> QED BY <1>1, <1>2, <1>3, <1>4, <1>5, ThreadStepped DEF Next, Replies

(* The request that first_valid_request found is one the policy allows.    *)
Chosen ==
  \A t \in Threads : pc[t] = "pop" /\ valid[t] # NoRequest => PoaOf[valid[t]] \in Policy(t)

LEMMA SteadyChosen ==
  ASSUME Typed, Chosen, \A t \in Threads : Stepped(t),
         \A t \in Threads : pc'[t] = "pop" => pc[t] = "pop" /\ valid'[t] = valid[t]
  PROVE  Chosen'
<1> SUFFICES ASSUME NEW t \in Threads, pc'[t] = "pop", valid'[t] # NoRequest
             PROVE  PoaOf[valid'[t]] \in Policy(t)'
  BY DEF Chosen
<1>1. pc[t] = "pop" /\ valid'[t] = valid[t]
  OBVIOUS
<1>2. Kept(t)
  BY DEF Stepped, Turned, Started
<1>3. Policy(t)' = Policy(t)
  BY <1>2, SamePolicy DEF Kept, Typed
<1> QED BY <1>1, <1>3 DEF Chosen

LEMMA FetchChosen ==
  ASSUME Typed, Chosen, NEW t \in Threads, Fetch(t)
  PROVE  Chosen'
<1> USE DEF Typed
<1> SUFFICES ASSUME NEW u \in Threads, pc'[u] = "pop", valid'[u] # NoRequest
             PROVE  PoaOf[valid'[u]] \in Policy(u)'
  BY DEF Chosen
<1>1. Policy(u)' = Policy(u)
  BY SamePolicy DEF Fetch
<1>2. CASE u = t
  <2>1. valid'[t] = first_valid_request(t)
    BY DEF Fetch, TypeOK
  <2>2. PICK i \in Allowed(t) : queue[t][i] = first_valid_request(t)
    BY <1>2, <2>1, FirstValid
  <2> QED BY <1>1, <1>2, <2>1, <2>2 DEF Allowed
<1>3. CASE u # t
  <2>1. pc[u] = "pop" /\ valid'[u] = valid[u]
    BY <1>3 DEF Fetch, TypeOK
  <2> QED BY <1>1, <2>1 DEF Chosen
<1> QED BY <1>2, <1>3

LEMMA NextChosen ==
  ASSUME Typed, Nested, Chosen, Next
  PROVE  Chosen'
<1> USE DEF Typed
<1>1. \A t \in Threads : Stepped(t)
  BY NextStepped
<1>2. CASE OnlyAppended
  BY <1>1, <1>2, SteadyChosen DEF OnlyAppended
<1>3. ASSUME NEW t \in Threads, ThreadStep(t) PROVE Chosen'
  <2>1. CASE Fetch(t)
    BY <2>1, FetchChosen
  <2>2. CASE Begin(t) \/ KeepWaiting(t) \/ Return(t) \/ HandlerLoop(t) \/ giop_thread_free(t)
    BY <1>1, <2>2, SteadyChosen
    DEF Begin, KeepWaiting, Return, HandlerLoop, giop_thread_free, TypeOK
  <2>3. CASE PopStep(t)
    <3>1. \A u \in Threads : u # t => pc'[u] = pc[u] /\ valid'[u] = valid[u]
      BY <2>3 DEF PopStep, PopAsync, PopOldest, PopAllowed, run, TypeOK
    <3>2. pc'[t] = "code"
      BY <2>3 DEF PopStep, PopAsync, PopOldest, PopAllowed, run, TypeOK
    <3> QED BY <1>1, <3>1, <3>2, SteadyChosen
  <2>4. CASE Finish(t)
    <3>1. Resumed(t) # "pop"
      BY DEF Resumed
    <3>2. pc' = [pc EXCEPT ![t] = Resumed(t)] /\ UNCHANGED valid
      BY <2>4 DEF Finish
    <3> QED BY <1>1, <3>1, <3>2, SteadyChosen DEF TypeOK
  <2> QED BY <1>3, <2>1, <2>2, <2>3, <2>4 DEF ThreadStep
<1>4. ASSUME NEW t \in Threads, SpuriousWakeup(t) PROVE OnlyAppended
  BY <1>4 DEF SpuriousWakeup, OnlyAppended, TypeOK
<1>5. ASSUME NEW t \in Threads, NEW i \in 1 .. Depth(t), Reply(t, i) PROVE OnlyAppended
  BY <1>5 DEF Reply, signalled, OnlyAppended, TypeOK
<1>6. ASSUME NEW t \in Threads, NEW c \in Calls, AsyncReply(t, c) PROVE OnlyAppended
  BY <1>6 DEF AsyncReply, signalled, OnlyAppended, TypeOK
<1>7. ASSUME NEW k \in Keys, giop_thread_key_release(k) PROVE OnlyAppended
  BY <1>7 DEF giop_thread_key_release, OnlyAppended
<1> QED BY <1>2, <1>3, <1>4, <1>5, <1>6, <1>7, PushFound, CodeFound, MainFound
        DEF Next, Replies

(* No step starts a request that the policy of the thread forbids.         *)
LEMMA StepObeys ==
  ASSUME Typed, Chosen, NEW t \in Threads, Stepped(t), NEW r \in Requests,
         Executes(t, r)', ~ Executes(t, r), Policy(t) # NoPolicy
  PROVE  PoaOf[r] \in Policy(t)
<1> USE DEF Typed
<1>1. PICK i \in 1 .. Len(stack'[t]) : stack'[t][i].item = r
  BY DEF Executes, Depth
<1>2. \A j \in 1 .. Len(stack[t]) : stack[t][j].item # r
  BY DEF Executes, Depth
<1>3. Started(t)
  BY <1>1, <1>2 DEF Stepped, Kept, Turned
<1>4. PICK c \in Requests \cup Calls :
        /\ stack'[t] = Append(stack[t], Running(c))
        /\ c \in Requests => Policy(t) = NoPolicy \/ valid[t] = c
  BY <1>3 DEF Started
<1> DEFINE f == Running(c)
           n == Len(stack[t])
<1>5. f \in Frame /\ f.item = c /\ stack[t] \in Seq(Frame) /\ n \in Nat
  <2>1. f \in Frame /\ f.item = c
    BY DEF Running, Frame, Items
  <2>2. stack[t] \in Seq(Frame)
    BY DEF TypeOK
  <2> QED BY <2>1, <2>2
<1> HIDE DEF f
<1>6. /\ Len(stack'[t]) = n + 1 /\ stack'[t][n + 1] = f
      /\ \A j \in 1 .. n : stack'[t][j] = stack[t][j]
  <2>1. stack'[t] = Append(stack[t], f)
    BY <1>4 DEF f
  <2> QED BY <1>5, <2>1, AppendProperties
<1> HIDE DEF n
<1>7. i = n + 1
  <2>1. i = n + 1 \/ i \in 1 .. n
    BY <1>5, <1>6
  <2> QED BY <1>1, <1>2, <1>6, <2>1 DEF n
<1>8. c = r
  BY <1>1, <1>5, <1>6, <1>7
<1>9. valid[t] = r /\ r # NoRequest /\ pc[t] = "pop"
  BY <1>3, <1>4, <1>8, RequestsAssumption DEF RequestsAssumption, Started
<1> QED BY <1>9 DEF Chosen

(* A thread that waits under an invocation policy starts no request that   *)
(* the policy forbids, though the policy was looked at without a lock, in  *)
(* first_valid_request, and the request taken later.                       *)
THEOREM PolicyKept == Spec => PolicyObeyed
<1>1. Init => Chosen
  <2> SUFFICES ASSUME Init, NEW t \in Threads PROVE pc[t] # "pop"
    BY DEF Chosen
  <2> QED BY DEF Init
<1>2. Chosen /\ UNCHANGED vars => Chosen'
  <2> SUFFICES ASSUME Chosen, UNCHANGED vars, NEW t \in Threads, pc'[t] = "pop",
                      valid'[t] # NoRequest
               PROVE  PoaOf[valid'[t]] \in Policy(t)'
    BY DEF Chosen
  <2>1. Policy(t)' = Policy(t)
    BY DEF Policy, Pushed, Depth, vars
  <2> QED BY <2>1 DEF Chosen, vars
<1>3. Typed /\ Nested /\ Chosen /\ [Next]_vars => Chosen'
  BY <1>2, NextChosen
<1>4. Typed /\ Nested /\ Chosen /\ [Next]_vars
        => [\A t \in Threads, r \in Requests :
              Executes(t, r)' /\ ~ Executes(t, r) /\ Policy(t) # NoPolicy
                => PoaOf[r] \in Policy(t)]_vars
  <2>1. Typed /\ Nested /\ Chosen /\ Next
          => \A t \in Threads, r \in Requests :
               Executes(t, r)' /\ ~ Executes(t, r) /\ Policy(t) # NoPolicy
                 => PoaOf[r] \in Policy(t)
    BY NextStepped, StepObeys
  <2> QED BY <2>1
<1> QED BY <1>1, <1>3, <1>4, TypedInvariant, NestedInvariant, PTL DEF Spec, PolicyObeyed

-----------------------------------------------------------------------------
(***************************************************************************)
(* The refinement: every step of GiopThread is one step of SerialDispatch, *)
(* or none.                                                                *)
(***************************************************************************)
(* A request that is queued is in a queue.                                 *)
Queued ==
  \A r \in Requests : req[r] = "queued" =>
    \E t \in Threads : \E i \in 1 .. Len(queue[t]) : queue[t][i] = r

(* What a thread is about to take under a policy is the oldest request for *)
(* its POA, though it was found without the lock.                          *)
Foremost ==
  \A t \in Threads : pc[t] = "pop" /\ valid[t] # NoRequest =>
    \E j \in 1 .. Len(queue[t]) :
      /\ queue[t][j] = valid[t]
      /\ \A i \in 1 .. j - 1 : PoaOf[queue[t][i]] # PoaOf[valid[t]]

Waiting == Queued /\ Foremost

LEMMA FetchForemost ==
  ASSUME Typed, Foremost, NEW t \in Threads, Fetch(t)
  PROVE  Foremost'
<1> USE DEF Typed
<1> SUFFICES ASSUME NEW u \in Threads, pc'[u] = "pop", valid'[u] # NoRequest
             PROVE  \E j \in 1 .. Len(queue[u]) :
                      /\ queue[u][j] = valid'[u]
                      /\ \A i \in 1 .. j - 1 : PoaOf[queue[u][i]] # PoaOf[valid'[u]]
  <2>1. queue' = queue
    BY DEF Fetch
  <2> QED BY <2>1 DEF Foremost
<1>1. CASE u = t
  <2>1. valid'[t] = first_valid_request(t)
    BY DEF Fetch, TypeOK
  <2>2. PICK p \in Allowed(t) :
          queue[t][p] = first_valid_request(t) /\ \A k \in Allowed(t) : p <= k
    BY <1>1, <2>1, FirstValid
  <2>3. p \in 1 .. Len(queue[t]) /\ Len(queue[t]) \in Nat /\ PoaOf[valid'[t]] \in Policy(t)
    BY <2>1, <2>2 DEF Allowed, TypeOK
  <2>4. ASSUME NEW i \in 1 .. p - 1 PROVE PoaOf[queue[t][i]] # PoaOf[valid'[t]]
    <3>1. i \in 1 .. Len(queue[t]) /\ ~ p <= i
      BY <2>3
    <3>2. i \notin Allowed(t)
      BY <2>2, <3>1
    <3> QED BY <2>3, <3>1, <3>2 DEF Allowed
  <2> QED BY <1>1, <2>1, <2>2, <2>3, <2>4
<1>2. CASE u # t
  <2>1. pc[u] = "pop" /\ valid'[u] = valid[u]
    BY <1>2 DEF Fetch, TypeOK
  <2> QED BY <2>1 DEF Foremost
<1> QED BY <1>1, <1>2

LEMMA AppendedForemost ==
  ASSUME Typed, Foremost, OnlyAppended
  PROVE  Foremost'
<1> USE DEF Typed
<1> SUFFICES ASSUME NEW t \in Threads, pc'[t] = "pop", valid'[t] # NoRequest
             PROVE  \E j \in 1 .. Len(queue'[t]) :
                      /\ queue'[t][j] = valid'[t]
                      /\ \A i \in 1 .. j - 1 : PoaOf[queue'[t][i]] # PoaOf[valid'[t]]
  BY DEF Foremost
<1>1. pc[t] = "pop" /\ valid'[t] = valid[t]
  BY DEF OnlyAppended
<1>2. PICK j \in 1 .. Len(queue[t]) :
        /\ queue[t][j] = valid[t]
        /\ \A i \in 1 .. j - 1 : PoaOf[queue[t][i]] # PoaOf[valid[t]]
  BY <1>1 DEF Foremost
<1>3. CASE queue'[t] = queue[t]
  BY <1>1, <1>2, <1>3
<1>4. ASSUME NEW r \in Requests, queue'[t] = Append(queue[t], r)
      PROVE  /\ j \in 1 .. Len(queue'[t])
             /\ \A i \in 1 .. j : queue'[t][i] = queue[t][i]
  <2> DEFINE n == Len(queue[t])
  <2>1. queue[t] \in Seq(Requests) /\ n \in Nat
    BY DEF TypeOK
  <2>2. Len(queue'[t]) = n + 1 /\ \A l \in 1 .. n : queue'[t][l] = queue[t][l]
    BY <1>4, <2>1, AppendProperties
  <2> HIDE DEF n
  <2>3. \A i \in 1 .. j : i \in 1 .. n
    BY <2>1 DEF n
  <2>4. j \in 1 .. n + 1
    BY <2>1 DEF n
  <2> QED BY <2>2, <2>3, <2>4
<1>5. j \in 1 .. j /\ \A i \in 1 .. j - 1 : i \in 1 .. j
  OBVIOUS
<1> QED BY <1>1, <1>2, <1>3, <1>4, <1>5 DEF OnlyAppended

LEMMA NextForemost ==
  ASSUME Typed, Foremost, Next
  PROVE  Foremost'
<1> USE DEF Typed
<1>1. CASE OnlyAppended
  BY <1>1, AppendedForemost
<1>2. ASSUME NEW t \in Threads, ThreadStep(t) PROVE Foremost'
  <2>1. CASE Fetch(t)
    BY <2>1, FetchForemost
  <2>2. CASE Begin(t) \/ KeepWaiting(t) \/ Return(t) \/ HandlerLoop(t) \/ giop_thread_free(t)
    <3>1. OnlyAppended
      BY <2>2 DEF Begin, KeepWaiting, Return, HandlerLoop, giop_thread_free, OnlyAppended, TypeOK
    <3> QED BY <3>1, AppendedForemost
  <2>3. CASE PopStep(t)
    <3>1. \A u \in Threads : u # t =>
            pc'[u] = pc[u] /\ valid'[u] = valid[u] /\ queue'[u] = queue[u]
      BY <2>3 DEF PopStep, PopAsync, PopOldest, PopAllowed, run, TypeOK
    <3>2. pc'[t] = "code"
      BY <2>3 DEF PopStep, PopAsync, PopOldest, PopAllowed, run, TypeOK
    <3> QED BY <3>1, <3>2, AppendedForemost DEF OnlyAppended
  <2>4. CASE Finish(t)
    <3>1. Resumed(t) # "pop"
      BY DEF Resumed
    <3>2. pc' = [pc EXCEPT ![t] = Resumed(t)] /\ UNCHANGED <<valid, queue>>
      BY <2>4 DEF Finish
    <3> QED BY <3>1, <3>2, AppendedForemost DEF OnlyAppended, TypeOK
  <2> QED BY <1>2, <2>1, <2>2, <2>3, <2>4 DEF ThreadStep
<1>3. ASSUME NEW t \in Threads, SpuriousWakeup(t) PROVE OnlyAppended
  BY <1>3 DEF SpuriousWakeup, OnlyAppended, TypeOK
<1>4. ASSUME NEW t \in Threads, NEW i \in 1 .. Depth(t), Reply(t, i) PROVE OnlyAppended
  BY <1>4 DEF Reply, signalled, OnlyAppended, TypeOK
<1>5. ASSUME NEW t \in Threads, NEW c \in Calls, AsyncReply(t, c) PROVE OnlyAppended
  BY <1>5 DEF AsyncReply, signalled, OnlyAppended, TypeOK
<1>6. ASSUME NEW k \in Keys, giop_thread_key_release(k) PROVE OnlyAppended
  BY <1>6 DEF giop_thread_key_release, OnlyAppended
<1> QED BY <1>1, <1>2, <1>3, <1>4, <1>5, <1>6, PushFound, CodeFound, MainFound
        DEF Next, Replies

(* A step that queues and starts nothing.                                  *)
LEMMA SameQueued ==
  ASSUME Queued, UNCHANGED queue,
         \A r \in Requests : req'[r] = "queued" => req[r] = "queued"
  PROVE  Queued'
  BY DEF Queued

LEMMA PushQueued ==
  ASSUME Typed, Queued, NEW r \in Requests, NEW o \in Threads,
         queue' = [queue EXCEPT ![o] = Append(queue[o], r)],
         req' = [req EXCEPT ![r] = "queued"]
  PROVE  Queued'
<1> USE DEF Typed
<1> DEFINE n == Len(queue[o])
<1>1. queue[o] \in Seq(Requests) /\ n \in Nat
  BY DEF TypeOK
<1>2. /\ Len(queue'[o]) = n + 1 /\ queue'[o][n + 1] = r
      /\ \A l \in 1 .. n : queue'[o][l] = queue[o][l]
      /\ \A t \in Threads : t # o => queue'[t] = queue[t]
  <2>1. queue'[o] = Append(queue[o], r) /\ \A t \in Threads : t # o => queue'[t] = queue[t]
    BY DEF TypeOK
  <2> QED BY <1>1, <2>1, AppendProperties
<1>3. n + 1 \in 1 .. n + 1 /\ \A l \in 1 .. n : l \in 1 .. n + 1
  <2> HIDE DEF n
  <2> QED BY <1>1
<1> SUFFICES ASSUME NEW s \in Requests, req'[s] = "queued"
             PROVE  \E t \in Threads : \E i \in 1 .. Len(queue'[t]) : queue'[t][i] = s
  BY DEF Queued
<1>4. CASE s = r
  BY <1>2, <1>3, <1>4
<1>5. CASE s # r
  <2>1. PICK t \in Threads : \E i \in 1 .. Len(queue[t]) : queue[t][i] = s
    BY <1>5 DEF Queued, TypeOK
  <2>2. CASE t # o
    BY <1>2, <2>1, <2>2
  <2>3. CASE t = o
    BY <1>2, <1>3, <2>1, <2>3
  <2> QED BY <2>2, <2>3
<1> QED BY <1>4, <1>5

(* Only the request that is taken leaves the queue.                        *)
LEMMA PopQueued ==
  ASSUME Typed, Queued, NEW t \in Threads, NEW p \in 1 .. Len(queue[t]),
         Removed(queue[t], p, queue'[t]),
         \A u \in Threads : u # t => queue'[u] = queue[u],
         req' = [req EXCEPT ![queue[t][p]] = "running"]
  PROVE  Queued'
<1> USE DEF Typed
<1> DEFINE n == Len(queue[t])
<1>1. n \in Nat /\ p \in 1 .. n /\ queue[t][p] \in Requests
  BY DEF TypeOK
<1>2. /\ Len(queue'[t]) = n - 1
      /\ \A j \in 1 .. n - 1 : queue'[t][j] = queue[t][IF j < p THEN j ELSE j + 1]
  BY DEF Removed
<1> SUFFICES ASSUME NEW s \in Requests, req'[s] = "queued"
             PROVE  \E u \in Threads : \E i \in 1 .. Len(queue'[u]) : queue'[u][i] = s
  BY DEF Queued
<1>3. s # queue[t][p] /\ req[s] = "queued"
  BY <1>1 DEF TypeOK
<1>4. PICK u \in Threads : \E i \in 1 .. Len(queue[u]) : queue[u][i] = s
  BY <1>3 DEF Queued
<1>5. CASE u # t
  BY <1>4, <1>5
<1>6. CASE u = t
  <2>1. PICK i \in 1 .. n : queue[t][i] = s /\ i # p
    BY <1>3, <1>4, <1>6
  <2> HIDE DEF n
  <2>2. PICK j \in 1 .. n - 1 : i = IF j < p THEN j ELSE j + 1
    <3>1. CASE i < p
      <4>1. i \in 1 .. n - 1
        BY <1>1, <2>1, <3>1
      <4> QED BY <3>1, <4>1
    <3>2. CASE ~ i < p
      <4>1. i - 1 \in 1 .. n - 1 /\ ~ i - 1 < p /\ (i - 1) + 1 = i
        BY <1>1, <2>1, <3>2
      <4> QED BY <4>1
    <3> QED BY <3>1, <3>2
  <2> QED BY <1>2, <1>6, <2>1, <2>2
<1> QED BY <1>5, <1>6

LEMMA NextQueued ==
  ASSUME Typed, Nested, Quiet, Queued, Next
  PROVE  Queued'
<1> USE DEF Typed
<1>1. ASSUME NEW r \in Requests, Push(r) PROVE Queued'
  <2>1. Main \in Threads
    BY DEF Threads
  <2>2. CASE PushMain(r)
    BY <2>1, <2>2, PushQueued DEF PushMain, giop_thread_request_push
  <2>3. CASE PushOwned(r)
    <3>1. PICK o \in Threads : o = hash[KeyOf[r]]
      BY <2>3 DEF PushOwned, TypeOK
    <3>2. /\ queue' = [queue EXCEPT ![o] = Append(queue[o], r)]
          /\ req' = [req EXCEPT ![r] = "queued"]
      BY <2>3, <3>1 DEF PushOwned, giop_thread_request_push
    <3> QED BY <3>2, PushQueued
  <2>4. ASSUME NEW t \in Pool, PushNew(r, t) PROVE Queued'
    <3>1. t \in Threads /\ queue[t] = <<>>
      BY <2>4 DEF PushNew, Live, Threads, TypeOK, PCs, Quiet, NoOrphan
    <3>2. Append(queue[t], r) = <<r>>
      BY <3>1
    <3>3. /\ queue' = [queue EXCEPT ![t] = Append(queue[t], r)]
          /\ req' = [req EXCEPT ![r] = "queued"]
      BY <2>4, <3>2 DEF PushNew
    <3> QED BY <3>1, <3>3, PushQueued
  <2> QED BY <1>1, <2>2, <2>3, <2>4 DEF Push
<1>2. ASSUME NEW t \in Threads, ThreadStep(t) PROVE Queued'
  <2>1. queue[t] \in Seq(Requests)
    BY DEF TypeOK
  <2>2. CASE PopOldest(t)
    <3>1. /\ 1 \in 1 .. Len(queue[t]) /\ Head(queue[t]) = queue[t][1]
          /\ Removed(queue[t], 1, Tail(queue[t]))
      BY <2>1, <2>2, TailRemoved DEF PopOldest
    <3>2. /\ queue'[t] = Tail(queue[t])
          /\ \A u \in Threads : u # t => queue'[u] = queue[u]
          /\ req' = [req EXCEPT ![queue[t][1]] = "running"]
      BY <2>2, <3>1 DEF PopOldest, TypeOK
    <3> QED BY <3>1, <3>2, PopQueued
  <2>3. CASE PopAllowed(t)
    <3>1. PICK p \in 1 .. Len(queue[t]) : queue[t][p] = valid[t]
      BY <2>3 DEF PopAllowed, Found
    <3>2. PICK i \in 1 .. Len(queue[t]) :
            /\ queue[t][i] = valid[t]
            /\ Removed(queue[t], i, without(queue[t], valid[t]))
      BY <2>1, <3>1, WithoutRemoved
    <3>3. /\ queue'[t] = without(queue[t], valid[t])
          /\ \A u \in Threads : u # t => queue'[u] = queue[u]
          /\ req' = [req EXCEPT ![queue[t][i]] = "running"]
      BY <2>3, <3>2 DEF PopAllowed, TypeOK
    <3> QED BY <3>2, <3>3, PopQueued
  <2>4. CASE Finish(t)
    <3>1. /\ queue' = queue
          /\ req' = IF Top(t).item \in Requests THEN [req EXCEPT ![Top(t).item] = "done"]
                    ELSE req
      BY <2>4 DEF Finish
    <3> QED BY <3>1, SameQueued DEF TypeOK
  <2>5. CASE \/ Begin(t) \/ Fetch(t) \/ PopAsync(t) \/ KeepWaiting(t) \/ Return(t)
             \/ HandlerLoop(t) \/ giop_thread_free(t)
    BY <2>5, SameQueued
    DEF Begin, Fetch, PopAsync, KeepWaiting, Return, HandlerLoop, giop_thread_free
  <2> QED BY <1>2, <2>2, <2>3, <2>4, <2>5 DEF ThreadStep, PopStep
<1>3. ASSUME NEW t \in Threads, Code(t) PROVE Queued'
  <2>1. ASSUME NEW p \in Policies \cup {NoPolicy}, NEW r \in Requests, CallCrossThread(t, r, p)
        PROVE  Queued'
    <3>1. req' = [req EXCEPT ![r] = "sent"] /\ queue' = queue
      BY <2>1 DEF CallCrossThread, waiting
    <3> QED BY <3>1, SameQueued DEF TypeOK
  <2>2. CASE \/ \E p \in Policies \cup {NoPolicy} : CallRemote(t, p)
             \/ \E c \in Calls : CallAsync(t, c)
             \/ \E k \in Keys : Bind(t, k)
             \/ ThreadExit(t)
    BY <2>2, SameQueued DEF CallRemote, waiting, CallAsync, Bind, ThreadExit
  <2> QED BY <1>3, <2>1, <2>2 DEF Code
<1>4. ASSUME NEW t \in Threads,
             SpuriousWakeup(t) \/ Replies(t) \/ \E c \in Calls : AsyncReply(t, c)
      PROVE  Queued'
  BY <1>4, SameQueued DEF SpuriousWakeup, Replies, Reply, AsyncReply
<1>5. CASE MainStep \/ OtherSource \/ \E k \in Keys : giop_thread_key_release(k)
  BY <1>5, SameQueued
  DEF MainStep, EnterLoop, HandleInput, Drain, OtherSource, giop_thread_key_release
<1> QED BY <1>1, <1>2, <1>3, <1>4, <1>5 DEF Next

LEMMA WaitingInvariant == Spec => []Waiting
<1>1. Init => Waiting
  <2> SUFFICES ASSUME Init PROVE Queued /\ Foremost
    BY DEF Waiting
  <2>1. Queued
    BY DEF Init, Queued
  <2>2. \A t \in Threads : pc[t] # "pop"
    BY DEF Init
  <2> QED BY <2>1, <2>2 DEF Foremost
<1>2. Waiting /\ UNCHANGED vars => Waiting'
  BY DEF Waiting, Queued, Foremost, vars
<1>3. Typed /\ Nested /\ Quiet /\ Waiting /\ [Next]_vars => Waiting'
  BY <1>2, NextQueued, NextForemost DEF Waiting
<1> QED BY <1>1, <1>3, TypedInvariant, NestedInvariant, QuietInvariant, PTL DEF Spec

-----------------------------------------------------------------------------
(* What a step leaves alone of what SerialDispatch sees of a request.      *)
LEMMA SamePhase ==
  ASSUME Typed, NEW r \in Requests,
         req'[r] = req[r] \/ (req[r] = "fresh" /\ req'[r] = "sent"),
         req[r] = "queued" => (Lost(r)' <=> Lost(r)),
         req[r] = "running" => (InCode(r)' <=> InCode(r))
  PROVE  PhaseOf(r)' = PhaseOf(r)
<1>1. req[r] \in {"fresh", "sent", "queued", "running", "done"}
  BY DEF Typed, TypeOK
<1>2. CASE req[r] \in {"fresh", "sent"}
  <2>1. req'[r] \in {"fresh", "sent"}
    BY <1>2
  <2> QED BY <1>2, <2>1 DEF PhaseOf
<1>3. CASE req[r] = "queued"
  BY <1>3 DEF PhaseOf
<1>4. CASE req[r] = "running"
  BY <1>4 DEF PhaseOf
<1>5. CASE req[r] = "done"
  BY <1>5 DEF PhaseOf
<1> QED BY <1>1, <1>2, <1>3, <1>4, <1>5

LEMMA OtherPhases ==
  ASSUME Typed, NEW s \in Requests,
         \A r \in Requests : r # s =>
           req'[r] = req[r] /\ (Lost(r)' <=> Lost(r)) /\ (InCode(r)' <=> InCode(r))
  PROVE  \A r \in Requests : r # s => PhaseOf(r)' = PhaseOf(r)
<1> SUFFICES ASSUME NEW r \in Requests, r # s PROVE PhaseOf(r)' = PhaseOf(r)
  OBVIOUS
<1>1. req'[r] = req[r]
  OBVIOUS
<1>2. (Lost(r)' <=> Lost(r)) /\ (InCode(r)' <=> InCode(r))
  OBVIOUS
<1> QED BY <1>1, <1>2, SamePhase

LEMMA PhaseCases ==
  ASSUME Typed, NEW r \in Requests
  PROVE  /\ PhaseOf(r) = "fresh" <=> req[r] \in {"fresh", "sent"}
         /\ PhaseOf(r) = "queued" <=> req[r] = "queued" /\ ~ Lost(r)
         /\ PhaseOf(r) = "lost" <=> req[r] = "queued" /\ Lost(r)
         /\ PhaseOf(r) = "running" <=> req[r] = "running" /\ InCode(r)
         /\ PhaseOf(r) = "blocked" <=> req[r] = "running" /\ ~ InCode(r)
         /\ PhaseOf(r) = "done" <=> req[r] = "done"
<1>1. req[r] \in {"fresh", "sent", "queued", "running", "done"}
  BY DEF Typed, TypeOK
<1>2. CASE req[r] \in {"fresh", "sent"}
  <2>1. PhaseOf(r) = "fresh"
    BY <1>2 DEF PhaseOf
  <2> QED BY <1>2, <2>1
<1>3. CASE req[r] = "queued"
  <2>1. PhaseOf(r) = IF Lost(r) THEN "lost" ELSE "queued"
    BY <1>3 DEF PhaseOf
  <2> QED BY <1>3, <2>1
<1>4. CASE req[r] = "running"
  <2>1. PhaseOf(r) = IF InCode(r) THEN "running" ELSE "blocked"
    BY <1>4 DEF PhaseOf
  <2> QED BY <1>4, <2>1
<1>5. CASE req[r] = "done"
  <2>1. PhaseOf(r) = "done"
    BY <1>5 DEF PhaseOf
  <2> QED BY <1>5, <2>1
<1> QED BY <1>1, <1>2, <1>3, <1>4, <1>5

(* A step that moves no request in the queues.                             *)
LEMMA SameOrder ==
  ASSUME UNCHANGED queue,
         \A t \in Threads : (pc'[t] = "gone" <=> pc[t] = "gone") \/ queue[t] = <<>>
  PROVE  Before' = Before /\ \A r \in Requests : Lost(r)' <=> Lost(r)
<1>1. \A t \in Threads : \A i \in 1 .. Len(queue[t]) : pc'[t] = "gone" <=> pc[t] = "gone"
  OBVIOUS
<1>2. ASSUME NEW r \in Requests PROVE Lost(r)' <=> Lost(r)
  BY <1>1 DEF Lost, Threads
<1>3. ASSUME NEW r \in Requests, NEW s \in Requests PROVE Ahead(r, s)' <=> Ahead(r, s)
  BY <1>1 DEF Ahead
<1>4. Before' = Before
  BY <1>3 DEF Before
<1> QED BY <1>2, <1>4

(* A step that SerialDispatch does not see.                                *)
LEMMA SameDispatch ==
  ASSUME Typed, UNCHANGED queue,
         \A r \in Requests : req'[r] = req[r] \/ (req[r] = "fresh" /\ req'[r] = "sent"),
         \A t \in Threads : (pc'[t] = "gone" <=> pc[t] = "gone") \/ queue[t] = <<>>,
         \A r \in Requests : InCode(r)' <=> InCode(r)
  PROVE  UNCHANGED <<Before, Phases>>
<1>1. Before' = Before /\ \A r \in Requests : Lost(r)' <=> Lost(r)
  BY SameOrder
<1>2. ASSUME NEW r \in Requests PROVE PhaseOf(r)' = PhaseOf(r)
  BY <1>1, SamePhase
<1> QED BY <1>1, <1>2 DEF Phases

(* A step after which one request is seen otherwise.                       *)
LEMMA OneDispatch ==
  ASSUME Typed, UNCHANGED queue,
         \A t \in Threads : (pc'[t] = "gone" <=> pc[t] = "gone") \/ queue[t] = <<>>,
         NEW s \in Requests,
         \A r \in Requests : r # s => req'[r] = req[r] \/ (req[r] = "fresh" /\ req'[r] = "sent"),
         \A r \in Requests : r # s => (InCode(r)' <=> InCode(r))
  PROVE  Before' = Before /\ Phases' = [Phases EXCEPT ![s] = PhaseOf(s)']
<1>1. Before' = Before /\ \A r \in Requests : Lost(r)' <=> Lost(r)
  BY SameOrder
<1>2. ASSUME NEW r \in Requests, r # s PROVE PhaseOf(r)' = PhaseOf(r)
  BY <1>1, <1>2, SamePhase
<1>3. Phases' = [Phases EXCEPT ![s] = PhaseOf(s)']
  BY <1>2 DEF Phases
<1> QED BY <1>1, <1>3

(* A request is in the queue of the thread that its key has, or of an      *)
(* application's thread that ended.                                        *)
LEMMA WhereQueued ==
  ASSUME Typed, Serial, Queued, NEW r \in Requests, req[r] = "queued", ~ Lost(r)
  PROVE  \E t \in Threads : /\ ~ Left(t) /\ Bound(t, KeyOf[r])
                            /\ \E i \in 1 .. Len(queue[t]) : queue[t][i] = r
<1>1. PICK t \in Threads : \E i \in 1 .. Len(queue[t]) : queue[t][i] = r
  BY DEF Queued
<1>2. ~ Left(t)
  BY <1>1 DEF Lost, Left
<1> QED BY <1>1, <1>2 DEF Serial, Lined

(* A thread of the application is the only one that ends with a queue.     *)
LEMMA GoneEmpty ==
  ASSUME Typed, Nested, Quiet, NEW t \in Threads, pc[t] = "gone", t \notin Users
  PROVE  queue[t] = <<>>
<1>1. t \in Pool
  BY DEF Nested, Good, Placed
<1> QED BY <1>1 DEF Quiet, NoOrphan

(* A request joins the queue of the thread that its key has.               *)
LEMMA AcceptStep ==
  ASSUME Typed, Nested, Quiet, Serial, Queued,
         NEW r \in Requests, NEW o \in Threads, Incoming(r),
         queue' = [queue EXCEPT ![o] = Append(queue[o], r)],
         req' = [req EXCEPT ![r] = "queued"], stack' = stack,
         KeyOf[r] # NoKey => \A t \in Threads : Bound(t, KeyOf[r]) => t = o,
         \A t \in Threads : t # o => (pc'[t] = "gone" <=> pc[t] = "gone"),
         pc'[o] # "gone", pc[o] = "gone" => o \notin Users,
         \A t \in Threads : pc'[t] = "code" <=> pc[t] = "code"
  PROVE  Dispatch!Accept(r)
<1> USE DEF Typed
<1> DEFINE n == Len(queue[o])
           q == queue'[o]
<1>1. queue[o] \in Seq(Requests) /\ n \in Nat
  BY DEF TypeOK
<1>2. /\ Len(q) = n + 1 /\ q[n + 1] = r
      /\ \A l \in 1 .. n : q[l] = queue[o][l]
      /\ \A t \in Threads : t # o => queue'[t] = queue[t]
  <2>1. queue'[o] = Append(queue[o], r) /\ \A t \in Threads : t # o => queue'[t] = queue[t]
    BY DEF TypeOK
  <2> QED BY <1>1, <2>1, AppendProperties
<1>3. req[r] \in {"fresh", "sent"} /\ req'[r] = "queued"
      /\ \A s \in Requests : s # r => req'[s] = req[s]
  BY DEF Incoming, TypeOK
<1>4. pc[o] = "gone" => n = 0
  BY GoneEmpty
<1>5. \A t \in Threads : \A i \in 1 .. Len(queue[t]) :
        queue[t][i] \in Requests /\ queue[t][i] # r /\ req[queue[t][i]] = "queued"
  BY <1>3 DEF Serial, Lined, TypeOK
<1> HIDE DEF q, n
<1>6. \A s \in Requests : InCode(s)' <=> InCode(s)
  BY DEF InCode, Depth, Top
<1>7. \A s \in Requests : Lost(s)' <=> Lost(s)
  BY <1>2 DEF Lost, Threads
<1>8. ~ Lost(r)
  BY <1>5 DEF Lost, Threads
<1>9. PhaseOf(r) = "fresh" /\ PhaseOf(r)' = "queued"
  <2>1. PhaseOf(r)' = IF Lost(r)' THEN "lost" ELSE "queued"
    BY <1>3 DEF PhaseOf
  <2> QED BY <1>3, <1>7, <1>8, <2>1, PhaseCases
<1>10. \A s \in Requests : s # r => PhaseOf(s)' = PhaseOf(s)
  BY <1>3, <1>6, <1>7, OtherPhases
<1>11. Phases' = [Phases EXCEPT ![r] = "queued"]
  BY <1>9, <1>10 DEF Phases
<1> DEFINE New == {<<s, r>> : s \in {w \in Requests :
                     /\ KeyOf[w] # NoKey /\ Phases[w] = "queued"
                     /\ KeyOf[w] = KeyOf[r] /\ PoaOf[w] = PoaOf[r]}}
<1>12. ASSUME NEW a \in Requests, NEW b \in Requests, Ahead(a, b) PROVE Ahead(a, b)'
  <2>1. PICK t \in Threads : pc[t] # "gone" /\ \E i, j \in 1 .. Len(queue[t]) :
                               i < j /\ queue[t][i] = a /\ queue[t][j] = b
    BY <1>12 DEF Ahead
  <2>2. CASE t # o
    BY <1>2, <2>1, <2>2 DEF Ahead
  <2>3. CASE t = o
    <3>1. \A i \in 1 .. n : i \in 1 .. n + 1
      BY <1>1
    <3>2. PICK i \in 1 .. n, j \in 1 .. n : i < j /\ queue[o][i] = a /\ queue[o][j] = b
      BY <2>1, <2>3 DEF n
    <3>3. i \in 1 .. Len(q) /\ j \in 1 .. Len(q) /\ q[i] = a /\ q[j] = b
      BY <1>2, <3>1, <3>2
    <3> QED BY <3>2, <3>3 DEF Ahead, q
  <2> QED BY <2>2, <2>3
<1>13. ASSUME NEW a \in Requests, NEW b \in Requests, Ahead(a, b)', ~ Ahead(a, b)
       PROVE  b = r /\ Phases[a] = "queued"
  <2>1. PICK t \in Threads : pc'[t] # "gone" /\ \E i, j \in 1 .. Len(queue'[t]) :
                               i < j /\ queue'[t][i] = a /\ queue'[t][j] = b
    BY <1>13 DEF Ahead
  <2>2. t = o
    BY <1>2, <1>13, <2>1 DEF Ahead
  <2>3. PICK i \in 1 .. n + 1, j \in 1 .. n + 1 : i < j /\ q[i] = a /\ q[j] = b
    BY <1>2, <2>1, <2>2 DEF q
  <2>4. i \in 1 .. n /\ (j = n + 1 \/ j \in 1 .. n)
    <3>1. n \in Nat /\ i < j
      BY <1>1, <2>3
    <3> QED BY <3>1
  <2>5. pc[o] # "gone"
    BY <1>4, <2>4
  <2>6. j = n + 1
    BY <1>2, <1>13, <2>3, <2>4, <2>5 DEF Ahead, n
  <2>7. queue[o][i] = a /\ b = r
    BY <1>2, <2>3, <2>4, <2>6
  <2>8. req[a] = "queued"
    BY <1>5, <2>4, <2>7 DEF n
  <2>9. ~ Lost(a)
    BY <2>4, <2>5, <2>7 DEF Lost, Threads, Serial, LinedOnce, n
  <2> QED BY <2>7, <2>8, <2>9, PhaseCases DEF Phases
<1>14. ASSUME NEW s \in Requests, KeyOf[s] # NoKey, Phases[s] = "queued", KeyOf[s] = KeyOf[r]
       PROVE  Ahead(s, r)'
  <2>1. req[s] = "queued" /\ ~ Lost(s)
    BY <1>14, PhaseCases DEF Phases
  <2>2. PICK t \in Threads : /\ Bound(t, KeyOf[s])
                             /\ \E i \in 1 .. Len(queue[t]) : queue[t][i] = s
    BY <2>1, WhereQueued
  <2>3. t = o
    BY <1>14, <2>2
  <2>4. PICK i \in 1 .. n : queue[o][i] = s
    BY <2>2, <2>3 DEF n
  <2>5. i \in 1 .. n + 1 /\ n + 1 \in 1 .. n + 1 /\ i < n + 1
    BY <1>1
  <2> QED BY <1>2, <2>4, <2>5 DEF Ahead, q
<1>15. Before' = Before \cup New
  <2>1. ASSUME NEW p \in Before' PROVE p \in Before \cup New
    <3>1. /\ p \in Requests \X Requests /\ KeyOf[p[1]] # NoKey
          /\ KeyOf[p[1]] = KeyOf[p[2]] /\ PoaOf[p[1]] = PoaOf[p[2]] /\ Ahead(p[1], p[2])'
      BY <2>1 DEF Before
    <3>2. CASE Ahead(p[1], p[2])
      BY <3>1, <3>2 DEF Before
    <3>3. CASE ~ Ahead(p[1], p[2])
      <4>1. p[2] = r /\ Phases[p[1]] = "queued" /\ p = <<p[1], p[2]>>
        BY <1>13, <3>1, <3>3
      <4> QED BY <3>1, <4>1
    <3> QED BY <3>2, <3>3
  <2>2. ASSUME NEW p \in Before PROVE p \in Before'
    BY <1>12 DEF Before
  <2>3. ASSUME NEW p \in New PROVE p \in Before'
    <3>1. PICK s \in Requests : /\ p = <<s, r>> /\ KeyOf[s] # NoKey /\ Phases[s] = "queued"
                                /\ KeyOf[s] = KeyOf[r] /\ PoaOf[s] = PoaOf[r]
      OBVIOUS
    <3>2. Ahead(s, r)'
      BY <1>14, <3>1
    <3> QED BY <3>1, <3>2 DEF Before
  <2> QED BY <2>1, <2>2, <2>3
<1>16. Phases[r] = "fresh"
  BY <1>9 DEF Phases
<1> QED BY <1>11, <1>15, <1>16 DEF Dispatch!Accept, Dispatch!Keyed, Dispatch!SameLane

(* The frame on top of a stack is at its last place.                       *)
LEMMA InCodeAt ==
  ASSUME Typed, NEW r \in Requests, InCode(r)
  PROVE  \E t \in Threads : /\ pc[t] = "code" /\ Len(stack[t]) \in 1 .. Len(stack[t])
                            /\ stack[t][Len(stack[t])].item = r
<1>1. PICK t \in Threads : pc[t] = "code" /\ Depth(t) > 0 /\ Top(t).item = r
  BY DEF InCode
<1>2. Len(stack[t]) \in Nat
  BY DEF Typed, TypeOK
<1> QED BY <1>1, <1>2 DEF Depth, Top

LEMMA CodeIs ==
  ASSUME NEW t \in Threads, pc[t] = "code", Len(stack[t]) \in Nat, Len(stack[t]) > 0,
         NEW r, stack[t][Len(stack[t])].item = r
  PROVE  InCode(r)
  BY DEF InCode, Depth, Top

(* The key of what a thread serves is idle unless its own code runs.       *)
LEMMA IdleKey ==
  ASSUME Typed, Serial, NEW r \in Requests, KeyOf[r] # NoKey,
         NEW t \in Threads, Bound(t, KeyOf[r]), pc[t] # "code"
  PROVE  \A s \in Requests : KeyOf[s] = KeyOf[r] => PhaseOf(s) # "running"
<1> SUFFICES ASSUME NEW s \in Requests, KeyOf[s] = KeyOf[r], PhaseOf(s) = "running"
             PROVE  FALSE
  OBVIOUS
<1>1. InCode(s)
  BY PhaseCases
<1>2. PICK u \in Threads : /\ pc[u] = "code" /\ Len(stack[u]) \in 1 .. Len(stack[u])
                           /\ stack[u][Len(stack[u])].item = s
  BY <1>1, InCodeAt
<1>3. Bound(u, KeyOf[s])
  BY <1>2 DEF Serial, Engaged
<1>4. KeyOf[r] \in Keys \cup {MainQueue}
  BY RequestsAssumption DEF RequestsAssumption
<1>5. u = t
  BY <1>3, <1>4 DEF Bound
<1> QED BY <1>2, <1>5

(* A thread starts the oldest request that is for its POA.                 *)
LEMMA StartStep ==
  ASSUME Typed, Serial, NEW t \in Threads, pc[t] = "pop",
         NEW p \in 1 .. Len(queue[t]), NEW r \in Requests, queue[t][p] = r,
         Removed(queue[t], p, queue'[t]),
         \A i \in 1 .. p - 1 : PoaOf[queue[t][i]] # PoaOf[r],
         \A u \in Threads : u # t => queue'[u] = queue[u],
         req' = [req EXCEPT ![r] = "running"], run(t, r)
  PROVE  Dispatch!Start(r)
<1> DEFINE f == Running(r)
           n == Len(queue[t])
           q == queue'[t]
           d == Len(stack[t])
<1>1. req[r] = "queued" /\ Bound(t, KeyOf[r])
  BY DEF Serial, Lined, Left
<1>2. f \in Frame /\ f.item = r
  BY <1>1 DEF Running, Frame, Items
<1>3. /\ stack'[t] = Append(stack[t], f) /\ pc'[t] = "code"
      /\ \A u \in Threads : u # t => stack'[u] = stack[u] /\ pc'[u] = pc[u]
  BY DEF run, Typed, TypeOK
<1>4. req'[r] = "running" /\ \A s \in Requests : s # r => req'[s] = req[s]
  BY <1>1 DEF Typed, TypeOK
<1>5. /\ d \in Nat /\ Len(stack'[t]) = d + 1 /\ stack'[t][d + 1] = f
  <2>1. stack[t] \in Seq(Frame)
    BY DEF Typed, TypeOK
  <2> QED BY <1>2, <1>3, <2>1, AppendProperties
<1>6. /\ n \in Nat /\ p \in 1 .. n /\ Len(q) = n - 1
      /\ \A j \in 1 .. n - 1 : q[j] = queue[t][IF j < p THEN j ELSE j + 1]
  <2>1. queue[t] \in Seq(Requests)
    BY DEF Typed, TypeOK
  <2> QED BY <2>1 DEF Removed
<1>7. \A u \in Threads : \A i \in 1 .. Len(queue[u]) : queue[u][i] = r => u = t /\ i = p
  BY DEF Serial, LinedOnce
<1>8. \A i \in 1 .. p - 1 : PoaOf[queue[t][i]] # PoaOf[r]
  OBVIOUS
<1> HIDE DEF f, n, q, d
<1>9. InCode(r)'
  <2>1. Depth(t)' = d + 1 /\ Top(t)' = f /\ d + 1 > 0
    BY <1>5 DEF Depth, Top
  <2> QED BY <1>2, <1>3, <2>1 DEF InCode
<1>10. ASSUME NEW s \in Requests, s # r PROVE InCode(s)' <=> InCode(s)
  <2>1. \A u \in Threads : u # t =>
          ((pc'[u] = "code" /\ Depth(u)' > 0 /\ Top(u)'.item = s)
             <=> (pc[u] = "code" /\ Depth(u) > 0 /\ Top(u).item = s))
    BY <1>3 DEF Depth, Top
  <2>2. Top(t)'.item = r
    BY <1>2, <1>5 DEF Top, Depth
  <2> QED BY <1>10, <2>1, <2>2 DEF InCode
<1>11. ASSUME NEW s \in Requests PROVE Lost(s)' <=> Lost(s)
  <2>1. \A u \in Users : /\ pc'[u] = "gone" <=> pc[u] = "gone"
                         /\ pc[u] = "gone" => queue'[u] = queue[u]
    BY <1>3 DEF Threads
  <2> QED BY <2>1 DEF Lost
<1>12. PhaseOf(r) = "queued" /\ PhaseOf(r)' = "running"
  <2>1. ~ Lost(r)
    BY <1>7 DEF Lost, Threads
  <2>2. req'[r] = "running"
    BY <1>4
  <2>3. PhaseOf(r)' = IF InCode(r)' THEN "running" ELSE "blocked"
    BY <2>2 DEF PhaseOf
  <2> QED BY <1>1, <1>9, <2>1, <2>3, PhaseCases
<1>13. \A s \in Requests : s # r => PhaseOf(s)' = PhaseOf(s)
  BY <1>1, <1>4, <1>10, <1>11, OtherPhases
<1>14. Phases' = [Phases EXCEPT ![r] = "running"] /\ Phases[r] = "queued"
  BY <1>12, <1>13 DEF Phases
<1>15. ASSUME NEW s \in Requests, KeyOf[r] # NoKey PROVE <<s, r>> \notin Before
  <2> SUFFICES ASSUME Ahead(s, r), PoaOf[s] = PoaOf[r] PROVE FALSE
    BY DEF Before
  <2>1. PICK u \in Threads : \E i, j \in 1 .. Len(queue[u]) :
                               i < j /\ queue[u][i] = s /\ queue[u][j] = r
    BY DEF Ahead
  <2>2. u = t /\ \E i \in 1 .. n : i < p /\ queue[t][i] = s
    BY <1>7, <2>1 DEF n
  <2>3. PICK i \in 1 .. n : i < p /\ queue[t][i] = s
    BY <2>2
  <2>4. i \in 1 .. p - 1
    <3>1. i < p
      BY <2>3
    <3> QED BY <1>6, <3>1
  <2> QED BY <1>8, <2>3, <2>4
<1>16. ASSUME NEW a \in Requests, NEW b \in Requests
       PROVE  Ahead(a, b)' <=> Ahead(a, b) /\ a # r /\ b # r
  <2>1. \A j \in 1 .. n - 1 : /\ (IF j < p THEN j ELSE j + 1) \in 1 .. n
                              /\ (IF j < p THEN j ELSE j + 1) # p
    BY <1>6
  <2>2. ASSUME NEW i \in 1 .. n, i # p
        PROVE  \E k \in 1 .. n - 1 : i = IF k < p THEN k ELSE k + 1
    <3>1. CASE i < p
      <4>1. i \in 1 .. n - 1
        BY <1>6, <3>1
      <4> QED BY <3>1, <4>1
    <3>2. CASE ~ i < p
      <4>1. i - 1 \in 1 .. n - 1 /\ ~ i - 1 < p /\ (i - 1) + 1 = i
        BY <1>6, <2>2, <3>2
      <4> QED BY <4>1
    <3> QED BY <3>1, <3>2
  <2>3. ASSUME Ahead(a, b)' PROVE Ahead(a, b) /\ a # r /\ b # r
    <3>1. PICK u \in Threads : pc'[u] # "gone" /\ \E i, j \in 1 .. Len(queue'[u]) :
                                 i < j /\ queue'[u][i] = a /\ queue'[u][j] = b
      BY <2>3 DEF Ahead
    <3>2. CASE u # t
      BY <1>3, <1>7, <3>1, <3>2 DEF Ahead
    <3>3. CASE u = t
      <4>1. PICK i \in 1 .. n - 1, j \in 1 .. n - 1 : i < j /\ q[i] = a /\ q[j] = b
        BY <1>6, <3>1, <3>3 DEF q
      <4> DEFINE k == IF i < p THEN i ELSE i + 1
                 l == IF j < p THEN j ELSE j + 1
      <4>2. k \in 1 .. n /\ l \in 1 .. n /\ k # p /\ l # p
        BY <2>1
      <4>3. k < l
        <5>1. i < j
          BY <4>1
        <5> QED BY <1>6, <5>1
      <4>4. queue[t][k] = a /\ queue[t][l] = b
        BY <1>6, <4>1
      <4> HIDE DEF k, l
      <4> QED BY <1>7, <4>2, <4>3, <4>4 DEF Ahead, n
    <3> QED BY <3>2, <3>3
  <2>4. ASSUME Ahead(a, b), a # r, b # r PROVE Ahead(a, b)'
    <3>1. PICK u \in Threads : pc[u] # "gone" /\ \E i, j \in 1 .. Len(queue[u]) :
                                 i < j /\ queue[u][i] = a /\ queue[u][j] = b
      BY <2>4 DEF Ahead
    <3>2. CASE u # t
      BY <1>3, <3>1, <3>2 DEF Ahead
    <3>3. CASE u = t
      <4>1. PICK i \in 1 .. n, j \in 1 .. n : i < j /\ queue[t][i] = a /\ queue[t][j] = b
        BY <3>1, <3>3 DEF n
      <4>2. i # p /\ j # p
        BY <2>4, <4>1
      <4>3. PICK k \in 1 .. n - 1 : i = IF k < p THEN k ELSE k + 1
        BY <2>2, <4>2
      <4>4. PICK l \in 1 .. n - 1 : j = IF l < p THEN l ELSE l + 1
        BY <2>2, <4>2
      <4>5. k < l
        <5>1. i < j
          BY <4>1
        <5> QED BY <1>6, <4>3, <4>4, <5>1
      <4>6. q[k] = a /\ q[l] = b
        BY <1>6, <4>1, <4>3, <4>4
      <4> QED BY <1>3, <1>6, <4>5, <4>6 DEF Ahead, q
    <3> QED BY <3>2, <3>3
  <2> QED BY <2>3, <2>4
<1>17. Before' = {x \in Before : x[1] # r /\ x[2] # r}
  BY <1>16 DEF Before
<1>18. KeyOf[r] # NoKey => \A s \in Requests : KeyOf[s] = KeyOf[r] => Phases[s] # "running"
  BY <1>1, IdleKey DEF Phases
<1> QED BY <1>14, <1>15, <1>17, <1>18
        DEF Dispatch!Start, Dispatch!Keyed, Dispatch!KeyIdle

-----------------------------------------------------------------------------
(* What runs is running, on one thread.                                    *)
LEMMA CodeRuns ==
  ASSUME Typed, Serial, NEW t \in Threads, NEW r \in Requests,
         Len(stack[t]) > 0, stack[t][Len(stack[t])].item = r
  PROVE  req[r] = "running" /\ Bound(t, KeyOf[r]) /\ (InCode(r) <=> pc[t] = "code")
<1>1. Len(stack[t]) \in 1 .. Len(stack[t])
  BY DEF Typed, TypeOK
<1>2. req[r] = "running" /\ Bound(t, KeyOf[r])
  BY <1>1 DEF Serial, Engaged
<1>3. ASSUME InCode(r) PROVE pc[t] = "code"
  <2>1. PICK u \in Threads : /\ pc[u] = "code" /\ Len(stack[u]) \in 1 .. Len(stack[u])
                             /\ stack[u][Len(stack[u])].item = r
    BY <1>3, InCodeAt
  <2> QED BY <1>1, <2>1 DEF Serial, EngagedOnce
<1>4. pc[t] = "code" => InCode(r)
  BY DEF InCode, Depth, Top
<1> QED BY <1>2, <1>3, <1>4

(* Only thread t moves, and r is not what its code runs for.               *)
LEMMA OtherCode ==
  ASSUME NEW t \in Threads, NEW r \in Requests,
         \A u \in Threads : u # t =>
           stack'[u] = stack[u] /\ (pc'[u] = "code" <=> pc[u] = "code"),
         pc[t] = "code" /\ Depth(t) > 0 => Top(t).item # r,
         pc'[t] = "code" /\ Depth(t)' > 0 => Top(t)'.item # r
  PROVE  InCode(r)' <=> InCode(r)
<1>1. \A u \in Threads : u # t =>
        ((pc'[u] = "code" /\ Depth(u)' > 0 /\ Top(u)'.item = r)
           <=> (pc[u] = "code" /\ Depth(u) > 0 /\ Top(u).item = r))
  BY DEF Depth, Top
<1> QED BY <1>1 DEF InCode

(* A thread makes a call, or comes back from one: the request it serves    *)
(* blocks or goes on.                                                      *)
LEMMA CallStep ==
  ASSUME Typed, Serial, UNCHANGED queue, NEW t \in Threads, NEW i,
         NEW n \in Nat \ {0}, Len(stack[t]) = n, stack[t][n].item = i,
         Len(stack'[t]) = n, stack'[t][n].item = i,
         \A u \in Threads : u # t => stack'[u] = stack[u] /\ pc'[u] = pc[u],
         pc[t] \in {"code", "check"}, pc'[t] \in {"code", "check"}, pc'[t] # pc[t],
         \A r \in Requests : req'[r] = req[r] \/ (req[r] = "fresh" /\ req'[r] = "sent")
  PROVE  /\ i \notin Requests => UNCHANGED <<Before, Phases>>
         /\ i \in Requests =>
              /\ Before' = Before
              /\ Phases[i] = IF pc[t] = "code" THEN "running" ELSE "blocked"
              /\ Phases' = [Phases EXCEPT ![i] = IF pc'[t] = "code" THEN "running" ELSE "blocked"]
<1>1. Depth(t) = n /\ Depth(t)' = n /\ Top(t).item = i /\ Top(t)'.item = i
  BY DEF Depth, Top
<1>2. ASSUME NEW r \in Requests, r # i PROVE InCode(r)' <=> InCode(r)
  BY <1>1, <1>2, OtherCode
<1>3. \A u \in Threads : (pc'[u] = "gone" <=> pc[u] = "gone") \/ queue[u] = <<>>
  OBVIOUS
<1>4. CASE i \notin Requests
  <2>1. \A r \in Requests : InCode(r)' <=> InCode(r)
    BY <1>2, <1>4
  <2> QED BY <1>3, <1>4, <2>1, SameDispatch
<1>5. CASE i \in Requests
  <2>1. req[i] = "running" /\ (InCode(i) <=> pc[t] = "code")
    BY <1>5, CodeRuns
  <2>2. req'[i] = "running"
    BY <1>5, <2>1
  <2>3. InCode(i)' <=> pc'[t] = "code"
    <3>1. ASSUME pc'[t] = "code" PROVE InCode(i)'
      BY <1>1, <3>1 DEF InCode
    <3>2. ASSUME InCode(i)', pc'[t] # "code" PROVE FALSE
      <4>1. PICK u \in Threads : pc'[u] = "code" /\ Depth(u)' > 0 /\ Top(u)'.item = i
        BY <3>2 DEF InCode
      <4>2. u # t
        BY <3>2, <4>1
      <4>3. pc[u] = "code" /\ Len(stack[u]) > 0 /\ stack[u][Len(stack[u])].item = i
        BY <4>1, <4>2 DEF Depth, Top
      <4>4. Len(stack[u]) \in 1 .. Len(stack[u]) /\ n \in 1 .. Len(stack[t])
        BY <4>3 DEF Typed, TypeOK
      <4> QED BY <1>5, <4>2, <4>3, <4>4 DEF Serial, EngagedOnce
    <3> QED BY <3>1, <3>2
  <2>4. PhaseOf(i) = IF pc[t] = "code" THEN "running" ELSE "blocked"
    BY <1>5, <2>1, PhaseCases
  <2>5. PhaseOf(i)' = IF pc'[t] = "code" THEN "running" ELSE "blocked"
    <3>1. PhaseOf(i)' = IF InCode(i)' THEN "running" ELSE "blocked"
      BY <2>2 DEF PhaseOf
    <3> QED BY <2>3, <3>1
  <2>6. Before' = Before /\ Phases' = [Phases EXCEPT ![i] = PhaseOf(i)']
    BY <1>2, <1>3, <1>5, OneDispatch
  <2> QED BY <1>5, <2>4, <2>5, <2>6 DEF Phases
<1> QED BY <1>4, <1>5

LEMMA WaitStep ==
  ASSUME Typed, Nested, Serial, NEW t \in Threads,
         NEW on, NEW p, waiting(t, on, p),
         \A r \in Requests : req'[r] = req[r] \/ (req[r] = "fresh" /\ req'[r] = "sent")
  PROVE  (\E r \in Requests : Dispatch!Block(r)) \/ UNCHANGED <<Before, Phases>>
<1> DEFINE f == [stack[t][Len(stack[t])] EXCEPT !.on = on, !.got = FALSE, !.policy = p]
<1>1. pc[t] = "code" /\ pc' = [pc EXCEPT ![t] = "check"] /\ queue' = queue
  BY DEF waiting
<1>2. stack[t] # <<>> /\ stack[t] \in Seq(Frame)
  BY <1>1 DEF Nested, Good, Placed, Typed, TypeOK
<1>3. PICK n \in Nat \ {0} : Len(stack[t]) = n
  BY <1>2, EmptySeq
<1>4. PICK i : stack[t][n].item = i
  OBVIOUS
<1>5. stack' = [stack EXCEPT ![t] = [stack[t] EXCEPT ![n] = f]]
  BY <1>3 DEF waiting, Depth, Typed, TypeOK
<1>6. f.item = i
  <2>1. stack[t][n] \in Frame
    BY <1>2, <1>3
  <2> QED BY <1>3, <1>4, <2>1 DEF Frame
<1> HIDE DEF f
<1>7. Len(stack'[t]) = n /\ stack'[t][n].item = i
  BY <1>2, <1>3, <1>5, <1>6 DEF Typed, TypeOK
<1>8. \A u \in Threads : u # t => stack'[u] = stack[u] /\ pc'[u] = pc[u]
  BY <1>1, <1>5 DEF Typed, TypeOK
<1>9. pc'[t] = "check"
  BY <1>1 DEF Typed, TypeOK
<1>10. /\ i \notin Requests => UNCHANGED <<Before, Phases>>
       /\ i \in Requests => /\ Before' = Before /\ Phases[i] = "running"
                            /\ Phases' = [Phases EXCEPT ![i] = "blocked"]
  BY <1>1, <1>3, <1>4, <1>7, <1>8, <1>9, CallStep
<1> QED BY <1>10 DEF Dispatch!Block

LEMMA ReturnStep ==
  ASSUME Typed, Nested, Serial, NEW t \in Threads, Return(t)
  PROVE  (\E r \in Requests : Dispatch!Resume(r)) \/ UNCHANGED <<Before, Phases>>
<1>1. pc[t] = "check" /\ pc' = [pc EXCEPT ![t] = "code"] /\ UNCHANGED <<queue, req>>
  BY DEF Return
<1>2. stack[t] # <<>> /\ stack[t] \in Seq(Frame)
  BY <1>1 DEF Nested, Good, Placed, Typed, TypeOK
<1>3. PICK n \in Nat \ {0} : Len(stack[t]) = n
  BY <1>2, EmptySeq
<1>4. PICK i : stack[t][n].item = i
  OBVIOUS
<1>5. stack' = [stack EXCEPT ![t] = [stack[t] EXCEPT ![n] = Running(i)]]
  BY <1>3, <1>4 DEF Return, Depth, Top, Typed, TypeOK
<1>6. Running(i).item = i
  BY DEF Running
<1>7. Len(stack'[t]) = n /\ stack'[t][n].item = i
  BY <1>2, <1>3, <1>5, <1>6 DEF Typed, TypeOK
<1>8. \A u \in Threads : u # t => stack'[u] = stack[u] /\ pc'[u] = pc[u]
  BY <1>1, <1>5 DEF Typed, TypeOK
<1>9. pc'[t] = "code"
  BY <1>1 DEF Typed, TypeOK
<1>10. /\ i \notin Requests => UNCHANGED <<Before, Phases>>
       /\ i \in Requests => /\ Before' = Before /\ Phases[i] = "blocked"
                            /\ Phases' = [Phases EXCEPT ![i] = "running"]
  BY <1>1, <1>3, <1>4, <1>7, <1>8, <1>9, CallStep
<1>11. ASSUME i \in Requests, KeyOf[i] # NoKey
       PROVE  \A s \in Requests : KeyOf[s] = KeyOf[i] => Phases[s] # "running"
  <2>1. Bound(t, KeyOf[i])
    BY <1>3, <1>4, <1>11, CodeRuns
  <2> QED BY <1>1, <1>11, <2>1, IdleKey DEF Phases
<1> QED BY <1>10, <1>11 DEF Dispatch!Resume, Dispatch!Keyed, Dispatch!KeyIdle

LEMMA FinishStep ==
  ASSUME Typed, Serial, NEW t \in Threads, Finish(t)
  PROVE  (\E r \in Requests : Dispatch!Finish(r)) \/ UNCHANGED <<Before, Phases>>
<1>1. /\ pc[t] = "code" /\ pc' = [pc EXCEPT ![t] = Resumed(t)] /\ UNCHANGED queue
      /\ Depth(t) > 0
  BY DEF Finish
<1>2. PICK i : Top(t).item = i
  OBVIOUS
<1>3. /\ req' = IF i \in Requests THEN [req EXCEPT ![i] = "done"] ELSE req
      /\ stack' = [stack EXCEPT ![t] = SubSeq(@, 1, Depth(t) - 1)]
  BY <1>2 DEF Finish
<1>4. pc'[t] \notin {"code", "gone"}
  BY <1>1 DEF Resumed, Typed, TypeOK
<1>5. \A u \in Threads : u # t => stack'[u] = stack[u] /\ pc'[u] = pc[u]
  BY <1>1, <1>3 DEF Typed, TypeOK
<1>6. ASSUME NEW r \in Requests, r # i PROVE InCode(r)' <=> InCode(r)
  BY <1>2, <1>4, <1>5, <1>6, OtherCode
<1>7. \A u \in Threads : (pc'[u] = "gone" <=> pc[u] = "gone") \/ queue[u] = <<>>
  BY <1>1, <1>4, <1>5
<1>8. CASE i \notin Requests
  <2>1. \A r \in Requests : InCode(r)' <=> InCode(r)
    BY <1>6, <1>8
  <2>2. req' = req
    BY <1>3, <1>8
  <2> QED BY <1>1, <1>7, <2>1, <2>2, SameDispatch
<1>9. CASE i \in Requests
  <2>1. PhaseOf(i) = "running"
    <3>1. Len(stack[t]) > 0 /\ stack[t][Len(stack[t])].item = i
      BY <1>1, <1>2 DEF Depth, Top
    <3> QED BY <1>1, <1>9, <3>1, CodeRuns, PhaseCases
  <2>2. req'[i] = "done" /\ \A r \in Requests : r # i => req'[r] = req[r]
    BY <1>3, <1>9 DEF Typed, TypeOK
  <2>3. PhaseOf(i)' = "done"
    <3>1. req'[i] = "done"
      BY <2>2
    <3> QED BY <3>1 DEF PhaseOf
  <2>4. Before' = Before /\ Phases' = [Phases EXCEPT ![i] = PhaseOf(i)']
    BY <1>1, <1>6, <1>7, <1>9, <2>2, OneDispatch
  <2> QED BY <1>9, <2>1, <2>3, <2>4 DEF Dispatch!Finish, Phases
<1> QED BY <1>8, <1>9

(* A thread of the application ends: what is queued for it is lost, which  *)
(* is all that is queued with a key of its own.                            *)
LEMMA LoseStep ==
  ASSUME Typed, Serial, Queued, NEW t \in Threads, t \in Users, pc[t] = "free",
         giop_thread_free(t)
  PROVE  \E K \in SUBSET (IF Users = {} THEN {} ELSE Keys) : Dispatch!Lose(K)
<1> DEFINE In(u, r) == \E i \in 1 .. Len(queue[u]) : queue[u][i] = r
<1>1. PICK K : K = {k \in Keys : \E r \in Requests : In(t, r) /\ KeyOf[r] = k}
  OBVIOUS
<1>2. /\ UNCHANGED <<queue, stack, req>> /\ pc'[t] = "gone"
      /\ \A u \in Threads : u # t => pc'[u] = pc[u]
  BY DEF giop_thread_free, Typed, TypeOK
<1>3. ASSUME NEW r \in Requests, In(t, r) PROVE KeyOf[r] \in Keys /\ hash[KeyOf[r]] = t
  <2>1. Bound(t, KeyOf[r])
    BY <1>3 DEF Serial, Lined, Left
  <2>2. KeyOf[r] \in Keys \cup {NoKey, MainQueue} /\ t # Main /\ t \notin Pool
    BY RequestsAssumption, ThreadsAssumption DEF RequestsAssumption, ThreadsAssumption
  <2> QED BY <2>1, <2>2 DEF Bound
<1>4. ASSUME NEW u \in Threads, ~ Left(u), NEW r \in Requests, In(u, r)
      PROVE  KeyOf[r] \in K <=> u = t
  <2>1. u = t => KeyOf[r] \in K
    BY <1>1, <1>3, <1>4
  <2>2. Bound(u, KeyOf[r])
    BY <1>4 DEF Serial, Lined
  <2>3. KeyOf[r] \in K => KeyOf[r] \in Keys /\ hash[KeyOf[r]] = t
    BY <1>1, <1>3
  <2> QED BY <2>1, <2>2, <2>3 DEF Bound
<1>5. ASSUME NEW r \in Requests PROVE Lost(r)' <=> Lost(r) \/ In(t, r)
  BY <1>2 DEF Lost, Threads
<1>6. ASSUME NEW r \in Requests PROVE InCode(r)' <=> InCode(r)
  BY <1>2 DEF InCode, Depth, Top
<1>7. ASSUME NEW r \in Requests, req[r] = "queued", ~ Lost(r)
      PROVE  Lost(r)' <=> KeyOf[r] \in K
  <2>1. PICK u \in Threads : ~ Left(u) /\ In(u, r)
    BY <1>7, WhereQueued
  <2>2. In(t, r) => u = t
    BY <2>1 DEF Serial, LinedOnce
  <2>3. In(t, r) <=> u = t
    BY <2>1, <2>2
  <2>4. KeyOf[r] \in K <=> u = t
    BY <1>4, <2>1
  <2> QED BY <1>5, <1>7, <2>3, <2>4
<1> HIDE DEF In
<1>8. ASSUME NEW r \in Requests
      PROVE  PhaseOf(r)' = IF KeyOf[r] \in K /\ PhaseOf(r) = "queued" THEN "lost" ELSE PhaseOf(r)
  <2>1. CASE req[r] = "queued" /\ ~ Lost(r)
    <3>1. req'[r] = "queued" /\ (Lost(r)' <=> KeyOf[r] \in K) /\ PhaseOf(r) = "queued"
      BY <1>2, <1>7, <2>1, PhaseCases
    <3>2. PhaseOf(r)' = IF Lost(r)' THEN "lost" ELSE "queued"
      BY <3>1 DEF PhaseOf
    <3> QED BY <3>1, <3>2
  <2>2. CASE ~ (req[r] = "queued" /\ ~ Lost(r))
    <3>1. PhaseOf(r) # "queued"
      BY <2>2, PhaseCases
    <3>2. req[r] = "queued" => (Lost(r)' <=> Lost(r))
      BY <1>5, <2>2
    <3>3. PhaseOf(r)' = PhaseOf(r)
      BY <1>2, <1>6, <3>2, SamePhase
    <3> QED BY <3>1, <3>3
  <2> QED BY <2>1, <2>2
<1>9. ASSUME NEW a \in Requests, NEW b \in Requests
      PROVE  Ahead(a, b)' <=> Ahead(a, b) /\ KeyOf[a] \notin K
  <2>1. ASSUME NEW u \in Threads, pc[u] # "gone", NEW i \in 1 .. Len(queue[u]), queue[u][i] = a
        PROVE  pc'[u] # "gone" <=> KeyOf[a] \notin K
    <3>1. ~ Left(u) /\ In(u, a)
      BY <2>1 DEF Left, In
    <3> QED BY <1>2, <1>4, <2>1, <3>1
  <2>2. \A u \in Threads : pc'[u] # "gone" => pc[u] # "gone"
    BY <1>2
  <2>3. ASSUME Ahead(a, b)' PROVE Ahead(a, b) /\ KeyOf[a] \notin K
    <3>1. PICK u \in Threads : pc'[u] # "gone" /\ \E i, j \in 1 .. Len(queue[u]) :
                                 i < j /\ queue[u][i] = a /\ queue[u][j] = b
      BY <1>2, <2>3 DEF Ahead
    <3> QED BY <2>1, <2>2, <3>1 DEF Ahead
  <2>4. ASSUME Ahead(a, b), KeyOf[a] \notin K PROVE Ahead(a, b)'
    <3>1. PICK u \in Threads : pc[u] # "gone" /\ \E i, j \in 1 .. Len(queue[u]) :
                                 i < j /\ queue[u][i] = a /\ queue[u][j] = b
      BY <2>4 DEF Ahead
    <3>2. pc'[u] # "gone"
      BY <2>1, <2>4, <3>1
    <3> QED BY <1>2, <3>1, <3>2 DEF Ahead
  <2> QED BY <2>3, <2>4
<1>10. Before' = {p \in Before : KeyOf[p[1]] \notin K}
  BY <1>9 DEF Before
<1>11. Phases' = [r \in Requests |-> IF KeyOf[r] \in K /\ Phases[r] = "queued"
                                     THEN "lost" ELSE Phases[r]]
  BY <1>8 DEF Phases
<1>12. K \in SUBSET (IF Users = {} THEN {} ELSE Keys)
  BY <1>1
<1>13. Dispatch!Lose(K)
  BY <1>10, <1>11 DEF Dispatch!Lose
<1> QED BY <1>12, <1>13

(* The steps of a thread.                                                  *)
LEMMA ThreadDispatch ==
  ASSUME Typed, Nested, Quiet, Serial, Waiting, NEW t \in Threads, ThreadStep(t)
  PROVE  Dispatch!Next \/ UNCHANGED <<Before, Phases>>
<1>1. Good(t, stack[t], pc[t]) /\ queue[t] \in Seq(Requests)
  BY DEF Nested, Typed, TypeOK
<1>2. CASE Begin(t) \/ Fetch(t) \/ KeepWaiting(t) \/ HandlerLoop(t)
  <2>1. UNCHANGED <<queue, stack, req>>
    BY <1>2 DEF Begin, Fetch, KeepWaiting, HandlerLoop
  <2>2. \A u \in Threads : (pc'[u] = "gone" <=> pc[u] = "gone") /\ (pc'[u] = "code" <=> pc[u] = "code")
    BY <1>2 DEF Begin, Fetch, KeepWaiting, HandlerLoop, Typed, TypeOK
  <2>3. \A r \in Requests : InCode(r)' <=> InCode(r)
    BY <2>1, <2>2 DEF InCode, Depth, Top
  <2> QED BY <2>1, <2>2, <2>3, SameDispatch
<1>3. CASE PopOldest(t)
  <2>1. queue[t] # <<>>
    BY <1>3 DEF PopOldest
  <2>2. /\ 1 \in 1 .. Len(queue[t]) /\ Head(queue[t]) = queue[t][1]
        /\ Removed(queue[t], 1, Tail(queue[t]))
    BY <1>1, <2>1, TailRemoved
  <2>3. PICK r \in Requests : queue[t][1] = r
    BY <1>1, <2>2
  <2>4. /\ queue'[t] = Tail(queue[t]) /\ \A u \in Threads : u # t => queue'[u] = queue[u]
        /\ req' = [req EXCEPT ![r] = "running"] /\ run(t, r) /\ pc[t] = "pop"
    BY <1>3, <2>2, <2>3 DEF PopOldest, Typed, TypeOK
  <2>5. \A i \in 1 .. 1 - 1 : PoaOf[queue[t][i]] # PoaOf[r]
    OBVIOUS
  <2>6. Dispatch!Start(r)
    BY <2>2, <2>3, <2>4, <2>5, StartStep
  <2> QED BY <2>6 DEF Dispatch!Next
<1>4. CASE PopAllowed(t)
  <2>1. PICK r \in Requests : valid[t] = r
    BY <1>4 DEF PopAllowed, Typed, TypeOK
  <2>2. PICK j \in 1 .. Len(queue[t]) :
          queue[t][j] = r /\ \A i \in 1 .. j - 1 : PoaOf[queue[t][i]] # PoaOf[r]
    BY <1>4, <2>1 DEF PopAllowed, Waiting, Foremost
  <2>3. PICK p \in 1 .. Len(queue[t]) :
          queue[t][p] = r /\ Removed(queue[t], p, without(queue[t], r))
    BY <1>1, <2>2, WithoutRemoved
  <2>4. p = j
    BY <2>2, <2>3 DEF Serial, LinedOnce
  <2>5. /\ queue'[t] = without(queue[t], r)
        /\ \A u \in Threads : u # t => queue'[u] = queue[u]
        /\ req' = [req EXCEPT ![r] = "running"] /\ run(t, r) /\ pc[t] = "pop"
    BY <1>4, <2>1 DEF PopAllowed, Typed, TypeOK
  <2>6. Dispatch!Start(r)
    BY <2>2, <2>3, <2>4, <2>5, StartStep
  <2> QED BY <2>6 DEF Dispatch!Next
<1>5. CASE PopAsync(t)
  <2>1. PICK c \in Calls : Head(async[t]) = c
    BY <1>5 DEF PopAsync, Typed, TypeOK
  <2>2. /\ UNCHANGED <<queue, req>> /\ pc[t] = "pop" /\ pc'[t] = "code"
        /\ stack'[t] = Append(stack[t], Running(c))
        /\ \A u \in Threads : u # t => stack'[u] = stack[u] /\ pc'[u] = pc[u]
    BY <1>5, <2>1 DEF PopAsync, run, Typed, TypeOK
  <2>3. Running(c) \in Frame /\ Running(c).item = c /\ c \notin Requests
    BY RequestsAssumption DEF RequestsAssumption, Running, Frame, Items
  <2>4. Top(t)'.item = c
    <3>1. stack[t] \in Seq(Frame)
      BY DEF Typed, TypeOK
    <3>2. Len(stack'[t]) = Len(stack[t]) + 1 /\ stack'[t][Len(stack[t]) + 1] = Running(c)
      BY <2>2, <2>3, <3>1, AppendProperties
    <3> QED BY <2>3, <3>2 DEF Top, Depth
  <2>5. ASSUME NEW r \in Requests PROVE InCode(r)' <=> InCode(r)
    <3>1. Top(t)'.item # r
      BY <2>3, <2>4
    <3> QED BY <2>2, <3>1, OtherCode
  <2>6. \A u \in Threads : (pc'[u] = "gone" <=> pc[u] = "gone") \/ queue[u] = <<>>
    BY <2>2
  <2> QED BY <2>2, <2>5, <2>6, SameDispatch
<1>6. CASE Return(t)
  BY <1>6, ReturnStep DEF Dispatch!Next
<1>7. CASE Finish(t)
  BY <1>7, FinishStep DEF Dispatch!Next
<1>8. CASE giop_thread_free(t)
  <2>1. pc[t] = "free" /\ pc' = [pc EXCEPT ![t] = "gone"] /\ UNCHANGED <<queue, stack, req>>
    BY <1>8 DEF giop_thread_free
  <2>2. CASE t \in Users
    <3>1. \E K \in SUBSET (IF Users = {} THEN {} ELSE Keys) : Dispatch!Lose(K)
      BY <1>8, <2>1, <2>2, LoseStep DEF Waiting
    <3> QED BY <3>1 DEF Dispatch!Next
  <2>3. CASE t \notin Users
    <3>1. queue[t] = <<>>
      BY <1>1, <2>1, <2>3 DEF Good, Placed, Quiet, NoOrphan
    <3>2. \A u \in Threads : (pc'[u] = "gone" <=> pc[u] = "gone") \/ queue[u] = <<>>
      BY <2>1, <3>1 DEF Typed, TypeOK
    <3>3. \A u \in Threads : pc'[u] = "code" <=> pc[u] = "code"
      BY <2>1 DEF Typed, TypeOK
    <3>4. \A r \in Requests : InCode(r)' <=> InCode(r)
      BY <2>1, <3>3 DEF InCode, Depth, Top
    <3> QED BY <2>1, <3>2, <3>4, SameDispatch
  <2> QED BY <2>2, <2>3
<1> QED BY <1>2, <1>3, <1>4, <1>5, <1>6, <1>7, <1>8 DEF ThreadStep, PopStep

LEMMA PushDispatch ==
  ASSUME Typed, KeysOwned, Nested, Quiet, Serial, Waiting, NEW r \in Requests, Push(r)
  PROVE  Dispatch!Accept(r)
<1>1. Main \in Threads /\ Main \notin Users /\ Main \notin Pool /\ NoThread \notin Threads
  BY ThreadsAssumption DEF ThreadsAssumption, Threads
<1>2. NoKey \notin Keys /\ NoKey # MainQueue /\ MainQueue \notin Keys
  BY RequestsAssumption DEF RequestsAssumption
<1>3. CASE PushMain(r)
  <2>1. /\ queue' = [queue EXCEPT ![Main] = Append(queue[Main], r)]
        /\ req' = [req EXCEPT ![r] = "queued"] /\ stack' = stack
        /\ Incoming(r) /\ KeyOf[r] = MainQueue /\ pc' = signalled(Main)
    BY <1>3 DEF PushMain, giop_thread_request_push
  <2>2. \A t \in Threads : /\ pc'[t] = "gone" <=> pc[t] = "gone"
                           /\ pc'[t] = "code" <=> pc[t] = "code"
    BY <2>1 DEF signalled, Typed, TypeOK
  <2>3. pc[Main] # "gone"
    BY <1>1 DEF Nested, Good, Placed
  <2>4. \A t \in Threads : Bound(t, KeyOf[r]) => t = Main
    BY <2>1 DEF Bound
  <2> QED BY <1>1, <2>1, <2>2, <2>3, <2>4, AcceptStep DEF Waiting
<1>4. CASE PushOwned(r)
  <2>1. PICK o \in Threads : o = hash[KeyOf[r]]
    BY <1>4 DEF PushOwned, Typed, TypeOK
  <2>2. /\ queue' = [queue EXCEPT ![o] = Append(queue[o], r)]
        /\ req' = [req EXCEPT ![r] = "queued"] /\ stack' = stack
        /\ Incoming(r) /\ KeyOf[r] \in Keys /\ pc' = signalled(o)
    BY <1>4, <2>1 DEF PushOwned, giop_thread_request_push
  <2>3. \A t \in Threads : /\ pc'[t] = "gone" <=> pc[t] = "gone"
                           /\ pc'[t] = "code" <=> pc[t] = "code"
    BY <2>2 DEF signalled, Typed, TypeOK
  <2>4. pc[o] # "gone"
    BY <2>1, <2>2 DEF KeysOwned, Live
  <2>5. \A t \in Threads : Bound(t, KeyOf[r]) => t = o
    BY <2>1, <2>2 DEF Bound
  <2> QED BY <2>2, <2>3, <2>4, <2>5, AcceptStep DEF Waiting
<1>5. ASSUME NEW o \in Pool, PushNew(r, o) PROVE Dispatch!Accept(r)
  <2>1. o \in Threads /\ o \notin Users /\ pc[o] \in {"none", "gone"} /\ queue[o] = <<>>
    BY <1>5, ThreadsAssumption
    DEF ThreadsAssumption, PushNew, Live, Threads, Quiet, NoOrphan
  <2>2. Append(queue[o], r) = <<r>>
    BY <2>1
  <2>3. /\ queue' = [queue EXCEPT ![o] = Append(queue[o], r)]
        /\ req' = [req EXCEPT ![r] = "queued"] /\ stack' = stack
        /\ Incoming(r) /\ pc' = [pc EXCEPT ![o] = "pooled"]
    BY <1>5, <2>2 DEF PushNew
  <2>4. /\ pc'[o] = "pooled"
        /\ \A t \in Threads : t # o => pc'[t] = pc[t]
    BY <2>1, <2>3 DEF Typed, TypeOK
  <2>5. \A t \in Threads : /\ t # o => (pc'[t] = "gone" <=> pc[t] = "gone")
                           /\ pc'[t] = "code" <=> pc[t] = "code"
    BY <2>1, <2>4
  <2>6. KeyOf[r] # NoKey => KeyOf[r] \in Keys /\ hash[KeyOf[r]] = NoThread
    BY <1>5 DEF PushNew
  <2>7. KeyOf[r] # NoKey => \A t \in Threads : Bound(t, KeyOf[r]) => t = o
    BY <1>1, <2>6 DEF Bound
  <2> QED BY <2>1, <2>3, <2>4, <2>5, <2>7, AcceptStep DEF Waiting
<1> QED BY <1>3, <1>4, <1>5 DEF Push

LEMMA CodeDispatch ==
  ASSUME Typed, Nested, Serial, NEW t \in Threads, Code(t)
  PROVE  Dispatch!Next \/ UNCHANGED <<Before, Phases>>
<1>1. ASSUME NEW p \in Policies \cup {NoPolicy}, CallRemote(t, p)
      PROVE  Dispatch!Next \/ UNCHANGED <<Before, Phases>>
  BY <1>1, WaitStep DEF CallRemote, Dispatch!Next
<1>2. ASSUME NEW p \in Policies \cup {NoPolicy}, NEW r \in Requests, CallCrossThread(t, r, p)
      PROVE  Dispatch!Next \/ UNCHANGED <<Before, Phases>>
  <2>1. waiting(t, r, p) /\ req[r] = "fresh" /\ req' = [req EXCEPT ![r] = "sent"]
    BY <1>2 DEF CallCrossThread
  <2>2. \A s \in Requests : req'[s] = req[s] \/ (req[s] = "fresh" /\ req'[s] = "sent")
    BY <2>1 DEF Typed, TypeOK
  <2> QED BY <2>1, <2>2, WaitStep DEF Dispatch!Next
<1>3. CASE (\E c \in Calls : CallAsync(t, c)) \/ (\E k \in Keys : Bind(t, k))
  <2>1. UNCHANGED <<queue, stack, req, pc>>
    BY <1>3 DEF CallAsync, Bind
  <2> QED BY <2>1, SameDispatch DEF InCode, Depth, Top
<1>4. CASE ThreadExit(t)
  <2>1. /\ UNCHANGED <<queue, stack, req>> /\ pc[t] = "code" /\ pc' = [pc EXCEPT ![t] = "free"]
        /\ Top(t).item = Own
    BY <1>4 DEF ThreadExit
  <2>2. /\ pc'[t] = "free" /\ \A u \in Threads : u # t => stack'[u] = stack[u] /\ pc'[u] = pc[u]
    BY <2>1 DEF Typed, TypeOK
  <2>3. ASSUME NEW r \in Requests PROVE InCode(r)' <=> InCode(r)
    BY <2>1, <2>2, Distinct, OtherCode
  <2>4. \A u \in Threads : (pc'[u] = "gone" <=> pc[u] = "gone") \/ queue[u] = <<>>
    BY <2>1, <2>2
  <2> QED BY <2>1, <2>3, <2>4, SameDispatch
<1> QED BY <1>1, <1>2, <1>3, <1>4 DEF Code

(* The main thread enters and leaves its main loop only from, and for, the *)
(* application's own code.                                                 *)
LEMMA MainDispatch ==
  ASSUME Typed, Nested, MainStep \/ OtherSource
  PROVE  UNCHANGED <<Before, Phases>>
<1>1. Main \in Threads /\ Main \notin Pool /\ Good(Main, stack[Main], pc[Main])
  BY ThreadsAssumption DEF ThreadsAssumption, Threads, Nested
<1>2. /\ UNCHANGED <<queue, stack, req>> /\ pc[Main] # "gone" /\ pc'[Main] # "gone"
      /\ \A u \in Threads : u # Main => pc'[u] = pc[u]
  BY <1>1 DEF MainStep, EnterLoop, HandleInput, Drain, OtherSource, Typed, TypeOK
<1>3. pc[Main] = "code" \/ pc'[Main] = "code" => Depth(Main) > 0 /\ Top(Main).item = Own
  <2>1. CASE EnterLoop
    <3>1. Len(stack[Main]) \in Nat /\ stack[Main] # <<>>
      BY <1>1 DEF Good, Shape, Typed, TypeOK
    <3>2. Len(stack[Main]) > 0
      BY <1>1, <3>1, EmptySeq DEF Typed, TypeOK
    <3> QED BY <2>1, <3>2 DEF EnterLoop, Depth
  <2>2. CASE OtherSource
    <3>1. Len(stack[Main]) = 1
      BY <1>1, <2>2 DEF OtherSource, Good, Placed
    <3>2. 1 \in 1 .. Len(stack[Main])
      BY <3>1
    <3>3. stack[Main][1].item = Own
      BY <1>1, <3>2 DEF Good, Shape
    <3> QED BY <3>1, <3>3 DEF Depth, Top
  <2>3. CASE HandleInput \/ Drain
    BY <1>1, <2>3 DEF HandleInput, Drain, Typed, TypeOK
  <2> QED BY <2>1, <2>2, <2>3 DEF MainStep
<1>4. Depth(Main)' = Depth(Main) /\ Top(Main)' = Top(Main)
  BY <1>2 DEF Depth, Top
<1>5. ASSUME NEW r \in Requests PROVE InCode(r)' <=> InCode(r)
  BY <1>1, <1>2, <1>3, <1>4, Distinct, OtherCode
<1>6. \A u \in Threads : (pc'[u] = "gone" <=> pc[u] = "gone") \/ queue[u] = <<>>
  BY <1>2
<1> QED BY <1>2, <1>5, <1>6, SameDispatch

LEMMA NextDispatch ==
  ASSUME Typed, KeysOwned, Nested, Quiet, Serial, Waiting, Next
  PROVE  Dispatch!Next \/ UNCHANGED <<Before, Phases>>
<1>1. ASSUME NEW r \in Requests, Push(r) PROVE Dispatch!Next
  BY <1>1, PushDispatch DEF Dispatch!Next
<1>2. ASSUME NEW t \in Threads, SpuriousWakeup(t) \/ \E c \in Calls : AsyncReply(t, c)
      PROVE  UNCHANGED <<Before, Phases>>
  <2>1. UNCHANGED <<queue, stack, req>>
    BY <1>2 DEF SpuriousWakeup, AsyncReply
  <2>2. \A u \in Threads : (pc'[u] = "gone" <=> pc[u] = "gone") /\ (pc'[u] = "code" <=> pc[u] = "code")
    BY <1>2 DEF SpuriousWakeup, AsyncReply, signalled, Typed, TypeOK
  <2>3. \A r \in Requests : InCode(r)' <=> InCode(r)
    BY <2>1, <2>2 DEF InCode, Depth, Top
  <2> QED BY <2>1, <2>2, <2>3, SameDispatch
<1>3. ASSUME NEW t \in Threads, NEW i \in 1 .. Depth(t), Reply(t, i)
      PROVE  UNCHANGED <<Before, Phases>>
  <2> DEFINE f == [stack[t][i] EXCEPT !.got = TRUE]
  <2>1. /\ stack' = [stack EXCEPT ![t] = [stack[t] EXCEPT ![i] = f]]
        /\ UNCHANGED <<queue, req>> /\ pc' = signalled(t)
    BY <1>3 DEF Reply, Typed, TypeOK
  <2>2. i \in 1 .. Len(stack[t]) /\ stack[t] \in Seq(Frame)
    BY DEF Depth, Typed, TypeOK
  <2>3. f.item = stack[t][i].item
    <3>1. stack[t][i] \in Frame
      BY <2>2
    <3> QED BY <3>1 DEF Frame
  <2> HIDE DEF f
  <2>4. \A u \in Threads : /\ Len(stack'[u]) = Len(stack[u])
                           /\ \A j \in 1 .. Len(stack[u]) : stack'[u][j].item = stack[u][j].item
    BY <2>1, <2>2, <2>3 DEF Typed, TypeOK
  <2>5. \A u \in Threads : (pc'[u] = "gone" <=> pc[u] = "gone") /\ (pc'[u] = "code" <=> pc[u] = "code")
    BY <2>1 DEF signalled, Typed, TypeOK
  <2>6. \A u \in Threads : Len(stack[u]) > 0 => Len(stack[u]) \in 1 .. Len(stack[u])
    BY DEF Typed, TypeOK
  <2>7. \A r \in Requests : InCode(r)' <=> InCode(r)
    BY <2>4, <2>5, <2>6 DEF InCode, Depth, Top
  <2> QED BY <2>1, <2>5, <2>7, SameDispatch
<1>4. ASSUME NEW k \in Keys, giop_thread_key_release(k) PROVE UNCHANGED <<Before, Phases>>
  <2>1. UNCHANGED <<queue, stack, req, pc>>
    BY <1>4 DEF giop_thread_key_release
  <2> QED BY <2>1, SameDispatch DEF InCode, Depth, Top
<1> QED BY <1>1, <1>2, <1>3, <1>4, ThreadDispatch, CodeDispatch, MainDispatch DEF Next, Replies

(* giop.c implements SerialDispatch: however threads come and go, handlers *)
(* nest, policies let requests overtake each other and threads of the      *)
(* application end, what the requests can see is that those of one key run *)
(* one at a time, in order of arrival within a POA, and none twice.        *)
THEOREM ImplementsSerialDispatch == Spec => ImplementsDispatch
<1>1. Init => Dispatch!Init
  <2> SUFFICES ASSUME Init PROVE Dispatch!Init
    OBVIOUS
  <2>1. \A t \in Threads : queue[t] = <<>>
    BY DEF Init
  <2>2. Before = {}
    BY <2>1 DEF Before, Ahead
  <2>3. ASSUME NEW r \in Requests PROVE PhaseOf(r) = "fresh"
    BY DEF Init, PhaseOf
  <2> QED BY <2>2, <2>3 DEF Dispatch!Init, Phases
<1>2. Typed /\ KeysOwned /\ Nested /\ Quiet /\ Serial /\ Waiting /\ [Next]_vars
        => [Dispatch!Next]_<<Before, Phases>>
  <2> SUFFICES ASSUME Typed, KeysOwned, Nested, Quiet, Serial, Waiting, [Next]_vars
               PROVE  Dispatch!Next \/ UNCHANGED <<Before, Phases>>
    OBVIOUS
  <2>1. CASE UNCHANGED vars
    <3>1. UNCHANGED <<queue, stack, req, pc>>
      BY <2>1 DEF vars
    <3> QED BY <3>1, SameDispatch DEF InCode, Depth, Top
  <2> QED BY <2>1, NextDispatch
<1> QED BY <1>1, <1>2, TypedInvariant, KeysAlwaysOwned, NestedInvariant, QuietInvariant,
           SerialInvariant, WaitingInvariant, PTL DEF Spec, ImplementsDispatch, Dispatch!Spec
=============================================================================
