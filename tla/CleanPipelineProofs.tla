------------------------ MODULE CleanPipelineProofs -------------------------
(***************************************************************************)
(* For queues and caches of any size and any number of frames: what the    *)
(* pipeline delivers is complete, in order and without repetition, and a   *)
(* stop() that has returned leaves nothing behind.  The halves of a frame  *)
(* overtake those of other kinds but never those of their own, so that an  *)
(* id that has gone past some place is below everything of its kind that   *)
(* is still to come there.                                                 *)
(***************************************************************************)
EXTENDS CleanPipeline, FiniteSetTheorems, WellFoundedInduction, TLAPS

\* A thread that is at work has something in its hands.
InHand ==
    /\ capture \in {"push_yolo", "push_midas"} => captured \in Nat
    /\ \A k \in Kind : worker[k] = "busy" => work[k] \in Nat
    /\ sender = "joining" => half \in Half

\* The frame of the capture thread has not gone into queue k yet.
Due(k) == capture = "push_yolo" \/ (capture = "push_midas" /\ k = "midas")

\* n is below every id of kind k that has not reached the send queue.
Upstream(n, k) ==
    /\ n < frameCounter
    /\ Due(k) => n < captured
    /\ \A i \in DOMAIN inQueue[k] : n < inQueue[k][i]
    /\ worker[k] = "busy" => n < work[k]

\* n is below every id of kind k that the send thread has not taken.
Passed(n, k) ==
    /\ Upstream(n, k)
    /\ \A i \in DOMAIN sendQueue : sendQueue[i].kind = k => n < sendQueue[i].id

\* The ids of one kind, from the camera to the worker.
InOrder(k) ==
    /\ Due(k) => captured < frameCounter
    /\ \A i \in DOMAIN inQueue[k] : /\ inQueue[k][i] < frameCounter
                                    /\ Due(k) => inQueue[k][i] < captured
    /\ \A i, j \in DOMAIN inQueue[k] : i < j => inQueue[k][i] < inQueue[k][j]
    /\ worker[k] = "busy" =>
           /\ work[k] < frameCounter
           /\ Due(k) => work[k] < captured
           /\ \A i \in DOMAIN inQueue[k] : work[k] < inQueue[k][i]

\* The halves in the send queue.
Sending ==
    /\ \A i \in DOMAIN sendQueue : Upstream(sendQueue[i].id, sendQueue[i].kind)
    /\ \A i, j \in DOMAIN sendQueue :
           i < j /\ sendQueue[i].kind = sendQueue[j].kind
               => sendQueue[i].id < sendQueue[j].id

\* The halves the send thread has taken, and what it has delivered.
Joining ==
    /\ sender = "joining" => Passed(half.id, half.kind)
    /\ \A h \in frameCache :
           /\ Passed(h.id, h.kind)
           /\ sender = "joining" /\ h.kind = half.kind => h.id < half.id
    /\ \A i \in DOMAIN delivered :
           /\ \A k \in Kind : Passed(delivered[i].id, k)
           /\ sender = "joining" => delivered[i].id < half.id

\* The threads stop() has waited for have exited.
Joined ==
    /\ running <=> control = "running"
    /\ control \notin {"running", "join_capture"} => capture = "exited"
    /\ control \notin {"running", "join_capture", "join_yolo"}
           => worker["yolo"] = "exited"
    /\ control \in {"join_send", "join_logging", "clear", "stopped"}
           => worker["midas"] = "exited"
    /\ control \in {"join_logging", "clear", "stopped"} => sender = "exited"
    /\ control \in {"clear", "stopped"} => logger = "exited"

Ordered == (\A k \in Kind : InOrder(k)) /\ Sending /\ Joining
           /\ DeliveredInOrder /\ DeliveredComplete

Inv == TypeOK /\ InHand /\ Ordered /\ Joined /\ StoppedIsQuiet

-----------------------------------------------------------------------------
\* What a push of x makes of a queue q: an entry is x or an old one, and of two
\* entries the first is an old one, and the second is x or came later.
Pushes(p, q, x) ==
    /\ \A i \in DOMAIN p : p[i] = x \/ \E a \in DOMAIN q : p[i] = q[a]
    /\ \A i, j \in DOMAIN p : i < j =>
           \E a \in DOMAIN q :
               /\ p[i] = q[a]
               /\ p[j] = x \/ \E b \in DOMAIN q : a < b /\ p[j] = q[b]

\* A bounded queue is such a queue, whether or not it drops its oldest entry.
LEMMA PushedEntries ==
    ASSUME NEW S, NEW q \in Seq(S), NEW x \in S, NEW max \in Nat \ {0}
    PROVE  Pushed(q, x, max) \in Seq(S) /\ Pushes(Pushed(q, x, max), q, x)
<1>1. ASSUME NEW r \in Seq(S), NEW d \in {0, 1}, Len(q) = Len(r) + d,
             \A i \in DOMAIN r : r[i] = q[i + d]
      PROVE  Append(r, x) \in Seq(S) /\ Pushes(Append(r, x), q, x)
  <2> DEFINE p == Append(r, x)
  <2>1. /\ p \in Seq(S) /\ DOMAIN p = 1 .. Len(r) + 1 /\ Len(r) \in Nat
        /\ p[Len(r) + 1] = x /\ DOMAIN q = 1 .. Len(q)
        /\ DOMAIN r = 1 .. Len(r) /\ \A i \in DOMAIN r : p[i] = r[i]
    OBVIOUS
  <2> HIDE DEF p
  <2>2. \A i \in DOMAIN r : i + d \in DOMAIN q /\ p[i] = q[i + d]
    BY <1>1, <2>1
  <2>3. \A i \in DOMAIN p : i \in DOMAIN r \/ i = Len(r) + 1
    BY <2>1
  <2>4. \A i \in DOMAIN p : p[i] = x \/ \E a \in DOMAIN q : p[i] = q[a]
    BY <2>1, <2>2, <2>3
  <2>5. ASSUME NEW i \in DOMAIN p, NEW j \in DOMAIN p, i < j
        PROVE  \E a \in DOMAIN q :
                  /\ p[i] = q[a]
                  /\ p[j] = x \/ \E b \in DOMAIN q : a < b /\ p[j] = q[b]
    <3>1. i \in DOMAIN r /\ i \in Nat /\ j \in Nat /\ i + d < j + d
      BY <2>1, <2>5
    <3> QED BY <2>1, <2>2, <2>3, <3>1
  <2> QED BY <2>1, <2>4, <2>5 DEF p, Pushes
<1>2. CASE Len(q) < max
  BY <1>1, <1>2 DEF Pushed
<1>3. CASE ~(Len(q) < max)
  <2>1. q # <<>> /\ Len(q) \in Nat \ {0}
    BY <1>3
  <2>2. /\ Tail(q) \in Seq(S) /\ Len(q) = Len(Tail(q)) + 1
        /\ \A i \in DOMAIN Tail(q) : Tail(q)[i] = q[i + 1]
    BY <2>1
  <2>3. Append(Tail(q), x) \in Seq(S) /\ Pushes(Append(Tail(q), x), q, x)
    BY <1>1, <2>2
  <2> QED BY <1>3, <2>3 DEF Pushed
<1> QED BY <1>2, <1>3

\* What taking x from a queue q makes of it: x came before all that stays.
Pops(p, q, x) ==
    /\ \E a \in DOMAIN q :
           /\ x = q[a]
           /\ \A i \in DOMAIN p : \E b \in DOMAIN q : a < b /\ p[i] = q[b]
    /\ \A i, j \in DOMAIN p : i < j =>
           \E a, b \in DOMAIN q : a < b /\ p[i] = q[a] /\ p[j] = q[b]

\* The first entry of a queue and the rest of it.
LEMMA PoppedEntries ==
    ASSUME NEW S, NEW q \in Seq(S), q # <<>>
    PROVE  Tail(q) \in Seq(S) /\ Pops(Tail(q), q, Head(q))
<1>1. /\ Tail(q) \in Seq(S) /\ Len(q) \in Nat \ {0} /\ DOMAIN q = 1 .. Len(q)
      /\ DOMAIN Tail(q) = 1 .. Len(q) - 1 /\ Head(q) = q[1]
      /\ \A i \in DOMAIN Tail(q) : Tail(q)[i] = q[i + 1]
  OBVIOUS
<1>2. 1 \in DOMAIN q
  BY <1>1
<1>3. \A i \in DOMAIN Tail(q) :
          i + 1 \in DOMAIN q /\ 1 < i + 1 /\ Tail(q)[i] = q[i + 1]
  BY <1>1
<1>4. \A i, j \in DOMAIN Tail(q) : i < j => i + 1 < j + 1
  BY <1>1
<1> QED BY <1>1, <1>2, <1>3, <1>4 DEF Pops

-----------------------------------------------------------------------------
(* Types. *)

\* A pipeline that has just been started is well typed.
LEMMA TypeInit == Init => TypeOK /\ InHand
  BY DEF Init, TypeOK, InHand, Nothing, NoHalf

\* The capture thread keeps the types.
LEMMA TypeCapture ==
    ASSUME TypeOK, InHand, CaptureStep
    PROVE  TypeOK' /\ InHand'
<1> USE DEF TypeOK, InHand, captureOnly, Nothing
<1>1. CASE Grab
  BY <1>1, CleanPipelineAssumption DEF Grab
<1>2. ASSUME NEW k \in Kind, NEW from, NEW to \in {"push_midas", "loop"},
             from \in {"push_yolo", "push_midas"}, PushFrame(k, from, to)
      PROVE  TypeOK' /\ InHand'
  <2>1. captured \in Nat
    BY <1>2 DEF PushFrame
  <2>2. Pushed(inQueue[k], captured, QueueMax) \in Seq(Nat)
    BY <2>1, PushedEntries, CleanPipelineAssumption
  <2>3. inQueue' \in [Kind -> Seq(Nat)]
    BY <1>2, <2>2 DEF PushFrame
  <2>4. captured' \in Nat \cup {Nothing} /\ (capture' = "push_midas" => captured' \in Nat)
        /\ capture' \in {"push_midas", "loop"}
    BY <1>2, <2>1 DEF PushFrame
  <2> QED BY <1>2, <2>3, <2>4 DEF PushFrame
<1>3. CASE CaptureExits
  BY <1>3 DEF CaptureExits
<1> QED BY <1>1, <1>2, <1>3 DEF CaptureStep, Kind

\* A worker keeps the types.
LEMMA TypeWorker ==
    ASSUME TypeOK, InHand, NEW k \in Kind, WorkerStep(k)
    PROVE  TypeOK' /\ InHand'
<1> USE DEF TypeOK, InHand, workerOnly, Nothing
<1>1. CASE TakeFrame(k)
  <2>1. Head(inQueue[k]) \in Nat /\ Tail(inQueue[k]) \in Seq(Nat)
    BY <1>1 DEF TakeFrame
  <2>2. inQueue' \in [Kind -> Seq(Nat)] /\ work' \in [Kind -> Nat \cup {Nothing}]
    BY <1>1, <2>1 DEF TakeFrame
  <2>3. worker' \in [Kind -> {"loop", "busy", "exited"}]
        /\ \A j \in Kind : worker'[j] = "busy" => work'[j] \in Nat
    BY <1>1, <2>1 DEF TakeFrame
  <2> QED BY <1>1, <2>2, <2>3 DEF TakeFrame
<1>2. CASE Process(k)
  <2>1. work[k] \in Nat
    BY <1>2 DEF Process
  <2>2. sendQueue' \in Seq(Half)
    <3>1. [id |-> work[k], kind |-> k] \in Half
      BY <2>1 DEF Half
    <3>2. Pushed(sendQueue, [id |-> work[k], kind |-> k], SendMax) \in Seq(Half)
      BY <3>1, PushedEntries, CleanPipelineAssumption
    <3> QED BY <1>2, <3>2 DEF Process
  <2>3. /\ work' \in [Kind -> Nat \cup {Nothing}]
        /\ worker' \in [Kind -> {"loop", "busy", "exited"}]
        /\ \A j \in Kind : worker'[j] = "busy" => work'[j] \in Nat
    BY <1>2 DEF Process
  <2> QED BY <1>2, <2>2, <2>3 DEF Process
<1>3. CASE WorkerExits(k)
  BY <1>3 DEF WorkerExits
<1> QED BY <1>1, <1>2, <1>3 DEF WorkerStep

\* The send thread keeps the types.
LEMMA TypeSender ==
    ASSUME TypeOK, InHand, SenderStep
    PROVE  TypeOK' /\ InHand'
<1> USE DEF TypeOK, InHand, senderOnly
<1>1. CASE TakeHalf
  BY <1>1 DEF TakeHalf
<1>2. CASE KeepHalf
  <2>1. half \in Half /\ frameCache' \subseteq Half
    BY <1>2 DEF KeepHalf
  <2> QED BY <1>2, <2>1 DEF KeepHalf
<1>3. CASE Deliver
  <2>1. half \in Half /\ half.id \in Nat /\ half.kind \in Kind
    BY <1>3 DEF Deliver, Half
  <2>2. {h.kind : h \in Cached(half.id) \cup {half}} \in SUBSET Kind
    BY <2>1 DEF Cached, Half
  <2>3. delivered' \in Seq(Frame)
    <3> DEFINE d == [id |-> half.id,
                     kinds |-> {h.kind : h \in Cached(half.id) \cup {half}}]
    <3>1. d \in Frame
      BY <2>1, <2>2 DEF Frame
    <3>2. delivered' = Append(delivered, d)
      BY <1>3 DEF Deliver
    <3> HIDE DEF d
    <3> QED BY <3>1, <3>2
  <2>4. loggingQueue' \in Seq(Nat)
    <3>1. Pushed(loggingQueue, half.id, LogMax) \in Seq(Nat)
      BY <2>1, PushedEntries, CleanPipelineAssumption
    <3> QED BY <1>3, <3>1 DEF Deliver
  <2>5. frameCache' \subseteq Half /\ sender' = "loop" /\ half' = NoHalf
    BY <1>3 DEF Deliver
  <2> QED BY <1>3, <2>3, <2>4, <2>5 DEF Deliver
<1>4. CASE SenderExits
  BY <1>4 DEF SenderExits
<1> QED BY <1>1, <1>2, <1>3, <1>4 DEF SenderStep

\* The logging thread and stop() keep the types.
LEMMA TypeRest ==
    ASSUME TypeOK, InHand, LoggerStep \/ ControlStep \/ UNCHANGED vars
    PROVE  TypeOK' /\ InHand'
<1> USE DEF TypeOK, InHand
<1>1. CASE LoggerStep
  <2>1. loggingQueue' \in Seq(Nat) /\ logger' \in {"loop", "exited"}
    <3>1. CASE Log
      BY <3>1 DEF Log
    <3>2. CASE LoggerExits
      BY <3>2 DEF LoggerExits
    <3> QED BY <1>1, <3>1, <3>2 DEF LoggerStep
  <2>2. UNCHANGED <<sender, half, sendQueue, frameCache, delivered, senderOnly>>
    BY <1>1 DEF LoggerStep, Log, LoggerExits
  <2> QED BY <2>1, <2>2 DEF senderOnly
<1>2. CASE ControlStep
  <2>1. running' \in BOOLEAN
    BY <1>2 DEF ControlStep, Stop, JoinThreads, Join, ClearQueues
  <2>2. /\ inQueue' \in [Kind -> Seq(Nat)]
        /\ sendQueue' \in Seq(Half) /\ loggingQueue' \in Seq(Nat)
    <3>1. CASE Stop \/ JoinThreads
      BY <3>1 DEF Stop, JoinThreads, Join
    <3>2. CASE ClearQueues
      BY <3>2 DEF ClearQueues
    <3> QED BY <1>2, <3>1, <3>2 DEF ControlStep
  <2>3. UNCHANGED stopOnly
    BY <1>2 DEF ControlStep, Stop, JoinThreads, Join, ClearQueues
  <2>4. control' \in {"running", "join_capture", "join_yolo", "join_midas",
                      "join_send", "join_logging", "clear", "stopped"}
    BY <1>2 DEF ControlStep, Stop, JoinThreads, Join, ClearQueues
  <2> QED BY <2>1, <2>2, <2>3, <2>4 DEF stopOnly
<1>3. CASE UNCHANGED vars
  BY <1>3 DEF vars
<1> QED BY <1>1, <1>2, <1>3

\* Every step keeps the types.
LEMMA TypeStep == TypeOK /\ InHand /\ [Next]_vars => TypeOK' /\ InHand'
  BY TypeCapture, TypeWorker, TypeSender, TypeRest DEF Next

-----------------------------------------------------------------------------
(* The order. *)

\* The ids and kinds the order is about.
LEMMA Typed ==
    ASSUME TypeOK
    PROVE  /\ frameCounter \in Nat /\ captured \in Int
           /\ \A k \in Kind : /\ inQueue[k] \in Seq(Nat) /\ work[k] \in Int
                              /\ \A i \in DOMAIN inQueue[k] : inQueue[k][i] \in Nat
           /\ \A i \in DOMAIN sendQueue : sendQueue[i].id \in Nat
                                          /\ sendQueue[i].kind \in Kind
           /\ \A h \in frameCache : h.id \in Nat /\ h.kind \in Kind
           /\ \A i \in DOMAIN delivered : delivered[i].id \in Nat
<1>1. \A i \in DOMAIN sendQueue : sendQueue[i] \in Half
  BY DEF TypeOK
<1>2. \A i \in DOMAIN delivered : delivered[i] \in Frame
  BY DEF TypeOK
<1> QED BY <1>1, <1>2 DEF TypeOK, Half, Frame, Nothing

\* What a push of the capture thread changes: the frame is no longer due for
\* the queue it is in now.
LEMMA PushFacts ==
    ASSUME TypeOK, InHand, NEW j \in Kind,
           \/ j = "yolo" /\ PushFrame("yolo", "push_yolo", "push_midas")
           \/ j = "midas" /\ PushFrame("midas", "push_midas", "loop")
    PROVE  /\ Due(j) /\ ~Due(j)' /\ captured \in Nat
           /\ \A k \in Kind \ {j} : Due(k)' <=> Due(k)
           /\ \A k \in Kind : Due(k)' => captured' = captured
           /\ Pushes(inQueue'[j], inQueue[j], captured)
           /\ \A k \in Kind \ {j} : inQueue'[k] = inQueue[k]
           /\ UNCHANGED <<frameCounter, captureOnly>>
<1>1. captured \in Nat /\ inQueue[j] \in Seq(Nat)
  BY DEF PushFrame, InHand, TypeOK
<1>2. inQueue'[j] = Pushed(inQueue[j], captured, QueueMax)
  BY DEF PushFrame, TypeOK
<1>3. Pushes(Pushed(inQueue[j], captured, QueueMax), inQueue[j], captured)
  BY <1>1, PushedEntries, CleanPipelineAssumption
<1>4. Pushes(inQueue'[j], inQueue[j], captured)
  BY <1>2, <1>3
<1> QED BY <1>1, <1>4 DEF PushFrame, Due, Kind, TypeOK

\* What is below all that is to come stays so when the capture thread goes on.
LEMMA CaptureUpstream ==
    ASSUME TypeOK, InHand, CaptureStep, NEW k \in Kind, NEW n \in Int,
           Upstream(n, k)
    PROVE  Upstream(n, k)'
<1>1. CASE Grab
  BY <1>1, Typed DEF Grab, Upstream, Due, captureOnly
<1>2. ASSUME NEW j \in Kind,
             \/ j = "yolo" /\ PushFrame("yolo", "push_yolo", "push_midas")
             \/ j = "midas" /\ PushFrame("midas", "push_midas", "loop")
      PROVE  Upstream(n, k)'
  <2>1. CASE k # j
    BY <1>2, <2>1, PushFacts DEF Upstream, captureOnly
  <2>2. CASE k = j
    <3>1. captured \in Nat /\ n < captured /\ inQueue[k] \in Seq(Nat)
      BY <1>2, <2>2, PushFacts, Typed DEF Upstream, InHand, PushFrame
    <3>2. Pushes(inQueue'[k], inQueue[k], captured)
      BY <1>2, <2>2, PushFacts
    <3>3. \A i \in DOMAIN inQueue'[k] : n < inQueue'[k][i]
      BY <3>1, <3>2 DEF Upstream, Pushes
    <3> QED BY <1>2, <2>2, <3>3, PushFacts DEF Upstream, captureOnly
  <2> QED BY <2>1, <2>2
<1>3. CASE CaptureExits
  BY <1>3 DEF CaptureExits, Upstream, Due, captureOnly
<1> QED BY <1>1, <1>2, <1>3 DEF CaptureStep, Kind

\* A new frame is above all others of its kind.
LEMMA CaptureInOrder ==
    ASSUME TypeOK, InHand, CaptureStep, NEW k \in Kind, InOrder(k)
    PROVE  InOrder(k)'
<1>1. CASE Grab
  BY <1>1, Typed DEF Grab, InOrder, Due, captureOnly
<1>2. ASSUME NEW j \in Kind,
             \/ j = "yolo" /\ PushFrame("yolo", "push_yolo", "push_midas")
             \/ j = "midas" /\ PushFrame("midas", "push_midas", "loop")
      PROVE  InOrder(k)'
  <2>1. CASE k # j
    BY <1>2, <2>1, PushFacts DEF InOrder, captureOnly
  <2>2. CASE k = j
    <3>1. /\ captured \in Nat /\ inQueue[k] \in Seq(Nat) /\ frameCounter \in Nat
          /\ \A i \in DOMAIN inQueue[k] : inQueue[k][i] \in Nat
      BY <1>2, Typed DEF InHand, PushFrame
    <3>2. Pushes(inQueue'[k], inQueue[k], captured)
      BY <1>2, <2>2, PushFacts
    <3>3. /\ Due(k) /\ ~Due(k)' /\ frameCounter' = frameCounter
          /\ worker' = worker /\ work' = work
      BY <1>2, <2>2, PushFacts DEF captureOnly
    <3>4. \A i \in DOMAIN inQueue'[k] : inQueue'[k][i] < frameCounter
      BY <3>1, <3>2, <3>3 DEF InOrder, Pushes
    <3>5. \A a, b \in DOMAIN inQueue'[k] : a < b => inQueue'[k][a] < inQueue'[k][b]
      BY <3>2, <3>3 DEF InOrder, Pushes
    <3>6. worker[k] = "busy" => \A i \in DOMAIN inQueue'[k] : work[k] < inQueue'[k][i]
      BY <3>1, <3>2, <3>3 DEF InOrder, Pushes
    <3> QED BY <3>3, <3>4, <3>5, <3>6 DEF InOrder
  <2> QED BY <2>1, <2>2
<1>3. CASE CaptureExits
  BY <1>3 DEF CaptureExits, InOrder, Due, captureOnly
<1> QED BY <1>1, <1>2, <1>3 DEF CaptureStep, Kind

\* The capture thread keeps the order.
LEMMA OrderedCapture ==
    ASSUME TypeOK, InHand, Ordered, CaptureStep
    PROVE  Ordered'
<1>1. UNCHANGED <<sendQueue, sender, half, frameCache, delivered>>
  BY DEF CaptureStep, Grab, PushFrame, CaptureExits, captureOnly
<1>2. \A k \in Kind : InOrder(k)'
  BY CaptureInOrder DEF Ordered
<1>3. \A k \in Kind : \A n \in Int : Upstream(n, k) => Upstream(n, k)'
  BY CaptureUpstream
<1>4. \A k \in Kind : \A n \in Int : Passed(n, k) => Passed(n, k)'
  BY <1>1, <1>3 DEF Passed
<1>5. Sending'
  BY <1>1, <1>3, Typed DEF Ordered, Sending
<1>6. Joining'
  <2>1. sender = "joining" => half.id \in Nat /\ half.kind \in Kind
    BY DEF InHand, Half
  <2> QED BY <1>1, <1>4, <2>1, Typed DEF Ordered, Joining
<1>7. DeliveredInOrder' /\ DeliveredComplete'
  BY <1>1 DEF Ordered, DeliveredInOrder, DeliveredComplete
<1> QED BY <1>2, <1>5, <1>6, <1>7 DEF Ordered

\* What is below all that is to come stays so when a worker goes on.
LEMMA WorkerUpstream ==
    ASSUME TypeOK, InHand, NEW k \in Kind, WorkerStep(k), NEW m \in Kind,
           NEW n \in Int, Upstream(n, m)
    PROVE  Upstream(n, m)'
<1>1. CASE TakeFrame(k)
  <2>1. Pops(inQueue'[k], inQueue[k], work'[k])
    BY <1>1, Typed, PoppedEntries DEF TakeFrame, TypeOK
  <2>2. CASE m = k
    <3>1. UNCHANGED <<frameCounter, captured>> /\ (Due(k)' <=> Due(k))
      BY <1>1 DEF TakeFrame, workerOnly, Due
    <3>2. n < work'[k] /\ \A i \in DOMAIN inQueue'[k] : n < inQueue'[k][i]
      BY <2>1, <2>2 DEF Upstream, Pops
    <3> QED BY <2>2, <3>1, <3>2 DEF Upstream
  <2>3. CASE m # k
    BY <1>1, <2>3 DEF TakeFrame, Upstream, Due, workerOnly, TypeOK
  <2> QED BY <2>2, <2>3
<1>2. CASE Process(k)
  BY <1>2 DEF Process, Upstream, Due, workerOnly, TypeOK
<1>3. CASE WorkerExits(k)
  BY <1>3 DEF WorkerExits, Upstream, Due, workerOnly, TypeOK
<1> QED BY <1>1, <1>2, <1>3 DEF WorkerStep

\* A worker takes the frames in their order.
LEMMA WorkerInOrder ==
    ASSUME TypeOK, InHand, NEW k \in Kind, WorkerStep(k), NEW m \in Kind,
           InOrder(m)
    PROVE  InOrder(m)'
<1>1. CASE TakeFrame(k)
  <2>1. Pops(inQueue'[k], inQueue[k], work'[k])
    BY <1>1, Typed, PoppedEntries DEF TakeFrame, TypeOK
  <2>2. CASE m = k
    <3>1. UNCHANGED <<frameCounter, captured>> /\ (Due(k)' <=> Due(k))
      BY <1>1 DEF TakeFrame, workerOnly, Due
    <3>2. \A i \in DOMAIN inQueue'[k] : /\ inQueue'[k][i] < frameCounter
                                        /\ Due(k) => inQueue'[k][i] < captured
                                        /\ work'[k] < inQueue'[k][i]
      BY <2>1, <2>2 DEF InOrder, Pops
    <3>3. \A i, j \in DOMAIN inQueue'[k] : i < j => inQueue'[k][i] < inQueue'[k][j]
      BY <2>1, <2>2 DEF InOrder, Pops
    <3>4. work'[k] < frameCounter /\ (Due(k) => work'[k] < captured)
      BY <2>1, <2>2 DEF InOrder, Pops
    <3> QED BY <2>2, <3>1, <3>2, <3>3, <3>4 DEF InOrder
  <2>3. CASE m # k
    BY <1>1, <2>3 DEF TakeFrame, InOrder, Due, workerOnly, TypeOK
  <2> QED BY <2>2, <2>3
<1>2. CASE Process(k)
  BY <1>2 DEF Process, InOrder, Due, workerOnly, TypeOK
<1>3. CASE WorkerExits(k)
  BY <1>3 DEF WorkerExits, InOrder, Due, workerOnly, TypeOK
<1> QED BY <1>1, <1>2, <1>3 DEF WorkerStep

\* A half that is sent is above all of its kind that were sent before.
LEMMA OrderedWorker ==
    ASSUME TypeOK, InHand, Ordered, NEW k \in Kind, WorkerStep(k)
    PROVE  Ordered'
<1>1. UNCHANGED <<sender, half, frameCache, delivered>>
  BY DEF WorkerStep, TakeFrame, Process, WorkerExits, workerOnly
<1>2. \A m \in Kind : InOrder(m)'
  BY WorkerInOrder DEF Ordered
<1>3. \A m \in Kind : \A n \in Int : Upstream(n, m) => Upstream(n, m)'
  BY WorkerUpstream
<1> PICK new : new = [id |-> work[k], kind |-> k]
  OBVIOUS
<1>4. \/ UNCHANGED sendQueue
      \/ /\ Process(k) /\ worker[k] = "busy" /\ work[k] \in Nat
         /\ Pushes(sendQueue', sendQueue, new)
  <2>1. CASE Process(k)
    <3>1. worker[k] = "busy" /\ work[k] \in Nat /\ new \in Half
      BY <2>1 DEF Process, InHand, Half
    <3>2. Pushes(Pushed(sendQueue, new, SendMax), sendQueue, new)
      BY <3>1, PushedEntries, CleanPipelineAssumption DEF TypeOK
    <3> QED BY <2>1, <3>1, <3>2 DEF Process
  <2>2. CASE TakeFrame(k) \/ WorkerExits(k)
    BY <2>2 DEF TakeFrame, WorkerExits
  <2> QED BY <2>1, <2>2 DEF WorkerStep
<1>5. new.id = work[k] /\ new.kind = k
  OBVIOUS
<1>6. \A m \in Kind : \A n \in Int : Passed(n, m) => Passed(n, m)'
  <2> SUFFICES ASSUME NEW m \in Kind, NEW n \in Int, Passed(n, m)
               PROVE  Passed(n, m)'
    OBVIOUS
  <2>1. Upstream(n, m) /\ Upstream(n, m)'
    BY <1>3 DEF Passed
  <2>2. CASE UNCHANGED sendQueue
    BY <2>1, <2>2 DEF Passed
  <2>3. CASE ~UNCHANGED sendQueue
    <3>1. m = k => n < new.id
      BY <1>4, <1>5, <2>1, <2>3 DEF Upstream
    <3>2. \A i \in DOMAIN sendQueue' :
              sendQueue'[i].kind = m => n < sendQueue'[i].id
      BY <1>4, <1>5, <2>3, <3>1 DEF Passed, Pushes
    <3> QED BY <2>1, <3>2 DEF Passed
  <2> QED BY <2>2, <2>3
<1>7. Sending'
  <2>1. CASE UNCHANGED sendQueue
    BY <1>3, <2>1, Typed DEF Ordered, Sending
  <2>2. CASE ~UNCHANGED sendQueue
    <3>1. Upstream(new.id, k)'
      <4>1. InOrder(k) /\ worker[k] = "busy" /\ worker'[k] # "busy"
        BY <1>4, <2>2 DEF Ordered, Process, TypeOK
      <4>2. UNCHANGED <<frameCounter, capture, captured, inQueue>>
        BY <1>4, <2>2 DEF Process, workerOnly
      <4> QED BY <1>5, <4>1, <4>2 DEF InOrder, Upstream, Due
    <3>2. ASSUME NEW i \in DOMAIN sendQueue', NEW n, NEW m,
                 n = sendQueue'[i].id, m = sendQueue'[i].kind
          PROVE  Upstream(n, m)'
      <4>1. CASE sendQueue'[i] = new
        BY <1>5, <3>1, <3>2, <4>1
      <4>2. ASSUME NEW a \in DOMAIN sendQueue, sendQueue'[i] = sendQueue[a]
            PROVE  Upstream(n, m)'
        <5>1. Upstream(n, m) /\ n \in Int /\ m \in Kind
          BY <3>2, <4>2, Typed DEF Ordered, Sending
        <5> QED BY <1>3, <5>1
      <4> QED BY <1>4, <2>2, <4>1, <4>2 DEF Pushes
    <3>3. \A i \in DOMAIN sendQueue' :
              Upstream(sendQueue[i].id, sendQueue[i].kind)'
      BY <3>2
    <3>4. \A i \in DOMAIN sendQueue :
              sendQueue[i].kind = new.kind => sendQueue[i].id < new.id
      BY <1>4, <1>5, <2>2 DEF Ordered, Sending, Upstream
    <3>5. \A i, j \in DOMAIN sendQueue' :
              i < j /\ sendQueue'[i].kind = sendQueue'[j].kind
                  => sendQueue'[i].id < sendQueue'[j].id
      BY <1>4, <2>2, <3>4 DEF Ordered, Sending, Pushes
    <3> QED BY <3>3, <3>5 DEF Sending
  <2> QED BY <2>1, <2>2
<1>8. Joining'
  <2>1. sender = "joining" => half.id \in Nat /\ half.kind \in Kind
    BY DEF InHand, Half
  <2> QED BY <1>1, <1>6, <2>1, Typed DEF Ordered, Joining
<1>9. DeliveredInOrder' /\ DeliveredComplete'
  BY <1>1 DEF Ordered, DeliveredInOrder, DeliveredComplete
<1> QED BY <1>2, <1>7, <1>8, <1>9 DEF Ordered

\* What the other threads' steps leave of the order before the send queue.
LEMMA UpstreamSame ==
    ASSUME UNCHANGED <<frameCounter, capture, captured, inQueue, worker, work>>
    PROVE  /\ \A k \in Kind : InOrder(k) => InOrder(k)'
           /\ \A k \in Kind : \A n : Upstream(n, k) => Upstream(n, k)'
  BY DEF InOrder, Upstream, Due

\* The send thread takes a half: what it took or delivered before is below it,
\* and it is below what is still in the queue.
LEMMA OrderedTake ==
    ASSUME TypeOK, InHand, Ordered, TakeHalf
    PROVE  Ordered'
<1>1. /\ UNCHANGED <<frameCache, delivered>> /\ sender' = "joining"
      /\ UNCHANGED <<frameCounter, capture, captured, inQueue, worker, work>>
  BY DEF TakeHalf, senderOnly
<1>2. (\A k \in Kind : InOrder(k)') /\ DeliveredInOrder' /\ DeliveredComplete'
  BY <1>1, UpstreamSame DEF Ordered, DeliveredInOrder, DeliveredComplete
<1>3. Pops(sendQueue', sendQueue, half')
  BY PoppedEntries DEF TakeHalf, TypeOK
<1>4. \A k \in Kind : \A n \in Int : Passed(n, k) => Passed(n, k)'
  <2> SUFFICES ASSUME NEW k \in Kind, NEW n \in Int, Passed(n, k)
               PROVE  Passed(n, k)'
    OBVIOUS
  <2>1. Upstream(n, k)'
    BY <1>1, UpstreamSame DEF Passed
  <2>2. \A i \in DOMAIN sendQueue' : sendQueue'[i].kind = k => n < sendQueue'[i].id
    BY <1>3 DEF Passed, Pops
  <2> QED BY <2>1, <2>2 DEF Passed
<1>5. Sending'
  <2>1. ASSUME NEW i \in DOMAIN sendQueue'
        PROVE  Upstream(sendQueue[i].id, sendQueue[i].kind)'
    <3>1. PICK a \in DOMAIN sendQueue : sendQueue'[i] = sendQueue[a]
      BY <1>3 DEF Pops
    <3>2. ASSUME NEW n, NEW k, n = sendQueue[a].id, k = sendQueue[a].kind
          PROVE  Upstream(n, k)'
      BY <1>1, <3>2, UpstreamSame, Typed DEF Ordered, Sending
    <3> QED BY <3>1, <3>2
  <2>2. \A i, j \in DOMAIN sendQueue' :
            i < j /\ sendQueue'[i].kind = sendQueue'[j].kind
                => sendQueue'[i].id < sendQueue'[j].id
    BY <1>3 DEF Ordered, Sending, Pops
  <2> QED BY <2>1, <2>2 DEF Sending
<1>6. Joining'
  <2>1. PICK a \in DOMAIN sendQueue :
            /\ half' = sendQueue[a]
            /\ \A i \in DOMAIN sendQueue' :
                   \E b \in DOMAIN sendQueue : a < b /\ sendQueue'[i] = sendQueue[b]
    BY <1>3 DEF Pops
  <2>2. half'.id \in Nat /\ half'.kind \in Kind
    BY <2>1, Typed
  <2>3. Passed(half.id, half.kind)'
    <3>1. \A i \in DOMAIN sendQueue' :
              sendQueue'[i].kind = half'.kind => half'.id < sendQueue'[i].id
      BY <2>1 DEF Ordered, Sending
    <3>2. ASSUME NEW n, NEW k, n = half'.id, k = half'.kind
          PROVE  Upstream(n, k)'
      BY <1>1, <2>1, <2>2, <3>2, UpstreamSame DEF Ordered, Sending
    <3> QED BY <3>1, <3>2 DEF Passed
  <2>4. \A h \in frameCache' : Passed(h.id, h.kind)'
                             /\ (h.kind = half'.kind => h.id < half'.id)
    BY <1>1, <1>4, <2>1, Typed DEF Ordered, Joining, Passed
  <2>5. \A i \in DOMAIN delivered' : /\ \A k \in Kind : Passed(delivered[i].id, k)'
                                    /\ delivered'[i].id < half'.id
    <3>1. ASSUME NEW i \in DOMAIN delivered, NEW n, n = delivered[i].id
          PROVE  (\A k \in Kind : Passed(n, k)') /\ n < half'.id
      BY <1>4, <2>1, <2>2, <3>1, Typed DEF Ordered, Joining, Passed
    <3> QED BY <1>1, <3>1
  <2> QED BY <1>1, <2>3, <2>4, <2>5 DEF Joining
<1> QED BY <1>2, <1>5, <1>6 DEF Ordered

\* The send thread keeps a half, or goes away.
LEMMA OrderedKeep ==
    ASSUME TypeOK, InHand, Ordered, KeepHalf \/ SenderExits
    PROVE  Ordered'
<1>1. /\ UNCHANGED <<sendQueue, delivered>> /\ sender' # "joining"
      /\ UNCHANGED <<frameCounter, capture, captured, inQueue, worker, work>>
  BY DEF KeepHalf, SenderExits, senderOnly
<1>2. (\A k \in Kind : InOrder(k)') /\ DeliveredInOrder' /\ DeliveredComplete'
  BY <1>1, UpstreamSame DEF Ordered, DeliveredInOrder, DeliveredComplete
<1>3. \A k \in Kind : \A n \in Int : Passed(n, k) => Passed(n, k)'
  BY <1>1, UpstreamSame DEF Passed
<1>4. Sending'
  BY <1>1, UpstreamSame, Typed DEF Ordered, Sending
<1>5. Joining'
  <2>1. \A h \in frameCache' : h.id \in Int /\ h.kind \in Kind /\ Passed(h.id, h.kind)
    <3>1. CASE KeepHalf
      <4>1. sender = "joining" /\ half.id \in Int /\ half.kind \in Kind
        BY <3>1 DEF KeepHalf, InHand, Half
      <4>2. frameCache' \subseteq frameCache \cup {half}
        BY <3>1 DEF KeepHalf
      <4> QED BY <4>1, <4>2, Typed DEF Ordered, Joining
    <3>2. CASE SenderExits
      BY <3>2, Typed DEF SenderExits, Ordered, Joining
    <3> QED BY <3>1, <3>2
  <2> QED BY <1>1, <1>3, <2>1, Typed DEF Ordered, Joining
<1> QED BY <1>2, <1>4, <1>5 DEF Ordered

\* The send thread delivers a frame: no half that waits is of the same kind as
\* one that comes after it with the same id, so the two are of both kinds, and
\* whatever is still to come has a higher id.
LEMMA OrderedDeliver ==
    ASSUME TypeOK, InHand, Ordered, Deliver
    PROVE  Ordered'
<1>1. /\ UNCHANGED sendQueue /\ sender' # "joining" /\ frameCache' \subseteq frameCache
      /\ UNCHANGED <<frameCounter, capture, captured, inQueue, worker, work>>
  BY DEF Deliver, senderOnly
<1>2. \A k \in Kind : InOrder(k)'
  BY <1>1, UpstreamSame DEF Ordered
<1>3. \A k \in Kind : \A n \in Int : Passed(n, k) => Passed(n, k)'
  BY <1>1, UpstreamSame DEF Passed
<1>4. Sending'
  BY <1>1, UpstreamSame, Typed DEF Ordered, Sending
<1>5. half.id \in Nat /\ half.kind \in Kind /\ sender = "joining"
  BY DEF Deliver, InHand, Half
<1>6. PICK c \in frameCache : c.id = half.id /\ c.kind \in Kind /\ c.kind # half.kind
  BY <1>5, Typed DEF Deliver, Cached, Ordered, Joining
<1>7. {h.kind : h \in Cached(half.id) \cup {half}} = Kind
  BY <1>5, <1>6, Typed DEF Cached, Kind
<1>8. \A k \in Kind : Passed(half.id, k)
  BY <1>5, <1>6 DEF Ordered, Joining, Kind
<1>9. PICK d : /\ d = [id |-> half.id, kinds |-> Kind]
               /\ delivered' = Append(delivered, d)
  BY <1>7 DEF Deliver
<1>10. d.id = half.id /\ d.kinds = Kind
  BY <1>9
<1>11. /\ DOMAIN delivered' = 1 .. Len(delivered) + 1
       /\ Len(delivered) \in Nat /\ DOMAIN delivered = 1 .. Len(delivered)
       /\ delivered'[Len(delivered) + 1] = d
       /\ \A i \in DOMAIN delivered : delivered'[i] = delivered[i]
  BY <1>9 DEF TypeOK
<1>12. \A i \in DOMAIN delivered' :
           i \in DOMAIN delivered \/ i = Len(delivered) + 1
  BY <1>11
<1>13. Joining'
  <2>1. \A h \in frameCache' : Passed(h.id, h.kind)'
    BY <1>1, <1>3, Typed DEF Ordered, Joining
  <2>2. ASSUME NEW i \in DOMAIN delivered', NEW n, n = delivered'[i].id,
               NEW k \in Kind
        PROVE  Passed(n, k)'
    <3>1. CASE i \in DOMAIN delivered
      BY <1>3, <1>11, <2>2, <3>1, Typed DEF Ordered, Joining
    <3>2. CASE i = Len(delivered) + 1
      BY <1>3, <1>5, <1>8, <1>10, <1>11, <2>2, <3>2
    <3> QED BY <1>12, <3>1, <3>2
  <2>3. \A i \in DOMAIN delivered' : \A k \in Kind : Passed(delivered[i].id, k)'
    BY <2>2
  <2> QED BY <1>1, <2>1, <2>3 DEF Joining
<1>14. DeliveredInOrder'
  <2>1. \A i \in DOMAIN delivered : delivered[i].id < half.id
    BY <1>5 DEF Ordered, Joining
  <2>2. ASSUME NEW i \in DOMAIN delivered', NEW j \in DOMAIN delivered', i < j
        PROVE  delivered'[i].id < delivered'[j].id
    <3>1. i \in DOMAIN delivered
      BY <1>11, <2>2
    <3>2. CASE j \in DOMAIN delivered
      BY <1>11, <2>2, <3>1, <3>2 DEF Ordered, DeliveredInOrder
    <3>3. CASE j = Len(delivered) + 1
      BY <1>10, <1>11, <2>1, <3>1, <3>3
    <3> QED BY <1>12, <3>2, <3>3
  <2> QED BY <2>2 DEF DeliveredInOrder
<1>15. DeliveredComplete'
  BY <1>10, <1>11, <1>12 DEF Ordered, DeliveredComplete
<1> QED BY <1>2, <1>4, <1>13, <1>14, <1>15 DEF Ordered

\* The other threads and stop() deliver nothing, and drop what they drop.
LEMMA OrderedRest ==
    ASSUME TypeOK, InHand, Ordered, LoggerStep \/ ControlStep \/ UNCHANGED vars
    PROVE  Ordered'
<1>1. /\ UNCHANGED <<frameCounter, capture, captured, worker, work, sender, half,
                     frameCache, delivered>>
      /\ \/ UNCHANGED <<inQueue, sendQueue>>
         \/ inQueue' = [k \in Kind |-> <<>>] /\ sendQueue' = <<>>
  BY DEF LoggerStep, Log, LoggerExits, ControlStep, Stop, JoinThreads, Join,
         ClearQueues, senderOnly, stopOnly, vars
<1>2. \A k \in Kind : InOrder(k)'
  BY <1>1 DEF Ordered, InOrder, Due
<1>3. \A k \in Kind : \A n \in Int : Upstream(n, k) => Upstream(n, k)'
  BY <1>1 DEF Upstream, Due
<1>4. \A k \in Kind : \A n \in Int : Passed(n, k) => Passed(n, k)'
  BY <1>1, <1>3 DEF Passed
<1>5. Sending'
  BY <1>1, <1>3, Typed DEF Ordered, Sending
<1>6. Joining'
  <2>1. sender = "joining" => half.id \in Nat /\ half.kind \in Kind
    BY DEF InHand, Half
  <2> QED BY <1>1, <1>4, <2>1, Typed DEF Ordered, Joining
<1> QED BY <1>1, <1>2, <1>5, <1>6 DEF Ordered, DeliveredInOrder, DeliveredComplete

-----------------------------------------------------------------------------
(* stop(). *)

\* A thread that has exited does nothing more, and what is empty stays so.
LEMMA JoinedStep ==
    ASSUME TypeOK, Joined, StoppedIsQuiet, [Next]_vars
    PROVE  Joined' /\ StoppedIsQuiet'
<1> USE DEF Joined, StoppedIsQuiet, TypeOK
<1>1. CASE CaptureStep
  <2>1. capture # "exited" /\ UNCHANGED captureOnly
    BY <1>1 DEF CaptureStep, Grab, PushFrame, CaptureExits, captureOnly
  <2>2. control \in {"running", "join_capture"}
    BY <2>1
  <2> QED BY <2>1, <2>2 DEF captureOnly
<1>2. ASSUME NEW k \in Kind, WorkerStep(k)
      PROVE  Joined' /\ StoppedIsQuiet'
  <2>1. /\ worker[k] # "exited" /\ UNCHANGED workerOnly
        /\ \A m \in Kind \ {k} : worker'[m] = worker[m]
    BY <1>2 DEF WorkerStep, TakeFrame, Process, WorkerExits, workerOnly
  <2>2. control \notin {"join_send", "join_logging", "clear", "stopped"}
    BY <2>1 DEF Kind
  <2>3. control = "join_midas" => k # "yolo"
    BY <2>1 DEF Kind
  <2> QED BY <2>1, <2>2, <2>3 DEF workerOnly, Kind
<1>3. CASE SenderStep
  <2>1. sender # "exited" /\ UNCHANGED <<logger, senderOnly>>
    BY <1>3 DEF SenderStep, TakeHalf, KeepHalf, Deliver, SenderExits, senderOnly
  <2>2. control \notin {"join_logging", "clear", "stopped"}
    BY <2>1
  <2> QED BY <2>1, <2>2 DEF senderOnly
<1>4. CASE LoggerStep
  <2>1. logger # "exited" /\ UNCHANGED <<sender, senderOnly>>
    BY <1>4 DEF LoggerStep, Log, LoggerExits, senderOnly
  <2>2. control \notin {"clear", "stopped"}
    BY <2>1
  <2> QED BY <2>1, <2>2 DEF senderOnly
<1>5. CASE Stop \/ JoinThreads
  BY <1>5 DEF Stop, JoinThreads, Join, stopOnly
<1>6. CASE ClearQueues
  BY <1>6 DEF ClearQueues, stopOnly, Kind
<1>7. CASE UNCHANGED vars
  BY <1>7 DEF vars
<1> QED BY <1>1, <1>2, <1>3, <1>4, <1>5, <1>6, <1>7 DEF Next, ControlStep

-----------------------------------------------------------------------------
(* The theorems. *)

\* The invariant holds when start() has launched the threads.
LEMMA InvInit == Init => Inv
<1> SUFFICES ASSUME Init PROVE Inv
  OBVIOUS
<1>1. TypeOK /\ InHand
  BY TypeInit
<1>2. \A k \in Kind : InOrder(k)
  BY DEF Init, InOrder, Due
<1>3. Sending /\ Joining /\ DeliveredInOrder /\ DeliveredComplete
  BY DEF Init, Sending, Joining, DeliveredInOrder, DeliveredComplete
<1>4. Joined /\ StoppedIsQuiet
  BY DEF Init, Joined, StoppedIsQuiet
<1> QED BY <1>1, <1>2, <1>3, <1>4 DEF Inv, Ordered

\* Every step of every thread preserves it.
LEMMA InvStep == Inv /\ [Next]_vars => Inv'
<1> SUFFICES ASSUME Inv, [Next]_vars PROVE Inv'
  OBVIOUS
<1>1. TypeOK' /\ InHand'
  BY TypeStep DEF Inv
<1>2. Joined' /\ StoppedIsQuiet'
  BY JoinedStep DEF Inv
<1>3. Ordered'
  BY OrderedCapture, OrderedWorker, OrderedTake, OrderedKeep, OrderedDeliver,
     OrderedRest DEF Inv, Next, SenderStep
<1> QED BY <1>1, <1>2, <1>3 DEF Inv

\* The inductive invariant holds in every reachable state.
THEOREM Invariant == Spec => []Inv
  BY InvInit, InvStep, PTL DEF Spec

\* The state of the pipeline is well typed in every reachable state.
THEOREM TypeCorrect == Spec => []TypeOK
  BY Invariant, PTL DEF Inv

\* The network's callback sees the frames in the order of their capture and
\* none of them twice, whatever is lost on the way.
THEOREM InOrderAlways == Spec => []DeliveredInOrder
<1>1. Inv => DeliveredInOrder
  BY DEF Inv, Ordered
<1> QED BY <1>1, Invariant, PTL

\* A frame the callback is called with is one half of each worker.
THEOREM CompleteAlways == Spec => []DeliveredComplete
<1>1. Inv => DeliveredComplete
  BY DEF Inv, Ordered
<1> QED BY <1>1, Invariant, PTL

\* A stop() that has returned leaves neither a thread nor a queued frame.
THEOREM QuietAfterStop == Spec => []StoppedIsQuiet
<1>1. Inv => StoppedIsQuiet
  BY DEF Inv
<1> QED BY <1>1, Invariant, PTL

-----------------------------------------------------------------------------
(* The bounds. *)

\* However far the threads fall behind each other, no queue and no cache holds
\* more than its limit.
Bounded ==
    /\ \A k \in Kind : Len(inQueue[k]) <= QueueMax
    /\ Len(sendQueue) <= SendMax /\ Len(loggingQueue) <= LogMax
    /\ IsFiniteSet(frameCache) /\ Cardinality(frameCache) <= CacheMax

\* A push into a queue that keeps its limit keeps it.
LEMMA PushedLength ==
    ASSUME NEW S, NEW q \in Seq(S), NEW x, NEW max \in Nat \ {0}, Len(q) <= max
    PROVE  Len(Pushed(q, x, max)) <= max
<1>1. CASE Len(q) < max
  BY <1>1 DEF Pushed
<1>2. CASE ~(Len(q) < max)
  <2>1. q # <<>> /\ Len(q) = max
    BY <1>2
  <2>2. Tail(q) \in Seq(S) /\ Len(Tail(q)) = max - 1
    BY <2>1
  <2> QED BY <1>2, <2>2 DEF Pushed
<1> QED BY <1>1, <1>2

\* Halves that wait have a smallest id among them: there is one to evict.
LEMMA OldestExists ==
    ASSUME NEW C \in SUBSET Half, C # {}
    PROVE  Oldest(C) # {}
<1> DEFINE ids == {h.id : h \in C}
<1>1. ids \subseteq Nat /\ ids # {}
  BY DEF Half
<1>2. PICK n \in ids : \A m \in ids : <<m, n>> \notin OpToRel(<, Nat)
  BY <1>1, WFMin, NatLessThanWellFounded
<1>3. \A m \in ids : ~(m < n)
  BY <1>1, <1>2 DEF OpToRel
<1>4. PICK h \in C : h.id = n
  OBVIOUS
<1>5. ASSUME NEW g \in C PROVE h.id <= g.id
  <2>1. g.id \in ids /\ g.id \in Nat /\ h.id \in Nat
    BY <1>1, <1>4
  <2>2. ~(g.id < h.id)
    BY <1>3, <1>4, <2>1
  <2> HIDE DEF ids
  <2> QED BY <2>1, <2>2
<1> QED BY <1>4, <1>5 DEF Oldest

\* The eviction makes room before the new half is kept.
LEMMA CacheStep == TypeOK /\ Bounded /\ KeepHalf
                      => IsFiniteSet(frameCache') /\ Cardinality(frameCache') <= CacheMax
<1> SUFFICES ASSUME TypeOK, Bounded, KeepHalf
             PROVE  IsFiniteSet(frameCache') /\ Cardinality(frameCache') <= CacheMax
  OBVIOUS
<1> DEFINE kept == IF Cardinality(frameCache) < CacheMax
                   THEN frameCache ELSE frameCache \ Oldest(frameCache)
<1>1. /\ IsFiniteSet(frameCache) /\ Cardinality(frameCache) <= CacheMax
      /\ Cardinality(frameCache) \in Nat /\ CacheMax \in Nat \ {0}
      /\ frameCache \in SUBSET Half
  BY FS_CardinalityType, CleanPipelineAssumption DEF Bounded, TypeOK
<1>2. IsFiniteSet(kept) /\ Cardinality(kept) < CacheMax
  <2>1. CASE Cardinality(frameCache) < CacheMax
    BY <1>1, <2>1
  <2>2. CASE ~(Cardinality(frameCache) < CacheMax)
    <3>1. frameCache # {}
      BY <1>1, <2>2, FS_EmptySet
    <3>2. Oldest(frameCache) # {} /\ Oldest(frameCache) \subseteq frameCache
      BY <1>1, <3>1, OldestExists DEF Oldest
    <3>3. PICK h \in Oldest(frameCache) : h \in frameCache
      BY <3>2
    <3>4. /\ kept \in SUBSET (frameCache \ {h})
          /\ IsFiniteSet(frameCache \ {h})
          /\ Cardinality(frameCache \ {h}) = Cardinality(frameCache) - 1
      BY <1>1, <2>2, <3>3, FS_RemoveElement
    <3> HIDE DEF kept
    <3>5. IsFiniteSet(kept) /\ Cardinality(kept) <= Cardinality(frameCache \ {h})
      BY <3>4, FS_Subset
    <3>6. Cardinality(kept) \in Nat
      BY <3>5, FS_CardinalityType
    <3> QED BY <1>1, <3>4, <3>5, <3>6
  <2> QED BY <2>1, <2>2
<1>3. frameCache' = kept \cup {half}
  BY DEF KeepHalf
<1> HIDE DEF kept
<1>4. /\ IsFiniteSet(kept \cup {half}) /\ Cardinality(kept) \in Nat
      /\ Cardinality(kept \cup {half}) <= Cardinality(kept) + 1
  BY <1>2, FS_AddElement, FS_CardinalityType
<1> QED BY <1>1, <1>2, <1>3, <1>4, FS_CardinalityType

\* Every step keeps the limits.
LEMMA BoundedStep == TypeOK /\ Bounded /\ [Next]_vars => Bounded'
<1> SUFFICES ASSUME TypeOK, Bounded, [Next]_vars PROVE Bounded'
  OBVIOUS
<1>0. /\ inQueue \in [Kind -> Seq(Nat)] /\ sendQueue \in Seq(Half)
      /\ loggingQueue \in Seq(Nat)
      /\ QueueMax \in Nat \ {0} /\ SendMax \in Nat \ {0} /\ LogMax \in Nat \ {0}
  BY CleanPipelineAssumption DEF TypeOK
<1>a. \A S : \A q \in Seq(S) : q # <<>> => Len(Tail(q)) <= Len(q) /\ Len(Tail(q)) \in Nat
  OBVIOUS
<1> DEFINE Cache == IsFiniteSet(frameCache) /\ Cardinality(frameCache) <= CacheMax
           Queues == /\ \A k \in Kind : Len(inQueue[k]) <= QueueMax
                     /\ Len(sendQueue) <= SendMax /\ Len(loggingQueue) <= LogMax
<1> SUFFICES Queues' /\ Cache'
  BY DEF Bounded
<1>1. Cache'
  <2>1. CASE KeepHalf
    BY <2>1, CacheStep
  <2>2. CASE Deliver
    <3>1. frameCache' \in SUBSET frameCache
      BY <2>2 DEF Deliver
    <3>2. /\ IsFiniteSet(frameCache') /\ Cardinality(frameCache') <= Cardinality(frameCache)
          /\ Cardinality(frameCache') \in Nat /\ Cardinality(frameCache) \in Nat
      BY <3>1, FS_Subset, FS_CardinalityType DEF Bounded
    <3> QED BY <3>2, CleanPipelineAssumption DEF Bounded
  <2>3. CASE UNCHANGED frameCache
    BY <2>3 DEF Bounded
  <2> QED
    BY <2>1, <2>2, <2>3
       DEF Next, vars, CaptureStep, Grab, PushFrame, CaptureExits, captureOnly,
           WorkerStep, TakeFrame, Process, WorkerExits, workerOnly,
           SenderStep, TakeHalf, SenderExits, LoggerStep, Log, LoggerExits,
           ControlStep, Stop, JoinThreads, Join, ClearQueues, stopOnly
<1>2. Queues'
  <2>1. CASE UNCHANGED <<inQueue, sendQueue, loggingQueue>>
    BY <2>1 DEF Bounded
  <2>2. ASSUME NEW k \in Kind, NEW from, NEW to, PushFrame(k, from, to) PROVE Queues'
    <3>1. Len(Pushed(inQueue[k], captured, QueueMax)) <= QueueMax
      BY <1>0, PushedLength DEF Bounded
    <3> QED BY <1>0, <2>2, <3>1 DEF PushFrame, captureOnly, Bounded
  <2>3. ASSUME NEW k \in Kind, TakeFrame(k) PROVE Queues'
    <3>1. Len(Tail(inQueue[k])) <= QueueMax
      BY <1>0, <1>a, <2>3 DEF TakeFrame, Bounded
    <3> QED BY <1>0, <2>3, <3>1 DEF TakeFrame, workerOnly, Bounded
  <2>4. ASSUME NEW k \in Kind, Process(k) PROVE Queues'
    <3>1. Len(Pushed(sendQueue, [id |-> work[k], kind |-> k], SendMax)) <= SendMax
      BY <1>0, PushedLength DEF Bounded
    <3> QED BY <2>4, <3>1 DEF Process, workerOnly, Bounded
  <2>5. CASE TakeHalf
    <3>1. Len(Tail(sendQueue)) <= SendMax
      BY <1>0, <1>a, <2>5 DEF TakeHalf, Bounded
    <3> QED BY <2>5, <3>1 DEF TakeHalf, senderOnly, Bounded
  <2>6. CASE Deliver
    <3>1. Len(Pushed(loggingQueue, half.id, LogMax)) <= LogMax
      BY <1>0, PushedLength DEF Bounded
    <3> QED BY <2>6, <3>1 DEF Deliver, senderOnly, Bounded
  <2>7. CASE Log
    <3>1. Len(Tail(loggingQueue)) <= LogMax
      BY <1>0, <1>a, <2>7 DEF Log, Bounded
    <3> QED BY <2>7, <3>1 DEF Log, senderOnly, Bounded
  <2>8. CASE ClearQueues
    BY <1>0, <2>8 DEF ClearQueues
  <2> QED
    BY <2>1, <2>2, <2>3, <2>4, <2>5, <2>6, <2>7, <2>8
       DEF Next, vars, CaptureStep, Grab, CaptureExits, captureOnly, Kind,
           WorkerStep, WorkerExits, workerOnly, SenderStep, KeepHalf, SenderExits,
           senderOnly, LoggerStep, LoggerExits, ControlStep, Stop, JoinThreads, Join
<1> QED BY <1>1, <1>2

\* The memory of the pipeline is bounded: a thread that is slow, or hangs in its
\* model or in the network, makes its neighbours drop frames and never makes a
\* queue or the cache of waiting halves grow past its limit.
THEOREM MemoryBounded == Spec => []Bounded
<1>1. Init => Bounded
  BY FS_EmptySet, CleanPipelineAssumption DEF Init, Bounded
<1>2. Inv => TypeOK
  BY DEF Inv
<1> QED BY <1>1, <1>2, BoundedStep, Invariant, PTL DEF Spec
=============================================================================
