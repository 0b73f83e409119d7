------------------------ MODULE SecureTransportProofs ------------------------
(***************************************************************************)
(* For every queue limit, window and bound, the send path of               *)
(* SecureTransport keeps its messages in order and breaks the server's     *)
(* chain only after a loss on the drone.                                   *)
(*                                                                         *)
(* The argument follows a message from the thread that sealed it, through  *)
(* the queue and the sender, onto the wire: at any time the places further *)
(* along hold older messages (OrderInv), all of them ahead of the server   *)
(* (ServerInv), and while the sender may still write, each position of the *)
(* chain the server has not seen is in one of those places or was lost     *)
(* (LossInv).                                                              *)
(***************************************************************************)
EXTENDS SecureTransport, SequenceTheorems, WellFoundedInduction,
        TLAPS

Contents(s) == {s[i] : i \in DOMAIN s}

InSender == IF pc["sender"] \in {"popped", "writing"} THEN {held["sender"]} ELSE {}
InVideo == IF pc["video"] \in {"encrypted", "checked"} THEN {held["video"]} ELSE {}
InProducers == {held[p] : p \in {q \in Producer : stage[q] \in {"built", "checked"}}}

InFlight == Contents(wire) \cup InSender \cup Contents(sendQueue)
InHand == InProducers \cup InVideo

\* m is older than n, where their types make them comparable.
Before(m, n) ==
    /\ IsSecure(m) /\ IsSecure(n) => m.aad < n.aad /\ m.counter < n.counter
    /\ IsVideo(m) /\ IsVideo(n) => m.counter < n.counter

Sorted(s) == \A i, j \in DOMAIN s : i < j => Before(s[i], s[j])
Precede(A, B) == \A m \in A, n \in B : Before(m, n)

\* The drone has used the numbers of m; the server has not.
Used(m) ==
    /\ IsSecure(m) => m.aad < chain /\ m.counter < sendCounter
    /\ IsVideo(m) => m.counter < txFrame

Ahead(m) ==
    /\ IsSecure(m) => /\ srvChain <= m.aad
                      /\ srvWindow.initialized => srvWindow.top < m.counter
    /\ IsVideo(m) => srvFrame < m.counter

Aads(A) == {m.aad : m \in {n \in A : IsSecure(n)}}

\* What the sender takes may still reach the server.
CanWrite == linkUp /\ pc["sender"] \in {"loop", "popped", "writing"}

HeldInv ==
    /\ InSender \subseteq Message
    /\ \A m \in InProducers : m \in Message /\ IsSecure(m)
    /\ \A m \in InVideo : m \in Message /\ IsVideo(m)
    /\ \A p \in Producer : stage[p] # "out" => secureLock = p

OrderInv ==
    /\ Sorted(wire) /\ Sorted(sendQueue)
    /\ Precede(Contents(wire), InSender)
    /\ Precede(Contents(wire), Contents(sendQueue))
    /\ Precede(InSender, Contents(sendQueue))
    /\ Precede(InFlight, InHand)

ServerInv ==
    /\ srvChain <= chain /\ srvFrame < txFrame
    /\ srvWindow.initialized => srvWindow.top < sendCounter
    /\ \A m \in InFlight \cup InHand : Used(m) /\ Ahead(m)

\* The positions of the chain that are still on the drone or on the wire.
Pending == Aads(InFlight \cup InProducers)

LossInv ==
    /\ \A n \in lost : n < chain
    /\ Pending \cap lost = {}
    /\ \A m \in Contents(wire) : IsSecure(m) =>
           \A n \in srvChain .. (m.aad - 1) : n \in lost \cup Aads(Contents(wire))
    /\ CanWrite => \A n \in srvChain .. (chain - 1) : n \in lost \cup Pending

CloseInv ==
    /\ srvReason # "open" => ~linkUp /\ wire = <<>>
    /\ TagFailsOnlyAfterLoss /\ ReplayOnlyAtStart /\ FramesNeverReplayed

Inv == TypeOK /\ HeldInv /\ OrderInv /\ ServerInv /\ LossInv /\ CloseInv

-----------------------------------------------------------------------------
(* Sequences of messages.                                                  *)

LEMMA AppendMessage ==
    ASSUME NEW s \in Seq(Message), NEW m \in Message,
           Sorted(s), Precede(Contents(s), {m})
    PROVE  /\ Append(s, m) \in Seq(Message)
           /\ Len(Append(s, m)) = Len(s) + 1
           /\ Sorted(Append(s, m))
           /\ Contents(Append(s, m)) = Contents(s) \cup {m}
<1> DEFINE t == Append(s, m)
<1>1. /\ t \in Seq(Message) /\ Len(t) = Len(s) + 1 /\ Len(s) \in Nat
      /\ DOMAIN t = 1 .. (Len(s) + 1) /\ DOMAIN s = 1 .. Len(s)
      /\ \A i \in 1 .. Len(s) : t[i] = s[i]
      /\ t[Len(s) + 1] = m
  OBVIOUS
<1> HIDE DEF t
<1>2. Sorted(t)
  BY <1>1 DEF Sorted, Precede, Contents
<1>3. Contents(t) = Contents(s) \cup {m}
  BY <1>1 DEF Contents
<1> QED
  BY <1>1, <1>2, <1>3 DEF t

LEMMA TailMessages ==
    ASSUME NEW s \in Seq(Message), s # <<>>, Sorted(s)
    PROVE  /\ Tail(s) \in Seq(Message)
           /\ Len(Tail(s)) < Len(s)
           /\ Head(s) \in Message /\ Head(s) \in Contents(s)
           /\ Sorted(Tail(s))
           /\ Contents(s) = {Head(s)} \cup Contents(Tail(s))
           /\ Precede({Head(s)}, Contents(Tail(s)))
<1> DEFINE t == Tail(s)
<1>1. /\ t \in Seq(Message) /\ Len(t) = Len(s) - 1 /\ Len(s) \in Nat \ {0}
      /\ DOMAIN t = 1 .. (Len(s) - 1) /\ DOMAIN s = 1 .. Len(s)
      /\ \A i \in 1 .. (Len(s) - 1) : t[i] = s[i + 1]
      /\ Head(s) = s[1] /\ s[1] \in Message
  OBVIOUS
<1> HIDE DEF t
<1>2. Sorted(t)
  BY <1>1 DEF Sorted
<1>3. Contents(s) = {s[1]} \cup Contents(t)
  <2>1. ASSUME NEW i \in 1 .. Len(s) PROVE s[i] \in {s[1]} \cup Contents(t)
    <3>1. CASE i = 1
      BY <3>1
    <3>2. CASE i # 1
      <4>1. i - 1 \in 1 .. (Len(s) - 1) /\ t[i - 1] = s[i]
        BY <1>1, <3>2
      <4> QED
        BY <4>1, <1>1 DEF Contents
    <3> QED
      BY <3>1, <3>2
  <2>2. \A i \in 1 .. (Len(s) - 1) : t[i] \in Contents(s)
    BY <1>1 DEF Contents
  <2>3. Contents(s) \subseteq {s[1]} \cup Contents(t)
    BY <1>1, <2>1 DEF Contents
  <2>4. Contents(t) \subseteq Contents(s)
    BY <1>1, <2>2 DEF Contents
  <2>5. s[1] \in Contents(s)
    BY <1>1 DEF Contents
  <2> QED
    BY <2>3, <2>4, <2>5
<1>4. Precede({s[1]}, Contents(t))
  BY <1>1 DEF Precede, Contents, Sorted
<1> QED
  BY <1>1, <1>2, <1>3, <1>4 DEF t

LEMMA PrefixMessages ==
    ASSUME NEW s \in Seq(Message), NEW n \in 0 .. Len(s), Sorted(s)
    PROVE  /\ SubSeq(s, 1, n) \in Seq(Message)
           /\ Sorted(SubSeq(s, 1, n))
           /\ Contents(SubSeq(s, 1, n)) \subseteq Contents(s)
           /\ \A x \in Contents(SubSeq(s, 1, n)), y \in Contents(s) :
                  IsSecure(x) /\ IsSecure(y) /\ y.aad < x.aad
                      => y \in Contents(SubSeq(s, 1, n))
<1> DEFINE t == SubSeq(s, 1, n)
<1>1. /\ t \in Seq(Message) /\ Len(t) = n /\ n \in Nat /\ Len(s) \in Nat /\ n <= Len(s)
      /\ DOMAIN t = 1 .. n /\ DOMAIN s = 1 .. Len(s)
      /\ \A i \in 1 .. n : t[i] = s[i]
  OBVIOUS
<1> HIDE DEF t
<1>2. Sorted(t)
  BY <1>1 DEF Sorted
<1>3. Contents(t) \subseteq Contents(s)
  BY <1>1 DEF Contents
<1>4. ASSUME NEW i \in 1 .. n, NEW j \in 1 .. Len(s),
             IsSecure(s[i]), IsSecure(s[j]), s[j].aad < s[i].aad
      PROVE  s[j] \in Contents(t)
  <2>1. s[i].aad \in Nat /\ s[j].aad \in Nat
    <3>1. s[i] \in Message /\ s[j] \in Message
      BY <1>1
    <3> QED
      BY <3>1 DEF Message
  <2>2. j <= n
    BY <1>1, <1>4, <2>1 DEF Sorted, Before
  <2> QED
    BY <1>1, <2>2 DEF Contents
<1>5. \A x \in Contents(t), y \in Contents(s) :
          IsSecure(x) /\ IsSecure(y) /\ y.aad < x.aad => y \in Contents(t)
  BY <1>1, <1>4 DEF Contents
<1> QED
  BY <1>1, <1>2, <1>3, <1>5 DEF t

LEMMA RemoveMessage ==
    ASSUME NEW s \in Seq(Message), NEW k \in DOMAIN s, Sorted(s)
    PROVE  /\ Remove(s, k) \in Seq(Message)
           /\ Len(Remove(s, k)) = Len(s) - 1
           /\ Sorted(Remove(s, k))
           /\ Contents(Remove(s, k)) \subseteq Contents(s)
           /\ \A m \in Contents(s) : m # s[k] => m \in Contents(Remove(s, k))
<1> DEFINE t == Remove(s, k)
<1>0. Len(s) \in Nat /\ DOMAIN s = 1 .. Len(s) /\ k \in 1 .. Len(s)
  OBVIOUS
<1> DEFINE u == SubSeq(s, 1, k - 1)
           v == SubSeq(s, k + 1, Len(s))
<1>1. /\ u \in Seq(Message) /\ Len(u) = k - 1
      /\ \A i \in 1 .. (k - 1) : u[i] = s[i]
  BY <1>0
<1>2. /\ v \in Seq(Message) /\ Len(v) = Len(s) - k
      /\ \A i \in 1 .. (Len(s) - k) : v[i] = s[k + i]
  BY <1>0
<1>3. /\ t \in Seq(Message) /\ Len(t) = Len(s) - 1 /\ DOMAIN t = 1 .. (Len(s) - 1)
      /\ \A i \in 1 .. (Len(s) - 1) : t[i] = IF i < k THEN s[i] ELSE s[i + 1]
  <2>1. t = u \o v
    BY DEF Remove
  <2> HIDE DEF t, u, v
  <2>2. /\ t \in Seq(Message) /\ Len(t) = Len(u) + Len(v)
        /\ DOMAIN t = 1 .. (Len(u) + Len(v))
        /\ \A i \in 1 .. (Len(u) + Len(v)) :
               t[i] = IF i <= Len(u) THEN u[i] ELSE v[i - Len(u)]
    BY <1>1, <1>2, <2>1
  <2>3. Len(u) + Len(v) = Len(s) - 1
    BY <1>0, <1>1, <1>2
  <2>4. ASSUME NEW i \in 1 .. (Len(s) - 1)
        PROVE  t[i] = IF i < k THEN s[i] ELSE s[i + 1]
    <3>1. CASE i < k
      BY <1>0, <1>1, <2>2, <2>3, <3>1
    <3>2. CASE ~(i < k)
      <4>1. i - Len(u) \in 1 .. (Len(s) - k) /\ k + (i - Len(u)) = i + 1
        BY <1>0, <1>1, <3>2
      <4>2. v[i - Len(u)] = s[i + 1]
        BY <1>2, <4>1
      <4>3. t[i] = v[i - Len(u)]
        BY <1>0, <1>1, <2>2, <2>3, <3>2
      <4> QED
        BY <3>2, <4>2, <4>3
    <3> QED
      BY <3>1, <3>2
  <2> QED
    BY <2>2, <2>3, <2>4
<1> HIDE DEF t
<1>4. Sorted(t)
  BY <1>0, <1>3 DEF Sorted
<1>5. Contents(t) \subseteq Contents(s)
  <2>0. DOMAIN s = 1 .. Len(s) /\ Len(s) \in Nat /\ k \in 1 .. Len(s)
    BY <1>0
  <2>1. ASSUME NEW i \in DOMAIN t PROVE \E j \in DOMAIN s : t[i] = s[j]
    <3>1. CASE i < k
      <4>1. i \in DOMAIN s /\ t[i] = s[i]
        BY <1>3, <2>0, <3>1
      <4> QED
        BY <4>1
    <3>2. CASE ~(i < k)
      <4>1. i + 1 \in DOMAIN s /\ t[i] = s[i + 1]
        BY <1>3, <2>0, <3>2
      <4> QED
        BY <4>1
    <3> QED
      BY <3>1, <3>2
  <2> QED
    BY <2>1, Zenon DEF Contents
<1>6. ASSUME NEW i \in 1 .. Len(s), i # k PROVE s[i] \in Contents(t)
  <2>1. CASE i < k
    BY <1>0, <1>3, <2>1 DEF Contents
  <2>2. CASE i > k
    <3>1. i - 1 \in DOMAIN t /\ t[i - 1] = s[i]
      BY <1>0, <1>3, <2>2
    <3> QED
      BY <3>1 DEF Contents
  <2> QED
    BY <1>0, <1>6, <2>1, <2>2
<1>7. \A m \in Contents(s) : m # s[k] => m \in Contents(t)
  BY <1>0, <1>6 DEF Contents
<1> QED
  BY <1>3, <1>4, <1>5, <1>7 DEF t

\* A set of positions has a first one.
LEMMA FirstOf ==
    ASSUME NEW V \in SUBSET Nat, V # {}
    PROVE  \E i \in V : \A j \in V : i <= j
<1> DEFINE R == OpToRel(<, Nat)
<1>1. IsWellFoundedOn(R, Nat)
  BY NatLessThanWellFounded
<1>2. \E i \in V : \A j \in V : ~(<<j, i>> \in R)
  BY <1>1, WFMin
<1>3. ASSUME NEW i \in Nat, NEW j \in Nat, j < i PROVE <<j, i>> \in R
  BY <1>3 DEF OpToRel
<1> HIDE DEF R
<1>4. PICK i \in V : \A j \in V : ~(<<j, i>> \in R)
  BY <1>2
<1>5. ASSUME NEW j \in V PROVE i <= j
  <2>1. i \in Nat /\ j \in Nat
    OBVIOUS
  <2>2. ~(j < i)
    BY <1>3, <1>4, <2>1
  <2> QED
    BY <2>1, <2>2
<1> QED
  BY <1>5

-----------------------------------------------------------------------------
(* The queue.                                                              *)

\* What enqueue_message() leaves in the queue when it takes m.
LEMMA EnqueueMessage ==
    ASSUME sendQueue \in Seq(Message), Sorted(sendQueue), NEW m \in Message,
           Precede(Contents(sendQueue), {m}), Accepts(m)
    PROVE  /\ Enqueued(m) \in Seq(Message)
           /\ Len(sendQueue) <= QueueMax => Len(Enqueued(m)) <= QueueMax
           /\ Sorted(Enqueued(m))
           /\ Contents(Enqueued(m)) \subseteq Contents(sendQueue) \cup {m}
           /\ m \in Contents(Enqueued(m))
           /\ \A x \in Contents(sendQueue) :
                  IsSecure(x) => x \in Contents(Enqueued(m))
<1>1. CASE ~Full
  <2>1. Enqueued(m) = Append(sendQueue, m)
    BY <1>1 DEF Enqueued
  <2>2. Len(sendQueue) \in Nat /\ QueueMax \in Nat /\ Len(sendQueue) < QueueMax
    BY <1>1, SecureTransportAssumption DEF Full
  <2> QED
    BY <2>1, <2>2, AppendMessage
<1>2. CASE Full
  <2> DEFINE k == OldestVideo(sendQueue)
             t == Remove(sendQueue, k)
  <2>1. k \in DOMAIN sendQueue /\ IsVideo(sendQueue[k])
    <3>1. \E i \in DOMAIN sendQueue : IsVideo(sendQueue[i])
      BY <1>2 DEF Accepts, HasVideo
    <3>2. \E i \in DOMAIN sendQueue :
              /\ IsVideo(sendQueue[i])
              /\ \A j \in DOMAIN sendQueue : IsVideo(sendQueue[j]) => i <= j
      <4> DEFINE V == {i \in DOMAIN sendQueue : IsVideo(sendQueue[i])}
      <4>1. V \subseteq Nat /\ V # {}
        BY <3>1
      <4>2. \E i \in V : \A j \in V : i <= j
        BY <4>1, FirstOf
      <4> QED
        BY <4>2
    <3> QED
      BY <3>2 DEF OldestVideo
  <2>2. /\ t \in Seq(Message) /\ Len(t) = Len(sendQueue) - 1 /\ Sorted(t)
        /\ Contents(t) \subseteq Contents(sendQueue)
        /\ \A x \in Contents(sendQueue) : x # sendQueue[k] => x \in Contents(t)
    BY <2>1, RemoveMessage
  <2>3. Precede(Contents(t), {m})
    BY <2>2 DEF Precede
  <2>4. Enqueued(m) = Append(t, m)
    BY <1>2 DEF Enqueued
  <2>5. \A x \in Contents(sendQueue) : IsSecure(x) => x # sendQueue[k]
    BY <2>1 DEF IsSecure, IsVideo
  <2>6. Len(sendQueue) \in Nat /\ QueueMax \in Nat
    BY SecureTransportAssumption
  <2> HIDE DEF t, k
  <2> QED
    BY <2>2, <2>3, <2>4, <2>5, <2>6, AppendMessage
<1> QED
  BY <1>1, <1>2

-----------------------------------------------------------------------------
(* Types, thread by thread.                                                *)

\* Consuming a counter that may be attempted.
LEMMA ConsumeTyped ==
    ASSUME NEW w \in Window, NEW c \in Nat, CanAttempt(w, c)
    PROVE  /\ Consume(w, c) \in Window
           /\ Consume(w, c).initialized
           /\ w.initialized /\ w.top < c => Consume(w, c).top = c
           /\ ~w.initialized => Consume(w, c).top = c
  BY WindowSizeAssumption
     DEF Window, CanAttempt, Consume, Shift, Positions

\* The steps of the main thread that are not calls of enqueue_secure_message.
ShutdownStep ==
    \/ StartPipeline \/ PipelineThrows \/ WatchEnds \/ StopPipeline \/ JoinVideo
    \/ StopSender \/ JoinSender \/ CloseTls \/ JoinTelemetry

\* The steps of the server and of the network.
RemoteStep == ServerStep \/ ReadTimesOut \/ LinkBreaks

LEMMA StepCases ==
    ASSUME [Next]_vars
    PROVE  \/ \E p \in Producer : SecureStep(p)
           \/ TelemetryExits
           \/ VideoStep
           \/ SenderStep
           \/ ShutdownStep
           \/ EmergencyShutdown
           \/ RemoteStep
           \/ UNCHANGED vars
<1>1. CASE MainStep
  BY <1>1 DEF MainStep, ShutdownStep, Producer
<1>2. CASE TelemetryStep
  BY <1>2 DEF TelemetryStep, Producer
<1> QED
  BY <1>1, <1>2 DEF Next, RemoteStep

LEMMA FlagsNext ==
    ASSUME Inv, [Next]_vars PROVE FlagsOK'
<1> USE DEF Inv, TypeOK, FlagsOK
<1>1. ASSUME NEW p \in Producer, SecureStep(p) PROVE FlagsOK'
  BY <1>1 DEF SecureStep, LockSecure, BuildSecure, BuildThrows, CheckUsable,
              EnqueueSecure, flags, network
<1>2. CASE TelemetryExits
  BY <1>2 DEF TelemetryExits, flags, network
<1>3. CASE VideoStep
  BY <1>3 DEF VideoStep, AdmitFrame, EncryptFrame, SkipFrame, CheckFrame,
              EnqueueFrame, VideoExits, videoOnly, flags, network
<1>4. CASE SenderStep
  BY <1>4 DEF SenderStep, PopMessage, StartWrite, RefuseOversized, SenderGivesUp,
              WriteSucceeds, WriteFails, MarkFlags, ClearQueue, CloseFailed,
              SenderExits, senderOnly, flags, network
<1>5. CASE ShutdownStep
  BY <1>5 DEF ShutdownStep, StartPipeline, PipelineThrows, WatchEnds, StopPipeline,
              JoinVideo, StopSender, JoinSender, CloseTls, JoinTelemetry, flags
<1>6. CASE EmergencyShutdown
  BY <1>6 DEF EmergencyShutdown, flags
<1>7. CASE RemoteStep
  BY <1>7 DEF RemoteStep, ServerStep, AcceptSecure, RejectSecure, AcceptFrame,
              RejectFrame, RateLimit, ReadTimesOut, ClientGone, LinkBreaks,
              CloseSession, KeepServing, drone, flags
<1>8. CASE UNCHANGED vars
  BY <1>8 DEF vars, flags, network
<1> QED
  BY <1>1, <1>2, <1>3, <1>4, <1>5, <1>6, <1>7, <1>8, StepCases

LEMMA ServerNext ==
    ASSUME Inv, [Next]_vars PROVE ServerOK'
<1> USE DEF Inv, TypeOK, ServerOK
<1>1. ASSUME NEW p \in Producer, SecureStep(p) PROVE ServerOK'
  BY <1>1 DEF SecureStep, LockSecure, BuildSecure, BuildThrows, CheckUsable,
              EnqueueSecure, server
<1>2. CASE TelemetryExits
  BY <1>2 DEF TelemetryExits, server
<1>3. CASE VideoStep
  BY <1>3 DEF VideoStep, AdmitFrame, EncryptFrame, SkipFrame, CheckFrame,
              EnqueueFrame, VideoExits, videoOnly, server
<1>4. CASE SenderStep
  BY <1>4 DEF SenderStep, PopMessage, StartWrite, RefuseOversized, SenderGivesUp,
              WriteSucceeds, WriteFails, MarkFlags, ClearQueue, CloseFailed,
              SenderExits, senderOnly, server
<1>5. CASE ShutdownStep
  BY <1>5 DEF ShutdownStep, StartPipeline, PipelineThrows, WatchEnds, StopPipeline,
              JoinVideo, StopSender, JoinSender, CloseTls, JoinTelemetry,
              mainOnly, server
<1>6. CASE EmergencyShutdown
  BY <1>6 DEF EmergencyShutdown, server
<1>7. CASE AcceptSecure \/ AcceptFrame
  <2>1. Head(wire) \in Message
    BY <1>7 DEF AcceptSecure, AcceptFrame, Reads, DataOK
  <2>2. Head(wire).counter \in Nat
    BY <2>1 DEF Message
  <2>3. CASE AcceptSecure
    <3>1. Consume(srvWindow, Head(wire).counter) \in Window
      BY <2>2, <2>3, ConsumeTyped DEF AcceptSecure
    <3> QED
      BY <2>3, <3>1 DEF AcceptSecure, KeepServing, CloseSession, drone, Reason
  <2>4. CASE AcceptFrame
    BY <2>2, <2>4 DEF AcceptFrame, KeepServing, CloseSession, drone, Reason
  <2> QED
    BY <1>7, <2>3, <2>4
<1>8. CASE \/ RejectSecure \/ RejectFrame \/ RateLimit \/ ReadTimesOut
           \/ ClientGone \/ LinkBreaks
  BY <1>8 DEF RejectSecure, RejectFrame, RateLimit, ReadTimesOut, ClientGone,
              LinkBreaks, CloseSession, drone, server, Reason
<1>9. CASE UNCHANGED vars
  BY <1>9 DEF vars, server
<1> QED
  BY <1>1, <1>2, <1>3, <1>4, <1>5, <1>6, <1>7, <1>8, <1>9, StepCases
     DEF RemoteStep, ServerStep

LEMMA ThreadsNext ==
    ASSUME Inv, [Next]_vars PROVE ThreadsOK'
<1> USE DEF Inv, TypeOK, ThreadsOK, Thread, Producer, Location, Goto, Step, Hold,
            Drop
<1>1. ASSUME NEW p \in Producer, SecureStep(p) PROVE ThreadsOK'
  <2>1. CASE LockSecure(p)
    BY <1>1, <2>1 DEF LockSecure, Enter
  <2>2. CASE BuildSecure(p)
    BY <1>1, <2>2 DEF BuildSecure, Enter, DataOK, Message
  <2>3. CASE BuildThrows(p)
    BY <1>1, <2>3 DEF BuildThrows, Enter, Return
  <2>4. CASE CheckUsable(p)
    <3>1. CASE Usable
      BY <1>1, <2>4, <3>1 DEF CheckUsable, Enter
    <3>2. CASE ~Usable
      BY <1>1, <2>4, <3>2 DEF CheckUsable, Enter, Return
    <3> QED
      BY <3>1, <3>2
  <2>5. CASE EnqueueSecure(p)
    BY <1>1, <2>5 DEF EnqueueSecure, Enter, Return
  <2> QED
    BY <1>1, <2>1, <2>2, <2>3, <2>4, <2>5 DEF SecureStep
<1>2. CASE TelemetryExits
  BY <1>2 DEF TelemetryExits
<1>3. CASE VideoStep
  <2>1. CASE EncryptFrame
    BY <2>1 DEF EncryptFrame, videoOnly, DataOK, Message
  <2>2. CASE CheckFrame
    BY <2>2 DEF CheckFrame, videoOnly
  <2>3. CASE AdmitFrame \/ SkipFrame \/ EnqueueFrame \/ VideoExits
    BY <2>3 DEF AdmitFrame, SkipFrame, EnqueueFrame, VideoExits, videoOnly
  <2> QED
    BY <1>3, <2>1, <2>2, <2>3 DEF VideoStep
<1>4. CASE SenderStep
  <2>1. CASE PopMessage
    <3>1. Head(sendQueue) \in Message
      BY <2>1 DEF PopMessage, DataOK
    <3> QED
      BY <2>1, <3>1 DEF PopMessage, senderOnly
  <2>2. CASE SenderStep /\ ~PopMessage
    BY <2>2 DEF SenderStep, StartWrite, RefuseOversized, SenderGivesUp,
                WriteSucceeds, WriteFails, MarkFlags, ClearQueue, CloseFailed,
                SenderExits, senderOnly
  <2> QED
    BY <1>4, <2>1, <2>2
<1>5. CASE ShutdownStep
  BY <1>5 DEF ShutdownStep, StartPipeline, PipelineThrows, WatchEnds, StopPipeline,
              JoinVideo, StopSender, JoinSender, CloseTls, JoinTelemetry, mainOnly
<1>6. CASE EmergencyShutdown
  BY <1>6 DEF EmergencyShutdown
<1>7. CASE RemoteStep
  BY <1>7 DEF RemoteStep, ServerStep, AcceptSecure, RejectSecure, AcceptFrame,
              RejectFrame, RateLimit, ReadTimesOut, ClientGone, LinkBreaks, drone
<1>8. CASE UNCHANGED vars
  BY <1>8 DEF vars
<1> QED
  BY <1>1, <1>2, <1>3, <1>4, <1>5, <1>6, <1>7, <1>8, StepCases

\* What a thread has in hand is a message of its kind, and only the holder of
\* secure_send_mutex is inside enqueue_secure_message().
LEMMA HeldNext ==
    ASSUME Inv, [Next]_vars PROVE HeldInv'
<1> USE DEF Inv, TypeOK, ThreadsOK, HeldInv, InSender, InProducers, InVideo,
            Thread, Producer, Goto, Step, Hold, Drop
<1>1. ASSUME NEW p \in Producer, SecureStep(p) PROVE HeldInv'
  <2>1. CASE LockSecure(p)
    BY <1>1, <2>1 DEF LockSecure, Enter, None
  <2>2. CASE BuildSecure(p)
    BY <1>1, <2>2 DEF BuildSecure, Enter, DataOK, Message, IsSecure
  <2>3. CASE BuildThrows(p)
    BY <1>1, <2>3 DEF BuildThrows, Enter, Return
  <2>4. CASE CheckUsable(p)
    <3>1. CASE Usable
      BY <1>1, <2>4, <3>1 DEF CheckUsable, Enter
    <3>2. CASE ~Usable
      BY <1>1, <2>4, <3>2 DEF CheckUsable, Enter, Return
    <3> QED
      BY <3>1, <3>2
  <2>5. CASE EnqueueSecure(p)
    BY <1>1, <2>5 DEF EnqueueSecure, Enter, Return
  <2> QED
    BY <1>1, <2>1, <2>2, <2>3, <2>4, <2>5 DEF SecureStep
<1>2. CASE TelemetryExits
  BY <1>2 DEF TelemetryExits
<1>3. CASE VideoStep
  <2>1. CASE EncryptFrame
    BY <2>1 DEF EncryptFrame, videoOnly, DataOK, Message, IsVideo
  <2>2. CASE CheckFrame
    BY <2>2 DEF CheckFrame, videoOnly
  <2>3. CASE AdmitFrame \/ SkipFrame \/ EnqueueFrame \/ VideoExits
    BY <2>3 DEF AdmitFrame, SkipFrame, EnqueueFrame, VideoExits, videoOnly
  <2> QED
    BY <1>3, <2>1, <2>2, <2>3 DEF VideoStep
<1>4. CASE SenderStep
  <2>1. CASE PopMessage
    <3>1. Head(sendQueue) \in Message
      BY <2>1 DEF PopMessage, DataOK
    <3> QED
      BY <2>1, <3>1 DEF PopMessage, senderOnly
  <2>2. CASE SenderStep /\ ~PopMessage
    BY <2>2 DEF SenderStep, StartWrite, RefuseOversized, SenderGivesUp,
                WriteSucceeds, WriteFails, MarkFlags, ClearQueue, CloseFailed,
                SenderExits, senderOnly
  <2> QED
    BY <1>4, <2>1, <2>2
<1>5. CASE ShutdownStep
  BY <1>5 DEF ShutdownStep, StartPipeline, PipelineThrows, WatchEnds, StopPipeline,
              JoinVideo, StopSender, JoinSender, CloseTls, JoinTelemetry, mainOnly
<1>6. CASE EmergencyShutdown
  BY <1>6 DEF EmergencyShutdown
<1>7. CASE RemoteStep
  BY <1>7 DEF RemoteStep, ServerStep, AcceptSecure, RejectSecure, AcceptFrame,
              RejectFrame, RateLimit, ReadTimesOut, ClientGone, LinkBreaks, drone
<1>8. CASE UNCHANGED vars
  BY <1>8 DEF vars
<1> QED
  BY <1>1, <1>2, <1>3, <1>4, <1>5, <1>6, <1>7, <1>8, StepCases

-----------------------------------------------------------------------------
(* Order, server and losses.                                               *)

FlowsOK == DataOK /\ OrderInv /\ ServerInv /\ LossInv /\ CloseInv

\* Nothing can go wrong in a step that moves no message forward: it changes
\* control only, or it drops a message after which the sender never writes.
LEMMA FewerMessages ==
    ASSUME Inv,
           sendQueue' \in Seq(Message), Sorted(sendQueue'),
           Contents(sendQueue') \subseteq Contents(sendQueue),
           InSender' \subseteq InSender,
           InProducers' \subseteq InProducers, InVideo' \subseteq InVideo,
           sendCounter' \in Nat, sendCounter <= sendCounter',
           UNCHANGED <<wire, chain, txFrame, srvReason, srvChain, srvWindow,
                       srvFrame, lost>>,
           linkUp' => linkUp,
           CanWrite' => CanWrite /\ Pending \subseteq Pending'
    PROVE  FlowsOK'
<1>1. InFlight' \subseteq InFlight /\ InHand' \subseteq InHand
  BY DEF InFlight, InHand
<1>2. Pending' \subseteq Pending
  BY <1>1 DEF Pending, Aads
<1>3. DataOK'
  BY DEF Inv, TypeOK, DataOK
<1>4. OrderInv'
  BY <1>1 DEF Inv, OrderInv, Precede
<1>5. ServerInv'
  <2>1. \A m \in InFlight \cup InHand : m \in Message
    BY DEF Inv, HeldInv, TypeOK, DataOK, InFlight, InHand, Contents
  <2>2. ASSUME NEW m \in InFlight \cup InHand PROVE Used(m)' /\ Ahead(m)'
    <3>1. Used(m) /\ Ahead(m) /\ m.counter \in Nat
      BY <2>1 DEF Inv, ServerInv, Message
    <3> QED
      BY <3>1 DEF Used, Ahead, Inv, TypeOK, DataOK
  <2>3. srvWindow.initialized => srvWindow.top < sendCounter'
    BY DEF Inv, ServerInv, TypeOK, ServerOK, DataOK, Window
  <2> QED
    BY <1>1, <2>2, <2>3 DEF ServerInv, Inv
<1>6. LossInv'
  BY <1>2 DEF Inv, LossInv
<1>7. CloseInv'
  BY DEF Inv, CloseInv, TagFailsOnlyAfterLoss, ReplayOnlyAtStart,
         FramesNeverReplayed
<1> QED
  BY <1>3, <1>4, <1>5, <1>6, <1>7 DEF FlowsOK

\* The steps that change control only.
LEMMA QuietFlows ==
    ASSUME Inv,
           UNCHANGED <<sendQueue, wire, chain, txFrame, lost, srvReason, srvChain,
                       srvWindow, srvFrame, InSender, InProducers>>,
           InVideo' \subseteq InVideo,
           sendCounter' \in Nat, sendCounter <= sendCounter',
           linkUp' => linkUp,
           CanWrite' => CanWrite
    PROVE  FlowsOK'
<1>1. Pending' = Pending
  BY DEF Pending, InFlight
<1>2. sendQueue' \in Seq(Message) /\ Sorted(sendQueue')
  BY DEF Inv, TypeOK, DataOK, OrderInv
<1> QED
  BY <1>1, <1>2, FewerMessages

LEMMA ShutdownFlows ==
    ASSUME Inv, ShutdownStep PROVE FlowsOK'
<1> USE DEF Inv, TypeOK, ThreadsOK, DataOK, Thread, Producer, Goto, Step
<1>1. /\ UNCHANGED <<sendQueue, wire, chain, txFrame, sendCounter, lost, srvReason,
                     srvChain, srvWindow, srvFrame, stage, held>>
      /\ linkUp' => linkUp
      /\ pc'["sender"] = pc["sender"]
      /\ InVideo' \subseteq InVideo
  BY DEF ShutdownStep, StartPipeline, PipelineThrows, WatchEnds, StopPipeline,
         JoinVideo, StopSender, JoinSender, CloseTls, JoinTelemetry, mainOnly,
         builder, server, InVideo, FlagsOK
<1>2. UNCHANGED <<InSender, InProducers>> /\ (CanWrite' => CanWrite)
  BY <1>1 DEF InSender, InProducers, CanWrite
<1> QED
  BY <1>1, <1>2, QuietFlows

LEMMA EmergencyFlows ==
    ASSUME Inv, EmergencyShutdown PROVE FlowsOK'
<1>1. InSender' = {} /\ InProducers' = {} /\ InVideo' = {} /\ ~CanWrite'
  BY DEF EmergencyShutdown, InSender, InProducers, InVideo, CanWrite, Thread
<1>2. /\ UNCHANGED <<sendQueue, wire, chain, txFrame, sendCounter, lost, srvReason,
                     srvChain, srvWindow, srvFrame>>
      /\ ~linkUp'
  BY DEF EmergencyShutdown, builder, server
<1>3. sendQueue \in Seq(Message) /\ Sorted(sendQueue) /\ sendCounter \in Nat
  BY DEF Inv, TypeOK, DataOK, OrderInv
<1> QED
  BY <1>1, <1>2, <1>3, FewerMessages

\* enqueue_message() takes the message a thread has in hand.
LEMMA EnqueueFlows ==
    ASSUME Inv, NEW m \in InHand, Accepts(m),
           sendQueue' = Enqueued(m),
           UNCHANGED <<wire, chain, txFrame, sendCounter, lost, srvReason, srvChain,
                       srvWindow, srvFrame, InSender>>,
           InHand' \subseteq InHand, Precede({m}, InHand'),
           InProducers' \subseteq InProducers,
           InProducers \subseteq InProducers' \cup {m},
           linkUp' => linkUp, CanWrite' => CanWrite
    PROVE  FlowsOK'
<1>1. m \in Message /\ Precede(Contents(sendQueue), {m})
  BY DEF Inv, HeldInv, InHand, OrderInv, Precede, InFlight
<1>2. sendQueue \in Seq(Message) /\ Sorted(sendQueue)
  BY DEF Inv, TypeOK, DataOK, OrderInv
<1>3. /\ sendQueue' \in Seq(Message) /\ Sorted(sendQueue')
      /\ Contents(sendQueue') \subseteq Contents(sendQueue) \cup {m}
      /\ m \in Contents(sendQueue')
      /\ \A x \in Contents(sendQueue) : IsSecure(x) => x \in Contents(sendQueue')
  BY <1>1, <1>2, EnqueueMessage
<1>4. InFlight' \subseteq InFlight \cup {m}
  BY <1>3 DEF InFlight
<1>5. DataOK'
  BY <1>3 DEF Inv, TypeOK, DataOK
<1>6. OrderInv'
  <2>1. Precede(InFlight, {m})
    BY DEF Inv, OrderInv, Precede
  <2>2. Precede(InFlight', InHand')
    BY <1>4 DEF Inv, OrderInv, Precede
  <2>3. /\ Precede(Contents(wire), Contents(sendQueue'))
        /\ Precede(InSender, Contents(sendQueue'))
    BY <1>3, <2>1 DEF Inv, OrderInv, Precede, InFlight
  <2> QED
    BY <1>3, <2>2, <2>3 DEF Inv, OrderInv
<1>7. ServerInv'
  <2>1. \A x \in InFlight \cup InHand : Used(x)' /\ Ahead(x)'
    BY DEF Inv, ServerInv, Used, Ahead
  <2> QED
    BY <1>4, <2>1 DEF Inv, ServerInv
<1>8. LossInv'
  <2>1. Aads(InFlight \cup InProducers) \subseteq Aads(InFlight' \cup InProducers')
    BY <1>3 DEF Aads, InFlight
  <2>2. Aads(InFlight' \cup InProducers') \subseteq Aads(InFlight \cup InProducers)
    <3>1. IsSecure(m) => m \in InProducers
      BY DEF Inv, HeldInv, InHand, IsSecure, IsVideo
    <3> QED
      BY <1>4, <3>1 DEF Aads
  <2>3. Pending' = Pending
    BY <2>1, <2>2 DEF Pending
  <2> QED
    BY <2>3 DEF Inv, LossInv
<1>9. CloseInv'
  BY DEF Inv, CloseInv, TagFailsOnlyAfterLoss, ReplayOnlyAtStart,
         FramesNeverReplayed
<1> QED
  BY <1>5, <1>6, <1>7, <1>8, <1>9 DEF FlowsOK

LEMMA VideoFlows ==
    ASSUME Inv, VideoStep PROVE FlowsOK'
<1> USE DEF Thread, Producer, Goto, Step, Hold, Drop
<1>1. /\ pc \in [Thread -> Location] /\ held \in [Thread -> Message \cup {NoMessage}]
      /\ sendCounter \in Nat /\ txFrame \in Nat
      /\ sendQueue \in Seq(Message) /\ Sorted(sendQueue)
  BY DEF Inv, TypeOK, ThreadsOK, DataOK, OrderInv
<1>2. /\ UNCHANGED <<wire, chain, sendCounter, lost, srvReason, srvChain,
                     srvWindow, srvFrame, linkUp, stage>>
      /\ pc'["sender"] = pc["sender"] /\ held'["sender"] = held["sender"]
      /\ \A p \in Producer : held'[p] = held[p]
  BY <1>1 DEF VideoStep, AdmitFrame, EncryptFrame, SkipFrame, CheckFrame,
              EnqueueFrame, VideoExits, videoOnly, server, network
<1>3. UNCHANGED <<InSender, InProducers, CanWrite>>
  BY <1>2 DEF InSender, InProducers, CanWrite
<1>4. CASE AdmitFrame \/ SkipFrame \/ CheckFrame \/ VideoExits
  <2>1. UNCHANGED <<sendQueue, txFrame>> /\ InVideo' \subseteq InVideo
    BY <1>1, <1>4 DEF AdmitFrame, SkipFrame, CheckFrame, VideoExits, InVideo
  <2> QED
    BY <1>1, <1>2, <1>3, <2>1, QuietFlows
<1>5. CASE EncryptFrame
  <2>0. PICK new : new = [type |-> "VIDEO_DATA", aad |-> 0, counter |-> txFrame]
    OBVIOUS
  <2>1. /\ UNCHANGED sendQueue /\ txFrame' = txFrame + 1
        /\ InVideo = {} /\ InVideo' = {new}
    BY <1>1, <1>5, <2>0 DEF EncryptFrame, InVideo
  <2>2. IsVideo(new) /\ ~IsSecure(new) /\ new.counter = txFrame
    BY <2>0 DEF IsVideo, IsSecure
  <2>3. UNCHANGED <<InFlight, Pending>> /\ InHand' = InHand \cup {new}
    BY <1>2, <1>3, <2>1 DEF InFlight, InHand, Pending
  <2>4. DataOK'
    BY <1>1, <1>2, <2>1 DEF Inv, TypeOK, DataOK
  <2>5. OrderInv'
    <3>1. Precede(InFlight, {new})
      BY <2>2 DEF Inv, ServerInv, Used, Precede, Before
    <3>2. Precede(InFlight', InHand')
      BY <2>3, <3>1 DEF Inv, OrderInv, Precede
    <3> QED
      BY <1>2, <1>3, <2>1, <3>2 DEF Inv, OrderInv
  <2>6. ServerInv'
    <3>1. \A x \in InFlight \cup InHand : x \in Message
      BY DEF Inv, HeldInv, TypeOK, DataOK, InFlight, InHand, Contents
    <3>2. ASSUME NEW x \in InFlight \cup InHand PROVE Used(x)' /\ Ahead(x)'
      <4>1. Used(x) /\ Ahead(x) /\ x.counter \in Nat
        BY <3>1 DEF Inv, ServerInv, Message
      <4> QED
        BY <1>1, <1>2, <2>1, <4>1 DEF Used, Ahead
    <3>3. srvFrame < txFrame /\ srvFrame \in Int
      BY DEF Inv, ServerInv, TypeOK, ServerOK
    <3>4. Used(new)' /\ Ahead(new)'
      BY <1>1, <1>2, <2>1, <2>2, <3>3 DEF Used, Ahead
    <3> QED
      BY <1>1, <1>2, <2>1, <2>3, <3>2, <3>3, <3>4 DEF Inv, ServerInv
  <2>7. LossInv'
    BY <1>2, <1>3, <2>3 DEF Inv, LossInv
  <2>8. CloseInv'
    BY <1>2 DEF Inv, CloseInv, TagFailsOnlyAfterLoss, ReplayOnlyAtStart,
                FramesNeverReplayed
  <2> QED
    BY <2>4, <2>5, <2>6, <2>7, <2>8 DEF FlowsOK
<1>6. CASE EnqueueFrame
  <2> DEFINE m == held["video"]
  <2>1. /\ InVideo = {m} /\ InVideo' = {} /\ UNCHANGED txFrame
        /\ sendQueue' = IF Accepts(m) THEN Enqueued(m) ELSE sendQueue
    BY <1>1, <1>6 DEF EnqueueFrame, InVideo
  <2>2. m \in InHand /\ IsVideo(m)
    BY <2>1 DEF InHand, Inv, HeldInv
  <2>3. CASE Accepts(m)
    <3>1. InHand' \subseteq InHand /\ InHand' = InProducers
      BY <1>3, <2>1 DEF InHand
    <3>2. Precede({m}, InHand')
      BY <2>2, <3>1 DEF Precede, Before, Inv, HeldInv, IsSecure, IsVideo
    <3> HIDE DEF m
    <3> QED
      BY <1>2, <1>3, <2>1, <2>2, <2>3, <3>1, <3>2, EnqueueFlows
  <2>4. CASE ~Accepts(m)
    BY <1>1, <1>2, <1>3, <2>1, <2>4, QuietFlows
  <2> QED
    BY <2>3, <2>4
<1> QED
  BY <1>4, <1>5, <1>6 DEF VideoStep

\* enqueue_message() refuses the secure message a producer has in hand.
LEMMA RefuseFlows ==
    ASSUME Inv, NEW m \in InProducers, InProducers \subseteq {m}, InProducers' = {},
           lost' = lost \cup {m.aad},
           UNCHANGED <<wire, sendQueue, chain, txFrame, sendCounter, srvReason,
                       srvChain, srvWindow, srvFrame, InSender, InVideo>>,
           linkUp' => linkUp, CanWrite' => CanWrite
    PROVE  FlowsOK'
<1>1. m \in Message /\ IsSecure(m) /\ m \in InHand /\ m.aad \in Nat
  BY DEF Inv, HeldInv, InHand, Message
<1>2. m.aad < chain
  BY <1>1 DEF Inv, ServerInv, Used
<1>3. InFlight' = InFlight /\ InHand' \subseteq InHand
  BY DEF InFlight, InHand
<1>4. DataOK'
  BY <1>1 DEF Inv, TypeOK, DataOK
<1>5. OrderInv'
  BY <1>3 DEF Inv, OrderInv, Precede
<1>6. ServerInv'
  BY <1>3 DEF Inv, ServerInv, Used, Ahead
<1>7. LossInv'
  <2>1. Pending \subseteq Pending' \cup {m.aad}
    BY <1>3 DEF Pending, Aads
  <2>2. Pending' \subseteq Pending
    BY <1>3 DEF Pending, Aads
  <2>3. m.aad \notin Pending'
    <3>1. ASSUME NEW x \in InFlight, IsSecure(x) PROVE x.aad < m.aad /\ x.aad \in Nat
      <4>1. x \in Message
        BY DEF Inv, HeldInv, TypeOK, DataOK, InFlight, Contents
      <4> QED
        BY <1>1, <3>1, <4>1 DEF Inv, OrderInv, Precede, Before, Message
    <3> QED
      BY <1>1, <1>3, <3>1 DEF Pending, Aads
  <2>4. Aads(Contents(wire))' = Aads(Contents(wire))
    OBVIOUS
  <2> QED
    BY <1>2, <2>1, <2>2, <2>3, <2>4 DEF Inv, LossInv
<1>8. CloseInv'
  BY DEF Inv, CloseInv, TagFailsOnlyAfterLoss, ReplayOnlyAtStart,
         FramesNeverReplayed
<1> QED
  BY <1>4, <1>5, <1>6, <1>7, <1>8 DEF FlowsOK

\* Sealing the next secure message of the chain.
LEMMA BuildFlows ==
    ASSUME Inv, NEW new,
           new = [type |-> "SECURE_MSG", aad |-> chain, counter |-> sendCounter],
           InProducers = {}, InProducers' = {new},
           chain' = chain + 1, sendCounter' = sendCounter + 1,
           UNCHANGED <<wire, sendQueue, lost, txFrame, srvReason, srvChain, srvWindow,
                       srvFrame, InSender, InVideo, linkUp, CanWrite>>
    PROVE  FlowsOK'
<1>1. /\ IsSecure(new) /\ ~IsVideo(new)
      /\ new.aad = chain /\ new.counter = sendCounter
  BY DEF IsSecure, IsVideo
<1>2. chain \in Nat /\ sendCounter \in Nat /\ srvChain \in Nat /\ lost \subseteq Nat
  BY DEF Inv, TypeOK, DataOK, ServerOK
<1>3. InFlight' = InFlight /\ InHand' = InHand \cup {new}
  BY DEF InFlight, InHand
<1>4. DataOK'
  BY <1>2 DEF Inv, TypeOK, DataOK
<1>5. OrderInv'
  <2>1. Precede(InFlight, {new})
    BY <1>1 DEF Inv, ServerInv, Used, Precede, Before
  <2>2. Precede(InFlight', InHand')
    BY <1>3, <2>1 DEF Inv, OrderInv, Precede
  <2> QED
    BY <2>2 DEF Inv, OrderInv
<1>6. ServerInv'
  <2>1. \A x \in InFlight \cup InHand : x \in Message
    BY DEF Inv, HeldInv, TypeOK, DataOK, InFlight, InHand, Contents
  <2>2. ASSUME NEW x \in InFlight \cup InHand PROVE Used(x)' /\ Ahead(x)'
    <3>1. Used(x) /\ Ahead(x) /\ x.counter \in Nat /\ x.aad \in Nat
      BY <2>1 DEF Inv, ServerInv, Message
    <3> QED
      BY <1>2, <3>1 DEF Used, Ahead
  <2>3. /\ srvChain <= chain /\ srvFrame < txFrame /\ srvWindow.top \in Nat
        /\ srvWindow.initialized => srvWindow.top < sendCounter
    BY DEF Inv, ServerInv, TypeOK, ServerOK, Window
  <2>4. Used(new)' /\ Ahead(new)'
    BY <1>1, <1>2, <2>3 DEF Used, Ahead
  <2> QED
    BY <1>2, <1>3, <2>2, <2>3, <2>4 DEF ServerInv
<1>7. LossInv'
  <2>1. Pending' = Pending \cup {chain}
    BY <1>1, <1>3 DEF Pending, Aads
  <2>2. \A n \in lost : n < chain
    BY DEF Inv, LossInv
  <2>3. Pending' \cap lost' = {}
    BY <1>2, <2>1, <2>2 DEF Inv, LossInv
  <2>4. \A n \in lost : n < chain + 1
    BY <1>2, <2>2
  <2>5. CanWrite' => \A n \in srvChain .. chain : n \in lost \cup Pending'
    BY <1>2, <2>1 DEF Inv, LossInv
  <2> QED
    BY <1>2, <2>3, <2>4, <2>5 DEF Inv, LossInv
<1>8. CloseInv'
  BY DEF Inv, CloseInv, TagFailsOnlyAfterLoss, ReplayOnlyAtStart,
         FramesNeverReplayed
<1> QED
  BY <1>4, <1>5, <1>6, <1>7, <1>8 DEF FlowsOK

LEMMA ProducerFlows ==
    ASSUME Inv, NEW p \in Producer, SecureStep(p) PROVE FlowsOK'
<1> USE DEF Thread, Producer, Goto, Hold, Drop, Enter
<1>1. /\ pc \in [Thread -> Location] /\ held \in [Thread -> Message \cup {NoMessage}]
      /\ stage \in [Producer -> {"out", "locked", "built", "checked"}]
      /\ sendCounter \in Nat /\ chain \in Nat
      /\ sendQueue \in Seq(Message) /\ Sorted(sendQueue)
      /\ \A q \in Producer : stage[q] # "out" => secureLock = q
  BY DEF Inv, TypeOK, ThreadsOK, DataOK, OrderInv, HeldInv
<1>2. /\ UNCHANGED <<wire, txFrame, srvReason, srvChain, srvWindow, srvFrame, linkUp>>
      /\ pc'["sender"] = pc["sender"] /\ pc'["video"] = pc["video"]
      /\ held'["sender"] = held["sender"] /\ held'["video"] = held["video"]
  BY <1>1 DEF SecureStep, LockSecure, BuildSecure, BuildThrows, CheckUsable,
              EnqueueSecure, Return, builder, server, network
<1>3. UNCHANGED <<InSender, InVideo, CanWrite>>
  BY <1>2 DEF InSender, InVideo, CanWrite
<1>4. CASE LockSecure(p) \/ BuildThrows(p)
  <2>1. /\ UNCHANGED <<sendQueue, chain, lost>>
        /\ sendCounter' \in Nat /\ sendCounter <= sendCounter'
    BY <1>1, <1>4 DEF LockSecure, BuildThrows, builder
  <2>2. InProducers' = InProducers
    BY <1>1, <1>4 DEF LockSecure, BuildThrows, Return, InProducers
  <2> QED
    BY <1>2, <1>3, <2>1, <2>2, QuietFlows
<1>5. CASE BuildSecure(p)
  <2>1. PICK new :
            new = [type |-> "SECURE_MSG", aad |-> chain, counter |-> sendCounter]
    OBVIOUS
  <2>2. InProducers = {} /\ InProducers' = {new}
    BY <1>1, <1>5, <2>1 DEF BuildSecure, InProducers
  <2> QED
    BY <1>2, <1>3, <1>5, <2>1, <2>2, BuildFlows DEF BuildSecure
<1>6. CASE CheckUsable(p) /\ stage'[p] = "checked"
  <2>1. UNCHANGED <<sendQueue, chain, sendCounter, lost>>
    BY <1>1, <1>6 DEF CheckUsable, builder
  <2>2. InProducers' = InProducers
    BY <1>1, <1>6 DEF CheckUsable, InProducers
  <2> QED
    BY <1>1, <1>2, <1>3, <2>1, <2>2, QuietFlows
<1>7. CASE \/ CheckUsable(p) /\ stage'[p] # "checked"
           \/ EnqueueSecure(p)
  <2>1. PICK m : m = held[p]
    OBVIOUS
  <2>2. /\ InProducers = {m} /\ InProducers' = {}
        /\ UNCHANGED <<chain, sendCounter>>
    BY <1>1, <1>7, <2>1 DEF CheckUsable, EnqueueSecure, Return, InProducers, builder
  <2>3. CASE EnqueueSecure(p) /\ Accepts(m)
    <3>1. sendQueue' = Enqueued(m) /\ UNCHANGED lost
      BY <2>1, <2>3 DEF EnqueueSecure
    <3>2. m \in InHand /\ InHand' \subseteq InHand /\ Precede({m}, InHand')
      BY <1>3, <2>2 DEF InHand, Precede, Before, Inv, HeldInv, IsSecure, IsVideo
    <3> QED
      BY <1>2, <1>3, <2>2, <2>3, <3>1, <3>2, EnqueueFlows
  <2>4. CASE ~(EnqueueSecure(p) /\ Accepts(m))
    <3>1. lost' = lost \cup {m.aad} /\ UNCHANGED sendQueue
      BY <1>1, <1>7, <2>1, <2>4 DEF CheckUsable, EnqueueSecure
    <3> QED
      BY <1>2, <1>3, <2>2, <3>1, RefuseFlows
  <2> QED
    BY <2>3, <2>4
<1> QED
  BY <1>4, <1>5, <1>6, <1>7 DEF SecureStep

LEMMA TelemetryExitsFlows ==
    ASSUME Inv, TelemetryExits PROVE FlowsOK'
<1>1. /\ UNCHANGED <<sendQueue, wire, chain, txFrame, sendCounter, lost, srvReason,
                     srvChain, srvWindow, srvFrame, stage, held, linkUp>>
      /\ pc'["sender"] = pc["sender"] /\ pc'["video"] = pc["video"]
      /\ sendCounter \in Nat
  BY DEF TelemetryExits, Step, Goto, builder, server, network, Inv, TypeOK,
         ThreadsOK, DataOK, Thread, Producer
<1>2. UNCHANGED <<InSender, InProducers, InVideo, CanWrite>>
  BY <1>1 DEF InSender, InProducers, InVideo, CanWrite
<1> QED
  BY <1>1, <1>2, QuietFlows

-----------------------------------------------------------------------------
\* The sender takes the head of the queue.
LEMMA PopFlows ==
    ASSUME Inv, sendQueue # <<>>, NEW m, m = Head(sendQueue),
           sendQueue' = Tail(sendQueue), InSender = {}, InSender' = {m},
           UNCHANGED <<wire, chain, txFrame, sendCounter, lost, srvReason, srvChain,
                       srvWindow, srvFrame, InProducers, InVideo, linkUp, CanWrite>>
    PROVE  FlowsOK'
<1>1. /\ sendQueue' \in Seq(Message) /\ Sorted(sendQueue')
      /\ Contents(sendQueue) = {m} \cup Contents(sendQueue')
      /\ Precede({m}, Contents(sendQueue'))
  BY TailMessages DEF Inv, TypeOK, DataOK, OrderInv
<1>2. UNCHANGED <<InFlight, InHand, Pending>>
  BY <1>1 DEF InFlight, InHand, Pending
<1>3. DataOK'
  BY <1>1 DEF Inv, TypeOK, DataOK
<1>4. OrderInv'
  BY <1>1, <1>2 DEF Inv, OrderInv, Precede
<1>5. ServerInv'
  BY <1>2 DEF Inv, ServerInv, Used, Ahead
<1>6. LossInv'
  BY <1>2 DEF Inv, LossInv
<1>7. CloseInv'
  BY DEF Inv, CloseInv, TagFailsOnlyAfterLoss, ReplayOnlyAtStart,
         FramesNeverReplayed
<1> QED
  BY <1>3, <1>4, <1>5, <1>6, <1>7 DEF FlowsOK

\* The sender's message joins the wire.  Each older position of the chain is on
\* the wire already, or lost: the places behind the sender hold newer ones.
LEMMA WriteFlows ==
    ASSUME Inv, NEW m, InSender = {m}, InSender' = {}, wire' = Append(wire, m),
           linkUp, CanWrite,
           UNCHANGED <<sendQueue, chain, txFrame, sendCounter, lost, srvReason,
                       srvChain, srvWindow, srvFrame, InProducers, InVideo, linkUp>>
    PROVE  FlowsOK'
<1>1. /\ m \in Message /\ wire \in Seq(Message) /\ Sorted(wire)
      /\ Precede(Contents(wire), {m})
  BY DEF Inv, HeldInv, TypeOK, DataOK, OrderInv
<1>2. /\ wire' \in Seq(Message) /\ Sorted(wire')
      /\ Contents(wire') = Contents(wire) \cup {m}
  BY <1>1, AppendMessage
<1>3. UNCHANGED <<InFlight, InHand, Pending>>
  BY <1>2 DEF InFlight, InHand, Pending
<1>4. DataOK'
  BY <1>2 DEF Inv, TypeOK, DataOK
<1>5. OrderInv'
  BY <1>2, <1>3 DEF Inv, OrderInv, Precede
<1>6. ServerInv'
  BY <1>3 DEF Inv, ServerInv, Used, Ahead
<1>7. LossInv'
  <2>1. ASSUME NEW x \in Contents(wire'), IsSecure(x),
               NEW n \in srvChain .. (x.aad - 1)
        PROVE  n \in lost \cup Aads(Contents(wire'))
    <3>1. CASE x \in Contents(wire)
      BY <1>2, <2>1, <3>1 DEF Inv, LossInv, Aads
    <3>2. CASE x = m
      <4>1. /\ m.aad \in Nat /\ m.aad < chain /\ chain \in Nat /\ srvChain \in Nat
            /\ n \in srvChain .. (chain - 1) /\ n < m.aad
        BY <1>1, <2>1, <3>2
           DEF Inv, ServerInv, Used, InFlight, Message, TypeOK, DataOK, ServerOK
      <4>2. n \in lost \cup Pending
        BY <4>1 DEF Inv, LossInv
      <4>3. ASSUME NEW y \in InFlight \cup InProducers, IsSecure(y), y.aad = n
            PROVE  y \in Contents(wire)
        <5>1. y \in Message
          BY DEF Inv, HeldInv, TypeOK, DataOK, InFlight, Contents
        <5>2. y.aad \in Nat /\ ~(m.aad < y.aad)
          BY <4>1, <4>3, <5>1 DEF Message
        <5>3. ~Before(m, y) /\ y # m
          BY <2>1, <3>2, <4>1, <4>3, <5>2 DEF Before
        <5>4. y \notin InSender /\ y \notin Contents(sendQueue)
          BY <5>3 DEF Inv, OrderInv, Precede
        <5>5. y \notin InProducers
          BY <5>3 DEF Inv, OrderInv, Precede, InFlight, InHand
        <5> QED
          BY <5>4, <5>5 DEF InFlight
      <4> QED
        BY <1>2, <4>2, <4>3 DEF Pending, Aads
    <3> QED
      BY <1>2, <3>1, <3>2
  <2> QED
    BY <1>3, <2>1 DEF Inv, LossInv
<1>8. CloseInv'
  BY DEF Inv, CloseInv, TagFailsOnlyAfterLoss, ReplayOnlyAtStart,
         FramesNeverReplayed
<1> QED
  BY <1>4, <1>5, <1>6, <1>7, <1>8 DEF FlowsOK

LEMMA SenderFlows ==
    ASSUME Inv, SenderStep PROVE FlowsOK'
<1> USE DEF Thread, Producer, Goto, Step, Hold, Drop
<1>1. /\ pc \in [Thread -> Location] /\ held \in [Thread -> Message \cup {NoMessage}]
      /\ sendCounter \in Nat
      /\ sendQueue \in Seq(Message) /\ Sorted(sendQueue)
  BY DEF Inv, TypeOK, ThreadsOK, DataOK, OrderInv
<1>2. /\ UNCHANGED <<chain, txFrame, sendCounter, lost, srvReason, srvChain,
                     srvWindow, srvFrame, stage>>
      /\ pc'["video"] = pc["video"] /\ held'["video"] = held["video"]
      /\ \A p \in Producer : held'[p] = held[p]
      /\ linkUp' => linkUp
  BY <1>1 DEF SenderStep, PopMessage, StartWrite, RefuseOversized, SenderGivesUp,
              WriteSucceeds, WriteFails, MarkFlags, ClearQueue, CloseFailed,
              SenderExits, senderOnly, builder, server, network, FlagsOK
<1>3. UNCHANGED <<InProducers, InVideo>>
  BY <1>2 DEF InProducers, InVideo
<1>4. CASE PopMessage
  <2>1. PICK m : m = Head(sendQueue)
    OBVIOUS
  <2>2. /\ InSender = {} /\ InSender' = {m} /\ sendQueue # <<>>
        /\ sendQueue' = Tail(sendQueue) /\ UNCHANGED <<wire, linkUp, CanWrite>>
    BY <1>1, <1>4, <2>1 DEF PopMessage, InSender, CanWrite, network
  <2> QED
    BY <1>2, <1>3, <2>1, <2>2, PopFlows
<1>5. CASE StartWrite \/ MarkFlags \/ CloseFailed \/ SenderExits
  <2>1. /\ UNCHANGED <<sendQueue, wire>> /\ InSender' = InSender
        /\ CanWrite' => CanWrite
    <3>1. CASE StartWrite
      BY <1>1, <3>1 DEF StartWrite, InSender, CanWrite, network
    <3>2. CASE MarkFlags \/ SenderExits
      BY <1>1, <3>2 DEF MarkFlags, SenderExits, InSender, CanWrite, network
    <3>3. CASE CloseFailed
      BY <1>1, <3>3 DEF CloseFailed, InSender, CanWrite
    <3> QED
      BY <1>5, <3>1, <3>2, <3>3
  <2> QED
    BY <1>1, <1>2, <1>3, <2>1, QuietFlows
<1>6. CASE RefuseOversized
  <2>1. /\ InSender = {held["sender"]} /\ InSender' = {}
        /\ UNCHANGED <<sendQueue, wire, CanWrite>>
    BY <1>1, <1>6 DEF RefuseOversized, InSender, CanWrite, network
  <2>2. ~IsSecure(held["sender"])
    BY <1>6 DEF RefuseOversized, IsSecure, IsVideo
  <2>3. Pending \subseteq Pending'
    BY <1>3, <2>1, <2>2 DEF Pending, InFlight, Aads
  <2> QED
    BY <1>1, <1>2, <1>3, <2>1, <2>3, FewerMessages
<1>7. CASE SenderGivesUp \/ WriteFails \/ (WriteSucceeds /\ ~linkUp)
  <2>1. InSender' = {} /\ ~CanWrite' /\ UNCHANGED <<sendQueue, wire>>
    BY <1>1, <1>7 DEF SenderGivesUp, WriteFails, WriteSucceeds, InSender, CanWrite,
                      network
  <2> QED
    BY <1>1, <1>2, <1>3, <2>1, FewerMessages
<1>8. CASE WriteSucceeds /\ linkUp
  <2>1. PICK m : m = held["sender"]
    OBVIOUS
  <2>2. /\ InSender = {m} /\ InSender' = {} /\ wire' = Append(wire, m)
        /\ CanWrite /\ UNCHANGED <<sendQueue, linkUp>>
    BY <1>1, <1>8, <2>1 DEF WriteSucceeds, InSender, CanWrite
  <2> QED
    BY <1>2, <1>3, <1>8, <2>2, WriteFlows
<1>9. CASE ClearQueue
  <2>1. InSender' = {} /\ ~CanWrite' /\ sendQueue' = <<>> /\ UNCHANGED wire
    BY <1>1, <1>9 DEF ClearQueue, InSender, CanWrite, network
  <2>2. /\ sendQueue' \in Seq(Message) /\ Sorted(sendQueue')
        /\ Contents(sendQueue') = {}
    BY <2>1 DEF Sorted, Contents
  <2> QED
    BY <1>1, <1>2, <1>3, <2>1, <2>2, FewerMessages
<1> QED
  BY <1>4, <1>5, <1>6, <1>7, <1>8, <1>9 DEF SenderStep

-----------------------------------------------------------------------------
\* A message of the drone that the server has not seen is ahead of its window.
LEMMA AheadIsAdmitted ==
    ASSUME Inv, NEW m \in InFlight, IsSecure(m), srvWindow.initialized
    PROVE  CanAttempt(srvWindow, m.counter)
  BY DEF Inv, ServerInv, Ahead, CanAttempt, TypeOK, ServerOK, Window

\* The stream is cut: the wire loses its newest messages, or all of them.
LEMMA CutFlows ==
    ASSUME Inv, NEW n \in 0 .. Len(wire), wire' = SubSeq(wire, 1, n),
           ~linkUp', srvReason # "open" => n = Len(wire),
           UNCHANGED <<drone, srvChain, srvWindow, srvFrame, srvReason>>
    PROVE  FlowsOK'
<1>1. wire \in Seq(Message) /\ Sorted(wire)
  BY DEF Inv, TypeOK, DataOK, OrderInv
<1>2. /\ wire' \in Seq(Message) /\ Sorted(wire')
      /\ Contents(wire') \subseteq Contents(wire)
      /\ \A x \in Contents(wire'), y \in Contents(wire) :
             IsSecure(x) /\ IsSecure(y) /\ y.aad < x.aad => y \in Contents(wire')
  BY <1>1, PrefixMessages
<1>3. UNCHANGED <<pc, stage, held, sendQueue, chain, sendCounter, txFrame, lost>>
  BY DEF drone, builder
<1>4. UNCHANGED <<InSender, InProducers, InVideo, InHand>> /\ ~CanWrite'
  BY <1>3 DEF InSender, InProducers, InVideo, InHand, CanWrite
<1>5. InFlight' \subseteq InFlight /\ Pending' \subseteq Pending
  BY <1>2, <1>3, <1>4 DEF InFlight, Pending, Aads
<1>6. DataOK'
  BY <1>2, <1>3 DEF Inv, TypeOK, DataOK
<1>7. OrderInv'
  BY <1>2, <1>3, <1>4, <1>5 DEF Inv, OrderInv, Precede
<1>8. ServerInv'
  BY <1>3, <1>4, <1>5 DEF Inv, ServerInv, Used, Ahead
<1>9. LossInv'
  <2>1. ASSUME NEW x \in Contents(wire'), IsSecure(x),
               NEW k \in srvChain .. (x.aad - 1)
        PROVE  k \in lost \cup Aads(Contents(wire'))
    <3>1. k \in lost \cup Aads(Contents(wire))
      BY <1>2, <2>1 DEF Inv, LossInv
    <3>2. k < x.aad
      <4>1. x \in Message
        BY <1>1, <1>2 DEF Contents
      <4> QED
        BY <4>1 DEF Message, Inv, TypeOK, ServerOK
    <3> QED
      BY <1>2, <2>1, <3>1, <3>2 DEF Aads
  <2> QED
    BY <1>3, <1>4, <1>5, <2>1 DEF Inv, LossInv
<1>10. CloseInv'
  <2>1. srvReason # "open" => wire' = <<>>
    BY DEF Inv, CloseInv
  <2> QED
    BY <1>3, <2>1 DEF Inv, CloseInv, TagFailsOnlyAfterLoss, ReplayOnlyAtStart,
         FramesNeverReplayed
<1> QED
  BY <1>6, <1>7, <1>8, <1>9, <1>10 DEF FlowsOK

\* The server closes the session without taking a message.
LEMMA RejectFlows ==
    ASSUME Inv, wire' = <<>>, ~linkUp',
           srvReason' = "tag" => srvChain \in lost,
           srvReason' = "replay" => ~srvWindow.initialized,
           srvReason' # "frame_replay",
           UNCHANGED <<drone, srvChain, srvWindow, srvFrame>>
    PROVE  FlowsOK'
<1>1. /\ wire' \in Seq(Message) /\ Sorted(wire') /\ Contents(wire') = {}
  BY DEF Sorted, Contents
<1>2. UNCHANGED <<pc, stage, held, sendQueue, chain, sendCounter, txFrame, lost>>
  BY DEF drone, builder
<1>3. UNCHANGED <<InSender, InProducers, InVideo, InHand>> /\ ~CanWrite'
  BY <1>2 DEF InSender, InProducers, InVideo, InHand, CanWrite
<1>4. InFlight' \subseteq InFlight /\ Pending' \subseteq Pending
  BY <1>1, <1>2, <1>3 DEF InFlight, Pending, Aads
<1>5. DataOK'
  BY <1>1, <1>2 DEF Inv, TypeOK, DataOK
<1>6. OrderInv'
  BY <1>1, <1>2, <1>3, <1>4 DEF Inv, OrderInv, Precede
<1>7. ServerInv'
  BY <1>2, <1>3, <1>4 DEF Inv, ServerInv, Used, Ahead
<1>8. LossInv'
  BY <1>1, <1>2, <1>3, <1>4 DEF Inv, LossInv
<1>9. CloseInv'
  BY <1>2 DEF CloseInv, TagFailsOnlyAfterLoss, ReplayOnlyAtStart,
              FramesNeverReplayed
<1> QED
  BY <1>5, <1>6, <1>7, <1>8, <1>9 DEF FlowsOK

\* The head of the wire is older than all that follows it on the drone.
LEMMA HeadIsOldest ==
    ASSUME Inv, wire # <<>>, NEW h, h = Head(wire)
    PROVE  /\ h \in Message /\ h \in InFlight
           /\ Tail(wire) \in Seq(Message) /\ Sorted(Tail(wire))
           /\ Contents(wire) = {h} \cup Contents(Tail(wire))
           /\ Precede({h}, Contents(Tail(wire)))
           /\ Precede({h}, InSender) /\ Precede({h}, Contents(sendQueue))
           /\ Precede({h}, InHand)
<1>1. wire \in Seq(Message) /\ Sorted(wire)
  BY DEF Inv, TypeOK, DataOK, OrderInv
<1>2. /\ Tail(wire) \in Seq(Message) /\ Sorted(Tail(wire))
      /\ h \in Message /\ h \in Contents(wire)
      /\ Contents(wire) = {h} \cup Contents(Tail(wire))
      /\ Precede({h}, Contents(Tail(wire)))
  BY <1>1, TailMessages
<1> QED
  BY <1>2 DEF Inv, OrderInv, Precede, InFlight

\* The server takes the head of the wire and goes on, or closes the session.
LEMMA AcceptFlows ==
    ASSUME Inv, srvReason = "open", wire # <<>>, NEW h, h = Head(wire),
           \/ wire' = Tail(wire) /\ UNCHANGED <<linkUp, srvReason>>
           \/ wire' = <<>> /\ ~linkUp' /\ srvReason' = "dashboard",
           UNCHANGED drone,
           \/ /\ IsSecure(h) /\ h.aad = srvChain
              /\ CanAttempt(srvWindow, h.counter)
              /\ srvWindow' = Consume(srvWindow, h.counter)
              /\ srvChain' = srvChain + 1
              /\ UNCHANGED srvFrame
           \/ /\ IsVideo(h) /\ srvFrame' = h.counter
              /\ UNCHANGED <<srvChain, srvWindow>>
    PROVE  FlowsOK'
<1>1. /\ h \in Message /\ h \in InFlight
      /\ h.aad \in Nat /\ h.counter \in Nat
      /\ Tail(wire) \in Seq(Message) /\ Sorted(Tail(wire))
      /\ Contents(wire) = {h} \cup Contents(Tail(wire))
      /\ Precede({h}, Contents(Tail(wire)))
      /\ Precede({h}, InSender) /\ Precede({h}, Contents(sendQueue))
      /\ Precede({h}, InHand)
  BY HeadIsOldest DEF Message
<1>2. UNCHANGED <<pc, stage, held, sendQueue, chain, sendCounter, txFrame, lost>>
  BY DEF drone, builder
<1>3. UNCHANGED <<InSender, InProducers, InVideo, InHand>>
      /\ (CanWrite' => CanWrite /\ wire' = Tail(wire))
  BY <1>2 DEF InSender, InProducers, InVideo, InHand, CanWrite
<1>4. /\ wire' \in Seq(Message) /\ Sorted(wire')
      /\ Contents(wire') \subseteq Contents(Tail(wire))
      /\ wire' = Tail(wire) \/ Contents(wire') = {}
  <2>1. CASE wire' = Tail(wire)
    BY <1>1, <2>1
  <2>2. CASE wire' = <<>>
    BY <2>2 DEF Sorted, Contents
  <2> QED
    BY <2>1, <2>2
<1>5. InFlight' \subseteq InFlight /\ Pending' \subseteq Pending
  BY <1>1, <1>2, <1>3, <1>4 DEF InFlight, Pending, Aads
<1>6. Precede({h}, InFlight' \cup InHand')
  BY <1>1, <1>2, <1>3, <1>4 DEF InFlight, Precede
<1>7. DataOK'
  BY <1>2, <1>4 DEF Inv, TypeOK, DataOK
<1>8. OrderInv'
  BY <1>1, <1>2, <1>3, <1>4, <1>5 DEF Inv, OrderInv, Precede
<1>9. Used(h) /\ Ahead(h)
  BY <1>1 DEF Inv, ServerInv
<1>10. /\ srvChain \in Nat /\ chain \in Nat /\ sendCounter \in Nat /\ txFrame \in Nat
       /\ srvWindow \in Window /\ srvWindow.top \in Nat
  BY DEF Inv, TypeOK, ServerOK, DataOK, Window
<1>11. CASE IsSecure(h)
  <2>1. /\ srvChain' = h.aad + 1 /\ srvChain = h.aad /\ UNCHANGED srvFrame
        /\ CanAttempt(srvWindow, h.counter)
        /\ srvWindow' = Consume(srvWindow, h.counter)
    BY <1>11 DEF IsSecure, IsVideo
  <2>2. srvWindow'.top = h.counter
    <3>1. srvWindow.initialized => srvWindow.top < h.counter
      BY <1>9, <1>11 DEF Ahead
    <3>2. CASE srvWindow.initialized
      BY <1>1, <1>10, <2>1, <3>1, <3>2, ConsumeTyped
    <3>3. CASE ~srvWindow.initialized
      BY <1>1, <1>10, <2>1, <3>3, ConsumeTyped
    <3> QED
      BY <3>2, <3>3
  <2>3. ServerInv'
    <3>1. ASSUME NEW x \in InFlight' \cup InHand' PROVE Used(x)' /\ Ahead(x)'
      <4>1. x \in InFlight \cup InHand /\ x \in Message /\ Before(h, x)
        BY <1>3, <1>5, <1>6
           DEF Precede, Inv, HeldInv, TypeOK, DataOK, InFlight, InHand, Contents
      <4>2. Used(x) /\ Ahead(x) /\ x.aad \in Nat /\ x.counter \in Nat
        BY <4>1 DEF Inv, ServerInv, Message
      <4>3. Used(x)'
        BY <1>2, <4>2 DEF Used
      <4>4. IsSecure(x) => h.aad < x.aad /\ h.counter < x.counter
        BY <1>11, <4>1 DEF Before
      <4>5. Ahead(x)'
        BY <1>1, <2>1, <2>2, <4>2, <4>4 DEF Ahead
      <4> QED
        BY <4>3, <4>5
    <3>2. srvChain' <= chain' /\ srvWindow'.top < sendCounter'
      BY <1>1, <1>2, <1>9, <1>10, <1>11, <2>1, <2>2 DEF Used
    <3> QED
      BY <1>2, <2>1, <3>1, <3>2 DEF Inv, ServerInv
  <2>4. LossInv'
    <3>1. ASSUME NEW x \in Contents(wire'), IsSecure(x),
                 NEW k \in srvChain' .. (x.aad - 1)
          PROVE  k \in lost \cup Aads(Contents(wire'))
      <4>1. wire' = Tail(wire) /\ x \in Contents(wire)
        BY <1>1, <1>4, <3>1
      <4>2. k \in srvChain .. (x.aad - 1) /\ k # h.aad
        BY <1>1, <1>10, <2>1, <3>1
      <4>3. k \in lost \cup Aads(Contents(wire))
        BY <3>1, <4>1, <4>2 DEF Inv, LossInv
      <4> QED
        BY <1>1, <4>1, <4>2, <4>3 DEF Aads
    <3>2. ASSUME CanWrite', NEW k \in srvChain' .. (chain - 1)
          PROVE  k \in lost \cup Pending'
      <4>1. wire' = Tail(wire) /\ CanWrite
        BY <1>3, <3>2
      <4>2. k \in srvChain .. (chain - 1) /\ k # h.aad
        BY <1>1, <1>10, <2>1, <3>2
      <4>3. k \in lost \cup Pending
        BY <4>1, <4>2 DEF Inv, LossInv
      <4>4. Pending \subseteq Pending' \cup {h.aad}
        BY <1>1, <1>2, <1>3, <4>1 DEF Pending, InFlight, Aads
      <4> QED
        BY <4>2, <4>3, <4>4
    <3> QED
      BY <1>2, <1>5, <3>1, <3>2 DEF Inv, LossInv
  <2> QED
    BY <1>2, <1>7, <1>8, <2>3, <2>4
       DEF FlowsOK, Inv, CloseInv, TagFailsOnlyAfterLoss, ReplayOnlyAtStart,
           FramesNeverReplayed
<1>12. CASE IsVideo(h)
  <2>1. srvFrame' = h.counter /\ UNCHANGED <<srvChain, srvWindow>> /\ ~IsSecure(h)
    BY <1>12 DEF IsSecure, IsVideo
  <2>2. ServerInv'
    <3>1. ASSUME NEW x \in InFlight' \cup InHand' PROVE Used(x)' /\ Ahead(x)'
      <4>1. x \in InFlight \cup InHand /\ Before(h, x)
        BY <1>3, <1>5, <1>6 DEF Precede
      <4>2. Used(x) /\ Ahead(x)
        BY <4>1 DEF Inv, ServerInv
      <4> QED
        BY <1>2, <1>12, <2>1, <4>1, <4>2 DEF Used, Ahead, Before
    <3>2. srvFrame' < txFrame'
      BY <1>2, <1>9, <1>12, <2>1 DEF Used
    <3> QED
      BY <1>2, <2>1, <3>1, <3>2 DEF Inv, ServerInv
  <2>3. LossInv'
    <3>1. wire' = Tail(wire) =>
              /\ Aads(Contents(wire')) = Aads(Contents(wire))
              /\ Pending' = Pending
      BY <1>1, <1>2, <1>3, <2>1 DEF Pending, InFlight, Aads
    <3>2. CASE wire' = Tail(wire)
      BY <1>1, <1>2, <1>3, <2>1, <3>1, <3>2 DEF Inv, LossInv
    <3>3. CASE Contents(wire') = {} /\ ~CanWrite'
      BY <1>2, <1>5, <2>1, <3>3 DEF Inv, LossInv
    <3> QED
      BY <1>3, <1>4, <3>2, <3>3
  <2> QED
    BY <1>2, <1>7, <1>8, <2>1, <2>2, <2>3
       DEF FlowsOK, Inv, CloseInv, TagFailsOnlyAfterLoss, ReplayOnlyAtStart,
           FramesNeverReplayed
<1> QED
  BY <1>11, <1>12

LEMMA RemoteFlows ==
    ASSUME Inv, RemoteStep PROVE FlowsOK'
<1>1. CASE LinkBreaks
  <2>1. PICK n \in 0 .. Len(wire) : wire' = SubSeq(wire, 1, n)
    BY <1>1 DEF LinkBreaks
  <2>2. linkUp /\ ~linkUp' /\ UNCHANGED <<drone, srvChain, srvWindow, srvFrame, srvReason>>
    BY <1>1 DEF LinkBreaks, server
  <2>3. srvReason = "open"
    BY <2>2 DEF Inv, CloseInv
  <2> QED
    BY <2>1, <2>2, <2>3, CutFlows
<1>2. CASE RateLimit \/ ReadTimesOut \/ ClientGone
  <2>1. /\ wire' = <<>> /\ ~linkUp' /\ srvReason' \in {"rate", "timeout", "client_gone"}
        /\ UNCHANGED <<drone, srvChain, srvWindow, srvFrame>>
    BY <1>2 DEF RateLimit, ReadTimesOut, ClientGone, CloseSession
  <2> QED
    BY <2>1, RejectFlows
<1>3. CASE RejectSecure
  <2>1. PICK h : h = Head(wire)
    OBVIOUS
  <2>2. /\ wire # <<>> /\ IsSecure(h) /\ wire' = <<>> /\ ~linkUp'
        /\ UNCHANGED <<drone, srvChain, srvWindow, srvFrame>>
        /\ \/ CanAttempt(srvWindow, h.counter) /\ h.aad # srvChain /\ srvReason' = "tag"
           \/ ~CanAttempt(srvWindow, h.counter) /\ srvReason' = "replay"
    BY <1>3, <2>1 DEF RejectSecure, Reads, CloseSession, IsSecure
  <2>3. /\ h \in Message /\ h \in InFlight
        /\ Contents(wire) = {h} \cup Contents(Tail(wire))
        /\ Precede({h}, Contents(Tail(wire)))
    BY <2>1, <2>2, HeadIsOldest
  <2>4. srvReason' = "tag" => srvChain \in lost
    <3>1. SUFFICES ASSUME h.aad # srvChain PROVE srvChain \in lost
      BY <2>2
    <3>2. srvChain \in Nat /\ h.aad \in Nat /\ srvChain < h.aad
      BY <2>2, <2>3, <3>1
         DEF Inv, TypeOK, ServerOK, Message, ServerInv, Ahead
    <3>3. srvChain \in lost \cup Aads(Contents(wire))
      <4>1. srvChain \in srvChain .. (h.aad - 1)
        BY <3>2
      <4>2. h \in Contents(wire) /\ IsSecure(h)
        BY <2>2, <2>3
      <4>3. \A x \in Contents(wire) : IsSecure(x)
               => srvChain .. (x.aad - 1) \subseteq lost \cup Aads(Contents(wire))
        BY DEF Inv, LossInv
      <4> QED
        BY <4>1, <4>2, <4>3
    <3>4. ASSUME NEW x \in Contents(wire), IsSecure(x) PROVE x.aad # srvChain
      BY <2>2, <2>3, <3>2, <3>4 DEF Precede, Before
    <3> QED
      BY <3>3, <3>4 DEF Aads
  <2>5. srvReason' = "replay" => ~srvWindow.initialized
    BY <2>2, <2>3, AheadIsAdmitted
  <2> QED
    BY <2>2, <2>4, <2>5, RejectFlows
<1>4. CASE RejectFrame
  <2>1. PICK h : h = Head(wire)
    OBVIOUS
  <2>2. /\ wire # <<>> /\ IsVideo(h) /\ wire' = <<>> /\ ~linkUp'
        /\ UNCHANGED <<drone, srvChain, srvWindow, srvFrame>>
        /\ \/ ~(h.counter > srvFrame) /\ srvReason' = "frame_replay"
           \/ srvReason' = "frame_gap"
    BY <1>4, <2>1 DEF RejectFrame, Reads, CloseSession, IsVideo
  <2>3. h \in Message /\ h \in InFlight
    BY <2>1, <2>2, HeadIsOldest
  <2>4. srvFrame < h.counter /\ h.counter \in Nat /\ srvFrame \in Int
    BY <2>2, <2>3 DEF Inv, ServerInv, Ahead, Message, TypeOK, ServerOK
  <2> QED
    BY <2>2, <2>4, RejectFlows
<1>5. CASE AcceptSecure \/ AcceptFrame
  <2>1. PICK h : h = Head(wire)
    OBVIOUS
  <2>2. /\ srvReason = "open" /\ wire # <<>> /\ UNCHANGED drone
        /\ \/ wire' = Tail(wire) /\ UNCHANGED <<linkUp, srvReason>>
           \/ wire' = <<>> /\ ~linkUp' /\ srvReason' = "dashboard"
    BY <1>5 DEF AcceptSecure, AcceptFrame, Reads, KeepServing, CloseSession
  <2>3. \/ /\ IsSecure(h) /\ h.aad = srvChain
           /\ CanAttempt(srvWindow, h.counter)
           /\ srvWindow' = Consume(srvWindow, h.counter)
           /\ srvChain' = srvChain + 1
           /\ UNCHANGED srvFrame
        \/ /\ IsVideo(h) /\ srvFrame' = h.counter
           /\ UNCHANGED <<srvChain, srvWindow>>
    BY <1>5, <2>1 DEF AcceptSecure, AcceptFrame, Reads, IsSecure, IsVideo
  <2> QED
    BY <2>1, <2>2, <2>3, AcceptFlows
<1> QED
  BY <1>1, <1>2, <1>3, <1>4, <1>5 DEF RemoteStep, ServerStep

-----------------------------------------------------------------------------
(* The invariant and its consequences.                                     *)

LEMMA InitInv == Init => Inv
<1> SUFFICES ASSUME Init PROVE Inv
  OBVIOUS
<1>1. TypeOK
  <2>1. ThreadsOK
    <3>1. \A t \in Thread : (CASE t = "main" -> "start_pipeline"
                               [] t = "video" -> "exited"
                               [] OTHER -> "loop") \in Location
      BY DEF Location
    <3>2. pc \in [Thread -> Location]
      BY <3>1 DEF Init
    <3> QED
      BY <3>2 DEF Init, ThreadsOK
  <2>2. FlagsOK
    BY DEF Init, FlagsOK
  <2>3. DataOK
    BY DEF Init, DataOK
  <2>4. ServerOK
    BY WindowSizeAssumption DEF Init, ServerOK, Reason, Window, ResetWindow
  <2> QED
    BY <2>1, <2>2, <2>3, <2>4 DEF TypeOK
<1>2. InSender = {} /\ InProducers = {} /\ InVideo = {} /\ Contents(wire) = {}
      /\ Contents(sendQueue) = {}
  BY DEF Init, InSender, InProducers, InVideo, Contents, Thread, Producer
<1>3. HeldInv
  BY <1>2 DEF HeldInv, Init
<1>4. OrderInv
  BY <1>2 DEF OrderInv, Precede, InFlight, InHand, Sorted, Init
<1>5. ServerInv
  BY <1>2 DEF ServerInv, InFlight, InHand, Init, ResetWindow
<1>6. LossInv
  <2>1. Pending = {} /\ lost = {} /\ srvChain .. (chain - 1) = {}
    BY <1>2 DEF Pending, Aads, InFlight, Init
  <2> QED
    BY <1>2, <2>1 DEF LossInv
<1>7. CloseInv
  BY DEF CloseInv, Init, TagFailsOnlyAfterLoss, ReplayOnlyAtStart,
         FramesNeverReplayed
<1> QED
  BY <1>1, <1>3, <1>4, <1>5, <1>6, <1>7 DEF Inv

LEMMA NextInv == Inv /\ [Next]_vars => Inv'
<1> SUFFICES ASSUME Inv, [Next]_vars PROVE Inv'
  OBVIOUS
<1>1. FlagsOK' /\ ServerOK' /\ ThreadsOK' /\ HeldInv'
  BY FlagsNext, ServerNext, ThreadsNext, HeldNext
<1>2. FlowsOK'
  <2>1. CASE UNCHANGED vars
    BY <2>1 DEF FlowsOK, Inv, TypeOK, DataOK, OrderInv, ServerInv, LossInv, CloseInv,
                vars, builder, network, server, InSender, InProducers, InVideo,
                InFlight, InHand, Pending, CanWrite, Used, Ahead,
                TagFailsOnlyAfterLoss, ReplayOnlyAtStart, FramesNeverReplayed
  <2> QED
    BY <2>1, StepCases, ProducerFlows, TelemetryExitsFlows, VideoFlows,
       SenderFlows, ShutdownFlows, EmergencyFlows, RemoteFlows
<1> QED
  BY <1>1, <1>2 DEF Inv, TypeOK, FlowsOK

\* The inductive invariant holds throughout.
THEOREM Invariance == Spec => []Inv
  BY InitInv, NextInv, PTL DEF Spec

\* Every variable of the send path keeps its type.
THEOREM TypeCorrect == Spec => []TypeOK
<1>1. Inv => TypeOK
  BY DEF Inv
<1> QED
  BY <1>1, Invariance, PTL

\* The server's chain breaks only on a message enqueue_message() threw away.
THEOREM ChainSafety == Spec => []TagFailsOnlyAfterLoss
<1>1. Inv => TagFailsOnlyAfterLoss
  BY DEF Inv, CloseInv
<1> QED
  BY <1>1, Invariance, PTL

\* After the first accepted message none of the drone's looks like a replay.
THEOREM ReplaySafety == Spec => []ReplayOnlyAtStart
<1>1. Inv => ReplayOnlyAtStart
  BY DEF Inv, CloseInv
<1> QED
  BY <1>1, Invariance, PTL

\* No video frame overtakes another one on its way to the server.
THEOREM FrameOrderSafety == Spec => []FramesNeverReplayed
<1>1. Inv => FramesNeverReplayed
  BY DEF Inv, CloseInv
<1> QED
  BY <1>1, Invariance, PTL
-----------------------------------------------------------------------------
(* The end of the run: who may still do what, and why it ends.             *)

\* Only a producer inside enqueue_secure_message() holds the lock, and it is
\* inside from a place that calls it.
CallsInv ==
    /\ stage["main"] # "out" => pc["main"] \in {"ping", "flight"}
    /\ stage["telemetry"] # "out" => pc["telemetry"] = "loop"
    /\ secureLock # None /\ pc["main"] # "killed" => stage[secureLock] # "out"

\* main() has waited for the threads it says it has, and nobody closes TLS
\* before the sender has exited.
JoinsInv ==
    /\ pc["main"] \in {"stop_sender", "join_sender", "close_tls",
                       "join_telemetry", "done"} => pc["video"] = "exited"
    /\ pc["main"] \in {"close_tls", "join_telemetry", "done"}
           => pc["sender"] = "exited"
    /\ pc["main"] = "done" => pc["telemetry"] = "exited"
    /\ ~tlsOpen => pc["sender"] \in {"exited", "killed"}

\* Up to its loop main() finds the connection as it was unless the transport has
\* failed, and it leaves the loop for no other reason.
FailureInv ==
    /\ pc["main"] \in {"start_pipeline", "ping", "flight", "watch"}
           => transportFailed \/ (connected /\ videoRunning)
    /\ pc["main"] \in {"stopping", "join_video", "stop_sender", "join_sender",
                       "close_tls", "join_telemetry", "done"} => transportFailed
    /\ pc["main"] = "done" => exitCode = 1

RunInv == CallsInv /\ JoinsInv /\ FailureInv

\* The calls of enqueue_secure_message() keep all of it.
LEMMA RunSecure ==
    ASSUME ThreadsOK, RunInv, NEW p \in Producer, SecureStep(p)
    PROVE  RunInv'
<1> USE DEF ThreadsOK, RunInv, Thread, Producer, Enter
<1>1. UNCHANGED <<flags, tlsOpen, exitCode>>
  BY DEF SecureStep, LockSecure, BuildSecure, BuildThrows, CheckUsable, EnqueueSecure
<1>2. CASE LockSecure(p) \/ BuildSecure(p) \/ (CheckUsable(p) /\ stage'[p] # "out")
  <2>1. UNCHANGED pc /\ stage'[p] # "out"
        /\ \A q \in Producer \ {p} : stage'[q] = stage[q]
    BY <1>2 DEF LockSecure, BuildSecure, CheckUsable
  <2>2. secureLock' \in {secureLock, p}
    BY <1>2 DEF LockSecure, BuildSecure, CheckUsable
  <2>3. \/ p = "main" /\ pc[p] \in {"ping", "flight"}
        \/ p = "telemetry" /\ pc[p] = "loop"
    BY <1>2 DEF LockSecure, BuildSecure, CheckUsable, CallsInv
  <2>4. CallsInv'
    BY <2>1, <2>2, <2>3, Zenon DEF CallsInv, None
  <2> QED BY <1>1, <2>1, <2>4 DEF JoinsInv, FailureInv, flags
<1>3. CASE \/ BuildThrows(p) \/ EnqueueSecure(p)
           \/ (CheckUsable(p) /\ stage'[p] = "out")
  <2>1. /\ Return(p) /\ stage[p] # "out" /\ stage'[p] = "out"
        /\ \A q \in Producer \ {p} : stage'[q] = stage[q]
    BY <1>3 DEF BuildThrows, EnqueueSecure, CheckUsable
  <2>2. CASE p = "telemetry"
    <3>1. pc' = pc /\ secureLock' = None
      BY <2>1, <2>2 DEF Return, CallsInv
    <3> QED BY <1>1, <2>1, <2>2, <3>1 DEF CallsInv, JoinsInv, FailureInv, flags
  <2>3. CASE p = "main"
    <3>1. /\ pc["main"] \in {"ping", "flight"} /\ secureLock' = None
          /\ pc'["main"] \in {"flight", "watch"}
          /\ \A t \in Thread \ {"main"} : pc'[t] = pc[t]
      BY <2>1, <2>3 DEF Return, CallsInv
    <3> QED BY <1>1, <2>1, <2>3, <3>1 DEF CallsInv, JoinsInv, FailureInv, flags
  <2> QED BY <2>2, <2>3
<1> QED BY <1>2, <1>3 DEF SecureStep

\* Neither do the other threads, the server and the network change it.
LEMMA RunOthers ==
    ASSUME ThreadsOK, RunInv,
           TelemetryExits \/ VideoStep \/ SenderStep \/ RemoteStep \/ UNCHANGED vars
    PROVE  RunInv'
<1> USE DEF ThreadsOK, RunInv, Thread, Producer, Step, Goto
<1>1. CASE TelemetryExits
  BY <1>1 DEF TelemetryExits, CallsInv, JoinsInv, FailureInv, flags
<1>2. CASE VideoStep
  <2>1. /\ UNCHANGED <<stage, secureLock, flags, tlsOpen, exitCode>>
        /\ pc["video"] \notin {"exited", "killed"}
        /\ \A t \in Thread \ {"video"} : pc'[t] = pc[t]
    BY <1>2 DEF VideoStep, AdmitFrame, EncryptFrame, SkipFrame, CheckFrame,
                EnqueueFrame, VideoExits, videoOnly
  <2>2. CallsInv'
    BY <2>1, Zenon DEF CallsInv
  <2>3. JoinsInv'
    BY <2>1 DEF JoinsInv
  <2>4. FailureInv'
    BY <2>1 DEF FailureInv, flags
  <2> QED BY <2>2, <2>3, <2>4
<1>3. CASE SenderStep
  <2>1. /\ UNCHANGED <<stage, secureLock, exitCode>>
        /\ pc["sender"] \notin {"exited", "killed"}
        /\ \A t \in Thread \ {"sender"} : pc'[t] = pc[t]
    BY <1>3 DEF SenderStep, PopMessage, StartWrite, RefuseOversized, SenderGivesUp,
                WriteSucceeds, WriteFails, MarkFlags, ClearQueue, CloseFailed,
                SenderExits, senderOnly
  <2>2. tlsOpen' = tlsOpen \/ pc'["sender"] = "exited"
    BY <1>3 DEF SenderStep, PopMessage, StartWrite, RefuseOversized, SenderGivesUp,
                WriteSucceeds, WriteFails, MarkFlags, ClearQueue, CloseFailed,
                SenderExits
  <2>3. UNCHANGED <<transportFailed, connected, videoRunning>> \/ transportFailed' = TRUE
    BY <1>3 DEF SenderStep, PopMessage, StartWrite, RefuseOversized, SenderGivesUp,
                WriteSucceeds, WriteFails, MarkFlags, ClearQueue, CloseFailed,
                SenderExits, flags
  <2>4. CallsInv'
    BY <2>1, Zenon DEF CallsInv
  <2>5. JoinsInv'
    BY <2>1, <2>2 DEF JoinsInv
  <2>6. FailureInv'
    <3>1. pc'["main"] = pc["main"] /\ exitCode' = exitCode
      BY <2>1
    <3> QED BY <2>3, <3>1 DEF FailureInv
  <2> QED BY <2>4, <2>5, <2>6
<1>4. CASE RemoteStep \/ UNCHANGED vars
  BY <1>4 DEF RemoteStep, ServerStep, AcceptSecure, RejectSecure, AcceptFrame,
              RejectFrame, RateLimit, ReadTimesOut, ClientGone, LinkBreaks, drone,
              vars, flags, CallsInv, JoinsInv, FailureInv
<1> QED BY <1>1, <1>2, <1>3, <1>4

\* main() goes on only when the thread it waits for has exited.
LEMMA RunMain ==
    ASSUME ThreadsOK, RunInv, ShutdownStep \/ EmergencyShutdown
    PROVE  RunInv'
<1> USE DEF ThreadsOK, RunInv, Thread, Producer, Step, Goto
<1>1. CASE EmergencyShutdown
  BY <1>1 DEF EmergencyShutdown, CallsInv, JoinsInv, FailureInv, Producer
<1>2. CASE ShutdownStep
  <2>1. CallsInv'
    <3>1. /\ UNCHANGED <<stage, secureLock>> /\ stage["main"] = "out"
          /\ pc["main"] # "killed" /\ pc'["telemetry"] = pc["telemetry"]
      BY <1>2 DEF ShutdownStep, StartPipeline, PipelineThrows, WatchEnds, StopPipeline, JoinVideo,
                StopSender, JoinSender, CloseTls, JoinTelemetry,
                  mainOnly, CallsInv
    <3> QED BY <3>1, Zenon DEF CallsInv
  <2>2. CASE StartPipeline
    <3>1. JoinsInv'
      BY <2>2 DEF StartPipeline, JoinsInv
    <3>2. FailureInv'
      BY <2>2 DEF StartPipeline, FailureInv
    <3> QED BY <2>1, <3>1, <3>2
  <2>3. CASE PipelineThrows
    <3>1. JoinsInv'
      BY <2>3 DEF PipelineThrows, JoinsInv
    <3>2. FailureInv'
      BY <2>3 DEF PipelineThrows, FailureInv, flags
    <3> QED BY <2>1, <3>1, <3>2
  <2>4. CASE WatchEnds
    <3>1. JoinsInv'
      BY <2>4 DEF WatchEnds, JoinsInv
    <3>2. FailureInv'
      BY <2>4 DEF WatchEnds, FailureInv, flags
    <3> QED BY <2>1, <3>1, <3>2
  <2>5. CASE StopPipeline
    <3>1. JoinsInv'
      BY <2>5 DEF StopPipeline, JoinsInv
    <3>2. FailureInv'
      BY <2>5 DEF StopPipeline, FailureInv, flags
    <3> QED BY <2>1, <3>1, <3>2
  <2>6. CASE JoinVideo
    <3>1. JoinsInv'
      BY <2>6 DEF JoinVideo, JoinsInv
    <3>2. FailureInv'
      BY <2>6 DEF JoinVideo, FailureInv, flags
    <3> QED BY <2>1, <3>1, <3>2
  <2>7. CASE StopSender
    <3>1. JoinsInv'
      BY <2>7 DEF StopSender, JoinsInv
    <3>2. FailureInv'
      BY <2>7 DEF StopSender, FailureInv, flags
    <3> QED BY <2>1, <3>1, <3>2
  <2>8. CASE JoinSender
    <3>1. JoinsInv'
      BY <2>8 DEF JoinSender, JoinsInv
    <3>2. FailureInv'
      BY <2>8 DEF JoinSender, FailureInv, flags
    <3> QED BY <2>1, <3>1, <3>2
  <2>9. CASE CloseTls
    <3>1. JoinsInv'
      BY <2>9 DEF CloseTls, JoinsInv
    <3>2. FailureInv'
      BY <2>9 DEF CloseTls, FailureInv, flags
    <3> QED BY <2>1, <3>1, <3>2
  <2>10. CASE JoinTelemetry
    <3>1. JoinsInv'
      BY <2>10 DEF JoinTelemetry, JoinsInv
    <3>2. FailureInv'
      BY <2>10 DEF JoinTelemetry, FailureInv, flags
    <3> QED BY <2>1, <3>1, <3>2
  <2> QED BY <1>2, <2>2, <2>3, <2>4, <2>5, <2>6, <2>7, <2>8, <2>9, <2>10 DEF ShutdownStep
<1> QED BY <1>1, <1>2

\* What ends the run is an invariant.
LEMMA RunInvariance == Spec => []RunInv
<1>1. Init => RunInv
  BY DEF Init, RunInv, CallsInv, JoinsInv, FailureInv, Thread, Producer, None
<1>2. ThreadsOK /\ RunInv /\ [Next]_vars => RunInv'
  BY RunSecure, RunOthers, RunMain, StepCases
<1>3. Inv => ThreadsOK
  BY DEF Inv, TypeOK
<1> QED BY <1>1, <1>2, <1>3, Invariance, PTL DEF Spec

\* No write is in progress on a TLS object that has been closed: close() and
\* mark_transport_failure() both come after the sender's last write.
THEOREM WritesWhileOpen == Spec => []NoWriteAfterClose
<1>1. RunInv => NoWriteAfterClose
  BY DEF RunInv, JoinsInv, NoWriteAfterClose
<1> QED BY <1>1, RunInvariance, PTL

\* main() returns with status 1 because the transport failed, with every thread
\* joined and secure_send_mutex free.
THEOREM ReturnsForFailure == Spec => []ReturnTellsFailure
<1>1. ThreadsOK /\ RunInv => ReturnTellsFailure
  BY DEF ThreadsOK, RunInv, CallsInv, JoinsInv, FailureInv, ReturnTellsFailure,
         Thread, Producer
<1>2. Inv => ThreadsOK
  BY DEF Inv, TypeOK
<1> QED BY <1>1, <1>2, Invariance, RunInvariance, PTL

-----------------------------------------------------------------------------
(* Whom a thread waits for: what FailureEndsTheRun rests on.               *)

\* main() joins a thread only when that thread's flag is down, for good; and the
\* holder of secure_send_mutex is inside enqueue_secure_message(), where no step
\* waits for anything.
ToldToStop ==
    /\ pc["main"] \in {"join_video", "stop_sender", "join_sender", "close_tls",
                       "join_telemetry", "done"} => ~pipelineRunning
    /\ pc["main"] \in {"join_sender", "close_tls", "join_telemetry", "done"}
           => ~sendRunning
    /\ pc["main"] \in {"join_telemetry", "done"} => ~telemetryRunning

LockHeldInside ==
    secureLock # None /\ pc["main"] # "killed"
        => stage[secureLock] \in {"locked", "built", "checked"}

\* A flag that is down stays down, and main() lowers each before it joins.
LEMMA StopsStep == ThreadsOK /\ ToldToStop /\ [Next]_vars => ToldToStop'
<1> SUFFICES ASSUME ThreadsOK, ToldToStop, [Next]_vars PROVE ToldToStop'
  OBVIOUS
<1> USE DEF ThreadsOK, ToldToStop, Thread, Producer, Step, Goto
<1>1. ASSUME NEW p \in Producer, SecureStep(p) PROVE ToldToStop'
  <2>1. /\ UNCHANGED flags
        /\ pc'["main"] \in {pc["main"], "flight", "watch"}
    BY <1>1 DEF SecureStep, LockSecure, BuildSecure, BuildThrows, CheckUsable,
                EnqueueSecure, Return
  <2> QED BY <2>1 DEF flags
<1>2. CASE TelemetryExits \/ VideoStep
  <2>1. UNCHANGED flags /\ pc'["main"] = pc["main"]
    BY <1>2 DEF TelemetryExits, VideoStep, AdmitFrame, EncryptFrame, SkipFrame,
                CheckFrame, EnqueueFrame, VideoExits, videoOnly
  <2> QED BY <2>1 DEF flags
<1>3. CASE SenderStep
  <2>1. /\ pc'["main"] = pc["main"] /\ pipelineRunning' = pipelineRunning
        /\ ~sendRunning => ~sendRunning'
        /\ ~telemetryRunning => ~telemetryRunning'
    BY <1>3 DEF SenderStep, PopMessage, StartWrite, RefuseOversized, SenderGivesUp,
                WriteSucceeds, WriteFails, MarkFlags, ClearQueue, CloseFailed,
                SenderExits, senderOnly, flags
  <2> QED BY <2>1
<1>4. CASE ShutdownStep
  BY <1>4 DEF ShutdownStep, StartPipeline, PipelineThrows, WatchEnds, StopPipeline,
              JoinVideo, StopSender, JoinSender, CloseTls, JoinTelemetry, flags
<1>5. CASE EmergencyShutdown
  BY <1>5 DEF EmergencyShutdown
<1>6. CASE RemoteStep \/ UNCHANGED vars
  BY <1>6 DEF RemoteStep, ServerStep, AcceptSecure, RejectSecure, AcceptFrame,
              RejectFrame, RateLimit, ReadTimesOut, ClientGone, LinkBreaks, drone,
              vars, flags
<1> QED BY <1>1, <1>2, <1>3, <1>4, <1>5, <1>6, StepCases

\* No thread waits for one that goes on for ever, or that waits itself: the
\* joins of main() and the lock of enqueue_secure_message() cannot close a cycle.
THEOREM NobodyWaitsInVain == Spec => [](ToldToStop /\ LockHeldInside)
<1>1. Init => ToldToStop
  <2>1. Init => pc["main"] = "start_pipeline"
    BY DEF Init, Thread, Producer
  <2> QED BY <2>1 DEF ToldToStop
<1>2. Inv => ThreadsOK
  BY DEF Inv, TypeOK
<1>3. ThreadsOK /\ RunInv => LockHeldInside
  BY DEF ThreadsOK, RunInv, CallsInv, LockHeldInside, Producer, None
<1> QED
  BY <1>1, <1>2, <1>3, StopsStep, Invariance, RunInvariance, PTL DEF Spec

-----------------------------------------------------------------------------
(* The limit of the queue, and what the limit costs.                       *)

\* The queue never holds more than send_queue_max messages.
WithinLimit == Len(sendQueue) <= QueueMax

\* A control message leaves the queue for the sender's hands, or with all the
\* others when the transport has failed.
ControlStays ==
    \A m \in Contents(sendQueue) :
        IsSecure(m) => \/ m \in Contents(sendQueue')
                       \/ pc'["sender"] = "popped" /\ held'["sender"] = m
                       \/ pc["sender"] = "clearing"

\* What enqueue_message() leaves behind when it takes a message in hand.
LEMMA EnqueueInHand ==
    ASSUME Inv, NEW m \in InHand, Accepts(m), sendQueue' = Enqueued(m)
    PROVE  (WithinLimit => WithinLimit') /\ ControlStays
<1>1. m \in Message /\ Precede(Contents(sendQueue), {m})
  BY DEF Inv, HeldInv, InHand, OrderInv, Precede, InFlight
<1>2. sendQueue \in Seq(Message) /\ Sorted(sendQueue)
  BY DEF Inv, TypeOK, DataOK, OrderInv
<1>3. /\ WithinLimit => Len(sendQueue') <= QueueMax
      /\ \A x \in Contents(sendQueue) : IsSecure(x) => x \in Contents(sendQueue')
  BY <1>1, <1>2, EnqueueMessage DEF WithinLimit
<1> QED
  BY <1>3 DEF WithinLimit, ControlStays

\* Every step keeps the limit and the control messages in the queue.
LEMMA QueueNext ==
    ASSUME Inv, [Next]_vars
    PROVE  (WithinLimit => WithinLimit') /\ ControlStays
<1>1. CASE UNCHANGED sendQueue
  BY <1>1 DEF WithinLimit, ControlStays
<1>2. ASSUME NEW p \in Producer, SecureStep(p)
      PROVE  \/ UNCHANGED sendQueue
             \/ \E m \in InHand : Accepts(m) /\ sendQueue' = Enqueued(m)
  <2>1. CASE EnqueueSecure(p)
    <3>1. held[p] \in InHand
      BY <2>1 DEF EnqueueSecure, Enter, InHand, InProducers
    <3> QED
      BY <2>1, <3>1 DEF EnqueueSecure
  <2>2. CASE LockSecure(p) \/ BuildSecure(p) \/ BuildThrows(p) \/ CheckUsable(p)
    BY <2>2 DEF LockSecure, BuildSecure, BuildThrows, CheckUsable
  <2> QED
    BY <1>2, <2>1, <2>2 DEF SecureStep
<1>3. ASSUME VideoStep
      PROVE  \/ UNCHANGED sendQueue
             \/ \E m \in InHand : Accepts(m) /\ sendQueue' = Enqueued(m)
  <2>1. CASE EnqueueFrame
    <3>1. held["video"] \in InHand
      BY <2>1 DEF EnqueueFrame, Step, InHand, InVideo
    <3> QED
      BY <2>1, <3>1 DEF EnqueueFrame
  <2> QED
    BY <1>3, <2>1 DEF VideoStep, AdmitFrame, EncryptFrame, SkipFrame, CheckFrame,
                      VideoExits
<1>4. CASE PopMessage
  <2> DEFINE q == sendQueue
  <2>1. q \in Seq(Message) /\ q # <<>> /\ sendQueue' = Tail(q)
    BY <1>4 DEF PopMessage, Inv, TypeOK, DataOK
  <2>2. pc'["sender"] = "popped" /\ held'["sender"] = Head(q)
    BY <1>4 DEF PopMessage, Step, Goto, Hold, Inv, TypeOK, ThreadsOK, Thread
  <2>3. Len(Tail(q)) = Len(q) - 1 /\ Len(q) \in Nat
    BY <2>1
  <2>4. WithinLimit => WithinLimit'
    BY <2>1, <2>3, SecureTransportAssumption DEF WithinLimit
  <2>5. ASSUME NEW m \in Contents(q), m # Head(q) PROVE m \in Contents(Tail(q))
    BY <2>1, <2>5, TailMessages DEF Inv, OrderInv
  <2> QED
    BY <2>1, <2>2, <2>4, <2>5 DEF ControlStays
<1>5. CASE ClearQueue
  <2>1. sendQueue' = <<>> /\ pc["sender"] = "clearing"
    BY <1>5 DEF ClearQueue, Step
  <2> QED
    BY <2>1, SecureTransportAssumption DEF WithinLimit, ControlStays
<1>6. CASE SenderStep
  <2>1. CASE PopMessage \/ ClearQueue
    BY <1>4, <1>5, <2>1
  <2> QED
    BY <1>1, <1>6, <2>1 DEF SenderStep, StartWrite, RefuseOversized,
       SenderGivesUp, WriteSucceeds, WriteFails, MarkFlags, CloseFailed, SenderExits
<1>7. CASE TelemetryExits \/ ShutdownStep \/ EmergencyShutdown \/ UNCHANGED vars
  BY <1>1, <1>7 DEF TelemetryExits, ShutdownStep, StartPipeline, PipelineThrows,
     WatchEnds, StopPipeline, JoinVideo, StopSender, JoinSender, CloseTls,
     JoinTelemetry, EmergencyShutdown, mainOnly, vars
<1>8. CASE RemoteStep
  BY <1>1, <1>8 DEF RemoteStep, ServerStep, AcceptSecure, RejectSecure, AcceptFrame,
     RejectFrame, RateLimit, ClientGone, ReadTimesOut, LinkBreaks, drone
<1> QED
  BY <1>1, <1>2, <1>3, <1>6, <1>7, <1>8, EnqueueInHand, StepCases

\* The queue stays within its limit, whatever the producers do while the sender
\* is blocked in a write.
THEOREM QueueBounded == Spec => []WithinLimit
<1>1. Init => WithinLimit
  BY SecureTransportAssumption DEF Init, WithinLimit
<1> QED
  BY <1>1, QueueNext, Invariance, PTL DEF Spec

\* And at the limit it is video that goes: no control message is evicted.
THEOREM ControlNeverEvicted == Spec => [][ControlStays]_vars
BY QueueNext, Invariance, PTL DEF Spec

-----------------------------------------------------------------------------
(* Refinement of ControlLog.                                               *)

Chains == <<chain, srvChain, lost, srvReason>>

Ends(reason) == srvReason = "open" /\ srvReason' = reason

\* What a step shows of the two chains.
LEMMA ChainSteps ==
    ASSUME Inv, [Next]_vars
    PROVE  \/ UNCHANGED Chains
           \/ chain' = chain + 1 /\ UNCHANGED <<srvChain, lost, srvReason>>
           \/ /\ \E p \in Producer : stage[p] \in {"built", "checked"}
                                     /\ lost' = lost \cup {held[p].aad}
              /\ UNCHANGED <<chain, srvChain, srvReason>>
           \/ /\ AcceptSecure
              /\ srvReason = "open" /\ srvReason' \in {"open", "dashboard"}
              /\ srvChain' = srvChain + 1 /\ UNCHANGED <<chain, lost>>
           \/ /\ \E reason \in Reason \ {"open"} : Ends(reason)
              /\ UNCHANGED <<chain, srvChain, lost>>
<1>1. CASE \E p \in Producer : SecureStep(p)
  <2>1. PICK p \in Producer : SecureStep(p)
    BY <1>1
  <2>2. CASE LockSecure(p) \/ BuildSecure(p) \/ BuildThrows(p)
    BY <2>2 DEF LockSecure, BuildSecure, BuildThrows, Chains, builder, server
  <2>3. CASE CheckUsable(p) \/ EnqueueSecure(p)
    BY <2>1, <2>3 DEF CheckUsable, EnqueueSecure, Enter, Chains, builder, server
  <2> QED
    BY <2>1, <2>2, <2>3 DEF SecureStep
<1>2. CASE TelemetryExits \/ VideoStep \/ SenderStep \/ UNCHANGED vars
  BY <1>2 DEF TelemetryExits, VideoStep, AdmitFrame, EncryptFrame, SkipFrame,
              CheckFrame, EnqueueFrame, VideoExits, videoOnly, SenderStep,
              PopMessage, StartWrite, RefuseOversized, SenderGivesUp,
              WriteSucceeds, WriteFails, MarkFlags, ClearQueue, CloseFailed,
              SenderExits, senderOnly, vars, builder, server, Chains
<1>3. CASE ShutdownStep \/ EmergencyShutdown
  BY <1>3 DEF ShutdownStep, StartPipeline, PipelineThrows, WatchEnds,
              StopPipeline, JoinVideo, StopSender, JoinSender, CloseTls,
              JoinTelemetry, EmergencyShutdown, mainOnly, builder, server, Chains
<1>4. CASE RemoteStep
  <2>1. CASE LinkBreaks
    BY <2>1 DEF LinkBreaks, drone, server, builder, Chains
  <2>2. CASE AcceptSecure
    BY <2>2 DEF AcceptSecure, Reads, KeepServing, CloseSession, drone, builder
  <2>3. CASE AcceptFrame
    BY <2>3 DEF AcceptFrame, Reads, KeepServing, CloseSession, drone, builder,
                Chains, Ends, Reason
  <2>4. CASE \/ RejectSecure \/ RejectFrame \/ RateLimit \/ ReadTimesOut
             \/ ClientGone
    BY <2>4 DEF RejectSecure, RejectFrame, RateLimit, ReadTimesOut, ClientGone,
                Reads, CloseSession, drone, builder, Ends, Reason
  <2> QED
    BY <1>4, <2>1, <2>2, <2>3, <2>4 DEF RemoteStep, ServerStep
<1> QED
  BY <1>1, <1>2, <1>3, <1>4, StepCases

\* A message that a producer holds has a position the server has not reached.
LEMMA HeldIsAhead ==
    ASSUME Inv, NEW p \in Producer, stage[p] \in {"built", "checked"}
    PROVE  held[p].aad \in srvChain .. (chain - 1)
<1>1. PICK m : m = held[p]
  OBVIOUS
<1>2. m \in InProducers /\ m \in InHand
  BY <1>1 DEF InProducers, InHand
<1>3. m \in Message /\ IsSecure(m) /\ Used(m) /\ Ahead(m)
  BY <1>2 DEF Inv, HeldInv, ServerInv
<1> QED
  BY <1>1, <1>3 DEF Message, Used, Ahead, Inv, TypeOK, DataOK, ServerOK

\* A message the server accepts was sealed and not lost.
LEMMA AcceptIsPending ==
    ASSUME Inv, AcceptSecure PROVE srvChain < chain /\ srvChain \notin lost
<1>1. PICK h : h = Head(wire)
  OBVIOUS
<1>2. wire # <<>> /\ IsSecure(h) /\ h.aad = srvChain
  BY <1>1 DEF AcceptSecure, Reads, IsSecure
<1>3. h \in InFlight
  BY <1>1, <1>2, HeadIsOldest
<1>4. srvChain \in Pending
  BY <1>2, <1>3 DEF Pending, Aads
<1> QED
  BY <1>2, <1>3, <1>4 DEF Inv, ServerInv, LossInv, Used

\* Every step of the two programs is one of the log's, or none.
LEMMA StepRefines == Inv /\ Inv' /\ [Next]_vars => [Log!Next]_(Log!log)
<1> SUFFICES ASSUME Inv, Inv', [Next]_vars PROVE [Log!Next]_(Log!log)
  OBVIOUS
<1>1. CASE UNCHANGED Chains
  BY <1>1 DEF Chains, Log!log
<1>2. CASE chain' = chain + 1 /\ UNCHANGED <<srvChain, lost, srvReason>>
  BY <1>2 DEF Log!Next, Log!Seal
<1>3. CASE /\ \E p \in Producer : stage[p] \in {"built", "checked"}
                                  /\ lost' = lost \cup {held[p].aad}
           /\ UNCHANGED <<chain, srvChain, srvReason>>
  BY <1>3, HeldIsAhead DEF Log!Next, Log!Lose
<1>4. CASE /\ AcceptSecure
           /\ srvReason = "open" /\ srvReason' \in {"open", "dashboard"}
           /\ srvChain' = srvChain + 1 /\ UNCHANGED <<chain, lost>>
  BY <1>4, AcceptIsPending DEF Log!Next, Log!Accept
<1>5. CASE /\ \E reason \in Reason \ {"open"} : Ends(reason)
           /\ UNCHANGED <<chain, srvChain, lost>>
  <2>1. CASE srvReason' = "tag"
    <3>1. srvChain \in lost
      BY <1>5, <2>1 DEF Inv, CloseInv, TagFailsOnlyAfterLoss
    <3> QED
      BY <1>5, <2>1, <3>1 DEF Ends, Log!Next, Log!Break
  <2>2. CASE srvReason' # "tag"
    BY <1>5, <2>2 DEF Ends, Log!Next, Log!Close
  <2> QED
    BY <2>1, <2>2
<1> QED
  BY <1>1, <1>2, <1>3, <1>4, <1>5, ChainSteps

\* The drone's send path and the server's loop implement ControlLog: whatever
\* the threads, the evictions and the failures do, the server accepts the
\* control messages in the order they were sealed and nothing after a loss.
THEOREM Refinement == Spec => ImplementsLog
<1>1. Init => Log!Init
  BY DEF Init, Log!Init
<1> QED
  BY <1>1, Invariance, StepRefines, PTL DEF Spec, ImplementsLog, Log!Spec

-----------------------------------------------------------------------------
(* What the log gives, and so the send path and the server's loop.         *)

\* The positions are numbers, and what is lost is not behind what was accepted.
LogInv ==
    /\ chain \in Nat /\ srvChain \in Nat /\ lost \subseteq Nat
    /\ Log!AcceptedHaveCome /\ Log!BrokenByLoss

\* Every step of the log keeps that.
LEMMA LogGives == Log!Spec => [](Log!AcceptedHaveCome /\ Log!BrokenByLoss)
<1> USE DEF LogInv, Log!AcceptedHaveCome, Log!BrokenByLoss
<1>1. Log!Init => LogInv
  BY DEF Log!Init
<1>2. LogInv /\ [Log!Next]_(Log!log) => LogInv'
  <2>1. ASSUME LogInv, Log!Seal PROVE LogInv'
    BY <2>1 DEF Log!Seal
  <2>2. ASSUME LogInv, Log!Lose PROVE LogInv'
    BY <2>2 DEF Log!Lose
  <2>3. ASSUME LogInv, Log!Accept PROVE LogInv'
    BY <2>3 DEF Log!Accept
  <2>4. ASSUME LogInv, Log!Break PROVE LogInv'
    BY <2>4 DEF Log!Break
  <2>5. ASSUME LogInv, Log!Close PROVE LogInv'
    BY <2>5 DEF Log!Close
  <2>6. ASSUME LogInv, UNCHANGED Log!log PROVE LogInv'
    BY <2>6 DEF Log!log
  <2> QED
    BY <2>1, <2>2, <2>3, <2>4, <2>5, <2>6 DEF Log!Next
<1>3. LogInv => Log!AcceptedHaveCome /\ Log!BrokenByLoss
  OBVIOUS
<1> QED
  BY <1>1, <1>2, <1>3, PTL DEF Log!Spec

\* Nothing the server has accepted was thrown away by the drone, every message
\* below the one it waits for has come, and the session breaks only when that
\* one is lost.
THEOREM AcceptedAreNeverLost ==
    Spec => [](Log!AcceptedHaveCome /\ Log!BrokenByLoss)
BY Refinement, LogGives DEF ImplementsLog
=============================================================================
