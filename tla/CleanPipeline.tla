---------------------------- MODULE CleanPipeline ----------------------------
(***************************************************************************)
(* The drone's video pipeline (drone_source/clean_pipeline.cpp), from      *)
(* start() having launched its threads to the return of stop().  A capture *)
(* thread hands every frame to a YOLO and to a MiDaS worker; the send      *)
(* thread joins their two results, here called halves, by frame_id, and    *)
(* passes the frame to the network's callback and to a logging thread.     *)
(* Each queue is bounded and drops its oldest entry; each wait is timed.   *)
(***************************************************************************)
EXTENDS Integers, Sequences, FiniteSets

CONSTANTS
    QueueMax,       \* 30: yolo_queue, midas_queue
    SendMax,        \* 30: send_queue
    CacheMax,       \* 30: frame_cache
    LogMax,         \* 100: logging_queue
    MaxFrames       \* bound: frame ids used

ASSUME CleanPipelineAssumption ==
    /\ QueueMax \in Nat \ {0} /\ SendMax \in Nat \ {0}
    /\ CacheMax \in Nat \ {0} /\ LogMax \in Nat \ {0}
    /\ MaxFrames \in Nat

Kind == {"yolo", "midas"}
Half == [id : Nat, kind : Kind]
Frame == [id : Nat, kinds : SUBSET Kind]
Nothing == -1

VARIABLES
    running,
    frameCounter,
    capture,        \* the capture thread: where it is,
    captured,       \*   and the id of its frame
    inQueue,        \* yolo_queue and midas_queue
    worker,         \* the two workers: where they are,
    work,           \*   and the ids they process
    sendQueue,      \* halves on their way to the send thread
    sender,         \* the send thread: where it is,
    half,           \*   the half it took,
    frameCache,     \*   and the halves that wait for another one
    loggingQueue, logger,
    delivered,      \* history: what the callback was called with
    control         \* the thread that calls stop()

vars == <<running, frameCounter, capture, captured, inQueue, worker, work,
          sendQueue, sender, half, frameCache, loggingQueue, logger, delivered,
          control>>

NoHalf == [id |-> Nothing, kind |-> "none"]

Init ==
    /\ running = TRUE /\ control = "running"
    /\ frameCounter = 0
    /\ capture = "loop" /\ captured = Nothing
    /\ inQueue = [k \in Kind |-> <<>>]
    /\ worker = [k \in Kind |-> "loop"] /\ work = [k \in Kind |-> Nothing]
    /\ sendQueue = <<>>
    /\ sender = "loop" /\ half = NoHalf /\ frameCache = {}
    /\ loggingQueue = <<>> /\ logger = "loop"
    /\ delivered = <<>>

\* A queue at its limit loses its oldest entry.
Pushed(q, x, max) == Append(IF Len(q) < max THEN q ELSE Tail(q), x)

-----------------------------------------------------------------------------
(* capture_worker().                                                       *)

captureOnly == <<worker, work, sendQueue, sender, half, frameCache,
                 loggingQueue, logger, delivered, control, running>>

\* The id is spent before it is known whether there is a frame.
Grab ==
    /\ capture = "loop" /\ running
    /\ frameCounter < MaxFrames
    /\ frameCounter' = frameCounter + 1
    /\ \/ capture' = "push_yolo" /\ captured' = frameCounter
       \/ UNCHANGED <<capture, captured>>
    /\ UNCHANGED <<inQueue, captureOnly>>

PushFrame(k, from, to) ==
    /\ capture = from /\ capture' = to
    /\ inQueue' = [inQueue EXCEPT ![k] = Pushed(@, captured, QueueMax)]
    /\ captured' = IF to = "loop" THEN Nothing ELSE captured
    /\ UNCHANGED <<frameCounter, captureOnly>>

CaptureExits ==
    /\ capture = "loop" /\ ~running
    /\ capture' = "exited"
    /\ UNCHANGED <<frameCounter, captured, inQueue, captureOnly>>

-----------------------------------------------------------------------------
(* yolo_worker() and midas_worker().                                       *)

workerOnly == <<running, frameCounter, capture, captured, sender, half,
                frameCache, loggingQueue, logger, delivered, control>>

\* Faulty variants: the frame is not removed, or the newest one is taken.
PeekFrame(k) ==
    /\ worker[k] = "loop" /\ running /\ inQueue[k] # <<>>
    /\ worker' = [worker EXCEPT ![k] = "busy"]
    /\ work' = [work EXCEPT ![k] = Head(inQueue[k])]
    /\ UNCHANGED <<inQueue, sendQueue, workerOnly>>

TakeNewest(k) ==
    /\ worker[k] = "loop" /\ running /\ inQueue[k] # <<>>
    /\ worker' = [worker EXCEPT ![k] = "busy"]
    /\ work' = [work EXCEPT ![k] = inQueue[k][Len(inQueue[k])]]
    /\ inQueue' = [inQueue EXCEPT ![k] = SubSeq(@, 1, Len(@) - 1)]
    /\ UNCHANGED <<sendQueue, workerOnly>>

TakeFrame(k) ==
    /\ worker[k] = "loop" /\ running /\ inQueue[k] # <<>>
    /\ worker' = [worker EXCEPT ![k] = "busy"]
    /\ work' = [work EXCEPT ![k] = Head(inQueue[k])]
    /\ inQueue' = [inQueue EXCEPT ![k] = Tail(@)]
    /\ UNCHANGED <<sendQueue, workerOnly>>

\* process() returns, or throws: the frame then has no such half.
Process(k) ==
    /\ worker[k] = "busy"
    /\ worker' = [worker EXCEPT ![k] = "loop"]
    /\ work' = [work EXCEPT ![k] = Nothing]
    /\ \/ sendQueue' = Pushed(sendQueue, [id |-> work[k], kind |-> k], SendMax)
       \/ UNCHANGED sendQueue
    /\ UNCHANGED <<inQueue, workerOnly>>

\* Faulty variant: the wait for an empty queue does not end with the pipeline.
WorkerExitsDrained(k) ==
    /\ worker[k] = "loop" /\ ~running /\ inQueue[k] = <<>>
    /\ worker' = [worker EXCEPT ![k] = "exited"]
    /\ UNCHANGED <<work, inQueue, sendQueue, workerOnly>>

WorkerExits(k) ==
    /\ worker[k] = "loop" /\ ~running
    /\ worker' = [worker EXCEPT ![k] = "exited"]
    /\ UNCHANGED <<work, inQueue, sendQueue, workerOnly>>

-----------------------------------------------------------------------------
(* send_worker() and frame_logging_worker().                               *)

senderOnly == <<running, frameCounter, capture, captured, inQueue, worker,
                work, control>>

TakeHalf ==
    /\ sender = "loop" /\ running /\ sendQueue # <<>>
    /\ sender' = "joining"
    /\ half' = Head(sendQueue)
    /\ sendQueue' = Tail(sendQueue)
    /\ UNCHANGED <<frameCache, loggingQueue, logger, delivered, senderOnly>>

Cached(id) == {h \in frameCache : h.id = id}
Oldest(cache) == {h \in cache : \A g \in cache : h.id <= g.id}

\* The first half of a frame waits; at the limit it takes the place of the
\* half with the smallest id.
KeepHalf ==
    /\ sender = "joining" /\ Cached(half.id) = {}
    /\ frameCache' = {half} \cup (IF Cardinality(frameCache) < CacheMax
                                  THEN frameCache
                                  ELSE frameCache \ Oldest(frameCache))
    /\ sender' = "loop" /\ half' = NoHalf
    /\ UNCHANGED <<sendQueue, loggingQueue, logger, delivered, senderOnly>>

\* The second half completes the frame: the callback, then the logging queue,
\* which an exception in between leaves alone.
Deliver ==
    /\ sender = "joining" /\ Cached(half.id) # {}
    /\ frameCache' = frameCache \ Cached(half.id)
    /\ delivered' = Append(delivered,
           [id |-> half.id, kinds |-> {h.kind : h \in Cached(half.id) \cup {half}}])
    /\ \/ loggingQueue' = Pushed(loggingQueue, half.id, LogMax)
       \/ UNCHANGED loggingQueue
    /\ sender' = "loop" /\ half' = NoHalf
    /\ UNCHANGED <<sendQueue, logger, senderOnly>>

SenderExits ==
    /\ sender = "loop" /\ ~running
    /\ sender' = "exited"
    /\ UNCHANGED <<half, sendQueue, frameCache, loggingQueue, logger, delivered,
                   senderOnly>>

\* What becomes of a logged frame is outside the model.
Log ==
    /\ logger = "loop" /\ running /\ loggingQueue # <<>>
    /\ loggingQueue' = Tail(loggingQueue)
    /\ UNCHANGED <<logger, sender, half, sendQueue, frameCache, delivered,
                   senderOnly>>

LoggerExits ==
    /\ logger = "loop" /\ ~running
    /\ logger' = "exited"
    /\ UNCHANGED <<loggingQueue, sender, half, sendQueue, frameCache, delivered,
                   senderOnly>>

-----------------------------------------------------------------------------
(* stop(): the flag, the joins in their order, the queues.                 *)

stopOnly == <<frameCounter, capture, captured, worker, work, sender, half,
              frameCache, logger, delivered>>

Stop ==
    /\ control = "running"
    /\ running' = FALSE /\ control' = "join_capture"
    /\ UNCHANGED <<inQueue, sendQueue, loggingQueue, stopOnly>>

\* Faulty variant: the threads are detached.
Detach(exited, from, to) ==
    /\ control = from /\ exited \in BOOLEAN
    /\ control' = to
    /\ UNCHANGED <<running, inQueue, sendQueue, loggingQueue, stopOnly>>

Join(exited, from, to) ==
    /\ control = from /\ exited
    /\ control' = to
    /\ UNCHANGED <<running, inQueue, sendQueue, loggingQueue, stopOnly>>

JoinThreads ==
    \/ Join(capture = "exited", "join_capture", "join_yolo")
    \/ Join(worker["yolo"] = "exited", "join_yolo", "join_midas")
    \/ Join(worker["midas"] = "exited", "join_midas", "join_send")
    \/ Join(sender = "exited", "join_send", "join_logging")
    \/ Join(logger = "exited", "join_logging", "clear")

ClearQueues ==
    /\ control = "clear" /\ control' = "stopped"
    /\ inQueue' = [k \in Kind |-> <<>>]
    /\ sendQueue' = <<>> /\ loggingQueue' = <<>>
    /\ UNCHANGED <<running, stopOnly>>

-----------------------------------------------------------------------------
CaptureStep == \/ Grab \/ CaptureExits
               \/ PushFrame("yolo", "push_yolo", "push_midas")
               \/ PushFrame("midas", "push_midas", "loop")

WorkerStep(k) == TakeFrame(k) \/ Process(k) \/ WorkerExits(k)

SenderStep == TakeHalf \/ KeepHalf \/ Deliver \/ SenderExits

LoggerStep == Log \/ LoggerExits

ControlStep == Stop \/ JoinThreads \/ ClearQueues

Next == CaptureStep \/ (\E k \in Kind : WorkerStep(k)) \/ SenderStep
        \/ LoggerStep \/ ControlStep

Spec == Init /\ [][Next]_vars

\* Every thread runs, its waits being timed, and the models return.  Nobody
\* has to call stop(), but a stop() once called goes on.
FairSpec == /\ Spec
            /\ WF_vars(CaptureStep) /\ WF_vars(SenderStep) /\ WF_vars(LoggerStep)
            /\ \A k \in Kind : WF_vars(WorkerStep(k))
            /\ WF_vars(JoinThreads \/ ClearQueues)

-----------------------------------------------------------------------------
TypeOK ==
    /\ running \in BOOLEAN /\ frameCounter \in Nat
    /\ capture \in {"loop", "push_yolo", "push_midas", "exited"}
    /\ captured \in Nat \cup {Nothing}
    /\ inQueue \in [Kind -> Seq(Nat)]
    /\ worker \in [Kind -> {"loop", "busy", "exited"}]
    /\ work \in [Kind -> Nat \cup {Nothing}]
    /\ sendQueue \in Seq(Half)
    /\ sender \in {"loop", "joining", "exited"}
    /\ half \in Half \cup {NoHalf} /\ frameCache \subseteq Half
    /\ loggingQueue \in Seq(Nat) /\ logger \in {"loop", "exited"}
    /\ delivered \in Seq(Frame)
    /\ control \in {"running", "join_capture", "join_yolo", "join_midas",
                    "join_send", "join_logging", "clear", "stopped"}

\* Whatever the queues, the cache and the failures lose, the network sees the
\* frames in the order they were captured, none twice, although two workers at
\* their own speeds race for the send queue.
DeliveredInOrder ==
    \A i, j \in DOMAIN delivered : i < j => delivered[i].id < delivered[j].id

\* The send thread does not look at which worker a half comes from: a frame is
\* one half of each worker all the same, and both are of the same frame.
DeliveredComplete == \A i \in DOMAIN delivered : delivered[i].kinds = Kind

\* When stop() returns no thread is left to call the network back, and nothing
\* is queued that a later start() could mistake for its own.
StoppedIsQuiet ==
    control = "stopped" =>
        /\ capture = "exited" /\ sender = "exited" /\ logger = "exited"
        /\ \A k \in Kind : worker[k] = "exited" /\ inQueue[k] = <<>>
        /\ sendQueue = <<>> /\ loggingQueue = <<>>

\* stop() returns, whatever the threads are doing when it is called.
StopReturns == control = "join_capture" ~> control = "stopped"
=============================================================================
