--------------------------- MODULE SecureTransport ---------------------------
(***************************************************************************)
(* The drone's send path (drone_source/drone_network.cpp) from the end of  *)
(* the handshake to the exit of the client, over one TLS connection to the *)
(* server's secure_loop (server_source/src/hesia_server_session.cpp).      *)
(*                                                                         *)
(* Drone threads: `main' runs DroneNetworkClient::main() and close(),      *)
(* `telemetry' runs telemetry_loop(), `video' is the CleanPipeline worker  *)
(* whose callback is send_video_frame(), `sender' runs send_loop().        *)
(*                                                                         *)
(* Secure messages are chained: each is sealed with last_block_hash as its *)
(* AAD and then hashed into it.  The hash is injective and every plaintext *)
(* carries its own seq, so the chain value after n messages is the number  *)
(* n, on the drone and on the server.  A message is its type, its AAD and  *)
(* the counter in its IV; a video packet's counter is its frame_id.        *)
(***************************************************************************)
EXTENDS ReplayWindow, Sequences, FiniteSets

CONSTANTS
    QueueMax,       \* send_queue_max
    FrameWindow,    \* the 1000 frames decrypt_frame() looks ahead
    MaxTelemetry,   \* bound: telemetry is built while the chain is shorter
    MaxFrames,      \* bound: video frames encrypted
    MaxThrows       \* bound: encryptions that throw

ASSUME SecureTransportAssumption ==
    /\ QueueMax \in Nat \ {0}
    /\ FrameWindow \in Nat \ {0}
    /\ MaxTelemetry \in Nat /\ MaxFrames \in Nat /\ MaxThrows \in Nat

Producer == {"main", "telemetry"}      \* callers of enqueue_secure_message
Thread == Producer \cup {"video", "sender"}
None == "none"                         \* the secure_send_mutex is free

Message == [type : {"SECURE_MSG", "VIDEO_DATA"}, aad : Nat, counter : Nat]
NoMessage == [type |-> None, aad |-> 0, counter |-> 0]
IsSecure(m) == m.type = "SECURE_MSG"
IsVideo(m) == m.type = "VIDEO_DATA"

VARIABLES
    pc,               \* where each thread is
    stage,            \* how far each producer is in enqueue_secure_message
    held,             \* the message each thread has in hand
    secureLock,       \* holder of secure_send_mutex
    sendQueue,        \* send_queue
    connected, transportFailed, sendRunning, telemetryRunning, videoRunning,
    pipelineRunning,  \* CleanPipeline::running
    tlsOpen,          \* the TLSChannel has not been closed
    chain,            \* the drone's last_block_hash, and its seq
    sendCounter,      \* send_counter of the drone's SecureChannel
    txFrame,          \* tx_counter of the drone's VideoChannel
    exitCode,         \* what main() returned
    linkUp, wire,     \* the TCP connection, and what it carries to the server
    srvReason,        \* why secure_loop returned, "open" while it runs
    srvChain,         \* the server's last_block_hash_
    srvWindow,        \* the replay window of its SecureChannel
    srvFrame,         \* rx_last_frame of its VideoChannel
    lost              \* history: AADs of messages enqueue_message refused

flags == <<connected, transportFailed, sendRunning, telemetryRunning,
           videoRunning, pipelineRunning>>
builder == <<chain, sendCounter, txFrame>>
server == <<srvReason, srvChain, srvWindow, srvFrame>>
network == <<linkUp, wire>>
vars == <<pc, stage, held, secureLock, sendQueue, flags, tlsOpen, builder, exitCode,
          network, server, lost>>

\* Both ends are in SECURE_SESSION and hold the same last_block_hash.  The drone
\* has used counter 0 on a greeting it never sends; main() has started the
\* sender and the telemetry thread.
Init ==
    /\ pc = [t \in Thread |-> CASE t = "main" -> "start_pipeline"
                                [] t = "video" -> "exited"
                                [] OTHER -> "loop"]
    /\ stage = [p \in Producer |-> "out"]
    /\ held = [t \in Thread |-> NoMessage]
    /\ secureLock = None
    /\ sendQueue = <<>>
    /\ connected = TRUE /\ transportFailed = FALSE
    /\ sendRunning = TRUE /\ telemetryRunning = TRUE /\ videoRunning = TRUE
    /\ pipelineRunning = FALSE
    /\ tlsOpen = TRUE
    /\ chain = 0 /\ sendCounter = 1 /\ txFrame = 0
    /\ exitCode = -1
    /\ linkUp = TRUE /\ wire = <<>>
    /\ srvReason = "open" /\ srvChain = 0
    /\ srvWindow = ResetWindow /\ srvFrame = -1
    /\ lost = {}

Goto(t, to) == pc' = [pc EXCEPT ![t] = to]
Step(t, from, to) == pc[t] = from /\ Goto(t, to)
Hold(t, m) == held' = [held EXCEPT ![t] = m]
Drop(t) == Hold(t, NoMessage)

-----------------------------------------------------------------------------
(* The send queue, under send_queue_mutex.                                 *)

Usable == connected /\ ~transportFailed

OldestVideo(q) ==
    CHOOSE i \in DOMAIN q : /\ IsVideo(q[i])
                            /\ \A j \in DOMAIN q : IsVideo(q[j]) => i <= j

Remove(q, i) == SubSeq(q, 1, i - 1) \o SubSeq(q, i + 1, Len(q))

HasVideo(q) == \E i \in DOMAIN q : IsVideo(q[i])

Full == Len(sendQueue) >= QueueMax

\* enqueue_message() takes m: at the limit, a control message takes the place
\* of the oldest video packet.
Accepts(m) == ~Full \/ (IsSecure(m) /\ HasVideo(sendQueue))

Enqueued(m) ==
    Append(IF Full THEN Remove(sendQueue, OldestVideo(sendQueue)) ELSE sendQueue,
           m)

-----------------------------------------------------------------------------
(* enqueue_secure_message(): secure_send_mutex is held from building the   *)
(* message until it is queued.                                             *)

Enter(p, from, to) == stage[p] = from /\ stage' = [stage EXCEPT ![p] = to]

\* The call is over: the lock is free and main() goes on.
Return(p) ==
    /\ secureLock' = None
    /\ Drop(p)
    /\ pc' = [pc EXCEPT ![p] = CASE @ = "ping" -> "flight"
                                [] @ = "flight" -> "watch"
                                [] OTHER -> @]

\* Faulty variant: building and queueing are not one critical section.
LockNothing(p) ==
    /\ \/ p = "main" /\ pc[p] \in {"ping", "flight"}
       \/ /\ p = "telemetry" /\ pc[p] = "loop"
          /\ telemetryRunning /\ connected
          /\ chain < MaxTelemetry
    /\ secureLock' = p
    /\ Enter(p, "out", "locked")
    /\ UNCHANGED <<pc, held, sendQueue, flags, tlsOpen, builder, exitCode,
                   network, server, lost>>

\* send_secure_ping(), FLIGHT_DATA, and one turn of telemetry_loop().
LockSecure(p) ==
    /\ \/ p = "main" /\ pc[p] \in {"ping", "flight"}
       \/ /\ p = "telemetry" /\ pc[p] = "loop"
          /\ telemetryRunning /\ connected
          /\ chain < MaxTelemetry
    /\ secureLock = None
    /\ secureLock' = p
    /\ Enter(p, "out", "locked")
    /\ UNCHANGED <<pc, held, sendQueue, flags, tlsOpen, builder, exitCode,
                   network, server, lost>>

\* HesiaDrone::send_secure_message(): seal under the chain, then advance it.
BuildSecure(p) ==
    /\ Enter(p, "locked", "built")
    /\ Hold(p, [type |-> "SECURE_MSG", aad |-> chain, counter |-> sendCounter])
    /\ chain' = chain + 1
    /\ sendCounter' = sendCounter + 1
    /\ UNCHANGED <<pc, secureLock, sendQueue, flags, tlsOpen, txFrame, exitCode,
                   network, server, lost>>

\* encrypt() throws after taking its counter; the caller logs and goes on.
BuildThrows(p) ==
    /\ sendCounter <= chain + MaxThrows
    /\ Enter(p, "locked", "out")
    /\ sendCounter' = sendCounter + 1
    /\ Return(p)
    /\ UNCHANGED <<sendQueue, flags, tlsOpen, chain, txFrame, exitCode, network,
                   server, lost>>

\* enqueue_message() looks at the connection before it takes the queue's lock.
CheckUsable(p) ==
    /\ UNCHANGED <<sendQueue, flags, tlsOpen, builder, exitCode, network, server>>
    /\ \/ /\ Usable
          /\ Enter(p, "built", "checked")
          /\ UNCHANGED <<pc, held, secureLock, lost>>
       \/ /\ ~Usable
          /\ Enter(p, "built", "out")
          /\ lost' = lost \cup {held[p].aad}
          /\ Return(p)

EnqueueSecure(p) ==
    /\ Enter(p, "checked", "out")
    /\ IF Accepts(held[p])
       THEN sendQueue' = Enqueued(held[p]) /\ UNCHANGED lost
       ELSE lost' = lost \cup {held[p].aad} /\ UNCHANGED sendQueue
    /\ Return(p)
    /\ UNCHANGED <<flags, tlsOpen, builder, exitCode, network, server>>

TelemetryExits ==
    /\ stage["telemetry"] = "out"
    /\ ~(telemetryRunning /\ connected)
    /\ Step("telemetry", "loop", "exited")
    /\ UNCHANGED <<stage, held, secureLock, sendQueue, flags, tlsOpen, builder,
                   exitCode, network, server, lost>>

-----------------------------------------------------------------------------
(* send_video_frame(), on the CleanPipeline's only sending thread.         *)

videoOnly == <<stage, secureLock, flags, tlsOpen, chain, sendCounter, exitCode,
               network, server, lost>>

\* Full queue, rate limit and dead connection return before anything is sealed.
AdmitFrame ==
    /\ pipelineRunning /\ connected /\ ~Full
    /\ txFrame < MaxFrames
    /\ Step("video", "loop", "admitted")
    /\ UNCHANGED <<held, sendQueue, txFrame, videoOnly>>

\* Faulty variant: the frame number is not moved on.
ReuseFrameId ==
    /\ Step("video", "admitted", "encrypted")
    /\ Hold("video", [type |-> "VIDEO_DATA", aad |-> 0, counter |-> txFrame])
    /\ UNCHANGED <<txFrame, sendQueue, videoOnly>>

EncryptFrame ==
    /\ Step("video", "admitted", "encrypted")
    /\ Hold("video", [type |-> "VIDEO_DATA", aad |-> 0, counter |-> txFrame])
    /\ txFrame' = txFrame + 1
    /\ UNCHANGED <<sendQueue, videoOnly>>

\* The frame is empty, cannot be encoded, or its JPEG is too large.
SkipFrame ==
    /\ Step("video", "admitted", "loop")
    /\ UNCHANGED <<held, sendQueue, txFrame, videoOnly>>

CheckFrame ==
    /\ IF Usable THEN Step("video", "encrypted", "checked") /\ UNCHANGED held
                 ELSE Step("video", "encrypted", "loop") /\ Drop("video")
    /\ UNCHANGED <<sendQueue, txFrame, videoOnly>>

EnqueueFrame ==
    /\ Step("video", "checked", "loop")
    /\ Drop("video")
    /\ sendQueue' = IF Accepts(held["video"]) THEN Enqueued(held["video"])
                                              ELSE sendQueue
    /\ UNCHANGED <<txFrame, videoOnly>>

VideoExits ==
    /\ ~pipelineRunning
    /\ Step("video", "loop", "exited")
    /\ UNCHANGED <<held, sendQueue, txFrame, videoOnly>>

-----------------------------------------------------------------------------
(* send_loop() and send_message().                                         *)

senderOnly == <<stage, secureLock, builder, pipelineRunning, exitCode, server,
                lost>>

PopMessage ==
    /\ sendRunning /\ Usable /\ sendQueue # <<>>
    /\ Step("sender", "loop", "popped")
    /\ Hold("sender", Head(sendQueue))
    /\ sendQueue' = Tail(sendQueue)
    /\ UNCHANGED <<flags, tlsOpen, network, senderOnly>>

\* send_message() refuses at once, or takes send_mutex and writes.
StartWrite ==
    /\ Usable
    /\ Step("sender", "popped", "writing")
    /\ UNCHANGED <<held, sendQueue, flags, tlsOpen, network, senderOnly>>

\* Faulty variant: a control message may be found too large as well.
RefuseAny ==
    /\ Step("sender", "popped", "loop")
    /\ Drop("sender")
    /\ UNCHANGED <<sendQueue, flags, tlsOpen, network, senderOnly>>

\* Too large with its prefix: only a video packet can be, as its JPEG alone was
\* measured against max_frame_bytes.
RefuseOversized ==
    /\ IsVideo(held["sender"])
    /\ Step("sender", "popped", "loop")
    /\ Drop("sender")
    /\ UNCHANGED <<sendQueue, flags, tlsOpen, network, senderOnly>>

\* The connection went between the pop and the write: the message is dropped.
SenderGivesUp ==
    /\ ~Usable
    /\ Step("sender", "popped", "exited")
    /\ Drop("sender")
    /\ sendRunning' = FALSE
    /\ UNCHANGED <<sendQueue, connected, transportFailed, telemetryRunning,
                   videoRunning, tlsOpen, network, senderOnly>>

\* The kernel takes the bytes; after the link is down nobody will read them.
WriteSucceeds ==
    /\ tlsOpen
    /\ Step("sender", "writing", "loop")
    /\ Drop("sender")
    /\ wire' = IF linkUp THEN Append(wire, held["sender"]) ELSE wire
    /\ UNCHANGED <<sendQueue, flags, tlsOpen, linkUp, senderOnly>>

\* Error or timeout: a partial record that the server will not decrypt.
WriteFails ==
    /\ Step("sender", "writing", "failing")
    /\ Drop("sender")
    /\ UNCHANGED <<sendQueue, flags, tlsOpen, network, senderOnly>>

\* mark_transport_failure(): the flags, then the queue, then the connection.
MarkFlags ==
    /\ Step("sender", "failing", "clearing")
    /\ connected' = FALSE /\ transportFailed' = TRUE
    /\ sendRunning' = FALSE /\ telemetryRunning' = FALSE
    /\ videoRunning' = FALSE
    /\ UNCHANGED <<held, sendQueue, tlsOpen, network, senderOnly>>

ClearQueue ==
    /\ Step("sender", "clearing", "closing")
    /\ sendQueue' = <<>>
    /\ UNCHANGED <<held, flags, tlsOpen, network, senderOnly>>

CloseFailed ==
    /\ Step("sender", "closing", "exited")
    /\ tlsOpen' = FALSE /\ linkUp' = FALSE
    /\ UNCHANGED <<held, sendQueue, flags, wire, senderOnly>>

SenderExits ==
    /\ ~(sendRunning /\ Usable)
    /\ Step("sender", "loop", "exited")
    /\ UNCHANGED <<held, sendQueue, flags, tlsOpen, network, senderOnly>>

-----------------------------------------------------------------------------
(* main(), stop_video() and close().                                       *)

mainOnly == <<stage, held, secureLock, sendQueue, builder, server, lost, wire>>

StartPipeline ==
    /\ pc["main"] = "start_pipeline"
    /\ pc' = [pc EXCEPT !["main"] = "ping", !["video"] = "loop"]
    /\ pipelineRunning' = TRUE
    /\ UNCHANGED <<connected, transportFailed, sendRunning, telemetryRunning,
                   videoRunning, tlsOpen, linkUp, exitCode, mainOnly>>

\* Faulty variant: the exception is caught and forgotten.
PipelineThrowsQuietly ==
    /\ Step("main", "start_pipeline", "stopping")
    /\ UNCHANGED <<flags, tlsOpen, linkUp, exitCode, mainOnly>>

\* CleanPipeline::start() fails and main() catches the exception.
PipelineThrows ==
    /\ Step("main", "start_pipeline", "stopping")
    /\ transportFailed' = TRUE
    /\ UNCHANGED <<connected, sendRunning, telemetryRunning, videoRunning,
                   pipelineRunning, tlsOpen, linkUp, exitCode, mainOnly>>

WatchEnds ==
    /\ ~(videoRunning /\ connected)
    /\ Step("main", "watch", "stopping")
    /\ UNCHANGED <<flags, tlsOpen, linkUp, exitCode, mainOnly>>

StopPipeline ==
    /\ Step("main", "stopping", "join_video")
    /\ pipelineRunning' = FALSE
    /\ UNCHANGED <<connected, transportFailed, sendRunning, telemetryRunning,
                   videoRunning, tlsOpen, linkUp, exitCode, mainOnly>>

JoinVideo ==
    /\ pc["video"] = "exited"
    /\ Step("main", "join_video", "stop_sender")
    /\ videoRunning' = FALSE
    /\ UNCHANGED <<connected, transportFailed, sendRunning, telemetryRunning,
                   pipelineRunning, tlsOpen, linkUp, exitCode, mainOnly>>

StopSender ==
    /\ Step("main", "stop_sender", "join_sender")
    /\ sendRunning' = FALSE
    /\ UNCHANGED <<connected, transportFailed, telemetryRunning, videoRunning,
                   pipelineRunning, tlsOpen, linkUp, exitCode, mainOnly>>

\* Faulty variant: the sender is told to stop but not waited for.
SkipSender ==
    /\ Step("main", "join_sender", "close_tls")
    /\ UNCHANGED <<flags, tlsOpen, linkUp, exitCode, mainOnly>>

JoinSender ==
    /\ pc["sender"] = "exited"
    /\ Step("main", "join_sender", "close_tls")
    /\ UNCHANGED <<flags, tlsOpen, linkUp, exitCode, mainOnly>>

\* Faulty variant: close() does not tell the telemetry thread to stop.
CloseTlsOnly ==
    /\ Step("main", "close_tls", "join_telemetry")
    /\ tlsOpen' = FALSE /\ linkUp' = FALSE
    /\ UNCHANGED <<flags, exitCode, mainOnly>>

CloseTls ==
    /\ Step("main", "close_tls", "join_telemetry")
    /\ tlsOpen' = FALSE /\ linkUp' = FALSE
    /\ telemetryRunning' = FALSE
    /\ UNCHANGED <<connected, transportFailed, sendRunning, videoRunning,
                   pipelineRunning, exitCode, mainOnly>>

JoinTelemetry ==
    /\ pc["telemetry"] = "exited"
    /\ Step("main", "join_telemetry", "done")
    /\ connected' = FALSE
    /\ exitCode' = IF transportFailed THEN 1 ELSE 0
    /\ UNCHANGED <<transportFailed, sendRunning, telemetryRunning, videoRunning,
                   pipelineRunning, tlsOpen, linkUp, mainOnly>>

\* A honeypot trips: emergency_shutdown() is _exit(1).
EmergencyShutdown ==
    /\ pc["main"] = "watch" /\ videoRunning /\ connected
    /\ pc' = [t \in Thread |-> "killed"]
    /\ stage' = [p \in Producer |-> "out"]
    /\ tlsOpen' = FALSE /\ linkUp' = FALSE
    /\ exitCode' = 1
    /\ UNCHANGED <<held, secureLock, sendQueue, flags, builder, wire, server,
                   lost>>

-----------------------------------------------------------------------------
(* The TCP connection, and the server's secure_loop().                     *)

drone == <<pc, stage, held, secureLock, sendQueue, flags, tlsOpen, builder,
           exitCode, lost>>

\* The connection breaks; what was not delivered yet may be cut off.
LinkBreaks ==
    /\ linkUp
    /\ linkUp' = FALSE
    /\ \E n \in 0 .. Len(wire) : wire' = SubSeq(wire, 1, n)
    /\ UNCHANGED <<drone, server>>

Reads(type) == /\ srvReason = "open" /\ wire # <<>>
               /\ Head(wire).type = type

KeepServing == /\ wire' = Tail(wire)
               /\ UNCHANGED <<srvReason, linkUp>>

\* secure_loop() returns: the session and its socket are closed.
CloseSession(reason) == /\ srvReason' = reason
                        /\ linkUp' = FALSE /\ wire' = <<>>

\* Faulty variant: the server does not bind a message to its chain.
AcceptAnyAad ==
    /\ Reads("SECURE_MSG")
    /\ CanAttempt(srvWindow, Head(wire).counter)
    /\ srvWindow' = Consume(srvWindow, Head(wire).counter)
    /\ srvChain' = srvChain + 1
    /\ KeepServing \/ CloseSession("dashboard")
    /\ UNCHANGED <<drone, srvFrame>>

\* decrypt() succeeds, the chain advances, and the dashboard's file is written
\* under the same try: an error there ends the session too.
AcceptSecure ==
    /\ Reads("SECURE_MSG")
    /\ CanAttempt(srvWindow, Head(wire).counter)
    /\ Head(wire).aad = srvChain
    /\ srvWindow' = Consume(srvWindow, Head(wire).counter)
    /\ srvChain' = srvChain + 1
    /\ KeepServing \/ CloseSession("dashboard")
    /\ UNCHANGED <<drone, srvFrame>>

\* decrypt() throws ReplayDetected, or InvalidTagError for another AAD.
RejectSecure ==
    /\ Reads("SECURE_MSG")
    /\ IF CanAttempt(srvWindow, Head(wire).counter)
       THEN Head(wire).aad # srvChain /\ CloseSession("tag")
       ELSE CloseSession("replay")
    /\ UNCHANGED <<drone, srvChain, srvWindow, srvFrame>>

AcceptFrame ==
    /\ Reads("VIDEO_DATA")
    /\ Head(wire).counter > srvFrame
    /\ Head(wire).counter <= srvFrame + FrameWindow
    /\ srvFrame' = Head(wire).counter
    /\ KeepServing \/ CloseSession("dashboard")
    /\ UNCHANGED <<drone, srvChain, srvWindow>>

RejectFrame ==
    /\ Reads("VIDEO_DATA")
    /\ IF Head(wire).counter > srvFrame
       THEN /\ Head(wire).counter > srvFrame + FrameWindow
            /\ CloseSession("frame_gap")
       ELSE CloseSession("frame_replay")
    /\ UNCHANGED <<drone, srvChain, srvWindow, srvFrame>>

\* The token bucket is empty when a frame comes in.
RateLimit ==
    /\ srvReason = "open" /\ wire # <<>>
    /\ CloseSession("rate")
    /\ UNCHANGED <<drone, srvChain, srvWindow, srvFrame>>

\* The drone has been silent for ssl_read_timeout_sec.
ReadTimesOut ==
    /\ srvReason = "open" /\ wire = <<>> /\ linkUp
    /\ CloseSession("timeout")
    /\ UNCHANGED <<drone, srvChain, srvWindow, srvFrame>>

\* The end of the stream: what was in flight has been read.
ClientGone ==
    /\ srvReason = "open" /\ wire = <<>> /\ ~linkUp
    /\ CloseSession("client_gone")
    /\ UNCHANGED <<drone, srvChain, srvWindow, srvFrame>>

-----------------------------------------------------------------------------
SecureStep(p) == LockSecure(p) \/ BuildSecure(p) \/ BuildThrows(p)
                 \/ CheckUsable(p) \/ EnqueueSecure(p)

MainStep == SecureStep("main") \/ StartPipeline \/ PipelineThrows \/ WatchEnds
            \/ StopPipeline \/ JoinVideo \/ StopSender \/ JoinSender \/ CloseTls
            \/ JoinTelemetry

TelemetryStep == SecureStep("telemetry") \/ TelemetryExits

VideoStep == AdmitFrame \/ EncryptFrame \/ SkipFrame \/ CheckFrame
             \/ EnqueueFrame \/ VideoExits

SenderStep == PopMessage \/ StartWrite \/ RefuseOversized \/ SenderGivesUp
              \/ WriteSucceeds \/ WriteFails \/ MarkFlags \/ ClearQueue \/ CloseFailed \/ SenderExits

ServerStep == AcceptSecure \/ RejectSecure \/ AcceptFrame \/ RejectFrame
              \/ RateLimit \/ ClientGone

Next == MainStep \/ TelemetryStep \/ VideoStep \/ SenderStep \/ ServerStep
        \/ ReadTimesOut \/ LinkBreaks \/ EmergencyShutdown

Spec == Init /\ [][Next]_vars

\* Every thread keeps running until it exits: the waits are timed, the mutexes
\* are held for a bounded time, and a write gives up at its deadline.
FairSpec == /\ Spec
            /\ WF_vars(MainStep) /\ WF_vars(TelemetryStep)
            /\ WF_vars(VideoStep) /\ WF_vars(SenderStep)
            /\ WF_vars(ServerStep)

-----------------------------------------------------------------------------
Location == {"start_pipeline", "ping", "flight", "watch", "stopping",
             "join_video", "stop_sender", "join_sender", "close_tls",
             "join_telemetry", "done", "loop", "admitted", "encrypted",
             "checked", "popped", "writing", "failing", "clearing", "closing",
             "exited", "killed"}

Reason == {"open", "dashboard", "tag", "replay", "frame_replay", "frame_gap",
           "rate", "timeout", "client_gone"}

ThreadsOK ==
    /\ pc \in [Thread -> Location]
    /\ stage \in [Producer -> {"out", "locked", "built", "checked"}]
    /\ held \in [Thread -> Message \cup {NoMessage}]
    /\ secureLock \in Producer \cup {None}

FlagsOK ==
    /\ connected \in BOOLEAN /\ transportFailed \in BOOLEAN
    /\ sendRunning \in BOOLEAN /\ telemetryRunning \in BOOLEAN
    /\ videoRunning \in BOOLEAN /\ pipelineRunning \in BOOLEAN
    /\ tlsOpen \in BOOLEAN /\ linkUp \in BOOLEAN

DataOK ==
    /\ sendQueue \in Seq(Message) /\ wire \in Seq(Message)
    /\ chain \in Nat /\ sendCounter \in Nat /\ txFrame \in Nat
    /\ lost \subseteq Nat

ServerOK ==
    /\ srvReason \in Reason /\ exitCode \in {-1, 0, 1}
    /\ srvChain \in Nat /\ srvFrame \in Nat \cup {-1}
    /\ srvWindow \in Window

TypeOK == ThreadsOK /\ FlagsOK /\ DataOK /\ ServerOK

\* The server refuses a secure message only when enqueue_message() has thrown
\* away the very message the server's chain is waiting for: neither two threads
\* sending at once, nor an eviction, nor a failing transport, breaks the chain.
TagFailsOnlyAfterLoss == srvReason = "tag" => srvChain \in lost

\* No secure message of the drone looks like a replay to the server, unless
\* none was accepted yet and the counter is already past the first window.
ReplayOnlyAtStart == srvReason = "replay" => ~srvWindow.initialized

\* Video packets may be dropped anywhere between encryption and the socket, but
\* never overtake each other: no frame the drone sends is refused as a replay.
FramesNeverReplayed == srvReason # "frame_replay"

\* The TLS object is never closed under the sender's feet: close() and
\* mark_transport_failure() reach it only when no write is in progress.
NoWriteAfterClose == pc["sender"] = "writing" => tlsOpen

\* Once the handshake is over, main() returns for a failure only, and says so:
\* its status is 1, every thread has been joined, and nobody holds the lock.
ReturnTellsFailure ==
    pc["main"] = "done" =>
        /\ exitCode = 1
        /\ \A t \in Thread \ {"main"} : pc[t] = "exited"
        /\ secureLock = None

\* A failure of the transport, wherever the threads are, ends in main()'s
\* return: every thread is joined and none waits for another one for ever.
FailureEndsTheRun == transportFailed ~> pc["main"] \in {"done", "killed"}

\* Every control message that was sealed is accepted by the server in the end:
\* again and again the server has them all, unless the one it waits for was
\* refused on the drone or the session has ended.
ControlIsDelivered ==
    []<>(srvChain = chain \/ srvChain \in lost \/ srvReason # "open")

\* Every behaviour of the two programs, seen through their chains, is one of the
\* promised log: accepted in order, without a gap, nothing after a loss.
Log == INSTANCE ControlLog WITH
    sealed   <- chain,
    accepted <- srvChain,
    status   <- CASE srvReason = "open" -> "open"
                  [] srvReason = "tag" -> "broken"
                  [] OTHER -> "closed"

ImplementsLog == Log!Spec

\* What the comment of enqueue_secure_message() promises of the lock: messages
\* are on the wire in the order of the chain, so the server never closes the
\* session because a message fails to authenticate.
ChainNeverBreaks == srvReason # "tag"
=============================================================================
