------------------------------ MODULE Handshake ------------------------------
(***************************************************************************)
(* The HESIA handshake inside TLS: connect() and handshake() of            *)
(* drone_source/drone_network.cpp with the steps of hesia_drone.cpp, and   *)
(* step_hello() to step_confirm() of server_source's HesiaServerSession.   *)
(* A drone process makes one handshake; when it ends, however it ends, a   *)
(* new process may start and connect again, while the server's session for *)
(* the old connection still runs.                                          *)
(*                                                                         *)
(* Random values never repeat, and hashes are injective: a hash is what    *)
(* was hashed, a transcript the sequence of messages, a chain value the    *)
(* sequence of blocks hashed into it.  A signature over a message is the   *)
(* message.  TLS keeps a connection's messages whole and in order; what    *)
(* is still on its way is lost from some point on when it breaks.          *)
(***************************************************************************)
EXTENDS Integers, Sequences

CONSTANT MaxConnections     \* bound: connections the drone makes

ASSUME HandshakeAssumption == MaxConnections \in Nat

Connection == 1 .. MaxConnections

VARIABLES
    conns,          \* connections made so far
    fresh,          \* random values drawn so far
    dState,         \* how far the drone's process is
    dConn,          \* its connection
    dTalk,          \* the messages of its transcript so far
    dKey, dChain,   \* session_key and last_block_hash
    sState, sTalk, sKey, sChain,    \* the same of each server session
    toServer, toDrone,              \* what each connection carries
    linkUp,         \* its TCP connection is open
    joined          \* history: the sessions the drone has been in

drone == <<dState, dConn, dTalk, dKey, dChain>>
server == <<sState, sTalk, sKey, sChain>>
network == <<toServer, toDrone, linkUp>>
vars == <<conns, fresh, drone, server, network, joined>>

NoKey == <<>>

Init ==
    /\ conns = 0 /\ fresh = 0
    /\ dState = "exited" /\ dConn = 0 /\ dTalk = <<>>
    /\ dKey = NoKey /\ dChain = <<>>
    /\ sState = [c \in Connection |-> "none"]
    /\ sTalk = [c \in Connection |-> <<>>]
    /\ sKey = [c \in Connection |-> NoKey]
    /\ sChain = [c \in Connection |-> <<>>]
    /\ toServer = [c \in Connection |-> <<>>]
    /\ toDrone = [c \in Connection |-> <<>>]
    /\ linkUp = [c \in Connection |-> FALSE]
    /\ joined = {}

-----------------------------------------------------------------------------
(* Messages, and what is derived from them.                                *)

Hello(random)      == [type |-> "HELLO", random |-> random]
HelloAck(random)   == [type |-> "HELLO_ACK", random |-> random]
KeyInit(sid)       == [type |-> "KEY_INIT", sid |-> sid]
KeyResp(sid, nonce, key) ==
    [type |-> "KEY_RESP", sid |-> sid, nonce |-> nonce, response |-> key]
KeyConfirm(sid, talk) == [type |-> "KEY_CONFIRM", sid |-> sid, talk |-> talk]
DroneAuth(sid, talk, last) ==
    [type |-> "DRONE_AUTH", sid |-> sid, talk |-> talk, last |-> last]
ServerAuth(last)   == [type |-> "SERVER_AUTH", last |-> last]
Confirm(last)      == [type |-> "CONFIRM", last |-> last]
Ok                 == [type |-> "OK"]

\* Faulty variant: the salt is empty and the KEM key pair is always the same.
UnsaltedKey(c, sid, nonce) == <<0, 0, 0>>

\* What the KDF binds: the TLS exporter, the session id with its KEM key pair,
\* and the drone's nonce with its encapsulation.
SessionKey(c, sid, nonce) == <<c, sid, nonce>>

\* hash_data() of a DRONE_AUTH or SERVER_AUTH payload, which holds the last hash.
Chained(auth) == Append(auth.last, [auth EXCEPT !.last = <<>>])

SidOf(talk) == talk[3].sid

-----------------------------------------------------------------------------
(* The connection, seen from either end.                                   *)

\* A message written after the connection is down is nobody's.
Put(pipes, c, m) == [pipes EXCEPT ![c] = IF linkUp[c] THEN Append(@, m) ELSE @]

Take(pipes, c) == [pipes EXCEPT ![c] = Tail(@)]

\* The connection is closed; the other end may not get all it was sent.
Cut(c, pipes, others) ==
    /\ linkUp' = [linkUp EXCEPT ![c] = FALSE]
    /\ \E n \in 0 .. Len(pipes[c]) : pipes' = [pipes EXCEPT ![c] = SubSeq(@, 1, n)]
    /\ others' = [others EXCEPT ![c] = <<>>]

LinkBreaks(c) ==
    /\ linkUp[c]
    /\ linkUp' = [linkUp EXCEPT ![c] = FALSE]
    /\ \E n \in 0 .. Len(toServer[c]), m \in 0 .. Len(toDrone[c]) :
           /\ toServer' = [toServer EXCEPT ![c] = SubSeq(@, 1, n)]
           /\ toDrone' = [toDrone EXCEPT ![c] = SubSeq(@, 1, m)]
    /\ UNCHANGED <<conns, fresh, drone, server, joined>>

-----------------------------------------------------------------------------
(* The drone.                                                              *)

serverSide == <<server, joined>>

\* A process starts with an empty key and 64 zero bytes, and opens a connection.
Connect ==
    /\ dState = "exited" /\ conns < MaxConnections
    /\ conns' = conns + 1
    /\ dState' = "connecting" /\ dConn' = conns + 1 /\ dTalk' = <<>>
    /\ dKey' = NoKey /\ dChain' = <<>>
    /\ sState' = [sState EXCEPT ![conns + 1] = "queued"]
    /\ linkUp' = [linkUp EXCEPT ![conns + 1] = TRUE]
    /\ UNCHANGED <<fresh, sTalk, sKey, sChain, toServer, toDrone, joined>>

\* TLS is up, so a worker has taken the connection, and its exporter and
\* certificate are at hand.
Connected ==
    /\ dState = "connecting" /\ sState[dConn] # "queued"
    /\ dState' = "IDLE"
    /\ UNCHANGED <<conns, fresh, dConn, dTalk, dKey, dChain, network, serverSide>>

\* Any of it fails: the socket is closed and, while retries are left, another
\* one is tried by the same process.
Retry ==
    /\ dState = "connecting" /\ conns < MaxConnections
    /\ conns' = conns + 1 /\ dConn' = conns + 1
    /\ sState' = [sState EXCEPT ![conns + 1] = "queued"]
    /\ linkUp' = [linkUp EXCEPT ![dConn] = FALSE, ![conns + 1] = TRUE]
    /\ UNCHANGED <<fresh, dState, dTalk, dKey, dChain, sTalk, sKey, sChain,
                   toServer, toDrone, joined>>

SendHello ==
    /\ dState = "IDLE"
    /\ fresh' = fresh + 1
    /\ dTalk' = <<Hello(fresh + 1)>>
    /\ toServer' = Put(toServer, dConn, Hello(fresh + 1))
    /\ dState' = "HELLO_SENT"
    /\ UNCHANGED <<conns, dConn, dKey, dChain, toDrone, linkUp, serverSide>>

Hears(state, type) ==
    /\ dState = state /\ toDrone[dConn] # <<>>
    /\ toDrone' = Take(toDrone, dConn)

Answer == Head(toDrone[dConn])

\* A check of handle_*() throws InvalidState, AuthenticationFailed or
\* SecurityViolation: handshake() catches it and returns false.
Refuse ==
    /\ dState' = "refused"
    /\ UNCHANGED <<fresh, dTalk, dKey, dChain, toServer>>

HandleHelloAck ==
    /\ Hears("HELLO_SENT", "HELLO_ACK")
    /\ IF Answer = HelloAck(dTalk[1].random)
       THEN /\ dTalk' = Append(dTalk, Answer)
            /\ dState' = "KEY_EXCHANGE"
            /\ UNCHANGED <<fresh, dKey, dChain, toServer>>
       ELSE Refuse
    /\ UNCHANGED <<conns, dConn, linkUp, serverSide>>

\* KEY_INIT is answered with the encapsulation, a nonce, and a hash that binds
\* them to the derived key.  used_sessions is the process's, and empty here.
HandleKeyInit ==
    /\ Hears("KEY_EXCHANGE", "KEY_INIT")
    /\ IF Answer.type = "KEY_INIT"
       THEN LET key == SessionKey(dConn, Answer.sid, fresh + 1)
                resp == KeyResp(Answer.sid, fresh + 1, key)
            IN  /\ fresh' = fresh + 1
                /\ dKey' = key
                /\ dTalk' = dTalk \o <<Answer, resp>>
                /\ toServer' = Put(toServer, dConn, resp)
                /\ dState' = "key_resp_sent"
                /\ UNCHANGED dChain
       ELSE Refuse
    /\ UNCHANGED <<conns, dConn, linkUp, serverSide>>

HandleKeyConfirm ==
    /\ Hears("key_resp_sent", "KEY_CONFIRM")
    /\ IF Answer = KeyConfirm(SidOf(dTalk), dTalk)
       THEN /\ dState' = "KEY_CONFIRMED"
            /\ UNCHANGED <<fresh, dTalk, dKey, dChain, toServer>>
       ELSE Refuse
    /\ UNCHANGED <<conns, dConn, linkUp, serverSide>>

BuildDroneAuth ==
    /\ dState = "KEY_CONFIRMED"
    /\ LET auth == DroneAuth(SidOf(dTalk), dTalk, dChain)
       IN  /\ dChain' = Chained(auth)
           /\ toServer' = Put(toServer, dConn, auth)
    /\ dState' = "DRONE_AUTH_SENT"
    /\ UNCHANGED <<conns, fresh, dConn, dTalk, dKey, toDrone, linkUp, serverSide>>

\* The channels are made from the key; their first state is SecureTransport's.
HandleServerAuth ==
    /\ Hears("DRONE_AUTH_SENT", "SERVER_AUTH")
    /\ IF Answer = ServerAuth(dChain)
       THEN /\ dChain' = Chained(Answer)
            /\ dState' = "SERVER_AUTH_VERIFIED"
            /\ UNCHANGED <<fresh, dTalk, dKey, toServer>>
       ELSE Refuse
    /\ UNCHANGED <<conns, dConn, linkUp, serverSide>>

BuildConfirm ==
    /\ dState = "SERVER_AUTH_VERIFIED"
    /\ toServer' = Put(toServer, dConn, Confirm(dChain))
    /\ dState' = "confirm_sent"
    /\ UNCHANGED <<conns, fresh, dConn, dTalk, dKey, dChain, toDrone, linkUp,
                   serverSide>>

\* Faulty variant: any last message is taken for the OK, or the lack of one.
FinalizeUnheard ==
    /\ dState = "confirm_sent"
    /\ dState' = "SECURE_SESSION"
    /\ joined' = joined \cup {[key |-> dKey, talk |-> dTalk, chain |-> dChain]}
    /\ UNCHANGED <<conns, fresh, dConn, dTalk, dKey, dChain, network, server>>

FinalizeConfirm ==
    /\ Hears("confirm_sent", "OK")
    /\ IF Answer = Ok
       THEN /\ dState' = "SECURE_SESSION"
            /\ joined' = joined \cup {[key |-> dKey, talk |-> dTalk, chain |-> dChain]}
            /\ UNCHANGED <<fresh, dTalk, dKey, dChain, toServer>>
       ELSE Refuse /\ UNCHANGED joined
    /\ UNCHANGED <<conns, dConn, linkUp, server>>

DroneOpen == {"IDLE", "HELLO_SENT", "KEY_EXCHANGE", "key_resp_sent",
              "KEY_CONFIRMED", "DRONE_AUTH_SENT", "SERVER_AUTH_VERIFIED",
              "confirm_sent"}
DroneWaiting == {"HELLO_SENT", "KEY_EXCHANGE", "key_resp_sent",
                 "DRONE_AUTH_SENT", "confirm_sent"}

\* The policy, the clock, OP-TEE or the transport makes it fail.  So do the ten
\* seconds that may pass up to KEY_RESP.
DroneFails ==
    /\ dState \in DroneOpen
    /\ dState' = "failed"
    /\ UNCHANGED <<conns, fresh, dConn, dTalk, dKey, dChain, network, serverSide>>

\* The read ends with the stream, or at its timeout although an answer may be
\* on its way.
DroneReadFails ==
    /\ dState \in DroneWaiting
    /\ dState' = "failed"
    /\ UNCHANGED <<conns, fresh, dConn, dTalk, dKey, dChain, network, serverSide>>

\* Faulty variant: a failed handshake does not end the process.
DroneExitsLater ==
    /\ dState \in {"connecting", "SECURE_SESSION"}
    /\ dState' = "exited"
    /\ IF linkUp[dConn] THEN Cut(dConn, toServer, toDrone) ELSE UNCHANGED network
    /\ UNCHANGED <<conns, fresh, dConn, dTalk, dKey, dChain, serverSide>>

\* main() returns, from connect(), a failed handshake or the session's end, and
\* the client's destructor closes the connection.
DroneExits ==
    /\ dState \in {"connecting", "refused", "failed", "SECURE_SESSION"}
    /\ dState' = "exited"
    /\ IF linkUp[dConn] THEN Cut(dConn, toServer, toDrone) ELSE UNCHANGED network
    /\ UNCHANGED <<conns, fresh, dConn, dTalk, dKey, dChain, serverSide>>

\* The drone loses power: nobody tells the server.
PowerFails ==
    /\ dState # "exited"
    /\ dState' = "exited"
    /\ UNCHANGED <<conns, fresh, dConn, dTalk, dKey, dChain, network, serverSide>>

-----------------------------------------------------------------------------
(* The server's session of connection c.                                   *)

droneSide == <<conns, drone, joined>>

\* A worker takes the connection: TLS, exporter, server keys, a KEM key pair.
SessionStarts(c) ==
    /\ sState[c] = "queued"
    /\ sState' = [sState EXCEPT ![c] = "IDLE"]
    /\ UNCHANGED <<fresh, sTalk, sKey, sChain, network, droneSide>>

Gets(c, state) ==
    /\ sState[c] = state /\ toServer[c] # <<>>
    /\ toServer' = Take(toServer, c)

Request(c) == Head(toServer[c])

Reply(c, m) == toDrone' = Put(toDrone, c, m)

\* A check of step_*() throws: the worker catches it and closes the connection.
Throw(c) ==
    /\ sState' = [sState EXCEPT ![c] = "refused"]
    /\ UNCHANGED <<sTalk, sKey, sChain, toDrone>>

\* Faulty variant: KEY_INIT is not sent along with HELLO_ACK.
AnswerHelloOnly(c) ==
    /\ Gets(c, "IDLE")
    /\ LET ack == HelloAck(Request(c).random)
       IN  sTalk' = [sTalk EXCEPT ![c] = <<Request(c), ack>>] /\ Reply(c, ack)
    /\ sState' = [sState EXCEPT ![c] = "KEY_INIT_SENT"]
    /\ UNCHANGED <<sKey, sChain, fresh, linkUp, droneSide>>

AnswerHello(c) ==
    /\ Gets(c, "IDLE")
    /\ IF Request(c).type = "HELLO"
       THEN LET ack == HelloAck(Request(c).random)
            IN  /\ sTalk' = [sTalk EXCEPT ![c] = <<Request(c), ack>>]
                /\ Reply(c, ack)
                /\ sState' = [sState EXCEPT ![c] = "hello_acked"]
                /\ UNCHANGED <<sKey, sChain>>
       ELSE Throw(c)
    /\ UNCHANGED <<fresh, linkUp, droneSide>>

SendKeyInit(c) ==
    /\ sState[c] = "hello_acked"
    /\ fresh' = fresh + 1
    /\ sTalk' = [sTalk EXCEPT ![c] = Append(@, KeyInit(fresh + 1))]
    /\ Reply(c, KeyInit(fresh + 1))
    /\ sState' = [sState EXCEPT ![c] = "KEY_INIT_SENT"]
    /\ UNCHANGED <<sKey, sChain, toServer, linkUp, droneSide>>

ExchangeKey(c) ==
    /\ Gets(c, "KEY_INIT_SENT")
    /\ LET resp == Request(c)
           sid == SidOf(sTalk[c])
       IN  IF /\ resp.type = "KEY_RESP" /\ resp.sid = sid
              /\ resp.response = SessionKey(c, sid, resp.nonce)
           THEN LET talk == Append(sTalk[c], resp)
                IN  /\ sKey' = [sKey EXCEPT ![c] = resp.response]
                    /\ sTalk' = [sTalk EXCEPT ![c] = talk]
                    /\ Reply(c, KeyConfirm(sid, talk))
                    /\ sState' = [sState EXCEPT ![c] = "KEY_EXCHANGE_DONE"]
                    /\ UNCHANGED sChain
           ELSE Throw(c)
    /\ UNCHANGED <<fresh, linkUp, droneSide>>

\* The lists of firmware, boot measures and revoked drones may refuse it too:
\* that is SessionFails.
VerifyDroneAuth(c) ==
    /\ Gets(c, "KEY_EXCHANGE_DONE")
    /\ IF Request(c) = DroneAuth(SidOf(sTalk[c]), sTalk[c], sChain[c])
       THEN LET chain == Chained(Request(c))
            IN  /\ sChain' = [sChain EXCEPT ![c] = chain]
                /\ Reply(c, ServerAuth(chain))
                /\ sState' = [sState EXCEPT ![c] = "server_auth_written"]
                /\ UNCHANGED <<sTalk, sKey>>
       ELSE Throw(c)
    /\ UNCHANGED <<fresh, linkUp, droneSide>>

\* Faulty variant: the server does not chain its own block.
OpenChannelsUnchained(c) ==
    /\ sState[c] = "server_auth_written"
    /\ sState' = [sState EXCEPT ![c] = "SERVER_AUTH_SENT"]
    /\ UNCHANGED <<fresh, sTalk, sKey, sChain, network, droneSide>>

\* The drone may have answered already.
OpenChannels(c) ==
    /\ sState[c] = "server_auth_written"
    /\ sChain' = [sChain EXCEPT ![c] = Chained(ServerAuth(@))]
    /\ sState' = [sState EXCEPT ![c] = "SERVER_AUTH_SENT"]
    /\ UNCHANGED <<fresh, sTalk, sKey, network, droneSide>>

VerifyConfirm(c) ==
    /\ Gets(c, "SERVER_AUTH_SENT")
    /\ IF Request(c) = Confirm(sChain[c])
       THEN /\ Reply(c, Ok)
            /\ sState' = [sState EXCEPT ![c] = "SECURE_SESSION"]
            /\ UNCHANGED <<sTalk, sKey, sChain>>
       ELSE Throw(c)
    /\ UNCHANGED <<fresh, linkUp, droneSide>>

ServerOpen == {"queued", "IDLE", "hello_acked", "KEY_INIT_SENT",
               "KEY_EXCHANGE_DONE", "server_auth_written", "SERVER_AUTH_SENT"}
ServerWaiting == {"IDLE", "KEY_INIT_SENT", "KEY_EXCHANGE_DONE",
                  "SERVER_AUTH_SENT"}

\* Its configuration, the transport or a list makes the session fail.
SessionFails(c) ==
    /\ sState[c] \in ServerOpen
    /\ sState' = [sState EXCEPT ![c] = "failed"]
    /\ UNCHANGED <<fresh, sTalk, sKey, sChain, network, droneSide>>

\* Faulty variant: the sockets of the server have no timeout.
SessionReadEnds(c) ==
    /\ sState[c] \in ServerWaiting /\ ~linkUp[c] /\ toServer[c] = <<>>
    /\ sState' = [sState EXCEPT ![c] = "failed"]
    /\ UNCHANGED <<fresh, sTalk, sKey, sChain, network, droneSide>>

\* The stream ends, or the read times out.
SessionReadFails(c) ==
    /\ sState[c] \in ServerWaiting
    /\ sState' = [sState EXCEPT ![c] = "failed"]
    /\ UNCHANGED <<fresh, sTalk, sKey, sChain, network, droneSide>>

\* secure_loop() returns: SecureTransport has the reasons.
SecureLoopEnds(c) ==
    /\ sState[c] = "SECURE_SESSION"
    /\ sState' = [sState EXCEPT ![c] = "over"]
    /\ UNCHANGED <<fresh, sTalk, sKey, sChain, network, droneSide>>

\* The worker closes the connection of a session that has returned or thrown.
SessionCloses(c) ==
    /\ sState[c] \in {"refused", "failed", "over"} /\ linkUp[c]
    /\ Cut(c, toDrone, toServer)
    /\ UNCHANGED <<fresh, server, droneSide>>

-----------------------------------------------------------------------------
ProcessEnds == dState # "SECURE_SESSION" /\ DroneExits

DroneStep == Connected \/ Retry \/ SendHello \/ HandleHelloAck \/ HandleKeyInit
             \/ HandleKeyConfirm \/ BuildDroneAuth \/ HandleServerAuth
             \/ BuildConfirm \/ FinalizeConfirm \/ DroneReadFails \/ ProcessEnds

SessionStep(c) == AnswerHello(c) \/ SendKeyInit(c) \/ ExchangeKey(c)
                  \/ VerifyDroneAuth(c) \/ OpenChannels(c) \/ VerifyConfirm(c)
                  \/ SessionReadFails(c) \/ SessionCloses(c)

Next == \/ Connect \/ DroneStep \/ DroneFails \/ DroneExits \/ PowerFails
        \/ \E c \in Connection :
               SessionStarts(c) \/ SessionStep(c) \/ SessionFails(c)
               \/ SecureLoopEnds(c) \/ LinkBreaks(c)

Spec == Init /\ [][Next]_vars

DroneGone(c) == dConn # c \/ dState = "exited"

\* Both programs run, and every read has a timeout: secure_loop() too returns
\* once nobody is there to send.  A worker need not be free for a connection,
\* and the drone need not be started again.
FairSpec == /\ Spec
            /\ WF_vars(DroneStep)
            /\ \A c \in Connection :
                   /\ WF_vars(SessionStep(c))
                   /\ WF_vars(DroneGone(c) /\ SecureLoopEnds(c))

-----------------------------------------------------------------------------
Message ==
    [type : {"HELLO", "HELLO_ACK"}, random : Nat] \cup [type : {"KEY_INIT"}, sid : Nat]
    \cup [type : {"KEY_RESP"}, sid : Nat, nonce : Nat, response : Seq(Nat)]

IsSession(talk, key) ==
    /\ talk \in Seq(Message) /\ Len(talk) <= 4
    /\ key \in Seq(Nat) /\ Len(key) \in {0, 3}

\* A transcript has the four messages that are hashed and no other, and a key
\* exists from KEY_RESP on.
TypeOK ==
    /\ conns \in 0 .. MaxConnections /\ fresh \in Nat
    /\ dState \in DroneOpen \cup {"exited", "connecting", "refused", "failed",
                                  "SECURE_SESSION"}
    /\ dConn \in 0 .. conns /\ IsSession(dTalk, dKey)
    /\ Len(dTalk) = 4 <=> dKey # NoKey
    /\ \A c \in Connection :
           /\ sState[c] \in ServerOpen \cup {"none", "refused", "failed", "over",
                                            "SECURE_SESSION"}
           /\ IsSession(sTalk[c], sKey[c])
           /\ Len(sTalk[c]) = 4 <=> sKey[c] # NoKey
    /\ linkUp \in [Connection -> BOOLEAN]

Entered(c) == sState[c] \in {"SECURE_SESSION", "over"}

SessionOf(c) == [key |-> sKey[c], talk |-> sTalk[c], chain |-> sChain[c]]

\* A drone in SECURE_SESSION has a server that went there before it, on the same
\* connection, with the same key, transcript and last_block_hash; a server that
\* is there has a drone that holds them too and lacks at most the final OK, or
\* whose process has failed or gone.
Agreement ==
    /\ dState = "SECURE_SESSION" =>
           /\ Entered(dConn)
           /\ SessionOf(dConn) = [key |-> dKey, talk |-> dTalk, chain |-> dChain]
    /\ \A c \in Connection :
           Entered(c) =>
               \/ DroneGone(c) \/ dState = "failed"
               \/ /\ dState \in {"confirm_sent", "SECURE_SESSION"}
                  /\ SessionOf(c) = [key |-> dKey, talk |-> dTalk, chain |-> dChain]

\* Between two honest ends no check of the protocol ever fails, whatever breaks:
\* both hash the same transcript, derive the same key and advance the chain at
\* the same points, and no message of another connection or step is met.
HonestChecksPass ==
    /\ dState # "refused"
    /\ \A c \in Connection : sState[c] # "refused"

\* The handshake is in lockstep: while the connection stands, the two ends never
\* wait for each other, so no run needs a timeout to go on.
NeverBothWaiting ==
    ( /\ dState \in DroneWaiting
      /\ sState[dConn] \in ServerWaiting
      /\ linkUp[dConn] )
        => toServer[dConn] # <<>> \/ toDrone[dConn] # <<>>

\* Every behaviour is one of the promised agreement: a session is entered by the
\* server first, with a key of its own, and joined by the drone once.
Agreed == INSTANCE SessionAgreement WITH
    entered <- {SessionOf(c) : c \in {d \in Connection : Entered(d)}},
    joined  <- joined

ImplementsAgreement == Agreed!Spec

\* Every process of the drone gets its session or ends, whatever the server, the
\* network or another session does.
EveryAttemptEnds == dState = "connecting" ~> dState \in {"SECURE_SESSION", "exited"}

\* A drone that loses its connection, its power or its process leaves no session
\* behind: once a worker has begun it, it ends and its connection is closed.
NoSessionLeftBehind ==
    \A c \in Connection :
        sState[c] \notin {"none", "queued"} /\ DroneGone(c)
            ~> sState[c] \in {"refused", "failed", "over"} /\ ~linkUp[c]
=============================================================================
