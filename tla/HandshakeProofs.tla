--------------------------- MODULE HandshakeProofs ---------------------------
(***************************************************************************)
(* Proofs about the handshake: its type correctness, that the two ends     *)
(* agree on the session they enter, that none of their checks fails and    *)
(* that neither waits for the other in vain, and that it implements        *)
(* SessionAgreement.                                                       *)
(*                                                                         *)
(* A drone may be gone from a connection whose session still reads what it *)
(* sent, and a session may have failed while its drone still reads what it *)
(* was sent.  So the inductive invariant says of each end, from its own    *)
(* state alone, what its pipe may carry (ServerExpects, DroneExpects), and *)
(* only of two ends that are both alive how their states go together       *)
(* (InStep).                                                               *)
(***************************************************************************)
EXTENDS Handshake, SequenceTheorems, TLAPS

-----------------------------------------------------------------------------
(* What an end has heard and said when it has done a part of the exchange. *)

Greeted(r)            == <<Hello(r), HelloAck(r)>>
Offered(r, s)         == <<Hello(r), HelloAck(r), KeyInit(s)>>
Exchanged(c, r, s, n) == <<Hello(r), HelloAck(r), KeyInit(s),
                           KeyResp(s, n, SessionKey(c, s, n))>>

FirstBlock(talk)  == Chained(DroneAuth(SidOf(talk), talk, <<>>))
BothBlocks(talk)  == Chained(ServerAuth(FirstBlock(talk)))

InSession == {"SECURE_SESSION", "over"}

\* Nothing was heard and nothing derived.
Blank(talk, key, chain) == talk = <<>> /\ key = NoKey /\ chain = <<>>

\* What the session of connection c holds in state st, and what may come in.
ServerExpects(c, st, talk, key, chain, in) ==
    \/ st \in {"none", "queued"} /\ Blank(talk, key, chain) /\ in = <<>>
    \/ /\ st = "IDLE" /\ Blank(talk, key, chain)
       /\ in = <<>> \/ \E r \in Nat : in = <<Hello(r)>>
    \/ /\ st = "hello_acked" /\ key = NoKey /\ chain = <<>> /\ in = <<>>
       /\ \E r \in Nat : talk = Greeted(r)
    \/ /\ st = "KEY_INIT_SENT" /\ key = NoKey /\ chain = <<>>
       /\ \E r, s \in Nat :
              /\ talk = Offered(r, s)
              /\ \/ in = <<>>
                 \/ \E n \in Nat : in = <<KeyResp(s, n, SessionKey(c, s, n))>>
    \/ /\ \E r, s, n \in Nat :
              talk = Exchanged(c, r, s, n) /\ key = SessionKey(c, s, n)
       /\ \/ /\ st = "KEY_EXCHANGE_DONE" /\ chain = <<>>
             /\ in \in {<<>>, <<DroneAuth(SidOf(talk), talk, <<>>)>>}
          \/ /\ st = "server_auth_written" /\ chain = FirstBlock(talk)
             /\ in \in {<<>>, <<Confirm(BothBlocks(talk))>>}
          \/ /\ st = "SERVER_AUTH_SENT" /\ chain = BothBlocks(talk)
             /\ in \in {<<>>, <<Confirm(BothBlocks(talk))>>}
          \/ st \in InSession /\ chain = BothBlocks(talk) /\ in = <<>>
    \/ st = "failed"

\* The same of the drone on connection c, whose session is in state st.
DroneExpects(c, ds, talk, key, chain, in, st) ==
    \/ ds \in {"connecting", "IDLE"} /\ Blank(talk, key, chain) /\ in = <<>>
    \/ /\ ds = "HELLO_SENT" /\ key = NoKey /\ chain = <<>>
       /\ \E r \in Nat :
              /\ talk = <<Hello(r)>>
              /\ \/ in \in {<<>>, <<HelloAck(r)>>}
                 \/ \E s \in Nat : in = <<HelloAck(r), KeyInit(s)>>
    \/ /\ ds = "KEY_EXCHANGE" /\ key = NoKey /\ chain = <<>>
       /\ \E r \in Nat : talk = Greeted(r)
       /\ in = <<>> \/ \E s \in Nat : in = <<KeyInit(s)>>
    \/ /\ \E r, s, n \in Nat :
              talk = Exchanged(c, r, s, n) /\ key = SessionKey(c, s, n)
       /\ \/ /\ ds = "key_resp_sent" /\ chain = <<>>
             /\ in \in {<<>>, <<KeyConfirm(SidOf(talk), talk)>>}
          \/ ds = "KEY_CONFIRMED" /\ chain = <<>> /\ in = <<>>
          \/ /\ ds = "DRONE_AUTH_SENT" /\ chain = FirstBlock(talk)
             /\ in \in {<<>>, <<ServerAuth(FirstBlock(talk))>>}
          \/ ds = "SERVER_AUTH_VERIFIED" /\ chain = BothBlocks(talk) /\ in = <<>>
          \/ /\ ds = "confirm_sent" /\ chain = BothBlocks(talk)
             /\ in = <<>> \/ (in = <<Ok>> /\ st \in InSession)
          \/ /\ ds = "SECURE_SESSION" /\ chain = BothBlocks(talk)
             /\ in = <<>> /\ st \in InSession
    \/ ds \in {"exited", "failed"}

\* m is on its way, unless it was lost with the connection.
Carries(pipe, m, up) == pipe = <<m>> \/ (pipe = <<>> /\ ~up)

\* Where the drone may be while its session is in state st, and what the two
\* pipes then carry.
InStep(ds, dtalk, dkey, st, stalk, skey, ts, td, up) ==
    \/ st = "queued" /\ ds = "connecting" /\ ts = <<>> /\ td = <<>>
    \/ /\ st = "IDLE" /\ td = <<>>
       /\ \/ ds \in {"connecting", "IDLE"} /\ ts = <<>>
          \/ ds = "HELLO_SENT" /\ Carries(ts, dtalk[1], up)
    \/ /\ st = "hello_acked" /\ ts = <<>>
       /\ \/ /\ ds = "HELLO_SENT" /\ dtalk = <<stalk[1]>>
             /\ Carries(td, stalk[2], up)
          \/ ds = "KEY_EXCHANGE" /\ dtalk = stalk /\ td = <<>>
    \/ /\ st = "KEY_INIT_SENT"
       /\ \/ /\ ds = "HELLO_SENT" /\ dtalk = <<stalk[1]>> /\ ts = <<>>
             /\ \/ td = <<stalk[2], stalk[3]>>
                \/ td \in {<<>>, <<stalk[2]>>} /\ ~up
          \/ /\ ds = "KEY_EXCHANGE" /\ dtalk = <<stalk[1], stalk[2]>> /\ ts = <<>>
             /\ Carries(td, stalk[3], up)
          \/ /\ ds = "key_resp_sent" /\ td = <<>>
             /\ stalk = <<dtalk[1], dtalk[2], dtalk[3]>>
             /\ Carries(ts, dtalk[4], up)
    \/ /\ dtalk = stalk /\ dkey = skey
       /\ \/ /\ st = "KEY_EXCHANGE_DONE"
             /\ \/ ds = "key_resp_sent" /\ ts = <<>> /\ (up => td # <<>>)
                \/ ds = "KEY_CONFIRMED" /\ ts = <<>> /\ td = <<>>
                \/ ds = "DRONE_AUTH_SENT" /\ td = <<>> /\ (up => ts # <<>>)
          \/ /\ st \in {"server_auth_written", "SERVER_AUTH_SENT"}
             /\ \/ ds = "DRONE_AUTH_SENT" /\ ts = <<>> /\ (up => td # <<>>)
                \/ ds = "SERVER_AUTH_VERIFIED" /\ ts = <<>> /\ td = <<>>
                \/ ds = "confirm_sent" /\ td = <<>> /\ (up => ts # <<>>)
          \/ /\ st \in InSession /\ ts = <<>>
             /\ \/ ds = "confirm_sent" /\ (up => td # <<>>)
                \/ ds = "SECURE_SESSION" /\ td = <<>>
    \/ st = "failed"
    \/ ds \in {"exited", "failed"}

\* A drone on connection c and its session go together.
Together(c, ds, dtalk, dkey, dchain, td, st, stalk, skey, ts, up) ==
    /\ DroneExpects(c, ds, dtalk, dkey, dchain, td, st)
    /\ InStep(ds, dtalk, dkey, st, stalk, skey, ts, td, up)

\* The whole of a connection that has a drone.
Joint(c, ds, dtalk, dkey, dchain, td, st, stalk, skey, schain, ts, up) ==
    /\ ServerExpects(c, st, stalk, skey, schain, ts)
    /\ Together(c, ds, dtalk, dkey, dchain, td, st, stalk, skey, ts, up)

SessionTyped(talk, key) == IsSession(talk, key) /\ (Len(talk) = 4 <=> key # NoKey)

Functions == /\ DOMAIN sState = Connection /\ DOMAIN sTalk = Connection
             /\ DOMAIN sKey = Connection /\ DOMAIN sChain = Connection
             /\ DOMAIN toServer = Connection /\ DOMAIN toDrone = Connection

OnConnection == dState # "exited" => dConn \in 1 .. conns

\* A connection that was not made yet has nothing.
Unmade == \A c \in Connection :
    /\ c > conns <=> sState[c] = "none"
    /\ c > conns => toDrone[c] = <<>> /\ ~linkUp[c]

SessionsInv == \A c \in Connection :
    ServerExpects(c, sState[c], sTalk[c], sKey[c], sChain[c], toServer[c])

DroneInv == dState # "exited" =>
    Together(dConn, dState, dTalk, dKey, dChain, toDrone[dConn],
             sState[dConn], sTalk[dConn], sKey[dConn], toServer[dConn], linkUp[dConn])

\* The drone joins each session once: it has left the connections of those in
\* joined behind, unless it is in that session now.
JoinedOnce == \A j \in joined : \E c \in 1 .. conns, s, n \in Nat :
    /\ j.key = SessionKey(c, s, n)
    /\ c = dConn => dState \in {"exited", "SECURE_SESSION"}

IInv == /\ TypeOK /\ Functions /\ OnConnection /\ Unmade
        /\ SessionsInv /\ DroneInv /\ JoinedOnce

\* What the pipe holds when m was written to it.
Sent(pipe, m, up) == IF up THEN Append(pipe, m) ELSE pipe

-----------------------------------------------------------------------------
(* The pipes and the transcripts are sequences of a few messages.          *)

\* A sequence of one, two, three or four messages is the tuple of them.
LEMMA Tuples ==
    ASSUME NEW S, NEW s \in Seq(S)
    PROVE  /\ Len(s) = 1 => s = <<s[1]>>
           /\ Len(s) = 2 => s = <<s[1], s[2]>>
           /\ Len(s) = 3 => s = <<s[1], s[2], s[3]>>
           /\ Len(s) = 4 => s = <<s[1], s[2], s[3], s[4]>>
  <1>1. Len(s) = 1 => s = <<s[1]>>
    OBVIOUS
  <1>2. Len(s) = 2 => s = <<s[1], s[2]>>
    OBVIOUS
  <1>3. Len(s) = 3 => s = <<s[1], s[2], s[3]>>
    OBVIOUS
  <1>4. Len(s) = 4 => s = <<s[1], s[2], s[3], s[4]>>
    OBVIOUS
  <1>5. QED
    BY <1>1, <1>2, <1>3, <1>4

\* A pipe with one message in it.
LEMMA OneMessage ==
    ASSUME NEW m
    PROVE  /\ <<m>> # <<>> /\ Len(<<m>>) = 1 /\ <<m>>[1] = m
           /\ Head(<<m>>) = m /\ Tail(<<m>>) = <<>>
           /\ Append(<<>>, m) = <<m>>
  OBVIOUS

\* A pipe with two messages in it.
LEMMA TwoMessages ==
    ASSUME NEW a, NEW b
    PROVE  /\ <<a, b>> # <<>> /\ Len(<<a, b>>) = 2
           /\ <<a, b>>[1] = a /\ <<a, b>>[2] = b
           /\ Head(<<a, b>>) = a /\ Tail(<<a, b>>) = <<b>>
           /\ Append(<<a>>, b) = <<a, b>>
  <1>1. <<a, b>> # <<>> /\ Len(<<a, b>>) = 2
    OBVIOUS
  <1>2. <<a, b>>[1] = a /\ <<a, b>>[2] = b
    OBVIOUS
  <1>3. Head(<<a, b>>) = a
    OBVIOUS
  <1>4. Tail(<<a, b>>) = <<b>>
    OBVIOUS
  <1>5. Append(<<a>>, b) = <<a, b>>
    <2> DEFINE S == {a, b}
               t == Append(<<a>>, b)
    <2>1. <<a>> \in Seq(S) /\ b \in S
      OBVIOUS
    <2>2. t \in Seq(S) /\ Len(t) = 2 /\ t[1] = a /\ t[2] = b
      BY <2>1, AppendProperties
    <2>3. QED
      BY <2>2, Tuples
  <1>6. QED
    BY <1>1, <1>2, <1>3, <1>4, <1>5

\* A transcript grows from two messages to four.
LEMMA Transcripts ==
    ASSUME NEW a, NEW b, NEW c, NEW d
    PROVE  /\ <<a, b>> \o <<c, d>> = <<a, b, c, d>>
           /\ Append(<<a, b>>, c) = <<a, b, c>>
           /\ Append(<<a, b, c>>, d) = <<a, b, c, d>>
  <1> DEFINE S == {a, b, c, d}
  <1>1. /\ <<a, b>> \in Seq(S) /\ <<c, d>> \in Seq(S) /\ <<a, b, c>> \in Seq(S)
        /\ c \in S /\ d \in S
    OBVIOUS
  <1> HIDE DEF S
  <1>2. <<a, b>> \o <<c, d>> = <<a, b, c, d>>
    <2> DEFINE t == <<a, b>> \o <<c, d>>
    <2>1. t \in Seq(S)
      BY <1>1, ConcatProperties
    <2>2. Len(t) = 4 /\ t[1] = a /\ t[2] = b /\ t[3] = c /\ t[4] = d
      BY <1>1
    <2>3. QED
      BY <2>1, <2>2, Tuples
  <1>3. Append(<<a, b>>, c) = <<a, b, c>>
    <2> DEFINE t == Append(<<a, b>>, c)
    <2>1. t \in Seq(S)
      BY <1>1, AppendProperties
    <2>2. Len(t) = 3 /\ t[1] = a /\ t[2] = b /\ t[3] = c
      BY <1>1
    <2>3. QED
      BY <2>1, <2>2, Tuples
  <1>4. Append(<<a, b, c>>, d) = <<a, b, c, d>>
    <2> DEFINE t == Append(<<a, b, c>>, d)
    <2>1. t \in Seq(S)
      BY <1>1, AppendProperties
    <2>2. Len(t) = 4 /\ t[1] = a /\ t[2] = b /\ t[3] = c /\ t[4] = d
      BY <1>1
    <2>3. QED
      BY <2>1, <2>2, Tuples
  <1>5. QED
    BY <1>2, <1>3, <1>4

\* What is left of a pipe when its connection breaks.
LEMMA Prefixes ==
    ASSUME NEW a, NEW b, NEW n
    PROVE  /\ n \in 0 .. Len(<<>>) => SubSeq(<<>>, 1, n) = <<>>
           /\ n \in 0 .. Len(<<a>>) => SubSeq(<<a>>, 1, n) \in {<<>>, <<a>>}
           /\ n \in 0 .. Len(<<a, b>>)
                => SubSeq(<<a, b>>, 1, n) \in {<<>>, <<a>>, <<a, b>>}
  <1> DEFINE S == {a, b}
  <1>1. n \in 0 .. Len(<<>>) => n = 0
    OBVIOUS
  <1>2. n \in 0 .. Len(<<a>>) => n \in {0, 1}
    OBVIOUS
  <1>3. n \in 0 .. Len(<<a, b>>) => n \in {0, 1, 2}
    OBVIOUS
  <1>4. /\ SubSeq(<<>>, 1, 0) = <<>> /\ SubSeq(<<a>>, 1, 0) = <<>>
        /\ SubSeq(<<a, b>>, 1, 0) = <<>>
    OBVIOUS
  <1>5. SubSeq(<<a>>, 1, 1) = <<a>>
    <2> DEFINE t == SubSeq(<<a>>, 1, 1)
    <2>1. t \in Seq(S) /\ Len(t) = 1 /\ t[1] = a
      OBVIOUS
    <2>2. QED
      BY <2>1, Tuples
  <1>6. SubSeq(<<a, b>>, 1, 1) = <<a>>
    <2> DEFINE t == SubSeq(<<a, b>>, 1, 1)
    <2>1. t \in Seq(S) /\ Len(t) = 1 /\ t[1] = a
      OBVIOUS
    <2>2. QED
      BY <2>1, Tuples
  <1>7. SubSeq(<<a, b>>, 1, 2) = <<a, b>>
    <2> DEFINE t == SubSeq(<<a, b>>, 1, 2)
    <2>1. t \in Seq(S) /\ Len(t) = 2 /\ t[1] = a /\ t[2] = b
      OBVIOUS
    <2>2. QED
      BY <2>1, Tuples
  <1>8. QED
    BY <1>1, <1>2, <1>3, <1>4, <1>5, <1>6, <1>7

-----------------------------------------------------------------------------
(* The transcripts, message by message.                                    *)

\* The transcripts and keys that either end ever holds are of their type.
LEMMA Typed ==
    ASSUME NEW c \in Nat, NEW r \in Nat, NEW s \in Nat, NEW n \in Nat
    PROVE  /\ SessionTyped(<<>>, NoKey)
           /\ SessionTyped(<<Hello(r)>>, NoKey)
           /\ SessionTyped(Greeted(r), NoKey)
           /\ SessionTyped(Offered(r, s), NoKey)
           /\ SessionTyped(Exchanged(c, r, s, n), SessionKey(c, s, n))
  <1>1. /\ Hello(r) \in Message /\ HelloAck(r) \in Message /\ KeyInit(s) \in Message
    BY DEF Message, Hello, HelloAck, KeyInit
  <1>2. /\ SessionKey(c, s, n) \in Seq(Nat) /\ Len(SessionKey(c, s, n)) = 3
        /\ SessionKey(c, s, n) # <<>>
    BY DEF SessionKey
  <1>3. KeyResp(s, n, SessionKey(c, s, n)) \in Message
    BY <1>2 DEF Message, KeyResp
  <1> HIDE DEF Message, Hello, HelloAck, KeyInit, KeyResp, SessionKey
  <1>4. <<>> \in Seq(Message) /\ <<>> \in Seq(Nat) /\ Len(<<>>) = 0
    OBVIOUS
  <1>5. <<Hello(r)>> \in Seq(Message) /\ Len(<<Hello(r)>>) = 1
    BY <1>1
  <1>6. Greeted(r) \in Seq(Message) /\ Len(Greeted(r)) = 2
    BY <1>1 DEF Greeted
  <1>7. Offered(r, s) \in Seq(Message) /\ Len(Offered(r, s)) = 3
    BY <1>1 DEF Offered
  <1>8. Exchanged(c, r, s, n) \in Seq(Message) /\ Len(Exchanged(c, r, s, n)) = 4
    BY <1>1, <1>3 DEF Exchanged
  <1>9. QED
    BY <1>2, <1>4, <1>5, <1>6, <1>7, <1>8 DEF SessionTyped, IsSession, NoKey

\* What is in a transcript after HELLO_ACK ...
LEMMA GreetedIs ==
    ASSUME NEW r
    PROVE  Greeted(r)[1] = Hello(r) /\ Greeted(r)[2] = HelloAck(r)
  BY DEF Greeted

\* ... it becomes the next one with KEY_INIT ...
LEMMA OfferedBy ==
    ASSUME NEW r, NEW s
    PROVE  Append(Greeted(r), KeyInit(s)) = Offered(r, s)
  BY Transcripts DEF Greeted, Offered

\* ... of which these are the messages ...
LEMMA OfferedIs ==
    ASSUME NEW r, NEW s
    PROVE  /\ Offered(r, s)[1] = Hello(r) /\ Offered(r, s)[2] = HelloAck(r)
           /\ Offered(r, s)[3] = KeyInit(s) /\ SidOf(Offered(r, s)) = s
  <1>1. /\ Offered(r, s)[1] = Hello(r) /\ Offered(r, s)[2] = HelloAck(r)
        /\ Offered(r, s)[3] = KeyInit(s)
    BY DEF Offered
  <1>2. QED
    BY <1>1 DEF SidOf, KeyInit

\* ... and these are those of the whole transcript ...
LEMMA ExchangedIs ==
    ASSUME NEW c, NEW r, NEW s, NEW n
    PROVE  /\ Exchanged(c, r, s, n)[1] = Hello(r)
           /\ Exchanged(c, r, s, n)[2] = HelloAck(r)
           /\ Exchanged(c, r, s, n)[3] = KeyInit(s)
           /\ Exchanged(c, r, s, n)[4] = KeyResp(s, n, SessionKey(c, s, n))
           /\ SidOf(Exchanged(c, r, s, n)) = s
  <1>1. /\ Exchanged(c, r, s, n)[1] = Hello(r)
        /\ Exchanged(c, r, s, n)[2] = HelloAck(r)
        /\ Exchanged(c, r, s, n)[3] = KeyInit(s)
        /\ Exchanged(c, r, s, n)[4] = KeyResp(s, n, SessionKey(c, s, n))
    BY DEF Exchanged
  <1>2. SidOf(Exchanged(c, r, s, n)) = s
    BY <1>1 DEF SidOf, KeyInit
  <1>3. QED
    BY <1>1, <1>2

\* ... which KEY_RESP completes, on the server and on the drone.
LEMMA ExchangedBy ==
    ASSUME NEW c, NEW r, NEW s, NEW n, NEW resp,
           resp = KeyResp(s, n, SessionKey(c, s, n))
    PROVE  /\ Append(Offered(r, s), resp) = Exchanged(c, r, s, n)
           /\ Greeted(r) \o <<KeyInit(s), resp>> = Exchanged(c, r, s, n)
  BY Transcripts DEF Greeted, Offered, Exchanged

-----------------------------------------------------------------------------
(* What a step of a session finds, and leaves its drone with.              *)

\* What an IDLE session takes in is a HELLO, and HELLO_ACK leaves the two ends in
\* step.
LEMMA HelloAnswered ==
    ASSUME NEW c, NEW talk, NEW key, NEW chain, NEW in,
           ServerExpects(c, "IDLE", talk, key, chain, in), in # <<>>,
           NEW ack, ack = HelloAck(Head(in).random)
    PROVE  /\ Head(in).type = "HELLO"
           /\ SessionTyped(<<Head(in), ack>>, key)
           /\ ServerExpects(c, "hello_acked", <<Head(in), ack>>, key, chain, Tail(in))
           /\ \A ds, dtalk, dkey, dchain, td, up :
                  Together(c, ds, dtalk, dkey, dchain, td, "IDLE", talk, key, in, up)
                    => Together(c, ds, dtalk, dkey, dchain, Sent(td, ack, up),
                                "hello_acked", <<Head(in), ack>>, key, Tail(in), up)
  <1>1. PICK r \in Nat : in = <<Hello(r)>> /\ Blank(talk, key, chain)
    BY DEF ServerExpects, InSession
  <1>2. Head(in) = Hello(r) /\ Tail(in) = <<>> /\ ack = HelloAck(r)
    BY <1>1, OneMessage DEF Hello
  <1>3. <<Head(in), ack>> = Greeted(r)
    BY <1>2 DEF Greeted
  <1>4. Head(in).type = "HELLO"
    BY <1>2 DEF Hello
  <1>5. SessionTyped(Greeted(r), key)
    BY <1>1, Typed DEF Blank
  <1>6. ServerExpects(c, "hello_acked", Greeted(r), key, chain, <<>>)
    BY <1>1 DEF ServerExpects, Blank
  <1>7. ASSUME NEW ds, NEW dtalk, NEW dkey, NEW dchain, NEW td, NEW up,
               Together(c, ds, dtalk, dkey, dchain, td, "IDLE", talk, key, in, up)
        PROVE  Together(c, ds, dtalk, dkey, dchain, Sent(td, ack, up),
                        "hello_acked", Greeted(r), key, <<>>, up)
    <2>1. CASE ds \in {"exited", "failed"}
      BY <2>1 DEF Together, DroneExpects, InStep
    <2>2. CASE ds \notin {"exited", "failed"}
      <3>1. ds = "HELLO_SENT" /\ td = <<>> /\ in = <<dtalk[1]>>
        BY <1>1, <1>7, <2>2 DEF Together, InStep, Carries, InSession
      <3>2. dkey = NoKey /\ dchain = <<>> /\ \E q \in Nat : dtalk = <<Hello(q)>>
        BY <1>7, <3>1 DEF Together, DroneExpects, InSession
      <3>3. dtalk = <<Hello(r)>>
        BY <1>1, <3>1, <3>2, OneMessage
      <3>4. /\ Sent(td, ack, up) \in {<<>>, <<HelloAck(r)>>}
            /\ Carries(Sent(td, ack, up), HelloAck(r), up)
        BY <1>2, <3>1, OneMessage DEF Sent, Carries
      <3>5. DroneExpects(c, ds, dtalk, dkey, dchain, Sent(td, ack, up), "hello_acked")
        BY <3>1, <3>2, <3>3, <3>4 DEF DroneExpects
      <3>6. Greeted(r)[1] = Hello(r) /\ Greeted(r)[2] = HelloAck(r)
        BY DEF Greeted
      <3>7. InStep(ds, dtalk, dkey, "hello_acked", Greeted(r), key, <<>>, Sent(td, ack, up), up)
        BY <3>1, <3>3, <3>4, <3>6 DEF InStep
      <3>8. QED
        BY <3>5, <3>7 DEF Together
    <2>3. QED
      BY <2>1, <2>2
  <1>8. QED
    BY <1>2, <1>3, <1>4, <1>5, <1>6, <1>7

\* KEY_INIT follows HELLO_ACK, whether the drone has taken that one in or not.
LEMMA KeyOffered ==
    ASSUME NEW c \in Nat, NEW talk, NEW key, NEW chain, NEW in,
           ServerExpects(c, "hello_acked", talk, key, chain, in),
           NEW s \in Nat, NEW new, new = Append(talk, KeyInit(s))
    PROVE  /\ SessionTyped(new, key)
           /\ ServerExpects(c, "KEY_INIT_SENT", new, key, chain, in)
           /\ \A ds, dtalk, dkey, dchain, td, up :
                  Together(c, ds, dtalk, dkey, dchain, td, "hello_acked", talk, key, in, up)
                    => Together(c, ds, dtalk, dkey, dchain, Sent(td, KeyInit(s), up),
                                "KEY_INIT_SENT", new, key, in, up)
  <1>1. PICK r \in Nat : talk = Greeted(r)
    BY DEF ServerExpects, InSession
  <1>2. key = NoKey /\ chain = <<>> /\ in = <<>>
    BY DEF ServerExpects, InSession
  <1>3. new = Offered(r, s)
    BY <1>1, OfferedBy
  <1>4. SessionTyped(new, key)
    BY <1>2, <1>3, Typed
  <1>5. ServerExpects(c, "KEY_INIT_SENT", new, key, chain, in)
    BY <1>2, <1>3 DEF ServerExpects
  <1>6. ASSUME NEW ds, NEW dtalk, NEW dkey, NEW dchain, NEW td, NEW up,
               Together(c, ds, dtalk, dkey, dchain, td, "hello_acked", talk, key, in, up)
        PROVE  Together(c, ds, dtalk, dkey, dchain, Sent(td, KeyInit(s), up),
                        "KEY_INIT_SENT", new, key, in, up)
    <2>1. CASE ds \in {"exited", "failed"}
      BY <2>1 DEF Together, DroneExpects, InStep
    <2>2. CASE ds = "HELLO_SENT"
      <3>1. dtalk = <<Hello(r)>> /\ Carries(td, HelloAck(r), up)
        BY <1>1, <1>6, <2>2, GreetedIs DEF Together, InStep, InSession
      <3>2. dkey = NoKey /\ dchain = <<>>
        BY <1>6, <2>2 DEF Together, DroneExpects, InSession
      <3>3. \/ Sent(td, KeyInit(s), up) = <<HelloAck(r), KeyInit(s)>>
            \/ Sent(td, KeyInit(s), up) \in {<<>>, <<HelloAck(r)>>} /\ ~up
        BY <3>1, TwoMessages DEF Sent, Carries
      <3>4. DroneExpects(c, ds, dtalk, dkey, dchain, Sent(td, KeyInit(s), up),
                         "KEY_INIT_SENT")
        BY <2>2, <3>1, <3>2, <3>3 DEF DroneExpects
      <3>5. InStep(ds, dtalk, dkey, "KEY_INIT_SENT", new, key, in,
                   Sent(td, KeyInit(s), up), up)
        <4>1. /\ new[1] = Hello(r) /\ new[2] = HelloAck(r) /\ new[3] = KeyInit(s)
          BY <1>3, OfferedIs
        <4>2. QED
          BY <1>2, <2>2, <3>1, <3>3, <4>1 DEF InStep
      <3>6. QED
        BY <3>4, <3>5 DEF Together
    <2>3. CASE ds = "KEY_EXCHANGE"
      <3>1. dtalk = Greeted(r) /\ td = <<>>
        BY <1>1, <1>6, <2>3, GreetedIs DEF Together, InStep, InSession
      <3>2. dkey = NoKey /\ dchain = <<>>
        BY <1>6, <2>3 DEF Together, DroneExpects, InSession
      <3>3. Carries(Sent(td, KeyInit(s), up), KeyInit(s), up)
        BY <3>1, OneMessage DEF Sent, Carries
      <3>4. DroneExpects(c, ds, dtalk, dkey, dchain, Sent(td, KeyInit(s), up),
                         "KEY_INIT_SENT")
        BY <2>3, <3>1, <3>2, <3>3 DEF DroneExpects, Carries
      <3>5. InStep(ds, dtalk, dkey, "KEY_INIT_SENT", new, key, in,
                   Sent(td, KeyInit(s), up), up)
        <4>1. dtalk = <<new[1], new[2]>> /\ new[3] = KeyInit(s)
          BY <1>3, <3>1, OfferedIs DEF Greeted
        <4>2. QED
          BY <1>2, <2>3, <3>3, <4>1 DEF InStep
      <3>6. QED
        BY <3>4, <3>5 DEF Together
    <2>4. QED
      BY <1>6, <2>1, <2>2, <2>3 DEF Together, InStep, InSession
  <1>7. QED
    BY <1>4, <1>5, <1>6

\* What comes in after KEY_INIT is a KEY_RESP that passes the checks, and the
\* session then has the drone's transcript and key.
LEMMA KeyExchanged ==
    ASSUME NEW c \in Nat, NEW talk, NEW key, NEW chain, NEW in,
           ServerExpects(c, "KEY_INIT_SENT", talk, key, chain, in), in # <<>>
    PROVE  \E resp, new, k :
              /\ resp = Head(in) /\ new = Append(talk, resp) /\ k = resp.response
              /\ resp.type = "KEY_RESP" /\ resp.sid = SidOf(talk)
              /\ k = SessionKey(c, SidOf(talk), resp.nonce)
              /\ SessionTyped(new, k)
              /\ ServerExpects(c, "KEY_EXCHANGE_DONE", new, k, chain, Tail(in))
              /\ \A ds, dtalk, dkey, dchain, td, up :
                     Together(c, ds, dtalk, dkey, dchain, td, "KEY_INIT_SENT", talk, key, in, up)
                       => Together(c, ds, dtalk, dkey, dchain,
                                   Sent(td, KeyConfirm(SidOf(talk), new), up),
                                   "KEY_EXCHANGE_DONE", new, k, Tail(in), up)
  <1> PICK resp, new, k : resp = Head(in) /\ new = Append(talk, resp) /\ k = resp.response
    OBVIOUS
  <1> SUFFICES /\ resp.type = "KEY_RESP" /\ resp.sid = SidOf(talk)
               /\ k = SessionKey(c, SidOf(talk), resp.nonce)
               /\ SessionTyped(new, k)
               /\ ServerExpects(c, "KEY_EXCHANGE_DONE", new, k, chain, Tail(in))
               /\ \A ds, dtalk, dkey, dchain, td, up :
                      Together(c, ds, dtalk, dkey, dchain, td, "KEY_INIT_SENT", talk, key, in, up)
                        => Together(c, ds, dtalk, dkey, dchain,
                                    Sent(td, KeyConfirm(SidOf(talk), new), up),
                                    "KEY_EXCHANGE_DONE", new, k, Tail(in), up)
    OBVIOUS
  <1>1. PICK r \in Nat, s \in Nat, n \in Nat :
            talk = Offered(r, s) /\ in = <<KeyResp(s, n, SessionKey(c, s, n))>>
    BY DEF ServerExpects, InSession
  <1>2. key = NoKey /\ chain = <<>>
    BY DEF ServerExpects, InSession
  <1>3. resp = KeyResp(s, n, SessionKey(c, s, n)) /\ Tail(in) = <<>>
    BY <1>1, OneMessage
  <1>4. SidOf(talk) = s /\ new = Exchanged(c, r, s, n)
    BY <1>1, <1>3, OfferedIs, ExchangedBy
  <1>5. /\ resp.type = "KEY_RESP" /\ resp.sid = s /\ resp.nonce = n
        /\ resp.response = SessionKey(c, s, n)
    BY <1>3 DEF KeyResp
  <1>6. SessionTyped(new, SessionKey(c, s, n))
    BY <1>4, Typed
  <1>7. ServerExpects(c, "KEY_EXCHANGE_DONE", new, SessionKey(c, s, n), chain, <<>>)
    BY <1>2, <1>4 DEF ServerExpects
  <1>8. ASSUME NEW ds, NEW dtalk, NEW dkey, NEW dchain, NEW td, NEW up,
               Together(c, ds, dtalk, dkey, dchain, td, "KEY_INIT_SENT", talk, key, in, up)
        PROVE  Together(c, ds, dtalk, dkey, dchain, Sent(td, KeyConfirm(s, new), up),
                        "KEY_EXCHANGE_DONE", new, SessionKey(c, s, n), <<>>, up)
    <2>1. CASE ds \in {"exited", "failed"}
      BY <2>1 DEF Together, DroneExpects, InStep
    <2>2. CASE ds \notin {"exited", "failed"}
      <3>1. /\ ds = "key_resp_sent" /\ td = <<>> /\ talk = <<dtalk[1], dtalk[2], dtalk[3]>>
            /\ in = <<dtalk[4]>>
        BY <1>1, <1>8, <2>2 DEF Together, InStep, Carries, InSession
      <3>2. PICK r1 \in Nat, s1 \in Nat, n1 \in Nat :
                dtalk = Exchanged(c, r1, s1, n1) /\ dkey = SessionKey(c, s1, n1)
        BY <1>8, <3>1 DEF Together, DroneExpects, InSession
      <3>3. dchain = <<>>
        BY <1>8, <3>1 DEF Together, DroneExpects, InSession
      <3>4. Hello(r1) = Hello(r) /\ KeyInit(s1) = KeyInit(s)
        <4>1. dtalk[1] = Hello(r1) /\ dtalk[3] = KeyInit(s1)
          BY <3>2, ExchangedIs
        <4>2. talk[1] = Hello(r) /\ talk[3] = KeyInit(s)
          BY <1>1, OfferedIs
        <4>3. talk[1] = dtalk[1] /\ talk[3] = dtalk[3]
          BY <3>1
        <4>4. QED
          BY <4>1, <4>2, <4>3
      <3>5. r1 = r /\ s1 = s
        BY <3>4 DEF Hello, KeyInit
      <3>6. KeyResp(s1, n1, SessionKey(c, s1, n1)) = resp
        <4>1. dtalk[4] = KeyResp(s1, n1, SessionKey(c, s1, n1))
          BY <3>2, ExchangedIs
        <4>2. Head(in) = dtalk[4]
          BY <3>1, OneMessage
        <4>3. QED
          BY <4>1, <4>2
      <3>7. n1 = n
        BY <1>5, <3>6 DEF KeyResp
      <3>8. dtalk = new /\ dkey = SessionKey(c, s, n)
        BY <1>4, <3>2, <3>5, <3>7
      <3>9. \/ Sent(td, KeyConfirm(s, new), up) = <<KeyConfirm(s, new)>>
            \/ (Sent(td, KeyConfirm(s, new), up) = <<>> /\ ~up)
        BY <3>1, OneMessage DEF Sent
      <3>10. SidOf(dtalk) = s
        BY <1>4, <3>8, ExchangedIs
      <3>11. DroneExpects(c, ds, dtalk, dkey, dchain, Sent(td, KeyConfirm(s, new), up),
                          "KEY_EXCHANGE_DONE")
        BY <3>1, <3>2, <3>3, <3>8, <3>9, <3>10 DEF DroneExpects
      <3>12. InStep(ds, dtalk, dkey, "KEY_EXCHANGE_DONE", new, SessionKey(c, s, n), <<>>,
                   Sent(td, KeyConfirm(s, new), up), up)
        BY <3>1, <3>8, <3>9, OneMessage DEF InStep
      <3>13. QED
        BY <3>11, <3>12 DEF Together
    <2>3. QED
      BY <2>1, <2>2
  <1>9. QED
    BY <1>3, <1>4, <1>5, <1>6, <1>7, <1>8

\* What comes in after KEY_CONFIRM is the DRONE_AUTH the session expects.
LEMMA DroneAuthVerified ==
    ASSUME NEW c \in Nat, NEW talk, NEW key, NEW chain, NEW in,
           ServerExpects(c, "KEY_EXCHANGE_DONE", talk, key, chain, in), in # <<>>,
           NEW new, new = Chained(Head(in))
    PROVE  /\ Head(in) = DroneAuth(SidOf(talk), talk, chain)
           /\ ServerExpects(c, "server_auth_written", talk, key, new, Tail(in))
           /\ \A ds, dtalk, dkey, dchain, td, up :
                  Together(c, ds, dtalk, dkey, dchain, td, "KEY_EXCHANGE_DONE", talk, key, in, up)
                    => Together(c, ds, dtalk, dkey, dchain, Sent(td, ServerAuth(new), up),
                                "server_auth_written", talk, key, Tail(in), up)
  <1>1. /\ \E r, s, n \in Nat :
               talk = Exchanged(c, r, s, n) /\ key = SessionKey(c, s, n)
        /\ chain = <<>> /\ in = <<DroneAuth(SidOf(talk), talk, <<>>)>>
    BY DEF ServerExpects, InSession
  <1>2. Head(in) = DroneAuth(SidOf(talk), talk, <<>>) /\ Tail(in) = <<>>
    BY <1>1, OneMessage
  <1>3. new = FirstBlock(talk)
    BY <1>2 DEF FirstBlock
  <1>4. ServerExpects(c, "server_auth_written", talk, key, new, <<>>)
    BY <1>1, <1>3 DEF ServerExpects
  <1>5. ASSUME NEW ds, NEW dtalk, NEW dkey, NEW dchain, NEW td, NEW up,
               Together(c, ds, dtalk, dkey, dchain, td, "KEY_EXCHANGE_DONE", talk, key, in, up)
        PROVE  Together(c, ds, dtalk, dkey, dchain, Sent(td, ServerAuth(new), up),
                        "server_auth_written", talk, key, <<>>, up)
    <2>1. CASE ds \in {"exited", "failed"}
      BY <2>1 DEF Together, DroneExpects, InStep
    <2>2. CASE ds \notin {"exited", "failed"}
      <3>1. ds = "DRONE_AUTH_SENT" /\ td = <<>> /\ dtalk = talk /\ dkey = key
        BY <1>1, <1>5, <2>2 DEF Together, InStep, InSession
      <3>2. dchain = FirstBlock(dtalk)
        BY <1>5, <3>1 DEF Together, DroneExpects, InSession
      <3>3. \/ Sent(td, ServerAuth(new), up) = <<ServerAuth(FirstBlock(dtalk))>>
            \/ (Sent(td, ServerAuth(new), up) = <<>> /\ ~up)
        BY <1>3, <3>1, OneMessage DEF Sent
      <3>4. DroneExpects(c, ds, dtalk, dkey, dchain, Sent(td, ServerAuth(new), up),
                         "server_auth_written")
        BY <1>1, <3>1, <3>2, <3>3 DEF DroneExpects
      <3>5. InStep(ds, dtalk, dkey, "server_auth_written", talk, key, <<>>,
                   Sent(td, ServerAuth(new), up), up)
        BY <3>1, <3>3, OneMessage DEF InStep
      <3>6. QED
        BY <3>4, <3>5 DEF Together
    <2>3. QED
      BY <2>1, <2>2
  <1>6. QED
    BY <1>1, <1>2, <1>4, <1>5

\* The session's own block brings its chain to where the drone's is or will be.
LEMMA ChannelsOpened ==
    ASSUME NEW c, NEW talk, NEW key, NEW chain, NEW in,
           ServerExpects(c, "server_auth_written", talk, key, chain, in),
           NEW new, new = Chained(ServerAuth(chain))
    PROVE  /\ ServerExpects(c, "SERVER_AUTH_SENT", talk, key, new, in)
           /\ \A ds, dtalk, dkey, dchain, td, up :
                  Together(c, ds, dtalk, dkey, dchain, td, "server_auth_written", talk, key, in, up)
                    => Together(c, ds, dtalk, dkey, dchain, td,
                                "SERVER_AUTH_SENT", talk, key, in, up)
  <1>1. ServerExpects(c, "SERVER_AUTH_SENT", talk, key, new, in)
    BY DEF ServerExpects, BothBlocks, InSession
  <1>2. ASSUME NEW ds, NEW dtalk, NEW dkey, NEW dchain, NEW td, NEW up,
               Together(c, ds, dtalk, dkey, dchain, td, "server_auth_written", talk, key, in, up)
        PROVE  Together(c, ds, dtalk, dkey, dchain, td, "SERVER_AUTH_SENT", talk, key, in, up)
    <2>1. InStep(ds, dtalk, dkey, "SERVER_AUTH_SENT", talk, key, in, td, up)
      BY <1>2 DEF Together, InStep, InSession
    <2>2. DroneExpects(c, ds, dtalk, dkey, dchain, td, "SERVER_AUTH_SENT")
      BY <1>2 DEF Together, DroneExpects, InSession
    <2>3. QED
      BY <2>1, <2>2 DEF Together
  <1>3. QED
    BY <1>1, <1>2

\* What comes in after SERVER_AUTH is the CONFIRM the session expects.
LEMMA ConfirmVerified ==
    ASSUME NEW c \in Nat, NEW talk, NEW key, NEW chain, NEW in,
           ServerExpects(c, "SERVER_AUTH_SENT", talk, key, chain, in), in # <<>>
    PROVE  /\ Head(in) = Confirm(chain)
           /\ ServerExpects(c, "SECURE_SESSION", talk, key, chain, Tail(in))
           /\ \A ds, dtalk, dkey, dchain, td, up :
                  Together(c, ds, dtalk, dkey, dchain, td, "SERVER_AUTH_SENT", talk, key, in, up)
                    => Together(c, ds, dtalk, dkey, dchain, Sent(td, Ok, up),
                                "SECURE_SESSION", talk, key, Tail(in), up)
  <1>1. /\ \E r, s, n \in Nat :
               talk = Exchanged(c, r, s, n) /\ key = SessionKey(c, s, n)
        /\ chain = BothBlocks(talk) /\ in = <<Confirm(BothBlocks(talk))>>
    BY DEF ServerExpects, InSession
  <1>2. Head(in) = Confirm(chain) /\ Tail(in) = <<>>
    BY <1>1, OneMessage
  <1>3. ServerExpects(c, "SECURE_SESSION", talk, key, chain, <<>>)
    BY <1>1 DEF ServerExpects, InSession
  <1>4. ASSUME NEW ds, NEW dtalk, NEW dkey, NEW dchain, NEW td, NEW up,
               Together(c, ds, dtalk, dkey, dchain, td, "SERVER_AUTH_SENT", talk, key, in, up)
        PROVE  Together(c, ds, dtalk, dkey, dchain, Sent(td, Ok, up),
                        "SECURE_SESSION", talk, key, <<>>, up)
    <2>1. CASE ds \in {"exited", "failed"}
      BY <2>1 DEF Together, DroneExpects, InStep
    <2>2. CASE ds \notin {"exited", "failed"}
      <3>1. ds = "confirm_sent" /\ td = <<>> /\ dtalk = talk /\ dkey = key
        BY <1>1, <1>4, <2>2 DEF Together, InStep, InSession
      <3>2. dchain = BothBlocks(dtalk)
        BY <1>4, <3>1 DEF Together, DroneExpects, InSession
      <3>3. \/ Sent(td, Ok, up) = <<Ok>>
            \/ (Sent(td, Ok, up) = <<>> /\ ~up)
        BY <3>1, OneMessage DEF Sent
      <3>4. DroneExpects(c, ds, dtalk, dkey, dchain, Sent(td, Ok, up), "SECURE_SESSION")
        BY <1>1, <3>1, <3>2, <3>3 DEF DroneExpects, InSession
      <3>5. InStep(ds, dtalk, dkey, "SECURE_SESSION", talk, key, <<>>, Sent(td, Ok, up), up)
        BY <3>1, <3>3, OneMessage DEF InStep, InSession
      <3>6. QED
        BY <3>4, <3>5 DEF Together
    <2>3. QED
      BY <2>1, <2>2
  <1>5. QED
    BY <1>2, <1>3, <1>4

\* The steps of a session that move no message.
LEMMA SessionTurns ==
    ASSUME NEW c, NEW st, NEW new, NEW talk, NEW key, NEW chain, NEW in,
           ServerExpects(c, st, talk, key, chain, in),
           \/ st = "queued" /\ new = "IDLE"
           \/ st \in ServerOpen /\ new = "failed"
           \/ st = "SECURE_SESSION" /\ new = "over"
    PROVE  /\ ServerExpects(c, new, talk, key, chain, in)
           /\ \A ds, dtalk, dkey, dchain, td, up :
                  Together(c, ds, dtalk, dkey, dchain, td, st, talk, key, in, up)
                    => Together(c, ds, dtalk, dkey, dchain, td, new, talk, key, in, up)
  <1>1. ServerExpects(c, new, talk, key, chain, in)
    BY DEF ServerExpects, InSession
  <1>2. ASSUME NEW ds, NEW dtalk, NEW dkey, NEW dchain, NEW td, NEW up,
               Together(c, ds, dtalk, dkey, dchain, td, st, talk, key, in, up)
        PROVE  Together(c, ds, dtalk, dkey, dchain, td, new, talk, key, in, up)
    <2>1. InStep(ds, dtalk, dkey, new, talk, key, in, td, up)
      BY <1>2 DEF Together, InStep, InSession
    <2>2. DroneExpects(c, ds, dtalk, dkey, dchain, td, new)
      BY <1>2 DEF Together, DroneExpects, InSession, ServerOpen
    <2>3. QED
      BY <2>1, <2>2 DEF Together
  <1>3. QED
    BY <1>1, <1>2

\* A connection breaks: each pipe keeps some of its messages.
LEMMA LosesTail ==
    ASSUME NEW c, NEW st, NEW talk, NEW key, NEW chain, NEW in,
           ServerExpects(c, st, talk, key, chain, in), st # "failed",
           NEW n \in 0 .. Len(in)
    PROVE  ServerExpects(c, st, talk, key, chain, SubSeq(in, 1, n))
  <1>1. in = <<>> \/ \E m : in = <<m>>
    BY DEF ServerExpects, InSession
  <1>2. SubSeq(in, 1, n) = in \/ SubSeq(in, 1, n) = <<>>
    BY <1>1, Prefixes
  <1>3. ServerExpects(c, st, talk, key, chain, <<>>)
    BY DEF ServerExpects, InSession
  <1>4. QED
    BY <1>2, <1>3

-----------------------------------------------------------------------------
(* What a step of the drone finds, and leaves its session with.            *)

\* A drone whose TLS is up has a session that was begun.
LEMMA DroneReady ==
    ASSUME NEW c, NEW dtalk, NEW dkey, NEW dchain, NEW td,
           NEW st, NEW stalk, NEW skey, NEW schain, NEW ts, NEW up,
           Joint(c, "connecting", dtalk, dkey, dchain, td, st, stalk, skey, schain, ts, up),
           st # "queued"
    PROVE  Joint(c, "IDLE", dtalk, dkey, dchain, td, st, stalk, skey, schain, ts, up)
  <1>1. InStep("IDLE", dtalk, dkey, st, stalk, skey, ts, td, up)
    BY DEF Joint, Together, InStep, InSession
  <1>2. DroneExpects(c, "IDLE", dtalk, dkey, dchain, td, st)
    BY DEF Joint, Together, DroneExpects, InSession
  <1>3. QED
    BY <1>1, <1>2 DEF Joint, Together

\* The drone's HELLO finds a session that waits for it, or that has failed.
LEMMA HelloSent ==
    ASSUME NEW c \in Nat, NEW dtalk, NEW dkey, NEW dchain, NEW td,
           NEW st, NEW stalk, NEW skey, NEW schain, NEW ts, NEW up,
           Joint(c, "IDLE", dtalk, dkey, dchain, td, st, stalk, skey, schain, ts, up),
           NEW r \in Nat
    PROVE  /\ SessionTyped(<<Hello(r)>>, dkey)
           /\ Joint(c, "HELLO_SENT", <<Hello(r)>>, dkey, dchain, td, st, stalk, skey,
                    schain, Sent(ts, Hello(r), up), up)
  <1>1. Blank(dtalk, dkey, dchain) /\ td = <<>>
    BY DEF Joint, Together, DroneExpects, InSession
  <1>2. SessionTyped(<<Hello(r)>>, dkey)
    BY <1>1, Typed DEF Blank
  <1>3. DroneExpects(c, "HELLO_SENT", <<Hello(r)>>, dkey, dchain, td, st)
    BY <1>1 DEF DroneExpects, Blank
  <1>4. CASE st = "failed"
    BY <1>2, <1>3, <1>4 DEF Joint, Together, ServerExpects, InStep
  <1>5. CASE st # "failed"
    <2>1. st = "IDLE" /\ ts = <<>>
      BY <1>5 DEF Joint, Together, InStep, InSession
    <2>2. Carries(Sent(ts, Hello(r), up), Hello(r), up)
      BY <2>1, OneMessage DEF Sent, Carries
    <2>3. Blank(stalk, skey, schain)
      BY <2>1 DEF Joint, ServerExpects, InSession
    <2>4. ServerExpects(c, st, stalk, skey, schain, Sent(ts, Hello(r), up))
      BY <2>1, <2>2, <2>3 DEF ServerExpects, Carries
    <2>5. <<Hello(r)>>[1] = Hello(r)
      BY OneMessage
    <2>6. InStep("HELLO_SENT", <<Hello(r)>>, dkey, st, stalk, skey,
                 Sent(ts, Hello(r), up), td, up)
      BY <1>1, <2>1, <2>2, <2>5 DEF InStep
    <2>7. QED
      BY <1>2, <1>3, <2>4, <2>6 DEF Joint, Together
  <1>6. QED
    BY <1>4, <1>5

\* The answer to HELLO is the HELLO_ACK of the same random value.
LEMMA AckHeard ==
    ASSUME NEW c \in Nat, NEW dtalk, NEW dkey, NEW dchain, NEW td,
           NEW st, NEW stalk, NEW skey, NEW schain, NEW ts, NEW up,
           Joint(c, "HELLO_SENT", dtalk, dkey, dchain, td, st, stalk, skey, schain, ts, up),
           td # <<>>, NEW new, new = Append(dtalk, Head(td))
    PROVE  /\ Head(td) = HelloAck(dtalk[1].random)
           /\ SessionTyped(new, dkey)
           /\ Joint(c, "KEY_EXCHANGE", new, dkey, dchain, Tail(td), st, stalk, skey,
                    schain, ts, up)
  <1>1. PICK r \in Nat :
            /\ dtalk = <<Hello(r)>>
            /\ \/ td = <<HelloAck(r)>>
               \/ \E s \in Nat : td = <<HelloAck(r), KeyInit(s)>>
    BY DEF Joint, Together, DroneExpects, InSession
  <1>2. dkey = NoKey /\ dchain = <<>>
    BY DEF Joint, Together, DroneExpects, InSession
  <1>3. /\ Head(td) = HelloAck(r)
        /\ Tail(td) = <<>> \/ \E s \in Nat : Tail(td) = <<KeyInit(s)>>
    <2>1. CASE td = <<HelloAck(r)>>
      BY <2>1, OneMessage
    <2>2. CASE \E s \in Nat : td = <<HelloAck(r), KeyInit(s)>>
      <3>1. PICK s \in Nat : td = <<HelloAck(r), KeyInit(s)>>
        BY <2>2
      <3>2. Head(td) = HelloAck(r) /\ Tail(td) = <<KeyInit(s)>>
        BY <3>1, TwoMessages
      <3>3. QED
        BY <3>2
    <2>3. QED
      BY <1>1, <2>1, <2>2
  <1>4. dtalk[1].random = r
    BY <1>1, OneMessage DEF Hello
  <1>5. new = Greeted(r)
    BY <1>1, <1>3, TwoMessages DEF Greeted
  <1>6. SessionTyped(new, dkey)
    BY <1>2, <1>5, Typed
  <1>7. DroneExpects(c, "KEY_EXCHANGE", new, dkey, dchain, Tail(td), st)
    BY <1>2, <1>3, <1>5 DEF DroneExpects
  <1>8. InStep("KEY_EXCHANGE", new, dkey, st, stalk, skey, ts, Tail(td), up)
    <2>1. CASE st = "failed"
      BY <2>1 DEF InStep
    <2>2. CASE st = "hello_acked"
      <3>1. PICK q \in Nat : stalk = Greeted(q)
        BY <2>2 DEF Joint, ServerExpects, InSession
      <3>2. ts = <<>> /\ dtalk = <<stalk[1]>> /\ td = <<stalk[2]>>
        BY <1>1, <2>2 DEF Joint, Together, InStep, Carries, InSession
      <3>3. stalk = new
        <4>1. stalk[1] = Hello(r) /\ stalk[2] = HelloAck(r)
          BY <1>1, <1>3, <3>2, OneMessage
        <4>2. stalk[1] = Hello(q) /\ stalk[2] = HelloAck(q)
          BY <3>1, GreetedIs
        <4>3. QED
          BY <1>5, <3>1, <4>1, <4>2 DEF Greeted
      <3>4. Tail(td) = <<>>
        BY <3>2, OneMessage
      <3>5. QED
        BY <2>2, <3>2, <3>3, <3>4 DEF InStep
    <2>3. CASE st = "KEY_INIT_SENT"
      <3>1. PICK q \in Nat, s \in Nat : stalk = Offered(q, s)
        BY <2>3 DEF Joint, ServerExpects, InSession
      <3>2. /\ ts = <<>> /\ dtalk = <<stalk[1]>>
            /\ td = <<stalk[2], stalk[3]>> \/ (td = <<stalk[2]>> /\ ~up)
        BY <2>3 DEF Joint, Together, InStep, InSession
      <3>3. new = <<stalk[1], stalk[2]>>
        <4>1. Head(td) = stalk[2]
          BY <3>2, OneMessage, TwoMessages
        <4>2. Append(<<stalk[1]>>, stalk[2]) = <<stalk[1], stalk[2]>>
          BY TwoMessages
        <4>3. QED
          BY <3>2, <4>1, <4>2
      <3>4. Carries(Tail(td), stalk[3], up)
        <4>1. CASE td = <<stalk[2], stalk[3]>>
          <5>1. Tail(td) = <<stalk[3]>>
            BY <4>1, TwoMessages
          <5>2. QED
            BY <5>1 DEF Carries
        <4>2. CASE td = <<stalk[2]>> /\ ~up
          BY <4>2, OneMessage DEF Carries
        <4>3. QED
          BY <3>2, <4>1, <4>2
      <3>5. QED
        BY <2>3, <3>2, <3>3, <3>4 DEF InStep
    <2>4. QED
      BY <1>1, <2>1, <2>2, <2>3 DEF Joint, Together, InStep, InSession
  <1>9. QED
    BY <1>3, <1>4, <1>6, <1>7, <1>8 DEF Joint, Together

\* What follows HELLO_ACK is a KEY_INIT.
LEMMA KeyInitComes ==
    ASSUME NEW c, NEW dtalk, NEW dkey, NEW dchain, NEW td,
           NEW st, NEW stalk, NEW skey, NEW schain, NEW ts, NEW up,
           Joint(c, "KEY_EXCHANGE", dtalk, dkey, dchain, td, st, stalk, skey, schain, ts, up),
           td # <<>>
    PROVE  \E r, s \in Nat : dtalk = Greeted(r) /\ td = <<KeyInit(s)>>
  <1>1. \E r \in Nat : dtalk = Greeted(r)
    BY DEF Joint, Together, DroneExpects, InSession
  <1>2. \E s \in Nat : td = <<KeyInit(s)>>
    BY DEF Joint, Together, DroneExpects, InSession
  <1>3. QED
    BY <1>1, <1>2

\* KEY_RESP, with the key derived from it, leaves the two ends in step.
LEMMA KeyInitHeard ==
    ASSUME NEW c \in Nat, NEW r \in Nat, NEW s \in Nat, NEW n \in Nat,
           NEW dkey, NEW dchain, NEW st, NEW stalk, NEW skey, NEW schain, NEW ts, NEW up,
           Joint(c, "KEY_EXCHANGE", Greeted(r), dkey, dchain, <<KeyInit(s)>>, st, stalk,
                 skey, schain, ts, up)
    PROVE  /\ SessionTyped(Exchanged(c, r, s, n), SessionKey(c, s, n))
           /\ Joint(c, "key_resp_sent", Exchanged(c, r, s, n), SessionKey(c, s, n), dchain,
                    <<>>, st, stalk, skey, schain,
                    Sent(ts, KeyResp(s, n, SessionKey(c, s, n)), up), up)
  <1> PICK new, key, resp : /\ new = Exchanged(c, r, s, n) /\ key = SessionKey(c, s, n)
                            /\ resp = KeyResp(s, n, SessionKey(c, s, n))
    OBVIOUS
  <1> SUFFICES /\ SessionTyped(new, key)
               /\ Joint(c, "key_resp_sent", new, key, dchain, <<>>, st, stalk, skey, schain,
                        Sent(ts, resp, up), up)
    OBVIOUS
  <1>1. dkey = NoKey /\ dchain = <<>>
    BY DEF Joint, Together, DroneExpects, InSession
  <1>2. SessionTyped(new, key)
    BY Typed
  <1>3. DroneExpects(c, "key_resp_sent", new, key, dchain, <<>>, st)
    BY <1>1 DEF DroneExpects
  <1>4. CASE st = "failed"
    BY <1>2, <1>3, <1>4 DEF Joint, Together, ServerExpects, InStep
  <1>5. CASE st # "failed"
    <2>1. /\ st = "KEY_INIT_SENT" /\ ts = <<>> /\ Greeted(r) = <<stalk[1], stalk[2]>>
          /\ <<KeyInit(s)>> = <<stalk[3]>>
      BY <1>5 DEF Joint, Together, InStep, Carries, InSession
    <2>2. PICK q \in Nat, s1 \in Nat : stalk = Offered(q, s1)
      BY <2>1 DEF Joint, ServerExpects, InSession
    <2>3. skey = NoKey /\ schain = <<>>
      BY <2>1 DEF Joint, ServerExpects, InSession
    <2>4. q = r /\ s1 = s
      <3>1. stalk[1] = Hello(q) /\ stalk[3] = KeyInit(s1)
        BY <2>2, OfferedIs
      <3>2. stalk[1] = Hello(r)
        BY <2>1 DEF Greeted
      <3>3. stalk[3] = KeyInit(s)
        BY <2>1
      <3>4. Hello(q) = Hello(r) /\ KeyInit(s1) = KeyInit(s)
        BY <3>1, <3>2, <3>3
      <3>5. QED
        BY <3>4 DEF Hello, KeyInit
    <2>5. Carries(Sent(ts, resp, up), resp, up)
      BY <2>1, OneMessage DEF Sent, Carries
    <2>6. ServerExpects(c, st, stalk, skey, schain, Sent(ts, resp, up))
      BY <2>1, <2>2, <2>3, <2>4, <2>5 DEF ServerExpects, Carries
    <2>7. stalk = <<new[1], new[2], new[3]>> /\ new[4] = resp
      <3>1. /\ Exchanged(c, r, s, n)[1] = Hello(r)
            /\ Exchanged(c, r, s, n)[2] = HelloAck(r)
            /\ Exchanged(c, r, s, n)[3] = KeyInit(s)
            /\ Exchanged(c, r, s, n)[4] = KeyResp(s, n, SessionKey(c, s, n))
        BY ExchangedIs
      <3>2. stalk = <<Hello(r), HelloAck(r), KeyInit(s)>>
        BY <2>2, <2>4 DEF Offered
      <3>3. QED
        BY <3>1, <3>2
    <2>8. InStep("key_resp_sent", new, key, st, stalk, skey, Sent(ts, resp, up), <<>>, up)
      BY <2>1, <2>5, <2>7 DEF InStep
    <2>9. QED
      BY <1>2, <1>3, <2>6, <2>8 DEF Joint, Together
  <1>6. QED
    BY <1>4, <1>5

\* The answer to KEY_RESP confirms the drone's own transcript.
LEMMA KeyConfirmHeard ==
    ASSUME NEW c \in Nat, NEW dtalk, NEW dkey, NEW dchain, NEW td,
           NEW st, NEW stalk, NEW skey, NEW schain, NEW ts, NEW up,
           Joint(c, "key_resp_sent", dtalk, dkey, dchain, td, st, stalk, skey, schain, ts, up),
           td # <<>>
    PROVE  /\ Head(td) = KeyConfirm(SidOf(dtalk), dtalk)
           /\ Joint(c, "KEY_CONFIRMED", dtalk, dkey, dchain, Tail(td), st, stalk, skey,
                    schain, ts, up)
  <1>1. td = <<KeyConfirm(SidOf(dtalk), dtalk)>>
    BY DEF Joint, Together, DroneExpects, InSession
  <1>2. Head(td) = KeyConfirm(SidOf(dtalk), dtalk) /\ Tail(td) = <<>>
    BY <1>1, OneMessage
  <1>3. DroneExpects(c, "KEY_CONFIRMED", dtalk, dkey, dchain, <<>>, st)
    BY DEF Joint, Together, DroneExpects, InSession
  <1>4. InStep("KEY_CONFIRMED", dtalk, dkey, st, stalk, skey, ts, <<>>, up)
    BY <1>1 DEF Joint, Together, InStep, InSession
  <1>5. QED
    BY <1>2, <1>3, <1>4 DEF Joint, Together

\* DRONE_AUTH holds what the session has, and advances the drone's chain.
LEMMA DroneAuthSent ==
    ASSUME NEW c \in Nat, NEW dtalk, NEW dkey, NEW dchain, NEW td,
           NEW st, NEW stalk, NEW skey, NEW schain, NEW ts, NEW up,
           Joint(c, "KEY_CONFIRMED", dtalk, dkey, dchain, td, st, stalk, skey, schain, ts, up),
           NEW auth, auth = DroneAuth(SidOf(dtalk), dtalk, dchain)
    PROVE  Joint(c, "DRONE_AUTH_SENT", dtalk, dkey, Chained(auth), td, st, stalk, skey,
                 schain, Sent(ts, auth, up), up)
  <1>1. dchain = <<>> /\ td = <<>>
    BY DEF Joint, Together, DroneExpects, InSession
  <1>2. Chained(auth) = FirstBlock(dtalk)
    BY <1>1 DEF FirstBlock
  <1>3. DroneExpects(c, "DRONE_AUTH_SENT", dtalk, dkey, Chained(auth), td, st)
    BY <1>1, <1>2 DEF Joint, Together, DroneExpects, InSession
  <1>4. CASE st = "failed"
    BY <1>3, <1>4 DEF Joint, Together, ServerExpects, InStep
  <1>5. CASE st # "failed"
    <2>1. st = "KEY_EXCHANGE_DONE" /\ ts = <<>> /\ dtalk = stalk /\ dkey = skey
      BY <1>5 DEF Joint, Together, InStep, InSession
    <2>2. \/ Sent(ts, auth, up) = <<DroneAuth(SidOf(stalk), stalk, <<>>)>>
          \/ (Sent(ts, auth, up) = <<>> /\ ~up)
      BY <1>1, <2>1, OneMessage DEF Sent
    <2>3. ServerExpects(c, st, stalk, skey, schain, Sent(ts, auth, up))
      BY <2>1, <2>2 DEF Joint, ServerExpects, InSession
    <2>4. InStep("DRONE_AUTH_SENT", dtalk, dkey, st, stalk, skey,
                 Sent(ts, auth, up), td, up)
      BY <1>1, <2>1, <2>2, OneMessage DEF InStep
    <2>5. QED
      BY <1>3, <2>3, <2>4 DEF Joint, Together
  <1>6. QED
    BY <1>4, <1>5

\* The answer to DRONE_AUTH holds the drone's chain, and advances it again.
LEMMA ServerAuthHeard ==
    ASSUME NEW c \in Nat, NEW dtalk, NEW dkey, NEW dchain, NEW td,
           NEW st, NEW stalk, NEW skey, NEW schain, NEW ts, NEW up,
           Joint(c, "DRONE_AUTH_SENT", dtalk, dkey, dchain, td, st, stalk, skey, schain, ts, up),
           td # <<>>
    PROVE  /\ Head(td) = ServerAuth(dchain)
           /\ Joint(c, "SERVER_AUTH_VERIFIED", dtalk, dkey, Chained(Head(td)), Tail(td),
                    st, stalk, skey, schain, ts, up)
  <1>1. dchain = FirstBlock(dtalk) /\ td = <<ServerAuth(FirstBlock(dtalk))>>
    BY DEF Joint, Together, DroneExpects, InSession
  <1>2. Head(td) = ServerAuth(dchain) /\ Tail(td) = <<>>
    BY <1>1, OneMessage
  <1>3. Chained(Head(td)) = BothBlocks(dtalk)
    BY <1>1, <1>2 DEF BothBlocks
  <1>4. DroneExpects(c, "SERVER_AUTH_VERIFIED", dtalk, dkey, Chained(Head(td)), <<>>, st)
    BY <1>3 DEF Joint, Together, DroneExpects, InSession
  <1>5. InStep("SERVER_AUTH_VERIFIED", dtalk, dkey, st, stalk, skey, ts, <<>>, up)
    BY <1>1 DEF Joint, Together, InStep, InSession
  <1>6. QED
    BY <1>2, <1>4, <1>5 DEF Joint, Together

\* CONFIRM holds the chain that the session has, or has once its channels are open.
LEMMA ConfirmSent ==
    ASSUME NEW c \in Nat, NEW dtalk, NEW dkey, NEW dchain, NEW td,
           NEW st, NEW stalk, NEW skey, NEW schain, NEW ts, NEW up,
           Joint(c, "SERVER_AUTH_VERIFIED", dtalk, dkey, dchain, td, st, stalk, skey,
                 schain, ts, up)
    PROVE  Joint(c, "confirm_sent", dtalk, dkey, dchain, td, st, stalk, skey,
                 schain, Sent(ts, Confirm(dchain), up), up)
  <1>1. dchain = BothBlocks(dtalk) /\ td = <<>>
    BY DEF Joint, Together, DroneExpects, InSession
  <1>2. DroneExpects(c, "confirm_sent", dtalk, dkey, dchain, td, st)
    BY <1>1 DEF Joint, Together, DroneExpects, InSession
  <1>3. CASE st = "failed"
    BY <1>2, <1>3 DEF Joint, Together, ServerExpects, InStep
  <1>4. CASE st # "failed"
    <2>1. /\ st \in {"server_auth_written", "SERVER_AUTH_SENT"} /\ ts = <<>>
          /\ dtalk = stalk /\ dkey = skey
      BY <1>4 DEF Joint, Together, InStep, InSession
    <2>2. \/ Sent(ts, Confirm(dchain), up) = <<Confirm(BothBlocks(stalk))>>
          \/ (Sent(ts, Confirm(dchain), up) = <<>> /\ ~up)
      BY <1>1, <2>1, OneMessage DEF Sent
    <2>3. ServerExpects(c, st, stalk, skey, schain, Sent(ts, Confirm(dchain), up))
      BY <2>1, <2>2 DEF Joint, ServerExpects, InSession
    <2>4. InStep("confirm_sent", dtalk, dkey, st, stalk, skey,
                 Sent(ts, Confirm(dchain), up), td, up)
      BY <1>1, <2>1, <2>2, OneMessage DEF InStep
    <2>5. QED
      BY <1>2, <2>3, <2>4 DEF Joint, Together
  <1>5. QED
    BY <1>3, <1>4

\* The answer to CONFIRM is the OK of a session that was entered.
LEMMA OkHeard ==
    ASSUME NEW c \in Nat, NEW dtalk, NEW dkey, NEW dchain, NEW td,
           NEW st, NEW stalk, NEW skey, NEW schain, NEW ts, NEW up,
           Joint(c, "confirm_sent", dtalk, dkey, dchain, td, st, stalk, skey, schain, ts, up),
           td # <<>>
    PROVE  /\ Head(td) = Ok
           /\ Joint(c, "SECURE_SESSION", dtalk, dkey, dchain, Tail(td), st, stalk, skey,
                    schain, ts, up)
  <1>1. td = <<Ok>> /\ st \in InSession
    BY DEF Joint, Together, DroneExpects, InSession
  <1>2. Head(td) = Ok /\ Tail(td) = <<>>
    BY <1>1, OneMessage
  <1>3. DroneExpects(c, "SECURE_SESSION", dtalk, dkey, dchain, <<>>, st)
    BY <1>1 DEF Joint, Together, DroneExpects, InSession
  <1>4. InStep("SECURE_SESSION", dtalk, dkey, st, stalk, skey, ts, <<>>, up)
    BY <1>1 DEF Joint, Together, InStep, InSession
  <1>5. QED
    BY <1>2, <1>3, <1>4 DEF Joint, Together

\* Both pipes of a connection lose what was not read.
LEMMA BothLoseTails ==
    ASSUME NEW c, NEW ds, NEW dtalk, NEW dkey, NEW dchain, NEW td,
           NEW st, NEW stalk, NEW skey, NEW schain, NEW ts, NEW up,
           Joint(c, ds, dtalk, dkey, dchain, td, st, stalk, skey, schain, ts, up),
           NEW m \in 0 .. Len(td), NEW down, ~down,
           NEW x, x = <<>> \/ \E n \in 0 .. Len(ts) : x = SubSeq(ts, 1, n)
    PROVE  Together(c, ds, dtalk, dkey, dchain, SubSeq(td, 1, m), st, stalk, skey,
                    x, down)
  <1>1. CASE ds \in {"exited", "failed"}
    BY <1>1 DEF Together, DroneExpects, InStep
  <1>2. CASE ds \notin {"exited", "failed"}
    <2>1. td = <<>> \/ (\E a : td = <<a>>) \/ (\E a, b : td = <<a, b>>)
      BY <1>2 DEF Joint, Together, DroneExpects, InSession
    <2>2. DroneExpects(c, ds, dtalk, dkey, dchain, SubSeq(td, 1, m), st)
      <3>1. CASE td = <<>> \/ \E a : td = <<a>>
        <4>1. SubSeq(td, 1, m) \in {<<>>, td}
          BY <3>1, Prefixes
        <4>2. DroneExpects(c, ds, dtalk, dkey, dchain, <<>>, st)
          BY DEF Joint, Together, DroneExpects, InSession
        <4>3. QED
          BY <4>1, <4>2 DEF Joint, Together
      <3>2. CASE \E a, b : td = <<a, b>>
        <4>1. PICK a, b : td = <<a, b>>
          BY <3>2
        <4>2. SubSeq(td, 1, m) \in {<<>>, <<a>>, <<a, b>>}
          BY <4>1, Prefixes
        <4>3. ds = "HELLO_SENT" /\ dkey = NoKey /\ dchain = <<>>
          BY <1>2, <4>1, OneMessage, TwoMessages DEF Joint, Together, DroneExpects, InSession
        <4>4. PICK r \in Nat, s \in Nat : dtalk = <<Hello(r)>> /\ td = <<HelloAck(r), KeyInit(s)>>
          BY <4>1, <4>3 DEF Joint, Together, DroneExpects, InSession
        <4>5. a = HelloAck(r) /\ b = KeyInit(s)
          BY <4>1, <4>4
        <4>6. QED
          BY <4>2, <4>3, <4>4, <4>5 DEF DroneExpects
      <3>3. QED
        BY <2>1, <3>1, <3>2
    <2>3. CASE st = "failed"
      BY <2>2, <2>3 DEF Together, InStep
    <2>4. CASE st # "failed"
      <3>1. ts = <<>> \/ \E a : ts = <<a>>
        BY <2>4 DEF Joint, ServerExpects, InSession
      <3>2. x \in {<<>>, ts}
        BY <3>1, Prefixes
      <3>3. PICK y : /\ y = SubSeq(td, 1, m)
                     /\ \/ y \in {<<>>, td}
                        \/ \E a, b : td = <<a, b>> /\ y = <<a>>
        <4>1. CASE td = <<>> \/ \E a : td = <<a>>
          BY <4>1, Prefixes
        <4>2. CASE \E a, b : td = <<a, b>>
          <5>1. PICK a, b : td = <<a, b>>
            BY <4>2
          <5>2. SubSeq(td, 1, m) \in {<<>>, <<a>>, <<a, b>>}
            BY <5>1, Prefixes
          <5>3. QED
            BY <5>1, <5>2
        <4>3. QED
          BY <2>1, <4>1, <4>2
      <3>4. InStep(ds, dtalk, dkey, st, stalk, skey, x, y, down)
        <4>1. CASE y \in {<<>>, td}
          BY <1>2, <2>4, <3>2, <4>1 DEF Joint, Together, InStep, Carries, InSession
        <4>2. CASE \E a, b : td = <<a, b>> /\ y = <<a>>
          <5>1. PICK a, b : td = <<a, b>> /\ y = <<a>>
            BY <4>2
          <5>2. ds = "HELLO_SENT"
            BY <1>2, <5>1, OneMessage, TwoMessages DEF Joint, Together, DroneExpects, InSession
          <5>3. /\ st = "KEY_INIT_SENT" /\ td = <<stalk[2], stalk[3]>> /\ ts = <<>>
                /\ dtalk = <<stalk[1]>>
            BY <2>4, <5>1, <5>2 DEF Joint, Together, InStep, Carries, InSession
          <5>4. a = stalk[2]
            BY <5>1, <5>3
          <5>5. QED
            BY <3>2, <5>1, <5>2, <5>3, <5>4 DEF InStep
        <4>3. QED
          BY <3>3, <4>1, <4>2
      <3>5. QED
        BY <2>2, <3>2, <3>3, <3>4 DEF Together
    <2>5. QED
      BY <2>3, <2>4
  <1>3. QED
    BY <1>1, <1>2

-----------------------------------------------------------------------------
(* A step touches one connection, and leaves the others what they were.    *)

\* After the step, the function holds v for c, and for the others what it held.
Becomes(old, new, c, v) ==
    /\ DOMAIN new = Connection
    /\ \A d \in Connection : new[d] = IF d = c THEN v ELSE old[d]

\* An assignment to one connection, and none, in those words.
LEMMA BecomesBy ==
    ASSUME NEW f, NEW g, NEW c \in Connection, NEW v, DOMAIN f = Connection
    PROVE  /\ g = [f EXCEPT ![c] = v] => Becomes(f, g, c, v)
           /\ g = f => Becomes(f, g, c, f[c])
  BY DEF Becomes

\* A drone that runs has a connection that was made.
LEMMA OnAConnection ==
    ASSUME IInv, dState # "exited"
    PROVE  dConn \in Connection
  <1>1. conns \in 0 .. MaxConnections /\ dConn \in 1 .. conns
    BY DEF IInv, OnConnection, TypeOK
  <1>2. QED
    BY <1>1, HandshakeAssumption DEF Connection

\* A step of one connection's session keeps the invariant when it leaves that session
\* with what it should hold, and in step with its drone if it was.
LEMMA SessionMoves ==
    ASSUME IInv, NEW c \in Connection,
           NEW st \in ServerOpen \cup {"failed", "over", "SECURE_SESSION"},
           NEW talk, NEW key, NEW chain, NEW ts, NEW td, NEW up,
           sState[c] # "none",
           Becomes(sState, sState', c, st), Becomes(sTalk, sTalk', c, talk),
           Becomes(sKey, sKey', c, key), Becomes(sChain, sChain', c, chain),
           Becomes(toServer, toServer', c, ts), Becomes(toDrone, toDrone', c, td),
           Becomes(linkUp, linkUp', c, up), linkUp' \in [Connection -> BOOLEAN],
           fresh' \in Nat, UNCHANGED droneSide,
           SessionTyped(talk, key), ServerExpects(c, st, talk, key, chain, ts),
           Together(c, dState, dTalk, dKey, dChain, toDrone[c], sState[c], sTalk[c],
                    sKey[c], toServer[c], linkUp[c])
             => Together(c, dState, dTalk, dKey, dChain, td, st, talk, key, ts, up)
    PROVE  IInv'
  <1>1. TypeOK'
    <2>1. /\ conns' \in 0 .. MaxConnections /\ fresh' \in Nat
          /\ dState' \in DroneOpen \cup {"exited", "connecting", "refused", "failed",
                                        "SECURE_SESSION"}
          /\ dConn' \in 0 .. conns' /\ IsSession(dTalk', dKey')
          /\ Len(dTalk') = 4 <=> dKey' # NoKey
      BY DEF IInv, TypeOK, droneSide, drone
    <2>2. ASSUME NEW d \in Connection
          PROVE  /\ sState'[d] \in ServerOpen \cup {"none", "refused", "failed", "over",
                                            "SECURE_SESSION"}
                 /\ SessionTyped(sTalk'[d], sKey'[d])
      <3>1. CASE d = c
        BY <3>1 DEF Becomes
      <3>2. CASE d # c
        BY <3>2 DEF Becomes, IInv, TypeOK, SessionTyped
      <3>3. QED
        BY <3>1, <3>2
    <2>3. QED
      BY <2>1, <2>2 DEF TypeOK, SessionTyped
  <1>2. Functions'
    BY DEF Becomes, Functions
  <1>3. OnConnection'
    BY DEF OnConnection, IInv, droneSide, drone
  <1>4. Unmade'
    <2>1. "none" \notin ServerOpen \cup {"failed", "over", "SECURE_SESSION"}
      BY DEF ServerOpen
    <2>2. QED
      BY <2>1 DEF Unmade, IInv, Becomes, droneSide
  <1>5. SessionsInv'
    <2>1. ASSUME NEW d \in Connection
          PROVE  ServerExpects(d, sState'[d], sTalk'[d], sKey'[d], sChain'[d], toServer'[d])
      <3>1. CASE d = c
        BY <3>1 DEF Becomes
      <3>2. CASE d # c
        BY <3>2 DEF Becomes, IInv, SessionsInv
      <3>3. QED
        BY <3>1, <3>2
    <2>2. QED
      BY <2>1 DEF SessionsInv
  <1>6. DroneInv'
    <2>1. SUFFICES ASSUME dState # "exited"
                   PROVE  Together(dConn, dState, dTalk, dKey, dChain, toDrone'[dConn],
             sState'[dConn], sTalk'[dConn], sKey'[dConn], toServer'[dConn], linkUp'[dConn])
      BY DEF DroneInv, droneSide, drone
    <2>2. dConn \in Connection
      BY <2>1, OnAConnection
    <2>3. Together(dConn, dState, dTalk, dKey, dChain, toDrone[dConn],
             sState[dConn], sTalk[dConn], sKey[dConn], toServer[dConn], linkUp[dConn])
      BY <2>1 DEF IInv, DroneInv
    <2>4. CASE dConn = c
      BY <2>2, <2>3, <2>4 DEF Becomes
    <2>5. CASE dConn # c
      BY <2>2, <2>3, <2>5 DEF Becomes
    <2>6. QED
      BY <2>4, <2>5
  <1>7. JoinedOnce'
    BY DEF JoinedOnce, IInv, droneSide, drone
  <1>8. QED
    BY <1>1, <1>2, <1>3, <1>4, <1>5, <1>6, <1>7 DEF IInv

\* A step of the drone on its connection keeps it when the drone has what it should
\* hold afterwards, goes together with its session, and joins nothing twice.
LEMMA DroneMoves ==
    ASSUME IInv, dState # "exited",
           NEW ds \in DroneOpen \cup {"exited", "failed", "SECURE_SESSION"},
           NEW dtalk, NEW dkey, NEW dchain, NEW ts, NEW td, NEW up,
           dState' = ds, dTalk' = dtalk, dKey' = dkey, dChain' = dchain,
           UNCHANGED <<conns, dConn, server>>, fresh' \in Nat,
           Becomes(toServer, toServer', dConn, ts), Becomes(toDrone, toDrone', dConn, td),
           Becomes(linkUp, linkUp', dConn, up), linkUp' \in [Connection -> BOOLEAN],
           SessionTyped(dtalk, dkey),
           ServerExpects(dConn, sState[dConn], sTalk[dConn], sKey[dConn], sChain[dConn], ts),
           ds # "exited" => Together(dConn, ds, dtalk, dkey, dchain, td, sState[dConn],
                                     sTalk[dConn], sKey[dConn], ts, up),
           JoinedOnce'
    PROVE  IInv'
  <1>1. dConn \in Connection
    BY OnAConnection
  <1>2. TypeOK'
    <2>1. /\ conns' \in 0 .. MaxConnections /\ fresh' \in Nat
          /\ dState' \in DroneOpen \cup {"exited", "connecting", "refused", "failed",
                                        "SECURE_SESSION"}
          /\ dConn' \in 0 .. conns' /\ IsSession(dTalk', dKey')
          /\ Len(dTalk') = 4 <=> dKey' # NoKey
      BY DEF IInv, TypeOK, SessionTyped
    <2>2. \A d \in Connection :
           /\ sState'[d] \in ServerOpen \cup {"none", "refused", "failed", "over",
                                            "SECURE_SESSION"}
           /\ IsSession(sTalk'[d], sKey'[d])
           /\ Len(sTalk'[d]) = 4 <=> sKey'[d] # NoKey
      BY DEF IInv, TypeOK, server
    <2>3. QED
      BY <2>1, <2>2 DEF TypeOK
  <1>3. Functions'
    BY DEF Becomes, Functions, IInv, server
  <1>4. OnConnection'
    BY DEF OnConnection, IInv
  <1>5. Unmade'
    <2>1. dConn \in 1 .. conns
      BY DEF IInv, OnConnection
    <2>2. conns \in Nat
      BY DEF IInv, TypeOK
    <2>3. ASSUME NEW d \in Connection PROVE d > conns => d # dConn
      BY <2>1, <2>2 DEF Connection
    <2>4. QED
      BY <2>3 DEF Unmade, IInv, Becomes, server
  <1>6. SessionsInv'
    <2>1. ASSUME NEW d \in Connection
          PROVE  ServerExpects(d, sState[d], sTalk[d], sKey[d], sChain[d], toServer'[d])
      <3>1. CASE d = dConn
        BY <3>1 DEF Becomes
      <3>2. CASE d # dConn
        BY <3>2 DEF Becomes, IInv, SessionsInv
      <3>3. QED
        BY <3>1, <3>2
    <2>2. QED
      BY <2>1 DEF SessionsInv, server
  <1>7. DroneInv'
    BY <1>1 DEF DroneInv, Becomes, server
  <1>8. QED
    BY <1>2, <1>3, <1>4, <1>5, <1>6, <1>7 DEF IInv

\* A step that joins no session, and stays in none but by leaving.
LEMMA JoinedKept ==
    ASSUME IInv, dState # "exited", UNCHANGED <<conns, dConn, joined>>,
           dState = "SECURE_SESSION" => dState' = "exited"
    PROVE  JoinedOnce'
  BY DEF JoinedOnce, IInv

\* Writing to a pipe, and reading from one, in the same words.
LEMMA PutBecomes ==
    ASSUME NEW f, NEW g, NEW c \in Connection, NEW m, DOMAIN f = Connection, g = Put(f, c, m)
    PROVE  Becomes(f, g, c, Sent(f[c], m, linkUp[c]))
  BY DEF Becomes, Put, Sent

\* The rest of a pipe once its first message was read.
LEMMA TakeBecomes ==
    ASSUME NEW f, NEW g, NEW c \in Connection, DOMAIN f = Connection, g = Take(f, c)
    PROVE  Becomes(f, g, c, Tail(f[c]))
  BY DEF Becomes, Take

\* What every step of a session has at hand.
LEMMA SessionHas ==
    ASSUME IInv, NEW c \in Connection
    PROVE  /\ Functions /\ linkUp \in [Connection -> BOOLEAN] /\ DOMAIN linkUp = Connection
           /\ fresh \in Nat /\ c \in Nat
           /\ SessionTyped(sTalk[c], sKey[c])
           /\ ServerExpects(c, sState[c], sTalk[c], sKey[c], sChain[c], toServer[c])
  <1>1. c \in Nat
    BY HandshakeAssumption DEF Connection
  <1>2. SessionTyped(sTalk[c], sKey[c])
    BY DEF IInv, TypeOK, SessionTyped
  <1>3. QED
    BY <1>1, <1>2 DEF IInv, TypeOK, SessionsInv

\* What is left of the pipe to a session still is what it expects.
LEMMA SessionLosesTail ==
    ASSUME IInv, NEW c \in Connection, NEW n \in 0 .. Len(toServer[c])
    PROVE  ServerExpects(c, sState[c], sTalk[c], sKey[c], sChain[c],
                         SubSeq(toServer[c], 1, n))
  <1>1. CASE sState[c] = "failed"
    BY <1>1 DEF ServerExpects
  <1>2. CASE sState[c] # "failed"
    BY <1>2, SessionHas, LosesTail
  <1>3. QED
    BY <1>1, <1>2

\* No session has refused, so one that was made is in one of the other states.
LEMMA MadeState ==
    ASSUME IInv, NEW c \in Connection, sState[c] # "none"
    PROVE  sState[c] \in ServerOpen \cup {"failed", "over", "SECURE_SESSION"}
  BY SessionHas DEF ServerExpects, ServerOpen, InSession

\* What every step of the drone on its connection has at hand.
LEMMA DroneHas ==
    ASSUME IInv, dState # "exited"
    PROVE  /\ dConn \in Connection /\ dConn \in Nat /\ fresh \in Nat
           /\ Functions /\ linkUp \in [Connection -> BOOLEAN] /\ DOMAIN linkUp = Connection
           /\ SessionTyped(dTalk, dKey)
           /\ Joint(dConn, dState, dTalk, dKey, dChain, toDrone[dConn], sState[dConn],
                    sTalk[dConn], sKey[dConn], sChain[dConn], toServer[dConn], linkUp[dConn])
  <1>1. dConn \in Connection
    BY OnAConnection
  <1>2. SessionTyped(dTalk, dKey)
    BY DEF IInv, TypeOK, SessionTyped
  <1>3. Joint(dConn, dState, dTalk, dKey, dChain, toDrone[dConn], sState[dConn],
              sTalk[dConn], sKey[dConn], sChain[dConn], toServer[dConn], linkUp[dConn])
    BY <1>1, SessionHas DEF Joint, IInv, DroneInv
  <1>4. QED
    BY <1>1, <1>2, <1>3, SessionHas

\* A step of the drone after which its connection is the new whole.
LEMMA DroneSteps ==
    ASSUME IInv, dState # "exited", dState # "SECURE_SESSION",
           NEW ds \in DroneOpen,
           NEW dtalk, NEW dkey, NEW dchain, NEW ts, NEW td,
           dState' = ds, dTalk' = dtalk, dKey' = dkey, dChain' = dchain,
           UNCHANGED <<conns, dConn, linkUp, serverSide>>, fresh' \in Nat,
           Becomes(toServer, toServer', dConn, ts), Becomes(toDrone, toDrone', dConn, td),
           SessionTyped(dtalk, dkey),
           Joint(dConn, ds, dtalk, dkey, dchain, td, sState[dConn],
                 sTalk[dConn], sKey[dConn], sChain[dConn], ts, linkUp[dConn])
    PROVE  IInv'
  <1>1. JoinedOnce'
    BY JoinedKept DEF serverSide
  <1>2. Becomes(linkUp, linkUp', dConn, linkUp[dConn])
    BY DroneHas, BecomesBy
  <1>3. QED
    BY <1>1, <1>2, DroneHas, DroneMoves DEF Joint, serverSide

\* The drone has an answer to take.
LEMMA DroneHears ==
    ASSUME IInv, NEW state, NEW type, Hears(state, type), state \in DroneOpen
    PROVE  /\ dState = state /\ dState # "exited" /\ dState # "SECURE_SESSION"
           /\ toDrone[dConn] # <<>>
           /\ Becomes(toDrone, toDrone', dConn, Tail(toDrone[dConn]))
           /\ dConn \in Nat
           /\ Joint(dConn, state, dTalk, dKey, dChain, toDrone[dConn], sState[dConn],
                    sTalk[dConn], sKey[dConn], sChain[dConn], toServer[dConn], linkUp[dConn])
  <1>1. dState = state /\ toDrone[dConn] # <<>> /\ toDrone' = Take(toDrone, dConn)
    BY DEF Hears
  <1>2. dState # "exited" /\ dState # "SECURE_SESSION"
    BY <1>1 DEF DroneOpen
  <1>3. Becomes(toDrone, toDrone', dConn, Tail(toDrone[dConn]))
    BY <1>1, <1>2, DroneHas, TakeBecomes DEF Functions
  <1>4. QED
    BY <1>1, <1>2, <1>3, DroneHas

-----------------------------------------------------------------------------
(* Every step of a session keeps the invariant.                            *)

\* The steps of a session, each by the lemma of its part of the exchange.
LEMMA AnswerHelloKeeps ==
    ASSUME IInv, NEW c \in Connection, AnswerHello(c)
    PROVE  IInv'
  <1>1. sState[c] = "IDLE" /\ toServer[c] # <<>> /\ toServer' = Take(toServer, c)
    BY DEF AnswerHello, Gets
  <1>2. PICK ack : ack = HelloAck(Head(toServer[c]).random)
    OBVIOUS
  <1>3. /\ Head(toServer[c]).type = "HELLO"
        /\ SessionTyped(<<Head(toServer[c]), ack>>, sKey[c])
        /\ ServerExpects(c, "hello_acked", <<Head(toServer[c]), ack>>, sKey[c],
                         sChain[c], Tail(toServer[c]))
        /\ Together(c, dState, dTalk, dKey, dChain, toDrone[c], "IDLE", sTalk[c],
                    sKey[c], toServer[c], linkUp[c])
             => Together(c, dState, dTalk, dKey, dChain, Sent(toDrone[c], ack, linkUp[c]),
                         "hello_acked", <<Head(toServer[c]), ack>>, sKey[c],
                         Tail(toServer[c]), linkUp[c])
    BY <1>1, <1>2, SessionHas, HelloAnswered
  <1>4. /\ sTalk' = [sTalk EXCEPT ![c] = <<Head(toServer[c]), ack>>]
        /\ toDrone' = Put(toDrone, c, ack)
        /\ sState' = [sState EXCEPT ![c] = "hello_acked"]
        /\ sKey' = sKey /\ sChain' = sChain
    BY <1>2, <1>3 DEF AnswerHello, Request, Reply
  <1>5. fresh' = fresh /\ linkUp' = linkUp /\ UNCHANGED droneSide
    BY DEF AnswerHello
  <1>6. /\ Becomes(sState, sState', c, "hello_acked")
        /\ Becomes(sTalk, sTalk', c, <<Head(toServer[c]), ack>>)
        /\ Becomes(sKey, sKey', c, sKey[c]) /\ Becomes(sChain, sChain', c, sChain[c])
        /\ Becomes(toServer, toServer', c, Tail(toServer[c]))
        /\ Becomes(toDrone, toDrone', c, Sent(toDrone[c], ack, linkUp[c]))
        /\ Becomes(linkUp, linkUp', c, linkUp[c])
    BY <1>1, <1>4, <1>5, SessionHas, BecomesBy, PutBecomes, TakeBecomes DEF Functions
  <1>7. QED
    BY <1>1, <1>3, <1>5, <1>6, SessionHas, SessionMoves DEF ServerOpen

\* KEY_INIT goes out with a value never drawn before.
LEMMA SendKeyInitKeeps ==
    ASSUME IInv, NEW c \in Connection, SendKeyInit(c)
    PROVE  IInv'
  <1>1. /\ sState[c] = "hello_acked" /\ fresh' = fresh + 1 /\ fresh + 1 \in Nat
        /\ UNCHANGED <<sKey, sChain, toServer, linkUp, droneSide>>
    BY SessionHas DEF SendKeyInit
  <1>2. PICK new : new = Append(sTalk[c], KeyInit(fresh + 1))
    OBVIOUS
  <1>3. PICK s \in Nat : s = fresh + 1
    BY <1>1
  <1>4. /\ SessionTyped(new, sKey[c])
        /\ ServerExpects(c, "KEY_INIT_SENT", new, sKey[c], sChain[c], toServer[c])
        /\ Together(c, dState, dTalk, dKey, dChain, toDrone[c], "hello_acked", sTalk[c],
                    sKey[c], toServer[c], linkUp[c])
             => Together(c, dState, dTalk, dKey, dChain,
                         Sent(toDrone[c], KeyInit(s), linkUp[c]),
                         "KEY_INIT_SENT", new, sKey[c], toServer[c], linkUp[c])
    BY <1>1, <1>2, <1>3, SessionHas, KeyOffered
  <1>5. /\ sTalk' = [sTalk EXCEPT ![c] = new]
        /\ toDrone' = Put(toDrone, c, KeyInit(s))
        /\ sState' = [sState EXCEPT ![c] = "KEY_INIT_SENT"]
    BY <1>2, <1>3 DEF SendKeyInit, Reply
  <1>6. /\ Becomes(sState, sState', c, "KEY_INIT_SENT")
        /\ Becomes(sTalk, sTalk', c, new)
        /\ Becomes(sKey, sKey', c, sKey[c]) /\ Becomes(sChain, sChain', c, sChain[c])
        /\ Becomes(toServer, toServer', c, toServer[c])
        /\ Becomes(toDrone, toDrone', c, Sent(toDrone[c], KeyInit(s), linkUp[c]))
        /\ Becomes(linkUp, linkUp', c, linkUp[c])
    BY <1>1, <1>5, SessionHas, BecomesBy, PutBecomes DEF Functions
  <1>7. QED
    BY <1>1, <1>4, <1>6, SessionHas, SessionMoves DEF ServerOpen

\* KEY_RESP is taken, and the key with it.
LEMMA ExchangeKeyKeeps ==
    ASSUME IInv, NEW c \in Connection, ExchangeKey(c)
    PROVE  IInv'
  <1>1. /\ sState[c] = "KEY_INIT_SENT" /\ toServer[c] # <<>>
        /\ toServer' = Take(toServer, c) /\ UNCHANGED <<fresh, linkUp, droneSide>>
    BY DEF ExchangeKey, Gets
  <1>2. PICK resp, new, key :
           /\ resp = Head(toServer[c]) /\ new = Append(sTalk[c], resp) /\ key = resp.response
           /\ resp.type = "KEY_RESP" /\ resp.sid = SidOf(sTalk[c])
           /\ key = SessionKey(c, SidOf(sTalk[c]), resp.nonce)
           /\ SessionTyped(new, key)
           /\ ServerExpects(c, "KEY_EXCHANGE_DONE", new, key, sChain[c], Tail(toServer[c]))
           /\ \A ds, dtalk, dkey, dchain, td, up :
                  Together(c, ds, dtalk, dkey, dchain, td, "KEY_INIT_SENT", sTalk[c],
                           sKey[c], toServer[c], up)
                    => Together(c, ds, dtalk, dkey, dchain,
                                Sent(td, KeyConfirm(SidOf(sTalk[c]), new), up),
                                "KEY_EXCHANGE_DONE", new, key, Tail(toServer[c]), up)
    <2>1. c \in Nat /\ ServerExpects(c, "KEY_INIT_SENT", sTalk[c], sKey[c], sChain[c],
                                     toServer[c])
      BY <1>1, SessionHas
    <2>2. QED
      BY <1>1, <2>1, KeyExchanged
  <1>3. /\ sTalk' = [sTalk EXCEPT ![c] = new] /\ sKey' = [sKey EXCEPT ![c] = key]
        /\ toDrone' = Put(toDrone, c, KeyConfirm(SidOf(sTalk[c]), new))
        /\ sState' = [sState EXCEPT ![c] = "KEY_EXCHANGE_DONE"] /\ sChain' = sChain
    BY <1>2 DEF ExchangeKey, Reply, Request
  <1>4. /\ Becomes(sState, sState', c, "KEY_EXCHANGE_DONE")
        /\ Becomes(sTalk, sTalk', c, new) /\ Becomes(sKey, sKey', c, key)
        /\ Becomes(sChain, sChain', c, sChain[c])
        /\ Becomes(toServer, toServer', c, Tail(toServer[c]))
        /\ Becomes(toDrone, toDrone', c,
                   Sent(toDrone[c], KeyConfirm(SidOf(sTalk[c]), new), linkUp[c]))
        /\ Becomes(linkUp, linkUp', c, linkUp[c])
    BY <1>1, <1>3, SessionHas, BecomesBy, PutBecomes, TakeBecomes DEF Functions
  <1>5. /\ SessionTyped(new, key)
        /\ ServerExpects(c, "KEY_EXCHANGE_DONE", new, key, sChain[c], Tail(toServer[c]))
        /\ Together(c, dState, dTalk, dKey, dChain, toDrone[c], sState[c], sTalk[c],
                    sKey[c], toServer[c], linkUp[c])
             => Together(c, dState, dTalk, dKey, dChain,
                         Sent(toDrone[c], KeyConfirm(SidOf(sTalk[c]), new), linkUp[c]),
                         "KEY_EXCHANGE_DONE", new, key, Tail(toServer[c]), linkUp[c])
    BY <1>1, <1>2
  <1>6. QED
    <2>1. /\ sState[c] # "none" /\ fresh' \in Nat /\ UNCHANGED droneSide
          /\ linkUp' \in [Connection -> BOOLEAN] /\ "KEY_EXCHANGE_DONE" \in ServerOpen
      BY <1>1, SessionHas DEF ServerOpen
    <2>2. QED
      BY <1>4, <1>5, <2>1, SessionMoves

\* DRONE_AUTH is verified and answered.
LEMMA VerifyDroneAuthKeeps ==
    ASSUME IInv, NEW c \in Connection, VerifyDroneAuth(c)
    PROVE  IInv'
  <1>1. /\ sState[c] = "KEY_EXCHANGE_DONE" /\ toServer[c] # <<>>
        /\ toServer' = Take(toServer, c) /\ UNCHANGED <<fresh, linkUp, droneSide>>
    BY DEF VerifyDroneAuth, Gets
  <1>2. PICK chain : chain = Chained(Head(toServer[c]))
    OBVIOUS
  <1>3. /\ Head(toServer[c]) = DroneAuth(SidOf(sTalk[c]), sTalk[c], sChain[c])
        /\ ServerExpects(c, "server_auth_written", sTalk[c], sKey[c], chain, Tail(toServer[c]))
        /\ Together(c, dState, dTalk, dKey, dChain, toDrone[c], "KEY_EXCHANGE_DONE", sTalk[c],
                    sKey[c], toServer[c], linkUp[c])
             => Together(c, dState, dTalk, dKey, dChain,
                         Sent(toDrone[c], ServerAuth(chain), linkUp[c]),
                         "server_auth_written", sTalk[c], sKey[c], Tail(toServer[c]), linkUp[c])
    BY <1>1, <1>2, SessionHas, DroneAuthVerified
  <1>4. /\ sChain' = [sChain EXCEPT ![c] = chain]
        /\ toDrone' = Put(toDrone, c, ServerAuth(chain))
        /\ sState' = [sState EXCEPT ![c] = "server_auth_written"]
        /\ sTalk' = sTalk /\ sKey' = sKey
    BY <1>2, <1>3 DEF VerifyDroneAuth, Reply, Request
  <1>5. /\ Becomes(sState, sState', c, "server_auth_written")
        /\ Becomes(sTalk, sTalk', c, sTalk[c]) /\ Becomes(sKey, sKey', c, sKey[c])
        /\ Becomes(sChain, sChain', c, chain)
        /\ Becomes(toServer, toServer', c, Tail(toServer[c]))
        /\ Becomes(toDrone, toDrone', c, Sent(toDrone[c], ServerAuth(chain), linkUp[c]))
        /\ Becomes(linkUp, linkUp', c, linkUp[c])
    BY <1>1, <1>4, SessionHas, BecomesBy, PutBecomes, TakeBecomes DEF Functions
  <1>6. QED
    BY <1>1, <1>3, <1>5, SessionHas, SessionMoves DEF ServerOpen

\* The server chains its own block.
LEMMA OpenChannelsKeeps ==
    ASSUME IInv, NEW c \in Connection, OpenChannels(c)
    PROVE  IInv'
  <1>1. /\ sState[c] = "server_auth_written"
        /\ UNCHANGED <<fresh, sTalk, sKey, network, droneSide>>
    BY DEF OpenChannels
  <1>2. PICK chain : chain = Chained(ServerAuth(sChain[c]))
    OBVIOUS
  <1>3. /\ ServerExpects(c, "SERVER_AUTH_SENT", sTalk[c], sKey[c], chain, toServer[c])
        /\ Together(c, dState, dTalk, dKey, dChain, toDrone[c], "server_auth_written",
                    sTalk[c], sKey[c], toServer[c], linkUp[c])
             => Together(c, dState, dTalk, dKey, dChain, toDrone[c],
                         "SERVER_AUTH_SENT", sTalk[c], sKey[c], toServer[c], linkUp[c])
    BY <1>1, <1>2, SessionHas, ChannelsOpened
  <1>4. /\ sChain' = [sChain EXCEPT ![c] = chain]
        /\ sState' = [sState EXCEPT ![c] = "SERVER_AUTH_SENT"]
    BY <1>2, SessionHas DEF OpenChannels, Functions
  <1>5. /\ Becomes(sState, sState', c, "SERVER_AUTH_SENT")
        /\ Becomes(sTalk, sTalk', c, sTalk[c]) /\ Becomes(sKey, sKey', c, sKey[c])
        /\ Becomes(sChain, sChain', c, chain)
        /\ Becomes(toServer, toServer', c, toServer[c])
        /\ Becomes(toDrone, toDrone', c, toDrone[c])
        /\ Becomes(linkUp, linkUp', c, linkUp[c])
    BY <1>1, <1>4, SessionHas, BecomesBy DEF Functions, network
  <1>6. QED
    BY <1>1, <1>3, <1>5, SessionHas, SessionMoves DEF ServerOpen, network

\* CONFIRM is verified: the session is entered.
LEMMA VerifyConfirmKeeps ==
    ASSUME IInv, NEW c \in Connection, VerifyConfirm(c)
    PROVE  IInv'
  <1>1. /\ sState[c] = "SERVER_AUTH_SENT" /\ toServer[c] # <<>>
        /\ toServer' = Take(toServer, c) /\ UNCHANGED <<fresh, linkUp, droneSide>>
    BY DEF VerifyConfirm, Gets
  <1>2. /\ Head(toServer[c]) = Confirm(sChain[c])
        /\ ServerExpects(c, "SECURE_SESSION", sTalk[c], sKey[c], sChain[c], Tail(toServer[c]))
        /\ Together(c, dState, dTalk, dKey, dChain, toDrone[c], "SERVER_AUTH_SENT", sTalk[c],
                    sKey[c], toServer[c], linkUp[c])
             => Together(c, dState, dTalk, dKey, dChain, Sent(toDrone[c], Ok, linkUp[c]),
                         "SECURE_SESSION", sTalk[c], sKey[c], Tail(toServer[c]), linkUp[c])
    BY <1>1, SessionHas, ConfirmVerified
  <1>3. /\ toDrone' = Put(toDrone, c, Ok)
        /\ sState' = [sState EXCEPT ![c] = "SECURE_SESSION"]
        /\ sTalk' = sTalk /\ sKey' = sKey /\ sChain' = sChain
    BY <1>2 DEF VerifyConfirm, Reply, Request
  <1>4. /\ Becomes(sState, sState', c, "SECURE_SESSION")
        /\ Becomes(sTalk, sTalk', c, sTalk[c]) /\ Becomes(sKey, sKey', c, sKey[c])
        /\ Becomes(sChain, sChain', c, sChain[c])
        /\ Becomes(toServer, toServer', c, Tail(toServer[c]))
        /\ Becomes(toDrone, toDrone', c, Sent(toDrone[c], Ok, linkUp[c]))
        /\ Becomes(linkUp, linkUp', c, linkUp[c])
    BY <1>1, <1>3, SessionHas, BecomesBy, PutBecomes, TakeBecomes DEF Functions
  <1>5. QED
    BY <1>1, <1>2, <1>4, SessionHas, SessionMoves

\* A session is begun, fails or is over: nothing else of it changes.
LEMMA SessionTurnKeeps ==
    ASSUME IInv, NEW c \in Connection,
           SessionStarts(c) \/ SessionFails(c) \/ SessionReadFails(c) \/ SecureLoopEnds(c)
    PROVE  IInv'
  <1>1. UNCHANGED <<fresh, sTalk, sKey, sChain, network, droneSide>>
    BY DEF SessionStarts, SessionFails, SessionReadFails, SecureLoopEnds
  <1>2. PICK st : /\ sState' = [sState EXCEPT ![c] = st]
                  /\ \/ sState[c] = "queued" /\ st = "IDLE"
                     \/ sState[c] \in ServerOpen /\ st = "failed"
                     \/ sState[c] = "SECURE_SESSION" /\ st = "over"
    BY DEF SessionStarts, SessionFails, SessionReadFails, SecureLoopEnds, ServerWaiting,
           ServerOpen
  <1>3. st \in ServerOpen \cup {"failed", "over", "SECURE_SESSION"} /\ sState[c] # "none"
    BY <1>2 DEF ServerOpen
  <1>4. /\ ServerExpects(c, st, sTalk[c], sKey[c], sChain[c], toServer[c])
        /\ Together(c, dState, dTalk, dKey, dChain, toDrone[c], sState[c],
                    sTalk[c], sKey[c], toServer[c], linkUp[c])
             => Together(c, dState, dTalk, dKey, dChain, toDrone[c],
                         st, sTalk[c], sKey[c], toServer[c], linkUp[c])
    BY <1>2, SessionHas, SessionTurns
  <1>5. /\ Becomes(sState, sState', c, st)
        /\ Becomes(sTalk, sTalk', c, sTalk[c]) /\ Becomes(sKey, sKey', c, sKey[c])
        /\ Becomes(sChain, sChain', c, sChain[c])
        /\ Becomes(toServer, toServer', c, toServer[c])
        /\ Becomes(toDrone, toDrone', c, toDrone[c])
        /\ Becomes(linkUp, linkUp', c, linkUp[c])
    BY <1>1, <1>2, SessionHas, BecomesBy DEF Functions, network
  <1>6. QED
    BY <1>1, <1>3, <1>4, <1>5, SessionHas, SessionMoves DEF network

\* The connection goes down, and each end may not get all it was sent.
LEMMA DownKeeps ==
    ASSUME IInv, NEW c \in Connection, sState[c] # "none",
           UNCHANGED <<fresh, server, droneSide>>,
           linkUp' = [linkUp EXCEPT ![c] = FALSE],
           NEW x, NEW m \in 0 .. Len(toDrone[c]),
           x = <<>> \/ \E n \in 0 .. Len(toServer[c]) : x = SubSeq(toServer[c], 1, n),
           toServer' = [toServer EXCEPT ![c] = x],
           toDrone' = [toDrone EXCEPT ![c] = SubSeq(toDrone[c], 1, m)]
    PROVE  IInv'
  <1>1. ServerExpects(c, sState[c], sTalk[c], sKey[c], sChain[c], x)
    <2>1. CASE x = <<>>
      BY <2>1, SessionHas DEF ServerExpects, InSession
    <2>2. CASE \E n \in 0 .. Len(toServer[c]) : x = SubSeq(toServer[c], 1, n)
      BY <2>2, SessionLosesTail
    <2>3. QED
      BY <2>1, <2>2
  <1>2. PICK td : td = SubSeq(toDrone[c], 1, m)
    OBVIOUS
  <1>3. PICK down : down = FALSE /\ ~down
    OBVIOUS
  <1>4. Together(c, dState, dTalk, dKey, dChain, toDrone[c], sState[c], sTalk[c],
                    sKey[c], toServer[c], linkUp[c])
             => Together(c, dState, dTalk, dKey, dChain, td, sState[c], sTalk[c],
                         sKey[c], x, down)
    <2>1. SUFFICES ASSUME Together(c, dState, dTalk, dKey, dChain, toDrone[c], sState[c],
                                   sTalk[c], sKey[c], toServer[c], linkUp[c])
                   PROVE  Together(c, dState, dTalk, dKey, dChain, td, sState[c], sTalk[c],
                                   sKey[c], x, down)
      OBVIOUS
    <2>2. Joint(c, dState, dTalk, dKey, dChain, toDrone[c], sState[c], sTalk[c], sKey[c],
                sChain[c], toServer[c], linkUp[c])
      BY <2>1, SessionHas DEF Joint
    <2>3. QED
      BY <1>2, <1>3, <2>2, BothLoseTails
  <1>5. /\ Becomes(sState, sState', c, sState[c])
        /\ Becomes(sTalk, sTalk', c, sTalk[c]) /\ Becomes(sKey, sKey', c, sKey[c])
        /\ Becomes(sChain, sChain', c, sChain[c])
        /\ Becomes(toServer, toServer', c, x) /\ Becomes(toDrone, toDrone', c, td)
        /\ Becomes(linkUp, linkUp', c, down)
    BY <1>2, <1>3, SessionHas, BecomesBy DEF Functions, server
  <1>6. linkUp' \in [Connection -> BOOLEAN]
    BY SessionHas
  <1>7. QED
    BY <1>1, <1>4, <1>5, <1>6, SessionHas, MadeState, SessionMoves

\* The connection breaks, with a tail of each pipe.
LEMMA LinkBreaksKeeps ==
    ASSUME IInv, NEW c \in Connection, LinkBreaks(c)
    PROVE  IInv'
  <1>1. PICK n \in 0 .. Len(toServer[c]), m \in 0 .. Len(toDrone[c]) :
           /\ toServer' = [toServer EXCEPT ![c] = SubSeq(@, 1, n)]
           /\ toDrone' = [toDrone EXCEPT ![c] = SubSeq(@, 1, m)]
    BY DEF LinkBreaks
  <1>2. PICK x : x = SubSeq(toServer[c], 1, n)
    OBVIOUS
  <1>3. sState[c] # "none"
    BY DEF LinkBreaks, IInv, Unmade
  <1>4. /\ UNCHANGED <<fresh, server, droneSide>>
        /\ linkUp' = [linkUp EXCEPT ![c] = FALSE]
    BY DEF LinkBreaks, droneSide
  <1>5. /\ toServer' = [toServer EXCEPT ![c] = x]
        /\ toDrone' = [toDrone EXCEPT ![c] = SubSeq(toDrone[c], 1, m)]
    BY <1>1, <1>2
  <1>6. QED
    BY <1>2, <1>3, <1>4, <1>5, DownKeeps

\* The worker closes the connection of a session that has ended.
LEMMA SessionClosesKeeps ==
    ASSUME IInv, NEW c \in Connection, SessionCloses(c)
    PROVE  IInv'
  <1>1. PICK m \in 0 .. Len(toDrone[c]) : toDrone' = [toDrone EXCEPT ![c] = SubSeq(@, 1, m)]
    BY DEF SessionCloses, Cut
  <1>2. /\ UNCHANGED <<fresh, server, droneSide>> /\ sState[c] # "none"
        /\ linkUp' = [linkUp EXCEPT ![c] = FALSE]
        /\ toServer' = [toServer EXCEPT ![c] = <<>>]
    BY DEF SessionCloses, Cut
  <1>3. toDrone' = [toDrone EXCEPT ![c] = SubSeq(toDrone[c], 1, m)]
    BY <1>1
  <1>4. QED
    BY <1>2, <1>3, DownKeeps

-----------------------------------------------------------------------------
(* Every step of the drone keeps it.                                       *)

\* The steps of the drone, each by the lemma of its part of the exchange.
LEMMA ConnectedKeeps ==
    ASSUME IInv, Connected
    PROVE  IInv'
  <1>1. /\ dState = "connecting" /\ sState[dConn] # "queued" /\ dState' = "IDLE"
        /\ UNCHANGED <<conns, fresh, dConn, dTalk, dKey, dChain, network, serverSide>>
    BY DEF Connected
  <1>2. Joint(dConn, "IDLE", dTalk, dKey, dChain, toDrone[dConn], sState[dConn],
              sTalk[dConn], sKey[dConn], sChain[dConn], toServer[dConn], linkUp[dConn])
    BY <1>1, DroneHas, DroneReady
  <1>3. /\ Becomes(toServer, toServer', dConn, toServer[dConn])
        /\ Becomes(toDrone, toDrone', dConn, toDrone[dConn])
    BY <1>1, DroneHas, BecomesBy DEF network, Functions
  <1>4. QED
    BY <1>1, <1>2, <1>3, DroneHas, DroneSteps DEF network, DroneOpen

\* HELLO goes out with a value never drawn before.
LEMMA SendHelloKeeps ==
    ASSUME IInv, SendHello
    PROVE  IInv'
  <1>1. /\ dState = "IDLE" /\ dState' = "HELLO_SENT" /\ fresh' = fresh + 1
        /\ UNCHANGED <<conns, dConn, dKey, dChain, toDrone, linkUp, serverSide>>
    BY DEF SendHello
  <1>2. fresh + 1 \in Nat /\ dState # "exited" /\ dState # "SECURE_SESSION"
    BY <1>1, DroneHas
  <1>3. PICK r \in Nat : r = fresh + 1
    BY <1>2
  <1>4. /\ SessionTyped(<<Hello(r)>>, dKey)
        /\ Joint(dConn, "HELLO_SENT", <<Hello(r)>>, dKey, dChain, toDrone[dConn],
              sState[dConn], sTalk[dConn], sKey[dConn], sChain[dConn],
              Sent(toServer[dConn], Hello(r), linkUp[dConn]), linkUp[dConn])
    <2>1. dConn \in Nat
      BY <1>2, DroneHas
    <2>2. Joint(dConn, "IDLE", dTalk, dKey, dChain, toDrone[dConn], sState[dConn],
              sTalk[dConn], sKey[dConn], sChain[dConn], toServer[dConn], linkUp[dConn])
      BY <1>1, DroneHas
    <2>3. QED
      BY <2>1, <2>2, HelloSent
  <1>5. dTalk' = <<Hello(r)>> /\ toServer' = Put(toServer, dConn, Hello(r))
    BY <1>3 DEF SendHello
  <1>6. /\ Becomes(toServer, toServer', dConn, Sent(toServer[dConn], Hello(r), linkUp[dConn]))
        /\ Becomes(toDrone, toDrone', dConn, toDrone[dConn])
    BY <1>1, <1>2, <1>5, DroneHas, BecomesBy, PutBecomes DEF Functions
  <1>7. "HELLO_SENT" \in DroneOpen /\ fresh' \in Nat /\ dKey' = dKey /\ dChain' = dChain
    BY <1>1, <1>2 DEF DroneOpen
  <1>8. QED
    BY <1>1, <1>2, <1>4, <1>5, <1>6, <1>7, DroneSteps

\* HELLO_ACK is taken.
LEMMA HandleHelloAckKeeps ==
    ASSUME IInv, HandleHelloAck
    PROVE  IInv'
  <1>1. /\ dState = "HELLO_SENT" /\ dState # "exited" /\ dState # "SECURE_SESSION"
        /\ toDrone[dConn] # <<>> /\ Becomes(toDrone, toDrone', dConn, Tail(toDrone[dConn]))
        /\ dConn \in Nat
        /\ Joint(dConn, "HELLO_SENT", dTalk, dKey, dChain, toDrone[dConn], sState[dConn],
                 sTalk[dConn], sKey[dConn], sChain[dConn], toServer[dConn], linkUp[dConn])
    BY DroneHears DEF HandleHelloAck, DroneOpen
  <1>2. PICK new : new = Append(dTalk, Head(toDrone[dConn]))
    OBVIOUS
  <1>3. /\ Head(toDrone[dConn]) = HelloAck(dTalk[1].random)
        /\ SessionTyped(new, dKey)
        /\ Joint(dConn, "KEY_EXCHANGE", new, dKey, dChain, Tail(toDrone[dConn]),
                 sState[dConn], sTalk[dConn], sKey[dConn], sChain[dConn],
                 toServer[dConn], linkUp[dConn])
    BY <1>1, <1>2, AckHeard
  <1>4. /\ dState' = "KEY_EXCHANGE" /\ dTalk' = new /\ dKey' = dKey /\ dChain' = dChain
        /\ fresh' = fresh /\ toServer' = toServer
        /\ UNCHANGED <<conns, dConn, linkUp, serverSide>>
    BY <1>2, <1>3 DEF HandleHelloAck, Answer
  <1>5. Becomes(toServer, toServer', dConn, toServer[dConn])
    BY <1>1, <1>4, DroneHas, BecomesBy DEF Functions
  <1>6. "KEY_EXCHANGE" \in DroneOpen /\ fresh' \in Nat
    BY <1>1, <1>4, DroneHas DEF DroneOpen
  <1>7. QED
    BY <1>1, <1>3, <1>4, <1>5, <1>6, DroneSteps

\* KEY_INIT is taken and answered, and the drone has its key.
LEMMA HandleKeyInitKeeps ==
    ASSUME IInv, HandleKeyInit
    PROVE  IInv'
  <1>1. /\ dState = "KEY_EXCHANGE" /\ dState # "exited" /\ dState # "SECURE_SESSION"
        /\ toDrone[dConn] # <<>> /\ Becomes(toDrone, toDrone', dConn, Tail(toDrone[dConn]))
        /\ dConn \in Nat
        /\ Joint(dConn, "KEY_EXCHANGE", dTalk, dKey, dChain, toDrone[dConn], sState[dConn],
                 sTalk[dConn], sKey[dConn], sChain[dConn], toServer[dConn], linkUp[dConn])
    BY DroneHears DEF HandleKeyInit, DroneOpen
  <1>2. PICK n \in Nat : n = fresh + 1
    BY <1>1, DroneHas
  <1>3. PICK r \in Nat, s \in Nat : dTalk = Greeted(r) /\ toDrone[dConn] = <<KeyInit(s)>>
    BY <1>1, KeyInitComes
  <1>4. /\ Head(toDrone[dConn]) = KeyInit(s) /\ Tail(toDrone[dConn]) = <<>>
        /\ KeyInit(s).type = "KEY_INIT" /\ KeyInit(s).sid = s
    BY <1>3, OneMessage DEF KeyInit
  <1>5. PICK key, resp, new :
            /\ key = SessionKey(dConn, s, n) /\ resp = KeyResp(s, n, SessionKey(dConn, s, n))
            /\ new = Exchanged(dConn, r, s, n)
    OBVIOUS
  <1>6. /\ SessionTyped(new, key)
        /\ Joint(dConn, "key_resp_sent", new, key, dChain, Tail(toDrone[dConn]),
                 sState[dConn], sTalk[dConn], sKey[dConn], sChain[dConn],
                 Sent(toServer[dConn], resp, linkUp[dConn]), linkUp[dConn])
    <2>1. Joint(dConn, "KEY_EXCHANGE", Greeted(r), dKey, dChain, <<KeyInit(s)>>, sState[dConn],
                sTalk[dConn], sKey[dConn], sChain[dConn], toServer[dConn], linkUp[dConn])
      BY <1>1, <1>3
    <2>2. QED
      BY <1>1, <1>4, <1>5, <2>1, KeyInitHeard
  <1>7. new = dTalk \o <<KeyInit(s), resp>>
    BY <1>3, <1>5, ExchangedBy
  <1>8. /\ dState' = "key_resp_sent" /\ dTalk' = new /\ dKey' = key /\ dChain' = dChain
        /\ fresh' = n /\ toServer' = Put(toServer, dConn, resp)
        /\ UNCHANGED <<conns, dConn, linkUp, serverSide>>
    BY <1>2, <1>4, <1>5, <1>7 DEF HandleKeyInit, Answer
  <1>9. Becomes(toServer, toServer', dConn, Sent(toServer[dConn], resp, linkUp[dConn]))
    BY <1>1, <1>8, DroneHas, PutBecomes DEF Functions
  <1>10. "key_resp_sent" \in DroneOpen
    BY DEF DroneOpen
  <1>11. QED
    BY <1>1, <1>6, <1>8, <1>9, <1>10, DroneSteps

\* KEY_CONFIRM is taken.
LEMMA HandleKeyConfirmKeeps ==
    ASSUME IInv, HandleKeyConfirm
    PROVE  IInv'
  <1>1. /\ dState = "key_resp_sent" /\ dState # "exited" /\ dState # "SECURE_SESSION"
        /\ toDrone[dConn] # <<>> /\ Becomes(toDrone, toDrone', dConn, Tail(toDrone[dConn]))
        /\ dConn \in Nat
        /\ Joint(dConn, "key_resp_sent", dTalk, dKey, dChain, toDrone[dConn], sState[dConn],
                 sTalk[dConn], sKey[dConn], sChain[dConn], toServer[dConn], linkUp[dConn])
    BY DroneHears DEF HandleKeyConfirm, DroneOpen
  <1>2. /\ Head(toDrone[dConn]) = KeyConfirm(SidOf(dTalk), dTalk)
        /\ Joint(dConn, "KEY_CONFIRMED", dTalk, dKey, dChain, Tail(toDrone[dConn]),
                 sState[dConn], sTalk[dConn], sKey[dConn], sChain[dConn],
                 toServer[dConn], linkUp[dConn])
    BY <1>1, KeyConfirmHeard
  <1>3. /\ dState' = "KEY_CONFIRMED" /\ dTalk' = dTalk /\ dKey' = dKey /\ dChain' = dChain
        /\ fresh' = fresh /\ toServer' = toServer
        /\ UNCHANGED <<conns, dConn, linkUp, serverSide>>
    BY <1>2 DEF HandleKeyConfirm, Answer
  <1>4. Becomes(toServer, toServer', dConn, toServer[dConn])
    BY <1>1, <1>3, DroneHas, BecomesBy DEF Functions
  <1>5. "KEY_CONFIRMED" \in DroneOpen /\ fresh' \in Nat /\ SessionTyped(dTalk, dKey)
    BY <1>1, <1>3, DroneHas DEF DroneOpen
  <1>6. QED
    BY <1>1, <1>2, <1>3, <1>4, <1>5, DroneSteps

\* DRONE_AUTH goes out.
LEMMA BuildDroneAuthKeeps ==
    ASSUME IInv, BuildDroneAuth
    PROVE  IInv'
  <1>1. /\ dState = "KEY_CONFIRMED" /\ dState # "exited" /\ dState # "SECURE_SESSION"
        /\ UNCHANGED <<conns, fresh, dConn, dTalk, dKey, toDrone, linkUp, serverSide>>
    BY DEF BuildDroneAuth
  <1>2. PICK auth : auth = DroneAuth(SidOf(dTalk), dTalk, dChain)
    OBVIOUS
  <1>3. PICK chain : chain = Chained(auth)
    OBVIOUS
  <1>4. Joint(dConn, "DRONE_AUTH_SENT", dTalk, dKey, chain, toDrone[dConn],
              sState[dConn], sTalk[dConn], sKey[dConn], sChain[dConn],
              Sent(toServer[dConn], auth, linkUp[dConn]), linkUp[dConn])
    <2>1. Joint(dConn, "KEY_CONFIRMED", dTalk, dKey, dChain, toDrone[dConn], sState[dConn],
                sTalk[dConn], sKey[dConn], sChain[dConn], toServer[dConn], linkUp[dConn])
      BY <1>1, DroneHas
    <2>2. dConn \in Nat
      BY <1>1, DroneHas
    <2>3. QED
      BY <1>2, <1>3, <2>1, <2>2, DroneAuthSent
  <1>5. /\ dState' = "DRONE_AUTH_SENT" /\ dChain' = chain
        /\ toServer' = Put(toServer, dConn, auth)
    BY <1>2, <1>3 DEF BuildDroneAuth
  <1>6. /\ Becomes(toServer, toServer', dConn, Sent(toServer[dConn], auth, linkUp[dConn]))
        /\ Becomes(toDrone, toDrone', dConn, toDrone[dConn])
    BY <1>1, <1>5, DroneHas, BecomesBy, PutBecomes DEF Functions
  <1>7. "DRONE_AUTH_SENT" \in DroneOpen /\ fresh' \in Nat /\ SessionTyped(dTalk, dKey)
    BY <1>1, DroneHas DEF DroneOpen
  <1>8. QED
    BY <1>1, <1>4, <1>5, <1>6, <1>7, DroneSteps

\* SERVER_AUTH is taken.
LEMMA HandleServerAuthKeeps ==
    ASSUME IInv, HandleServerAuth
    PROVE  IInv'
  <1>1. /\ dState = "DRONE_AUTH_SENT" /\ dState # "exited" /\ dState # "SECURE_SESSION"
        /\ toDrone[dConn] # <<>> /\ Becomes(toDrone, toDrone', dConn, Tail(toDrone[dConn]))
        /\ dConn \in Nat
        /\ Joint(dConn, "DRONE_AUTH_SENT", dTalk, dKey, dChain, toDrone[dConn], sState[dConn],
                 sTalk[dConn], sKey[dConn], sChain[dConn], toServer[dConn], linkUp[dConn])
    BY DroneHears DEF HandleServerAuth, DroneOpen
  <1>2. PICK chain : chain = Chained(Head(toDrone[dConn]))
    OBVIOUS
  <1>3. /\ Head(toDrone[dConn]) = ServerAuth(dChain)
        /\ Joint(dConn, "SERVER_AUTH_VERIFIED", dTalk, dKey, chain, Tail(toDrone[dConn]),
                 sState[dConn], sTalk[dConn], sKey[dConn], sChain[dConn],
                 toServer[dConn], linkUp[dConn])
    BY <1>1, <1>2, ServerAuthHeard
  <1>4. /\ dState' = "SERVER_AUTH_VERIFIED" /\ dTalk' = dTalk /\ dKey' = dKey
        /\ dChain' = chain /\ fresh' = fresh /\ toServer' = toServer
        /\ UNCHANGED <<conns, dConn, linkUp, serverSide>>
    BY <1>2, <1>3 DEF HandleServerAuth, Answer
  <1>5. Becomes(toServer, toServer', dConn, toServer[dConn])
    BY <1>1, <1>4, DroneHas, BecomesBy DEF Functions
  <1>6. "SERVER_AUTH_VERIFIED" \in DroneOpen /\ fresh' \in Nat /\ SessionTyped(dTalk, dKey)
    BY <1>1, <1>4, DroneHas DEF DroneOpen
  <1>7. QED
    BY <1>1, <1>3, <1>4, <1>5, <1>6, DroneSteps

\* CONFIRM goes out.
LEMMA BuildConfirmKeeps ==
    ASSUME IInv, BuildConfirm
    PROVE  IInv'
  <1>1. /\ dState = "SERVER_AUTH_VERIFIED" /\ dState # "exited" /\ dState # "SECURE_SESSION"
        /\ dState' = "confirm_sent" /\ toServer' = Put(toServer, dConn, Confirm(dChain))
        /\ UNCHANGED <<conns, fresh, dConn, dTalk, dKey, dChain, toDrone, linkUp, serverSide>>
    BY DEF BuildConfirm
  <1>2. Joint(dConn, "confirm_sent", dTalk, dKey, dChain, toDrone[dConn],
              sState[dConn], sTalk[dConn], sKey[dConn], sChain[dConn],
              Sent(toServer[dConn], Confirm(dChain), linkUp[dConn]), linkUp[dConn])
    <2>1. Joint(dConn, "SERVER_AUTH_VERIFIED", dTalk, dKey, dChain, toDrone[dConn],
                sState[dConn], sTalk[dConn], sKey[dConn], sChain[dConn], toServer[dConn],
                linkUp[dConn])
      BY <1>1, DroneHas
    <2>2. dConn \in Nat
      BY <1>1, DroneHas
    <2>3. QED
      BY <2>1, <2>2, ConfirmSent
  <1>3. /\ Becomes(toServer, toServer', dConn,
                   Sent(toServer[dConn], Confirm(dChain), linkUp[dConn]))
        /\ Becomes(toDrone, toDrone', dConn, toDrone[dConn])
    BY <1>1, DroneHas, BecomesBy, PutBecomes DEF Functions
  <1>4. "confirm_sent" \in DroneOpen /\ fresh' \in Nat /\ SessionTyped(dTalk, dKey)
    BY <1>1, DroneHas DEF DroneOpen
  <1>5. QED
    BY <1>1, <1>2, <1>3, <1>4, DroneSteps

\* The OK is taken: the drone joins a session that it has joined no part of before.
LEMMA FinalizeConfirmKeeps ==
    ASSUME IInv, FinalizeConfirm
    PROVE  IInv'
  <1>1. /\ dState = "confirm_sent" /\ dState # "exited" /\ dState # "SECURE_SESSION"
        /\ toDrone[dConn] # <<>> /\ Becomes(toDrone, toDrone', dConn, Tail(toDrone[dConn]))
        /\ dConn \in Nat
        /\ Joint(dConn, "confirm_sent", dTalk, dKey, dChain, toDrone[dConn], sState[dConn],
                 sTalk[dConn], sKey[dConn], sChain[dConn], toServer[dConn], linkUp[dConn])
    BY DroneHears DEF FinalizeConfirm, DroneOpen
  <1>2. /\ Head(toDrone[dConn]) = Ok
        /\ Joint(dConn, "SECURE_SESSION", dTalk, dKey, dChain, Tail(toDrone[dConn]),
                 sState[dConn], sTalk[dConn], sKey[dConn], sChain[dConn],
                 toServer[dConn], linkUp[dConn])
    BY <1>1, OkHeard
  <1>3. /\ dState' = "SECURE_SESSION" /\ dTalk' = dTalk /\ dKey' = dKey /\ dChain' = dChain
        /\ fresh' = fresh /\ toServer' = toServer
        /\ UNCHANGED <<conns, dConn, linkUp, server>>
    BY <1>2 DEF FinalizeConfirm, Answer
  <1>4. joined' = joined \cup {[key |-> dKey, talk |-> dTalk, chain |-> dChain]}
    BY <1>2 DEF FinalizeConfirm, Answer
  <1>5. /\ Becomes(toServer, toServer', dConn, toServer[dConn])
        /\ Becomes(linkUp, linkUp', dConn, linkUp[dConn])
    BY <1>1, <1>3, DroneHas, BecomesBy DEF Functions
  <1>6. JoinedOnce'
    <2>1. PICK s \in Nat, n \in Nat : dKey = SessionKey(dConn, s, n)
      BY <1>1 DEF Joint, Together, DroneExpects, InSession
    <2>2. dConn \in 1 .. conns
      BY <1>1 DEF IInv, OnConnection
    <2>3. ASSUME NEW j \in joined'
          PROVE  \E c \in 1 .. conns, s1, n1 \in Nat : j.key = SessionKey(c, s1, n1)
      <3>1. CASE j \in joined
        BY <3>1 DEF IInv, JoinedOnce
      <3>2. CASE j = [key |-> dKey, talk |-> dTalk, chain |-> dChain]
        BY <2>1, <2>2, <3>2
      <3>3. QED
        BY <1>4, <3>1, <3>2
    <2>4. QED
      BY <1>3, <2>3 DEF JoinedOnce
  <1>7. /\ fresh' \in Nat /\ SessionTyped(dTalk, dKey) /\ linkUp' \in [Connection -> BOOLEAN]
    BY <1>1, <1>3, DroneHas
  <1>8. QED
    BY <1>1, <1>2, <1>3, <1>5, <1>6, <1>7, DroneMoves DEF Joint

\* A drone that fails is no longer in step with anybody, and need not be.
LEMMA DroneFailKeeps ==
    ASSUME IInv, DroneFails \/ DroneReadFails
    PROVE  IInv'
  <1>1. /\ dState \in DroneOpen /\ dState' = "failed"
        /\ UNCHANGED <<conns, fresh, dConn, dTalk, dKey, dChain, network, serverSide>>
    BY DEF DroneFails, DroneReadFails, DroneOpen, DroneWaiting
  <1>2. dState # "exited" /\ dState # "SECURE_SESSION"
    BY <1>1 DEF DroneOpen
  <1>3. Together(dConn, "failed", dTalk, dKey, dChain, toDrone[dConn], sState[dConn],
                 sTalk[dConn], sKey[dConn], toServer[dConn], linkUp[dConn])
    BY DEF Together, DroneExpects, InStep
  <1>4. /\ Becomes(toServer, toServer', dConn, toServer[dConn])
        /\ Becomes(toDrone, toDrone', dConn, toDrone[dConn])
        /\ Becomes(linkUp, linkUp', dConn, linkUp[dConn])
    BY <1>1, <1>2, DroneHas, BecomesBy DEF Functions, network
  <1>5. JoinedOnce'
    BY <1>1, <1>2, JoinedKept DEF serverSide
  <1>6. QED
    BY <1>1, <1>2, <1>3, <1>4, <1>5, DroneHas, DroneMoves DEF Joint, network, serverSide

\* Nor is one that is gone; what it sent before may still come in, or be cut short.
LEMMA DroneExitKeeps ==
    ASSUME IInv, DroneExits \/ PowerFails
    PROVE  IInv'
  <1>1. /\ dState # "exited" /\ dState' = "exited"
        /\ UNCHANGED <<conns, fresh, dConn, dTalk, dKey, dChain, serverSide>>
    BY DEF DroneExits, PowerFails
  <1>2. UNCHANGED network \/ Cut(dConn, toServer, toDrone)
    BY DEF DroneExits, PowerFails
  <1>3. JoinedOnce'
    BY <1>1, JoinedKept DEF serverSide
  <1>4. "exited" \in DroneOpen \cup {"exited", "failed", "SECURE_SESSION"} /\ fresh' \in Nat
    BY <1>1, DroneHas
  <1>5. CASE UNCHANGED network
    <2>1. /\ Becomes(toServer, toServer', dConn, toServer[dConn])
          /\ Becomes(toDrone, toDrone', dConn, toDrone[dConn])
          /\ Becomes(linkUp, linkUp', dConn, linkUp[dConn])
      BY <1>1, <1>5, DroneHas, BecomesBy DEF Functions, network
    <2>2. QED
      BY <1>1, <1>3, <1>4, <1>5, <2>1, DroneHas, DroneMoves DEF Joint, network, serverSide
  <1>6. CASE Cut(dConn, toServer, toDrone)
    <2>1. PICK n \in 0 .. Len(toServer[dConn]) :
              toServer' = [toServer EXCEPT ![dConn] = SubSeq(@, 1, n)]
      BY <1>6 DEF Cut
    <2>2. PICK x : x = SubSeq(toServer[dConn], 1, n)
      OBVIOUS
    <2>3. /\ toServer' = [toServer EXCEPT ![dConn] = x]
          /\ toDrone' = [toDrone EXCEPT ![dConn] = <<>>]
          /\ linkUp' = [linkUp EXCEPT ![dConn] = FALSE]
      BY <1>6, <2>1, <2>2 DEF Cut
    <2>4. ServerExpects(dConn, sState[dConn], sTalk[dConn], sKey[dConn], sChain[dConn], x)
      BY <1>1, <2>2, OnAConnection, SessionLosesTail
    <2>5. /\ Becomes(toServer, toServer', dConn, x)
          /\ Becomes(toDrone, toDrone', dConn, <<>>)
          /\ Becomes(linkUp, linkUp', dConn, FALSE)
      BY <1>1, <2>3, DroneHas, BecomesBy DEF Functions
    <2>6. linkUp' \in [Connection -> BOOLEAN]
      BY <1>1, <2>3, DroneHas
    <2>7. QED
      BY <1>1, <1>3, <1>4, <2>4, <2>5, <2>6, DroneHas, DroneMoves DEF serverSide
  <1>7. QED
    BY <1>2, <1>5, <1>6

-----------------------------------------------------------------------------
(* So does a new connection, and the invariant holds before the first.     *)

\* A connection is made, and a worker has not taken it yet.
LEMMA NewConnection ==
    ASSUME IInv, NEW new, new = conns + 1, conns < MaxConnections, conns' = new,
           dState' = "connecting", dConn' = new, dTalk' = <<>>, dKey' = NoKey, dChain' = <<>>,
           sState' = [sState EXCEPT ![new] = "queued"],
           linkUp' \in [Connection -> BOOLEAN],
           \A d \in Connection : d > new => linkUp'[d] = linkUp[d],
           UNCHANGED <<fresh, sTalk, sKey, sChain, toServer, toDrone, joined>>
    PROVE  IInv'
  <1>1. /\ conns \in Nat /\ new \in Connection /\ new \in 0 .. MaxConnections /\ new > conns
        /\ new \in 1 .. new /\ new \in 0 .. new
    BY HandshakeAssumption DEF IInv, TypeOK, Connection
  <1>2. \A d \in Connection : sState'[d] = IF d = new THEN "queued" ELSE sState[d]
    BY <1>1 DEF IInv, Functions
  <1>3. sState[new] = "none" /\ toDrone[new] = <<>>
    BY <1>1 DEF IInv, Unmade
  <1>4. Blank(sTalk[new], sKey[new], sChain[new]) /\ toServer[new] = <<>>
    BY <1>1, <1>3, SessionHas DEF ServerExpects, InSession
  <1>5. TypeOK'
    <2>1. /\ conns' \in 0 .. MaxConnections /\ fresh' \in Nat
          /\ dState' \in DroneOpen \cup {"exited", "connecting", "refused", "failed",
                                        "SECURE_SESSION"}
          /\ dConn' \in 0 .. conns'
      BY <1>1 DEF IInv, TypeOK
    <2>2. IsSession(dTalk', dKey') /\ (Len(dTalk') = 4 <=> dKey' # NoKey)
      BY Typed DEF SessionTyped
    <2>3. \A d \in Connection :
           /\ sState'[d] \in ServerOpen \cup {"none", "refused", "failed", "over",
                                            "SECURE_SESSION"}
           /\ IsSession(sTalk'[d], sKey'[d])
           /\ Len(sTalk'[d]) = 4 <=> sKey'[d] # NoKey
      BY <1>2 DEF IInv, TypeOK, ServerOpen
    <2>4. QED
      BY <2>1, <2>2, <2>3 DEF TypeOK
  <1>6. Functions'
    BY DEF IInv, Functions
  <1>7. OnConnection'
    BY <1>1 DEF OnConnection
  <1>8. Unmade'
    <2>1. ASSUME NEW d \in Connection
          PROVE  /\ d > new <=> sState'[d] = "none"
                 /\ d > new => toDrone[d] = <<>> /\ ~linkUp'[d]
      <3>1. d \in Nat /\ (d > new => d > conns) /\ (d > conns => d > new \/ d = new)
        BY <1>1, HandshakeAssumption DEF Connection
      <3>2. d > conns <=> sState[d] = "none"
        BY DEF IInv, Unmade
      <3>3. d > new <=> sState'[d] = "none"
        <4>1. CASE d = new
          BY <1>1, <1>2, <4>1
        <4>2. CASE d # new
          BY <1>2, <3>1, <3>2, <4>2
        <4>3. QED
          BY <4>1, <4>2
      <3>4. d > new => toDrone[d] = <<>> /\ ~linkUp[d]
        BY <3>1 DEF IInv, Unmade
      <3>5. d > new => ~linkUp'[d]
        BY <3>4
      <3>6. QED
        BY <3>3, <3>4, <3>5
    <2>2. QED
      BY <2>1 DEF Unmade
  <1>9. SessionsInv'
    <2>1. ServerExpects(new, "queued", sTalk[new], sKey[new], sChain[new], toServer[new])
      BY <1>4 DEF ServerExpects
    <2>2. ASSUME NEW d \in Connection
          PROVE  ServerExpects(d, sState'[d], sTalk[d], sKey[d], sChain[d], toServer[d])
      BY <1>2, <2>1 DEF IInv, SessionsInv
    <2>3. QED
      BY <2>2 DEF SessionsInv
  <1>10. DroneInv'
    <2>1. PICK up : up = linkUp'[new]
      OBVIOUS
    <2>2. Together(new, "connecting", <<>>, NoKey, <<>>, <<>>, "queued", sTalk[new],
                   sKey[new], <<>>, up)
      BY DEF Together, DroneExpects, Blank, InStep
    <2>3. QED
      BY <1>1, <1>2, <1>3, <1>4, <2>1, <2>2 DEF DroneInv
  <1>11. JoinedOnce'
    <2>1. ASSUME NEW j \in joined
          PROVE  \E c \in 1 .. new, s, n \in Nat : j.key = SessionKey(c, s, n) /\ c # new
      <3>1. PICK c \in 1 .. conns, s \in Nat, n \in Nat : j.key = SessionKey(c, s, n)
        BY DEF IInv, JoinedOnce
      <3>2. c \in 1 .. new /\ c # new
        BY <1>1
      <3>3. QED
        BY <3>1, <3>2
    <2>2. QED
      BY <2>1 DEF JoinedOnce
  <1>12. QED
    BY <1>5, <1>6, <1>7, <1>8, <1>9, <1>10, <1>11 DEF IInv

\* A new process connects.
LEMMA ConnectKeeps ==
    ASSUME IInv, Connect
    PROVE  IInv'
  <1>1. PICK new : new = conns + 1
    OBVIOUS
  <1>2. conns < MaxConnections /\ linkUp' = [linkUp EXCEPT ![new] = TRUE]
    BY <1>1 DEF Connect
  <1>3. linkUp \in [Connection -> BOOLEAN]
    BY DEF IInv, TypeOK
  <1>4. linkUp' \in [Connection -> BOOLEAN]
    BY <1>2, <1>3
  <1>5. ASSUME NEW d \in Connection, d > new
        PROVE  linkUp'[d] = linkUp[d]
    <2>1. conns \in Nat /\ d \in Nat
      BY HandshakeAssumption DEF IInv, TypeOK, Connection
    <2>2. d # new
      BY <1>1, <1>5, <2>1
    <2>3. QED
      BY <1>2, <1>3, <2>2
  <1>6. QED
    BY <1>1, <1>2, <1>4, <1>5, NewConnection DEF Connect

\* The same process connects again, leaving the old connection to its session.
LEMMA RetryKeeps ==
    ASSUME IInv, Retry
    PROVE  IInv'
  <1>1. PICK new : new = conns + 1
    OBVIOUS
  <1>2. /\ dState = "connecting" /\ conns < MaxConnections
        /\ linkUp' = [linkUp EXCEPT ![dConn] = FALSE, ![new] = TRUE]
    BY <1>1 DEF Retry
  <1>3. linkUp \in [Connection -> BOOLEAN] /\ dConn \in 1 .. conns /\ dConn \in Connection
    BY <1>2, OnAConnection DEF IInv, TypeOK, OnConnection
  <1>4. linkUp' \in [Connection -> BOOLEAN]
    BY <1>2, <1>3
  <1>5. ASSUME NEW d \in Connection, d > new
        PROVE  linkUp'[d] = linkUp[d]
    <2>1. conns \in Nat /\ d \in Nat
      BY HandshakeAssumption DEF IInv, TypeOK, Connection
    <2>2. d # new /\ d # dConn
      BY <1>1, <1>3, <1>5, <2>1
    <2>3. QED
      BY <1>2, <1>3, <2>2
  <1>6. Blank(dTalk, dKey, dChain)
    BY <1>2, DroneHas DEF Joint, Together, DroneExpects, InSession
  <1>7. QED
    BY <1>1, <1>2, <1>4, <1>5, <1>6, NewConnection DEF Retry, Blank

\* Nobody has said anything yet.
LEMMA InitEstablishes ==
    ASSUME Init
    PROVE  IInv
  <1>1. Functions
    BY DEF Init, Functions
  <1>2. TypeOK
    <2>1. \A c \in Connection : sTalk[c] = <<>> /\ sKey[c] = NoKey /\ sState[c] = "none"
      BY DEF Init
    <2>2. SessionTyped(<<>>, NoKey)
      BY Typed
    <2>3. conns \in 0 .. MaxConnections /\ fresh \in Nat /\ dConn \in 0 .. conns
      BY HandshakeAssumption DEF Init
    <2>4. linkUp \in [Connection -> BOOLEAN]
      BY DEF Init
    <2>5. dTalk = <<>> /\ dKey = NoKey /\ dState = "exited"
      BY DEF Init
    <2>6. QED
      BY <2>1, <2>2, <2>3, <2>4, <2>5 DEF TypeOK, SessionTyped
  <1>3. Unmade
    <2>1. \A c \in Connection : c > 0
      BY HandshakeAssumption DEF Connection
    <2>2. QED
      BY <2>1 DEF Init, Unmade
  <1>4. SessionsInv
    <2>1. \A c \in Connection : /\ sState[c] = "none" /\ toServer[c] = <<>>
                                /\ Blank(sTalk[c], sKey[c], sChain[c])
      BY DEF Init, Blank
    <2>2. QED
      BY <2>1 DEF SessionsInv, ServerExpects
  <1>5. OnConnection /\ DroneInv /\ JoinedOnce
    BY DEF Init, OnConnection, DroneInv, JoinedOnce
  <1>6. QED
    BY <1>1, <1>2, <1>3, <1>4, <1>5 DEF IInv
-----------------------------------------------------------------------------
(* The invariant always holds, and what follows from it.                   *)

\* The steps of the server's session of a connection.
LEMMA SessionKeeps ==
    ASSUME IInv, NEW c \in Connection,
           \/ SessionStarts(c) \/ SessionStep(c) \/ SessionFails(c)
           \/ SecureLoopEnds(c) \/ LinkBreaks(c)
    PROVE  IInv'
  <1>1. CASE AnswerHello(c)
    BY <1>1, AnswerHelloKeeps
  <1>2. CASE SendKeyInit(c)
    BY <1>2, SendKeyInitKeeps
  <1>3. CASE ExchangeKey(c)
    BY <1>3, ExchangeKeyKeeps
  <1>4. CASE VerifyDroneAuth(c)
    BY <1>4, VerifyDroneAuthKeeps
  <1>5. CASE OpenChannels(c)
    BY <1>5, OpenChannelsKeeps
  <1>6. CASE VerifyConfirm(c)
    BY <1>6, VerifyConfirmKeeps
  <1>7. CASE SessionStarts(c) \/ SessionFails(c) \/ SessionReadFails(c) \/ SecureLoopEnds(c)
    BY <1>7, SessionTurnKeeps
  <1>8. CASE SessionCloses(c)
    BY <1>8, SessionClosesKeeps
  <1>9. CASE LinkBreaks(c)
    BY <1>9, LinkBreaksKeeps
  <1>10. QED
    BY <1>1, <1>2, <1>3, <1>4, <1>5, <1>6, <1>7, <1>8, <1>9 DEF SessionStep

\* The steps of the drone.
LEMMA DroneKeeps ==
    ASSUME IInv, Connect \/ DroneStep \/ DroneFails \/ DroneExits \/ PowerFails
    PROVE  IInv'
  <1>1. CASE Connect
    BY <1>1, ConnectKeeps
  <1>2. CASE Connected
    BY <1>2, ConnectedKeeps
  <1>3. CASE Retry
    BY <1>3, RetryKeeps
  <1>4. CASE SendHello
    BY <1>4, SendHelloKeeps
  <1>5. CASE HandleHelloAck
    BY <1>5, HandleHelloAckKeeps
  <1>6. CASE HandleKeyInit
    BY <1>6, HandleKeyInitKeeps
  <1>7. CASE HandleKeyConfirm
    BY <1>7, HandleKeyConfirmKeeps
  <1>8. CASE BuildDroneAuth
    BY <1>8, BuildDroneAuthKeeps
  <1>9. CASE HandleServerAuth
    BY <1>9, HandleServerAuthKeeps
  <1>10. CASE BuildConfirm
    BY <1>10, BuildConfirmKeeps
  <1>11. CASE FinalizeConfirm
    BY <1>11, FinalizeConfirmKeeps
  <1>12. CASE DroneFails \/ DroneReadFails
    BY <1>12, DroneFailKeeps
  <1>13. CASE DroneExits \/ PowerFails
    BY <1>13, DroneExitKeeps
  <1>14. QED
    BY <1>1, <1>2, <1>3, <1>4, <1>5, <1>6, <1>7, <1>8, <1>9, <1>10, <1>11, <1>12, <1>13
       DEF DroneStep, ProcessEnds

\* The invariant speaks of the variables alone.
LEMMA StutterKeeps ==
    ASSUME IInv, UNCHANGED vars
    PROVE  IInv'
  <1>1. UNCHANGED <<conns, fresh, dState, dConn, dTalk, dKey, dChain, sState, sTalk, sKey,
                    sChain, toServer, toDrone, linkUp, joined>>
    BY DEF vars, drone, server, network
  <1>2. TypeOK' /\ Functions' /\ OnConnection' /\ Unmade'
    BY <1>1 DEF IInv, TypeOK, Functions, OnConnection, Unmade
  <1>3. SessionsInv' /\ DroneInv' /\ JoinedOnce'
    BY <1>1 DEF IInv, SessionsInv, DroneInv, JoinedOnce
  <1>4. QED
    BY <1>2, <1>3 DEF IInv

\* The invariant is inductive, so it always holds.
THEOREM InvariantHolds == Spec => []IInv
  <1>1. Init => IInv
    BY InitEstablishes
  <1>2. IInv /\ [Next]_vars => IInv'
    BY SessionKeeps, DroneKeeps, StutterKeeps DEF Next
  <1>3. QED
    BY <1>1, <1>2, PTL DEF Spec

\* Every variable keeps to its values: a transcript is made of at most the four
\* messages that are hashed, and an end has a key exactly from KEY_RESP on.
THEOREM TypeCorrect == Spec => []TypeOK
  <1>1. IInv => TypeOK
    BY DEF IInv
  <1>2. QED
    BY <1>1, InvariantHolds, PTL

\* An end in its secure session has the same session at the other end, with the
\* same key, transcript and chain, unless the other end has failed or gone.
LEMMA EndsAgree == IInv => Agreement
  <1>1. SUFFICES ASSUME IInv PROVE Agreement
    OBVIOUS
  <1>2. ASSUME dState = "SECURE_SESSION"
        PROVE  /\ Entered(dConn)
               /\ SessionOf(dConn) = [key |-> dKey, talk |-> dTalk, chain |-> dChain]
    <2>1. Joint(dConn, dState, dTalk, dKey, dChain, toDrone[dConn], sState[dConn],
                sTalk[dConn], sKey[dConn], sChain[dConn], toServer[dConn], linkUp[dConn])
      BY <1>1, <1>2, DroneHas
    <2>2. sState[dConn] \in InSession /\ dChain = BothBlocks(dTalk)
      BY <1>2, <2>1 DEF Joint, Together, DroneExpects
    <2>3. sTalk[dConn] = dTalk /\ sKey[dConn] = dKey
      BY <1>2, <2>1, <2>2 DEF Joint, Together, InStep, InSession
    <2>4. sChain[dConn] = BothBlocks(sTalk[dConn])
      BY <2>1, <2>2 DEF Joint, ServerExpects, InSession
    <2>5. QED
      BY <2>2, <2>3, <2>4 DEF Entered, SessionOf, InSession
  <1>3. ASSUME NEW c \in Connection, Entered(c), ~DroneGone(c), dState # "failed"
        PROVE  /\ dState \in {"confirm_sent", "SECURE_SESSION"}
               /\ SessionOf(c) = [key |-> dKey, talk |-> dTalk, chain |-> dChain]
    <2>1. dState # "exited" /\ dConn = c
      BY <1>3 DEF DroneGone
    <2>2. Joint(c, dState, dTalk, dKey, dChain, toDrone[c], sState[c],
                sTalk[c], sKey[c], sChain[c], toServer[c], linkUp[c])
      BY <1>1, <2>1, DroneHas
    <2>3. sState[c] \in InSession
      BY <1>3 DEF Entered, InSession
    <2>4. /\ dState \in {"confirm_sent", "SECURE_SESSION"}
          /\ sTalk[c] = dTalk /\ sKey[c] = dKey
      BY <1>3, <2>1, <2>2, <2>3 DEF Joint, Together, InStep, InSession
    <2>5. sChain[c] = BothBlocks(sTalk[c])
      BY <2>2, <2>3 DEF Joint, ServerExpects, InSession
    <2>6. dChain = BothBlocks(dTalk)
      BY <2>2, <2>4 DEF Joint, Together, DroneExpects
    <2>7. QED
      BY <2>4, <2>5, <2>6 DEF SessionOf
  <1>4. QED
    BY <1>2, <1>3 DEF Agreement

\* In every reachable state a drone in its secure session has the server's session of
\* the same connection, key, transcript and chain, and a session that was entered has
\* such a drone unless that one has failed or gone.
THEOREM EndsAlwaysAgree == Spec => []Agreement
  BY EndsAgree, InvariantHolds, PTL

\* No state the invariant allows is a refusal.
LEMMA NoEndRefuses == IInv => HonestChecksPass
  <1>1. SUFFICES ASSUME IInv PROVE HonestChecksPass
    OBVIOUS
  <1>2. dState # "refused"
    BY <1>1, DroneHas DEF Joint, Together, DroneExpects
  <1>3. \A c \in Connection : sState[c] # "refused"
    BY <1>1, SessionHas DEF ServerExpects, InSession
  <1>4. QED
    BY <1>2, <1>3 DEF HonestChecksPass

\* Between honest ends no check of the handshake ever fails, whatever breaks, ends or
\* starts again around them.
THEOREM ChecksPass == Spec => []HonestChecksPass
  BY NoEndRefuses, InvariantHolds, PTL

\* Two ends that wait have something on its way, while the connection stands.
LEMMA InLockstep == IInv => NeverBothWaiting
  <1>1. SUFFICES ASSUME IInv, dState \in DroneWaiting, sState[dConn] \in ServerWaiting,
                        linkUp[dConn]
                 PROVE  toServer[dConn] # <<>> \/ toDrone[dConn] # <<>>
    BY DEF NeverBothWaiting
  <1>2. InStep(dState, dTalk, dKey, sState[dConn], sTalk[dConn], sKey[dConn],
               toServer[dConn], toDrone[dConn], linkUp[dConn])
    BY <1>1, DroneHas DEF DroneWaiting, Joint, Together
  <1>3. QED
    BY <1>1, <1>2 DEF InStep, Carries, DroneWaiting, ServerWaiting, InSession

\* The two ends of a standing connection never wait for each other with nothing under
\* way, so that only a timeout could end it.
THEOREM AlwaysInLockstep == Spec => []NeverBothWaiting
  BY InLockstep, InvariantHolds, PTL
-----------------------------------------------------------------------------
(* The handshake implements the promised agreement.                        *)

\* What the agreement calls entered.
Sessions == {SessionOf(c) : c \in {d \in Connection : Entered(d)}}

\* The sessions stay what they are when no connection enters, leaves or changes one.
LEMMA SessionsStay ==
    ASSUME \A c \in Connection : /\ Entered(c)' <=> Entered(c)
                                 /\ Entered(c) => SessionOf(c)' = SessionOf(c)
    PROVE  Sessions' = Sessions
  BY DEF Sessions

\* So they do when one session moves that is in neither state of a session.
LEMMA OneMovesOutside ==
    ASSUME NEW c \in Connection, Functions, Functions',
           ~Entered(c), ~Entered(c)',
           \A d \in Connection : d # c => /\ sState'[d] = sState[d] /\ sTalk'[d] = sTalk[d]
                                          /\ sKey'[d] = sKey[d] /\ sChain'[d] = sChain[d]
    PROVE  Sessions' = Sessions
  <1>1. ASSUME NEW d \in Connection
        PROVE  /\ Entered(d)' <=> Entered(d)
               /\ Entered(d) => SessionOf(d)' = SessionOf(d)
    <2>1. CASE d = c
      BY <2>1
    <2>2. CASE d # c
      BY <2>2 DEF Entered, SessionOf
    <2>3. QED
      BY <2>1, <2>2
  <1>2. QED
    BY <1>1, SessionsStay

\* A session is entered with a key that no other session has: its own connection
\* is part of it.
LEMMA KeysDiffer ==
    ASSUME IInv, NEW c \in Connection, NEW d \in Connection, c # d,
           sState[c] \in InSession \cup {"SERVER_AUTH_SENT"}, Entered(d)
    PROVE  sKey[c] # sKey[d]
  <1>1. \E s, n : sKey[c] = SessionKey(c, s, n)
    BY SessionHas DEF ServerExpects, InSession
  <1>2. \E s, n : sKey[d] = SessionKey(d, s, n)
    BY SessionHas DEF ServerExpects, InSession, Entered
  <1>3. QED
    BY <1>1, <1>2 DEF SessionKey

\* Verifying CONFIRM enters a session of its own key.
LEMMA VerifyConfirmEnters ==
    ASSUME IInv, IInv', NEW c \in Connection, VerifyConfirm(c)
    PROVE  Agreed!Enter
  <1>1. /\ sState[c] = "SERVER_AUTH_SENT" /\ toServer[c] # <<>> /\ UNCHANGED droneSide
    BY DEF VerifyConfirm, Gets
  <1>2. Head(toServer[c]) = Confirm(sChain[c])
    BY <1>1, SessionHas, ConfirmVerified
  <1>3. /\ sState' = [sState EXCEPT ![c] = "SECURE_SESSION"]
        /\ UNCHANGED <<sTalk, sKey, sChain>>
    BY <1>2 DEF VerifyConfirm, Request
  <1>4. Functions
    BY DEF IInv
  <1>5. /\ Entered(c)' /\ SessionOf(c)' = SessionOf(c) /\ SessionOf(c).key = sKey[c]
        /\ \A d \in Connection : d # c => (Entered(d)' <=> Entered(d))
        /\ \A d \in Connection : SessionOf(d)' = SessionOf(d)
    BY <1>3, <1>4 DEF Entered, SessionOf, Functions
  <1>6. Sessions' = Sessions \cup {SessionOf(c)}
    BY <1>1, <1>5 DEF Sessions, Entered
  <1>7. \A t \in Sessions : t.key # SessionOf(c).key
    <2>1. ASSUME NEW d \in Connection, Entered(d) PROVE SessionOf(d).key # sKey[c]
      <3>1. d # c
        BY <1>1, <2>1 DEF Entered
      <3>2. QED
        BY <1>1, <2>1, <3>1, KeysDiffer DEF SessionOf
    <2>2. QED
      BY <1>5, <2>1 DEF Sessions
  <1>8. UNCHANGED joined
    BY <1>1 DEF droneSide
  <1>9. \E s \in Sessions' : /\ Sessions' = Sessions \cup {s}
                             /\ \A t \in Sessions : t.key # s.key
    BY <1>6, <1>7
  <1>10. QED
    BY <1>8, <1>9 DEF Agreed!Enter, Sessions

\* The final OK joins a session that the server has entered and that the drone
\* was not in before.
LEMMA FinalizeConfirmJoins ==
    ASSUME IInv, IInv', FinalizeConfirm
    PROVE  Agreed!Join
  <1>1. /\ dState = "confirm_sent" /\ dState # "exited" /\ toDrone[dConn] # <<>>
        /\ Joint(dConn, "confirm_sent", dTalk, dKey, dChain, toDrone[dConn], sState[dConn],
                 sTalk[dConn], sKey[dConn], sChain[dConn], toServer[dConn], linkUp[dConn])
        /\ UNCHANGED <<conns, dConn, linkUp, server>>
    BY DroneHears DEF FinalizeConfirm, DroneOpen
  <1>2. PICK s : s = [key |-> dKey, talk |-> dTalk, chain |-> dChain]
    OBVIOUS
  <1>3. Head(toDrone[dConn]) = Ok
    BY <1>1 DEF Joint, Together, DroneExpects
  <1>4. /\ dState' = "SECURE_SESSION" /\ joined' = joined \cup {s}
        /\ UNCHANGED <<dTalk, dKey, dChain>>
    BY <1>2, <1>3 DEF FinalizeConfirm, Answer
  <1>5. dConn \in Connection
    BY <1>1, DroneHas
  <1>6. Sessions' = Sessions
    <2>1. \A c \in Connection : (Entered(c)' <=> Entered(c)) /\ SessionOf(c)' = SessionOf(c)
      BY <1>1 DEF Entered, SessionOf, server
    <2>2. QED
      BY <2>1, SessionsStay
  <1>7. s \in Sessions
    <2>1. Agreement'
      BY EndsAgree, PTL
    <2>2. Entered(dConn)' /\ SessionOf(dConn)' = s
      BY <1>1, <1>2, <1>4, <2>1 DEF Agreement
    <2>3. s \in Sessions'
      BY <1>1, <1>5, <2>2 DEF Sessions
    <2>4. QED
      BY <1>6, <2>3
  <1>8. s \notin joined
    <2>1. \E k, n : s.key = SessionKey(dConn, k, n)
      BY <1>1, <1>2 DEF Joint, Together, DroneExpects
    <2>2. ASSUME s \in joined PROVE FALSE
      BY <1>1, <2>1, <2>2 DEF IInv, JoinedOnce, SessionKey
    <2>3. QED
      BY <2>2
  <1>9. \E t \in Sessions \ joined : joined' = joined \cup {t}
    BY <1>4, <1>7, <1>8
  <1>10. QED
    BY <1>6, <1>9 DEF Agreed!Join, Sessions

\* Every other step of a session leaves the sessions that were entered alone.
LEMMA SessionQuiet ==
    ASSUME IInv, IInv', NEW c \in Connection,
           \/ SessionStarts(c) \/ SessionStep(c) \/ SessionFails(c)
           \/ SecureLoopEnds(c) \/ LinkBreaks(c),
           ~VerifyConfirm(c)
    PROVE  Sessions' = Sessions /\ UNCHANGED joined
  <1>1. Functions /\ Functions'
    BY DEF IInv
  <1>2. UNCHANGED joined
    BY DEF SessionStep, AnswerHello, SendKeyInit, ExchangeKey, VerifyDroneAuth, OpenChannels,
           SessionReadFails, SessionCloses, SessionStarts, SessionFails, SecureLoopEnds,
           LinkBreaks, droneSide
  <1>3. CASE SessionCloses(c) \/ LinkBreaks(c)
    <2>1. UNCHANGED server
      BY <1>3 DEF SessionCloses, LinkBreaks
    <2>2. \A d \in Connection : (Entered(d)' <=> Entered(d)) /\ SessionOf(d)' = SessionOf(d)
      BY <2>1 DEF Entered, SessionOf, server
    <2>3. QED
      BY <1>2, <2>2, SessionsStay
  <1>4. CASE SecureLoopEnds(c)
    <2>1. /\ sState[c] = "SECURE_SESSION" /\ sState' = [sState EXCEPT ![c] = "over"]
          /\ UNCHANGED <<sTalk, sKey, sChain>>
      BY <1>4 DEF SecureLoopEnds
    <2>2. \A d \in Connection : (Entered(d)' <=> Entered(d)) /\ SessionOf(d)' = SessionOf(d)
      BY <1>1, <2>1 DEF Entered, SessionOf, Functions
    <2>3. QED
      BY <1>2, <2>2, SessionsStay
  <1>5. CASE SessionStarts(c) \/ SessionFails(c) \/ SessionReadFails(c)
    <2>1. /\ sState[c] \in ServerOpen /\ UNCHANGED <<sTalk, sKey, sChain>>
          /\ \/ sState' = [sState EXCEPT ![c] = "IDLE"]
             \/ sState' = [sState EXCEPT ![c] = "failed"]
      BY <1>5 DEF SessionStarts, SessionFails, SessionReadFails, ServerOpen, ServerWaiting
    <2>2. ~Entered(c) /\ ~Entered(c)'
      BY <1>1, <2>1 DEF Entered, ServerOpen, Functions
    <2>3. \A d \in Connection : d # c => /\ sState'[d] = sState[d] /\ sTalk'[d] = sTalk[d]
                                         /\ sKey'[d] = sKey[d] /\ sChain'[d] = sChain[d]
      BY <1>1, <2>1 DEF Functions
    <2>4. QED
      BY <1>1, <1>2, <2>2, <2>3, OneMovesOutside
  <1>6. CASE AnswerHello(c) \/ SendKeyInit(c) \/ ExchangeKey(c) \/ VerifyDroneAuth(c)
             \/ OpenChannels(c)
    <2>1. PICK st : /\ sState' = [sState EXCEPT ![c] = st]
                    /\ st \in {"hello_acked", "KEY_INIT_SENT", "KEY_EXCHANGE_DONE",
                               "server_auth_written", "SERVER_AUTH_SENT", "refused"}
      BY <1>6 DEF AnswerHello, SendKeyInit, ExchangeKey, VerifyDroneAuth, OpenChannels, Throw
    <2>2. ~Entered(c) /\ ~Entered(c)'
      <3>1. ~Entered(c)
        BY <1>6 DEF AnswerHello, SendKeyInit, ExchangeKey, VerifyDroneAuth, OpenChannels, Gets,
                    Entered
      <3>2. QED
        BY <1>1, <2>1, <3>1 DEF Entered, Functions
    <2>3. ASSUME NEW d \in Connection, d # c
          PROVE  /\ sState'[d] = sState[d] /\ sTalk'[d] = sTalk[d]
                 /\ sKey'[d] = sKey[d] /\ sChain'[d] = sChain[d]
      <3>1. sState'[d] = sState[d]
        BY <1>1, <2>1, <2>3 DEF Functions
      <3>2. sTalk'[d] = sTalk[d]
        BY <1>1, <1>6, <2>3 DEF Functions, AnswerHello, SendKeyInit, ExchangeKey,
           VerifyDroneAuth, OpenChannels, Throw
      <3>3. sKey'[d] = sKey[d] /\ sChain'[d] = sChain[d]
        BY <1>1, <1>6, <2>3 DEF Functions, AnswerHello, SendKeyInit, ExchangeKey,
           VerifyDroneAuth, OpenChannels, Throw
      <3>4. QED
        BY <3>1, <3>2, <3>3
    <2>4. QED
      BY <1>1, <1>2, <2>2, <2>3, OneMovesOutside
  <1>7. QED
    BY <1>3, <1>4, <1>5, <1>6 DEF SessionStep

\* So does every step of the drone but the one that joins.
LEMMA DroneQuiet ==
    ASSUME IInv, IInv', Connect \/ DroneStep \/ DroneFails \/ DroneExits \/ PowerFails,
           ~FinalizeConfirm
    PROVE  Sessions' = Sessions /\ UNCHANGED joined
  <1>1. UNCHANGED joined
    BY DEF Connect, DroneStep, DroneFails, DroneExits, PowerFails, Connected, Retry, SendHello,
           HandleHelloAck, HandleKeyInit, HandleKeyConfirm, BuildDroneAuth, HandleServerAuth,
           BuildConfirm, DroneReadFails, ProcessEnds, serverSide
  <1>2. CASE Connect \/ Retry
    <2>1. PICK c : c = conns + 1
      OBVIOUS
    <2>2. /\ conns < MaxConnections /\ sState' = [sState EXCEPT ![c] = "queued"]
          /\ UNCHANGED <<sTalk, sKey, sChain>>
      BY <1>2, <2>1 DEF Connect, Retry
    <2>3. c \in Connection /\ c > conns
      BY <2>1, <2>2, HandshakeAssumption DEF IInv, TypeOK, Connection
    <2>4. sState[c] = "none" /\ Functions /\ Functions'
      BY <2>3 DEF IInv, Unmade
    <2>5. ~Entered(c) /\ ~Entered(c)'
      BY <2>2, <2>3, <2>4 DEF Entered, Functions
    <2>6. \A d \in Connection : d # c => /\ sState'[d] = sState[d] /\ sTalk'[d] = sTalk[d]
                                         /\ sKey'[d] = sKey[d] /\ sChain'[d] = sChain[d]
      BY <2>2, <2>4 DEF Functions
    <2>7. QED
      BY <1>1, <2>3, <2>4, <2>5, <2>6, OneMovesOutside
  <1>3. CASE ~Connect /\ ~Retry
    <2>1. UNCHANGED server
      BY <1>3 DEF DroneStep, DroneFails, DroneExits, PowerFails, Connected, SendHello,
         HandleHelloAck, HandleKeyInit, HandleKeyConfirm, BuildDroneAuth, HandleServerAuth,
         BuildConfirm, DroneReadFails, ProcessEnds, serverSide
    <2>2. \A d \in Connection : (Entered(d)' <=> Entered(d)) /\ SessionOf(d)' = SessionOf(d)
      BY <2>1 DEF Entered, SessionOf, server
    <2>3. QED
      BY <1>1, <2>2, SessionsStay
  <1>4. QED
    BY <1>2, <1>3

\* Nobody has entered anything when nobody has connected.
LEMMA InitAgrees == Init => Agreed!Init
  <1>1. SUFFICES ASSUME Init PROVE Sessions = {} /\ joined = {}
    BY DEF Agreed!Init, Sessions
  <1>2. \A c \in Connection : ~Entered(c)
    BY <1>1 DEF Init, Entered
  <1>3. QED
    BY <1>1, <1>2 DEF Sessions, Init

\* Every step enters a session, joins one or does neither.
LEMMA NextAgrees ==
    ASSUME IInv, IInv', [Next]_vars
    PROVE  [Agreed!Next]_(Agreed!agreement)
  <1>1. CASE UNCHANGED vars
    <2>1. UNCHANGED <<server, joined>>
      BY <1>1 DEF vars
    <2>2. \A d \in Connection : (Entered(d)' <=> Entered(d)) /\ SessionOf(d)' = SessionOf(d)
      BY <2>1 DEF Entered, SessionOf, server
    <2>3. QED
      BY <2>1, <2>2, SessionsStay DEF Agreed!agreement, Sessions
  <1>2. CASE FinalizeConfirm
    BY <1>2, FinalizeConfirmJoins DEF Agreed!Next
  <1>3. CASE \E c \in Connection : VerifyConfirm(c)
    BY <1>3, VerifyConfirmEnters DEF Agreed!Next
  <1>4. CASE Next /\ ~FinalizeConfirm /\ \A c \in Connection : ~VerifyConfirm(c)
    <2>1. Sessions' = Sessions /\ UNCHANGED joined
      BY <1>4, SessionQuiet, DroneQuiet DEF Next
    <2>2. QED
      BY <2>1 DEF Agreed!agreement, Sessions
  <1>5. QED
    BY <1>1, <1>2, <1>3, <1>4

\* Every behaviour of the handshake is one of the agreement: the server enters each
\* session with a key of its own, and the drone joins only a session the server has
\* entered, and that one once.
THEOREM HandshakeAgrees == Spec => ImplementsAgreement
  <1>1. IInv /\ IInv' /\ [Next]_vars => [Agreed!Next]_(Agreed!agreement)
    BY NextAgrees
  <1>2. QED
    BY <1>1, InitAgrees, InvariantHolds, PTL DEF Spec, ImplementsAgreement, Agreed!Spec
-----------------------------------------------------------------------------
(* What the agreement gives, and so the handshake.                         *)

\* Every session the server enters has a key of its own, and the drone joins
\* only those: the agreement's steps keep both.
LEMMA AgreementGives ==
    Agreed!Spec => [](Agreed!KeyTellsSession /\ Agreed!JoinedWereEntered)
  <1> DEFINE I == Agreed!KeyTellsSession /\ Agreed!JoinedWereEntered
  <1> USE DEF Agreed!KeyTellsSession, Agreed!JoinedWereEntered
  <1>1. Agreed!Init => I
    BY DEF Agreed!Init
  <1>2. I /\ [Agreed!Next]_(Agreed!agreement) => I'
    <2>1. ASSUME I, Agreed!Enter PROVE I'
      BY <2>1 DEF Agreed!Enter
    <2>2. ASSUME I, Agreed!Join PROVE I'
      BY <2>2 DEF Agreed!Join
    <2>3. ASSUME I, UNCHANGED Agreed!agreement PROVE I'
      BY <2>3 DEF Agreed!agreement
    <2> QED
      BY <2>1, <2>2, <2>3 DEF Agreed!Next
  <1> QED
    BY <1>1, <1>2, PTL DEF Agreed!Spec

\* No two sessions the server has entered share a key, over all connections and
\* processes of the drone, and the drone has been in no other session than these.
THEOREM SessionsHaveTheirKeys ==
    Spec => [](Agreed!KeyTellsSession /\ Agreed!JoinedWereEntered)
  BY HandshakeAgrees, AgreementGives DEF ImplementsAgreement
=============================================================================
