------------------------- MODULE SecureChannelProofs -------------------------
(***************************************************************************)
(* For every window, counter limit, key set and number of rotations, the   *)
(* channel of SecureChannel never reuses a nonce, never accepts a packet   *)
(* twice, and keeps an exact window.  The inductive invariant adds to the  *)
(* properties what orders the epochs: a secret grows with each rotation,   *)
(* so a packet or an acceptance of an earlier epoch carries a shorter one. *)
(***************************************************************************)
EXTENDS SecureChannel, FiniteSetTheorems, TLAPS

\* Packets belong to the sender's present epoch, below its counter, or to an
\* earlier epoch.
WireInv ==
    \A p \in wire :
        /\ p.counter <= MaxCounter
        /\ Len(p.secret) <= Len(secret[p.from])
        /\ Len(p.secret) = Len(secret[p.from])
             => p.counter < sendCounter[p.from]

\* So do the nonces that encrypt() has spent without sending a packet.
DiscardedInv ==
    \A x \in discarded :
        /\ x[3] <= MaxCounter
        /\ Len(x[2]) <= Len(secret[x[1]])
        /\ Len(x[2]) = Len(secret[x[1]]) => x[3] < sendCounter[x[1]]

\* Acceptances belong to the receiver's present epoch or to an earlier one.
AcceptedInv ==
    \A r \in Role :
        /\ IsFiniteSet(accepted[r])
        /\ \A x \in accepted[r] :
               x[2] <= MaxCounter /\ Len(x[1]) <= Len(secret[r])

Inv == TypeOK /\ WireInv /\ DiscardedInv /\ AcceptedInv /\ NonceUsedOnce /\ WindowExact
       /\ NoReplay

-----------------------------------------------------------------------------
\* Consuming a counter keeps the window well formed.
LEMMA ConsumeType ==
    ASSUME NEW w \in Window, NEW c \in Nat, CanAttempt(w, c)
    PROVE  Consume(w, c) \in Window
  BY WindowSizeAssumption
     DEF Window, CanAttempt, Consume, Shift, Positions

\* The window of one receiver and the set of counters it stands for.
Exact(w, S) ==
    IF w.initialized
    THEN /\ w.top \in S
         /\ \A c \in S : c <= w.top
         /\ \A d \in Positions : d \in w.bitmap <=> w.top - d \in S
    ELSE w.bitmap = {} /\ S = {}

\* An exact window lets a counter through only if it was not accepted yet.
LEMMA AttemptIsFresh ==
    ASSUME NEW w \in Window, NEW S \in SUBSET Nat, Exact(w, S),
           NEW c \in Nat, CanAttempt(w, c)
    PROVE  c \notin S
  BY WindowSizeAssumption DEF Window, Exact, CanAttempt, Positions

\* Consuming a counter that may be attempted keeps the window exact.
LEMMA ConsumeExact ==
    ASSUME NEW w \in Window, NEW S \in SUBSET Nat, Exact(w, S),
           NEW c \in Nat, CanAttempt(w, c)
    PROVE  Exact(Consume(w, c), S \cup {c})
<1> DEFINE v == Consume(w, c)
<1>1. CASE ~w.initialized
  BY <1>1, WindowSizeAssumption DEF Window, Exact, Consume, Positions
<1>2. CASE w.initialized /\ c > w.top
  <2>1. v = [initialized |-> TRUE, top |-> c,
             bitmap |-> {0} \cup Shift(w.bitmap, c - w.top)]
    BY <1>2 DEF Consume
  <2>2. ASSUME NEW d \in Positions
        PROVE  d \in v.bitmap <=> c - d \in S \cup {c}
    <3>1. CASE d = 0
      BY <2>1, <3>1
    <3>2. CASE d # 0 /\ d < c - w.top
      BY <2>1, <2>2, <3>2, <1>2 DEF Shift, Positions, Window, Exact
    <3>3. CASE d # 0 /\ d >= c - w.top
      <4>1. d - (c - w.top) \in Positions
        BY <3>3, <1>2, <2>2, WindowSizeAssumption DEF Positions, Window
      <4>2. w.top - (d - (c - w.top)) = c - d
        BY <2>2 DEF Positions, Window
      <4>3. d \in v.bitmap <=> d - (c - w.top) \in w.bitmap
        BY <2>1, <2>2, <3>3 DEF Shift
      <4>4. d - (c - w.top) \in w.bitmap <=> c - d \in S
        BY <4>1, <4>2, <1>2 DEF Exact
      <4> QED
        BY <4>3, <4>4, <3>3, <2>2 DEF Positions
    <3> QED
      BY <3>1, <3>2, <3>3, <2>2, <1>2 DEF Positions, Window
  <2>3. \A x \in S \cup {c} : x <= c
    BY <1>2 DEF Exact, Window
  <2> QED
    BY <2>1, <2>2, <2>3 DEF Exact
<1>3. CASE w.initialized /\ c <= w.top
  <2>1. v = [w EXCEPT !.bitmap = @ \cup {w.top - c}]
    BY <1>3 DEF Consume, Window
  <2>2. w.top - c \in Positions
    BY <1>3, WindowSizeAssumption DEF CanAttempt, Window, Positions
  <2>3. \A d \in Positions : d = w.top - c <=> w.top - d = c
    BY DEF Positions, Window
  <2> QED
    BY <1>3, <2>1, <2>2, <2>3 DEF Exact, Window
<1> QED
  BY <1>1, <1>2, <1>3 DEF Window

-----------------------------------------------------------------------------
\* The channel starts with nothing sealed and nothing accepted.
LEMMA InitInv == Init => Inv
<1> SUFFICES ASSUME Init PROVE Inv
  OBVIOUS
<1>1. <<>> \in Secret
  BY DEF Secret
<1>2. TypeOK
  BY <1>1, WindowSizeAssumption, SecureChannelAssumption
     DEF Init, TypeOK, ResetWindow, Window
<1>3. AcceptedInv /\ NoReplay
  BY FS_EmptySet DEF Init, AcceptedInv, NoReplay
<1> QED
  BY <1>2, <1>3
     DEF Init, Inv, WireInv, DiscardedInv, NonceUsedOnce, WindowExact,
         ResetWindow, AcceptedNow

-----------------------------------------------------------------------------
\* Taking a counter leaves every receiver as it was.
LEMMA ReceiversUnchanged ==
    ASSUME Inv, UNCHANGED <<secret, window, accepted, acceptCount>>
    PROVE  AcceptedInv' /\ WindowExact' /\ NoReplay'
  BY DEF Inv, AcceptedInv, WindowExact, NoReplay, AcceptedNow

\* Up to the last counter of an epoch the IV holds the whole counter.
LEMMA IvIsCounter ==
    ASSUME TypeOK, NEW r \in Role, sendCounter[r] <= MaxCounter
    PROVE  IvCounter(sendCounter[r]) = sendCounter[r]
  BY SecureChannelAssumption DEF TypeOK, IvCounter

\* A spent nonce stays below the counter while the counter grows.
LEMMA SpentStaysSpent ==
    ASSUME Inv, NEW r \in Role,
           sendCounter' = [sendCounter EXCEPT ![r] = @ + 1],
           UNCHANGED <<secret, discarded>>
    PROVE  DiscardedInv'
<1> SUFFICES ASSUME NEW x \in discarded, Len(x[2]) = Len(secret[x[1]])
             PROVE  x[3] < sendCounter'[x[1]]
  BY DEF Inv, DiscardedInv
<1>1. x[1] \in Role /\ x[3] \in Nat /\ x[3] < sendCounter[x[1]]
  BY DEF Inv, TypeOK, DiscardedInv
<1> QED BY <1>1, SecureChannelAssumption DEF Inv, TypeOK

\* A sealed packet is the first under its nonce: whatever went before it in the
\* epoch has a smaller counter.
LEMMA EncryptInv ==
    ASSUME Inv, NEW r \in Role, NEW a \in Aads, Encrypt(r, a)
    PROVE  Inv'
<1> DEFINE new == [from |-> r, secret |-> secret[r], counter |-> sendCounter[r],
                   epoch |-> epoch[r], aad |-> a, sealed |-> TRUE]
<1>1. /\ wire' = wire \cup {new}
      /\ sendCounter' = [sendCounter EXCEPT ![r] = @ + 1]
      /\ sendCounter[r] <= MaxCounter
      /\ UNCHANGED <<secret, epoch, window, discarded, accepted, acceptCount>>
  BY IvIsCounter DEF Inv, Encrypt, TakeCounter
<1>2. new \in Packet /\ sendCounter[r] \in Nat
  BY SecureChannelAssumption DEF Inv, TypeOK, Packet
<1>3. TypeOK'
  <2>1. sendCounter' \in [Role -> 0 .. (MaxCounter + 1)]
    BY <1>1, SecureChannelAssumption DEF Inv, TypeOK
  <2>2. wire' \subseteq Packet
    BY <1>1, <1>2 DEF Inv, TypeOK
  <2> QED
    BY <1>1, <2>1, <2>2 DEF Inv, TypeOK
<1>4. WireInv'
  <2> SUFFICES ASSUME NEW p \in wire'
               PROVE  /\ p.counter <= MaxCounter
                      /\ Len(p.secret) <= Len(secret[p.from])
                      /\ Len(p.secret) = Len(secret[p.from])
                           => p.counter < sendCounter'[p.from]
    BY <1>1 DEF WireInv
  <2>1. CASE p = new
    <3>1. Len(secret[r]) \in Nat
      BY DEF Inv, TypeOK, Secret
    <3> QED
      BY <2>1, <3>1, <1>1, <1>2, SecureChannelAssumption DEF Inv, TypeOK
  <2>2. CASE p \in wire
    <3>1. p.from \in Role /\ p.counter \in Nat
      BY <2>2 DEF Inv, TypeOK, Packet
    <3> QED
      BY <2>2, <3>1, <1>1, SecureChannelAssumption DEF Inv, WireInv, TypeOK
  <2> QED
    BY <2>1, <2>2, <1>1
<1>5. DiscardedInv'
  BY <1>1, SpentStaysSpent
<1>6. NonceUsedOnce'
  <2>1. ASSUME NEW p \in wire PROVE Nonce(p) # <<r, secret[r], sendCounter[r]>>
    BY <1>2, <2>1 DEF Inv, WireInv, TypeOK, Packet, Nonce
  <2>2. <<r, secret[r], sendCounter[r]>> \notin discarded
    BY <1>2 DEF Inv, DiscardedInv
  <2>3. Nonce(new) = <<r, secret[r], sendCounter[r]>>
    BY DEF Nonce
  <2> HIDE DEF new
  <2> QED
    BY <1>1, <2>1, <2>2, <2>3 DEF NonceUsedOnce, Inv
<1> QED
  BY <1>1, <1>3, <1>4, <1>5, <1>6, ReceiversUnchanged DEF Inv

\* A failing call spends its nonce.
LEMMA EncryptThrowsInv ==
    ASSUME Inv, NEW r \in Role, EncryptThrows(r)
    PROVE  Inv'
<1> DEFINE new == <<r, secret[r], sendCounter[r]>>
<1>1. /\ sendCounter' = [sendCounter EXCEPT ![r] = @ + 1]
      /\ sendCounter[r] <= MaxCounter
      /\ discarded' = discarded \cup {new}
      /\ UNCHANGED <<secret, epoch, window, wire, accepted, acceptCount>>
  BY IvIsCounter DEF Inv, EncryptThrows, TakeCounter, NextNonce
<1>2. TypeOK'
  <2>1. sendCounter' \in [Role -> 0 .. (MaxCounter + 1)]
    BY <1>1, SecureChannelAssumption DEF Inv, TypeOK
  <2>2. new \in Role \X Secret \X Nat
    BY SecureChannelAssumption DEF Inv, TypeOK
  <2> QED
    BY <1>1, <2>1, <2>2 DEF Inv, TypeOK
<1>3. WireInv'
  <2> SUFFICES ASSUME NEW p \in wire, Len(p.secret) = Len(secret[p.from])
               PROVE  p.counter < sendCounter'[p.from]
    BY <1>1 DEF Inv, WireInv
  <2>1. p.from \in Role /\ p.counter \in Nat /\ p.counter < sendCounter[p.from]
    BY DEF Inv, TypeOK, Packet, WireInv
  <2> QED
    BY <1>1, <2>1, SecureChannelAssumption DEF Inv, TypeOK
<1>4. DiscardedInv'
  <2> SUFFICES ASSUME NEW x \in discarded'
               PROVE  /\ x[3] <= MaxCounter
                      /\ Len(x[2]) <= Len(secret[x[1]])
                      /\ Len(x[2]) = Len(secret[x[1]])
                           => x[3] < sendCounter'[x[1]]
    BY <1>1 DEF DiscardedInv
  <2>1. CASE x = new
    <3>1. Len(secret[r]) \in Nat
      BY DEF Inv, TypeOK, Secret
    <3> QED
      BY <2>1, <3>1, <1>1, SecureChannelAssumption DEF Inv, TypeOK
  <2>2. CASE x \in discarded
    <3>1. x[1] \in Role /\ x[3] \in Nat
      BY <2>2 DEF Inv, TypeOK
    <3> QED
      BY <2>2, <3>1, <1>1, SecureChannelAssumption DEF Inv, DiscardedInv, TypeOK
  <2> QED
    BY <2>1, <2>2, <1>1
<1>5. NonceUsedOnce'
  <2>1. ASSUME NEW p \in wire PROVE Nonce(p) # new
    BY <2>1, SecureChannelAssumption DEF Inv, WireInv, TypeOK, Packet, Nonce
  <2> QED
    BY <1>1, <2>1 DEF Inv, NonceUsedOnce, Nonce
<1> QED
  BY <1>1, <1>2, <1>3, <1>4, <1>5, ReceiversUnchanged DEF Inv

-----------------------------------------------------------------------------
\* An accepted packet is a new one, and marks its counter only.
LEMMA DecryptInv ==
    ASSUME Inv, NEW r \in Role, NEW p \in wire \cup Forged(r), NEW a \in Aads,
           Decrypt(r, p, a)
    PROVE  Inv'
<1> DEFINE c == p.counter
           x == <<secret[r], c>>
<1>1. /\ p.secret = secret[r]
      /\ CanAttempt(window[r], c)
      /\ window' = [window EXCEPT ![r] = Consume(@, c)]
      /\ accepted' = [accepted EXCEPT ![r] = @ \cup {x}]
      /\ acceptCount' = [acceptCount EXCEPT ![r] = @ + 1]
      /\ UNCHANGED <<secret, sendCounter, epoch, wire, discarded>>
  BY DEF Decrypt, PrefixMatches
<1>2. p \in wire
  BY DEF Decrypt, TagVerifies, Forged
<1>3. c \in Nat /\ c \in 0 .. MaxCounter
  BY <1>2, SecureChannelAssumption DEF Inv, TypeOK, Packet, WireInv
<1>4. window[r] \in Window /\ secret[r] \in Secret
  BY DEF Inv, TypeOK
<1>5. TypeOK'
  <2>1. Consume(window[r], c) \in Window
    BY <1>1, <1>3, <1>4, ConsumeType
  <2>2. x \in Secret \X Nat
    BY <1>3, <1>4
  <2> QED
    BY <1>1, <2>1, <2>2 DEF Inv, TypeOK
<1>6. AcceptedInv'
  <2>1. IsFiniteSet(accepted[r] \cup {x})
    BY FS_AddElement DEF Inv, AcceptedInv
  <2>2. Len(secret[r]) \in Nat
    BY <1>4 DEF Secret
  <2>3. \A y \in accepted[r] \cup {x} :
            y[2] <= MaxCounter /\ Len(y[1]) <= Len(secret[r])
    BY <1>3, <2>2, SecureChannelAssumption DEF Inv, AcceptedInv
  <2> QED
    BY <1>1, <2>1, <2>3 DEF Inv, AcceptedInv, TypeOK
<1>7. Exact(window[r], AcceptedNow(r)) /\ AcceptedNow(r) \in SUBSET Nat
  BY DEF Inv, WindowExact, Exact, AcceptedNow
<1>8. WindowExact'
  <2>1. \A q \in Role \ {r} :
            AcceptedNow(q)' = AcceptedNow(q) /\ window'[q] = window[q]
    BY <1>1 DEF AcceptedNow, Inv, TypeOK
  <2>2. AcceptedNow(r)' = AcceptedNow(r) \cup {c}
    <3>1. accepted'[r] = accepted[r] \cup {x}
      BY <1>1 DEF Inv, TypeOK
    <3> QED
      BY <1>1, <1>3, <3>1 DEF AcceptedNow
  <2>3. window'[r] = Consume(window[r], c)
    BY <1>1 DEF Inv, TypeOK
  <2>4. Exact(window'[r], AcceptedNow(r)')
    BY <1>1, <1>3, <1>4, <1>7, <2>2, <2>3, ConsumeExact
  <2> SUFFICES ASSUME NEW q \in Role
               PROVE  Exact(window'[q], AcceptedNow(q)')
    BY DEF WindowExact, Exact
  <2>5. CASE q = r
    BY <2>4, <2>5
  <2>6. CASE q # r
    <3>1. Exact(window[q], AcceptedNow(q))
      BY DEF Inv, WindowExact, Exact
    <3> QED
      BY <2>1, <2>6, <3>1
  <2> QED
    BY <2>5, <2>6
<1>9. NoReplay'
  <2>1. x \notin accepted[r]
    BY <1>1, <1>3, <1>4, <1>7, AttemptIsFresh DEF AcceptedNow
  <2>2. Cardinality(accepted[r] \cup {x}) = Cardinality(accepted[r]) + 1
    BY <2>1, FS_AddElement DEF Inv, AcceptedInv
  <2> QED
    BY <1>1, <2>2 DEF Inv, NoReplay, TypeOK
<1> QED
  BY <1>1, <1>5, <1>6, <1>8, <1>9
     DEF Inv, WireInv, DiscardedInv, NonceUsedOnce, Nonce

-----------------------------------------------------------------------------
\* A rotation leaves every packet and every spent nonce to an earlier epoch.
LEMMA RotateKeyInv ==
    ASSUME Inv, NEW r \in Role, NEW k \in NewKeys, RotateKey(r, k)
    PROVE  Inv'
<1>1. /\ secret' = [secret EXCEPT ![r] = Append(@, k)]
      /\ epoch' = [epoch EXCEPT ![r] = @ + 1]
      /\ sendCounter' = [sendCounter EXCEPT ![r] = 0]
      /\ window' = [window EXCEPT ![r] = ResetWindow]
      /\ UNCHANGED <<wire, discarded, accepted, acceptCount>>
  BY DEF RotateKey
<1>2. /\ Append(secret[r], k) \in Secret
      /\ Len(secret[r]) \in Nat
      /\ Len(Append(secret[r], k)) = Len(secret[r]) + 1
  BY DEF Inv, TypeOK, Secret
<1>3. ResetWindow \in Window
  BY DEF ResetWindow, Window
<1>4. TypeOK'
  BY <1>1, <1>2, <1>3, SecureChannelAssumption DEF Inv, TypeOK
<1>5. secret'[r] = Append(secret[r], k)
  BY <1>1 DEF Inv, TypeOK
<1>6. WireInv'
  <2> SUFFICES ASSUME NEW p \in wire
               PROVE  /\ Len(p.secret) <= Len(secret'[p.from])
                      /\ Len(p.secret) = Len(secret'[p.from])
                           => p.counter < sendCounter'[p.from]
    BY <1>1 DEF Inv, WireInv
  <2>1. p.from \in Role /\ Len(p.secret) \in Nat
    BY DEF Inv, TypeOK, Packet, Secret
  <2>2. CASE p.from = r
    BY <1>2, <1>5, <2>1, <2>2 DEF Inv, WireInv
  <2>3. CASE p.from # r
    BY <1>1, <2>1, <2>3 DEF Inv, WireInv, TypeOK
  <2> QED
    BY <2>2, <2>3
<1>7. DiscardedInv'
  <2> SUFFICES ASSUME NEW x \in discarded
               PROVE  /\ Len(x[2]) <= Len(secret'[x[1]])
                      /\ Len(x[2]) = Len(secret'[x[1]])
                           => x[3] < sendCounter'[x[1]]
    BY <1>1 DEF Inv, DiscardedInv
  <2>1. x[1] \in Role /\ Len(x[2]) \in Nat
    BY DEF Inv, TypeOK, Secret
  <2>2. CASE x[1] = r
    BY <1>2, <1>5, <2>1, <2>2 DEF Inv, DiscardedInv
  <2>3. CASE x[1] # r
    BY <1>1, <2>1, <2>3 DEF Inv, DiscardedInv, TypeOK
  <2> QED
    BY <2>2, <2>3
<1>8. ASSUME NEW q \in Role, NEW y \in accepted[q]
      PROVE  /\ Len(y[1]) \in Nat
             /\ Len(y[1]) <= Len(secret'[q])
             /\ q = r => Len(y[1]) < Len(secret'[q])
  <2>1. y[1] \in Secret
    BY DEF Inv, TypeOK
  <2>2. Len(y[1]) \in Nat /\ Len(y[1]) <= Len(secret[q])
    BY <2>1 DEF Inv, AcceptedInv, Secret
  <2> QED
    BY <1>1, <1>2, <1>5, <2>2 DEF Inv, TypeOK
<1>9. AcceptedInv'
  BY <1>1, <1>8 DEF Inv, AcceptedInv
<1>10. WindowExact'
  <2>1. AcceptedNow(r)' = {}
    BY <1>1, <1>8 DEF AcceptedNow
  <2>2. window'[r] = ResetWindow
    BY <1>1 DEF Inv, TypeOK
  <2>3. \A q \in Role \ {r} :
            AcceptedNow(q)' = AcceptedNow(q) /\ window'[q] = window[q]
    BY <1>1 DEF AcceptedNow, Inv, TypeOK
  <2> SUFFICES ASSUME NEW q \in Role
               PROVE  Exact(window'[q], AcceptedNow(q)')
    BY DEF WindowExact, Exact
  <2>4. CASE q = r
    BY <2>1, <2>2, <2>4 DEF Exact, ResetWindow
  <2>5. CASE q # r
    <3>1. Exact(window[q], AcceptedNow(q))
      BY DEF Inv, WindowExact, Exact
    <3> QED
      BY <2>3, <2>5, <3>1
  <2> QED
    BY <2>4, <2>5
<1> QED
  BY <1>1, <1>4, <1>6, <1>7, <1>9, <1>10
     DEF Inv, NonceUsedOnce, Nonce, NoReplay

-----------------------------------------------------------------------------
\* Every step of either end preserves the invariant.
LEMMA NextInv == Inv /\ [Next]_vars => Inv'
<1> SUFFICES ASSUME Inv, [Next]_vars PROVE Inv'
  OBVIOUS
<1>1. ASSUME NEW r \in Role, NEW a \in Aads, Encrypt(r, a) PROVE Inv'
  BY <1>1, EncryptInv
<1>2. ASSUME NEW r \in Role, EncryptThrows(r) PROVE Inv'
  BY <1>2, EncryptThrowsInv
<1>3. ASSUME NEW r \in Role, NEW p \in wire \cup Forged(r), NEW a \in Aads,
             Decrypt(r, p, a)
      PROVE  Inv'
  BY <1>3, DecryptInv
<1>4. ASSUME NEW r \in Role, NEW k \in NewKeys, RotateKey(r, k) PROVE Inv'
  BY <1>4, RotateKeyInv
<1>5. CASE UNCHANGED vars
  BY <1>5 DEF vars, Inv, TypeOK, WireInv, DiscardedInv, AcceptedInv,
              NonceUsedOnce, WindowExact, NoReplay, AcceptedNow
<1> QED
  BY <1>1, <1>2, <1>3, <1>4, <1>5 DEF Next

\* The inductive invariant holds throughout.
THEOREM Invariance == Spec => []Inv
  BY InitInv, NextInv, PTL DEF Spec

\* Every variable keeps its type, for every value of the constants.
THEOREM TypeCorrect == Spec => []TypeOK
<1>1. Inv => TypeOK
  BY DEF Inv
<1> QED
  BY <1>1, Invariance, PTL

\* No key and IV ever seal two packets (secure_channel.cpp, encrypt and
\* rotate_key), whatever throws and however often keys are rotated.
THEOREM NonceSafety == Spec => []NonceUsedOnce
<1>1. Inv => NonceUsedOnce
  BY DEF Inv
<1> QED
  BY <1>1, Invariance, PTL

\* decrypt() accepts no packet twice, for a window of any width.
THEOREM ReplaySafety == Spec => []NoReplay
<1>1. Inv => NoReplay
  BY DEF Inv
<1> QED
  BY <1>1, Invariance, PTL

\* The window is always the set of authenticated counters it stands for.
THEOREM WindowSafety == Spec => []WindowExact
<1>1. Inv => WindowExact
  BY DEF Inv
<1> QED
  BY <1>1, Invariance, PTL

\* An honest packet within reach of the window is never turned away.
THEOREM LateAdmission == Spec => []LatePacketsAdmitted
<1>1. Inv => LatePacketsAdmitted
  <2> SUFFICES ASSUME Inv, NEW r \in Role, NEW p \in wire,
                      window[r].initialized,
                      p.counter \notin AcceptedNow(r),
                      p.counter + WindowSize > window[r].top
               PROVE  CanAttempt(window[r], p.counter)
    BY DEF LatePacketsAdmitted
  <2>1. window[r] \in Window /\ p.counter \in Nat
    BY DEF Inv, TypeOK, Packet
  <2> QED
    BY <2>1, WindowSizeAssumption
       DEF Inv, WindowExact, CanAttempt, Positions, Window
<1> QED
  BY <1>1, Invariance, PTL

\* An end accepts nothing but what its peer sealed.
THEOREM PeerSafety == Spec => []OnlyPeerPackets
<1>1. Init => OnlyPeerPackets
  BY DEF Init, OnlyPeerPackets
<1>2. ASSUME Inv, OnlyPeerPackets, [Next]_vars PROVE OnlyPeerPackets'
  <2>1. ASSUME NEW r \in Role, NEW a \in Aads, Encrypt(r, a)
        PROVE  OnlyPeerPackets'
    BY <1>2, <2>1 DEF Encrypt, OnlyPeerPackets
  <2>2. ASSUME NEW r \in Role, NEW p \in wire \cup Forged(r), NEW a \in Aads,
               Decrypt(r, p, a)
        PROVE  OnlyPeerPackets'
    <3>1. /\ p \in wire /\ p.from = Peer(r)
          /\ accepted' = [accepted EXCEPT ![r] = @ \cup {<<p.secret, p.counter>>}]
          /\ wire' = wire
      BY <2>2 DEF Decrypt, TagVerifies, PrefixMatches, Forged
    <3>2. accepted \in [Role -> SUBSET (Secret \X Nat)]
      BY <1>2 DEF Inv, TypeOK
    <3> QED
      BY <1>2, <3>1, <3>2 DEF OnlyPeerPackets
  <2>3. ASSUME NEW r \in Role, EncryptThrows(r) \/ \E k \in NewKeys : RotateKey(r, k)
        PROVE  OnlyPeerPackets'
    BY <1>2, <2>3 DEF EncryptThrows, RotateKey, OnlyPeerPackets
  <2>4. CASE UNCHANGED vars
    BY <1>2, <2>4 DEF vars, OnlyPeerPackets
  <2> QED
    BY <1>2, <2>1, <2>2, <2>3, <2>4 DEF Next
<1> QED
  BY <1>1, <1>2, Invariance, PTL DEF Spec
=============================================================================
