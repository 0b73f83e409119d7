---------------------------- MODULE SecureChannel ----------------------------
(***************************************************************************)
(* The AES-256-GCM channel of drone_source/secure_channel.cpp, with one    *)
(* end on the drone and one on the server, over a network that may lose,   *)
(* delay, reorder and duplicate packets, and deliver packets nobody sent.  *)
(*                                                                         *)
(* A session secret is the sequence of keys rotated into it since the      *)
(* handshake: HKDF never maps two sequences to one secret.  Key and IV     *)
(* prefix of a direction follow from the secret and the sending role, so a *)
(* packet carries the secret it was sealed under, its counter, the epoch   *)
(* and the caller's AAD; `sealed' says whether its GCM tag is genuine.     *)
(***************************************************************************)
EXTENDS ReplayWindow, Sequences, FiniteSets

CONSTANTS
    MaxCounter,     \* kMaxCounterPerEpoch: the largest number of 32 bits
    NewKeys,        \* the keys a rotation may be given
    Aads,           \* the values of the caller's AAD
    Senders,        \* the ends that encrypt
    MaxRotations    \* bound: rotations explored

ASSUME SecureChannelAssumption ==
    /\ MaxCounter \in Nat
    /\ MaxRotations \in Nat
    /\ Senders \subseteq {"drone", "server"}

Role == {"drone", "server"}
Peer(r) == IF r = "drone" THEN "server" ELSE "drone"

VARIABLES
    secret,         \* session_secret_ of each end
    sendCounter,    \* send_counter
    epoch,          \* key_epoch
    window,         \* replay_window_initialized, _top and _bitmap
    wire,           \* every packet ever sent: the network may deliver any again
    discarded,      \* history: nonces under which encrypt() sealed, and threw
    accepted,       \* history: (secret, counter) pairs each end has accepted
    acceptCount     \* history: how many times each end has accepted

vars == <<secret, sendCounter, epoch, window, wire, discarded, accepted,
          acceptCount>>

Secret == Seq(NewKeys)

Packet == [from : Role, secret : Secret, counter : Nat, epoch : Nat,
           aad : Aads, sealed : BOOLEAN]

Init ==
    /\ secret = [r \in Role |-> <<>>]
    /\ sendCounter = [r \in Role |-> 0]
    /\ epoch = [r \in Role |-> 0]
    /\ window = [r \in Role |-> ResetWindow]
    /\ wire = {} /\ discarded = {}
    /\ accepted = [r \in Role |-> {}]
    /\ acceptCount = [r \in Role |-> 0]

-----------------------------------------------------------------------------
\* build_iv() has four bytes for the counter, which is kept in 64 bits.
IvCounter(c) == c % (MaxCounter + 1)

\* Faulty variant: one more counter is used than the IV has room for.
TakeOneMore(r) ==
    /\ r \in Senders
    /\ sendCounter[r] <= MaxCounter + 1
    /\ sendCounter' = [sendCounter EXCEPT ![r] = @ + 1]

\* Both paths of encrypt() past its guard consume the counter.
TakeCounter(r) ==
    /\ r \in Senders
    /\ sendCounter[r] <= MaxCounter
    /\ sendCounter' = [sendCounter EXCEPT ![r] = @ + 1]

\* What the key and the IV of a packet depend on.
Nonce(p) == <<p.from, p.secret, p.counter>>
NextNonce(r) == <<r, secret[r], IvCounter(sendCounter[r])>>

Encrypt(r, a) ==
    /\ TakeCounter(r)
    /\ wire' = wire \cup {[from |-> r, secret |-> secret[r],
                           counter |-> IvCounter(sendCounter[r]),
                           epoch |-> epoch[r], aad |-> a, sealed |-> TRUE]}
    /\ UNCHANGED <<secret, epoch, window, discarded, accepted, acceptCount>>

\* Faulty variant: the counter of a failed call is used again.
ThrowGivesBack(r) ==
    /\ r \in Senders /\ sendCounter[r] <= MaxCounter
    /\ discarded' = discarded \cup {NextNonce(r)}
    /\ UNCHANGED <<secret, sendCounter, epoch, window, wire, accepted,
                   acceptCount>>

\* The cipher or the fault detector behind it throws: the key and the IV may
\* have sealed the plaintext by then.
EncryptThrows(r) ==
    /\ TakeCounter(r)
    /\ discarded' = discarded \cup {NextNonce(r)}
    /\ UNCHANGED <<secret, epoch, window, wire, accepted, acceptCount>>

-----------------------------------------------------------------------------
\* Packets nobody sealed: the clear part, prefix and counter, is well formed.
Forged(r) ==
    [from : {Peer(r)}, secret : {secret[r]}, counter : 0 .. MaxCounter,
     epoch : {epoch[r]}, aad : Aads, sealed : {FALSE}]

PrefixMatches(r, p) == p.from = Peer(r) /\ p.secret = secret[r]

TagVerifies(r, p, a) == p.sealed /\ p.epoch = epoch[r] /\ p.aad = a

\* Faulty variant: the counter is consumed before the tag is known to be right.
DecryptMarksFirst(r, p, a) ==
    /\ PrefixMatches(r, p)
    /\ CanAttempt(window[r], p.counter)
    /\ window' = [window EXCEPT ![r] = Consume(@, p.counter)]
    /\ IF TagVerifies(r, p, a)
       THEN /\ accepted' = [accepted EXCEPT ![r] = @ \cup {<<p.secret, p.counter>>}]
            /\ acceptCount' = [acceptCount EXCEPT ![r] = @ + 1]
       ELSE UNCHANGED <<accepted, acceptCount>>
    /\ UNCHANGED <<secret, sendCounter, epoch, wire, discarded>>

\* decrypt() returns the plaintext; each of its exceptions leaves every
\* variable as it was.
Decrypt(r, p, a) ==
    /\ PrefixMatches(r, p)
    /\ CanAttempt(window[r], p.counter)
    /\ TagVerifies(r, p, a)
    /\ window' = [window EXCEPT ![r] = Consume(@, p.counter)]
    /\ accepted' = [accepted EXCEPT ![r] = @ \cup {<<p.secret, p.counter>>}]
    /\ acceptCount' = [acceptCount EXCEPT ![r] = @ + 1]
    /\ UNCHANGED <<secret, sendCounter, epoch, wire, discarded>>

-----------------------------------------------------------------------------
\* Faulty variant: the counters start again under the secret they had.
RotateKeepsSecret(r, k) ==
    /\ epoch[r] < MaxRotations
    /\ epoch' = [epoch EXCEPT ![r] = @ + 1]
    /\ sendCounter' = [sendCounter EXCEPT ![r] = 0]
    /\ window' = [window EXCEPT ![r] = ResetWindow]
    /\ UNCHANGED <<secret, wire, discarded, accepted, acceptCount>>

\* rotate_key(): each end rotates when its caller says so.
RotateKey(r, k) ==
    /\ epoch[r] < MaxRotations
    /\ secret' = [secret EXCEPT ![r] = Append(@, k)]
    /\ epoch' = [epoch EXCEPT ![r] = @ + 1]
    /\ sendCounter' = [sendCounter EXCEPT ![r] = 0]
    /\ window' = [window EXCEPT ![r] = ResetWindow]
    /\ UNCHANGED <<wire, discarded, accepted, acceptCount>>

Next ==
    \E r \in Role :
        \/ \E a \in Aads : Encrypt(r, a)
        \/ EncryptThrows(r)
        \/ \E p \in wire \cup Forged(r), a \in Aads : Decrypt(r, p, a)
        \/ \E k \in NewKeys : RotateKey(r, k)

Spec == Init /\ [][Next]_vars

-----------------------------------------------------------------------------
TypeOK ==
    /\ secret \in [Role -> Secret]
    /\ sendCounter \in [Role -> 0 .. (MaxCounter + 1)]
    /\ epoch \in [Role -> Nat]
    /\ window \in [Role -> Window]
    /\ wire \subseteq Packet
    /\ discarded \subseteq Role \X Secret \X Nat
    /\ accepted \in [Role -> SUBSET (Secret \X Nat)]
    /\ acceptCount \in [Role -> Nat]

\* A key and an IV seal at most one packet, up to the last counter of an epoch
\* and across rotations of the key: two packets on the wire differ in their
\* direction, their secret or their counter, and none of them was sealed like
\* one that encrypt() has thrown away.
NonceUsedOnce ==
    /\ \A p, q \in wire : Nonce(p) = Nonce(q) => p = q
    /\ \A p \in wire : Nonce(p) \notin discarded

\* No packet is accepted twice, however often and in whatever order the network
\* delivers it: there were as many acceptances as there are accepted counters.
NoReplay ==
    \A r \in Role : acceptCount[r] = Cardinality(accepted[r])

AcceptedNow(r) == {c \in 0 .. MaxCounter : <<secret[r], c>> \in accepted[r]}

\* The window holds what was authenticated and nothing else: a packet with a
\* bad tag never marks its counter, no accepted counter is forgotten while the
\* bitmap covers it, and none lies above the top.
WindowExact ==
    \A r \in Role :
        IF window[r].initialized
        THEN /\ window[r].top \in AcceptedNow(r)
             /\ \A c \in AcceptedNow(r) : c <= window[r].top
             /\ \A d \in Positions :
                    d \in window[r].bitmap
                        <=> window[r].top - d \in AcceptedNow(r)
        ELSE window[r].bitmap = {} /\ AcceptedNow(r) = {}

\* The window refuses nothing it need not: an honest packet of the current
\* secret that was not accepted and is at most WindowSize - 1 behind the newest
\* one is let through, however late it comes.
LatePacketsAdmitted ==
    \A r \in Role : \A p \in wire :
        ( /\ PrefixMatches(r, p)
          /\ window[r].initialized
          /\ p.counter \notin AcceptedNow(r)
          /\ p.counter + WindowSize > window[r].top )
            => CanAttempt(window[r], p.counter)

\* An end accepts only packets its peer sealed, and never more of them than the
\* peer has sent.
OnlyPeerPackets ==
    \A r \in Role : \A x \in accepted[r] :
        \E p \in wire : p.from = Peer(r) /\ <<p.secret, p.counter>> = x
=============================================================================
