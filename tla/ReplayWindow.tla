---------------------------- MODULE ReplayWindow ----------------------------
(***************************************************************************)
(* The anti-replay window of drone_source/secure_channel.cpp: the highest  *)
(* counter accepted so far and a bitmap of the counters just below it.     *)
(* The 64-bit bitmap is the set of its bit positions: position d stands    *)
(* for the counter top - d, a left shift adds to every position, and the   *)
(* positions shifted past the word are lost.                               *)
(***************************************************************************)
EXTENDS Integers

CONSTANT WindowSize            \* kReplayWindowSize, the width of the bitmap

ASSUME WindowSizeAssumption == WindowSize \in Nat \ {0}

Positions == 0 .. (WindowSize - 1)

Window == [initialized : BOOLEAN, top : Nat, bitmap : SUBSET Positions]

ResetWindow == [initialized |-> FALSE, top |-> 0, bitmap |-> {}]

\* Faulty variants: the window reaches one counter too far, or not far enough.
CanAttemptTooFar(w, c) ==
    \/ ~w.initialized /\ c < WindowSize
    \/ w.initialized /\ c > w.top
    \/ /\ w.initialized
       /\ c <= w.top
       /\ w.top - c <= WindowSize
       /\ w.top - c \notin w.bitmap

CanAttemptTooShort(w, c) ==
    \/ ~w.initialized /\ c < WindowSize
    \/ w.initialized /\ c > w.top
    \/ /\ w.initialized
       /\ c <= w.top
       /\ w.top - c < WindowSize - 1
       /\ w.top - c \notin w.bitmap

\* The check made before any cryptographic work; it reads and never writes.
CanAttempt(w, c) ==
    \/ ~w.initialized /\ c < WindowSize
    \/ w.initialized /\ c > w.top
    \/ /\ w.initialized
       /\ c <= w.top
       /\ w.top - c < WindowSize
       /\ w.top - c \notin w.bitmap

Shift(bitmap, n) == {d \in Positions : d - n \in bitmap}

\* The window once the authenticated counter c has been consumed.
Consume(w, c) ==
    IF ~w.initialized \/ c > w.top
    THEN [initialized |-> TRUE,
          top         |-> c,
          bitmap      |-> {0} \cup IF w.initialized
                                   THEN Shift(w.bitmap, c - w.top)
                                   ELSE {}]
    ELSE [w EXCEPT !.bitmap = @ \cup {w.top - c}]

=============================================================================
