----------------------------- MODULE ControlLog -----------------------------
(***************************************************************************)
(* What the secure session promises of its control messages, whatever the  *)
(* threads, the queue and the connection do: the server accepts them in    *)
(* the order they were sealed, each at most once and without a gap.  The   *)
(* drone may lose a message it has sealed, but only one the server has not *)
(* accepted, and the session can then never get past it: it breaks when a  *)
(* later message comes, or is closed for a reason of its own.              *)
(***************************************************************************)
EXTENDS Integers

VARIABLES
    sealed,         \* how many control messages the drone has sealed
    accepted,       \* how many of them the server has accepted
    lost,           \* the positions of those the drone has thrown away
    status          \* of the session: open, broken by a gap, or closed

log == <<sealed, accepted, lost, status>>

Init ==
    /\ sealed = 0
    /\ accepted = 0
    /\ lost = {}
    /\ status = "open"

Seal ==
    /\ sealed' = sealed + 1
    /\ UNCHANGED <<accepted, lost, status>>

Lose ==
    /\ \E n \in accepted .. (sealed - 1) : lost' = lost \cup {n}
    /\ UNCHANGED <<sealed, accepted, status>>

\* Taking a message and ending the session for another reason may coincide.
Accept ==
    /\ status = "open"
    /\ accepted < sealed
    /\ accepted \notin lost
    /\ accepted' = accepted + 1
    /\ status' \in {"open", "closed"}
    /\ UNCHANGED <<sealed, lost>>

Break ==
    /\ status = "open"
    /\ accepted \in lost
    /\ status' = "broken"
    /\ UNCHANGED <<sealed, accepted, lost>>

Close ==
    /\ status = "open"
    /\ status' = "closed"
    /\ UNCHANGED <<sealed, accepted, lost>>

Next == Seal \/ Lose \/ Accept \/ Break \/ Close

Spec == Init /\ [][Next]_log

-----------------------------------------------------------------------------
\* The server has accepted nothing that was not sealed, and every message below
\* the one it waits for has come: what is lost is that one or a later one.
AcceptedHaveCome ==
    /\ accepted <= sealed
    /\ \A n \in lost : accepted <= n /\ n < sealed

\* A session breaks because the very message it waits for is lost, and neither
\* that message nor a later one is accepted afterwards.
BrokenByLoss == status = "broken" => accepted \in lost
=============================================================================
