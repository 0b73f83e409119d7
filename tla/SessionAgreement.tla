-------------------------- MODULE SessionAgreement --------------------------
(***************************************************************************)
(* What the handshake promises: the server enters sessions, no two of them *)
(* with one key, and the drone enters a session only after the server has  *)
(* entered that very session, with the same key, the same exchange behind  *)
(* it and the same chain to continue, and enters it once.                  *)
(***************************************************************************)
VARIABLES
    entered,        \* the sessions the server has entered, each with its key
    joined          \* the sessions the drone has entered

agreement == <<entered, joined>>

Init == entered = {} /\ joined = {}

Enter ==
    /\ \E s \in entered' :
           /\ entered' = entered \cup {s}
           /\ \A t \in entered : t.key # s.key
    /\ UNCHANGED joined

Join ==
    /\ \E s \in entered \ joined : joined' = joined \cup {s}
    /\ UNCHANGED entered

Next == Enter \/ Join

Spec == Init /\ [][Next]_agreement

-----------------------------------------------------------------------------
\* A key tells which session it belongs to: no two that the server has entered,
\* on whatever connections, share one.
KeyTellsSession == \A s, t \in entered : s.key = t.key => s = t

\* The drone is in no session that the server does not know.
JoinedWereEntered == joined \subseteq entered
=============================================================================
