------------------------- MODULE TrustedApplication -------------------------
(***************************************************************************)
(* Two parts of the trusted application side by side: the authentication   *)
(* of its sessions (SessionAuth) and the drone's ML-DSA key                *)
(* (MldsaIdentity).  They keep different objects and different files.      *)
(* What either does to the other, it does as an environment the other has  *)
(* already: a session that does not open is a query of MldsaIdentity that  *)
(* fails, and the wipe of a rotation is its Rotate.  So a behaviour is one *)
(* of either part, with the other at rest.                                 *)
(***************************************************************************)
EXTENDS SessionAuth, MldsaIdentity

VARIABLE part       \* the part this behaviour is of

taVars == <<part, authVars, identityVars>>

\* The part at rest is a new device of one kind only.
TaInit ==
    /\ part \in {"session", "identity"}
    /\ AuthInit /\ IdentityInit
    /\ part = "session" => policy = {} /\ pairs = 0
    /\ part = "identity" => ~maintenance

OfSession == part = "session" /\ UNCHANGED <<part, identityVars>>
OfIdentity == part = "identity" /\ UNCHANGED <<part, authVars>>

TaNext == (AuthNext /\ OfSession) \/ (IdentityNext /\ OfIdentity)

\* The fairness of either part.
TaSpec ==
    /\ TaInit /\ [][TaNext]_taVars
    /\ WF_taVars(AuthStep /\ OfSession)
    /\ WF_taVars(StartScript("provision") /\ OfSession)
    /\ WF_taVars(Boot /\ OfIdentity)

-----------------------------------------------------------------------------

\* A drone without a blob gets one that opens a session: ProvisioningCompletes
\* of the scripts and the TA.
BlobComes == part = "session" => ProvisioningCompletes

\* A drone that has a key comes up: ComesUp of its start.
DroneComesUp == part = "identity" => ComesUp
=============================================================================
