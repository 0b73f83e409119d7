----------------------------- MODULE SessionAuth ----------------------------
(***************************************************************************)
(* The authentication of sessions with the trusted application: the hash   *)
(* of the secret and the master key in the TA (ta_hesia.c), the sealed     *)
(* blob of the secret on the disk, the recovery flow, and the scripts that *)
(* drive the host tool (host/main.c, provision_optee_session_auth.sh,      *)
(* rotate_drone_identity.sh).                                              *)
(*                                                                         *)
(* One operator runs one script at a time; a script stops at the first     *)
(* command that fails (set -e).  Beside it the drone service starts, and   *)
(* an export that fails may ask for a recovery challenge of its own.  The  *)
(* power may go between any two steps: the TA's objects and the files      *)
(* stay, the script is over.  Secrets, keys and nonces are numbers.        *)
(***************************************************************************)
EXTENDS Integers

CONSTANTS
    MaxSecrets,         \* bound: secrets and master keys made by the scripts
    MaxChallenges,      \* bound: recovery challenges
    MaxInterruptions    \* bound: power losses and failed writes

ASSUME SessionAuthAssumption ==
    /\ MaxSecrets \in Nat /\ MaxChallenges \in Nat /\ MaxInterruptions \in Nat

Absent == 0
NoFile == [found |-> FALSE, key |-> Absent, secret |-> Absent]
Truncated == [found |-> TRUE, key |-> Absent, secret |-> Absent]
NoToken == [nonce |-> Absent, secret |-> Absent, akey |-> Absent]

VARIABLES
    maintenance,    \* the build: HESIA_TA_ENABLE_MAINTENANCE_CMDS is defined
    master,     \* the AES key that seals, None if there is none
    hash,       \* whose hash the TA holds
    akey,       \* the attestation key
    nonce,      \* the recovery nonce in the TA
    expired,    \* its 300 seconds are over
    blob,       \* optee_session_auth.sealed
    secret,     \* the new secret of the running script
    token,      \* the token signed offline for it
    script,     \* "none", "provision" or "rotate"
    step,       \* its next command
    asked,      \* the nonce in the script's challenge file
    torn,       \* history: a fault came between the TA's objects and the blob
    rotated,    \* history: the key the blob is sealed under has been wiped
    secrets, keys, challenges, interruptions

ta == <<maintenance, master, hash, akey, nonce, expired>>
run == <<secret, token, script, step, asked>>
losses == <<interruptions, torn, rotated>>
counts == <<secrets, keys, challenges, losses>>
authVars == <<ta, blob, run, counts>>

AuthInit ==
    /\ maintenance \in BOOLEAN
    /\ master = Absent /\ hash = Absent /\ akey = 1
    /\ nonce = Absent /\ expired = FALSE
    /\ blob = NoFile
    /\ secret = Absent /\ token = NoToken
    /\ script = "none" /\ step = "idle" /\ asked = Absent
    /\ secrets = 0 /\ keys = 0 /\ challenges = 0 /\ interruptions = 0
    /\ torn = FALSE /\ rotated = FALSE

EndScript ==
    /\ script' = "none" /\ step' = "idle"
    /\ secret' = Absent /\ token' = NoToken /\ asked' = Absent
Continue(label) ==
    step' = label /\ UNCHANGED <<secret, token, script, asked>>

(* The TA. *)

\* Faulty variant: an existing key is replaced.
MakeKey == master' = keys + 1 /\ keys' = keys + 1

\* get_or_create_aes_key: whoever needs the key makes it.
GetOrCreateKey ==
    IF master # Absent
    THEN UNCHANGED <<master, keys>>
    ELSE master' = keys + 1 /\ keys' = keys + 1

\* verify_session_auth_or_bootstrap of a sealed blob: it must have been
\* sealed under this master key, around the secret whose hash is stored.
BlobOpens ==
    /\ blob.secret # Absent /\ blob.key = master
    /\ blob.secret = hash

\* The same with the 32 raw bytes.
SecretOpens(s) == s # Absent /\ s = hash

\* get_recovery_challenge_cmd replaces whatever nonce there was.
NewChallenge ==
    /\ challenges < MaxChallenges
    /\ challenges' = challenges + 1
    /\ nonce' = challenges + 1 /\ expired' = FALSE

\* Faulty variant: the nonce is looked for, but not compared.
TokenAcceptedStale ==
    /\ nonce # Absent /\ ~expired
    /\ token.akey = akey /\ token.secret = secret

\* recover_session_auth_cmd, up to the new hash.
TokenAccepted ==
    /\ nonce # Absent /\ token.nonce = nonce /\ ~expired
    /\ token.akey = akey /\ token.secret = secret

(* The scripts.  provision_optee_session_auth.sh refuses to run when the   *)
(* blob exists; rotate_drone_identity.sh then rotates with it, and         *)
(* otherwise takes the same recovery steps.                                *)

\* Faulty variant: only a TA without a hash is provisioned.
StartFirst(s) ==
    /\ step = "idle" /\ secrets < MaxSecrets
    /\ s = "provision" => ~blob.found /\ hash = Absent
    /\ script' = s
    /\ secret' = secrets + 1 /\ secrets' = secrets + 1
    /\ step' = IF blob.found THEN "set" ELSE "challenge"
    /\ UNCHANGED <<ta, blob, token, asked, keys, challenges, losses>>

\* The secret is made before the first command.
StartScript(s) ==
    /\ step = "idle" /\ secrets < MaxSecrets
    /\ s = "provision" => ~blob.found
    /\ script' = s
    /\ secret' = secrets + 1 /\ secrets' = secrets + 1
    /\ step' = IF blob.found THEN "set" ELSE "challenge"
    /\ UNCHANGED <<ta, blob, token, asked, keys, challenges, losses>>

Challenge ==
    /\ step = "challenge"
    /\ NewChallenge
    /\ asked' = nonce' /\ step' = "sign"
    /\ UNCHANGED <<maintenance, master, hash, akey, blob, secret, token,
                   script, secrets, keys, losses>>

\* generate_optee_recovery_token.py, over the challenge file.
SignToken ==
    /\ step = "sign"
    /\ token' = [nonce |-> asked, secret |-> secret, akey |-> akey]
    /\ step' = "recover"
    /\ UNCHANGED <<ta, blob, secret, script, asked, counts>>

Recover ==
    /\ step = "recover" /\ TokenAccepted
    /\ hash' = secret
    /\ Continue("clear")
    /\ UNCHANGED <<maintenance, master, akey, nonce, expired, blob, counts>>

\* An expired nonce is cleared by the refusal.
RecoverRefused ==
    /\ step = "recover" /\ ~TokenAccepted
    /\ nonce' = IF token.nonce = nonce /\ expired THEN Absent ELSE nonce
    /\ EndScript
    /\ UNCHANGED <<maintenance, master, hash, akey, expired, blob, counts>>

ClearNonce ==
    /\ step = "clear"
    /\ nonce' = Absent /\ Continue("seal")
    /\ UNCHANGED <<maintenance, master, hash, akey, expired, blob, counts>>

\* rotate_session_auth: a session opened with the blob on the disk, and
\* SET_SESSION_AUTH_SECRET in it.
SetSecret ==
    /\ step = "set" /\ BlobOpens
    /\ hash' = secret
    /\ Continue("seal")
    /\ UNCHANGED <<maintenance, master, akey, nonce, expired, blob, counts>>

\* The blob does not open a session.  A blob with a header is unsealed
\* first, which makes a master key if there is none.
SetRefused ==
    /\ step = "set" /\ ~BlobOpens
    /\ IF blob.secret # Absent THEN GetOrCreateKey
       ELSE UNCHANGED <<master, keys>>
    /\ EndScript
    /\ UNCHANGED <<maintenance, hash, akey, nonce, expired, blob, secrets,
                   challenges, losses>>

\* seal_session_auth_blob, in a session the new secret opens (that of
\* SET_SESSION_AUTH_SECRET, or the one reopened after the recovery), up to
\* fopen(path, "wb") of write_file.
Seal ==
    /\ step = "seal"
    /\ SecretOpens(secret)
    /\ GetOrCreateKey
    /\ blob' = Truncated /\ Continue("write")
    /\ UNCHANGED <<maintenance, hash, akey, nonce, expired, secrets,
                   challenges, losses>>

Write ==
    /\ step = "write"
    /\ blob' = [found |-> TRUE, key |-> master, secret |-> secret]
    /\ torn' = FALSE /\ rotated' = FALSE
    /\ IF script = "rotate" THEN Continue("rotate") ELSE EndScript
    /\ UNCHANGED <<ta, secrets, keys, challenges, interruptions>>

\* A fault that ends the script; harm is done where the TA has gone ahead of
\* the blob.
ScriptFault ==
    /\ interruptions < MaxInterruptions /\ interruptions' = interruptions + 1
    /\ torn' = (torn \/ step \in {"clear", "seal", "write"})
    /\ EndScript /\ UNCHANGED rotated

\* The file cannot be opened, or not be written.
WriteFails ==
    /\ step \in {"seal", "write"} /\ ScriptFault
    /\ UNCHANGED <<ta, blob, secrets, keys, challenges>>

\* "rotate": the release build refuses the command.
RotateUnknown ==
    /\ step = "rotate" /\ ~maintenance
    /\ EndScript
    /\ UNCHANGED <<ta, blob, counts>>

\* rotate_key_internal: wipe_key_internal deletes the master key first and
\* the hash of the session secret and the nonce later, then both keys are
\* made anew.
WipeMaster ==
    /\ step = "rotate" /\ maintenance /\ BlobOpens
    /\ master' = Absent /\ rotated' = TRUE /\ Continue("wipe")
    /\ UNCHANGED <<maintenance, hash, akey, nonce, expired, blob, secrets,
                   keys, challenges, interruptions, torn>>

WipeAuth ==
    /\ step = "wipe"
    /\ hash' = Absent /\ nonce' = Absent /\ Continue("renew")
    /\ UNCHANGED <<maintenance, master, akey, expired, blob, counts>>

RenewKeys ==
    /\ step = "renew"
    /\ GetOrCreateKey /\ akey' = akey + 1 /\ Continue("export")
    /\ UNCHANGED <<maintenance, hash, nonce, expired, blob, secrets,
                   challenges, losses>>

\* export_ta_public_anchors.sh and the restart of the service, both with
\* the blob the script has written.
ExportAnchors ==
    /\ step = "export"
    /\ Continue(IF BlobOpens THEN "done" ELSE "failed")
    /\ UNCHANGED <<ta, blob, counts>>

ScriptEnds ==
    /\ step \in {"done", "failed"}
    /\ EndScript
    /\ UNCHANGED <<ta, blob, counts>>

(* Beside the scripts, when the TA's one session is free. *)

\* A command is running, or the script's host tool has the session open.
TaBusy ==
    \/ step \in {"clear", "write", "wipe", "renew"}
    \/ step = "seal" /\ token = NoToken

\* The drone service starts, or a host tool is run: a session is tried with
\* the blob.
OpenSession ==
    /\ ~TaBusy /\ blob.secret # Absent
    /\ GetOrCreateKey
    /\ UNCHANGED <<maintenance, hash, akey, nonce, expired, blob, run,
                   secrets, challenges, losses>>

\* fetch_attestation_pubkey_via_recovery_challenge, after a failed export.
StrayChallenge ==
    /\ ~TaBusy /\ NewChallenge
    /\ UNCHANGED <<maintenance, master, hash, akey, blob, run, secrets,
                   keys, losses>>

Expire ==
    /\ nonce # Absent /\ ~expired /\ expired' = TRUE
    /\ UNCHANGED <<maintenance, master, hash, akey, nonce, blob, run,
                   counts>>

ScriptPowerLoss ==
    /\ step # "idle" /\ ScriptFault
    /\ UNCHANGED <<ta, blob, secrets, keys, challenges>>

AuthStep ==
    \/ Challenge \/ SignToken \/ Recover \/ RecoverRefused \/ ClearNonce
    \/ SetSecret \/ SetRefused \/ Seal \/ Write
    \/ RotateUnknown \/ WipeMaster \/ WipeAuth \/ RenewKeys
    \/ ExportAnchors \/ ScriptEnds

AuthNext ==
    \/ \E s \in {"provision", "rotate"} : StartScript(s)
    \/ AuthStep \/ WriteFails \/ ScriptPowerLoss
    \/ OpenSession \/ StrayChallenge \/ Expire

\* A script runs to its end, and while there is no blob the operator runs the
\* provisioning script.
AuthSpec ==
    /\ AuthInit /\ [][AuthNext]_authVars
    /\ WF_authVars(AuthStep) /\ WF_authVars(StartScript("provision"))

-----------------------------------------------------------------------------

AuthTypeOK ==
    /\ maintenance \in BOOLEAN
    /\ master \in 0 .. keys /\ hash \in 0 .. secrets
    /\ akey \in Nat \ {0}
    /\ nonce \in 0 .. challenges /\ expired \in BOOLEAN
    /\ blob \in [found : BOOLEAN, key : 0 .. keys, secret : 0 .. secrets]
    /\ secret \in 0 .. secrets
    /\ token \in [nonce : 0 .. challenges, secret : 0 .. secrets,
                  akey : Nat]
    /\ script \in {"none", "provision", "rotate"}
    /\ step \in {"idle", "challenge", "sign", "recover", "clear", "set",
                 "seal", "write", "rotate", "wipe", "renew", "export", "done",
                 "failed"}
    /\ asked \in 0 .. challenges
    /\ secrets \in 0 .. MaxSecrets /\ keys \in Nat
    /\ challenges \in 0 .. MaxChallenges
    /\ interruptions \in 0 .. MaxInterruptions
    /\ {torn, rotated} \subseteq BOOLEAN

\* Between scripts a drone that has a blob, or a secret in the TA, opens
\* sessions with it, whatever the order of scripts, stray challenges, expiries
\* and session attempts has been, except for two reasons: a fault came while
\* the TA had gone ahead of the blob, or a maintenance build has rotated the
\* keys since the blob was written.
LockedOutForAReason ==
    step = "idle" /\ (blob.found \/ hash # Absent)
        => BlobOpens \/ torn \/ rotated

\* A controlled rotation: when the script comes to export the anchors and to
\* restart the service with the blob it has written, that blob opens a session.
RotationLeavesSession == step \in {"export", "done", "failed"} => BlobOpens

\* "stale or mismatched recovery material must fail": a token takes effect
\* only while its challenge is the last one the TA has issued, whoever has
\* asked for another one in between.
RecoveryIsFresh ==
    [][step = "recover" /\ hash' # hash => token.nonce = challenges]_authVars

\* A drone without a blob gets one that opens a session, as long as secrets and
\* challenges last: wherever a provisioning was interrupted before the file was
\* opened, and whatever it has left in the TA, the next one goes through.  The
\* one way out is a fault between the opening of the file and its last byte.
ProvisioningCompletes ==
    []( step = "idle" /\ ~blob.found
        => <>(\/ BlobOpens
              \/ step = "idle" /\ blob.found /\ torn
              \/ secrets = MaxSecrets \/ challenges = MaxChallenges))
=============================================================================
