----------------------------- MODULE TaStorage -----------------------------
(***************************************************************************)
(* What the trusted application (ta_hesia.c) replaces in several storage   *)
(* operations: the attestation key, which is a private blob, a public blob *)
(* and a state version; and the firmware version, which a drone without    *)
(* A/B slots checks at every boot (the end of HesiaDrone's constructor).   *)
(* WIPE_KEY and ROTATE_KEY take both away.                                 *)
(*                                                                         *)
(* The TA has one instance and one session: commands run one at a time.    *)
(* An object is read, created and deleted whole.  Between two operations   *)
(* the power may go; a write may be refused; loading the pair may fail for *)
(* want of memory.  A delete of an object that could be opened is taken to *)
(* succeed (the code ignores its result).  A key pair is its number.  The  *)
(* object of older TAs, HESIA_ATTEST_KEY_ID, is never read: left out.      *)
(***************************************************************************)
EXTENDS Integers

CONSTANTS
    MaxKeys,        \* bound: key pairs generated
    MaxVersion,     \* bound: the newest firmware there is
    MaxRotations,   \* bound: ROTATE_KEY and WIPE_KEY of a maintenance build
    MaxFaults       \* bound: power losses, failed operations and loads

ASSUME TaStorageAssumption ==
    /\ MaxKeys \in Nat /\ MaxVersion \in Nat \ {0}
    /\ MaxRotations \in Nat /\ MaxFaults \in Nat

None == 0
Version == 1 .. MaxVersion

VARIABLES
    priv, pub,      \* the key in the private and in the public blob
    state,          \* the state object says HESIA_ATTEST_STATE_VERSION
    made,           \* key pairs generated
    object,         \* the version: "missing", "unreadable" (made without
                    \* ACCESS_READ by an older TA), "empty" (created, not
                    \* written) or "full"
    stored,         \* the number in a full object
    pc,             \* the next step of the running command, "idle" if none
    cmd,            \* the command whose key is being made, or that wipes
    key,            \* the key pair being created
    incoming,       \* the version being checked
    anchor,         \* history: the public key last exported
    signer,         \* history: the key of the last signature
    exposed,        \* history: the anchor was exported from a pair that is
                    \* not whole, or a fault came after the export
    accepted,       \* history: newest version accepted since a reset or wipe
    lost,           \* history: a fault hit between the delete and the create
    faults, rotations

attest == <<priv, pub, state, made, key, anchor, signer>>
version == <<object, stored, incoming, accepted, lost>>
trouble == <<faults, exposed, rotations>>
vars == <<attest, version, pc, cmd, trouble>>

Init ==
    /\ priv = None /\ pub = None /\ state = FALSE /\ made = 0
    /\ object \in {"missing", "unreadable"} /\ stored = 0
    /\ pc = "idle" /\ cmd = "none" /\ key = None /\ incoming = 0
    /\ anchor = None /\ signer = None /\ exposed = FALSE
    /\ accepted = 0 /\ lost = FALSE
    /\ faults = 0 /\ rotations = 0

Done == pc' = "idle" /\ cmd' = "none" /\ key' = None /\ incoming' = 0
Fault == faults < MaxFaults /\ faults' = faults + 1 /\ exposed' = TRUE

-----------------------------------------------------------------------------
(* The attestation key: get_or_create_attest_key takes the pair that is    *)
(* stored, or makes a new one.                                             *)

\* Faulty variant: a stored pair is used only by the export.
LoadableNever == FALSE

Loadable == state /\ pub # None /\ priv # None

\* create_and_persist_attest_key generates the pair before it deletes.
Create(c) ==
    /\ made < MaxKeys
    /\ made' = made + 1 /\ key' = made + 1
    /\ pc' = "delete_priv" /\ cmd' = c

\* get_attest_pubkey_bytes: the public blob, whatever else there is.  (The
\* recovery challenge carries the same bytes.)
Export ==
    /\ pc = "idle"
    /\ IF pub # None
       THEN anchor' = pub /\ UNCHANGED <<made, pc, cmd, key>>
       ELSE Create("export") /\ UNCHANGED anchor
    /\ exposed' = IF pub # None THEN ~Loadable ELSE exposed
    /\ UNCHANGED <<priv, pub, state, signer, version, faults, rotations>>

\* sign_attest_digest_cmd: the public value goes into the key pair that is
\* populated, but it is the private value that signs.
Sign ==
    /\ pc = "idle"
    /\ IF Loadable
       THEN signer' = priv /\ UNCHANGED <<made, pc, cmd, key>>
       ELSE Create("sign") /\ UNCHANGED signer
    /\ UNCHANGED <<priv, pub, state, anchor, version, trouble>>

\* The pair is there but cannot be loaded this time: it is replaced.
SignCannotLoad ==
    /\ pc = "idle" /\ Loadable /\ Fault
    /\ Create("sign")
    /\ UNCHANGED <<priv, pub, state, anchor, signer, version, rotations>>

(* delete_attest_material_if_present *)

DeletePriv ==
    /\ pc = "delete_priv"
    /\ priv' = None /\ pc' = "delete_pub"
    /\ UNCHANGED <<pub, state, made, cmd, key, anchor, signer, version, trouble>>

\* Faulty variant: the old public blob is left for the later write to overwrite.
DeletePubForgotten ==
    /\ pc = "delete_pub"
    /\ pc' = IF pub = None THEN "delete_state" ELSE "write_priv"
    /\ UNCHANGED <<attest, cmd, version, trouble>>

\* When there is a public blob the function returns here, without looking
\* at the state object.
DeletePub ==
    /\ pc = "delete_pub"
    /\ pub' = None
    /\ pc' = IF pub = None THEN "delete_state" ELSE "write_priv"
    /\ UNCHANGED <<priv, state, made, cmd, key, anchor, signer, version, trouble>>

DeleteState ==
    /\ pc = "delete_state"
    /\ state' = FALSE /\ pc' = "write_priv"
    /\ UNCHANGED <<priv, pub, made, cmd, key, anchor, signer, version, trouble>>

WritePriv ==
    /\ pc = "write_priv"
    /\ priv' = key /\ pc' = "write_pub"
    /\ UNCHANGED <<pub, state, made, cmd, key, anchor, signer, version, trouble>>

WritePub ==
    /\ pc = "write_pub"
    /\ pub' = key /\ pc' = "write_state"
    /\ UNCHANGED <<priv, state, made, cmd, key, anchor, signer, version, trouble>>

\* The last write, after which the command goes on with the new pair.
WriteState ==
    /\ pc = "write_state"
    /\ state' = TRUE
    /\ anchor' = IF cmd = "export" THEN pub ELSE anchor
    /\ signer' = IF cmd = "sign" THEN key ELSE signer
    /\ exposed' = (exposed /\ cmd # "export")
    /\ Done
    /\ UNCHANGED <<priv, pub, made, object, stored, accepted, lost, faults,
                   rotations>>

\* A refused write ends the command; after the public blob or the state the
\* material is deleted again, by the same function, here in one step.
KeyWriteFails ==
    /\ pc \in {"write_priv", "write_pub", "write_state"} /\ Fault
    /\ IF pc = "write_priv"
       THEN UNCHANGED <<priv, pub, state>>
       ELSE /\ priv' = None /\ pub' = None
            /\ state' = (state /\ pub # None)
    /\ Done
    /\ UNCHANGED <<made, anchor, signer, object, stored, accepted, lost,
                   rotations>>

-----------------------------------------------------------------------------
(* The firmware version: check_version_cmd and write_fw_version.           *)

\* read_fw_version: what is absent or unreadable counts as version 0.
Current == IF object = "full" THEN stored ELSE 0

Store(o, v) == object' = o /\ stored' = v
Accept(v) == accepted' = IF v > accepted THEN v ELSE accepted

\* The version is the stored one: nothing is written.  (An older one is
\* refused, and every one while the object is empty and cannot be read:
\* neither changes anything.)
CheckKnown(v) ==
    /\ pc = "idle" /\ object # "empty" /\ v = Current
    /\ Accept(v)
    /\ UNCHANGED <<attest, object, stored, pc, cmd, incoming, lost, trouble>>

\* Faulty variant: without an object only version 0 is accepted.
CheckFirstRefused(v) ==
    /\ pc = "idle" /\ object = "missing" /\ v = Current
    /\ Store("full", v) /\ Accept(v)
    /\ UNCHANGED <<attest, pc, cmd, incoming, lost, trouble>>

\* A newer version: the first create succeeds when there is no object, and
\* is an ACCESS_CONFLICT when there is one.
CheckFirst(v) ==
    /\ pc = "idle" /\ object = "missing"
    /\ Store("full", v) /\ Accept(v)
    /\ UNCHANGED <<attest, pc, cmd, incoming, lost, trouble>>

CheckNewer(v) ==
    /\ pc = "idle" /\ object \in {"unreadable", "full"} /\ v > Current
    /\ pc' = "conflict" /\ incoming' = v
    /\ UNCHANGED <<attest, object, stored, cmd, accepted, lost, trouble>>

DeleteOld ==
    /\ pc = "conflict"
    /\ Store("missing", 0) /\ pc' = "deleted"
    /\ UNCHANGED <<attest, cmd, incoming, accepted, lost, trouble>>

CreateNew ==
    /\ pc = "deleted"
    /\ Store("full", incoming) /\ Accept(incoming) /\ Done
    /\ UNCHANGED <<priv, pub, state, made, anchor, signer, lost, trouble>>

\* Faulty variant: a failed write is reported as success.
VersionWriteFailsSilently ==
    /\ pc \in {"conflict", "deleted"} /\ Fault /\ Done
    /\ lost' = (lost \/ pc = "deleted")
    /\ Accept(incoming)
    /\ UNCHANGED <<priv, pub, state, made, anchor, signer, object, stored,
                   rotations>>

\* The old object cannot be opened or deleted, so that the second create
\* conflicts too, or the second create fails: the command returns an error,
\* in the last case without an object.
VersionWriteFails ==
    /\ pc \in {"conflict", "deleted"} /\ Fault /\ Done
    /\ lost' = (lost \/ pc = "deleted")
    /\ UNCHANGED <<priv, pub, state, made, anchor, signer, object, stored,
                   accepted, rotations>>

(* reset_version_cmd, in maintenance builds: the object is overwritten by  *)
(* an empty one, and the 0 written into it.                                *)
ResetStart ==
    /\ pc = "idle"
    /\ Store("empty", 0) /\ pc' = "reset"
    /\ accepted' = 0 /\ lost' = FALSE
    /\ UNCHANGED <<attest, cmd, incoming, trouble>>

ResetWrite ==
    /\ pc = "reset"
    /\ Store("full", 0) /\ Done
    /\ UNCHANGED <<priv, pub, state, made, anchor, signer, accepted, lost,
                   trouble>>

-----------------------------------------------------------------------------
(* wipe_key_internal deletes the public blob - not the private one, nor    *)
(* the state - and, last of all, the version.                              *)

WipeKey(c) ==
    /\ pc = "idle" /\ rotations < MaxRotations
    /\ rotations' = rotations + 1
    /\ pub' = None /\ anchor' = None
    /\ pc' = "wipe_version" /\ cmd' = c
    /\ UNCHANGED <<priv, state, made, key, signer, version, faults, exposed>>

\* ROTATE_KEY goes on to get_or_create_attest_key, which finds no public blob.
WipeVersion ==
    /\ pc = "wipe_version" /\ object # "unreadable"
    /\ Store("missing", 0)
    /\ accepted' = 0 /\ lost' = FALSE
    /\ IF cmd = "rotate" THEN Create("rotate") /\ UNCHANGED incoming
       ELSE Done /\ UNCHANGED made
    /\ UNCHANGED <<priv, pub, state, anchor, signer, trouble>>

\* An object without ACCESS_READ cannot be opened here, and the command ends
\* in an error, the keys being gone.
WipeRefused ==
    /\ pc = "wipe_version" /\ object = "unreadable"
    /\ Done
    /\ UNCHANGED <<priv, pub, state, made, anchor, signer, object, stored,
                   accepted, lost, trouble>>

\* The power goes in the middle of a command, or one of its other storage
\* operations fails and it returns.
PowerLoss ==
    /\ pc # "idle" /\ Fault /\ Done
    /\ lost' = (lost \/ pc = "deleted")
    /\ UNCHANGED <<priv, pub, state, made, anchor, signer, object, stored,
                   accepted, rotations>>

-----------------------------------------------------------------------------
Check(v) == CheckKnown(v) \/ CheckFirst(v) \/ CheckNewer(v)

Step ==
    \/ DeletePriv \/ DeletePub \/ DeleteState
    \/ WritePriv \/ WritePub \/ WriteState
    \/ DeleteOld \/ CreateNew \/ ResetWrite
    \/ WipeVersion \/ WipeRefused

Next ==
    \/ Export \/ Sign \/ SignCannotLoad
    \/ \E v \in Version : Check(v)
    \/ ResetStart
    \/ \E c \in {"wipe", "rotate"} : WipeKey(c)
    \/ Step
    \/ KeyWriteFails \/ VersionWriteFails \/ PowerLoss

\* A command runs to its end, the newest firmware is sooner or later
\* booted, and in a maintenance build a reset that left the object empty is
\* repeated.
Spec ==
    /\ Init /\ [][Next]_vars
    /\ WF_vars(Step)
    /\ WF_vars(Check(MaxVersion))
    /\ WF_vars(ResetStart /\ object = "empty")

-----------------------------------------------------------------------------
TypeOK ==
    /\ priv \in 0 .. made /\ pub \in 0 .. made /\ key \in 0 .. made
    /\ state \in BOOLEAN /\ made \in 0 .. MaxKeys
    /\ object \in {"missing", "unreadable", "empty", "full"}
    /\ stored \in 0 .. MaxVersion /\ incoming \in 0 .. MaxVersion
    /\ pc \in {"idle", "delete_priv", "delete_pub", "delete_state",
               "write_priv", "write_pub", "write_state", "conflict",
               "deleted", "reset", "wipe_version"}
    /\ cmd \in {"none", "export", "sign", "wipe", "rotate"}
    /\ anchor \in 0 .. made /\ signer \in 0 .. made
    /\ exposed \in BOOLEAN /\ lost \in BOOLEAN
    /\ accepted \in 0 .. MaxVersion
    /\ faults \in 0 .. MaxFaults /\ rotations \in 0 .. MaxRotations

\* load_attest_keypair_from_blobs joins a public and a private blob without
\* comparing them.  They always belong to one key pair, wherever the power
\* went, whichever write failed and however far a wipe came: no signature is
\* made under a public key that cannot verify it.
BlobsAgree == priv # None /\ pub # None => priv = pub

\* An anchor exported from a whole pair keeps verifying what the TA signs
\* until the key is rotated or a fault hits the TA: no order of exports,
\* signatures and version checks replaces the key behind the server's back.
AnchorVerifies ==
    [][signer' # signer /\ anchor # None /\ ~exposed => signer' = anchor]_vars

\* "Anti-rollback: check monotonic firmware version in TEE".  The counter
\* covers every version it has accepted, except after a fault in the one
\* window the code leaves open, between the delete and the create: failed
\* opens, refused creates and power losses elsewhere keep it.
LostOnlyInTheWindow ==
    pc # "deleted" /\ ~lost => accepted <= Current

\* A counter that is gone, or that a reset has left empty, comes back, so
\* that no fault and no wipe leaves the drone without one for good.
CounterComesBack == object \in {"missing", "empty"} ~> object = "full"
=============================================================================
