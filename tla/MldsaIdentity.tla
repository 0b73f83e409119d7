--------------------------- MODULE MldsaIdentity ---------------------------
(***************************************************************************)
(* The drone's ML-DSA identity: the key in the drone slot of the trusted   *)
(* application (ta_hesia.c), its sealed copy and its public key on the     *)
(* disk, the start of the drone that chooses between them (HesiaDrone's    *)
(* constructor), and the operator's host tool (host/main.c).               *)
(*                                                                         *)
(* Every query and command of the drone opens a session of its own, so the *)
(* operator's commands come between any two of them; and any of them may   *)
(* fail for a moment, the TA being busy or out of memory.  The slot is     *)
(* replaced by a delete and a write.  A key pair is its number; the secret *)
(* and the public half never part.                                         *)
(***************************************************************************)
EXTENDS Integers

CONSTANTS
    MaxPairs,       \* bound: key pairs generated
    MaxFailures     \* bound: failed operations and power losses

ASSUME MldsaIdentityAssumption ==
    MaxPairs \in Nat \ {0} /\ MaxFailures \in Nat

NoKey == 0
Junk == -1          \* a file cut short

\* "production": prod_fuse and require_mldsa_sign_in_tee; "attestation":
\* require_tee_attestation.
Demands == {"production", "attestation"}

VARIABLES
    policy,     \* what the security policy of this drone demands
    slot,       \* the key in HESIA_MLDSA_KEY_ID
    sealed,     \* the key in dilithium5_sk.sealed
    public,     \* the key in dilithium5_pk.bin
    pairs,      \* key pairs generated
    phase,      \* where the drone's start is: "down" ... "up"
    identity,   \* drone_keypair.first
    last,       \* history: the identity the drone was last up with
    replaced,   \* history: the operator has changed the keys since
    swapped,    \* history: ... or has while the drone was starting or up
    doubted,    \* history: a start has not seen the key in the slot and taken
                \* another, and the drone has not been up with the slot's since
    fails

files == <<sealed, public>>
history == <<last, replaced, swapped, doubted>>
identityVars == <<policy, slot, files, pairs, phase, identity, history, fails>>

\* A new drone, or one whose sealed key has been brought with it.
IdentityInit ==
    /\ policy \in SUBSET Demands
    /\ pairs \in {0, 1} /\ sealed = pairs
    /\ slot = NoKey /\ public = NoKey
    /\ phase = "down" /\ identity = NoKey
    /\ last = NoKey /\ replaced = FALSE /\ swapped = FALSE /\ doubted = FALSE
    /\ fails = 0

Production == "production" \in policy
Attestation == "attestation" \in policy

IdentityFault == fails < MaxFailures /\ fails' = fails + 1
NewKey == pairs < MaxPairs /\ pairs' = pairs + 1

(* import_mldsa_key_blob_cmd and generate_mldsa_keypair_cmd end alike: the *)
(* old key is deleted and the new one written.  The outcomes: "done";      *)
(* "refused", before the delete; "emptied", when the write fails.          *)
Put(k, outcome) ==
    /\ slot' = CASE outcome = "done" -> k
                 [] outcome = "refused" -> slot
                 [] outcome = "emptied" -> NoKey
    /\ IF outcome = "done" THEN UNCHANGED fails ELSE IdentityFault

Outcomes == {"done", "refused", "emptied"}

\* The blob of import_mldsa_key_blob unseals, parses and passes its test.
Importable == sealed > NoKey

(* The start of the drone. *)

Goto(label) == phase' = label
Throw == phase' = "down" /\ identity' = NoKey

Start ==
    /\ phase = "down"
    /\ Goto("status") /\ swapped' = FALSE
    /\ UNCHANGED <<policy, slot, files, pairs, identity, last, replaced,
                   doubted, fails>>

\* Faulty variant: the sealed copy goes before the slot.
StatusSealedFirst ==
    /\ phase = "status"
    /\ Goto(IF sealed # NoKey THEN "import"
            ELSE IF slot # NoKey THEN "export" ELSE "create")
    /\ UNCHANGED <<policy, slot, files, pairs, identity, history, fails>>

\* optee_mldsa_signing_ready, then whether the sealed copy exists.
Status ==
    /\ phase = "status"
    /\ Goto(IF slot # NoKey THEN "export"
            ELSE IF sealed # NoKey THEN "import" ELSE "create")
    /\ UNCHANGED <<policy, slot, files, pairs, identity, history, fails>>

\* A session that cannot be opened counts as not ready.
StatusUnknown ==
    /\ phase = "status" /\ IdentityFault
    /\ Goto(IF sealed # NoKey THEN "import" ELSE "create")
    /\ doubted' = (doubted \/ slot \notin {NoKey, sealed})
    /\ UNCHANGED <<policy, slot, files, pairs, identity, last, replaced,
                   swapped>>

\* optee_get_mldsa_public_key, and the best effort of write_public_key.
ExportIdentity ==
    /\ phase = "export" /\ slot # NoKey
    /\ identity' = slot /\ Goto("check")
    /\ public' \in {public, slot}
    /\ UNCHANGED <<policy, slot, sealed, pairs, history, fails>>

\* The catch around the whole: with a sealed copy the start is over, without
\* one it goes on to a new key.
ExportFails ==
    /\ phase = "export"
    /\ IF slot = NoKey THEN UNCHANGED fails ELSE IdentityFault
    /\ IF sealed # NoKey THEN Throw ELSE Goto("create") /\ UNCHANGED identity
    /\ doubted' = (doubted \/ (sealed = NoKey /\ slot # NoKey))
    /\ UNCHANGED <<policy, slot, files, pairs, last, replaced, swapped>>

Import(outcome) ==
    /\ phase = "import" /\ Importable
    /\ Put(sealed, outcome)
    /\ IF outcome = "done" THEN Goto("imported") /\ UNCHANGED identity
       ELSE IF Production THEN Throw
       ELSE Goto("unseal") /\ UNCHANGED identity
    /\ UNCHANGED <<policy, files, pairs, history>>

ImportUnusable ==
    /\ phase = "import" /\ ~Importable
    /\ IF Production THEN Throw ELSE Goto("unseal") /\ UNCHANGED identity
    /\ UNCHANGED <<policy, slot, files, pairs, history, fails>>

\* Faulty variant: the public key on the disk is preferred.
ImportedFromFile ==
    /\ phase = "imported"
    /\ identity' = (IF public # NoKey THEN public ELSE slot)
    /\ Goto("check")
    /\ UNCHANGED <<policy, slot, files, pairs, history, fails>>

\* The imported key is exported; when that fails the public key on the disk
\* is taken instead, and without one the failure is that of the import.
Imported ==
    /\ phase = "imported"
    /\ \/ slot # NoKey /\ identity' = slot /\ Goto("check") /\ UNCHANGED fails
       \/ /\ IF slot = NoKey THEN UNCHANGED fails ELSE IdentityFault
          /\ IF public # NoKey THEN identity' = public /\ Goto("check")
             ELSE IF Production THEN Throw
             ELSE Goto("unseal") /\ UNCHANGED identity
    /\ doubted' = (doubted \/ identity' \notin {NoKey, slot})
    /\ UNCHANGED <<policy, slot, files, pairs, last, replaced, swapped>>

\* Outside production the sealed copy itself is unsealed.
Unseal ==
    /\ phase = "unseal" /\ Importable
    /\ identity' = sealed /\ Goto("check")
    /\ public' \in {public, sealed}
    /\ UNCHANGED <<policy, slot, sealed, pairs, history, fails>>

\* Faulty variant: a copy that cannot be unsealed is replaced by a new key.
UnsealFailsAnew ==
    /\ phase = "unseal"
    /\ IF Importable THEN IdentityFault ELSE UNCHANGED fails
    /\ Goto("create")
    /\ UNCHANGED <<policy, slot, files, pairs, identity, history>>

UnsealFails ==
    /\ phase = "unseal"
    /\ IF Importable THEN IdentityFault ELSE UNCHANGED fails
    /\ Throw
    /\ UNCHANGED <<policy, slot, files, pairs, history>>

\* No key: production refuses to make one.  Otherwise it is made, sealed
\* into a file that is opened with trunc, and imported if that works.
CreateRefused ==
    /\ phase = "create" /\ Production
    /\ Throw
    /\ UNCHANGED <<policy, slot, files, pairs, history, fails>>

CreateIdentity ==
    /\ phase = "create" /\ ~Production /\ NewKey
    /\ sealed' = Junk /\ Goto("seal")
    /\ UNCHANGED <<policy, slot, public, identity, history, fails>>

SealNew ==
    /\ phase = "seal"
    /\ sealed' = pairs /\ identity' = pairs /\ public' \in {public, pairs}
    /\ Goto("import_new")
    /\ UNCHANGED <<policy, slot, pairs, history, fails>>

ImportNew(outcome) ==
    /\ phase = "import_new" /\ Importable
    /\ Put(sealed, outcome)
    /\ Goto("check")
    /\ UNCHANGED <<policy, files, pairs, identity, history>>

\* The file has gone since: the exception is swallowed.
ImportNewMissing ==
    /\ phase = "import_new" /\ ~Importable
    /\ Goto("check")
    /\ UNCHANGED <<policy, slot, files, pairs, identity, history, fails>>

\* The policy's demands: signing in the TEE, and attestation by the key that
\* is the identity.
Acceptable ==
    /\ Production \/ Attestation => slot # NoKey
    /\ Attestation => slot = identity

CheckIdentity ==
    /\ phase = "check" /\ Acceptable
    /\ Goto("up")
    /\ last' = identity /\ replaced' = swapped
    /\ UNCHANGED <<policy, slot, files, pairs, identity, swapped, doubted,
                   fails>>

CheckFails ==
    /\ phase = "check"
    /\ IF Acceptable THEN (Production \/ Attestation) /\ IdentityFault
       ELSE UNCHANGED fails
    /\ Throw
    /\ UNCHANGED <<policy, slot, files, pairs, history>>

\* The power goes, or the service is stopped, at any time; a new sealed file
\* that was being written stays cut short.
Stop ==
    /\ phase # "down" /\ IdentityFault
    /\ Throw
    /\ doubted' = (doubted /\ ~(phase = "up" /\ slot = identity))
    /\ UNCHANGED <<policy, slot, files, pairs, last, replaced, swapped>>

(* The operator. *)

Replace ==
    /\ replaced' = TRUE
    /\ swapped' = (swapped \/ phase # "down")
    /\ UNCHANGED <<last, doubted>>

\* generate_mldsa_keypair_cmd.
Generate(outcome) ==
    /\ NewKey /\ Put(pairs + 1, outcome)
    /\ Replace
    /\ UNCHANGED <<policy, files, phase, identity>>

\* import_mldsa_key_blob of the sealed copy.
OperatorImports(outcome) ==
    /\ Importable /\ Put(sealed, outcome)
    /\ Replace
    /\ UNCHANGED <<policy, files, pairs, phase, identity>>

\* The power goes between the delete and the write of the operator's command.
PowerLossEmpties ==
    /\ IdentityFault
    /\ slot' = NoKey /\ Throw
    /\ replaced' = TRUE
    /\ UNCHANGED <<policy, files, pairs, last, swapped, doubted>>

\* rotate_drone_identity.sh moves the files away, and a build that can then
\* wipes the slot with the TA's other keys.
Rotate ==
    /\ sealed # NoKey
    /\ sealed' = NoKey /\ public' = NoKey
    /\ slot' \in {slot, NoKey}
    /\ Replace
    /\ UNCHANGED <<policy, pairs, phase, identity, fails>>

Boot ==
    \/ Start \/ Status \/ ExportIdentity \/ Import("done") \/ ImportUnusable
    \/ Imported \/ Unseal \/ UnsealFails \/ CreateRefused \/ CreateIdentity
    \/ SealNew
    \/ ImportNew("done") \/ ImportNewMissing \/ CheckIdentity \/ CheckFails
    \/ ExportFails

IdentityNext ==
    \/ Boot \/ StatusUnknown \/ Stop
    \/ \E outcome \in Outcomes :
           \/ Import(outcome) \/ ImportNew(outcome)
           \/ Generate(outcome) \/ OperatorImports(outcome)
    \/ PowerLossEmpties \/ Rotate

\* The service manager starts the drone again and its constructor runs on.
IdentitySpec ==
    IdentityInit /\ [][IdentityNext]_identityVars /\ WF_identityVars(Boot)

-----------------------------------------------------------------------------

IdentityTypeOK ==
    /\ policy \subseteq Demands
    /\ slot \in 0 .. pairs
    /\ sealed \in -1 .. pairs /\ public \in 0 .. pairs
    /\ pairs \in 0 .. MaxPairs
    /\ phase \in {"down", "status", "export", "import", "imported", "unseal",
                  "create", "seal", "import_new", "check", "up"}
    /\ identity \in 0 .. pairs /\ last \in 0 .. pairs
    /\ {replaced, swapped, doubted} \subseteq BOOLEAN
    /\ fails \in 0 .. MaxFailures

\* sign_with_drone_identity: the slot signs whatever key it holds; the
\* sealed copy only if it is the identity.
Signers == ({slot} \cup ({sealed} \cap {identity})) \ {NoKey}

\* While the operator leaves the keys alone and the start could see the slot,
\* what the drone signs verifies under the public key it announces, from
\* whichever of its sources the start took that key and whatever failed on
\* the way; and under require_tee_attestation even when it could not.
SignsAsAnnounced ==
    phase = "up" /\ ~swapped /\ (doubted => Attestation)
        => Signers \subseteq {identity}

\* From one run of the drone to the next the identity stays, unless the
\* operator has changed the keys or a start could not see the slot's key and
\* had no copy of it: power losses in the middle of an import or of a start
\* do not change it.
IdentityStays ==
    [][phase' = "up" /\ phase # "up" /\ last # NoKey
         /\ ~replaced /\ ~swapped /\ ~doubted => identity' = last]_identityVars

\* A drone that has a key, in the slot or sealed, comes up, or the operator
\* or a fault takes the key away: no start is sent round the same way for
\* ever.
ComesUp ==
    []( phase = "down" /\ (slot # NoKey \/ Importable)
        => <>(\/ phase = "up" \/ pairs = MaxPairs
              \/ slot = NoKey /\ ~Importable))
=============================================================================
