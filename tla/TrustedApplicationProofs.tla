------------------------ MODULE TrustedApplicationProofs ---------------------
(***************************************************************************)
(* Proofs about three parts of the trusted application, each a module of   *)
(* its own: what it replaces in several storage operations (TaStorage),    *)
(* the authentication of its sessions (SessionAuth) and the drone's ML-DSA *)
(* key (MldsaIdentity).  Each theorem is about one specification, and the  *)
(* three share no constant and no variable; the last one is about the two  *)
(* latter side by side, as TrustedApplication has them.                    *)
(***************************************************************************)
EXTENDS TaStorage, TrustedApplication, TLAPS

-----------------------------------------------------------------------------
(***************************************************************************)
(* TaStorage: two key blobs, and the firmware version.                     *)
(***************************************************************************)

Creating == {"delete_priv", "delete_pub", "delete_state", "write_priv",
             "write_pub", "write_state"}

\* The blobs are taken away in their order, and come back in it.
KeyInOrder ==
    /\ pc \in Creating => key # None
    /\ pc \in {"delete_pub", "delete_state", "write_priv"} => priv = None
    /\ pc \in {"delete_state", "write_priv", "write_pub"} => pub = None
    /\ pc \in {"write_pub", "write_state"} => priv = key
    /\ pc = "write_state" => pub = key

\* A version that is on its way into the storage is a newer one.
VersionInOrder ==
    /\ pc = "conflict" => incoming > Current
    /\ pc = "deleted" => object = "missing" /\ (~lost => accepted <= incoming)
    /\ pc = "reset" => object = "empty"

\* A good anchor is the stored public key, and no new pair is being made.
AnchorIsStored ==
    anchor # None /\ ~exposed
        => Loadable /\ pub = anchor /\ pc \notin Creating \cup {"wipe_version"}

StorageInv ==
    /\ TypeOK /\ KeyInOrder /\ BlobsAgree
    /\ VersionInOrder /\ LostOnlyInTheWindow /\ AnchorIsStored

-----------------------------------------------------------------------------
(* Types. *)

\* A new device is well typed.
LEMMA StorageTypeInit == Init => TypeOK
<1> SUFFICES ASSUME Init PROVE TypeOK
  OBVIOUS
<1>1. /\ 0 \in 0 .. MaxKeys /\ 0 \in 0 .. MaxVersion /\ 0 \in 0 .. 0
      /\ 0 \in 0 .. MaxFaults /\ 0 \in 0 .. MaxRotations
  BY TaStorageAssumption
<1> QED BY <1>1 DEF Init, TypeOK, None

\* Every step of a command keeps the types.
LEMMA StorageTypeStep == TypeOK /\ [Next]_vars => TypeOK'
<1> SUFFICES ASSUME TypeOK, [Next]_vars PROVE TypeOK'
  OBVIOUS
<1> USE TaStorageAssumption DEF TypeOK, None,
            attest, version, trouble, Done,
            Fault, Create, Store, Accept,
            Version, Current
<1>0. 0 \in 0 .. MaxVersion
  OBVIOUS
<1>1. CASE Export
  <2>1. exposed' \in BOOLEAN
    BY <1>1 DEF Export, Loadable
  <2>2. CASE pub # None
    BY <1>1, <2>1, <2>2 DEF Export
  <2>3. CASE pub = None
    BY <1>1, <2>1, <2>3 DEF Export
  <2> QED BY <2>2, <2>3
<1>2. CASE Sign
  BY <1>2 DEF Sign
<1>3. CASE SignCannotLoad
  BY <1>3 DEF SignCannotLoad
<1>4. CASE DeletePriv
  BY <1>4 DEF DeletePriv
<1>5. CASE DeletePub
  BY <1>5 DEF DeletePub
<1>6. CASE DeleteState
  BY <1>6 DEF DeleteState
<1>7. CASE WritePriv
  BY <1>7 DEF WritePriv
<1>8. CASE WritePub
  BY <1>8 DEF WritePub
<1>9. CASE WriteState
  BY <1>9 DEF WriteState
<1>10. CASE KeyWriteFails
  <2>1. state' \in BOOLEAN
    BY <1>10 DEF KeyWriteFails
  <2> QED BY <1>10, <2>1 DEF KeyWriteFails
<1>11. ASSUME NEW v \in Version, CheckKnown(v) PROVE TypeOK'
  BY <1>11 DEF CheckKnown
<1>12. ASSUME NEW v \in Version, CheckFirst(v) PROVE TypeOK'
  BY <1>12 DEF CheckFirst
<1>13. ASSUME NEW v \in Version, CheckNewer(v) PROVE TypeOK'
  BY <1>13 DEF CheckNewer
<1>14. CASE ResetStart
  BY <1>0, <1>14 DEF ResetStart
<1>15. CASE DeleteOld
  BY <1>15 DEF DeleteOld
<1>16. CASE CreateNew
  BY <1>16 DEF CreateNew
<1>17. CASE ResetWrite
  BY <1>17 DEF ResetWrite
<1>18. CASE VersionWriteFails
  BY <1>18 DEF VersionWriteFails
<1>19. ASSUME NEW c \in {"wipe", "rotate"}, WipeKey(c) PROVE TypeOK'
  BY <1>19 DEF WipeKey
<1>20. CASE WipeVersion
  <2>1. state' \in BOOLEAN /\ exposed' \in BOOLEAN /\ lost' \in BOOLEAN
    BY <1>20 DEF WipeVersion
  <2>2. /\ object' = "missing" /\ stored' = 0 /\ accepted' = 0
        /\ UNCHANGED <<priv, pub, anchor, signer, faults, rotations>>
    BY <1>20 DEF WipeVersion
  <2>3. CASE cmd = "rotate"
    <3>1. /\ made' = made + 1 /\ made < MaxKeys /\ key' = made + 1
          /\ pc' = "delete_priv" /\ cmd' = "rotate" /\ incoming' = incoming
      BY <1>20, <2>3 DEF WipeVersion
    <3> QED BY <1>0, <2>1, <2>2, <3>1
  <2>4. CASE cmd # "rotate"
    <3>1. /\ made' = made /\ key' = None /\ pc' = "idle" /\ cmd' = "none"
          /\ incoming' = 0
      BY <1>20, <2>4 DEF WipeVersion
    <3> QED BY <1>0, <2>1, <2>2, <3>1
  <2> QED BY <2>3, <2>4
<1>21. CASE WipeRefused
  BY <1>21 DEF WipeRefused
<1>22. CASE PowerLoss
  BY <1>22 DEF PowerLoss
<1>23. CASE UNCHANGED vars
  BY <1>23 DEF vars
<1> QED BY <1>1, <1>2, <1>3, <1>4, <1>5, <1>6, <1>7, <1>8, <1>9, <1>10,
         <1>11, <1>12, <1>13, <1>14, <1>15, <1>16, <1>17, <1>18, <1>19, <1>20, <1>21,
         <1>22, <1>23 DEF Next, Step, Check

-----------------------------------------------------------------------------
(* The attestation key. *)

\* What the invariant says of the key.
PairInv == KeyInOrder /\ BlobsAgree /\ AnchorIsStored

\* A new device has no key.
LEMMA PairInit == Init => PairInv
  BY DEF Init, PairInv, KeyInOrder, BlobsAgree, AnchorIsStored,
         Creating, None

\* The steps of a creation keep the blobs together; what deals with the
\* version leaves them alone.
LEMMA PairStep == TypeOK /\ PairInv /\ [Next]_vars => PairInv'
<1> SUFFICES ASSUME TypeOK, PairInv, [Next]_vars PROVE PairInv'
  OBVIOUS
<1> USE DEF PairInv, KeyInOrder, BlobsAgree, AnchorIsStored,
            Loadable, Creating, None, attest, version,
            trouble, Done, Fault, Create
<1>1. CASE Export
  <2>1. CASE pub # None
    BY <1>1, <2>1 DEF Export
  <2>2. CASE pub = None
    BY <1>1, <2>2 DEF Export, TypeOK
  <2> QED BY <2>1, <2>2
<1>2. CASE Sign
  BY <1>2 DEF Sign, TypeOK
<1>3. CASE SignCannotLoad
  BY <1>3 DEF SignCannotLoad, TypeOK
<1>4. CASE DeletePriv
  BY <1>4 DEF DeletePriv
<1>5. CASE DeletePub
  BY <1>5 DEF DeletePub
<1>6. CASE DeleteState
  BY <1>6 DEF DeleteState
<1>7. CASE WritePriv
  BY <1>7 DEF WritePriv
<1>8. CASE WritePub
  BY <1>8 DEF WritePub
<1>9. CASE WriteState
  BY <1>9 DEF WriteState
<1>10. CASE KeyWriteFails
  BY <1>10 DEF KeyWriteFails
<1>11. ASSUME NEW v \in Version, CheckKnown(v) PROVE PairInv'
  BY <1>11 DEF CheckKnown
<1>12. ASSUME NEW v \in Version, CheckFirst(v) PROVE PairInv'
  BY <1>12 DEF CheckFirst
<1>13. ASSUME NEW v \in Version, CheckNewer(v) PROVE PairInv'
  BY <1>13 DEF CheckNewer
<1>14. CASE ResetStart
  BY <1>14 DEF ResetStart
<1>15. CASE DeleteOld
  BY <1>15 DEF DeleteOld
<1>16. CASE CreateNew
  BY <1>16 DEF CreateNew
<1>17. CASE ResetWrite
  BY <1>17 DEF ResetWrite
<1>18. CASE VersionWriteFails
  BY <1>18 DEF VersionWriteFails
<1>19. ASSUME NEW c \in {"wipe", "rotate"}, WipeKey(c) PROVE PairInv'
  BY <1>19 DEF WipeKey
<1>20. CASE WipeVersion
  <2>1. CASE cmd = "rotate"
    BY <1>20, <2>1 DEF WipeVersion, TypeOK
  <2>2. CASE cmd # "rotate"
    BY <1>20, <2>2 DEF WipeVersion
  <2> QED BY <2>1, <2>2
<1>21. CASE WipeRefused
  BY <1>21 DEF WipeRefused
<1>22. CASE PowerLoss
  BY <1>22 DEF PowerLoss
<1>23. CASE UNCHANGED vars
  BY <1>23 DEF vars
<1> QED BY <1>1, <1>2, <1>3, <1>4, <1>5, <1>6, <1>7, <1>8, <1>9, <1>10,
         <1>11, <1>12, <1>13, <1>14, <1>15, <1>16, <1>17, <1>18, <1>19, <1>20, <1>21,
         <1>22, <1>23 DEF Next, Step, Check

-----------------------------------------------------------------------------
(* The firmware version. *)

\* What the invariant says of the version.
VersionInv == VersionInOrder /\ LostOnlyInTheWindow

\* Nothing has been accepted yet.
LEMMA VersionInit == Init => VersionInv
  BY DEF Init, VersionInv, VersionInOrder, LostOnlyInTheWindow,
         Current

\* The steps of a check and of a reset keep the counter above what it has
\* accepted; what deals with the key leaves it alone.
LEMMA VersionStep == TypeOK /\ VersionInv /\ [Next]_vars => VersionInv'
<1> SUFFICES ASSUME TypeOK, VersionInv, [Next]_vars
             PROVE  VersionInv'
  OBVIOUS
<1> USE TaStorageAssumption DEF TypeOK, VersionInv, VersionInOrder,
            LostOnlyInTheWindow, Current, Version,
            version, attest, trouble, Done,
            Fault, Create, Store, Accept
<1>1. CASE Export
  BY <1>1 DEF Export
<1>2. CASE Sign
  BY <1>2 DEF Sign
<1>3. CASE SignCannotLoad
  BY <1>3 DEF SignCannotLoad
<1>4. CASE DeletePriv
  BY <1>4 DEF DeletePriv
<1>5. CASE DeletePub
  BY <1>5 DEF DeletePub
<1>6. CASE DeleteState
  BY <1>6 DEF DeleteState
<1>7. CASE WritePriv
  BY <1>7 DEF WritePriv
<1>8. CASE WritePub
  BY <1>8 DEF WritePub
<1>9. CASE WriteState
  BY <1>9 DEF WriteState
<1>10. CASE KeyWriteFails
  BY <1>10 DEF KeyWriteFails
<1>11. ASSUME NEW v \in Version, CheckKnown(v) PROVE VersionInv'
  BY <1>11 DEF CheckKnown
<1>12. ASSUME NEW v \in Version, CheckFirst(v) PROVE VersionInv'
  BY <1>12 DEF CheckFirst
<1>13. ASSUME NEW v \in Version, CheckNewer(v) PROVE VersionInv'
  BY <1>13 DEF CheckNewer
<1>14. CASE ResetStart
  BY <1>14 DEF ResetStart
<1>15. CASE DeleteOld
  BY <1>15 DEF DeleteOld
<1>16. CASE CreateNew
  BY <1>16 DEF CreateNew
<1>17. CASE ResetWrite
  BY <1>17 DEF ResetWrite
<1>18. CASE VersionWriteFails
  BY <1>18 DEF VersionWriteFails
<1>19. ASSUME NEW c \in {"wipe", "rotate"}, WipeKey(c) PROVE VersionInv'
  BY <1>19 DEF WipeKey
<1>20. CASE WipeVersion
  BY <1>20 DEF WipeVersion
<1>21. CASE WipeRefused
  BY <1>21 DEF WipeRefused
<1>22. CASE PowerLoss
  BY <1>22 DEF PowerLoss
<1>23. CASE UNCHANGED vars
  BY <1>23 DEF vars
<1> QED BY <1>1, <1>2, <1>3, <1>4, <1>5, <1>6, <1>7, <1>8, <1>9, <1>10,
         <1>11, <1>12, <1>13, <1>14, <1>15, <1>16, <1>17, <1>18, <1>19, <1>20, <1>21,
         <1>22, <1>23 DEF Next, Step, Check

-----------------------------------------------------------------------------
\* Every reachable state of the storage satisfies the invariant.
THEOREM StorageInvariant == Spec => []StorageInv
<1>1. Init => StorageInv
  BY StorageTypeInit, PairInit, VersionInit DEF StorageInv, PairInv, VersionInv
<1>2. StorageInv /\ [Next]_vars => StorageInv'
  BY StorageTypeStep, PairStep, VersionStep DEF StorageInv, PairInv, VersionInv
<1> QED BY <1>1, <1>2, PTL DEF Spec

\* The blobs, the version and the running command hold well-typed values.
THEOREM StorageTypeCorrect == Spec => []TypeOK
<1>1. StorageInv => TypeOK
  BY DEF StorageInv
<1> QED BY <1>1, StorageInvariant, PTL

\* The private and the public blob never belong to different key pairs,
\* wherever a command was interrupted.
THEOREM BlobsAlwaysAgree == Spec => []BlobsAgree
<1>1. StorageInv => BlobsAgree
  BY DEF StorageInv
<1> QED BY <1>1, StorageInvariant, PTL

\* The counter covers every version accepted, but for a fault in its window.
THEOREM CounterCovers == Spec => []LostOnlyInTheWindow
<1>1. StorageInv => LostOnlyInTheWindow
  BY DEF StorageInv
<1> QED BY <1>1, StorageInvariant, PTL

\* An anchor exported from a whole pair verifies what is signed after it.
THEOREM AnchorKeepsVerifying == Spec => AnchorVerifies
<1>1. StorageInv /\ [Next]_vars =>
          [signer' # signer /\ anchor # None /\ ~exposed
               => signer' = anchor]_vars
  <2> SUFFICES ASSUME StorageInv, Next, signer' # signer,
                      anchor # None, ~exposed
               PROVE  signer' = anchor
    OBVIOUS
  <2>1. Loadable /\ pub = anchor /\ priv = pub
    BY DEF StorageInv, AnchorIsStored, BlobsAgree, Loadable
  <2>2. Sign \/ WriteState
    BY DEF Next, Step, Check, Export,
           SignCannotLoad, CheckKnown, CheckFirst,
           CheckNewer, ResetStart, WipeKey, DeletePriv,
           DeletePub, DeleteState, WritePriv, WritePub,
           DeleteOld, CreateNew, ResetWrite,
           WipeVersion, WipeRefused, KeyWriteFails,
           VersionWriteFails, PowerLoss, attest
  <2>3. CASE Sign
    BY <2>1, <2>3 DEF Sign
  <2>4. CASE WriteState
    BY <2>4 DEF WriteState, StorageInv, AnchorIsStored, Creating
  <2> QED BY <2>2, <2>3, <2>4
<1> QED BY <1>1, StorageInvariant, PTL DEF Spec, AnchorVerifies

-----------------------------------------------------------------------------
(***************************************************************************)
(* SessionAuth: the secret that opens sessions, and its recovery.          *)
(***************************************************************************)

\* A blob with content was sealed under some key, around some secret.
BlobInv == blob.secret # Absent => blob.found /\ blob.key # Absent

\* Where the running script is, and what the TA and the blob hold there.
ScriptInv ==
    /\ step \in {"clear", "seal", "write"} => hash = secret /\ secret # Absent
    /\ step \in {"set", "recover", "challenge", "sign"} => secret # Absent
    /\ step = "write" => master # Absent
    /\ step = "rotate" => BlobOpens
    /\ step \in {"wipe", "renew", "export", "done", "failed"} => rotated

\* While the TA has not gone ahead of the blob, the blob opens a session, or one
\* of the two reasons is there.
Settled ==
    step \in {"idle", "challenge", "sign", "recover", "set"}
        /\ (blob.found \/ hash # Absent)
        => BlobOpens \/ torn \/ rotated

\* The nonce in the TA is that of its last challenge.
NonceIsLast == nonce # Absent => nonce = challenges

AuthInv == AuthTypeOK /\ BlobInv /\ ScriptInv /\ Settled /\ NonceIsLast

-----------------------------------------------------------------------------
(* Types. *)

\* A new device is well typed.
LEMMA AuthTypeInit == AuthInit => AuthTypeOK
<1> SUFFICES ASSUME AuthInit PROVE AuthTypeOK
  OBVIOUS
<1> USE DEF AuthInit, Absent
<1>1. /\ 0 \in 0 .. MaxSecrets /\ 0 \in 0 .. MaxChallenges
      /\ 0 \in 0 .. MaxInterruptions
  BY SessionAuthAssumption
<1>2. /\ blob \in [found : BOOLEAN, key : 0 .. keys, secret : 0 .. secrets]
      /\ token \in [nonce : 0 .. challenges, secret : 0 .. secrets,
                    akey : Nat]
  BY DEF NoFile, NoToken
<1>3. maintenance \in BOOLEAN /\ expired \in BOOLEAN
      /\ torn \in BOOLEAN /\ rotated \in BOOLEAN
  OBVIOUS
<1>4. /\ master = 0 /\ hash = 0 /\ akey = 1 /\ nonce = 0 /\ secret = 0
      /\ script = "none" /\ step = "idle" /\ asked = 0
      /\ secrets = 0 /\ keys = 0 /\ challenges = 0 /\ interruptions = 0
  OBVIOUS
<1> HIDE DEF AuthInit
<1> QED BY <1>1, <1>2, <1>3, <1>4 DEF AuthTypeOK

\* The numbers of keys and challenges only grow.
LEMMA KeysGrow ==
    ASSUME AuthTypeOK, GetOrCreateKey
    PROVE  keys' \in Nat /\ master' \in 0 .. keys' /\ keys <= keys'
  BY DEF AuthTypeOK, GetOrCreateKey, Absent

\* A new challenge replaces the nonce by one never issued before.
LEMMA ChallengesGrow ==
    ASSUME AuthTypeOK, NewChallenge
    PROVE  /\ challenges' = challenges + 1
           /\ challenges' \in 0 .. MaxChallenges
           /\ nonce' \in 0 .. challenges' /\ expired' \in BOOLEAN
<1>1. expired' \in BOOLEAN
  BY DEF NewChallenge
<1>2. /\ challenges < MaxChallenges /\ challenges \in 0 .. MaxChallenges
      /\ challenges' = challenges + 1 /\ nonce' = challenges + 1
  BY DEF AuthTypeOK, NewChallenge
<1> QED BY <1>1, <1>2, SessionAuthAssumption

\* Every step of a script and of the service keeps the types.
LEMMA AuthTypeStep == AuthTypeOK /\ [AuthNext]_authVars => AuthTypeOK'
<1> SUFFICES ASSUME AuthTypeOK, [AuthNext]_authVars PROVE AuthTypeOK'
  OBVIOUS
<1> USE SessionAuthAssumption DEF AuthTypeOK, Absent, NoFile,
            NoToken, Truncated, ta, run, losses, counts,
            EndScript, Continue, ScriptFault
<1>1. ASSUME NEW s \in {"provision", "rotate"}, StartScript(s) PROVE AuthTypeOK'
  BY <1>1 DEF StartScript
<1>2. CASE Challenge
  BY <1>2, ChallengesGrow DEF Challenge
<1>3. CASE SignToken
  BY <1>3 DEF SignToken
<1>4. CASE Recover
  BY <1>4 DEF Recover
<1>5. CASE RecoverRefused
  BY <1>5 DEF RecoverRefused
<1>6. CASE ClearNonce
  BY <1>6 DEF ClearNonce
<1>7. CASE SetSecret
  BY <1>7 DEF SetSecret
<1>8. CASE SetRefused
  <2>1. CASE UNCHANGED <<master, keys>>
    BY <1>8, <2>1 DEF SetRefused
  <2>2. CASE GetOrCreateKey
    BY <1>8, <2>2, KeysGrow DEF SetRefused
  <2> QED BY <1>8, <2>1, <2>2 DEF SetRefused
<1>9. CASE Seal
  <2>1. CASE UNCHANGED <<master, keys>>
    BY <1>9, <2>1 DEF Seal
  <2>2. CASE GetOrCreateKey
    BY <1>9, <2>2, KeysGrow DEF Seal
  <2> QED BY <1>9, <2>1, <2>2 DEF Seal
<1>10. CASE Write
  <2>1. blob' \in [found : BOOLEAN, key : 0 .. keys, secret : 0 .. secrets]
    BY <1>10 DEF Write
  <2>2. torn' \in BOOLEAN /\ rotated' \in BOOLEAN
    BY <1>10 DEF Write
  <2>3. UNCHANGED <<ta, secrets, keys, challenges, interruptions>>
    BY <1>10 DEF Write
  <2>4. CASE script = "rotate"
    BY <1>10, <2>1, <2>2, <2>3, <2>4 DEF Write
  <2>5. CASE script # "rotate"
    BY <1>10, <2>1, <2>2, <2>3, <2>5 DEF Write
  <2> QED BY <2>4, <2>5
<1>11. CASE RotateUnknown
  BY <1>11 DEF RotateUnknown
<1>12. CASE WipeMaster
  BY <1>12 DEF WipeMaster
<1>13. CASE WipeAuth
  BY <1>13 DEF WipeAuth
<1>14. CASE RenewKeys
  <2>1. CASE UNCHANGED <<master, keys>>
    BY <1>14, <2>1 DEF RenewKeys
  <2>2. CASE GetOrCreateKey
    BY <1>14, <2>2, KeysGrow DEF RenewKeys
  <2> QED BY <1>14, <2>1, <2>2 DEF RenewKeys
<1>15. CASE ExportAnchors
  BY <1>15 DEF ExportAnchors
<1>16. CASE ScriptEnds
  BY <1>16 DEF ScriptEnds
<1>17. CASE WriteFails
  BY <1>17 DEF WriteFails
<1>18. CASE ScriptPowerLoss
  BY <1>18 DEF ScriptPowerLoss
<1>19. CASE OpenSession
  <2>1. CASE UNCHANGED <<master, keys>>
    BY <1>19, <2>1 DEF OpenSession
  <2>2. CASE GetOrCreateKey
    BY <1>19, <2>2, KeysGrow DEF OpenSession
  <2> QED BY <1>19, <2>1, <2>2 DEF OpenSession
<1>20. CASE StrayChallenge
  BY <1>20, ChallengesGrow DEF StrayChallenge
<1>21. CASE Expire
  BY <1>21 DEF Expire
<1>22. CASE UNCHANGED authVars
  BY <1>22 DEF authVars
<1> QED BY <1>1, <1>2, <1>3, <1>4, <1>5, <1>6, <1>7, <1>8, <1>9, <1>10,
         <1>11, <1>12, <1>13, <1>14, <1>15, <1>16, <1>17, <1>18, <1>19, <1>20, <1>21,
         <1>22 DEF AuthNext, AuthStep

-----------------------------------------------------------------------------
(* The scripts. *)

\* What the invariant says of the scripts and the blob.
BlobsInv == BlobInv /\ ScriptInv /\ Settled

\* A new device has neither blob nor hash.
LEMMA ScriptInit == AuthInit => BlobsInv
  BY DEF AuthInit, BlobsInv, BlobInv, ScriptInv, Settled, Absent, NoFile

\* Every step leaves the TA and the blob as the next one expects them.
LEMMA ScriptStep == AuthTypeOK /\ BlobsInv /\ [AuthNext]_authVars => BlobsInv'
<1> SUFFICES ASSUME AuthTypeOK, BlobsInv, [AuthNext]_authVars PROVE BlobsInv'
  OBVIOUS
<1> USE DEF AuthTypeOK, BlobsInv, BlobInv, ScriptInv, Settled, BlobOpens,
            Absent, NoFile, NoToken, Truncated, ta, run,
            losses, counts, EndScript, Continue, GetOrCreateKey,
            NewChallenge, ScriptFault, SecretOpens
<1>1. ASSUME NEW s \in {"provision", "rotate"}, StartScript(s) PROVE BlobsInv'
  BY <1>1 DEF StartScript
<1>2. CASE Challenge
  BY <1>2 DEF Challenge
<1>3. CASE SignToken
  BY <1>3 DEF SignToken
<1>4. CASE Recover
  BY <1>4 DEF Recover
<1>5. CASE RecoverRefused
  BY <1>5 DEF RecoverRefused
<1>6. CASE ClearNonce
  BY <1>6 DEF ClearNonce
<1>7. CASE SetSecret
  BY <1>7 DEF SetSecret
<1>8. CASE SetRefused
  BY <1>8 DEF SetRefused
<1>9. CASE Seal
  BY <1>9 DEF Seal
<1>10. CASE Write
  BY <1>10 DEF Write
<1>11. CASE RotateUnknown
  BY <1>11 DEF RotateUnknown
<1>12. CASE WipeMaster
  BY <1>12 DEF WipeMaster
<1>13. CASE WipeAuth
  BY <1>13 DEF WipeAuth
<1>14. CASE RenewKeys
  BY <1>14 DEF RenewKeys
<1>15. CASE ExportAnchors
  BY <1>15 DEF ExportAnchors
<1>16. CASE ScriptEnds
  BY <1>16 DEF ScriptEnds
<1>17. CASE WriteFails
  BY <1>17 DEF WriteFails
<1>18. CASE ScriptPowerLoss
  BY <1>18 DEF ScriptPowerLoss
<1>19. CASE OpenSession
  BY <1>19 DEF OpenSession
<1>20. CASE StrayChallenge
  BY <1>20 DEF StrayChallenge
<1>21. CASE Expire
  BY <1>21 DEF Expire
<1>22. CASE UNCHANGED authVars
  BY <1>22 DEF authVars
<1> QED BY <1>1, <1>2, <1>3, <1>4, <1>5, <1>6, <1>7, <1>8, <1>9, <1>10,
         <1>11, <1>12, <1>13, <1>14, <1>15, <1>16, <1>17, <1>18, <1>19, <1>20, <1>21,
         <1>22 DEF AuthNext, AuthStep

-----------------------------------------------------------------------------
(* The recovery nonce. *)

\* Only a new challenge makes a nonce, and it is the last one.
LEMMA NonceStep == AuthTypeOK /\ NonceIsLast /\ [AuthNext]_authVars => NonceIsLast'
<1> SUFFICES ASSUME AuthTypeOK, NonceIsLast, [AuthNext]_authVars PROVE NonceIsLast'
  OBVIOUS
<1> USE DEF AuthTypeOK, NonceIsLast, Absent, ta, run, losses,
            counts, EndScript, Continue, NewChallenge, ScriptFault
<1>1. ASSUME NEW s \in {"provision", "rotate"}, StartScript(s) PROVE NonceIsLast'
  BY <1>1 DEF StartScript
<1>2. CASE Challenge
  BY <1>2 DEF Challenge
<1>3. CASE SignToken
  BY <1>3 DEF SignToken
<1>4. CASE Recover
  BY <1>4 DEF Recover
<1>5. CASE RecoverRefused
  BY <1>5 DEF RecoverRefused
<1>6. CASE ClearNonce
  BY <1>6 DEF ClearNonce
<1>7. CASE SetSecret
  BY <1>7 DEF SetSecret
<1>8. CASE SetRefused
  BY <1>8 DEF SetRefused
<1>9. CASE Seal
  BY <1>9 DEF Seal
<1>10. CASE Write
  BY <1>10 DEF Write
<1>11. CASE RotateUnknown
  BY <1>11 DEF RotateUnknown
<1>12. CASE WipeMaster
  BY <1>12 DEF WipeMaster
<1>13. CASE WipeAuth
  BY <1>13 DEF WipeAuth
<1>14. CASE RenewKeys
  BY <1>14 DEF RenewKeys
<1>15. CASE ExportAnchors
  BY <1>15 DEF ExportAnchors
<1>16. CASE ScriptEnds
  BY <1>16 DEF ScriptEnds
<1>17. CASE WriteFails
  BY <1>17 DEF WriteFails
<1>18. CASE ScriptPowerLoss
  BY <1>18 DEF ScriptPowerLoss
<1>19. CASE OpenSession
  BY <1>19 DEF OpenSession
<1>20. CASE StrayChallenge
  BY <1>20 DEF StrayChallenge
<1>21. CASE Expire
  BY <1>21 DEF Expire
<1>22. CASE UNCHANGED authVars
  BY <1>22 DEF authVars
<1> QED BY <1>1, <1>2, <1>3, <1>4, <1>5, <1>6, <1>7, <1>8, <1>9, <1>10,
         <1>11, <1>12, <1>13, <1>14, <1>15, <1>16, <1>17, <1>18, <1>19, <1>20, <1>21,
         <1>22 DEF AuthNext, AuthStep

-----------------------------------------------------------------------------
\* Every reachable state of the TA, the disk and the scripts satisfies the
\* invariant.
THEOREM AuthInvariant == AuthSpec => []AuthInv
<1>1. AuthInit => AuthInv
  BY AuthTypeInit, ScriptInit DEF AuthInv, BlobsInv, AuthInit, NonceIsLast
<1>2. AuthInv /\ [AuthNext]_authVars => AuthInv'
  BY AuthTypeStep, ScriptStep, NonceStep DEF AuthInv, BlobsInv
<1> QED BY <1>1, <1>2, PTL DEF AuthSpec

\* The TA, the blob and the script hold well-typed values.
THEOREM AuthTypeCorrect == AuthSpec => []AuthTypeOK
<1>1. AuthInv => AuthTypeOK
  BY DEF AuthInv
<1> QED BY <1>1, AuthInvariant, PTL

\* Between scripts, a drone with a blob, or with a hash in the TA, whose blob
\* does not open a session has had a fault after the TA took the secret and
\* before the blob was whole, or a rotation of its keys since the blob.
THEOREM LockOutHasTwoReasons == AuthSpec => []LockedOutForAReason
<1>1. AuthInv => LockedOutForAReason
  BY DEF AuthInv, Settled, LockedOutForAReason
<1> QED BY <1>1, AuthInvariant, PTL

\* Only Recover stores a hash while a script is at that command, and it has
\* compared the nonces.
LEMMA RecoverComparesNonces ==
    AuthInv /\ [AuthNext]_authVars =>
        [step = "recover" /\ hash' # hash => token.nonce = challenges]_authVars
<1> SUFFICES ASSUME AuthInv, AuthNext, step = "recover", hash' # hash
             PROVE  token.nonce = challenges
  OBVIOUS
<1>1. Recover
  BY DEF AuthNext, AuthStep, StartScript, Challenge, SignToken,
         RecoverRefused, ClearNonce, SetSecret, SetRefused,
         Seal, Write, RotateUnknown, WipeMaster, WipeAuth,
         RenewKeys, ExportAnchors, ScriptEnds, WriteFails,
         ScriptPowerLoss, OpenSession, StrayChallenge, Expire, ta
<1> QED BY <1>1 DEF Recover, TokenAccepted, AuthInv, NonceIsLast

\* A recovery takes effect only under the last challenge the TA has drawn.
THEOREM RecoveryAlwaysFresh == AuthSpec => RecoveryIsFresh
  BY RecoverComparesNonces, AuthInvariant, PTL DEF AuthSpec, RecoveryIsFresh

-----------------------------------------------------------------------------
(***************************************************************************)
(* MldsaIdentity: the drone's key, its sealed copy and its public key.     *)
(***************************************************************************)

\* A start would take k from the slot, or from the sealed copy with the slot
\* empty.
Held(k) == slot = k \/ (slot = NoKey /\ sealed = k)

\* What a start that nobody disturbs finds in the slot at each of its steps.
SlotInv == ~swapped /\ ~doubted =>
    /\ phase \in {"import", "imported", "unseal"} => slot \in {NoKey, sealed}
    /\ phase \in {"create", "seal", "import_new"} => slot = NoKey
    /\ phase = "create" => sealed = NoKey
    /\ phase = "import_new" => sealed = identity
    /\ phase \in {"check", "up"} => Held(identity)

\* The last identity is what a start would take, so that none makes a new key.
LastInv ==
    /\ swapped => replaced
    /\ phase = "up" => identity = last
    /\ last # NoKey /\ ~replaced /\ ~doubted =>
           /\ Held(last)
           /\ phase \notin {"create", "seal", "import_new"}
           /\ phase = "check" => identity = last

\* Where the policy demands attestation the drone is up with the slot's key.
Attested == phase = "up" /\ ~swapped /\ Attestation => slot = identity

\* ... and the whole.
IdentityInv == SlotInv /\ LastInv /\ Attested

-----------------------------------------------------------------------------
(* Types. *)

\* A new drone is well typed.
LEMMA IdentityTypeInit == IdentityInit => IdentityTypeOK
<1> SUFFICES ASSUME IdentityInit PROVE IdentityTypeOK
  OBVIOUS
<1>1. pairs \in 0 .. MaxPairs /\ 0 \in 0 .. MaxFailures /\ pairs \in 0 .. pairs /\ 0 \in 0 .. pairs
  BY MldsaIdentityAssumption DEF IdentityInit
<1>2. sealed \in -1 .. pairs
  BY <1>1 DEF IdentityInit
<1> QED BY <1>1, <1>2 DEF IdentityInit, IdentityTypeOK, NoKey

\* Every step keeps the types: what comes into the slot or a file is a key
\* that was made.
LEMMA IdentityTypeStep ==
    IdentityTypeOK /\ [IdentityNext]_identityVars => IdentityTypeOK'
<1> SUFFICES ASSUME IdentityTypeOK, [IdentityNext]_identityVars PROVE IdentityTypeOK'
  OBVIOUS
<1> USE MldsaIdentityAssumption DEF IdentityTypeOK, NoKey, Junk,
            files, history, Goto, Throw, IdentityFault,
            NewKey, Replace
<1>0. /\ pairs \in 0 .. MaxPairs /\ pairs \in Nat /\ 0 \in 0 .. pairs /\ pairs \in 0 .. pairs
      /\ -1 \in -1 .. pairs /\ pairs \in -1 .. pairs
  OBVIOUS
<1>a. ASSUME NEW o \in Outcomes, NEW k, Put(k, o)
      PROVE  slot' \in {k, slot, NoKey} /\ fails' \in 0 .. MaxFailures
  BY <1>a DEF Put, Outcomes
<1>b. Importable => sealed \in 0 .. pairs
  BY DEF Importable
<1>c. 0 .. pairs \subseteq -1 .. pairs
  OBVIOUS
<1>d. "done" \in Outcomes
  BY DEF Outcomes
<1>1. CASE Start
  BY <1>1 DEF Start
<1>2. CASE Status
  BY <1>2 DEF Status
<1>3. CASE StatusUnknown
  <2>1. doubted' \in BOOLEAN
    BY <1>3 DEF StatusUnknown
  <2> QED BY <1>3, <2>1 DEF StatusUnknown
<1>4. CASE ExportIdentity
  BY <1>4 DEF ExportIdentity
<1>5. CASE ExportFails
  <2>1. doubted' \in BOOLEAN
    BY <1>5 DEF ExportFails
  <2>2. fails' \in 0 .. MaxFailures
    BY <1>5 DEF ExportFails
  <2>3. phase' \in {"down", "create"} /\ identity' \in {identity, NoKey}
    BY <1>5 DEF ExportFails
  <2> QED BY <1>0, <1>5, <2>1, <2>2, <2>3 DEF ExportFails
<1>6. ASSUME NEW o \in Outcomes, Import(o) PROVE IdentityTypeOK'
  <2>1. slot' \in {sealed, slot, NoKey} /\ fails' \in 0 .. MaxFailures
    BY <1>6, <1>a DEF Import
  <2>2. phase' \in {"imported", "down", "unseal"} /\ identity' \in {identity, NoKey}
    BY <1>6 DEF Import
  <2> QED BY <1>0, <1>b, <1>6, <2>1, <2>2 DEF Import
<1>7. CASE ImportUnusable
  BY <1>7 DEF ImportUnusable
<1>8. CASE Imported
  <2>1. doubted' \in BOOLEAN
    BY <1>8 DEF Imported
  <2>2. fails' \in 0 .. MaxFailures
    BY <1>8 DEF Imported
  <2>3. /\ phase' \in {"check", "down", "unseal"}
        /\ identity' \in {identity, NoKey, slot, public}
    BY <1>8 DEF Imported
  <2> QED BY <1>0, <1>8, <2>1, <2>2, <2>3 DEF Imported
<1>9. CASE Unseal
  BY <1>9, <1>b DEF Unseal
<1>10. CASE UnsealFails
  BY <1>10 DEF UnsealFails
<1>11. CASE CreateRefused
  BY <1>11 DEF CreateRefused
<1>12. CASE CreateIdentity
  <2>1. pairs' \in 0 .. MaxPairs /\ 0 .. pairs \subseteq 0 .. pairs' /\ -1 \in -1 .. pairs'
    BY <1>12 DEF CreateIdentity
  <2> QED BY <1>12, <2>1 DEF CreateIdentity
<1>13. CASE SealNew
  BY <1>0, <1>13 DEF SealNew
<1>14. ASSUME NEW o \in Outcomes, ImportNew(o) PROVE IdentityTypeOK'
  <2>1. slot' \in {sealed, slot, NoKey} /\ fails' \in 0 .. MaxFailures
    BY <1>14, <1>a DEF ImportNew
  <2> QED BY <1>0, <1>b, <1>14, <2>1 DEF ImportNew
<1>15. CASE ImportNewMissing
  BY <1>15 DEF ImportNewMissing
<1>16. CASE CheckIdentity
  BY <1>16 DEF CheckIdentity
<1>17. CASE CheckFails
  BY <1>17 DEF CheckFails
<1>18. CASE Stop
  <2>1. doubted' \in BOOLEAN
    BY <1>18 DEF Stop
  <2> QED BY <1>18, <2>1 DEF Stop
<1>19. ASSUME NEW o \in Outcomes, Generate(o) PROVE IdentityTypeOK'
  <2>1. /\ pairs' \in 0 .. MaxPairs /\ 0 .. pairs \subseteq 0 .. pairs'
        /\ -1 .. pairs \subseteq -1 .. pairs' /\ pairs + 1 \in 0 .. pairs'
    BY <1>19 DEF Generate
  <2>2. slot' \in {pairs + 1, slot, NoKey} /\ fails' \in 0 .. MaxFailures
    BY <1>19, <1>a DEF Generate
  <2>3. swapped' \in BOOLEAN
    BY <1>19 DEF Generate
  <2> QED BY <1>19, <2>1, <2>2, <2>3 DEF Generate
<1>20. ASSUME NEW o \in Outcomes, OperatorImports(o) PROVE IdentityTypeOK'
  <2>1. slot' \in {sealed, slot, NoKey} /\ fails' \in 0 .. MaxFailures
    BY <1>20, <1>a DEF OperatorImports
  <2>2. swapped' \in BOOLEAN
    BY <1>20 DEF OperatorImports
  <2> QED BY <1>0, <1>b, <1>20, <2>1, <2>2 DEF OperatorImports
<1>21. CASE PowerLossEmpties
  BY <1>21 DEF PowerLossEmpties
<1>22. CASE Rotate
  <2>1. swapped' \in BOOLEAN
    BY <1>22 DEF Rotate
  <2> QED BY <1>22, <2>1 DEF Rotate
<1>23. CASE UNCHANGED identityVars
  BY <1>23 DEF identityVars
<1> QED BY <1>1, <1>2, <1>3, <1>4, <1>5, <1>6, <1>7, <1>8, <1>9, <1>10, <1>11, <1>12,
         <1>13, <1>14, <1>15, <1>16, <1>17, <1>18, <1>19, <1>20, <1>21, <1>22, <1>23, <1>d
         DEF IdentityNext, Boot

-----------------------------------------------------------------------------
(* The key and where it lies. *)

\* A new drone has been up with no key yet.
LEMMA SlotInit == IdentityInit => IdentityInv
  BY DEF IdentityInit, IdentityInv, SlotInv, LastInv, Attested

\* Every step keeps the key where the next start finds it, or notes why not.
LEMMA SlotStep == IdentityInv /\ [IdentityNext]_identityVars => IdentityInv'
<1> SUFFICES ASSUME IdentityInv, [IdentityNext]_identityVars PROVE IdentityInv'
  OBVIOUS
<1> USE DEF IdentityInv, SlotInv, LastInv, Attested, Held, Attestation,
            files, history, Goto, Throw, Replace
<1>d. "done" \in Outcomes
  BY DEF Outcomes
<1>a. ASSUME NEW o \in Outcomes, NEW k, Put(k, o)
      PROVE  slot' \in {k, slot, NoKey} /\ (o = "done" => slot' = k)
  BY <1>a DEF Put, Outcomes
<1>1. CASE Start
  BY <1>1 DEF Start
<1>2. CASE Status
  BY <1>2 DEF Status
<1>3. CASE StatusUnknown
  BY <1>3 DEF StatusUnknown
<1>4. CASE ExportIdentity
  BY <1>4 DEF ExportIdentity
<1>5. CASE ExportFails
  BY <1>5 DEF ExportFails
<1>6. ASSUME NEW o \in Outcomes, Import(o) PROVE IdentityInv'
  BY <1>6, <1>a DEF Import
<1>7. CASE ImportUnusable
  BY <1>7 DEF ImportUnusable
<1>8. CASE Imported
  BY <1>8 DEF Imported
<1>9. CASE Unseal
  BY <1>9 DEF Unseal
<1>10. CASE UnsealFails
  BY <1>10 DEF UnsealFails
<1>11. CASE CreateRefused
  BY <1>11 DEF CreateRefused
<1>12. CASE CreateIdentity
  BY <1>12 DEF CreateIdentity
<1>13. CASE SealNew
  BY <1>13 DEF SealNew
<1>14. ASSUME NEW o \in Outcomes, ImportNew(o) PROVE IdentityInv'
  BY <1>14, <1>a DEF ImportNew
<1>15. CASE ImportNewMissing
  BY <1>15 DEF ImportNewMissing
<1>16. CASE CheckIdentity
  BY <1>16 DEF CheckIdentity, Acceptable
<1>17. CASE CheckFails
  BY <1>17 DEF CheckFails
<1>18. CASE Stop
  BY <1>18 DEF Stop
<1>19. ASSUME NEW o \in Outcomes, Generate(o) PROVE IdentityInv'
  BY <1>19 DEF Generate
<1>20. ASSUME NEW o \in Outcomes, OperatorImports(o) PROVE IdentityInv'
  BY <1>20 DEF OperatorImports
<1>21. CASE PowerLossEmpties
  BY <1>21 DEF PowerLossEmpties
<1>22. CASE Rotate
  BY <1>22 DEF Rotate
<1>23. CASE UNCHANGED identityVars
  BY <1>23 DEF identityVars
<1> QED BY <1>1, <1>2, <1>3, <1>4, <1>5, <1>6, <1>7, <1>8, <1>9, <1>10, <1>11, <1>12,
         <1>13, <1>14, <1>15, <1>16, <1>17, <1>18, <1>19, <1>20, <1>21, <1>22, <1>23, <1>d
         DEF IdentityNext, Boot

-----------------------------------------------------------------------------
\* The slot, the files and the running start hold well-typed values.
THEOREM IdentityTypeCorrect == IdentitySpec => []IdentityTypeOK
  BY IdentityTypeInit, IdentityTypeStep, PTL DEF IdentitySpec

\* Every reachable state of the slot, the files and the start satisfies the
\* invariant.
THEOREM IdentityInvariant == IdentitySpec => []IdentityInv
  BY SlotInit, SlotStep, PTL DEF IdentitySpec

\* A drone that is up signs with the key it has announced, if the operator has
\* left the keys alone and the start could see the slot or had to attest it.
THEOREM AlwaysSignsAsAnnounced == IdentitySpec => []SignsAsAnnounced
<1>1. IdentityInv => SignsAsAnnounced
  BY DEF IdentityInv, SlotInv, Attested, Held, SignsAsAnnounced, Signers
<1> QED BY <1>1, IdentityInvariant, PTL

\* Only CheckIdentity lets the drone up, with the key that the start has held.
LEMMA UpWithTheLastIdentity ==
    IdentityInv /\ [IdentityNext]_identityVars =>
        [phase' = "up" /\ phase # "up" /\ last # NoKey
            /\ ~replaced /\ ~swapped /\ ~doubted => identity' = last]_identityVars
<1> SUFFICES ASSUME IdentityInv, IdentityNext, phase' = "up", phase # "up", last # NoKey,
                    ~replaced, ~swapped, ~doubted
             PROVE  identity' = last
  OBVIOUS
<1>1. CheckIdentity
  BY DEF IdentityNext, Boot, Goto, Throw, Start,
         Status, ExportIdentity, ExportFails, StatusUnknown,
         Import, ImportUnusable, Imported, Unseal,
         UnsealFails, CreateRefused, CreateIdentity, SealNew,
         ImportNew, ImportNewMissing, CheckFails, Stop,
         Generate, OperatorImports, PowerLossEmpties, Rotate
<1> QED BY <1>1 DEF CheckIdentity, IdentityInv, LastInv

\* A drone comes up with the identity it was last up with, whatever failed in
\* between, unless the operator or a start that could not see the slot
\* interfered.
THEOREM IdentityAlwaysStays == IdentitySpec => IdentityStays
  BY UpWithTheLastIdentity, IdentityInvariant, PTL DEF IdentitySpec, IdentityStays

-----------------------------------------------------------------------------
\* Side by side the two parts keep what each keeps alone: a lock-out has its
\* reason, a recovery is fresh, and the drone signs as announced under one
\* identity.
THEOREM PartsKeepTheirPromises ==
    TaSpec => /\ []LockedOutForAReason /\ RecoveryIsFresh
              /\ []SignsAsAnnounced /\ IdentityStays
<1>1. TaInit => AuthInv /\ IdentityInv
  <2> SUFFICES ASSUME TaInit PROVE AuthInv /\ IdentityInv
    OBVIOUS
  <2>1. AuthInit /\ IdentityInit
    BY DEF TaInit
  <2>2. NonceIsLast
    BY <2>1 DEF AuthInit, NonceIsLast
  <2> QED BY <2>1, <2>2, AuthTypeInit, ScriptInit, SlotInit DEF AuthInv, BlobsInv
<1>2. [TaNext]_taVars => [AuthNext]_authVars /\ [IdentityNext]_identityVars
  BY Zenon DEF TaNext, OfSession, OfIdentity, taVars
<1>3. AuthInv /\ IdentityInv /\ [TaNext]_taVars => AuthInv' /\ IdentityInv'
  BY <1>2, AuthTypeStep, ScriptStep, NonceStep, SlotStep DEF AuthInv, BlobsInv
<1>4. AuthInv => LockedOutForAReason
  BY DEF AuthInv, Settled, LockedOutForAReason
<1>5. IdentityInv => SignsAsAnnounced
  BY DEF IdentityInv, SlotInv, Attested, Held, SignsAsAnnounced, Signers
<1> QED BY <1>1, <1>2, <1>3, <1>4, <1>5, RecoverComparesNonces,
           UpWithTheLastIdentity, PTL DEF TaSpec, RecoveryIsFresh, IdentityStays
=============================================================================
