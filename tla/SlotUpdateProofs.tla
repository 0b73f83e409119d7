-------------------------- MODULE SlotUpdateProofs --------------------------
(***************************************************************************)
(* For any set of slots and any versions, the slot record of SlotUpdate    *)
(* stays coherent, the drone runs from the active slot at the limit, no    *)
(* boot starts older firmware than one accepted before, and there is       *)
(* always a slot that boots.  The inductive invariant adds to the          *)
(* properties how the record, the script's request and the images on the   *)
(* disk stand to each other.                                               *)
(***************************************************************************)
EXTENDS SlotUpdate, TLAPS

\* A script that is about to stage has read its request from the slot.
ScriptFits ==
    script = "stage" => target \in Request /\ target = RequestOf(target.slot)

\* Before the first command nothing has been written.
Fresh == ~initialized => \A s \in Slots : asset[s] = 0

\* The staged slot still holds what was staged, the active slot nothing older
\* than what was committed.
ImagesFit ==
    /\ pending # NoSlot => RequestOf(pending) =
           [slot |-> pending, fw |-> pendingFw, asset |-> pendingAsset]
    /\ active # NoSlot => /\ image[active].fw >= fw[active]
                          /\ image[active].asset >= asset[active]

Inv ==
    /\ TypeOK /\ RecordCoherent /\ AcceptedIsRemembered /\ RunsTheActiveSlot
    /\ ScriptFits /\ Fresh /\ ImagesFit

-----------------------------------------------------------------------------
\* What is installed in a slot makes a request.
LEMMA RequestType ==
    ASSUME TypeOK, NEW s \in Slots
    PROVE  RequestOf(s) \in Request
  BY DEF TypeOK, RequestOf, Request, Image

\* Before the first command the record is empty.
LEMMA Unwritten ==
    ASSUME TypeOK, RecordCoherent, Fresh, ~initialized
    PROVE  /\ active = NoSlot /\ pending = NoSlot /\ maxFw = 0
           /\ \A s \in Slots : fw[s] = 0 /\ asset[s] = 0
  BY DEF TypeOK, RecordCoherent, Fresh, Stored

\* A request that is staged leaves a coherent record behind.
LEMMA StageKeepsCoherent ==
    ASSUME TypeOK, RecordCoherent, Fresh, NEW r \in Request,
           StageAccepted(r), StageSlot(r)
    PROVE  RecordCoherent'
<1>1. r.slot \in Slots /\ r.fw >= 1 /\ r.asset >= 1 /\ r.fw \in Int /\ r.asset \in Int
  BY DEF Request, Version
<1>2. r.slot # NoSlot
  BY <1>1, SlotUpdateAssumption
<1>3. NotOlder(r) /\ r.slot # active
  <2>1. CASE initialized
    BY <2>1 DEF StageAccepted
  <2>2. CASE ~initialized
    BY <2>2, <1>1, <1>2, Unwritten DEF NotOlder
  <2> QED BY <2>1, <2>2
<1>4. pending' = r.slot /\ pendingFw' = r.fw /\ pendingAsset' = r.asset
      /\ initialized' = TRUE
      /\ active' = active /\ maxFw' = maxFw /\ fw' = fw /\ asset' = asset
  BY DEF StageSlot
<1> QED BY <1>1, <1>2, <1>3, <1>4 DEF RecordCoherent, NotOlder

\* An accepted commit makes its slot active, raises the limit to its version
\* and leaves a coherent record behind.
LEMMA CommitRaisesLimit ==
    ASSUME TypeOK, RecordCoherent, Fresh, NEW r \in Request,
           CommitAccepted(r), CommitSlot(r)
    PROVE  maxFw' = r.fw /\ maxFw <= r.fw
<1>1. r.fw \in Nat /\ maxFw \in Nat /\ r.fw >= 1
  BY DEF Request, Version, TypeOK, Stored
<1>2. CASE initialized
  BY <1>1, <1>2 DEF CommitAccepted, NotOlder, CommitSlot
<1>3. CASE ~initialized
  BY <1>1, <1>3, Unwritten DEF CommitSlot
<1> QED BY <1>2, <1>3

LEMMA CommitKeepsCoherent ==
    ASSUME TypeOK, RecordCoherent, Fresh, NEW r \in Request,
           CommitAccepted(r), CommitSlot(r)
    PROVE  RecordCoherent'
<1>1. r.slot \in Slots /\ r.fw \in Nat /\ r.fw >= 1
  BY DEF Request, Version
<1>2. r.slot # NoSlot
  BY <1>1, SlotUpdateAssumption
<1>3. initialized' = TRUE /\ active' = r.slot /\ pending' = NoSlot
      /\ fw' = [fw EXCEPT ![r.slot] = r.fw]
  BY DEF CommitSlot
<1>4. maxFw' = r.fw /\ maxFw <= r.fw
  BY CommitRaisesLimit
<1>5. fw'[r.slot] = r.fw
  BY <1>1, <1>3 DEF TypeOK
<1>6. ASSUME NEW s \in Slots PROVE fw'[s] <= maxFw'
  <2>1. fw[s] <= maxFw /\ fw[s] \in Nat /\ maxFw \in Nat
    BY DEF RecordCoherent, TypeOK, Stored
  <2>2. fw'[s] = IF s = r.slot THEN r.fw ELSE fw[s]
    BY <1>3 DEF TypeOK
  <2> QED BY <2>1, <2>2, <1>1, <1>4
<1> QED BY <1>2, <1>3, <1>4, <1>5, <1>6 DEF RecordCoherent

\* The commit of a boot keeps the invariant's other parts too.
LEMMA CommitKeepsRest ==
    ASSUME Inv, NEW s \in Slots,
           CommitAccepted(RequestOf(s)), CommitSlot(RequestOf(s)),
           image' = image
    PROVE  ImagesFit' /\ Fresh' /\ active' = s
           /\ maxFw' = image[s].fw /\ maxFw <= maxFw'
<1>1. RequestOf(s) \in Request
  BY RequestType DEF Inv
<1>2. maxFw' = image[s].fw /\ maxFw <= maxFw'
  BY <1>1, CommitRaisesLimit DEF Inv, RequestOf
<1>3. active' = s /\ pending' = NoSlot /\ initialized' = TRUE
  BY DEF CommitSlot, RequestOf
<1>4. fw'[s] = image[s].fw /\ asset'[s] = image[s].asset
  BY DEF CommitSlot, RequestOf, Inv, TypeOK
<1>5. image[s].fw \in Nat /\ image[s].asset \in Nat
  BY DEF Inv, TypeOK, Image, Version
<1> QED BY <1>2, <1>3, <1>4, <1>5 DEF ImagesFit, Fresh

\* A commit writes well-typed values.
LEMMA CommitType ==
    ASSUME TypeOK, NEW r \in Request, CommitSlot(r)
    PROVE  /\ initialized' \in BOOLEAN /\ active' \in Slots \cup {NoSlot}
           /\ pending' \in Slots \cup {NoSlot}
           /\ pendingFw' \in Stored /\ pendingAsset' \in Stored
           /\ maxFw' \in Stored
           /\ fw' \in [Slots -> Stored] /\ asset' \in [Slots -> Stored]
<1>1. r.slot \in Slots /\ r.fw \in Stored /\ r.asset \in Stored /\ 0 \in Stored
  BY SlotUpdateAssumption DEF Request, Version, Stored
<1> QED BY <1>1 DEF TypeOK, CommitSlot

-----------------------------------------------------------------------------
\* The invariant holds before anything has been written.
LEMMA InvInit == Init => Inv
<1> SUFFICES ASSUME Init PROVE Inv
  OBVIOUS
<1> USE DEF Init
<1>1. TypeOK
  <2>1. 0 \in Stored
    BY SlotUpdateAssumption DEF Stored
  <2> QED BY <2>1 DEF TypeOK
<1>2. RecordCoherent
  BY DEF RecordCoherent
<1>3. AcceptedIsRemembered /\ RunsTheActiveSlot /\ ScriptFits /\ Fresh
  BY DEF AcceptedIsRemembered, RunsTheActiveSlot, ScriptFits, Fresh
<1>4. ImagesFit
  BY DEF ImagesFit
<1> QED BY <1>1, <1>2, <1>3, <1>4 DEF Inv

\* The installer leaves the staged slot alone and never makes the running
\* slot older, and the running slot is the active one.
LEMMA InvInstall ==
    ASSUME Inv, NEW s \in Slots, NEW i \in Image, Install(s, i)
    PROVE  Inv'
<1> USE DEF Install, meta
<1>1. TypeOK'
  BY DEF Inv, TypeOK
<1>2. RecordCoherent' /\ AcceptedIsRemembered' /\ RunsTheActiveSlot' /\ Fresh'
  BY DEF Inv, RecordCoherent, NotOlder, AcceptedIsRemembered,
         RunsTheActiveSlot, Fresh
<1>3. ScriptFits'
  BY DEF ScriptFits
<1>4. ImagesFit'
  <2>1. \A t \in Slots : image'[t] = IF t = s THEN i ELSE image[t]
    BY DEF Inv, TypeOK
  <2>2. pending' # NoSlot => RequestOf(pending)' =
            [slot |-> pending', fw |-> pendingFw', asset |-> pendingAsset']
    <3>1. pending # NoSlot => pending \in Slots /\ image'[pending] = image[pending]
      BY <2>1 DEF Inv, TypeOK
    <3> QED BY <3>1 DEF Inv, ImagesFit, RequestOf
  <2>3. active' # NoSlot => /\ image'[active'].fw >= fw'[active']
                            /\ image'[active'].asset >= asset'[active']
    <3> SUFFICES ASSUME active # NoSlot
                 PROVE  /\ image'[active].fw >= fw[active]
                        /\ image'[active].asset >= asset[active]
      OBVIOUS
    <3>1. /\ active \in Slots
          /\ image[active].fw >= fw[active] /\ image[active].asset >= asset[active]
      BY DEF Inv, TypeOK, ImagesFit
    <3>2. CASE s # active
      BY <2>1, <3>1, <3>2
    <3>3. CASE s = active
      <4>1. i.fw >= image[s].fw /\ i.asset >= image[s].asset
        BY <3>3 DEF Inv, RunsTheActiveSlot
      <4>2. /\ i.fw \in Int /\ i.asset \in Int
            /\ image[s].fw \in Int /\ image[s].asset \in Int
            /\ fw[s] \in Int /\ asset[s] \in Int
        BY DEF Inv, TypeOK, Image, Version, Stored
      <4> QED BY <2>1, <3>1, <3>3, <4>1, <4>2
    <3> QED BY <3>2, <3>3
  <2> QED BY <2>2, <2>3 DEF ImagesFit
<1> QED BY <1>1, <1>2, <1>3, <1>4 DEF Inv

\* The script's three steps: what it stages is what it has read.
LEMMA InvScriptReads ==
    ASSUME Inv, NEW s \in Slots, NEW readable \in BOOLEAN,
           ScriptReads(s, readable)
    PROVE  Inv'
<1> USE DEF ScriptReads, meta
<1>1. RequestOf(s) \in Request /\ RequestOf(s).slot = s
  BY RequestType DEF Inv, RequestOf
<1>2. TypeOK'
  BY <1>1 DEF Inv, TypeOK
<1>3. RecordCoherent' /\ AcceptedIsRemembered' /\ RunsTheActiveSlot' /\ Fresh'
  BY DEF Inv, RecordCoherent, NotOlder, AcceptedIsRemembered,
         RunsTheActiveSlot, Fresh
<1>4. ScriptFits'
  BY <1>1 DEF ScriptFits, RequestOf
<1>5. ImagesFit'
  BY DEF Inv, ImagesFit, RequestOf
<1> QED BY <1>2, <1>3, <1>4, <1>5 DEF Inv

LEMMA InvScriptStages ==
    ASSUME Inv, ScriptStages
    PROVE  Inv'
<1> USE DEF ScriptStages, ScriptDone
<1>1. /\ target \in Request /\ target = RequestOf(target.slot)
      /\ target.slot \in Slots
  BY DEF Inv, ScriptFits, Request
<1>2. TypeOK'
  <2>1. target.fw \in Stored /\ target.asset \in Stored
    BY <1>1, SlotUpdateAssumption DEF Request, Version, Stored
  <2> QED BY <1>1, <2>1 DEF Inv, TypeOK, StageSlot
<1>3. RecordCoherent'
  BY <1>1, StageKeepsCoherent DEF Inv
<1>4. AcceptedIsRemembered' /\ RunsTheActiveSlot' /\ Fresh'
  BY DEF Inv, StageSlot, AcceptedIsRemembered, RunsTheActiveSlot, Fresh
<1>5. ScriptFits'
  BY DEF ScriptFits
<1>6. ImagesFit'
  <2>1. RequestOf(pending)' =
            [slot |-> pending', fw |-> pendingFw', asset |-> pendingAsset']
    BY <1>1 DEF StageSlot, RequestOf
  <2> QED BY <2>1 DEF Inv, StageSlot, ImagesFit
<1> QED BY <1>2, <1>3, <1>4, <1>5, <1>6 DEF Inv

LEMMA InvScriptFails ==
    ASSUME Inv, ScriptFails
    PROVE  Inv'
<1> USE DEF ScriptFails, ScriptDone, meta
<1>1. TypeOK'
  BY DEF Inv, TypeOK
<1>2. RecordCoherent' /\ AcceptedIsRemembered' /\ RunsTheActiveSlot' /\ Fresh'
  BY DEF Inv, RecordCoherent, NotOlder, AcceptedIsRemembered,
         RunsTheActiveSlot, Fresh
<1>3. ScriptFits' /\ ImagesFit'
  BY DEF Inv, ScriptFits, ImagesFit, RequestOf
<1> QED BY <1>1, <1>2, <1>3 DEF Inv

\* A boot runs the slot it has made active, at the limit it has raised.
LEMMA InvBoot ==
    ASSUME Inv, NEW s \in Slots, Boot(s)
    PROVE  Inv'
<1> USE DEF Boot
<1>1. /\ ImagesFit' /\ Fresh' /\ active' = s
      /\ maxFw' = image[s].fw /\ maxFw <= maxFw'
  BY CommitKeepsRest
<1>2. image[s].fw \in Stored /\ newest \in Stored /\ maxFw \in Stored
  BY SlotUpdateAssumption DEF Inv, TypeOK, Image, Version, Stored
<1>3. RequestOf(s) \in Request
  BY RequestType DEF Inv
<1>4. TypeOK'
  BY <1>2, <1>3, CommitType DEF Inv, TypeOK
<1>5. RecordCoherent'
  BY <1>3, CommitKeepsCoherent DEF Inv
<1>6. AcceptedIsRemembered'
  BY <1>1, <1>2 DEF Inv, AcceptedIsRemembered, Stored
<1>7. RunsTheActiveSlot'
  BY <1>1 DEF RunsTheActiveSlot
<1>8. ScriptFits'
  BY DEF Inv, ScriptFits, RequestOf
<1> QED BY <1>1, <1>4, <1>5, <1>6, <1>7, <1>8 DEF Inv

LEMMA InvBootCutShort ==
    ASSUME Inv, NEW s \in Slots, BootCutShort(s)
    PROVE  Inv'
<1> USE DEF BootCutShort
<1>1. ImagesFit' /\ Fresh' /\ maxFw <= maxFw'
  BY CommitKeepsRest
<1>2. newest \in Stored /\ maxFw \in Stored
  BY DEF Inv, TypeOK
<1>3. RequestOf(s) \in Request
  BY RequestType DEF Inv
<1>4. TypeOK'
  BY <1>3, CommitType DEF Inv, TypeOK
<1>5. RecordCoherent'
  BY <1>3, CommitKeepsCoherent DEF Inv
<1>6. AcceptedIsRemembered'
  BY <1>1, <1>2, <1>4 DEF Inv, AcceptedIsRemembered, TypeOK, Stored
<1>7. RunsTheActiveSlot' /\ ScriptFits'
  BY DEF Inv, RunsTheActiveSlot, ScriptFits, RequestOf
<1> QED BY <1>1, <1>4, <1>5, <1>6, <1>7 DEF Inv

LEMMA InvPowerOff ==
    ASSUME Inv, PowerOff
    PROVE  Inv'
<1> USE DEF PowerOff, ScriptDone, meta
<1>1. TypeOK'
  BY SlotUpdateAssumption DEF Inv, TypeOK, Stored
<1>2. RecordCoherent' /\ AcceptedIsRemembered' /\ RunsTheActiveSlot' /\ Fresh'
  BY DEF Inv, RecordCoherent, NotOlder, AcceptedIsRemembered,
         RunsTheActiveSlot, Fresh
<1>3. ScriptFits' /\ ImagesFit'
  BY DEF Inv, ScriptFits, ImagesFit, RequestOf
<1> QED BY <1>1, <1>2, <1>3 DEF Inv

\* A wiped record is that of a new device; the drone goes on running.
LEMMA InvWipe ==
    ASSUME Inv, Wipe
    PROVE  Inv'
<1> USE DEF Wipe
<1>1. TypeOK'
  <2>1. 0 \in Stored
    BY SlotUpdateAssumption DEF Stored
  <2> QED BY <2>1 DEF Inv, TypeOK
<1>2. RecordCoherent' /\ AcceptedIsRemembered' /\ RunsTheActiveSlot' /\ Fresh'
  BY DEF RecordCoherent, AcceptedIsRemembered, RunsTheActiveSlot, Fresh
<1>3. ScriptFits' /\ ImagesFit'
  BY DEF Inv, ScriptFits, ImagesFit, RequestOf
<1> QED BY <1>1, <1>2, <1>3 DEF Inv

LEMMA InvStutter ==
    ASSUME Inv, UNCHANGED vars
    PROVE  Inv'
<1> USE DEF vars, meta
<1>1. TypeOK' /\ AcceptedIsRemembered' /\ RunsTheActiveSlot' /\ Fresh'
  BY DEF Inv, TypeOK, AcceptedIsRemembered, RunsTheActiveSlot, Fresh
<1>2. RecordCoherent'
  BY DEF Inv, RecordCoherent, NotOlder
<1>3. ScriptFits' /\ ImagesFit'
  BY DEF Inv, ScriptFits, ImagesFit, RequestOf
<1> QED BY <1>1, <1>2, <1>3 DEF Inv

LEMMA InvStep == Inv /\ [Next]_vars => Inv'
<1> SUFFICES ASSUME Inv, [Next]_vars PROVE Inv'
  OBVIOUS
<1>1. ASSUME NEW s \in Slots, NEW i \in Image, Install(s, i) PROVE Inv'
  BY <1>1, InvInstall
<1>2. ASSUME NEW s \in Slots, NEW readable \in BOOLEAN,
             ScriptReads(s, readable)
      PROVE  Inv'
  BY <1>2, InvScriptReads
<1>3. ASSUME NEW s \in Slots, Boot(s) PROVE Inv'
  BY <1>3, InvBoot
<1>4. ASSUME NEW s \in Slots, BootCutShort(s) PROVE Inv'
  BY <1>4, InvBootCutShort
<1>5. CASE ScriptStages
  BY <1>5, InvScriptStages
<1>6. CASE ScriptFails
  BY <1>6, InvScriptFails
<1>7. CASE PowerOff
  BY <1>7, InvPowerOff
<1>8. CASE Wipe
  BY <1>8, InvWipe
<1>9. CASE UNCHANGED vars
  BY <1>9, InvStutter
<1> QED BY <1>1, <1>2, <1>3, <1>4, <1>5, <1>6, <1>7, <1>8, <1>9 DEF Next

\* Every reachable state of the slots satisfies the invariant.
THEOREM Invariant == Spec => []Inv
  BY InvInit, InvStep, PTL DEF Spec

-----------------------------------------------------------------------------
\* The record, the disk and the drone hold well-typed values.
THEOREM TypeCorrect == Spec => []TypeOK
<1>1. Inv => TypeOK
  BY DEF Inv
<1> QED BY <1>1, Invariant, PTL

\* No order of commands and no power loss leaves the record at odds with
\* itself.
THEOREM RecordStaysCoherent == Spec => []RecordCoherent
<1>1. Inv => RecordCoherent
  BY DEF Inv
<1> QED BY <1>1, Invariant, PTL

\* The limit of the TA is never below a firmware that has run.
THEOREM LimitRemembers == Spec => []AcceptedIsRemembered
<1>1. Inv => AcceptedIsRemembered
  BY DEF Inv
<1> QED BY <1>1, Invariant, PTL

\* A running drone runs from the active slot, if there is one, at the limit's
\* version.
THEOREM DroneRunsActiveSlot == Spec => []RunsTheActiveSlot
<1>1. Inv => RunsTheActiveSlot
  BY DEF Inv
<1> QED BY <1>1, Invariant, PTL

\* The invariant leaves a slot that boots: the staged one holds exactly what
\* the record expects, the active one nothing older than the limit.
LEMMA InvSomeSlotBoots == Inv => SomeSlotBoots
<1> SUFFICES ASSUME Inv, initialized
             PROVE  CommitAccepted(RequestOf(IF pending # NoSlot THEN pending
                                             ELSE active))
  BY DEF SomeSlotBoots
<1>1. CASE pending # NoSlot
  <2>1. RequestOf(pending) =
            [slot |-> pending, fw |-> pendingFw, asset |-> pendingAsset]
    BY <1>1 DEF Inv, ImagesFit
  <2>2. NotOlder(RequestOf(pending))
    BY <1>1, <2>1 DEF Inv, RecordCoherent
  <2> QED BY <1>1, <2>1, <2>2 DEF CommitAccepted, RightSlot
<1>2. CASE pending = NoSlot
  <2>1. active # NoSlot /\ fw[active] = maxFw
    BY <1>2 DEF Inv, RecordCoherent
  <2>2. image[active].fw >= fw[active] /\ image[active].asset >= asset[active]
    BY <2>1 DEF Inv, ImagesFit
  <2>3. NotOlder(RequestOf(active))
    BY <2>1, <2>2 DEF NotOlder, RequestOf
  <2> QED BY <1>2, <2>3 DEF CommitAccepted, RightSlot, RequestOf
<1> QED BY <1>1, <1>2

\* Wherever an update was interrupted, some slot still boots.
THEOREM AlwaysBootable == Spec => []SomeSlotBoots
  BY Invariant, InvSomeSlotBoots, PTL

\* A boot never starts older firmware than one accepted since the last wipe.
THEOREM BootsNeverRollBack == Spec => NoRollback
<1>1. Inv /\ [Next]_vars =>
          [running = NoSlot /\ running' # NoSlot => runningFw' >= newest]_vars
  <2> SUFFICES ASSUME Inv, Next, running = NoSlot, running' # NoSlot
               PROVE  runningFw' >= newest
    OBVIOUS
  <2>1. PICK s \in Slots : Boot(s)
    BY DEF Next, Install, ScriptReads, BootCutShort, ScriptStages,
           ScriptFails, PowerOff, Wipe, vars
  <2>2. runningFw' = maxFw' /\ maxFw <= maxFw'
    BY <2>1, CommitKeepsRest DEF Boot
  <2>3. maxFw' \in Int /\ maxFw \in Int /\ newest \in Int
    BY <2>1, InvBoot DEF Inv, TypeOK, Stored
  <2> QED BY <2>2, <2>3 DEF Inv, AcceptedIsRemembered
<1> QED BY <1>1, Invariant, PTL DEF Spec, NoRollback

-----------------------------------------------------------------------------
(* What a single step may do to the record.                                *)

\* A staged update waits, as it was staged, until its slot becomes active.
UpdateWaits ==
    pending # NoSlot =>
        \/ UNCHANGED <<pending, pendingFw, pendingAsset>>
        \/ active' = pending /\ fw'[pending] = pendingFw /\ asset'[pending] = pendingAsset
        \/ ~initialized'

\* No version that the TA has recorded, of the firmware or of a slot's assets,
\* becomes a lower one.
VersionsOnlyGrow ==
    \/ maxFw' >= maxFw /\ \A s \in Slots : fw'[s] >= fw[s] /\ asset'[s] >= asset[s]
    \/ ~initialized'

\* What a commit that is accepted does to the record.
LEMMA CommitMovesOn ==
    ASSUME Inv, NEW s \in Slots, CommitAccepted(RequestOf(s)), CommitSlot(RequestOf(s))
    PROVE  UpdateWaits /\ VersionsOnlyGrow
<1> DEFINE r == RequestOf(s)
<1>1. r \in Request /\ r.slot = s
  BY RequestType DEF Inv, RequestOf
<1>2. /\ r.fw \in Int /\ r.asset \in Int /\ maxFw \in Int
      /\ \A t \in Slots : fw[t] \in Int /\ asset[t] \in Int
      /\ fw \in [Slots -> Stored] /\ asset \in [Slots -> Stored]
  BY <1>1 DEF Inv, TypeOK, Request, Version, Stored
<1>3. /\ maxFw' = IF initialized /\ r.fw <= maxFw THEN maxFw ELSE r.fw
      /\ fw' = [fw EXCEPT ![s] = r.fw] /\ asset' = [asset EXCEPT ![s] = r.asset]
      /\ active' = s
  BY <1>1 DEF CommitSlot
<1> HIDE DEF r
<1>4. NotOlder(r)
  <2>1. CASE initialized
    BY <2>1 DEF CommitAccepted, r
  <2>2. CASE ~initialized
    <3>1. r.fw >= 1 /\ r.asset >= 1
      BY <1>1 DEF Request, Version
    <3> QED BY <1>1, <1>2, <2>2, <3>1, Unwritten DEF Inv, NotOlder
  <2> QED BY <2>1, <2>2
<1>5. VersionsOnlyGrow
  BY <1>1, <1>2, <1>3, <1>4 DEF NotOlder, VersionsOnlyGrow
<1>6. ASSUME pending # NoSlot
      PROVE  active' = pending /\ fw'[pending] = pendingFw
             /\ asset'[pending] = pendingAsset
  <2>1. initialized
    BY <1>6 DEF Inv, RecordCoherent
  <2>2. r = [slot |-> pending, fw |-> pendingFw, asset |-> pendingAsset]
    BY <1>6, <2>1 DEF CommitAccepted, RightSlot, r
  <2> QED BY <1>1, <1>2, <1>3, <2>2
<1> QED BY <1>5, <1>6 DEF UpdateWaits

\* Every step keeps both.
LEMMA RecordStep == Inv /\ [Next]_vars => UpdateWaits /\ VersionsOnlyGrow
<1> SUFFICES ASSUME Inv, [Next]_vars PROVE UpdateWaits /\ VersionsOnlyGrow
  OBVIOUS
<1>0. maxFw \in Int /\ \A s \in Slots : fw[s] \in Int /\ asset[s] \in Int
  BY DEF Inv, TypeOK, Stored
<1>1. CASE UNCHANGED meta
  BY <1>0, <1>1 DEF meta, UpdateWaits, VersionsOnlyGrow
<1>2. CASE Wipe
  BY <1>2 DEF Wipe, UpdateWaits, VersionsOnlyGrow
<1>3. CASE ScriptStages
  <2>1. pending # NoSlot => FALSE
    BY <1>3 DEF ScriptStages, StageAccepted, Inv, RecordCoherent
  <2>2. UNCHANGED <<maxFw, fw, asset>>
    BY <1>3 DEF ScriptStages, StageSlot
  <2> QED BY <1>0, <2>1, <2>2 DEF UpdateWaits, VersionsOnlyGrow
<1>4. ASSUME NEW s \in Slots, Boot(s) \/ BootCutShort(s)
      PROVE  UpdateWaits /\ VersionsOnlyGrow
  BY <1>4, CommitMovesOn DEF Boot, BootCutShort
<1> QED
  BY <1>1, <1>2, <1>3, <1>4 DEF Next, Install, ScriptReads, ScriptFails, PowerOff, vars

\* Only its own commit, or a wipe, ends the wait of a staged update: no second
\* script, power loss or refused boot drops or changes it.
THEOREM StagedUpdateWaits == Spec => [][UpdateWaits]_vars
  BY Invariant, RecordStep, PTL DEF Spec

\* The rollback limit and the versions of every slot's firmware and assets never
\* fall, unless the record is wiped.
THEOREM RecordNeverRollsBack == Spec => [][VersionsOnlyGrow]_vars
  BY Invariant, RecordStep, PTL DEF Spec
=============================================================================
