----------------------------- MODULE SlotUpdate -----------------------------
(***************************************************************************)
(* The A/B boot slots: the slot record of the trusted application          *)
(* (ta_hesia.c, stage_slot_update_cmd and commit_slot_boot_cmd), the       *)
(* script that stages an update (stage_ab_update.sh) and the drone that    *)
(* commits the slot it has been booted from (the end of HesiaDrone's       *)
(* constructor, under require_ab_slots), and the wipe of a maintenance      *)
(* build's TA, which takes the record away with everything else.           *)
(*                                                                         *)
(* The TA has one instance and one session, so a command runs alone; the   *)
(* record is one object written with OVERWRITE, so a write happens whole   *)
(* or not at all.  What interleaves is the script's two commands, the      *)
(* boots, the power supply and the installer that fills the slots.  The    *)
(* installer and the bootloader are not in the repository: the first runs  *)
(* on the running system and never downgrades the slot that system runs    *)
(* from, the second may try any slot at any time.                          *)
(***************************************************************************)
EXTENDS Integers

CONSTANTS
    Slots,          \* HESIA_SLOT_ID_A and HESIA_SLOT_ID_B
    NoSlot,         \* slot id 0
    MaxVersion      \* bound: the newest firmware and asset version

ASSUME SlotUpdateAssumption ==
    /\ Slots # {} /\ NoSlot \notin Slots
    /\ MaxVersion \in Nat \ {0}

Version == 1 .. MaxVersion      \* parse_slot_request refuses 0
Stored == 0 .. MaxVersion       \* 0: never written
Image == [fw : Version, asset : Version]
NoImage == [fw |-> 0, asset |-> 0]
Request == [slot : Slots, fw : Version, asset : Version]

VARIABLES
    initialized, active, pending, pendingFw, pendingAsset, maxFw,
    fw, asset,      \* the fields of hesia_slot_meta_t
    image,          \* what each slot holds
    running,        \* the slot the drone runs from
    runningFw,      \* and the version it started with
    script,         \* "idle", or "stage" after read_slot_meta
    target,         \* the request the script was started with
    newest          \* history: the newest firmware a boot was accepted with
                    \* since the last wipe

meta == <<initialized, active, pending, pendingFw, pendingAsset, maxFw,
          fw, asset>>
vars == <<meta, image, running, runningFw, script, target, newest>>

Nothing == [slot |-> NoSlot, fw |-> 0, asset |-> 0]

Init ==
    /\ initialized = FALSE /\ active = NoSlot /\ pending = NoSlot
    /\ pendingFw = 0 /\ pendingAsset = 0 /\ maxFw = 0
    /\ fw = [s \in Slots |-> 0] /\ asset = [s \in Slots |-> 0]
    /\ image \in [Slots -> Image]
    /\ running = NoSlot /\ runningFw = 0
    /\ script = "idle" /\ target = Nothing
    /\ newest = 0

(* The commands of the TA. *)

\* The version checks stage_slot_update_cmd and commit_slot_boot_cmd share.
NotOlder(r) ==
    /\ r.fw >= maxFw
    /\ r.fw >= fw[r.slot]
    /\ r.asset >= asset[r.slot]

\* Faulty variant: staging into the active slot is not refused.
StageAcceptedActive(r) == initialized => pending = NoSlot /\ NotOlder(r)

\* Faulty variant: staging checks the slot's own version but not the limit.
StageAcceptedOld(r) ==
    initialized => /\ pending = NoSlot /\ r.slot # active
                   /\ r.fw >= fw[r.slot] /\ r.asset >= asset[r.slot]

StageAccepted(r) ==
    initialized =>
        /\ pending = NoSlot
        /\ r.slot # active
        /\ NotOlder(r)

StageSlot(r) ==
    /\ initialized' = TRUE
    /\ pending' = r.slot
    /\ pendingFw' = r.fw /\ pendingAsset' = r.asset
    /\ UNCHANGED <<active, maxFw, fw, asset>>

RightSlot(r) ==
    IF pending # NoSlot
    THEN r = [slot |-> pending, fw |-> pendingFw, asset |-> pendingAsset]
    ELSE r.slot = active

\* Faulty variant: a commit checks only the slot's own version.
CommitAcceptedOld(r) == initialized => r.fw >= fw[r.slot]

CommitAccepted(r) == initialized => RightSlot(r) /\ NotOlder(r)

\* Faulty variant: a commit of the pending slot leaves it pending.
CommitSlotKeepsPending(r) ==
    /\ initialized' = TRUE
    /\ active' = IF pending = NoSlot THEN r.slot ELSE active
    /\ maxFw' = IF initialized /\ r.fw <= maxFw THEN maxFw ELSE r.fw
    /\ fw' = [fw EXCEPT ![r.slot] = r.fw]
    /\ asset' = [asset EXCEPT ![r.slot] = r.asset]
    /\ UNCHANGED <<pending, pendingFw, pendingAsset>>

CommitSlot(r) ==
    /\ initialized' = TRUE
    /\ active' = r.slot
    /\ pending' = NoSlot /\ pendingFw' = 0 /\ pendingAsset' = 0
    /\ maxFw' = IF initialized /\ r.fw <= maxFw THEN maxFw ELSE r.fw
    /\ fw' = [fw EXCEPT ![r.slot] = r.fw]
    /\ asset' = [asset EXCEPT ![r.slot] = r.asset]

\* WIPE_KEY or ROTATE_KEY, asked for by the host tool on the running system at
\* any time; a wipe that stops before the record has not touched it.
Wipe ==
    /\ running # NoSlot
    /\ initialized' = FALSE /\ active' = NoSlot
    /\ pending' = NoSlot /\ pendingFw' = 0 /\ pendingAsset' = 0 /\ maxFw' = 0
    /\ fw' = [s \in Slots |-> 0] /\ asset' = [s \in Slots |-> 0]
    /\ newest' = 0
    /\ UNCHANGED <<image, running, runningFw, script, target>>

(* The installer, outside the repository: it runs on the running system,   *)
(* leaves a staged slot alone, and may replace the running slot's files by *)
(* newer ones.                                                             *)
Install(s, i) ==
    /\ running # NoSlot /\ s # pending /\ script = "idle"
    /\ s = running => i.fw >= image[s].fw /\ i.asset >= image[s].asset
    /\ image' = [image EXCEPT ![s] = i]
    /\ UNCHANGED <<meta, running, runningFw, script, target, newest>>

(* stage_ab_update.sh: two commands, each in a session of its own.         *)

RequestOf(s) == [slot |-> s, fw |-> image[s].fw, asset |-> image[s].asset]

\* The operator gives the script the versions installed in the slot: nothing
\* in the TA withdraws a staged slot that never boots.
\* read_slot_meta: the script goes on unless what it read forbids it; when
\* the command fails ("|| true") it goes on without having looked.
ScriptReads(s, readable) ==
    /\ running # NoSlot /\ script = "idle"
    /\ readable => pending = NoSlot /\ active # s
    /\ script' = "stage" /\ target' = RequestOf(s)
    /\ UNCHANGED <<meta, image, running, runningFw, newest>>

ScriptDone == script' = "idle" /\ target' = Nothing

\* stage_slot_update, taken by the TA or not (refused, or not written).
ScriptStages ==
    /\ script = "stage"
    /\ StageAccepted(target) /\ StageSlot(target)
    /\ ScriptDone
    /\ UNCHANGED <<image, running, runningFw, newest>>

ScriptFails ==
    /\ script = "stage"
    /\ ScriptDone
    /\ UNCHANGED <<meta, image, running, runningFw, newest>>

(* The drone boots from s and commits the versions it finds there.  A boot *)
(* that is refused, or whose record cannot be written, throws: the drone   *)
(* does not run and nothing has changed.  The power may also go after the  *)
(* write and before the drone runs.                                        *)
Boot(s) ==
    /\ running = NoSlot
    /\ CommitAccepted(RequestOf(s)) /\ CommitSlot(RequestOf(s))
    /\ running' = s /\ runningFw' = image[s].fw
    /\ newest' = IF image[s].fw > newest THEN image[s].fw ELSE newest
    /\ UNCHANGED <<image, script, target>>

BootCutShort(s) ==
    /\ running = NoSlot
    /\ CommitAccepted(RequestOf(s)) /\ CommitSlot(RequestOf(s))
    /\ UNCHANGED <<image, running, runningFw, script, target, newest>>

\* A reboot or a power loss, which also ends the script.
PowerOff ==
    /\ running # NoSlot
    /\ running' = NoSlot /\ runningFw' = 0
    /\ ScriptDone
    /\ UNCHANGED <<meta, image, newest>>

Next ==
    \/ \E s \in Slots : \/ \E i \in Image : Install(s, i)
                        \/ \E readable \in BOOLEAN : ScriptReads(s, readable)
                        \/ Boot(s)
                        \/ BootCutShort(s)
    \/ ScriptStages
    \/ ScriptFails
    \/ PowerOff
    \/ Wipe

\* The bootloader sooner or later tries the slot it was told to, and the
\* machine is sooner or later rebooted while an update waits.
Spec ==
    /\ Init /\ [][Next]_vars
    /\ \A s \in Slots : WF_vars(Boot(s) /\ (pending # NoSlot => s = pending))
    /\ WF_vars(PowerOff /\ pending # NoSlot)

-----------------------------------------------------------------------------

TypeOK ==
    /\ initialized \in BOOLEAN
    /\ active \in Slots \cup {NoSlot} /\ pending \in Slots \cup {NoSlot}
    /\ pendingFw \in Stored /\ pendingAsset \in Stored /\ maxFw \in Stored
    /\ fw \in [Slots -> Stored] /\ asset \in [Slots -> Stored]
    /\ image \in [Slots -> Image]
    /\ running \in Slots \cup {NoSlot} /\ runningFw \in Stored
    /\ script \in {"idle", "stage"} /\ target \in Request \cup {Nothing}
    /\ newest \in Stored

\* The record is never at odds with itself, whatever order the commands come
\* in and wherever the power goes: a staged slot is not the active one and
\* can still be committed, and no slot is newer than the rollback limit.
RecordCoherent ==
    /\ initialized <=> active # NoSlot \/ pending # NoSlot
    /\ pending # NoSlot =>
        /\ pending # active
        /\ pendingFw >= 1 /\ pendingAsset >= 1
        /\ NotOlder([slot |-> pending, fw |-> pendingFw,
                     asset |-> pendingAsset])
    /\ \A s \in Slots : fw[s] <= maxFw
    /\ active # NoSlot => fw[active] = maxFw
    /\ active = NoSlot => maxFw = 0

\* Every accepted boot is remembered: the limit of the TA is never below a
\* firmware that has run, across reboots, half-done boots and updates.
AcceptedIsRemembered == newest <= maxFw

\* The drone runs from the slot the TA calls active, if it calls one so, at the
\* version the TA has recorded as its limit: staging under a running drone
\* changes neither.
RunsTheActiveSlot ==
    running # NoSlot /\ active # NoSlot
        => running = active /\ runningFw = maxFw

\* There is always a slot that boots: the staged one as long as an update
\* waits, the active one otherwise.  commit_slot_boot_cmd refuses every
\* other slot, so nothing else could bring the drone up again.
SomeSlotBoots ==
    initialized =>
        LET s == IF pending # NoSlot THEN pending ELSE active
        IN CommitAccepted(RequestOf(s))

\* A boot never starts older firmware than one accepted since the last wipe.
NoRollback == [][running = NoSlot /\ running' # NoSlot
                     => runningFw' >= newest]_vars

\* "The actual boot commit is performed by the firmware on the next
\* successful boot of the staged slot": a staged update becomes active, unless
\* the record is wiped.
UpdateLands == \A s \in Slots : pending = s ~> active = s \/ ~initialized
=============================================================================
