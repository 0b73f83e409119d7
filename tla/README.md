# Models and proofs of the HESIA drone and server

TLA+ specifications of the concurrent, failing and cryptographic-protocol parts of
this repository, the TLC configurations that check them on small instances, and
TLAPS proofs of what matters most for every value of the constants. Every
definition is translated from the code under `src/`; `PROJECT.json` names the lines.

## 1. The system

A drone process opens one TLS connection to a server, runs the HESIA handshake
inside it, and then sends telemetry, control messages and video under keys of its
own until the connection or the process ends. Nothing is ever resumed: a new
connection is a new session.

| Part | Code | State | Operations | Hard behaviour |
|---|---|---|---|---|
| SecureChannel | `drone_source/secure_channel.cpp` (both ends) | secret, send counter, epoch, 64-bit replay window | encrypt, decrypt, rotate_key | loss, reordering, duplicates, failing ciphers, rotation at one end only |
| Send path | `drone_source/drone_network.cpp`, `video_channel.cpp` | send queue, last_block_hash, flags, TLS object | enqueue_secure_message, enqueue_message, send_video_frame, send_loop, mark_transport_failure, main, close | four threads, two mutexes, eviction, failure in any step, shutdown order |
| Server session | `server_source/src/hesia_server_session.cpp`, `net_framing.cpp` | chain, windows, token bucket | secure_loop | closes the session for six reasons |
| Handshake | `drone_source/hesia_drone.cpp`, `drone_network.cpp`, `hesia_server_session.cpp` | transcript, key, chain at each end | HELLO .. OK | partial failure, time-outs against late answers, retries, power loss |
| Accept loop and workers | `server_source/src/main.cpp` | queue, descriptors, connection limits | accept, admit, enqueue, worker loop | failure paths, descriptor reuse, condition variable |
| CleanPipeline | `drone_source/clean_pipeline.cpp` | four queues, joining cache | capture, two workers, send, log, stop | five threads, overflow everywhere, joins |
| SecurityAudit | `server_source/src/security_audit.cpp`, `drone_source/security_audit.cpp` | log file, key file, last hash | event, key rotation, restart | torn writes, crashes between steps, several writers |
| Trusted application | `drone_transition_source/optee_ta_skeleton/ta/ta_hesia.c` | persistent objects: keys, versions, slots, secret's hash, nonce | some twenty commands | power loss or a refused write between two storage calls, orders of commands |
| Start of the drone | `drone_source/hesia_drone.cpp` (constructor), `optee_client.cpp` | key files, session blob | load or generate keys, check versions, commit the slot | each command in a session of its own that may fail, while the operator works |
| Operator's tools | `host/main.c`, `scripts/*.sh` beside it | sealed files, challenge and token files | provision, rotate, recover, stage an update | scripts that stop half way |
| Others | policy, serialization, monitors, sandboxes, FIPS, Sentinel, tools | see `PROJECT.json` | | |

The parts interact by calls and shared memory on the drone (pipeline thread ->
`send_video_frame()` -> send queue -> sender thread -> TLS), by TLS records
between the ends, by the descriptor queue between accept loop and workers, and
by `event()` calls into the audit log from every thread. The trusted application
is called by the start of the drone and by the operator's tools; it has one
instance and one session, so its commands exclude each other, but nothing ties
two commands of one caller together, nor what it stores to the files on the disk.

What makes each part correct:

* channel: no nonce twice, nothing accepted twice, nothing refused without need;
* send path and session: the server accepts the drone's control messages in
  order without a gap, and backpressure costs video first;
* handshake: both ends hold the same key, transcript and chain, the server
  enters first, nobody waits for ever, no session is left behind;
* accept loop: limits, descriptors and slots balance on every path;
* pipeline: frames complete, in order, once; stop() returns with quiet threads;
* audit log: one chain across crashes, and every record's key is kept, as long as no
  export throws and one thread writes;
* boot slots: the record never contradicts itself, a slot that boots remains, no
  boot goes back to older firmware unless the record is wiped, a staged update
  lands;
* storage of the trusted application: the halves of a key pair belong together,
  an exported public key keeps verifying, the version counter covers what it
  accepted;
* session authentication: the blob on the disk opens sessions unless a fault or a
  rotation of the TA's keys has parted it from the TA, recovery takes a fresh token
  only, and a drone without a blob can always be given one;
* ML-DSA identity: the drone signs with the key it announces, keeps its identity
  from start to start, and comes up.

## 2. Modules

| Module | Models | Kind |
|---|---|---|
| `ReplayWindow` | `can_attempt_decrypt_for_counter`, `accept_replay_counter`, `reset_replay_window` | operators, used by the next two |
| `SecureChannel` | encrypt, decrypt, rotate_key at both ends over an unreliable network | state machine |
| `ControlLog` | what a session promises of its control messages | abstract |
| `SecureTransport` | the drone's threads from the end of the handshake to main()'s return, the TCP connection, secure_loop | state machine, implements `ControlLog` |
| `SessionAgreement` | what the handshake promises | abstract |
| `Handshake` | connect() and handshake(), step_hello() .. step_confirm(), several connections | state machine, implements `SessionAgreement` |
| `ConnectionPool` | accept loop, ConnectionLimiter, workers | state machine |
| `CleanPipeline` | the five pipeline threads and stop() | state machine |
| `AuditLog` | event(), rotation, crash, restart | state machine |
| `SlotUpdate` | the slot record, `stage_ab_update.sh`, the commit at boot | state machine |
| `TaStorage` | attestation key, firmware version, `wipe_key_internal`, `rotate_key_internal` | state machine |
| `SessionAuth` | master key, secret's hash, recovery nonce, the sealed blob, the scripts | state machine |
| `MldsaIdentity` | the drone's ML-DSA slot, its sealed copy, the drone's start, the host tool | state machine |
| `SecureChannelProofs`, `SecureTransportProofs`, `HandshakeProofs`, `SlotUpdateProofs`, `AuditLogProofs`, `ConnectionPoolProofs`, `CleanPipelineProofs` | theorems about the module they are named after | proofs |
| `TrustedApplication` | `SessionAuth` and `MldsaIdentity` side by side, for the run that checks both | composition |
| `TrustedApplicationProofs` | theorems about `TaStorage`, `SessionAuth` and `MldsaIdentity`, which share no constant, no variable and no definition, and about `TrustedApplication` | proofs |

### How state and actions correspond to the code

**SecureChannel.** A secret is the sequence of keys rotated into it, since HKDF
mixes the old secret with the new key; the direction's key and IV prefix follow from
secret and role. `wire` keeps every packet ever sent, so delivering any member of
it at any time, or never, is loss, delay, reordering and duplication; `Forged` adds
packets with a well-formed clear part and a wrong tag. `Decrypt` is the whole
function: prefix, window check, tag, and only then the window. Each exception
leaves the object as it was, so a refused packet is a step that does not happen.
`IvCounter` is what the IV holds of the counter, which is kept in more bits than the IV
has room for. `EncryptThrows` keeps what the throwing paths keep: the counter is gone,
and since the cipher may have run, its nonce goes into `discarded`. `NonceUsedOnce`
compares the nonces of all packets ever sent, which differ in their AAD, and those of
`discarded`: a counter that wraps, that is given back or that starts again under the
old secret all break it.

**SecureTransport.** `pc` has one location per point at which another thread may
intervene: `enqueue_secure_message()` is lock - build - look at the flags - take
the queue's mutex, because the look is outside the mutex; `send_video_frame()` is
admit - encrypt - look - enqueue; the sender pops, writes, and, when a write fails,
sets the flags, clears the queue and closes TLS, in that order. `main` starts the
pipeline, sends its two messages, watches, and then stops in the code's order:
pipeline, video join, sender flag, sender join, TLS, telemetry join. The chain is
a number because the hash is injective and each plaintext has its own sequence
number: `aad = n` says "sealed after n messages". The server is `secure_loop()`, one
action per outcome of one record, with the reasons for which it returns.

**Handshake.** A connection carries each direction's messages in order; when it
breaks a suffix of what is in flight is lost. Hashes are injective and signatures
ideal, so a transcript hash is the transcript, and a chain value the sequence of
blocks. Each `handle_*` action is the whole check-and-answer of one message;
`Refuse` and `Throw` are the failing checks. `DroneFails` and `SessionFails` are the
failures that come from outside the protocol: OP-TEE, clock, allow-lists. A drone
process makes one handshake (`main()` returns when it fails); a new process, or a
retry of `connect()`, opens the next connection while the old session may still run.

**ConnectionPool.** The accept loop's steps are those between which a worker can
run; `close_locked` is the path that closes a descriptor with the queue's mutex held.
A descriptor that is not in `open` may be returned by the next `accept()`.

**CleanPipeline.** One action per critical section. The two workers are one
parameterised action; a half is the result of one of them. Dropping the oldest
entry at the limit is `Pushed`, the cache's eviction is `KeepHalf`.

**AuditLog.** A record on disk is whole, cut inside its signature or
ciphertext, or a stump. `Recovered` is what `load_last_hash_from_log()` yields for
each of these, with the detail that a seek past the end of the file succeeds. After
the record is in the log, `ExportThrows` is the directory of the export that cannot be
made: `event()` catches the exception, `last_hash_` stays the old one, and the next
record continues what the stranded one continued. `ChainContinues` admits just that:
a record may pass over those before it only if each of them is in `stranded`.

**SlotUpdate.** The record is one object written with OVERWRITE, so each command
is one step: it takes effect whole or not at all. `StageAccepted` and
`CommitAccepted` are the checks of `stage_slot_update_cmd` and
`commit_slot_boot_cmd`. The script's `read_slot_meta` and `stage_slot_update` are two
steps, since they are two sessions and the first may fail without stopping it.
`BootCutShort` is the power loss after the commit and before the drone runs, `Wipe`
the loss of the record to WIPE_KEY or ROTATE_KEY in a maintenance build. The
installer and the bootloader are not in the repository; the module's header says
what is taken of them.

**TaStorage.** One step per call of the storage API that changes an object, and a
program counter between them: a power loss (`PowerLoss`) may fall on any of
them, and each write has its failing step. `made` numbers the key pairs. The
counter's object distinguishes what `read_fw_version()` tells apart: missing, not
readable, empty, full.

**SessionAuth.** A script is a program counter over the host tool's commands; each
command is one step unless it writes to the TA and to the disk, which a power loss
separates. The drone's start and a failing export ask for challenges of their
own meanwhile. `maintenance` is the build flag that admits ROTATE_KEY and WIPE_KEY.
Two histories name the causes of a lock-out: `torn`, a fault after the TA took the new
secret and before the blob was whole (the script's trap removes the raw secret), and
`rotated`, ROTATE_KEY after the blob was sealed. Where a blob is left, nothing the
repository provides mends either: `provision_optee_session_auth.sh` refuses while a blob exists and names
`rotate_drone_identity.sh`, whose first command needs a session that the blob does not
open. No action stands for removing the blob by hand.

**MldsaIdentity.** The start of the drone is a program counter over the sources of
its key (slot, public key file, sealed blob, generation) in the constructor's order,
with a failing query as one more outcome of each. The operator's import,
generation, wipe and removal of files come between any two of its steps.

**TrustedApplication.** The two modules before keep different objects and files, and
each has what the other does to it among its own steps (a session that cannot be
opened, `Rotate`). A behaviour is one of either part with the other at rest, and each
property is one of the part it is about.

## 3. Runs

| Run | Configuration | Checks | Distinct states |
|---|---|---|---|
| `channel` | window 2, counters 0..3, two keys, two AADs, one rotation per end, the drone sends | nonces, replay, exact window, late packets | 1,067,775 |
| `transport` | queue 1, window 2, frame window 1, 2 frames, 1 telemetry, 1 throwing encryption | chain, frame order, shutdown, main()'s result, refinement of ControlLog, failure ends the run, control is delivered | 281,377 |
| `transport_chain` | queue 1, no video | counterexample: see Findings | |
| `pool` | 2 workers, 2 addresses, 4 descriptors, limits 3 and 2, queue 2 | slots, descriptors, deadlock, no lost wakeup | 66,248 |
| `pipeline` | queues 2, 2, cache 2, log 1, 3 frames | order, completeness, quiet stop, stop() returns | 202,678 |
| `audit` | one writer, 3 records, 3 keys | chain across crashes, keys kept | 646,444 |
| `audit_server` | two writers, no rotation | counterexample: see Findings | |
| `handshake` | 2 connections | agreement, lockstep, refinement of SessionAgreement, attempts end, no session left | 32,231 |
| `slot_update` | 2 slots, versions 1..3 | coherent record, a slot that boots, no rollback, updates land, deadlock | 27,459 |
| `ta_storage` | 5 key pairs, versions 1..3, 2 rotations, 2 faults | key pair whole, exported key keeps verifying, counter covers, counter comes back, deadlock | 42,950 |
| `trusted_application` | 4 secrets, 4 challenges, 2 faults, both builds; 3 key pairs, 4 faults, all four policies | lock-outs have a reason, fresh recovery, a missing blob comes; signs as announced, identity stays, comes up | 93,213 |
| `auth_rotation` | 1 secret, 1 challenge, no faults | counterexample: see Findings | |

### Why the bounds are enough

The window is small so that counters fall off its end, meet its edge and jump over
it by more than its width; four counters reach all of these, and the epoch's last
counter too. With two AADs, two packets sealed under one nonce are two packets. With one
direction sending, the other end's state is the mirror image;
the proofs cover both. In `transport` a queue of one holds a control message or a
video packet, so a full queue has both its outcomes, the eviction and the refusal;
two control producers and one lost counter are enough to part wire, chain and
window; and with a frame window of one a lost frame makes the server refuse the next
one, which two frames reach. The safety theorems of that module hold for every
size. In the pool both limits, the queue limit and descriptor reuse are
reached. In the pipeline each queue and the cache overflow while the two workers
are at different frames. Two connections are what it takes for an old session to
meet a new process. Three records give a damaged one with a neighbour on each
side.

Three versions let an update be staged, refused and overtaken, on two slots, which
is what the code has. Two faults let a second one fall into the repair of the first:
a power loss during the creation that follows a refused write, or a rotation after
a torn one; two rotations, a rotated state rotated again. The numbers of key pairs,
secrets and challenges are those the bounded faults and rotations can use up and
one more for the start that follows. Four faults take the drone's start through
all the sources of its key, failing at each. What a `..Proofs` module proves needs none
of these bounds.

Counters are bounded in the guards (`MaxTelemetry`, `MaxFrames`, `MaxThrows`,
`MaxRotations`, `MaxRecords`, `MaxKeys`, `MaxConnections`, `MaxVersion`, `MaxFaults`,
`MaxSecrets`, `MaxChallenges`, `MaxInterruptions`, `MaxPairs`, `MaxFailures`); nothing else is cut
off.

`CHECK_DEADLOCK FALSE` stands where the system stops: after main() has returned,
after stop(), or at a bound. `pool`, `slot_update` and `ta_storage` have no such end
and check deadlock.

### Fairness

* `transport`: weak fairness per thread. Waits have time-outs (200 ms, 1 s),
  mutexes are held for bounded work, and a TLS write gives up at its deadline. The
  server reads what arrives. Nothing is assumed of `LinkBreaks`, of the server's
  read time-out or of a shutdown.
* `pool`: weak fairness of the accept loop past accept() and of a worker
  outside sessions, whose TLS handshake ends by the socket time-outs; strong
  fairness for obtaining the mutex, which is released again and again. Clients
  need not come and sessions need not end.
* `pipeline`: weak fairness per thread, since every wait is timed and models
  return; nobody has to call stop().
* `handshake`: weak fairness of both programs, whose every read has a
  time-out. `secure_loop()` is only assumed to return once nobody is there to send.
  A worker need not become free, and the drone need not be started again.
* `slot_update`: the bootloader sooner or later tries the slot it was told to boot,
  the active one when nothing is staged, and the machine is sooner or later
  rebooted while an update waits.
* `ta_storage`: a running command goes on to its end; the newest firmware is sooner
  or later booted, and checks its version; an operator repeats a reset that left
  an empty counter. Faults need not stop, but their number is bounded.
* `trusted_application`: a script goes on to its end, and while the blob is missing the
  operator runs the provisioning script, as `docs/HESIA_MAINTENANCE_MATRIX.md:33` says.
  Nothing is assumed of an operator whose blob is there and useless, for whom no script
  or document has a way back, and nothing promised. The service manager starts the
  drone again. Faults need not stop, but their number is bounded.

## 4. Findings

1. **A refused control message breaks the session** (`transport_chain`).
   `enqueue_secure_message()` seals the message and advances `last_block_hash`
   (`hesia_drone.cpp:1885`) before `enqueue_message()` may refuse it
   (`drone_network.cpp:779`, a full queue with no video to evict). The next message
   then fails its tag at the server and the session is closed: the very failure
   the comment at `drone_network.cpp:739` wants the lock to prevent.
   `TagFailsOnlyAfterLoss` proves that this is the only way to it.
2. **Two threads fork the audit chain** (`audit_server`). The server shares one
   `SecurityAudit` between the accept loop and its workers, and `event()` takes no
   lock, so two records may continue the same one.
3. **A rotation of the drone's identity locks the drone out** (`auth_rotation`).
   `rotate_drone_identity.sh` writes a new session blob, has the TA's keys rotated, and
   then exports the public anchors and restarts the service with that blob (lines
   123-171), in the order `docs/HESIA_TA_OPTEE_REFERENCE.md:192-202` gives for a controlled
   rotation, which is to end in a new secure session. But ROTATE_KEY deletes the secret's
   hash and the master key the blob is sealed under (`ta_hesia.c:661-703`), and makes
   only the keys anew: the TA refuses every session (1392-1395), the export fails, and
   no script leads out (see `SessionAuth` above). A release build refuses ROTATE_KEY, so
   this is the maintenance build's; `LockedOutForAReason` shows that it and a fault are
   the only ways to it.

Met while modelling, and no contradiction of anything the repository says, so the
properties leave them room:

* `write_fw_version()` deletes the version object before it creates the new one
  (`ta_hesia.c:2347`). After a power loss between the two the counter is missing and
  the next boot may start with an older version: `LostOnlyInTheWindow` shows that
  this is the only place.
* When the state object of the attestation key cannot be written
  (`ta_hesia.c:530`), the pair made before it stays and is exported, and the next
  command that needs a key makes another one: `AnchorVerifies` holds outside such
  faults only.
* Where an export is configured, an audit record for which its directory cannot be made
  is in the log, but `last_hash_` does not follow it (`security_audit.cpp:434` of the
  server, the same in the drone's): the next record repeats its previous hash, with one
  writer and an undamaged file. `ChainContinues` shows that the chain goes no further
  astray.
* The TA stores the new hash before it clears the recovery nonce (`ta_hesia.c:2285-2289`).
  After a power loss between the two it accepts the same token once more, within the
  nonce's lifetime, and stores the same hash: `RecoveryIsFresh` is about the nonce drawn
  last, not about its single use.
* A fault between the new hash and the last byte of the blob leaves a drone whose blob
  opens no session, and the provisioning script refuses to replace it
  (`provision_optee_session_auth.sh:73`).
* `generate_mldsa_keypair_cmd` sets the size of the caller's buffer to 0
  (`ta_hesia.c:2038`) and compares the public key with that size after it has replaced
  the key (`ta_hesia.c:2120`): it reports a short buffer whenever it succeeds.
  `MldsaIdentity` models what its callers make of it.
* `ErrorHandler::check_error_thresholds()` reports too many errors of a minute through
  `handle_error()`, which calls it again (`error_handler.cpp:133`). Not modelled.

## 5. What is proved

All proofs are checked by TLAPS 1.4.5 without assumptions other than the named
ones of the modules (`WindowSizeAssumption`, `SecureChannelAssumption`,
`SecureTransportAssumption`, `HandshakeAssumption`, `SlotUpdateAssumption`,
`TaStorageAssumption`, `SessionAuthAssumption`, `MldsaIdentityAssumption`,
`AuditLogAssumption`, `ConnectionPoolAssumption`, `CleanPipelineAssumption`: bounds are
naturals, sizes positive, one key pair can be made, no slot is `NoSlot`, no address or
descriptor is `"none"`) and, where a theorem says so, of one writer. Nothing is assumed
about the steps. Every safety invariant and every action property that a passing run
checks is a theorem.

**SecureChannelProofs**: `TypeCorrect`, `NonceSafety`, `ReplaySafety`,
`WindowSafety`, `LateAdmission`, `PeerSafety`, for any window width, counter limit,
keys, AADs, and any number of rotations at either end. The inductive invariant
is `TypeOK` with `WireInv` (no packet of an end carries more rotations than its
sender's secret, and one sealed under the present secret has a counter below
`sendCounter`), `DiscardedInv` (the same of the nonces of encryptions that threw),
`AcceptedInv` (acceptances belong to the receiver's present secret
or to a shorter one), `NonceUsedOnce`, `WindowExact` and `NoReplay`. Without
`WireInv` a rotation could bring a nonce back, and without `AcceptedInv` a
reset window could forget an acceptance; `WindowExact` is what turns "the counter is
not marked" into "the packet was never accepted". Lemmas about
`Consume` and `Shift` give the window's arithmetic once.

**SecureTransportProofs**: `TypeCorrect`, `ChainSafety`, `ReplaySafety`,
`FrameOrderSafety` and `Refinement` (`Spec => ImplementsLog`), for every queue
limit and window. The inductive invariant `Inv` has six parts: `TypeOK`;
`HeldInv`, what a thread has in hand at each of its locations, and that only the
holder of the lock has a built message; `OrderInv`, that messages in flight -
the wire, the sender's, the queue, the producer's, in this order - have growing
AADs and counters, and video packets growing ids; `ServerInv`, that what is in
flight is ahead of the server; `LossInv`, that every position between the server's
chain and a message on the wire is itself on the wire or in `lost` and, while the
sender can still write, that every sealed position is delivered, pending or lost; and
`CloseInv`, that a session that has ended reads nothing more, with the three
properties themselves. `LossInv` makes a tag
failure imply a loss; `ServerInv` with the window's lemmas makes a replay
impossible after the first message. One lemma per group of actions shows how the
flow of messages changes, and the theorems only use those lemmas.

The end of the run needs an invariant of its own, `RunInv`, for `WritesWhileOpen`
and `ReturnsForFailure`. `CallsInv` says that the holder of the lock is inside
`enqueue_secure_message()`, called from a place that calls it; `JoinsInv`, that `main()`
has waited for the threads it says it has, so that TLS is closed only after the sender's
last write; `FailureInv`, that `main()` leaves its loop only after the transport has
failed. The last of these is not visible at the end: `ReturnTellsFailure` speaks of the
exit code, and the flag it is made from was set while `main()` was still elsewhere.
`NobodyWaitsInVain` is the safety part of `FailureEndsTheRun`: `main()` joins a thread only
when that thread's flag is down, for good, and the holder of the lock is inside the call,
where no step waits; so joins and lock cannot close a cycle.

`QueueBounded` and `ControlNeverEvicted` are about `enqueue_message()` at its limit: the
queue stays within it, and a control message leaves the queue only into the sender's
hands, or when a failed transport clears it, so that the limit costs video only. That
the eviction finds a video packet, and the oldest one, is where `FirstOf` is needed: a
non-empty set of positions has a least one.

`AcceptedAreNeverLost` is proved of `ControlLog` alone (`LogGives`) and carried to the two
programs by `Refinement`: nothing accepted was thrown away, and a session breaks only
when the very message it waits for is lost.

**HandshakeProofs**: `InvariantHolds`, `TypeCorrect`, `EndsAlwaysAgree`, `ChecksPass`,
`AlwaysInLockstep`, `HandshakeAgrees` (`Spec => ImplementsAgreement`) and
`SessionsHaveTheirKeys`, for any number of connections. `Agreement` is far from
inductive: it speaks of ends that have entered, and what makes them agree was said
messages before. The drone may be gone from a connection whose session still reads
what it sent, and a session may have failed while its drone still reads; so the
invariant says of each end, from its own state alone, what it holds and what its
pipe may carry (`ServerExpects`, `DroneExpects`), and only of two ends that are both
alive how their states go together (`InStep`), with the messages in flight unless they
went with the connection. `Unmade` keeps connections to come empty, and `JoinedOnce`
says that the drone has left the connections of its earlier sessions. None of the
disjuncts admits a message that an honest end refuses: that is `ChecksPass`, and
`InStep` without the case of two empty pipes under a live link is `AlwaysInLockstep`. In
the refinement `VerifyConfirm` is the abstract `Enter`, with a key that holds the number
of its connection and so is new; `FinalizeConfirm` is `Join`; every other step is a
stutter. `SessionsHaveTheirKeys` comes from `SessionAgreement` (`AgreementGives`): no two
sessions share a key, and the drone is in none that the server has not entered.

**SlotUpdateProofs**: `TypeCorrect`, `RecordStaysCoherent`, `LimitRemembers`,
`DroneRunsActiveSlot`, `AlwaysBootable`, `BootsNeverRollBack`, for any number of slots
and versions. The inductive invariant is `TypeOK`, `RecordCoherent`,
`AcceptedIsRemembered` (the limit is at least the newest version a boot was accepted
with), `RunsTheActiveSlot`, and three parts that tie the record to the world around
it: `ScriptFits` (what the script is about to stage is what the slot holds),
`ImagesFit` (the pending slot holds what was staged, the active one nothing older
than what was committed) and `Fresh` (an empty record holds no versions).
Without `ScriptFits` and `ImagesFit` a staged slot could be one whose commit is refused
for ever, and `SomeSlotBoots` would not be kept by a single step. From the same invariant
come two action properties: `StagedUpdateWaits`, that only its own commit or a wipe ends
the wait of a staged update, which is the safety part of `UpdateLands`, and
`RecordNeverRollsBack`, that no recorded version falls, of the limit, of a slot's firmware
or of its assets, for which `NoRollback` does not speak.

**TrustedApplicationProofs** is about three specifications in turn, and about two of them
side by side: `PartsKeepTheirPromises` carries the safety of `SessionAuth` and
`MldsaIdentity` over to `TrustedApplication`, whose every step is a step of one and a
stutter of the other.

*TaStorage*: `StorageTypeCorrect`, `BlobsAlwaysAgree`, `CounterCovers`,
`AnchorKeepsVerifying`, for any number of keys, versions, rotations and faults. The
inductive invariant adds to the properties `KeyInOrder` (which blobs exist at
each step of a creation), `VersionInOrder` (that a version on its way into the
storage is newer than the one it replaces) and `AnchorIsStored` (a key exported
from a whole pair is the stored one until a fault or a rotation).

*SessionAuth*: `AuthTypeCorrect`, `LockOutHasTwoReasons`, `RecoveryAlwaysFresh`, for any
number of secrets, challenges and interruptions. `BlobInv` says what the blob on the disk
can hold, `ScriptInv` what the script has in hand at each of its commands,
`Settled` that between scripts, and before a script's first change to the TA, blob and
TA agree unless a fault or a rotation came between them,
and `NonceIsLast` that the nonce in the TA is the last one drawn.

*MldsaIdentity*: `IdentityTypeCorrect`, `AlwaysSignsAsAnnounced`, `IdentityAlwaysStays`, for
any number of key pairs and failures and all four policies. A key is *held* when it is
in the slot, or sealed on the disk with the slot empty: the two places from which a
start takes it, in that order. `SlotInv` says what an undisturbed start finds in the
slot at each of its steps, up to holding the identity it announces; `LastInv`, that the
last identity is held between starts and that then no start reaches the step that
makes a new key; `Attested`, that a drone whose policy demands attestation is up with
the slot's key whatever the queries said. The properties compare the announced
identity with the slot at the end of the start; what makes them true is the slot several
steps earlier, and both histories of disturbance, the operator's and the unanswered
query, must be tracked apart, because attestation mends the second and not the first.

**AuditLogProofs**: `TypeCorrect` for any writers, `KeysNeverLost` and `ChainUnbroken`
for one, as on the drone, with any number of records and keys. `KeyInv`
follows the key in memory through a rotation, `LastInv` the last hash from the
sealing of a record to its file, to the export that may strand it (`Ends`, the hashes a
next record may continue) and through a restart, and `DownInv` says that a
crash leaves nothing in hand. With two writers the two properties do not stand on
these: both may rotate one key, or seal over one hash (finding 2).

**ConnectionPoolProofs**: `TypeCorrect`, `SlotsAlwaysBalanced`, `OneOwner`, for any
workers, addresses, descriptors and limits. `SlotsBalanced` equates the limiter's
counters with cardinalities, of positions of the queue and of sets of workers;
`CountWorkers`, `CountAppend` and `CountTail` say how these move when one worker or one
end of the queue does. `InHand`, what accept loop and workers hold at each location,
completes the inductive invariant.

`NeverOverCommitted` says what the limits are for: the connections queued, served or
about to be queued, of which the code keeps no count of their own, never exceed the
limiter's limits, altogether and per address, nor the queue its own. It follows from
`SlotsBalanced` and from the limits of the counters (`LimitsKept`). `NoLostWakeup` is the
part of `NobodyStarvesIdly` that is safety: while a worker waits on the condition
variable, every queued connection has a worker on its way to the queue or a
notification about to be given (`WakeupsSuffice`). The invariant has to count: a waiting
worker beside a non-empty queue is legal as long as enough others are awake.

**CleanPipelineProofs**: `TypeCorrect`, `InOrderAlways`, `CompleteAlways`,
`QuietAfterStop`, for queues and a cache of any size. `DeliveredInOrder` is not
inductive: a delivered id must be below every id still to come, of either kind,
and the two kinds overtake each other. `Upstream` and `Passed` say of one id and one
kind that everything of that kind behind a place is higher; `InOrder`, `Sending` and
`Joining` put it at each place from the camera to the callback. The half that waits
in the cache brings `Passed` for its own kind, the half that completes it for the
other. `Pushes` and `Pops` are all the proof knows of the bounded queues.
`Joined` follows stop() through the exits it has waited for. `MemoryBounded` keeps the
four queues and the cache within their limits in every interleaving; the cache needs
that the halves that wait have a smallest id to evict (`OldestExists`, by the
well-foundedness of `<` on the naturals).

**Only model-checked**: the liveness properties, one or two in each passing run but
`channel` and `audit` (`FailureEndsTheRun`, `ControlIsDelivered`, `NobodyStarvesIdly`,
`StopReturns`, `EveryAttemptEnds`, `NoSessionLeftBehind`, `UpdateLands`, `CounterComesBack`,
`BlobComes`, `DroneComesUp`), and the absence of deadlock. Liveness under fairness and
ENABLED are outside TLAPS's reach and stay with TLC, as would whatever needs induction
over data or a RECURSIVE operator; the modules use neither. `KeysNeverLost` and
`ChainUnbroken` are of one writer because they do not hold of two.

## 6. Plan

Done: the channel and the send path, because a session lives or dies with the chain;
the handshake, the accept loop, the pipeline and the audit log around them; the
trusted application, the start of the drone and the operator's scripts; proofs of every
safety property, and of both refinements.

1. Safety parts of the liveness properties that are still without one, as
   `WakeupsSuffice` is of `NobodyStarvesIdly`: of the trusted application's
   `CounterComesBack`, `BlobComes` and `DroneComesUp`, and of the handshake's
   `NoSessionLeftBehind`.
2. `ErrorHandler`'s circuit breaker, and the runtime monitors' state, where they keep
   any.

## 7. Not modelled

By far most files of the repository are not the system's own: `PLFM_RADAR`, a radar
project with its firmware and FPGA code, and `liboqs`, with some fifty
implementations of the signature schemes HESIA uses one of. Of the system's own code:

* byte formats (serialization, JSON, base64), key derivation, the AES, ML-KEM and
  ML-DSA computations (ideal in the models), OpenSSL's and OP-TEE's own state;
* TensorRT and OpenCV, sensors and platform registers, sandbox set-up, policy
  parsing, the dashboard, training code: calls that return or throw, or no state;
* the legacy `pipeline.cpp` and `simple_pipeline.cpp`, which are not part of the build,
  `BufferPool`, `BufferManager` and `MatPool`, which only they use, and `VideoManager`'s
  display, which is switched off;
* of the trusted application: SEAL, UNSEAL and HKDF of other blobs than the session
  secret (ciphers over one key), the server's ML-DSA slot (a copy of the drone's),
  objects of older versions, and ephemeral keys;
* of the OP-TEE client: the growth of a buffer that was too short, file permissions,
  and the variants for builds without OP-TEE;
* of the other modelled parts: statistics, log wording, forensic copies, the contents
  of the dashboard's files, the frame log's files, TLS renegotiation and key updates.
