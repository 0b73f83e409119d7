------------------------------ MODULE AuditLog ------------------------------
(***************************************************************************)
(* The encrypted audit log of server_source/src/security_audit.cpp (the    *)
(* drone's is the same but for a key derived from its hardware): a file of *)
(* records, each carrying the hash of the one before it, and a key file    *)
(* that is rotated.  event() takes no lock, so Writers are the threads     *)
(* that may be inside it at once: one on the drone, on the server the      *)
(* accept loop and every worker.                                           *)
(*                                                                         *)
(* A record's hash is its number: the nonce makes every record different.  *)
(* A crash is the process's: what it has written stays.  A write that the  *)
(* disk takes only in part is not noticed by the code.                     *)
(***************************************************************************)
EXTENDS Integers, Sequences, FiniteSets

CONSTANTS
    Writers,
    MaxRecords,     \* bound: records sealed
    MaxKeys         \* bound: keys made

ASSUME AuditLogAssumption ==
    /\ Writers # {} /\ MaxRecords \in Nat /\ MaxKeys \in Nat \ {0}

Zeros == 0          \* the 32 zero bytes before the first record
Garbage == -1       \* 32 bytes that are nobody's hash
NoKey == 0          \* no key file, and no key in memory
Short == -1         \* a key file of fewer than 32 bytes

Key == 1 .. MaxKeys
Hash == 1 .. MaxRecords

\* A record ends whole, inside its signature or ciphertext, or before them.
Record == [hash : Hash, prev : Hash \cup {Zeros, Garbage}, key : Key,
           end : {"whole", "cut", "stump"}]

VARIABLES
    file,           \* the records of log_path_
    keyFile,        \* what key_path_ holds
    backups,        \* the keys in its backups
    up,             \* the process runs
    lastHash, key,  \* last_hash_ and key_
    due,            \* the key is older than its interval
    pc,             \* where each writer is in event()
    record,         \* the record it has sealed
    sealed, made,   \* how many records and keys there have been
    unwritten,      \* history: hashes of records the disk never took
    stranded,       \* history: hashes of records written for which the export
                    \* threw, so that last_hash_ has not followed them
    spoiled         \* history: keys a failed rename or write endangers

vars == <<file, keyFile, backups, up, lastHash, key, due, pc, record, sealed,
          made, unwritten, stranded, spoiled>>

NoRecord == [hash |-> Zeros, prev |-> Zeros, key |-> NoKey, end |-> "whole"]

\* The first start has just created the key.
Init ==
    /\ file = <<>>
    /\ keyFile = 1 /\ backups = {}
    /\ up = TRUE /\ lastHash = Zeros /\ key = 1 /\ due = FALSE
    /\ pc = [w \in Writers |-> "out"]
    /\ record = [w \in Writers |-> NoRecord]
    /\ sealed = 0 /\ made = 1
    /\ unwritten = {} /\ stranded = {} /\ spoiled = {}

Step(w, from, to) == up /\ pc[w] = from /\ pc' = [pc EXCEPT ![w] = to]

-----------------------------------------------------------------------------
(* event(): maybe_rotate_key(), then append_encrypted_record().            *)

disk == <<file, keyFile, backups>>
history == <<unwritten, stranded, spoiled>>

\* The interval passes at any time, and is rotate_on_start's way as well.
Enter(w) ==
    /\ sealed < MaxRecords
    /\ \/ ~due /\ Step(w, "out", "seal") /\ UNCHANGED due
       \/ made < MaxKeys /\ Step(w, "out", "backup") /\ due' = TRUE
    /\ UNCHANGED <<disk, up, lastHash, key, record, sealed, made, history>>

\* Faulty variant: the old key file is deleted.
DeleteKey(w) ==
    /\ Step(w, "backup", "new_key")
    /\ keyFile' = NoKey
    /\ UNCHANGED <<file, backups, up, lastHash, key, due, record, sealed, made,
                   history>>

\* The key file is renamed; the error of a rename that fails is only logged.
BackUpKey(w) ==
    /\ Step(w, "backup", "new_key")
    /\ \/ /\ keyFile' = NoKey
          /\ backups' = backups \cup ({keyFile} \cap Key)
          /\ UNCHANGED spoiled
       \/ /\ spoiled' = spoiled \cup ({keyFile} \cap Key)
          /\ UNCHANGED <<keyFile, backups>>
    /\ UNCHANGED <<file, up, lastHash, key, due, record, sealed, made, unwritten,
                   stranded>>

\* The new key is in memory before its file is opened.  If that fails the event
\* is given up and the next one rotates again; if the write fails nobody knows.
WriteKey(w) ==
    /\ made < MaxKeys
    /\ made' = made + 1 /\ key' = made + 1
    /\ \/ /\ Step(w, "new_key", "seal") /\ due' = FALSE
          /\ keyFile' = made + 1
          /\ UNCHANGED spoiled
       \/ /\ Step(w, "new_key", "seal") /\ due' = FALSE
          /\ keyFile' = Short
          /\ spoiled' = spoiled \cup {made + 1}
       \/ /\ Step(w, "new_key", "out")
          /\ UNCHANGED <<due, keyFile, spoiled>>
    /\ UNCHANGED <<file, backups, up, lastHash, record, sealed, unwritten, stranded>>

\* Encrypt, hash and sign.  A hash read while another thread replaces it may be
\* neither the old nor the new one.
Seal(w) ==
    /\ Step(w, "seal", "append")
    /\ sealed < MaxRecords
    /\ sealed' = sealed + 1
    /\ \E prev \in {lastHash} \cup
                   {Garbage : v \in {u \in Writers \ {w} : pc[u] = "advance"}} :
           record' = [record EXCEPT ![w] = [hash |-> sealed + 1, prev |-> prev,
                                            key |-> key, end |-> "whole"]]
    /\ UNCHANGED <<disk, up, lastHash, key, due, made, history>>

\* The signing key cannot be used, or a file cannot be opened: event() logs it.
GiveUp(w) ==
    /\ Step(w, "seal", "out") \/ Step(w, "append", "out")
    /\ record' = [record EXCEPT ![w] = NoRecord]
    /\ UNCHANGED <<disk, up, lastHash, key, due, sealed, made, history>>

AppendRecord(w) ==
    /\ Step(w, "append", "advance")
    /\ \/ /\ \E end \in {"whole", "cut", "stump"} :
                 file' = Append(file, [record[w] EXCEPT !.end = end])
          /\ UNCHANGED unwritten
       \/ /\ UNCHANGED file
          /\ unwritten' = unwritten \cup {record[w].hash}
    /\ UNCHANGED <<keyFile, backups, up, lastHash, key, due, record, sealed,
                   made, stranded, spoiled>>

\* The directory of the export cannot be made.  The record is in the log by
\* then, and event() catches the exception.
ExportThrows(w) ==
    /\ Step(w, "advance", "out")
    /\ stranded' = stranded \cup {record[w].hash}
    /\ record' = [record EXCEPT ![w] = NoRecord]
    /\ UNCHANGED <<disk, up, lastHash, key, due, sealed, made, unwritten,
                   spoiled>>

Advance(w) ==
    /\ Step(w, "advance", "out")
    /\ lastHash' = record[w].hash
    /\ record' = [record EXCEPT ![w] = NoRecord]
    /\ UNCHANGED <<disk, up, key, due, sealed, made, history>>

-----------------------------------------------------------------------------
(* The end of the process, and the constructor.                            *)

Crash ==
    /\ up /\ up' = FALSE
    /\ lastHash' = Zeros /\ key' = NoKey /\ due' = FALSE
    /\ pc' = [w \in Writers |-> "out"]
    /\ record' = [w \in Writers |-> NoRecord]
    /\ UNCHANGED <<disk, sealed, made, history>>

Damaged == {i \in DOMAIN file : file[i].end # "whole"}

HashBefore(i) == IF i = 1 THEN Zeros ELSE file[i - 1].hash

\* load_last_hash_from_log() reads up to the first damaged record.  A seek past
\* the end of the file does not fail, so a record cut behind its header counts;
\* a stump takes the bytes that follow it for its own.
Recovered ==
    IF Damaged = {} THEN {HashBefore(Len(file) + 1)}
    ELSE UNION { IF file[d].end = "cut" THEN {file[d].hash}
                 ELSE {HashBefore(d)}
                          \cup {Garbage : j \in (d + 1) .. Len(file)} :
                 d \in {i \in Damaged : \A j \in Damaged : i <= j} }

\* Faulty variant: the log is not read.
RestartForgets ==
    /\ ~up /\ up' = TRUE
    /\ lastHash' = Zeros
    /\ \/ keyFile \in Key /\ key' = keyFile /\ UNCHANGED <<keyFile, made>>
       \/ /\ keyFile \notin Key /\ made < MaxKeys
          /\ made' = made + 1 /\ key' = made + 1 /\ keyFile' = made + 1
    /\ UNCHANGED <<file, backups, due, pc, record, sealed, history>>

\* A key of another length is replaced without a backup.
Restart ==
    /\ ~up /\ up' = TRUE
    /\ lastHash' \in Recovered
    /\ \/ keyFile \in Key /\ key' = keyFile /\ UNCHANGED <<keyFile, made>>
       \/ /\ keyFile \notin Key /\ made < MaxKeys
          /\ made' = made + 1 /\ key' = made + 1 /\ keyFile' = made + 1
    /\ UNCHANGED <<file, backups, due, pc, record, sealed, history>>

-----------------------------------------------------------------------------
Event(w) == Enter(w) \/ BackUpKey(w) \/ WriteKey(w) \/ Seal(w) \/ GiveUp(w)
            \/ AppendRecord(w) \/ ExportThrows(w) \/ Advance(w)

Next == (\E w \in Writers : Event(w)) \/ Crash \/ Restart

Spec == Init /\ [][Next]_vars

-----------------------------------------------------------------------------
\* A running process has a key, whatever it found in the key file.
TypeOK ==
    /\ file \in Seq(Record)
    /\ keyFile \in Key \cup {NoKey, Short} /\ backups \subseteq Key
    /\ up \in BOOLEAN /\ due \in BOOLEAN
    /\ lastHash \in Hash \cup {Zeros, Garbage}
    /\ key \in IF up THEN Key ELSE {NoKey}
    /\ pc \in [Writers -> {"out", "backup", "new_key", "seal", "append",
                           "advance"}]
    /\ record \in [Writers -> Record \cup {NoRecord}]
    /\ sealed \in 0 .. MaxRecords /\ made \in Key
    /\ unwritten \subseteq Hash /\ stranded \subseteq Hash
    /\ spoiled \subseteq Key

\* What the n-th record continues: the one before it, or an earlier one when all
\* between them are in S.
Continued(n, S) ==
    {HashBefore(j) : j \in {i \in 1 .. n : \A k \in i .. n - 1 : file[k].hash \in S}}

\* Up to the first damaged record the log is one chain, across crashes at any
\* point of event() and restarts: every record continues the one before it, or
\* one that the disk never took, and it passes over those before it only if the
\* export threw after each of them.
ChainContinues ==
    \A i \in DOMAIN file :
        (\A j \in Damaged : j >= i)
            => file[i].prev \in Continued(i, stranded) \cup unwritten

\* No crash in the middle of a rotation loses the key of a record: the key is
\* in the key file or in a backup, unless a rename or a write has failed.
KeysKept ==
    \A i \in DOMAIN file : file[i].key \in {keyFile} \cup backups \cup spoiled

\* What hash chaining is for: while the disk and the export do their duty, each
\* record of the log carries the hash of the one before it.
ChainLinked ==
    (Damaged = {} /\ unwritten = {} /\ stranded = {})
        => \A i \in DOMAIN file : file[i].prev = HashBefore(i)
=============================================================================
