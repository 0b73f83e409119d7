--------------------------- MODULE AuditLogProofs ---------------------------
(***************************************************************************)
(* With one writer, as on the drone, and for any number of records and     *)
(* keys, the audit log of AuditLog stays one chain up to its first damaged *)
(* record, but for the records whose export has thrown, and a rotation     *)
(* loses no key.  The inductive invariant follows   *)
(* the last hash and the key through event(); it needs the one writer,     *)
(* since two may seal records over one hash, or rotate one key twice.      *)
(***************************************************************************)
EXTENDS AuditLog, TLAPS

\* The key of a record that a reader of the disk can find, or that a failed
\* rename or write has endangered.
Found == {keyFile} \cup backups \cup spoiled

\* The key in memory is found unless it is due to be replaced, and a key file
\* that is about to be overwritten holds nothing that is not found elsewhere.
KeyInv ==
    /\ up /\ ~due => key \in Found
    /\ \A w \in Writers :
           /\ pc[w] \in {"backup", "new_key"} => due
           /\ pc[w] = "seal" => ~due
           /\ pc[w] = "new_key" => keyFile \notin Key \ (backups \cup spoiled)
           /\ pc[w] = "append" => record[w].key \in Found

\* The hashes that may come before the next record, when those in S are passed
\* over.
Ends(S) == Continued(Len(file) + 1, S) \cup unwritten

\* The last hash continues an undamaged log, and so does a sealed record.  While
\* a record waits for its hash to become the last one, both continue the log:
\* the hash, and if the export throws the last hash as it is.
LastInv ==
    up /\ Damaged = {} =>
        \A w \in Writers :
            /\ pc[w] # "advance" => lastHash \in Ends(stranded)
            /\ pc[w] = "append" => record[w].prev \in Ends(stranded)
            /\ pc[w] = "advance" =>
                   /\ record[w].hash \in Ends(stranded)
                   /\ lastHash \in Ends(stranded \cup {record[w].hash})

\* A crash empties the threads.
DownInv == ~up => ~due /\ \A w \in Writers : pc[w] = "out"

\* A record that is about to be written, or has just been, has been sealed.
SealedInv ==
    \A w \in Writers : pc[w] \in {"append", "advance"} => record[w] \in Record

Inv == TypeOK /\ SealedInv /\ KeysKept /\ KeyInv /\ ChainContinues
       /\ LastInv /\ DownInv

-----------------------------------------------------------------------------
(* Types, for any writers. *)

\* The first start is well typed.
LEMMA TypeInit == Init => TypeOK /\ SealedInv
<1> SUFFICES ASSUME Init PROVE TypeOK /\ SealedInv
  OBVIOUS
<1>1. 1 \in Key /\ 0 \in 0 .. MaxRecords
  BY AuditLogAssumption DEF Key
<1>2. file \in Seq(Record)
  BY DEF Init
<1>3. up \in BOOLEAN /\ due \in BOOLEAN
  BY DEF Init
<1>4. key \in IF up THEN Key ELSE {NoKey}
  BY <1>1 DEF Init
<1>5. record \in [Writers -> Record \cup {NoRecord}]
  BY DEF Init
<1>6. SealedInv
  BY DEF Init, SealedInv
<1> QED BY <1>1, <1>2, <1>3, <1>4, <1>5, <1>6 DEF Init, TypeOK

\* What is in the file are records.
LEMMA FileRecords ==
    ASSUME TypeOK
    PROVE  /\ Len(file) \in Nat /\ DOMAIN file = 1 .. Len(file)
           /\ \A i \in DOMAIN file :
                  file[i] \in Record /\ file[i].hash \in Hash /\ file[i].key \in Key
<1>1. \A i \in DOMAIN file : file[i] \in Record
  BY DEF TypeOK
<1>2. \A i \in DOMAIN file : file[i].hash \in Hash /\ file[i].key \in Key
  BY <1>1 DEF Record
<1> QED BY <1>1, <1>2 DEF TypeOK

\* What a restart reads from the log is a hash, the zeros or garbage.
LEMMA RecoveredType ==
    ASSUME TypeOK
    PROVE  Recovered \subseteq Hash \cup {Zeros, Garbage}
<1>1. \A i \in DOMAIN file : file[i].hash \in Hash
  BY FileRecords
<1>2. \A i \in 1 .. Len(file) + 1 : HashBefore(i) \in Hash \cup {Zeros}
  BY <1>1 DEF TypeOK, HashBefore
<1>3. Damaged \subseteq 1 .. Len(file) /\ Len(file) \in Nat
  BY DEF TypeOK, Damaged
<1> QED BY <1>1, <1>2, <1>3 DEF Recovered, TypeOK

\* No step of event() leaves the types.
LEMMA TypeEvent ==
    ASSUME TypeOK, SealedInv, NEW w \in Writers, Event(w)
    PROVE  TypeOK' /\ SealedInv'
<1> USE AuditLogAssumption
    DEF TypeOK, SealedInv, Step, disk, history
<1>1. CASE Enter(w)
  BY <1>1 DEF Enter
<1>2. CASE BackUpKey(w)
  BY <1>2 DEF BackUpKey
<1>3. CASE WriteKey(w)
  <2>1. made' \in Key /\ key' = made'
    BY <1>3 DEF WriteKey, Key
  <2>2. due' \in BOOLEAN /\ up
    BY <1>3 DEF WriteKey
  <2>3. keyFile' \in Key \cup {NoKey, Short} /\ spoiled' \subseteq Key
    BY <1>3, <2>1 DEF WriteKey
  <2>4. UNCHANGED <<file, backups, up, lastHash, record, sealed, unwritten,
                    stranded>>
    BY <1>3 DEF WriteKey
  <2>5. /\ pc' \in [Writers -> {"out", "backup", "new_key", "seal", "append",
                               "advance"}]
        /\ \A u \in Writers : pc'[u] \in {"append", "advance"} => pc'[u] = pc[u]
    BY <1>3 DEF WriteKey
  <2> QED BY <2>1, <2>3, <2>4, <2>5, <2>2
<1>4. CASE Seal(w)
  <2>1. PICK prev \in {lastHash} \cup {Garbage} :
            record' = [record EXCEPT ![w] = [hash |-> sealed + 1, prev |-> prev,
                                             key |-> key, end |-> "whole"]]
    BY <1>4 DEF Seal
  <2>2. sealed + 1 \in Hash /\ sealed' \in 0 .. MaxRecords /\ key \in Key
    BY <1>4 DEF Seal, Hash
  <2>3. [hash |-> sealed + 1, prev |-> prev, key |-> key, end |-> "whole"]
            \in Record
    BY <2>1, <2>2 DEF Record
  <2>4. /\ record' \in [Writers -> Record \cup {NoRecord}] /\ record'[w] \in Record
        /\ \A u \in Writers \ {w} : record'[u] = record[u]
    BY <2>1, <2>3
  <2>5. UNCHANGED <<disk, up, lastHash, key, due, made, history>>
    BY <1>4 DEF Seal
  <2>6. /\ pc' \in [Writers -> {"out", "backup", "new_key", "seal", "append",
                               "advance"}]
        /\ \A u \in Writers \ {w} : pc'[u] = pc[u]
    BY <1>4 DEF Seal
  <2> QED BY <2>2, <2>4, <2>5, <2>6
<1>5. CASE GiveUp(w)
  BY <1>5 DEF GiveUp
<1>6. CASE AppendRecord(w)
  <2>1. record[w] \in Record /\ record[w].hash \in Hash
    BY <1>6 DEF AppendRecord, Record
  <2>2. \A end \in {"whole", "cut", "stump"} :
            [record[w] EXCEPT !.end = end] \in Record
    BY <2>1 DEF Record
  <2>3. file' \in Seq(Record)
    <3>1. CASE UNCHANGED file
      BY <3>1
    <3>2. ASSUME NEW end \in {"whole", "cut", "stump"},
                 file' = Append(file, [record[w] EXCEPT !.end = end])
          PROVE  file' \in Seq(Record)
      <4> DEFINE r == [record[w] EXCEPT !.end = end]
      <4>1. r \in Record /\ file' = Append(file, r)
        BY <2>2, <3>2
      <4> HIDE DEF r, Record
      <4> QED BY <4>1
    <3> QED BY <1>6, <3>1, <3>2 DEF AppendRecord
  <2>4. unwritten' \subseteq Hash
    BY <1>6, <2>1 DEF AppendRecord
  <2>5. UNCHANGED <<keyFile, backups, up, lastHash, key, due, record, sealed,
                    made, stranded, spoiled>>
    BY <1>6 DEF AppendRecord
  <2>6. /\ pc' \in [Writers -> {"out", "backup", "new_key", "seal", "append",
                               "advance"}]
        /\ \A u \in Writers : pc'[u] \in {"append", "advance"} =>
               pc[u] \in {"append", "advance"}
    BY <1>6 DEF AppendRecord
  <2> QED BY <2>3, <2>5, <2>6, <2>4
<1>7. CASE Advance(w)
  <2>1. record[w].hash \in Hash \cup {Zeros}
    BY DEF Record, NoRecord
  <2>2. record' \in [Writers -> Record \cup {NoRecord}]
    BY <1>7 DEF Advance
  <2>3. \A u \in Writers : pc'[u] \in {"append", "advance"} =>
            pc'[u] = pc[u] /\ record'[u] = record[u]
    BY <1>7 DEF Advance
  <2>4. lastHash' \in Hash \cup {Zeros, Garbage}
    BY <1>7, <2>1 DEF Advance
  <2> QED BY <1>7, <2>2, <2>3, <2>4 DEF Advance
<1>8. CASE ExportThrows(w)
  <2>1. record[w].hash \in Hash
    BY <1>8 DEF ExportThrows, Record
  <2>2. record' \in [Writers -> Record \cup {NoRecord}]
    BY <1>8 DEF ExportThrows
  <2>3. \A u \in Writers : pc'[u] \in {"append", "advance"} =>
            pc'[u] = pc[u] /\ record'[u] = record[u]
    BY <1>8 DEF ExportThrows
  <2> QED BY <1>8, <2>1, <2>2, <2>3 DEF ExportThrows
<1> QED BY <1>1, <1>2, <1>3, <1>4, <1>5, <1>6, <1>7, <1>8 DEF Event

\* Neither does any other step.
LEMMA TypeStep == TypeOK /\ SealedInv /\ [Next]_vars => TypeOK' /\ SealedInv'
<1> SUFFICES ASSUME TypeOK, SealedInv, [Next]_vars PROVE TypeOK' /\ SealedInv'
  OBVIOUS
<1> USE DEF TypeOK, SealedInv, disk, history
<1>1. ASSUME NEW w \in Writers, Event(w) PROVE TypeOK' /\ SealedInv'
  BY <1>1, TypeEvent
<1>2. CASE Crash
  BY <1>2 DEF Crash, NoRecord, Zeros, NoKey
<1>3. CASE Restart
  <2>1. lastHash' \in Hash \cup {Zeros, Garbage}
    BY <1>3, RecoveredType DEF Restart
  <2>2. up' = TRUE /\ key' \in Key /\ made' \in Key
        /\ keyFile' \in Key \cup {NoKey, Short}
    BY <1>3, AuditLogAssumption DEF Restart, Key
  <2>3. UNCHANGED <<file, backups, due, pc, record, sealed, history>>
    BY <1>3 DEF Restart
  <2> QED BY <2>1, <2>2, <2>3
<1>4. CASE UNCHANGED vars
  BY <1>4 DEF vars
<1> QED BY <1>1, <1>2, <1>3, <1>4 DEF Next

-----------------------------------------------------------------------------
(* The keys, for one writer. *)

\* What the rotation of the key keeps.
KeysInv == KeysKept /\ KeyInv /\ DownInv

\* The first start has no record whose key could be lost.
LEMMA KeysInit == Init => KeysInv
  BY DEF Init, KeysInv, KeysKept, KeyInv, DownInv, Found

\* The key goes to the backups before its file is overwritten, and a record is
\* sealed with a key that is on the disk, or endangered by a fault.
LEMMA KeysStep ==
    ASSUME NEW x, Writers = {x}, TypeOK, SealedInv, KeysInv, [Next]_vars
    PROVE  KeysInv'
<1>1. /\ Len(file) \in Nat /\ DOMAIN file = 1 .. Len(file)
      /\ \A i \in DOMAIN file : file[i] \in Record /\ file[i].key \in Key
  BY FileRecords
<1> USE DEF KeysInv, KeysKept, KeyInv, DownInv, Found, Step, disk, history
<1>2. CASE Enter(x)
  BY <1>2 DEF Enter, TypeOK
<1>3. CASE BackUpKey(x)
  <2>1. CASE keyFile' = NoKey /\ backups' = backups \cup ({keyFile} \cap Key)
             /\ UNCHANGED spoiled
    <3>1. Found \cap Key \subseteq Found'
      BY <2>1
    <3>2. NoKey \notin Key
      BY DEF Key, NoKey
    <3> QED BY <1>1, <1>3, <2>1, <3>1, <3>2 DEF BackUpKey, TypeOK
  <2>2. CASE spoiled' = spoiled \cup ({keyFile} \cap Key)
             /\ UNCHANGED <<keyFile, backups>>
    BY <1>1, <1>3, <2>2 DEF BackUpKey, TypeOK
  <2> QED BY <1>3, <2>1, <2>2 DEF BackUpKey
<1>4. CASE WriteKey(x)
  BY <1>1, <1>4 DEF WriteKey, TypeOK
<1>5. CASE Seal(x)
  BY <1>5 DEF Seal, TypeOK
<1>6. CASE GiveUp(x)
  BY <1>6 DEF GiveUp, TypeOK
<1>7. CASE AppendRecord(x)
  <2>1. UNCHANGED <<keyFile, backups, up, key, due, record, spoiled>>
    BY <1>7 DEF AppendRecord
  <2>2. KeyInv' /\ DownInv'
    BY <1>7, <2>1 DEF AppendRecord, TypeOK
  <2>3. record[x].key \in Found
    BY <1>7 DEF AppendRecord
  <2>4. KeysKept'
    <3>1. CASE UNCHANGED file
      BY <2>1, <3>1
    <3>2. ASSUME NEW end \in {"whole", "cut", "stump"},
                 file' = Append(file, [record[x] EXCEPT !.end = end])
          PROVE  KeysKept'
      <4>1. [record[x] EXCEPT !.end = end].key = record[x].key
        BY <1>7 DEF AppendRecord, SealedInv, Record
      <4> QED BY <1>1, <2>1, <2>3, <3>2, <4>1
    <3> QED BY <1>7, <3>1, <3>2 DEF AppendRecord
  <2> QED BY <2>2, <2>4
<1>8. CASE Advance(x)
  BY <1>8 DEF Advance, TypeOK
<1>9. CASE Crash
  BY <1>9 DEF Crash
<1>10. CASE Restart
  BY <1>1, <1>10 DEF Restart
<1>11. CASE UNCHANGED vars
  BY <1>11 DEF vars
<1>12. CASE ExportThrows(x)
  BY <1>12 DEF ExportThrows, TypeOK
<1> QED BY <1>2, <1>3, <1>4, <1>5, <1>6, <1>7, <1>8, <1>9, <1>10, <1>11, <1>12
        DEF Next, Event

-----------------------------------------------------------------------------
(* The chain, for one writer. *)

\* What the hashes keep.
ChainInv == ChainContinues /\ LastInv

\* The first start has an empty chain.
LEMMA ChainInit == Init => ChainInv
<1> SUFFICES ASSUME Init PROVE ChainInv
  OBVIOUS
<1>1. file = <<>> /\ Len(file) = 0 /\ DOMAIN file = {}
  BY DEF Init
<1>2. HashBefore(1) = lastHash
  BY DEF Init, HashBefore
<1>3. HashBefore(1) \in Continued(1, stranded)
  BY DEF Continued
<1>4. \A w \in Writers : pc[w] = "out"
  BY DEF Init
<1> QED BY <1>1, <1>2, <1>3, <1>4
        DEF ChainInv, ChainContinues, LastInv, Ends

\* What Continued holds, in other words.
LEMMA ContinuedHolds ==
    \A n, S, h : h \in Continued(n, S) <=>
        \E j \in 1 .. n : /\ h = HashBefore(j)
                         /\ \A k \in j .. n - 1 : file[k].hash \in S
  BY DEF Continued

\* The more records are passed over, the more may be continued.
LEMMA ContinuedGrows ==
    \A n, S, T : S \subseteq T => Continued(n, S) \subseteq Continued(n, T)
  BY DEF Continued

\* While the log stays as it is, so does what may continue it.
LEMMA SameLog ==
    ASSUME UNCHANGED <<file, unwritten>>
    PROVE  /\ Damaged' = Damaged
           /\ \A n, S : Continued(n, S)' = Continued(n, S)
           /\ \A S : Ends(S)' = Ends(S)
           /\ ChainContinues /\ stranded \subseteq stranded' => ChainContinues'
<1>1. Damaged' = Damaged
  BY DEF Damaged
<1>2. \A n, S : Continued(n, S)' = Continued(n, S)
  BY DEF Continued, HashBefore
<1>3. \A S : Ends(S)' = Ends(S)
  BY <1>2 DEF Ends
<1>4. ASSUME ChainContinues, stranded \subseteq stranded' PROVE ChainContinues'
  <2> SUFFICES ASSUME NEW i \in DOMAIN file, \A j \in Damaged : j >= i
               PROVE  file[i].prev \in Continued(i, stranded') \cup unwritten
    BY <1>1, <1>2 DEF ChainContinues
  <2>1. file[i].prev \in Continued(i, stranded) \cup unwritten
    BY <1>4 DEF ChainContinues
  <2> QED BY <1>4, <2>1, ContinuedGrows
<1> QED BY <1>1, <1>2, <1>3, <1>4

\* A record at the end of the log leaves what those before it continue; its
\* successor may continue it, or pass it over.
LEMMA LongerLog ==
    ASSUME TypeOK, NEW r, file' = Append(file, r)
    PROVE  /\ Len(file') = Len(file) + 1 /\ DOMAIN file' = 1 .. Len(file) + 1
           /\ file'[Len(file) + 1] = r /\ \A i \in DOMAIN file : file'[i] = file[i]
           /\ \A i \in 1 .. Len(file) + 1 : \A S :
                  Continued(i, S)' = Continued(i, S)
           /\ \A m, S : m = Len(file) + 2 => r.hash \in Continued(m, S)'
           /\ \A m, S, T : m = Len(file) + 2 /\ T = S \cup {r.hash} =>
                  Continued(Len(file) + 1, S) \subseteq Continued(m, T)'
<1> DEFINE n == Len(file)
<1>1. n \in Nat /\ DOMAIN file = 1 .. n
  BY FileRecords
<1>2. /\ Len(file') = n + 1 /\ file'[n + 1] = r
      /\ DOMAIN file' = 1 .. n + 1
      /\ \A i \in DOMAIN file : file'[i] = file[i]
  BY <1>1 DEF TypeOK
<1> HIDE DEF n
<1>3. \A i \in 1 .. n + 1 : HashBefore(i)' = HashBefore(i)
  <2> SUFFICES ASSUME NEW i \in 1 .. n + 1 PROVE HashBefore(i)' = HashBefore(i)
    OBVIOUS
  <2>1. CASE i = 1
    BY <2>1 DEF HashBefore
  <2>2. CASE i # 1
    <3>1. i - 1 \in DOMAIN file
      BY <1>1, <2>2
    <3> QED BY <1>2, <2>2, <3>1 DEF HashBefore
  <2> QED BY <2>1, <2>2
<1>4. ASSUME NEW i \in 1 .. n + 1, NEW S
      PROVE  Continued(i, S)' = Continued(i, S)
  <2>1. \A j \in 1 .. i : HashBefore(j)' = HashBefore(j)
    BY <1>1, <1>3
  <2>2. \A j \in 1 .. i : \A k \in j .. i - 1 : file'[k] = file[k]
    BY <1>1, <1>2
  <2> QED BY <2>1, <2>2 DEF Continued
<1>5. ASSUME NEW m, NEW S, m = n + 2 PROVE r.hash \in Continued(m, S)'
  <2>1. m # 1 /\ m - 1 = n + 1 /\ m \in 1 .. m /\ m .. m - 1 = {}
    BY <1>1, <1>5
  <2>2. HashBefore(m)' = r.hash
    BY <1>2, <2>1 DEF HashBefore
  <2> QED BY <2>1, <2>2 DEF Continued
<1>6. ASSUME NEW m, NEW S, NEW T, m = n + 2, T = S \cup {r.hash}
      PROVE  Continued(n + 1, S) \subseteq Continued(m, T)'
  <2> SUFFICES ASSUME NEW e, e \in Continued(n + 1, S)
               PROVE  e \in Continued(m, T)'
    OBVIOUS
  <2>0. PICK j \in 1 .. n + 1 : /\ e = HashBefore(j)
                               /\ \A k \in j .. (n + 1) - 1 : file[k].hash \in S
    BY DEF Continued
  <2>1. ASSUME NEW k \in j .. m - 1 PROVE file'[k].hash \in T
    <3>1. CASE k = n + 1
      BY <1>2, <1>6, <3>1
    <3>2. CASE k # n + 1
      <4>1. k \in j .. (n + 1) - 1 /\ k \in DOMAIN file
        BY <1>1, <1>6, <3>2
      <4> QED BY <1>2, <1>6, <2>0, <4>1
    <3> QED BY <3>1, <3>2
  <2>2. j \in 1 .. m /\ HashBefore(j)' = HashBefore(j)
    BY <1>1, <1>3, <1>6
  <2> QED BY <2>0, <2>1, <2>2 DEF Continued
<1> QED BY <1>2, <1>4, <1>5, <1>6 DEF n

\* The record in hand goes to the end of the log.
LEMMA ChainAppend ==
    ASSUME NEW x, Writers = {x}, TypeOK, SealedInv, ChainInv, AppendRecord(x)
    PROVE  ChainInv'
<1> DEFINE h == record[x].hash
<1>1. /\ up /\ pc[x] = "append" /\ pc'[x] = "advance"
      /\ UNCHANGED <<up, record, lastHash, stranded>>
      /\ unwritten \subseteq unwritten'
  BY DEF AppendRecord, Step, TypeOK
<1>2. CASE UNCHANGED file
  <2>1. unwritten' = unwritten \cup {h}
    BY <1>2, FileRecords DEF AppendRecord, TypeOK
  <2>2. /\ Damaged' = Damaged /\ DOMAIN file' = DOMAIN file
        /\ \A n, S : Continued(n, S)' = Continued(n, S)
    BY <1>2 DEF Damaged, Continued, HashBefore
  <2>3. ChainContinues'
    BY <1>1, <1>2, <2>2 DEF ChainInv, ChainContinues
  <2>4. ASSUME Damaged = {}
        PROVE  h \in Ends(stranded)' /\ lastHash \in Ends(stranded \cup {h})'
    <3>1. lastHash \in Continued(Len(file) + 1, stranded) \cup unwritten
      BY <1>1, <2>4 DEF ChainInv, LastInv, Ends
    <3>2. Continued(Len(file) + 1, stranded)
              \subseteq Continued(Len(file) + 1, stranded \cup {h})
      BY ContinuedGrows
    <3> QED BY <1>1, <1>2, <2>1, <2>2, <3>1, <3>2 DEF Ends
  <2> QED BY <1>1, <2>2, <2>3, <2>4 DEF ChainInv, LastInv
<1>3. ASSUME NEW end \in {"whole", "cut", "stump"},
             file' = Append(file, [record[x] EXCEPT !.end = end])
      PROVE  ChainInv'
  <2> PICK r : r = [record[x] EXCEPT !.end = end]
    OBVIOUS
  <2>1. r.hash = h /\ r.prev = record[x].prev /\ r.end = end
    BY <1>1 DEF SealedInv, Record
  <2> HIDE DEF h
  <2>2. /\ Len(file) \in Nat /\ DOMAIN file = 1 .. Len(file)
        /\ Len(file') = Len(file) + 1 /\ DOMAIN file' = 1 .. Len(file) + 1
        /\ file'[Len(file) + 1] = r /\ \A i \in DOMAIN file : file'[i] = file[i]
        /\ \A i \in 1 .. Len(file) + 1 : \A S : Continued(i, S)' = Continued(i, S)
        /\ \A m, S : m = Len(file) + 2 => h \in Continued(m, S)'
        /\ \A m, S, T : m = Len(file) + 2 /\ T = S \cup {h} =>
               Continued(Len(file) + 1, S) \subseteq Continued(m, T)'
    BY <1>3, <2>1, LongerLog, FileRecords
  <2>3. /\ \A i \in DOMAIN file : i \in Damaged' <=> i \in Damaged
        /\ Damaged \subseteq Damaged' /\ Damaged \subseteq DOMAIN file
        /\ Damaged' \subseteq DOMAIN file'
    BY <2>2 DEF Damaged
  <2>4. ChainContinues'
    <3> SUFFICES ASSUME NEW i \in DOMAIN file', \A j \in Damaged' : j >= i
                 PROVE  file'[i].prev \in Continued(i, stranded)' \cup unwritten'
      BY DEF ChainContinues
    <3>1. CASE i \in DOMAIN file
      <4>1. file[i].prev \in Continued(i, stranded) \cup unwritten
        BY <2>3, <3>1 DEF ChainInv, ChainContinues
      <4> QED BY <1>1, <2>2, <3>1, <4>1
    <3>2. CASE i = Len(file) + 1
      <4>1. Damaged = {}
        BY <2>2, <2>3, <3>2
      <4>2. record[x].prev \in Continued(i, stranded) \cup unwritten
        BY <1>1, <3>2, <4>1 DEF ChainInv, LastInv, Ends
      <4> QED BY <1>1, <2>1, <2>2, <3>2, <4>2
    <3> QED BY <2>2, <3>1, <3>2
  <2>5. LastInv'
    <3>1. ASSUME Damaged' = {}
          PROVE  h \in Ends(stranded)' /\ lastHash' \in Ends(stranded \cup {h})'
      <4>1. lastHash \in Continued(Len(file) + 1, stranded) \cup unwritten
        BY <1>1, <2>3, <3>1 DEF ChainInv, LastInv, Ends
      <4>2. Len(file') + 1 = Len(file) + 2
        BY <2>2
      <4>3. stranded' = stranded /\ h' = h
        BY <1>1 DEF h
      <4> QED BY <1>1, <2>2, <4>1, <4>2, <4>3 DEF Ends
    <3> QED BY <1>1, <3>1 DEF LastInv, h
  <2> QED BY <2>4, <2>5 DEF ChainInv
<1> QED BY <1>2, <1>3 DEF AppendRecord

\* A record lengthens the chain by one whose predecessor was the last, or the
\* last whose export went well, and a restart takes up the chain of an undamaged
\* log at its end.
LEMMA ChainStep ==
    ASSUME NEW x, Writers = {x}, TypeOK, SealedInv, DownInv, ChainInv,
           [Next]_vars
    PROVE  ChainInv'
<1>1. ASSUME UNCHANGED <<file, unwritten, stranded, up, lastHash>>,
             /\ pc'[x] # "advance" => pc[x] # "advance"
             /\ pc'[x] = "append" =>
                    \/ pc[x] = "append" /\ record'[x] = record[x]
                    \/ pc[x] = "seal" /\ record'[x].prev = lastHash
             /\ pc'[x] = "advance" => pc[x] = "advance" /\ record'[x] = record[x]
      PROVE  ChainInv'
  BY <1>1, SameLog DEF ChainInv, LastInv
<1>2. CASE Enter(x)
  BY <1>1, <1>2 DEF Enter, TypeOK, Step, disk, history
<1>3. CASE BackUpKey(x)
  BY <1>1, <1>3 DEF BackUpKey, TypeOK, Step
<1>4. CASE WriteKey(x)
  BY <1>1, <1>4 DEF WriteKey, TypeOK, Step
<1>5. CASE Seal(x)
  <2>1. /\ UNCHANGED <<file, unwritten, stranded, up, lastHash>>
        /\ pc[x] = "seal" /\ pc'[x] = "append"
    BY <1>5 DEF Seal, TypeOK, Step, disk, history
  <2>2. record'[x].prev = lastHash
    BY <1>5 DEF Seal, TypeOK, Step
  <2> QED BY <1>1, <2>1, <2>2
<1>6. CASE GiveUp(x)
  BY <1>1, <1>6 DEF GiveUp, TypeOK, Step, disk, history
<1>7. CASE AppendRecord(x)
  BY <1>7, ChainAppend
<1>8. CASE ExportThrows(x)
  <2>1. /\ UNCHANGED <<file, unwritten, up, lastHash>>
        /\ pc[x] = "advance" /\ pc'[x] = "out"
        /\ stranded' = stranded \cup {record[x].hash}
    BY <1>8 DEF ExportThrows, TypeOK, Step, disk
  <2>2. up /\ Damaged = {} => lastHash \in Ends(stranded')
    BY <2>1 DEF ChainInv, LastInv
  <2> QED BY <2>1, <2>2, SameLog DEF ChainInv, LastInv
<1>9. CASE Advance(x)
  <2>1. /\ UNCHANGED <<file, unwritten, stranded, up>>
        /\ pc[x] = "advance" /\ pc'[x] = "out" /\ lastHash' = record[x].hash
    BY <1>9 DEF Advance, TypeOK, Step, disk, history
  <2> QED BY <2>1, SameLog DEF ChainInv, LastInv
<1>10. CASE Crash
  BY <1>10, SameLog DEF Crash, ChainInv, LastInv, disk, history
<1>11. CASE Restart
  <2>1. UNCHANGED <<file, unwritten, stranded>> /\ pc' = pc /\ ~up
    BY <1>11 DEF Restart, history
  <2>2. Damaged = {} => lastHash' \in Ends(stranded)
    <3>1. HashBefore(Len(file) + 1) \in Continued(Len(file) + 1, stranded)
      <4>1. Len(file) \in Nat
        BY FileRecords
      <4>2. Len(file) + 1 \in 1 .. Len(file) + 1
            /\ (Len(file) + 1) .. (Len(file) + 1 - 1) = {}
        BY <4>1
      <4> QED BY <4>2 DEF Continued
    <3> QED BY <1>11, <3>1 DEF Restart, Recovered, Ends
  <2>3. pc[x] = "out"
    BY <2>1 DEF DownInv
  <2> QED BY <2>1, <2>2, <2>3, SameLog DEF ChainInv, LastInv
<1>12. CASE UNCHANGED vars
  BY <1>1, <1>12 DEF vars
<1> QED BY <1>2, <1>3, <1>4, <1>5, <1>6, <1>7, <1>8, <1>9, <1>10, <1>11, <1>12
        DEF Next, Event

-----------------------------------------------------------------------------
(* The theorems. *)

\* Whatever the number of writers, every behaviour is well typed.
THEOREM TypeCorrect == Spec => []TypeOK
<1>1. Init => TypeOK /\ SealedInv
  BY TypeInit
<1>2. TypeOK /\ SealedInv /\ [Next]_vars => TypeOK' /\ SealedInv'
  BY TypeStep
<1> QED BY <1>1, <1>2, PTL DEF Spec

\* With one writer the invariant holds throughout.
THEOREM Invariant ==
    ASSUME NEW CONSTANT x, Writers = {x} PROVE Spec => []Inv
<1> USE DEF Inv, KeysInv, ChainInv
<1>1. Init => Inv
  BY TypeInit, KeysInit, ChainInit
<1>2. Inv /\ [Next]_vars => Inv'
  BY TypeStep, KeysStep, ChainStep
<1> QED BY <1>1, <1>2, PTL DEF Spec

\* On the drone no crash in the middle of a rotation, at any of the steps of
\* load_or_create_key(), loses the key of a record that was written.
THEOREM KeysNeverLost ==
    ASSUME NEW CONSTANT x, Writers = {x} PROVE Spec => []KeysKept
<1>1. Inv => KeysKept
  BY DEF Inv
<1> QED BY <1>1, Invariant, PTL

\* On the drone every record up to the first damaged one continues its
\* predecessor, or one the disk never took, or passes over records after each of
\* which the export threw, across crashes at any point of event() and restarts
\* that read the last hash back.
THEOREM ChainUnbroken ==
    ASSUME NEW CONSTANT x, Writers = {x} PROVE Spec => []ChainContinues
<1>1. Inv => ChainContinues
  BY DEF Inv
<1> QED BY <1>1, Invariant, PTL
=============================================================================
