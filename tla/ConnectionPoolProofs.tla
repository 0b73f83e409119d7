------------------------ MODULE ConnectionPoolProofs ------------------------
(***************************************************************************)
(* For any number of workers, addresses and descriptors and any limits:    *)
(* the limiter's counters are the numbers of connections that hold a slot, *)
(* and every open descriptor has exactly one owner.  The two properties    *)
(* are sums over the queue, the workers and the accept loop, and together  *)
(* with what the accept loop has in hand they are inductive.               *)
(***************************************************************************)
EXTENDS ConnectionPool, FiniteSetTheorems, TLAPS

\* The accept loop has a connection in hand at four of its places.
InHand == accConn = NoConn <=> acceptor \in {"accept", "notify"}

Inv == TypeOK /\ InHand /\ SlotsBalanced /\ EveryFdHasOneOwner

\* Where a queue holds one of some connections.
Positions(q, T) == {k \in DOMAIN q : q[k] \in T}

From(i) == {c \in Connection : c.ip = i}
Through(f) == {c \in Connection : c.fd = f}

\* The workers that hold a slot, a slot of an address, or a descriptor.
Busy == {w \in Worker : conn[w] # NoConn}
Serving(i) == {w \in Worker : conn[w].ip = i}
Holding(f) == {w \in Worker : conn[w].fd = f /\ worker[w] # "release"}

-----------------------------------------------------------------------------
(* Counting. *)

\* Two sets of workers that differ in one worker at most.
LEMMA CountWorkers ==
    ASSUME NEW A \in SUBSET Worker, NEW B \in SUBSET Worker,
           NEW w \in Worker, A \ {w} = B \ {w}
    PROVE  /\ Cardinality(A) \in Nat /\ Cardinality(B) \in Nat
           /\ Cardinality(B) + One(w \in A) = Cardinality(A) + One(w \in B)
<1>1. IsFiniteSet(A) /\ IsFiniteSet(B)
  BY FS_Subset, ConnectionPoolAssumption
<1>2. Cardinality(A) \in Nat /\ Cardinality(B) \in Nat
  BY <1>1, FS_CardinalityType
<1>3. Cardinality(A \ {w}) = IF w \in A THEN Cardinality(A) - 1
                                ELSE Cardinality(A)
  BY <1>1, FS_RemoveElement
<1>4. Cardinality(B \ {w}) = IF w \in B THEN Cardinality(B) - 1
                                ELSE Cardinality(B)
  BY <1>1, FS_RemoveElement
<1> QED BY <1>2, <1>3, <1>4 DEF One

\* The positions of a queue are finitely many.
LEMMA CountPositions ==
    ASSUME NEW q \in Seq(Connection), NEW T
    PROVE  IsFiniteSet(Positions(q, T)) /\ Cardinality(Positions(q, T)) \in Nat
<1>1. IsFiniteSet(1 .. Len(q))
  BY FS_Interval
<1>2. Positions(q, T) \subseteq 1 .. Len(q)
  BY DEF Positions
<1>3. IsFiniteSet(Positions(q, T))
  BY <1>1, <1>2, FS_Subset
<1> QED BY <1>3, FS_CardinalityType

\* A connection that joins the queue is counted where it belongs.
LEMMA CountAppend ==
    ASSUME NEW q \in Seq(Connection), NEW c \in Connection, NEW T
    PROVE  Cardinality(Positions(Append(q, c), T))
             = Cardinality(Positions(q, T)) + One(c \in T)
<1> DEFINE n == Len(q) + 1
<1>1. /\ DOMAIN Append(q, c) = (1 .. Len(q)) \cup {n} /\ n \notin 1 .. Len(q)
      /\ Append(q, c)[n] = c
      /\ \A k \in 1 .. Len(q) : Append(q, c)[k] = q[k]
      /\ DOMAIN q = 1 .. Len(q)
  OBVIOUS
<1> HIDE DEF n
<1>2. CASE c \in T
  <2>1. Positions(Append(q, c), T) = Positions(q, T) \cup {n}
    BY <1>1, <1>2 DEF Positions
  <2>2. n \notin Positions(q, T)
    BY <1>1 DEF Positions
  <2> QED BY <1>2, <2>1, <2>2, CountPositions, FS_AddElement DEF One
<1>3. CASE c \notin T
  <2>1. Positions(Append(q, c), T) = Positions(q, T)
    BY <1>1, <1>3 DEF Positions
  <2> QED BY <1>3, <2>1, CountPositions DEF One
<1> QED BY <1>2, <1>3

\* So is one that leaves it.
LEMMA CountTail ==
    ASSUME NEW q \in Seq(Connection), q # <<>>, NEW T
    PROVE  Cardinality(Positions(q, T))
             = Cardinality(Positions(Tail(q), T)) + One(Head(q) \in T)
<1>1. /\ Tail(q) \in Seq(Connection) /\ Len(Tail(q)) = Len(q) - 1
      /\ Len(q) \in Nat \ {0} /\ Head(q) = q[1]
      /\ DOMAIN q = 1 .. Len(q) /\ DOMAIN Tail(q) = 1 .. Len(q) - 1
      /\ \A k \in 1 .. Len(q) - 1 : Tail(q)[k] = q[k + 1]
  OBVIOUS
<1> DEFINE A == Positions(Tail(q), T)
           B == Positions(q, T) \ {1}
           shift == [k \in A |-> k + 1]
<1>2. A \subseteq 1 .. Len(q) - 1 /\ B \subseteq 2 .. Len(q)
  BY <1>1 DEF Positions
<1>3. \A k \in A : k + 1 \in B
  BY <1>1, <1>2 DEF Positions
<1>4. \A k \in B : k - 1 \in A
  BY <1>1, <1>2 DEF Positions
<1>5. shift \in Bijection(A, B)
  <2>1. shift \in [A -> B]
    BY <1>3
  <2>2. \A j, k \in A : shift[j] = shift[k] => j = k
    BY <1>2
  <2>3. \A k \in B : \E j \in A : shift[j] = k
    <3> SUFFICES ASSUME NEW k \in B PROVE \E j \in A : shift[j] = k
      OBVIOUS
    <3>1. k - 1 \in A /\ shift[k - 1] = k
      BY <1>2, <1>4
    <3> QED BY <3>1
  <2> QED BY <2>1, <2>2, <2>3 DEF Bijection, Injection, Surjection, IsInjective
<1>6. Cardinality(A) = Cardinality(B)
  <2>1. IsFiniteSet(A)
    BY <1>1, CountPositions
  <2>2. ExistsBijection(A, B)
    BY <1>5 DEF ExistsBijection
  <2> HIDE DEF A, B
  <2> QED BY <2>1, <2>2, FS_Bijection
<1>7. 1 \in Positions(q, T) <=> Head(q) \in T
  BY <1>1 DEF Positions
<1>8. Cardinality(B) = IF Head(q) \in T THEN Cardinality(Positions(q, T)) - 1
                       ELSE Cardinality(Positions(q, T))
  BY <1>7, CountPositions, FS_RemoveElement
<1> QED BY <1>6, <1>8, CountPositions DEF One

-----------------------------------------------------------------------------
(* Types. *)

\* No connection is taken for none.
LEMMA NoConnIsNone ==
    /\ NoConn \notin Connection
    /\ \A i \in Ip : NoConn.ip # i
    /\ \A f \in Fd : NoConn.fd # f
  BY ConnectionPoolAssumption DEF NoConn, Connection

\* The empty server is well typed.
LEMMA TypeInit == Init => TypeOK /\ InHand
  BY DEF Init, TypeOK, InHand

\* A slot that is given back leaves naturals behind.
LEMMA ReleaseType ==
    ASSUME TypeOK, NEW i, Release(i)
    PROVE  total' \in Nat /\ perIp' \in [Ip -> Nat]
<1>1. total' \in Nat
  BY DEF TypeOK, Release
<1>2. \A n \in Nat : (IF n > 0 THEN n - 1 ELSE 0) \in Nat
  OBVIOUS
<1>3. perIp' \in [Ip -> Nat]
  BY <1>2 DEF TypeOK, Release
<1> QED BY <1>1, <1>3

\* The accept loop holds a connection from accept() until it is queued or closed.
LEMMA TypeAcceptor ==
    ASSUME TypeOK, InHand, Accept \/ AcceptorAdvances
    PROVE  TypeOK' /\ InHand'
<1> USE NoConnIsNone DEF TypeOK, InHand, poolOnly
<1>1. CASE Accept
  BY <1>1 DEF Accept, Connection
<1>2. CASE Admit
  BY <1>2 DEF Admit, Acquire, Connection
<1>3. CASE Refuse
  BY <1>3 DEF Refuse
<1>4. CASE Enqueue
  BY <1>4 DEF Enqueue
<1>5. CASE QueueFull
  BY <1>5, ReleaseType DEF QueueFull
<1>6. CASE CloseRefused
  BY <1>6 DEF CloseRefused
<1>7. CASE Notify
  BY <1>7 DEF Notify
<1> QED BY <1>1, <1>2, <1>3, <1>4, <1>5, <1>6, <1>7 DEF AcceptorAdvances

\* A worker has a connection from its wait to the release of its slot.
LEMMA TypeWorker ==
    ASSUME TypeOK, InHand, NEW w \in Worker,
           WorkerAdvances(w) \/ SpuriousWakeup(w) \/ SessionEnds(w)
    PROVE  TypeOK' /\ InHand'
<1> USE NoConnIsNone DEF TypeOK, InHand, Moves, acceptOnly, limits
<1>1. CASE Take(w)
  BY <1>1 DEF Take
<1>2. CASE Wait(w)
  BY <1>2 DEF Wait
<1>3. CASE TlsEnds(w)
  BY <1>3 DEF TlsEnds, TlsFails, TlsAccepted
<1>4. CASE Close(w)
  BY <1>4 DEF Close
<1>5. CASE ReleaseSlot(w)
  BY <1>5, ReleaseType DEF ReleaseSlot
<1>6. CASE SpuriousWakeup(w)
  BY <1>6 DEF SpuriousWakeup
<1>7. CASE SessionEnds(w)
  BY <1>7 DEF SessionEnds
<1> QED BY <1>1, <1>2, <1>3, <1>4, <1>5, <1>6, <1>7 DEF WorkerAdvances

\* No step leaves the types.
LEMMA TypeStep == TypeOK /\ InHand /\ [Next]_vars => TypeOK' /\ InHand'
<1> SUFFICES ASSUME TypeOK, InHand, [Next]_vars PROVE TypeOK' /\ InHand'
  OBVIOUS
<1>1. CASE UNCHANGED vars
  BY <1>1 DEF vars, TypeOK, InHand
<1> QED BY <1>1, TypeAcceptor, TypeWorker DEF Next

-----------------------------------------------------------------------------
(* The slots. *)

\* The properties' counts in the terms of the lemmas.
LEMMA QueueForm ==
    ASSUME NEW q \in Seq(Connection)
    PROVE  /\ \A i : {k \in DOMAIN q : q[k].ip = i} = Positions(q, From(i))
           /\ \A f : {k \in DOMAIN q : q[k].fd = f} = Positions(q, Through(f))
<1>1. \A k \in DOMAIN q : q[k] \in Connection
  OBVIOUS
<1> QED BY <1>1 DEF Positions, From, Through

\* What SlotsBalanced says of an address and of the total.
SlotsOf(n, i) ==
    n = Cardinality(Positions(queue, From(i))) + Cardinality(Serving(i))
          + One(acceptor = "enqueue" /\ accConn.ip = i)

SlotsTotal == total = Len(queue) + Cardinality(Busy) + One(acceptor = "enqueue")

\* Its two halves.
LEMMA SlotsForm ==
    TypeOK => (SlotsBalanced <=> SlotsTotal /\ \A i \in Ip : SlotsOf(perIp[i], i))
  BY QueueForm DEF TypeOK, SlotsBalanced, SlotsTotal, SlotsOf, Busy, Serving

\* The same of the next state.
LEMMA SlotsFormNext ==
    TypeOK' => (SlotsBalanced' <=> SlotsTotal' /\ \A i \in Ip : SlotsOf(perIp[i], i)')
<1> SUFFICES ASSUME TypeOK'
             PROVE  SlotsBalanced' <=> SlotsTotal' /\ \A i \in Ip : SlotsOf(perIp[i], i)'
  OBVIOUS
<1>1. queue' \in Seq(Connection)
  BY DEF TypeOK
<1>2. \A i : {k \in DOMAIN queue' : queue'[k].ip = i} = Positions(queue', From(i))
  BY <1>1, QueueForm
<1> QED BY <1>2 DEF SlotsBalanced, SlotsTotal, SlotsOf, Busy, Serving

\* The numbers that are added up.
LEMMA SlotsNat ==
    ASSUME TypeOK
    PROVE  /\ Cardinality(Busy) \in Nat /\ Len(queue) \in Nat
           /\ \A i : /\ Cardinality(Serving(i)) \in Nat
                     /\ Cardinality(Positions(queue, From(i))) \in Nat
<1>1. Worker # {}
  BY ConnectionPoolAssumption
<1>2. \A A \in SUBSET Worker : Cardinality(A) \in Nat
  BY <1>1, CountWorkers
<1>3. queue \in Seq(Connection)
  BY DEF TypeOK
<1>4. \A i : Serving(i) \subseteq Worker /\ Busy \subseteq Worker
  BY DEF Serving, Busy
<1> QED BY <1>2, <1>3, <1>4, CountPositions

\* The accept loop takes a slot, hands it over with the connection or gives it
\* back.
LEMMA SlotsAcceptor ==
    ASSUME TypeOK, InHand, SlotsBalanced, TypeOK', Accept \/ AcceptorAdvances
    PROVE  SlotsBalanced'
<1>1. SlotsTotal /\ \A i \in Ip : SlotsOf(perIp[i], i)
  BY SlotsForm
<1>2. /\ Cardinality(Busy) \in Nat /\ Len(queue) \in Nat
      /\ \A i : /\ Cardinality(Serving(i)) \in Nat
                /\ Cardinality(Positions(queue, From(i))) \in Nat
  BY SlotsNat
<1>3. Busy' = Busy /\ \A i : Serving(i)' = Serving(i)
  BY DEF AcceptorAdvances, Accept, Admit, Refuse, Enqueue, QueueFull,
         CloseRefused, Notify, poolOnly, Busy, Serving
<1> SUFFICES SlotsTotal' /\ \A i \in Ip : SlotsOf(perIp[i], i)'
  BY SlotsFormNext
<1> USE <1>1, <1>2, <1>3 DEF SlotsTotal, SlotsOf, One
<1>4. CASE Accept
  BY <1>4 DEF Accept
<1>5. CASE Admit
  <2>1. accConn \in Connection /\ accConn.ip \in Ip
    BY <1>5 DEF Admit, InHand, TypeOK, Connection
  <2>2. SlotsTotal'
    BY <1>5 DEF Admit, Acquire
  <2>3. ASSUME NEW i \in Ip PROVE SlotsOf(perIp[i], i)'
    <3>1. perIp'[i] = IF accConn.ip = i THEN perIp[i] + 1 ELSE perIp[i]
      BY <1>5 DEF Admit, Acquire, TypeOK
    <3> QED BY <1>5, <3>1 DEF Admit
  <2> QED BY <2>2, <2>3
<1>6. CASE Refuse
  BY <1>6 DEF Refuse
<1>7. CASE Enqueue
  <2>1. accConn \in Connection /\ queue \in Seq(Connection)
    BY <1>7 DEF Enqueue, InHand, TypeOK
  <2>2. queue' = Append(queue, accConn) /\ Len(queue') = Len(queue) + 1
    BY <1>7, <2>1 DEF Enqueue
  <2>3. SlotsTotal'
    BY <1>7, <2>2 DEF Enqueue
  <2>4. ASSUME NEW i \in Ip PROVE SlotsOf(perIp[i], i)'
    <3>1. Cardinality(Positions(queue', From(i)))
            = Cardinality(Positions(queue, From(i))) + One(accConn \in From(i))
      BY <2>1, <2>2, CountAppend
    <3>2. accConn \in From(i) <=> accConn.ip = i
      BY <2>1 DEF From
    <3> QED BY <1>7, <3>1, <3>2 DEF Enqueue
  <2> QED BY <2>3, <2>4
<1>8. CASE QueueFull
  <2>1. accConn \in Connection /\ accConn.ip \in Ip
    BY <1>8 DEF QueueFull, InHand, TypeOK, Connection
  <2>2. SlotsTotal'
    BY <1>8 DEF QueueFull, Release
  <2>3. ASSUME NEW i \in Ip PROVE SlotsOf(perIp[i], i)'
    <3>1. CASE accConn.ip = i
      <4>1. perIp[i] = Cardinality(Positions(queue, From(i)))
                         + Cardinality(Serving(i)) + 1
        BY <1>8, <3>1 DEF QueueFull
      <4>2. perIp'[i] = perIp[i] - 1
        BY <1>8, <3>1, <4>1 DEF QueueFull, Release, TypeOK
      <4> QED BY <1>8, <4>1, <4>2 DEF QueueFull
    <3>2. CASE accConn.ip # i
      <4>1. perIp'[i] = perIp[i]
        BY <1>8, <3>2 DEF QueueFull, Release, TypeOK
      <4> QED BY <1>8, <3>2, <4>1 DEF QueueFull
    <3> QED BY <3>1, <3>2
  <2> QED BY <2>2, <2>3
<1>9. CASE CloseRefused
  BY <1>9 DEF CloseRefused
<1>10. CASE Notify
  BY <1>10 DEF Notify
<1> QED BY <1>4, <1>5, <1>6, <1>7, <1>8, <1>9, <1>10 DEF AcceptorAdvances

\* A worker takes a slot over with the connection, and gives it back once.
LEMMA SlotsWorker ==
    ASSUME TypeOK, SlotsBalanced, TypeOK', NEW w \in Worker,
           WorkerAdvances(w) \/ SpuriousWakeup(w) \/ SessionEnds(w)
    PROVE  SlotsBalanced'
<1>1. SlotsTotal /\ \A i \in Ip : SlotsOf(perIp[i], i)
  BY SlotsForm
<1>2. /\ Cardinality(Busy) \in Nat /\ Len(queue) \in Nat
      /\ \A i : /\ Cardinality(Serving(i)) \in Nat
                /\ Cardinality(Positions(queue, From(i))) \in Nat
  BY SlotsNat
<1> SUFFICES SlotsTotal' /\ \A i \in Ip : SlotsOf(perIp[i], i)'
  BY SlotsFormNext
<1>3. CASE Take(w)
  <2>1. /\ queue \in Seq(Connection) /\ queue # <<>> /\ queue' = Tail(queue)
        /\ conn' = [conn EXCEPT ![w] = Head(queue)] /\ conn[w] = NoConn
        /\ UNCHANGED <<total, perIp, acceptor, accConn>>
    BY <1>3 DEF Take, Moves, TypeOK, limits, acceptOnly
  <2>2. Head(queue) \in Connection /\ Len(queue') = Len(queue) - 1
    BY <2>1
  <2>3. conn'[w] = Head(queue) /\ \A v \in Worker \ {w} : conn'[v] = conn[v]
    BY <2>1 DEF TypeOK
  <2>4. SlotsTotal'
    <3>1. Busy \ {w} = Busy' \ {w} /\ w \notin Busy /\ w \in Busy'
      BY <2>1, <2>2, <2>3, NoConnIsNone DEF Busy
    <3>2. Busy \in SUBSET Worker /\ Busy' \in SUBSET Worker
      BY DEF Busy
    <3>3. /\ Cardinality(Busy') + One(w \in Busy)
               = Cardinality(Busy) + One(w \in Busy')
          /\ Cardinality(Busy') \in Nat
      BY <3>1, <3>2, CountWorkers
    <3> QED BY <1>1, <1>2, <2>1, <2>2, <3>1, <3>3 DEF SlotsTotal, One
  <2>5. ASSUME NEW i \in Ip PROVE SlotsOf(perIp[i], i)'
    <3>1. /\ Serving(i) \ {w} = Serving(i)' \ {w} /\ w \notin Serving(i)
          /\ w \in Serving(i)' <=> Head(queue).ip = i
      BY <2>1, <2>2, <2>3, NoConnIsNone DEF Serving
    <3>2. Serving(i) \in SUBSET Worker /\ Serving(i)' \in SUBSET Worker
      BY DEF Serving
    <3>3. /\ Cardinality(Serving(i)') + One(w \in Serving(i))
               = Cardinality(Serving(i)) + One(w \in Serving(i)')
          /\ Cardinality(Serving(i)') \in Nat
      BY <3>1, <3>2, CountWorkers
    <3>4. Cardinality(Positions(queue, From(i)))
            = Cardinality(Positions(queue', From(i))) + One(Head(queue) \in From(i))
      BY <2>1, CountTail
    <3>5. Cardinality(Positions(queue', From(i))) \in Nat
      <4>1. queue' \in Seq(Connection)
        BY <2>1
      <4> QED BY <4>1, CountPositions
    <3>6. Head(queue) \in From(i) <=> Head(queue).ip = i
      BY <2>2 DEF From
    <3> QED BY <1>1, <1>2, <2>1, <3>1, <3>3, <3>4, <3>5, <3>6 DEF SlotsOf, One
  <2> QED BY <2>4, <2>5
<1>4. CASE UNCHANGED <<conn, queue, total, perIp, acceptor, accConn>>
  BY <1>1, <1>4 DEF SlotsTotal, SlotsOf, Busy, Serving
<1>5. CASE ReleaseSlot(w)
  <2>1. /\ conn[w] \in Connection /\ conn[w].ip \in Ip
        /\ conn' = [conn EXCEPT ![w] = NoConn]
        /\ UNCHANGED <<queue, acceptor, accConn>> /\ Release(conn[w].ip)
    BY <1>5 DEF ReleaseSlot, Moves, TypeOK, acceptOnly, Connection
  <2>2. conn'[w] = NoConn /\ \A v \in Worker \ {w} : conn'[v] = conn[v]
    BY <2>1 DEF TypeOK
  <2>3. SlotsTotal'
    <3>1. Busy \ {w} = Busy' \ {w} /\ w \in Busy /\ w \notin Busy'
      BY <2>1, <2>2, NoConnIsNone DEF Busy
    <3>2. Busy \in SUBSET Worker /\ Busy' \in SUBSET Worker
      BY DEF Busy
    <3>3. /\ Cardinality(Busy') + One(w \in Busy)
               = Cardinality(Busy) + One(w \in Busy')
          /\ Cardinality(Busy') \in Nat
      BY <3>1, <3>2, CountWorkers
    <3>4. Cardinality(Busy) = Cardinality(Busy') + 1
      BY <1>2, <3>1, <3>3 DEF One
    <3>5. total' = total - 1
      BY <1>1, <1>2, <2>1, <3>3, <3>4 DEF SlotsTotal, One, Release
    <3> QED BY <1>1, <1>2, <2>1, <3>3, <3>4, <3>5 DEF SlotsTotal, One
  <2>4. ASSUME NEW i \in Ip PROVE SlotsOf(perIp[i], i)'
    <3>1. /\ Serving(i) \ {w} = Serving(i)' \ {w} /\ w \notin Serving(i)'
          /\ w \in Serving(i) <=> conn[w].ip = i
      BY <2>1, <2>2, NoConnIsNone DEF Serving
    <3>2. Serving(i) \in SUBSET Worker /\ Serving(i)' \in SUBSET Worker
      BY DEF Serving
    <3>3. /\ Cardinality(Serving(i)') + One(w \in Serving(i))
               = Cardinality(Serving(i)) + One(w \in Serving(i)')
          /\ Cardinality(Serving(i)') \in Nat
      BY <3>1, <3>2, CountWorkers
    <3>4. Cardinality(Serving(i)) = Cardinality(Serving(i)') + One(conn[w].ip = i)
      BY <1>2, <3>1, <3>3 DEF One
    <3>5. perIp'[i] = IF conn[w].ip = i THEN perIp[i] - 1 ELSE perIp[i]
      <4>1. CASE conn[w].ip = i
        <5>1. perIp[i] > 0
          BY <1>1, <1>2, <3>3, <3>4, <4>1 DEF SlotsOf, One
        <5> QED BY <2>1, <4>1, <5>1 DEF Release, TypeOK
      <4>2. CASE conn[w].ip # i
        BY <2>1, <4>2 DEF Release, TypeOK
      <4> QED BY <4>1, <4>2
    <3> QED BY <1>1, <1>2, <2>1, <3>3, <3>4, <3>5 DEF SlotsOf, One
  <2> QED BY <2>3, <2>4
<1> QED BY <1>3, <1>4, <1>5
        DEF WorkerAdvances, Wait, TlsEnds, TlsFails, TlsAccepted, Close,
            SpuriousWakeup, SessionEnds, limits, acceptOnly

-----------------------------------------------------------------------------
(* The descriptors. *)

\* What EveryFdHasOneOwner says of a descriptor.
OwnersOf(f) ==
    Cardinality(Positions(queue, Through(f))) + Cardinality(Holding(f))
      + One(accConn.fd = f)
    = One(f \in open)

\* It says so of all.
LEMMA OwnersForm ==
    TypeOK => (EveryFdHasOneOwner <=> \A f \in Fd : OwnersOf(f))
<1> SUFFICES ASSUME TypeOK
             PROVE  EveryFdHasOneOwner <=> \A f \in Fd : OwnersOf(f)
  OBVIOUS
<1>1. queue \in Seq(Connection)
  BY DEF TypeOK
<1>2. \A f : {k \in DOMAIN queue : queue[k].fd = f} = Positions(queue, Through(f))
  BY <1>1, QueueForm
<1> QED BY <1>2 DEF EveryFdHasOneOwner, OwnersOf, Holding

\* The same of the next state.
LEMMA OwnersFormNext ==
    TypeOK' => (EveryFdHasOneOwner' <=> \A f \in Fd : OwnersOf(f)')
<1> SUFFICES ASSUME TypeOK'
             PROVE  EveryFdHasOneOwner' <=> \A f \in Fd : OwnersOf(f)'
  OBVIOUS
<1>1. queue' \in Seq(Connection)
  BY DEF TypeOK
<1>2. \A f : {k \in DOMAIN queue' : queue'[k].fd = f} = Positions(queue', Through(f))
  BY <1>1, QueueForm
<1> QED BY <1>2 DEF EveryFdHasOneOwner, OwnersOf, Holding

\* The numbers that are added up.
LEMMA OwnersNat ==
    ASSUME TypeOK, NEW f
    PROVE  /\ Cardinality(Holding(f)) \in Nat
           /\ Cardinality(Positions(queue, Through(f))) \in Nat
<1>1. \A A \in SUBSET Worker : Cardinality(A) \in Nat
  BY ConnectionPoolAssumption, CountWorkers
<1>2. queue \in Seq(Connection) /\ Holding(f) \subseteq Worker
  BY DEF TypeOK, Holding
<1> QED BY <1>1, <1>2, CountPositions

\* The accept loop opens a descriptor that is nobody's, and closes the one it
\* has in hand or hands it over.
LEMMA OwnersAcceptor ==
    ASSUME TypeOK, InHand, EveryFdHasOneOwner, TypeOK', Accept \/ AcceptorAdvances
    PROVE  EveryFdHasOneOwner'
<1> SUFFICES ASSUME NEW f \in Fd PROVE OwnersOf(f)'
  BY OwnersFormNext
<1>1. OwnersOf(f)
  BY OwnersForm
<1>2. /\ Cardinality(Holding(f)) \in Nat
      /\ Cardinality(Positions(queue, Through(f))) \in Nat
  BY OwnersNat
<1> USE <1>1, <1>2, NoConnIsNone DEF OwnersOf, One
<1>3. CASE Accept
  <2>1. Holding(f)' = Holding(f) /\ queue' = queue /\ accConn = NoConn
    BY <1>3 DEF Accept, poolOnly, Holding, InHand
  <2>2. accConn'.fd \notin open /\ open' = open \cup {accConn'.fd}
    BY <1>3 DEF Accept
  <2> QED BY <2>1, <2>2
<1>4. CASE Enqueue
  <2>1. /\ accConn \in Connection /\ queue \in Seq(Connection)
        /\ queue' = Append(queue, accConn) /\ accConn' = NoConn /\ open' = open
    BY <1>4 DEF Enqueue, InHand, TypeOK
  <2>2. Holding(f)' = Holding(f)
    BY <1>4 DEF Enqueue, poolOnly, Holding
  <2>3. Cardinality(Positions(queue', Through(f)))
          = Cardinality(Positions(queue, Through(f))) + One(accConn \in Through(f))
    BY <2>1, CountAppend
  <2>4. accConn \in Through(f) <=> accConn.fd = f
    BY <2>1 DEF Through
  <2> QED BY <2>1, <2>2, <2>3, <2>4
<1>5. CASE CloseRefused
  <2>1. Holding(f)' = Holding(f) /\ queue' = queue
    BY <1>5 DEF CloseRefused, poolOnly, Holding
  <2>2. open' = open \ {accConn.fd} /\ accConn' = NoConn
    BY <1>5 DEF CloseRefused
  <2> QED BY <2>1, <2>2
<1>6. CASE Admit \/ Refuse \/ QueueFull
  <2>1. Holding(f)' = Holding(f) /\ UNCHANGED <<queue, accConn, open>>
    BY <1>6 DEF Admit, Refuse, QueueFull, poolOnly, Holding
  <2> QED BY <2>1
<1>7. CASE Notify
  <2>1. UNCHANGED <<queue, accConn, open, conn>>
    BY <1>7 DEF Notify
  <2>2. \A w \in Worker : worker'[w] = "release" <=> worker[w] = "release"
    BY <1>7 DEF Notify, TypeOK
  <2>3. Holding(f)' = Holding(f)
    BY <2>1, <2>2 DEF Holding
  <2> QED BY <2>1, <2>3
<1> QED BY <1>3, <1>4, <1>5, <1>6, <1>7 DEF AcceptorAdvances

\* A worker takes a descriptor over from the queue, and closes it once.
LEMMA OwnersWorker ==
    ASSUME TypeOK, EveryFdHasOneOwner, TypeOK', NEW w \in Worker,
           WorkerAdvances(w) \/ SpuriousWakeup(w) \/ SessionEnds(w)
    PROVE  EveryFdHasOneOwner'
<1> SUFFICES ASSUME NEW f \in Fd PROVE OwnersOf(f)'
  BY OwnersFormNext
<1>1. OwnersOf(f)
  BY OwnersForm
<1>2. /\ Cardinality(Holding(f)) \in Nat
      /\ Cardinality(Positions(queue, Through(f))) \in Nat
  BY OwnersNat
<1>3. Holding(f) \in SUBSET Worker /\ Holding(f)' \in SUBSET Worker
  BY DEF Holding
<1>4. CASE Take(w)
  <2>1. /\ queue \in Seq(Connection) /\ queue # <<>> /\ queue' = Tail(queue)
        /\ conn' = [conn EXCEPT ![w] = Head(queue)] /\ conn[w] = NoConn
        /\ worker' = [worker EXCEPT ![w] = "tls"]
        /\ UNCHANGED <<open, accConn>>
    BY <1>4 DEF Take, Moves, TypeOK, acceptOnly
  <2>2. Head(queue) \in Connection /\ queue' \in Seq(Connection)
    BY <2>1
  <2>3. /\ Holding(f) \ {w} = Holding(f)' \ {w} /\ w \notin Holding(f)
        /\ w \in Holding(f)' <=> Head(queue).fd = f
    BY <2>1, <2>2, NoConnIsNone DEF Holding, TypeOK
  <2>4. /\ Cardinality(Holding(f)') + One(w \in Holding(f))
             = Cardinality(Holding(f)) + One(w \in Holding(f)')
        /\ Cardinality(Holding(f)') \in Nat
    BY <1>3, <2>3, CountWorkers
  <2>5. Cardinality(Positions(queue, Through(f)))
          = Cardinality(Positions(queue', Through(f))) + One(Head(queue) \in Through(f))
    BY <2>1, CountTail
  <2>6. Cardinality(Positions(queue', Through(f))) \in Nat
    BY <2>2, CountPositions
  <2>7. Head(queue) \in Through(f) <=> Head(queue).fd = f
    BY <2>2 DEF Through
  <2> QED BY <1>1, <1>2, <2>1, <2>3, <2>4, <2>5, <2>6, <2>7 DEF OwnersOf, One
<1>5. CASE Close(w)
  <2>1. /\ conn[w] # NoConn /\ worker[w] = "close" /\ worker'[w] = "release"
        /\ \A v \in Worker \ {w} : worker'[v] = worker[v]
        /\ open' = open \ {conn[w].fd}
        /\ UNCHANGED <<conn, queue, accConn>>
    BY <1>5 DEF Close, Moves, TypeOK, acceptOnly
  <2>2. /\ Holding(f) \ {w} = Holding(f)' \ {w} /\ w \notin Holding(f)'
        /\ w \in Holding(f) <=> conn[w].fd = f
    BY <2>1 DEF Holding
  <2>3. /\ Cardinality(Holding(f)') + One(w \in Holding(f))
             = Cardinality(Holding(f)) + One(w \in Holding(f)')
        /\ Cardinality(Holding(f)') \in Nat
    BY <1>3, <2>2, CountWorkers
  <2> QED BY <1>1, <1>2, <2>1, <2>2, <2>3 DEF OwnersOf, One
<1>6. CASE ReleaseSlot(w)
  <2>1. /\ worker[w] = "release" /\ conn'[w] = NoConn
        /\ \A v \in Worker \ {w} : worker'[v] = worker[v] /\ conn'[v] = conn[v]
        /\ UNCHANGED <<open, queue, accConn>>
    BY <1>6 DEF ReleaseSlot, Moves, TypeOK, acceptOnly
  <2>2. Holding(f)' = Holding(f)
    BY <2>1, NoConnIsNone DEF Holding
  <2> QED BY <1>1, <2>1, <2>2 DEF OwnersOf
<1>7. CASE Wait(w) \/ TlsEnds(w) \/ SpuriousWakeup(w) \/ SessionEnds(w)
  <2>1. UNCHANGED <<open, conn, queue, accConn>>
    BY <1>7 DEF Wait, TlsEnds, TlsFails, TlsAccepted, SpuriousWakeup,
                SessionEnds, limits, acceptOnly
  <2>2. \A v \in Worker : worker'[v] = "release" <=> worker[v] = "release"
    BY <1>7 DEF Wait, TlsEnds, TlsFails, TlsAccepted, SpuriousWakeup,
                SessionEnds, Moves, TypeOK
  <2>3. Holding(f)' = Holding(f)
    BY <2>1, <2>2 DEF Holding
  <2> QED BY <1>1, <2>1, <2>3 DEF OwnersOf
<1> QED BY <1>4, <1>5, <1>6, <1>7 DEF WorkerAdvances

-----------------------------------------------------------------------------
(* The theorems. *)

\* The empty server holds no slot and no descriptor.
LEMMA InvInit == Init => Inv
<1> SUFFICES ASSUME Init PROVE Inv
  OBVIOUS
<1>1. TypeOK /\ InHand
  BY TypeInit
<1>2. /\ \A i \in Ip : Serving(i) = {} /\ Positions(queue, From(i)) = {}
      /\ \A f \in Fd : Holding(f) = {} /\ Positions(queue, Through(f)) = {}
      /\ Busy = {}
  BY NoConnIsNone DEF Init, Serving, Holding, Busy, Positions
<1>3. Cardinality({}) = 0
  BY FS_EmptySet
<1>4. SlotsBalanced
  <2>1. SlotsTotal
    BY <1>2, <1>3 DEF Init, SlotsTotal, One
  <2>2. ASSUME NEW i \in Ip PROVE SlotsOf(perIp[i], i)
    <3>1. perIp[i] = 0 /\ acceptor # "enqueue"
      BY DEF Init
    <3> QED BY <1>2, <1>3, <3>1 DEF SlotsOf, One
  <2> QED BY <1>1, <2>1, <2>2, SlotsForm
<1>5. EveryFdHasOneOwner
  <2>1. \A f \in Fd : f \notin open /\ accConn.fd # f
    BY NoConnIsNone DEF Init
  <2>2. \A f \in Fd : OwnersOf(f)
    BY <1>2, <1>3, <2>1 DEF OwnersOf, One
  <2> QED BY <1>1, <2>2, OwnersForm
<1> QED BY <1>1, <1>4, <1>5 DEF Inv

\* Every step keeps the books.
LEMMA InvStep == Inv /\ [Next]_vars => Inv'
<1> SUFFICES ASSUME Inv, [Next]_vars PROVE Inv'
  OBVIOUS
<1> USE DEF Inv
<1>1. TypeOK' /\ InHand'
  BY TypeStep
<1>2. CASE Accept \/ AcceptorAdvances
  BY <1>1, <1>2, SlotsAcceptor, OwnersAcceptor
<1>3. ASSUME NEW w \in Worker,
             WorkerAdvances(w) \/ SpuriousWakeup(w) \/ SessionEnds(w)
      PROVE  Inv'
  BY <1>1, <1>3, SlotsWorker, OwnersWorker
<1>4. CASE UNCHANGED vars
  <2>1. SlotsBalanced' /\ EveryFdHasOneOwner'
    BY <1>4 DEF vars, SlotsBalanced, EveryFdHasOneOwner
  <2> QED BY <1>1, <2>1
<1> QED BY <1>2, <1>3, <1>4 DEF Next

\* The invariant holds throughout.
THEOREM Invariant == Spec => []Inv
  BY InvInit, InvStep, PTL DEF Spec

\* A worker is past its wait exactly while it has a connection, and the other
\* variables are well typed.
THEOREM TypeCorrect == Spec => []TypeOK
<1>1. Inv => TypeOK
  BY DEF Inv
<1> QED BY <1>1, Invariant, PTL

\* On every path of the accept loop and of the workers a connection gives its
\* slot back exactly once.
THEOREM SlotsAlwaysBalanced == Spec => []SlotsBalanced
<1>1. Inv => SlotsBalanced
  BY DEF Inv
<1> QED BY <1>1, Invariant, PTL

\* No descriptor leaks, and none is closed after the kernel has given it to
\* another client.
THEOREM OneOwner == Spec => []EveryFdHasOneOwner
<1>1. Inv => EveryFdHasOneOwner
  BY DEF Inv
<1> QED BY <1>1, Invariant, PTL

-----------------------------------------------------------------------------
(* The limits. *)

\* A limit of 0 is none.
LimitsKept ==
    /\ MaxTotal > 0 => total <= MaxTotal
    /\ MaxPerIp > 0 => \A i \in Ip : perIp[i] <= MaxPerIp
    /\ Len(queue) <= MaxPending

\* A slot is taken below the limit, and given back to a number above 0.
LEMMA LimitsStep == TypeOK /\ LimitsKept /\ [Next]_vars => LimitsKept'
<1> SUFFICES ASSUME TypeOK, LimitsKept, [Next]_vars PROVE LimitsKept'
  OBVIOUS
<1> USE ConnectionPoolAssumption DEF LimitsKept
<1>0. /\ total \in Nat /\ perIp \in [Ip -> Nat]
      /\ queue \in Seq(Connection) /\ Len(queue) \in Nat
  BY DEF TypeOK
<1>1. CASE UNCHANGED <<queue, total, perIp>>
  BY <1>1
<1>2. CASE Admit
  BY <1>0, <1>2 DEF Admit, Refuses, Acquire
<1>3. CASE Enqueue
  <2>1. accConn \in Connection \cup {NoConn}
    BY DEF TypeOK
  <2>2. Len(Append(queue, accConn)) = Len(queue) + 1
    BY <1>0
  <2> QED BY <1>0, <1>3, <2>2 DEF Enqueue
<1>4. ASSUME NEW i, Release(i), UNCHANGED queue PROVE LimitsKept'
  BY <1>0, <1>4 DEF Release
<1>5. ASSUME NEW w \in Worker, Take(w) PROVE LimitsKept'
  <2>1. Len(Tail(queue)) = Len(queue) - 1
    BY <1>0, <1>5 DEF Take
  <2> QED BY <1>0, <1>5, <2>1 DEF Take, limits
<1> QED
  BY <1>1, <1>2, <1>3, <1>4, <1>5
     DEF Next, vars, Accept, AcceptorAdvances, Refuse, QueueFull, CloseRefused,
         Notify, WorkerAdvances, TlsEnds, Wait, TlsFails, TlsAccepted, Close,
         ReleaseSlot, SpuriousWakeup, SessionEnds, limits

\* The connections that are queued, served or about to be queued, of all
\* addresses and of one.
Held == Len(queue) + Cardinality(Busy) + One(acceptor = "enqueue")
HeldBy(i) == Cardinality(Positions(queue, From(i))) + Cardinality(Serving(i))
               + One(acceptor = "enqueue" /\ accConn.ip = i)

\* However connections come and go, fail or are refused, never more of them are
\* held than the limiter allows, altogether and of one address, nor more queued
\* than HESIA_MAX_PENDING_CONNECTIONS.
THEOREM NeverOverCommitted ==
    Spec => [](/\ MaxTotal > 0 => Held <= MaxTotal
               /\ MaxPerIp > 0 => \A i \in Ip : HeldBy(i) <= MaxPerIp
               /\ Len(queue) <= MaxPending)
<1>1. Init => LimitsKept
  BY ConnectionPoolAssumption DEF Init, LimitsKept
<1>2. Inv => TypeOK
  BY DEF Inv
<1>3. Inv /\ LimitsKept
        => /\ MaxTotal > 0 => Held <= MaxTotal
           /\ MaxPerIp > 0 => \A i \in Ip : HeldBy(i) <= MaxPerIp
           /\ Len(queue) <= MaxPending
  <2> SUFFICES ASSUME Inv, LimitsKept
               PROVE  /\ total = Held
                      /\ \A i \in Ip : perIp[i] = HeldBy(i)
    BY DEF LimitsKept
  <2> QED BY <1>2, SlotsForm DEF Inv, SlotsTotal, SlotsOf, Held, HeldBy
<1> QED BY <1>1, <1>2, <1>3, LimitsStep, Invariant, PTL DEF Spec

-----------------------------------------------------------------------------
(* The wakeups. *)

Awake == {w \in Worker : worker[w] = "idle"}

\* While a worker waits, every queued connection has a worker that is on its way
\* to the queue or is about to be woken.
WakeupsSuffice ==
    (\E w \in Worker : worker[w] = "waiting")
        => Len(queue) <= Cardinality(Awake) + One(acceptor = "notify")

\* How a worker that moves changes the number of those awake.
LEMMA AwakeMoves ==
    ASSUME TypeOK, NEW w \in Worker, NEW s, worker' = [worker EXCEPT ![w] = s]
    PROVE  /\ Cardinality(Awake) \in Nat /\ Cardinality(Awake') \in Nat
           /\ Cardinality(Awake') + (IF worker[w] = "idle" THEN 1 ELSE 0)
                = Cardinality(Awake) + (IF s = "idle" THEN 1 ELSE 0)
           /\ \A v \in Worker : worker'[v] = IF v = w THEN s ELSE worker[v]
<1>1. /\ \A v \in Worker : worker'[v] = IF v = w THEN s ELSE worker[v]
  BY DEF TypeOK
<1>2. /\ Awake \in SUBSET Worker /\ Awake' \in SUBSET Worker
      /\ Awake \ {w} = Awake' \ {w}
      /\ w \in Awake <=> worker[w] = "idle"
      /\ w \in Awake' <=> s = "idle"
  BY <1>1 DEF Awake
<1>3. /\ Cardinality(Awake) \in Nat /\ Cardinality(Awake') \in Nat
      /\ Cardinality(Awake') + One(w \in Awake)
           = Cardinality(Awake) + One(w \in Awake')
  BY <1>2, CountWorkers
<1> QED BY <1>1, <1>2, <1>3 DEF One

\* No step loses a wakeup: a worker waits only with the queue empty, and who
\* queues a connection then wakes one of those that wait.
LEMMA WakeupStep == TypeOK /\ WakeupsSuffice /\ [Next]_vars => WakeupsSuffice'
<1> SUFFICES ASSUME TypeOK, WakeupsSuffice, [Next]_vars PROVE WakeupsSuffice'
  OBVIOUS
<1>0. /\ queue \in Seq(Connection) /\ Len(queue) \in Nat
      /\ Cardinality(Awake) \in Nat
  <2>1. Awake \in SUBSET Worker /\ Worker # {}
    BY ConnectionPoolAssumption DEF Awake
  <2> QED BY <2>1, CountWorkers DEF TypeOK
<1>1. ASSUME UNCHANGED <<worker, queue>>,
             acceptor = "notify" => acceptor' = "notify"
      PROVE  WakeupsSuffice'
  BY <1>0, <1>1 DEF WakeupsSuffice, Awake, One
<1>2. CASE Enqueue
  <2>1. /\ Len(queue') = Len(queue) + 1 /\ acceptor = "enqueue"
        /\ acceptor' = "notify" /\ worker' = worker
    BY <1>0, <1>2 DEF Enqueue, poolOnly
  <2> QED BY <1>0, <2>1 DEF WakeupsSuffice, Awake, One
<1>3. CASE Notify
  <2>1. CASE \A v \in Worker : worker'[v] # "waiting"
    BY <2>1 DEF WakeupsSuffice
  <2>2. ASSUME NEW w \in Worker, worker[w] = "waiting",
               worker' = [worker EXCEPT ![w] = "idle"]
        PROVE  WakeupsSuffice'
    <3>1. /\ Cardinality(Awake') \in Nat
          /\ Cardinality(Awake') + (IF worker[w] = "idle" THEN 1 ELSE 0)
               = Cardinality(Awake) + 1
      BY <2>2, AwakeMoves
    <3>2. Cardinality(Awake') = Cardinality(Awake) + 1
      BY <1>0, <2>2, <3>1 DEF One
    <3> QED BY <1>0, <1>3, <2>2, <3>2 DEF Notify, WakeupsSuffice, One
  <2> QED BY <1>3, <2>1, <2>2 DEF Notify
<1>4. ASSUME NEW w \in Worker, Take(w) PROVE WakeupsSuffice'
  <2>1. /\ Len(queue') = Len(queue) - 1 /\ acceptor' = acceptor
        /\ worker[w] = "idle" /\ worker' = [worker EXCEPT ![w] = "tls"]
    BY <1>0, <1>4 DEF Take, Moves, acceptOnly
  <2>2. /\ Cardinality(Awake') \in Nat
        /\ Cardinality(Awake') + (IF worker[w] = "idle" THEN 1 ELSE 0)
             = Cardinality(Awake) + (IF "tls" = "idle" THEN 1 ELSE 0)
        /\ \A v \in Worker : worker'[v] = IF v = w THEN "tls" ELSE worker[v]
    BY <2>1, AwakeMoves
  <2>3. Cardinality(Awake') + 1 = Cardinality(Awake)
    BY <1>0, <2>1, <2>2 DEF One
  <2>4. \A v \in Worker : worker'[v] = "waiting" => worker[v] = "waiting"
    BY <2>2
  <2> QED BY <1>0, <2>1, <2>2, <2>3, <2>4 DEF WakeupsSuffice, One
<1>5. ASSUME NEW w \in Worker, Wait(w) PROVE WakeupsSuffice'
  <2>1. Len(queue') = 0 /\ worker' = [worker EXCEPT ![w] = "waiting"]
    BY <1>5 DEF Wait, Moves
  <2>2. Cardinality(Awake') \in Nat
    BY <2>1, AwakeMoves
  <2> QED BY <2>1, <2>2 DEF WakeupsSuffice, One
<1>6. ASSUME NEW w \in Worker, worker[w] # "idle",
             NEW s \in {"idle", "session", "close", "release"},
             worker' = [worker EXCEPT ![w] = s], UNCHANGED <<queue, acceptor>>
      PROVE  WakeupsSuffice'
  <2>1. /\ Cardinality(Awake') \in Nat
        /\ Cardinality(Awake') + (IF worker[w] = "idle" THEN 1 ELSE 0)
             = Cardinality(Awake) + (IF s = "idle" THEN 1 ELSE 0)
        /\ \A v \in Worker : worker'[v] = IF v = w THEN s ELSE worker[v]
    BY <1>6, AwakeMoves
  <2>2. Cardinality(Awake') >= Cardinality(Awake)
    BY <1>0, <1>6, <2>1 DEF One
  <2>3. \A v \in Worker : worker'[v] = "waiting" => worker[v] = "waiting"
    BY <1>6, <2>1
  <2> QED BY <1>0, <1>6, <2>1, <2>2, <2>3 DEF WakeupsSuffice, One
<1>7. ASSUME NEW w \in Worker,
             \/ TlsEnds(w) \/ Close(w) \/ ReleaseSlot(w)
             \/ SpuriousWakeup(w) \/ SessionEnds(w)
      PROVE  WakeupsSuffice'
  BY <1>6, <1>7 DEF TlsEnds, TlsFails, TlsAccepted, Close, ReleaseSlot,
                    SpuriousWakeup, SessionEnds, Moves, acceptOnly
<1>8. CASE Accept \/ Admit \/ Refuse \/ QueueFull \/ CloseRefused
  BY <1>1, <1>8 DEF Accept, Admit, Refuse, QueueFull, CloseRefused, poolOnly
<1>9. CASE UNCHANGED vars
  BY <1>1, <1>9 DEF vars
<1> QED
  BY <1>2, <1>3, <1>4, <1>5, <1>7, <1>8, <1>9
     DEF Next, AcceptorAdvances, WorkerAdvances

\* No wakeup is lost between the queue's mutex and the condition variable: while
\* a worker waits, as many as there are connections queued are awake or will be.
THEOREM NoLostWakeup == Spec => []WakeupsSuffice
<1>1. Init => WakeupsSuffice
  BY DEF Init, WakeupsSuffice
<1>2. Inv => TypeOK
  BY DEF Inv
<1> QED BY <1>1, <1>2, WakeupStep, Invariant, PTL DEF Spec
=============================================================================
