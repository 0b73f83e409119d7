--------------------------- MODULE ConnectionPool ---------------------------
(***************************************************************************)
(* The server's accept loop, its ConnectionLimiter and its pool of worker  *)
(* threads (server_source/src/main.cpp).  A connection is a file           *)
(* descriptor and a client address; the kernel hands a closed descriptor   *)
(* out again.  The session itself is SecureTransport's and Handshake's     *)
(* business: here it lasts as long as it likes and returns or throws.      *)
(***************************************************************************)
EXTENDS Integers, Sequences, FiniteSets

CONSTANTS
    Worker,         \* the worker threads
    Ip,             \* client addresses
    Fd,             \* descriptors the process may have open for clients
    MaxTotal,       \* max_conn_total
    MaxPerIp,       \* max_conn_per_ip
    MaxPending      \* max_pending

\* A limit of 0 of the limiter means none; main() raises the queue's to 1.
ASSUME ConnectionPoolAssumption ==
    /\ MaxTotal \in Nat /\ MaxPerIp \in Nat
    /\ MaxPending \in Nat \ {0}
    /\ IsFiniteSet(Worker) /\ Worker # {}
    /\ "none" \notin Fd \cup Ip

VARIABLES
    open,           \* client descriptors the process holds open
    acceptor,       \* where the accept loop is
    accConn,        \* the connection it has in hand
    worker,         \* where each worker is
    conn,           \* the connection of each worker
    queue,          \* accepted connections nobody has taken
    total, perIp    \* the ConnectionLimiter

vars == <<open, acceptor, accConn, worker, conn, queue, total, perIp>>

Connection == [fd : Fd, ip : Ip]
NoConn == [fd |-> "none", ip |-> "none"]

Init ==
    /\ open = {}
    /\ acceptor = "accept" /\ accConn = NoConn
    /\ worker = [w \in Worker |-> "idle"]
    /\ conn = [w \in Worker |-> NoConn]
    /\ queue = <<>>
    /\ total = 0 /\ perIp = [i \in Ip |-> 0]

-----------------------------------------------------------------------------
(* ConnectionLimiter, under its mutex.                                     *)

Refuses(ip) ==
    \/ MaxTotal > 0 /\ total >= MaxTotal
    \/ MaxPerIp > 0 /\ perIp[ip] >= MaxPerIp

Acquire(ip) ==
    /\ total' = total + 1
    /\ perIp' = [perIp EXCEPT ![ip] = @ + 1]

Release(ip) ==
    /\ total' = IF total > 0 THEN total - 1 ELSE 0
    /\ perIp' = [perIp EXCEPT ![ip] = IF @ > 0 THEN @ - 1 ELSE 0]

-----------------------------------------------------------------------------
(* The accept loop.                                                        *)

poolOnly == <<worker, conn>>

\* accept(); a failure of it changes nothing.
Accept ==
    /\ acceptor = "accept"
    /\ \E c \in Connection :
           /\ c.fd \notin open
           /\ open' = open \cup {c.fd}
           /\ accConn' = c
    /\ acceptor' = "admit"
    /\ UNCHANGED <<queue, total, perIp, poolOnly>>

Admit ==
    /\ acceptor = "admit"
    /\ ~Refuses(accConn.ip)
    /\ Acquire(accConn.ip)
    /\ acceptor' = "enqueue"
    /\ UNCHANGED <<open, accConn, queue, poolOnly>>

Refuse ==
    /\ acceptor = "admit"
    /\ Refuses(accConn.ip)
    /\ acceptor' = "close"
    /\ UNCHANGED <<open, accConn, queue, total, perIp, poolOnly>>

Enqueue ==
    /\ acceptor = "enqueue"
    /\ Len(queue) < MaxPending
    /\ queue' = Append(queue, accConn)
    /\ acceptor' = "notify" /\ accConn' = NoConn
    /\ UNCHANGED <<open, total, perIp, poolOnly>>

\* Faulty variant: the slot of a connection that found no place is kept.
QueueFullLeaks ==
    /\ acceptor = "enqueue"
    /\ Len(queue) >= MaxPending
    /\ acceptor' = "close_locked"
    /\ UNCHANGED <<open, accConn, queue, total, perIp, poolOnly>>

\* The queue is full: with its mutex held, the slot is given back, the audit
\* log is written and the descriptor is closed.
QueueFull ==
    /\ acceptor = "enqueue"
    /\ Len(queue) >= MaxPending
    /\ Release(accConn.ip)
    /\ acceptor' = "close_locked"
    /\ UNCHANGED <<open, accConn, queue, poolOnly>>

\* Faulty variant: a refused connection is not closed.
ForgetRefused ==
    /\ acceptor \in {"close", "close_locked"}
    /\ acceptor' = "accept" /\ accConn' = NoConn
    /\ UNCHANGED <<open, queue, total, perIp, poolOnly>>

CloseRefused ==
    /\ acceptor \in {"close", "close_locked"}
    /\ open' = open \ {accConn.fd}
    /\ acceptor' = "accept" /\ accConn' = NoConn
    /\ UNCHANGED <<queue, total, perIp, poolOnly>>

\* Faulty variant: nobody is told of the connection.
NotifyNobody ==
    /\ acceptor = "notify"
    /\ acceptor' = "accept"
    /\ UNCHANGED <<open, accConn, worker, conn, queue, total, perIp>>

\* notify_one(), after the mutex is released: some waiting worker, if any.
Notify ==
    /\ acceptor = "notify"
    /\ \/ \E w \in Worker : /\ worker[w] = "waiting"
                            /\ worker' = [worker EXCEPT ![w] = "idle"]
       \/ /\ \A w \in Worker : worker[w] # "waiting"
          /\ UNCHANGED worker
    /\ acceptor' = "accept"
    /\ UNCHANGED <<open, accConn, conn, queue, total, perIp>>

-----------------------------------------------------------------------------
(* A worker.                                                               *)

acceptOnly == <<acceptor, accConn>>
limits == <<total, perIp>>

QueueMutexFree == acceptor # "close_locked"

Moves(w, from, to) == /\ worker[w] = from
                      /\ worker' = [worker EXCEPT ![w] = to]

Take(w) ==
    /\ QueueMutexFree /\ queue # <<>>
    /\ Moves(w, "idle", "tls")
    /\ conn' = [conn EXCEPT ![w] = Head(queue)]
    /\ queue' = Tail(queue)
    /\ UNCHANGED <<open, limits, acceptOnly>>

\* The predicate is looked at under the mutex that wait() then releases.
Wait(w) ==
    /\ QueueMutexFree /\ queue = <<>>
    /\ Moves(w, "idle", "waiting")
    /\ UNCHANGED <<open, conn, queue, limits, acceptOnly>>

SpuriousWakeup(w) ==
    /\ Moves(w, "waiting", "idle")
    /\ UNCHANGED <<open, conn, queue, limits, acceptOnly>>

\* SSL_new or SSL_accept fails, or the client has no certificate.
TlsFails(w) ==
    /\ Moves(w, "tls", "close")
    /\ UNCHANGED <<open, conn, queue, limits, acceptOnly>>

TlsAccepted(w) ==
    /\ Moves(w, "tls", "session")
    /\ UNCHANGED <<open, conn, queue, limits, acceptOnly>>

\* HesiaServerSession::run() returns or throws.
SessionEnds(w) ==
    /\ Moves(w, "session", "close")
    /\ UNCHANGED <<open, conn, queue, limits, acceptOnly>>

Close(w) ==
    /\ Moves(w, "close", "release")
    /\ open' = open \ {conn[w].fd}
    /\ UNCHANGED <<conn, queue, limits, acceptOnly>>

ReleaseSlot(w) ==
    /\ Moves(w, "release", "idle")
    /\ Release(conn[w].ip)
    /\ conn' = [conn EXCEPT ![w] = NoConn]
    /\ UNCHANGED <<open, queue, acceptOnly>>

-----------------------------------------------------------------------------
AcceptorAdvances == Admit \/ Refuse \/ Enqueue \/ QueueFull \/ CloseRefused
                    \/ Notify

TlsEnds(w) == TlsFails(w) \/ TlsAccepted(w)

WorkerAdvances(w) == Take(w) \/ Wait(w) \/ TlsEnds(w) \/ Close(w)
                     \/ ReleaseSlot(w)

Next == \/ Accept \/ AcceptorAdvances
        \/ \E w \in Worker : WorkerAdvances(w) \/ SpuriousWakeup(w)
                             \/ SessionEnds(w)

Spec == Init /\ [][Next]_vars

\* The threads run, TLS handshakes end, by their socket timeouts, and a mutex
\* that is released again and again is obtained in the end.  Clients need not
\* come, and sessions need not end.
FairSpec == /\ Spec
            /\ WF_vars(AcceptorAdvances)
            /\ \A w \in Worker : /\ WF_vars(TlsEnds(w) \/ Close(w) \/ ReleaseSlot(w))
                                 /\ SF_vars(Take(w) \/ Wait(w))

-----------------------------------------------------------------------------
\* Only a worker that has taken a connection is past its wait.
TypeOK ==
    /\ open \subseteq Fd
    /\ acceptor \in {"accept", "admit", "enqueue", "notify", "close",
                     "close_locked"}
    /\ accConn \in Connection \cup {NoConn}
    /\ worker \in [Worker -> {"idle", "waiting", "tls", "session", "close",
                              "release"}]
    /\ conn \in [Worker -> Connection \cup {NoConn}]
    /\ \A w \in Worker : conn[w] = NoConn <=> worker[w] \in {"idle", "waiting"}
    /\ queue \in Seq(Connection)
    /\ total \in Nat /\ perIp \in [Ip -> Nat]

One(condition) == IF condition THEN 1 ELSE 0

\* On every path, however it fails, a connection gives its slot back exactly
\* once: the counters are the numbers of connections that hold a slot, which are
\* the queue's, the workers' and the one the accept loop has just admitted.
SlotsBalanced ==
    /\ total = Len(queue) + Cardinality({w \in Worker : conn[w] # NoConn})
                 + One(acceptor = "enqueue")
    /\ \A i \in Ip :
           perIp[i] = Cardinality({k \in DOMAIN queue : queue[k].ip = i})
                        + Cardinality({w \in Worker : conn[w].ip = i})
                        + One(acceptor = "enqueue" /\ accConn.ip = i)

\* A descriptor is open while exactly one party holds it: none leaks, and none
\* is closed twice, which could close a newer client's.
EveryFdHasOneOwner ==
    \A f \in Fd :
        Cardinality({k \in DOMAIN queue : queue[k].fd = f})
          + Cardinality({w \in Worker : conn[w].fd = f /\ worker[w] # "release"})
          + One(accConn.fd = f)
        = One(f \in open)

\* No wakeup is lost: a queued connection is taken in the end unless every
\* worker is inside a session of its own.
NobodyStarvesIdly ==
    \A fd \in Fd :
        (\E i \in DOMAIN queue : queue[i].fd = fd)
            ~> \/ \A i \in DOMAIN queue : queue[i].fd # fd
               \/ \A w \in Worker : worker[w] = "session"
=============================================================================
