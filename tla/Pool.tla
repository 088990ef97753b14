-------------------------------- MODULE Pool --------------------------------
(***************************************************************************)
(* The connection pools: tokio::Pool and, when blocking, sync::Pool.       *)
(*                                                                         *)
(* Clients take a permit, then an idle connection that answers a ping, or  *)
(* a new one.  Giving a connection back runs check_in: in a task of its    *)
(* own (tokio), or inline before the permit is released (sync).            *)
(*                                                                         *)
(* A connection is reduced to what the pool depends on: whether it says    *)
(* that it is broken, what its session holds, and whether a client left it *)
(* out of step without a mark (astray), as runs sync_conn_unmarked and     *)
(* pool_stray show.  What a connection that is behind reads instead of its *)
(* own answer is free.  Peers may die at any moment: every exchange of the *)
(* pool may fail.                                                          *)
(***************************************************************************)
EXTENDS Naturals, Sequences, FiniteSets

CONSTANTS
  Clients,         \* tasks or threads that call get
  Conns,           \* identities of connections; bound on those open at once
  None,            \* no connection
  MaxIdle,         \* opts.pool_max_idle_conn
  MaxConcurrency   \* opts.pool_max_concurrency, when there is one

\* ArrayQueue::new panics when its capacity is zero.
ASSUME PoolAssumption ==
  /\ IsFiniteSet(Clients) /\ IsFiniteSet(Conns) /\ None \notin Conns
  /\ MaxIdle \in Nat \ {0} /\ MaxConcurrency \in Nat \ {0}

VARIABLES
  blocking,   \* the pool is a sync::Pool
  permits,    \* free permits of the semaphore
  waiters,    \* clients waiting for one, oldest first
  conns,      \* the idle connections, oldest first
  pc,         \* where each client is in get or drop
  conn,       \* the connection each client has
  check_in,   \* where each connection is in check_in
  session,    \* "none" for a closed connection; "clean", "used", or "tx" within a transaction
  is_broken,  \* what is_broken() says of each connection
  astray      \* "behind": answers of earlier calls are unread; "deaf": the server skips to a Sync

connection == <<session, is_broken, astray>>

poolvars == <<permits, waiters, conns, pc, conn, check_in, connection>>

\* The driver is chosen once.
allvars == <<blocking, poolvars>>

Steps == {"idle", "acquire", "pop", "ping", "connect", "hold", "check_in", "release"}

\* The clients that hold a permit.
HasPermit == {c \in Clients : pc[c] \notin {"idle", "acquire"}}

Closed(k) ==
  /\ session' = [session EXCEPT ![k] = "none"]
  /\ is_broken' = [is_broken EXCEPT ![k] = FALSE]
  /\ astray' = [astray EXCEPT ![k] = {}]

\* A call reads an answer, be it that of an earlier one; a deaf connection that has
\* nothing left to read waits for ever, or until its peer dies.
HasAnswer(k) == astray[k] # {"deaf"}

\* What a call leaves unread: as many answers as it found, but one less when the
\* server does not answer it.
LeavesUnread(k, left) ==
  left = astray[k] \/ (astray[k] = {"behind", "deaf"} /\ left = {"deaf"})

-----------------------------------------------------------------------------
\* get is called: wait for a permit.
get(c) ==
  /\ pc[c] = "idle"
  /\ pc' = [pc EXCEPT ![c] = "acquire"]
  /\ waiters' = Append(waiters, c)
  /\ UNCHANGED <<permits, conns, conn, check_in, connection>>

\* c no longer waits.
LeaveQueue(c) ==
  \E i \in DOMAIN waiters :
    /\ waiters[i] = c
    /\ waiters' = SubSeq(waiters, 1, i - 1) \o SubSeq(waiters, i + 1, Len(waiters))

\* tokio's semaphore is fair, the condition variable of the blocking one is not.
acquire(c) ==
  /\ pc[c] = "acquire" /\ permits > 0
  /\ blocking \/ Head(waiters) = c
  /\ LeaveQueue(c)
  /\ permits' = permits - 1
  /\ pc' = [pc EXCEPT ![c] = "pop"]
  /\ UNCHANGED <<conns, conn, check_in, connection>>

\* The oldest idle connection is pinged; without one a new one is opened.
pop(c) ==
  /\ pc[c] = "pop"
  /\ IF conns # <<>>
     THEN /\ conn' = [conn EXCEPT ![c] = Head(conns)]
          /\ conns' = Tail(conns)
          /\ pc' = [pc EXCEPT ![c] = "ping"]
     ELSE /\ pc' = [pc EXCEPT ![c] = "connect"]
          /\ UNCHANGED <<conn, conns>>
  /\ UNCHANGED <<permits, waiters, check_in, connection>>

\* The ping reads a success, or the connection is dropped and the next one tried.
ping(c) ==
  /\ pc[c] = "ping"
  /\ \/ /\ HasAnswer(conn[c])
        /\ \E left \in SUBSET {"behind", "deaf"} :
             LeavesUnread(conn[c], left) /\ astray' = [astray EXCEPT ![conn[c]] = left]
        /\ pc' = [pc EXCEPT ![c] = "hold"]
        /\ UNCHANGED <<conn, session, is_broken>>
     \/ /\ pc' = [pc EXCEPT ![c] = "pop"]
        /\ Closed(conn[c])
        /\ conn' = [conn EXCEPT ![c] = None]
  /\ UNCHANGED <<permits, waiters, conns, check_in>>

\* Mutant: as in the blocking pool.
PermitLost == permits

\* The permit of a get that fails: released with the future, not by the blocking pool.
PermitOfFailedGet == IF blocking THEN permits ELSE permits + 1

connect(c) ==
  /\ pc[c] = "connect"
  /\ \/ \E k \in Conns :
          /\ session[k] = "none"
          /\ conn' = [conn EXCEPT ![c] = k]
          /\ session' = [session EXCEPT ![k] = "clean"]
          /\ pc' = [pc EXCEPT ![c] = "hold"]
          /\ permits' = permits
     \/ /\ pc' = [pc EXCEPT ![c] = "idle"]
        /\ permits' = PermitOfFailedGet
        /\ UNCHANGED <<conn, session>>
  /\ UNCHANGED <<waiters, conns, check_in, is_broken, astray>>

\* The future of get is dropped at one of its awaits.
cancel(c) ==
  /\ ~blocking
  /\ \/ /\ pc[c] = "acquire"
        /\ LeaveQueue(c)
        /\ UNCHANGED <<permits, conn, connection>>
     \/ /\ pc[c] = "ping"
        /\ Closed(conn[c])
        /\ conn' = [conn EXCEPT ![c] = None]
        /\ permits' = permits + 1
        /\ UNCHANGED waiters
     \/ /\ pc[c] = "connect"
        /\ permits' = permits + 1
        /\ UNCHANGED <<waiters, conn, connection>>
  /\ pc' = [pc EXCEPT ![c] = "idle"]
  /\ UNCHANGED <<conns, check_in>>

\* The client uses the connection: it leaves temporary state, or opens or ends a
\* transaction; or it abandons an exchange, or the peer dies.
use(c) ==
  /\ pc[c] = "hold"
  /\ ~is_broken[conn[c]]
  /\ \/ /\ "deaf" \notin astray[conn[c]]
        /\ \E s \in {"used", "tx"} : session' = [session EXCEPT ![conn[c]] = s]
        /\ UNCHANGED <<is_broken, astray>>
     \/ /\ is_broken' = [is_broken EXCEPT ![conn[c]] = TRUE]
        /\ UNCHANGED <<session, astray>>
  /\ UNCHANGED <<permits, waiters, conns, pc, conn, check_in>>

\* The client leaves an exchange unfinished and the connection does not notice:
\* a blocking call returns its handler's error with ReadyForQuery unread, or an
\* exec_portal the error of its Bind without a Sync (which lowlevel_sync sends);
\* a pipeline of any driver has an exec behind the sync of an aborted one.  Later calls
\* stay as far behind.
lose_step(c) ==
  /\ pc[c] = "hold"
  /\ ~is_broken[conn[c]]
  /\ \E left \in SUBSET {"behind", "deaf"} :
       /\ \/ HasAnswer(conn[c]) /\ left = astray[conn[c]] \cup {"behind"}
          \/ blocking /\ HasAnswer(conn[c]) /\ left = astray[conn[c]] \cup {"deaf"}
          \/ blocking /\ left = astray[conn[c]] \ {"deaf"}
          \/ HasAnswer(conn[c]) /\ LeavesUnread(conn[c], left)
       /\ astray' = [astray EXCEPT ![conn[c]] = left]
  /\ UNCHANGED <<permits, waiters, conns, pc, conn, check_in, session, is_broken>>

-----------------------------------------------------------------------------
\* Mutant: the permit is released when check_in begins.
ReleaseFirst(c) ==
  /\ permits' = permits + 1
  /\ pc' = [pc EXCEPT ![c] = "idle"]
  /\ conn' = [conn EXCEPT ![c] = None]

\* Mutant: the permit is never released.
KeepPermit(c) ==
  /\ permits' = permits
  /\ pc' = [pc EXCEPT ![c] = "idle"]
  /\ conn' = [conn EXCEPT ![c] = None]

\* What happens to the client and its permit while the connection is checked in.
GiveBack(c) ==
  IF blocking
  THEN pc' = [pc EXCEPT ![c] = "check_in"] /\ UNCHANGED <<permits, conn>>
  ELSE /\ permits' = permits + 1
       /\ pc' = [pc EXCEPT ![c] = "idle"]
       /\ conn' = [conn EXCEPT ![c] = None]

\* PooledConn is dropped.
drop(c) ==
  /\ pc[c] = "hold"
  /\ check_in' = [check_in EXCEPT ![conn[c]] = "start"]
  /\ GiveBack(c)
  /\ UNCHANGED <<waiters, conns, connection>>

\* check_in of k is over; the blocking drop goes on to release its permit.
CheckedIn(k) ==
  /\ check_in' = [check_in EXCEPT ![k] = "no"]
  /\ pc' = [c \in Clients |-> IF conn[c] = k THEN "release" ELSE pc[c]]
  /\ conn' = [c \in Clients |-> IF conn[c] = k THEN None ELSE conn[c]]

\* A broken connection is dropped, any other one is sent DISCARD ALL.
check_in_start(k) ==
  /\ check_in[k] = "start"
  /\ IF is_broken[k]
     THEN CheckedIn(k) /\ Closed(k)
     ELSE /\ check_in' = [check_in EXCEPT ![k] = "discard"]
          /\ UNCHANGED <<pc, conn, connection>>
  /\ UNCHANGED <<permits, waiters, conns>>

\* What DISCARD ALL makes of the session: nothing when the server skips it, or
\* inside a transaction, where it is an error.
Reset(k) == IF "deaf" \in astray[k] \/ session[k] = "tx" THEN session[k] ELSE "clean"

\* The connection joins the idle ones, or is dropped when there are enough.
push(k) ==
  IF Len(conns) < MaxIdle
  THEN /\ conns' = Append(conns, k)
       /\ session' = [session EXCEPT ![k] = Reset(k)]
       /\ \E left \in SUBSET {"behind", "deaf"} :
            LeavesUnread(k, left) /\ astray' = [astray EXCEPT ![k] = left]
       /\ UNCHANGED is_broken
  ELSE UNCHANGED conns /\ Closed(k)

\* Mutant: the result of DISCARD ALL is not looked at.
PushAnyway(k) ==
  IF Len(conns) < MaxIdle
  THEN conns' = Append(conns, k) /\ UNCHANGED connection
  ELSE UNCHANGED conns /\ Closed(k)

\* DISCARD ALL failed: the connection is dropped.
discard_failed(k) == Closed(k) /\ UNCHANGED conns

\* The answer read for DISCARD ALL may be a success: its own unless it ran inside a
\* transaction, or that of an earlier call.
ReadsSuccess(k) == IF astray[k] = {} THEN session[k] # "tx" ELSE HasAnswer(k)

discard_all(k) ==
  /\ check_in[k] = "discard"
  /\ CheckedIn(k)
  /\ (ReadsSuccess(k) /\ push(k)) \/ discard_failed(k)
  /\ UNCHANGED <<permits, waiters>>

\* The blocking drop releases the permit.
release(c) ==
  /\ pc[c] = "release"
  /\ permits' = permits + 1
  /\ pc' = [pc EXCEPT ![c] = "idle"]
  /\ UNCHANGED <<waiters, conns, conn, check_in, connection>>

-----------------------------------------------------------------------------
PoolInit ==
  /\ blocking \in BOOLEAN
  /\ permits = MaxConcurrency /\ waiters = <<>> /\ conns = <<>>
  /\ pc = [c \in Clients |-> "idle"] /\ conn = [c \in Clients |-> None]
  /\ check_in = [k \in Conns |-> "no"]
  /\ session = [k \in Conns |-> "none"] /\ is_broken = [k \in Conns |-> FALSE]
  /\ astray = [k \in Conns |-> {}]

PoolNext ==
  /\ \/ \E c \in Clients :
          \/ get(c) \/ acquire(c) \/ pop(c) \/ ping(c) \/ connect(c) \/ cancel(c)
          \/ use(c) \/ lose_step(c) \/ drop(c) \/ release(c)
     \/ \E k \in Conns : check_in_start(k) \/ discard_all(k)
  /\ UNCHANGED blocking

(***************************************************************************)
(* With tokio the runtime polls every task that can go on, the server      *)
(* answers or the connection fails, and clients give their connections     *)
(* back in the end.  A blocking pool may wait for ever for a connection    *)
(* that is deaf: nothing is assumed of it.                                 *)
(***************************************************************************)
PoolFairness ==
  /\ \A c \in Clients : /\ WF_poolvars(~blocking /\ acquire(c))
                        /\ WF_poolvars(~blocking /\ pop(c))
                        /\ WF_poolvars(~blocking /\ ping(c))
                        /\ WF_poolvars(~blocking /\ connect(c))
                        /\ WF_poolvars(~blocking /\ drop(c))
  /\ \A k \in Conns : /\ WF_poolvars(~blocking /\ check_in_start(k))
                      /\ WF_poolvars(~blocking /\ discard_all(k))

PoolSpec == PoolInit /\ [][PoolNext]_allvars

FairPoolSpec == PoolSpec /\ PoolFairness

-----------------------------------------------------------------------------
PoolTypeOK ==
  /\ blocking \in BOOLEAN /\ permits \in Nat
  /\ waiters \in Seq(Clients)
  /\ conns \in Seq(Conns) /\ Len(conns) <= MaxIdle
  /\ pc \in [Clients -> Steps]
  /\ conn \in [Clients -> Conns \cup {None}]
  /\ check_in \in [Conns -> {"no", "start", "discard"}]
  /\ session \in [Conns -> {"none", "clean", "used", "tx"}]
  /\ is_broken \in [Conns -> BOOLEAN]
  /\ astray \in [Conns -> SUBSET {"behind", "deaf"}]

\* The permits, those that clients hold included.
AllPermits == permits + Cardinality(HasPermit)

(***************************************************************************)
(* No permit of the tokio pool is lost or made up, whatever failed or was  *)
(* cancelled between get and drop; the blocking pool makes up none.        *)
(***************************************************************************)
PermitsConserved ==
  /\ ~blocking => AllPermits = MaxConcurrency
  /\ AllPermits <= MaxConcurrency

\* Where each connection is, for module PoolContract.  A blocking drop still runs
\* in its client, but the connection is the pool's again.
Holders(k) == {c \in Clients : conn[c] = k /\ pc[c] # "check_in"}

Idle(k) == \E i \in DOMAIN conns : conns[i] = k

Place(k) ==
  IF session[k] = "none" THEN "closed"
  ELSE IF check_in[k] # "no" THEN "back"
  ELSE IF Idle(k) THEN "idle" ELSE "out"

Astray(k) == astray[k] # {}

Clean(k) == session[k] = "clean" /\ ~is_broken[k] /\ ~Astray(k)

Contract == INSTANCE PoolContract WITH
  place   <- [k \in Conns |-> Place(k)],
  holders <- [k \in Conns |-> Holders(k)],
  clean   <- [k \in Conns |-> Clean(k)],
  astray  <- [k \in Conns |-> Astray(k)]

(***************************************************************************)
(* Both pools keep the contract: a connection is lent to one client at a   *)
(* time; unless a client left it astray it comes back only through a       *)
(* DISCARD ALL that succeeded and is lent only clean; and the pool itself  *)
(* leads none astray, whatever fails or is cancelled between.              *)
(***************************************************************************)
KeepsContract == Contract!ContractSpec

(***************************************************************************)
(* What check_in of the blocking pool is for: only a connection that was   *)
(* reset waits for the next get.  A connection astray refutes it: DISCARD  *)
(* ALL reads the answer of an earlier call, the connection is kept, and    *)
(* the ping of the next get reads that of DISCARD ALL.                     *)
(***************************************************************************)
IdleIsClean == blocking => \A k \in Conns : Idle(k) => Clean(k)

(***************************************************************************)
(* pool_max_concurrency bounds the connections of the blocking pool that   *)
(* are open or being opened, idle ones included, although only gets take   *)
(* permits.  The tokio pool exceeds it: drop releases the permit while     *)
(* check_in still has the connection.                                      *)
(***************************************************************************)
ConcurrencyBound ==
  LET open    == {k \in Conns : session[k] # "none"}
      opening == {c \in Clients : pc[c] = "connect"}
  IN  blocking => Cardinality(open) + Cardinality(opening) <= MaxConcurrency

(***************************************************************************)
(* No get of the tokio pool waits forever for a permit: each gets one or   *)
(* is cancelled, because every permit comes back.                          *)
(***************************************************************************)
WaiterServed == \A c \in Clients : ~blocking /\ pc[c] = "acquire" ~> pc[c] # "acquire"
=============================================================================
