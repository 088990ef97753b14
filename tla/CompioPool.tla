----------------------------- MODULE CompioPool -----------------------------
(***************************************************************************)
(* The pool of the single-threaded compio runtime.  Its idle connections   *)
(* are a stack, it has no semaphore, and a connection given back is        *)
(* checked in by a detached task.  One thread runs everything: the code    *)
(* between two awaits is one step, and the RefCell is never borrowed       *)
(* across one.                                                             *)
(*                                                                         *)
(* As in module Pool a connection is reduced to whether it says that it is *)
(* broken, what its session holds and whether it is astray, and every      *)
(* exchange may fail.                                                      *)
(***************************************************************************)
EXTENDS Naturals, Sequences, FiniteSets

CONSTANTS
  Clients,        \* tasks that call get
  Conns,          \* identities of connections; bound on those open at once
  None,           \* no connection
  MaxIdle         \* opts.pool_max_idle_conn

ASSUME CompioPoolAssumption ==
  None \notin Conns /\ MaxIdle \in Nat

VARIABLES
  conns,      \* the idle connections, the top of the stack last
  pc,         \* where each client is in get
  conn,       \* the connection each client has
  check_in,   \* where the task that checks in each connection is
  session,    \* "none" for a closed connection; "clean", "used", or "tx" within a transaction
  is_broken,  \* what is_broken() says of each connection
  astray      \* answers of earlier calls are unread on it

connection == <<session, is_broken, astray>>

poolvars == <<conns, pc, conn, check_in, connection>>

Closed(k) ==
  /\ session' = [session EXCEPT ![k] = "none"]
  /\ is_broken' = [is_broken EXCEPT ![k] = FALSE]
  /\ astray' = [astray EXCEPT ![k] = FALSE]

-----------------------------------------------------------------------------
\* The loop of get up to its next await: the ping of the last connection given
\* back, or the opening of a new one.
Candidate(c, stack) ==
  IF stack # <<>>
  THEN /\ conn' = [conn EXCEPT ![c] = stack[Len(stack)]]
       /\ conns' = SubSeq(stack, 1, Len(stack) - 1)
       /\ pc' = [pc EXCEPT ![c] = "ping"]
  ELSE /\ conn' = [conn EXCEPT ![c] = None]
       /\ conns' = stack
       /\ pc' = [pc EXCEPT ![c] = "connect"]

\* Mutant: the connection stays on the stack while it is pinged.
peek(c) ==
  /\ pc[c] = "idle"
  /\ IF conns # <<>>
     THEN /\ conn' = [conn EXCEPT ![c] = conns[Len(conns)]]
          /\ pc' = [pc EXCEPT ![c] = "ping"]
     ELSE pc' = [pc EXCEPT ![c] = "connect"] /\ UNCHANGED conn
  /\ UNCHANGED <<conns, check_in, connection>>

get(c) ==
  /\ pc[c] = "idle"
  /\ Candidate(c, conns)
  /\ UNCHANGED <<check_in, connection>>

ping_ok(c) ==
  /\ pc[c] = "ping"
  /\ pc' = [pc EXCEPT ![c] = "hold"]
  /\ UNCHANGED <<conns, conn, check_in, connection>>

\* A connection that does not answer is dropped and the next one tried.
ping_failed(c) ==
  /\ pc[c] = "ping"
  /\ Closed(conn[c])
  /\ Candidate(c, conns)
  /\ UNCHANGED check_in

\* Conn::new succeeds, or its error is the result of get.
connect(c) ==
  /\ pc[c] = "connect"
  /\ \/ \E k \in Conns :
          /\ session[k] = "none"
          /\ conn' = [conn EXCEPT ![c] = k]
          /\ session' = [session EXCEPT ![k] = "clean"]
          /\ pc' = [pc EXCEPT ![c] = "hold"]
     \/ pc' = [pc EXCEPT ![c] = "idle"] /\ UNCHANGED <<conn, session>>
  /\ UNCHANGED <<conns, check_in, is_broken, astray>>

\* The future of get is dropped at one of its awaits.
cancel(c) ==
  /\ \/ pc[c] = "ping" /\ Closed(conn[c])
     \/ pc[c] = "connect" /\ UNCHANGED connection
  /\ conn' = [conn EXCEPT ![c] = None]
  /\ pc' = [pc EXCEPT ![c] = "idle"]
  /\ UNCHANGED <<conns, check_in>>

\* The client leaves temporary state, opens or ends a transaction, or abandons
\* an exchange.
use(c) ==
  /\ pc[c] = "hold" /\ ~is_broken[conn[c]]
  /\ \/ /\ \E s \in {"used", "tx"} : session' = [session EXCEPT ![conn[c]] = s]
        /\ UNCHANGED <<is_broken, astray>>
     \/ is_broken' = [is_broken EXCEPT ![conn[c]] = TRUE] /\ UNCHANGED <<session, astray>>
  /\ UNCHANGED <<conns, pc, conn, check_in>>

\* An aborted pipeline with an exec behind a sync leaves its answers unread, and
\* the connection does not notice.
lose_step(c) ==
  /\ pc[c] = "hold" /\ ~is_broken[conn[c]]
  /\ astray' = [astray EXCEPT ![conn[c]] = TRUE]
  /\ UNCHANGED <<conns, pc, conn, check_in, session, is_broken>>

\* PooledConn is dropped: a task is spawned for its connection.
drop(c) ==
  /\ pc[c] = "hold"
  /\ check_in' = [check_in EXCEPT ![conn[c]] = "start"]
  /\ conn' = [conn EXCEPT ![c] = None]
  /\ pc' = [pc EXCEPT ![c] = "idle"]
  /\ UNCHANGED <<conns, connection>>

-----------------------------------------------------------------------------
check_in_start(k) ==
  /\ check_in[k] = "start"
  /\ IF is_broken[k]
     THEN check_in' = [check_in EXCEPT ![k] = "no"] /\ Closed(k)
     ELSE /\ check_in' = [check_in EXCEPT ![k] = "discard"]
          /\ UNCHANGED connection
  /\ UNCHANGED <<conns, pc, conn>>

\* The connection is kept, or dropped when there are enough.
push(k) ==
  IF Len(conns) < MaxIdle
  THEN /\ conns' = Append(conns, k)
       /\ session' = [session EXCEPT ![k] = IF @ = "tx" THEN @ ELSE "clean"]
       /\ UNCHANGED <<is_broken, astray>>
  ELSE UNCHANGED conns /\ Closed(k)

\* DISCARD ALL fails inside a transaction, and whenever the peer is gone; but a
\* connection astray reads the answer of an earlier call.
discard_all(k) ==
  /\ check_in[k] = "discard"
  /\ check_in' = [check_in EXCEPT ![k] = "no"]
  /\ \/ (session[k] # "tx" \/ astray[k]) /\ push(k)
     \/ Closed(k) /\ UNCHANGED conns
  /\ UNCHANGED <<pc, conn>>

-----------------------------------------------------------------------------
CompioPoolInit ==
  /\ conns = <<>>
  /\ pc = [c \in Clients |-> "idle"] /\ conn = [c \in Clients |-> None]
  /\ check_in = [k \in Conns |-> "no"]
  /\ session = [k \in Conns |-> "none"] /\ is_broken = [k \in Conns |-> FALSE]
  /\ astray = [k \in Conns |-> FALSE]

CompioPoolNext ==
  \/ \E c \in Clients : \/ get(c) \/ ping_ok(c) \/ ping_failed(c) \/ connect(c)
                        \/ cancel(c) \/ use(c) \/ lose_step(c) \/ drop(c)
  \/ \E k \in Conns : check_in_start(k) \/ discard_all(k)

CompioPoolSpec == CompioPoolInit /\ [][CompioPoolNext]_poolvars

-----------------------------------------------------------------------------
CPTypeOK ==
  /\ conns \in Seq(Conns) /\ Len(conns) <= MaxIdle
  /\ pc \in [Clients -> {"idle", "ping", "connect", "hold"}]
  /\ conn \in [Clients -> Conns \cup {None}]
  /\ check_in \in [Conns -> {"no", "start", "discard"}]
  /\ session \in [Conns -> {"none", "clean", "used", "tx"}]
  /\ is_broken \in [Conns -> BOOLEAN] /\ astray \in [Conns -> BOOLEAN]

Idle(k) == \E i \in DOMAIN conns : conns[i] = k

Holders(k) == {c \in Clients : conn[c] = k}

Place(k) ==
  IF session[k] = "none" THEN "closed"
  ELSE IF check_in[k] # "no" THEN "back"
  ELSE IF Idle(k) THEN "idle" ELSE "out"

Clean(k) == session[k] = "clean" /\ ~is_broken[k] /\ ~astray[k]

Contract == INSTANCE PoolContract WITH
  place   <- [k \in Conns |-> Place(k)],
  holders <- [k \in Conns |-> Holders(k)],
  clean   <- [k \in Conns |-> Clean(k)]

(***************************************************************************)
(* The pool keeps the contract: a connection is lent to one client at a    *)
(* time; unless a client left it astray it comes back only through a       *)
(* DISCARD ALL that succeeded and is lent only clean; and the pool itself  *)
(* leads none astray, whatever fails or is cancelled between.              *)
(***************************************************************************)
KeepsContract == Contract!ContractSpec
=============================================================================
