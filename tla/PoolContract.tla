---------------------------- MODULE PoolContract ----------------------------
(***************************************************************************)
(* What a connection pool promises, whatever runtime it is for: a          *)
(* connection is with one client or with the pool, never both; it comes    *)
(* back through the pool's reset before anyone else gets it; and it is     *)
(* lent out only clean.  The drivers have ways to leave a connection out   *)
(* of step with the server and not say so: such a connection is astray,    *)
(* its reset may seem to succeed, and it is kept and lent as it is.  Only  *)
(* its client can lead it astray, nothing the pool does, and nothing of it *)
(* is left when it is closed.                                              *)
(***************************************************************************)
CONSTANTS Clients, Conns

VARIABLES
  place,    \* of each connection: closed, idle, out (with a get or a client), back
  holders,  \* of each connection: the clients that have it
  clean,    \* of each connection: usable, and its session as a fresh one's
  astray    \* of each connection: out of step, although its driver does not know

contract == <<place, holders, clean, astray>>

ContractInit ==
  /\ place = [k \in Conns |-> "closed"]
  /\ holders = [k \in Conns |-> {}]
  /\ clean = [k \in Conns |-> FALSE]
  /\ astray = [k \in Conns |-> FALSE]

Move(k, from, to, who) ==
  /\ place[k] = from
  /\ place' = [place EXCEPT ![k] = to]
  /\ holders' = [holders EXCEPT ![k] = who]

\* Only the session of k may change.
Only(k) == \A j \in Conns \ {k} : clean'[j] = clean[j] /\ astray'[j] = astray[j]

Open(c, k) ==
  /\ Move(k, "closed", "out", {c}) /\ ~astray[k]
  /\ clean' = [clean EXCEPT ![k] = TRUE] /\ UNCHANGED astray

\* What a get may lend.
Fit(k) == clean[k] \/ astray[k]

Lend(c, k) == Fit(k) /\ Move(k, "idle", "out", {c}) /\ UNCHANGED <<clean, astray>>

\* Only its holder uses a connection.
Use(k) == place[k] = "out" /\ Only(k) /\ UNCHANGED <<place, holders>>

GiveBack(k) == Move(k, "out", "back", {}) /\ UNCHANGED <<clean, astray>>

\* Nothing but a reset connection is kept, if it is in step.
Keep(k) ==
  /\ Move(k, "back", "idle", {})
  /\ clean' = [clean EXCEPT ![k] = ~astray[k]] /\ UNCHANGED astray

Gone(k) ==
  clean' = [clean EXCEPT ![k] = FALSE] /\ astray' = [astray EXCEPT ![k] = FALSE]

Discard(k) ==
  /\ \E from \in {"out", "back"} : Move(k, from, "closed", {})
  /\ Gone(k)

\* A get that drops a dead connection may have the next one in the same step.
Replace(c, j, k) ==
  /\ place[j] = "out" /\ holders[j] = {c} /\ place[k] = "idle" /\ Fit(k)
  /\ place' = [place EXCEPT ![j] = "closed", ![k] = "out"]
  /\ holders' = [holders EXCEPT ![j] = {}, ![k] = {c}]
  /\ Gone(j)

ContractNext ==
  \E k \in Conns :
    \/ \E c \in Clients : Open(c, k) \/ Lend(c, k) \/ \E j \in Conns : Replace(c, j, k)
    \/ Use(k) \/ GiveBack(k) \/ Keep(k) \/ Discard(k)

ContractSpec == ContractInit /\ [][ContractNext]_contract
=============================================================================
