---------------------------- MODULE Transaction ----------------------------
(***************************************************************************)
(* transaction() and the Transaction handle it gives to its closure.       *)
(*                                                                         *)
(* The connection underneath is taken as module Session describes it: an   *)
(* exchange completes and leaves transaction_status equal to the server's, *)
(* or is cut short (lost peer, dropped future) and leaves a connection on  *)
(* which every later call is refused.  Each connection runs at most one    *)
(* transaction() at a time; the closure of one may hold other connections. *)
(*                                                                         *)
(* A statement is a numbered write, so that what became durable can be     *)
(* compared with what the closure was told.  BEGIN, COMMIT and ROLLBACK    *)
(* sent as plain SQL text are modelled; savepoints are not.                *)
(***************************************************************************)
EXTENDS Naturals, FiniteSets

CONSTANTS
  Conns,          \* the connections the program holds
  connection_id,  \* their ids: the server's process id, 0 when it sent none
  MaxWrites       \* bound: statements per closure, of each connection

ASSUME TransactionAssumption ==
  /\ connection_id \in [Conns -> Nat]
  /\ MaxWrites \in [Conns -> Nat]

VARIABLES
  transaction_status, \* the client's copy of the server's status
  usable,             \* ensure_usable succeeds
  server_tx,          \* the server's transaction status
  work,               \* writes of the open block, not yet durable
  durable,            \* writes of the current transaction() made durable
  done,               \* writes reported to its closure as successful
  issued,             \* number of writes it issued
  at,                 \* idle, begin, closure, commit, rollback
  cmd,                \* the command of the exchange in progress
  tx,                 \* the closure still owns its Transaction
  ret,                \* what the closure returned
  result,             \* what transaction() returned
  ended_by,           \* ghost: whose closures ended the block, by hand or by handle
  told                \* ghost: the closure was told of a server error

txvars == <<transaction_status, usable, server_tx, work, durable, done, issued, at, cmd, tx,
            ret, result, ended_by, told>>

local == <<at, tx, ret, result, ended_by, told, done, issued>>

Commands == {"BEGIN", "COMMIT", "ROLLBACK", "STMT", "PORTAL"}

Set(f, c, v) == [f EXCEPT ![c] = v]

-----------------------------------------------------------------------------
\* The server: what a command may do in status s with writes k pending.
Outcome(ok, s, pending, kept) == [ok |-> ok, tx |-> s, work |-> pending, kept |-> kept]

Outcomes(q, w, s, k) ==
  CASE q = "BEGIN"    -> IF s = "E" THEN {Outcome(FALSE, "E", k, {})}
                         ELSE {Outcome(TRUE, "T", k, {}),
                               Outcome(FALSE, IF s = "T" THEN "E" ELSE "I", k, {})}
    [] q = "COMMIT"   -> IF s = "T" THEN {Outcome(TRUE, "I", {}, k), Outcome(FALSE, "I", {}, {})}
                         ELSE {Outcome(TRUE, "I", {}, {})}
    [] q = "ROLLBACK" -> {Outcome(TRUE, "I", {}, {})}
    [] q = "STMT"     -> CASE s = "I" -> {Outcome(TRUE, "I", {}, {w}), Outcome(FALSE, "I", {}, {})}
                           [] s = "T" -> {Outcome(TRUE, "T", k \cup {w}, {}), Outcome(FALSE, "E", k, {})}
                           [] OTHER   -> {Outcome(FALSE, "E", k, {})}
    [] OTHER          -> CASE s = "I" -> {Outcome(TRUE, "I", k, {}), Outcome(FALSE, "I", k, {})}
                           [] s = "T" -> {Outcome(TRUE, "T", k, {}), Outcome(FALSE, "E", k, {})}
                           [] OTHER   -> {Outcome(FALSE, "E", k, {})}

Apply(c, o) ==
  /\ server_tx' = Set(server_tx, c, o.tx)
  /\ work' = Set(work, c, o.work)
  /\ durable' = Set(durable, c, durable[c] \cup o.kept)

Possible(c) == Outcomes(cmd[c], issued[c], server_tx[c], work[c])

-----------------------------------------------------------------------------
\* Mutant: a failed block is not looked at.
in_active_transaction(c) == transaction_status[c] = "T"

in_transaction(c) == transaction_status[c] \in {"T", "E"}

\* No call is in progress and ensure_usable lets a new one through.
Ready(c) == cmd[c] = "none" /\ usable[c]

Issue(c, q) == Ready(c) /\ cmd' = Set(cmd, c, q)

\* transaction(): unless nested, BEGIN.
transaction(c) ==
  /\ at[c] = "idle"
  /\ ~in_transaction(c)
  /\ Issue(c, "BEGIN")
  /\ at' = Set(at, c, "begin")
  /\ durable' = Set(durable, c, {}) /\ done' = Set(done, c, {}) /\ issued' = Set(issued, c, 0)
  /\ ret' = Set(ret, c, "none") /\ result' = Set(result, c, "none")
  /\ ended_by' = Set(ended_by, c, {}) /\ told' = Set(told, c, FALSE)
  /\ UNCHANGED <<transaction_status, usable, server_tx, work, tx>>

\* The closure runs a statement.
statement(c) ==
  /\ at[c] = "closure" /\ issued[c] < MaxWrites[c]
  /\ Issue(c, "STMT")
  /\ issued' = Set(issued, c, issued[c] + 1)
  /\ UNCHANGED <<transaction_status, usable, server_tx, work, durable, done, at, tx, ret,
                 result, ended_by, told>>

\* BEGIN, COMMIT or ROLLBACK as plain text, inside a closure or outside.
query(c, q) ==
  /\ at[c] \in {"idle", "closure"}
  /\ Issue(c, q)
  /\ ended_by' = IF at[c] = "closure" /\ q # "BEGIN" THEN Set(ended_by, c, ended_by[c] \cup {c})
                 ELSE ended_by
  /\ result' = Set(result, c, "none")
  /\ UNCHANGED <<transaction_status, usable, server_tx, work, durable, done, issued, at, tx,
                 ret, told>>

\* Mutant: the handle works on any connection.
any_connection(c, d) == TRUE

\* The handle made by c's transaction() is accepted with connection d.
same_connection(c, d) == connection_id[c] = connection_id[d]

\* commit(self, d) and rollback(self, d) consume the handle, mismatch or not.
EndBlock(c, d, q) ==
  /\ at[c] = "closure" /\ tx[c]
  /\ tx' = Set(tx, c, FALSE)
  /\ IF same_connection(c, d)
     THEN /\ at[d] \in {"idle", "closure"}
          /\ Issue(d, q)
          /\ ended_by' = IF at[d] = "closure" THEN Set(ended_by, d, ended_by[d] \cup {c})
                         ELSE ended_by
          /\ result' = Set(result, d, "none")
     ELSE UNCHANGED <<cmd, ended_by, result>>
  /\ UNCHANGED <<transaction_status, usable, server_tx, work, durable, done, issued, at, ret,
                 told>>

tx_commit(c, d)   == EndBlock(c, d, "COMMIT")
tx_rollback(c, d) == EndBlock(c, d, "ROLLBACK")

\* exec_portal_named: the Bind of a named portal, without Sync.
exec_portal_named(c, d) ==
  /\ at[c] = "closure" /\ tx[c]
  /\ same_connection(c, d)
  /\ at[d] = "closure"
  /\ Issue(d, "PORTAL")
  /\ UNCHANGED <<transaction_status, usable, server_tx, work, durable, local>>

-----------------------------------------------------------------------------
\* transaction() returns v.
Returns(c, v) ==
  /\ at' = Set(at, c, "idle") /\ result' = Set(result, c, v) /\ tx' = Set(tx, c, FALSE)

\* What follows an exchange that ended well or with an error.
Continue(c, ok) ==
  /\ done' = IF ok /\ cmd[c] = "STMT" /\ at[c] = "closure"
             THEN Set(done, c, done[c] \cup {issued[c]}) ELSE done
  /\ CASE at[c] = "begin" /\ ok -> /\ at' = Set(at, c, "closure") /\ tx' = Set(tx, c, TRUE)
                                   /\ UNCHANGED result
       [] at[c] = "begin" /\ ~ok -> Returns(c, "Err")
       [] at[c] = "commit"       -> Returns(c, IF ok THEN "Ok" ELSE "Err")
       [] at[c] = "rollback"     -> Returns(c, "Err")
       [] OTHER                  -> UNCHANGED <<at, tx, result>>

\* Mutant: the status of ReadyForQuery is not taken over.
StatusKept(c, o) == transaction_status[c]

StatusAfter(c, o) == o.tx

\* The exchange runs to its ReadyForQuery.  Bind has none: its error leaves the
\* connection unusable and the status as it was.
Complete(c) ==
  /\ cmd[c] # "none"
  /\ cmd' = Set(cmd, c, "none")
  /\ \E o \in Possible(c) :
       /\ Apply(c, o)
       /\ IF cmd[c] = "PORTAL"
          THEN /\ usable' = Set(usable, c, o.ok)
               /\ UNCHANGED transaction_status
          ELSE /\ transaction_status' = Set(transaction_status, c, StatusAfter(c, o))
               /\ UNCHANGED usable
       /\ told' = Set(told, c, told[c] \/ (at[c] = "closure" /\ ~o.ok))
       /\ Continue(c, o.ok)
  /\ UNCHANGED <<issued, ret, ended_by>>

\* Whether the server acted on the exchange cut short is not known.
Unanswered(c) ==
  /\ \/ \E o \in Possible(c) : Apply(c, o)
     \/ UNCHANGED <<server_tx, work, durable>>
  /\ usable' = Set(usable, c, FALSE)
  /\ cmd' = Set(cmd, c, "none")

\* The exchange fails with a connection error, or the closure drops its future.
CutShort(c) ==
  /\ cmd[c] # "none"
  /\ Unanswered(c)
  /\ Continue(c, FALSE)
  /\ UNCHANGED <<transaction_status, issued, ret, ended_by, told>>

\* Mutant: the block is committed whatever the closure says.
CommitAlways(v) == "COMMIT"

FinalCommand(v) == IF v = "Ok" THEN "COMMIT" ELSE "ROLLBACK"

\* The closure returns v: transaction() ends a block that is still open, and
\* returns the error of COMMIT but not that of ROLLBACK.
closure_returns(c, v) ==
  /\ at[c] = "closure" /\ cmd[c] = "none"
  /\ ret' = Set(ret, c, v)
  /\ IF in_transaction(c) /\ Ready(c)
     THEN /\ Issue(c, FinalCommand(v))
          /\ at' = Set(at, c, IF v = "Ok" THEN "commit" ELSE "rollback")
          /\ tx' = Set(tx, c, FALSE)
          /\ UNCHANGED result
     ELSE /\ Returns(c, IF in_transaction(c) THEN "Err" ELSE v)
          /\ UNCHANGED cmd
  /\ UNCHANGED <<transaction_status, usable, server_tx, work, durable, done, issued, ended_by,
                 told>>

\* The future of transaction() is dropped: no ROLLBACK is sent.
Abandon(c) ==
  /\ at[c] # "idle"
  /\ IF cmd[c] # "none" THEN Unanswered(c) ELSE UNCHANGED <<server_tx, work, durable, usable, cmd>>
  /\ Returns(c, "Dropped")
  /\ UNCHANGED <<transaction_status, done, issued, ret, ended_by, told>>

TxInit ==
  /\ transaction_status = [c \in Conns |-> "I"] /\ server_tx = [c \in Conns |-> "I"]
  /\ usable = [c \in Conns |-> TRUE] /\ cmd = [c \in Conns |-> "none"]
  /\ work = [c \in Conns |-> {}] /\ durable = [c \in Conns |-> {}] /\ done = [c \in Conns |-> {}]
  /\ issued = [c \in Conns |-> 0] /\ at = [c \in Conns |-> "idle"] /\ tx = [c \in Conns |-> FALSE]
  /\ ret = [c \in Conns |-> "none"] /\ result = [c \in Conns |-> "none"]
  /\ ended_by = [c \in Conns |-> {}] /\ told = [c \in Conns |-> FALSE]

Step(c) ==
  \/ transaction(c) \/ statement(c)
  \/ \E q \in {"BEGIN", "COMMIT", "ROLLBACK"} : query(c, q)
  \/ \E d \in Conns : tx_commit(c, d) \/ tx_rollback(c, d) \/ exec_portal_named(c, d)
  \/ Complete(c) \/ CutShort(c)
  \/ \E v \in {"Ok", "Err"} : closure_returns(c, v)
  \/ Abandon(c)

TxNext == \E c \in Conns : Step(c)

TxSpec == TxInit /\ [][TxNext]_txvars

-----------------------------------------------------------------------------
\* One connection as Session describes it.  Its socket is not modelled: it is
\* drained when no exchange is in progress or was cut short.
Phase(c) == CASE cmd[c] # "none" -> "busy"
              [] Ready(c)        -> "ready"
              [] OTHER           -> "unusable"

Connection(c) == INSTANCE Session WITH
  phase   <- Phase(c),
  drained <- Ready(c),
  agreed  <- transaction_status[c] = server_tx[c]

(***************************************************************************)
(* The connections of this module do what Session promises and no more:    *)
(* transaction() is checked against the contract that tokio::Conn keeps.   *)
(***************************************************************************)
UsesSessions ==
  /\ \A c \in Conns : Connection(c)!SessionInit
  /\ [][\A c \in Conns :
          Connection(c)!SessionNext \/ UNCHANGED Connection(c)!session]_txvars

-----------------------------------------------------------------------------
Writes == UNION {1..MaxWrites[c] : c \in Conns}

TxTypeOK ==
  /\ transaction_status \in [Conns -> {"I", "T", "E"}]
  /\ server_tx \in [Conns -> {"I", "T", "E"}]
  /\ usable \in [Conns -> BOOLEAN]
  /\ work \in [Conns -> SUBSET Writes]
  /\ durable \in [Conns -> SUBSET Writes]
  /\ done \in [Conns -> SUBSET Writes]
  /\ issued \in [Conns -> Nat] /\ \A c \in Conns : issued[c] <= MaxWrites[c]
  /\ at \in [Conns -> {"idle", "begin", "closure", "commit", "rollback"}]
  /\ cmd \in [Conns -> Commands \cup {"none"}]
  /\ tx \in [Conns -> BOOLEAN]
  /\ ret \in [Conns -> {"none", "Ok", "Err"}]
  /\ result \in [Conns -> {"none", "Ok", "Err", "Dropped"}]
  /\ ended_by \in [Conns -> SUBSET Conns]
  /\ told \in [Conns -> BOOLEAN]
  /\ \A c \in Conns :
       /\ at[c] = "begin"    => cmd[c] = "BEGIN"
       /\ at[c] = "commit"   => cmd[c] = "COMMIT"   /\ ret[c] = "Ok"
       /\ at[c] = "rollback" => cmd[c] = "ROLLBACK" /\ ret[c] = "Err"
       /\ tx[c] => at[c] = "closure"

(***************************************************************************)
(* transaction() is atomic: however it ends (COMMIT refused, answered or   *)
(* not, future dropped, connection lost half-way through a statement),     *)
(* either every write reported to the closure is durable or none is, and   *)
(* no write whose answer never came is durable with them.  None is if the  *)
(* closure returned an error; all are if transaction() returns Ok and the  *)
(* closure was not told of a server error before.  A block that a closure  *)
(* ended, by hand or with a handle, is on its own.                         *)
(***************************************************************************)
AllOrNothing ==
  \A c \in Conns :
    /\ at[c] = "idle" /\ ended_by[c] = {} => durable[c] \in {{}, done[c]}
    /\ ret[c] = "Err" /\ ended_by[c] = {} => durable[c] = {}
    /\ at[c] = "idle" /\ result[c] = "Ok" /\ ended_by[c] = {} /\ ~told[c] => durable[c] = done[c]

(***************************************************************************)
(* A connection that transaction() gives back and that accepts calls is    *)
(* not inside a block, failed blocks included: the next statement on it    *)
(* is not swallowed by a transaction nobody will commit.                   *)
(***************************************************************************)
NoBlockLeftOpen ==
  \A c \in Conns : at[c] = "idle" /\ result[c] \in {"Ok", "Err"} /\ usable[c] => server_tx[c] = "I"

(***************************************************************************)
(* While its closure waits, a block is ended by nobody but the closure and *)
(* the handles of connections with the same id as its own: no statement of *)
(* a closure is committed on its own because the handle of another one was *)
(* taken for its.                                                          *)
(***************************************************************************)
BlockHeld ==
  \A c \in Conns :
    at[c] = "closure" /\ cmd[c] = "none" /\ usable[c] /\ server_tx[c] = "I" =>
      \E d \in ended_by[c] : connection_id[d] = connection_id[c]

(***************************************************************************)
(* What the documentation of commit and rollback says: they return an      *)
(* error "if the connection is not the same as the one that started the    *)
(* transaction".  So only its own closure ends a block.  A connection with *)
(* the same server process id refutes it; no run checks it: see the README.*)
(***************************************************************************)
BlockHeldByOwner ==
  \A c \in Conns :
    at[c] = "closure" /\ cmd[c] = "none" /\ usable[c] /\ server_tx[c] = "I" => c \in ended_by[c]

(***************************************************************************)
(* What the documentation of transaction() says: "If the closure returns   *)
(* Ok, the transaction is committed."  It does not hold, and no run checks *)
(* it: see the README.                                                     *)
(***************************************************************************)
OkMeansCommitted ==
  \A c \in Conns :
    at[c] = "idle" /\ result[c] = "Ok" /\ ended_by[c] = {} => durable[c] = done[c]
=============================================================================
