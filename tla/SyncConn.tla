------------------------------ MODULE SyncConn ------------------------------
(***************************************************************************)
(* The blocking connection (sync::Conn) against the server of module       *)
(* Backend.                                                                *)
(*                                                                         *)
(* It drives the same machines as the asynchronous one, but records only   *)
(* is_broken: there is no exchange_in_progress, no pending scope, and no   *)
(* call looks at is_broken before it writes.  Calls cannot be abandoned;   *)
(* what can go wrong is that they return before their exchange is over.    *)
(* The ghost early says that one did and left no mark: "open" when the     *)
(* exchange has no Sync yet, "unread" when its ReadyForQuery is unread.    *)
(* A call whose parameters do not encode writes nothing and is no action.  *)
(***************************************************************************)
EXTENDS Calls

CONSTANT MaxUnread  \* bound: units left unread when another call is made

ASSUME UnreadAssumption == MaxUnread \in Nat

VARIABLES
  is_broken, transaction_status,
  at,             \* idle, read, portal (in the closure of exec_portal), closed
  op, req,        \* the call in progress and its identity
  state,          \* its state machine's state
  pending_error,  \* its state machine holds a server error
  chunks,         \* chunks of exec_batch still to be sent
  carry,          \* what the exec_portal closure returned
  early           \* ghost: how an earlier call left its exchange behind

syncvars == <<backend, is_broken, transaction_status, at, op, req, state, pending_error,
              chunks, carry, early>>

PortalBindOps == {"portal_bind_sql", "portal_bind_prepared"}

Ops == ReadOps \cup {"none", "portal"}

-----------------------------------------------------------------------------
\* write_all and flush succeed; the first read_message follows.
Send(o, r, n) ==
  /\ Deliver(Request(o, r, n)) /\ UNCHANGED framing
  /\ at' = "read" /\ op' = o /\ req' = r
  /\ state' = InitialState(o) /\ pending_error' = FALSE

\* write_all fails: some units, and perhaps part of one, reached the server.
CutShort(units) ==
  /\ ~alive
  /\ \E k \in 0..Len(units) : Deliver(SubSeq(units, 1, k))
  /\ framing' \in {framing, "torn"}

Start(o, r, n, more) ==
  /\ at = "idle" /\ Len(todo) <= MaxUnread
  /\ \/ /\ Send(o, r, n)
        /\ chunks' = more /\ carry' = "Ok"
        /\ UNCHANGED is_broken
     \/ /\ CutShort(Request(o, r, n))
        /\ is_broken' = TRUE
        /\ UNCHANGED <<at, op, req, state, pending_error, chunks, carry>>
  /\ UNCHANGED <<transaction_status, early>>

query(r)           == Start("query", r, 1, 0)
prepare(r)         == Start("prepare", r, 1, 0)
exec(r)            == \E o \in {"exec_sql", "exec_prepared"} : Start(o, r, 1, 0)
close_statement(r) == Start("close_statement", r, 1, 0)
prepare_batch(r)   == \E n \in 1..MaxBatch : Start("prepare_batch", r, n, 0)
exec_batch(r)      == \E o \in BatchOps, n \in 1..MaxBatch, more \in 0..(MaxChunks - 1) :
                        Start(o, r, n, more)
create_named_portal(r) == \E o \in {"named_portal_sql", "named_portal_prepared"} :
                        Start(o, r, 1, 0)
exec_portal(r)     == \E o \in PortalBindOps : Start(o, r, 1, 0)
lowlevel_bind(r)   == Start("lowlevel_bind", r, 1, 0)
lowlevel_execute(r) == Start("lowlevel_execute", r, 1, 0)
lowlevel_close_portal(r) == Start("lowlevel_close_portal", r, 1, 0)
lowlevel_sync(r)   == Start("lowlevel_sync", r, 1, 0)

\* lowlevel_flush writes one Flush; its failure is returned and not recorded.
lowlevel_flush ==
  /\ at = "idle"
  /\ \/ UNCHANGED <<framing, early>>
     \/ ~alive /\ framing' \in {framing, "torn"} /\ early' = "unread"
  /\ UNCHANGED <<todo, stage, skipping, server_tx, at_sync, alive, is_broken,
                 transaction_status, at, op, req, state, pending_error, chunks, carry>>

-----------------------------------------------------------------------------
\* The call returns to its caller, or to the closure of exec_portal.
Return(ok) ==
  LET in_closure == op = "portal_exec" \/ (ok /\ op \in PortalBindOps)
  IN  /\ at' = IF in_closure THEN "portal" ELSE "idle"
      /\ op' = IF in_closure THEN "portal" ELSE "none"
      /\ state' = "none" /\ pending_error' = FALSE /\ chunks' = 0
      /\ UNCHANGED <<req, carry>>

\* exec_portal returns its closure's error rather than that of its Sync.
Breaks(e) ==
  is_connection_broken(e)
    \/ (op = "portal_sync" /\ carry # "Ok" /\ is_connection_broken(carry))

\* The call fails with e before its exchange is over.
Fail(e) ==
  /\ Return(FALSE)
  /\ is_broken' = (is_broken \/ Breaks(e))
  /\ early' = IF op \in ReadyOps \/ early = "unread" THEN "unread" ELSE "open"

\* The exchange is over: the server's error it kept, or success.  A Sync closes
\* what calls without one left open.
Done ==
  /\ Return(TRUE)
  /\ is_broken' = (is_broken \/ (op = "portal_sync" /\ Breaks("Server")))
  /\ early' = IF op \in SyncOps /\ early = "open" THEN "no" ELSE early

\* exec_batch goes on with its next chunk, or stops because its parameters do
\* not encode.
next_chunk ==
  /\ at = "chunk"
  /\ \/ /\ \E n \in 1..MaxBatch : Send(op, req, n)
        /\ chunks' = chunks - 1
        /\ UNCHANGED <<carry, is_broken, early>>
     \/ /\ \E n \in 1..MaxBatch : CutShort(Request(op, req, n))
        /\ Fail("Io")
     \/ Done /\ UNCHANGED backend
  /\ UNCHANGED transaction_status

MoreChunks == op \in BatchOps /\ chunks > 0 /\ ~pending_error

\* Mutant: after a server error the status is not taken over.
TakeStatusIfOk ==
  transaction_status' = IF op \in ReadyOps /\ ~pending_error THEN server_tx
                        ELSE transaction_status

\* The calls that end at ReadyForQuery take over the status it carries.
TakeStatus ==
  transaction_status' = IF op \in ReadyOps THEN server_tx ELSE transaction_status

Finish ==
  /\ TakeStatus
  /\ IF MoreChunks
     THEN /\ at' = "chunk" /\ state' = "none"
          /\ UNCHANGED <<op, req, pending_error, chunks, carry, is_broken, early>>
     ELSE Done

\* One message is read and stepped; the caller's handler may return an error.
read_message(m) ==
  /\ at = "read"
  /\ Reply(m)
  /\ \/ CASE MachineStep(op, state, m) = "Finished" -> Finish
          [] MachineStep(op, state, m) = "LibraryBug" ->
               Fail("LibraryBug") /\ UNCHANGED transaction_status
          [] OTHER -> /\ state' = MachineStep(op, state, m)
                      /\ UNCHANGED <<is_broken, transaction_status, at, op, req,
                                     pending_error, chunks, carry, early>>
     \/ /\ CallsHandler(op, m)
        /\ \E e \in {"Decode", "LibraryBug"} : Fail(e)
        /\ UNCHANGED transaction_status

\* Mutant: the error is returned before ReadyForQuery.
ErrorAtOnce == Return(FALSE) /\ UNCHANGED <<is_broken, early>>

\* The machine keeps the server's error and reads on, to the end of the socket
\* when the error is fatal.
KeepError ==
  /\ state' = MachineError(op) /\ pending_error' = TRUE
  /\ UNCHANGED <<at, op, req, chunks, carry, is_broken, early>>

read_error ==
  /\ at = "read"
  /\ \/ ReplyError /\ IF MachineError(op) = "Err" THEN Fail("Server") ELSE KeepError
     \/ ReplyFatal /\ IF MachineError(op) = "Err" THEN Fail("Fatal") ELSE KeepError
  /\ UNCHANGED transaction_status

read_async ==
  /\ at = "read"
  /\ ReplyAsync
  /\ state' = MachineAsync(state)
  /\ UNCHANGED <<is_broken, transaction_status, at, op, req, pending_error, chunks, carry,
                 early>>

read_fails ==
  /\ at = "read" /\ ~alive
  /\ Fail("Io")
  /\ UNCHANGED <<backend, transaction_status>>

-----------------------------------------------------------------------------
\* Inside the closure of exec_portal: portal.exec, and the Sync that follows it.
portal_call(o, c) ==
  /\ at = "portal" /\ Len(todo) <= MaxUnread
  /\ carry' = c
  /\ \/ Send(o, req, 1) /\ UNCHANGED is_broken
     \/ /\ CutShort(Request(o, req, 1))
        /\ is_broken' = TRUE
        /\ at' = IF o = "portal_exec" THEN "portal" ELSE "idle"
        /\ op' = IF o = "portal_exec" THEN "portal" ELSE "none"
        /\ UNCHANGED <<req, state, pending_error>>
  /\ UNCHANGED <<transaction_status, chunks, early>>

portal_exec == portal_call("portal_exec", carry)

portal_return == \E c \in {"Ok", "Decode", "LibraryBug"} : portal_call("portal_sync", c)

\* close() and the destructor: Terminate is written, errors are ignored.
close ==
  /\ at = "idle"
  /\ at' = "closed" /\ alive' = FALSE
  /\ UNCHANGED <<todo, stage, skipping, server_tx, at_sync, framing, is_broken,
                 transaction_status, op, req, state, pending_error, chunks, carry, early>>

Environment ==
  /\ ServerDiscard \/ PeerDies
  /\ UNCHANGED <<is_broken, transaction_status, at, op, req, state, pending_error, chunks,
                 carry, early>>

SyncInit ==
  /\ BackendInit
  /\ is_broken = FALSE /\ transaction_status = "I"
  /\ at = "idle" /\ op = "none" /\ req \in Requests
  /\ state = "none" /\ pending_error = FALSE /\ chunks = 0 /\ carry = "Ok" /\ early = "no"

Call(r) ==
  \/ query(r) \/ prepare(r) \/ exec(r) \/ close_statement(r) \/ prepare_batch(r)
  \/ exec_batch(r) \/ create_named_portal(r) \/ exec_portal(r) \/ lowlevel_bind(r)
  \/ lowlevel_execute(r) \/ lowlevel_close_portal(r) \/ lowlevel_sync(r)

SyncNext ==
  \/ \E r \in Requests : Fresh(r) /\ Call(r)
  \/ lowlevel_flush \/ next_chunk
  \/ \E m \in Messages : read_message(m)
  \/ read_error \/ read_async \/ read_fails
  \/ portal_exec \/ portal_return \/ close \/ Environment

SyncSpec == SyncInit /\ [][SyncNext]_syncvars

-----------------------------------------------------------------------------
SyncTypeOK ==
  /\ BackendTypeOK
  /\ is_broken \in BOOLEAN /\ transaction_status \in TxStatus
  /\ at \in {"idle", "read", "chunk", "portal", "closed"}
  /\ op \in Ops /\ req \in Requests
  /\ state \in MachineStates /\ pending_error \in BOOLEAN
  /\ chunks \in 0..(MaxChunks - 1)
  /\ carry \in {"Ok"} \cup Errors
  /\ early \in {"no", "open", "unread"}

\* Nothing the connection went through has left it out of step unnoticed.
InStep == ~is_broken /\ early = "no"

(***************************************************************************)
(* The errors that the machines keep until ReadyForQuery are the safe      *)
(* ones: whatever calls succeeded or failed that way, and after a Sync     *)
(* that follows failed calls without one, nothing is unread or skipped,    *)
(* and transaction_status, by which transaction() decides, is the server's.*)
(***************************************************************************)
DrainedUnlessEarly ==
  at = "idle" /\ InStep => Drained /\ (at_sync => transaction_status = server_tx)

(***************************************************************************)
(* The blocking drive loops read no further than their own exchange and    *)
(* stop nowhere before its end: a call meets only its own answers.         *)
(***************************************************************************)
SyncOwnAnswers ==
  at = "read" /\ InStep => \A i \in DOMAIN todo : todo[i].req = req

(***************************************************************************)
(* A call in step does not block for ever on a live server: an answer is   *)
(* due, now or after what the server skips.                                *)
(***************************************************************************)
SyncNeverHangs ==
  at = "read" /\ alive /\ InStep =>
    \E i \in DOMAIN todo : skipping => todo[i].kind = "Sync"

(***************************************************************************)
(* is_broken is all a caller, or the pool, has to go by: a connection that *)
(* is not marked can be used.  is_connection_broken decides it, "assumes   *)
(* broken unless the error is known to be safe".                           *)
(***************************************************************************)
UnbrokenMeansDrained == at = "idle" /\ ~is_broken => Drained
=============================================================================
