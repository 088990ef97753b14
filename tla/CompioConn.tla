----------------------------- MODULE CompioConn -----------------------------
(***************************************************************************)
(* The connection for completion-based I/O (compio::Conn).  Its calls are  *)
(* those of module Conn, but the runtime owns a buffer while it works on   *)
(* it: write_all_owned takes the write buffer away and gives it back when  *)
(* the write is over, fill_buf does the same with the stream's read        *)
(* buffer.  Dropping the future gives nothing back, and does not stop what *)
(* the runtime has begun: the bytes may still be sent or swallowed, or the *)
(* operation is cancelled, at any later moment.                            *)
(*                                                                         *)
(* The code between two awaits is one step:                                *)
(*   Start        everything up to the await of write_all_owned,           *)
(*   KernelWrites one unit of the lent buffer leaves,                      *)
(*   WriteDone    the buffer is back, the stream flushed,                  *)
(*   Read...      one message is read and handed to the state machine.     *)
(* Each encoder clears the write buffer first, so what it holds when it is *)
(* not lent is of no consequence and is left out.                          *)
(***************************************************************************)
EXTENDS Calls

VARIABLES
  is_broken, exchange_in_progress, scope_pending, transaction_status,
  lent,           \* the units of the write buffer still in the runtime's hands
  stray_read,     \* a read whose future is gone may still complete
  at,             \* where the current call waits: idle, write, read, portal, closed
  op, req,        \* the call in progress and its identity
  state,          \* its state machine's state
  pending_error,  \* its state machine holds a server error
  chunks,         \* chunks of exec_batch still to be sent
  carry,          \* what the exec_portal closure returned
  failed,         \* ghost: the server reported an error to this call
  result          \* ghost: how the last call ended

flags   == <<is_broken, exchange_in_progress, scope_pending>>
machine == <<op, req, state, pending_error, chunks, carry>>
runtime == <<lent, stray_read>>
vars    == <<backend, flags, transaction_status, runtime, at, machine, failed, result>>

Usable == ~is_broken /\ ~exchange_in_progress /\ ~scope_pending

ensure_usable == Usable

ensure_exchange_ready == ~is_broken /\ ~exchange_in_progress

-----------------------------------------------------------------------------
\* Mutant: the exchange is not recorded before its first I/O.
begin_unrecorded == ensure_exchange_ready /\ exchange_in_progress' = FALSE

begin_exchange == ensure_exchange_ready /\ exchange_in_progress' = TRUE

\* The encoded request is lent to the runtime.
write_all_owned(units) == lent' = units /\ at' = "write"

Begin(o, r, n) ==
  /\ begin_exchange
  /\ write_all_owned(Request(o, r, n))
  /\ op' = o /\ req' = r /\ state' = InitialState(o) /\ pending_error' = FALSE
  /\ UNCHANGED stray_read

\* A public entry point; scope says whether it records a pending scope.
Start(o, r, n, more, scope) ==
  /\ at = "idle" /\ ensure_usable
  /\ Begin(o, r, n)
  /\ scope_pending' = scope
  /\ chunks' = more /\ carry' = "Ok" /\ failed' = FALSE
  /\ UNCHANGED <<backend, is_broken, transaction_status, result>>

Plain(o, r) == Start(o, r, 1, 0, FALSE)

query(r)               == Plain("query", r)
prepare(r)             == Plain("prepare", r)
prepare_batch(r)       == \E n \in 1..MaxBatch : Start("prepare_batch", r, n, 0, FALSE)
exec(r)                == Plain("exec_sql", r) \/ Plain("exec_prepared", r)
exec_batch(r)          == \E o \in BatchOps, n \in 1..MaxBatch, more \in 0..(MaxChunks - 1) :
                            Start(o, r, n, more, FALSE)
close_statement(r)     == Plain("close_statement", r)
create_named_portal(r) == Plain("named_portal_sql", r) \/ Plain("named_portal_prepared", r)
bind_inner(r)          == Plain("lowlevel_bind", r)
execute_portal_inner(r) == Plain("lowlevel_execute", r)
close_portal_inner(r)  == Plain("lowlevel_close_portal", r)
lowlevel_flush(r)      == Plain("lowlevel_flush", r)
sync_inner(r)          == Plain("lowlevel_sync", r)

\* The pending scope is recorded before the unnamed portal is bound.
exec_portal(r)         == \E o \in {"portal_bind_sql", "portal_bind_prepared"} :
                            Start(o, r, 1, 0, TRUE)

-----------------------------------------------------------------------------
\* The future is gone, and its state machine with it.
CallOver ==
  /\ at' = "idle" /\ op' = "none" /\ state' = "none" /\ pending_error' = FALSE
  /\ chunks' = 0 /\ carry' = "Ok"
  /\ UNCHANGED req

\* The result passes the wrapper that records permanent failures.
Return(e, fatal) ==
  /\ is_broken' = (is_broken \/ fatal
                     \/ (e \in Errors /\ is_connection_broken(e) /\ op # "lowlevel_flush"))
  /\ CallOver
  /\ result' = e

\* Back in the closure of exec_portal.
IntoClosure ==
  /\ at' = "portal" /\ op' = "portal" /\ state' = "none" /\ pending_error' = FALSE
  /\ UNCHANGED <<is_broken, scope_pending, req, chunks, carry, result>>

\* The Sync of exec_portal releases the scope if another exchange could begin.
ReleaseScope(e) ==
  /\ scope_pending' = (is_broken \/ e = "Fatal" \/ exchange_in_progress')
  /\ Return(IF carry = "Ok" THEN e ELSE carry, e = "Fatal")

\* The exchange of the current call ended with e.
Ended(e) ==
  CASE op \in {"portal_bind_sql", "portal_bind_prepared"} /\ e = "Ok" -> IntoClosure
    [] op = "portal_exec" -> IntoClosure
    [] op = "portal_sync" -> ReleaseScope(e)
    [] OTHER -> UNCHANGED scope_pending /\ Return(e, FALSE)

finish_exchange(e) == exchange_in_progress' = FALSE /\ Ended(e)

Fail(e) == UNCHANGED exchange_in_progress /\ Ended(e)

-----------------------------------------------------------------------------
\* The runtime sends a unit of the lent buffer, whoever still waits for it.
KernelWrites ==
  /\ lent # <<>>
  /\ Deliver(<<Head(lent)>>)
  /\ lent' = Tail(lent)
  /\ UNCHANGED <<framing, flags, transaction_status, stray_read, at, machine, failed, result>>

\* The buffer is back.  lowlevel_flush waits for no answer.
WriteDone ==
  /\ at = "write" /\ lent = <<>>
  /\ IF op = "lowlevel_flush"
     THEN finish_exchange("Ok")
     ELSE at' = "read" /\ UNCHANGED <<flags, machine, result>>
  /\ UNCHANGED <<backend, transaction_status, runtime, failed>>

\* The write fails; the buffer is back, part of it may have left.
WriteFails ==
  /\ at = "write" /\ ~alive
  /\ lent' = <<>>
  /\ framing' \in {framing, "torn"}
  /\ Fail("Io")
  /\ UNCHANGED <<todo, stage, skipping, server_tx, at_sync, alive,
                 transaction_status, stray_read, failed>>

\* exec_batch lends its next chunk, or its parameters do not encode.
NextChunk ==
  \/ /\ \E n \in 1..MaxBatch : write_all_owned(Request(op, req, n))
     /\ exchange_in_progress' = TRUE
     /\ state' = InitialState(op) /\ chunks' = chunks - 1
     /\ UNCHANGED <<is_broken, scope_pending, op, req, pending_error, carry, result>>
  \/ finish_exchange("Decode") /\ UNCHANGED lent

MoreChunks == op \in BatchOps /\ chunks > 0 /\ ~pending_error

TakeStatus ==
  transaction_status' = IF op \in ReadyOps THEN server_tx ELSE transaction_status

\* The state machine's terminal action, Finished or Error.
Terminal ==
  /\ TakeStatus
  /\ IF MoreChunks
     THEN NextChunk
     ELSE /\ finish_exchange(IF pending_error THEN "Server" ELSE "Ok")
          /\ UNCHANGED lent

Stepped(s) ==
  /\ state' = s
  /\ UNCHANGED <<flags, transaction_status, lent, at, op, req, pending_error, chunks, carry,
                 result>>

\* One message is read and stepped; the caller's handler may return an error.
ReadMessage(m) ==
  /\ at = "read"
  /\ Reply(m)
  /\ \/ CASE MachineStep(op, state, m) = "Finished" -> Terminal
          [] MachineStep(op, state, m) = "LibraryBug" ->
               Fail("LibraryBug") /\ UNCHANGED <<lent, transaction_status>>
          [] OTHER -> Stepped(MachineStep(op, state, m))
     \/ /\ CallsHandler(op, m)
        /\ \E e \in {"Decode", "LibraryBug"} : Fail(e)
        /\ UNCHANGED <<lent, transaction_status>>
  /\ UNCHANGED <<failed, stray_read>>

\* Mutant: the error is dropped on the way to ReadyForQuery.
ForgetError ==
  /\ state' = MachineError(op) /\ pending_error' = FALSE
  /\ UNCHANGED <<flags, at, op, req, chunks, carry, result>>

KeepError ==
  /\ state' = MachineError(op) /\ pending_error' = TRUE
  /\ UNCHANGED <<flags, at, op, req, chunks, carry, result>>

\* The server reports an error, of severity FATAL or not: e is the call's result
\* when the machine does not keep it until ReadyForQuery.
ReadError(e) ==
  /\ at = "read"
  /\ IF e = "Fatal" THEN ReplyFatal ELSE ReplyError
  /\ IF MachineError(op) = "Err" \/ (e = "Fatal" /\ op \in SyncOps)
     THEN Fail(e) ELSE KeepError
  /\ failed' = TRUE
  /\ UNCHANGED <<transaction_status, runtime>>

\* The async handler is called, or the message skipped, and the loop reads on.
ReadAsync ==
  /\ at = "read"
  /\ ReplyAsync
  /\ Stepped(MachineAsync(state))
  /\ UNCHANGED <<failed, stray_read>>

ReadFails ==
  /\ at = "read" /\ ~alive
  /\ Fail("Io")
  /\ UNCHANGED <<backend, transaction_status, runtime, failed>>

-----------------------------------------------------------------------------
\* UnnamedPortal::exec asks only for a connection ready for an exchange.
portal_exec ==
  /\ at = "portal"
  /\ Begin("portal_exec", req, 1)
  /\ UNCHANGED <<backend, is_broken, scope_pending, transaction_status, chunks, carry,
                 failed, result>>

\* The closure returns c and the Sync follows, unless it is refused.
portal_return(c) ==
  /\ at = "portal"
  /\ \/ /\ Begin("portal_sync", req, 1)
        /\ carry' = c
        /\ UNCHANGED <<is_broken, scope_pending, chunks, result>>
     \/ /\ ~ensure_exchange_ready
        /\ Return(IF c = "Ok" THEN "ConnectionBroken" ELSE c, FALSE)
        /\ UNCHANGED <<exchange_in_progress, scope_pending, runtime>>
  /\ UNCHANGED <<backend, transaction_status, failed>>

-----------------------------------------------------------------------------
(***************************************************************************)
(* The future is dropped, forgotten or unwound.  No destructor of Conn     *)
(* runs.  What was lent for a write stays with the runtime; of a read, the *)
(* bytes already in read_buf go with the buffer, and the read itself may   *)
(* still complete.                                                         *)
(***************************************************************************)
Abandon ==
  /\ at \in {"write", "read", "portal"}
  /\ CallOver
  /\ result' = "Dropped"
  /\ IF at = "read"
     THEN framing' \in {framing, "torn"} /\ stray_read' = TRUE
     ELSE UNCHANGED <<framing, stray_read>>
  /\ UNCHANGED <<todo, stage, skipping, server_tx, at_sync, alive, flags,
                 transaction_status, lent, failed>>

\* A read nobody waits for takes an answer off the socket.
KernelSwallows ==
  /\ stray_read
  /\ (\E m \in Messages : Reply(m)) \/ ReplyError \/ ReplyFatal
  /\ UNCHANGED <<flags, transaction_status, runtime, at, machine, failed, result>>

\* An operation nobody waits for is cancelled, perhaps within a message.
KernelCancels ==
  /\ \/ at # "write" /\ lent # <<>> /\ framing' \in {framing, "torn"}
     \/ stray_read /\ UNCHANGED framing
  /\ lent' = (IF at = "write" THEN lent ELSE <<>>)
  /\ stray_read' = FALSE
  /\ UNCHANGED <<todo, stage, skipping, server_tx, at_sync, alive,
                 flags, transaction_status, at, machine, failed, result>>

\* close(self): Terminate is written and the connection is consumed.
close ==
  /\ at = "idle" /\ ensure_usable
  /\ at' = "closed" /\ alive' = FALSE
  /\ UNCHANGED <<todo, stage, skipping, server_tx, at_sync, framing, flags,
                 transaction_status, runtime, machine, failed, result>>

Skips ==
  /\ ServerDiscard
  /\ UNCHANGED <<flags, transaction_status, runtime, at, machine, failed, result>>

Dies ==
  /\ PeerDies
  /\ UNCHANGED <<flags, transaction_status, runtime, at, machine, failed, result>>

Init ==
  /\ BackendInit
  /\ is_broken = FALSE /\ exchange_in_progress = FALSE /\ scope_pending = FALSE
  /\ transaction_status = "I" /\ lent = <<>> /\ stray_read = FALSE
  /\ at = "idle" /\ op = "none" /\ req \in Requests /\ state = "none"
  /\ pending_error = FALSE /\ chunks = 0 /\ carry = "Ok"
  /\ failed = FALSE /\ result = "Ok"

Call(r) ==
  \/ query(r) \/ prepare(r) \/ exec(r) \/ close_statement(r) \/ prepare_batch(r)
  \/ exec_batch(r) \/ create_named_portal(r) \/ exec_portal(r) \/ bind_inner(r)
  \/ execute_portal_inner(r) \/ close_portal_inner(r) \/ lowlevel_flush(r) \/ sync_inner(r)

Read ==
  \/ \E m \in Messages : ReadMessage(m)
  \/ ReadError("Server") \/ ReadError("Fatal") \/ ReadAsync \/ ReadFails

Kernel == KernelWrites \/ KernelSwallows \/ KernelCancels

Next ==
  \/ \E r \in Requests : Fresh(r) /\ Call(r)
  \/ WriteDone \/ WriteFails \/ Read
  \/ portal_exec \/ \E c \in {"Ok"} \cup Errors : portal_return(c)
  \/ Abandon \/ close \/ Kernel \/ Skips \/ Dies

Spec == Init /\ [][Next]_vars

(***************************************************************************)
(* The runtime works on what it was lent, the server goes on answering     *)
(* until the answer is complete (result sets and query strings are         *)
(* finite), and the future is polled when its operation is over.           *)
(***************************************************************************)
Fairness ==
  /\ WF_vars(KernelWrites) /\ WF_vars(WriteDone) /\ WF_vars(ReadFails) /\ WF_vars(Skips)
  /\ WF_vars(\E m \in Messages : ReadMessage(m))
  /\ SF_vars(ReadMessage("CommandComplete")) /\ SF_vars(ReadMessage("ReadyForQuery"))

FairSpec == Spec /\ Fairness

-----------------------------------------------------------------------------
CompioTypeOK ==
  /\ BackendTypeOK
  /\ is_broken \in BOOLEAN /\ exchange_in_progress \in BOOLEAN /\ scope_pending \in BOOLEAN
  /\ transaction_status \in TxStatus
  /\ lent \in Seq(Unit) /\ stray_read \in BOOLEAN
  /\ at \in {"idle", "write", "read", "portal", "closed"}
  /\ op \in ReadOps \cup {"none", "lowlevel_flush", "portal"} /\ req \in Requests
  /\ state \in MachineStates /\ pending_error \in BOOLEAN
  /\ chunks \in 0..(MaxChunks - 1) /\ carry \in {"Ok"} \cup Errors
  /\ failed \in BOOLEAN /\ result \in {"Ok", "Dropped"} \cup Errors

\* A call that returns Ok was not told of a server error.
OkMeansNoServerError == at = "idle" /\ result = "Ok" => ~failed

\* What the holder of the connection sees of it.
Phase ==
  CASE at = "closed" -> "closed"
    [] at = "idle"   -> IF Usable THEN "ready" ELSE "unusable"
    [] OTHER         -> "busy"

Promise == INSTANCE Session WITH
  phase   <- Phase,
  drained <- Drained /\ lent = <<>> /\ ~stray_read,
  agreed  <- at_sync => transaction_status = server_tx

(***************************************************************************)
(* The connection keeps the promise of the readiness-based one although    *)
(* the runtime finishes writes and reads that were abandoned.  When it is  *)
(* ready, nothing of an earlier call can reach the socket beside the next: *)
(* the runtime holds no buffer, no read that could swallow the answers is  *)
(* pending, and nothing is owed either way.                                *)
(***************************************************************************)
ImplementsSession == Promise!SessionSpec

(***************************************************************************)
(* A call that is not abandoned comes to an end, whatever error the server *)
(* reports on the way: no driver loop waits for ever.                      *)
(***************************************************************************)
CallEnds == at \in {"write", "read"} ~> at \notin {"write", "read"}
=============================================================================
