-------------------------------- MODULE Conn --------------------------------
(***************************************************************************)
(* The asynchronous connection (tokio::Conn) driving one exchange at a     *)
(* time against the server of module Backend.                              *)
(*                                                                         *)
(* The code between two awaits is one step.  A call goes through           *)
(*   Start        everything up to the await of its write_all,             *)
(*   WriteAll     the write and flush complete,                            *)
(*   Read...      one message is read and handed to the state machine,     *)
(* and between any two of these the future may be dropped, forgotten, or   *)
(* unwound by a panicking handler (Abandon): no destructor of Conn runs,   *)
(* the flags stay as they are.  &mut self keeps calls from overlapping.    *)
(*                                                                         *)
(* A call rejected by ensure_usable changes nothing and is not an action;  *)
(* neither is one whose parameters fail to encode before begin_exchange.   *)
(***************************************************************************)
EXTENDS Calls

VARIABLES
  is_broken, exchange_in_progress, scope_pending, transaction_status,
  write_buffer,   \* the units encoded in buffer_set.write_buffer
  at,             \* where the current call waits: idle, write, read, portal, closed;
                  \* "pipe" while a Pipeline (module Pipeline) borrows the connection
  op,             \* the call in progress
  req,            \* its identity
  state,          \* its state machine's state
  pending_error,  \* its state machine holds a server error
  chunks,         \* chunks of exec_batch still to be sent
  carry,          \* what the exec_portal closure returned
  failed,         \* ghost: the server reported an error to this call
  result          \* ghost: how the last call ended

flags == <<is_broken, exchange_in_progress, scope_pending>>
call  == <<write_buffer, at, op, req, state, pending_error, chunks, carry, failed, result>>
vars  == <<backend, flags, transaction_status, call>>

Results == {"Ok", "Dropped"} \cup Errors
Ops     == ReadOps \cup {"none", "lowlevel_flush", "portal"}

\* Conn::is_broken() negated, the test of ensure_usable.
Usable == ~is_broken /\ ~exchange_in_progress /\ ~scope_pending

\* The test of ensure_exchange_ready.
ExchangeReady == ~is_broken /\ ~exchange_in_progress

ensure_usable == Usable

-----------------------------------------------------------------------------
\* Mutant: the exchange is not recorded before its first I/O.
begin_unrecorded == ExchangeReady /\ exchange_in_progress' = FALSE

begin_exchange == ExchangeReady /\ exchange_in_progress' = TRUE

\* begin_exchange and the state machine's first step, up to the await of write_all.
Begin(o, r, n) ==
  /\ begin_exchange
  /\ write_buffer' = Request(o, r, n)
  /\ op' = o /\ req' = r /\ at' = "write"
  /\ state' = InitialState(o)
  /\ pending_error' = FALSE

\* A public entry point: ensure_usable, then begin_exchange.
Start(o, r, n, more) ==
  /\ at = "idle"
  /\ ensure_usable
  /\ Begin(o, r, n)
  /\ chunks' = more
  /\ carry' = "Ok" /\ failed' = FALSE
  /\ UNCHANGED <<backend, is_broken, transaction_status, result>>

query(r)           == Start("query", r, 1, 0) /\ UNCHANGED scope_pending
prepare(r)         == Start("prepare", r, 1, 0) /\ UNCHANGED scope_pending
exec(r)            == \E o \in {"exec_sql", "exec_prepared"} :
                        Start(o, r, 1, 0) /\ UNCHANGED scope_pending
close_statement(r) == Start("close_statement", r, 1, 0) /\ UNCHANGED scope_pending
prepare_batch(r)   == \E n \in 1..MaxBatch :
                        Start("prepare_batch", r, n, 0) /\ UNCHANGED scope_pending
exec_batch(r)      == \E o \in BatchOps, n \in 1..MaxBatch, more \in 0..(MaxChunks - 1) :
                        Start(o, r, n, more) /\ UNCHANGED scope_pending
create_named_portal(r) == \E o \in {"named_portal_sql", "named_portal_prepared"} :
                        Start(o, r, 1, 0) /\ UNCHANGED scope_pending
lowlevel_bind(r)   == Start("lowlevel_bind", r, 1, 0) /\ UNCHANGED scope_pending
lowlevel_execute(r) == Start("lowlevel_execute", r, 1, 0) /\ UNCHANGED scope_pending
lowlevel_close_portal(r) == Start("lowlevel_close_portal", r, 1, 0) /\ UNCHANGED scope_pending
lowlevel_flush(r)  == Start("lowlevel_flush", r, 1, 0) /\ UNCHANGED scope_pending
lowlevel_sync(r)   == Start("lowlevel_sync", r, 1, 0) /\ UNCHANGED scope_pending

\* exec_portal records the pending scope before it binds the unnamed portal.
exec_portal(r)     == \E o \in {"portal_bind_sql", "portal_bind_prepared"} :
                        Start(o, r, 1, 0) /\ scope_pending' = TRUE

-----------------------------------------------------------------------------
\* The future is gone, and its locals with it.
CallOver ==
  /\ at' = "idle" /\ op' = "none" /\ state' = "none" /\ pending_error' = FALSE
  /\ chunks' = 0 /\ carry' = "Ok"
  /\ UNCHANGED <<write_buffer, req>>

\* The call returns e to its caller, whose wrapper records permanent failures
\* (lowlevel_flush has no such wrapper); fatal: the callee already did.
Return(e, fatal) ==
  /\ is_broken' = (is_broken \/ fatal
                     \/ (e \in Errors /\ is_connection_broken(e) /\ op # "lowlevel_flush"))
  /\ CallOver
  /\ result' = e

\* portal.exec returns to the closure of exec_portal.
ReturnToClosure ==
  /\ at' = "portal" /\ op' = "portal" /\ state' = "none" /\ pending_error' = FALSE
  /\ UNCHANGED <<is_broken, scope_pending, write_buffer, req, chunks, carry, result>>

(***************************************************************************)
(* The exchange of the current call ended with e (exchange_in_progress'    *)
(* is given by the caller of this operator).  The Sync of exec_portal      *)
(* releases the scope when nothing failed for good, and exec_portal        *)
(* prefers the closure's error to the Sync's.                              *)
(***************************************************************************)
EndExchange(e) ==
  CASE op \in {"portal_bind_sql", "portal_bind_prepared"} /\ e = "Ok" -> ReturnToClosure
    [] op = "portal_exec" -> ReturnToClosure
    [] op = "portal_sync" ->
         /\ scope_pending' = (is_broken \/ e = "Fatal" \/ exchange_in_progress')
         /\ Return(IF carry = "Ok" THEN e ELSE carry, e = "Fatal")
    [] OTHER -> UNCHANGED scope_pending /\ Return(e, FALSE)

\* finish_exchange, then the call's result.
finish_exchange(e) == exchange_in_progress' = FALSE /\ EndExchange(e)

\* Mutant: errors end the exchange too.
FailAndFinish(e) == exchange_in_progress' = FALSE /\ EndExchange(e)

\* The call fails without finish_exchange.
Fail(e) == UNCHANGED exchange_in_progress /\ EndExchange(e)

-----------------------------------------------------------------------------
\* write_all and flush complete.  lowlevel_flush waits for no answer.
WriteAll ==
  /\ at = "write"
  /\ Deliver(write_buffer)
  /\ IF op = "lowlevel_flush"
     THEN finish_exchange("Ok")
     ELSE /\ at' = "read"
          /\ UNCHANGED <<flags, write_buffer, op, req, state, pending_error, chunks, carry,
                         result>>
  /\ UNCHANGED <<framing, transaction_status, failed>>

\* A write cut short: some units, and perhaps part of one, reach the server.
CutShort ==
  /\ \E k \in 0..Len(write_buffer) : Deliver(SubSeq(write_buffer, 1, k))
  /\ framing' \in {framing, "torn"}

WriteFails ==
  /\ at = "write" /\ ~alive
  /\ CutShort
  /\ Fail("Io")
  /\ UNCHANGED <<transaction_status, failed>>

\* exec_batch goes on with its next chunk, or stops because its parameters do
\* not encode (the previous chunk is complete, the connection stays usable).
NextChunk ==
  \/ /\ \E n \in 1..MaxBatch : write_buffer' = Request(op, req, n)
     /\ exchange_in_progress' = TRUE
     /\ at' = "write" /\ state' = InitialState(op) /\ chunks' = chunks - 1
     /\ UNCHANGED <<is_broken, scope_pending, op, req, pending_error, carry, result>>
  \/ finish_exchange("Decode")

MoreChunks == op \in BatchOps /\ chunks > 0 /\ ~pending_error

\* The calls that end at ReadyForQuery take over the status it carries.
TakeStatus ==
  transaction_status' = IF op \in ReadyOps THEN server_tx ELSE transaction_status

\* The state machine finished: Ok, or the error it kept until ReadyForQuery.
Finish ==
  /\ TakeStatus
  /\ IF MoreChunks
     THEN NextChunk
     ELSE finish_exchange(IF pending_error THEN "Server" ELSE "Ok")

\* One message is read and stepped; the caller's handler may return an error.
ReadMessage(m) ==
  /\ at = "read"
  /\ Reply(m)
  /\ \/ CASE MachineStep(op, state, m) = "Finished" -> Finish
          [] MachineStep(op, state, m) = "LibraryBug" ->
               Fail("LibraryBug") /\ UNCHANGED transaction_status
          [] OTHER -> /\ state' = MachineStep(op, state, m)
                      /\ UNCHANGED <<flags, transaction_status, write_buffer, at, op, req,
                                     pending_error, chunks, carry, result>>
     \/ /\ CallsHandler(op, m)
        /\ \E e \in {"Decode", "LibraryBug"} : Fail(e)
        /\ UNCHANGED transaction_status
  /\ UNCHANGED failed

\* Mutant: the error is dropped on the way to ReadyForQuery.
ForgetError ==
  /\ state' = MachineError(op) /\ pending_error' = FALSE
  /\ UNCHANGED <<flags, write_buffer, at, op, req, chunks, carry, result>>

\* The machine keeps the server's error and reads on.
KeepError ==
  /\ state' = MachineError(op) /\ pending_error' = TRUE
  /\ UNCHANGED <<flags, write_buffer, at, op, req, chunks, carry, result>>

ReadError ==
  /\ at = "read"
  /\ ReplyError
  /\ IF MachineError(op) = "Err" THEN Fail("Server") ELSE KeepError
  /\ failed' = TRUE
  /\ UNCHANGED transaction_status

\* A FATAL error: lowlevel_sync returns it at once too.
ReadFatal ==
  /\ at = "read"
  /\ ReplyFatal
  /\ IF MachineError(op) = "Err" \/ op \in SyncOps THEN Fail("Fatal") ELSE KeepError
  /\ failed' = TRUE
  /\ UNCHANGED transaction_status

\* An asynchronous message is handed to the async handler or skipped.
ReadAsync ==
  /\ at = "read"
  /\ ReplyAsync
  /\ state' = MachineAsync(state)
  /\ UNCHANGED <<flags, transaction_status, write_buffer, at, op, req, pending_error,
                 chunks, carry, failed, result>>

\* read_message fails: end of file or a reset connection.
ReadFails ==
  /\ at = "read" /\ ~alive
  /\ Fail("Io")
  /\ UNCHANGED <<backend, transaction_status, failed>>

-----------------------------------------------------------------------------
\* Inside the closure of exec_portal.

\* portal.exec checks only ensure_exchange_ready.
portal_exec ==
  /\ at = "portal"
  /\ Begin("portal_exec", req, 1)
  /\ UNCHANGED <<backend, is_broken, scope_pending, transaction_status, chunks, carry,
                 failed, result>>

\* The closure returns c; lowlevel_sync_inner follows unless it is refused.
portal_return(c) ==
  /\ at = "portal"
  /\ \/ /\ Begin("portal_sync", req, 1)
        /\ carry' = c
        /\ UNCHANGED <<is_broken, scope_pending, chunks, result>>
     \/ /\ ~ExchangeReady
        /\ UNCHANGED <<exchange_in_progress, scope_pending>>
        /\ Return(IF c = "Ok" THEN "ConnectionBroken" ELSE c, FALSE)
  /\ UNCHANGED <<backend, transaction_status, failed>>

-----------------------------------------------------------------------------
\* The future is dropped, forgotten or unwound while it waits.
Abandon ==
  /\ at \in {"write", "read", "portal"}
  /\ CASE at = "write" -> CutShort
       [] at = "read"  -> /\ framing' \in {framing, "torn"}
                          /\ UNCHANGED <<todo, stage, skipping, server_tx, at_sync, alive>>
       [] OTHER        -> UNCHANGED backend
  /\ CallOver
  /\ result' = "Dropped"
  /\ UNCHANGED <<flags, transaction_status, failed>>

\* close(self): Terminate is written and the connection is consumed.
close ==
  /\ at = "idle" /\ ensure_usable
  /\ at' = "closed" /\ write_buffer' = <<>> /\ alive' = FALSE
  /\ UNCHANGED <<todo, stage, skipping, server_tx, at_sync, framing, flags,
                 transaction_status, op, req, state, pending_error, chunks, carry,
                 failed, result>>

Environment == (ServerDiscard \/ PeerDies) /\ UNCHANGED <<flags, transaction_status, call>>

ConnInit ==
  /\ is_broken = FALSE /\ exchange_in_progress = FALSE /\ scope_pending = FALSE
  /\ transaction_status = "I"
  /\ write_buffer = <<>> /\ at = "idle" /\ op = "none" /\ req \in Requests
  /\ state = "none" /\ pending_error = FALSE /\ chunks = 0 /\ carry = "Ok"
  /\ failed = FALSE /\ result = "Ok"

Init == BackendInit /\ ConnInit

Call(r) ==
  \/ query(r) \/ prepare(r) \/ exec(r) \/ close_statement(r) \/ prepare_batch(r)
  \/ exec_batch(r) \/ create_named_portal(r) \/ exec_portal(r) \/ lowlevel_bind(r)
  \/ lowlevel_execute(r) \/ lowlevel_close_portal(r) \/ lowlevel_flush(r) \/ lowlevel_sync(r)

Exchange ==
  \/ WriteAll \/ WriteFails
  \/ \E m \in Messages : ReadMessage(m)
  \/ ReadError \/ ReadFatal \/ ReadAsync \/ ReadFails

Portal == portal_exec \/ \E c \in {"Ok"} \cup Errors : portal_return(c)

Next ==
  \/ \E r \in Requests : Fresh(r) /\ Call(r)
  \/ Exchange \/ Portal \/ Abandon \/ close \/ Environment

Spec == Init /\ [][Next]_vars

-----------------------------------------------------------------------------
TypeOK ==
  /\ BackendTypeOK
  /\ is_broken \in BOOLEAN /\ exchange_in_progress \in BOOLEAN /\ scope_pending \in BOOLEAN
  /\ transaction_status \in TxStatus
  /\ write_buffer \in Seq(Unit)
  /\ at \in {"idle", "write", "read", "portal", "pipe", "closed"}
  /\ op \in Ops /\ req \in Requests
  /\ state \in MachineStates
  /\ pending_error \in BOOLEAN
  /\ chunks \in 0..(MaxChunks - 1)
  /\ carry \in {"Ok"} \cup Errors
  /\ failed \in BOOLEAN /\ result \in Results

(***************************************************************************)
(* A connection that a new call would be accepted on owes nothing and is   *)
(* owed nothing: no unread answer, no half-written or half-read message,   *)
(* no server waiting for a Sync.  This is what the three flags are for,    *)
(* whatever calls were cut short before.                                   *)
(***************************************************************************)
UsableMeansDrained == Usable => Drained

(***************************************************************************)
(* A call reads only answers to what it wrote itself, never those an       *)
(* earlier, abandoned call left on the socket.                             *)
(***************************************************************************)
OwnAnswersOnly ==
  at = "read" => \A i \in DOMAIN todo : todo[i].req = req

(***************************************************************************)
(* A call that waits in read_message waits for something: the server, if   *)
(* alive, has an answer to give now or after what it skips.  No call hangs *)
(* on a server that is itself waiting for a Sync.                          *)
(***************************************************************************)
NeverWaitsForNothing ==
  at = "read" /\ alive =>
    \E i \in DOMAIN todo : skipping => todo[i].kind = "Sync"

(***************************************************************************)
(* transaction_status(), which transaction() and the pools decide by, is   *)
(* the server's status whenever the server's last word was ReadyForQuery.  *)
(***************************************************************************)
StatusIsServers ==
  Usable /\ at_sync => transaction_status = server_tx

(***************************************************************************)
(* A call that returns Ok was not told of a server error: no error kept    *)
(* until ReadyForQuery, and none swallowed inside exec_portal, is lost.    *)
(***************************************************************************)
OkMeansNoServerError == at = "idle" /\ result = "Ok" => ~failed

(***************************************************************************)
(* Once no call is in progress an unusable connection stays unusable, and  *)
(* nothing more is written to it.                                          *)
(***************************************************************************)
UnusableForGood ==
  [][at = "idle" /\ ~Usable => ~Usable' /\ at' = "idle" /\ Len(todo') <= Len(todo)]_vars

-----------------------------------------------------------------------------
\* What the holder of the connection sees of it.  A pipeline handle on a broken
\* connection is no call.
Phase ==
  CASE at = "closed" -> "closed"
    [] at = "pipe"   -> IF is_broken THEN "unusable" ELSE "busy"
    [] at = "idle"   -> IF Usable THEN "ready" ELSE "unusable"
    [] OTHER         -> "busy"

Promise == INSTANCE Session WITH
  phase   <- Phase,
  drained <- Drained,
  agreed  <- at_sync => transaction_status = server_tx

(***************************************************************************)
(* The connection implements Session: whatever happens on the socket and   *)
(* wherever calls are cut short, its holder sees calls one at a time, each *)
(* ending settled and ready, or unusable for good.                         *)
(***************************************************************************)
ImplementsSession == Promise!SessionSpec
=============================================================================
