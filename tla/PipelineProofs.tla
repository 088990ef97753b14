--------------------------- MODULE PipelineProofs ---------------------------
(***************************************************************************)
(* Proofs about module Conn, for every set of call identities and every    *)
(* batch and chunk bound, and about module Pipeline.  The theorems about   *)
(* Pipeline assume Usage = {}: they are about callers that never queue a   *)
(* statement on an aborted pipeline behind a Sync, and never flush behind  *)
(* a Sync still to be read.  The code permits both, and with either most   *)
(* of these theorems fail: see the README.                                 *)
(***************************************************************************)
EXTENDS Pipeline, ExchangeProofs

-----------------------------------------------------------------------------
(***************************************************************************)
(* The connection.                                                         *)
(***************************************************************************)

\* All written by the call in progress.
Tagged(q) == TaggedBy(q, req)

\* A holder may make a call: the application, or the closure of exec_portal.
MayCall == Usable \/ (at = "portal" /\ ExchangeReady)

\* The next exchange begins on a drained wire.
ReadyInv == MayCall => Drained

\* A call waits to write on a drained wire; what it will write has its shape.
WriteInv ==
  at = "write" =>
    /\ exchange_in_progress /\ Drained /\ ~failed
    /\ op \in ReadOps => Shape(op, write_buffer) /\ Tagged(write_buffer)
    /\ op \notin ReadOps => op = "lowlevel_flush" /\ write_buffer = <<>>

\* A call reads what is left of its own request; only one that ends with a Sync
\* survives an error of the server.
ReadInv ==
  at = "read" =>
    /\ exchange_in_progress /\ framing = "whole" /\ op \in ReadOps
    /\ Shape(op, todo) /\ Tagged(todo)
    /\ skipping => op \in ReadyOps \ {"query"}
    /\ failed => pending_error /\ op \in ReadyOps

\* A server error inside exec_portal leaves its exchange open.
PortalInv == at = "portal" /\ failed => exchange_in_progress

\* Between exchanges that ended at ReadyForQuery the status is the server's.
StatusInv == at_sync /\ (MayCall \/ at = "write") => transaction_status = server_tx

\* The inductive invariant.  UsableMeansDrained alone is not inductive: whether the
\* wire is drained when a call ends depends on the shape of what it wrote (ReadInv).
IInv ==
  /\ TypeOK /\ StageFits /\ ReadyInv /\ WriteInv /\ ReadInv /\ PortalInv /\ StatusInv
  /\ OkMeansNoServerError

-----------------------------------------------------------------------------
\* The part of TypeOK about the call in progress and the flags.
CallTypeOK ==
  /\ is_broken \in BOOLEAN /\ exchange_in_progress \in BOOLEAN /\ scope_pending \in BOOLEAN
  /\ write_buffer \in Seq(Unit)
  /\ at \in {"idle", "write", "read", "portal", "pipe", "closed"}
  /\ op \in Ops /\ req \in Requests
  /\ state \in MachineStates
  /\ pending_error \in BOOLEAN
  /\ chunks \in 0..(MaxChunks - 1)
  /\ carry \in {"Ok"} \cup Errors
  /\ result \in Results

\* TypeOK with its parts, the server's and the connection's.
LEMMA TypeSplit ==
  TypeOK <=> /\ BackendTypeOK /\ CallTypeOK
             /\ transaction_status \in TxStatus /\ failed \in BOOLEAN
  BY DEF TypeOK, CallTypeOK

\* A write cut short keeps the server's types.
LEMMA CutShortType ==
  ASSUME BackendTypeOK, write_buffer \in Seq(Unit), CutShort
  PROVE  BackendTypeOK'
<1>1. PICK k \in 0..Len(write_buffer) : Deliver(SubSeq(write_buffer, 1, k))
  BY DEF CutShort
<1>2. SubSeq(write_buffer, 1, k) \in Seq(Unit)
  BY <1>1
<1>3. framing' \in {"whole", "torn"}
  BY DEF CutShort, BackendTypeOK
<1>4. QED
  BY <1>1, <1>2, <1>3, DeliverType

\* Ending an exchange keeps the connection's types.
LEMMA EndExchangeType ==
  ASSUME CallTypeOK, NEW e \in Results, EndExchange(e), exchange_in_progress' \in BOOLEAN
  PROVE  CallTypeOK'
<1>1. 0 \in 0..(MaxChunks - 1)
  BY BatchAssumption
<1>2. "none" \in MachineStates /\ "none" \in Ops /\ "portal" \in Ops
  BY DEF MachineStates, Ops
<1>3. ASSUME NEW x \in Results, NEW f \in BOOLEAN, Return(x, f), scope_pending' \in BOOLEAN
      PROVE  CallTypeOK'
  BY <1>1, <1>2, <1>3 DEF Return, CallOver, CallTypeOK
<1>4. ASSUME ReturnToClosure
      PROVE  CallTypeOK'
  BY <1>1, <1>2, <1>4 DEF ReturnToClosure, CallTypeOK
<1>5. CASE op = "portal_sync"
  <2>1. /\ scope_pending' = (is_broken \/ e = "Fatal" \/ exchange_in_progress')
        /\ Return(IF carry = "Ok" THEN e ELSE carry, e = "Fatal")
    BY <1>5 DEF EndExchange
  <2>2. (IF carry = "Ok" THEN e ELSE carry) \in Results
    BY DEF CallTypeOK, Results
  <2>3. scope_pending' \in BOOLEAN /\ (e = "Fatal") \in BOOLEAN
    BY <2>1 DEF CallTypeOK
  <2>4. QED
    BY <1>3, <2>1, <2>2, <2>3
<1>6. CASE op # "portal_sync"
  <2>1. ReturnToClosure \/ (UNCHANGED scope_pending /\ Return(e, FALSE))
    BY <1>6 DEF EndExchange
  <2>2. scope_pending \in BOOLEAN
    BY DEF CallTypeOK
  <2>3. QED
    BY <1>3, <1>4, <2>1, <2>2
<1>7. QED
  BY <1>5, <1>6

\* Every call drives a machine of ReadOps or only flushes.
CallOps == (ReadOps \ {"portal_exec", "portal_sync"}) \cup {"lowlevel_flush"}

\* The public entry points in one formula.
LEMMA CallFacts ==
  ASSUME NEW r \in Requests, Call(r)
  PROVE  \E o \in CallOps, n \in Nat \ {0}, more \in 0..(MaxChunks - 1) :
            /\ Start(o, r, n, more)
            /\ scope_pending' \in {scope_pending, TRUE}
<1> DEFINE P(o, n, more) == Start(o, r, n, more) /\ scope_pending' \in {scope_pending, TRUE}
<1>1. 1 \in Nat \ {0} /\ 0 \in 0..(MaxChunks - 1) /\ 1..MaxBatch \subseteq Nat \ {0}
  BY BatchAssumption
<1>2. {"query", "prepare", "exec_sql", "exec_prepared", "close_statement", "named_portal_sql",
       "named_portal_prepared", "lowlevel_bind", "lowlevel_execute", "lowlevel_close_portal",
       "lowlevel_flush", "lowlevel_sync", "prepare_batch", "portal_bind_sql",
       "portal_bind_prepared"} \cup BatchOps \subseteq CallOps
  BY DEF CallOps, ReadOps, BindOps, DriveOps, BatchOps, ExecuteOps, SyncOps
<1>3. CASE prepare_batch(r)
  BY <1>1, <1>2, <1>3 DEF prepare_batch
<1>4. CASE exec_batch(r)
  BY <1>1, <1>2, <1>4 DEF exec_batch
<1>5. CASE exec_portal(r) \/ exec(r) \/ create_named_portal(r)
  BY <1>1, <1>2, <1>5 DEF exec_portal, exec, create_named_portal
<1>6. CASE \/ query(r) \/ prepare(r) \/ close_statement(r) \/ lowlevel_bind(r)
           \/ lowlevel_execute(r) \/ lowlevel_close_portal(r) \/ lowlevel_flush(r)
           \/ lowlevel_sync(r)
  BY <1>1, <1>2, <1>6
     DEF query, prepare, close_statement, lowlevel_bind, lowlevel_execute,
         lowlevel_close_portal, lowlevel_flush, lowlevel_sync
<1>7. QED
  BY <1>3, <1>4, <1>5, <1>6 DEF Call

\* What a call encodes is a sequence of units, empty for lowlevel_flush.
LEMMA RequestType ==
  ASSUME NEW o \in Ops, NEW r \in Requests, NEW n \in Nat \ {0}
  PROVE  Request(o, r, n) \in Seq(Unit)
<1>1. CASE o \in ReadOps
  BY <1>1, RequestFacts
<1>2. CASE o \notin ReadOps
  <2>1. o \in {"none", "lowlevel_flush", "portal"}
    BY <1>2 DEF Ops
  <2>2. Request(o, r, n) = <<>>
    BY <2>1 DEF Request, ExecuteOps, SyncOps
  <2>3. QED
    BY <2>2
<1>3. QED
  BY <1>1, <1>2

\* A call that has begun is well typed.
LEMMA BeginExchangeType ==
  ASSUME CallTypeOK, NEW o \in Ops, NEW r \in Requests, NEW n \in Nat \ {0},
         Begin(o, r, n), is_broken' = is_broken, scope_pending' \in BOOLEAN,
         chunks' \in 0..(MaxChunks - 1), carry' \in {"Ok"} \cup Errors, result' = result
  PROVE  CallTypeOK'
  BY RequestType, InitialStateType DEF CallTypeOK, Begin, begin_exchange

\* The end of a state machine, or its next chunk, keeps the types.
LEMMA FinishType ==
  ASSUME CallTypeOK, transaction_status \in TxStatus, server_tx \in TxStatus, Finish
  PROVE  CallTypeOK' /\ transaction_status' \in TxStatus
<1>1. transaction_status' \in TxStatus
  BY DEF Finish, TakeStatus
<1>2. ASSUME NEW e \in Results, finish_exchange(e)
      PROVE  CallTypeOK'
  BY <1>2, EndExchangeType DEF finish_exchange
<1>3. CASE op \in BatchOps /\ chunks > 0 /\ ~pending_error
  <2>1. NextChunk
    BY <1>3 DEF Finish, MoreChunks
  <2>2. CASE finish_exchange("Decode")
    BY <1>1, <1>2, <2>2 DEF Results, Errors
  <2>3. CASE ~finish_exchange("Decode")
    <3>1. PICK n \in 1..MaxBatch : write_buffer' = Request(op, req, n)
      BY <2>1, <2>3 DEF NextChunk
    <3>2. write_buffer' \in Seq(Unit)
      BY <3>1, RequestType, BatchAssumption DEF CallTypeOK
    <3>3. chunks - 1 \in 0..(MaxChunks - 1)
      BY <1>3, BatchAssumption DEF CallTypeOK
    <3>4. QED
      BY <1>1, <2>1, <2>3, <3>2, <3>3, InitialStateType DEF NextChunk, CallTypeOK
  <2>4. QED
    BY <2>2, <2>3
<1>4. CASE ~(op \in BatchOps /\ chunks > 0 /\ ~pending_error)
  <2>1. finish_exchange(IF pending_error THEN "Server" ELSE "Ok")
    BY <1>4 DEF Finish, MoreChunks
  <2>2. (IF pending_error THEN "Server" ELSE "Ok") \in Results
    BY DEF Results, Errors
  <2>3. QED
    BY <1>1, <1>2, <2>1, <2>2
<1>5. QED
  BY <1>1, <1>3, <1>4

\* A failing call keeps the types.
LEMMA FailType ==
  ASSUME CallTypeOK, NEW e \in Results, Fail(e)
  PROVE  CallTypeOK'
<1>1. exchange_in_progress' \in BOOLEAN
  BY DEF Fail, CallTypeOK
<1>2. QED
  BY <1>1, EndExchangeType DEF Fail

\* A machine that keeps an error stays within its states.
LEMMA KeepErrorType ==
  ASSUME CallTypeOK, KeepError, MachineError(op) # "Err"
  PROVE  CallTypeOK'
<1>1. MachineError(op) \in MachineStates
  BY DEF MachineError, MachineStates
<1>2. QED
  BY <1>1 DEF KeepError, CallTypeOK, flags

\* Reading one message keeps the types.
LEMMA ReadMessageType ==
  ASSUME TypeOK, NEW m, ReadMessage(m)
  PROVE  TypeOK'
<1>1. BackendTypeOK'
  BY ReplyType DEF TypeOK, ReadMessage
<1>2. CallTypeOK /\ transaction_status \in TxStatus /\ server_tx \in TxStatus
  BY TypeSplit DEF TypeOK, BackendTypeOK
<1>3. failed' \in BOOLEAN
  BY DEF ReadMessage, TypeOK
<1>4. CallTypeOK' /\ transaction_status' \in TxStatus
  <2> DEFINE x == MachineStep(op, state, m)
  <2>0. "LibraryBug" \in Results /\ "Decode" \in Results
    BY DEF Results, Errors
  <2>1. CASE Fail("LibraryBug") /\ UNCHANGED transaction_status
    BY <1>2, <2>0, <2>1, FailType
  <2>2. CASE Fail("Decode") /\ UNCHANGED transaction_status
    BY <1>2, <2>0, <2>2, FailType
  <2>3. CASE x = "Finished" /\ Finish
    BY <1>2, <2>3, FinishType
  <2>4. CASE /\ x \notin {"Finished", "LibraryBug"}
             /\ state' = x
             /\ UNCHANGED <<flags, transaction_status, write_buffer, at, op, req,
                            pending_error, chunks, carry, result>>
    <3>1. x \in MachineStates
      BY <1>2, <2>4, MachineType DEF CallTypeOK
    <3>2. QED
      BY <1>2, <2>4, <3>1 DEF CallTypeOK, flags
  <2>5. QED
    BY <2>1, <2>2, <2>3, <2>4 DEF ReadMessage
<1>5. QED
  BY <1>1, <1>3, <1>4 DEF TypeOK, CallTypeOK

\* A new connection is well typed.
LEMMA InitType == Init => TypeOK
<1>1. 0 \in 0..(MaxChunks - 1)
  BY BatchAssumption
<1>2. <<>> \in Seq(Unit)
  OBVIOUS
<1>3. QED
  BY <1>1, <1>2 DEF Init, BackendInit, ConnInit, TypeOK, BackendTypeOK, Stages, TxStatus,
                    Ops, MachineStates, Results

\* Every step keeps the types: one step per action.
LEMMA NextType == TypeOK /\ [Next]_vars => TypeOK'
<1> SUFFICES ASSUME TypeOK, [Next]_vars
             PROVE  TypeOK'
  OBVIOUS
<1>0. /\ BackendTypeOK /\ CallTypeOK /\ transaction_status \in TxStatus
      /\ failed \in BOOLEAN /\ write_buffer \in Seq(Unit)
  BY TypeSplit DEF TypeOK
<1>00. {"Ok", "Io", "Server", "Fatal", "ConnectionBroken", "Dropped"} \subseteq Results
  BY DEF Results, Errors
<1>c. ASSUME BackendTypeOK', CallTypeOK', transaction_status' \in TxStatus,
             failed' \in BOOLEAN
      PROVE  TypeOK'
  BY <1>c DEF TypeOK, CallTypeOK
<1>b. ASSUME UNCHANGED backend
      PROVE  BackendTypeOK'
  BY <1>0, <1>b DEF backend, BackendTypeOK
<1>1. ASSUME NEW r \in Requests, Call(r)
      PROVE  TypeOK'
  <2>1. PICK o \in CallOps, n \in Nat \ {0}, more \in 0..(MaxChunks - 1) :
            Start(o, r, n, more) /\ scope_pending' \in {scope_pending, TRUE}
    BY <1>1, CallFacts
  <2>2. o \in Ops
    BY DEF CallOps, Ops
  <2>3. CallTypeOK'
    <3>1. /\ Begin(o, r, n) /\ is_broken' = is_broken /\ result' = result
          /\ chunks' \in 0..(MaxChunks - 1) /\ carry' \in {"Ok"} \cup Errors
      BY <2>1 DEF Start, ensure_usable
    <3>2. scope_pending' \in BOOLEAN
      BY <1>0, <2>1 DEF CallTypeOK
    <3>3. QED
      BY <1>0, <2>2, <3>1, <3>2, BeginExchangeType
  <2>4. UNCHANGED <<backend, transaction_status>> /\ failed' = FALSE
    BY <2>1 DEF Start, ensure_usable
  <2>5. QED
    BY <1>0, <1>b, <1>c, <2>3, <2>4
<1>2. CASE WriteAll
  <2>1. BackendTypeOK'
    <3>1. framing' \in {"whole", "torn"} /\ Deliver(write_buffer)
      BY <1>0, <1>2 DEF WriteAll, BackendTypeOK
    <3>2. QED
      BY <1>0, <3>1, DeliverType
  <2>2. CallTypeOK'
    <3>1. CASE finish_exchange("Ok")
      BY <1>0, <1>00, <3>1, EndExchangeType DEF finish_exchange
    <3>2. CASE ~finish_exchange("Ok")
      BY <1>0, <1>2, <3>2 DEF WriteAll, CallTypeOK, flags
    <3>3. QED
      BY <3>1, <3>2
  <2>3. QED
    BY <1>0, <1>2, <1>c, <2>1, <2>2 DEF WriteAll
<1>3. CASE WriteFails
  BY <1>0, <1>00, <1>3, <1>c, CutShortType, FailType DEF WriteFails
<1>4. ASSUME NEW m \in Messages, ReadMessage(m)
      PROVE  TypeOK'
  BY <1>4, ReadMessageType
<1>5. CASE ReadError
  <2>1. BackendTypeOK'
    BY <1>0, <1>5, ReplyErrorType DEF ReadError
  <2>2. CallTypeOK'
    BY <1>0, <1>00, <1>5, FailType, KeepErrorType DEF ReadError
  <2>3. QED
    BY <1>0, <1>5, <1>c, <2>1, <2>2 DEF ReadError
<1>6. CASE ReadFatal
  <2>1. BackendTypeOK'
    BY <1>0, <1>6 DEF ReadFatal, ReplyFatal, BackendTypeOK
  <2>2. CallTypeOK'
    BY <1>0, <1>00, <1>6, FailType, KeepErrorType DEF ReadFatal
  <2>3. QED
    BY <1>0, <1>6, <1>c, <2>1, <2>2 DEF ReadFatal
<1>7. CASE ReadAsync
  <2>1. BackendTypeOK'
    BY <1>b, <1>7 DEF ReadAsync, ReplyAsync
  <2>2. CallTypeOK'
    BY <1>0, <1>7 DEF ReadAsync, MachineAsync, flags, CallTypeOK
  <2>3. QED
    BY <1>0, <1>7, <1>c, <2>1, <2>2 DEF ReadAsync
<1>8. CASE ReadFails
  <2>1. CallTypeOK'
    BY <1>0, <1>00, <1>8, FailType DEF ReadFails
  <2>2. QED
    BY <1>0, <1>8, <1>b, <1>c, <2>1 DEF ReadFails
<1>9. CASE portal_exec
  <2>1. "portal_exec" \in Ops /\ 1 \in Nat \ {0}
    BY DEF Ops, ReadOps, ExecuteOps
  <2>2. CallTypeOK'
    <3>1. /\ Begin("portal_exec", req, 1)
          /\ UNCHANGED <<is_broken, scope_pending, chunks, carry, result>>
      BY <1>9 DEF portal_exec
    <3>2. /\ req \in Requests /\ scope_pending' \in BOOLEAN
          /\ chunks' \in 0..(MaxChunks - 1) /\ carry' \in {"Ok"} \cup Errors
      BY <1>0, <3>1 DEF CallTypeOK
    <3>3. QED
      BY <1>0, <2>1, <3>1, <3>2, BeginExchangeType
  <2>3. QED
    BY <1>0, <1>9, <1>b, <1>c, <2>2 DEF portal_exec
<1>10. ASSUME NEW c \in {"Ok"} \cup Errors, portal_return(c)
       PROVE  TypeOK'
  <2>1. CASE Begin("portal_sync", req, 1)
    <3>1. "portal_sync" \in Ops /\ 1 \in Nat \ {0}
      BY DEF Ops, ReadOps, SyncOps
    <3>2. carry' = c /\ UNCHANGED <<is_broken, scope_pending, chunks, result>>
      BY <1>10, <2>1 DEF portal_return, Begin, begin_exchange
    <3>3. /\ req \in Requests /\ scope_pending' \in BOOLEAN
          /\ chunks' \in 0..(MaxChunks - 1) /\ carry' \in {"Ok"} \cup Errors
      BY <1>0, <3>2 DEF CallTypeOK
    <3>4. CallTypeOK'
      BY <1>0, <2>1, <3>1, <3>2, <3>3, BeginExchangeType
    <3>5. QED
      BY <1>0, <1>10, <1>b, <1>c, <3>4 DEF portal_return
  <2>2. CASE ~Begin("portal_sync", req, 1)
    <3>1. /\ UNCHANGED <<exchange_in_progress, scope_pending>>
          /\ Return(IF c = "Ok" THEN "ConnectionBroken" ELSE c, FALSE)
      BY <1>10, <2>2 DEF portal_return
    <3>2. (IF c = "Ok" THEN "ConnectionBroken" ELSE c) \in Results
      BY <1>00 DEF Results
    <3>3. 0 \in 0..(MaxChunks - 1) /\ "none" \in MachineStates /\ "none" \in Ops
      BY BatchAssumption DEF MachineStates, Ops
    <3>4. CallTypeOK'
      BY <1>0, <3>1, <3>2, <3>3 DEF Return, CallOver, CallTypeOK
    <3>5. QED
      BY <1>0, <1>10, <1>b, <1>c, <3>4 DEF portal_return
  <2>3. QED
    BY <2>1, <2>2
<1>11. CASE Abandon
  <2>1. BackendTypeOK'
    <3>1. CASE at = "write"
      BY <1>0, <1>11, <3>1, CutShortType DEF Abandon
    <3>2. CASE at = "read"
      BY <1>0, <1>11, <3>2 DEF Abandon, BackendTypeOK
    <3>3. CASE at = "portal"
      BY <1>11, <1>b, <3>3 DEF Abandon
    <3>4. QED
      BY <1>11, <3>1, <3>2, <3>3 DEF Abandon
  <2>2. CallTypeOK'
    <3>1. 0 \in 0..(MaxChunks - 1) /\ "none" \in MachineStates /\ "none" \in Ops
      BY BatchAssumption DEF MachineStates, Ops
    <3>2. QED
      BY <1>0, <1>00, <1>11, <3>1 DEF Abandon, CallOver, CallTypeOK, flags
  <2>3. QED
    BY <1>0, <1>11, <1>c, <2>1, <2>2 DEF Abandon
<1>12. CASE close
  <2>1. BackendTypeOK'
    BY <1>0, <1>12 DEF close, BackendTypeOK
  <2>2. CallTypeOK'
    BY <1>0, <1>12 DEF close, CallTypeOK, flags
  <2>3. QED
    BY <1>0, <1>12, <1>c, <2>1, <2>2 DEF close
<1>13. CASE Environment
  <2>1. BackendTypeOK'
    <3>1. CASE ServerDiscard
      BY <1>0, <3>1, TailFacts, StageOfType DEF ServerDiscard, BackendTypeOK
    <3>2. CASE PeerDies
      BY <1>0, <3>2 DEF PeerDies, BackendTypeOK
    <3>3. QED
      BY <1>13, <3>1, <3>2 DEF Environment
  <2>2. QED
    BY <1>0, <1>13, <1>c, <2>1 DEF Environment, CallTypeOK, flags, call
<1>14. CASE UNCHANGED vars
  <2>1. BackendTypeOK'
    BY <1>14, <1>b DEF vars
  <2>2. QED
    BY <1>0, <1>14, <1>c, <2>1 DEF vars, CallTypeOK, flags, call
<1>15. QED
  BY <1>1, <1>2, <1>3, <1>4, <1>5, <1>6, <1>7, <1>8, <1>9, <1>10, <1>11, <1>12, <1>13, <1>14
     DEF Next, Exchange, Portal

\* Every variable of the connection keeps its type.
THEOREM TypeCorrect == Spec => []TypeOK
<1>1. QED
  BY InitType, NextType, PTL DEF Spec

-----------------------------------------------------------------------------
\* The inductive invariant: what the server's steps do to it.

\* All of IInv but its type part and StageFits.
CallInv == ReadyInv /\ WriteInv /\ ReadInv /\ PortalInv /\ StatusInv /\ OkMeansNoServerError

-----------------------------------------------------------------------------
\* The inductive invariant: what the steps of the connection do to it.

\* A call that fails in the middle of its exchange leaves the connection in it.
LEMMA FailInv ==
  ASSUME NEW e \in Errors, Fail(e), exchange_in_progress
  PROVE  CallInv'
<1>1. exchange_in_progress' = exchange_in_progress
  BY DEF Fail
<1>2. ~ExchangeReady'
  BY <1>1 DEF MayCall, Usable, ExchangeReady
<1>3. at' = "portal" \/ (at' = "idle" /\ result' # "Ok")
  BY DEF Fail, EndExchange, ReturnToClosure, Return, CallOver, Errors
<1>4. QED
  BY <1>1, <1>2, <1>3 DEF CallInv, ReadyInv, MayCall, Usable, ExchangeReady, WriteInv,
                          ReadInv, PortalInv, StatusInv, OkMeansNoServerError

\* A call begins on a drained connection.
LEMMA BeginInv ==
  ASSUME CallInv, NEW o \in ReadOps \cup {"lowlevel_flush"}, NEW r \in Requests,
         NEW n \in Nat \ {0}, Begin(o, r, n),
         UNCHANGED <<backend, is_broken, transaction_status>>, ~failed', MayCall
  PROVE  CallInv'
<1>1. ExchangeReady /\ Drained /\ (at_sync => transaction_status = server_tx)
  BY DEF Begin, begin_exchange, CallInv, ReadyInv, MayCall, Usable, ExchangeReady, StatusInv
<1>2. /\ exchange_in_progress' /\ at' = "write" /\ op' = o /\ req' = r
      /\ write_buffer' = Request(o, r, n) /\ ~ExchangeReady'
  BY DEF Begin, begin_exchange, MayCall, Usable, ExchangeReady
<1>3. Drained' /\ (at_sync' => transaction_status' = server_tx')
  BY <1>1 DEF Drained, backend
<1>4. WriteInv'
  <2>1. CASE o \in ReadOps
    <3>1. Shape(op', write_buffer')
      BY <1>2, <2>1, RequestFacts
    <3>2. Tagged(write_buffer)'
      BY <1>2, <2>1, RequestFacts DEF Tagged, TaggedBy
    <3>3. Shape(op, write_buffer)'
      BY <3>1 DEF Shape
    <3>4. QED
      BY <1>2, <1>3, <2>1, <3>2, <3>3 DEF WriteInv
  <2>2. CASE o \notin ReadOps
    <3>1. o = "lowlevel_flush"
      BY <2>2
    <3>2. write_buffer' = <<>>
      BY <1>2, <3>1 DEF Request, ExecuteOps, SyncOps
    <3>3. QED
      BY <1>2, <1>3, <2>2, <3>1, <3>2 DEF WriteInv
  <2>3. QED
    BY <2>1, <2>2
<1>5. QED
  BY <1>2, <1>3, <1>4 DEF CallInv, ReadyInv, MayCall, Usable, ExchangeReady, ReadInv,
                          PortalInv, StatusInv, OkMeansNoServerError

\* A call that ends after finish_exchange leaves the wire drained behind it.
LEMMA FinishExchangeInv ==
  ASSUME NEW e \in {"Ok"} \cup Errors, finish_exchange(e), Drained',
         at_sync' => transaction_status' = server_tx',
         failed' => e # "Ok" /\ op # "portal_exec"
  PROVE  CallInv'
<1>1. CASE at' = "portal"
  <2>1. e = "Ok" \/ op = "portal_exec"
    BY <1>1 DEF finish_exchange, EndExchange, Return, CallOver
  <2>2. QED
    BY <1>1, <2>1 DEF CallInv, ReadyInv, MayCall, Usable, ExchangeReady, WriteInv, ReadInv,
                      PortalInv, StatusInv, OkMeansNoServerError
<1>2. CASE at' # "portal"
  <2>1. at' = "idle" /\ (result' = "Ok" => e = "Ok")
    BY <1>2 DEF finish_exchange, EndExchange, ReturnToClosure, Return, CallOver
  <2>2. QED
    BY <2>1 DEF CallInv, ReadyInv, MayCall, Usable, ExchangeReady, WriteInv, ReadInv,
                PortalInv, StatusInv, OkMeansNoServerError
<1>3. QED
  BY <1>1, <1>2

\* The last answer of a call: nothing is left unread behind it.
LEMMA FinishDrains ==
  ASSUME BackendTypeOK, StageFits, ReadInv, at = "read", NEW m, Reply(m),
         MachineStep(op, state, m) = "Finished"
  PROVE  /\ Drained'
         /\ op \in ReadyOps => server_tx' = server_tx
         /\ at_sync' <=> op \in ReadyOps
<1>1. /\ op \in ReadOps /\ Shape(op, todo) /\ framing = "whole"
      /\ skipping => op \in ReadyOps \ {"query"}
  BY DEF ReadInv
<1>2. QED
  BY <1>1, LastAnswer

\* An answer after which the call reads on leaves it something to read.
LEMMA ReadsOn ==
  ASSUME BackendTypeOK, StageFits, ReadInv, at = "read", NEW m, Reply(m),
         MachineStep(op, state, m) \notin {"Finished", "LibraryBug"}
  PROVE  Shape(op, todo') /\ Tagged(todo')
  BY NotLastAnswer DEF ReadInv, Tagged, TaggedBy

\* A state machine that finishes leaves a drained connection, or its next chunk.
LEMMA FinishInv ==
  ASSUME TypeOK, ReadInv, at = "read", Finish, Drained', UNCHANGED failed,
         op \in ReadyOps => server_tx' = server_tx,
         at_sync' <=> op \in ReadyOps
  PROVE  CallInv'
<1>1. at_sync' => transaction_status' = server_tx'
  BY DEF Finish, TakeStatus
<1>2. failed => pending_error /\ op \in ReadyOps
  BY DEF ReadInv
<1>3. "portal_exec" \notin ReadyOps
  BY DEF ReadyOps, DriveOps, BatchOps, SyncOps
<1>4. CASE op \in BatchOps /\ chunks > 0 /\ ~pending_error
  <2>1. NextChunk
    BY <1>4 DEF Finish, MoreChunks
  <2>2. ~failed'
    BY <1>2, <1>4
  <2>3. CASE finish_exchange("Decode")
    <3>1. "Decode" \in {"Ok"} \cup Errors
      BY DEF Errors
    <3>2. QED
      BY <1>1, <2>2, <2>3, <3>1, FinishExchangeInv
  <2>4. CASE ~finish_exchange("Decode")
    <3>1. PICK n \in 1..MaxBatch : write_buffer' = Request(op, req, n)
      BY <2>1, <2>4 DEF NextChunk
    <3>2. /\ exchange_in_progress' /\ at' = "write" /\ op' = op /\ req' = req
          /\ op \in ReadOps /\ req \in Requests /\ n \in Nat \ {0}
      BY <1>4, <2>1, <2>4, BatchAssumption DEF NextChunk, ReadOps, TypeOK
    <3>3. Shape(op', write_buffer') /\ Tagged(write_buffer)'
      BY <3>1, <3>2, RequestFacts DEF Tagged, TaggedBy
    <3>4. Shape(op, write_buffer)'
      BY <3>3 DEF Shape
    <3>5. WriteInv'
      BY <2>2, <3>2, <3>3, <3>4 DEF WriteInv
    <3>6. QED
      BY <1>1, <3>2, <3>5 DEF CallInv, ReadyInv, ReadInv, PortalInv, StatusInv,
                              MayCall, Usable, ExchangeReady, OkMeansNoServerError
  <2>5. QED
    BY <2>3, <2>4
<1>5. CASE ~(op \in BatchOps /\ chunks > 0 /\ ~pending_error)
  <2> DEFINE e == IF pending_error THEN "Server" ELSE "Ok"
  <2>1. finish_exchange(e)
    BY <1>5 DEF Finish, MoreChunks
  <2>2. e \in {"Ok"} \cup Errors
    BY DEF Errors
  <2>3. failed' => e # "Ok" /\ op # "portal_exec"
    BY <1>2, <1>3
  <2>4. QED
    BY <1>1, <2>1, <2>2, <2>3, FinishExchangeInv
<1>6. QED
  BY <1>4, <1>5

\* Reading one message preserves the invariant, whatever the machine makes of it.
LEMMA ReadMessageInv ==
  ASSUME IInv, NEW m, ReadMessage(m)
  PROVE  StageFits' /\ CallInv'
<1>1. at = "read" /\ Reply(m) /\ UNCHANGED failed
  BY DEF ReadMessage
<1>2. BackendTypeOK /\ StageFits /\ ReadInv /\ TypeOK
  BY DEF IInv, TypeOK
<1>3. StageFits'
  BY <1>1, <1>2, ReplyFacts
<1>4. exchange_in_progress /\ framing = "whole" /\ op \in ReadOps
  BY <1>1, <1>2 DEF ReadInv
<1>5. "LibraryBug" \in Errors /\ "Decode" \in Errors
  BY DEF Errors
<1> DEFINE x == MachineStep(op, state, m)
<1>6. CASE Fail("LibraryBug") \/ Fail("Decode")
  BY <1>3, <1>4, <1>5, <1>6, FailInv
<1>7. CASE x = "Finished" /\ Finish
  <2>1. Drained' /\ (op \in ReadyOps => server_tx' = server_tx) /\ (at_sync' <=> op \in ReadyOps)
    BY <1>1, <1>2, <1>7, FinishDrains
  <2>2. QED
    BY <1>1, <1>2, <1>3, <1>7, <2>1, FinishInv
<1>8. CASE /\ x \notin {"Finished", "LibraryBug"}
           /\ UNCHANGED <<flags, transaction_status, write_buffer, at, op, req,
                          pending_error, chunks, carry, result>>
  <2>1. Shape(op, todo') /\ Tagged(todo')
    BY <1>1, <1>2, <1>8, ReadsOn
  <2>2. Shape(op, todo)' /\ Tagged(todo)'
    BY <1>8, <2>1 DEF Shape, Tagged, TaggedBy
  <2>3. /\ framing' = framing /\ (skipping' => skipping)
        /\ exchange_in_progress' = exchange_in_progress
    BY <1>1, <1>8 DEF Reply, flags
  <2>4. ReadInv'
    BY <1>1, <1>2, <1>8, <2>2, <2>3 DEF ReadInv
  <2>5. QED
    BY <1>1, <1>3, <1>4, <1>8, <2>3, <2>4 DEF CallInv, ReadyInv, MayCall, Usable,
                                              ExchangeReady, WriteInv, PortalInv, StatusInv,
                                              OkMeansNoServerError
<1>9. QED
  BY <1>6, <1>7, <1>8 DEF ReadMessage

\* A call that keeps an error reads on to ReadyForQuery.
LEMMA KeepErrorInv ==
  ASSUME ReadInv, at = "read", KeepError, op \in ReadyOps,
         Shape(op, todo'), Tagged(todo'), framing' = framing,
         skipping' => op \in ReadyOps \ {"query"}
  PROVE  CallInv'
<1>1. /\ exchange_in_progress' = exchange_in_progress /\ exchange_in_progress
      /\ at' = "read" /\ op' = op /\ req' = req /\ pending_error'
      /\ framing = "whole" /\ op \in ReadOps
  BY DEF KeepError, flags, ReadInv
<1>2. Shape(op, todo)' /\ Tagged(todo)'
  BY <1>1 DEF Shape, Tagged, TaggedBy
<1>3. ReadInv'
  BY <1>1, <1>2 DEF ReadInv
<1>4. QED
  BY <1>1, <1>3 DEF CallInv, ReadyInv, MayCall, Usable, ExchangeReady, WriteInv, PortalInv,
                    StatusInv, OkMeansNoServerError

\* Reading a server error preserves the invariant.
LEMMA ReadErrorInv ==
  ASSUME IInv, ReadError
  PROVE  StageFits' /\ CallInv'
<1>1. at = "read" /\ ReplyError /\ BackendTypeOK /\ StageFits
  BY DEF ReadError, IInv, TypeOK
<1>2. ReadInv /\ exchange_in_progress /\ Shape(op, todo) /\ Tagged(todo)
  BY <1>1 DEF IInv, ReadInv
<1>4. StageFits' /\ framing' = framing
  BY <1>1, ErrorFacts
<1>5. CASE MachineError(op) = "Err"
  <2>1. Fail("Server") /\ "Server" \in Errors
    BY <1>5 DEF ReadError, Errors
  <2>2. QED
    BY <1>2, <1>4, <2>1, FailInv
<1>6. CASE MachineError(op) # "Err"
  <2>1. KeepError /\ op \in ReadyOps
    BY <1>6, KeepersSync DEF ReadError
  <2>2. Shape(op, todo') /\ Tagged(todo') /\ (skipping' => op \in ReadyOps \ {"query"})
    BY <1>1, <1>2, <2>1, ErrorKeepsShape DEF Tagged, TaggedBy
  <2>3. QED
    BY <1>1, <1>2, <1>4, <2>1, <2>2, KeepErrorInv
<1>7. QED
  BY <1>5, <1>6

\* Reading a FATAL error preserves the invariant.
LEMMA ReadFatalInv ==
  ASSUME IInv, ReadFatal
  PROVE  StageFits' /\ CallInv'
<1>1. at = "read" /\ UNCHANGED <<todo, stage, skipping, framing>>
  BY DEF ReadFatal, ReplyFatal
<1>2. /\ ReadInv /\ exchange_in_progress /\ Shape(op, todo) /\ Tagged(todo)
      /\ skipping => op \in ReadyOps \ {"query"}
  BY <1>1 DEF IInv, ReadInv
<1>3. StageFits'
  BY <1>1 DEF IInv, StageFits
<1>4. CASE MachineError(op) = "Err" \/ op \in SyncOps
  <2>1. Fail("Fatal") /\ "Fatal" \in Errors
    BY <1>4 DEF ReadFatal, Errors
  <2>2. QED
    BY <1>2, <1>3, <2>1, FailInv
<1>5. CASE ~(MachineError(op) = "Err" \/ op \in SyncOps)
  <2>1. KeepError /\ op \in ReadyOps
    BY <1>5, KeepersSync DEF ReadFatal
  <2>2. QED
    BY <1>1, <1>2, <1>3, <2>1, KeepErrorInv
<1>6. QED
  BY <1>4, <1>5

\* What reached the server of a request cut short is a request the stage fits.
LEMMA CutShortFits ==
  ASSUME BackendTypeOK, write_buffer \in Seq(Unit), todo = <<>>, CutShort
  PROVE  StageFits'
<1>1. PICK k \in 0..Len(write_buffer) : Deliver(SubSeq(write_buffer, 1, k))
  BY DEF CutShort
<1> DEFINE q == SubSeq(write_buffer, 1, k)
<1>2. q \in Seq(Unit)
  BY <1>1
<1>3. todo' = q /\ stage' = StageOf(q)
  <2>1. <<>> \o q = q
    BY <1>2
  <2>2. QED
    BY <1>1, <2>1 DEF Deliver
<1> HIDE DEF q
<1>4. QED
  BY <1>2, <1>3, StageOfFits DEF StageFits

\* A completed write preserves the invariant: the request is now what the call reads.
LEMMA WriteAllInv ==
  ASSUME IInv, WriteAll
  PROVE  StageFits' /\ CallInv'
<1>1. /\ at = "write" /\ exchange_in_progress /\ Drained /\ ~failed
      /\ write_buffer \in Seq(Unit) /\ op \in Ops
      /\ at_sync => transaction_status = server_tx
  BY DEF WriteAll, IInv, WriteInv, StatusInv, MayCall, Usable, ExchangeReady, TypeOK
<1>2. /\ todo' = write_buffer /\ stage' = StageOf(write_buffer)
      /\ UNCHANGED <<skipping, server_tx, at_sync, framing, transaction_status, failed>>
  <2>1. <<>> \o write_buffer = write_buffer
    BY <1>1
  <2>2. QED
    BY <1>1, <2>1 DEF WriteAll, Deliver, Drained
<1>3. StageFits'
  BY <1>1, <1>2, StageOfFits DEF StageFits
<1>4. CASE op = "lowlevel_flush"
  <2>1. finish_exchange("Ok")
    BY <1>4 DEF WriteAll
  <2>2. op \notin ReadOps
    BY <1>4 DEF ReadOps, BindOps, DriveOps, BatchOps, ExecuteOps, SyncOps
  <2>3. write_buffer = <<>>
    BY <1>1, <2>2 DEF IInv, WriteInv
  <2>4. Drained'
    BY <1>1, <1>2, <2>3 DEF Drained
  <2>5. QED
    BY <1>1, <1>2, <1>3, <2>1, <2>4, FinishExchangeInv
<1>5. CASE op # "lowlevel_flush"
  <2>1. /\ op \in ReadOps /\ Shape(op, write_buffer) /\ Tagged(write_buffer)
    BY <1>1, <1>5 DEF IInv, WriteInv
  <2>2. at' = "read" /\ UNCHANGED <<flags, op, req>>
    BY <1>5 DEF WriteAll
  <2>3. Shape(op, todo)' /\ Tagged(todo)'
    BY <1>2, <2>1, <2>2 DEF Shape, Tagged, TaggedBy
  <2>4. ReadInv' /\ ~ExchangeReady'
    BY <1>1, <1>2, <2>1, <2>2, <2>3 DEF ReadInv, MayCall, Usable, ExchangeReady, flags, Drained
  <2>5. QED
    BY <1>3, <2>2, <2>4 DEF CallInv, ReadyInv, MayCall, Usable, ExchangeReady, WriteInv,
                            PortalInv, StatusInv, OkMeansNoServerError
<1>6. QED
  BY <1>4, <1>5

\* A dropped future preserves the invariant: the exchange stays in progress.
LEMMA AbandonInv ==
  ASSUME IInv, Abandon
  PROVE  StageFits' /\ CallInv'
<1>1. at' = "idle" /\ result' # "Ok" /\ UNCHANGED <<flags, transaction_status, failed>>
  BY DEF Abandon, CallOver
<1>2. CASE at = "write"
  <2>1. exchange_in_progress /\ todo = <<>> /\ CutShort
    BY <1>2 DEF IInv, WriteInv, Drained, Abandon
  <2>2. StageFits'
    BY <2>1, CutShortFits DEF IInv, TypeOK
  <2>3. QED
    BY <1>1, <2>1, <2>2 DEF CallInv, ReadyInv, MayCall, Usable, ExchangeReady, WriteInv,
                            ReadInv, PortalInv, StatusInv, OkMeansNoServerError, flags
<1>3. CASE at = "read"
  <2>1. exchange_in_progress /\ UNCHANGED <<todo, stage>>
    BY <1>3 DEF IInv, ReadInv, Abandon
  <2>2. StageFits'
    BY <2>1 DEF IInv, StageFits
  <2>3. QED
    BY <1>1, <2>1, <2>2 DEF CallInv, ReadyInv, MayCall, Usable, ExchangeReady, WriteInv,
                            ReadInv, PortalInv, StatusInv, OkMeansNoServerError, flags
<1>4. CASE at = "portal"
  <2>1. UNCHANGED backend
    BY <1>4 DEF Abandon
  <2>2. StageFits'
    BY <2>1 DEF IInv, StageFits, backend
  <2>3. QED
    BY <1>1, <1>4, <2>1, <2>2 DEF IInv, CallInv, ReadyInv, MayCall, Usable, ExchangeReady,
                                  WriteInv, ReadInv, PortalInv, StatusInv,
                                  OkMeansNoServerError, flags, backend, Drained
<1>5. QED
  BY <1>2, <1>3, <1>4 DEF Abandon

\* What the server skips was never to be answered.
LEMMA ServerDiscardInv ==
  ASSUME IInv, ServerDiscard, UNCHANGED <<flags, transaction_status, call>>
  PROVE  StageFits' /\ CallInv'
<1>1. /\ todo # <<>> /\ todo \in Seq(Unit) /\ skipping /\ Head(todo).kind # "Sync"
      /\ todo' = Tail(todo) /\ UNCHANGED <<skipping, server_tx, at_sync, framing>>
  BY DiscardFacts DEF IInv, TypeOK
<1>2. StageFits'
  BY DiscardFacts DEF IInv, TypeOK
<1>3. ~MayCall /\ at # "write"
  BY <1>1 DEF IInv, ReadyInv, MayCall, Usable, ExchangeReady, WriteInv, Drained
<1>4. UNCHANGED <<at, op, req, flags, failed, result, pending_error>>
  BY DEF call
<1>5. ReadInv'
  <2>1. CASE at = "read"
    <3>1. Shape(op, todo) /\ Tagged(todo) /\ op \in ReadyOps \ {"query"}
      BY <1>1, <2>1 DEF IInv, ReadInv
    <3>2. Shape(op, todo') /\ Tagged(todo')
      BY <1>1, <3>1, ShapeTail DEF Tagged
    <3>3. Shape(op, todo)' /\ Tagged(todo)'
      BY <1>4, <3>2 DEF Shape, Tagged, TaggedBy
    <3>4. QED
      BY <1>1, <1>4, <2>1, <3>3 DEF IInv, ReadInv, flags
  <2>2. CASE at # "read"
    BY <1>4, <2>2 DEF ReadInv
  <2>3. QED
    BY <2>1, <2>2
<1>6. QED
  BY <1>2, <1>3, <1>4, <1>5 DEF flags, IInv, CallInv, ReadyInv, MayCall, Usable,
                                ExchangeReady, WriteInv, PortalInv, StatusInv,
                                OkMeansNoServerError

\* A new connection satisfies the invariant.
LEMMA InitInv == Init => IInv
<1> SUFFICES ASSUME Init
             PROVE  IInv
  OBVIOUS
<1>1. TypeOK
  BY InitType
<1>2. QED
  BY <1>1 DEF Init, BackendInit, ConnInit, IInv, StageFits, ReadyInv, MayCall, Usable,
              ExchangeReady, WriteInv, ReadInv, PortalInv, StatusInv, Drained,
              OkMeansNoServerError

\* Every step preserves the invariant: one step per action.
LEMMA NextInv == IInv /\ [Next]_vars => IInv'
<1> SUFFICES ASSUME IInv, [Next]_vars
             PROVE  IInv'
  OBVIOUS
<1>0. /\ TypeOK /\ CallInv /\ StageFits /\ BackendTypeOK
      /\ write_buffer \in Seq(Unit) /\ req \in Requests
  BY DEF IInv, CallInv, TypeOK
<1>t. TypeOK'
  BY <1>0, NextType
<1>c. ASSUME StageFits', CallInv'
      PROVE  IInv'
  BY <1>t, <1>c DEF IInv, CallInv
<1>s. ASSUME UNCHANGED <<todo, stage>>
      PROVE  StageFits'
  BY <1>0, <1>s DEF StageFits
<1>1. ASSUME NEW r \in Requests, Call(r)
      PROVE  IInv'
  <2>1. PICK o \in CallOps, n \in Nat \ {0}, more \in 0..(MaxChunks - 1) : Start(o, r, n, more)
    BY <1>1, CallFacts
  <2>2. o \in ReadOps \cup {"lowlevel_flush"}
    BY DEF CallOps
  <2>3. /\ Begin(o, r, n) /\ ~failed' /\ MayCall
        /\ UNCHANGED <<backend, is_broken, transaction_status>>
    BY <2>1 DEF Start, ensure_usable, MayCall
  <2>4. CallInv'
    BY <1>0, <2>2, <2>3, BeginInv
  <2>5. QED
    BY <1>c, <1>s, <2>3, <2>4 DEF backend
<1>2. CASE WriteAll
  BY <1>2, <1>c, WriteAllInv
<1>3. CASE WriteFails
  <2>1. /\ exchange_in_progress /\ todo = <<>> /\ CutShort
        /\ Fail("Io") /\ "Io" \in Errors
    BY <1>3 DEF IInv, WriteFails, WriteInv, Drained, Errors
  <2>2. QED
    BY <1>0, <1>c, <2>1, CutShortFits, FailInv
<1>4. ASSUME NEW m \in Messages, ReadMessage(m)
      PROVE  IInv'
  BY <1>4, <1>c, ReadMessageInv
<1>5. CASE ReadError
  BY <1>5, <1>c, ReadErrorInv
<1>6. CASE ReadFatal
  BY <1>6, <1>c, ReadFatalInv
<1>7. CASE ReadAsync
  <2>1. UNCHANGED <<backend, flags, transaction_status, at, op, req, pending_error, failed,
                    write_buffer, result>>
    BY <1>7 DEF ReadAsync, ReplyAsync
  <2>2. StageFits'
    BY <1>s, <2>1 DEF backend
  <2>3. ReadInv' /\ at' = "read"
    BY <1>7, <2>1 DEF IInv, ReadInv, ReadAsync, Shape, Tagged, TaggedBy, backend, flags
  <2>4. QED
    BY <1>c, <2>2, <2>3 DEF CallInv, ReadyInv, MayCall, Usable, ExchangeReady, WriteInv,
                            PortalInv, StatusInv, OkMeansNoServerError, ReadInv
<1>8. CASE ReadFails
  <2>1. /\ exchange_in_progress /\ UNCHANGED backend
        /\ Fail("Io") /\ "Io" \in Errors
    BY <1>8 DEF IInv, ReadFails, ReadInv, Errors
  <2>2. QED
    BY <1>c, <1>s, <2>1, FailInv DEF backend
<1>9. CASE portal_exec
  <2>1. /\ Begin("portal_exec", req, 1) /\ "portal_exec" \in ReadOps /\ 1 \in Nat \ {0}
        /\ UNCHANGED <<backend, is_broken, transaction_status>>
    BY <1>9 DEF portal_exec, ReadOps, ExecuteOps
  <2>2. ~failed' /\ MayCall
    BY <1>9 DEF portal_exec, Begin, begin_exchange, MayCall, ExchangeReady, IInv, PortalInv
  <2>3. CallInv'
    BY <1>0, <2>1, <2>2, BeginInv
  <2>4. QED
    BY <1>c, <1>s, <2>1, <2>3 DEF backend
<1>10. ASSUME NEW c \in {"Ok"} \cup Errors, portal_return(c)
       PROVE  IInv'
  <2>0. UNCHANGED <<backend, transaction_status, failed>>
    BY <1>10 DEF portal_return
  <2>1. CASE Begin("portal_sync", req, 1)
    <3>1. "portal_sync" \in ReadOps /\ 1 \in Nat \ {0} /\ UNCHANGED is_broken
      BY <1>10, <2>1 DEF portal_return, Begin, begin_exchange, ReadOps, SyncOps
    <3>2. ~failed' /\ MayCall
      BY <1>10, <2>1 DEF portal_return, Begin, begin_exchange, MayCall, ExchangeReady, IInv,
                         PortalInv
    <3>3. CallInv'
      BY <1>0, <2>0, <2>1, <3>1, <3>2, BeginInv
    <3>4. QED
      BY <1>c, <1>s, <2>0, <3>3 DEF backend
  <2>2. CASE ~Begin("portal_sync", req, 1)
    <3>1. /\ ~ExchangeReady /\ UNCHANGED exchange_in_progress
          /\ Return(IF c = "Ok" THEN "ConnectionBroken" ELSE c, FALSE)
      BY <1>10, <2>2 DEF portal_return
    <3>2. ~ExchangeReady' /\ at' = "idle" /\ result' # "Ok"
      BY <3>1 DEF Return, CallOver, MayCall, Usable, ExchangeReady
    <3>3. CallInv'
      BY <3>2 DEF CallInv, ReadyInv, MayCall, Usable, ExchangeReady, WriteInv, ReadInv,
                  PortalInv, StatusInv, OkMeansNoServerError
    <3>4. QED
      BY <1>c, <1>s, <2>0, <3>3 DEF backend
  <2>3. QED
    BY <2>1, <2>2
<1>11. CASE Abandon
  BY <1>11, <1>c, AbandonInv
<1>12. CASE close
  <2>1. /\ at' = "closed"
        /\ UNCHANGED <<todo, stage, skipping, server_tx, at_sync, framing, flags,
                       transaction_status>>
    BY <1>12 DEF close
  <2>2. CallInv'
    BY <1>0, <2>1 DEF CallInv, ReadyInv, MayCall, Usable, ExchangeReady, Drained, WriteInv,
                      ReadInv, PortalInv, StatusInv, OkMeansNoServerError, flags
  <2>3. QED
    BY <1>c, <1>s, <2>1, <2>2
<1>13. CASE Environment
  <2>1. CASE ServerDiscard
    BY <1>13, <1>c, <2>1, ServerDiscardInv DEF Environment
  <2>2. CASE PeerDies
    <3>1. UNCHANGED <<todo, stage, skipping, server_tx, at_sync, framing, flags,
                      transaction_status, call>>
      BY <1>13, <2>2 DEF PeerDies, Environment
    <3>2. CallInv'
      BY <1>0, <3>1 DEF CallInv, ReadyInv, MayCall, Usable, ExchangeReady, Drained, WriteInv,
                        ReadInv, PortalInv, StatusInv, OkMeansNoServerError, Shape, Tagged,
                        TaggedBy, flags, call
    <3>3. QED
      BY <1>c, <1>s, <3>1, <3>2
  <2>3. QED
    BY <1>13, <2>1, <2>2 DEF Environment
<1>14. CASE UNCHANGED vars
  <2>1. CallInv'
    BY <1>0, <1>14 DEF vars, backend, CallInv, ReadyInv, MayCall, Usable, ExchangeReady,
                       Drained, WriteInv, ReadInv, PortalInv, StatusInv,
                       OkMeansNoServerError, Shape, Tagged, TaggedBy, flags, call
  <2>2. QED
    BY <1>14, <1>c, <1>s, <2>1 DEF vars, backend
<1>15. QED
  BY <1>1, <1>2, <1>3, <1>4, <1>5, <1>6, <1>7, <1>8, <1>9, <1>10, <1>11, <1>12, <1>13, <1>14
     DEF Next, Exchange, Portal

\* The invariant that carries every safety property of the connection.
THEOREM Invariance == Spec => []IInv
<1>1. QED
  BY InitInv, NextInv, PTL DEF Spec

\* A connection that would accept a call owes nothing and is owed nothing: the three
\* flags is_broken, exchange_in_progress and scope_pending suffice, however calls end.
THEOREM UsableIsDrained == Spec => []UsableMeansDrained
<1>1. IInv => UsableMeansDrained
  BY DEF IInv, ReadyInv, UsableMeansDrained, MayCall, Usable, ExchangeReady
<1>2. QED
  BY <1>1, Invariance, PTL

\* No call reads the answers that an earlier, abandoned call left on the socket.
THEOREM OwnAnswers == Spec => []OwnAnswersOnly
<1>1. IInv => OwnAnswersOnly
  <2>1. TypeOK => DOMAIN todo = 1..Len(todo)
    BY DEF TypeOK, BackendTypeOK
  <2>2. QED
    BY <2>1 DEF IInv, ReadInv, Tagged, TaggedBy, OwnAnswersOnly
<1>2. QED
  BY <1>1, Invariance, PTL

\* No read loop waits for a server that owes nothing or waits for a Sync itself.
THEOREM NoHang == Spec => []NeverWaitsForNothing
<1>1. IInv => NeverWaitsForNothing
  <2> SUFFICES ASSUME IInv, at = "read"
               PROVE  \E i \in DOMAIN todo : skipping => todo[i].kind = "Sync"
    BY DEF NeverWaitsForNothing
  <2>1. /\ Shape(op, todo) /\ op \in ReadOps
        /\ skipping => op \in ReadyOps \ {"query"}
    BY DEF IInv, ReadInv
  <2>2. DOMAIN todo = 1..Len(todo) /\ Len(todo) \in Nat
    BY DEF IInv, TypeOK, BackendTypeOK
  <2>3. Len(todo) >= 1 /\ (skipping => todo[Len(todo)].kind = "Sync")
    BY <2>1, <2>2 DEF Shape
  <2>4. Len(todo) \in DOMAIN todo
    BY <2>2, <2>3
  <2>5. QED
    BY <2>3, <2>4
<1>2. QED
  BY <1>1, Invariance, PTL

\* The status by which transaction() and the pools decide is the server's.
THEOREM StatusCorrect == Spec => []StatusIsServers
<1>1. IInv => StatusIsServers
  BY DEF IInv, StatusInv, StatusIsServers, MayCall, Usable, ExchangeReady
<1>2. QED
  BY <1>1, Invariance, PTL

\* No server error is lost: a call that was told of one does not return Ok.
THEOREM OkIsOk == Spec => []OkMeansNoServerError
<1>1. IInv => OkMeansNoServerError
  BY DEF IInv
<1>2. QED
  BY <1>1, Invariance, PTL

\* No sequence of public calls makes an unusable connection usable or writes to it.
THEOREM StaysUnusable == Spec => UnusableForGood
<1>1. TypeOK /\ [Next]_vars =>
        [at = "idle" /\ ~Usable => ~Usable' /\ at' = "idle" /\ Len(todo') <= Len(todo)]_vars
  <2> SUFFICES ASSUME TypeOK, Next, at = "idle", ~Usable
               PROVE  ~Usable' /\ at' = "idle" /\ Len(todo') <= Len(todo)
    OBVIOUS
  <2>1. ASSUME NEW r \in Requests, Call(r)
        PROVE  FALSE
    BY <2>1, CallFacts DEF Start, ensure_usable
  <2>2. Environment
    BY <2>1 DEF Next, Exchange, WriteAll, WriteFails, ReadMessage, ReadError, ReadFatal,
                ReadAsync, ReadFails, Portal, portal_exec, portal_return, Abandon, close,
                ensure_usable
  <2>3. UNCHANGED <<at, is_broken, exchange_in_progress, scope_pending>>
    BY <2>2 DEF Environment, flags, call
  <2>4. Len(todo') <= Len(todo)
    <3>1. todo \in Seq(Unit) /\ Len(todo) \in Nat
      BY DEF TypeOK, BackendTypeOK
    <3>2. CASE ServerDiscard
      BY <3>1, <3>2, TailFacts DEF ServerDiscard
    <3>3. CASE PeerDies
      BY <3>1, <3>3 DEF PeerDies
    <3>4. QED
      BY <2>2, <3>2, <3>3 DEF Environment
  <2>5. QED
    BY <2>3, <2>4 DEF Usable
<1>2. QED
  BY <1>1, TypeCorrect, PTL DEF Spec, UnusableForGood

-----------------------------------------------------------------------------
(***************************************************************************)
(* The connection implements Session.  A step of Conn maps to Accept (a    *)
(* public call begins), Work (it writes, reads or goes on), Release or     *)
(* Condemn (it ends), Close, Decay (of an unusable connection) or a        *)
(* stutter.  That Release finds the connection settled is ReadyInv and     *)
(* StatusInv of the inductive invariant IInv.                              *)
(***************************************************************************)

\* No pipeline borrows the connection in module Conn, and a closed one is dead.
PlainInv == at # "pipe" /\ (at = "closed" => ~alive)

Waiting == {"write", "read", "portal"}

-----------------------------------------------------------------------------
\* What a step does to the phase of the connection.
LEMMA StepKinds ==
  ASSUME Next
  PROVE  \/ at = "idle" /\ Usable /\ at' = "write"
         \/ /\ at = "idle" /\ Usable /\ at' = "closed" /\ ~alive'
         \/ at \in Waiting /\ at' \in Waiting \cup {"idle"}
         \/ Environment
<1>1. ASSUME NEW r \in Requests, Call(r)
      PROVE  at = "idle" /\ Usable /\ at' = "write"
  BY <1>1, CallFacts DEF Start, Begin, ensure_usable
<1>2. ASSUME NEW e, EndExchange(e)
      PROVE  at' \in Waiting \cup {"idle"}
  BY <1>2 DEF EndExchange, ReturnToClosure, Return, CallOver, Waiting
<1>3. CASE WriteAll
  BY <1>3, <1>2 DEF WriteAll, finish_exchange, Waiting
<1>4. CASE WriteFails
  BY <1>4, <1>2 DEF WriteFails, Fail, Waiting
<1>5. ASSUME NEW m, ReadMessage(m)
      PROVE  at \in Waiting /\ at' \in Waiting \cup {"idle"}
  <2>1. ASSUME Finish
        PROVE  at' \in Waiting \cup {"idle"}
    BY <2>1, <1>2 DEF Finish, NextChunk, finish_exchange, Waiting
  <2>2. QED
    BY <1>5, <1>2, <2>1 DEF ReadMessage, Fail, Waiting
<1>6. CASE ReadError
  BY <1>6, <1>2 DEF ReadError, Fail, KeepError, Waiting
<1>7. CASE ReadFatal
  BY <1>7, <1>2 DEF ReadFatal, Fail, KeepError, Waiting
<1>8. CASE ReadAsync
  BY <1>8 DEF ReadAsync, Waiting
<1>9. CASE ReadFails
  BY <1>9, <1>2 DEF ReadFails, Fail, Waiting
<1>10. CASE Portal
  BY <1>10 DEF Portal, portal_exec, portal_return, Begin, Return, CallOver, Waiting
<1>11. CASE Abandon
  BY <1>11 DEF Abandon, CallOver, Waiting
<1>12. CASE close
  BY <1>12 DEF close, ensure_usable
<1>13. QED
  BY <1>1, <1>3, <1>4, <1>5, <1>6, <1>7, <1>8, <1>9, <1>10, <1>11, <1>12 DEF Next, Exchange

\* PlainInv is an invariant.
LEMMA PlainInvariant == Spec => []PlainInv
<1>1. Init => PlainInv
  BY DEF Init, ConnInit, PlainInv
<1>2. PlainInv /\ [Next]_vars => PlainInv'
  <2> SUFFICES ASSUME PlainInv, [Next]_vars
               PROVE  PlainInv'
    OBVIOUS
  <2>1. CASE UNCHANGED vars
    BY <2>1 DEF PlainInv, vars, backend, call
  <2>2. CASE Environment
    BY <2>2 DEF Environment, ServerDiscard, PeerDies, PlainInv, call
  <2>3. QED
    BY <2>1, <2>2, StepKinds DEF PlainInv, Waiting
<1>3. QED
  BY <1>1, <1>2, PTL DEF Spec

-----------------------------------------------------------------------------
\* The holder's view of a connection that is ready.
LEMMA ReadyIsSettled ==
  ASSUME IInv, at \in {"idle", "closed"}, Usable
  PROVE  Drained /\ (at_sync => transaction_status = server_tx)
  BY DEF IInv, ReadyInv, StatusInv, MayCall, Usable

\* On a drained or closed connection the environment changes nothing the holder sees.
LEMMA EnvironmentUnseen ==
  ASSUME Environment, Drained \/ ~alive
  PROVE  UNCHANGED <<todo, skipping, framing, at_sync, server_tx, transaction_status, at,
                     is_broken, exchange_in_progress, scope_pending>>
  BY DEF Environment, ServerDiscard, PeerDies, Drained, flags, call

\* Initially the connection is ready and settled.
LEMMA SessionInitially == Init => Promise!SessionInit
  BY DEF Init, BackendInit, ConnInit, Phase, Usable, Drained, Promise!SessionInit,
         Promise!Settled

\* A step of an idle connection.
LEMMA IdleStep ==
  ASSUME IInv, PlainInv, Next, at = "idle",
         ~Usable => ~Usable' /\ at' = "idle"
  PROVE  [Promise!SessionNext]_(Promise!session)
<1>1. CASE ~Usable
  <2>1. Phase = "unusable" /\ Phase' = "unusable"
    BY <1>1 DEF Phase
  <2>2. QED
    BY <2>1 DEF Promise!SessionNext, Promise!Decay
<1>2. CASE Usable /\ at' = "write"
  <2>1. Phase = "ready" /\ Phase' = "busy"
    BY <1>2 DEF Phase
  <2>2. QED
    BY <2>1 DEF Promise!SessionNext, Promise!Accept
<1>3. CASE Usable /\ at' = "closed"
  <2>1. Phase = "ready" /\ Phase' = "closed"
    BY <1>3 DEF Phase
  <2>2. QED
    BY <2>1 DEF Promise!SessionNext, Promise!Close
<1>4. CASE Usable /\ Environment
  <2>1. Drained
    BY <1>4, ReadyIsSettled
  <2>2. UNCHANGED <<todo, skipping, framing, at_sync, server_tx, transaction_status, at,
                    is_broken, exchange_in_progress, scope_pending>>
    BY <1>4, <2>1, EnvironmentUnseen
  <2>3. Phase' = Phase /\ Drained' = Drained
    BY <2>2 DEF Phase, Usable, Drained
  <2>4. QED
    BY <2>2, <2>3 DEF Promise!session
<1>5. QED
  BY <1>1, <1>2, <1>3, <1>4, StepKinds DEF Waiting

\* A step of a connection with a call in progress.
LEMMA BusyStep ==
  ASSUME IInv', Next, at \in Waiting
  PROVE  [Promise!SessionNext]_(Promise!session)
<1>1. at' \in Waiting \cup {"idle"}
  <2>1. CASE Environment
    BY <2>1 DEF Environment, call
  <2>2. QED
    BY <2>1, StepKinds DEF Waiting
<1>2. Phase = "busy"
  BY DEF Phase, Waiting
<1>3. CASE at' \in Waiting
  <2>1. Phase' = "busy"
    BY <1>3 DEF Phase, Waiting
  <2>2. QED
    BY <1>2, <2>1 DEF Promise!SessionNext, Promise!Work
<1>4. CASE at' = "idle" /\ Usable'
  <2>1. Phase' = "ready"
    BY <1>4 DEF Phase
  <2>2. Drained' /\ (at_sync' => transaction_status' = server_tx')
    BY <1>4 DEF IInv, ReadyInv, StatusInv, MayCall, Usable
  <2>3. Drained' = TRUE /\ (at_sync => transaction_status = server_tx)' = TRUE
    BY <2>2 DEF Drained
  <2>4. QED
    BY <1>2, <2>1, <2>3 DEF Promise!SessionNext, Promise!Release, Promise!Settled
<1>5. CASE at' = "idle" /\ ~Usable'
  <2>1. Phase' = "unusable"
    BY <1>5 DEF Phase
  <2>2. QED
    BY <1>2, <2>1 DEF Promise!SessionNext, Promise!Condemn
<1>6. QED
  BY <1>1, <1>3, <1>4, <1>5

\* A closed connection stays as it is.
LEMMA ClosedStep ==
  ASSUME PlainInv, Next, at = "closed"
  PROVE  UNCHANGED (Promise!session)
<1>1. Environment /\ ~alive
  BY StepKinds DEF PlainInv, Waiting
<1>2. UNCHANGED <<todo, skipping, framing, at_sync, server_tx, transaction_status, at,
                  is_broken, exchange_in_progress, scope_pending>>
  BY <1>1, EnvironmentUnseen
<1>3. Phase' = Phase /\ Drained' = Drained
  BY <1>2 DEF Phase, Usable, Drained
<1>4. QED
  BY <1>2, <1>3 DEF Promise!session

(***************************************************************************)
(* The asynchronous connection keeps its promise: to its holder it is      *)
(* ready and settled, busy with one call, unusable for good, or closed,    *)
(* whatever the server, the network and dropped futures do.                *)
(***************************************************************************)
THEOREM ConnImplementsSession == Spec => ImplementsSession
<1>1. IInv /\ PlainInv /\ IInv' /\ [Next]_vars
        /\ [at = "idle" /\ ~Usable => ~Usable' /\ at' = "idle" /\ Len(todo') <= Len(todo)]_vars
        => [Promise!SessionNext]_(Promise!session)
  <2> SUFFICES ASSUME IInv, PlainInv, IInv', [Next]_vars,
                      [at = "idle" /\ ~Usable =>
                         ~Usable' /\ at' = "idle" /\ Len(todo') <= Len(todo)]_vars
               PROVE  [Promise!SessionNext]_(Promise!session)
    OBVIOUS
  <2>1. CASE UNCHANGED vars
    <3>1. Phase' = Phase /\ Drained' = Drained
      BY <2>1 DEF vars, backend, flags, call, Phase, Usable, Drained
    <3>2. UNCHANGED <<at_sync, transaction_status, server_tx>>
      BY <2>1 DEF vars, backend
    <3>3. QED
      BY <3>1, <3>2 DEF Promise!session
  <2>2. CASE Next /\ vars' # vars
    <3>1. at \in {"idle", "closed"} \cup Waiting
      BY DEF IInv, TypeOK, PlainInv, Waiting
    <3>2. CASE at = "idle"
      BY <2>2, <3>2, IdleStep
    <3>3. CASE at = "closed"
      BY <2>2, <3>3, ClosedStep
    <3>4. CASE at \in Waiting
      BY <2>2, <3>4, BusyStep
    <3>5. QED
      BY <3>1, <3>2, <3>3, <3>4
  <2>3. QED
    BY <2>1, <2>2
<1>2. QED
  BY <1>1, SessionInitially, Invariance, PlainInvariant, StaysUnusable, PTL
     DEF Spec, ImplementsSession, Promise!SessionSpec, UnusableForGood

-----------------------------------------------------------------------------
(***************************************************************************)
(* The pipeline on it.                                                     *)
(***************************************************************************)

\* The inductive invariant.

\* The exchange of a pipeline that takes its course: not condemned, and no future
\* of the handle ended with its exchange open.
OnCourse == pc # "none" /\ ~is_broken /\ (pc = "ready" => ~exchange_in_progress)

\* What is still to be read, the expectation being read included.
Queue == IF Reading THEN <<cur>> \o expectations ELSE expectations

\* The server works on what is expected, and skips exactly while the handle is aborted.
WireInv ==
  framing = "whole" /\ (skipping <=> aborted) /\ Match(Outstanding, Queue, aborted)

\* Where the Syncs are.  Only the write of a sync leaves one in the buffer.
BufferInv ==
  /\ pc \notin {"ready", "write"} => write_buffer = <<>>
  /\ pc = "ready" \/ then = "flush" => NoSync(write_buffer)
  /\ pc = "write" /\ then # "flush" => EndsInSync(write_buffer) /\ EndsInSync(expectations)
  /\ pc = "write" /\ then = "flush" => NoSync(expectations)
  /\ Closed(todo)
  /\ write_buffer = <<>> => Closed(Queue)

\* A scope that is not pending left nothing on the server; cleanup drains to a Sync.
ScopeInv ==
  /\ ~scope_pending => todo = <<>> /\ ~aborted
  /\ pc = "write" => scope_pending
  /\ pc = "drain_read" => EndsInSync(Queue)
  /\ pc = "drain" => IF expectations = <<>> THEN ~scope_pending ELSE EndsInSync(expectations)

\* The tickets not claimed yet have their statements in the queue, before any Sync
\* that is read with them.
TicketInv ==
  /\ pc \in {"ready", "write", "claim", "syncs"} =>
       TicketsFor(Queue, claim_seq, queue_seq, ticketless)
  /\ pc = "claim" \/ then = "claim" => check_sequence
  /\ pc \in {"ready", "write"} /\ aborted /\ SyncInFront(expectations) =>
       Kinded(expectations, {"Sync"})

\* What each future waits for.
FutureInv ==
  /\ pc = "claim" => cur.kind \in ExecKinds /\ ~aborted
  /\ pc = "syncs" => cur.kind = "Sync"
  /\ pc = "drain_read" /\ aborted => cur.kind = "Sync"
  /\ pc = "write" <=> then # "none"
  /\ pc # "ready" => exchange_in_progress
  /\ at_sync => transaction_status = server_tx

CourseInv == OnCourse => WireInv /\ BufferInv /\ ScopeInv /\ TicketInv /\ FutureInv

\* A handle borrows the connection; while it waits the connection is not condemned.
HandleInv ==
  /\ pc # "none" <=> at = "pipe"
  /\ pc \notin {"none", "ready"} => ~is_broken
  /\ pc # "write" => then = "none"
  /\ at = "pipe" /\ result = "Ok" => ~failed

\* QueueMatchesWire alone is not inductive: that the front of the queue is answered
\* next depends on the server's stage (IInv of the connection), that cleanup may stop
\* depends on where the Syncs are, and that a claim in an aborted pipeline passes over
\* a statement, and not a Sync, on the tickets.
PInv == PTypeOK /\ IInv /\ HandleInv /\ CourseInv

-----------------------------------------------------------------------------
\* A future that waits is on course.
LEMMA Waits ==
  ASSUME HandleInv, CourseInv, pc \notin {"none", "ready"}
  PROVE  OnCourse /\ WireInv /\ BufferInv /\ ScopeInv /\ TicketInv /\ FutureInv
BY DEF HandleInv, CourseInv, OnCourse

\* So is a handle whose operations are accepted.
LEMMA Accepts ==
  ASSUME CourseInv, pc = "ready", ExchangeReady
  PROVE  OnCourse /\ WireInv /\ BufferInv /\ ScopeInv /\ TicketInv /\ FutureInv
BY DEF CourseInv, OnCourse, ExchangeReady

\* A future that ends with its exchange open leaves the course.
LEMMA OffCourse ==
  ASSUME pc' = "ready", exchange_in_progress'
  PROVE  CourseInv'
BY DEF CourseInv, OnCourse

\* What the connection's invariant asks of a borrowed connection.
LEMMA Borrowed ==
  ASSUME TypeOK', StageFits', HandleInv', CourseInv', at' = "pipe"
  PROVE  IInv'
<1>1. ReadyInv' /\ StatusInv'
  <2> SUFFICES ASSUME MayCall'
               PROVE  Drained' /\ (at_sync' => transaction_status' = server_tx')
    BY DEF ReadyInv, StatusInv
  <2>1. Usable' /\ pc' # "none"
    BY DEF MayCall, HandleInv
  <2>2. OnCourse'
    BY <2>1 DEF OnCourse, Usable
  <2>3. WireInv' /\ ScopeInv' /\ FutureInv'
    BY <2>2 DEF CourseInv
  <2>4. QED
    BY <2>1, <2>3 DEF WireInv, ScopeInv, FutureInv, Usable, Drained
<1>2. WriteInv' /\ ReadInv' /\ PortalInv' /\ OkMeansNoServerError'
  BY DEF WriteInv, ReadInv, PortalInv, OkMeansNoServerError
<1>3. QED
  BY <1>1, <1>2 DEF IInv

-----------------------------------------------------------------------------
\* Types.

\* The part of PTypeOK about the handle.
PipeTypeOK ==
  /\ queue_seq \in Nat /\ claim_seq \in 0..queue_seq
  /\ aborted \in BOOLEAN /\ ticketless \subseteq 0..queue_seq
  /\ expectations \in Seq(Unit)
  /\ pc \in {"none", "ready", "write", "claim", "syncs", "drain", "drain_read"}
  /\ then \in {"none", "flush", "sync", "claim", "cleanup"}
  /\ cur \in Unit
  /\ cstate \in ClaimStates

\* The part about the futures of the handle.
FutureTypeOK ==
  /\ expectations \in Seq(Unit)
  /\ pc \in {"none", "ready", "write", "claim", "syncs", "drain", "drain_read"}
  /\ then \in {"none", "flush", "sync", "claim", "cleanup"}
  /\ cur \in Unit
  /\ cstate \in ClaimStates

\* The part about the connection that operations of the handle change.
LentTypeOK ==
  /\ is_broken \in BOOLEAN /\ exchange_in_progress \in BOOLEAN /\ scope_pending \in BOOLEAN
  /\ transaction_status \in TxStatus
  /\ write_buffer \in Seq(Unit)
  /\ at \in {"idle", "write", "read", "portal", "pipe", "closed"}

\* PTypeOK with its parts.
LEMMA PTypeSplit ==
  PTypeOK => /\ BackendTypeOK /\ LentTypeOK /\ PipeTypeOK /\ FutureTypeOK /\ req \in Requests
             /\ DOMAIN todo = 1..Len(todo) /\ DOMAIN expectations = 1..Len(expectations)
             /\ Outstanding \in Seq(Unit) /\ Queue \in Seq(Unit)
<1> SUFFICES ASSUME PTypeOK
             PROVE  /\ BackendTypeOK /\ LentTypeOK /\ PipeTypeOK /\ FutureTypeOK /\ req \in Requests
                    /\ DOMAIN todo = 1..Len(todo) /\ DOMAIN expectations = 1..Len(expectations)
                    /\ Outstanding \in Seq(Unit) /\ Queue \in Seq(Unit)
  OBVIOUS
<1>1. /\ BackendTypeOK /\ LentTypeOK /\ PipeTypeOK /\ FutureTypeOK /\ req \in Requests
  BY DEF PTypeOK, TypeOK, LentTypeOK, PipeTypeOK, FutureTypeOK
<1>2. todo \in Seq(Unit) /\ write_buffer \in Seq(Unit) /\ expectations \in Seq(Unit) /\ cur \in Unit
  BY <1>1 DEF BackendTypeOK, LentTypeOK, PipeTypeOK
<1>3. DOMAIN todo = 1..Len(todo) /\ DOMAIN expectations = 1..Len(expectations)
  BY <1>2
<1>4. Outstanding \in Seq(Unit) /\ Queue \in Seq(Unit)
  BY <1>2 DEF Outstanding, Queue
<1>5. QED
  BY <1>1, <1>3, <1>4

\* The types after an operation of the handle.
LEMMA PTypeJoin ==
  ASSUME PTypeOK, BackendTypeOK', LentTypeOK', UnusedByPipeline,
         queue_seq' \in Nat /\ claim_seq' \in 0..queue_seq' /\ ticketless' \subseteq 0..queue_seq',
         aborted' \in BOOLEAN, FutureTypeOK'
  PROVE  PTypeOK'
<1>1. TypeOK'
  BY DEF PTypeOK, TypeOK, LentTypeOK, UnusedByPipeline
<1>2. QED
  BY <1>1 DEF PTypeOK, FutureTypeOK

\* Fresh counters.
LEMMA ClearedType ==
  ASSUME queue_seq' = 0, ticketless' = {}, claim_seq' = 0, aborted' = FALSE
  PROVE  /\ queue_seq' \in Nat /\ claim_seq' \in 0..queue_seq' /\ ticketless' \subseteq 0..queue_seq'
         /\ aborted' \in BOOLEAN
<1>1. 0 \in Nat /\ 0 \in 0..0 /\ {} \subseteq 0..0 /\ FALSE \in BOOLEAN
  OBVIOUS
<1>2. QED
  BY <1>1, Zenon

\* A future ends.
LEMMA ReadyType ==
  ASSUME FutureTypeOK, req \in Requests, Ready, expectations' \in Seq(Unit)
  PROVE  FutureTypeOK'
BY DEF FutureTypeOK, Ready, NoUnit, U, Unit, Kinds, ClaimStates

\* Reading a Sync, or the end.
LEMMA PendingSyncsType ==
  ASSUME FutureTypeOK, req \in Requests, NEW q \in Seq(Unit), PendingSyncs(q)
  PROVE  FutureTypeOK' /\ exchange_in_progress' \in BOOLEAN
<1>1. CASE SyncInFront(q)
  <2>1. Head(q) \in Unit /\ Tail(q) \in Seq(Unit)
    BY <1>1, TailFacts DEF SyncInFront
  <2>2. QED
    BY <1>1, <2>1 DEF PendingSyncs, FutureTypeOK, ClaimStates
<1>2. CASE ~SyncInFront(q)
  BY <1>2, ReadyType DEF PendingSyncs
<1>3. QED
  BY <1>1, <1>2

\* What claims read next.
LEMMA ClaimFrontType ==
  ASSUME PTypeOK, check_sequence, ClaimFront
  PROVE  /\ FutureTypeOK' /\ exchange_in_progress' \in BOOLEAN
         /\ claim_seq' \in 0..queue_seq /\ UNCHANGED <<is_broken, scope_pending, aborted, issued>>
<1>1. PipeTypeOK /\ FutureTypeOK /\ req \in Requests
  BY PTypeSplit
<1>2. claim_seq + 1 \in 0..queue_seq /\ claim_seq \in 0..queue_seq
  BY <1>1 DEF check_sequence, PipeTypeOK
<1>3. PopFront(expectations) \in Seq(Unit)
  BY <1>1, TailFacts DEF PopFront, PipeTypeOK
<1>4. CASE aborted
  BY <1>1, <1>2, <1>3, <1>4, PendingSyncsType DEF ClaimFront
<1>5. CASE ~aborted /\ expectations # <<>> /\ Head(expectations).kind \in ExecKinds
  <2>1. Head(expectations) \in Unit
    BY <1>1, <1>5, TailFacts DEF PipeTypeOK
  <2>2. QED
    BY <1>1, <1>2, <1>3, <1>5, <2>1 DEF ClaimFront, FutureTypeOK, claim_start, ClaimStates
<1>6. CASE ~aborted /\ ~(expectations # <<>> /\ Head(expectations).kind \in ExecKinds)
  BY <1>1, <1>2, <1>3, <1>6, ReadyType DEF ClaimFront
<1>7. QED
  BY <1>4, <1>5, <1>6 DEF ClaimFront

\* What a sync writes and expects.
LEMMA SyncInnerType ==
  ASSUME PTypeOK, NEW k \in {"sync", "claim", "cleanup"}, sync_inner(k),
         UNCHANGED <<backend, transaction_status, at>>, UnusedByPipeline
  PROVE  PTypeOK'
<1>1. /\ BackendTypeOK /\ PipeTypeOK /\ LentTypeOK /\ FutureTypeOK /\ req \in Requests
  BY PTypeSplit
<1>2. U("Sync", req) \in Unit
  BY <1>1 DEF U, Unit, Kinds
<1>3. /\ write_buffer' \in Seq(Unit) /\ expectations' \in Seq(Unit)
  BY <1>1, <1>2 DEF sync_inner, LentTypeOK, FutureTypeOK
<1>4. BackendTypeOK'
  BY <1>1 DEF BackendTypeOK, backend
<1>5. FutureTypeOK' /\ LentTypeOK'
  BY <1>1, <1>3 DEF FutureTypeOK, LentTypeOK, sync_inner
<1>6. /\ queue_seq' \in Nat /\ claim_seq' \in 0..queue_seq' /\ ticketless' \subseteq 0..queue_seq'
      /\ aborted' \in BOOLEAN
  BY <1>1 DEF PipeTypeOK, sync_inner, issued
<1>7. QED
  BY <1>4, <1>5, <1>6, PTypeJoin

-----------------------------------------------------------------------------
\* The handle's own steps keep the types.
LEMMA QueueType ==
  ASSUME PInv, PipeQueue
  PROVE  PTypeOK'
<1>0. /\ PTypeOK /\ BackendTypeOK /\ PipeTypeOK /\ LentTypeOK /\ FutureTypeOK /\ req \in Requests
      /\ CourseInv /\ HandleInv
  BY PTypeSplit DEF PInv
<1>b. ASSUME UNCHANGED backend
      PROVE  BackendTypeOK'
  BY <1>0, <1>b DEF BackendTypeOK, backend
<1>s. ASSUME UNCHANGED <<issued, claim_seq, aborted>>
      PROVE  /\ queue_seq' \in Nat /\ claim_seq' \in 0..queue_seq'
             /\ ticketless' \subseteq 0..queue_seq' /\ aborted' \in BOOLEAN
  BY <1>0, <1>s DEF PipeTypeOK, issued
<1>1. ASSUME NEW r \in Requests, new_inner(r)
      PROVE  PTypeOK'
  <2>0. <<>> \in Seq(Unit)
    OBVIOUS
  <2>1. BackendTypeOK' /\ LentTypeOK'
    <3>1. /\ UNCHANGED <<backend, exchange_in_progress, scope_pending, transaction_status>>
          /\ at' = "pipe" /\ Condemn
      BY <1>1 DEF new_inner
    <3>2. /\ is_broken' = is_broken \/ is_broken' = TRUE
          /\ write_buffer' = <<>> \/ write_buffer' = write_buffer
      BY <3>1 DEF Condemn
    <3>3. QED
      BY <1>0, <1>b, <2>0, <3>1, <3>2 DEF LentTypeOK
  <2>2. /\ UNCHANGED <<op, state, pending_error, chunks, carry, failed, result>>
        /\ req' = r /\ TypeOK
    BY <1>0, <1>1 DEF new_inner, PTypeOK
  <2>3. TypeOK'
    BY <2>1, <2>2 DEF TypeOK, LentTypeOK
  <2>4. /\ queue_seq' = 0 /\ ticketless' = {} /\ claim_seq' = 0 /\ aborted' = FALSE
        /\ expectations' = <<>> /\ pc' = "ready" /\ then' = "none" /\ cur' = U("Sync", r)
        /\ cstate' = "none"
    BY <1>1 DEF new_inner
  <2>5. U("Sync", r) \in Unit /\ <<>> \in Seq(Unit)
    BY DEF U, Unit, Kinds
  <2>6. /\ queue_seq' \in Nat /\ claim_seq' \in 0..queue_seq' /\ ticketless' \subseteq 0..queue_seq'
        /\ aborted' \in BOOLEAN
    BY <2>4, ClearedType
  <2>7. FutureTypeOK'
    BY <2>4, <2>5 DEF FutureTypeOK, ClaimStates
  <2>8. QED
    BY <2>3, <2>6, <2>7 DEF PTypeOK, FutureTypeOK
<1>2. ASSUME NEW r \in Requests, NEW k \in ExecKinds, exec_queue(U(k, r))
      PROVE  PTypeOK'
  <2> DEFINE u == U(k, r)
  <2>1. u \in Unit /\ U("Torn", u.req) \in Unit
    BY DEF U, Unit, Kinds, ExecKinds
  <2> HIDE DEF u
  <2>2. /\ exec_queue(u)
    BY <1>2 DEF u
  <2>3. /\ UNCHANGED <<backend, flags, transaction_status, at, claim_seq, aborted, pc, then, cur,
                       cstate>>
        /\ UnusedByPipeline /\ queue_seq' = queue_seq + 1
        /\ \/ write_buffer' = Append(write_buffer, u)
           \/ write_buffer' = Append(write_buffer, U("Torn", u.req))
        /\ expectations' = expectations \/ expectations' = Append(expectations, u)
        /\ ticketless' = ticketless \/ ticketless' = ticketless \cup {queue_seq}
    BY <2>2 DEF exec_queue
  <2>4. write_buffer' \in Seq(Unit) /\ expectations' \in Seq(Unit)
    <3>1. write_buffer \in Seq(Unit) /\ expectations \in Seq(Unit)
      BY <1>0 DEF LentTypeOK, FutureTypeOK
    <3>2. /\ Append(write_buffer, u) \in Seq(Unit) /\ Append(expectations, u) \in Seq(Unit)
          /\ Append(write_buffer, U("Torn", u.req)) \in Seq(Unit)
      BY <2>1, <3>1
    <3>3. QED
      BY <2>3, <3>1, <3>2
  <2>5. BackendTypeOK' /\ LentTypeOK' /\ FutureTypeOK'
    BY <1>0, <1>b, <2>3, <2>4 DEF LentTypeOK, FutureTypeOK, flags
  <2>6. /\ queue_seq' \in Nat /\ claim_seq' \in 0..queue_seq' /\ ticketless' \subseteq 0..queue_seq'
        /\ aborted' \in BOOLEAN
    <3>1. queue_seq \in Nat /\ claim_seq \in 0..queue_seq /\ ticketless \subseteq 0..queue_seq
      BY <1>0 DEF PipeTypeOK
    <3>2. /\ queue_seq + 1 \in Nat /\ claim_seq \in 0..(queue_seq + 1)
          /\ 0..queue_seq \subseteq 0..(queue_seq + 1) /\ queue_seq \in 0..(queue_seq + 1)
      BY <3>1
    <3>3. ticketless' \subseteq 0..(queue_seq + 1)
      BY <2>3, <3>1, <3>2
    <3>4. aborted' \in BOOLEAN
      BY <1>0, <2>3 DEF PipeTypeOK
    <3>5. QED
      BY <2>3, <3>2, <3>3, <3>4
  <2>7. QED
    BY <1>0, <2>3, <2>5, <2>6, PTypeJoin
<1>3. CASE flush
  <2>1. BackendTypeOK' /\ LentTypeOK' /\ FutureTypeOK'
    BY <1>0, <1>3, <1>b DEF flush, LentTypeOK, FutureTypeOK
  <2>2. QED
    BY <1>0, <1>3, <1>s, <2>1, PTypeJoin DEF flush
<1>4. CASE sync
  BY <1>0, <1>4, SyncInnerType DEF sync
<1>5. CASE claim_with_handler
  <2>1. check_sequence /\ UNCHANGED <<backend, transaction_status, at>> /\ UnusedByPipeline
    BY <1>5 DEF claim_with_handler
  <2>2. CASE AutoSync
    <3>1. sync_inner("claim")
      BY <1>5, <2>2 DEF claim_with_handler
    <3>2. QED
      BY <1>0, <2>1, <3>1, SyncInnerType
  <2>3. CASE ~AutoSync
    <3>1. ClaimFront /\ UNCHANGED write_buffer
      BY <1>5, <2>3 DEF claim_with_handler
    <3>2. /\ FutureTypeOK' /\ exchange_in_progress' \in BOOLEAN
          /\ claim_seq' \in 0..queue_seq /\ UNCHANGED <<is_broken, scope_pending, aborted, issued>>
      BY <1>0, <2>1, <3>1, ClaimFrontType
    <3>3. BackendTypeOK' /\ LentTypeOK'
      BY <1>0, <1>b, <2>1, <3>1, <3>2 DEF LentTypeOK
    <3>4. /\ queue_seq' \in Nat /\ claim_seq' \in 0..queue_seq'
          /\ ticketless' \subseteq 0..queue_seq' /\ aborted' \in BOOLEAN
      BY <1>0, <3>2 DEF PipeTypeOK, issued
    <3>5. QED
      BY <1>0, <2>1, <3>2, <3>3, <3>4, PTypeJoin
  <2>4. QED
    BY <2>2, <2>3
<1>6. CASE cleanup_inner
  <2>1. UNCHANGED <<backend, transaction_status, at>> /\ UnusedByPipeline
    BY <1>6 DEF cleanup_inner
  <2>2. CASE sync_inner("cleanup")
    BY <1>0, <2>1, <2>2, SyncInnerType
  <2>3. CASE ~sync_inner("cleanup")
    <3>1. /\ UNCHANGED <<is_broken, scope_pending, issued, claim_seq, aborted, expectations,
                         then, cur, cstate>>
          /\ write_buffer' \in {<<>>, write_buffer}
          /\ exchange_in_progress' \in {TRUE, exchange_in_progress} /\ pc' \in {pc, "drain"}
      BY <1>6, <2>3 DEF cleanup_inner, flags, pipe
    <3>2. exchange_in_progress' \in BOOLEAN /\ write_buffer' \in Seq(Unit)
      <4>1. <<>> \in Seq(Unit)
        OBVIOUS
      <4>2. QED
        BY <1>0, <3>1, <4>1 DEF LentTypeOK
    <3>3. BackendTypeOK' /\ LentTypeOK' /\ FutureTypeOK'
      BY <1>0, <1>b, <2>1, <3>1, <3>2 DEF LentTypeOK, FutureTypeOK
    <3>4. QED
      BY <1>0, <1>s, <2>1, <3>1, <3>3, PTypeJoin
  <2>4. QED
    BY <2>2, <2>3
<1>7. CASE drain_next
  <2>1. /\ UNCHANGED <<backend, is_broken, scope_pending, transaction_status, write_buffer, at>>
        /\ UnusedByPipeline
    BY <1>7 DEF drain_next
  <2>2. CASE expectations = <<>>
    <3>1. /\ queue_seq' = 0 /\ ticketless' = {} /\ claim_seq' = 0 /\ aborted' = FALSE
          /\ exchange_in_progress' = FALSE /\ UNCHANGED expectations /\ Ready
      BY <1>7, <2>2 DEF drain_next
    <3>2. FutureTypeOK'
      BY <1>0, <3>1, ReadyType DEF FutureTypeOK
    <3>3. BackendTypeOK' /\ LentTypeOK'
      BY <1>0, <1>b, <2>1, <3>1 DEF LentTypeOK
    <3>4. /\ queue_seq' \in Nat /\ claim_seq' \in 0..queue_seq'
          /\ ticketless' \subseteq 0..queue_seq' /\ aborted' \in BOOLEAN
      BY <3>1, ClearedType
    <3>5. QED
      BY <1>0, <2>1, <3>2, <3>3, <3>4, PTypeJoin
  <2>3. CASE expectations # <<>>
    <3>1. Head(expectations) \in Unit /\ Tail(expectations) \in Seq(Unit)
      BY <1>0, <2>3, TailFacts DEF FutureTypeOK
    <3>2. /\ UNCHANGED <<exchange_in_progress, issued, claim_seq, aborted, then, cstate>>
          /\ expectations' = Tail(expectations) /\ cur' \in {cur, Head(expectations)}
          /\ pc' \in {pc, "drain_read"}
      BY <1>7, <2>3 DEF drain_next
    <3>3. BackendTypeOK' /\ LentTypeOK' /\ FutureTypeOK'
      BY <1>0, <1>b, <2>1, <3>1, <3>2 DEF LentTypeOK, FutureTypeOK
    <3>4. QED
      BY <1>0, <1>s, <2>1, <3>2, <3>3, PTypeJoin
  <2>4. QED
    BY <2>2, <2>3
<1>8. ASSUME NEW b \in BOOLEAN, Drop(b)
      PROVE  PTypeOK'
  <2>1. UNCHANGED backend /\ UnusedByPipeline
    BY <1>8 DEF Drop
  <2>2. BackendTypeOK' /\ FutureTypeOK'
    BY <1>0, <1>b, <1>8 DEF Drop, FutureTypeOK
  <2>3. LentTypeOK'
    BY <1>0, <1>8 DEF Drop, LentTypeOK
  <2>4. /\ queue_seq' \in Nat /\ claim_seq' \in 0..queue_seq'
        /\ ticketless' \subseteq 0..queue_seq' /\ aborted' \in BOOLEAN
    BY <1>8, ClearedType DEF Drop
  <2>5. QED
    BY <1>0, <2>1, <2>2, <2>3, <2>4, PTypeJoin
<1>9. QED
  BY <1>0, <1>1, <1>2, <1>3, <1>4, <1>5, <1>6, <1>7, <1>8
     DEF PipeQueue, DropHandle, ForgetHandle, LentTypeOK

\* A write that is cut short keeps the server's types and what it is answering.
LEMMA CutShortStage ==
  ASSUME BackendTypeOK, StageFits, write_buffer \in Seq(Unit), CutShort
  PROVE  BackendTypeOK' /\ StageFits'
<1>1. PICK k \in 0..Len(write_buffer) : Deliver(SubSeq(write_buffer, 1, k))
  BY DEF CutShort
<1>2. SubSeq(write_buffer, 1, k) \in Seq(Unit)
  OBVIOUS
<1>3. QED
  BY <1>1, <1>2, CutShortType, DeliverFits

\* The reads and writes of the handle keep the types and what the server is answering.
LEMMA IOType ==
  ASSUME PInv, PipeIO
  PROVE  PTypeOK' /\ StageFits'
<1>0. /\ PTypeOK /\ BackendTypeOK /\ PipeTypeOK /\ LentTypeOK /\ FutureTypeOK /\ req \in Requests
      /\ CourseInv /\ HandleInv /\ StageFits /\ write_buffer \in Seq(Unit) /\ expectations \in Seq(Unit)
  BY PTypeSplit DEF PInv, IInv, LentTypeOK, FutureTypeOK
<1>b. ASSUME UNCHANGED <<todo, stage, skipping, server_tx>>, at_sync' \in BOOLEAN, alive' \in BOOLEAN,
             framing' \in {"whole", "torn"}
      PROVE  BackendTypeOK' /\ StageFits'
  BY <1>0, <1>b DEF BackendTypeOK, StageFits
<1>c. framing \in {"whole", "torn"} /\ alive \in BOOLEAN /\ at_sync \in BOOLEAN
  BY <1>0 DEF BackendTypeOK
<1>s. ASSUME UNCHANGED <<issued, claim_seq>>, aborted' \in BOOLEAN
      PROVE  /\ queue_seq' \in Nat /\ claim_seq' \in 0..queue_seq'
             /\ ticketless' \subseteq 0..queue_seq' /\ aborted' \in BOOLEAN
  BY <1>0, <1>s DEF PipeTypeOK, issued
<1>t. ASSUME UNCHANGED issued, claim_seq' = claim_seq + 1, check_sequence, aborted' \in BOOLEAN
      PROVE  /\ queue_seq' \in Nat /\ claim_seq' \in 0..queue_seq'
             /\ ticketless' \subseteq 0..queue_seq' /\ aborted' \in BOOLEAN
  <2>1. claim_seq + 1 \in 0..queue_seq
    BY <1>0, <1>t DEF PipeTypeOK, check_sequence
  <2>2. QED
    BY <1>0, <1>t, <2>1 DEF PipeTypeOK, issued
<1>v. aborted \in BOOLEAN /\ is_broken \in BOOLEAN /\ server_tx \in TxStatus
  BY <1>0 DEF PipeTypeOK, LentTypeOK, BackendTypeOK
<1>w. ASSUME is_broken' \in BOOLEAN, exchange_in_progress' \in BOOLEAN, scope_pending' \in BOOLEAN,
             write_buffer' = write_buffer \/ write_buffer' = <<>>,
             transaction_status' \in TxStatus, at' = at
      PROVE  LentTypeOK'
  <2>1. <<>> \in Seq(Unit)
    OBVIOUS
  <2>2. QED
    BY <1>0, <1>w, <2>1 DEF LentTypeOK
<1>x. exchange_in_progress \in BOOLEAN /\ scope_pending \in BOOLEAN /\ transaction_status \in TxStatus
  BY <1>0 DEF LentTypeOK
<1>p. pc = "claim" \/ then = "claim" => check_sequence
  <2>1. pc = "claim" \/ then = "claim" => pc \notin {"none", "ready"}
    BY <1>0 DEF HandleInv
  <2>2. QED
    BY <1>0, <2>1, Waits DEF TicketInv
<1>r. ASSUME NEW m, Reply(m)
      PROVE  BackendTypeOK' /\ StageFits'
  BY <1>0, <1>r, ReplyType, ReplyFacts
<1>e. ASSUME ReplyError
      PROVE  BackendTypeOK' /\ StageFits'
  BY <1>0, <1>e, ReplyErrorType, ErrorFacts
<1>1. CASE PipeWrite
  <2>1. BackendTypeOK' /\ StageFits'
    BY <1>0, <1>1, <1>c, DeliverType, DeliverFits DEF PipeWrite
  <2>2. write_buffer' = <<>> /\ UNCHANGED <<transaction_status, at>> /\ UnusedByPipeline
    BY <1>1 DEF PipeWrite
  <2>3. CASE then = "claim"
    <3>1. ClaimFront /\ check_sequence
      BY <1>1, <1>p, <2>3 DEF PipeWrite
    <3>2. /\ FutureTypeOK' /\ exchange_in_progress' \in BOOLEAN
          /\ claim_seq' \in 0..queue_seq /\ UNCHANGED <<is_broken, scope_pending, aborted, issued>>
      BY <1>0, <3>1, ClaimFrontType
    <3>3. LentTypeOK'
      BY <1>v, <1>w, <1>x, <2>2, <3>2
    <3>4. /\ queue_seq' \in Nat /\ claim_seq' \in 0..queue_seq'
          /\ ticketless' \subseteq 0..queue_seq' /\ aborted' \in BOOLEAN
      BY <1>0, <3>2 DEF PipeTypeOK, issued
    <3>5. QED
      BY <1>0, <2>1, <2>2, <3>2, <3>3, <3>4, PTypeJoin
  <2>4. CASE then # "claim"
    <3>1. /\ UNCHANGED <<is_broken, scope_pending, issued, claim_seq, aborted, expectations>>
          /\ exchange_in_progress' = FALSE \/ exchange_in_progress' = exchange_in_progress
          /\ Ready \/ (pc' = "drain" /\ then' = "none" /\ UNCHANGED <<cur, cstate>>)
      BY <1>1, <2>4 DEF PipeWrite, flags
    <3>2. FutureTypeOK'
      BY <1>0, <3>1, ReadyType DEF FutureTypeOK
    <3>3. LentTypeOK'
      BY <1>v, <1>w, <1>x, <2>2, <3>1
    <3>4. QED
      BY <1>0, <1>s, <1>v, <2>1, <2>2, <3>1, <3>2, <3>3, PTypeJoin
  <2>5. QED
    BY <2>3, <2>4
<1>2. ASSUME BackendTypeOK', StageFits', is_broken' \in BOOLEAN, Ready, UnusedByPipeline,
             UNCHANGED <<exchange_in_progress, scope_pending, transaction_status, write_buffer,
                         at, issued, claim_seq, aborted, expectations>>
      PROVE  PTypeOK' /\ StageFits'
  <2>1. LentTypeOK' /\ FutureTypeOK'
    BY <1>0, <1>2, <1>w, <1>x, ReadyType
  <2>2. QED
    BY <1>0, <1>2, <1>s, <1>v, <2>1, PTypeJoin
<1>3. CASE PipeWriteFails
  <2>1. BackendTypeOK' /\ StageFits'
    BY <1>0, <1>3, CutShortStage DEF PipeWriteFails
  <2>2. is_broken' \in BOOLEAN
    BY <1>3, <1>v DEF PipeWriteFails
  <2>3. QED
    BY <1>2, <1>3, <2>1, <2>2 DEF PipeWriteFails
<1>4. ASSUME NEW m, claim_read(m)
      PROVE  PTypeOK' /\ StageFits'
  <2>1. /\ BackendTypeOK' /\ StageFits' /\ pc = "claim" /\ UnusedByPipeline
        /\ UNCHANGED <<is_broken, scope_pending, transaction_status, write_buffer, at, issued, aborted>>
    BY <1>4, <1>r DEF claim_read
  <2>2. CASE claim_seq' = claim_seq + 1 /\ PendingSyncs(expectations)
    <3>1. FutureTypeOK' /\ exchange_in_progress' \in BOOLEAN
      BY <1>0, <2>2, PendingSyncsType
    <3>2. LentTypeOK'
      BY <1>v, <1>w, <1>x, <2>1, <3>1
    <3>3. QED
      BY <1>0, <1>p, <1>t, <1>v, <2>1, <2>2, <3>1, <3>2, PTypeJoin
  <2>3. CASE /\ cstate' = claim_step(cur.kind, cstate, m) /\ cstate' \notin {"Done", "LibraryBug"}
             /\ UNCHANGED <<exchange_in_progress, claim_seq, expectations, pc, then, cur>>
    <3>1. cstate' \in ClaimStates
      BY <2>3 DEF claim_step, ClaimStates
    <3>2. FutureTypeOK' /\ LentTypeOK'
      BY <1>0, <1>v, <1>w, <1>x, <2>1, <2>3, <3>1 DEF FutureTypeOK
    <3>3. QED
      BY <1>0, <1>s, <1>v, <2>1, <2>3, <3>2, PTypeJoin
  <2>4. CASE Ready /\ UNCHANGED <<exchange_in_progress, claim_seq, expectations>>
    BY <1>2, <1>v, <2>1, <2>4
  <2>5. QED
    BY <1>4, <2>2, <2>3, <2>4 DEF claim_read
<1>5. ASSUME NEW m, consume_ready_for_query(m)
      PROVE  PTypeOK' /\ StageFits'
  <2>1. /\ BackendTypeOK' /\ StageFits' /\ UnusedByPipeline
        /\ UNCHANGED <<is_broken, write_buffer, at, issued, claim_seq>>
    BY <1>5, <1>r DEF consume_ready_for_query
  <2>2. CASE m = "ReadyForQuery"
    <3>1. AtReadyForQuery
      BY <1>5, <2>2 DEF consume_ready_for_query
    <3>2. scope_pending' \in BOOLEAN /\ aborted' \in BOOLEAN /\ transaction_status' \in TxStatus
      BY <1>v, <3>1 DEF AtReadyForQuery
    <3>3. FutureTypeOK' /\ exchange_in_progress' \in BOOLEAN
      <4>1. CASE PendingSyncs(expectations)
        BY <1>0, <4>1, PendingSyncsType
      <4>2. CASE pc' = "drain" /\ UNCHANGED <<exchange_in_progress, expectations, then, cur, cstate>>
        BY <1>0, <1>x, <4>2 DEF FutureTypeOK
      <4>3. QED
        BY <1>5, <2>2, <4>1, <4>2 DEF consume_ready_for_query
    <3>4. LentTypeOK'
      BY <1>v, <1>w, <2>1, <3>2, <3>3
    <3>5. QED
      BY <1>0, <1>s, <2>1, <3>2, <3>3, <3>4, PTypeJoin
  <2>3. CASE m # "ReadyForQuery"
    <3>1. UNCHANGED <<transaction_status, scope_pending, aborted, exchange_in_progress,
                      expectations, pc, then, cur, cstate>>
      BY <1>5, <2>3 DEF consume_ready_for_query
    <3>2. FutureTypeOK' /\ LentTypeOK'
      BY <1>0, <1>v, <1>w, <1>x, <2>1, <3>1 DEF FutureTypeOK
    <3>3. QED
      BY <1>0, <1>s, <1>v, <2>1, <3>1, <3>2, PTypeJoin
  <2>4. QED
    BY <2>2, <2>3
<1>6. ASSUME NEW m, drain_read(m)
      PROVE  PTypeOK' /\ StageFits'
  <2>1. /\ BackendTypeOK' /\ StageFits' /\ UnusedByPipeline
        /\ UNCHANGED <<flags, transaction_status, write_buffer, at, issued, claim_seq, aborted,
                       expectations>>
        /\ Ready \/ (pc' \in {pc, "drain"} /\ UNCHANGED <<then, cur, cstate>>)
    BY <1>6, <1>r DEF drain_read
  <2>2. FutureTypeOK'
    BY <1>0, <2>1, ReadyType DEF FutureTypeOK
  <2>3. LentTypeOK'
    BY <1>v, <1>w, <1>x, <2>1 DEF flags
  <2>4. QED
    BY <1>0, <1>s, <1>v, <2>1, <2>2, <2>3, PTypeJoin
<1>7. CASE claim_error
  <2>1. /\ BackendTypeOK' /\ StageFits' /\ pc = "claim" /\ UnusedByPipeline /\ aborted' = TRUE
        /\ claim_seq' = claim_seq + 1 /\ PendingSyncs(expectations)
        /\ UNCHANGED <<is_broken, scope_pending, transaction_status, write_buffer, at, issued>>
    BY <1>7, <1>e DEF claim_error, read_next_message_error
  <2>2. FutureTypeOK' /\ exchange_in_progress' \in BOOLEAN /\ aborted' \in BOOLEAN
    BY <1>0, <2>1, PendingSyncsType
  <2>3. LentTypeOK'
    BY <1>v, <1>w, <1>x, <2>1, <2>2
  <2>4. QED
    BY <1>0, <1>p, <1>t, <2>1, <2>2, <2>3, PTypeJoin
<1>8. CASE drain_error
  <2>1. /\ BackendTypeOK' /\ StageFits' /\ UnusedByPipeline /\ aborted' = TRUE
        /\ pc' = "drain" /\ UNCHANGED <<flags, transaction_status, write_buffer, at, issued,
                                        claim_seq, expectations, then, cur, cstate>>
    BY <1>8, <1>e DEF drain_error, read_next_message_error
  <2>2. FutureTypeOK' /\ LentTypeOK' /\ aborted' \in BOOLEAN
    BY <1>0, <1>v, <1>w, <1>x, <2>1 DEF FutureTypeOK, flags
  <2>3. QED
    BY <1>0, <1>s, <2>1, <2>2, PTypeJoin
<1>9. CASE PipeReadFatal
  <2>1. BackendTypeOK' /\ StageFits'
    <3>1. CASE ReplyError
      BY <1>e, <3>1
    <3>2. CASE ReplyFatal
      BY <1>b, <1>c, <3>2 DEF ReplyFatal
    <3>3. QED
      BY <1>9, <3>1, <3>2 DEF PipeReadFatal
  <2>2. is_broken' \in BOOLEAN
    BY <1>9, <1>v DEF PipeReadFatal
  <2>3. QED
    BY <1>2, <1>9, <2>1, <2>2 DEF PipeReadFatal
<1>10. CASE PipeReadFails
  <2>1. UNCHANGED backend
    BY <1>10 DEF PipeReadFails
  <2>2. BackendTypeOK' /\ StageFits'
    BY <1>b, <1>c, <2>1 DEF backend
  <2>3. QED
    BY <1>2, <1>10, <1>v, <2>2 DEF PipeReadFails, flags
<1>11. CASE CancelFuture
  <2>1. BackendTypeOK' /\ StageFits'
    <3>1. CASE pc = "write"
      BY <1>0, <1>11, <3>1, CutShortStage DEF CancelFuture
    <3>2. CASE pc # "write"
      <4>1. /\ framing' \in {framing, "torn"}
            /\ UNCHANGED <<todo, stage, skipping, server_tx, at_sync, alive>>
        BY <1>11, <3>2 DEF CancelFuture
      <4>2. QED
        BY <1>b, <1>c, <4>1
    <3>3. QED
      BY <3>1, <3>2
  <2>2. QED
    BY <1>2, <1>11, <1>v, <2>1 DEF CancelFuture, flags
<1>12. QED
  BY <1>1, <1>3, <1>4, <1>5, <1>6, <1>7, <1>8, <1>9, <1>10, <1>11 DEF PipeIO

-----------------------------------------------------------------------------
\* What a future that reads finds on the wire.

\* The expectation being read, against the wire.
LEMMA ReadingFacts ==
  ASSUME PInv, Reading
  PROVE  /\ todo \in Seq(Unit) /\ cur \in Unit /\ expectations \in Seq(Unit)
         /\ Outstanding = todo /\ write_buffer = <<>>
         /\ Queue = <<cur>> \o expectations /\ Queue # <<>>
         /\ Head(Queue) = cur /\ Tail(Queue) = expectations /\ Queue \in Seq(Unit)
         /\ Match(todo, Queue, aborted)
         /\ todo # <<>> => Head(todo).kind \in WireKinds
         /\ ~aborted => todo # <<>> /\ (Head(todo) = cur \/ Head(todo).kind = "Torn")
<1>0. OnCourse /\ WireInv /\ BufferInv
  BY Waits DEF PInv, Reading
<1>1. /\ todo \in Seq(Unit) /\ cur \in Unit /\ expectations \in Seq(Unit)
  BY PTypeSplit DEF PInv, BackendTypeOK, FutureTypeOK
<1>2. write_buffer = <<>> /\ Queue = <<cur>> \o expectations
  BY <1>0 DEF BufferInv, Reading, Queue
<1>3. Outstanding = todo
  BY <1>1, <1>2, FrontFacts DEF Outstanding
<1>4. /\ Queue # <<>> /\ Head(Queue) = cur /\ Tail(Queue) = expectations /\ Queue \in Seq(Unit)
  BY <1>1, <1>2, ConsFacts
<1>5. Match(todo, Queue, aborted)
  BY <1>0, <1>3 DEF WireInv
<1>6. todo # <<>> => Head(todo).kind \in WireKinds
  BY <1>5, MatchParts
<1>7. aborted \in BOOLEAN
  BY DEF PInv, PTypeOK
<1>8. ASSUME ~aborted
      PROVE  todo # <<>> /\ (Head(todo) = cur \/ Head(todo).kind = "Torn")
  <2>1. Match(todo, Queue, FALSE)
    BY <1>5, <1>7, <1>8
  <2>2. QED
    BY <2>1, <1>4, MatchNonEmpty
<1>9. QED
  BY <1>1, <1>2, <1>3, <1>4, <1>5, <1>6, <1>8

\* The statement or Sync in front leaves the wire.
LEMMA ClosedTail ==
  ASSUME PInv, OnCourse, todo # <<>>
  PROVE  Closed(Tail(todo)) /\ Tail(todo) \in Seq(Unit)
<1>1. todo \in Seq(Unit) /\ Closed(todo)
  BY PTypeSplit DEF PInv, CourseInv, BackendTypeOK, BufferInv
<1>2. QED
  BY <1>1, ClosedFacts, TailFacts

-----------------------------------------------------------------------------
\* What the steps that several operations share lead to.

\* consume_pending_syncs reads the next expectation, a Sync, or ends.
LEMMA PendingSyncsFacts ==
  ASSUME PTypeOK, NEW q \in Seq(Unit), PendingSyncs(q)
  PROVE  /\ Queue' = q /\ then' = "none" /\ pc' \in {"ready", "syncs"}
         /\ pc' = "syncs" => cur'.kind = "Sync" /\ exchange_in_progress'
         /\ pc' = "ready" => expectations' = q /\ ~SyncInFront(q)
<1>1. CASE SyncInFront(q)
  <2>1. /\ expectations' = Tail(q) /\ pc' = "syncs" /\ cur' = Head(q) /\ then' = "none"
        /\ exchange_in_progress' = TRUE
    BY <1>1 DEF PendingSyncs
  <2>2. q # <<>> /\ Head(q).kind = "Sync" /\ Head(q) \in Unit
    BY <1>1, TailFacts DEF SyncInFront
  <2>3. <<Head(q)>> \o Tail(q) = q
    BY <2>2, ConsFacts
  <2>4. Queue' = q
    BY <2>1, <2>3 DEF Queue, Reading
  <2>5. QED
    BY <2>1, <2>2, <2>4
<1>2. CASE ~SyncInFront(q)
  BY <1>2 DEF PendingSyncs, Ready, Queue, Reading
<1>3. QED
  BY <1>1, <1>2

\* It stays on course when queue q is what the rest of the wire answers.
LEMMA PendingSyncsCourse ==
  ASSUME PTypeOK, NEW q \in Seq(Unit), PendingSyncs(q),
         write_buffer' = <<>>, todo' \in Seq(Unit), framing' = "whole", skipping' <=> aborted',
         Match(todo', q, aborted'), Closed(todo'), Closed(q),
         ~scope_pending' => todo' = <<>> /\ ~aborted',
         TicketsFor(q, claim_seq', queue_seq', ticketless'),
         at_sync' => transaction_status' = server_tx'
  PROVE  CourseInv'
<1>1. /\ Queue' = q /\ then' = "none" /\ pc' \in {"ready", "syncs"}
      /\ pc' = "syncs" => cur'.kind = "Sync" /\ exchange_in_progress'
      /\ pc' = "ready" => expectations' = q /\ ~SyncInFront(q)
  BY PendingSyncsFacts
<1>2. Outstanding' = todo'
  BY FrontFacts DEF Outstanding
<1>3. WireInv'
  BY <1>1, <1>2 DEF WireInv
<1>4. BufferInv'
  BY <1>1, KindedFacts DEF BufferInv, Closed, NoSync, Kinded
<1>5. ScopeInv'
  BY <1>1 DEF ScopeInv
<1>6. TicketInv'
  BY <1>1 DEF TicketInv
<1>7. FutureInv'
  BY <1>1 DEF FutureInv
<1>8. QED
  BY <1>3, <1>4, <1>5, <1>6, <1>7 DEF CourseInv

\* A claim whose statement is next to be answered, or was skipped, stays on course.
LEMMA ClaimFrontCourse ==
  ASSUME PTypeOK, check_sequence, ClaimFront,
         write_buffer' = <<>>, todo' \in Seq(Unit), framing' = "whole", skipping' <=> aborted,
         Match(todo', expectations, aborted), Closed(todo'), Closed(expectations),
         ~scope_pending => todo' = <<>> /\ ~aborted,
         TicketsFor(expectations, claim_seq, queue_seq, ticketless),
         aborted /\ SyncInFront(expectations) => Kinded(expectations, {"Sync"}),
         at_sync' => transaction_status' = server_tx'
  PROVE  CourseInv'
<1>0. /\ expectations \in Seq(Unit) /\ claim_seq \in 0..queue_seq /\ queue_seq \in Nat
      /\ aborted \in BOOLEAN
  BY DEF PTypeOK
<1>1. claim_seq \in Nat /\ claim_seq < queue_seq /\ claim_seq \notin ticketless
  BY <1>0 DEF check_sequence
<1>2. UNCHANGED <<is_broken, scope_pending, aborted, queue_seq, ticketless>>
  BY DEF ClaimFront, issued
<1>3. OfKinds(expectations, ExecKinds) # <<>>
  BY <1>0, <1>1, TicketsClaim
<1>4. expectations # <<>> /\ (aborted => ~SyncInFront(expectations))
  BY <1>0, <1>3, OnlySyncs, OfKindsFacts
<1>5. ~SyncInFront(expectations) => Head(expectations).kind \in ExecKinds
  BY <1>4, MatchParts DEF SyncInFront
<1>6. Tail(expectations) \in Seq(Unit)
  BY <1>0, <1>4, TailFacts
<1>7. CASE aborted
  <2>1. claim_seq' = claim_seq + 1 /\ PendingSyncs(Tail(expectations))
    BY <1>4, <1>7 DEF ClaimFront, PopFront
  <2>2. Match(todo', Tail(expectations), TRUE)
    BY <1>0, <1>4, <1>7, MatchSkipQueue DEF SyncInFront
  <2>3. TicketsFor(Tail(expectations), claim_seq + 1, queue_seq, ticketless)
    BY <1>0, <1>1, <1>4, TicketsClaim
  <2>4. Closed(Tail(expectations))
    BY <1>0, <1>4, ClosedFacts
  <2>5. scope_pending
    BY <1>7
  <2>6. aborted' = TRUE
    BY <1>0, <1>2, <1>7
  <2>7. Match(todo', Tail(expectations), aborted')
    BY <2>2, <2>6
  <2>8. TicketsFor(Tail(expectations), claim_seq', queue_seq', ticketless')
    BY <1>2, <2>1, <2>3
  <2>9. (skipping' <=> aborted') /\ scope_pending'
    BY <1>2, <1>7, <2>5, <2>6
  <2>10. QED
    BY <1>6, <2>1, <2>4, <2>7, <2>8, <2>9, PendingSyncsCourse
<1>8. CASE ~aborted /\ SyncInFront(expectations)
  <2>1. Head(expectations).kind \notin ExecKinds
    BY <1>8 DEF SyncInFront, ExecKinds
  <2>2. exchange_in_progress' = TRUE /\ pc' = "ready"
    BY <1>8, <2>1 DEF ClaimFront, Ready
  <2>3. QED
    BY <2>2, OffCourse
<1>9. CASE ~aborted /\ ~SyncInFront(expectations)
  <2>1. /\ exchange_in_progress' = TRUE /\ claim_seq' = claim_seq
        /\ expectations' = Tail(expectations) /\ cur' = Head(expectations)
        /\ pc' = "claim" /\ then' = "none"
    BY <1>4, <1>5, <1>9 DEF ClaimFront, PopFront
  <2>2. Head(expectations) \in Unit
    BY <1>0, <1>4, TailFacts
  <2>3. Queue' = expectations
    BY <1>0, <1>4, <2>1, <2>2, ConsFacts DEF Queue, Reading
  <2>4. Outstanding' = todo'
    BY FrontFacts DEF Outstanding
  <2>5. WireInv'
    BY <1>2, <2>3, <2>4 DEF WireInv
  <2>6. BufferInv'
    BY <2>1, <2>3 DEF BufferInv
  <2>7. ScopeInv'
    BY <1>2, <2>1 DEF ScopeInv
  <2>8. TicketInv'
    BY <1>1, <1>2, <2>1, <2>3 DEF TicketInv, check_sequence
  <2>9. FutureInv'
    BY <1>2, <1>5, <1>9, <2>1 DEF FutureInv
  <2>10. QED
    BY <2>5, <2>6, <2>7, <2>8, <2>9 DEF CourseInv
<1>10. QED
  BY <1>7, <1>8, <1>9

\* A Sync is written and expected.
LEMMA SyncInnerCourse ==
  ASSUME PInv, pc = "ready", NEW k \in {"sync", "claim", "cleanup"}, sync_inner(k),
         k = "claim" => check_sequence,
         UNCHANGED <<backend, transaction_status, at>>
  PROVE  CourseInv'
<1>0. OnCourse /\ WireInv /\ BufferInv /\ ScopeInv /\ TicketInv /\ FutureInv /\ PTypeOK
  BY Accepts DEF PInv, sync_inner
<1> DEFINE x == U("Sync", req)
<1>1. /\ todo \in Seq(Unit) /\ write_buffer \in Seq(Unit) /\ expectations \in Seq(Unit)
      /\ x \in Unit /\ x.kind = "Sync"
  BY <1>0, PTypeSplit DEF BackendTypeOK, LentTypeOK, FutureTypeOK, U, Unit, Kinds
<1>2. /\ exchange_in_progress' = TRUE /\ scope_pending' = TRUE /\ pc' = "write" /\ then' = k
      /\ write_buffer' = Append(write_buffer, x) /\ expectations' = Append(expectations, x)
      /\ UNCHANGED <<aborted, claim_seq, queue_seq, ticketless, todo, framing, skipping, at_sync,
                     server_tx, transaction_status>>
  BY DEF sync_inner, issued, backend
<1> HIDE DEF x
<1>3. /\ Queue = expectations /\ Queue' = Append(expectations, x)
      /\ Outstanding' = Append(Outstanding, x)
  BY <1>1, <1>2, FrontFacts DEF Queue, Reading, Outstanding
<1>4. WireInv'
  <2>1. Match(Outstanding', Queue', aborted)
    BY <1>0, <1>1, <1>3, MatchQueue DEF WireInv
  <2>2. QED
    BY <1>0, <1>2, <2>1 DEF WireInv
<1>5. EndsInSync(write_buffer') /\ EndsInSync(expectations')
  BY <1>1, <1>2, EndsFacts
<1>6. BufferInv'
  BY <1>0, <1>2, <1>3, <1>5 DEF BufferInv, Closed
<1>7. ScopeInv'
  BY <1>0, <1>2 DEF ScopeInv
<1>8. TicketInv'
  <2>1. TicketsFor(Queue', claim_seq, queue_seq, ticketless)
    <3>1. /\ TicketsFor(expectations, claim_seq, queue_seq, ticketless)
          /\ claim_seq \in Nat /\ queue_seq \in Nat /\ claim_seq <= queue_seq
      BY <1>0, <1>3 DEF TicketInv, PTypeOK
    <3>2. QED
      BY <1>1, <1>3, <3>1, KindFacts, TicketsExec
  <2>2. aborted /\ SyncInFront(Append(expectations, x)) =>
          Kinded(Append(expectations, x), {"Sync"})
    <3>1. expectations = <<>> \/ Head(Append(expectations, x)) = Head(expectations)
      BY <1>1
    <3>2. expectations = <<>> => Kinded(expectations, {"Sync"})
      BY <1>1, KindedFacts
    <3>3. QED
      BY <1>0, <1>1, <3>1, <3>2, KindedFacts DEF TicketInv, SyncInFront
  <2>3. QED
    BY <1>2, <2>1, <2>2 DEF TicketInv, check_sequence
<1>9. FutureInv'
  BY <1>0, <1>2 DEF FutureInv
<1>10. QED
  BY <1>4, <1>6, <1>7, <1>8, <1>9 DEF CourseInv

-----------------------------------------------------------------------------
\* Every operation of the handle keeps it on course.

\* A new handle starts on a drained connection, or on one that stays condemned.
LEMMA NewCourse ==
  ASSUME PInv, NEW r \in Requests, new_inner(r)
  PROVE  CourseInv'
<1> SUFFICES ASSUME OnCourse'
             PROVE  CourseInv'
  BY DEF CourseInv
<1>1. /\ at = "idle" /\ queue_seq' = 0 /\ ticketless' = {} /\ claim_seq' = 0 /\ aborted' = FALSE
      /\ expectations' = <<>> /\ pc' = "ready" /\ then' = "none"
      /\ UNCHANGED <<todo, skipping, framing, at_sync, server_tx, scope_pending,
                     transaction_status>>
  BY DEF new_inner, backend
<1>2. Usable /\ write_buffer' = <<>>
  BY DEF new_inner, Condemn, ensure_usable, OnCourse
<1>3. Drained /\ (at_sync => transaction_status = server_tx)
  BY <1>2 DEF PInv, IInv, ReadyInv, StatusInv, MayCall
<1>4. Queue' = <<>> /\ Outstanding' = <<>>
  BY <1>1, <1>2, <1>3 DEF Queue, Reading, Outstanding, Drained
<1>5. NoSync(<<>>) /\ Kinded(<<>>, {"Sync"})
  BY DEF NoSync, Kinded
<1>6. WireInv'
  BY <1>1, <1>3, <1>4, MatchEmpty DEF WireInv, Drained
<1>7. BufferInv'
  BY <1>1, <1>2, <1>3, <1>4, <1>5 DEF BufferInv, Closed, Drained
<1>8. ScopeInv'
  BY <1>1, <1>3 DEF ScopeInv, Drained
<1>9. TicketInv'
  BY <1>1, <1>4, <1>5, TicketsNone DEF TicketInv
<1>10. FutureInv'
  BY <1>1, <1>3 DEF FutureInv
<1>11. QED
  BY <1>6, <1>7, <1>8, <1>9, <1>10 DEF CourseInv

\* exec adds the same statement to the buffer and to the queue, or what does not
\* encode to the buffer alone.
LEMMA ExecCourse ==
  ASSUME PInv, Usage = {}, NEW r \in Requests, NEW k \in ExecKinds, exec_queue(U(k, r))
  PROVE  CourseInv'
<1> DEFINE u == U(k, r)
           x == U("Torn", r)
<1>1. /\ u \in Unit /\ u.kind \in ExecKinds /\ x \in Unit /\ x.kind = "Torn" /\ u.req = r
      /\ x = U("Torn", u.req)
  BY DEF U, Unit, Kinds, ExecKinds
<1> HIDE DEF u, x
<1>2. exec_queue(u)
  BY DEF u
<1>0. OnCourse /\ WireInv /\ BufferInv /\ ScopeInv /\ TicketInv /\ FutureInv /\ PTypeOK
  BY <1>2, Accepts DEF PInv, exec_queue
<1>3. /\ todo \in Seq(Unit) /\ write_buffer \in Seq(Unit) /\ expectations \in Seq(Unit)
      /\ claim_seq \in Nat /\ queue_seq \in Nat /\ claim_seq <= queue_seq
      /\ Outstanding \in Seq(Unit)
  BY <1>0, PTypeSplit DEF BackendTypeOK, LentTypeOK, FutureTypeOK, PTypeOK
<1>4. /\ pc = "ready" /\ pc' = "ready" /\ then' = then /\ queue_seq' = queue_seq + 1
      /\ (aborted => ~SyncInFront(expectations))
      /\ \A i \in DOMAIN expectations : expectations[i].req # u.req
      /\ UNCHANGED <<todo, skipping, framing, at_sync, server_tx, transaction_status, is_broken,
                     exchange_in_progress, scope_pending, claim_seq, aborted>>
  BY <1>2 DEF exec_queue, backend, flags
<1>5. \/ /\ write_buffer' = Append(write_buffer, u) /\ expectations' = Append(expectations, u)
         /\ ticketless' = ticketless
      \/ /\ write_buffer' = Append(write_buffer, x) /\ expectations' = expectations
         /\ ticketless' = ticketless \cup {queue_seq}
  BY <1>1, <1>2 DEF exec_queue
<1>6. Queue = expectations /\ Queue' = expectations'
  BY <1>4 DEF Queue, Reading
<1>7. /\ Match(Outstanding, expectations, aborted) /\ NoSync(write_buffer)
      /\ TicketsFor(expectations, claim_seq, queue_seq, ticketless) /\ then = "none"
      /\ Closed(todo)
  BY <1>0, <1>4, <1>6 DEF WireInv, BufferInv, TicketInv, FutureInv
<1>8. /\ Match(Outstanding', Queue', aborted)
      /\ NoSync(write_buffer') /\ write_buffer' # <<>>
      /\ TicketsFor(Queue', claim_seq, queue_seq', ticketless')
      /\ (aborted => ~SyncInFront(expectations'))
  <2>1. CASE /\ write_buffer' = Append(write_buffer, u) /\ expectations' = Append(expectations, u)
             /\ ticketless' = ticketless
    <3>1. \A i \in 1..Len(expectations) : expectations[i] # u
      BY <1>3, <1>4
    <3>2. Outstanding' = Append(Outstanding, u)
      <4>1. todo' = todo
        BY <1>4
      <4>2. QED
        BY <1>1, <1>3, <2>1, <4>1, FrontFacts DEF Outstanding
    <3>3. Match(Outstanding', Queue', aborted)
      BY <1>1, <1>6, <1>7, <2>1, <3>1, <3>2, MatchQueue
    <3>4. u.kind \in Kinds \ {"Sync"}
      BY <1>1, KindFacts DEF Kinds, ExecKinds
    <3>5. NoSync(write_buffer')
      BY <1>1, <1>3, <1>7, <2>1, <3>4, KindedFacts DEF NoSync
    <3>6. TicketsFor(Queue', claim_seq, queue_seq', ticketless')
      BY <1>1, <1>3, <1>4, <1>6, <1>7, <2>1, TicketsExec
    <3>7. aborted => ~SyncInFront(expectations')
      <4>1. CASE expectations = <<>>
        <5>1. Head(Append(expectations, u)) = u
          BY <1>1, <1>3, <4>1
        <5>2. QED
          BY <2>1, <3>4, <5>1 DEF SyncInFront
      <4>2. CASE expectations # <<>>
        <5>1. Head(Append(expectations, u)) = Head(expectations)
          BY <1>1, <1>3, <4>2
        <5>2. QED
          BY <1>4, <2>1, <4>2, <5>1 DEF SyncInFront
      <4>3. QED
        BY <4>1, <4>2
    <3>8. write_buffer' # <<>>
      BY <1>1, <1>3, <2>1
    <3>9. QED
      BY <3>3, <3>5, <3>6, <3>7, <3>8
  <2>2. CASE /\ write_buffer' = Append(write_buffer, x) /\ expectations' = expectations
             /\ ticketless' = ticketless \cup {queue_seq}
    <3>1. Outstanding' = Append(Outstanding, x)
      BY <1>1, <1>3, <1>4, <2>2, FrontFacts DEF Outstanding
    <3>2. Match(Outstanding', Queue', aborted)
      BY <1>1, <1>6, <1>7, <2>2, <3>1, MatchTorn
    <3>3. x.kind \in Kinds \ {"Sync"}
      BY <1>1 DEF Kinds
    <3>4. NoSync(write_buffer')
      BY <1>1, <1>3, <1>7, <2>2, <3>3, KindedFacts DEF NoSync
    <3>5. TicketsFor(Queue', claim_seq, queue_seq', ticketless')
      BY <1>1, <1>3, <1>4, <1>6, <1>7, <2>2, TicketsExec
    <3>6. write_buffer' # <<>>
      BY <1>1, <1>3, <2>2
    <3>7. QED
      BY <1>4, <2>2, <3>2, <3>4, <3>5, <3>6
  <2>3. QED
    BY <1>5, <2>1, <2>2
<1>9. WireInv'
  BY <1>0, <1>4, <1>8 DEF WireInv
<1>10. BufferInv'
  BY <1>4, <1>7, <1>8 DEF BufferInv
<1>11. ScopeInv'
  BY <1>0, <1>4 DEF ScopeInv
<1>12. TicketInv'
  BY <1>4, <1>7, <1>8 DEF TicketInv
<1>13. FutureInv'
  BY <1>0, <1>4, <1>7 DEF FutureInv
<1>14. QED
  BY <1>9, <1>10, <1>11, <1>12, <1>13 DEF CourseInv

\* flush sends statements, and no Sync.
LEMMA FlushCourse ==
  ASSUME PInv, Usage = {}, flush
  PROVE  CourseInv'
<1>0. OnCourse /\ WireInv /\ BufferInv /\ ScopeInv /\ TicketInv /\ FutureInv /\ PTypeOK
  BY Accepts DEF PInv, flush
<1>1. /\ pc = "ready" /\ pc' = "write" /\ then' = "flush" /\ ~AnySync(expectations)
      /\ exchange_in_progress' = TRUE /\ scope_pending' = TRUE /\ write_buffer # <<>>
      /\ UNCHANGED <<todo, skipping, framing, at_sync, server_tx, transaction_status, is_broken,
                     claim_seq, aborted, queue_seq, ticketless, expectations, write_buffer>>
  BY DEF flush, backend, issued
<1>2. NoSync(expectations)
  BY <1>0, <1>1, AnySyncFacts DEF PTypeOK
<1>3. Queue' = Queue /\ Queue = expectations /\ Outstanding' = Outstanding
  BY <1>1 DEF Queue, Reading, Outstanding
<1>4. WireInv'
  BY <1>0, <1>1, <1>3 DEF WireInv
<1>5. BufferInv'
  BY <1>0, <1>1, <1>2 DEF BufferInv
<1>6. ScopeInv'
  BY <1>0, <1>1 DEF ScopeInv
<1>7. TicketInv'
  BY <1>0, <1>1, <1>3 DEF TicketInv
<1>8. FutureInv'
  BY <1>0, <1>1 DEF FutureInv
<1>9. QED
  BY <1>4, <1>5, <1>6, <1>7, <1>8 DEF CourseInv

\* A claim sends what is in the buffer first.
LEMMA ClaimCourse ==
  ASSUME PInv, claim_with_handler
  PROVE  CourseInv'
<1>0. /\ OnCourse /\ WireInv /\ BufferInv /\ ScopeInv /\ TicketInv /\ FutureInv /\ PTypeOK
      /\ pc = "ready" /\ check_sequence /\ UNCHANGED <<backend, transaction_status, at>>
  BY Accepts DEF PInv, claim_with_handler
<1>1. CASE AutoSync
  BY <1>0, <1>1, SyncInnerCourse DEF claim_with_handler
<1>2. CASE ~AutoSync
  <2>1. ClaimFront /\ write_buffer = <<>> /\ write_buffer' = <<>>
    BY <1>2 DEF claim_with_handler, AutoSync
  <2>2. todo \in Seq(Unit) /\ Queue = expectations
    BY <1>0, PTypeSplit DEF BackendTypeOK, Queue, Reading
  <2>3. Outstanding = todo
    BY <2>1, <2>2, FrontFacts DEF Outstanding
  <2>4. UNCHANGED <<todo, skipping, framing, at_sync, server_tx, transaction_status>>
    BY <1>0 DEF backend
  <2>5. Match(todo, expectations, aborted) /\ framing = "whole" /\ (skipping <=> aborted)
    BY <1>0, <2>2, <2>3 DEF WireInv
  <2>6. Closed(todo) /\ Closed(expectations)
    BY <1>0, <2>1, <2>2 DEF BufferInv
  <2>7. ~scope_pending => todo = <<>> /\ ~aborted
    BY <1>0 DEF ScopeInv
  <2>8. /\ TicketsFor(expectations, claim_seq, queue_seq, ticketless)
        /\ aborted /\ SyncInFront(expectations) => Kinded(expectations, {"Sync"})
    BY <1>0, <2>2 DEF TicketInv
  <2>9. at_sync => transaction_status = server_tx
    BY <1>0 DEF FutureInv
  <2>10. QED
    BY <1>0, <2>1, <2>2, <2>4, <2>5, <2>6, <2>7, <2>8, <2>9, ClaimFrontCourse
<1>3. QED
  BY <1>1, <1>2

\* cleanup drains to the last Sync, or has nothing to drain.
LEMMA CleanupCourse ==
  ASSUME PInv, cleanup_inner
  PROVE  CourseInv'
<1>0. /\ OnCourse /\ WireInv /\ BufferInv /\ ScopeInv /\ TicketInv /\ FutureInv /\ PTypeOK
      /\ pc = "ready" /\ UNCHANGED <<backend, transaction_status, at>>
  BY Accepts DEF PInv, cleanup_inner
<1>1. CASE sync_inner("cleanup")
  BY <1>0, <1>1, SyncInnerCourse
<1>t. /\ todo \in Seq(Unit) /\ write_buffer \in Seq(Unit) /\ Queue = expectations
      /\ expectations \in Seq(Unit)
  BY <1>0, PTypeSplit DEF BackendTypeOK, LentTypeOK, FutureTypeOK, Queue, Reading
<1>b. UNCHANGED <<todo, skipping, framing, at_sync, server_tx, transaction_status>>
  BY <1>0 DEF backend
<1>2. CASE /\ expectations = <<>> /\ ~scope_pending /\ write_buffer' = <<>> /\ UNCHANGED <<flags, pipe>>
  <2>1. todo = <<>> /\ ~aborted /\ ~skipping /\ framing = "whole"
    BY <1>0, <1>2 DEF ScopeInv, WireInv
  <2>2. UNCHANGED <<expectations, aborted, claim_seq, queue_seq, ticketless, pc, then, cur,
                    is_broken, exchange_in_progress, scope_pending>>
    BY <1>2 DEF flags, pipe, issued
  <2>3. Outstanding' = <<>> /\ Queue' = <<>>
    BY <1>0, <1>2, <1>b, <2>1, <2>2 DEF Outstanding, Queue, Reading
  <2>4. NoSync(<<>>)
    BY DEF NoSync, Kinded
  <2>5. aborted = FALSE
    BY <1>0, <2>1 DEF PTypeOK
  <2>6. WireInv'
    BY <1>b, <2>1, <2>2, <2>3, <2>5, MatchEmpty DEF WireInv
  <2>7. BufferInv'
    BY <1>0, <1>2, <1>b, <2>1, <2>2, <2>3, <2>4 DEF BufferInv, FutureInv, Closed
  <2>8. ScopeInv'
    BY <1>0, <1>b, <2>2 DEF ScopeInv
  <2>9. TicketInv'
    <3>1. /\ TicketsFor(expectations, claim_seq, queue_seq, ticketless) /\ then = "none"
          /\ ~SyncInFront(expectations)
      BY <1>0, <1>2, <1>t DEF TicketInv, FutureInv, SyncInFront
    <3>2. Queue' = expectations
      BY <1>2, <2>3
    <3>3. QED
      BY <1>0, <2>2, <3>1, <3>2 DEF TicketInv
  <2>10. FutureInv'
    BY <1>0, <1>b, <2>2 DEF FutureInv
  <2>11. QED
    BY <2>6, <2>7, <2>8, <2>9, <2>10 DEF CourseInv
<1>3. CASE /\ ~CleanupSyncs /\ exchange_in_progress' = TRUE /\ pc' = "drain"
           /\ UNCHANGED <<is_broken, scope_pending, write_buffer, issued, claim_seq, aborted,
                          expectations, then, cur, cstate>>
  <2>1. write_buffer = <<>> /\ ~NoSync(expectations)
    BY <1>3, <1>t, AnySyncFacts DEF CleanupSyncs
  <2>2. EndsInSync(expectations)
    BY <1>0, <1>t, <2>1 DEF BufferInv, Closed
  <2>3. Queue' = expectations /\ Outstanding' = Outstanding /\ then = "none"
    BY <1>0, <1>3, <1>b DEF Queue, Reading, Outstanding, FutureInv
  <2>4. WireInv'
    BY <1>0, <1>3, <1>b, <1>t, <2>3 DEF WireInv
  <2>5. BufferInv'
    BY <1>0, <1>3, <1>b, <1>t, <2>1, <2>3 DEF BufferInv
  <2>6. ScopeInv'
    <3>1. expectations # <<>>
      BY <2>2 DEF EndsInSync
    <3>2. QED
      BY <1>0, <1>3, <1>b, <2>2, <3>1 DEF ScopeInv
  <2>7. TicketInv'
    BY <1>3, <2>3 DEF TicketInv
  <2>8. FutureInv'
    BY <1>0, <1>3, <1>b, <2>3 DEF FutureInv
  <2>9. QED
    BY <2>4, <2>5, <2>6, <2>7, <2>8 DEF CourseInv
<1>4. QED
  BY <1>1, <1>2, <1>3 DEF cleanup_inner

\* cleanup skips what the server skipped, reads the next answer, or is done.
LEMMA DrainNextCourse ==
  ASSUME PInv, drain_next
  PROVE  CourseInv'
<1>0. /\ OnCourse /\ WireInv /\ BufferInv /\ ScopeInv /\ TicketInv /\ FutureInv /\ PTypeOK
      /\ pc = "drain" /\ then = "none"
      /\ UNCHANGED <<backend, is_broken, scope_pending, transaction_status, write_buffer, at>>
  BY Waits DEF PInv, HandleInv, drain_next
<1>b. UNCHANGED <<todo, skipping, framing, at_sync, server_tx>>
  BY <1>0 DEF backend
<1>t. /\ expectations \in Seq(Unit) /\ Queue = expectations /\ aborted \in BOOLEAN
      /\ Outstanding' = Outstanding /\ write_buffer = <<>> /\ exchange_in_progress
      /\ todo \in Seq(Unit) /\ Outstanding = todo
  <2>1. todo \in Seq(Unit) /\ write_buffer = <<>>
    BY <1>0, PTypeSplit DEF BackendTypeOK, BufferInv
  <2>2. Outstanding = todo
    BY <2>1, FrontFacts DEF Outstanding
  <2>3. QED
    BY <1>0, <1>b, <2>1, <2>2 DEF PTypeOK, Queue, Reading, FutureInv, Outstanding
<1>n. NoSync(<<>>)
  BY DEF NoSync, Kinded
<1>1. CASE expectations # <<>> /\ aborted /\ Head(expectations).kind # "Sync"
  <2>1. /\ expectations' = Tail(expectations)
        /\ UNCHANGED <<exchange_in_progress, issued, claim_seq, aborted, pc, then, cur, cstate>>
    BY <1>1 DEF drain_next
  <2>2. Queue' = Tail(expectations)
    BY <1>0, <2>1 DEF Queue, Reading
  <2>3. EndsInSync(expectations)
    BY <1>0, <1>1 DEF ScopeInv
  <2>4. EndsInSync(Tail(expectations)) /\ Tail(expectations) # <<>>
    <3>1. EndsInSync(Tail(expectations))
      BY <1>1, <1>t, <2>3, EndsFacts
    <3>2. QED
      BY <3>1 DEF EndsInSync
  <2>5. Match(Outstanding, Tail(expectations), TRUE)
    <3>1. Match(Outstanding, expectations, TRUE)
      BY <1>0, <1>1, <1>t DEF WireInv
    <3>2. QED
      BY <1>1, <3>1, MatchSkipQueue
  <2>6. WireInv'
    <3>1. aborted = TRUE
      BY <1>1, <1>t
    <3>2. QED
      BY <1>0, <1>b, <1>t, <2>1, <2>2, <2>5, <3>1 DEF WireInv
  <2>7. BufferInv'
    BY <1>0, <1>b, <2>1, <2>2, <2>4 DEF BufferInv, Closed
  <2>8. ScopeInv'
    BY <1>0, <1>b, <2>1, <2>4 DEF ScopeInv
  <2>9. TicketInv'
    BY <1>0, <2>1 DEF TicketInv
  <2>10. FutureInv'
    BY <1>0, <1>b, <2>1 DEF FutureInv
  <2>11. QED
    BY <2>6, <2>7, <2>8, <2>9, <2>10 DEF CourseInv
<1>2. CASE expectations # <<>> /\ (~aborted \/ Head(expectations).kind = "Sync")
  <2>1. /\ cur' = Head(expectations) /\ expectations' = Tail(expectations) /\ pc' = "drain_read"
        /\ UNCHANGED <<exchange_in_progress, issued, claim_seq, aborted, then, cstate>>
    BY <1>2 DEF drain_next
  <2>2. Queue' = expectations
    BY <1>2, <1>t, <2>1, TailFacts, ConsFacts DEF Queue, Reading
  <2>3. EndsInSync(expectations)
    BY <1>0, <1>2 DEF ScopeInv
  <2>4. WireInv'
    BY <1>0, <1>b, <1>t, <2>1, <2>2 DEF WireInv
  <2>5. BufferInv'
    BY <1>0, <1>b, <2>1, <2>2, <2>3 DEF BufferInv, Closed
  <2>6. ScopeInv'
    BY <1>0, <1>b, <2>1, <2>2, <2>3 DEF ScopeInv
  <2>7. TicketInv'
    BY <1>0, <2>1 DEF TicketInv
  <2>8. FutureInv'
    BY <1>0, <1>2, <1>b, <2>1 DEF FutureInv
  <2>9. QED
    BY <2>4, <2>5, <2>6, <2>7, <2>8 DEF CourseInv
<1>3. CASE expectations = <<>>
  <2>1. /\ queue_seq' = 0 /\ ticketless' = {} /\ claim_seq' = 0 /\ aborted' = FALSE
        /\ exchange_in_progress' = FALSE /\ UNCHANGED expectations /\ pc' = "ready"
        /\ then' = "none"
    BY <1>3 DEF drain_next, Ready
  <2>2. todo = <<>> /\ ~aborted
    BY <1>0, <1>3 DEF ScopeInv
  <2>3. Queue' = <<>> /\ Outstanding' = <<>>
    BY <1>3, <1>t, <2>1, <2>2 DEF Queue, Reading
  <2>4. WireInv'
    BY <1>0, <1>b, <2>1, <2>2, <2>3, MatchEmpty DEF WireInv
  <2>5. BufferInv'
    BY <1>0, <1>b, <1>n, <1>t, <2>1, <2>2, <2>3 DEF BufferInv, Closed
  <2>6. ScopeInv'
    BY <1>b, <2>1, <2>2 DEF ScopeInv
  <2>7. TicketInv'
    <3>1. ~SyncInFront(<<>>)
      BY DEF SyncInFront
    <3>2. QED
      BY <1>3, <2>1, <2>3, <3>1, TicketsNone DEF TicketInv
  <2>8. FutureInv'
    BY <1>0, <1>b, <2>1 DEF FutureInv
  <2>9. QED
    BY <2>4, <2>5, <2>6, <2>7, <2>8 DEF CourseInv
<1>4. QED
  BY <1>1, <1>2, <1>3 DEF drain_next

\* What was written is on the wire; the caller of sync goes on.
LEMMA PipeWriteCourse ==
  ASSUME PInv, PipeWrite
  PROVE  CourseInv'
<1>0. /\ OnCourse /\ WireInv /\ BufferInv /\ ScopeInv /\ TicketInv /\ FutureInv /\ PTypeOK
      /\ pc = "write" /\ then # "none" /\ scope_pending /\ exchange_in_progress
  BY Waits DEF PInv, PipeWrite, FutureInv, ScopeInv
<1>t. /\ todo \in Seq(Unit) /\ write_buffer \in Seq(Unit) /\ expectations \in Seq(Unit)
      /\ Queue = expectations
  BY <1>0, PTypeSplit DEF BackendTypeOK, LentTypeOK, FutureTypeOK, Queue, Reading
<1>1. /\ todo' = Outstanding /\ write_buffer' = <<>> /\ todo' \in Seq(Unit)
      /\ UNCHANGED <<skipping, server_tx, at_sync, framing, transaction_status>>
  <2>1. todo' = Outstanding /\ write_buffer' = <<>>
        /\ UNCHANGED <<skipping, server_tx, at_sync, framing, transaction_status>>
    BY DEF PipeWrite, Deliver, Outstanding
  <2>2. QED
    BY <1>t, <2>1, FrontFacts DEF Outstanding
<1>2. /\ Match(todo', expectations, aborted) /\ framing = "whole" /\ (skipping <=> aborted)
  BY <1>0, <1>1, <1>t DEF WireInv
<1>3. /\ Closed(todo') /\ Closed(expectations)
      /\ then # "flush" => EndsInSync(expectations)
  <2>1. CASE then = "flush"
    <3>1. NoSync(expectations)
      BY <1>0, <2>1 DEF BufferInv
    <3>2. NoSync(todo')
      BY <1>2, <3>1, MatchNoSync
    <3>3. QED
      BY <2>1, <3>1, <3>2 DEF Closed
  <2>2. CASE then # "flush"
    <3>1. EndsInSync(write_buffer) /\ EndsInSync(expectations)
      BY <1>0, <2>2 DEF BufferInv
    <3>2. EndsInSync(todo')
      BY <1>1, <1>t, <3>1, EndsConcat DEF Outstanding
    <3>3. QED
      BY <3>1, <3>2 DEF Closed
  <2>3. QED
    BY <2>1, <2>2
<1>4. /\ TicketsFor(expectations, claim_seq, queue_seq, ticketless)
      /\ aborted /\ SyncInFront(expectations) => Kinded(expectations, {"Sync"})
      /\ then = "claim" => check_sequence
  BY <1>0, <1>t DEF TicketInv
<1>5. at_sync' => transaction_status' = server_tx'
  BY <1>0, <1>1 DEF FutureInv
<1>6. CASE then = "claim"
  <2>1. ClaimFront
    BY <1>6 DEF PipeWrite
  <2>2. framing' = "whole" /\ (skipping' <=> aborted)
    BY <1>1, <1>2
  <2>3. QED
    BY <1>0, <1>1, <1>2, <1>3, <1>4, <1>5, <1>6, <2>1, <2>2, ClaimFrontCourse
<1>7. CASE then # "claim"
  <2>1. /\ UNCHANGED <<is_broken, scope_pending, claim_seq, aborted, expectations, queue_seq,
                       ticketless>>
        /\ then' = "none"
        /\ \/ pc' = "ready"
           \/ pc' = "drain" /\ then = "cleanup" /\ exchange_in_progress' = exchange_in_progress
    BY <1>7 DEF PipeWrite, flags, Ready, issued
  <2>2. Queue' = expectations /\ Outstanding' = todo'
    BY <1>1, <2>1, FrontFacts DEF Queue, Reading, Outstanding
  <2>3. WireInv'
    BY <1>1, <1>2, <2>1, <2>2 DEF WireInv
  <2>4. BufferInv'
    BY <1>1, <1>3, <2>1, <2>2 DEF BufferInv, Closed, NoSync, Kinded
  <2>5. ScopeInv'
    BY <1>0, <1>3, <2>1 DEF ScopeInv, EndsInSync
  <2>6. TicketInv'
    BY <1>4, <2>1, <2>2 DEF TicketInv
  <2>7. FutureInv'
    BY <1>0, <1>5, <2>1 DEF FutureInv
  <2>8. QED
    BY <2>3, <2>4, <2>5, <2>6, <2>7 DEF CourseInv
<1>8. QED
  BY <1>6, <1>7

\* One answer to the statement being claimed.
LEMMA ClaimReadCourse ==
  ASSUME PInv, NEW m, claim_read(m)
  PROVE  CourseInv'
<1>0. /\ OnCourse /\ WireInv /\ BufferInv /\ ScopeInv /\ TicketInv /\ FutureInv /\ PTypeOK
      /\ BackendTypeOK /\ StageFits /\ pc = "claim" /\ Reading /\ then = "none" /\ Reply(m)
  BY Waits, PTypeSplit DEF PInv, IInv, HandleInv, claim_read, Reading
<1>1. /\ cur.kind \in ExecKinds /\ ~aborted /\ aborted \in BOOLEAN /\ exchange_in_progress
      /\ check_sequence /\ claim_seq \in Nat /\ queue_seq \in Nat
      /\ TicketsFor(Queue, claim_seq, queue_seq, ticketless)
  BY <1>0 DEF FutureInv, TicketInv, PTypeOK
<1>2. /\ todo \in Seq(Unit) /\ expectations \in Seq(Unit) /\ write_buffer = <<>>
      /\ Queue = <<cur>> \o expectations /\ Queue # <<>> /\ Tail(Queue) = expectations
      /\ Queue \in Seq(Unit) /\ Match(todo, Queue, aborted) /\ Outstanding = todo
      /\ Head(Queue) = cur
      /\ todo # <<>> /\ (Head(todo) = cur \/ Head(todo).kind = "Torn")
      /\ Head(todo).kind \in WireKinds
  BY <1>0, <1>1, ReadingFacts
<1>3. scope_pending /\ ~skipping /\ framing = "whole" /\ Closed(todo) /\ Closed(Queue)
  BY <1>0, <1>1, <1>2 DEF ScopeInv, WireInv, BufferInv
<1>4. /\ Head(todo).kind \in ExecKinds =>
           /\ m # "ReadyForQuery"
           /\ IF m \in {"CommandComplete", "EmptyQueryResponse"} THEN todo' = Tail(todo)
              ELSE todo' = todo
      /\ Head(todo).kind = "Torn" => m = "ParseComplete" /\ todo' = todo
      /\ skipping' = (skipping /\ m # "ReadyForQuery") /\ framing' = framing
      /\ at_sync' = (m = "ReadyForQuery")
  BY <1>0, <1>2, PipeReply
<1>5. m # "ReadyForQuery" /\ ~at_sync' /\ ~skipping' /\ framing' = "whole"
  BY <1>1, <1>2, <1>3, <1>4
<1>6. UNCHANGED <<is_broken, scope_pending, transaction_status, write_buffer, aborted, queue_seq,
                  ticketless>>
  BY DEF claim_read, issued
<1>7. CASE /\ claim_step(cur.kind, cstate, m) = "Done" /\ claim_seq' = claim_seq + 1
           /\ PendingSyncs(expectations)
  <2>1. m \in {"CommandComplete", "EmptyQueryResponse"}
    BY <1>7 DEF claim_step
  <2>2. Head(todo) = cur /\ todo' = Tail(todo)
    BY <1>1, <1>2, <1>4, <2>1
  <2>3. Match(todo', expectations, aborted')
    <3>1. Match(todo, Queue, FALSE) /\ Head(todo).kind # "Torn"
      BY <1>1, <1>2, <2>2, KindFacts
    <3>2. Match(Tail(todo), Tail(Queue), FALSE)
      BY <1>2, <3>1, MatchAnswer
    <3>3. aborted' = FALSE
      BY <1>1, <1>6
    <3>4. QED
      BY <1>2, <2>2, <3>2, <3>3
  <2>4. TicketsFor(expectations, claim_seq', queue_seq', ticketless')
    <3>1. claim_seq < queue_seq /\ claim_seq \notin ticketless
      BY <1>1 DEF check_sequence
    <3>2. TicketsFor(expectations, claim_seq + 1, queue_seq, ticketless)
      BY <1>1, <1>2, <3>1, TicketsClaim
    <3>3. QED
      BY <1>6, <1>7, <3>2
  <2>5. Closed(todo') /\ Closed(expectations) /\ todo' \in Seq(Unit)
    BY <1>0, <1>2, <1>3, <2>2, ClosedFacts, TailFacts
  <2>6. (skipping' <=> aborted') /\ scope_pending' /\ write_buffer' = <<>>
    BY <1>1, <1>2, <1>3, <1>5, <1>6
  <2>7. QED
    BY <1>0, <1>2, <1>5, <1>7, <2>3, <2>4, <2>5, <2>6, PendingSyncsCourse
<1>8. CASE /\ claim_step(cur.kind, cstate, m) \notin {"Done", "LibraryBug"}
           /\ UNCHANGED <<exchange_in_progress, claim_seq, expectations, pc, then, cur>>
  <2>1. m \notin {"CommandComplete", "EmptyQueryResponse"}
    BY <1>8 DEF claim_step
  <2>2. todo' = todo
    BY <1>1, <1>2, <1>4, <2>1
  <2>3. Queue' = Queue /\ Outstanding' = Outstanding
    BY <1>6, <1>8, <2>2 DEF Queue, Reading, Outstanding
  <2>4. WireInv'
    BY <1>0, <1>1, <1>3, <1>5, <1>6, <2>3 DEF WireInv
  <2>5. BufferInv'
    BY <1>0, <1>6, <1>8, <2>2, <2>3 DEF BufferInv
  <2>6. ScopeInv'
    BY <1>0, <1>6, <1>8, <2>2, <2>3 DEF ScopeInv
  <2>7. TicketInv'
    BY <1>0, <1>6, <1>8, <2>3 DEF TicketInv, check_sequence
  <2>8. FutureInv'
    BY <1>0, <1>5, <1>6, <1>8 DEF FutureInv
  <2>9. QED
    BY <2>4, <2>5, <2>6, <2>7, <2>8 DEF CourseInv
<1>9. CASE Ready /\ UNCHANGED exchange_in_progress
  BY <1>1, <1>9, OffCourse DEF Ready
<1>10. QED
  BY <1>7, <1>8, <1>9 DEF claim_read

\* The server refuses a statement of the pipeline, whoever reads the error.
LEMMA RefusalFacts ==
  ASSUME PInv, Reading, cur.kind \in ExecKinds, ReplyError
  PROVE  /\ ~aborted /\ scope_pending /\ exchange_in_progress
         /\ todo' = Tail(todo) /\ todo' \in Seq(Unit) /\ Closed(todo') /\ Closed(expectations)
         /\ Match(todo', expectations, TRUE)
         /\ skipping' /\ framing' = "whole" /\ ~at_sync' /\ write_buffer = <<>>
         /\ pc = "drain_read" => EndsInSync(expectations)
<1>0. /\ OnCourse /\ WireInv /\ BufferInv /\ ScopeInv /\ TicketInv /\ FutureInv /\ PTypeOK
      /\ BackendTypeOK /\ StageFits /\ HandleInv /\ CourseInv
  BY Waits, PTypeSplit DEF PInv, IInv, Reading
<1>1. /\ todo # <<>> /\ ~skipping
      /\ IF Head(todo).kind \in ReadyKinds THEN todo' = todo /\ ~skipping'
         ELSE todo' = Tail(todo) /\ skipping'
      /\ framing' = framing /\ ~at_sync'
      /\ stage \notin {"torn", "broken"}
  BY <1>0, ErrorFacts DEF ReplyError
<1>2. /\ todo \in Seq(Unit) /\ expectations \in Seq(Unit) /\ write_buffer = <<>>
      /\ Queue # <<>> /\ Tail(Queue) = expectations /\ Head(Queue) = cur
      /\ Queue \in Seq(Unit) /\ Match(todo, Queue, aborted)
      /\ ~aborted => Head(todo) = cur \/ Head(todo).kind = "Torn"
  BY ReadingFacts
<1>3. ~aborted /\ aborted \in BOOLEAN
  BY <1>0, <1>1 DEF WireInv, PTypeOK
<1>4. Head(todo).kind # "Torn"
  BY <1>0, <1>1 DEF StageFits, KindStages
<1>5. Head(todo) = cur
  BY <1>2, <1>3, <1>4
<1>6. todo' = Tail(todo) /\ skipping'
  BY <1>1, <1>5, KindFacts
<1>7. Match(Tail(todo), expectations, TRUE)
  <2>1. Match(todo, Queue, FALSE)
    BY <1>2, <1>3
  <2>2. QED
    BY <1>1, <1>2, <1>5, <2>1, MatchError
<1>8. scope_pending /\ exchange_in_progress /\ framing = "whole"
  BY <1>0, <1>1 DEF ScopeInv, FutureInv, WireInv, Reading
<1>9. Closed(Tail(todo)) /\ Closed(expectations) /\ Tail(todo) \in Seq(Unit)
  BY <1>0, <1>1, <1>2, ClosedFacts, TailFacts DEF BufferInv
<1>10. pc = "drain_read" => EndsInSync(expectations)
  <2>1. pc = "drain_read" => EndsInSync(Queue)
    BY <1>0 DEF ScopeInv
  <2>2. cur.kind # "Sync"
    BY KindFacts
  <2>3. QED
    BY <1>2, <2>1, <2>2, EndsFacts
<1>11. QED
  BY <1>1, <1>2, <1>3, <1>6, <1>7, <1>8, <1>9, <1>10

\* The claim of a refused statement goes on to the Syncs behind it.
LEMMA ClaimErrorCourse ==
  ASSUME PInv, claim_error
  PROVE  CourseInv'
<1>0. /\ OnCourse /\ TicketInv /\ FutureInv /\ PTypeOK /\ pc = "claim" /\ Reading /\ ReplyError
  BY Waits DEF PInv, claim_error, read_next_message_error, Reading
<1>1. cur.kind \in ExecKinds /\ check_sequence
  BY <1>0 DEF FutureInv, TicketInv
<1>2. /\ scope_pending /\ todo' \in Seq(Unit) /\ Closed(todo') /\ Closed(expectations)
      /\ Match(todo', expectations, TRUE) /\ skipping' /\ framing' = "whole" /\ ~at_sync'
      /\ write_buffer = <<>>
  BY <1>0, <1>1, RefusalFacts
<1>3. /\ aborted' = TRUE /\ claim_seq' = claim_seq + 1 /\ PendingSyncs(expectations)
      /\ UNCHANGED <<scope_pending, write_buffer, queue_seq, ticketless>>
  BY DEF claim_error, read_next_message_error, issued
<1>4. TicketsFor(expectations, claim_seq', queue_seq', ticketless')
  <2>1. /\ Queue \in Seq(Unit) /\ Queue # <<>> /\ Tail(Queue) = expectations
        /\ claim_seq \in Nat /\ queue_seq \in Nat /\ claim_seq < queue_seq
        /\ claim_seq \notin ticketless /\ TicketsFor(Queue, claim_seq, queue_seq, ticketless)
    BY <1>0, <1>1, ReadingFacts DEF TicketInv, check_sequence, PTypeOK
  <2>2. TicketsFor(expectations, claim_seq + 1, queue_seq, ticketless)
    BY <2>1, TicketsClaim
  <2>3. QED
    BY <1>3, <2>2
<1>5. Match(todo', expectations, aborted') /\ (skipping' <=> aborted') /\ scope_pending'
      /\ write_buffer' = <<>>
  BY <1>2, <1>3
<1>6. expectations \in Seq(Unit)
  BY <1>0 DEF PTypeOK
<1>7. QED
  BY <1>0, <1>2, <1>3, <1>4, <1>5, <1>6, PendingSyncsCourse

\* Cleanup reads the error of a statement nobody claimed.
LEMMA DrainErrorCourse ==
  ASSUME PInv, drain_error
  PROVE  CourseInv'
<1>0. /\ OnCourse /\ BufferInv /\ ScopeInv /\ FutureInv /\ PTypeOK /\ pc = "drain_read" /\ Reading
      /\ ReplyError /\ cur.kind # "Sync" /\ then = "none"
  BY Waits DEF PInv, HandleInv, drain_error, read_next_message_error, Reading
<1>1. cur.kind \in ExecKinds
  <2>1. Match(todo, Queue, aborted) /\ Head(Queue) = cur /\ Queue # <<>>
    BY <1>0, ReadingFacts
  <2>2. QED
    BY <1>0, <2>1, MatchParts
<1>2. /\ scope_pending /\ exchange_in_progress /\ todo' \in Seq(Unit) /\ Closed(todo')
      /\ Closed(expectations) /\ Match(todo', expectations, TRUE) /\ skipping'
      /\ framing' = "whole" /\ ~at_sync' /\ write_buffer = <<>> /\ EndsInSync(expectations)
  BY <1>0, <1>1, RefusalFacts
<1>3. /\ aborted' = TRUE /\ pc' = "drain"
      /\ UNCHANGED <<exchange_in_progress, scope_pending, write_buffer, expectations, then>>
  BY DEF drain_error, read_next_message_error, flags
<1>4. Queue' = expectations /\ Outstanding' = todo'
  BY <1>2, <1>3, FrontFacts DEF Queue, Reading, Outstanding
<1>5. WireInv'
  BY <1>2, <1>3, <1>4 DEF WireInv
<1>6. BufferInv'
  BY <1>0, <1>2, <1>3, <1>4 DEF BufferInv
<1>7. ScopeInv'
  BY <1>2, <1>3 DEF ScopeInv, EndsInSync
<1>8. TicketInv'
  BY <1>0, <1>3 DEF TicketInv
<1>9. FutureInv'
  BY <1>0, <1>2, <1>3 DEF FutureInv
<1>10. QED
  BY <1>5, <1>6, <1>7, <1>8, <1>9 DEF CourseInv

\* The ReadyForQuery of a Sync that a claim or cleanup reads.
LEMMA ReadyFacts ==
  ASSUME PInv, Reading, cur.kind = "Sync", Reply("ReadyForQuery")
  PROVE  /\ todo # <<>> /\ todo' = Tail(todo) /\ todo' \in Seq(Unit) /\ Closed(todo')
         /\ Closed(expectations)
         /\ Match(todo', expectations, FALSE) /\ (expectations = <<>> => todo' = <<>>)
         /\ ~skipping' /\ framing' = "whole" /\ at_sync' /\ server_tx' = server_tx
         /\ pc = "drain_read" /\ expectations # <<>> => EndsInSync(expectations)
<1>0. /\ OnCourse /\ WireInv /\ BufferInv /\ ScopeInv /\ PTypeOK /\ BackendTypeOK /\ StageFits
  BY Waits, PTypeSplit DEF PInv, IInv, Reading
<1>1. /\ todo \in Seq(Unit) /\ expectations \in Seq(Unit) /\ write_buffer = <<>>
      /\ Queue # <<>> /\ Tail(Queue) = expectations /\ Head(Queue) = cur
      /\ Queue \in Seq(Unit) /\ Match(todo, Queue, aborted)
      /\ todo # <<>> => Head(todo).kind \in WireKinds
  BY ReadingFacts
<1>2. todo # <<>>
  BY <1>0, ReplyFacts
<1>3. Head(todo).kind = "Sync"
  <2>1. Head(todo).kind \notin ExecKinds /\ Head(todo).kind # "Torn"
    BY <1>0, <1>1, <1>2, PipeReply
  <2>2. QED
    BY <1>1, <1>2, <2>1 DEF WireKinds
<1>4. /\ todo' = Tail(todo) /\ ~skipping' /\ framing' = framing /\ at_sync'
      /\ server_tx' = server_tx
  <2>1. /\ todo' = Tail(todo) /\ framing' = framing /\ server_tx' = server_tx
        /\ skipping' = (skipping /\ "ReadyForQuery" # "ReadyForQuery")
        /\ at_sync' = ("ReadyForQuery" = "ReadyForQuery")
    BY <1>0, <1>1, <1>2, <1>3, PipeReply
  <2>2. QED
    BY <2>1
<1>5. Match(todo, Queue, FALSE)
  <2>1. aborted \in BOOLEAN
    BY <1>0 DEF PTypeOK
  <2>2. CASE aborted = TRUE
    <3>1. Match(todo, Queue, TRUE)
      BY <1>1, <2>2
    <3>2. QED
      BY <1>1, <1>2, <1>3, <3>1, MatchReady
  <2>3. CASE aborted = FALSE
    BY <1>1, <2>3
  <2>4. QED
    BY <2>1, <2>2, <2>3
<1>6. Match(Tail(todo), expectations, FALSE)
  BY <1>1, <1>2, <1>3, <1>5, MatchAnswer
<1>7. EndsInSync(todo)
  <2>1. ~NoSync(todo)
    BY <1>1, <1>2, <1>3, KindedFacts DEF NoSync
  <2>2. QED
    BY <1>0, <2>1 DEF BufferInv, Closed
<1>8. ASSUME expectations = <<>>
      PROVE  Tail(todo) = <<>>
  <2>1. NoSync(Tail(todo))
    <3>1. NoSync(expectations)
      BY <1>8 DEF NoSync, Kinded
    <3>2. QED
      BY <1>6, <3>1, MatchNoSync
  <2>2. Tail(todo) # <<>> => EndsInSync(Tail(todo))
    BY <1>1, <1>2, <1>7, EndsFacts
  <2>3. Tail(todo) \in Seq(Unit)
    BY <1>1, <1>2, TailFacts
  <2>4. EndsInSync(Tail(todo)) => ~NoSync(Tail(todo))
    BY <2>3, EndsFacts
  <2>5. QED
    BY <2>1, <2>2, <2>4
<1>9. Closed(Tail(todo)) /\ Tail(todo) \in Seq(Unit)
  BY <1>0, <1>2, ClosedTail
<1>10. Closed(expectations)
  BY <1>0, <1>1, ClosedFacts DEF BufferInv
<1>11. pc = "drain_read" /\ expectations # <<>> => EndsInSync(expectations)
  BY <1>0, <1>1, EndsFacts DEF ScopeInv
<1>12. framing = "whole"
  BY <1>0 DEF WireInv
<1>13. QED
  BY <1>2, <1>4, <1>6, <1>8, <1>9, <1>10, <1>11, <1>12

\* A claim or cleanup reads on to the ReadyForQuery of its Sync.
LEMMA ConsumeCourse ==
  ASSUME PInv, NEW m, consume_ready_for_query(m)
  PROVE  CourseInv'
<1>0. /\ OnCourse /\ WireInv /\ BufferInv /\ ScopeInv /\ TicketInv /\ FutureInv /\ PTypeOK
      /\ BackendTypeOK /\ StageFits /\ Reading /\ then = "none" /\ Reply(m)
      /\ pc \in {"syncs", "drain_read"} /\ exchange_in_progress
  BY Waits, PTypeSplit DEF PInv, IInv, HandleInv, consume_ready_for_query, Reading, FutureInv
<1>1. cur.kind = "Sync"
  BY <1>0 DEF FutureInv, consume_ready_for_query
<1>2. /\ todo \in Seq(Unit) /\ expectations \in Seq(Unit) /\ write_buffer = <<>>
      /\ Queue \in Seq(Unit) /\ Queue # <<>> /\ Tail(Queue) = expectations /\ Head(Queue) = cur
      /\ todo # <<>> => Head(todo).kind \in WireKinds
      /\ ~aborted => todo # <<>> /\ (Head(todo) = cur \/ Head(todo).kind = "Torn")
      /\ Outstanding = todo
  BY <1>0, ReadingFacts
<1>3. UNCHANGED <<is_broken, write_buffer, queue_seq, ticketless, claim_seq>>
  BY DEF consume_ready_for_query, issued
<1>4. CASE m = "ReadyForQuery"
  <2>0. Reply("ReadyForQuery")
    BY <1>0, <1>4
  <2>1. /\ todo' \in Seq(Unit) /\ Closed(todo') /\ Closed(expectations)
        /\ Match(todo', expectations, FALSE) /\ (expectations = <<>> => todo' = <<>>)
        /\ ~skipping' /\ framing' = "whole" /\ at_sync' /\ server_tx' = server_tx
        /\ pc = "drain_read" /\ expectations # <<>> => EndsInSync(expectations)
    BY <1>0, <1>1, <2>0, ReadyFacts
  <2>2. /\ transaction_status' = server_tx /\ scope_pending' = (expectations # <<>>)
        /\ aborted' = FALSE
    BY <1>4 DEF consume_ready_for_query, AtReadyForQuery
  <2>3. Match(todo', expectations, aborted')
    BY <2>1, <2>2
  <2>4. CASE pc = "syncs"
    <3>1. PendingSyncs(expectations)
      BY <1>4, <2>4 DEF consume_ready_for_query
    <3>2. TicketsFor(expectations, claim_seq', queue_seq', ticketless')
      <4>1. TicketsFor(Queue, claim_seq, queue_seq, ticketless)
        BY <1>0, <2>4 DEF TicketInv
      <4>2. TicketsFor(Tail(Queue), claim_seq, queue_seq, ticketless)
        BY <1>1, <1>2, <4>1, TicketsSync, KindFacts
      <4>3. QED
        BY <1>2, <1>3, <4>2
    <3>3. (skipping' <=> aborted') /\ (~scope_pending' => todo' = <<>> /\ ~aborted')
      BY <2>1, <2>2
    <3>4. write_buffer' = <<>> /\ transaction_status' = server_tx'
      BY <1>2, <1>3, <2>1, <2>2
    <3>5. QED
      BY <1>0, <1>2, <2>1, <2>3, <3>1, <3>2, <3>3, <3>4, PendingSyncsCourse
  <2>5. CASE pc = "drain_read"
    <3>1. /\ pc' = "drain" /\ UNCHANGED <<exchange_in_progress, expectations, then, cur, cstate>>
      BY <1>4, <2>5 DEF consume_ready_for_query
    <3>2. Queue' = expectations /\ Outstanding' = todo' /\ write_buffer' = <<>>
      BY <1>2, <1>3, <2>1, <3>1, FrontFacts DEF Queue, Reading, Outstanding
    <3>3. WireInv'
      BY <2>1, <2>2, <2>3, <3>2 DEF WireInv
    <3>4. BufferInv'
      BY <1>0, <2>1, <3>1, <3>2 DEF BufferInv
    <3>5. ScopeInv'
      BY <2>1, <2>2, <2>5, <3>1 DEF ScopeInv
    <3>6. TicketInv'
      BY <1>0, <3>1 DEF TicketInv
    <3>7. FutureInv'
      BY <1>0, <2>1, <2>2, <3>1 DEF FutureInv
    <3>8. QED
      BY <3>3, <3>4, <3>5, <3>6, <3>7 DEF CourseInv
  <2>6. QED
    BY <1>0, <2>4, <2>5
<1>5. CASE m # "ReadyForQuery"
  <2>1. UNCHANGED <<transaction_status, scope_pending, aborted, exchange_in_progress,
                    expectations, pc, then, cur, cstate>>
    BY <1>5 DEF consume_ready_for_query
  <2>2. todo # <<>>
    BY <1>0, ReplyFacts
  <2>3. /\ ~skipping /\ Head(todo).kind # "Sync"
        /\ Head(todo).kind = "Torn" => todo' = todo
        /\ framing' = framing /\ skipping' = (skipping /\ m # "ReadyForQuery")
        /\ at_sync' = (m = "ReadyForQuery")
    BY <1>0, <1>2, <1>5, <2>2, PipeReply
  <2>4. ~aborted
    BY <1>0, <2>3 DEF WireInv
  <2>5. todo' = todo /\ ~skipping' /\ ~at_sync'
    BY <1>1, <1>2, <1>5, <2>3, <2>4
  <2>6. Queue' = Queue /\ Outstanding' = Outstanding
    BY <1>3, <2>1, <2>5 DEF Queue, Reading, Outstanding
  <2>7. WireInv'
    BY <1>0, <2>1, <2>3, <2>4, <2>5, <2>6 DEF WireInv
  <2>8. BufferInv'
    BY <1>0, <1>3, <2>1, <2>5, <2>6 DEF BufferInv
  <2>9. ScopeInv'
    BY <1>0, <2>1, <2>5, <2>6 DEF ScopeInv
  <2>10. TicketInv'
    BY <1>0, <1>3, <2>1, <2>6 DEF TicketInv
  <2>11. FutureInv'
    BY <1>0, <2>1, <2>5 DEF FutureInv
  <2>12. QED
    BY <2>7, <2>8, <2>9, <2>10, <2>11 DEF CourseInv
<1>6. QED
  BY <1>4, <1>5

\* Cleanup reads an answer to a statement nobody claimed.
LEMMA DrainReadCourse ==
  ASSUME PInv, NEW m, drain_read(m)
  PROVE  CourseInv'
<1>0. /\ OnCourse /\ WireInv /\ BufferInv /\ ScopeInv /\ TicketInv /\ FutureInv /\ PTypeOK
      /\ BackendTypeOK /\ StageFits /\ Reading /\ then = "none" /\ Reply(m)
      /\ pc = "drain_read" /\ exchange_in_progress /\ cur.kind # "Sync"
  BY Waits, PTypeSplit DEF PInv, IInv, HandleInv, drain_read, Reading, FutureInv
<1>1. ~aborted /\ aborted = FALSE
  BY <1>0 DEF FutureInv, PTypeOK
<1>2. /\ todo \in Seq(Unit) /\ expectations \in Seq(Unit) /\ write_buffer = <<>>
      /\ Queue \in Seq(Unit) /\ Queue # <<>> /\ Tail(Queue) = expectations /\ Head(Queue) = cur
      /\ Match(todo, Queue, aborted)
      /\ todo # <<>> /\ Head(todo).kind \in WireKinds
      /\ Head(todo) = cur \/ Head(todo).kind = "Torn"
      /\ Outstanding = todo
  BY <1>0, <1>1, ReadingFacts
<1>3. cur.kind \in ExecKinds
  BY <1>0, <1>2, MatchParts
<1>4. /\ Head(todo).kind \in ExecKinds =>
           /\ m # "ReadyForQuery"
           /\ IF m \in {"CommandComplete", "EmptyQueryResponse"} THEN todo' = Tail(todo)
              ELSE todo' = todo
      /\ Head(todo).kind = "Torn" => m = "ParseComplete" /\ todo' = todo
      /\ framing' = framing /\ skipping' = (skipping /\ m # "ReadyForQuery")
      /\ at_sync' = (m = "ReadyForQuery")
  BY <1>0, <1>2, PipeReply
<1>5. ~skipping' /\ ~at_sync' /\ framing' = "whole"
  <2>1. m # "ReadyForQuery"
    BY <1>2, <1>3, <1>4
  <2>2. ~skipping /\ framing = "whole"
    BY <1>0, <1>1 DEF WireInv
  <2>3. QED
    BY <1>4, <2>1, <2>2
<1>6. UNCHANGED <<is_broken, exchange_in_progress, scope_pending, transaction_status, write_buffer,
                  queue_seq, ticketless, claim_seq, aborted, expectations>>
  BY DEF drain_read, flags, issued
<1>7. scope_pending /\ EndsInSync(expectations)
  <2>1. scope_pending /\ EndsInSync(Queue)
    BY <1>0, <1>2 DEF ScopeInv
  <2>2. QED
    BY <1>0, <1>2, <2>1, EndsFacts
<1>8. CASE m \in {"CommandComplete", "EmptyQueryResponse"} /\ pc' = "drain"
             /\ UNCHANGED <<then, cur, cstate>>
  <2>1. Head(todo) = cur /\ todo' = Tail(todo)
    BY <1>2, <1>3, <1>4, <1>8
  <2>2. Match(Tail(todo), expectations, FALSE)
    <3>1. Match(todo, Queue, FALSE) /\ Head(todo).kind # "Torn"
      BY <1>1, <1>2, <1>3, <2>1, KindFacts
    <3>2. QED
      BY <1>2, <3>1, MatchAnswer
  <2>3. Closed(todo') /\ todo' \in Seq(Unit) /\ Closed(expectations)
    BY <1>0, <1>2, <2>1, ClosedTail, ClosedFacts DEF BufferInv
  <2>4. Queue' = expectations /\ Outstanding' = todo'
    BY <1>2, <1>6, <1>8, <2>3, FrontFacts DEF Queue, Reading, Outstanding
  <2>5. WireInv'
    <3>1. Match(todo', expectations, aborted')
      BY <1>1, <1>6, <2>1, <2>2
    <3>2. QED
      BY <1>1, <1>5, <1>6, <2>4, <3>1 DEF WireInv
  <2>6. BufferInv'
    BY <1>0, <1>2, <1>6, <1>8, <2>3, <2>4 DEF BufferInv
  <2>7. ScopeInv'
    BY <1>6, <1>7, <1>8 DEF ScopeInv, EndsInSync
  <2>8. TicketInv'
    BY <1>0, <1>8 DEF TicketInv
  <2>9. FutureInv'
    BY <1>0, <1>5, <1>6, <1>8 DEF FutureInv
  <2>10. QED
    BY <2>5, <2>6, <2>7, <2>8, <2>9 DEF CourseInv
<1>9. CASE m \notin {"CommandComplete", "EmptyQueryResponse"} /\ UNCHANGED <<pc, then, cur, cstate>>
  <2>1. todo' = todo
    BY <1>2, <1>3, <1>4, <1>9
  <2>2. Queue' = Queue /\ Outstanding' = Outstanding
    BY <1>6, <1>9, <2>1 DEF Queue, Reading, Outstanding
  <2>3. WireInv'
    BY <1>0, <1>1, <1>5, <1>6, <2>2 DEF WireInv
  <2>4. BufferInv'
    BY <1>0, <1>6, <1>9, <2>1, <2>2 DEF BufferInv
  <2>5. ScopeInv'
    BY <1>0, <1>6, <1>9, <2>1, <2>2 DEF ScopeInv
  <2>6. TicketInv'
    BY <1>0, <1>9 DEF TicketInv
  <2>7. FutureInv'
    BY <1>0, <1>5, <1>6, <1>9 DEF FutureInv
  <2>8. QED
    BY <2>3, <2>4, <2>5, <2>6, <2>7 DEF CourseInv
<1>10. CASE Ready
  BY <1>0, <1>6, <1>10, OffCourse DEF Ready
<1>11. QED
  BY <1>8, <1>9, <1>10 DEF drain_read

\* Every operation of the handle keeps it on course.
LEMMA QueueCourse ==
  ASSUME PInv, Usage = {}, PipeQueue
  PROVE  CourseInv'
<1>1. ASSUME NEW r \in Requests, new_inner(r)
      PROVE  CourseInv'
  BY <1>1, NewCourse
<1>2. ASSUME NEW r \in Requests, NEW k \in ExecKinds, exec_queue(U(k, r))
      PROVE  CourseInv'
  BY <1>2, ExecCourse
<1>3. ASSUME sync
      PROVE  CourseInv'
  BY <1>3, SyncInnerCourse DEF sync
<1>4. ASSUME NEW b, Drop(b)
      PROVE  CourseInv'
  BY <1>4 DEF Drop, CourseInv, OnCourse
<1>5. QED
  BY <1>1, <1>2, <1>3, <1>4, FlushCourse, ClaimCourse, CleanupCourse, DrainNextCourse
     DEF PipeQueue, DropHandle, ForgetHandle

\* So does what the socket brings.
LEMMA IOCourse ==
  ASSUME PInv, PipeIO
  PROVE  CourseInv'
<1>1. ASSUME PipeWriteFails \/ PipeReadFatal \/ PipeReadFails \/ CancelFuture
      PROVE  CourseInv'
  <2>1. pc \notin {"none", "ready"}
    BY <1>1 DEF PipeWriteFails, PipeReadFatal, PipeReadFails, CancelFuture, Reading
  <2>2. exchange_in_progress
    BY <2>1, Waits DEF PInv, FutureInv
  <2>3. exchange_in_progress' = exchange_in_progress /\ pc' = "ready"
    BY <1>1 DEF PipeWriteFails, PipeReadFatal, PipeReadFails, CancelFuture, Ready, flags
  <2>4. QED
    BY <2>2, <2>3, OffCourse
<1>2. QED
  BY <1>1, PipeWriteCourse, ClaimReadCourse, ConsumeCourse, DrainReadCourse, ClaimErrorCourse,
     DrainErrorCourse DEF PipeIO

-----------------------------------------------------------------------------
\* Which future follows which.

\* A pending Sync is read, or the future ends.
LEMMA PendingSyncsNext ==
  ASSUME NEW q, PendingSyncs(q)
  PROVE  pc' \in {"syncs", "ready"} /\ then' = "none"
  BY DEF PendingSyncs, Ready

\* A claim reads its answer or the Syncs behind it, or ends.
LEMMA ClaimFrontNext ==
  ASSUME ClaimFront
  PROVE  pc' \in {"claim", "syncs", "ready"} /\ then' = "none" /\ is_broken' = is_broken
<1>1. CASE aborted
  BY <1>1, PendingSyncsNext DEF ClaimFront
<1>2. CASE ~aborted
  BY <1>2 DEF ClaimFront, Ready
<1>3. QED
  BY <1>1, <1>2

\* A handle is new, goes away, or lives on.
LEMMA QueueSplit ==
  ASSUME HandleInv, PipeQueue
  PROVE  \/ \E r \in Requests : new_inner(r)
         \/ pc = "ready" /\ \E b \in {scope_pending, FALSE} : Drop(b)
         \/ at = "pipe" /\ pc' # "none"
<1>1. pc # "none" => at = "pipe"
  BY DEF HandleInv
<1>2. CASE \E r \in Requests : new_inner(r)
  BY <1>2
<1>3. CASE DropHandle \/ ForgetHandle
  BY <1>3 DEF DropHandle, ForgetHandle
<1>4. ASSUME \/ \E r \in Requests, k \in ExecKinds : exec_queue(U(k, r))
             \/ flush \/ sync \/ claim_with_handler \/ cleanup_inner \/ drain_next
      PROVE  pc # "none" /\ pc' # "none"
  BY <1>4, ClaimFrontNext
     DEF exec_queue, flush, sync, claim_with_handler, cleanup_inner, drain_next, sync_inner,
         Ready, pipe
<1>5. QED
  BY <1>1, <1>2, <1>3, <1>4 DEF PipeQueue

\* An operation of a handle that lives on.
LEMMA QueueNext ==
  ASSUME HandleInv, PipeQueue, at = "pipe", pc' # "none"
  PROVE  /\ at' = "pipe" /\ UNCHANGED <<backend, is_broken, failed, result>>
         /\ pc' # "write" => then' = "none"
         /\ pc' # "ready" => ~is_broken
<1>1. ASSUME NEW r \in Requests, NEW k \in ExecKinds, exec_queue(U(k, r))
      PROVE  /\ pc = "ready" /\ pc' = "ready" /\ then' = then /\ at' = at
             /\ UNCHANGED <<backend, is_broken, failed, result>>
  BY <1>1 DEF exec_queue, flags, UnusedByPipeline
<1>2. ASSUME NEW k, sync_inner(k)
      PROVE  pc' = "write" /\ ~is_broken /\ is_broken' = is_broken
  BY <1>2 DEF sync_inner, ExchangeReady
<1>3. CASE flush
  BY <1>3 DEF flush, ExchangeReady, UnusedByPipeline
<1>4. CASE sync
  BY <1>2, <1>4 DEF sync, UnusedByPipeline
<1>5. CASE claim_with_handler
  BY <1>2, <1>5, ClaimFrontNext DEF claim_with_handler, ExchangeReady, UnusedByPipeline
<1>6. CASE cleanup_inner
  <2>1. /\ ExchangeReady /\ pc = "ready" /\ at' = at
        /\ UNCHANGED <<backend, failed, result>>
    BY <1>6 DEF cleanup_inner, UnusedByPipeline
  <2>2. \/ pc' = "write" /\ is_broken' = is_broken
        \/ pc' = pc /\ then' = then /\ is_broken' = is_broken
        \/ pc' = "drain" /\ then' = then /\ is_broken' = is_broken
    BY <1>2, <1>6 DEF cleanup_inner, flags, pipe
  <2>3. QED
    BY <2>1, <2>2 DEF HandleInv, ExchangeReady
<1>7. CASE drain_next
  BY <1>7 DEF drain_next, HandleInv, Ready, UnusedByPipeline
<1>8. ASSUME NEW r \in Requests, new_inner(r)
      PROVE  FALSE
  BY <1>8 DEF new_inner
<1>9. ASSUME NEW b, Drop(b)
      PROVE  FALSE
  BY <1>9 DEF Drop
<1>10. QED
  BY <1>1, <1>3, <1>4, <1>5, <1>6, <1>7, <1>8, <1>9
     DEF HandleInv, PipeQueue, DropHandle, ForgetHandle

\* A step of the future that waits.
LEMMA IONext ==
  ASSUME HandleInv, PipeIO
  PROVE  /\ pc \notin {"none", "ready"} /\ pc' \notin {"none", "write"}
         /\ UNCHANGED <<at, failed, result>> /\ then' = "none"
         /\ is_broken' = is_broken \/ pc' = "ready"
<1>1. CASE PipeWrite
  BY <1>1, ClaimFrontNext DEF PipeWrite, flags, Ready, UnusedByPipeline
<1>2. CASE PipeWriteFails \/ PipeReadFatal \/ PipeReadFails \/ CancelFuture
  BY <1>2 DEF PipeWriteFails, PipeReadFatal, PipeReadFails, CancelFuture, Ready, Reading, flags,
              UnusedByPipeline
<1>3. ASSUME NEW m, claim_read(m)
      PROVE  /\ pc = "claim" /\ pc' \notin {"none", "write"}
             /\ UNCHANGED <<at, failed, result>> /\ then' = "none"
             /\ is_broken' = is_broken
  <2>1. /\ pc = "claim" /\ UNCHANGED <<at, failed, result>> /\ is_broken' = is_broken
        /\ then = "none"
    BY <1>3 DEF claim_read, UnusedByPipeline, HandleInv
  <2>2. PendingSyncs(expectations) \/ UNCHANGED <<pc, then>> \/ Ready
    BY <1>3 DEF claim_read
  <2>3. QED
    BY <2>1, <2>2, PendingSyncsNext DEF Ready
<1>4. ASSUME NEW m, consume_ready_for_query(m)
      PROVE  /\ pc \in {"syncs", "drain_read"} /\ pc' \notin {"none", "write"}
             /\ UNCHANGED <<at, failed, result>> /\ then' = "none"
             /\ is_broken' = is_broken
  <2>1. /\ pc \in {"syncs", "drain_read"} /\ UNCHANGED <<at, failed, result>>
        /\ is_broken' = is_broken /\ then = "none"
    BY <1>4 DEF consume_ready_for_query, UnusedByPipeline, HandleInv
  <2>2. \/ PendingSyncs(expectations) \/ UNCHANGED <<pc, then>>
        \/ pc' = "drain" /\ UNCHANGED then
    BY <1>4 DEF consume_ready_for_query
  <2>3. QED
    BY <2>1, <2>2, PendingSyncsNext
<1>5. ASSUME NEW m, drain_read(m)
      PROVE  /\ pc = "drain_read" /\ pc' \notin {"none", "write"}
             /\ UNCHANGED <<at, failed, result>> /\ then' = "none"
             /\ is_broken' = is_broken
  <2>1. /\ pc = "drain_read" /\ UNCHANGED <<at, failed, result>> /\ is_broken' = is_broken
        /\ then = "none"
    BY <1>5 DEF drain_read, UnusedByPipeline, HandleInv, flags
  <2>2. UNCHANGED <<pc, then>> \/ (pc' = "drain" /\ UNCHANGED then) \/ Ready
    BY <1>5 DEF drain_read
  <2>3. QED
    BY <2>1, <2>2 DEF Ready
<1>6. CASE claim_error
  BY <1>6, PendingSyncsNext DEF claim_error, UnusedByPipeline
<1>7. CASE drain_error
  BY <1>7 DEF drain_error, UnusedByPipeline, HandleInv, flags
<1>8. QED
  BY <1>1, <1>2, <1>3, <1>4, <1>5, <1>6, <1>7 DEF PipeIO

-----------------------------------------------------------------------------
\* The invariant is inductive.

\* An operation of the handle.
LEMMA QueueInv ==
  ASSUME PInv, Usage = {}, PipeQueue
  PROVE  PInv'
<1>1. PTypeOK' /\ CourseInv' /\ TypeOK'
  BY QueueType, QueueCourse DEF PTypeOK
<1>2. backend' = backend
  BY DEF PipeQueue, new_inner, exec_queue, flush, sync, claim_with_handler, cleanup_inner,
         drain_next, DropHandle, ForgetHandle, Drop
<1>3. UNCHANGED <<todo, stage, skipping, framing, at_sync, server_tx>> /\ StageFits'
  BY <1>2 DEF backend, StageFits, PInv, IInv
<1>4. ASSUME NEW r \in Requests, new_inner(r)
      PROVE  HandleInv' /\ at' = "pipe"
  <2>1. result = "Ok" => ~failed
    BY <1>4 DEF new_inner, PInv, IInv, OkMeansNoServerError
  <2>2. pc' = "ready" /\ then' = "none" /\ at' = "pipe" /\ UNCHANGED <<failed, result>>
    BY <1>4 DEF new_inner
  <2>3. QED
    BY <2>1, <2>2 DEF HandleInv
<1>5. ASSUME NEW b, pc = "ready", Drop(b)
      PROVE  PInv'
  <2>1. /\ at' = "idle" /\ pc' = "none" /\ then' = then /\ is_broken' = (is_broken \/ b)
        /\ UNCHANGED <<exchange_in_progress, scope_pending, transaction_status, failed, result>>
    BY <1>5 DEF Drop, UnusedByPipeline
  <2>2. HandleInv'
    BY <1>5, <2>1 DEF HandleInv, PInv
  <2>3. ReadyInv' /\ StatusInv'
    <3> SUFFICES ASSUME MayCall'
                 PROVE  Drained' /\ (at_sync' => transaction_status' = server_tx')
      BY <2>1 DEF ReadyInv, StatusInv
    <3>0. ~is_broken' /\ ~exchange_in_progress' /\ ~scope_pending'
      BY <2>1 DEF MayCall, Usable
    <3>1. Usable /\ OnCourse
      BY <1>5, <2>1, <3>0 DEF Usable, OnCourse
    <3>2. WireInv /\ ScopeInv /\ FutureInv
      BY <3>1 DEF PInv, CourseInv
    <3>3. Drained /\ (at_sync => transaction_status = server_tx)
      BY <3>1, <3>2 DEF WireInv, ScopeInv, FutureInv, Usable, Drained
    <3>4. QED
      BY <1>3, <2>1, <3>3 DEF Drained
  <2>4. WriteInv' /\ ReadInv' /\ PortalInv'
    BY <2>1 DEF WriteInv, ReadInv, PortalInv
  <2>5. OkMeansNoServerError'
    <3>1. at = "pipe"
      BY <1>5 DEF PInv, HandleInv
    <3>2. QED
      BY <2>1, <3>1 DEF PInv, HandleInv, OkMeansNoServerError
  <2>6. QED
    BY <1>1, <1>3, <2>2, <2>3, <2>4, <2>5 DEF PInv, IInv
<1>6. ASSUME at = "pipe", pc' # "none"
      PROVE  HandleInv' /\ at' = "pipe"
  <2>1. /\ at' = "pipe" /\ UNCHANGED <<is_broken, failed, result>>
        /\ pc' # "write" => then' = "none"
        /\ pc' # "ready" => ~is_broken
    BY <1>6, QueueNext DEF PInv
  <2>2. QED
    BY <1>6, <2>1 DEF HandleInv, PInv
<1>7. HandleInv' /\ at' = "pipe" => PInv'
  BY <1>1, <1>3, Borrowed DEF PInv
<1>8. QED
  BY <1>4, <1>5, <1>6, <1>7, QueueSplit DEF PInv

\* A step of the future that waits.
LEMMA IOInv ==
  ASSUME PInv, PipeIO
  PROVE  PInv'
<1>1. PTypeOK' /\ StageFits' /\ CourseInv' /\ TypeOK'
  BY IOType, IOCourse DEF PTypeOK
<1>2. /\ pc \notin {"none", "ready"} /\ pc' \notin {"none", "write"}
      /\ UNCHANGED <<at, failed, result>> /\ then' = "none"
      /\ is_broken' = is_broken \/ pc' = "ready"
  BY IONext DEF PInv
<1>3. HandleInv' /\ at' = "pipe"
  BY <1>2 DEF PInv, HandleInv
<1>4. QED
  BY <1>1, <1>3, Borrowed DEF PInv

\* A step of the connection while no handle borrows it, or of its server.
LEMMA PlainStepInv ==
  ASSUME PInv, Next, UNCHANGED pipe
  PROVE  PInv'
<1>1. IInv' /\ TypeOK'
  BY NextInv DEF PInv, IInv
<1>2. UNCHANGED <<queue_seq, ticketless, claim_seq, aborted, expectations, pc, then, cur, cstate>>
  BY DEF pipe, issued
<1>3. PTypeOK'
  BY <1>1, <1>2 DEF PInv, PTypeOK
<1>4. CASE at # "pipe"
  <2>1. at' # "pipe"
    <3>1. CASE Environment
      BY <1>4, <3>1 DEF Environment, call
    <3>2. QED
      BY <3>1, StepKinds DEF Waiting
  <2>2. pc = "none" /\ then = "none"
    BY <1>4 DEF PInv, HandleInv
  <2>3. HandleInv' /\ CourseInv'
    BY <1>2, <2>1, <2>2 DEF HandleInv, CourseInv, OnCourse
  <2>4. QED
    BY <1>1, <1>3, <2>3 DEF PInv
<1>5. CASE at = "pipe"
  <2>1. Environment
    BY <1>5, StepKinds DEF Waiting
  <2>2. /\ UNCHANGED <<is_broken, exchange_in_progress, scope_pending, transaction_status,
                       write_buffer, at, failed, result>>
        /\ UNCHANGED <<skipping, server_tx, at_sync, framing>>
    BY <2>1 DEF Environment, flags, call, ServerDiscard, PeerDies
  <2>3. HandleInv'
    BY <1>2, <2>2 DEF PInv, HandleInv
  <2>4. CourseInv'
    <3> SUFFICES ASSUME OnCourse
                 PROVE  WireInv' /\ BufferInv' /\ ScopeInv' /\ TicketInv' /\ FutureInv'
      BY <1>2, <2>2 DEF CourseInv, OnCourse
    <3>1. WireInv /\ BufferInv /\ ScopeInv /\ TicketInv /\ FutureInv
      BY DEF PInv, CourseInv
    <3>2. Queue' = Queue
      BY <1>2 DEF Queue, Reading
    <3>3. TicketInv' /\ FutureInv'
      BY <1>2, <2>2, <3>1, <3>2 DEF TicketInv, FutureInv, check_sequence
    <3>4. CASE PeerDies
      <4>1. todo' = todo
        BY <3>4 DEF PeerDies
      <4>2. Outstanding' = Outstanding
        BY <2>2, <4>1 DEF Outstanding
      <4>3. WireInv' /\ BufferInv' /\ ScopeInv'
        BY <1>2, <2>2, <3>1, <3>2, <4>1, <4>2 DEF WireInv, BufferInv, ScopeInv
      <4>4. QED
        BY <3>3, <4>3
    <3>5. CASE ServerDiscard
      <4>1. BackendTypeOK /\ write_buffer \in Seq(Unit) /\ aborted \in BOOLEAN
        BY PTypeSplit DEF PInv, LentTypeOK, PTypeOK
      <4>2. /\ todo # <<>> /\ todo \in Seq(Unit) /\ skipping /\ Head(todo).kind # "Sync"
            /\ todo' = Tail(todo)
        BY <3>5, <4>1, DiscardFacts
      <4>3. aborted = TRUE
        BY <3>1, <4>1, <4>2 DEF WireInv
      <4>4. /\ Outstanding # <<>> /\ Head(Outstanding) = Head(todo)
            /\ Outstanding' = Tail(Outstanding)
        BY <2>2, <4>1, <4>2 DEF Outstanding
      <4>5. Match(Outstanding, Queue, TRUE)
        BY <3>1, <4>3 DEF WireInv
      <4>6. Match(Outstanding', Queue, TRUE)
        BY <4>2, <4>4, <4>5, MatchSkipWire
      <4>7. WireInv'
        BY <1>2, <2>2, <3>1, <3>2, <4>3, <4>6 DEF WireInv
      <4>8. Closed(todo')
        BY <3>1, <4>2, ClosedFacts DEF BufferInv
      <4>9. BufferInv'
        BY <1>2, <2>2, <3>1, <3>2, <4>8 DEF BufferInv
      <4>10. ScopeInv'
        BY <1>2, <2>2, <3>1, <3>2, <4>2 DEF ScopeInv
      <4>11. QED
        BY <3>3, <4>7, <4>9, <4>10
    <3>6. QED
      BY <2>1, <3>4, <3>5 DEF Environment
  <2>5. QED
    BY <1>1, <1>3, <2>3, <2>4 DEF PInv
<1>6. QED
  BY <1>4, <1>5

\* The initial states.
LEMMA PInitInv == PInit => PInv
<1> SUFFICES ASSUME PInit
             PROVE  PInv
  OBVIOUS
<1>1. IInv /\ TypeOK
  BY InitInv DEF PInit, IInv
<1>2. PTypeOK
  <2>1. cur \in Unit
    BY <1>1 DEF PInit, PipeInit, NoUnit, U, Unit, Kinds, TypeOK
  <2>2. queue_seq \in Nat /\ claim_seq \in 0..queue_seq /\ ticketless \subseteq 0..queue_seq
    BY DEF PInit, PipeInit
  <2>3. expectations \in Seq(Unit)
    BY DEF PInit, PipeInit
  <2>4. aborted \in BOOLEAN /\ cstate \in ClaimStates /\ pc = "none" /\ then = "none"
    BY DEF PInit, PipeInit, ClaimStates
  <2>5. QED
    BY <1>1, <2>1, <2>2, <2>3, <2>4 DEF PTypeOK
<1>3. HandleInv /\ CourseInv
  BY DEF PInit, PipeInit, Init, ConnInit, HandleInv, CourseInv, OnCourse
<1>4. QED
  BY <1>1, <1>2, <1>3 DEF PInv

\* Every step.
LEMMA PNextInv ==
  ASSUME PInv, Usage = {}, [PNext]_pvars
  PROVE  PInv'
<1>1. CASE UNCHANGED pvars
  <2>1. /\ UNCHANGED <<queue_seq, ticketless, claim_seq, aborted, expectations, pc, then, cur,
                       cstate>>
        /\ UNCHANGED vars
    BY <1>1 DEF pvars, pipe, issued
  <2>2. IInv' /\ TypeOK'
    BY <2>1, NextInv DEF PInv, IInv
  <2>3. UNCHANGED <<todo, skipping, framing, at_sync, server_tx, is_broken, exchange_in_progress,
                    scope_pending, transaction_status, write_buffer, at, failed, result>>
    BY <2>1 DEF vars, backend, flags, call
  <2>4. Queue' = Queue /\ Outstanding' = Outstanding
    BY <2>1, <2>3 DEF Queue, Reading, Outstanding
  <2>5. HandleInv' /\ PTypeOK'
    BY <2>1, <2>2, <2>3 DEF PInv, HandleInv, PTypeOK
  <2>6. CourseInv'
    <3> SUFFICES ASSUME OnCourse
                 PROVE  WireInv' /\ BufferInv' /\ ScopeInv' /\ TicketInv' /\ FutureInv'
      BY <2>1, <2>3 DEF CourseInv, OnCourse
    <3>1. WireInv /\ BufferInv /\ ScopeInv /\ TicketInv /\ FutureInv
      BY DEF PInv, CourseInv
    <3>2. WireInv' /\ BufferInv' /\ ScopeInv'
      BY <2>1, <2>3, <2>4, <3>1 DEF WireInv, BufferInv, ScopeInv
    <3>3. TicketInv' /\ FutureInv'
      BY <2>1, <2>3, <2>4, <3>1 DEF TicketInv, FutureInv, check_sequence
    <3>4. QED
      BY <3>2, <3>3
  <2>7. QED
    BY <2>2, <2>5, <2>6 DEF PInv
<1>2. CASE Next /\ UNCHANGED pipe
  BY <1>2, PlainStepInv
<1>3. CASE PipeQueue
  BY <1>3, QueueInv
<1>4. CASE PipeIO
  BY <1>4, IOInv
<1>5. QED
  BY <1>1, <1>2, <1>3, <1>4 DEF PNext

\* PInv is an invariant.
LEMMA PInvariant ==
  ASSUME Usage = {}
  PROVE  PSpec => []PInv
<1>1. PInit => PInv
  BY PInitInv
<1>2. PInv /\ [PNext]_pvars => PInv'
  BY PNextInv
<1>3. QED
  BY <1>1, <1>2, PTL DEF PSpec

\* A pipeline's variables keep their types, those of the borrowed connection included
\* (callers with Usage = {}).
THEOREM PipelineTypeCorrect ==
  ASSUME Usage = {}
  PROVE  PSpec => []PTypeOK
<1>1. PInv => PTypeOK
  BY DEF PInv
<1>2. QED
  BY <1>1, PInvariant, PTL

\* Callers with Usage = {}: the queue of expectations is what is on the wire and in the
\* write buffer, after every mixture of exec, flush, sync and claims but the two orders
\* that Usage names (statements flushed behind an unread Sync, or queued behind one on an
\* aborted pipeline).
THEOREM QueueIsOnTheWire ==
  ASSUME Usage = {}
  PROVE  PSpec => []QueueMatchesWire
<1>1. PInv => QueueMatchesWire
  <2> SUFFICES ASSUME PInv, pc \in {"ready", "drain"}, ~aborted, ExchangeReady \/ pc = "drain"
               PROVE  expectations = OfKinds(Outstanding, Encoded)
    BY DEF QueueMatchesWire, Encoded
  <2>1. WireInv
    BY Waits, Accepts DEF PInv
  <2>2. Queue = expectations
    BY DEF Queue, Reading
  <2>3. QED
    BY <2>1, <2>2 DEF WireInv, Match
<1>2. QED
  BY <1>1, PInvariant, PTL

\* Callers with Usage = {}: a claim reads the answer to its own statement.
THEOREM ClaimsReadTheirOwn ==
  ASSUME Usage = {}
  PROVE  PSpec => []ClaimReadsOwnAnswer
<1>1. PInv => ClaimReadsOwnAnswer
  <2> SUFFICES ASSUME PInv, pc = "claim"
               PROVE  todo # <<>> /\ (Head(todo) = cur \/ Head(todo).kind = "Torn")
    BY DEF ClaimReadsOwnAnswer
  <2>1. Reading /\ ~aborted
    BY Waits DEF PInv, FutureInv, Reading
  <2>2. QED
    BY <2>1, ReadingFacts
<1>2. QED
  BY <1>1, PInvariant, PTL

\* Callers with Usage = {}, who queue nothing behind the Sync of an aborted pipeline: what
\* a claim or cleanup passes over in it the server skips too: were it behind a Sync on the
\* wire, it would be behind a Sync in the queue.
THEOREM SkippedByBoth ==
  ASSUME Usage = {}
  PROVE  PSpec => []AbortedMeansSkipped
<1>1. PInv => AbortedMeansSkipped
  <2> SUFFICES ASSUME PInv, aborted, pc \in {"ready", "drain"}, ExchangeReady \/ pc = "drain",
                      NEW i \in DOMAIN expectations,
                      \A j \in 1..i : expectations[j].kind # "Sync"
               PROVE  /\ skipping
                      /\ \A k \in DOMAIN Outstanding : Outstanding[k] = expectations[i] =>
                           \A j \in 1..k : Outstanding[j].kind # "Sync"
    BY DEF AbortedMeansSkipped
  <2>1. WireInv
    BY Waits, Accepts DEF PInv
  <2>2. Queue = expectations /\ aborted = TRUE
    BY PTypeSplit DEF Queue, Reading, PInv, PTypeOK
  <2>3. skipping
    BY <2>1 DEF WireInv
  <2>4. Match(Outstanding, expectations, TRUE)
    BY <2>1, <2>2 DEF WireInv
  <2>5. ASSUME NEW k \in DOMAIN Outstanding, Outstanding[k] = expectations[i],
               NEW j \in 1..k, Outstanding[j].kind = "Sync"
        PROVE  FALSE
    <3>1. /\ Outstanding \in Seq(Unit) /\ expectations \in Seq(Unit) /\ Distinct(expectations)
          /\ Since(Outstanding) = Since(expectations)
          /\ Kinded(expectations, ExecKinds \cup {"Sync"})
      BY <2>4 DEF Match
    <3>2. /\ i \in 1..Len(expectations) /\ k \in 1..Len(Outstanding)
          /\ j \in 1..Len(Outstanding) /\ j <= k /\ Len(expectations) \in Nat
      BY <2>5, <3>1
    <3>3. expectations[i].kind \in ExecKinds
      <4>1. expectations[i].kind # "Sync"
        BY <3>2
      <4>2. QED
        BY <3>1, <3>2, <4>1 DEF Kinded
    <3>4. PICK n \in 1..Len(Since(Outstanding)) : Since(Outstanding)[n] = expectations[i]
      <4>1. Outstanding[k].kind # "Torn"
        BY <2>5, <3>3, KindFacts
      <4>2. QED
        BY <2>5, <3>1, <3>2, <4>1, SinceMember
    <3>5. PICK p \in 1..Len(expectations) :
            /\ Since(expectations)[n] = expectations[p]
            /\ \E s \in 1..Len(expectations) : s <= p /\ expectations[s].kind = "Sync"
      BY <3>1, <3>4, SinceFrom
    <3>6. PICK s \in 1..Len(expectations) : s <= p /\ expectations[s].kind = "Sync"
      BY <3>5
    <3>7. expectations[p] = expectations[i]
      BY <3>1, <3>4, <3>5
    <3>8. p = i
      <4>1. expectations[i].kind # "Sync" /\ expectations[p].kind # "Sync"
        BY <3>3, <3>7, KindFacts
      <4>2. ~(p < i) /\ ~(i < p)
        BY <3>1, <3>2, <3>7, <4>1 DEF Distinct
      <4>3. QED
        BY <3>2, <4>2
    <3>9. s \in 1..i
      BY <3>2, <3>6, <3>8
    <3>10. QED
      BY <3>6, <3>9
  <2>6. QED
    <3>1. \A k \in DOMAIN Outstanding : DOMAIN Outstanding = 1..Len(Outstanding)
      BY <2>4 DEF Match
    <3>2. QED
      BY <2>3, <2>5
<1>2. QED
  BY <1>1, PInvariant, PTL

\* Callers with Usage = {}: no claim and no cleanup waits for a server that has nothing to
\* say.
THEOREM PipelineNeverHangs ==
  ASSUME Usage = {}
  PROVE  PSpec => []PipeNeverWaitsForNothing
<1>1. PInv => PipeNeverWaitsForNothing
  <2> SUFFICES ASSUME PInv, Reading
               PROVE  \E i \in DOMAIN todo : skipping => todo[i].kind = "Sync"
    BY DEF PipeNeverWaitsForNothing
  <2>1. /\ todo \in Seq(Unit) /\ Queue # <<>> /\ Head(Queue) = cur
        /\ Match(todo, Queue, aborted) /\ (~aborted => todo # <<>>)
    BY ReadingFacts
  <2>2. (skipping <=> aborted) /\ FutureInv
    BY Waits DEF PInv, Reading, WireInv
  <2>3. CASE ~aborted
    <3>1. 1 \in DOMAIN todo
      BY <2>1, <2>3
    <3>2. QED
      BY <2>2, <2>3, <3>1
  <2>4. CASE aborted
    <3>1. cur.kind = "Sync"
      BY <2>2, <2>4 DEF FutureInv, Reading
    <3>2. ~NoSync(todo)
      BY <2>1, <3>1, MatchSyncAhead
    <3>3. PICK i \in 1..Len(todo) : todo[i].kind \notin Kinds \ {"Sync"}
      BY <3>2 DEF NoSync, Kinded
    <3>4. todo[i].kind \in Kinds
      <4>1. todo[i] \in Unit
        BY <2>1
      <4>2. QED
        BY <4>1 DEF Unit
    <3>5. i \in DOMAIN todo /\ todo[i].kind = "Sync"
      BY <2>1, <3>3, <3>4
    <3>6. QED
      BY <3>5
  <2>5. QED
    BY <2>3, <2>4
<1>2. QED
  BY <1>1, PInvariant, PTL

\* Callers with Usage = {}, so that no statement flushed behind a Sync is left without one:
\* cleanup that comes to its end gives the connection back usable.
THEOREM CleanupGivesBack ==
  ASSUME Usage = {}
  PROVE  PSpec => CleanupReleases
<1>1. PInv /\ [PNext]_pvars => [pc = "drain" /\ pc' = "ready" => Usable']_pvars
  <2> SUFFICES ASSUME PInv, PNext, pc = "drain", pc' = "ready"
               PROVE  Usable'
    OBVIOUS
  <2>1. ~(Next /\ UNCHANGED pipe)
    BY DEF pipe
  <2>2. ~PipeIO
    BY DEF PipeIO, PipeWrite, PipeWriteFails, claim_read, consume_ready_for_query, drain_read,
           claim_error, drain_error, PipeReadFatal, PipeReadFails, CancelFuture, Reading
  <2>3. drain_next
    BY <2>1, <2>2 DEF PNext, PipeQueue, new_inner, exec_queue, flush, sync, claim_with_handler,
                      cleanup_inner, DropHandle, ForgetHandle
  <2>4. /\ expectations = <<>> /\ exchange_in_progress' = FALSE
        /\ UNCHANGED <<is_broken, scope_pending>>
    BY <2>3 DEF drain_next
  <2>5. ~scope_pending /\ ~is_broken
    BY <2>4, Waits DEF PInv, HandleInv, ScopeInv
  <2>6. QED
    BY <2>4, <2>5 DEF Usable
<1>2. QED
  BY <1>1, PInvariant, PTL DEF PSpec, CleanupReleases

-----------------------------------------------------------------------------
(***************************************************************************)
(* The connection with its pipelines implements Session.  A handle taken   *)
(* on a usable connection is a call that begins; while it lives its steps  *)
(* are that call's work; when it is gone the connection is ready and       *)
(* settled, or unusable for good.  That a handle which drops leaves a      *)
(* usable connection settled is WireInv, ScopeInv and FutureInv.           *)
(***************************************************************************)

\* A closed connection is dead.
ClosedInv == at = "closed" => ~alive

LEMMA ClosedStays ==
  ASSUME PInv, ClosedInv, [PNext]_pvars
  PROVE  ClosedInv'
<1>1. CASE UNCHANGED pvars
  BY <1>1 DEF ClosedInv, pvars, vars, backend, call
<1>2. CASE Next
  <2>1. CASE Environment
    BY <2>1 DEF ClosedInv, Environment, ServerDiscard, PeerDies, call
  <2>2. QED
    BY <1>2, <2>1, StepKinds DEF ClosedInv, Waiting
<1>3. CASE PipeQueue
  <2>1. at' # "closed"
    <3>1. CASE at = "pipe" /\ pc' # "none"
      BY <1>3, <3>1, QueueNext DEF PInv
    <3>2. ASSUME NEW r \in Requests, new_inner(r)
          PROVE  at' # "closed"
      BY <3>2 DEF new_inner
    <3>3. ASSUME NEW b, Drop(b)
          PROVE  at' # "closed"
      BY <3>3 DEF Drop
    <3>4. QED
      BY <1>3, <3>1, <3>2, <3>3, QueueSplit DEF PInv
  <2>2. QED
    BY <2>1 DEF ClosedInv
<1>4. CASE PipeIO
  BY <1>4, IONext DEF PInv, HandleInv, ClosedInv
<1>5. QED
  BY <1>1, <1>2, <1>3, <1>4 DEF PNext

\* A handle that is gone and left the connection usable left it settled.
LEMMA GoneSettled ==
  ASSUME PInv', pc' = "none", Usable', at' = "idle"
  PROVE  Drained' /\ (at_sync' => transaction_status' = server_tx')
BY DEF PInv, IInv, ReadyInv, StatusInv, MayCall

\* A step of the connection itself is a step of Session, as without pipelines.
LEMMA PlainStep ==
  ASSUME PInv, PInv', ClosedInv, Next, UNCHANGED pipe
  PROVE  [Promise!SessionNext]_(Promise!session)
<1>1. IInv /\ IInv' /\ at \in {"idle", "closed", "pipe"} \cup Waiting
  BY DEF PInv, IInv, TypeOK, Waiting
<1>2. CASE at = "idle"
  <2>1. ~Usable => ~Usable' /\ at' = "idle"
    <3> SUFFICES ASSUME ~Usable
                 PROVE  ~Usable' /\ at' = "idle"
      OBVIOUS
    <3>1. Environment
      BY <1>2, StepKinds DEF Waiting
    <3>2. UNCHANGED <<at, is_broken, exchange_in_progress, scope_pending>>
      BY <3>1 DEF Environment, flags, call
    <3>3. QED
      BY <1>2, <3>2 DEF Usable
  <2>2. QED
    BY <1>1, <1>2, <2>1, IdleStep DEF PlainInv
<1>3. CASE at = "closed"
  <2>1. PlainInv
    BY <1>3 DEF PlainInv, ClosedInv
  <2>2. QED
    BY <1>3, <2>1, ClosedStep
<1>4. CASE at \in Waiting
  BY <1>1, <1>4, BusyStep
<1>5. CASE at = "pipe"
  <2>1. Environment
    BY <1>5, StepKinds DEF Waiting
  <2>2. UNCHANGED <<at, is_broken>>
    BY <2>1 DEF Environment, flags, call
  <2>3. Phase \in {"busy", "unusable"} /\ Phase' = Phase
    BY <1>5, <2>2 DEF Phase
  <2>4. QED
    BY <2>3 DEF Promise!SessionNext, Promise!Work, Promise!Decay
<1>6. QED
  BY <1>1, <1>2, <1>3, <1>4, <1>5

\* The handle comes, works or goes.
LEMMA QueueStep ==
  ASSUME PInv, PInv', PipeQueue
  PROVE  [Promise!SessionNext]_(Promise!session)
<1>1. ASSUME NEW r \in Requests, new_inner(r)
      PROVE  [Promise!SessionNext]_(Promise!session)
  <2>1. CASE Usable
    <3>1. Phase = "ready" /\ Phase' = "busy"
      BY <1>1, <2>1 DEF Phase, new_inner, Condemn, ensure_usable, Usable
    <3>2. QED
      BY <3>1 DEF Promise!SessionNext, Promise!Accept
  <2>2. CASE ~Usable
    <3>1. Phase = "unusable" /\ Phase' = "unusable"
      BY <1>1, <2>2 DEF Phase, new_inner, Condemn, ensure_usable
    <3>2. QED
      BY <3>1 DEF Promise!SessionNext, Promise!Decay
  <2>3. QED
    BY <2>1, <2>2
<1>2. ASSUME NEW b, pc = "ready", Drop(b)
      PROVE  [Promise!SessionNext]_(Promise!session)
  <2>1. at = "pipe" /\ at' = "idle" /\ pc' = "none"
    BY <1>2 DEF PInv, HandleInv, Drop
  <2>2. CASE is_broken
    <3>1. is_broken'
      BY <1>2, <2>2 DEF Drop
    <3>2. Phase = "unusable" /\ Phase' = "unusable"
      BY <2>1, <2>2, <3>1 DEF Phase, Usable
    <3>3. QED
      BY <3>2 DEF Promise!SessionNext, Promise!Decay
  <2>3. CASE ~is_broken /\ Usable'
    <3>1. Phase = "busy" /\ Phase' = "ready"
      BY <2>1, <2>3 DEF Phase
    <3>2. Drained' /\ (at_sync' => transaction_status' = server_tx')
      BY <2>1, <2>3, GoneSettled
    <3>3. Drained' = TRUE /\ (at_sync => transaction_status = server_tx)' = TRUE
      BY <3>2 DEF Drained
    <3>4. QED
      BY <3>1, <3>3 DEF Promise!SessionNext, Promise!Release, Promise!Settled
  <2>4. CASE ~is_broken /\ ~Usable'
    <3>1. Phase = "busy" /\ Phase' = "unusable"
      BY <2>1, <2>4 DEF Phase
    <3>2. QED
      BY <3>1 DEF Promise!SessionNext, Promise!Condemn
  <2>5. QED
    BY <2>2, <2>3, <2>4
<1>3. ASSUME at = "pipe", pc' # "none"
      PROVE  [Promise!SessionNext]_(Promise!session)
  <2>1. at' = "pipe" /\ is_broken' = is_broken
    BY <1>3, QueueNext DEF PInv
  <2>2. Phase \in {"busy", "unusable"} /\ Phase' = Phase
    BY <1>3, <2>1 DEF Phase
  <2>3. QED
    BY <2>2 DEF Promise!SessionNext, Promise!Work, Promise!Decay
<1>4. QED
  BY <1>1, <1>2, <1>3, QueueSplit DEF PInv

\* A future of the handle goes on, ends or condemns the connection.
LEMMA IOStep ==
  ASSUME PInv, PipeIO
  PROVE  [Promise!SessionNext]_(Promise!session)
<1>1. pc \notin {"none", "ready"} /\ UNCHANGED at
  BY IONext DEF PInv
<1>2. at = "pipe" /\ at' = "pipe" /\ ~is_broken
  BY <1>1 DEF PInv, HandleInv
<1>3. Phase = "busy" /\ Phase' \in {"busy", "unusable"}
  BY <1>2 DEF Phase
<1>4. QED
  BY <1>3 DEF Promise!SessionNext, Promise!Work, Promise!Condemn

(***************************************************************************)
(* The connection keeps its promise with pipelines too, for callers with   *)
(* Usage = {}: whatever claims, cleanups and dropped futures and handles   *)
(* do, its holder finds it settled and ready for the next call, or         *)
(* unusable for good.                                                      *)
(***************************************************************************)
THEOREM PipelineImplementsSession ==
  ASSUME Usage = {}
  PROVE  PSpec => ImplementsSession
<1>1. PInit => Promise!SessionInit /\ ClosedInv
  BY SessionInitially DEF PInit, Init, ConnInit, ClosedInv
<1>2. PInv /\ ClosedInv /\ [PNext]_pvars => ClosedInv'
  BY ClosedStays
<1>3. PInv /\ PInv' /\ ClosedInv /\ [PNext]_pvars => [Promise!SessionNext]_(Promise!session)
  <2> SUFFICES ASSUME PInv, PInv', ClosedInv, [PNext]_pvars
               PROVE  [Promise!SessionNext]_(Promise!session)
    OBVIOUS
  <2>1. CASE UNCHANGED pvars
    <3>1. UNCHANGED <<todo, skipping, framing, at_sync, server_tx, transaction_status, at,
                      is_broken, exchange_in_progress, scope_pending>>
      BY <2>1 DEF pvars, vars, backend, flags, call
    <3>2. Phase' = Phase /\ Drained' = Drained
      BY <3>1 DEF Phase, Usable, Drained
    <3>3. QED
      BY <3>1, <3>2 DEF Promise!session
  <2>2. CASE PNext
    BY <2>2, PlainStep, QueueStep, IOStep DEF PNext
  <2>3. QED
    BY <2>1, <2>2
<1>4. QED
  BY <1>1, <1>2, <1>3, PInvariant, PTL DEF PSpec, ImplementsSession, Promise!SessionSpec
=============================================================================
