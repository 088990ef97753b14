-------------------------- MODULE CompioConnProofs --------------------------
(***************************************************************************)
(* Proofs about module CompioConn, for every set of call identities and    *)
(* every batch and chunk bound.                                            *)
(***************************************************************************)
EXTENDS CompioConn, ExchangeProofs

Results == {"Ok", "Dropped"} \cup Errors

Ops == ReadOps \cup {"none", "lowlevel_flush", "portal"}

\* Nothing is owed in either direction, and the runtime holds no buffer.
Quiet == Drained /\ lent = <<>> /\ ~stray_read

\* A holder may make a call: the application, or the closure of exec_portal.
MayCall == Usable \/ (at = "portal" /\ ensure_exchange_ready)

\* What the call in progress wrote, the units in the runtime's hands included.
Wire == todo \o lent

\* The next exchange begins with nothing left of an earlier one.
ReadyInv == MayCall => Quiet

\* While the runtime writes for a call, nobody else's operation is pending.
WriteInv ==
  at = "write" =>
    /\ exchange_in_progress /\ framing = "whole" /\ ~skipping /\ ~stray_read /\ ~failed
    /\ op \in ReadOps => Shape(op, Wire) /\ TaggedBy(Wire, req)
    /\ op \notin ReadOps => op = "lowlevel_flush" /\ todo = <<>> /\ lent = <<>>

\* A call reads what is left of its own request, which the runtime has written in
\* full; only a call that ends with a Sync survives an error of the server.
ReadInv ==
  at = "read" =>
    /\ exchange_in_progress /\ framing = "whole" /\ lent = <<>> /\ ~stray_read
    /\ op \in ReadOps /\ Shape(op, todo) /\ TaggedBy(todo, req)
    /\ skipping => op \in ReadyOps \ {"query"}
    /\ failed => pending_error /\ op \in ReadyOps

\* A server error inside exec_portal leaves its exchange open.
PortalInv == at = "portal" /\ failed => exchange_in_progress

\* Between exchanges that ended at ReadyForQuery the status is the server's.
StatusInv == at_sync /\ (MayCall \/ at = "write") => transaction_status = server_tx

\* Only a usable connection is closed, and the server is gone with it.
ClosedInv == at = "closed" => Usable /\ ~alive

\* All of the invariant but its types and StageFits.
CallInv ==
  /\ ReadyInv /\ WriteInv /\ ReadInv /\ PortalInv /\ StatusInv /\ ClosedInv
  /\ OkMeansNoServerError

\* The inductive invariant.  That a ready connection is settled is not inductive: it
\* needs the shape of what was lent to the runtime, and that a write or a read which
\* lost its future leaves the exchange open for good.
IInv == CompioTypeOK /\ StageFits /\ CallInv

-----------------------------------------------------------------------------
\* Types.

\* The part of CompioTypeOK about the call in progress, the flags and the runtime.
CallTypeOK ==
  /\ is_broken \in BOOLEAN /\ exchange_in_progress \in BOOLEAN /\ scope_pending \in BOOLEAN
  /\ lent \in Seq(Unit) /\ stray_read \in BOOLEAN
  /\ at \in {"idle", "write", "read", "portal", "closed"}
  /\ op \in Ops /\ req \in Requests
  /\ state \in MachineStates /\ pending_error \in BOOLEAN
  /\ chunks \in 0..(MaxChunks - 1) /\ carry \in {"Ok"} \cup Errors
  /\ result \in Results

\* CompioTypeOK with its parts.
LEMMA TypeSplit ==
  CompioTypeOK <=> /\ BackendTypeOK /\ CallTypeOK
                   /\ transaction_status \in TxStatus /\ failed \in BOOLEAN
  BY DEF CompioTypeOK, CallTypeOK, Ops, Results

\* Every call drives a machine of ReadOps or only flushes.
CallOps == (ReadOps \ {"portal_exec", "portal_sync"}) \cup {"lowlevel_flush"}

\* The public entry points in one formula.
LEMMA CallFacts ==
  ASSUME NEW r \in Requests, Call(r)
  PROVE  \E o \in CallOps, n \in Nat \ {0}, more \in 0..(MaxChunks - 1), scope \in BOOLEAN :
            Start(o, r, n, more, scope)
<1>1. 1 \in Nat \ {0} /\ 0 \in 0..(MaxChunks - 1) /\ 1..MaxBatch \subseteq Nat \ {0}
  BY BatchAssumption
<1>2. {"query", "prepare", "exec_sql", "exec_prepared", "close_statement", "named_portal_sql",
       "named_portal_prepared", "lowlevel_bind", "lowlevel_execute", "lowlevel_close_portal",
       "lowlevel_flush", "lowlevel_sync", "prepare_batch", "portal_bind_sql",
       "portal_bind_prepared"} \cup BatchOps \subseteq CallOps
  BY DEF CallOps, ReadOps, BindOps, DriveOps, BatchOps, ExecuteOps, SyncOps
<1>3. CASE prepare_batch(r)
  BY <1>1, <1>2, <1>3 DEF prepare_batch
<1>4. CASE exec_batch(r)
  BY <1>1, <1>2, <1>4 DEF exec_batch
<1>5. CASE exec_portal(r)
  BY <1>1, <1>2, <1>5 DEF exec_portal
<1>6. ASSUME NEW o \in CallOps, Plain(o, r)
      PROVE  \E n \in Nat \ {0}, more \in 0..(MaxChunks - 1), scope \in BOOLEAN :
                Start(o, r, n, more, scope)
  BY <1>1, <1>6 DEF Plain
<1>7. CASE ~(prepare_batch(r) \/ exec_batch(r) \/ exec_portal(r))
  <2>1. \E o \in CallOps : Plain(o, r)
    BY <1>2, <1>7
       DEF Call, query, prepare, exec, close_statement, create_named_portal, bind_inner,
           execute_portal_inner, close_portal_inner, lowlevel_flush, sync_inner
  <2>2. QED
    BY <1>6, <2>1
<1>8. QED
  BY <1>3, <1>4, <1>5, <1>7

\* What a call encodes is a sequence of units, empty for lowlevel_flush.
LEMMA RequestType ==
  ASSUME NEW o \in Ops, NEW r \in Requests, NEW n \in Nat \ {0}
  PROVE  Request(o, r, n) \in Seq(Unit)
<1>1. CASE o \in ReadOps
  BY <1>1, RequestFacts
<1>2. CASE o \notin ReadOps
  <2>1. o \in {"none", "lowlevel_flush", "portal"}
    BY <1>2 DEF Ops
  <2>2. Request(o, r, n) = <<>>
    BY <2>1 DEF Request, ExecuteOps, SyncOps
  <2>3. QED
    BY <2>2
<1>3. QED
  BY <1>1, <1>2

\* A call that has begun is well typed.
LEMMA BeginType ==
  ASSUME CallTypeOK, NEW o \in Ops, NEW r \in Requests, NEW n \in Nat \ {0},
         Begin(o, r, n), is_broken' = is_broken, scope_pending' \in BOOLEAN,
         chunks' \in 0..(MaxChunks - 1), carry' \in {"Ok"} \cup Errors, result' = result
  PROVE  CallTypeOK'
  BY RequestType, InitialStateType DEF CallTypeOK, Begin, begin_exchange, write_all_owned

\* Ending an exchange keeps the connection's types.
LEMMA EndedType ==
  ASSUME CallTypeOK, NEW e \in Results, Ended(e), exchange_in_progress' \in BOOLEAN,
         lent' \in Seq(Unit), stray_read' \in BOOLEAN
  PROVE  CallTypeOK'
<1>1. 0 \in 0..(MaxChunks - 1)
  BY BatchAssumption
<1>2. "none" \in MachineStates /\ "none" \in Ops /\ "portal" \in Ops
  BY DEF MachineStates, Ops
<1>3. ASSUME NEW x \in Results, NEW f \in BOOLEAN, Return(x, f), scope_pending' \in BOOLEAN
      PROVE  CallTypeOK'
  BY <1>1, <1>2, <1>3 DEF Return, CallOver, CallTypeOK
<1>4. ASSUME IntoClosure
      PROVE  CallTypeOK'
  BY <1>1, <1>2, <1>4 DEF IntoClosure, CallTypeOK
<1>5. CASE ReleaseScope(e)
  <2>1. /\ scope_pending' = (is_broken \/ e = "Fatal" \/ exchange_in_progress')
        /\ Return(IF carry = "Ok" THEN e ELSE carry, e = "Fatal")
    BY <1>5 DEF ReleaseScope
  <2>2. (IF carry = "Ok" THEN e ELSE carry) \in Results
    BY DEF CallTypeOK, Results
  <2>3. scope_pending' \in BOOLEAN /\ (e = "Fatal") \in BOOLEAN
    BY <2>1 DEF CallTypeOK
  <2>4. QED
    BY <1>3, <2>1, <2>2, <2>3
<1>6. CASE UNCHANGED scope_pending /\ Return(e, FALSE)
  <2>1. scope_pending' \in BOOLEAN
    BY <1>6 DEF CallTypeOK
  <2>2. QED
    BY <1>3, <1>6, <2>1
<1>7. QED
  BY <1>4, <1>5, <1>6 DEF Ended

\* A failing call, and one that ends its exchange, keep the types.
LEMMA FailType ==
  ASSUME CallTypeOK, NEW e \in Results, Fail(e) \/ finish_exchange(e),
         lent' \in Seq(Unit), stray_read' \in BOOLEAN
  PROVE  CallTypeOK'
<1>1. exchange_in_progress' \in BOOLEAN /\ Ended(e)
  BY DEF Fail, finish_exchange, CallTypeOK
<1>2. QED
  BY <1>1, EndedType

\* The end of a state machine, or its next chunk, keeps the types.
LEMMA TerminalType ==
  ASSUME CallTypeOK, transaction_status \in TxStatus, server_tx \in TxStatus, Terminal,
         UNCHANGED stray_read
  PROVE  CallTypeOK' /\ transaction_status' \in TxStatus
<1>1. transaction_status' \in TxStatus
  BY DEF Terminal, TakeStatus
<1>2. stray_read' \in BOOLEAN /\ lent \in Seq(Unit)
  BY DEF CallTypeOK
<1>3. CASE MoreChunks
  <2>1. NextChunk
    BY <1>3 DEF Terminal
  <2>2. CASE finish_exchange("Decode") /\ UNCHANGED lent
    BY <1>1, <1>2, <2>2, FailType DEF Results, Errors
  <2>3. CASE ~(finish_exchange("Decode") /\ UNCHANGED lent)
    <3>1. PICK n \in 1..MaxBatch : lent' = Request(op, req, n) /\ at' = "write"
      BY <2>1, <2>3 DEF NextChunk, write_all_owned
    <3>2. lent' \in Seq(Unit)
      BY <3>1, RequestType, BatchAssumption DEF CallTypeOK
    <3>3. chunks - 1 \in 0..(MaxChunks - 1)
      BY <1>3, BatchAssumption DEF CallTypeOK, MoreChunks
    <3>4. QED
      BY <1>1, <1>2, <2>1, <2>3, <3>1, <3>2, <3>3, InitialStateType DEF NextChunk, CallTypeOK
  <2>4. QED
    BY <2>2, <2>3
<1>4. CASE ~MoreChunks
  <2> DEFINE e == IF pending_error THEN "Server" ELSE "Ok"
  <2>1. finish_exchange(e) /\ UNCHANGED lent
    BY <1>4 DEF Terminal
  <2>2. e \in Results
    BY DEF Results, Errors
  <2> HIDE DEF e
  <2>3. QED
    BY <1>1, <1>2, <2>1, <2>2, FailType
<1>5. QED
  BY <1>3, <1>4

\* A machine that keeps an error stays within its states.
LEMMA KeepErrorType ==
  ASSUME CallTypeOK, KeepError, MachineError(op) # "Err", UNCHANGED runtime
  PROVE  CallTypeOK'
<1>1. MachineError(op) \in MachineStates
  BY DEF MachineError, MachineStates
<1>2. QED
  BY <1>1 DEF KeepError, CallTypeOK, flags, runtime

\* Reading one message keeps the types.
LEMMA ReadMessageType ==
  ASSUME CompioTypeOK, NEW m, ReadMessage(m)
  PROVE  CompioTypeOK'
<1>1. BackendTypeOK'
  BY ReplyType DEF CompioTypeOK, ReadMessage
<1>2. /\ CallTypeOK /\ transaction_status \in TxStatus /\ server_tx \in TxStatus
      /\ lent \in Seq(Unit) /\ stray_read \in BOOLEAN
  BY TypeSplit DEF CompioTypeOK, BackendTypeOK
<1>3. failed' \in BOOLEAN /\ stray_read' = stray_read
  BY DEF ReadMessage, CompioTypeOK
<1>4. CallTypeOK' /\ transaction_status' \in TxStatus
  <2> DEFINE x == MachineStep(op, state, m)
  <2>0. "LibraryBug" \in Results /\ "Decode" \in Results
    BY DEF Results, Errors
  <2>1. CASE Fail("LibraryBug") /\ UNCHANGED <<lent, transaction_status>>
    BY <1>2, <1>3, <2>0, <2>1, FailType
  <2>2. CASE Fail("Decode") /\ UNCHANGED <<lent, transaction_status>>
    BY <1>2, <1>3, <2>0, <2>2, FailType
  <2>3. CASE x = "Finished" /\ Terminal
    BY <1>2, <1>3, <2>3, TerminalType
  <2>4. CASE x \notin {"Finished", "LibraryBug"} /\ Stepped(x)
    <3>1. x \in MachineStates
      BY <1>2, <2>4, MachineType DEF CallTypeOK
    <3>2. QED
      BY <1>2, <1>3, <2>4, <3>1 DEF CallTypeOK, flags, Stepped
  <2>5. QED
    BY <2>1, <2>2, <2>3, <2>4 DEF ReadMessage
<1>5. QED
  BY <1>1, <1>3, <1>4 DEF CompioTypeOK, CallTypeOK, Ops, Results

\* A new connection is well typed.
LEMMA InitType == Init => CompioTypeOK
<1>1. 0 \in 0..(MaxChunks - 1)
  BY BatchAssumption
<1>2. <<>> \in Seq(Unit)
  OBVIOUS
<1>3. QED
  BY <1>1, <1>2 DEF Init, BackendInit, CompioTypeOK, BackendTypeOK, Stages, TxStatus,
                    MachineStates

\* Every step keeps the types: one step per action.
LEMMA NextType == CompioTypeOK /\ [Next]_vars => CompioTypeOK'
<1> SUFFICES ASSUME CompioTypeOK, [Next]_vars
             PROVE  CompioTypeOK'
  OBVIOUS
<1>0. /\ BackendTypeOK /\ CallTypeOK /\ transaction_status \in TxStatus
      /\ failed \in BOOLEAN /\ lent \in Seq(Unit) /\ stray_read \in BOOLEAN
  BY TypeSplit DEF CompioTypeOK
<1>00. {"Ok", "Io", "Server", "Fatal", "ConnectionBroken", "Dropped"} \subseteq Results
  BY DEF Results, Errors
<1>c. ASSUME BackendTypeOK', CallTypeOK', transaction_status' \in TxStatus,
             failed' \in BOOLEAN
      PROVE  CompioTypeOK'
  BY <1>c DEF CompioTypeOK, CallTypeOK, Ops, Results
<1>b. ASSUME UNCHANGED backend
      PROVE  BackendTypeOK'
  BY <1>0, <1>b DEF backend, BackendTypeOK
<1>f. ASSUME UNCHANGED <<todo, stage, skipping, server_tx, at_sync, alive>>,
             framing' \in {framing, "torn"}
      PROVE  BackendTypeOK'
  BY <1>0, <1>f DEF BackendTypeOK
<1>k. ASSUME UNCHANGED <<flags, transaction_status, at, machine, failed, result>>,
             lent' \in Seq(Unit), stray_read' \in BOOLEAN, BackendTypeOK'
      PROVE  CompioTypeOK'
  <2>1. CallTypeOK'
    BY <1>0, <1>k DEF CallTypeOK, flags, machine
  <2>2. QED
    BY <1>0, <1>c, <1>k, <2>1
<1>1. ASSUME NEW r \in Requests, Call(r)
      PROVE  CompioTypeOK'
  <2>1. PICK o \in CallOps, n \in Nat \ {0}, more \in 0..(MaxChunks - 1), scope \in BOOLEAN :
            Start(o, r, n, more, scope)
    BY <1>1, CallFacts
  <2>2. o \in Ops
    BY DEF CallOps, Ops
  <2>3. /\ Begin(o, r, n) /\ is_broken' = is_broken /\ result' = result
        /\ chunks' \in 0..(MaxChunks - 1) /\ carry' \in {"Ok"} \cup Errors
        /\ scope_pending' \in BOOLEAN
    BY <2>1 DEF Start
  <2>4. CallTypeOK'
    BY <1>0, <2>2, <2>3, BeginType
  <2>5. UNCHANGED <<backend, transaction_status>> /\ failed' = FALSE
    BY <2>1 DEF Start
  <2>6. QED
    BY <1>0, <1>b, <1>c, <2>4, <2>5
<1>2. CASE WriteDone
  <2>1. CallTypeOK'
    <3>0. lent' \in Seq(Unit) /\ stray_read' \in BOOLEAN
      BY <1>0, <1>2 DEF WriteDone, runtime
    <3>1. CASE finish_exchange("Ok")
      BY <1>0, <1>00, <3>0, <3>1, FailType
    <3>2. CASE ~finish_exchange("Ok")
      BY <1>0, <1>2, <3>0, <3>2 DEF WriteDone, CallTypeOK, flags, machine
    <3>3. QED
      BY <3>1, <3>2
  <2>2. QED
    BY <1>0, <1>2, <1>b, <1>c, <2>1 DEF WriteDone
<1>3. CASE WriteFails
  <2>1. CallTypeOK'
    BY <1>0, <1>00, <1>3, FailType DEF WriteFails
  <2>2. QED
    BY <1>0, <1>3, <1>c, <1>f, <2>1 DEF WriteFails
<1>4. ASSUME NEW m \in Messages, ReadMessage(m)
      PROVE  CompioTypeOK'
  BY <1>4, ReadMessageType
<1>5. ASSUME NEW e \in {"Server", "Fatal"}, ReadError(e)
      PROVE  CompioTypeOK'
  <2>1. BackendTypeOK'
    <3>1. CASE ReplyError
      BY <1>0, <3>1, ReplyErrorType
    <3>2. CASE ReplyFatal
      BY <1>0, <3>2 DEF ReplyFatal, BackendTypeOK
    <3>3. QED
      BY <1>5, <3>1, <3>2 DEF ReadError
  <2>2. CallTypeOK'
    <3>1. UNCHANGED runtime /\ e \in Results
      BY <1>00, <1>5 DEF ReadError
    <3>2. CASE Fail(e)
      BY <1>0, <3>1, <3>2, FailType DEF runtime
    <3>3. CASE ~Fail(e)
      BY <1>0, <1>5, <3>1, <3>3, KeepErrorType DEF ReadError
    <3>4. QED
      BY <3>2, <3>3
  <2>3. QED
    BY <1>0, <1>5, <1>c, <2>1, <2>2 DEF ReadError
<1>6. CASE ReadAsync
  <2>1. BackendTypeOK'
    BY <1>b, <1>6 DEF ReadAsync, ReplyAsync
  <2>2. CallTypeOK'
    BY <1>0, <1>6 DEF ReadAsync, Stepped, MachineAsync, flags, CallTypeOK
  <2>3. QED
    BY <1>0, <1>6, <1>c, <2>1, <2>2 DEF ReadAsync, Stepped
<1>7. CASE ReadFails
  <2>1. CallTypeOK'
    BY <1>0, <1>00, <1>7, FailType DEF ReadFails, runtime
  <2>2. QED
    BY <1>0, <1>7, <1>b, <1>c, <2>1 DEF ReadFails
<1>8. CASE portal_exec
  <2>1. "portal_exec" \in Ops /\ 1 \in Nat \ {0}
    BY DEF Ops, ReadOps, ExecuteOps
  <2>2. /\ Begin("portal_exec", req, 1)
        /\ UNCHANGED <<is_broken, scope_pending, chunks, carry, result>>
    BY <1>8 DEF portal_exec
  <2>3. /\ req \in Requests /\ scope_pending' \in BOOLEAN
        /\ chunks' \in 0..(MaxChunks - 1) /\ carry' \in {"Ok"} \cup Errors
    BY <1>0, <2>2 DEF CallTypeOK
  <2>4. CallTypeOK'
    BY <1>0, <2>1, <2>2, <2>3, BeginType
  <2>5. QED
    BY <1>0, <1>8, <1>b, <1>c, <2>4 DEF portal_exec
<1>9. ASSUME NEW c \in {"Ok"} \cup Errors, portal_return(c)
      PROVE  CompioTypeOK'
  <2>1. CASE Begin("portal_sync", req, 1)
    <3>1. "portal_sync" \in Ops /\ 1 \in Nat \ {0}
      BY DEF Ops, ReadOps, SyncOps
    <3>2. carry' = c /\ UNCHANGED <<is_broken, scope_pending, chunks, result>>
      BY <1>9, <2>1 DEF portal_return, Begin, begin_exchange
    <3>3. /\ req \in Requests /\ scope_pending' \in BOOLEAN
          /\ chunks' \in 0..(MaxChunks - 1) /\ carry' \in {"Ok"} \cup Errors
      BY <1>0, <3>2 DEF CallTypeOK
    <3>4. CallTypeOK'
      BY <1>0, <2>1, <3>1, <3>2, <3>3, BeginType
    <3>5. QED
      BY <1>0, <1>9, <1>b, <1>c, <3>4 DEF portal_return
  <2>2. CASE ~Begin("portal_sync", req, 1)
    <3>1. /\ UNCHANGED <<exchange_in_progress, scope_pending, runtime>>
          /\ Return(IF c = "Ok" THEN "ConnectionBroken" ELSE c, FALSE)
      BY <1>9, <2>2 DEF portal_return
    <3>2. (IF c = "Ok" THEN "ConnectionBroken" ELSE c) \in Results
      BY <1>00 DEF Results
    <3>3. 0 \in 0..(MaxChunks - 1) /\ "none" \in MachineStates /\ "none" \in Ops
      BY BatchAssumption DEF MachineStates, Ops
    <3>4. CallTypeOK'
      BY <1>0, <3>1, <3>2, <3>3 DEF Return, CallOver, CallTypeOK, runtime
    <3>5. QED
      BY <1>0, <1>9, <1>b, <1>c, <3>4 DEF portal_return
  <2>3. QED
    BY <2>1, <2>2
<1>10. CASE Abandon
  <2>1. BackendTypeOK' /\ stray_read' \in BOOLEAN
    <3>1. framing' \in {framing, "torn"} /\ stray_read' \in BOOLEAN
      BY <1>0, <1>10 DEF Abandon
    <3>2. QED
      BY <1>10, <1>f, <3>1 DEF Abandon
  <2>2. CallTypeOK'
    <3>1. 0 \in 0..(MaxChunks - 1) /\ "none" \in MachineStates /\ "none" \in Ops
      BY BatchAssumption DEF MachineStates, Ops
    <3>2. QED
      BY <1>0, <1>00, <1>10, <2>1, <3>1 DEF Abandon, CallOver, CallTypeOK, flags
  <2>3. QED
    BY <1>0, <1>10, <1>c, <2>1, <2>2 DEF Abandon
<1>11. CASE close
  <2>1. BackendTypeOK'
    BY <1>0, <1>11 DEF close, BackendTypeOK
  <2>2. CallTypeOK'
    BY <1>0, <1>11 DEF close, CallTypeOK, flags, runtime, machine
  <2>3. QED
    BY <1>0, <1>11, <1>c, <2>1, <2>2 DEF close
<1>12. CASE KernelWrites
  <2>1. <<Head(lent)>> \in Seq(Unit) /\ Tail(lent) \in Seq(Unit)
    BY <1>0, <1>12, TailFacts DEF KernelWrites
  <2>2. BackendTypeOK'
    <3>1. Deliver(<<Head(lent)>>) /\ framing' \in {"whole", "torn"}
      BY <1>0, <1>12 DEF KernelWrites, BackendTypeOK
    <3>2. QED
      BY <1>0, <2>1, <3>1, DeliverType
  <2>3. QED
    BY <1>0, <1>12, <1>k, <2>1, <2>2 DEF KernelWrites
<1>13. CASE KernelSwallows
  <2>1. BackendTypeOK'
    <3>1. ASSUME NEW m, Reply(m)
          PROVE  BackendTypeOK'
      BY <1>0, <3>1, ReplyType
    <3>2. CASE ReplyError
      BY <1>0, <3>2, ReplyErrorType
    <3>3. CASE ReplyFatal
      BY <1>0, <3>3 DEF ReplyFatal, BackendTypeOK
    <3>4. QED
      BY <1>13, <3>1, <3>2, <3>3 DEF KernelSwallows
  <2>2. QED
    BY <1>0, <1>13, <1>k, <2>1 DEF KernelSwallows, runtime
<1>14. CASE KernelCancels
  <2>1. framing' \in {framing, "torn"} /\ lent' \in Seq(Unit) /\ stray_read' \in BOOLEAN
    <3>1. lent' \in {lent, <<>>} /\ stray_read' = FALSE
      BY <1>14 DEF KernelCancels
    <3>2. <<>> \in Seq(Unit)
      OBVIOUS
    <3>3. lent' \in Seq(Unit)
      BY <1>0, <3>1, <3>2
    <3>4. framing' \in {framing, "torn"}
      BY <1>14 DEF KernelCancels
    <3>5. QED
      BY <3>1, <3>3, <3>4
  <2>2. BackendTypeOK'
    BY <1>14, <1>f, <2>1 DEF KernelCancels
  <2>3. QED
    BY <1>14, <1>k, <2>1, <2>2 DEF KernelCancels
<1>15. CASE Skips
  <2>1. BackendTypeOK'
    BY <1>0, <1>15, TailFacts, StageOfType DEF Skips, ServerDiscard, BackendTypeOK
  <2>2. QED
    BY <1>0, <1>15, <1>k, <2>1 DEF Skips, runtime
<1>16. CASE Dies
  <2>1. BackendTypeOK'
    BY <1>0, <1>16 DEF Dies, PeerDies, BackendTypeOK
  <2>2. QED
    BY <1>0, <1>16, <1>k, <2>1 DEF Dies, runtime
<1>17. CASE UNCHANGED vars
  <2>1. BackendTypeOK'
    BY <1>17, <1>b DEF vars
  <2>2. QED
    BY <1>0, <1>17, <1>k, <2>1 DEF vars, runtime
<1>18. QED
  BY <1>1, <1>2, <1>3, <1>4, <1>5, <1>6, <1>7, <1>8, <1>9, <1>10, <1>11, <1>12, <1>13, <1>14,
     <1>15, <1>16, <1>17 DEF Next, Read, Kernel

\* Every variable of the connection keeps its type.
THEOREM CompioTypeCorrect == Spec => []CompioTypeOK
<1>1. QED
  BY InitType, NextType, PTL DEF Spec

-----------------------------------------------------------------------------
\* The inductive invariant, one kind of step at a time.

\* A call that fails in the middle of its exchange leaves the connection in it.
LEMMA FailInv ==
  ASSUME NEW e \in Errors, Fail(e), exchange_in_progress
  PROVE  CallInv'
<1>1. exchange_in_progress' = exchange_in_progress
  BY DEF Fail
<1>2. ~MayCall'
  BY <1>1 DEF MayCall, Usable, ensure_exchange_ready
<1>3. at' = "portal" \/ (at' = "idle" /\ result' # "Ok")
  BY DEF Fail, Ended, IntoClosure, ReleaseScope, Return, CallOver, Errors
<1>4. QED
  BY <1>1, <1>2, <1>3 DEF CallInv, ReadyInv, WriteInv, ReadInv, PortalInv, StatusInv,
                          ClosedInv, OkMeansNoServerError

\* A call begins on a quiet connection.
LEMMA BeginInv ==
  ASSUME CallInv, NEW o \in ReadOps \cup {"lowlevel_flush"}, NEW r \in Requests,
         NEW n \in Nat \ {0}, Begin(o, r, n),
         UNCHANGED <<backend, is_broken, transaction_status>>, ~failed', MayCall
  PROVE  CallInv'
<1>1. Quiet /\ (at_sync => transaction_status = server_tx)
  BY DEF CallInv, ReadyInv, StatusInv
<1>2. /\ exchange_in_progress' /\ at' = "write" /\ op' = o /\ req' = r
      /\ lent' = Request(o, r, n) /\ ~stray_read'
  BY <1>1 DEF Begin, begin_exchange, write_all_owned, Quiet
<1>3. ~MayCall'
  BY <1>2 DEF MayCall, Usable, ensure_exchange_ready
<1>4. todo' = <<>> /\ framing' = "whole" /\ ~skipping'
      /\ (at_sync' => transaction_status' = server_tx')
  BY <1>1 DEF Quiet, Drained, backend
<1>5. WriteInv'
  <2>1. CASE o \in ReadOps
    <3>1. Request(o, r, n) \in Seq(Unit)
      BY <2>1, RequestFacts
    <3>2. Wire' = Request(o, r, n)
      BY <1>2, <1>4, <3>1, FrontFacts DEF Wire
    <3>3. Shape(op', Wire') /\ TaggedBy(Wire', req')
      BY <1>2, <2>1, <3>2, RequestFacts DEF TaggedBy
    <3>4. Shape(op, Wire)' /\ TaggedBy(Wire, req)'
      BY <3>3 DEF Shape, TaggedBy
    <3>5. QED
      BY <1>2, <1>4, <2>1, <3>4 DEF WriteInv
  <2>2. CASE o \notin ReadOps
    <3>1. o = "lowlevel_flush"
      BY <2>2
    <3>2. lent' = <<>>
      BY <1>2, <3>1 DEF Request, ExecuteOps, SyncOps
    <3>3. QED
      BY <1>2, <1>4, <2>2, <3>1, <3>2 DEF WriteInv
  <2>3. QED
    BY <2>1, <2>2
<1>6. QED
  BY <1>2, <1>3, <1>4, <1>5 DEF CallInv, ReadyInv, ReadInv, PortalInv, StatusInv, ClosedInv,
                                OkMeansNoServerError

\* A call that ends after finish_exchange leaves a quiet connection behind it.
LEMMA FinishExchangeInv ==
  ASSUME NEW e \in {"Ok"} \cup Errors, finish_exchange(e), Quiet',
         at_sync' => transaction_status' = server_tx',
         failed' => e # "Ok" /\ op # "portal_exec"
  PROVE  CallInv'
<1>1. CASE at' = "portal"
  <2>1. e = "Ok" \/ op = "portal_exec"
    BY <1>1 DEF finish_exchange, Ended, ReleaseScope, Return, CallOver
  <2>2. QED
    BY <1>1, <2>1 DEF CallInv, ReadyInv, WriteInv, ReadInv, PortalInv, StatusInv, ClosedInv,
                      OkMeansNoServerError
<1>2. CASE at' # "portal"
  <2>1. at' = "idle" /\ (result' = "Ok" => e = "Ok")
    BY <1>2 DEF finish_exchange, Ended, IntoClosure, ReleaseScope, Return, CallOver
  <2>2. QED
    BY <2>1 DEF CallInv, ReadyInv, WriteInv, ReadInv, PortalInv, StatusInv, ClosedInv,
                OkMeansNoServerError
<1>3. QED
  BY <1>1, <1>2

\* The last answer of a call: nothing is left unread behind it.
LEMMA FinishDrains ==
  ASSUME BackendTypeOK, StageFits, ReadInv, at = "read", NEW m, Reply(m),
         MachineStep(op, state, m) = "Finished"
  PROVE  /\ Drained'
         /\ op \in ReadyOps => server_tx' = server_tx
         /\ at_sync' <=> op \in ReadyOps
<1>1. /\ op \in ReadOps /\ Shape(op, todo) /\ framing = "whole"
      /\ skipping => op \in ReadyOps \ {"query"}
  BY DEF ReadInv
<1>2. QED
  BY <1>1, LastAnswer

\* A state machine that finishes leaves a quiet connection, or lends its next chunk.
LEMMA TerminalInv ==
  ASSUME CompioTypeOK, ReadInv, at = "read", Terminal, Drained', UNCHANGED <<failed, stray_read>>,
         op \in ReadyOps => server_tx' = server_tx,
         at_sync' <=> op \in ReadyOps
  PROVE  CallInv'
<1>1. at_sync' => transaction_status' = server_tx'
  BY DEF Terminal, TakeStatus
<1>2. /\ failed => pending_error /\ op \in ReadyOps
      /\ lent = <<>> /\ ~stray_read'
  BY DEF ReadInv
<1>3. "portal_exec" \notin ReadyOps
  BY DEF ReadyOps, DriveOps, BatchOps, SyncOps
<1>4. ASSUME NEW e \in {"Ok"} \cup Errors, finish_exchange(e), UNCHANGED lent,
             failed => e # "Ok" /\ op # "portal_exec"
      PROVE  CallInv'
  <2>1. Quiet'
    BY <1>2, <1>4 DEF Quiet
  <2>2. QED
    BY <1>1, <1>4, <2>1, FinishExchangeInv
<1>5. CASE MoreChunks
  <2>1. NextChunk /\ ~failed'
    BY <1>2, <1>5 DEF Terminal, MoreChunks
  <2>2. CASE finish_exchange("Decode") /\ UNCHANGED lent
    <3>1. "Decode" \in {"Ok"} \cup Errors
      BY DEF Errors
    <3>2. QED
      BY <1>4, <2>1, <2>2, <3>1
  <2>3. CASE ~(finish_exchange("Decode") /\ UNCHANGED lent)
    <3>1. PICK n \in 1..MaxBatch : lent' = Request(op, req, n) /\ at' = "write"
      BY <2>1, <2>3 DEF NextChunk, write_all_owned
    <3>2. exchange_in_progress' /\ op' = op /\ req' = req
      BY <2>1, <2>3 DEF NextChunk
    <3>3. op \in ReadOps /\ req \in Requests /\ n \in Nat \ {0}
      BY <1>5, BatchAssumption DEF MoreChunks, ReadOps, CompioTypeOK
    <3>4. todo' = <<>> /\ framing' = "whole" /\ ~skipping'
      BY DEF Drained
    <3>5. Wire' = Request(op, req, n)
      BY <3>1, <3>3, <3>4, RequestFacts, FrontFacts DEF Wire
    <3>6. Shape(op', Wire') /\ TaggedBy(Wire', req')
      BY <3>2, <3>3, <3>5, RequestFacts DEF TaggedBy
    <3>7. Shape(op, Wire)' /\ TaggedBy(Wire, req)'
      BY <3>6 DEF Shape, TaggedBy
    <3>8. WriteInv'
      BY <1>2, <2>1, <3>1, <3>2, <3>3, <3>4, <3>7 DEF WriteInv
    <3>9. ~MayCall'
      BY <3>1, <3>2 DEF MayCall, Usable, ensure_exchange_ready
    <3>10. QED
      BY <1>1, <3>1, <3>8, <3>9 DEF CallInv, ReadyInv, ReadInv, PortalInv, StatusInv,
                                    ClosedInv, OkMeansNoServerError
  <2>4. QED
    BY <2>2, <2>3
<1>6. CASE ~MoreChunks
  <2> DEFINE e == IF pending_error THEN "Server" ELSE "Ok"
  <2>1. finish_exchange(e) /\ UNCHANGED lent
    BY <1>6 DEF Terminal
  <2>2. e \in {"Ok"} \cup Errors
    BY DEF Errors
  <2>3. failed => e # "Ok" /\ op # "portal_exec"
    BY <1>2, <1>3
  <2> HIDE DEF e
  <2>4. QED
    BY <1>4, <2>1, <2>2, <2>3
<1>7. QED
  BY <1>5, <1>6

\* Reading one message preserves the invariant, whatever the machine makes of it.
LEMMA ReadMessageInv ==
  ASSUME IInv, NEW m, ReadMessage(m)
  PROVE  StageFits' /\ CallInv'
<1>1. at = "read" /\ Reply(m) /\ UNCHANGED <<failed, stray_read>>
  BY DEF ReadMessage
<1>2. BackendTypeOK /\ StageFits /\ ReadInv /\ CompioTypeOK
  BY DEF IInv, CallInv, CompioTypeOK
<1>3. StageFits'
  BY <1>1, <1>2, ReplyFacts
<1>4. exchange_in_progress /\ framing = "whole" /\ op \in ReadOps
  BY <1>1, <1>2 DEF ReadInv
<1>5. "LibraryBug" \in Errors /\ "Decode" \in Errors
  BY DEF Errors
<1> DEFINE x == MachineStep(op, state, m)
<1>6. CASE Fail("LibraryBug") \/ Fail("Decode")
  BY <1>3, <1>4, <1>5, <1>6, FailInv
<1>7. CASE x = "Finished" /\ Terminal
  <2>1. /\ Drained' /\ (op \in ReadyOps => server_tx' = server_tx)
        /\ at_sync' <=> op \in ReadyOps
    BY <1>1, <1>2, <1>7, FinishDrains
  <2>2. QED
    BY <1>1, <1>2, <1>3, <1>7, <2>1, TerminalInv
<1>8. CASE x \notin {"Finished", "LibraryBug"} /\ Stepped(x)
  <2>0. UNCHANGED <<flags, lent, at, op, req, pending_error, result>>
    BY <1>8 DEF Stepped
  <2>1. Shape(op, todo') /\ TaggedBy(todo', req)
    BY <1>1, <1>2, <1>8, NotLastAnswer DEF ReadInv
  <2>2. Shape(op, todo)' /\ TaggedBy(todo, req)'
    BY <2>0, <2>1 DEF Shape, TaggedBy
  <2>3. /\ framing' = framing /\ (skipping' => skipping)
        /\ exchange_in_progress' = exchange_in_progress
    BY <1>1, <2>0 DEF Reply, flags
  <2>4. ReadInv' /\ at' = "read"
    BY <1>1, <1>2, <2>0, <2>2, <2>3 DEF ReadInv
  <2>5. ~MayCall'
    BY <1>4, <2>3 DEF MayCall, Usable, ensure_exchange_ready
  <2>6. QED
    BY <1>3, <2>4, <2>5 DEF CallInv, ReadyInv, WriteInv, PortalInv, StatusInv, ClosedInv,
                            OkMeansNoServerError
<1>9. QED
  BY <1>6, <1>7, <1>8 DEF ReadMessage

\* A call that keeps an error reads on to ReadyForQuery.
LEMMA KeepErrorInv ==
  ASSUME ReadInv, at = "read", KeepError, op \in ReadyOps, UNCHANGED runtime,
         Shape(op, todo'), TaggedBy(todo', req), framing' = framing,
         skipping' => op \in ReadyOps \ {"query"}
  PROVE  CallInv'
<1>1. /\ exchange_in_progress' = exchange_in_progress /\ exchange_in_progress
      /\ at' = "read" /\ op' = op /\ req' = req /\ pending_error'
      /\ framing = "whole" /\ op \in ReadOps /\ lent' = <<>> /\ ~stray_read'
  BY DEF KeepError, flags, ReadInv, runtime
<1>2. Shape(op, todo)' /\ TaggedBy(todo, req)'
  BY <1>1 DEF Shape, TaggedBy
<1>3. ReadInv' /\ ~MayCall'
  BY <1>1, <1>2 DEF ReadInv, MayCall, Usable, ensure_exchange_ready
<1>4. QED
  BY <1>1, <1>3 DEF CallInv, ReadyInv, WriteInv, PortalInv, StatusInv, ClosedInv,
                    OkMeansNoServerError

\* Reading an error of the server, fatal or not, preserves the invariant.
LEMMA ReadErrorInv ==
  ASSUME IInv, NEW e \in {"Server", "Fatal"}, ReadError(e)
  PROVE  StageFits' /\ CallInv'
<1>1. at = "read" /\ BackendTypeOK /\ StageFits /\ UNCHANGED runtime
  BY DEF ReadError, IInv, CompioTypeOK
<1>2. /\ ReadInv /\ exchange_in_progress /\ Shape(op, todo) /\ TaggedBy(todo, req)
      /\ skipping => op \in ReadyOps \ {"query"}
  BY <1>1 DEF IInv, CallInv, ReadInv
<1>3. StageFits' /\ framing' = framing
  <2>1. CASE ReplyError
    BY <1>1, <2>1, ErrorFacts
  <2>2. CASE ReplyFatal
    BY <1>1, <2>2 DEF ReplyFatal, StageFits
  <2>3. QED
    BY <2>1, <2>2 DEF ReadError
<1>4. CASE Fail(e)
  <2>1. e \in Errors
    BY DEF Errors
  <2>2. QED
    BY <1>2, <1>3, <1>4, <2>1, FailInv
<1>5. CASE ~Fail(e)
  <2>1. KeepError /\ op \in ReadyOps
    BY <1>5, KeepersSync DEF ReadError
  <2>2. Shape(op, todo') /\ TaggedBy(todo', req) /\ (skipping' => op \in ReadyOps \ {"query"})
    <3>1. CASE ReplyError
      BY <1>1, <1>2, <2>1, <3>1, ErrorKeepsShape
    <3>2. CASE ReplyFatal
      BY <1>2, <3>2 DEF ReplyFatal
    <3>3. QED
      BY <3>1, <3>2 DEF ReadError
  <2>3. QED
    BY <1>1, <1>2, <1>3, <2>1, <2>2, KeepErrorInv
<1>6. QED
  BY <1>4, <1>5

\* The buffer is back: what the call wrote is what it reads the answers of.
LEMMA WriteDoneInv ==
  ASSUME IInv, WriteDone
  PROVE  StageFits' /\ CallInv'
<1>1. /\ at = "write" /\ lent = <<>> /\ todo \in Seq(Unit) /\ op \in Ops
      /\ UNCHANGED <<backend, transaction_status, runtime, failed>>
  BY DEF WriteDone, IInv, CompioTypeOK, BackendTypeOK, Ops
<1>2. /\ WriteInv /\ exchange_in_progress /\ framing = "whole" /\ ~skipping
      /\ ~stray_read /\ ~failed /\ (at_sync => transaction_status = server_tx)
  BY <1>1 DEF IInv, CallInv, WriteInv, StatusInv
<1>3. Wire = todo
  BY <1>1, FrontFacts DEF Wire
<1>4. StageFits'
  BY <1>1 DEF IInv, StageFits, backend
<1>5. CASE op = "lowlevel_flush"
  <2>1. finish_exchange("Ok")
    BY <1>5 DEF WriteDone
  <2>2. op \notin ReadOps
    BY <1>5 DEF ReadOps, BindOps, DriveOps, BatchOps, ExecuteOps, SyncOps
  <2>3. Quiet'
    BY <1>1, <1>2, <2>2 DEF WriteInv, Quiet, Drained, backend, runtime
  <2>4. (at_sync' => transaction_status' = server_tx') /\ ~failed'
    BY <1>1, <1>2 DEF backend
  <2>5. QED
    BY <1>4, <2>1, <2>3, <2>4, FinishExchangeInv
<1>6. CASE op # "lowlevel_flush"
  <2>1. op \in ReadOps /\ Shape(op, todo) /\ TaggedBy(todo, req)
    BY <1>1, <1>2, <1>3, <1>6 DEF WriteInv
  <2>2. at' = "read" /\ UNCHANGED <<flags, machine, result>>
    BY <1>6 DEF WriteDone
  <2>3. Shape(op, todo)' /\ TaggedBy(todo, req)'
    BY <1>1, <2>1, <2>2 DEF Shape, TaggedBy, backend, machine
  <2>4. ReadInv'
    BY <1>1, <1>2, <2>1, <2>2, <2>3 DEF ReadInv, flags, machine, runtime, backend
  <2>5. ~MayCall'
    BY <1>2, <2>2 DEF MayCall, Usable, ensure_exchange_ready, flags
  <2>6. QED
    BY <1>4, <2>2, <2>4, <2>5 DEF CallInv, ReadyInv, WriteInv, PortalInv, StatusInv,
                                  ClosedInv, OkMeansNoServerError
<1>7. QED
  BY <1>5, <1>6

\* What the runtime or the server does to a connection that accepts no call and
\* waits for nothing is not seen by any call.
LEMMA Unwatched ==
  ASSUME CallInv, UNCHANGED <<flags, transaction_status, at, machine, failed, result>>,
         ~MayCall, at \notin {"write", "read"}
  PROVE  CallInv'
<1>1. ~MayCall' /\ at' = at
  BY DEF MayCall, Usable, ensure_exchange_ready, flags
<1>2. at # "closed"
  BY DEF CallInv, ClosedInv, MayCall
<1>3. QED
  BY <1>1, <1>2 DEF CallInv, ReadyInv, WriteInv, ReadInv, PortalInv, StatusInv, ClosedInv,
                    OkMeansNoServerError, flags

\* A unit that leaves moves from the lent buffer to the wire.
LEMMA WriteMoves ==
  ASSUME NEW p \in Seq(Unit), NEW q \in Seq(Unit), q # <<>>
  PROVE  (p \o <<Head(q)>>) \o Tail(q) = p \o q
  OBVIOUS

\* The runtime's writing preserves the invariant, whether the call still waits or not.
LEMMA KernelWritesInv ==
  ASSUME IInv, KernelWrites
  PROVE  StageFits' /\ CallInv'
<1>1. /\ lent # <<>> /\ lent \in Seq(Unit) /\ todo \in Seq(Unit) /\ BackendTypeOK
      /\ Deliver(<<Head(lent)>>) /\ lent' = Tail(lent) /\ framing' = framing
      /\ UNCHANGED <<flags, transaction_status, stray_read, at, machine, failed, result>>
  BY DEF KernelWrites, IInv, CompioTypeOK, BackendTypeOK
<1>2. <<Head(lent)>> \in Seq(Unit)
  BY <1>1, TailFacts
<1>3. StageFits'
  BY <1>1, <1>2, DeliverFits DEF IInv
<1>4. ~MayCall /\ at # "read"
  BY <1>1 DEF IInv, CallInv, ReadyInv, Quiet, ReadInv
<1>5. CASE at = "write"
  <2>1. /\ exchange_in_progress /\ framing = "whole" /\ ~skipping /\ ~stray_read /\ ~failed
        /\ op \in ReadOps /\ Shape(op, Wire) /\ TaggedBy(Wire, req)
        /\ (at_sync => transaction_status = server_tx)
    BY <1>1, <1>5 DEF IInv, CallInv, WriteInv, StatusInv
  <2>2. /\ todo' = todo \o <<Head(lent)>>
        /\ UNCHANGED <<skipping, server_tx, at_sync>>
    BY <1>1 DEF Deliver
  <2>3. Wire' = Wire
    BY <1>1, <2>2, WriteMoves DEF Wire
  <2>4. at' = "write" /\ op' = op /\ req' = req /\ exchange_in_progress'
    BY <1>1, <1>5, <2>1 DEF flags, machine
  <2>5. Shape(op, Wire)' /\ TaggedBy(Wire, req)'
    BY <2>1, <2>3, <2>4 DEF Shape, TaggedBy
  <2>6. WriteInv'
    BY <1>1, <2>1, <2>2, <2>4, <2>5 DEF WriteInv
  <2>7. ~MayCall' /\ (at_sync' => transaction_status' = server_tx')
    BY <1>1, <2>1, <2>2, <2>4 DEF MayCall, Usable, ensure_exchange_ready
  <2>8. QED
    BY <1>3, <2>4, <2>6, <2>7 DEF CallInv, ReadyInv, ReadInv, PortalInv, StatusInv, ClosedInv,
                                  OkMeansNoServerError
<1>6. CASE at # "write"
  BY <1>1, <1>3, <1>4, <1>6, Unwatched DEF IInv
<1>7. QED
  BY <1>5, <1>6

\* A read whose future is gone takes answers that no call waits for.
LEMMA KernelSwallowsInv ==
  ASSUME IInv, KernelSwallows
  PROVE  StageFits' /\ CallInv'
<1>1. stray_read /\ UNCHANGED <<flags, transaction_status, at, machine, failed, result>>
  BY DEF KernelSwallows
<1>2. ~MayCall /\ at \notin {"write", "read"}
  BY <1>1 DEF IInv, CallInv, ReadyInv, Quiet, WriteInv, ReadInv
<1>3. StageFits'
  <2>0. BackendTypeOK /\ StageFits
    BY DEF IInv, CompioTypeOK
  <2>1. ASSUME NEW m, Reply(m)
        PROVE  StageFits'
    BY <2>0, <2>1, ReplyFacts
  <2>2. CASE ReplyError
    BY <2>0, <2>2, ErrorFacts
  <2>3. CASE ReplyFatal
    BY <2>0, <2>3 DEF ReplyFatal, StageFits
  <2>4. QED
    BY <2>1, <2>2, <2>3 DEF KernelSwallows
<1>4. QED
  BY <1>1, <1>2, <1>3, Unwatched DEF IInv

\* An operation is cancelled only where no call waits for one.
LEMMA KernelCancelsInv ==
  ASSUME IInv, KernelCancels
  PROVE  StageFits' /\ CallInv'
<1>1. /\ (at # "write" /\ lent # <<>>) \/ stray_read
      /\ UNCHANGED <<todo, stage, flags, transaction_status, at, machine, failed, result>>
  BY DEF KernelCancels
<1>2. ~MayCall /\ at \notin {"write", "read"}
  BY <1>1 DEF IInv, CallInv, ReadyInv, Quiet, WriteInv, ReadInv
<1>3. StageFits'
  BY <1>1 DEF IInv, StageFits
<1>4. QED
  BY <1>1, <1>2, <1>3, Unwatched DEF IInv

\* A dropped future preserves the invariant: the exchange stays in progress.
LEMMA AbandonInv ==
  ASSUME IInv, Abandon
  PROVE  StageFits' /\ CallInv'
<1>1. /\ at' = "idle" /\ result' # "Ok"
      /\ UNCHANGED <<todo, stage, skipping, server_tx, at_sync, flags, transaction_status,
                     lent, failed>>
  BY DEF Abandon, CallOver
<1>2. StageFits'
  BY <1>1 DEF IInv, StageFits
<1>3. CASE at \in {"write", "read"}
  <2>1. ~MayCall'
    BY <1>1, <1>3 DEF IInv, CallInv, WriteInv, ReadInv, MayCall, Usable,
                      ensure_exchange_ready, flags
  <2>2. QED
    BY <1>1, <1>2, <2>1 DEF CallInv, ReadyInv, WriteInv, ReadInv, PortalInv, StatusInv,
                            ClosedInv, OkMeansNoServerError
<1>4. CASE at = "portal"
  <2>1. UNCHANGED <<framing, stray_read>> /\ (MayCall' => MayCall)
    BY <1>1, <1>4 DEF Abandon, MayCall, Usable, flags
  <2>2. Quiet' = Quiet
    BY <1>1, <2>1 DEF Quiet, Drained
  <2>3. QED
    BY <1>1, <1>2, <2>1, <2>2 DEF IInv, CallInv, ReadyInv, WriteInv, ReadInv, PortalInv,
                                  StatusInv, ClosedInv, OkMeansNoServerError
<1>5. QED
  BY <1>3, <1>4 DEF Abandon

\* What the server skips was never to be answered.
LEMMA SkipsInv ==
  ASSUME IInv, Skips
  PROVE  StageFits' /\ CallInv'
<1>1. /\ todo # <<>> /\ todo \in Seq(Unit) /\ skipping /\ Head(todo).kind # "Sync"
      /\ todo' = Tail(todo) /\ UNCHANGED <<skipping, framing>> /\ StageFits'
  BY DiscardFacts DEF Skips, IInv, CompioTypeOK
<1>2. UNCHANGED <<flags, transaction_status, runtime, at, machine, failed, result>>
  BY DEF Skips
<1>3. ~MayCall /\ at # "write"
  BY <1>1 DEF IInv, CallInv, ReadyInv, Quiet, Drained, WriteInv
<1>4. CASE at = "read"
  <2>1. ReadInv /\ Shape(op, todo) /\ TaggedBy(todo, req) /\ op \in ReadyOps \ {"query"}
    BY <1>1, <1>4 DEF IInv, CallInv, ReadInv
  <2>2. Shape(op, todo') /\ TaggedBy(todo', req)
    BY <1>1, <2>1, ShapeTail
  <2>3. Shape(op, todo)' /\ TaggedBy(todo, req)'
    BY <1>2, <2>2 DEF Shape, TaggedBy, machine
  <2>4. ReadInv' /\ at' = "read"
    BY <1>1, <1>2, <1>4, <2>1, <2>3 DEF ReadInv, flags, machine, runtime
  <2>5. ~MayCall'
    BY <1>2, <1>3 DEF MayCall, Usable, ensure_exchange_ready, flags
  <2>6. QED
    BY <1>1, <2>4, <2>5 DEF CallInv, ReadyInv, WriteInv, PortalInv, StatusInv, ClosedInv,
                            OkMeansNoServerError
<1>5. CASE at # "read"
  BY <1>1, <1>2, <1>3, <1>5, Unwatched DEF IInv
<1>6. QED
  BY <1>4, <1>5

\* A server that goes away owes nothing more, and is owed nothing less.
LEMMA DiesInv ==
  ASSUME IInv, Dies
  PROVE  StageFits' /\ CallInv'
<1>1. /\ UNCHANGED <<todo, stage, skipping, server_tx, at_sync, framing>> /\ ~alive'
      /\ UNCHANGED <<flags, transaction_status, runtime, at, machine, failed, result>>
  BY DEF Dies, PeerDies
<1>2. StageFits' /\ MayCall' = MayCall /\ Quiet' = Quiet
  BY <1>1 DEF IInv, StageFits, MayCall, Usable, ensure_exchange_ready, Quiet, Drained, flags,
              runtime
<1>3. ReadyInv' /\ PortalInv' /\ StatusInv' /\ OkMeansNoServerError'
  BY <1>1, <1>2 DEF IInv, CallInv, ReadyInv, PortalInv, StatusInv, OkMeansNoServerError, flags
<1>4. WriteInv' /\ ReadInv'
  BY <1>1 DEF IInv, CallInv, WriteInv, ReadInv, Wire, Shape, TaggedBy, flags, machine, runtime
<1>5. ClosedInv'
  BY <1>1 DEF IInv, CallInv, ClosedInv, Usable, flags
<1>6. QED
  BY <1>2, <1>3, <1>4, <1>5 DEF CallInv

\* A new connection satisfies the invariant.
LEMMA InitInv == Init => IInv
<1> SUFFICES ASSUME Init
             PROVE  IInv
  OBVIOUS
<1>1. CompioTypeOK
  BY InitType
<1>2. QED
  BY <1>1 DEF Init, BackendInit, IInv, StageFits, CallInv, ReadyInv, Quiet, WriteInv, ReadInv,
              PortalInv, StatusInv, ClosedInv, Drained, OkMeansNoServerError

\* Every step preserves the invariant: one step per action.
LEMMA NextInv == IInv /\ [Next]_vars => IInv'
<1> SUFFICES ASSUME IInv, [Next]_vars
             PROVE  IInv'
  OBVIOUS
<1>0. /\ CompioTypeOK /\ CallInv /\ StageFits /\ req \in Requests
      /\ WriteInv /\ ReadInv /\ PortalInv
  BY DEF IInv, CallInv, CompioTypeOK
<1>t. CompioTypeOK'
  BY <1>0, NextType
<1>c. ASSUME StageFits' /\ CallInv'
      PROVE  IInv'
  BY <1>t, <1>c DEF IInv
<1>s. ASSUME UNCHANGED <<todo, stage>>
      PROVE  StageFits'
  BY <1>0, <1>s DEF StageFits
<1>1. ASSUME NEW r \in Requests, Call(r)
      PROVE  IInv'
  <2>1. PICK o \in CallOps, n \in Nat \ {0}, more \in 0..(MaxChunks - 1), scope \in BOOLEAN :
            Start(o, r, n, more, scope)
    BY <1>1, CallFacts
  <2>2. o \in ReadOps \cup {"lowlevel_flush"}
    BY DEF CallOps
  <2>3. /\ Begin(o, r, n) /\ ~failed' /\ MayCall
        /\ UNCHANGED <<backend, is_broken, transaction_status>>
    BY <2>1 DEF Start, ensure_usable, MayCall
  <2>4. CallInv'
    BY <1>0, <2>2, <2>3, BeginInv
  <2>5. QED
    BY <1>c, <1>s, <2>3, <2>4 DEF backend
<1>2. CASE WriteDone
  BY <1>2, <1>c, WriteDoneInv
<1>3. CASE WriteFails
  <2>1. /\ exchange_in_progress /\ UNCHANGED <<todo, stage>>
        /\ Fail("Io") /\ "Io" \in Errors
    BY <1>0, <1>3 DEF WriteFails, WriteInv, Errors
  <2>2. QED
    BY <1>c, <1>s, <2>1, FailInv
<1>4. ASSUME NEW m \in Messages, ReadMessage(m)
      PROVE  IInv'
  BY <1>4, <1>c, ReadMessageInv
<1>5. ASSUME NEW e \in {"Server", "Fatal"}, ReadError(e)
      PROVE  IInv'
  BY <1>5, <1>c, ReadErrorInv
<1>6. CASE ReadAsync
  <2>1. /\ at = "read"
        /\ UNCHANGED <<backend, flags, transaction_status, lent, stray_read, at, op, req,
                       pending_error, failed, result>>
    BY <1>6 DEF ReadAsync, ReplyAsync, Stepped
  <2>2. StageFits'
    BY <1>s, <2>1 DEF backend
  <2>3. ReadInv' /\ at' = "read"
    BY <1>0, <2>1 DEF ReadInv, Shape, TaggedBy, backend, flags
  <2>4. ~MayCall'
    BY <2>3 DEF ReadInv, MayCall, Usable, ensure_exchange_ready
  <2>5. QED
    BY <1>c, <2>2, <2>3, <2>4 DEF CallInv, ReadyInv, WriteInv, PortalInv, StatusInv,
                                  ClosedInv, OkMeansNoServerError
<1>7. CASE ReadFails
  <2>1. /\ exchange_in_progress /\ UNCHANGED backend
        /\ Fail("Io") /\ "Io" \in Errors
    BY <1>0, <1>7 DEF ReadFails, ReadInv, Errors
  <2>2. QED
    BY <1>c, <1>s, <2>1, FailInv DEF backend
<1>8. CASE portal_exec
  <2>1. /\ Begin("portal_exec", req, 1) /\ "portal_exec" \in ReadOps /\ 1 \in Nat \ {0}
        /\ UNCHANGED <<backend, is_broken, transaction_status, failed>>
    BY <1>8 DEF portal_exec, ReadOps, ExecuteOps
  <2>2. ~failed' /\ MayCall
    BY <1>0, <1>8, <2>1 DEF portal_exec, Begin, begin_exchange, MayCall,
                            ensure_exchange_ready, PortalInv
  <2>3. CallInv'
    BY <1>0, <2>1, <2>2, BeginInv
  <2>4. QED
    BY <1>c, <1>s, <2>1, <2>3 DEF backend
<1>9. ASSUME NEW c \in {"Ok"} \cup Errors, portal_return(c)
      PROVE  IInv'
  <2>0. UNCHANGED <<backend, transaction_status, failed>>
    BY <1>9 DEF portal_return
  <2>1. CASE Begin("portal_sync", req, 1)
    <3>1. "portal_sync" \in ReadOps /\ 1 \in Nat \ {0} /\ UNCHANGED is_broken
      BY <1>9, <2>1 DEF portal_return, Begin, begin_exchange, ReadOps, SyncOps
    <3>2. ~failed' /\ MayCall
      BY <1>0, <1>9, <2>0, <2>1 DEF portal_return, Begin, begin_exchange, MayCall,
                                    ensure_exchange_ready, PortalInv
    <3>3. CallInv'
      BY <1>0, <2>0, <2>1, <3>1, <3>2, BeginInv
    <3>4. QED
      BY <1>c, <1>s, <2>0, <3>3 DEF backend
  <2>2. CASE ~Begin("portal_sync", req, 1)
    <3>1. /\ ~ensure_exchange_ready /\ UNCHANGED exchange_in_progress
          /\ Return(IF c = "Ok" THEN "ConnectionBroken" ELSE c, FALSE)
      BY <1>9, <2>2 DEF portal_return
    <3>2. ~MayCall' /\ at' = "idle" /\ result' # "Ok"
      BY <3>1 DEF Return, CallOver, MayCall, Usable, ensure_exchange_ready
    <3>3. CallInv'
      BY <3>2 DEF CallInv, ReadyInv, WriteInv, ReadInv, PortalInv, StatusInv, ClosedInv,
                  OkMeansNoServerError
    <3>4. QED
      BY <1>c, <1>s, <2>0, <3>3 DEF backend
  <2>3. QED
    BY <2>1, <2>2
<1>10. CASE Abandon
  BY <1>10, <1>c, AbandonInv
<1>11. CASE close
  <2>1. /\ at' = "closed" /\ Usable /\ ~alive'
        /\ UNCHANGED <<todo, stage, skipping, server_tx, at_sync, framing, flags,
                       transaction_status, runtime>>
    BY <1>11 DEF close, ensure_usable
  <2>2. MayCall /\ Usable' /\ Quiet' = Quiet
    BY <2>1 DEF MayCall, Usable, Quiet, Drained, flags, runtime
  <2>3. CallInv'
    BY <1>0, <2>1, <2>2 DEF CallInv, ReadyInv, WriteInv, ReadInv, PortalInv, StatusInv,
                            ClosedInv, OkMeansNoServerError
  <2>4. QED
    BY <1>c, <1>s, <2>1, <2>3
<1>12. CASE KernelWrites
  BY <1>12, <1>c, KernelWritesInv
<1>13. CASE KernelSwallows
  BY <1>13, <1>c, KernelSwallowsInv
<1>14. CASE KernelCancels
  BY <1>14, <1>c, KernelCancelsInv
<1>15. CASE Skips
  BY <1>15, <1>c, SkipsInv
<1>16. CASE Dies
  BY <1>16, <1>c, DiesInv
<1>17. CASE UNCHANGED vars
  <2>1. StageFits' /\ MayCall' = MayCall /\ Quiet' = Quiet
    BY <1>0, <1>17 DEF vars, StageFits, MayCall, Usable, ensure_exchange_ready, Quiet, Drained,
                       flags, runtime, backend
  <2>2. WriteInv' /\ ReadInv'
    BY <1>0, <1>17 DEF vars, WriteInv, ReadInv, Wire, Shape, TaggedBy, flags, machine, runtime,
                       backend
  <2>3. ReadyInv' /\ PortalInv' /\ StatusInv' /\ ClosedInv' /\ OkMeansNoServerError'
    BY <1>0, <1>17, <2>1 DEF vars, CallInv, ReadyInv, PortalInv, StatusInv, ClosedInv, Usable,
                             OkMeansNoServerError, flags, backend
  <2>4. QED
    BY <1>c, <2>1, <2>2, <2>3 DEF CallInv
<1>18. QED
  BY <1>1, <1>2, <1>3, <1>4, <1>5, <1>6, <1>7, <1>8, <1>9, <1>10, <1>11, <1>12, <1>13, <1>14,
     <1>15, <1>16, <1>17 DEF Next, Read, Kernel

\* The invariant that carries every safety property of the connection.
LEMMA Invariance == Spec => []IInv
<1>1. QED
  BY InitInv, NextInv, PTL DEF Spec

\* No server error is lost: a call that was told of one does not return Ok.
THEOREM CompioOkIsOk == Spec => []OkMeansNoServerError
<1>1. IInv => OkMeansNoServerError
  BY DEF IInv, CallInv
<1>2. QED
  BY <1>1, Invariance, PTL

\* A connection that would accept a call owes nothing and is owed nothing, and the
\* runtime holds neither a buffer nor a read of an earlier call.
THEOREM CompioUsableIsQuiet == Spec => [](Usable => Quiet)
<1>1. IInv => (Usable => Quiet)
  BY DEF IInv, CallInv, ReadyInv, MayCall
<1>2. QED
  BY <1>1, Invariance, PTL

-----------------------------------------------------------------------------
(***************************************************************************)
(* The connection implements Session.  A step of CompioConn maps to Accept *)
(* (a public call begins), Work (it goes on, or the runtime, the server or *)
(* the network does beside it), Release or Condemn (it ends), Close, Decay *)
(* (of an unusable connection, whose socket the runtime still works on) or *)
(* a stutter.  That Release finds the connection settled is ReadyInv and   *)
(* StatusInv of the inductive invariant.                                   *)
(***************************************************************************)

Waiting == {"write", "read", "portal"}

\* What happens without the connection's code.
Background == Kernel \/ Skips \/ Dies

\* What a step does to the phase of the connection.
LEMMA StepKinds ==
  ASSUME Next
  PROVE  \/ at = "idle" /\ Usable /\ at' \in {"write", "closed"}
         \/ at \in Waiting /\ at' \in Waiting \cup {"idle"}
         \/ Background
<1>1. ASSUME NEW r \in Requests, Call(r)
      PROVE  at = "idle" /\ Usable /\ at' = "write"
  BY <1>1, CallFacts DEF Start, Begin, write_all_owned, ensure_usable
<1>2. ASSUME NEW e, Ended(e)
      PROVE  at' \in Waiting \cup {"idle"}
  BY <1>2 DEF Ended, IntoClosure, ReleaseScope, Return, CallOver, Waiting
<1>3. CASE WriteDone
  BY <1>3, <1>2 DEF WriteDone, finish_exchange, Waiting
<1>4. CASE WriteFails
  BY <1>4, <1>2 DEF WriteFails, Fail, Waiting
<1>5. ASSUME NEW m, ReadMessage(m)
      PROVE  at \in Waiting /\ at' \in Waiting \cup {"idle"}
  <2>1. ASSUME Terminal
        PROVE  at' \in Waiting \cup {"idle"}
    BY <2>1, <1>2 DEF Terminal, NextChunk, write_all_owned, finish_exchange, Waiting
  <2>2. QED
    BY <1>5, <1>2, <2>1 DEF ReadMessage, Fail, Stepped, Waiting
<1>6. ASSUME NEW e, ReadError(e)
      PROVE  at \in Waiting /\ at' \in Waiting \cup {"idle"}
  BY <1>6, <1>2 DEF ReadError, Fail, KeepError, Waiting
<1>7. CASE ReadAsync
  BY <1>7 DEF ReadAsync, Stepped, Waiting
<1>8. CASE ReadFails
  BY <1>8, <1>2 DEF ReadFails, Fail, Waiting
<1>9. CASE portal_exec
  BY <1>9 DEF portal_exec, Begin, write_all_owned, Waiting
<1>10. ASSUME NEW c, portal_return(c)
       PROVE  at \in Waiting /\ at' \in Waiting \cup {"idle"}
  BY <1>10 DEF portal_return, Begin, write_all_owned, Return, CallOver, Waiting
<1>11. CASE Abandon
  BY <1>11 DEF Abandon, CallOver, Waiting
<1>12. CASE close
  BY <1>12 DEF close, ensure_usable
<1>13. QED
  BY <1>1, <1>3, <1>4, <1>5, <1>6, <1>7, <1>8, <1>9, <1>10, <1>11, <1>12
     DEF Next, Read, Background

\* The runtime, the server and the network change no flag.
LEMMA BackgroundKeeps ==
  ASSUME Background
  PROVE  UNCHANGED <<at, is_broken, exchange_in_progress, scope_pending, transaction_status>>
  BY DEF Background, Kernel, KernelWrites, KernelSwallows, KernelCancels, Skips, Dies, flags

\* On a quiet connection they change nothing that the holder sees.
LEMMA BackgroundUnseen ==
  ASSUME Background, Quiet
  PROVE  UNCHANGED <<todo, skipping, framing, lent, stray_read, at_sync, server_tx>>
<1>1. lent = <<>> /\ ~stray_read /\ ~skipping
  BY DEF Quiet, Drained
<1>2. Dies
  BY <1>1 DEF Background, Kernel, KernelWrites, KernelSwallows, KernelCancels, Skips,
              ServerDiscard
<1>3. QED
  BY <1>2 DEF Dies, PeerDies, runtime

\* A step that leaves flags and wire alone leaves the holder's view alone.
LEMMA ViewUnchanged ==
  ASSUME UNCHANGED <<at, is_broken, exchange_in_progress, scope_pending, transaction_status,
                     todo, skipping, framing, lent, stray_read, at_sync, server_tx>>
  PROVE  UNCHANGED (Promise!session)
<1>1. Phase' = Phase
  BY DEF Phase, Usable
<1>2. Drained' = Drained
  BY DEF Drained
<1>3. QED
  BY <1>1, <1>2 DEF Promise!session

\* Initially the connection is ready and settled.
LEMMA SessionInitially == Init => Promise!SessionInit
  BY DEF Init, BackendInit, Phase, Usable, Drained, Promise!SessionInit, Promise!Settled

\* A step of an idle connection.
LEMMA IdleStep ==
  ASSUME IInv, Next, at = "idle"
  PROVE  [Promise!SessionNext]_(Promise!session)
<1>1. CASE ~Usable
  <2>1. Background
    BY <1>1, StepKinds DEF Waiting
  <2>2. Phase = "unusable" /\ Phase' = "unusable"
    BY <1>1, <2>1, BackgroundKeeps DEF Phase, Usable
  <2>3. QED
    BY <2>2 DEF Promise!SessionNext, Promise!Decay
<1>2. CASE Usable /\ at' = "write"
  <2>1. Phase = "ready" /\ Phase' = "busy"
    BY <1>2 DEF Phase
  <2>2. QED
    BY <2>1 DEF Promise!SessionNext, Promise!Accept
<1>3. CASE Usable /\ at' = "closed"
  <2>1. Phase = "ready" /\ Phase' = "closed"
    BY <1>3 DEF Phase
  <2>2. QED
    BY <2>1 DEF Promise!SessionNext, Promise!Close
<1>4. CASE Usable /\ Background
  <2>1. Quiet
    BY <1>4 DEF IInv, CallInv, ReadyInv, MayCall
  <2>2. QED
    BY <1>4, <2>1, BackgroundKeeps, BackgroundUnseen, ViewUnchanged
<1>5. QED
  BY <1>1, <1>2, <1>3, <1>4, StepKinds DEF Waiting

\* A step of a connection with a call in progress.
LEMMA BusyStep ==
  ASSUME IInv', Next, at \in Waiting
  PROVE  [Promise!SessionNext]_(Promise!session)
<1>1. at' \in Waiting \cup {"idle"}
  BY StepKinds, BackgroundKeeps DEF Waiting
<1>2. Phase = "busy"
  BY DEF Phase, Waiting
<1>3. CASE at' \in Waiting
  <2>1. Phase' = "busy"
    BY <1>3 DEF Phase, Waiting
  <2>2. QED
    BY <1>2, <2>1 DEF Promise!SessionNext, Promise!Work
<1>4. CASE at' = "idle" /\ Usable'
  <2>1. Phase' = "ready"
    BY <1>4 DEF Phase
  <2>2. Quiet' /\ (at_sync' => transaction_status' = server_tx')
    BY <1>4 DEF IInv, CallInv, ReadyInv, StatusInv, MayCall, Usable
  <2>3. /\ (Drained /\ lent = <<>> /\ ~stray_read)' = TRUE
        /\ (at_sync => transaction_status = server_tx)' = TRUE
    BY <2>2 DEF Quiet, Drained
  <2>4. QED
    BY <1>2, <2>1, <2>3 DEF Promise!SessionNext, Promise!Release, Promise!Settled
<1>5. CASE at' = "idle" /\ ~Usable'
  <2>1. Phase' = "unusable"
    BY <1>5 DEF Phase
  <2>2. QED
    BY <1>2, <2>1 DEF Promise!SessionNext, Promise!Condemn
<1>6. QED
  BY <1>1, <1>3, <1>4, <1>5

\* A closed connection stays as it is.
LEMMA ClosedStep ==
  ASSUME IInv, Next, at = "closed"
  PROVE  UNCHANGED (Promise!session)
<1>1. Background
  BY StepKinds DEF Waiting
<1>2. Quiet
  BY DEF IInv, CallInv, ClosedInv, ReadyInv, MayCall
<1>3. QED
  BY <1>1, <1>2, BackgroundKeeps, BackgroundUnseen, ViewUnchanged

(***************************************************************************)
(* The connection for completion-based I/O keeps the promise of the        *)
(* readiness-based one although the runtime finishes writes and reads that *)
(* were abandoned: to its holder it is ready and settled, busy with one    *)
(* call, unusable for good, or closed.                                     *)
(***************************************************************************)
THEOREM CompioImplementsSession == Spec => ImplementsSession
<1>1. IInv /\ IInv' /\ [Next]_vars => [Promise!SessionNext]_(Promise!session)
  <2> SUFFICES ASSUME IInv, IInv', [Next]_vars
               PROVE  [Promise!SessionNext]_(Promise!session)
    OBVIOUS
  <2>1. CASE UNCHANGED vars
    <3>1. UNCHANGED <<at, is_broken, exchange_in_progress, scope_pending, transaction_status,
                      todo, skipping, framing, lent, stray_read, at_sync, server_tx>>
      BY <2>1 DEF vars, backend, flags, runtime
    <3>2. QED
      BY <3>1, ViewUnchanged
  <2>2. CASE Next
    <3>1. at \in {"idle", "closed"} \cup Waiting
      BY DEF IInv, CompioTypeOK, Waiting
    <3>2. CASE at = "idle"
      BY <2>2, <3>2, IdleStep
    <3>3. CASE at = "closed"
      BY <2>2, <3>3, ClosedStep
    <3>4. CASE at \in Waiting
      BY <2>2, <3>4, BusyStep
    <3>5. QED
      BY <3>1, <3>2, <3>3, <3>4
  <2>3. QED
    BY <2>1, <2>2
<1>2. QED
  BY <1>1, SessionInitially, Invariance, PTL DEF Spec, ImplementsSession, Promise!SessionSpec

=============================================================================
