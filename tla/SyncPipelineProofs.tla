------------------------- MODULE SyncPipelineProofs -------------------------
(***************************************************************************)
(* Proofs about module SyncConn, for every set of call identities and      *)
(* every bound, and about module SyncPipeline.  The theorems about         *)
(* SyncPipeline assume Usage = {}: they are about callers that never queue *)
(* a statement on an aborted pipeline behind a Sync, and never flush       *)
(* behind a Sync still to be read, both of which the code permits.         *)
(***************************************************************************)
EXTENDS SyncPipeline, ExchangeProofs

-----------------------------------------------------------------------------
(***************************************************************************)
(* The connection.                                                         *)
(***************************************************************************)

\* No call that went through left its ReadyForQuery behind unmarked.
Course == ~is_broken /\ early # "unread"

\* No unit of q ends with ReadyForQuery, or none but the last.
NoReady(q) == \A i \in 1..Len(q) : q[i].kind \notin ReadyKinds

AtMostLast(q) == \A i \in 1..(Len(q) - 1) : q[i].kind \notin ReadyKinds

\* What may be unanswered while call o reads, earlier calls' units included.  A
\* Query, unlike a Sync, may have been skipped.
Due(o, q) ==
  /\ o \in ReadyOps => AtMostLast(q)
  /\ o \in ReadyOps \ {"query"} => EndsInSync(q)
  /\ o \notin ReadyOps => NoReady(q)

\* The call in progress at each place.
OpInv ==
  /\ at = "read" => op \in ReadOps
  /\ at = "chunk" => op \in BatchOps /\ chunks > 0

\* Between calls, only what calls without a Sync left open is unanswered.
RestInv ==
  at \notin {"read", "closed"} /\ Course =>
    /\ framing = "whole" /\ NoReady(todo)
    /\ early = "no" => todo = <<>> /\ ~skipping

\* A call reads up to the end of its own exchange.
ReadInv ==
  at = "read" /\ Course =>
    /\ framing = "whole" /\ Due(op, todo)
    /\ early = "no" => /\ Shape(op, todo) /\ TaggedBy(todo, req)
                       /\ skipping => op \in ReadyOps \ {"query"}

\* After ReadyForQuery the status is the server's.
StatusInv == Course /\ at_sync => transaction_status = server_tx

\* The inductive invariant.  The properties alone are not inductive: they say
\* nothing of what is left open, on which the next call's reading depends.
IInv == SyncTypeOK /\ StageFits /\ OpInv /\ RestInv /\ ReadInv /\ StatusInv

-----------------------------------------------------------------------------
\* The part of SyncTypeOK about the connection.
CallTypeOK ==
  /\ is_broken \in BOOLEAN /\ transaction_status \in TxStatus
  /\ at \in {"idle", "read", "chunk", "portal", "closed"}
  /\ op \in Ops /\ req \in Requests
  /\ state \in MachineStates /\ pending_error \in BOOLEAN
  /\ chunks \in 0..(MaxChunks - 1)
  /\ carry \in {"Ok"} \cup Errors
  /\ early \in {"no", "open", "unread"}

\* SyncTypeOK with its parts, the server's and the connection's.
LEMMA TypeSplit == SyncTypeOK <=> BackendTypeOK /\ CallTypeOK
  BY DEF SyncTypeOK, CallTypeOK

\* The kinds of the calls that do not sync end with another answer.
LEMMA SingleKinds ==
  ASSUME NEW o \in ReadOps \ ReadyOps, NEW q, Shape(o, q)
  PROVE  Len(q) = 1 /\ q[1].kind \notin ReadyKinds
<1>1. o \in BindOps \cup {"lowlevel_bind", "lowlevel_close_portal"} \cup ExecuteOps
  BY DEF ReadOps, ReadyOps
<1>2. QED
  BY <1>1 DEF Shape, BindOps, ExecuteOps, ReadyKinds

\* What a call writes behind units left open.
LEMMA DueDelivered ==
  ASSUME NEW q \in Seq(Unit), NoReady(q), NEW u \in Seq(Unit), NEW o \in ReadOps, Shape(o, u)
  PROVE  Due(o, q \o u)
<1> DEFINE t == q \o u
<1>1. /\ Len(q) \in Nat /\ Len(u) \in Nat /\ t \in Seq(Unit) /\ Len(t) = Len(q) + Len(u)
      /\ \A i \in 1..Len(t) : t[i] = IF i <= Len(q) THEN q[i] ELSE u[i - Len(q)]
  OBVIOUS
<1> HIDE DEF t
<1>2. Len(u) >= 1
  BY <1>1 DEF Shape
<1>3. ASSUME NEW i \in 1..Len(t), i <= Len(q)
      PROVE  t[i].kind \notin ReadyKinds
  <2>1. t[i] = q[i] /\ i \in 1..Len(q)
    BY <1>1, <1>3
  <2>2. QED
    BY <2>1 DEF NoReady
<1>4. ASSUME NEW i \in 1..Len(t), ~(i <= Len(q))
      PROVE  t[i] = u[i - Len(q)] /\ i - Len(q) \in 1..Len(u)
  BY <1>1, <1>4
<1>5. CASE o \in ReadyOps
  <2>1. ASSUME NEW i \in 1..(Len(t) - 1)
        PROVE  t[i].kind \notin ReadyKinds
    <3>1. CASE i <= Len(q)
      BY <1>1, <1>3, <3>1
    <3>2. CASE ~(i <= Len(q))
      <4>1. t[i] = u[i - Len(q)] /\ i - Len(q) \in 1..(Len(u) - 1)
        BY <1>1, <1>4, <3>2
      <4>2. QED
        BY <1>1, <1>5, <4>1 DEF Shape
    <3>3. QED
      BY <3>1, <3>2
  <2>2. AtMostLast(t)
    BY <2>1 DEF AtMostLast
  <2>3. t # <<>> /\ t[Len(t)] = u[Len(u)]
    BY <1>1, <1>2
  <2>4. QED
    BY <1>5, <2>2, <2>3 DEF Due, Shape, EndsInSync, t
<1>6. CASE o \notin ReadyOps
  <2>1. Len(u) = 1 /\ u[1].kind \notin ReadyKinds
    BY <1>6, SingleKinds
  <2>2. ASSUME NEW i \in 1..Len(t)
        PROVE  t[i].kind \notin ReadyKinds
    <3>1. CASE i <= Len(q)
      BY <1>3, <3>1
    <3>2. CASE ~(i <= Len(q))
      <4>1. t[i] = u[i - Len(q)] /\ i - Len(q) = 1
        BY <1>1, <1>4, <2>1, <3>2
      <4>2. QED
        BY <2>1, <4>1
    <3>3. QED
      BY <3>1, <3>2
  <2>3. NoReady(t)
    BY <2>2 DEF NoReady
  <2>4. QED
    BY <1>6, <2>3 DEF Due, t
<1>7. QED
  BY <1>5, <1>6

\* Dropping a unit that does not end with ReadyForQuery.
LEMMA NoReadyTail ==
  ASSUME NEW q \in Seq(Unit), q # <<>>, NoReady(q)
  PROVE  NoReady(Tail(q)) /\ Head(q).kind \notin ReadyKinds
<1>1. /\ Len(q) \in Nat \ {0} /\ Head(q) = q[1] /\ Len(Tail(q)) = Len(q) - 1
      /\ \A i \in 1..Len(Tail(q)) : Tail(q)[i] = q[i + 1]
  BY TailFacts
<1> DEFINE t == Tail(q)
<1> HIDE DEF t
<1>2. ASSUME NEW i \in 1..Len(t)
      PROVE  t[i].kind \notin ReadyKinds
  <2>1. t[i] = q[i + 1] /\ i + 1 \in 1..Len(q)
    BY <1>1 DEF t
  <2>2. QED
    BY <2>1 DEF NoReady
<1>3. Head(q).kind \notin ReadyKinds
  BY <1>1 DEF NoReady
<1>4. QED
  BY <1>2, <1>3 DEF NoReady, t

\* A unit other than a Sync goes without disturbing what is due.
LEMMA DueTail ==
  ASSUME NEW q \in Seq(Unit), q # <<>>, NEW o, Due(o, q), Head(q).kind # "Sync"
  PROVE  Due(o, Tail(q))
<1> DEFINE t == Tail(q)
<1>1. /\ Len(q) \in Nat \ {0} /\ Head(q) = q[1] /\ t \in Seq(Unit) /\ Len(t) = Len(q) - 1
      /\ \A i \in 1..Len(t) : t[i] = q[i + 1]
  BY TailFacts
<1> HIDE DEF t
<1>2. CASE o \in ReadyOps
  <2>1. AtMostLast(q) /\ (o # "query" => EndsInSync(q))
    BY <1>2 DEF Due
  <2>2. ASSUME NEW i \in 1..(Len(t) - 1)
        PROVE  t[i].kind \notin ReadyKinds
    <3>1. t[i] = q[i + 1] /\ i + 1 \in 1..(Len(q) - 1)
      BY <1>1
    <3>2. QED
      BY <2>1, <3>1 DEF AtMostLast
  <2>3. AtMostLast(t)
    BY <2>2 DEF AtMostLast
  <2>4. ASSUME EndsInSync(q)
        PROVE  EndsInSync(t)
    <3>1. Len(q) # 1
      BY <1>1, <2>4 DEF EndsInSync
    <3>2. Len(t) \in 1..Len(t) /\ t[Len(t)] = q[Len(q)] /\ t # <<>>
      BY <1>1, <3>1
    <3>3. QED
      BY <2>4, <3>2 DEF EndsInSync
  <2>5. QED
    BY <1>2, <2>1, <2>3, <2>4 DEF Due, t
<1>3. CASE o \notin ReadyOps
  <2>1. NoReady(q)
    BY <1>3 DEF Due
  <2>2. NoReady(t)
    BY <2>1, NoReadyTail DEF t
  <2>3. QED
    BY <1>3, <2>2 DEF Due, t
<1>4. QED
  BY <1>2, <1>3

\* The unit that ReadyForQuery ends is the last, and that of a call that syncs.
LEMMA DueReady ==
  ASSUME NEW q \in Seq(Unit), q # <<>>, NEW o, Due(o, q), Head(q).kind \in ReadyKinds
  PROVE  o \in ReadyOps /\ Tail(q) = <<>>
<1>1. /\ Len(q) \in Nat \ {0} /\ Head(q) = q[1]
  BY TailFacts
<1>2. o \in ReadyOps
  BY <1>1 DEF Due, NoReady
<1>3. \A i \in 1..(Len(q) - 1) : q[i].kind \notin ReadyKinds
  BY <1>2 DEF Due, AtMostLast
<1>4. \A l \in Nat \ {0} : l # 1 => 1 \in 1..(l - 1)
  OBVIOUS
<1>5. Len(q) = 1
  BY <1>1, <1>3, <1>4
<1>6. QED
  BY <1>2, <1>5, SingleIsLast

-----------------------------------------------------------------------------
\* A write cut short keeps the server's types.
LEMMA CutShortType ==
  ASSUME BackendTypeOK, NEW q \in Seq(Unit), CutShort(q)
  PROVE  BackendTypeOK' /\ (StageFits => StageFits')
<1>1. PICK k \in 0..Len(q) : Deliver(SubSeq(q, 1, k))
  BY DEF CutShort
<1>2. SubSeq(q, 1, k) \in Seq(Unit)
  BY <1>1
<1>3. framing' \in {"whole", "torn"}
  BY DEF CutShort, BackendTypeOK
<1>4. QED
  BY <1>1, <1>2, <1>3, DeliverType, DeliverFits

\* A call that is written keeps the types.
LEMMA SendType ==
  ASSUME BackendTypeOK, CallTypeOK, NEW o \in ReadOps, NEW r \in Requests,
         NEW n \in Nat \ {0}, Send(o, r, n)
  PROVE  /\ BackendTypeOK' /\ (StageFits => StageFits')
         /\ op' \in Ops /\ req' \in Requests /\ state' \in MachineStates
         /\ pending_error' \in BOOLEAN
<1>1. Request(o, r, n) \in Seq(Unit) /\ Deliver(Request(o, r, n))
  BY RequestFacts DEF Send
<1>2. framing' \in {"whole", "torn"}
  BY DEF Send, BackendTypeOK
<1>3. BackendTypeOK' /\ (StageFits => StageFits')
  BY <1>1, <1>2, DeliverType, DeliverFits
<1>4. QED
  BY <1>3, InitialStateType DEF Send, Ops, CallTypeOK

\* A call that begins finds nothing of the calls that synced, and writes behind
\* what calls without a Sync left open.
LEMMA SendStep ==
  ASSUME SyncTypeOK, RestInv, StatusInv, at \notin {"read", "closed"},
         NEW o \in ReadOps, NEW r \in Requests, NEW n \in Nat \ {0}, Send(o, r, n),
         UNCHANGED <<is_broken, early, transaction_status>>
  PROVE  OpInv' /\ RestInv' /\ ReadInv' /\ StatusInv'
<1> DEFINE u == Request(o, r, n)
<1>1. u \in Seq(Unit) /\ Shape(o, u) /\ TaggedBy(u, r)
  BY RequestFacts DEF TaggedBy
<1>2. /\ todo \in Seq(Unit) /\ todo' = todo \o u
      /\ UNCHANGED <<skipping, server_tx, at_sync, framing>>
      /\ at' = "read" /\ op' = o /\ req' = r
  BY DEF Send, Deliver, SyncTypeOK, BackendTypeOK
<1> HIDE DEF u
<1>3. ASSUME Course'
      PROVE  /\ framing' = "whole" /\ Due(op', todo')
             /\ early' = "no" => /\ Shape(op', todo') /\ TaggedBy(todo', req')
                                 /\ skipping' => op' \in ReadyOps \ {"query"}
  <2>1. Course /\ framing = "whole" /\ NoReady(todo) /\ (early = "no" => todo = <<>> /\ ~skipping)
    BY <1>3 DEF Course, RestInv
  <2>2. Due(o, todo \o u)
    BY <1>1, <1>2, <2>1, DueDelivered
  <2>3. ASSUME early' = "no"
        PROVE  todo' = u /\ ~skipping'
    BY <1>1, <1>2, <2>1, <2>3
  <2>4. QED
    BY <1>1, <1>2, <2>1, <2>2, <2>3
<1>4. OpInv' /\ RestInv'
  BY <1>2 DEF OpInv, RestInv
<1>5. ReadInv'
  BY <1>3 DEF ReadInv
<1>6. StatusInv'
  BY <1>2 DEF StatusInv, Course
<1>7. QED
  BY <1>4, <1>5, <1>6

\* A step that marks the connection, or leaves it off course, owes nothing more.
LEMMA OffCourse ==
  ASSUME ~Course', at' \notin {"read", "chunk"}
  PROVE  OpInv' /\ RestInv' /\ ReadInv' /\ StatusInv'
  BY DEF OpInv, RestInv, ReadInv, StatusInv

\* The end of a call, as far as the types go.
LEMMA ReturnType ==
  ASSUME CallTypeOK, NEW ok, Return(ok), is_broken' \in BOOLEAN,
         early' \in {"no", "open", "unread"}, transaction_status' \in TxStatus
  PROVE  CallTypeOK' /\ at' \in {"idle", "portal"}
<1>1. 0 \in 0..(MaxChunks - 1)
  BY BatchAssumption
<1>2. "none" \in MachineStates /\ "none" \in Ops /\ "portal" \in Ops
  BY DEF MachineStates, Ops
<1>3. QED
  BY <1>1, <1>2 DEF Return, CallTypeOK

\* The public entry points in one formula.
LEMMA CallFacts ==
  ASSUME NEW r \in Requests, Call(r)
  PROVE  \E o \in ReadOps, n \in Nat \ {0}, more \in 0..(MaxChunks - 1) : Start(o, r, n, more)
<1>1. 1 \in Nat \ {0} /\ 0 \in 0..(MaxChunks - 1) /\ 1..MaxBatch \subseteq Nat \ {0}
  BY BatchAssumption
<1>2. {"query", "prepare", "exec_sql", "exec_prepared", "close_statement", "named_portal_sql",
       "named_portal_prepared", "lowlevel_bind", "lowlevel_execute", "lowlevel_close_portal",
       "lowlevel_sync", "prepare_batch", "portal_bind_sql", "portal_bind_prepared"}
        \cup BatchOps \subseteq ReadOps
  BY DEF ReadOps, BindOps, DriveOps, BatchOps, ExecuteOps, SyncOps
<1>3. CASE prepare_batch(r)
  BY <1>1, <1>2, <1>3 DEF prepare_batch
<1>4. CASE exec_batch(r)
  BY <1>1, <1>2, <1>4 DEF exec_batch
<1>5. CASE exec_portal(r) \/ exec(r) \/ create_named_portal(r)
  BY <1>1, <1>2, <1>5 DEF exec_portal, exec, create_named_portal, PortalBindOps
<1>6. CASE \/ query(r) \/ prepare(r) \/ close_statement(r) \/ lowlevel_bind(r)
           \/ lowlevel_execute(r) \/ lowlevel_close_portal(r) \/ lowlevel_sync(r)
  BY <1>1, <1>2, <1>6
     DEF query, prepare, close_statement, lowlevel_bind, lowlevel_execute,
         lowlevel_close_portal, lowlevel_sync
<1>7. QED
  BY <1>3, <1>4, <1>5, <1>6 DEF Call

-----------------------------------------------------------------------------
\* An answer on course: ReadyForQuery is the last one, of a call that syncs; any
\* other leaves what is due.
LEMMA ReplyStep ==
  ASSUME SyncTypeOK, StageFits, ReadInv, at = "read", Course, NEW m, Reply(m)
  PROVE  /\ framing' = "whole" /\ StageFits' /\ BackendTypeOK'
         /\ m = "ReadyForQuery" =>
              op \in ReadyOps /\ todo' = <<>> /\ ~skipping' /\ server_tx' = server_tx
         /\ m # "ReadyForQuery" => Due(op, todo') /\ ~at_sync'
<1>1. BackendTypeOK /\ todo \in Seq(Unit) /\ todo # <<>> /\ framing = "whole" /\ Due(op, todo)
  BY ReplyFacts, TypeSplit DEF ReadInv, BackendTypeOK
<1>2. /\ framing' = framing /\ (at_sync' <=> m = "ReadyForQuery")
      /\ skipping' = (skipping /\ m # "ReadyForQuery")
      /\ server_tx' \in TxAfter(m, server_tx)
  BY DEF Reply
<1>3. CASE m = "ReadyForQuery"
  <2>1. todo' = Tail(todo) /\ Head(todo).kind \in ReadyKinds
    BY <1>1, <1>3, ReplyFacts
  <2>2. op \in ReadyOps /\ todo' = <<>>
    BY <1>1, <2>1, DueReady
  <2>3. server_tx' = server_tx
    BY <1>2, <1>3 DEF TxAfter
  <2>4. QED
    BY <1>1, <1>2, <1>3, <2>2, <2>3, ReplyFacts, ReplyType
<1>4. CASE m # "ReadyForQuery"
  <2>1. todo' = todo \/ (todo' = Tail(todo) /\ Head(todo).kind \notin ReadyKinds)
    BY <1>1, <1>4, ReplyFacts
  <2>2. Head(todo).kind \notin ReadyKinds => Head(todo).kind # "Sync"
    BY DEF ReadyKinds
  <2>3. Due(op, todo')
    BY <1>1, <2>1, <2>2, DueTail
  <2>4. QED
    BY <1>1, <1>2, <1>4, <2>3, ReplyFacts, ReplyType
<1>5. QED
  BY <1>3, <1>4

\* A call that fails before its exchange is over: one that syncs goes off course,
\* the others leave open units behind.
LEMMA FailStep ==
  ASSUME NEW e, Fail(e), CallTypeOK,
         Course' /\ op \notin ReadyOps => framing' = "whole" /\ NoReady(todo'),
         StatusInv'
  PROVE  OpInv' /\ RestInv' /\ ReadInv' /\ StatusInv'
<1>1. at' \in {"idle", "portal"}
  BY DEF Fail, Return
<1>2. early' # "no" /\ (Course' => op \notin ReadyOps)
  BY DEF Fail, Course
<1>3. RestInv'
  BY <1>2 DEF RestInv
<1>4. QED
  BY <1>1, <1>3 DEF OpInv, ReadInv

\* Marks and early returns stay: a step after which the connection is on course
\* began on course.
LEMMA FailCourse ==
  ASSUME NEW e, Fail(e), CallTypeOK, Course'
  PROVE  Course
  BY DEF Fail, Course, CallTypeOK

\* The same for a call that goes through.
LEMMA DoneCourse ==
  ASSUME Done, CallTypeOK, Course'
  PROVE  Course /\ (early' = "no" => early = "no" \/ op \in SyncOps)
  BY DEF Done, Course, CallTypeOK

\* A call that goes through.
LEMMA DoneStep ==
  ASSUME Done, CallTypeOK,
         Course' => /\ framing' = "whole" /\ NoReady(todo')
                    /\ early' = "no" => todo' = <<>> /\ ~skipping',
         StatusInv'
  PROVE  OpInv' /\ RestInv' /\ ReadInv' /\ StatusInv'
<1>1. at' \in {"idle", "portal"}
  BY DEF Done, Return
<1>2. RestInv'
  BY DEF RestInv
<1>3. QED
  BY <1>1, <1>2 DEF OpInv, ReadInv

\* A call begins, or is cut short.
LEMMA StartStep ==
  ASSUME IInv, NEW o \in ReadOps, NEW r \in Requests, NEW n \in Nat \ {0},
         NEW more \in 0..(MaxChunks - 1), Start(o, r, n, more)
  PROVE  IInv'
<1>1. BackendTypeOK /\ CallTypeOK /\ StageFits /\ SyncTypeOK
  BY TypeSplit DEF IInv
<1>2. at = "idle" /\ UNCHANGED <<transaction_status, early>>
  BY DEF Start
<1>3. CASE Send(o, r, n) /\ chunks' = more /\ carry' = "Ok" /\ UNCHANGED is_broken
  <2>1. OpInv' /\ RestInv' /\ ReadInv' /\ StatusInv'
    BY <1>1, <1>2, <1>3, SendStep DEF IInv
  <2>2. /\ BackendTypeOK' /\ StageFits' /\ op' \in Ops /\ req' \in Requests
        /\ state' \in MachineStates /\ pending_error' \in BOOLEAN
    BY <1>1, <1>3, SendType
  <2>3. at' = "read"
    BY <1>3 DEF Send
  <2>4. CallTypeOK'
    BY <1>1, <1>2, <1>3, <2>2, <2>3 DEF CallTypeOK
  <2>5. QED
    BY <2>1, <2>2, <2>4, TypeSplit DEF IInv, SyncTypeOK, BackendTypeOK, CallTypeOK
<1>4. CASE /\ CutShort(Request(o, r, n)) /\ is_broken' = TRUE
           /\ UNCHANGED <<at, op, req, state, pending_error, chunks, carry>>
  <2>1. BackendTypeOK' /\ StageFits'
    BY <1>1, <1>4, RequestFacts, CutShortType
  <2>2. CallTypeOK'
    BY <1>1, <1>2, <1>4 DEF CallTypeOK
  <2>3. OpInv' /\ RestInv' /\ ReadInv' /\ StatusInv'
    BY <1>2, <1>4, OffCourse DEF Course
  <2>4. QED
    BY <2>1, <2>2, <2>3 DEF IInv, SyncTypeOK, CallTypeOK
<1>5. QED
  BY <1>3, <1>4 DEF Start

\* The next chunk of a batch is written, cut short, or not encoded.
LEMMA ChunkStep ==
  ASSUME IInv, next_chunk
  PROVE  IInv'
<1>1. BackendTypeOK /\ CallTypeOK /\ StageFits /\ SyncTypeOK
  BY TypeSplit DEF IInv
<1>2. at = "chunk" /\ op \in BatchOps /\ chunks > 0 /\ UNCHANGED transaction_status
  BY DEF next_chunk, IInv, OpInv
<1>3. op \in ReadOps /\ op \in ReadyOps /\ 1..MaxBatch \subseteq Nat \ {0}
  BY <1>2, BatchAssumption DEF ReadOps, ReadyOps
<1>4. req \in Requests /\ transaction_status' \in TxStatus
  BY <1>1, <1>2 DEF CallTypeOK
<1>5. ASSUME NEW n \in 1..MaxBatch, Send(op, req, n), chunks' = chunks - 1,
             UNCHANGED <<carry, is_broken, early>>
      PROVE  IInv'
  <2>1. n \in Nat \ {0}
    BY <1>3
  <2>2. OpInv' /\ RestInv' /\ ReadInv' /\ StatusInv'
    BY <1>1, <1>2, <1>3, <1>4, <1>5, <2>1, SendStep DEF IInv
  <2>3. /\ BackendTypeOK' /\ StageFits' /\ op' \in Ops /\ req' \in Requests
        /\ state' \in MachineStates /\ pending_error' \in BOOLEAN
    BY <1>1, <1>3, <1>4, <1>5, <2>1, SendType
  <2>4. at' = "read"
    BY <1>5 DEF Send
  <2>5. chunks' \in 0..(MaxChunks - 1)
    BY <1>1, <1>2, <1>5, BatchAssumption DEF CallTypeOK
  <2>6. CallTypeOK'
    BY <1>1, <1>2, <1>4, <1>5, <2>3, <2>4, <2>5 DEF CallTypeOK
  <2>7. QED
    BY <2>2, <2>3, <2>6 DEF IInv, SyncTypeOK, CallTypeOK
<1>6. ASSUME NEW n \in 1..MaxBatch, CutShort(Request(op, req, n)), Fail("Io")
      PROVE  IInv'
  <2>1. BackendTypeOK' /\ StageFits'
    BY <1>1, <1>3, <1>4, <1>6, RequestFacts, CutShortType
  <2>2. is_broken' = TRUE /\ early' \in {"open", "unread"}
    BY <1>6 DEF Fail, Breaks, is_connection_broken
  <2>3. Return(FALSE)
    BY <1>6 DEF Fail
  <2>4. CallTypeOK' /\ at' \in {"idle", "portal"}
    BY <1>1, <1>4, <2>2, <2>3, ReturnType
  <2>5. OpInv' /\ RestInv' /\ ReadInv' /\ StatusInv'
    BY <2>2, <2>4, OffCourse DEF Course
  <2>6. QED
    BY <2>1, <2>4, <2>5 DEF IInv, SyncTypeOK, CallTypeOK
<1>7. ASSUME Done, UNCHANGED backend
      PROVE  IInv'
  <2>1. UNCHANGED <<todo, stage, skipping, server_tx, at_sync, alive, framing>>
    BY <1>7 DEF backend
  <2>2. op \notin SyncOps
    BY <1>2 DEF BatchOps, SyncOps
  <2>3. Return(TRUE) /\ early' = early /\ is_broken' = is_broken
    BY <1>1, <1>7, <2>2 DEF Done, SyncOps, CallTypeOK
  <2>4. CallTypeOK' /\ at' \in {"idle", "portal"}
    BY <1>1, <1>4, <2>3, ReturnType DEF CallTypeOK
  <2>5. Course' => Course
    BY <2>3 DEF Course
  <2>6. Course' => /\ framing' = "whole" /\ NoReady(todo')
                   /\ early' = "no" => todo' = <<>> /\ ~skipping'
    BY <1>2, <2>1, <2>3, <2>5 DEF IInv, RestInv
  <2>7. StatusInv'
    BY <1>2, <2>1, <2>5 DEF IInv, StatusInv
  <2>8. OpInv' /\ RestInv' /\ ReadInv'
    BY <1>1, <1>7, <2>6, <2>7, DoneStep
  <2>9. QED
    BY <1>1, <2>1, <2>4, <2>7, <2>8 DEF IInv, SyncTypeOK, CallTypeOK, BackendTypeOK, StageFits
<1>8. QED
  BY <1>5, <1>6, <1>7 DEF next_chunk

\* A call that goes through after an answer, or has another chunk to send.
LEMMA FinishStep ==
  ASSUME IInv, at = "read", NEW m, Reply(m), MachineStep(op, state, m) = "Finished", Finish
  PROVE  IInv'
<1>1. BackendTypeOK /\ CallTypeOK /\ StageFits /\ SyncTypeOK /\ op \in ReadOps
  BY TypeSplit DEF IInv, OpInv
<1>2. BackendTypeOK' /\ StageFits'
  BY <1>1, ReplyType, ReplyFacts
<1>3. transaction_status' = IF op \in ReadyOps THEN server_tx ELSE transaction_status
  BY DEF Finish, TakeStatus
<1>4. transaction_status' \in TxStatus
  BY <1>1, <1>3 DEF BackendTypeOK, CallTypeOK
<1>5. op \in ReadyOps => m = "ReadyForQuery"
  BY MachineReady
<1>6. ASSUME Course
      PROVE  /\ framing' = "whole" /\ NoReady(todo')
             /\ early = "no" \/ op \in SyncOps => todo' = <<>> /\ ~skipping'
             /\ at_sync' => transaction_status' = server_tx'
  <2>1. /\ framing' = "whole"
        /\ m = "ReadyForQuery" =>
              op \in ReadyOps /\ todo' = <<>> /\ ~skipping' /\ server_tx' = server_tx
        /\ m # "ReadyForQuery" => Due(op, todo') /\ ~at_sync'
    BY <1>1, <1>6, ReplyStep DEF IInv
  <2>2. CASE m = "ReadyForQuery"
    BY <1>3, <2>1, <2>2 DEF NoReady
  <2>3. CASE m # "ReadyForQuery"
    <3>1. op \notin ReadyOps /\ op \notin SyncOps
      BY <1>5, <2>3 DEF ReadyOps
    <3>2. NoReady(todo') /\ ~at_sync'
      BY <2>1, <2>3, <3>1 DEF Due
    <3>3. ASSUME early = "no"
          PROVE  todo' = <<>> /\ ~skipping'
      <4>1. framing = "whole" /\ Shape(op, todo) /\ (skipping => op \in ReadyOps \ {"query"})
        BY <1>6, <3>3 DEF IInv, ReadInv
      <4>2. Drained'
        BY <1>1, <4>1, LastAnswer
      <4>3. QED
        BY <4>2 DEF Drained
    <3>4. QED
      BY <2>1, <3>1, <3>2, <3>3
  <2>4. QED
    BY <2>2, <2>3
<1>7. CASE MoreChunks
  <2>1. /\ at' = "chunk" /\ state' = "none"
        /\ UNCHANGED <<op, req, pending_error, chunks, carry, is_broken, early>>
    BY <1>7 DEF Finish
  <2>2. "none" \in MachineStates
    BY DEF MachineStates
  <2>3. CallTypeOK'
    BY <1>1, <1>4, <2>1, <2>2 DEF CallTypeOK
  <2>4. Course' => Course
    BY <2>1 DEF Course
  <2>5. OpInv' /\ ReadInv'
    BY <1>7, <2>1 DEF OpInv, ReadInv, MoreChunks
  <2>6. RestInv' /\ StatusInv'
    BY <1>6, <2>1, <2>4 DEF RestInv, StatusInv
  <2>7. QED
    BY <1>2, <2>3, <2>5, <2>6 DEF IInv, SyncTypeOK, CallTypeOK
<1>8. CASE ~MoreChunks
  <2>1. Done
    BY <1>8 DEF Finish
  <2>2. Return(TRUE) /\ is_broken' \in BOOLEAN /\ early' \in {"no", "open", "unread"}
    BY <1>1, <2>1 DEF Done, CallTypeOK
  <2>3. CallTypeOK' /\ at' \in {"idle", "portal"}
    BY <1>1, <1>4, <2>2, ReturnType
  <2>4. Course' => Course /\ (early' = "no" => early = "no" \/ op \in SyncOps)
    BY <1>1, <2>1, DoneCourse
  <2>5. StatusInv'
    BY <1>6, <2>4 DEF StatusInv
  <2>6. Course' => /\ framing' = "whole" /\ NoReady(todo')
                   /\ early' = "no" => todo' = <<>> /\ ~skipping'
    BY <1>6, <2>4
  <2>7. OpInv' /\ RestInv' /\ ReadInv'
    BY <1>1, <2>1, <2>5, <2>6, DoneStep
  <2>8. QED
    BY <1>2, <2>3, <2>5, <2>7 DEF IInv, SyncTypeOK, CallTypeOK
<1>9. QED
  BY <1>7, <1>8

\* A call that fails after a message, whatever the message was, keeps the types.
LEMMA FailType ==
  ASSUME CallTypeOK, NEW e, Fail(e), UNCHANGED transaction_status
  PROVE  CallTypeOK'
<1>1. /\ Return(FALSE) /\ early' \in {"no", "open", "unread"}
      /\ transaction_status' \in TxStatus
  BY DEF Fail, CallTypeOK
<1>2. is_broken' \in BOOLEAN
  BY DEF Fail, CallTypeOK, Breaks, is_connection_broken
<1>3. QED
  BY <1>1, <1>2, ReturnType

\* A call fails on an answer: its machine refuses it, or the caller's handler does.
LEMMA FailReply ==
  ASSUME IInv, at = "read", NEW m, Reply(m), NEW e, Fail(e), UNCHANGED transaction_status
  PROVE  IInv'
<1>1. BackendTypeOK /\ CallTypeOK /\ StageFits /\ SyncTypeOK
  BY TypeSplit DEF IInv
<1>2. BackendTypeOK' /\ StageFits'
  BY <1>1, ReplyType, ReplyFacts
<1>3. Course' => Course /\ op \notin ReadyOps
  BY <1>1, FailCourse DEF Fail, Course
<1>4. ASSUME Course'
      PROVE  framing' = "whole" /\ NoReady(todo') /\ ~at_sync'
  <2>1. Course /\ op \notin ReadyOps
    BY <1>3, <1>4
  <2>2. framing' = "whole" /\ Due(op, todo') /\ ~at_sync'
    BY <1>1, <2>1, ReplyStep DEF IInv
  <2>3. QED
    BY <2>1, <2>2 DEF Due
<1>5. StatusInv'
  BY <1>4 DEF StatusInv
<1>6. OpInv' /\ RestInv' /\ ReadInv'
  BY <1>1, <1>4, <1>5, FailStep
<1>7. QED
  BY <1>1, <1>2, <1>5, <1>6, FailType, TypeSplit DEF IInv, SyncTypeOK, CallTypeOK

\* The machine goes on after an answer.
LEMMA GoOnStep ==
  ASSUME IInv, at = "read", NEW m, Reply(m),
         MachineStep(op, state, m) \notin {"Finished", "LibraryBug"},
         state' = MachineStep(op, state, m),
         UNCHANGED <<is_broken, transaction_status, at, op, req, pending_error, chunks, carry,
                     early>>
  PROVE  IInv'
<1>1. BackendTypeOK /\ CallTypeOK /\ StageFits /\ SyncTypeOK /\ op \in ReadOps
  BY TypeSplit DEF IInv, OpInv
<1>2. BackendTypeOK' /\ StageFits'
  BY <1>1, ReplyType, ReplyFacts
<1>3. state' \in MachineStates
  BY <1>1, MachineType DEF CallTypeOK
<1>4. CallTypeOK'
  BY <1>1, <1>3 DEF CallTypeOK
<1>5. Course' => Course
  BY DEF Course
<1>6. ASSUME Course
      PROVE  framing' = "whole" /\ Due(op, todo') /\ ~at_sync'
  <2>1. /\ framing' = "whole"
        /\ m = "ReadyForQuery" => op \in ReadyOps
        /\ m # "ReadyForQuery" => Due(op, todo') /\ ~at_sync'
    BY <1>1, <1>6, ReplyStep DEF IInv
  <2>2. m # "ReadyForQuery"
    BY <2>1, MachineReady
  <2>3. QED
    BY <2>1, <2>2
<1>7. ASSUME Course, early = "no"
      PROVE  /\ Shape(op, todo') /\ TaggedBy(todo', req)
             /\ skipping' => op \in ReadyOps \ {"query"}
  <2>1. Shape(op, todo) /\ TaggedBy(todo, req) /\ (skipping => op \in ReadyOps \ {"query"})
    BY <1>7 DEF IInv, ReadInv
  <2>2. Shape(op, todo') /\ TaggedBy(todo', req)
    BY <1>1, <2>1, NotLastAnswer
  <2>3. skipping' => skipping
    BY DEF Reply
  <2>4. QED
    BY <2>1, <2>2, <2>3
<1>8. OpInv' /\ RestInv'
  BY DEF IInv, OpInv, RestInv
<1>9. ReadInv' /\ StatusInv'
  BY <1>5, <1>6, <1>7 DEF ReadInv, StatusInv
<1>10. QED
  BY <1>2, <1>4, <1>8, <1>9 DEF IInv, SyncTypeOK, CallTypeOK

\* One message is read.
LEMMA MessageStep ==
  ASSUME IInv, NEW m, read_message(m)
  PROVE  IInv'
<1>1. at = "read" /\ Reply(m)
  BY DEF read_message
<1>2. CASE CallsHandler(op, m) /\ (\E e \in {"Decode", "LibraryBug"} : Fail(e))
                               /\ UNCHANGED transaction_status
  BY <1>1, <1>2, FailReply
<1>3. CASE MachineStep(op, state, m) = "Finished" /\ Finish
  BY <1>1, <1>3, FinishStep
<1>4. CASE Fail("LibraryBug") /\ UNCHANGED transaction_status
  BY <1>1, <1>4, FailReply
<1>5. CASE /\ MachineStep(op, state, m) \notin {"Finished", "LibraryBug"}
           /\ state' = MachineStep(op, state, m)
           /\ UNCHANGED <<is_broken, transaction_status, at, op, req, pending_error, chunks,
                          carry, early>>
  BY <1>1, <1>5, GoOnStep
<1>6. QED
  BY <1>2, <1>3, <1>4, <1>5 DEF read_message

\* The machine keeps an error of the server and reads on.
LEMMA KeepStep ==
  ASSUME IInv, at = "read", ReplyError, MachineError(op) # "Err", KeepError,
         UNCHANGED transaction_status
  PROVE  IInv'
<1>1. BackendTypeOK /\ CallTypeOK /\ StageFits /\ SyncTypeOK /\ op \in ReadOps
  BY TypeSplit DEF IInv, OpInv
<1>2. BackendTypeOK' /\ StageFits' /\ op \in ReadyOps
  BY <1>1, ReplyErrorType, ErrorFacts, KeepersSync
<1>3. MachineError(op) \in MachineStates
  BY DEF MachineError, MachineStates
<1>4. /\ CallTypeOK'
      /\ UNCHANGED <<at, op, req, is_broken, early>>
  BY <1>1, <1>3 DEF CallTypeOK, KeepError
<1>5. /\ todo # <<>> /\ todo \in Seq(Unit) /\ framing' = framing /\ ~at_sync'
      /\ todo' = todo \/ (todo' = Tail(todo) /\ Head(todo).kind # "Sync")
  BY <1>1, ErrorFacts DEF ReadyKinds
<1>6. ASSUME Course
      PROVE  framing' = "whole" /\ Due(op, todo')
  <2>1. framing = "whole" /\ Due(op, todo)
    BY <1>6 DEF IInv, ReadInv
  <2>2. QED
    BY <1>5, <2>1, DueTail
<1>7. ASSUME Course, early = "no"
      PROVE  /\ Shape(op, todo') /\ TaggedBy(todo', req)
             /\ skipping' => op \in ReadyOps \ {"query"}
  <2>1. Shape(op, todo) /\ TaggedBy(todo, req)
    BY <1>7 DEF IInv, ReadInv
  <2>2. QED
    BY <1>1, <1>2, <2>1, ErrorKeepsShape
<1>8. OpInv' /\ RestInv'
  BY <1>4 DEF IInv, OpInv, RestInv, KeepError
<1>9. ReadInv' /\ StatusInv'
  BY <1>4, <1>5, <1>6, <1>7 DEF ReadInv, StatusInv, Course
<1>10. QED
  BY <1>2, <1>4, <1>8, <1>9 DEF IInv, SyncTypeOK, CallTypeOK

\* The server, or the network, goes away in the middle of a call.
LEMMA FatalStep ==
  ASSUME IInv, at = "read", ReplyFatal, MachineError(op) # "Err", KeepError,
         UNCHANGED transaction_status
  PROVE  IInv'
<1>1. BackendTypeOK /\ CallTypeOK
  BY TypeSplit DEF IInv
<1>2. MachineError(op) \in MachineStates
  BY DEF MachineError, MachineStates
<1>3. CallTypeOK'
  BY <1>1, <1>2 DEF CallTypeOK, KeepError
<1>4. /\ UNCHANGED <<todo, stage, skipping, server_tx, framing>> /\ alive' = FALSE /\ ~at_sync'
  BY DEF ReplyFatal
<1>5. BackendTypeOK' /\ StageFits'
  BY <1>1, <1>4 DEF BackendTypeOK, StageFits, ReplyFatal, IInv
<1>6. OpInv' /\ RestInv' /\ ReadInv' /\ StatusInv'
  BY <1>4 DEF IInv, OpInv, RestInv, ReadInv, StatusInv, Course, KeepError
<1>7. QED
  BY <1>3, <1>5, <1>6 DEF IInv, SyncTypeOK, CallTypeOK

\* An error that ends the call at once.
LEMMA ErrStep ==
  ASSUME IInv, at = "read", MachineError(op) = "Err", UNCHANGED transaction_status,
         \/ ReplyError /\ Fail("Server")
         \/ ReplyFatal /\ Fail("Fatal")
  PROVE  IInv'
<1>1. BackendTypeOK /\ CallTypeOK /\ StageFits /\ CallTypeOK'
  BY TypeSplit, FailType DEF IInv
<1>2. CASE ReplyError /\ Fail("Server")
  <2>1. /\ BackendTypeOK' /\ StageFits' /\ ~at_sync' /\ framing' = framing
        /\ todo # <<>> /\ todo \in Seq(Unit) /\ (todo' = todo \/ todo' = Tail(todo))
    BY <1>1, <1>2, ReplyErrorType, ErrorFacts
  <2>2. ASSUME Course', op \notin ReadyOps
        PROVE  framing' = "whole" /\ NoReady(todo')
    <3>1. framing = "whole" /\ NoReady(todo)
      BY <1>1, <1>2, <2>2, FailCourse DEF IInv, ReadInv, Due
    <3>2. QED
      BY <2>1, <3>1, NoReadyTail
  <2>3. StatusInv'
    BY <2>1 DEF StatusInv
  <2>4. OpInv' /\ RestInv' /\ ReadInv'
    BY <1>1, <1>2, <2>2, <2>3, FailStep
  <2>5. QED
    BY <1>1, <2>1, <2>3, <2>4 DEF IInv, SyncTypeOK, CallTypeOK
<1>3. CASE ReplyFatal /\ Fail("Fatal")
  <2>1. BackendTypeOK' /\ StageFits'
    BY <1>1, <1>3 DEF BackendTypeOK, StageFits, ReplyFatal
  <2>2. ~Course' /\ at' \notin {"read", "chunk"}
    BY <1>3 DEF Fail, Return, Course, Breaks, is_connection_broken
  <2>3. OpInv' /\ RestInv' /\ ReadInv' /\ StatusInv'
    BY <2>2, OffCourse
  <2>4. QED
    BY <1>1, <2>1, <2>3 DEF IInv, SyncTypeOK, CallTypeOK
<1>4. QED
  BY <1>2, <1>3

\* An error of the server is read.
LEMMA ErrorStep ==
  ASSUME IInv, read_error
  PROVE  IInv'
<1>1. at = "read" /\ UNCHANGED transaction_status
  BY DEF read_error
<1>2. CASE MachineError(op) = "Err"
  BY <1>1, <1>2, ErrStep DEF read_error
<1>3. CASE MachineError(op) # "Err"
  BY <1>1, <1>3, KeepStep, FatalStep DEF read_error
<1>4. QED
  BY <1>2, <1>3

\* A read fails on a dead connection.
LEMMA ReadFails ==
  ASSUME IInv, read_fails
  PROVE  IInv'
<1>1. BackendTypeOK /\ CallTypeOK /\ Fail("Io") /\ UNCHANGED transaction_status
      /\ UNCHANGED <<todo, stage, skipping, server_tx, at_sync, alive, framing>>
  BY TypeSplit DEF IInv, read_fails, backend
<1>2. CallTypeOK'
  BY <1>1, FailType
<1>3. ~Course' /\ at' \notin {"read", "chunk"}
  BY <1>1 DEF Fail, Return, Course, Breaks, is_connection_broken
<1>4. OpInv' /\ RestInv' /\ ReadInv' /\ StatusInv'
  BY <1>3, OffCourse
<1>5. QED
  BY <1>1, <1>2, <1>4 DEF IInv, SyncTypeOK, CallTypeOK, BackendTypeOK, StageFits

-----------------------------------------------------------------------------
\* Inside exec_portal.
LEMMA PortalStep ==
  ASSUME IInv, NEW o \in {"portal_exec", "portal_sync"}, NEW c \in {"Ok"} \cup Errors,
         portal_call(o, c)
  PROVE  IInv'
<1>1. BackendTypeOK /\ CallTypeOK /\ StageFits /\ SyncTypeOK /\ req \in Requests
  BY TypeSplit DEF IInv, CallTypeOK
<1>2. /\ at = "portal" /\ UNCHANGED <<transaction_status, chunks, early>> /\ carry' = c
      /\ o \in ReadOps /\ 1 \in Nat \ {0}
  BY DEF portal_call, ReadOps, ExecuteOps, SyncOps
<1>3. CASE Send(o, req, 1) /\ UNCHANGED is_broken
  <2>1. OpInv' /\ RestInv' /\ ReadInv' /\ StatusInv'
    BY <1>1, <1>2, <1>3, SendStep DEF IInv
  <2>2. /\ BackendTypeOK' /\ StageFits' /\ op' \in Ops /\ req' \in Requests
        /\ state' \in MachineStates /\ pending_error' \in BOOLEAN /\ at' = "read"
    BY <1>1, <1>2, <1>3, SendType DEF Send
  <2>3. CallTypeOK'
    BY <1>1, <1>2, <1>3, <2>2 DEF CallTypeOK
  <2>4. QED
    BY <2>1, <2>2, <2>3 DEF IInv, SyncTypeOK, CallTypeOK
<1>4. CASE /\ CutShort(Request(o, req, 1)) /\ is_broken' = TRUE
           /\ at' \in {"portal", "idle"} /\ op' \in {"portal", "none"}
           /\ UNCHANGED <<req, state, pending_error>>
  <2>1. BackendTypeOK' /\ StageFits'
    BY <1>1, <1>2, <1>4, RequestFacts, CutShortType
  <2>2. CallTypeOK'
    BY <1>1, <1>2, <1>4 DEF CallTypeOK, Ops
  <2>3. OpInv' /\ RestInv' /\ ReadInv' /\ StatusInv'
    BY <1>4, OffCourse DEF Course
  <2>4. QED
    BY <2>1, <2>2, <2>3 DEF IInv, SyncTypeOK, CallTypeOK
<1>5. QED
  BY <1>3, <1>4 DEF portal_call

\* A Flush is written, or cut short.
LEMMA FlushStep ==
  ASSUME IInv, lowlevel_flush
  PROVE  IInv'
<1>1. /\ BackendTypeOK /\ CallTypeOK /\ at = "idle"
      /\ UNCHANGED <<todo, stage, skipping, server_tx, at_sync, alive, is_broken,
                     transaction_status, at, op, req, state, pending_error, chunks, carry>>
  BY TypeSplit DEF IInv, lowlevel_flush
<1>2. CASE UNCHANGED <<framing, early>>
  BY <1>1, <1>2 DEF IInv, SyncTypeOK, BackendTypeOK, StageFits, OpInv, RestInv, ReadInv,
                    StatusInv, Course
<1>3. CASE framing' \in {framing, "torn"} /\ early' = "unread"
  <2>1. BackendTypeOK' /\ CallTypeOK' /\ StageFits'
    BY <1>1, <1>3 DEF BackendTypeOK, CallTypeOK, StageFits, IInv
  <2>2. OpInv' /\ RestInv' /\ ReadInv' /\ StatusInv'
    BY <1>1, <1>3, OffCourse DEF Course
  <2>3. QED
    BY <2>1, <2>2 DEF IInv, SyncTypeOK, CallTypeOK
<1>4. QED
  BY <1>2, <1>3 DEF lowlevel_flush

\* The connection closes, the server dies, or a step changes nothing.
LEMMA QuietStep ==
  ASSUME IInv, alive' \in BOOLEAN, at' \in {at, "closed"},
         UNCHANGED <<todo, stage, skipping, server_tx, at_sync, framing, is_broken,
                     transaction_status, op, req, state, pending_error, chunks, carry, early>>
  PROVE  IInv'
<1>1. SyncTypeOK'
  BY DEF IInv, SyncTypeOK, BackendTypeOK
<1>2. StageFits' /\ OpInv' /\ RestInv' /\ ReadInv' /\ StatusInv'
  BY DEF IInv, StageFits, OpInv, RestInv, ReadInv, StatusInv, Course
<1>3. QED
  BY <1>1, <1>2 DEF IInv

\* The server drops what precedes the next Sync.
LEMMA DiscardStep ==
  ASSUME IInv, ServerDiscard,
         UNCHANGED <<is_broken, transaction_status, at, op, req, state, pending_error, chunks,
                     carry, early>>
  PROVE  IInv'
<1>1. BackendTypeOK /\ CallTypeOK
  BY TypeSplit DEF IInv
<1>2. /\ todo # <<>> /\ todo \in Seq(Unit) /\ skipping /\ Head(todo).kind # "Sync"
      /\ todo' = Tail(todo) /\ StageFits'
      /\ UNCHANGED <<skipping, server_tx, at_sync, alive, framing>>
  BY <1>1, DiscardFacts DEF IInv
<1>3. BackendTypeOK'
  BY <1>1, <1>2, TailFacts, StageOfType DEF BackendTypeOK, ServerDiscard
<1>4. CallTypeOK' /\ OpInv'
  BY <1>1 DEF CallTypeOK, IInv, OpInv
<1>5. RestInv'
  BY <1>2, NoReadyTail DEF IInv, RestInv, Course
<1>6. ASSUME at = "read", Course
      PROVE  framing' = "whole" /\ Due(op, todo')
  BY <1>2, <1>6, DueTail DEF IInv, ReadInv
<1>7. ASSUME at = "read", Course, early = "no"
      PROVE  /\ Shape(op, todo') /\ TaggedBy(todo', req)
             /\ skipping' => op \in ReadyOps \ {"query"}
  BY <1>2, <1>7, ShapeTail DEF IInv, ReadInv
<1>8. ReadInv'
  BY <1>6, <1>7 DEF ReadInv, Course
<1>9. StatusInv'
  BY <1>2 DEF IInv, StatusInv, Course
<1>10. QED
  BY <1>2, <1>3, <1>4, <1>5, <1>8, <1>9 DEF IInv, SyncTypeOK, CallTypeOK

-----------------------------------------------------------------------------
\* The invariant holds initially.
LEMMA InitInv == SyncInit => IInv
<1> SUFFICES ASSUME SyncInit PROVE IInv
  OBVIOUS
<1>1. BackendTypeOK /\ todo = <<>>
  <2>1. <<>> \in Seq(Unit)
    OBVIOUS
  <2>2. QED
    BY <2>1 DEF SyncInit, BackendInit, BackendTypeOK, Stages, TxStatus
<1>2. CallTypeOK
  <2>1. 0 \in 0..(MaxChunks - 1)
    BY BatchAssumption
  <2>2. QED
    BY <2>1 DEF SyncInit, CallTypeOK, TxStatus, Ops, MachineStates
<1>3. StageFits /\ OpInv /\ RestInv /\ ReadInv /\ StatusInv
  BY <1>1 DEF SyncInit, BackendInit, StageFits, OpInv, RestInv, ReadInv, StatusInv, NoReady
<1>4. QED
  BY <1>1, <1>2, <1>3, TypeSplit DEF IInv

\* Every step preserves it.
LEMMA NextInv == IInv /\ [SyncNext]_syncvars => IInv'
<1> SUFFICES ASSUME IInv, [SyncNext]_syncvars PROVE IInv'
  OBVIOUS
<1>1. ASSUME NEW r \in Requests, Call(r)
      PROVE  IInv'
  BY <1>1, CallFacts, StartStep
<1>2. CASE lowlevel_flush
  BY <1>2, FlushStep
<1>3. CASE next_chunk
  BY <1>3, ChunkStep
<1>4. ASSUME NEW m \in Messages, read_message(m)
      PROVE  IInv'
  BY <1>4, MessageStep
<1>5. CASE read_error
  BY <1>5, ErrorStep
<1>6. CASE read_async
  <2>1. UNCHANGED <<todo, stage, skipping, server_tx, at_sync, alive, framing, is_broken,
                    transaction_status, at, op, req, state, pending_error, chunks, carry,
                    early>>
    BY <1>6 DEF read_async, ReplyAsync, backend, MachineAsync
  <2>2. alive' \in BOOLEAN
    BY <2>1 DEF IInv, SyncTypeOK, BackendTypeOK
  <2>3. QED
    BY <2>1, <2>2, QuietStep
<1>7. CASE read_fails
  BY <1>7, ReadFails
<1>8. CASE portal_exec
  <2>1. carry \in {"Ok"} \cup Errors
    BY DEF IInv, SyncTypeOK
  <2>2. QED
    BY <1>8, <2>1, PortalStep DEF portal_exec
<1>9. CASE portal_return
  BY <1>9, PortalStep DEF portal_return, Errors
<1>10. CASE close
  BY <1>10, QuietStep DEF close
<1>11. CASE Environment
  <2>1. CASE ServerDiscard
    BY <1>11, <2>1, DiscardStep DEF Environment
  <2>2. CASE PeerDies
    BY <1>11, <2>2, QuietStep DEF Environment, PeerDies
  <2>3. QED
    BY <1>11, <2>1, <2>2 DEF Environment
<1>12. CASE UNCHANGED syncvars
  <2>1. UNCHANGED <<todo, stage, skipping, server_tx, at_sync, alive, framing, is_broken,
                    transaction_status, at, op, req, state, pending_error, chunks, carry,
                    early>>
    BY <1>12 DEF syncvars, backend
  <2>2. alive' \in BOOLEAN
    BY <2>1 DEF IInv, SyncTypeOK, BackendTypeOK
  <2>3. QED
    BY <2>1, <2>2, QuietStep
<1>13. QED
  BY <1>1, <1>2, <1>3, <1>4, <1>5, <1>6, <1>7, <1>8, <1>9, <1>10, <1>11, <1>12 DEF SyncNext

\* The invariant holds in every reachable state.
LEMMA Invariance == SyncSpec => []IInv
  BY InitInv, NextInv, PTL DEF SyncSpec

-----------------------------------------------------------------------------
\* Every variable of the blocking connection and of the server stays within its
\* type, whatever the sequence of calls.
THEOREM SyncTypeCorrect == SyncSpec => []SyncTypeOK
<1>1. IInv => SyncTypeOK
  BY DEF IInv
<1>2. QED
  BY <1>1, Invariance, PTL

\* However calls end, a connection that no early return has left out of step has
\* nothing unread, and the transaction status by which transaction() decides is the
\* server's.
THEOREM SyncDrained == SyncSpec => []DrainedUnlessEarly
<1>1. IInv => DrainedUnlessEarly
  BY DEF IInv, RestInv, StatusInv, Course, DrainedUnlessEarly, InStep, Drained
<1>2. QED
  BY <1>1, Invariance, PTL

\* The blocking drive loops stop where their own exchange ends: a call meets only
\* its own answers.
THEOREM SyncReadsOwn == SyncSpec => []SyncOwnAnswers
<1>1. ASSUME IInv
      PROVE  SyncOwnAnswers
  <2>1. todo \in Seq(Unit)
    BY <1>1 DEF IInv, SyncTypeOK, BackendTypeOK
  <2>2. DOMAIN todo = 1..Len(todo)
    BY <2>1
  <2>3. QED
    BY <1>1, <2>2 DEF IInv, ReadInv, Course, InStep, SyncOwnAnswers, TaggedBy
<1>2. QED
  BY <1>1, Invariance, PTL

\* A call of a connection in step never waits for a server that owes it nothing.
THEOREM SyncAnswerDue == SyncSpec => []SyncNeverHangs
<1>1. ASSUME IInv
      PROVE  SyncNeverHangs
  <2> SUFFICES ASSUME at = "read", InStep
               PROVE  \E i \in DOMAIN todo : skipping => todo[i].kind = "Sync"
    BY DEF SyncNeverHangs
  <2>1. todo \in Seq(Unit) /\ op \in ReadOps
    BY <1>1 DEF IInv, SyncTypeOK, BackendTypeOK, OpInv
  <2>2. Shape(op, todo) /\ (skipping => op \in ReadyOps \ {"query"})
    BY <1>1 DEF IInv, ReadInv, Course, InStep
  <2>3. Len(todo) \in Nat /\ Len(todo) >= 1 /\ DOMAIN todo = 1..Len(todo)
    BY <2>1, <2>2 DEF Shape
  <2>4. Len(todo) \in DOMAIN todo
    BY <2>3
  <2>5. skipping => todo[Len(todo)].kind = "Sync"
    BY <2>2 DEF Shape
  <2>6. QED
    BY <2>4, <2>5
<1>2. QED
  BY <1>1, Invariance, PTL

-----------------------------------------------------------------------------
(***************************************************************************)
(* The pipeline on it.                                                     *)
(***************************************************************************)

\* Cleanup reads past the error of a statement and goes on with answers that the
\* server has dropped: what is on the wire is what queue q expects, perhaps with
\* statements in front of it that cleanup has passed.
Late(w, q) == \E p \in Seq(Unit) : NoSync(p) /\ OfKinds(w, Encoded) = p \o q

\* A future of the handle waits for an answer.
Reading == pc \in {"claim", "syncs", "drain_read"}

\* What is still to be read, the expectation being read included.
Queue == IF Reading THEN <<cur>> \o expectations ELSE expectations

\* What the server still has to read or answer, in order.
Wire == todo \o write_buffer

Draining == pc \in {"drain", "drain_read"}

-----------------------------------------------------------------------------
\* Lemmas about the queue and the wire.

\* What follows the first Sync has all the Syncs.
LEMMA SinceSyncs ==
  ASSUME NEW q \in Seq(Unit)
  PROVE  OfKinds(Since(q), {"Sync"}) = OfKinds(q, {"Sync"})
<1> DEFINE P == {p \in Seq(Unit) : OfKinds(Since(p), {"Sync"}) = OfKinds(p, {"Sync"})}
<1>1. <<>> \in P
  <2>1. <<>> \in Seq(Unit)
    OBVIOUS
  <2>2. QED
    BY <2>1, SinceFacts
<1>2. ASSUME NEW p \in P \cap Seq(Unit), NEW x \in Unit
      PROVE  Append(p, x) \in P
  <2> DEFINE s == Since(p)
  <2>1. Append(p, x) \in Seq(Unit) /\ s \in Seq(Unit)
    BY SinceFacts
  <2>2. Since(Append(p, x)) =
          IF x.kind = "Torn" \/ (s = <<>> /\ x.kind # "Sync") THEN s ELSE Append(s, x)
    BY SinceFacts
  <2> HIDE DEF s
  <2>3. /\ OfKinds(Append(p, x), {"Sync"}) =
             IF x.kind \in {"Sync"} THEN Append(OfKinds(p, {"Sync"}), x)
             ELSE OfKinds(p, {"Sync"})
        /\ OfKinds(Append(s, x), {"Sync"}) =
             IF x.kind \in {"Sync"} THEN Append(OfKinds(s, {"Sync"}), x)
             ELSE OfKinds(s, {"Sync"})
    BY <2>1, OfKindsFacts
  <2>4. OfKinds(s, {"Sync"}) = OfKinds(p, {"Sync"})
    BY DEF s
  <2>5. OfKinds(Since(Append(p, x)), {"Sync"}) = OfKinds(Append(p, x), {"Sync"})
    <3>1. CASE x.kind = "Sync"
      BY <2>2, <2>3, <2>4, <3>1
    <3>2. CASE x.kind # "Sync"
      <4>1. Since(Append(p, x)) = s \/ Since(Append(p, x)) = Append(s, x)
        BY <2>2
      <4>2. OfKinds(Append(s, x), {"Sync"}) = OfKinds(s, {"Sync"})
        BY <2>3, <3>2
      <4>3. OfKinds(Append(p, x), {"Sync"}) = OfKinds(p, {"Sync"})
        BY <2>3, <3>2
      <4>4. QED
        BY <2>4, <4>1, <4>2, <4>3
    <3>3. QED
      BY <3>1, <3>2
  <2>6. QED
    BY <2>1, <2>5
<1> HIDE DEF P
<1>3. Seq(Unit) \subseteq P
  BY <1>1, <1>2, SeqInduct
<1>4. QED
  BY <1>3 DEF P

\* Whatever else is lost, as many Syncs are expected as the server has to answer.
LEMMA MatchSyncs ==
  ASSUME NEW w, NEW q, NEW ab, Match(w, q, ab)
  PROVE  OfKinds(w, {"Sync"}) = OfKinds(q, {"Sync"})
<1>1. w \in Seq(Unit) /\ q \in Seq(Unit) /\ (OfKinds(w, Encoded) = q \/ Since(w) = Since(q))
  BY DEF Match
<1>2. Since(w) = Since(q)
  BY <1>1, SinceOfKinds
<1>3. QED
  BY <1>1, <1>2, SinceSyncs

\* What matches in full matches from the first Sync on.
LEMMA MatchAbort ==
  ASSUME NEW w, NEW q, Match(w, q, FALSE)
  PROVE  Match(w, q, TRUE)
<1>1. w \in Seq(Unit) /\ OfKinds(w, Encoded) = q
  BY DEF Match
<1>2. Since(w) = Since(q)
  BY <1>1, SinceOfKinds
<1>3. QED
  BY <1>2 DEF Match

\* Cleanup that has passed nothing is not late.
LEMMA LateMatch ==
  ASSUME NEW w, NEW q, Match(w, q, FALSE)
  PROVE  Late(w, q)
<1>1. OfKinds(w, Encoded) = q /\ q \in Seq(Unit)
  BY DEF Match
<1>2. <<>> \in Seq(Unit) /\ <<>> \o q = q /\ NoSync(<<>>)
  BY <1>1 DEF NoSync, Kinded
<1>3. QED
  BY <1>1, <1>2 DEF Late

\* A statement leaves the wire before the Sync that cleanup waits for.
LEMMA LateTail ==
  ASSUME NEW w \in Seq(Unit), NEW q \in Seq(Unit), Late(w, q), w # <<>>,
         Head(w).kind \in ExecKinds, SyncInFront(q)
  PROVE  Late(Tail(w), q)
<1>1. PICK p \in Seq(Unit) : NoSync(p) /\ OfKinds(w, Encoded) = p \o q
  BY DEF Late
<1>2. Tail(w) \in Seq(Unit) /\ Head(w) \in Unit /\ OfKinds(Tail(w), Encoded) \in Seq(Unit)
  BY TailFacts, OfKindsFacts
<1>3. p \o q = <<Head(w)>> \o OfKinds(Tail(w), Encoded)
  BY <1>1, OfKindsHead, KindFacts
<1>4. Head(p \o q) = Head(w) /\ Tail(p \o q) = OfKinds(Tail(w), Encoded)
  BY <1>2, <1>3, ConsFacts
<1>5. p # <<>>
  <2>1. p = <<>> => p \o q = q
    OBVIOUS
  <2>2. QED
    BY <1>4, <2>1, KindFacts DEF SyncInFront
<1>6. Tail(p \o q) = Tail(p) \o q /\ Tail(p) \in Seq(Unit)
  BY <1>5, FrontFacts, TailFacts
<1>7. NoSync(Tail(p))
  BY <1>1, <1>5, KindedFacts DEF NoSync
<1>8. QED
  BY <1>4, <1>6, <1>7 DEF Late

\* A unit put behind one sequence or in front of the next.
LEMMA AppendConcat ==
  ASSUME NEW p \in Seq(Unit), NEW q \in Seq(Unit), NEW x \in Unit
  PROVE  Append(p, x) \o q = p \o (<<x>> \o q)
<1> DEFINE r == <<x>> \o q
           l == Append(p, x)
           a == l \o q
           b == p \o r
<1>1. /\ r \in Seq(Unit) /\ Len(r) = Len(q) + 1 /\ r[1] = x
      /\ \A i \in 1..Len(q) : r[i + 1] = q[i]
  OBVIOUS
<1>2. /\ l \in Seq(Unit) /\ Len(l) = Len(p) + 1 /\ l[Len(p) + 1] = x
      /\ \A i \in 1..Len(p) : l[i] = p[i]
  OBVIOUS
<1> HIDE DEF r, l
<1>3. /\ a \in Seq(Unit) /\ Len(a) = Len(l) + Len(q)
      /\ \A i \in 1..Len(l) : a[i] = l[i]
      /\ \A i \in 1..Len(q) : a[Len(l) + i] = q[i]
  BY <1>2
<1>4. /\ b \in Seq(Unit) /\ Len(b) = Len(p) + Len(r)
      /\ \A i \in 1..Len(p) : b[i] = p[i]
      /\ \A i \in 1..Len(r) : b[Len(p) + i] = r[i]
  BY <1>1
<1> HIDE DEF a, b
<1>5. Len(p) \in Nat /\ Len(q) \in Nat
  OBVIOUS
<1>6. ASSUME NEW i \in 1..Len(a)
      PROVE  a[i] = b[i]
  <2>1. CASE i \in 1..Len(p)
    BY <1>2, <1>3, <1>4, <1>5, <2>1
  <2>2. CASE i = Len(p) + 1
    <3>1. 1 \in 1..Len(r) /\ i \in 1..Len(l)
      BY <1>1, <1>2, <1>5, <2>2
    <3>2. QED
      BY <1>1, <1>2, <1>3, <1>4, <2>2, <3>1
  <2>3. CASE i > Len(p) + 1
    <3> DEFINE j == i - (Len(p) + 1)
    <3>1. j \in 1..Len(q) /\ j + 1 \in 1..Len(r) /\ i = Len(l) + j /\ i = Len(p) + (j + 1)
      BY <1>1, <1>2, <1>3, <1>5, <2>3
    <3> HIDE DEF j
    <3>2. a[i] = q[j] /\ b[i] = r[j + 1] /\ r[j + 1] = q[j]
      BY <1>1, <1>3, <1>4, <3>1
    <3>3. QED
      BY <3>2
  <2>4. i \in Nat /\ i >= 1
    BY <1>2, <1>3, <1>5
  <2>5. i \in 1..Len(p) \/ i = Len(p) + 1 \/ i > Len(p) + 1
    BY <1>5, <2>4
  <2>6. QED
    BY <2>1, <2>2, <2>3, <2>5
<1>7. Len(a) = Len(b)
  BY <1>1, <1>2, <1>3, <1>4, <1>5
<1>8. a = b
  BY <1>3, <1>4, <1>6, <1>7
<1>9. QED
  BY <1>8 DEF a, b, l, r

\* Cleanup passes the statement in front of its queue: the server is at a statement
\* too, and may be done with it.
LEMMA LateNext ==
  ASSUME NEW w \in Seq(Unit), Kinded(w, WireKinds), NEW x \in Unit, NEW q \in Seq(Unit),
         x.kind \in ExecKinds, Late(w, <<x>> \o q)
  PROVE  /\ w # <<>> /\ Head(w).kind \in ExecKinds \cup {"Torn"}
         /\ Late(w, q)
         /\ Head(w).kind \in ExecKinds => Late(Tail(w), q)
<1>1. PICK p \in Seq(Unit) : NoSync(p) /\ OfKinds(w, Encoded) = p \o (<<x>> \o q)
  BY DEF Late
<1> DEFINE l == Append(p, x)
<1>2. /\ l \in Seq(Unit) /\ l # <<>> /\ l \o q = p \o (<<x>> \o q)
      /\ Head(l) = IF p = <<>> THEN x ELSE Head(p)
  <2>1. l \o q = p \o (<<x>> \o q)
    BY AppendConcat
  <2>2. l \in Seq(Unit) /\ l # <<>>
    <3>1. l \in Seq(Unit) /\ Len(l) = Len(p) + 1 /\ Len(p) \in Nat
      OBVIOUS
    <3>2. Len(<<>>) = 0
      OBVIOUS
    <3> HIDE DEF l
    <3>3. QED
      BY <3>1, <3>2
  <2>3. Head(l) = IF p = <<>> THEN x ELSE Head(p)
    <3>1. CASE p = <<>>
      BY <3>1
    <3>2. CASE p # <<>>
      BY <3>2
    <3>3. QED
      BY <3>1, <3>2
  <2>4. QED
    BY <2>1, <2>2, <2>3
<1>3. NoSync(l)
  <2>1. x.kind \in Kinds \ {"Sync"}
    BY KindFacts DEF Unit
  <2>2. QED
    BY <1>1, <2>1, KindedFacts DEF NoSync
<1> HIDE DEF l
<1>4. OfKinds(w, Encoded) = l \o q
  BY <1>1, <1>2
<1>5. Late(w, q)
  BY <1>2, <1>3, <1>4 DEF Late
<1>6. w # <<>>
  <2>1. l \o q # <<>>
    BY <1>2
  <2>2. QED
    BY <1>4, <2>1, OfKindsFacts
<1>7. Head(w) \in Unit /\ Head(w).kind \in WireKinds /\ Tail(w) \in Seq(Unit)
  BY <1>6, TailFacts, KindedFacts
<1>8. ASSUME Head(w).kind # "Torn"
      PROVE  Head(w).kind \in ExecKinds /\ Late(Tail(w), q)
  <2>1. OfKinds(Tail(w), Encoded) \in Seq(Unit)
    BY <1>7, OfKindsFacts
  <2>2. l \o q = <<Head(w)>> \o OfKinds(Tail(w), Encoded)
    BY <1>4, <1>6, <1>7, <1>8, OfKindsHead, KindFacts
  <2>3. /\ Head(l) = Head(w) /\ Tail(l) \o q = OfKinds(Tail(w), Encoded)
        /\ Tail(l) \in Seq(Unit)
    <3>1. Head(l \o q) = Head(w) /\ Tail(l \o q) = OfKinds(Tail(w), Encoded)
      BY <1>7, <2>1, <2>2, ConsFacts
    <3>2. QED
      BY <1>2, <3>1, FrontFacts, TailFacts
  <2>4. Head(l).kind # "Sync" /\ NoSync(Tail(l))
    BY <1>2, <1>3, KindedFacts DEF NoSync
  <2>5. Head(w).kind \in ExecKinds
    BY <1>7, <1>8, <2>3, <2>4 DEF WireKinds
  <2>6. QED
    BY <2>3, <2>4, <2>5 DEF Late
<1>9. QED
  BY <1>5, <1>6, <1>7, <1>8, KindFacts

-----------------------------------------------------------------------------
\* The inductive invariant.

\* What the server still answers is what the handle expects.  In full, while no
\* statement failed and cleanup is not late; from the first Sync on in any case.  The
\* server skips only what the handle passes over.
WireInv ==
  /\ framing = "whole" /\ Match(Wire, Queue, TRUE)
  /\ ~aborted => IF Draining THEN Late(Wire, Queue) ELSE Match(Wire, Queue, FALSE)
  /\ skipping => aborted \/ (Draining /\ SyncInFront(Queue))

\* Where the Syncs are: none is left in the buffer.
BufferInv ==
  /\ pc # "ready" => write_buffer = <<>>
  /\ NoSync(write_buffer)
  /\ Closed(todo)
  /\ write_buffer = <<>> => Closed(Queue)

\* Cleanup drains to a Sync, and a handle without tickets left nothing behind.
DrainInv ==
  /\ pc = "drain_read" => EndsInSync(Queue)
  /\ pc = "drain" => IF expectations = <<>> THEN todo = <<>> /\ ~skipping
                     ELSE EndsInSync(expectations)
  /\ pc = "ready" /\ queue_seq = 0 =>
       write_buffer = <<>> /\ (expectations = <<>> => todo = <<>> /\ ~skipping)

\* The tickets not claimed yet have their statements in the queue, before any Sync
\* that is read with them.
TicketInv ==
  /\ pc \in {"ready", "claim", "syncs"} =>
       TicketsFor(Queue, claim_seq, queue_seq, ticketless)
  /\ pc = "ready" /\ aborted /\ SyncInFront(expectations) => Kinded(expectations, {"Sync"})

\* What each future waits for.
AnswerInv ==
  /\ pc = "claim" => cur.kind \in ExecKinds /\ ~aborted
  /\ pc = "syncs" => cur.kind = "Sync"
  /\ pc = "drain_read" /\ aborted => cur.kind = "Sync"
  /\ at_sync => transaction_status = server_tx

CourseInv ==
  at = "pipe" /\ OnCourse => WireInv /\ BufferInv /\ DrainInv /\ TicketInv /\ AnswerInv

\* A handle borrows a connection in step; one that lost its place is not used again.
HandleInv ==
  /\ pc = "claim" => check_sequence
  /\ at = "pipe" => early = "no"
  /\ astray => at \in {"pipe", "idle"}
  /\ at # "pipe" /\ ~astray => IInv

\* The fields of the connection that the handle only borrows.
BorrowTypeOK ==
  /\ op \in Ops /\ req \in Requests
  /\ state \in MachineStates /\ pending_error \in BOOLEAN
  /\ chunks \in 0..(MaxChunks - 1)
  /\ carry \in {"Ok"} \cup Errors
  /\ early \in {"no", "open", "unread"}

HandleOK == SPTypeOK /\ BorrowTypeOK /\ StageFits /\ HandleInv

\* SyncsMatch alone is not inductive: that a Sync leaves the queue when it leaves the
\* wire depends on what is in front of it, which an aborted handle passes over and a
\* server that skips drops, each at its own pace.
SPInv == HandleOK /\ CourseInv

-----------------------------------------------------------------------------
\* Types.

\* The parts of SPTypeOK about the handle's counters, its futures and its place.
CountTypeOK ==
  /\ is_broken \in BOOLEAN /\ transaction_status \in TxStatus
  /\ queue_seq \in 0..MaxQueue /\ claim_seq \in 0..queue_seq
  /\ ticketless \subseteq 0..MaxQueue /\ aborted \in BOOLEAN

FutureTypeOK ==
  /\ expectations \in Seq(Unit) /\ write_buffer \in Seq(Unit)
  /\ pc \in {"none", "ready", "claim", "syncs", "drain", "drain_read"}
  /\ cur \in Unit /\ cstate \in ClaimStates

PlaceTypeOK ==
  /\ at \in {"idle", "read", "chunk", "portal", "closed", "pipe"}
  /\ at = "pipe" <=> pc # "none"
  /\ astray \in BOOLEAN

\* SPTypeOK with its parts.
LEMMA SPTypeSplit ==
  SPTypeOK <=> BackendTypeOK /\ CountTypeOK /\ FutureTypeOK /\ PlaceTypeOK
  BY DEF SPTypeOK, CountTypeOK, FutureTypeOK, PlaceTypeOK

\* What the types say of a state that keeps the invariant.
LEMMA HandleFacts ==
  ASSUME HandleOK
  PROVE  /\ BackendTypeOK /\ CountTypeOK /\ FutureTypeOK /\ PlaceTypeOK /\ StageFits
         /\ req \in Requests /\ aborted \in BOOLEAN /\ is_broken \in BOOLEAN
         /\ todo \in Seq(Unit) /\ expectations \in Seq(Unit) /\ write_buffer \in Seq(Unit)
         /\ cur \in Unit /\ claim_seq \in Nat /\ queue_seq \in Nat /\ claim_seq <= queue_seq
         /\ MaxQueue \in Nat /\ 0..MaxQueue \subseteq Nat
<1>1. /\ BackendTypeOK /\ CountTypeOK /\ FutureTypeOK /\ PlaceTypeOK /\ StageFits
      /\ req \in Requests
  BY SPTypeSplit DEF HandleOK, BorrowTypeOK
<1>2. MaxQueue \in Nat /\ 0..MaxQueue \subseteq Nat
  BY PipelineAssumption
<1>3. claim_seq \in Nat /\ queue_seq \in Nat /\ claim_seq <= queue_seq
  BY <1>1, <1>2 DEF CountTypeOK
<1>4. QED
  BY <1>1, <1>2, <1>3 DEF BackendTypeOK, CountTypeOK, FutureTypeOK

\* The types after a step of a handle that stays open.
LEMMA HandleStep ==
  ASSUME HandleOK, at = "pipe", at' = at, UnusedByHandle, BackendTypeOK', StageFits',
         CountTypeOK', FutureTypeOK', pc' # "none", astray' \in BOOLEAN,
         pc' = "claim" => check_sequence'
  PROVE  HandleOK'
<1>1. PlaceTypeOK'
  BY DEF PlaceTypeOK
<1>2. SPTypeOK'
  BY <1>1, SPTypeSplit DEF SPTypeOK, CountTypeOK, FutureTypeOK, PlaceTypeOK
<1>3. BorrowTypeOK'
  BY DEF HandleOK, BorrowTypeOK, UnusedByHandle
<1>4. HandleInv'
  BY DEF HandleOK, HandleInv, UnusedByHandle
<1>5. QED
  BY <1>2, <1>3, <1>4 DEF HandleOK

\* A future ends or pauses.
LEMMA AtType ==
  ASSUME req \in Requests, expectations' \in Seq(Unit), write_buffer' \in Seq(Unit),
         NEW p \in {"ready", "drain"}, At(p)
  PROVE  FutureTypeOK' /\ pc' = p
  BY DEF FutureTypeOK, At, U, Unit, Kinds, ClaimStates

\* Reading a Sync, or the end.
LEMMA PendingSyncsType ==
  ASSUME req \in Requests, write_buffer' \in Seq(Unit), NEW q \in Seq(Unit), PendingSyncs(q)
  PROVE  FutureTypeOK' /\ pc' \in {"ready", "syncs"}
<1>1. CASE SyncInFront(q)
  <2>1. Head(q) \in Unit /\ Tail(q) \in Seq(Unit)
    BY <1>1, TailFacts DEF SyncInFront
  <2>2. QED
    BY <1>1, <2>1 DEF PendingSyncs, FutureTypeOK, ClaimStates
<1>2. CASE ~SyncInFront(q)
  BY <1>2, AtType DEF PendingSyncs, Ready
<1>3. QED
  BY <1>1, <1>2

\* What claims read next.
LEMMA ClaimFrontType ==
  ASSUME HandleOK, check_sequence, write_buffer' \in Seq(Unit), NEW q \in Seq(Unit),
         ClaimFront(q), UNCHANGED <<transaction_status, queue_seq, ticketless>>
  PROVE  /\ FutureTypeOK' /\ CountTypeOK' /\ pc' # "none"
         /\ pc' = "claim" => check_sequence'
<1>0. req \in Requests /\ CountTypeOK /\ claim_seq \in Nat /\ queue_seq \in Nat
  BY HandleFacts
<1>1. CASE ~aborted /\ q # <<>> /\ Head(q).kind \in ExecKinds
  <2>1. Head(q) \in Unit /\ Tail(q) \in Seq(Unit)
    BY <1>1, TailFacts
  <2>2. /\ cur' = Head(q) /\ expectations' = Tail(q) /\ pc' = "claim"
        /\ cstate' = claim_start(Head(q).kind) /\ UNCHANGED <<is_broken, aborted, claim_seq>>
    BY <1>1 DEF ClaimFront
  <2>3. FutureTypeOK'
    BY <2>1, <2>2 DEF FutureTypeOK, claim_start, ClaimStates
  <2>4. CountTypeOK' /\ check_sequence'
    BY <1>0, <2>2 DEF CountTypeOK, check_sequence
  <2>5. QED
    BY <2>2, <2>3, <2>4
<1>2. CASE ~(~aborted /\ q # <<>> /\ Head(q).kind \in ExecKinds)
  <2>1. /\ is_broken' = (is_broken \/ ~aborted) /\ aborted' = TRUE
        /\ claim_seq' = claim_seq + 1 /\ PendingSyncs(PopFront(q))
    BY <1>2 DEF ClaimFront
  <2>2. PopFront(q) \in Seq(Unit)
    BY TailFacts DEF PopFront
  <2>3. FutureTypeOK' /\ pc' \in {"ready", "syncs"}
    BY <1>0, <2>1, <2>2, PendingSyncsType
  <2>4. claim_seq + 1 \in 0..queue_seq
    BY <1>0 DEF check_sequence
  <2>5. CountTypeOK'
    BY <1>0, <2>1, <2>4 DEF CountTypeOK
  <2>6. QED
    BY <2>3, <2>5
<1>3. QED
  BY <1>1, <1>2

\* The Sync that is put behind a queue.
LEMMA WithSyncType ==
  ASSUME req \in Requests, NEW q \in Seq(Unit)
  PROVE  /\ U("Sync", req) \in Unit /\ U("Sync", req).kind = "Sync"
         /\ WithSync(q) \in Seq(Unit) /\ WithSync(q) = Append(q, U("Sync", req))
<1>1. U("Sync", req) \in Unit /\ U("Sync", req).kind = "Sync"
  BY DEF U, Unit, Kinds
<1>2. QED
  BY <1>1 DEF WithSync

\* A sync that is written, and one that fails.
LEMMA SyncWrittenType ==
  ASSUME HandleOK, SyncWritten
  PROVE  BackendTypeOK' /\ StageFits' /\ write_buffer' \in Seq(Unit)
<1>0. /\ BackendTypeOK /\ StageFits /\ req \in Requests /\ write_buffer \in Seq(Unit)
  BY HandleFacts
<1>1. WithSync(write_buffer) \in Seq(Unit) /\ Deliver(WithSync(write_buffer))
  BY <1>0, WithSyncType DEF SyncWritten
<1>2. framing' \in {"whole", "torn"} /\ write_buffer' \in Seq(Unit)
  BY <1>0 DEF SyncWritten, BackendTypeOK
<1>3. QED
  BY <1>0, <1>1, <1>2, DeliverType, DeliverFits

LEMMA WriteFailsType ==
  ASSUME HandleOK, WriteFails
  PROVE  BackendTypeOK' /\ StageFits'
<1>0. BackendTypeOK /\ StageFits
  BY HandleFacts
<1>1. QED
  BY <1>0 DEF WriteFails, BackendTypeOK, StageFits

LEMMA SyncFailsType ==
  ASSUME HandleOK, SyncFails
  PROVE  /\ BackendTypeOK' /\ StageFits' /\ write_buffer' \in Seq(Unit)
         /\ is_broken' = TRUE
<1>0. req \in Requests /\ write_buffer \in Seq(Unit)
  BY HandleFacts
<1>1. write_buffer' \in Seq(Unit) /\ is_broken' = TRUE /\ WriteFails
  BY <1>0, WithSyncType DEF SyncFails
<1>2. QED
  BY <1>1, WriteFailsType

\* What a handle that is open, and one with a call in progress, stays with.
LEMMA OpenFacts ==
  ASSUME HandleOK, pc # "none"
  PROVE  at = "pipe" /\ astray \in BOOLEAN /\ early = "no"
         /\ (pc = "claim" => check_sequence)
  BY HandleFacts DEF PlaceTypeOK, HandleOK, HandleInv

LEMMA BackendSame ==
  ASSUME HandleOK, UNCHANGED backend
  PROVE  BackendTypeOK' /\ StageFits'
<1>1. BackendTypeOK /\ StageFits
  BY HandleFacts
<1>2. QED
  BY <1>1 DEF BackendTypeOK, StageFits, backend

\* exec takes a number and queues.
LEMMA ExecType ==
  ASSUME HandleOK, NEW r \in Requests, NEW k \in ExecKinds, exec_queue(U(k, r))
  PROVE  HandleOK'
<1> DEFINE u == U(k, r)
<1>1. u \in Unit /\ U("Torn", u.req) \in Unit
  BY DEF U, Unit, Kinds, ExecKinds
<1> HIDE DEF u
<1>2. exec_queue(u)
  BY DEF u
<1>3. /\ UNCHANGED <<backend, is_broken, transaction_status, at, claim_seq, aborted, pc, cur,
                     cstate, astray>>
      /\ UnusedByHandle /\ pc = "ready" /\ queue_seq < MaxQueue /\ queue_seq' = queue_seq + 1
      /\ \/ write_buffer' = Append(write_buffer, u)
         \/ write_buffer' = Append(write_buffer, U("Torn", u.req))
      /\ expectations' = expectations \/ expectations' = Append(expectations, u)
      /\ ticketless' = ticketless \/ ticketless' = ticketless \cup {queue_seq}
  BY <1>2 DEF exec_queue
<1>4. /\ BackendTypeOK' /\ StageFits' /\ CountTypeOK /\ FutureTypeOK
      /\ write_buffer \in Seq(Unit) /\ expectations \in Seq(Unit)
      /\ claim_seq \in Nat /\ queue_seq \in Nat /\ claim_seq <= queue_seq /\ MaxQueue \in Nat
      /\ at = "pipe" /\ astray \in BOOLEAN
  BY <1>3, HandleFacts, BackendSame, OpenFacts
<1>5. CountTypeOK'
  <2>1. /\ queue_seq + 1 \in 0..MaxQueue /\ queue_seq \in 0..MaxQueue
        /\ claim_seq \in 0..(queue_seq + 1)
    BY <1>3, <1>4
  <2>2. ticketless' \subseteq 0..MaxQueue
    BY <1>3, <1>4, <2>1 DEF CountTypeOK
  <2>3. QED
    BY <1>3, <1>4, <2>1, <2>2 DEF CountTypeOK
<1>6. FutureTypeOK'
  <2>1. /\ Append(write_buffer, u) \in Seq(Unit) /\ Append(expectations, u) \in Seq(Unit)
        /\ Append(write_buffer, U("Torn", u.req)) \in Seq(Unit)
    BY <1>1, <1>4
  <2>2. write_buffer' \in Seq(Unit) /\ expectations' \in Seq(Unit)
    BY <1>3, <1>4, <2>1
  <2>3. QED
    BY <1>3, <1>4, <2>2 DEF FutureTypeOK
<1>7. QED
  BY <1>3, <1>4, <1>5, <1>6, HandleStep

\* flush and sync.
LEMMA FlushType ==
  ASSUME HandleOK, flush
  PROVE  HandleOK'
<1>1. /\ UNCHANGED <<is_broken, transaction_status, at, queue_seq, ticketless, claim_seq,
                     aborted, expectations, pc, cur, cstate>>
      /\ UnusedByHandle /\ pc = "ready"
      /\ \/ Deliver(write_buffer) /\ UNCHANGED <<framing, astray>> /\ write_buffer' = <<>>
         \/ WriteFails /\ astray' = TRUE /\ UNCHANGED write_buffer
  BY DEF flush
<1>2. /\ BackendTypeOK /\ StageFits /\ CountTypeOK /\ FutureTypeOK /\ write_buffer \in Seq(Unit)
      /\ at = "pipe" /\ astray \in BOOLEAN
  BY <1>1, HandleFacts, OpenFacts
<1>3. BackendTypeOK' /\ StageFits' /\ astray' \in BOOLEAN /\ write_buffer' \in Seq(Unit)
  <2>1. CASE Deliver(write_buffer) /\ UNCHANGED <<framing, astray>> /\ write_buffer' = <<>>
    <3>1. framing' \in {"whole", "torn"}
      BY <1>2, <2>1 DEF BackendTypeOK
    <3>2. <<>> \in Seq(Unit)
      OBVIOUS
    <3>3. QED
      BY <1>2, <2>1, <3>1, <3>2, DeliverType, DeliverFits
  <2>2. CASE WriteFails /\ astray' = TRUE /\ UNCHANGED write_buffer
    BY <1>2, <2>2, WriteFailsType
  <2>3. QED
    BY <1>1, <2>1, <2>2
<1>4. CountTypeOK' /\ FutureTypeOK'
  BY <1>1, <1>2, <1>3 DEF CountTypeOK, FutureTypeOK
<1>5. QED
  BY <1>1, <1>2, <1>3, <1>4, HandleStep

LEMMA SyncType ==
  ASSUME HandleOK, sync
  PROVE  HandleOK'
<1>1. /\ UNCHANGED <<transaction_status, at, queue_seq, ticketless, claim_seq, aborted, pc, cur,
                     cstate, astray>>
      /\ UnusedByHandle /\ pc = "ready" /\ expectations' = WithSync(expectations)
      /\ (SyncWritten /\ UNCHANGED is_broken) \/ SyncFails
  BY DEF sync
<1>2. /\ CountTypeOK /\ FutureTypeOK /\ at = "pipe" /\ astray \in BOOLEAN
      /\ is_broken \in BOOLEAN /\ req \in Requests /\ expectations \in Seq(Unit)
  BY <1>1, HandleFacts, OpenFacts
<1>3. /\ BackendTypeOK' /\ StageFits' /\ is_broken' \in BOOLEAN /\ write_buffer' \in Seq(Unit)
      /\ expectations' \in Seq(Unit)
  BY <1>1, <1>2, SyncWrittenType, SyncFailsType, WithSyncType
<1>4. CountTypeOK' /\ FutureTypeOK'
  BY <1>1, <1>2, <1>3 DEF CountTypeOK, FutureTypeOK
<1>5. QED
  BY <1>1, <1>2, <1>3, <1>4, HandleStep

\* A claim before it reads.
LEMMA ClaimType ==
  ASSUME HandleOK, claim_with_handler
  PROVE  HandleOK'
<1>1. /\ UNCHANGED <<transaction_status, at, queue_seq, ticketless, astray>> /\ UnusedByHandle
      /\ pc = "ready" /\ check_sequence
  BY DEF claim_with_handler
<1>2. /\ CountTypeOK /\ FutureTypeOK /\ at = "pipe" /\ astray \in BOOLEAN /\ req \in Requests
      /\ expectations \in Seq(Unit) /\ write_buffer \in Seq(Unit)
  BY <1>1, HandleFacts, OpenFacts
<1>3. WithSync(expectations) \in Seq(Unit)
  BY <1>2, WithSyncType
<1>4. CASE ClaimFront(expectations) /\ UNCHANGED <<backend, write_buffer>>
  <2>1. BackendTypeOK' /\ StageFits' /\ write_buffer' \in Seq(Unit)
    BY <1>2, <1>4, BackendSame
  <2>2. FutureTypeOK' /\ CountTypeOK' /\ pc' # "none" /\ (pc' = "claim" => check_sequence')
    BY <1>1, <1>2, <1>4, <2>1, ClaimFrontType
  <2>3. QED
    BY <1>1, <1>2, <2>1, <2>2, HandleStep
<1>5. CASE SyncWritten /\ ClaimFront(WithSync(expectations))
  <2>1. BackendTypeOK' /\ StageFits' /\ write_buffer' \in Seq(Unit)
    BY <1>5, SyncWrittenType
  <2>2. FutureTypeOK' /\ CountTypeOK' /\ pc' # "none" /\ (pc' = "claim" => check_sequence')
    BY <1>1, <1>3, <1>5, <2>1, ClaimFrontType
  <2>3. QED
    BY <1>1, <1>2, <2>1, <2>2, HandleStep
<1>6. CASE SyncFails /\ expectations' = WithSync(expectations)
           /\ UNCHANGED <<claim_seq, aborted, pc, cur, cstate>>
  <2>1. /\ BackendTypeOK' /\ StageFits' /\ is_broken' = TRUE /\ write_buffer' \in Seq(Unit)
        /\ expectations' \in Seq(Unit)
    BY <1>3, <1>6, SyncFailsType
  <2>2. CountTypeOK' /\ FutureTypeOK'
    BY <1>1, <1>2, <1>6, <2>1 DEF CountTypeOK, FutureTypeOK
  <2>3. QED
    BY <1>1, <1>2, <1>6, <2>1, <2>2, HandleStep
<1>7. QED
  BY <1>4, <1>5, <1>6 DEF claim_with_handler

\* The claim's own answer is over.
LEMMA ClaimOverType ==
  ASSUME HandleOK, pc = "claim", NEW e, ClaimOver(e), BackendTypeOK', StageFits',
         UNCHANGED <<transaction_status, at, queue_seq, ticketless, write_buffer, astray>>,
         UnusedByHandle
  PROVE  HandleOK'
<1>1. /\ CountTypeOK /\ req \in Requests /\ expectations \in Seq(Unit)
      /\ write_buffer \in Seq(Unit) /\ at = "pipe" /\ astray \in BOOLEAN
      /\ claim_seq \in Nat /\ queue_seq \in Nat /\ claim_seq < queue_seq
      /\ aborted \in BOOLEAN /\ is_broken \in BOOLEAN
  BY HandleFacts, OpenFacts DEF check_sequence
<1>2. /\ aborted' = (aborted \/ e # "Ok") /\ claim_seq' = claim_seq + 1
      /\ is_broken' = (is_broken \/ (e # "Ok" /\ is_connection_broken(e)))
      /\ PendingSyncs(expectations)
  BY DEF ClaimOver
<1>3. FutureTypeOK' /\ pc' \in {"ready", "syncs"}
  BY <1>1, <1>2, PendingSyncsType
<1>4. CountTypeOK'
  <2>1. claim_seq + 1 \in 0..queue_seq
    BY <1>1
  <2>2. aborted' \in BOOLEAN /\ is_broken' \in BOOLEAN
    BY <1>2
  <2>3. QED
    BY <1>1, <1>2, <2>1, <2>2 DEF CountTypeOK
<1>5. QED
  BY <1>1, <1>3, <1>4, HandleStep

\* What an answer does to the server.
LEMMA AnswerStep ==
  ASSUME HandleOK, NEW m, Reply(m)
  PROVE  BackendTypeOK' /\ StageFits'
<1>1. BackendTypeOK /\ StageFits
  BY HandleFacts
<1>2. QED
  BY <1>1, ReplyType, ReplyFacts

LEMMA ErrorAnswer ==
  ASSUME HandleOK, ReplyError \/ ReplyFatal \/ (~alive /\ UNCHANGED backend)
  PROVE  BackendTypeOK' /\ StageFits'
<1>0. BackendTypeOK /\ StageFits
  BY HandleFacts
<1>1. CASE ReplyError
  BY <1>0, <1>1, ReplyErrorType, ErrorFacts
<1>2. CASE ReplyFatal
  BY <1>0, <1>2 DEF ReplyFatal, BackendTypeOK, StageFits
<1>3. QED
  BY <1>1, <1>2, BackendSame

LEMMA ClaimReadType ==
  ASSUME HandleOK, NEW m, claim_read(m)
  PROVE  HandleOK'
<1>1. /\ pc = "claim" /\ UnusedByHandle /\ Reply(m)
      /\ UNCHANGED <<transaction_status, at, queue_seq, ticketless, write_buffer, astray>>
  BY DEF claim_read
<1>2. BackendTypeOK' /\ StageFits'
  BY <1>1, AnswerStep
<1>3. ASSUME NEW e, ClaimOver(e)
      PROVE  HandleOK'
  BY <1>1, <1>2, <1>3, ClaimOverType
<1>4. CASE /\ claim_step(cur.kind, cstate, m) \notin {"Done", "LibraryBug"}
           /\ cstate' = claim_step(cur.kind, cstate, m)
           /\ UNCHANGED <<is_broken, aborted, claim_seq, expectations, pc, cur>>
  <2>1. /\ CountTypeOK /\ FutureTypeOK /\ at = "pipe" /\ astray \in BOOLEAN /\ check_sequence
        /\ cstate \in ClaimStates
    BY <1>1, HandleFacts, OpenFacts DEF FutureTypeOK
  <2>2. cstate' \in ClaimStates
    BY <1>4, <2>1 DEF claim_step, ClaimStates
  <2>3. CountTypeOK' /\ FutureTypeOK' /\ check_sequence'
    BY <1>1, <1>4, <2>1, <2>2 DEF CountTypeOK, FutureTypeOK, check_sequence
  <2>4. QED
    BY <1>1, <1>2, <1>4, <2>1, <2>3, HandleStep
<1>5. QED
  BY <1>3, <1>4 DEF claim_read

LEMMA ClaimErrorType ==
  ASSUME HandleOK, claim_error
  PROVE  HandleOK'
<1>1. /\ pc = "claim" /\ UnusedByHandle
      /\ UNCHANGED <<transaction_status, at, queue_seq, ticketless, write_buffer, astray>>
  BY DEF claim_error
<1>2. BackendTypeOK' /\ StageFits'
  BY ErrorAnswer DEF claim_error
<1>3. PICK e \in {"Server", "Fatal", "Io"} : ClaimOver(e)
  BY DEF claim_error
<1>4. QED
  BY <1>1, <1>2, <1>3, ClaimOverType

\* The ReadyForQuery of a Sync.
LEMMA ConsumeType ==
  ASSUME HandleOK, NEW m, consume_ready_for_query(m)
  PROVE  HandleOK'
<1>1. /\ pc \in {"syncs", "drain_read"} /\ UnusedByHandle /\ Reply(m)
      /\ UNCHANGED <<is_broken, at, queue_seq, ticketless, claim_seq, write_buffer, astray>>
  BY DEF consume_ready_for_query, ReadingSync
<1>2. /\ BackendTypeOK' /\ StageFits' /\ CountTypeOK /\ FutureTypeOK /\ BackendTypeOK
      /\ at = "pipe" /\ astray \in BOOLEAN /\ req \in Requests /\ expectations \in Seq(Unit)
      /\ write_buffer' \in Seq(Unit)
  BY <1>1, AnswerStep, HandleFacts, OpenFacts
<1>3. CASE UNCHANGED <<transaction_status, aborted, expectations, pc, cur, cstate>>
  <2>1. CountTypeOK' /\ FutureTypeOK' /\ pc' \in {"syncs", "drain_read"}
    BY <1>1, <1>2, <1>3 DEF CountTypeOK, FutureTypeOK
  <2>2. QED
    BY <1>1, <1>2, <2>1, HandleStep
<1>4. CASE /\ AtReadyForQuery
           /\ PendingSyncs(expectations) \/ (At("drain") /\ UNCHANGED expectations)
  <2>1. FutureTypeOK' /\ pc' \in {"ready", "syncs", "drain"}
    BY <1>2, <1>4, PendingSyncsType, AtType
  <2>2. transaction_status' \in TxStatus /\ aborted' \in BOOLEAN
    BY <1>2, <1>4 DEF AtReadyForQuery, BackendTypeOK
  <2>3. CountTypeOK'
    BY <1>1, <1>2, <2>2 DEF CountTypeOK
  <2>4. QED
    BY <1>1, <1>2, <2>1, <2>3, HandleStep
<1>5. QED
  BY <1>3, <1>4 DEF consume_ready_for_query

LEMMA ConsumeErrorType ==
  ASSUME HandleOK, consume_ready_for_query_error
  PROVE  HandleOK'
<1>1. /\ pc \in {"syncs", "drain_read"} /\ UnusedByHandle /\ astray' = TRUE
      /\ UNCHANGED <<is_broken, transaction_status, at, queue_seq, ticketless, claim_seq, aborted,
                     expectations, write_buffer>>
      /\ At("ready") \/ At("drain")
  BY DEF consume_ready_for_query_error, ReadingSync, Ready
<1>2. /\ BackendTypeOK' /\ StageFits' /\ CountTypeOK /\ at = "pipe" /\ req \in Requests
      /\ expectations' \in Seq(Unit) /\ write_buffer' \in Seq(Unit)
  BY <1>1, ErrorAnswer, HandleFacts, OpenFacts DEF consume_ready_for_query_error
<1>3. CountTypeOK'
  BY <1>1, <1>2 DEF CountTypeOK
<1>4. FutureTypeOK' /\ pc' \in {"ready", "drain"}
  BY <1>1, <1>2, AtType
<1>5. QED
  BY <1>1, <1>2, <1>3, <1>4, HandleStep

\* Cleanup starts, goes on and ends.
LEMMA CleanupType ==
  ASSUME HandleOK, cleanup_inner
  PROVE  HandleOK'
<1>1. /\ UNCHANGED <<transaction_status, at, queue_seq, ticketless, claim_seq, aborted, cur,
                     cstate, astray>>
      /\ UnusedByHandle /\ pc = "ready" /\ pc' = "drain"
      /\ \/ SyncWritten /\ expectations' = WithSync(expectations) /\ UNCHANGED is_broken
         \/ SyncFails /\ expectations' = WithSync(expectations)
         \/ UNCHANGED <<backend, is_broken, expectations, write_buffer>>
  BY DEF cleanup_inner
<1>2. /\ CountTypeOK /\ FutureTypeOK /\ at = "pipe" /\ astray \in BOOLEAN
      /\ is_broken \in BOOLEAN /\ req \in Requests /\ expectations \in Seq(Unit)
      /\ write_buffer \in Seq(Unit)
  BY <1>1, HandleFacts, OpenFacts
<1>3. /\ BackendTypeOK' /\ StageFits' /\ is_broken' \in BOOLEAN /\ write_buffer' \in Seq(Unit)
      /\ expectations' \in Seq(Unit)
  BY <1>1, <1>2, SyncWrittenType, SyncFailsType, WithSyncType, BackendSame
<1>4. CountTypeOK' /\ FutureTypeOK'
  BY <1>1, <1>2, <1>3 DEF CountTypeOK, FutureTypeOK
<1>5. QED
  BY <1>1, <1>2, <1>3, <1>4, HandleStep

\* The counters of a fresh handle.
LEMMA NothingQueuedType ==
  ASSUME NothingQueued, is_broken' \in BOOLEAN, transaction_status' \in TxStatus
  PROVE  CountTypeOK' /\ expectations' \in Seq(Unit)
<1>1. /\ queue_seq' = 0 /\ ticketless' = {} /\ claim_seq' = 0 /\ aborted' = FALSE
      /\ expectations' = <<>>
  BY DEF NothingQueued
<1>2. 0 \in 0..MaxQueue /\ 0 \in 0..0 /\ <<>> \in Seq(Unit)
  BY PipelineAssumption
<1>3. QED
  BY <1>1, <1>2 DEF CountTypeOK

LEMMA DrainNextType ==
  ASSUME HandleOK, drain_next
  PROVE  HandleOK'
<1>1. /\ UNCHANGED <<backend, is_broken, transaction_status, at, write_buffer, astray>>
      /\ UnusedByHandle /\ pc = "drain"
  BY DEF drain_next
<1>2. /\ CountTypeOK /\ FutureTypeOK /\ at = "pipe" /\ astray \in BOOLEAN
      /\ req \in Requests /\ expectations \in Seq(Unit) /\ write_buffer \in Seq(Unit)
      /\ BackendTypeOK' /\ StageFits'
  BY <1>1, HandleFacts, OpenFacts, BackendSame
<1>3. CASE /\ expectations # <<>> /\ expectations' = Tail(expectations)
           /\ UNCHANGED <<queue_seq, ticketless, claim_seq, aborted, pc, cur, cstate>>
  <2>1. Tail(expectations) \in Seq(Unit)
    BY <1>2, <1>3, TailFacts
  <2>2. CountTypeOK' /\ FutureTypeOK'
    BY <1>1, <1>2, <1>3, <2>1 DEF CountTypeOK, FutureTypeOK
  <2>3. QED
    BY <1>1, <1>2, <1>3, <2>2, HandleStep
<1>4. CASE /\ expectations # <<>>
           /\ cur' = Head(expectations) /\ expectations' = Tail(expectations)
           /\ pc' = "drain_read"
           /\ cstate' = IF cur'.kind = "Sync" THEN "none" ELSE claim_start(cur'.kind)
           /\ UNCHANGED <<queue_seq, ticketless, claim_seq, aborted>>
  <2>1. Tail(expectations) \in Seq(Unit) /\ Head(expectations) \in Unit
    BY <1>2, <1>4, TailFacts
  <2>2. cstate' \in ClaimStates
    BY <1>4 DEF claim_start, ClaimStates
  <2>3. CountTypeOK' /\ FutureTypeOK'
    BY <1>1, <1>2, <1>4, <2>1, <2>2 DEF CountTypeOK, FutureTypeOK
  <2>4. QED
    BY <1>1, <1>2, <1>4, <2>3, HandleStep
<1>5. CASE NothingQueued /\ Ready
  <2>1. CountTypeOK' /\ expectations' \in Seq(Unit)
    BY <1>1, <1>2, <1>5, NothingQueuedType DEF CountTypeOK
  <2>2. FutureTypeOK' /\ pc' = "ready"
    BY <1>1, <1>2, <1>5, <2>1, AtType DEF Ready
  <2>3. QED
    BY <1>1, <1>2, <2>1, <2>2, HandleStep
<1>6. QED
  BY <1>3, <1>4, <1>5 DEF drain_next

LEMMA DrainReadType ==
  ASSUME HandleOK, NEW m, drain_read(m)
  PROVE  HandleOK'
<1>1. /\ UNCHANGED <<is_broken, transaction_status, at, queue_seq, ticketless, claim_seq, aborted,
                     expectations, write_buffer, astray>>
      /\ UnusedByHandle /\ pc = "drain_read" /\ Reply(m)
  BY DEF drain_read
<1>2. /\ CountTypeOK /\ FutureTypeOK /\ at = "pipe" /\ astray \in BOOLEAN
      /\ req \in Requests /\ expectations' \in Seq(Unit) /\ write_buffer' \in Seq(Unit)
      /\ BackendTypeOK' /\ StageFits' /\ cstate \in ClaimStates
  BY <1>1, HandleFacts, OpenFacts, AnswerStep DEF FutureTypeOK
<1>3. CountTypeOK'
  BY <1>1, <1>2 DEF CountTypeOK
<1>4. CASE At("drain")
  BY <1>1, <1>2, <1>3, <1>4, AtType, HandleStep
<1>5. CASE /\ drain_step(m) \notin {"Done", "LibraryBug"} /\ cstate' = drain_step(m)
           /\ UNCHANGED <<pc, cur>>
  <2>1. cstate' \in ClaimStates
    BY <1>2, <1>5 DEF drain_step, claim_step, ClaimStates
  <2>2. FutureTypeOK'
    BY <1>2, <1>5, <2>1 DEF FutureTypeOK
  <2>3. QED
    BY <1>1, <1>2, <1>3, <1>5, <2>2, HandleStep
<1>6. QED
  BY <1>4, <1>5 DEF drain_read

LEMMA DrainErrorType ==
  ASSUME HandleOK, drain_error
  PROVE  HandleOK'
<1>1. /\ UNCHANGED <<is_broken, transaction_status, at, queue_seq, ticketless, claim_seq, aborted,
                     expectations, write_buffer>>
      /\ UnusedByHandle /\ pc = "drain_read" /\ At("drain")
  BY DEF drain_error
<1>2. /\ CountTypeOK /\ at = "pipe" /\ astray \in BOOLEAN
      /\ req \in Requests /\ expectations' \in Seq(Unit) /\ write_buffer' \in Seq(Unit)
      /\ BackendTypeOK' /\ StageFits'
  BY <1>1, HandleFacts, OpenFacts, ErrorAnswer DEF drain_error
<1>3. CountTypeOK' /\ astray' \in BOOLEAN
  BY <1>1, <1>2 DEF CountTypeOK, drain_error
<1>4. FutureTypeOK' /\ pc' = "drain"
  BY <1>1, <1>2, AtType
<1>5. QED
  BY <1>1, <1>2, <1>3, <1>4, HandleStep

\* A handle borrows the connection.
LEMMA NewType ==
  ASSUME HandleOK, NEW r \in Requests, new_inner(r)
  PROVE  HandleOK'
<1>1. /\ at = "idle" /\ OnCourse /\ at' = "pipe" /\ req' = r /\ NothingQueued
      /\ write_buffer' = <<>> /\ pc' = "ready" /\ cur' = U("Sync", r) /\ cstate' = "none"
      /\ UNCHANGED <<backend, is_broken, transaction_status, op, state, pending_error, chunks,
                     carry, early, astray>>
  BY DEF new_inner
<1>2. /\ BackendTypeOK' /\ StageFits' /\ CountTypeOK
  BY <1>1, BackendSame, HandleFacts
<1>3. CountTypeOK' /\ expectations' \in Seq(Unit)
  BY <1>1, <1>2, NothingQueuedType DEF CountTypeOK
<1>4. FutureTypeOK'
  <2>1. U("Sync", r) \in Unit /\ <<>> \in Seq(Unit)
    BY DEF U, Unit, Kinds
  <2>2. QED
    BY <1>1, <1>3, <2>1 DEF FutureTypeOK, ClaimStates
<1>5. PlaceTypeOK'
  BY <1>1, HandleFacts DEF PlaceTypeOK
<1>6. SPTypeOK'
  BY <1>2, <1>3, <1>4, <1>5, SPTypeSplit DEF SPTypeOK, CountTypeOK, FutureTypeOK, PlaceTypeOK
<1>7. BorrowTypeOK'
  BY <1>1 DEF HandleOK, BorrowTypeOK
<1>8. HandleInv'
  BY <1>1 DEF HandleInv, OnCourse, InStep
<1>9. QED
  BY <1>2, <1>6, <1>7, <1>8 DEF HandleOK

\* And gives it back: in step, unless it left something behind.
LEMMA CloseType ==
  ASSUME SPInv, close_handle
  PROVE  HandleOK'
<1>0. HandleOK /\ CourseInv
  BY DEF SPInv
<1>1. /\ pc = "ready" /\ at' = "idle" /\ pc' = "none"
      /\ astray' = (astray \/ queue_seq # 0 \/ expectations # <<>>)
      /\ NothingQueued /\ write_buffer' = <<>>
      /\ UNCHANGED <<backend, is_broken, transaction_status, cur, cstate>>
      /\ UnusedByHandle
  BY DEF close_handle
<1>2. /\ BackendTypeOK' /\ StageFits' /\ CountTypeOK /\ FutureTypeOK
      /\ at = "pipe" /\ astray \in BOOLEAN /\ early = "no"
  BY <1>0, <1>1, BackendSame, HandleFacts, OpenFacts
<1>3. CountTypeOK' /\ expectations' \in Seq(Unit)
  BY <1>1, <1>2, NothingQueuedType DEF CountTypeOK
<1>4. FutureTypeOK'
  <2>1. <<>> \in Seq(Unit)
    OBVIOUS
  <2>2. QED
    BY <1>1, <1>2, <1>3, <2>1 DEF FutureTypeOK
<1>5. PlaceTypeOK'
  BY <1>1, <1>2 DEF PlaceTypeOK
<1>6. SPTypeOK'
  BY <1>2, <1>3, <1>4, <1>5, SPTypeSplit DEF SPTypeOK, CountTypeOK, FutureTypeOK, PlaceTypeOK
<1>7. BorrowTypeOK'
  BY <1>0, <1>1 DEF HandleOK, BorrowTypeOK, UnusedByHandle
<1>8. ASSUME ~astray', Course'
      PROVE  /\ todo' = <<>> /\ ~skipping' /\ framing' = "whole"
             /\ at_sync' => transaction_status' = server_tx'
  <2>1. OnCourse /\ queue_seq = 0 /\ expectations = <<>>
    BY <1>1, <1>2, <1>8 DEF OnCourse, InStep, Course
  <2>2. WireInv /\ DrainInv /\ AnswerInv
    BY <1>0, <1>2, <2>1 DEF CourseInv
  <2>3. todo = <<>> /\ ~skipping /\ framing = "whole" /\ (at_sync => transaction_status = server_tx)
    BY <1>1, <2>1, <2>2 DEF WireInv, DrainInv, AnswerInv
  <2>4. QED
    BY <1>1, <2>3 DEF backend
<1>9. ~astray' => IInv'
  <2>1. SUFFICES ASSUME ~astray'
                 PROVE  IInv'
    OBVIOUS
  <2>2. SyncTypeOK'
    BY <1>1, <1>6, <1>7 DEF SyncTypeOK, SPTypeOK, BorrowTypeOK
  <2>3. OpInv' /\ ReadInv'
    BY <1>1 DEF OpInv, ReadInv
  <2>4. RestInv' /\ StatusInv'
    BY <1>8, <2>1 DEF RestInv, StatusInv, NoReady
  <2>5. QED
    BY <1>2, <2>2, <2>3, <2>4 DEF IInv
<1>10. HandleInv'
  BY <1>1, <1>9 DEF HandleInv
<1>11. QED
  BY <1>2, <1>6, <1>7, <1>10 DEF HandleOK

-----------------------------------------------------------------------------
\* What CourseInv says at each place.

LEMMA OnCourseFacts ==
  ASSUME SPInv, at = "pipe" \/ pc # "none", OnCourse
  PROVE  /\ HandleOK /\ WireInv /\ BufferInv /\ DrainInv /\ TicketInv /\ AnswerInv
         /\ at = "pipe" /\ ~is_broken
<1>1. at = "pipe"
  BY HandleFacts DEF SPInv, PlaceTypeOK
<1>2. QED
  BY <1>1 DEF SPInv, CourseInv, OnCourse, InStep

\* While an answer is read, nothing is in the buffer.
LEMMA ReadingFacts ==
  ASSUME SPInv, Reading, OnCourse
  PROVE  /\ todo \in Seq(Unit) /\ cur \in Unit /\ expectations \in Seq(Unit)
         /\ Wire = todo /\ write_buffer = <<>>
         /\ Queue = <<cur>> \o expectations /\ Queue # <<>>
         /\ Head(Queue) = cur /\ Tail(Queue) = expectations /\ Queue \in Seq(Unit)
         /\ Match(todo, Queue, TRUE) /\ cur.kind \in ExecKinds \cup {"Sync"}
         /\ ~aborted /\ pc # "drain_read" => Match(todo, Queue, FALSE)
         /\ ~aborted /\ pc = "drain_read" => Late(todo, Queue)
         /\ Kinded(todo, WireKinds) /\ (todo # <<>> => Head(todo).kind \in WireKinds)
         /\ Closed(todo) /\ Closed(Queue) /\ Closed(expectations) /\ framing = "whole"
<1>0. WireInv /\ BufferInv /\ HandleOK /\ pc \in {"claim", "syncs", "drain_read"}
  BY OnCourseFacts DEF Reading
<1>1. todo \in Seq(Unit) /\ cur \in Unit /\ expectations \in Seq(Unit)
  BY <1>0, HandleFacts
<1>2. write_buffer = <<>> /\ Queue = <<cur>> \o expectations
  BY <1>0 DEF BufferInv, Reading, Queue
<1>3. Wire = todo
  BY <1>1, <1>2, FrontFacts DEF Wire
<1>4. /\ Queue # <<>> /\ Head(Queue) = cur /\ Tail(Queue) = expectations /\ Queue \in Seq(Unit)
  BY <1>1, <1>2, ConsFacts
<1>5. /\ Match(todo, Queue, TRUE) /\ framing = "whole"
      /\ ~aborted => IF Draining THEN Late(todo, Queue) ELSE Match(todo, Queue, FALSE)
  BY <1>0, <1>3 DEF WireInv
<1>6. /\ Kinded(todo, WireKinds) /\ (todo # <<>> => Head(todo).kind \in WireKinds)
      /\ cur.kind \in ExecKinds \cup {"Sync"}
  BY <1>4, <1>5, MatchParts DEF Match
<1>7. Closed(todo) /\ Closed(Queue)
  BY <1>0, <1>2 DEF BufferInv
<1>8. Closed(expectations)
  BY <1>4, <1>7, ClosedFacts
<1>9. QED
  BY <1>0, <1>1, <1>2, <1>3, <1>4, <1>5, <1>6, <1>7, <1>8 DEF Draining

-----------------------------------------------------------------------------
\* What the steps that several operations share lead to.

\* consume_pending_syncs reads the next expectation, a Sync, or ends.
LEMMA PendingSyncsFacts ==
  ASSUME NEW q \in Seq(Unit), PendingSyncs(q)
  PROVE  /\ Queue' = q /\ pc' \in {"ready", "syncs"}
         /\ pc' = "syncs" => cur'.kind = "Sync"
         /\ pc' = "ready" => expectations' = q /\ ~SyncInFront(q)
<1>1. CASE SyncInFront(q)
  <2>1. expectations' = Tail(q) /\ pc' = "syncs" /\ cur' = Head(q)
    BY <1>1 DEF PendingSyncs
  <2>2. q # <<>> /\ Head(q).kind = "Sync" /\ Head(q) \in Unit
    BY <1>1, TailFacts DEF SyncInFront
  <2>3. <<Head(q)>> \o Tail(q) = q
    BY <2>2, ConsFacts
  <2>4. Queue' = q
    BY <2>1, <2>3 DEF Queue, Reading
  <2>5. QED
    BY <2>1, <2>2, <2>4
<1>2. CASE ~SyncInFront(q)
  BY <1>2 DEF PendingSyncs, Ready, At, Queue, Reading
<1>3. QED
  BY <1>1, <1>2

\* It stays on course when queue q is what the rest of the wire answers.
LEMMA PendingSyncsCourse ==
  ASSUME NEW q \in Seq(Unit), PendingSyncs(q),
         write_buffer' = <<>>, todo' \in Seq(Unit), framing' = "whole",
         Match(todo', q, TRUE), ~aborted' => Match(todo', q, FALSE), skipping' => aborted',
         Closed(todo'), Closed(q),
         queue_seq' = 0 /\ q = <<>> => todo' = <<>> /\ ~skipping',
         TicketsFor(q, claim_seq', queue_seq', ticketless'),
         at_sync' => transaction_status' = server_tx'
  PROVE  CourseInv'
<1>1. /\ Queue' = q /\ pc' \in {"ready", "syncs"}
      /\ pc' = "syncs" => cur'.kind = "Sync"
      /\ pc' = "ready" => expectations' = q /\ ~SyncInFront(q)
  BY PendingSyncsFacts
<1>2. Wire' = todo'
  BY FrontFacts DEF Wire
<1>3. WireInv'
  BY <1>1, <1>2 DEF WireInv, Draining
<1>4. BufferInv'
  BY <1>1, KindedFacts DEF BufferInv, NoSync, Kinded
<1>5. DrainInv'
  BY <1>1 DEF DrainInv
<1>6. TicketInv'
  BY <1>1 DEF TicketInv
<1>7. AnswerInv'
  BY <1>1 DEF AnswerInv
<1>8. QED
  BY <1>3, <1>4, <1>5, <1>6, <1>7 DEF CourseInv

\* A claim whose statement is next to be answered, or was skipped, stays on course.
LEMMA ClaimFrontCourse ==
  ASSUME HandleOK, check_sequence, NEW q \in Seq(Unit), ClaimFront(q),
         write_buffer' = <<>>, todo' \in Seq(Unit), framing' = "whole",
         Match(todo', q, TRUE), ~aborted => Match(todo', q, FALSE), skipping' => aborted,
         Closed(todo'), Closed(q), UNCHANGED <<queue_seq, ticketless>>,
         TicketsFor(q, claim_seq, queue_seq, ticketless),
         aborted /\ SyncInFront(q) => Kinded(q, {"Sync"}),
         at_sync' => transaction_status' = server_tx'
  PROVE  CourseInv'
<1>1. /\ claim_seq \in Nat /\ queue_seq \in Nat /\ claim_seq < queue_seq
      /\ claim_seq \notin ticketless /\ queue_seq' # 0
  BY HandleFacts DEF check_sequence
<1>2. OfKinds(q, ExecKinds) # <<>>
  BY <1>1, TicketsClaim
<1>3. q # <<>> /\ (aborted => ~SyncInFront(q))
  BY <1>2, OnlySyncs, OfKindsFacts
<1>4. /\ Head(q) \in Unit /\ Tail(q) \in Seq(Unit)
      /\ ~SyncInFront(q) => Head(q).kind \in ExecKinds
  BY <1>3, MatchParts, TailFacts DEF SyncInFront
<1>5. CASE aborted
  <2>1. aborted' = TRUE /\ claim_seq' = claim_seq + 1 /\ PendingSyncs(Tail(q))
    BY <1>3, <1>5 DEF ClaimFront, PopFront
  <2>2. Match(todo', Tail(q), TRUE)
    BY <1>3, <1>5, MatchSkipQueue DEF SyncInFront
  <2>3. TicketsFor(Tail(q), claim_seq + 1, queue_seq, ticketless)
    BY <1>1, <1>3, TicketsClaim
  <2>4. Closed(Tail(q))
    BY <1>3, ClosedFacts
  <2>5. TicketsFor(Tail(q), claim_seq', queue_seq', ticketless')
    BY <2>1, <2>3
  <2>6. QED
    BY <1>1, <1>4, <2>1, <2>2, <2>4, <2>5, PendingSyncsCourse
<1>6. CASE ~aborted /\ SyncInFront(q)
  <2>1. Head(q).kind \notin ExecKinds
    BY <1>6 DEF SyncInFront, ExecKinds
  <2>2. is_broken'
    BY <1>6, <2>1 DEF ClaimFront
  <2>3. QED
    BY <2>2 DEF CourseInv, OnCourse, InStep
<1>7. CASE ~aborted /\ ~SyncInFront(q)
  <2>1. /\ cur' = Head(q) /\ expectations' = Tail(q) /\ pc' = "claim"
        /\ UNCHANGED <<aborted, claim_seq>>
    BY <1>3, <1>4, <1>7 DEF ClaimFront
  <2>2. Queue' = q
    BY <1>3, <1>4, <2>1, ConsFacts DEF Queue, Reading
  <2>3. Wire' = todo'
    BY FrontFacts DEF Wire
  <2>4. WireInv'
    BY <1>7, <2>1, <2>2, <2>3 DEF WireInv, Draining
  <2>5. BufferInv'
    BY <2>1, <2>2 DEF BufferInv, NoSync, Kinded
  <2>6. DrainInv' /\ TicketInv' /\ AnswerInv'
    BY <1>4, <1>7, <2>1, <2>2 DEF DrainInv, TicketInv, AnswerInv
  <2>7. QED
    BY <2>4, <2>5, <2>6 DEF CourseInv
<1>8. QED
  BY <1>5, <1>6, <1>7

\* A Sync is written behind what the buffer held, and expected.
LEMMA SyncWrittenFacts ==
  ASSUME SPInv, OnCourse, pc = "ready", SyncWritten
  PROVE  LET q == WithSync(expectations) IN
         /\ q \in Seq(Unit) /\ todo' \in Seq(Unit) /\ write_buffer' = <<>>
         /\ Match(todo', q, TRUE) /\ (~aborted => Match(todo', q, FALSE))
         /\ framing' = "whole" /\ (skipping' => aborted)
         /\ UNCHANGED <<server_tx, at_sync>>
         /\ EndsInSync(todo') /\ EndsInSync(q) /\ q # <<>>
         /\ TicketsFor(q, claim_seq, queue_seq, ticketless)
         /\ aborted /\ SyncInFront(q) => Kinded(q, {"Sync"})
<1> DEFINE x == U("Sync", req)
           q == WithSync(expectations)
<1>0. HandleOK /\ WireInv /\ TicketInv
  BY OnCourseFacts
<1>1. /\ todo \in Seq(Unit) /\ write_buffer \in Seq(Unit) /\ expectations \in Seq(Unit)
      /\ req \in Requests /\ claim_seq \in Nat /\ queue_seq \in Nat /\ claim_seq <= queue_seq
  BY <1>0, HandleFacts
<1>2. /\ x \in Unit /\ x.kind = "Sync" /\ q \in Seq(Unit) /\ q = Append(expectations, x)
      /\ WithSync(write_buffer) = Append(write_buffer, x)
  BY <1>1, WithSyncType
<1> HIDE DEF x, q
<1>3. /\ todo' = todo \o Append(write_buffer, x) /\ write_buffer' = <<>>
      /\ UNCHANGED <<skipping, server_tx, at_sync, framing>>
  BY <1>2 DEF SyncWritten, Deliver
<1>4. todo' = Append(Wire, x) /\ Wire \in Seq(Unit) /\ todo' \in Seq(Unit)
  <2>1. todo' = Append(Wire, x) /\ Wire \in Seq(Unit)
    BY <1>1, <1>2, <1>3, FrontFacts DEF Wire
  <2>2. QED
    BY <1>2, <2>1
<1>5. /\ Match(Wire, expectations, TRUE) /\ (~aborted => Match(Wire, expectations, FALSE))
      /\ framing = "whole" /\ (skipping => aborted)
  BY <1>0 DEF WireInv, Draining, Queue, Reading
<1>6. Match(todo', q, TRUE) /\ (~aborted => Match(todo', q, FALSE))
  BY <1>2, <1>4, <1>5, MatchQueue
<1>7. EndsInSync(todo') /\ EndsInSync(q) /\ q # <<>>
  BY <1>1, <1>2, <1>4, EndsFacts DEF EndsInSync
<1>8. TicketsFor(q, claim_seq, queue_seq, ticketless)
  <2>1. TicketsFor(expectations, claim_seq, queue_seq, ticketless)
    BY <1>0 DEF TicketInv, Queue, Reading
  <2>2. QED
    BY <1>1, <1>2, <2>1, KindFacts, TicketsExec
<1>9. aborted /\ SyncInFront(q) => Kinded(q, {"Sync"})
  <2>1. expectations = <<>> \/ Head(q) = Head(expectations)
    BY <1>1, <1>2
  <2>2. expectations = <<>> => Kinded(expectations, {"Sync"})
    BY <1>1, KindedFacts
  <2>3. QED
    BY <1>0, <1>1, <1>2, <2>1, <2>2, KindedFacts DEF TicketInv, SyncInFront
<1>10. QED
  BY <1>2, <1>3, <1>4, <1>5, <1>6, <1>7, <1>8, <1>9 DEF q

\* Cleanup is at the head of its loop.
LEMMA DrainCourse ==
  ASSUME pc' = "drain", write_buffer' = <<>>, todo' \in Seq(Unit), framing' = "whole",
         Match(todo', expectations', TRUE), ~aborted' => Late(todo', expectations'),
         skipping' => aborted' \/ SyncInFront(expectations'),
         Closed(todo'),
         IF expectations' = <<>> THEN todo' = <<>> /\ ~skipping' ELSE EndsInSync(expectations'),
         at_sync' => transaction_status' = server_tx'
  PROVE  CourseInv'
<1>1. Wire' = todo' /\ Queue' = expectations'
  BY FrontFacts DEF Wire, Queue, Reading
<1>2. WireInv'
  BY <1>1 DEF WireInv, Draining
<1>3. BufferInv'
  BY <1>1 DEF BufferInv, Closed, NoSync, Kinded
<1>4. DrainInv' /\ TicketInv' /\ AnswerInv'
  BY DEF DrainInv, TicketInv, AnswerInv
<1>5. QED
  BY <1>2, <1>3, <1>4 DEF CourseInv

-----------------------------------------------------------------------------
\* Every operation of the handle keeps it on course.

\* A handle begins with what a connection in step left: nothing.
LEMMA NewCourse ==
  ASSUME SPInv, NEW r \in Requests, new_inner(r)
  PROVE  CourseInv'
<1>1. /\ at = "idle" /\ OnCourse /\ queue_seq' = 0 /\ ticketless' = {} /\ claim_seq' = 0
      /\ aborted' = FALSE /\ expectations' = <<>> /\ write_buffer' = <<>> /\ pc' = "ready"
      /\ UNCHANGED <<todo, skipping, framing, at_sync, server_tx, transaction_status>>
  BY DEF new_inner, NothingQueued, backend
<1>2. /\ todo = <<>> /\ ~skipping /\ framing = "whole"
      /\ at_sync => transaction_status = server_tx
  <2>1. IInv /\ Course /\ early = "no"
    BY <1>1 DEF SPInv, HandleOK, HandleInv, OnCourse, InStep, Course
  <2>2. QED
    BY <1>1, <2>1 DEF IInv, RestInv, StatusInv
<1>3. Queue' = <<>> /\ Wire' = <<>>
  BY <1>1, <1>2 DEF Queue, Reading, Wire
<1>4. Match(<<>>, <<>>, FALSE) /\ Match(<<>>, <<>>, TRUE)
  BY MatchEmpty, MatchAbort
<1>5. WireInv'
  BY <1>1, <1>2, <1>3, <1>4 DEF WireInv, Draining
<1>6. BufferInv' /\ DrainInv'
  BY <1>1, <1>2, <1>3 DEF BufferInv, DrainInv, Closed, NoSync, Kinded
<1>7. TicketInv' /\ AnswerInv'
  BY <1>1, <1>2, <1>3, TicketsNone DEF TicketInv, AnswerInv, Kinded
<1>8. QED
  BY <1>5, <1>6, <1>7 DEF CourseInv

\* exec adds the same statement to the buffer and to the queue, or what does not
\* encode to the buffer alone.
LEMMA ExecCourse ==
  ASSUME SPInv, Usage = {}, NEW r \in Requests, NEW k \in ExecKinds, exec_queue(U(k, r))
  PROVE  CourseInv'
<1> DEFINE u == U(k, r)
           x == U("Torn", r)
<1>1. /\ u \in Unit /\ u.kind \in ExecKinds /\ x \in Unit /\ x.kind = "Torn" /\ u.req = r
      /\ x = U("Torn", u.req)
  BY DEF U, Unit, Kinds, ExecKinds
<1> HIDE DEF u, x
<1>2. exec_queue(u)
  BY DEF u
<1>0. HandleOK /\ WireInv /\ BufferInv /\ DrainInv /\ TicketInv /\ AnswerInv
  BY <1>2, OnCourseFacts DEF exec_queue
<1>3. /\ todo \in Seq(Unit) /\ write_buffer \in Seq(Unit) /\ expectations \in Seq(Unit)
      /\ claim_seq \in Nat /\ queue_seq \in Nat /\ claim_seq <= queue_seq
      /\ Wire \in Seq(Unit)
  BY <1>0, HandleFacts, FrontFacts DEF Wire
<1>4. /\ pc = "ready" /\ pc' = "ready" /\ queue_seq' = queue_seq + 1
      /\ (aborted => ~SyncInFront(expectations))
      /\ \A i \in DOMAIN expectations : expectations[i].req # u.req
      /\ UNCHANGED <<todo, skipping, framing, at_sync, server_tx, transaction_status,
                     claim_seq, aborted>>
  BY <1>2 DEF exec_queue, backend
<1>5. \/ /\ write_buffer' = Append(write_buffer, u) /\ expectations' = Append(expectations, u)
         /\ ticketless' = ticketless
      \/ /\ write_buffer' = Append(write_buffer, x) /\ expectations' = expectations
         /\ ticketless' = ticketless \cup {queue_seq}
  BY <1>1, <1>2 DEF exec_queue
<1>6. Queue = expectations /\ Queue' = expectations'
  BY <1>4 DEF Queue, Reading
<1>7. /\ Match(Wire, expectations, TRUE) /\ (~aborted => Match(Wire, expectations, FALSE))
      /\ framing = "whole" /\ (skipping => aborted) /\ NoSync(write_buffer)
      /\ TicketsFor(expectations, claim_seq, queue_seq, ticketless) /\ Closed(todo)
  BY <1>0, <1>4, <1>6 DEF WireInv, BufferInv, TicketInv, Draining
<1>8. /\ Match(Wire', Queue', TRUE) /\ (~aborted => Match(Wire', Queue', FALSE))
      /\ NoSync(write_buffer') /\ write_buffer' # <<>>
      /\ TicketsFor(Queue', claim_seq, queue_seq', ticketless')
      /\ (aborted => ~SyncInFront(expectations'))
  <2>1. CASE /\ write_buffer' = Append(write_buffer, u) /\ expectations' = Append(expectations, u)
             /\ ticketless' = ticketless
    <3>1. \A i \in 1..Len(expectations) : expectations[i] # u
      BY <1>3, <1>4
    <3>2. Wire' = Append(Wire, u)
      BY <1>1, <1>3, <1>4, <2>1, FrontFacts DEF Wire
    <3>3. Match(Wire', Queue', TRUE) /\ (~aborted => Match(Wire', Queue', FALSE))
      BY <1>1, <1>6, <1>7, <2>1, <3>1, <3>2, MatchQueue
    <3>4. u.kind \in Kinds \ {"Sync"}
      BY <1>1, KindFacts DEF Kinds, ExecKinds
    <3>5. NoSync(write_buffer')
      BY <1>1, <1>3, <1>7, <2>1, <3>4, KindedFacts DEF NoSync
    <3>6. TicketsFor(Queue', claim_seq, queue_seq', ticketless')
      BY <1>1, <1>3, <1>4, <1>6, <1>7, <2>1, TicketsExec
    <3>7. aborted => ~SyncInFront(expectations')
      <4>1. CASE expectations = <<>>
        <5>1. Head(Append(expectations, u)) = u
          BY <1>1, <1>3, <4>1
        <5>2. QED
          BY <2>1, <3>4, <5>1 DEF SyncInFront
      <4>2. CASE expectations # <<>>
        <5>1. Head(Append(expectations, u)) = Head(expectations)
          BY <1>1, <1>3, <4>2
        <5>2. QED
          BY <1>4, <2>1, <4>2, <5>1 DEF SyncInFront
      <4>3. QED
        BY <4>1, <4>2
    <3>8. write_buffer' # <<>>
      BY <1>1, <1>3, <2>1
    <3>9. QED
      BY <3>3, <3>5, <3>6, <3>7, <3>8
  <2>2. CASE /\ write_buffer' = Append(write_buffer, x) /\ expectations' = expectations
             /\ ticketless' = ticketless \cup {queue_seq}
    <3>1. Wire' = Append(Wire, x)
      BY <1>1, <1>3, <1>4, <2>2, FrontFacts DEF Wire
    <3>2. Match(Wire', Queue', TRUE) /\ (~aborted => Match(Wire', Queue', FALSE))
      BY <1>1, <1>6, <1>7, <2>2, <3>1, MatchTorn
    <3>3. x.kind \in Kinds \ {"Sync"}
      BY <1>1 DEF Kinds
    <3>4. NoSync(write_buffer')
      BY <1>1, <1>3, <1>7, <2>2, <3>3, KindedFacts DEF NoSync
    <3>5. TicketsFor(Queue', claim_seq, queue_seq', ticketless')
      BY <1>1, <1>3, <1>4, <1>6, <1>7, <2>2, TicketsExec
    <3>6. write_buffer' # <<>>
      BY <1>1, <1>3, <2>2
    <3>7. QED
      BY <1>4, <2>2, <3>2, <3>4, <3>5, <3>6
  <2>3. QED
    BY <1>5, <2>1, <2>2
<1>9. WireInv'
  BY <1>4, <1>7, <1>8 DEF WireInv, Draining
<1>10. BufferInv'
  BY <1>4, <1>7, <1>8 DEF BufferInv
<1>11. DrainInv'
  <2>1. queue_seq' # 0
    BY <1>3, <1>4
  <2>2. QED
    BY <1>4, <2>1 DEF DrainInv
<1>12. TicketInv' /\ AnswerInv'
  BY <1>0, <1>4, <1>8 DEF TicketInv, AnswerInv
<1>13. QED
  BY <1>9, <1>10, <1>11, <1>12 DEF CourseInv

\* flush sends statements, and no Sync.
LEMMA FlushCourse ==
  ASSUME SPInv, Usage = {}, flush
  PROVE  CourseInv'
<1> SUFFICES ASSUME OnCourse'
             PROVE  CourseInv'
  BY DEF CourseInv
<1>0. HandleOK /\ WireInv /\ BufferInv /\ DrainInv /\ TicketInv /\ AnswerInv
  BY OnCourseFacts DEF flush
<1>1. /\ pc = "ready" /\ pc' = "ready" /\ ~AnySync(expectations) /\ write_buffer # <<>>
      /\ UNCHANGED <<transaction_status, queue_seq, ticketless, claim_seq, aborted, expectations>>
      /\ Deliver(write_buffer) /\ framing' = framing /\ write_buffer' = <<>>
  BY DEF flush, OnCourse
<1>2. todo' = Wire /\ UNCHANGED <<skipping, server_tx, at_sync>>
  BY <1>1 DEF Deliver, Wire
<1>3. /\ todo \in Seq(Unit) /\ write_buffer \in Seq(Unit) /\ expectations \in Seq(Unit)
      /\ Wire \in Seq(Unit) /\ Queue = expectations /\ Queue' = expectations
  BY <1>0, <1>1, HandleFacts, FrontFacts DEF Wire, Queue, Reading
<1>4. Wire' = Wire
  BY <1>1, <1>2, <1>3, FrontFacts DEF Wire
<1>5. WireInv'
  BY <1>0, <1>1, <1>2, <1>3, <1>4 DEF WireInv, Draining
<1>6. NoSync(expectations) /\ NoSync(todo')
  <2>1. NoSync(expectations)
    BY <1>1, <1>3, AnySyncFacts
  <2>2. Match(todo', expectations, TRUE)
    BY <1>0, <1>2, <1>3 DEF WireInv
  <2>3. QED
    BY <2>1, <2>2, MatchNoSync
<1>7. BufferInv'
  BY <1>1, <1>3, <1>6 DEF BufferInv, Closed, NoSync, Kinded
<1>8. DrainInv'
  BY <1>0, <1>1 DEF DrainInv
<1>9. TicketInv' /\ AnswerInv'
  BY <1>0, <1>1, <1>2, <1>3 DEF TicketInv, AnswerInv
<1>10. QED
  BY <1>5, <1>7, <1>8, <1>9 DEF CourseInv

\* sync writes a Sync and expects its answer.
LEMMA SyncCourse ==
  ASSUME SPInv, sync
  PROVE  CourseInv'
<1> SUFFICES ASSUME OnCourse'
             PROVE  CourseInv'
  BY DEF CourseInv
<1> DEFINE q == WithSync(expectations)
<1>0. OnCourse /\ pc = "ready" /\ AnswerInv
  BY OnCourseFacts DEF sync
<1>1. /\ SyncWritten /\ expectations' = q
      /\ UNCHANGED <<transaction_status, queue_seq, ticketless, claim_seq, aborted, pc>>
  BY DEF sync, SyncFails, OnCourse, InStep
<1>2. /\ q \in Seq(Unit) /\ todo' \in Seq(Unit) /\ write_buffer' = <<>>
      /\ Match(todo', q, TRUE) /\ (~aborted => Match(todo', q, FALSE))
      /\ framing' = "whole" /\ (skipping' => aborted)
      /\ UNCHANGED <<server_tx, at_sync>>
      /\ EndsInSync(todo') /\ EndsInSync(q) /\ q # <<>>
      /\ TicketsFor(q, claim_seq, queue_seq, ticketless)
      /\ aborted /\ SyncInFront(q) => Kinded(q, {"Sync"})
  BY <1>0, <1>1, SyncWrittenFacts
<1> HIDE DEF q
<1>3. Queue' = q /\ Wire' = todo'
  BY <1>0, <1>1, <1>2, FrontFacts DEF Queue, Reading, Wire
<1>4. WireInv'
  BY <1>0, <1>1, <1>2, <1>3 DEF WireInv, Draining
<1>5. BufferInv' /\ DrainInv'
  BY <1>0, <1>1, <1>2, <1>3 DEF BufferInv, DrainInv, Closed, NoSync, Kinded
<1>6. TicketInv' /\ AnswerInv'
  BY <1>0, <1>1, <1>2, <1>3 DEF TicketInv, AnswerInv
<1>7. QED
  BY <1>4, <1>5, <1>6 DEF CourseInv

\* A claim sends what is in the buffer first.
LEMMA ClaimCourse ==
  ASSUME SPInv, claim_with_handler
  PROVE  CourseInv'
<1> SUFFICES ASSUME OnCourse', at' = "pipe"
             PROVE  CourseInv'
  BY DEF CourseInv
<1>1. /\ pc = "ready" /\ check_sequence /\ UnusedByHandle
      /\ UNCHANGED <<transaction_status, at, queue_seq, ticketless, astray>>
  BY DEF claim_with_handler
<1>2. (ClaimFront(expectations) \/ ClaimFront(WithSync(expectations))) /\ is_broken => is_broken'
  BY DEF ClaimFront
<1>3. OnCourse
  BY <1>1, <1>2 DEF claim_with_handler, SyncFails, OnCourse, InStep, UnusedByHandle
<1>4. HandleOK /\ WireInv /\ BufferInv /\ TicketInv /\ AnswerInv
  BY <1>1, <1>3, OnCourseFacts
<1>5. CASE ClaimFront(expectations) /\ write_buffer = <<>> /\ UNCHANGED <<backend, write_buffer>>
  <2>1. todo \in Seq(Unit) /\ expectations \in Seq(Unit) /\ Queue = expectations
    BY <1>1, <1>4, HandleFacts DEF Queue, Reading
  <2>2. Wire = todo
    BY <1>5, <2>1, FrontFacts DEF Wire
  <2>3. UNCHANGED <<todo, skipping, framing, at_sync, server_tx>>
    BY <1>5 DEF backend
  <2>4. /\ Match(todo, expectations, TRUE) /\ (~aborted => Match(todo, expectations, FALSE))
        /\ framing = "whole" /\ (skipping => aborted)
    BY <1>1, <1>4, <2>1, <2>2 DEF WireInv, Draining
  <2>5. Closed(todo) /\ Closed(expectations)
    BY <1>4, <1>5, <2>1 DEF BufferInv
  <2>6. /\ TicketsFor(expectations, claim_seq, queue_seq, ticketless)
        /\ aborted /\ SyncInFront(expectations) => Kinded(expectations, {"Sync"})
        /\ at_sync => transaction_status = server_tx
    BY <1>1, <1>4, <2>1 DEF TicketInv, AnswerInv
  <2>7. QED
    BY <1>1, <1>4, <1>5, <2>1, <2>3, <2>4, <2>5, <2>6, ClaimFrontCourse
<1>6. CASE SyncWritten /\ ClaimFront(WithSync(expectations))
  <2> DEFINE q == WithSync(expectations)
  <2>1. /\ q \in Seq(Unit) /\ todo' \in Seq(Unit) /\ write_buffer' = <<>>
        /\ Match(todo', q, TRUE) /\ (~aborted => Match(todo', q, FALSE))
        /\ framing' = "whole" /\ (skipping' => aborted)
        /\ UNCHANGED <<server_tx, at_sync>>
        /\ EndsInSync(todo') /\ EndsInSync(q)
        /\ TicketsFor(q, claim_seq, queue_seq, ticketless)
        /\ aborted /\ SyncInFront(q) => Kinded(q, {"Sync"})
    BY <1>1, <1>3, <1>6, SyncWrittenFacts
  <2>2. at_sync' => transaction_status' = server_tx'
    BY <1>1, <1>4, <2>1 DEF AnswerInv
  <2>3. ClaimFront(q)
    BY <1>6
  <2> HIDE DEF q
  <2>4. Closed(todo') /\ Closed(q)
    BY <2>1 DEF Closed
  <2>5. QED
    BY <1>1, <1>4, <2>1, <2>2, <2>3, <2>4, ClaimFrontCourse
<1>7. ~SyncFails
  BY DEF SyncFails, OnCourse, InStep
<1>8. QED
  BY <1>5, <1>6, <1>7 DEF claim_with_handler, AutoSync

\* Cleanup has a Sync to drain to.
LEMMA CleanupCourse ==
  ASSUME SPInv, cleanup_inner
  PROVE  CourseInv'
<1> SUFFICES ASSUME OnCourse', at' = "pipe"
             PROVE  CourseInv'
  BY DEF CourseInv
<1>1. /\ pc = "ready" /\ pc' = "drain" /\ UnusedByHandle
      /\ UNCHANGED <<transaction_status, at, queue_seq, ticketless, claim_seq, aborted, astray>>
  BY DEF cleanup_inner
<1>2. ~SyncFails
  BY DEF SyncFails, OnCourse, InStep
<1>3. OnCourse
  BY <1>1, <1>2 DEF cleanup_inner, OnCourse, InStep, UnusedByHandle
<1>4. HandleOK /\ WireInv /\ BufferInv /\ TicketInv /\ AnswerInv
  BY <1>1, <1>3, OnCourseFacts
<1>5. CASE SyncWritten /\ expectations' = WithSync(expectations)
  <2> DEFINE q == WithSync(expectations)
  <2>1. /\ q \in Seq(Unit) /\ todo' \in Seq(Unit) /\ write_buffer' = <<>>
        /\ Match(todo', q, TRUE) /\ (~aborted => Match(todo', q, FALSE))
        /\ framing' = "whole" /\ (skipping' => aborted)
        /\ UNCHANGED <<server_tx, at_sync>>
        /\ EndsInSync(todo') /\ EndsInSync(q) /\ q # <<>>
    BY <1>1, <1>3, <1>5, SyncWrittenFacts
  <2>2. expectations' = q
    BY <1>5
  <2> HIDE DEF q
  <2>3. ~aborted' => Late(todo', expectations')
    BY <1>1, <2>1, <2>2, LateMatch
  <2>4. Closed(todo') /\ (at_sync' => transaction_status' = server_tx')
    BY <1>1, <1>4, <2>1 DEF Closed, AnswerInv
  <2>5. QED
    BY <1>1, <2>1, <2>2, <2>3, <2>4, DrainCourse
<1>6. CASE ~CleanupSyncs /\ UNCHANGED <<backend, expectations, write_buffer>>
  <2>1. todo \in Seq(Unit) /\ expectations \in Seq(Unit) /\ Queue = expectations
    BY <1>1, <1>4, HandleFacts DEF Queue, Reading
  <2>2. write_buffer = <<>> /\ ~NoSync(expectations)
    BY <1>6, <2>1, AnySyncFacts DEF CleanupSyncs
  <2>3. Wire = todo
    BY <2>1, <2>2, FrontFacts DEF Wire
  <2>4. UNCHANGED <<todo, skipping, framing, at_sync, server_tx>>
    BY <1>6 DEF backend
  <2>5. /\ Match(todo, expectations, TRUE) /\ (~aborted => Late(todo, expectations))
        /\ framing = "whole" /\ (skipping => aborted)
    BY <1>1, <1>4, <2>1, <2>3, LateMatch DEF WireInv, Draining
  <2>6. EndsInSync(expectations) /\ expectations # <<>> /\ Closed(todo)
    BY <1>4, <2>1, <2>2 DEF BufferInv, Closed, EndsInSync
  <2>7. at_sync => transaction_status = server_tx
    BY <1>4 DEF AnswerInv
  <2>8. QED
    BY <1>1, <1>6, <2>1, <2>2, <2>4, <2>5, <2>6, <2>7, DrainCourse
<1>7. QED
  BY <1>2, <1>5, <1>6 DEF cleanup_inner

\* Cleanup passes over what was aborted, reads the next answer, or is done.
LEMMA DrainNextCourse ==
  ASSUME SPInv, drain_next
  PROVE  CourseInv'
<1> SUFFICES ASSUME OnCourse', at' = "pipe"
             PROVE  CourseInv'
  BY DEF CourseInv
<1>0. /\ UNCHANGED <<backend, is_broken, transaction_status, at, write_buffer, astray>>
      /\ UnusedByHandle /\ pc = "drain"
  BY DEF drain_next
<1>1. OnCourse
  BY <1>0 DEF OnCourse, InStep, UnusedByHandle
<1>2. HandleOK /\ WireInv /\ BufferInv /\ DrainInv /\ AnswerInv
  BY <1>0, <1>1, OnCourseFacts
<1>3. /\ todo \in Seq(Unit) /\ expectations \in Seq(Unit) /\ Queue = expectations
      /\ write_buffer = <<>> /\ aborted \in BOOLEAN
  BY <1>0, <1>2, HandleFacts DEF Queue, Reading, BufferInv
<1>4. Wire = todo /\ Wire' = todo
  <2>1. Wire = todo
    BY <1>3, FrontFacts DEF Wire
  <2>2. QED
    BY <1>0, <2>1 DEF Wire, backend
<1>5. UNCHANGED <<todo, skipping, framing, at_sync, server_tx, transaction_status, write_buffer>>
  BY <1>0 DEF backend
<1>6. /\ Match(todo, expectations, TRUE) /\ (~aborted => Late(todo, expectations))
      /\ framing = "whole" /\ (skipping => aborted \/ SyncInFront(expectations))
      /\ Closed(todo) /\ (at_sync => transaction_status = server_tx)
  BY <1>0, <1>2, <1>3, <1>4 DEF WireInv, BufferInv, AnswerInv, Draining
<1>7. CASE /\ expectations # <<>> /\ aborted /\ Head(expectations).kind # "Sync"
           /\ expectations' = Tail(expectations)
           /\ UNCHANGED <<queue_seq, ticketless, claim_seq, aborted, pc, cur, cstate>>
  <2>1. EndsInSync(Tail(expectations)) /\ Tail(expectations) # <<>>
    <3>1. EndsInSync(expectations)
      BY <1>0, <1>2, <1>7 DEF DrainInv
    <3>2. EndsInSync(Tail(expectations))
      BY <1>3, <1>7, <3>1, EndsFacts
    <3>3. QED
      BY <3>2 DEF EndsInSync
  <2>2. Match(todo, Tail(expectations), TRUE)
    BY <1>6, <1>7, MatchSkipQueue
  <2>3. pc' = "drain" /\ aborted'
    BY <1>0, <1>7
  <2>4. QED
    BY <1>3, <1>5, <1>6, <1>7, <2>1, <2>2, <2>3, DrainCourse
<1>8. CASE /\ expectations # <<>> /\ (~aborted \/ Head(expectations).kind = "Sync")
           /\ cur' = Head(expectations) /\ expectations' = Tail(expectations)
           /\ pc' = "drain_read"
           /\ UNCHANGED <<queue_seq, ticketless, claim_seq, aborted>>
  <2>1. Queue' = expectations
    BY <1>3, <1>8, TailFacts, ConsFacts DEF Queue, Reading
  <2>2. EndsInSync(expectations)
    BY <1>0, <1>2, <1>8 DEF DrainInv
  <2>3. WireInv'
    BY <1>4, <1>5, <1>6, <1>8, <2>1 DEF WireInv, Draining
  <2>4. BufferInv' /\ DrainInv'
    BY <1>3, <1>5, <1>6, <1>8, <2>1, <2>2 DEF BufferInv, DrainInv, Closed, NoSync, Kinded
  <2>5. TicketInv' /\ AnswerInv'
    BY <1>5, <1>6, <1>8 DEF TicketInv, AnswerInv
  <2>6. QED
    BY <2>3, <2>4, <2>5 DEF CourseInv
<1>9. CASE expectations = <<>> /\ NothingQueued /\ Ready
  <2>1. /\ queue_seq' = 0 /\ ticketless' = {} /\ claim_seq' = 0 /\ aborted' = FALSE
        /\ expectations' = <<>> /\ pc' = "ready"
    BY <1>9 DEF NothingQueued, Ready, At
  <2>2. todo = <<>> /\ ~skipping
    BY <1>0, <1>2, <1>9 DEF DrainInv
  <2>3. Queue' = <<>> /\ Wire' = <<>>
    BY <1>4, <2>1, <2>2 DEF Queue, Reading
  <2>4. Match(<<>>, <<>>, FALSE) /\ Match(<<>>, <<>>, TRUE)
    BY MatchEmpty, MatchAbort
  <2>5. WireInv'
    BY <1>5, <1>6, <2>1, <2>2, <2>3, <2>4 DEF WireInv, Draining
  <2>6. BufferInv' /\ DrainInv'
    BY <1>3, <1>5, <2>1, <2>2, <2>3 DEF BufferInv, DrainInv, Closed, NoSync, Kinded
  <2>7. TicketInv' /\ AnswerInv'
    BY <1>5, <1>6, <2>1, <2>3, TicketsNone DEF TicketInv, AnswerInv, SyncInFront
  <2>8. QED
    BY <2>5, <2>6, <2>7 DEF CourseInv
<1>10. QED
  BY <1>7, <1>8, <1>9 DEF drain_next

\* A claim has its answer, or the server's refusal, or fails to decode it: what is
\* left of the answer is in front of the next Sync.
LEMMA ClaimOverCourse ==
  ASSUME SPInv, pc = "claim", OnCourse, NEW e, ClaimOver(e),
         todo' \in Seq(Unit), framing' = "whole", Closed(todo'), ~at_sync',
         Match(todo', expectations, TRUE), e = "Ok" => Match(todo', expectations, FALSE),
         skipping' => e # "Ok", UNCHANGED <<write_buffer, queue_seq, ticketless>>
  PROVE  CourseInv'
<1>1. /\ HandleOK /\ TicketInv /\ AnswerInv /\ Reading
  BY OnCourseFacts DEF Reading
<1>2. /\ expectations \in Seq(Unit) /\ Queue \in Seq(Unit) /\ Queue # <<>>
      /\ Tail(Queue) = expectations /\ Closed(expectations) /\ write_buffer = <<>>
  BY <1>1, ReadingFacts
<1>3. /\ claim_seq \in Nat /\ queue_seq \in Nat /\ claim_seq < queue_seq
      /\ claim_seq \notin ticketless
  BY <1>1, HandleFacts, OpenFacts DEF check_sequence
<1>4. /\ aborted' = (aborted \/ e # "Ok") /\ claim_seq' = claim_seq + 1
      /\ PendingSyncs(expectations)
  BY DEF ClaimOver
<1>5. TicketsFor(expectations, claim_seq', queue_seq', ticketless')
  <2>1. TicketsFor(Queue, claim_seq, queue_seq, ticketless)
    BY <1>1 DEF TicketInv
  <2>2. TicketsFor(expectations, claim_seq + 1, queue_seq, ticketless)
    BY <1>2, <1>3, <2>1, TicketsClaim
  <2>3. QED
    BY <1>4, <2>2
<1>6. /\ ~aborted' => Match(todo', expectations, FALSE)
      /\ skipping' => aborted'
      /\ queue_seq' # 0 /\ write_buffer' = <<>>
  <2>1. aborted' <=> aborted \/ e # "Ok"
    BY <1>4
  <2>2. queue_seq' # 0 /\ write_buffer' = <<>>
    BY <1>2, <1>3
  <2>3. QED
    BY <2>1, <2>2
<1>7. QED
  BY <1>2, <1>4, <1>5, <1>6, PendingSyncsCourse

\* Nothing but the server's side changes, or an answer is passed over.
LEMMA StaysCourse ==
  ASSUME SPInv, OnCourse, pc # "none",
         UNCHANGED <<pc, cur, expectations, write_buffer, aborted, queue_seq, claim_seq,
                     ticketless>>,
         framing' = framing, skipping' => skipping, Closed(todo'),
         todo = <<>> /\ ~Reading => todo' = <<>>,
         Match(Wire', Queue, TRUE),
         ~aborted => IF Draining THEN Late(Wire', Queue) ELSE Match(Wire', Queue, FALSE),
         at_sync' => transaction_status' = server_tx'
  PROVE  CourseInv'
<1>0. WireInv /\ BufferInv /\ DrainInv /\ TicketInv /\ AnswerInv
  BY OnCourseFacts
<1>1. Queue' = Queue /\ (Draining' <=> Draining)
  BY DEF Queue, Reading, Draining
<1>2. WireInv'
  BY <1>0, <1>1 DEF WireInv
<1>3. BufferInv'
  BY <1>0, <1>1 DEF BufferInv
<1>4. DrainInv'
  BY <1>0, <1>1 DEF DrainInv, Reading
<1>5. TicketInv' /\ AnswerInv'
  BY <1>0, <1>1 DEF TicketInv, AnswerInv
<1>6. QED
  BY <1>2, <1>3, <1>4, <1>5 DEF CourseInv

\* One answer to the statement being claimed.
LEMMA ClaimReadCourse ==
  ASSUME SPInv, NEW m, claim_read(m)
  PROVE  CourseInv'
<1> SUFFICES ASSUME OnCourse', at' = "pipe"
             PROVE  CourseInv'
  BY DEF CourseInv
<1>0. /\ pc = "claim" /\ Reading /\ Reply(m) /\ UnusedByHandle
      /\ UNCHANGED <<transaction_status, at, queue_seq, ticketless, write_buffer, astray>>
  BY DEF claim_read, Reading
<1>1. OnCourse
  <2>1. is_broken => is_broken'
    BY DEF claim_read, ClaimOver
  <2>2. QED
    BY <1>0, <2>1 DEF OnCourse, InStep, UnusedByHandle
<1>2. HandleOK /\ WireInv /\ AnswerInv /\ BackendTypeOK /\ StageFits
  BY <1>0, <1>1, OnCourseFacts, HandleFacts
<1>3. ~aborted /\ ~skipping /\ cur.kind \in ExecKinds
  BY <1>0, <1>2 DEF AnswerInv, WireInv, Draining
<1>4. /\ todo \in Seq(Unit) /\ Queue # <<>> /\ Head(Queue) = cur /\ Tail(Queue) = expectations
      /\ Match(todo, Queue, FALSE) /\ Closed(todo) /\ framing = "whole" /\ Wire = todo
      /\ write_buffer = <<>> /\ (todo # <<>> => Head(todo).kind \in WireKinds)
  BY <1>0, <1>1, <1>3, ReadingFacts
<1>5. todo # <<>> /\ (Head(todo) = cur \/ Head(todo).kind = "Torn")
  BY <1>4, MatchNonEmpty
<1>6. /\ Head(todo).kind \in ExecKinds =>
           /\ m # "ReadyForQuery"
           /\ IF m \in {"CommandComplete", "EmptyQueryResponse"} THEN todo' = Tail(todo)
              ELSE todo' = todo
      /\ Head(todo).kind = "Torn" => m = "ParseComplete" /\ todo' = todo
      /\ skipping' = (skipping /\ m # "ReadyForQuery") /\ framing' = framing
      /\ at_sync' = (m = "ReadyForQuery")
  BY <1>0, <1>2, <1>4, <1>5, PipeReply
<1>7. m # "ReadyForQuery" /\ ~at_sync' /\ ~skipping' /\ framing' = "whole"
  BY <1>3, <1>4, <1>5, <1>6
<1>8. /\ m \in {"CommandComplete", "EmptyQueryResponse"} => Head(todo) = cur /\ todo' = Tail(todo)
      /\ m \notin {"CommandComplete", "EmptyQueryResponse"} => todo' = todo
  BY <1>3, <1>5, <1>6
<1>9. Closed(todo') /\ todo' \in Seq(Unit)
  BY <1>4, <1>5, <1>8, ClosedFacts, TailFacts
<1>10. Match(Tail(todo), expectations, FALSE) \/ Head(todo) # cur
  BY <1>3, <1>4, <1>5, MatchAnswer, KindFacts
<1>11. CASE claim_step(cur.kind, cstate, m) = "Done" /\ ClaimOver("Ok")
  <2>1. m \in {"CommandComplete", "EmptyQueryResponse"}
    BY <1>11 DEF claim_step
  <2>2. Match(todo', expectations, FALSE) /\ Match(todo', expectations, TRUE)
    BY <1>8, <1>10, <2>1, MatchAbort
  <2>3. QED
    BY <1>0, <1>1, <1>7, <1>9, <1>11, <2>2, ClaimOverCourse
<1>12. CASE /\ claim_step(cur.kind, cstate, m) \notin {"Done", "LibraryBug"}
            /\ UNCHANGED <<is_broken, aborted, claim_seq, expectations, pc, cur>>
  <2>1. m \notin {"CommandComplete", "EmptyQueryResponse"}
    BY <1>12 DEF claim_step
  <2>2. todo' = todo /\ Wire' = Wire
    BY <1>0, <1>8, <2>1 DEF Wire
  <2>3. ~Draining /\ Match(Wire', Queue, FALSE) /\ Match(Wire', Queue, TRUE)
    BY <1>0, <1>4, <2>2, MatchAbort DEF Draining
  <2>4. QED
    BY <1>0, <1>1, <1>3, <1>4, <1>7, <1>9, <1>12, <2>2, <2>3, StaysCourse
<1>13. ASSUME NEW e \in {"Decode", "LibraryBug"}, ClaimOver(e)
       PROVE  CourseInv'
  <2>1. Match(todo', expectations, TRUE)
    <3>1. CASE todo' = todo
      <4>1. Match(todo, Queue, TRUE)
        BY <1>4, MatchAbort
      <4>2. QED
        BY <1>3, <1>4, <3>1, <4>1, MatchSkipQueue, KindFacts
    <3>2. CASE Head(todo) = cur /\ todo' = Tail(todo)
      BY <1>10, <3>2, MatchAbort
    <3>3. QED
      BY <1>8, <3>1, <3>2
  <2>2. QED
    BY <1>0, <1>1, <1>7, <1>9, <1>13, <2>1, ClaimOverCourse
<1>14. \/ claim_step(cur.kind, cstate, m) = "Done" /\ ClaimOver("Ok")
       \/ \E e \in {"Decode", "LibraryBug"} : ClaimOver(e)
       \/ /\ claim_step(cur.kind, cstate, m) \notin {"Done", "LibraryBug"}
          /\ UNCHANGED <<is_broken, aborted, claim_seq, expectations, pc, cur>>
  BY DEF claim_read
<1>15. QED
  BY <1>11, <1>12, <1>13, <1>14

\* The server refuses the statement being claimed.
LEMMA ClaimErrorCourse ==
  ASSUME SPInv, claim_error
  PROVE  CourseInv'
<1> SUFFICES ASSUME OnCourse', at' = "pipe"
             PROVE  CourseInv'
  BY DEF CourseInv
<1>0. /\ pc = "claim" /\ Reading /\ UnusedByHandle
      /\ UNCHANGED <<transaction_status, at, queue_seq, ticketless, write_buffer, astray>>
  BY DEF claim_error, Reading
<1>1. OnCourse /\ ReplyError /\ ClaimOver("Server")
  <2>1. is_broken => is_broken'
    BY DEF claim_error, ClaimOver
  <2>2. ~ClaimOver("Fatal") /\ ~ClaimOver("Io")
    BY DEF ClaimOver, is_connection_broken, OnCourse, InStep
  <2>3. QED
    BY <1>0, <2>1, <2>2 DEF claim_error, OnCourse, InStep, UnusedByHandle
<1>2. HandleOK /\ WireInv /\ AnswerInv /\ BackendTypeOK /\ StageFits
  BY <1>0, <1>1, OnCourseFacts, HandleFacts
<1>3. ~aborted /\ cur.kind \in ExecKinds
  BY <1>0, <1>2 DEF AnswerInv
<1>4. /\ todo \in Seq(Unit) /\ Queue # <<>> /\ Head(Queue) = cur /\ Tail(Queue) = expectations
      /\ Match(todo, Queue, FALSE) /\ Closed(todo) /\ framing = "whole"
  BY <1>0, <1>1, <1>3, ReadingFacts
<1>5. todo # <<>> /\ (Head(todo) = cur \/ Head(todo).kind = "Torn")
  BY <1>4, MatchNonEmpty
<1>6. /\ IF Head(todo).kind \in ReadyKinds THEN todo' = todo /\ ~skipping'
         ELSE todo' = Tail(todo) /\ skipping'
      /\ framing' = framing /\ ~at_sync' /\ stage \notin {"torn", "broken"}
  BY <1>1, <1>2, ErrorFacts DEF ReplyError
<1>7. Head(todo) = cur
  BY <1>2, <1>5, <1>6 DEF StageFits, KindStages
<1>8. todo' = Tail(todo)
  BY <1>3, <1>6, <1>7, KindFacts
<1>9. Match(todo', expectations, TRUE)
  BY <1>3, <1>4, <1>5, <1>7, <1>8, MatchError
<1>10. Closed(todo') /\ todo' \in Seq(Unit)
  BY <1>4, <1>5, <1>8, ClosedFacts, TailFacts
<1>11. framing' = "whole"
  BY <1>4, <1>6
<1>12. QED
  BY <1>0, <1>1, <1>6, <1>9, <1>10, <1>11, ClaimOverCourse

\* A claim or cleanup reads on to the ReadyForQuery of its Sync.
LEMMA ConsumeCourse ==
  ASSUME SPInv, NEW m, consume_ready_for_query(m)
  PROVE  CourseInv'
<1> SUFFICES ASSUME OnCourse', at' = "pipe"
             PROVE  CourseInv'
  BY DEF CourseInv
<1>0. /\ pc \in {"syncs", "drain_read"} /\ Reading /\ Reply(m) /\ UnusedByHandle
      /\ UNCHANGED <<is_broken, at, queue_seq, ticketless, claim_seq, write_buffer, astray>>
  BY DEF consume_ready_for_query, ReadingSync, Reading
<1>1. OnCourse
  BY <1>0 DEF OnCourse, InStep, UnusedByHandle
<1>2. HandleOK /\ WireInv /\ BufferInv /\ DrainInv /\ TicketInv /\ AnswerInv
      /\ BackendTypeOK /\ StageFits
  BY <1>0, <1>1, OnCourseFacts, HandleFacts
<1>3. cur.kind = "Sync"
  BY <1>2 DEF AnswerInv, consume_ready_for_query, ReadingSync
<1>4. /\ todo \in Seq(Unit) /\ expectations \in Seq(Unit) /\ Queue \in Seq(Unit)
      /\ Queue # <<>> /\ Head(Queue) = cur /\ Tail(Queue) = expectations
      /\ Match(todo, Queue, TRUE) /\ Closed(todo) /\ Closed(expectations)
      /\ framing = "whole" /\ Wire = todo /\ write_buffer = <<>>
      /\ todo # <<>> => Head(todo).kind \in WireKinds
      /\ ~aborted /\ pc # "drain_read" => Match(todo, Queue, FALSE)
      /\ ~aborted /\ pc = "drain_read" => Late(todo, Queue)
  BY <1>0, <1>1, ReadingFacts
<1>5. todo # <<>>
  BY <1>0, <1>2, ReplyFacts
<1>6. /\ Head(todo).kind \in ExecKinds =>
           /\ m # "ReadyForQuery"
           /\ IF m \in {"CommandComplete", "EmptyQueryResponse"} THEN todo' = Tail(todo)
              ELSE todo' = todo
      /\ Head(todo).kind = "Torn" => m = "ParseComplete" /\ todo' = todo
      /\ Head(todo).kind = "Sync" => m = "ReadyForQuery" /\ todo' = Tail(todo)
      /\ skipping => Head(todo).kind = "Sync"
      /\ skipping' = (skipping /\ m # "ReadyForQuery") /\ framing' = framing
      /\ at_sync' = (m = "ReadyForQuery")
      /\ m = "ReadyForQuery" => server_tx' = server_tx
  BY <1>0, <1>2, <1>4, <1>5, PipeReply
<1>7. Closed(Tail(todo)) /\ Tail(todo) \in Seq(Unit)
  BY <1>4, <1>5, ClosedFacts, TailFacts
<1>8. CASE m # "ReadyForQuery"
  <2>1. UNCHANGED <<transaction_status, aborted, expectations, pc, cur, cstate>>
    BY <1>8 DEF consume_ready_for_query
  <2>2. Head(todo).kind \in ExecKinds \cup {"Torn"} /\ ~skipping /\ ~skipping' /\ ~at_sync'
    BY <1>4, <1>5, <1>6, <1>8 DEF WireKinds
  <2>3. CASE todo' = todo
    <3>1. Wire' = todo
      BY <1>0, <1>4, <2>3 DEF Wire
    <3>2. ~aborted => IF Draining THEN Late(todo, Queue) ELSE Match(todo, Queue, FALSE)
      BY <1>2, <1>4 DEF WireInv
    <3>3. QED
      BY <1>0, <1>1, <1>4, <1>6, <2>1, <2>2, <2>3, <3>1, <3>2, StaysCourse
  <2>4. CASE todo' = Tail(todo) /\ Head(todo).kind \in ExecKinds
    <3>1. Wire' = Tail(todo)
      BY <1>0, <1>4, <1>7, <2>4, FrontFacts DEF Wire
    <3>2. Match(Tail(todo), Queue, TRUE)
      BY <1>4, <1>5, <2>4, MatchSkipWire, KindFacts
    <3>3. ~aborted => pc = "drain_read"
      <4>1. SUFFICES ASSUME ~aborted, pc # "drain_read"
                     PROVE  FALSE
        OBVIOUS
      <4>2. Head(todo) = cur \/ Head(todo).kind = "Torn"
        BY <1>4, <4>1, MatchNonEmpty
      <4>3. QED
        BY <1>3, <2>4, <4>2, KindFacts
    <3>4. ~aborted => Draining /\ Late(Tail(todo), Queue)
      <4>1. SyncInFront(Queue)
        BY <1>3, <1>4 DEF SyncInFront
      <4>2. QED
        BY <1>4, <1>5, <2>4, <3>3, <4>1, LateTail DEF Draining
    <3>5. QED
      BY <1>0, <1>1, <1>6, <1>7, <2>1, <2>2, <2>4, <3>1, <3>2, <3>4, StaysCourse
  <2>5. QED
    BY <1>6, <2>2, <2>3, <2>4
<1>9. CASE m = "ReadyForQuery"
  <2>1. /\ Head(todo).kind = "Sync" /\ todo' = Tail(todo) /\ ~skipping' /\ framing' = "whole"
        /\ at_sync' /\ server_tx' = server_tx
    BY <1>4, <1>5, <1>6, <1>9 DEF WireKinds
  <2>2. transaction_status' = server_tx' /\ (aborted' <=> aborted /\ pc # "syncs")
    BY <1>9, <2>1 DEF consume_ready_for_query, AtReadyForQuery
  <2>3. Match(Tail(todo), expectations, FALSE)
    <3>1. Match(todo, Queue, FALSE)
      BY <1>3, <1>4, <1>5, <2>1, MatchReady
    <3>2. QED
      BY <1>4, <1>5, <2>1, <3>1, MatchAnswer
  <2>4. Match(Tail(todo), expectations, TRUE)
    BY <2>3, MatchAbort
  <2>5. expectations = <<>> => Tail(todo) = <<>>
    <3>1. SUFFICES ASSUME expectations = <<>>
                   PROVE  Tail(todo) = <<>>
      OBVIOUS
    <3>2. NoSync(Tail(todo))
      <4>1. NoSync(expectations)
        BY <3>1 DEF NoSync, Kinded
      <4>2. QED
        BY <2>3, <4>1, MatchNoSync
    <3>3. EndsInSync(todo)
      <4>1. ~NoSync(todo)
        BY <1>4, <1>5, <2>1, KindedFacts DEF NoSync
      <4>2. QED
        BY <1>4, <4>1 DEF Closed
    <3>4. Tail(todo) # <<>> => EndsInSync(Tail(todo))
      BY <1>4, <1>5, <3>3, EndsFacts
    <3>5. QED
      BY <1>7, <3>2, <3>4, EndsFacts
  <2>6. CASE pc = "syncs"
    <3>1. PendingSyncs(expectations) /\ ~aborted'
      BY <1>9, <2>2, <2>6 DEF consume_ready_for_query
    <3>2. TicketsFor(expectations, claim_seq', queue_seq', ticketless')
      <4>1. TicketsFor(Queue, claim_seq, queue_seq, ticketless)
        BY <1>2, <2>6 DEF TicketInv
      <4>2. TicketsFor(Tail(Queue), claim_seq, queue_seq, ticketless)
        BY <1>3, <1>4, <4>1, TicketsSync, KindFacts
      <4>3. QED
        BY <1>0, <1>4, <4>2
    <3>3. write_buffer' = <<>>
      BY <1>0, <1>4
    <3>4. QED
      BY <1>4, <1>7, <2>1, <2>2, <2>3, <2>4, <2>5, <3>1, <3>2, <3>3, PendingSyncsCourse
  <2>7. CASE pc = "drain_read"
    <3>1. pc' = "drain" /\ expectations' = expectations
      BY <1>9, <2>7 DEF consume_ready_for_query, At
    <3>2. expectations # <<>> => EndsInSync(expectations)
      BY <1>2, <1>4, <2>7, EndsFacts DEF DrainInv
    <3>3. Late(Tail(todo), expectations)
      BY <2>3, LateMatch
    <3>4. write_buffer' = <<>>
      BY <1>0, <1>4
    <3>5. QED
      BY <1>7, <2>1, <2>2, <2>4, <2>5, <3>1, <3>2, <3>3, <3>4, DrainCourse
  <2>8. QED
    BY <1>0, <2>6, <2>7
<1>10. QED
  BY <1>8, <1>9

\* Where cleanup is when it reads the answer to a statement nobody claimed: the
\* server is at that statement or at one in front of it.
LEMMA DrainFacts ==
  ASSUME SPInv, OnCourse, pc = "drain_read", cur.kind # "Sync"
  PROVE  /\ ~aborted /\ cur.kind \in ExecKinds
         /\ todo # <<>> /\ Head(todo).kind \in ExecKinds \cup {"Torn"}
         /\ EndsInSync(expectations) /\ expectations # <<>>
         /\ Match(todo, expectations, TRUE) /\ Late(todo, expectations)
         /\ Head(todo).kind \in ExecKinds =>
              /\ Match(Tail(todo), expectations, TRUE) /\ Late(Tail(todo), expectations)
              /\ Closed(Tail(todo)) /\ Tail(todo) \in Seq(Unit)
<1>0. DrainInv /\ AnswerInv /\ Reading
  BY OnCourseFacts DEF Reading
<1>1. /\ todo \in Seq(Unit) /\ cur \in Unit /\ expectations \in Seq(Unit)
      /\ Queue = <<cur>> \o expectations /\ Queue # <<>>
      /\ Head(Queue) = cur /\ Tail(Queue) = expectations /\ Queue \in Seq(Unit)
      /\ Match(todo, Queue, TRUE) /\ cur.kind \in ExecKinds \cup {"Sync"}
      /\ ~aborted => Late(todo, Queue)
      /\ Kinded(todo, WireKinds) /\ Closed(todo)
  BY <1>0, ReadingFacts
<1>2. ~aborted /\ cur.kind \in ExecKinds
  BY <1>0, <1>1 DEF AnswerInv
<1>3. /\ todo # <<>> /\ Head(todo).kind \in ExecKinds \cup {"Torn"} /\ Late(todo, expectations)
      /\ Head(todo).kind \in ExecKinds => Late(Tail(todo), expectations)
  BY <1>1, <1>2, LateNext
<1>4. EndsInSync(expectations) /\ expectations # <<>>
  <2>1. EndsInSync(expectations)
    BY <1>0, <1>1, EndsFacts DEF DrainInv
  <2>2. QED
    BY <2>1 DEF EndsInSync
<1>5. Match(todo, expectations, TRUE)
  BY <1>1, MatchSkipQueue
<1>6. Head(todo).kind \in ExecKinds => Match(Tail(todo), expectations, TRUE)
  BY <1>3, <1>5, MatchSkipWire, KindFacts
<1>7. Closed(Tail(todo)) /\ Tail(todo) \in Seq(Unit)
  BY <1>1, <1>3, ClosedFacts, TailFacts
<1>8. QED
  BY <1>2, <1>3, <1>4, <1>5, <1>6, <1>7

\* Cleanup reads an answer to a statement nobody claimed.
LEMMA DrainReadCourse ==
  ASSUME SPInv, NEW m, drain_read(m)
  PROVE  CourseInv'
<1> SUFFICES ASSUME OnCourse', at' = "pipe"
             PROVE  CourseInv'
  BY DEF CourseInv
<1>0. /\ pc = "drain_read" /\ Reading /\ Reply(m) /\ UnusedByHandle /\ cur.kind # "Sync"
      /\ UNCHANGED <<is_broken, transaction_status, at, queue_seq, ticketless, claim_seq, aborted,
                     expectations, write_buffer, astray>>
  BY DEF drain_read, Reading
<1>1. OnCourse
  BY <1>0 DEF OnCourse, InStep, UnusedByHandle
<1>2. HandleOK /\ WireInv /\ BackendTypeOK /\ StageFits
  BY <1>0, <1>1, OnCourseFacts, HandleFacts
<1>3. /\ todo \in Seq(Unit) /\ Closed(todo) /\ framing = "whole" /\ Wire = todo
      /\ write_buffer = <<>>
  BY <1>0, <1>1, ReadingFacts
<1>4. /\ todo # <<>> /\ Head(todo).kind \in ExecKinds \cup {"Torn"}
      /\ EndsInSync(expectations) /\ expectations # <<>>
      /\ Match(todo, expectations, TRUE) /\ Late(todo, expectations)
      /\ Head(todo).kind \in ExecKinds =>
           /\ Match(Tail(todo), expectations, TRUE) /\ Late(Tail(todo), expectations)
           /\ Closed(Tail(todo)) /\ Tail(todo) \in Seq(Unit)
  BY <1>0, <1>1, DrainFacts
<1>5. /\ Head(todo).kind \in ExecKinds =>
           /\ m # "ReadyForQuery"
           /\ IF m \in {"CommandComplete", "EmptyQueryResponse"} THEN todo' = Tail(todo)
              ELSE todo' = todo
      /\ Head(todo).kind = "Torn" => m = "ParseComplete" /\ todo' = todo
      /\ skipping => Head(todo).kind = "Sync"
      /\ skipping' = (skipping /\ m # "ReadyForQuery") /\ framing' = framing
      /\ at_sync' = (m = "ReadyForQuery")
  <2>1. Head(todo).kind \in WireKinds
    BY <1>4 DEF WireKinds
  <2>2. QED
    BY <1>0, <1>2, <2>1, PipeReply
<1>6. ~skipping' /\ ~at_sync' /\ framing' = "whole" /\ write_buffer' = <<>>
  BY <1>0, <1>3, <1>4, <1>5, KindFacts
<1>7. CASE At("drain")
  <2>1. \/ todo' = todo
        \/ todo' = Tail(todo) /\ Head(todo).kind \in ExecKinds
    BY <1>4, <1>5
  <2>2. /\ Match(todo', expectations, TRUE) /\ Late(todo', expectations)
        /\ Closed(todo') /\ todo' \in Seq(Unit)
    BY <1>3, <1>4, <2>1
  <2>3. pc' = "drain"
    BY <1>7 DEF At
  <2>4. QED
    BY <1>0, <1>4, <1>6, <2>2, <2>3, DrainCourse
<1>8. CASE /\ drain_step(m) \notin {"Done", "LibraryBug"} /\ UNCHANGED <<pc, cur>>
  <2>1. m \notin {"CommandComplete", "EmptyQueryResponse"}
    BY <1>8 DEF drain_step, claim_step
  <2>2. todo' = todo /\ Wire' = Wire
    BY <1>0, <1>4, <1>5, <2>1 DEF Wire
  <2>3. QED
    BY <1>0, <1>1, <1>2, <1>3, <1>6, <1>8, <2>2, StaysCourse DEF WireInv
<1>9. QED
  BY <1>7, <1>8 DEF drain_read

\* It reads an error, with its Sync next in the queue.
LEMMA DrainErrorCourse ==
  ASSUME SPInv, drain_error
  PROVE  CourseInv'
<1> SUFFICES ASSUME OnCourse', at' = "pipe"
             PROVE  CourseInv'
  BY DEF CourseInv
<1>0. /\ pc = "drain_read" /\ Reading /\ UnusedByHandle /\ cur.kind # "Sync" /\ At("drain")
      /\ UNCHANGED <<is_broken, transaction_status, at, queue_seq, ticketless, claim_seq, aborted,
                     expectations, write_buffer>>
  BY DEF drain_error, Reading
<1>1. ReplyError /\ SyncInFront(expectations) /\ OnCourse
  <2>1. ReplyError /\ astray' = (astray \/ ~SyncInFront(expectations))
    BY DEF drain_error, OnCourse
  <2>2. QED
    BY <1>0, <2>1 DEF OnCourse, InStep, UnusedByHandle
<1>2. BackendTypeOK /\ StageFits
  BY <1>0, <1>1, OnCourseFacts, HandleFacts
<1>3. framing = "whole" /\ write_buffer = <<>>
  BY <1>0, <1>1, ReadingFacts
<1>4. /\ todo # <<>> /\ Head(todo).kind \in ExecKinds \cup {"Torn"}
      /\ EndsInSync(expectations) /\ expectations # <<>>
      /\ Head(todo).kind \in ExecKinds =>
           /\ Match(Tail(todo), expectations, TRUE) /\ Late(Tail(todo), expectations)
           /\ Closed(Tail(todo)) /\ Tail(todo) \in Seq(Unit)
  BY <1>0, <1>1, DrainFacts
<1>5. /\ IF Head(todo).kind \in ReadyKinds THEN todo' = todo /\ ~skipping'
         ELSE todo' = Tail(todo) /\ skipping'
      /\ framing' = framing /\ ~at_sync' /\ stage \notin {"torn", "broken"}
  BY <1>1, <1>2, ErrorFacts DEF ReplyError
<1>6. Head(todo).kind \in ExecKinds
  BY <1>2, <1>4, <1>5 DEF StageFits, KindStages
<1>7. todo' = Tail(todo)
  BY <1>5, <1>6, KindFacts
<1>8. pc' = "drain" /\ write_buffer' = <<>> /\ framing' = "whole" /\ SyncInFront(expectations')
  BY <1>0, <1>1, <1>3, <1>5 DEF At, SyncInFront
<1>9. QED
  BY <1>0, <1>4, <1>5, <1>6, <1>7, <1>8, DrainCourse

\* The server passes over a statement, or goes away.
LEMMA EnvironmentCourse ==
  ASSUME SPInv, at = "pipe", Environment, UNCHANGED handle
  PROVE  CourseInv'
<1> SUFFICES ASSUME OnCourse'
             PROVE  CourseInv'
  BY DEF CourseInv
<1>0. /\ UNCHANGED <<is_broken, transaction_status, at, early, astray, pc, cur, expectations,
                     write_buffer, aborted, queue_seq, claim_seq, ticketless>>
      /\ ServerDiscard \/ PeerDies
  BY DEF Environment, handle
<1>1. OnCourse
  BY <1>0 DEF OnCourse, InStep
<1>2. HandleOK /\ WireInv /\ BufferInv /\ AnswerInv /\ BackendTypeOK /\ pc # "none"
  BY <1>1, OnCourseFacts, HandleFacts DEF PlaceTypeOK
<1>3. CASE PeerDies
  <2>1. UNCHANGED <<todo, skipping, framing, at_sync, server_tx>>
    BY <1>3 DEF PeerDies
  <2>2. Wire' = Wire
    BY <1>0, <2>1 DEF Wire
  <2>3. Match(Wire, Queue, TRUE) /\ Closed(todo)
        /\ (~aborted => IF Draining THEN Late(Wire, Queue) ELSE Match(Wire, Queue, FALSE))
        /\ (at_sync => transaction_status = server_tx)
    BY <1>2 DEF WireInv, BufferInv, AnswerInv
  <2>4. QED
    BY <1>0, <1>1, <1>2, <2>1, <2>2, <2>3, StaysCourse
<1>4. CASE ServerDiscard
  <2>1. /\ todo # <<>> /\ todo \in Seq(Unit) /\ skipping
        /\ Head(todo).kind \notin {"Sync", "Torn"}
        /\ todo' = Tail(todo) /\ UNCHANGED <<skipping, server_tx, at_sync, framing>>
    BY <1>2, <1>4, DiscardFacts
  <2>2. write_buffer \in Seq(Unit) /\ Tail(todo) \in Seq(Unit)
    BY <1>2, <2>1, HandleFacts, TailFacts
  <2>3. /\ Wire # <<>> /\ Head(Wire) = Head(todo) /\ Tail(Wire) = Wire' /\ Wire \in Seq(Unit)
    <3>1. /\ Head(Wire) = Head(todo) /\ Tail(Wire) = Tail(todo) \o write_buffer
          /\ Wire \in Seq(Unit)
      BY <2>1, <2>2, FrontFacts DEF Wire
    <3>2. Wire # <<>>
      BY <2>1, <2>2 DEF Wire
    <3>3. QED
      BY <1>0, <2>1, <3>1, <3>2 DEF Wire
  <2>4. Match(Wire, Queue, TRUE) /\ Queue \in Seq(Unit) /\ Head(Wire).kind \in ExecKinds
    <3>1. Match(Wire, Queue, TRUE)
      BY <1>2 DEF WireInv
    <3>2. QED
      BY <2>1, <2>3, <3>1, MatchParts DEF WireKinds
  <2>5. Match(Wire', Queue, TRUE)
    BY <2>1, <2>3, <2>4, MatchSkipWire
  <2>6. ASSUME ~aborted
        PROVE  Draining /\ Late(Wire', Queue)
    <3>1. Draining /\ SyncInFront(Queue) /\ Late(Wire, Queue)
      BY <1>2, <2>1, <2>6 DEF WireInv
    <3>2. QED
      BY <2>3, <2>4, <3>1, LateTail
  <2>7. Closed(todo')
    BY <1>2, <2>1, ClosedFacts DEF BufferInv
  <2>8. at_sync' => transaction_status' = server_tx'
    BY <1>0, <1>2, <2>1 DEF AnswerInv
  <2>9. QED
    BY <1>0, <1>1, <1>2, <2>1, <2>5, <2>6, <2>7, <2>8, StaysCourse
<1>5. QED
  BY <1>0, <1>3, <1>4

\* The other steps end the borrowing, or lose their place.
LEMMA AstrayCourse ==
  ASSUME consume_ready_for_query_error \/ close_handle
  PROVE  CourseInv'
  BY DEF consume_ready_for_query_error, close_handle, CourseInv, OnCourse

-----------------------------------------------------------------------------
\* While a handle borrows the connection, no call of the connection runs.
LEMMA BorrowedSteps ==
  ASSUME at = "pipe", SyncNext
  PROVE  Environment
<1>1. ASSUME NEW r \in Requests, Call(r)
      PROVE  FALSE
  <2>1. PICK o \in ReadOps, n \in Nat \ {0}, more \in 0..(MaxChunks - 1) : Start(o, r, n, more)
    BY <1>1, CallFacts
  <2>2. QED
    BY <2>1 DEF Start
<1>2. /\ ~lowlevel_flush /\ ~next_chunk /\ ~read_error /\ ~read_async /\ ~read_fails
      /\ \A m \in Messages : ~read_message(m)
  BY DEF lowlevel_flush, next_chunk, read_error, read_async, read_fails, read_message
<1>3. ~portal_exec /\ ~portal_return /\ ~close
  BY DEF portal_exec, portal_return, portal_call, close
<1>4. QED
  BY <1>1, <1>2, <1>3 DEF SyncNext

\* A step of the server meanwhile keeps the types.
LEMMA BorrowedType ==
  ASSUME HandleOK, at = "pipe", Environment, UNCHANGED handle
  PROVE  HandleOK'
<1>1. /\ UNCHANGED <<is_broken, transaction_status, at, op, req, state, pending_error, chunks,
                     carry, early, astray, pc, cur, cstate, expectations, write_buffer,
                     aborted, queue_seq, claim_seq, ticketless>>
      /\ ServerDiscard \/ PeerDies
  BY DEF Environment, handle
<1>2. /\ BackendTypeOK /\ StageFits /\ CountTypeOK /\ FutureTypeOK /\ PlaceTypeOK
  BY HandleFacts
<1>3. BackendTypeOK' /\ StageFits'
  <2>1. CASE PeerDies
    BY <1>2, <2>1 DEF PeerDies, BackendTypeOK, StageFits
  <2>2. CASE ServerDiscard
    <3>1. /\ todo # <<>> /\ todo \in Seq(Unit) /\ todo' = Tail(todo) /\ StageFits'
          /\ UNCHANGED <<skipping, server_tx, at_sync, alive, framing>>
      BY <1>2, <2>2, DiscardFacts
    <3>2. QED
      BY <1>2, <2>2, <3>1, TailFacts, StageOfType DEF BackendTypeOK, ServerDiscard
  <2>3. QED
    BY <1>1, <2>1, <2>2
<1>4. CountTypeOK' /\ FutureTypeOK' /\ PlaceTypeOK'
  BY <1>1, <1>2 DEF CountTypeOK, FutureTypeOK, PlaceTypeOK
<1>5. SPTypeOK'
  BY <1>3, <1>4, SPTypeSplit DEF SPTypeOK, CountTypeOK, FutureTypeOK, PlaceTypeOK
<1>6. BorrowTypeOK' /\ HandleInv'
  BY <1>1 DEF HandleOK, BorrowTypeOK, HandleInv, check_sequence
<1>7. QED
  BY <1>3, <1>5, <1>6 DEF HandleOK

\* Without a handle, the connection keeps its own invariant.
LEMMA ConnectionStep ==
  ASSUME SPInv, at # "pipe", OnCourse \/ at # "idle", [SyncNext]_syncvars, UNCHANGED handle
  PROVE  SPInv'
<1>1. /\ SPTypeOK /\ CountTypeOK /\ FutureTypeOK /\ PlaceTypeOK /\ HandleInv
      /\ UNCHANGED <<queue_seq, ticketless, claim_seq, aborted, expectations, write_buffer, pc,
                     cur, cstate, astray>>
  BY HandleFacts DEF SPInv, HandleOK, handle
<1>2. IInv /\ ~astray
  BY <1>1 DEF HandleInv, OnCourse
<1>3. IInv'
  BY <1>2, NextInv
<1>4. /\ BackendTypeOK' /\ StageFits' /\ is_broken' \in BOOLEAN
      /\ transaction_status' \in TxStatus /\ BorrowTypeOK'
      /\ at' \in {"idle", "read", "chunk", "portal", "closed"}
  BY <1>3 DEF IInv, SyncTypeOK, BorrowTypeOK
<1>5. pc = "none" /\ pc' = "none" /\ at' # "pipe"
  BY <1>1, <1>4 DEF PlaceTypeOK
<1>6. CountTypeOK' /\ FutureTypeOK' /\ PlaceTypeOK'
  BY <1>1, <1>4, <1>5 DEF CountTypeOK, FutureTypeOK, PlaceTypeOK
<1>7. SPTypeOK'
  BY <1>4, <1>6 DEF SPTypeOK, CountTypeOK, FutureTypeOK, PlaceTypeOK
<1>8. HandleInv' /\ CourseInv'
  BY <1>1, <1>2, <1>3, <1>5 DEF HandleInv, CourseInv
<1>9. QED
  BY <1>4, <1>7, <1>8 DEF SPInv, HandleOK

\* A step that changes nothing.
LEMMA SPStutter ==
  ASSUME SPInv, UNCHANGED spvars
  PROVE  SPInv'
<1>1. UNCHANGED <<todo, stage, skipping, server_tx, at_sync, alive, framing, is_broken,
                  transaction_status, at, op, req, state, pending_error, chunks, carry, early,
                  queue_seq, ticketless, claim_seq, aborted, expectations, write_buffer, pc,
                  cur, cstate, astray>>
  BY DEF spvars, syncvars, backend, handle
<1>2. HandleOK /\ CourseInv
  BY DEF SPInv
<1>3. SPTypeOK' /\ BorrowTypeOK' /\ StageFits'
  BY <1>1, <1>2 DEF HandleOK, SPTypeOK, BackendTypeOK, BorrowTypeOK, StageFits
<1>4. CASE at = "pipe"
  BY <1>1, <1>2, <1>3, <1>4
     DEF SPInv, HandleOK, HandleInv, check_sequence, CourseInv, OnCourse, InStep, WireInv,
         BufferInv, DrainInv, TicketInv, AnswerInv, Wire, Queue, Reading, Draining
<1>5. CASE at # "pipe"
  <2>1. UNCHANGED syncvars
    BY <1>1 DEF syncvars, backend
  <2>2. astray \/ (IInv /\ IInv')
    <3>1. IInv => IInv'
      BY <2>1, NextInv
    <3>2. ~astray => IInv
      BY <1>2, <1>5 DEF HandleOK, HandleInv
    <3>3. QED
      BY <3>1, <3>2
  <2>3. HandleInv' /\ CourseInv'
    BY <1>1, <1>2, <1>5, <2>2 DEF HandleOK, HandleInv, check_sequence, CourseInv
  <2>4. QED
    BY <1>3, <2>3 DEF SPInv, HandleOK
<1>6. QED
  BY <1>4, <1>5

-----------------------------------------------------------------------------
\* The invariant holds initially.
LEMMA SPInitInv == SPInit => SPInv
<1> SUFFICES ASSUME SPInit PROVE SPInv
  OBVIOUS
<1>1. IInv
  BY InitInv DEF SPInit
<1>2. at = "idle" /\ pc = "none" /\ astray = FALSE
  BY DEF SPInit, SyncInit
<1>3. U("Sync", req) \in Unit /\ <<>> \in Seq(Unit) /\ 0 \in 0..MaxQueue /\ 0 \in 0..0
  <2>1. req \in Requests
    BY DEF SPInit, SyncInit
  <2>2. QED
    BY <2>1, PipelineAssumption DEF U, Unit, Kinds
<1>4. CountTypeOK /\ FutureTypeOK /\ PlaceTypeOK
  BY <1>1, <1>2, <1>3
     DEF SPInit, IInv, SyncTypeOK, CountTypeOK, FutureTypeOK, PlaceTypeOK, ClaimStates
<1>5. BackendTypeOK /\ StageFits /\ BorrowTypeOK
  BY <1>1 DEF IInv, SyncTypeOK, BorrowTypeOK
<1>6. HandleInv /\ CourseInv
  BY <1>1, <1>2 DEF HandleInv, CourseInv
<1>7. QED
  BY <1>4, <1>5, <1>6, SPTypeSplit DEF SPInv, HandleOK

\* Every step preserves it, of a caller that does not use the unusual call orders.
LEMMA SPNextInv ==
  ASSUME Usage = {}, SPInv, [SPNext]_spvars
  PROVE  SPInv'
<1>0. HandleOK /\ CourseInv
  BY DEF SPInv
<1>1. CASE (OnCourse \/ at # "idle") /\ SyncNext /\ UNCHANGED handle
  <2>1. CASE at = "pipe"
    <3>1. Environment
      BY <1>1, <2>1, BorrowedSteps
    <3>2. QED
      BY <1>0, <1>1, <2>1, <3>1, BorrowedType, EnvironmentCourse DEF SPInv
  <2>2. CASE at # "pipe"
    BY <1>1, <2>2, ConnectionStep
  <2>3. QED
    BY <2>1, <2>2
<1>2. ASSUME NEW r \in Requests, new_inner(r)
      PROVE  SPInv'
  BY <1>0, <1>2, NewType, NewCourse DEF SPInv
<1>3. ASSUME NEW r \in Requests, NEW k \in ExecKinds, exec_queue(U(k, r))
      PROVE  SPInv'
  BY <1>0, <1>3, ExecType, ExecCourse DEF SPInv
<1>4. CASE flush
  BY <1>0, <1>4, FlushType, FlushCourse DEF SPInv
<1>5. CASE sync
  BY <1>0, <1>5, SyncType, SyncCourse DEF SPInv
<1>6. CASE claim_with_handler
  BY <1>0, <1>6, ClaimType, ClaimCourse DEF SPInv
<1>7. CASE cleanup_inner
  BY <1>0, <1>7, CleanupType, CleanupCourse DEF SPInv
<1>8. CASE drain_next
  BY <1>0, <1>8, DrainNextType, DrainNextCourse DEF SPInv
<1>9. CASE close_handle
  BY <1>0, <1>9, CloseType, AstrayCourse DEF SPInv
<1>10. ASSUME NEW m \in Messages, claim_read(m)
       PROVE  SPInv'
  BY <1>0, <1>10, ClaimReadType, ClaimReadCourse DEF SPInv
<1>11. ASSUME NEW m \in Messages, consume_ready_for_query(m)
       PROVE  SPInv'
  BY <1>0, <1>11, ConsumeType, ConsumeCourse DEF SPInv
<1>12. ASSUME NEW m \in Messages, drain_read(m)
       PROVE  SPInv'
  BY <1>0, <1>12, DrainReadType, DrainReadCourse DEF SPInv
<1>13. CASE claim_error
  BY <1>0, <1>13, ClaimErrorType, ClaimErrorCourse DEF SPInv
<1>14. CASE consume_ready_for_query_error
  BY <1>0, <1>14, ConsumeErrorType, AstrayCourse DEF SPInv
<1>15. CASE drain_error
  BY <1>0, <1>15, DrainErrorType, DrainErrorCourse DEF SPInv
<1>16. CASE UNCHANGED spvars
  BY <1>16, SPStutter
<1>17. QED
  BY <1>1, <1>2, <1>3, <1>4, <1>5, <1>6, <1>7, <1>8, <1>9, <1>10, <1>11, <1>12, <1>13,
     <1>14, <1>15, <1>16 DEF SPNext

\* The invariant holds in every reachable state.
LEMMA SPInvariant ==
  ASSUME Usage = {}
  PROVE  SPSpec => []SPInv
  BY SPInitInv, SPNextInv, PTL DEF SPSpec

-----------------------------------------------------------------------------
\* Callers with Usage = {}: every variable of the handle, the connection and the server
\* stays within its type, and the counters in step: no claim gets past what was queued.
THEOREM SPTypeCorrect ==
  ASSUME Usage = {}
  PROVE  SPSpec => []SPTypeOK
<1>1. SPInv => SPTypeOK
  BY DEF SPInv, HandleOK
<1>2. QED
  BY <1>1, SPInvariant, PTL

\* Callers with Usage = {} (in an aborted pipeline with statements behind a Sync a claim
\* pops the Sync): the handle expects a ReadyForQuery for every Sync that is written or
\* still to be written, and no other, so no claim takes one that is not its own.
THEOREM EverySyncMatched ==
  ASSUME Usage = {}
  PROVE  SPSpec => []SyncsMatch
<1>1. SPInv => SyncsMatch
  <2> SUFFICES ASSUME SPInv, at = "pipe", OnCourse
               PROVE  Len(SyncsOf(Awaited)) = Len(SyncsOf(Wire))
    BY DEF SyncsMatch, Wire
  <2>1. SyncsOf(Wire) = SyncsOf(Queue)
    BY OnCourseFacts, MatchSyncs DEF WireInv, SyncsOf
  <2>2. CASE ReadingSync \/ ~Reading
    <3>1. Awaited = Queue
      BY <2>2 DEF Awaited, Queue, ReadingSync, Reading
    <3>2. QED
      BY <2>1, <3>1
  <2>3. CASE ~ReadingSync /\ Reading
    <3>1. /\ Queue \in Seq(Unit) /\ Queue # <<>> /\ Head(Queue) = cur
          /\ Tail(Queue) = expectations /\ AnswerInv
      BY <2>3, ReadingFacts, OnCourseFacts
    <3>2. cur.kind # "Sync"
      BY <2>3, <3>1, KindFacts DEF AnswerInv, ReadingSync, Reading
    <3>3. SyncsOf(Queue) = SyncsOf(expectations)
      BY <3>1, <3>2, OfKindsHead DEF SyncsOf
    <3>4. Awaited = expectations
      BY <2>3 DEF Awaited
    <3>5. QED
      BY <2>1, <3>3, <3>4
  <2>4. QED
    BY <2>2, <2>3
<1>2. QED
  BY <1>1, SPInvariant, PTL

\* Callers with Usage = {}: the answer a claim reads is the one to the statement its ticket
\* stands for, unless the server is stuck at a torn statement in front of it.
THEOREM SyncClaimsOwn ==
  ASSUME Usage = {}
  PROVE  SPSpec => []SyncClaimReadsOwnAnswer
<1>1. SPInv => SyncClaimReadsOwnAnswer
  <2> SUFFICES ASSUME SPInv, pc = "claim", OnCourse
               PROVE  todo # <<>> /\ (Head(todo) = cur \/ Head(todo).kind = "Torn")
    BY DEF SyncClaimReadsOwnAnswer
  <2>1. Reading /\ ~aborted
    BY OnCourseFacts DEF Reading, AnswerInv
  <2>2. Queue # <<>> /\ Head(Queue) = cur /\ Match(todo, Queue, FALSE)
    BY <2>1, ReadingFacts
  <2>3. QED
    BY <2>2, MatchNonEmpty
<1>2. QED
  BY <1>1, SPInvariant, PTL

\* Callers with Usage = {}: a claim or a cleanup on course waits for something that the
\* server has yet to send: a Sync, if the server is skipping to one.
THEOREM SyncPipeAnswerDue ==
  ASSUME Usage = {}
  PROVE  SPSpec => []SyncPipeNeverHangs
<1>1. SPInv => SyncPipeNeverHangs
  <2> SUFFICES ASSUME SPInv, Reading, OnCourse
               PROVE  \E i \in DOMAIN todo : skipping => todo[i].kind = "Sync"
    BY DEF SyncPipeNeverHangs, Reading
  <2>1. /\ todo \in Seq(Unit) /\ Queue # <<>> /\ Head(Queue) = cur /\ Queue \in Seq(Unit)
        /\ Match(todo, Queue, TRUE)
        /\ ~aborted /\ pc # "drain_read" => Match(todo, Queue, FALSE)
    BY ReadingFacts
  <2>2. WireInv /\ DrainInv /\ AnswerInv
    BY OnCourseFacts DEF Reading
  <2>3. CASE pc = "claim"
    <3>1. ~aborted /\ todo # <<>>
      BY <2>1, <2>2, <2>3, MatchNonEmpty DEF AnswerInv
    <3>2. ~skipping
      BY <2>2, <2>3, <3>1 DEF WireInv, Draining
    <3>3. 1 \in DOMAIN todo
      BY <2>1, <3>1
    <3>4. QED
      BY <3>2, <3>3
  <2>4. CASE pc # "claim"
    <3>1. ~NoSync(todo)
      <4>1. CASE pc = "syncs"
        BY <2>1, <2>2, <4>1, MatchSyncAhead DEF AnswerInv
      <4>2. CASE pc = "drain_read"
        BY <2>1, <2>2, <4>2, EndsFacts, MatchNoSync DEF DrainInv
      <4>3. QED
        BY <2>4, <4>1, <4>2 DEF Reading
    <3>2. PICK i \in 1..Len(todo) : todo[i].kind \notin Kinds \ {"Sync"}
      BY <3>1 DEF NoSync, Kinded
    <3>3. todo[i].kind \in Kinds
      <4>1. todo[i] \in Unit
        BY <2>1
      <4>2. QED
        BY <4>1 DEF Unit
    <3>4. i \in DOMAIN todo /\ todo[i].kind = "Sync"
      BY <2>1, <3>2, <3>3
    <3>5. QED
      BY <3>4
  <2>5. QED
    BY <2>3, <2>4
<1>2. QED
  BY <1>1, SPInvariant, PTL

\* Callers with Usage = {}: whatever was queued, claimed and refused, a handle that stayed
\* on course gives the connection back with nothing unread and with the server's
\* transaction status.
THEOREM HandleGivesBackDrained ==
  ASSUME Usage = {}
  PROVE  SPSpec => []GivesBackDrained
<1>1. SPInv => GivesBackDrained
  <2> SUFFICES ASSUME SPInv, at = "idle", OnCourse
               PROVE  Drained /\ (at_sync => transaction_status = server_tx)
    BY DEF GivesBackDrained
  <2>1. IInv /\ early = "no" /\ Course
    BY DEF SPInv, HandleOK, HandleInv, OnCourse, InStep, Course
  <2>2. QED
    BY <2>1 DEF IInv, RestInv, StatusInv, Drained
<1>2. QED
  BY <1>1, SPInvariant, PTL
=============================================================================
