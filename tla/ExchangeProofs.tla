--------------------------- MODULE ExchangeProofs ---------------------------
(***************************************************************************)
(* Lemmas that the proofs about the blocking and the asynchronous          *)
(* connection and pipeline share: what the server answers to each unit,    *)
(* when each state machine finishes, what each call writes, how a queue of *)
(* expected answers matches what is on the wire, and induction over        *)
(* numbers and sequences.                                                  *)
(***************************************************************************)
EXTENDS Expectations, WellFoundedInduction, TLAPS

\* The stages the server goes through for a unit of kind k.
KindStages(k) ==
  CASE k = "Prepare"   -> {"parse", "param", "stmtdesc"}
    [] k = "Parse"     -> {"parse"}
    [] k = "ParseBind" -> {"parse", "bind"}
    [] k = "Bind"      -> {"bind"}
    [] k = "ParseBindExecute"    -> {"parse", "bind", "desc", "rows", "norows"}
    [] k = "BindDescribeExecute" -> {"bind", "desc", "rows", "norows"}
    [] k = "BindExecute"         -> {"bind", "rows", "norows"}
    [] k = "DescribeExecute"     -> {"desc", "rows", "norows"}
    [] k = "Close"     -> {"close"}
    [] k = "Sync"      -> {"sync", "ready"}
    [] k = "Torn"      -> {"torn", "broken"}
    [] OTHER           -> {"query", "qmore", "qrows", "qready", "qcopy"}

\* The units of call o, not fully answered: one Query; units that end with the
\* only Sync; or the single unit of a call that does not sync.
Shape(o, q) ==
  /\ o = "query" => Len(q) = 1 /\ q[1].kind = "Query"
  /\ o \in ReadyOps \ {"query"} =>
       /\ Len(q) >= 1 /\ q[Len(q)].kind = "Sync"
       /\ \A i \in 1..(Len(q) - 1) : q[i].kind \notin ReadyKinds
  /\ o \notin ReadyOps =>
       /\ Len(q) = 1
       /\ o \in {"named_portal_sql", "portal_bind_sql"} => q[1].kind = "ParseBind"
       /\ o \in {"named_portal_prepared", "portal_bind_prepared", "lowlevel_bind"} =>
            q[1].kind = "Bind"
       /\ o \in ExecuteOps => q[1].kind = "DescribeExecute"
       /\ o = "lowlevel_close_portal" => q[1].kind = "Close"

\* All written by call r.
TaggedBy(q, r) == \A i \in 1..Len(q) : q[i].req = r

\* What the server owes next belongs to the unit it is answering.
StageFits == todo # <<>> => stage \in KindStages(Head(todo).kind)

-----------------------------------------------------------------------------
\* Lemmas about the server's answers.

\* Every stage of a unit is a stage, "done" is none, and FirstStage is one.
LEMMA StageFacts ==
  ASSUME NEW k \in Kinds
  PROVE  /\ KindStages(k) \subseteq Stages
         /\ "done" \notin KindStages(k) /\ "none" \notin KindStages(k)
         /\ FirstStage(k) \in KindStages(k)
  BY DEF Kinds, KindStages, Stages, FirstStage

\* An answer leads to another stage of the same unit or ends it; ReadyForQuery,
\* and nothing else, ends a Query or a Sync; and which answers end the units of
\* the calls that do not sync.
LEMMA AnswerFacts ==
  ASSUME NEW k \in Kinds, NEW s \in KindStages(k), NEW a \in Answers(k, s)
  PROVE  /\ a.next \in KindStages(k) \cup {"done"}
         /\ a.type = "ReadyForQuery" <=> k \in ReadyKinds /\ a.next = "done"
         /\ k = "Bind" => a.type = "BindComplete" /\ a.next = "done"
         /\ k = "ParseBind" => (a.next = "done" <=> a.type = "BindComplete")
         /\ k = "DescribeExecute" =>
              (a.next = "done" <=>
                 a.type \in {"CommandComplete", "EmptyQueryResponse", "PortalSuspended"})
         /\ k = "Close" => a.next = "done"
<1>1. CASE k \in {"Prepare", "Parse", "ParseBind", "Bind"}
  BY <1>1 DEF KindStages, Answers, AfterParse, AfterBind, Ans, ReadyKinds
<1>2. CASE k \in {"ParseBindExecute", "BindDescribeExecute", "BindExecute"}
  BY <1>2 DEF KindStages, Answers, AfterParse, AfterBind, Ans, ReadyKinds
<1>3. CASE k \in {"DescribeExecute", "Close", "Sync", "Torn"}
  BY <1>3 DEF KindStages, Answers, Ans, ReadyKinds
<1>4. CASE k = "Query"
  BY <1>4 DEF KindStages, Answers, Ans, ReadyKinds
<1>5. QED
  BY <1>1, <1>2, <1>3, <1>4 DEF Kinds

-----------------------------------------------------------------------------
\* Lemmas about the state machines.

\* A machine stays within its states, finishes or reports a bug.
LEMMA MachineType ==
  ASSUME NEW o, NEW s \in MachineStates, NEW m
  PROVE  MachineStep(o, s, m) \in MachineStates \cup {"Finished", "LibraryBug"}
  BY DEF MachineStates, MachineStep, simple_step, simple_handle_response, simple_handle_rows,
         simple_handle_ready, extended_step, extended_handle_parse, extended_handle_describe,
         extended_handle_row_desc, extended_handle_bind, extended_handle_rows,
         extended_handle_ready, bind_step, batch_step, batch_prepare_step,
         lowlevel_bind_step, lowlevel_execute_step, lowlevel_close_step, lowlevel_sync_step

\* A call that syncs finishes at ReadyForQuery and never reads past it.
LEMMA MachineReady ==
  ASSUME NEW o \in ReadyOps, NEW s, NEW m
  PROVE  /\ MachineStep(o, s, m) = "Finished" => m = "ReadyForQuery"
         /\ m = "ReadyForQuery" => MachineStep(o, s, m) \in {"Finished", "LibraryBug"}
<1>1. CASE o = "query"
  <2>1. MachineStep(o, s, m) = simple_step(s, m)
    BY <1>1 DEF MachineStep, DriveOps, BindOps, BatchOps, ExecuteOps, SyncOps
  <2>2. QED
    BY <2>1 DEF simple_step, simple_handle_response, simple_handle_rows, simple_handle_ready
<1>2. CASE o \in DriveOps \ {"query"}
  <2>1. MachineStep(o, s, m) = extended_step(o, s, m)
    BY <1>2 DEF MachineStep, DriveOps, BindOps, BatchOps, ExecuteOps, SyncOps
  <2>2. QED
    BY <2>1 DEF extended_step, extended_handle_parse, extended_handle_describe,
                extended_handle_row_desc, extended_handle_bind, extended_handle_rows,
                extended_handle_ready
<1>3. CASE o \in BatchOps
  <2>1. MachineStep(o, s, m) = batch_step(s, m)
    BY <1>3 DEF MachineStep, DriveOps, BindOps, BatchOps, ExecuteOps, SyncOps
  <2>2. QED
    BY <2>1 DEF batch_step
<1>4. CASE o = "prepare_batch"
  <2>1. MachineStep(o, s, m) = batch_prepare_step(s, m)
    BY <1>4 DEF MachineStep, DriveOps, BindOps, BatchOps, ExecuteOps, SyncOps
  <2>2. QED
    BY <2>1 DEF batch_prepare_step
<1>5. CASE o \in SyncOps
  <2>1. MachineStep(o, s, m) = lowlevel_sync_step(m)
    BY <1>5 DEF MachineStep, DriveOps, BindOps, BatchOps, ExecuteOps, SyncOps
  <2>2. QED
    BY <2>1 DEF lowlevel_sync_step
<1>6. QED
  BY <1>1, <1>2, <1>3, <1>4, <1>5 DEF ReadyOps

\* A call that does not sync finishes on the answer that ends its unit, and goes
\* on reading only after one that does not.
LEMMA MachineSingle ==
  ASSUME NEW o \in ReadOps \ ReadyOps, NEW s, NEW m
  PROVE  /\ o \in BindOps \cup {"lowlevel_bind"} =>
              /\ MachineStep(o, s, m) = "Finished" => m = "BindComplete"
              /\ MachineStep(o, s, m) \notin {"Finished", "LibraryBug"} =>
                   o # "lowlevel_bind" /\ m = "ParseComplete"
         /\ o \in ExecuteOps =>
              /\ MachineStep(o, s, m) = "Finished" => m \in {"CommandComplete", "PortalSuspended"}
              /\ MachineStep(o, s, m) \notin {"Finished", "LibraryBug"} =>
                   m \in {"RowDescription", "NoData", "DataRow"}
         /\ o = "lowlevel_close_portal" => MachineStep(o, s, m) \in {"Finished", "LibraryBug"}
  BY DEF ReadOps, ReadyOps, DriveOps, BatchOps, SyncOps, BindOps, ExecuteOps,
         MachineStep, bind_step, lowlevel_bind_step, lowlevel_execute_step, lowlevel_close_step

-----------------------------------------------------------------------------
\* Lemmas about sequences of units.

\* Dropping the head of a sequence of units.
LEMMA TailFacts ==
  ASSUME NEW q \in Seq(Unit), q # <<>>
  PROVE  /\ Len(q) \in Nat \ {0}
         /\ Head(q) = q[1] /\ q[1] \in Unit /\ q[Len(q)] \in Unit
         /\ Tail(q) \in Seq(Unit) /\ Len(Tail(q)) = Len(q) - 1
         /\ \A i \in 1..Len(Tail(q)) : Tail(q)[i] = q[i + 1]
  OBVIOUS

\* n copies of a unit followed by a Sync: the body of the batch requests.
BatchOf(k, r, n) == Append(Repeat(k, r, n), U("Sync", r))

\* The elements of such a batch.
LEMMA RepeatFacts ==
  ASSUME NEW k \in Kinds, NEW r \in Requests, NEW n \in Nat
  PROVE  /\ BatchOf(k, r, n) \in Seq(Unit) /\ Len(BatchOf(k, r, n)) = n + 1
         /\ \A i \in 1..n : BatchOf(k, r, n)[i] = U(k, r)
         /\ BatchOf(k, r, n)[n + 1] = U("Sync", r)
<1>1. Repeat(k, r, n) \in Seq(Unit) /\ Len(Repeat(k, r, n)) = n
  BY DEF Repeat, U, Unit, Kinds
<1>2. \A i \in 1..n : Repeat(k, r, n)[i] = U(k, r)
  BY DEF Repeat
<1>3. U("Sync", r) \in Unit
  BY DEF U, Unit, Kinds
<1>4. QED
  BY <1>1, <1>2, <1>3 DEF BatchOf

\* A batch has the shape of the calls that sync.
LEMMA BatchFacts ==
  ASSUME NEW k \in Kinds \ ReadyKinds, NEW r \in Requests, NEW n \in Nat \ {0},
         NEW o \in ReadyOps \ {"query"}
  PROVE  /\ BatchOf(k, r, n) \in Seq(Unit)
         /\ Shape(o, BatchOf(k, r, n))
         /\ \A i \in 1..Len(BatchOf(k, r, n)) : BatchOf(k, r, n)[i].req = r
<1> DEFINE q == BatchOf(k, r, n)
<1>1. /\ q \in Seq(Unit) /\ Len(q) = n + 1
      /\ \A i \in 1..n : q[i] = U(k, r)
      /\ q[n + 1] = U("Sync", r)
  BY RepeatFacts
<1>2. /\ q[n + 1].kind = "Sync" /\ q[n + 1].req = r
      /\ \A i \in 1..n : q[i].req = r /\ q[i].kind \notin ReadyKinds
  BY <1>1 DEF U
<1> HIDE DEF q
<1>3. \A i \in 1..Len(q) : q[i].req = r
  BY <1>1, <1>2
<1>4. Shape(o, q)
  BY <1>1, <1>2 DEF Shape
<1>5. QED
  BY <1>1, <1>3, <1>4 DEF q

\* A unit followed by a Sync.
LEMMA PairFacts ==
  ASSUME NEW k \in Kinds \ ReadyKinds, NEW r \in Requests, NEW o \in ReadyOps \ {"query"}
  PROVE  LET q == <<U(k, r), U("Sync", r)>> IN
         q \in Seq(Unit) /\ Shape(o, q) /\ \A i \in 1..Len(q) : q[i].req = r
<1> DEFINE q == <<U(k, r), U("Sync", r)>>
<1>1. /\ q \in Seq(Unit) /\ Len(q) = 2
      /\ q[1] = U(k, r) /\ q[2] = U("Sync", r)
  BY DEF U, Unit, Kinds
<1>2. /\ q[1].kind = k /\ q[1].req = r /\ q[2].kind = "Sync" /\ q[2].req = r
  BY <1>1 DEF U
<1> HIDE DEF q
<1>3. QED
  BY <1>1, <1>2 DEF Shape, q

\* A single unit of the kind its call expects.
LEMMA SingleFacts ==
  ASSUME NEW k \in Kinds, NEW r \in Requests
  PROVE  /\ <<U(k, r)>> \in Seq(Unit) /\ Len(<<U(k, r)>>) = 1
         /\ <<U(k, r)>>[1].kind = k
         /\ \A i \in 1..Len(<<U(k, r)>>) : <<U(k, r)>>[i].req = r
  BY DEF U, Unit

\* What a call encodes has the shape its read loop relies on.
LEMMA RequestFacts ==
  ASSUME NEW o \in ReadOps, NEW r \in Requests, NEW n \in Nat \ {0}
  PROVE  /\ Request(o, r, n) \in Seq(Unit)
         /\ Shape(o, Request(o, r, n))
         /\ \A i \in 1..Len(Request(o, r, n)) : Request(o, r, n)[i].req = r
<1> DEFINE q == Request(o, r, n)
<1>1. CASE o \in DriveOps \ {"query"}
  <2> DEFINE k == CASE o = "prepare" -> "Prepare" [] o = "exec_sql" -> "ParseBindExecute"
                    [] o = "exec_prepared" -> "BindDescribeExecute" [] OTHER -> "Close"
  <2>1. q = <<U(k, r), U("Sync", r)>>
    BY <1>1 DEF Request, Synced, DriveOps, ExecuteOps, SyncOps
  <2>2. k \in Kinds \ ReadyKinds /\ o \in ReadyOps \ {"query"}
    BY <1>1 DEF Kinds, ReadyKinds, ReadyOps
  <2>3. QED
    BY <2>1, <2>2, PairFacts
<1>2. CASE o \in {"prepare_batch", "exec_batch_prepared"}
  <2>1. o \in ReadyOps \ {"query"}
    BY <1>2 DEF ReadyOps, BatchOps
  <2>2. CASE o = "prepare_batch"
    <3>1. q = BatchOf("Prepare", r, n)
      BY <2>2 DEF Request, ExecuteOps, SyncOps, BatchOf
    <3>2. "Prepare" \in Kinds \ ReadyKinds
      BY DEF Kinds, ReadyKinds
    <3>3. QED
      BY <2>1, <3>1, <3>2, BatchFacts
  <2>3. CASE o = "exec_batch_prepared"
    <3>1. q = BatchOf("BindExecute", r, n)
      BY <2>3 DEF Request, ExecuteOps, SyncOps, BatchOf
    <3>2. "BindExecute" \in Kinds \ ReadyKinds
      BY DEF Kinds, ReadyKinds
    <3>3. QED
      BY <2>1, <3>1, <3>2, BatchFacts
  <2>4. QED
    BY <1>2, <2>2, <2>3
<1>3. CASE o = "exec_batch_sql"
  <2> DEFINE b == BatchOf("BindExecute", r, n)
  <2>1. q = <<U("Parse", r)>> \o b
    BY <1>3 DEF Request, ExecuteOps, SyncOps, BatchOf
  <2>2. /\ b \in Seq(Unit) /\ Len(b) = n + 1
        /\ \A i \in 1..n : b[i] = U("BindExecute", r)
        /\ b[n + 1] = U("Sync", r)
    <3>1. "BindExecute" \in Kinds
      BY DEF Kinds
    <3>2. QED
      BY <3>1, RepeatFacts
  <2> HIDE DEF b
  <2>3. /\ q \in Seq(Unit) /\ Len(q) = n + 2
        /\ q[1] = U("Parse", r)
        /\ \A i \in 1..(n + 1) : q[i + 1] = b[i]
    <3>1. U("Parse", r) \in Unit
      BY DEF U, Unit, Kinds
    <3>2. QED
      BY <2>1, <2>2, <3>1
  <2>4. /\ q[n + 2].kind = "Sync" /\ q[n + 2].req = r
        /\ \A i \in 1..(n + 1) : q[i].req = r /\ q[i].kind \notin ReadyKinds
    <3>1. q[n + 2] = b[n + 1]
      BY <2>3
    <3>2. ASSUME NEW i \in 1..(n + 1), i # 1
          PROVE  q[i] = U("BindExecute", r)
      <4>1. i - 1 \in 1..n /\ q[(i - 1) + 1] = b[i - 1]
        BY <2>3, <3>2
      <4>2. QED
        BY <4>1, <2>2
    <3>3. QED
      BY <2>2, <2>3, <3>1, <3>2 DEF U, ReadyKinds
  <2> HIDE DEF q
  <2>5. \A i \in 1..Len(q) : q[i].req = r
    BY <2>3, <2>4
  <2>6. Shape(o, q)
    BY <1>3, <2>3, <2>4 DEF Shape, ReadyOps, DriveOps, BatchOps
  <2>7. QED
    BY <2>3, <2>5, <2>6 DEF q
<1>4. CASE o \in BindOps \cup ExecuteOps \cup SyncOps
                  \cup {"query", "lowlevel_bind", "lowlevel_close_portal"}
  <2> DEFINE k == CASE o = "query" -> "Query"
                    [] o \in {"named_portal_sql", "portal_bind_sql"} -> "ParseBind"
                    [] o \in ExecuteOps -> "DescribeExecute"
                    [] o \in SyncOps -> "Sync"
                    [] o = "lowlevel_close_portal" -> "Close"
                    [] OTHER -> "Bind"
  <2>1. q = <<U(k, r)>>
    BY <1>4 DEF Request, BindOps, ExecuteOps, SyncOps
  <2>2. k \in Kinds
    BY DEF Kinds
  <2>3. /\ q \in Seq(Unit) /\ Len(q) = 1 /\ q[1].kind = k
        /\ \A i \in 1..Len(q) : q[i].req = r
    BY <2>1, <2>2, SingleFacts
  <2> HIDE DEF q
  <2>4. Shape(o, q)
    BY <1>4, <2>3 DEF Shape, ReadyOps, DriveOps, BatchOps, SyncOps, ExecuteOps, BindOps
  <2>5. QED
    BY <2>3, <2>4 DEF q
<1>5. QED
  BY <1>1, <1>2, <1>3, <1>4 DEF ReadOps, DriveOps, BatchOps

-----------------------------------------------------------------------------
\* The types of the server.

\* The first stage of a request is a stage.
LEMMA StageOfType ==
  ASSUME NEW q \in Seq(Unit)
  PROVE  StageOf(q) \in Stages
<1>1. CASE q = <<>>
  BY <1>1 DEF StageOf, Stages
<1>2. CASE q # <<>>
  <2>1. Head(q).kind \in Kinds
    BY <1>2, TailFacts DEF Unit
  <2>2. QED
    BY <1>2, <2>1, StageFacts DEF StageOf
<1>3. QED
  BY <1>1, <1>2

\* An answer leads to a stage or ends its unit.
LEMMA AnswerType ==
  ASSUME NEW k, NEW s, NEW a \in Answers(k, s)
  PROVE  a.next \in Stages \cup {"done"}
  BY DEF Answers, Ans, AfterParse, AfterBind, Stages

\* Units that reach the server keep its types.
LEMMA DeliverType ==
  ASSUME BackendTypeOK, NEW q \in Seq(Unit), Deliver(q), framing' \in {"whole", "torn"}
  PROVE  BackendTypeOK'
<1>1. todo \o q \in Seq(Unit)
  BY DEF BackendTypeOK
<1>2. QED
  BY <1>1, StageOfType DEF BackendTypeOK, Deliver

\* An answer keeps the server's types.
LEMMA ReplyType ==
  ASSUME BackendTypeOK, NEW m, Reply(m)
  PROVE  BackendTypeOK'
<1>1. todo # <<>> /\ Tail(todo) \in Seq(Unit)
  BY TailFacts DEF Reply, CanAnswer, BackendTypeOK
<1>2. PICK a \in Answers(Head(todo).kind, stage) : Advance(a.next)
  BY DEF Reply
<1>3. todo' \in Seq(Unit) /\ stage' \in Stages
  BY <1>1, <1>2, AnswerType, StageOfType DEF Advance, BackendTypeOK
<1>4. server_tx' \in TxStatus
  BY DEF Reply, TxAfter, TxStatus, BackendTypeOK
<1>5. QED
  BY <1>3, <1>4 DEF Reply, BackendTypeOK

\* An error of the server keeps its types.
LEMMA ReplyErrorType ==
  ASSUME BackendTypeOK, ReplyError
  PROVE  BackendTypeOK'
<1>1. todo # <<>> /\ Tail(todo) \in Seq(Unit)
  BY TailFacts DEF ReplyError, CanAnswer, BackendTypeOK
<1>2. todo' \in Seq(Unit) /\ stage' \in Stages /\ skipping' \in BOOLEAN
  BY <1>1, StageOfType DEF ReplyError, BackendTypeOK, Stages
<1>3. server_tx' \in TxStatus
  BY DEF ReplyError, TxAfterError, TxStatus, BackendTypeOK
<1>4. QED
  BY <1>2, <1>3 DEF ReplyError, BackendTypeOK

\* Every machine starts in one of its states.
LEMMA InitialStateType ==
  ASSUME NEW o
  PROVE  InitialState(o) \in MachineStates
  BY DEF InitialState, MachineStates

-----------------------------------------------------------------------------
\* What the answers do to what is unanswered.

\* The stage fits the units in front, whatever they are.
LEMMA StageOfFits ==
  ASSUME NEW q \in Seq(Unit), q # <<>>
  PROVE  StageOf(q) \in KindStages(Head(q).kind)
<1>1. Head(q).kind \in Kinds
  BY TailFacts DEF Unit
<1>2. QED
  BY <1>1, StageFacts DEF StageOf

\* An answer keeps the unit in front or ends it; it is ReadyForQuery exactly when
\* it ends a Query or a Sync.  The last conjuncts are about the units of calls that
\* do not sync.
LEMMA ReplyFacts ==
  ASSUME BackendTypeOK, StageFits, NEW m, Reply(m)
  PROVE  /\ todo # <<>> /\ StageFits'
         /\ \/ todo' = todo /\ m # "ReadyForQuery"
            \/ todo' = Tail(todo) /\ (m = "ReadyForQuery" <=> Head(todo).kind \in ReadyKinds)
         /\ Head(todo).kind = "Bind" => m = "BindComplete" /\ todo' = Tail(todo)
         /\ Head(todo).kind = "ParseBind" =>
              IF m = "BindComplete" THEN todo' = Tail(todo) ELSE todo' = todo
         /\ Head(todo).kind = "DescribeExecute" =>
              IF m \in {"CommandComplete", "EmptyQueryResponse", "PortalSuspended"}
              THEN todo' = Tail(todo) ELSE todo' = todo
         /\ Head(todo).kind = "Close" => todo' = Tail(todo)
<1>1. todo # <<>> /\ todo \in Seq(Unit)
  BY DEF Reply, CanAnswer, BackendTypeOK
<1> DEFINE k == Head(todo).kind
<1>2. k \in Kinds /\ stage \in KindStages(k) /\ Tail(todo) \in Seq(Unit)
  BY <1>1, TailFacts DEF Unit, StageFits
<1>3. PICK a \in Answers(k, stage) : a.type = m /\ Advance(a.next)
  BY DEF Reply
<1>4. /\ a.next \in KindStages(k) \cup {"done"}
      /\ m = "ReadyForQuery" <=> k \in ReadyKinds /\ a.next = "done"
      /\ k = "Bind" => m = "BindComplete" /\ a.next = "done"
      /\ k = "ParseBind" => (a.next = "done" <=> m = "BindComplete")
      /\ k = "DescribeExecute" =>
           (a.next = "done" <=>
              m \in {"CommandComplete", "EmptyQueryResponse", "PortalSuspended"})
      /\ k = "Close" => a.next = "done"
  BY <1>2, <1>3, AnswerFacts
<1>5. CASE a.next = "done"
  <2>1. todo' = Tail(todo) /\ stage' = StageOf(Tail(todo))
    BY <1>3, <1>5 DEF Advance
  <2>2. StageFits'
    BY <1>2, <2>1, StageOfFits DEF StageFits
  <2> HIDE DEF k
  <2>3. QED
    BY <1>1, <1>4, <1>5, <2>1, <2>2 DEF k
<1>6. CASE a.next # "done"
  <2>1. todo' = todo /\ stage' = a.next
    BY <1>3, <1>6 DEF Advance
  <2>2. StageFits'
    BY <1>4, <1>6, <2>1 DEF StageFits
  <2> HIDE DEF k
  <2>3. QED
    BY <1>1, <1>4, <1>6, <2>1, <2>2 DEF k
<1>7. QED
  BY <1>5, <1>6

\* Dropping an answered or skipped unit that is not the last keeps the shape.
LEMMA ShapeTail ==
  ASSUME NEW q \in Seq(Unit), q # <<>>, NEW o \in ReadyOps \ {"query"}, Shape(o, q),
         NEW r, TaggedBy(q, r), Head(q).kind # "Sync"
  PROVE  Shape(o, Tail(q)) /\ TaggedBy(Tail(q), r)
<1> DEFINE t == Tail(q)
<1>1. /\ Len(q) \in Nat \ {0} /\ Head(q) = q[1]
      /\ t \in Seq(Unit) /\ Len(t) = Len(q) - 1
      /\ \A i \in 1..Len(t) : t[i] = q[i + 1]
  BY TailFacts
<1>2. /\ q[Len(q)].kind = "Sync" /\ \A i \in 1..(Len(q) - 1) : q[i].kind \notin ReadyKinds
      /\ \A i \in 1..Len(q) : q[i].req = r
  BY DEF Shape, TaggedBy
<1>3. Len(q) # 1
  BY <1>1, <1>2
<1> HIDE DEF t
<1>4. t[Len(t)] = q[Len(q)] /\ Len(t) >= 1
  BY <1>1, <1>3
<1>5. \A i \in 1..(Len(t) - 1) : t[i].kind \notin ReadyKinds
  <2>1. ASSUME NEW i \in 1..(Len(t) - 1)
        PROVE  t[i].kind \notin ReadyKinds
    <3>1. t[i] = q[i + 1] /\ i + 1 \in 1..(Len(q) - 1)
      BY <1>1
    <3>2. QED
      BY <1>2, <3>1
  <2>2. QED
    BY <2>1
<1>6. \A i \in 1..Len(t) : t[i].req = r
  <2>1. ASSUME NEW i \in 1..Len(t)
        PROVE  t[i].req = r
    <3>1. t[i] = q[i + 1] /\ i + 1 \in 1..Len(q)
      BY <1>1
    <3>2. QED
      BY <1>2, <3>1
  <2>2. QED
    BY <2>1
<1>7. QED
  BY <1>2, <1>4, <1>5, <1>6 DEF Shape, TaggedBy, t

\* A call that does not sync owes one unit.
LEMMA SingleIsLast ==
  ASSUME NEW q \in Seq(Unit), q # <<>>, Len(q) = 1
  PROVE  Tail(q) = <<>>
  BY TailFacts

\* The unit that ReadyForQuery ends is the last one of a call that syncs.
LEMMA ReadyIsLast ==
  ASSUME NEW q \in Seq(Unit), q # <<>>, NEW o \in ReadyOps, Shape(o, q),
         Head(q).kind \in ReadyKinds
  PROVE  Tail(q) = <<>>
<1>1. Len(q) \in Nat \ {0} /\ Head(q) = q[1] /\ Tail(q) \in Seq(Unit) /\ Len(Tail(q)) = Len(q) - 1
  BY TailFacts
<1>2. Len(q) = 1
  BY <1>1 DEF Shape
<1>3. QED
  BY <1>2, SingleIsLast

\* The last answer of a call: nothing is left unread behind it.
LEMMA LastAnswer ==
  ASSUME BackendTypeOK, StageFits, NEW o \in ReadOps, Shape(o, todo), framing = "whole",
         skipping => o \in ReadyOps \ {"query"},
         NEW s, NEW m, Reply(m), MachineStep(o, s, m) = "Finished"
  PROVE  /\ Drained'
         /\ o \in ReadyOps => server_tx' = server_tx
         /\ at_sync' <=> o \in ReadyOps
<1>1. /\ o \in ReadOps /\ Shape(o, todo) /\ framing = "whole"
      /\ skipping => o \in ReadyOps \ {"query"}
  OBVIOUS
<1>2. framing' = framing /\ (at_sync' <=> m = "ReadyForQuery")
      /\ skipping' = (skipping /\ m # "ReadyForQuery")
      /\ server_tx' \in TxAfter(m, server_tx)
  BY DEF Reply
<1>3. todo \in Seq(Unit) /\ todo # <<>> /\ Len(todo) \in Nat /\ Head(todo) = todo[1]
  BY ReplyFacts, TailFacts DEF BackendTypeOK
<1>4. CASE o \in ReadyOps
  <2>1. m = "ReadyForQuery"
    BY <1>4, MachineReady
  <2>2. todo' = Tail(todo) /\ Head(todo).kind \in ReadyKinds
    BY <2>1, ReplyFacts
  <2>3. todo' = <<>>
    BY <1>1, <1>3, <1>4, <2>2, ReadyIsLast
  <2>4. server_tx' = server_tx
    BY <1>2, <2>1 DEF TxAfter
  <2>5. QED
    BY <1>1, <1>2, <1>4, <2>1, <2>3, <2>4 DEF Drained
<1>5. CASE o \notin ReadyOps
  <2>1. o \in BindOps \cup {"lowlevel_bind", "lowlevel_close_portal"} \cup ExecuteOps
    BY <1>1, <1>5 DEF ReadOps, ReadyOps
  <2>2. Len(todo) = 1
    BY <1>1, <1>5 DEF Shape
  <2>3. todo' = Tail(todo) /\ m # "ReadyForQuery"
    <3>1. CASE o \in BindOps \cup {"lowlevel_bind"}
      <4>1. m = "BindComplete"
        BY <1>1, <1>5, <3>1, MachineSingle
      <4>2. Head(todo).kind \in {"Bind", "ParseBind"}
        BY <1>1, <1>3, <1>5, <3>1 DEF Shape, BindOps
      <4>3. QED
        BY <4>1, <4>2, ReplyFacts
    <3>2. CASE o \in ExecuteOps
      <4>1. m \in {"CommandComplete", "PortalSuspended"}
        BY <1>1, <1>5, <3>2, MachineSingle
      <4>2. Head(todo).kind = "DescribeExecute"
        BY <1>1, <1>3, <1>5, <3>2 DEF Shape
      <4>3. QED
        BY <4>1, <4>2, ReplyFacts
    <3>3. CASE o = "lowlevel_close_portal"
      <4>1. Head(todo).kind = "Close"
        BY <1>1, <1>3, <1>5, <3>3 DEF Shape
      <4>2. "Close" \notin ReadyKinds
        BY DEF ReadyKinds
      <4>3. QED
        BY <4>1, <4>2, ReplyFacts
    <3>4. QED
      BY <2>1, <3>1, <3>2, <3>3
  <2>4. todo' = <<>>
    BY <1>3, <2>2, <2>3, SingleIsLast
  <2>5. QED
    BY <1>1, <1>2, <1>5, <2>3, <2>4 DEF Drained
<1>6. QED
  BY <1>4, <1>5

\* An answer after which the call reads on leaves it something to read.
LEMMA NotLastAnswer ==
  ASSUME BackendTypeOK, StageFits, NEW o \in ReadOps, NEW r, Shape(o, todo), TaggedBy(todo, r),
         NEW s, NEW m, Reply(m), MachineStep(o, s, m) \notin {"Finished", "LibraryBug"}
  PROVE  Shape(o, todo') /\ TaggedBy(todo', r)
<1>1. o \in ReadOps /\ Shape(o, todo) /\ TaggedBy(todo, r)
  OBVIOUS
<1>2. todo \in Seq(Unit) /\ todo # <<>> /\ Len(todo) \in Nat /\ Head(todo) = todo[1]
  BY ReplyFacts, TailFacts DEF BackendTypeOK
<1>3. CASE todo' = todo
  BY <1>1, <1>3
<1>4. CASE todo' # todo /\ o \in ReadyOps
  <2>1. m # "ReadyForQuery"
    BY <1>4, MachineReady
  <2>2. todo' = Tail(todo) /\ Head(todo).kind \notin ReadyKinds
    BY <1>4, <2>1, ReplyFacts
  <2>3. o # "query"
    BY <1>1, <1>2, <2>2 DEF Shape, ReadyKinds
  <2>4. Head(todo).kind # "Sync"
    BY <2>2 DEF ReadyKinds
  <2>5. QED
    BY <1>1, <1>2, <1>4, <2>2, <2>3, <2>4, ShapeTail
<1>5. CASE todo' # todo /\ o \notin ReadyOps
  <2>1. o \in BindOps \cup {"lowlevel_bind", "lowlevel_close_portal"} \cup ExecuteOps
    BY <1>1, <1>5 DEF ReadOps, ReadyOps
  <2>2. CASE o \in BindOps \cup {"lowlevel_bind"}
    <3>1. m = "ParseComplete"
      BY <1>1, <1>5, <2>2, MachineSingle
    <3>2. Head(todo).kind \in {"Bind", "ParseBind"}
      BY <1>1, <1>2, <1>5, <2>2 DEF Shape, BindOps
    <3>3. QED
      BY <1>5, <3>1, <3>2, ReplyFacts
  <2>3. CASE o \in ExecuteOps
    <3>1. m \in {"RowDescription", "NoData", "DataRow"}
      BY <1>1, <1>5, <2>3, MachineSingle
    <3>2. Head(todo).kind = "DescribeExecute"
      BY <1>1, <1>2, <1>5, <2>3 DEF Shape
    <3>3. QED
      BY <1>5, <3>1, <3>2, ReplyFacts
  <2>4. CASE o = "lowlevel_close_portal"
    BY <1>1, <1>5, <2>4, MachineSingle
  <2>5. QED
    BY <2>1, <2>2, <2>3, <2>4
<1>6. QED
  BY <1>3, <1>4, <1>5

\* A machine that keeps the error belongs to a call that syncs.
LEMMA KeepersSync ==
  ASSUME NEW o, MachineError(o) # "Err"
  PROVE  o \in ReadyOps
  BY DEF MachineError, ReadyOps

\* An error of the server keeps the unit in front if it is a Query or a Sync.
LEMMA ErrorFacts ==
  ASSUME BackendTypeOK, StageFits, ReplyError
  PROVE  /\ todo # <<>> /\ todo \in Seq(Unit) /\ StageFits'
         /\ Head(todo) = todo[1] /\ Head(todo).kind \in Kinds
         /\ IF Head(todo).kind \in ReadyKinds THEN todo' = todo /\ ~skipping'
            ELSE todo' = Tail(todo) /\ skipping'
         /\ framing' = framing /\ ~at_sync' /\ ~skipping /\ alive
<1>1. todo # <<>> /\ todo \in Seq(Unit)
  BY DEF ReplyError, CanAnswer, BackendTypeOK
<1>2. Tail(todo) \in Seq(Unit) /\ Head(todo) = todo[1] /\ Head(todo).kind \in Kinds
  BY <1>1, TailFacts DEF Unit
<1>3. CASE Head(todo).kind \in ReadyKinds
  <2>1. /\ todo' = todo /\ ~skipping'
        /\ stage' = IF Head(todo).kind = "Query" THEN "qready" ELSE "ready"
    BY <1>3 DEF ReplyError, ReadyKinds
  <2>2. StageFits'
    BY <1>3, <2>1 DEF StageFits, KindStages, ReadyKinds
  <2>3. QED
    BY <1>1, <1>2, <1>3, <2>1, <2>2 DEF ReplyError, CanAnswer
<1>4. CASE Head(todo).kind \notin ReadyKinds
  <2>1. todo' = Tail(todo) /\ stage' = StageOf(Tail(todo)) /\ skipping'
    BY <1>4 DEF ReplyError, ReadyKinds
  <2>2. StageFits'
    BY <1>2, <2>1, StageOfFits DEF StageFits
  <2>3. QED
    BY <1>1, <1>2, <1>4, <2>1, <2>2 DEF ReplyError, CanAnswer
<1>5. QED
  BY <1>3, <1>4

\* A call that syncs reads on after an error, and has something to read.
LEMMA ErrorKeepsShape ==
  ASSUME BackendTypeOK, StageFits, ReplyError, NEW o \in ReadyOps, NEW r,
         Shape(o, todo), TaggedBy(todo, r)
  PROVE  /\ Shape(o, todo') /\ TaggedBy(todo', r)
         /\ skipping' => o \in ReadyOps \ {"query"}
<1>1. CASE Head(todo).kind \in ReadyKinds
  BY <1>1, ErrorFacts
<1>2. CASE Head(todo).kind \notin ReadyKinds
  <2>1. /\ todo' = Tail(todo) /\ todo # <<>> /\ todo \in Seq(Unit)
        /\ Head(todo) = todo[1]
    BY <1>2, ErrorFacts
  <2>2. o # "query" /\ Head(todo).kind # "Sync"
    BY <1>2, <2>1 DEF Shape, ReadyKinds
  <2>3. QED
    BY <2>1, <2>2, ShapeTail
<1>3. QED
  BY <1>1, <1>2

\* What the server skips was never to be answered.
LEMMA DiscardFacts ==
  ASSUME BackendTypeOK, ServerDiscard
  PROVE  /\ todo # <<>> /\ todo \in Seq(Unit) /\ skipping
         /\ Head(todo).kind \notin {"Sync", "Torn"}
         /\ todo' = Tail(todo) /\ StageFits'
         /\ UNCHANGED <<skipping, server_tx, at_sync, alive, framing>>
<1>1. /\ todo # <<>> /\ todo \in Seq(Unit) /\ skipping
      /\ Head(todo).kind \notin {"Sync", "Torn"}
      /\ todo' = Tail(todo) /\ stage' = StageOf(Tail(todo))
      /\ UNCHANGED <<skipping, server_tx, at_sync, alive, framing>>
  BY DEF ServerDiscard, BackendTypeOK
<1>2. StageFits'
  BY <1>1, TailFacts, StageOfFits DEF StageFits
<1>3. QED
  BY <1>1, <1>2

\* What is written behind unanswered units does not disturb the one in front.
LEMMA DeliverFits ==
  ASSUME BackendTypeOK, StageFits, NEW q \in Seq(Unit), Deliver(q)
  PROVE  StageFits'
<1>1. todo \in Seq(Unit) /\ todo' = todo \o q
  BY DEF BackendTypeOK, Deliver
<1>2. CASE todo = <<>>
  <2>1. todo' = q /\ stage' = StageOf(q)
    BY <1>1, <1>2 DEF Deliver
  <2>2. QED
    BY <2>1, StageOfFits DEF StageFits
<1>3. CASE todo # <<>>
  <2>1. todo' # <<>> /\ Head(todo') = Head(todo) /\ stage' = stage
    BY <1>1, <1>3 DEF Deliver
  <2>2. QED
    BY <1>3, <2>1 DEF StageFits
<1>4. QED
  BY <1>2, <1>3

-----------------------------------------------------------------------------
\* Induction over numbers and sequences.

\* A set of numbers that is not empty has a least element.
LEMMA Least ==
  ASSUME NEW T, T \subseteq Nat, T # {}
  PROVE  \E x \in T : \A y \in T : x <= y
<1> DEFINE R == {p \in Nat \X Nat : p[1] < p[2]}
<1>1. IsWellFoundedOn(R, Nat)
  BY NatLessThanWellFounded DEF OpToRel
<1>2. \E x \in T : \A y \in T : ~(<<y, x>> \in R)
  <2> HIDE DEF R
  <2> QED
    BY <1>1, WFMin
<1>3. \A x, y \in Nat : <<y, x>> \notin R => x <= y
  OBVIOUS
<1>4. QED
  BY <1>2, <1>3

\* A set that holds 0 and every successor of its numbers holds all numbers.
LEMMA Induct ==
  ASSUME NEW T, 0 \in T, \A n \in T \cap Nat : n + 1 \in T
  PROVE  Nat \subseteq T
<1> SUFFICES ASSUME Nat \ T # {}
             PROVE  FALSE
  OBVIOUS
<1>1. PICK x \in Nat \ T : \A y \in Nat \ T : x <= y
  BY Least
<1>2. x # 0 /\ x - 1 \in Nat /\ ~(x <= x - 1)
  BY <1>1
<1>3. x - 1 \in T \cap Nat
  BY <1>1, <1>2
<1>4. (x - 1) + 1 \in T
  BY <1>3
<1>5. (x - 1) + 1 = x
  BY <1>1
<1>6. QED
  BY <1>1, <1>4, <1>5

\* A set that holds the empty sequence and is closed under Append holds all sequences.
LEMMA SeqInduct ==
  ASSUME NEW S, NEW P, <<>> \in P, \A q \in P \cap Seq(S) : \A x \in S : Append(q, x) \in P
  PROVE  Seq(S) \subseteq P
<1> DEFINE T == {n \in Nat : \A q \in Seq(S) : Len(q) = n => q \in P}
<1>1. 0 \in T
  <2>1. \A q \in Seq(S) : Len(q) = 0 => q = <<>>
    OBVIOUS
  <2>2. QED
    BY <2>1
<1>2. ASSUME NEW n \in T \cap Nat
      PROVE  n + 1 \in T
  <2> SUFFICES ASSUME NEW q \in Seq(S), Len(q) = n + 1
               PROVE  q \in P
    OBVIOUS
  <2> DEFINE p == SubSeq(q, 1, n)
  <2>1. p \in Seq(S) /\ Len(p) = n /\ q[n + 1] \in S
    OBVIOUS
  <2>2. q = Append(p, q[n + 1])
    OBVIOUS
  <2>3. p \in P
    BY <2>1
  <2> HIDE DEF p
  <2>4. QED
    BY <2>1, <2>2, <2>3
<1> HIDE DEF T
<1>3. Nat \subseteq T
  BY <1>1, <1>2, Induct
<1>4. QED
  BY <1>3 DEF T

-----------------------------------------------------------------------------
\* What Accumulate computes.

\* f holds what Accumulate goes through on the first n elements of q.
IsRun(f, g, e, q, n) ==
  \A i \in 0..n : f[i] = IF i = 0 THEN e ELSE g[<<f[i - 1], q[i]>>]

\* p and q agree on their first n elements.
Agree(p, q, n) == \A i \in 1..n : p[i] = q[i]

\* There is such a run.
LEMMA RunExists ==
  ASSUME NEW S, NEW T, NEW g \in [S \X T -> S], NEW e \in S, NEW q \in Seq(T)
  PROVE  \E f \in [0..Len(q) -> S] : IsRun(f, g, e, q, Len(q))
<1> DEFINE G(f, m) == \A i \in 0..m : f[i] = IF i = 0 THEN e ELSE g[<<f[i - 1], q[i]>>]
           W == {m \in Nat : m <= Len(q) => \E f \in [0..m -> S] : G(f, m)}
<1>1. 0 \in W
  <2>1. [i \in 0..0 |-> e] \in [0..0 -> S] /\ G([i \in 0..0 |-> e], 0)
    OBVIOUS
  <2>2. QED
    BY <2>1
<1>2. ASSUME NEW m \in W \cap Nat
      PROVE  m + 1 \in W
  <2> SUFFICES ASSUME m + 1 <= Len(q)
               PROVE  \E f \in [0..(m + 1) -> S] : G(f, m + 1)
    OBVIOUS
  <2>1. PICK f \in [0..m -> S] : G(f, m)
    BY <1>2
  <2>2. m + 1 \in 1..Len(q) /\ q[m + 1] \in T
    OBVIOUS
  <2>3. f[m] \in S /\ g[<<f[m], q[m + 1]>>] \in S
    BY <2>2
  <2> DEFINE h == [i \in 0..(m + 1) |-> IF i = m + 1 THEN g[<<f[m], q[m + 1]>>] ELSE f[i]]
  <2>4. h \in [0..(m + 1) -> S]
    <3>1. \A i \in 0..(m + 1) : i # m + 1 => i \in 0..m
      OBVIOUS
    <3>2. QED
      BY <2>3, <3>1
  <2>5. ASSUME NEW i \in 0..(m + 1)
        PROVE  h[i] = IF i = 0 THEN e ELSE g[<<h[i - 1], q[i]>>]
    <3>1. CASE i = m + 1
      <4>1. i # 0 /\ i - 1 = m /\ m \in 0..(m + 1) /\ m # m + 1
        BY <3>1
      <4>2. h[m] = f[m] /\ h[i] = g[<<f[m], q[m + 1]>>]
        BY <3>1, <4>1
      <4>3. QED
        BY <3>1, <4>1, <4>2
    <3>2. CASE i # m + 1 /\ i # 0
      <4>1. i \in 0..m /\ i - 1 \in 0..(m + 1) /\ i - 1 # m + 1
        BY <3>2
      <4>2. h[i] = f[i] /\ h[i - 1] = f[i - 1]
        BY <3>2, <4>1
      <4>3. f[i] = g[<<f[i - 1], q[i]>>]
        BY <2>1, <3>2, <4>1
      <4>4. QED
        BY <3>2, <4>2, <4>3
    <3>3. CASE i = 0
      <4>1. 0 # m + 1 /\ 0 \in 0..m /\ 0 \in 0..(m + 1)
        OBVIOUS
      <4>2. h[0] = f[0] /\ f[0] = e
        BY <2>1, <4>1
      <4>3. QED
        BY <3>3, <4>2
    <3>4. QED
      BY <3>1, <3>2, <3>3
  <2> HIDE DEF h
  <2>6. QED
    BY <2>4, <2>5
<1> HIDE DEF W
<1>3. Nat \subseteq W
  BY <1>1, <1>2, Induct
<1>4. Len(q) \in W /\ Len(q) <= Len(q)
  BY <1>3
<1>5. QED
  BY <1>4 DEF W, IsRun

\* Two runs from e on agree as far as their sequences do.
LEMMA RunUnique ==
  ASSUME NEW g, NEW e, NEW n \in Nat, NEW p, NEW q, Agree(p, q, n),
         NEW f, IsRun(f, g, e, p, n), NEW h, IsRun(h, g, e, q, n)
  PROVE  f[n] = h[n]
<1> DEFINE W == {m \in Nat : m <= n => f[m] = h[m]}
<1>1. 0 \in W
  <2>1. 0 \in 0..n
    OBVIOUS
  <2>2. f[0] = e /\ h[0] = e
    BY <2>1 DEF IsRun
  <2>3. QED
    BY <2>2
<1>2. ASSUME NEW m \in W \cap Nat
      PROVE  m + 1 \in W
  <2> SUFFICES ASSUME m + 1 <= n
               PROVE  f[m + 1] = h[m + 1]
    OBVIOUS
  <2>1. m + 1 \in 0..n /\ m + 1 \in 1..n /\ m + 1 # 0 /\ (m + 1) - 1 = m
    OBVIOUS
  <2>2. f[m + 1] = g[<<f[(m + 1) - 1], p[m + 1]>>] /\ h[m + 1] = g[<<h[(m + 1) - 1], q[m + 1]>>]
    BY <2>1 DEF IsRun
  <2>3. f[m] = h[m] /\ p[m + 1] = q[m + 1]
    BY <2>1 DEF Agree
  <2>4. QED
    BY <2>1, <2>2, <2>3
<1> HIDE DEF W
<1>3. Nat \subseteq W
  BY <1>1, <1>2, Induct
<1>4. n \in W /\ n <= n
  BY <1>3
<1>5. QED
  BY <1>4 DEF W

\* What Accumulate computes.
LEMMA AccumulateFacts ==
  ASSUME NEW S, NEW T, NEW g \in [S \X T -> S], NEW e \in S
  PROVE  /\ Accumulate(g, e, <<>>) = e
         /\ \A q \in Seq(T) : Accumulate(g, e, q) \in S
         /\ \A q \in Seq(T), x \in T : Accumulate(g, e, Append(q, x)) = g[<<Accumulate(g, e, q), x>>]
<1> DEFINE G(f, q) == [i \in 0..Len(q) |-> IF i = 0 THEN e ELSE g[<<f[i - 1], q[i]>>]]
           F(q) == CHOOSE f : f = G(f, q)
<1>1. ASSUME NEW q
      PROVE  Accumulate(g, e, q) = F(q)[Len(q)]
  BY DEF Accumulate
<1>2. ASSUME NEW q \in Seq(T)
      PROVE  F(q) \in [0..Len(q) -> S] /\ IsRun(F(q), g, e, q, Len(q))
  <2>1. PICK f \in [0..Len(q) -> S] : IsRun(f, g, e, q, Len(q))
    BY RunExists
  <2>2. f = G(f, q)
    <3>1. \A i \in 0..Len(q) : G(f, q)[i] = f[i]
      BY <2>1 DEF IsRun
    <3>2. DOMAIN f = 0..Len(q) /\ DOMAIN G(f, q) = 0..Len(q)
      OBVIOUS
    <3>3. f = [i \in 0..Len(q) |-> f[i]] /\ G(f, q) = [i \in 0..Len(q) |-> G(f, q)[i]]
      OBVIOUS
    <3> HIDE DEF G
    <3>4. QED
      BY <3>1, <3>3
  <2>3. F(q) = G(F(q), q)
    <3> HIDE DEF G
    <3>1. QED
      BY <2>2
  <2> HIDE DEF F
  <2>4. DOMAIN F(q) = 0..Len(q) /\ IsRun(F(q), g, e, q, Len(q))
    <3>1. DOMAIN G(F(q), q) = 0..Len(q)
      OBVIOUS
    <3>2. \A i \in 0..Len(q) :
             G(F(q), q)[i] = IF i = 0 THEN e ELSE g[<<F(q)[i - 1], q[i]>>]
      OBVIOUS
    <3> HIDE DEF G
    <3>3. QED
      BY <2>3, <3>1, <3>2 DEF IsRun
  <2>5. F(q) = [i \in 0..Len(q) |-> F(q)[i]]
    BY <2>3
  <2> HIDE DEF G
  <2>6. ASSUME NEW n \in 0..Len(q)
        PROVE  F(q)[n] = f[n]
    <3>1. 0..n \subseteq 0..Len(q) /\ n \in Nat
      OBVIOUS
    <3>2. IsRun(F(q), g, e, q, n) /\ IsRun(f, g, e, q, n)
      BY <2>1, <2>4, <3>1 DEF IsRun
    <3>3. Agree(q, q, n)
      BY DEF Agree
    <3>4. QED
      BY <3>1, <3>2, <3>3, RunUnique
  <2>7. F(q) \in [0..Len(q) -> S]
    BY <2>1, <2>5, <2>6
  <2>8. QED
    BY <2>4, <2>7
<1> HIDE DEF F
<1>3. ASSUME NEW q \in Seq(T)
      PROVE  Accumulate(g, e, q) \in S
  BY <1>1, <1>2
<1>4. Accumulate(g, e, <<>>) = e
  <2>1. <<>> \in Seq(T) /\ Len(<<>>) = 0 /\ 0 \in 0..0
    OBVIOUS
  <2>2. IsRun(F(<<>>), g, e, <<>>, 0)
    BY <1>2, <2>1
  <2>3. QED
    BY <1>1, <2>1, <2>2 DEF IsRun
<1>5. ASSUME NEW q \in Seq(T), NEW x \in T
      PROVE  Accumulate(g, e, Append(q, x)) = g[<<Accumulate(g, e, q), x>>]
  <2> DEFINE t == Append(q, x)
             n == Len(q)
  <2>1. /\ t \in Seq(T) /\ n \in Nat /\ Len(t) = n + 1 /\ t[n + 1] = x
        /\ Agree(t, q, n)
    BY DEF Agree
  <2> HIDE DEF t, n
  <2>2. IsRun(F(t), g, e, t, n + 1) /\ IsRun(F(q), g, e, q, n)
    BY <1>2, <2>1 DEF n
  <2>3. IsRun(F(t), g, e, t, n)
    BY <2>1, <2>2 DEF IsRun
  <2>4. F(t)[n] = F(q)[n]
    BY <2>1, <2>2, <2>3, RunUnique
  <2>5. n + 1 \in 0..(n + 1) /\ n + 1 # 0 /\ (n + 1) - 1 = n
    BY <2>1
  <2>6. F(t)[n + 1] = g[<<F(t)[n], x>>]
    BY <2>1, <2>2, <2>5 DEF IsRun
  <2>7. QED
    BY <1>1, <2>1, <2>4, <2>6 DEF t, n
<1>6. QED
  BY <1>3, <1>4, <1>5

\* Keep is a function on sequences of units.
LEMMA KeepType ==
  ASSUME NEW K
  PROVE  /\ Keep(K) \in [Seq(Unit) \X Unit -> Seq(Unit)]
         /\ \A q \in Seq(Unit), x \in Unit :
              Keep(K)[<<q, x>>] = IF x.kind \in K THEN Append(q, x) ELSE q
<1>1. \A q \in Seq(Unit), x \in Unit :
         Keep(K)[<<q, x>>] = IF x.kind \in K THEN Append(q, x) ELSE q
  BY DEF Keep
<1>2. \A p \in Seq(Unit) \X Unit :
         (IF p[2].kind \in K THEN Append(p[1], p[2]) ELSE p[1]) \in Seq(Unit)
  OBVIOUS
<1>3. Keep(K) \in [Seq(Unit) \X Unit -> Seq(Unit)]
  BY <1>2 DEF Keep
<1>4. QED
  BY <1>1, <1>3

\* OfKinds from the right end of a sequence.
LEMMA OfKindsFacts ==
  ASSUME NEW K
  PROVE  /\ OfKinds(<<>>, K) = <<>>
         /\ \A q \in Seq(Unit) : OfKinds(q, K) \in Seq(Unit)
         /\ \A q \in Seq(Unit), x \in Unit :
              OfKinds(Append(q, x), K) =
                IF x.kind \in K THEN Append(OfKinds(q, K), x) ELSE OfKinds(q, K)
<1>1. Keep(K) \in [Seq(Unit) \X Unit -> Seq(Unit)] /\ <<>> \in Seq(Unit)
  BY KeepType
<1> DEFINE g == Keep(K)
<1> HIDE DEF g
<1>2. g \in [Seq(Unit) \X Unit -> Seq(Unit)]
  BY <1>1 DEF g
<1>3. /\ Accumulate(g, <<>>, <<>>) = <<>>
      /\ \A q \in Seq(Unit) : Accumulate(g, <<>>, q) \in Seq(Unit)
      /\ \A q \in Seq(Unit), x \in Unit :
           Accumulate(g, <<>>, Append(q, x)) = g[<<Accumulate(g, <<>>, q), x>>]
  BY <1>1, <1>2, AccumulateFacts
<1>4. \A q : OfKinds(q, K) = Accumulate(g, <<>>, q)
  BY DEF OfKinds, g
<1>5. \A q \in Seq(Unit), x \in Unit : g[<<q, x>>] = IF x.kind \in K THEN Append(q, x) ELSE q
  BY KeepType DEF g
<1>6. QED
  BY <1>3, <1>4, <1>5

\* OfKinds from the left end of a sequence.
LEMMA OfKindsHead ==
  ASSUME NEW K, NEW q \in Seq(Unit), q # <<>>
  PROVE  IF Head(q).kind \in K
         THEN OfKinds(q, K) = <<Head(q)>> \o OfKinds(Tail(q), K)
         ELSE OfKinds(q, K) = OfKinds(Tail(q), K)
<1> DEFINE L(p) == IF Head(p).kind \in K
                   THEN OfKinds(p, K) = <<Head(p)>> \o OfKinds(Tail(p), K)
                   ELSE OfKinds(p, K) = OfKinds(Tail(p), K)
           P == {p \in Seq(Unit) : p # <<>> => L(p)}
<1>1. <<>> \in P
  OBVIOUS
<1>2. ASSUME NEW p \in P \cap Seq(Unit), NEW x \in Unit
      PROVE  Append(p, x) \in P
  <2>1. Append(p, x) \in Seq(Unit)
    OBVIOUS
  <2>2. CASE p = <<>>
    <3>1. Append(p, x) # <<>> /\ Head(Append(p, x)) = x /\ Tail(Append(p, x)) = <<>>
      BY <2>2
    <3>2. OfKinds(Append(p, x), K) = IF x.kind \in K THEN Append(<<>>, x) ELSE <<>>
      BY <2>2, OfKindsFacts
    <3>3. Append(<<>>, x) = <<x>> \o <<>> /\ OfKinds(<<>>, K) = <<>>
      BY OfKindsFacts
    <3>4. L(Append(p, x))
      BY <3>1, <3>2, <3>3
    <3>5. QED
      BY <2>1, <3>4
  <2>3. CASE p # <<>>
    <3>1. /\ Tail(p) \in Seq(Unit) /\ Head(p) \in Unit
          /\ Head(Append(p, x)) = Head(p) /\ Tail(Append(p, x)) = Append(Tail(p), x)
      BY <2>3
    <3>2. L(p)
      BY <2>3
    <3>3. /\ OfKinds(Append(p, x), K) =
                IF x.kind \in K THEN Append(OfKinds(p, K), x) ELSE OfKinds(p, K)
          /\ OfKinds(Append(Tail(p), x), K) =
                IF x.kind \in K THEN Append(OfKinds(Tail(p), K), x) ELSE OfKinds(Tail(p), K)
          /\ OfKinds(Tail(p), K) \in Seq(Unit)
      BY <3>1, OfKindsFacts
    <3>4. Append(<<Head(p)>> \o OfKinds(Tail(p), K), x) =
            <<Head(p)>> \o Append(OfKinds(Tail(p), K), x)
      BY <3>1, <3>3
    <3>5. L(Append(p, x))
      BY <3>1, <3>2, <3>3, <3>4
    <3>6. QED
      BY <2>1, <3>5
  <2>4. QED
    BY <2>2, <2>3
<1> HIDE DEF P
<1>3. Seq(Unit) \subseteq P
  BY <1>1, <1>2, SeqInduct
<1>4. QED
  BY <1>3 DEF P

-----------------------------------------------------------------------------
\* The units of a pipeline: the queue of expected answers, and what the server has to
\* answer.

\* What exec encodes, and what is expected.
Encoded == Kinds \ {"Torn"}

\* All units of q are of the kinds K.
Kinded(q, K) == \A i \in 1..Len(q) : q[i].kind \in K

NoSync(q) == Kinded(q, Kinds \ {"Sync"})

EndsInSync(q) == q # <<>> /\ q[Len(q)].kind = "Sync"

\* Adds a unit to what follows the first Sync.
SinceStep ==
  [p \in Seq(Unit) \X Unit |->
     IF p[2].kind = "Torn" \/ (p[1] = <<>> /\ p[2].kind # "Sync") THEN p[1]
     ELSE Append(p[1], p[2])]

\* The units of q from its first Sync on.
Since(q) == Accumulate(SinceStep, <<>>, q)

-----------------------------------------------------------------------------
\* Lemmas about these sequences.

\* Kinds of sequences that grow and shrink.
LEMMA KindedFacts ==
  ASSUME NEW q \in Seq(Unit), NEW K
  PROVE  /\ Kinded(<<>>, K)
         /\ \A x \in Unit : Kinded(Append(q, x), K) <=> Kinded(q, K) /\ x.kind \in K
         /\ q # <<>> => (Kinded(q, K) <=> Head(q).kind \in K /\ Kinded(Tail(q), K))
<1>1. Kinded(<<>>, K)
  BY DEF Kinded
<1>2. ASSUME NEW x \in Unit
      PROVE  Kinded(Append(q, x), K) <=> Kinded(q, K) /\ x.kind \in K
  <2> DEFINE t == Append(q, x)
  <2>1. /\ Len(q) \in Nat /\ Len(t) = Len(q) + 1 /\ t[Len(q) + 1] = x
        /\ \A i \in 1..Len(q) : t[i] = q[i]
    OBVIOUS
  <2>2. \A i \in 1..(Len(q) + 1) : i \in 1..Len(q) \/ i = Len(q) + 1
    BY <2>1
  <2>3. 1..Len(q) \subseteq 1..(Len(q) + 1) /\ Len(q) + 1 \in 1..(Len(q) + 1)
    BY <2>1
  <2> HIDE DEF t
  <2>4. QED
    BY <2>1, <2>2, <2>3 DEF Kinded, t
<1>3. ASSUME q # <<>>
      PROVE  Kinded(q, K) <=> Head(q).kind \in K /\ Kinded(Tail(q), K)
  <2> DEFINE t == Tail(q)
  <2>1. /\ Len(q) \in Nat \ {0} /\ Head(q) = q[1] /\ Len(t) = Len(q) - 1
        /\ \A i \in 1..Len(t) : t[i] = q[i + 1]
    BY <1>3, TailFacts
  <2> HIDE DEF t
  <2>2. \A i \in 1..Len(q) : i = 1 \/ (i - 1 \in 1..Len(t) /\ (i - 1) + 1 = i)
    BY <2>1
  <2>3. 1 \in 1..Len(q) /\ \A i \in 1..Len(t) : i + 1 \in 1..Len(q)
    BY <2>1
  <2>4. ASSUME Kinded(q, K)
        PROVE  Head(q).kind \in K /\ Kinded(t, K)
    BY <2>1, <2>3, <2>4 DEF Kinded
  <2>5. ASSUME Head(q).kind \in K, Kinded(t, K)
        PROVE  Kinded(q, K)
    <3>1. ASSUME NEW i \in 1..Len(q), i # 1
          PROVE  q[i].kind \in K
      <4>1. i - 1 \in 1..Len(t) /\ t[i - 1] = q[(i - 1) + 1] /\ (i - 1) + 1 = i
        BY <2>1, <2>2, <3>1
      <4>2. QED
        BY <2>5, <4>1 DEF Kinded
    <3>2. QED
      BY <2>1, <2>5, <3>1 DEF Kinded
  <2>6. QED
    BY <2>4, <2>5 DEF t
<1>4. QED
  BY <1>1, <1>2, <1>3

\* Sequences that end in a Sync.
LEMMA EndsFacts ==
  ASSUME NEW q \in Seq(Unit)
  PROVE  /\ ~EndsInSync(<<>>)
         /\ \A x \in Unit : EndsInSync(Append(q, x)) <=> x.kind = "Sync"
         /\ EndsInSync(q) => ~NoSync(q)
         /\ q # <<>> /\ EndsInSync(q) /\ Tail(q) # <<>> => EndsInSync(Tail(q))
         /\ q # <<>> /\ EndsInSync(q) /\ Head(q).kind # "Sync" => EndsInSync(Tail(q))
<1>1. ~EndsInSync(<<>>)
  BY DEF EndsInSync
<1>2. \A x \in Unit : EndsInSync(Append(q, x)) <=> x.kind = "Sync"
  <2>1. ASSUME NEW x \in Unit
        PROVE  Append(q, x) # <<>> /\ Append(q, x)[Len(Append(q, x))] = x
    OBVIOUS
  <2>2. QED
    BY <2>1 DEF EndsInSync
<1>3. EndsInSync(q) => ~NoSync(q)
  <2>1. q # <<>> => Len(q) \in 1..Len(q)
    OBVIOUS
  <2>2. QED
    BY <2>1 DEF EndsInSync, NoSync, Kinded
<1>4. ASSUME q # <<>>, EndsInSync(q), Tail(q) # <<>>
      PROVE  EndsInSync(Tail(q))
  <2>1. Tail(q)[Len(Tail(q))] = q[Len(q)]
    BY <1>4
  <2>2. QED
    BY <1>4, <2>1 DEF EndsInSync
<1>5. ASSUME q # <<>>, EndsInSync(q), Head(q).kind # "Sync"
      PROVE  EndsInSync(Tail(q))
  <2>1. Len(q) # 1 /\ Len(q) \in Nat \ {0}
    BY <1>5 DEF EndsInSync
  <2>2. Len(Tail(q)) # 0
    BY <1>5, <2>1, TailFacts
  <2>3. Len(<<>>) = 0
    OBVIOUS
  <2>4. Tail(q) # <<>>
    BY <2>2, <2>3, Zenon
  <2>5. QED
    BY <1>4, <1>5, <2>4
<1>6. QED
  BY <1>1, <1>2, <1>3, <1>4, <1>5

\* What ends in a Sync does so behind anything.
LEMMA EndsConcat ==
  ASSUME NEW p \in Seq(Unit), NEW q \in Seq(Unit), EndsInSync(q)
  PROVE  EndsInSync(p \o q)
<1>1. q # <<>>
  BY DEF EndsInSync
<1>2. p \o q # <<>> /\ (p \o q)[Len(p \o q)] = q[Len(q)]
  BY <1>1
<1>3. QED
  BY <1>2 DEF EndsInSync

\* Since from the right end of a sequence.
LEMMA SinceFacts ==
  /\ Since(<<>>) = <<>>
  /\ \A q \in Seq(Unit) : Since(q) \in Seq(Unit)
  /\ \A q \in Seq(Unit), x \in Unit :
       Since(Append(q, x)) =
         IF x.kind = "Torn" \/ (Since(q) = <<>> /\ x.kind # "Sync") THEN Since(q)
         ELSE Append(Since(q), x)
<1> DEFINE g == SinceStep
<1>1. \A p \in Seq(Unit) \X Unit :
         (IF p[2].kind = "Torn" \/ (p[1] = <<>> /\ p[2].kind # "Sync") THEN p[1]
          ELSE Append(p[1], p[2])) \in Seq(Unit)
  OBVIOUS
<1>2. g \in [Seq(Unit) \X Unit -> Seq(Unit)]
  BY <1>1 DEF SinceStep
<1>3. \A q \in Seq(Unit), x \in Unit :
        g[<<q, x>>] = IF x.kind = "Torn" \/ (q = <<>> /\ x.kind # "Sync") THEN q
                      ELSE Append(q, x)
  BY DEF SinceStep
<1>4. <<>> \in Seq(Unit)
  OBVIOUS
<1>5. \A q : Since(q) = Accumulate(g, <<>>, q)
  BY DEF Since
<1> HIDE DEF g
<1>6. /\ Accumulate(g, <<>>, <<>>) = <<>>
      /\ \A q \in Seq(Unit) : Accumulate(g, <<>>, q) \in Seq(Unit)
      /\ \A q \in Seq(Unit), x \in Unit :
           Accumulate(g, <<>>, Append(q, x)) = g[<<Accumulate(g, <<>>, q), x>>]
  BY <1>2, <1>4, AccumulateFacts
<1>7. QED
  BY <1>3, <1>5, <1>6

\* A sequence without a Sync, and only such a one, has nothing from its first Sync on.
LEMMA SinceEmpty ==
  ASSUME NEW q \in Seq(Unit)
  PROVE  Since(q) = <<>> <=> NoSync(q)
<1> DEFINE P == {p \in Seq(Unit) : Since(p) = <<>> <=> NoSync(p)}
<1>1. <<>> \in P
  <2>1. NoSync(<<>>)
    BY DEF NoSync, Kinded
  <2>2. <<>> \in Seq(Unit)
    OBVIOUS
  <2>3. QED
    BY <2>1, <2>2, SinceFacts
<1>2. ASSUME NEW p \in P \cap Seq(Unit), NEW x \in Unit
      PROVE  Append(p, x) \in P
  <2>1. NoSync(Append(p, x)) <=> NoSync(p) /\ x.kind \in Kinds \ {"Sync"}
    BY KindedFacts DEF NoSync
  <2>2. x.kind \in Kinds
    BY DEF Unit
  <2>3. /\ Since(Append(p, x)) =
             IF x.kind = "Torn" \/ (Since(p) = <<>> /\ x.kind # "Sync") THEN Since(p)
             ELSE Append(Since(p), x)
        /\ Since(p) \in Seq(Unit)
    BY SinceFacts
  <2>4. Append(Since(p), x) # <<>>
    BY <2>3
  <2>5. Append(p, x) \in Seq(Unit)
    OBVIOUS
  <2>6. Since(p) = <<>> <=> NoSync(p)
    OBVIOUS
  <2>7. QED
    BY <2>1, <2>2, <2>3, <2>4, <2>5, <2>6
<1> HIDE DEF P
<1>3. Seq(Unit) \subseteq P
  BY <1>1, <1>2, SeqInduct
<1>4. QED
  BY <1>3 DEF P

\* Dropping a unit before the first Sync; from a Sync on nothing encoded is missing.
LEMMA SinceHead ==
  ASSUME NEW q \in Seq(Unit), q # <<>>
  PROVE  IF Head(q).kind = "Sync" THEN Since(q) = OfKinds(q, Encoded)
         ELSE Since(q) = Since(Tail(q))
<1> DEFINE L(p) == IF Head(p).kind = "Sync" THEN Since(p) = OfKinds(p, Encoded)
                   ELSE Since(p) = Since(Tail(p))
           P == {p \in Seq(Unit) : p # <<>> => L(p)}
<1>1. <<>> \in P
  OBVIOUS
<1>2. ASSUME NEW p \in P \cap Seq(Unit), NEW x \in Unit
      PROVE  Append(p, x) \in P
  <2> DEFINE t == Append(p, x)
  <2>1. t \in Seq(Unit) /\ t # <<>> /\ x.kind \in Kinds
    BY DEF Unit
  <2>2. /\ Since(t) = IF x.kind = "Torn" \/ (Since(p) = <<>> /\ x.kind # "Sync") THEN Since(p)
                      ELSE Append(Since(p), x)
        /\ OfKinds(t, Encoded) = IF x.kind \in Encoded THEN Append(OfKinds(p, Encoded), x)
                               ELSE OfKinds(p, Encoded)
    BY SinceFacts, OfKindsFacts
  <2>3. Since(<<>>) = <<>> /\ OfKinds(<<>>, Encoded) = <<>>
    BY SinceFacts, OfKindsFacts
  <2>4. CASE p = <<>>
    <3>1. Head(t) = x /\ Tail(t) = <<>>
      BY <2>4
    <3> HIDE DEF t
    <3>2. L(t)
      BY <2>1, <2>2, <2>3, <2>4, <3>1 DEF Encoded
    <3>3. QED
      BY <2>1, <3>2 DEF t
  <2>5. CASE p # <<>>
    <3>1. Head(t) = Head(p) /\ Tail(t) = Append(Tail(p), x) /\ Tail(p) \in Seq(Unit)
      BY <2>5
    <3>2. L(p)
      BY <2>5
    <3>3. CASE Head(p).kind = "Sync"
      <4>1. Since(p) # <<>>
        BY <2>5, <3>3, SinceEmpty, KindedFacts DEF NoSync
      <4>2. Since(t) = OfKinds(t, Encoded)
        BY <2>1, <2>2, <3>2, <3>3, <4>1 DEF Encoded
      <4> HIDE DEF t
      <4>3. QED
        BY <2>1, <3>1, <3>3, <4>2 DEF t
    <3>4. CASE Head(p).kind # "Sync"
      <4>1. Since(Append(Tail(p), x)) =
              IF x.kind = "Torn" \/ (Since(Tail(p)) = <<>> /\ x.kind # "Sync") THEN Since(Tail(p))
              ELSE Append(Since(Tail(p)), x)
        BY <3>1, SinceFacts
      <4>2. Since(p) = Since(Tail(p))
        BY <3>2, <3>4
      <4> HIDE DEF t
      <4>3. Since(t) = Since(Tail(t))
        BY <2>2, <3>1, <4>1, <4>2
      <4>4. QED
        BY <2>1, <3>1, <3>4, <4>3 DEF t
    <3>5. QED
      BY <3>3, <3>4
  <2>6. QED
    BY <2>4, <2>5
<1> HIDE DEF P
<1>3. Seq(Unit) \subseteq P
  BY <1>1, <1>2, SeqInduct
<1>4. QED
  BY <1>3 DEF P

\* What exec failed to encode makes no difference to what follows the first Sync.
LEMMA SinceOfKinds ==
  ASSUME NEW q \in Seq(Unit)
  PROVE  Since(OfKinds(q, Encoded)) = Since(q)
<1> DEFINE P == {p \in Seq(Unit) : Since(OfKinds(p, Encoded)) = Since(p)}
<1>1. <<>> \in P
  BY OfKindsFacts
<1>2. ASSUME NEW p \in P \cap Seq(Unit), NEW x \in Unit
      PROVE  Append(p, x) \in P
  <2> DEFINE k == OfKinds(p, Encoded)
  <2>1. Append(p, x) \in Seq(Unit) /\ x.kind \in Kinds
    BY DEF Unit
  <2>0. k \in Seq(Unit)
    BY OfKindsFacts
  <2>2. OfKinds(Append(p, x), Encoded) = IF x.kind \in Encoded THEN Append(k, x) ELSE k
    BY OfKindsFacts
  <2> HIDE DEF k
  <2>3. /\ Since(Append(p, x)) =
             IF x.kind = "Torn" \/ (Since(p) = <<>> /\ x.kind # "Sync") THEN Since(p)
             ELSE Append(Since(p), x)
        /\ Since(Append(k, x)) =
             IF x.kind = "Torn" \/ (Since(k) = <<>> /\ x.kind # "Sync") THEN Since(k)
             ELSE Append(Since(k), x)
    BY <2>0, SinceFacts
  <2>4. Since(k) = Since(p)
    BY DEF k
  <2>5. Since(OfKinds(Append(p, x), Encoded)) = Since(Append(p, x))
    <3>1. CASE x.kind = "Torn"
      BY <2>2, <2>3, <2>4, <3>1 DEF Encoded
    <3>2. CASE x.kind # "Torn"
      <4>1. OfKinds(Append(p, x), Encoded) = Append(k, x)
        BY <2>1, <2>2, <3>2 DEF Encoded
      <4>2. Since(Append(k, x)) = Since(Append(p, x))
        BY <2>3, <2>4, <3>2
      <4>3. QED
        BY <4>1, <4>2
    <3>3. QED
      BY <3>1, <3>2
  <2>6. QED
    BY <2>1, <2>5
<1> HIDE DEF P
<1>3. Seq(Unit) \subseteq P
  BY <1>1, <1>2, SeqInduct
<1>4. QED
  BY <1>3 DEF P

\* Where everything is encoded nothing is left out.
LEMMA OfKindsAll ==
  ASSUME NEW K, NEW q \in Seq(Unit), Kinded(q, K)
  PROVE  OfKinds(q, K) = q
<1> DEFINE P == {p \in Seq(Unit) : Kinded(p, K) => OfKinds(p, K) = p}
<1>1. <<>> \in P
  BY OfKindsFacts
<1>2. ASSUME NEW p \in P \cap Seq(Unit), NEW x \in Unit
      PROVE  Append(p, x) \in P
  <2>1. Kinded(Append(p, x), K) <=> Kinded(p, K) /\ x.kind \in K
    BY KindedFacts
  <2>2. OfKinds(Append(p, x), K) = IF x.kind \in K THEN Append(OfKinds(p, K), x)
                                   ELSE OfKinds(p, K)
    BY OfKindsFacts
  <2>3. Append(p, x) \in Seq(Unit)
    OBVIOUS
  <2>4. QED
    BY <2>1, <2>2, <2>3
<1> HIDE DEF P
<1>3. Seq(Unit) \subseteq P
  BY <1>1, <1>2, SeqInduct
<1>4. QED
  BY <1>3 DEF P

\* A unit behind a Sync is among what follows the first Sync.
LEMMA SinceMember ==
  ASSUME NEW q \in Seq(Unit), NEW j \in 1..Len(q), NEW k \in 1..Len(q),
         q[j].kind = "Sync", j <= k, q[k].kind # "Torn"
  PROVE  \E n \in 1..Len(Since(q)) : Since(q)[n] = q[k]
<1> DEFINE Behind(p, i) == \E h \in 1..Len(p) : h <= i /\ p[h].kind = "Sync"
           In(p, i) == \E n \in 1..Len(Since(p)) : Since(p)[n] = p[i]
           P == {p \in Seq(Unit) :
                   \A i \in 1..Len(p) : Behind(p, i) /\ p[i].kind # "Torn" => In(p, i)}
<1>1. <<>> \in P
  OBVIOUS
<1>2. ASSUME NEW p \in P \cap Seq(Unit), NEW x \in Unit
      PROVE  Append(p, x) \in P
  <2> DEFINE t == Append(p, x)
  <2>1. /\ t \in Seq(Unit) /\ Len(p) \in Nat /\ Len(t) = Len(p) + 1 /\ t[Len(p) + 1] = x
        /\ \A i \in 1..Len(p) : t[i] = p[i]
    OBVIOUS
  <2>2. /\ Since(t) = IF x.kind = "Torn" \/ (Since(p) = <<>> /\ x.kind # "Sync") THEN Since(p)
                      ELSE Append(Since(p), x)
        /\ Since(p) \in Seq(Unit)
    BY SinceFacts
  <2>3. /\ Len(Since(p)) \in Nat
        /\ Len(Append(Since(p), x)) = Len(Since(p)) + 1
        /\ Append(Since(p), x)[Len(Since(p)) + 1] = x
        /\ \A n \in 1..Len(Since(p)) : Append(Since(p), x)[n] = Since(p)[n]
    BY <2>2
  <2>4. /\ \A n \in 1..Len(Since(p)) : n \in 1..Len(Since(t)) /\ Since(t)[n] = Since(p)[n]
        /\ Len(Since(t)) \in Nat
    BY <2>2, <2>3
  <2>5. \A i \in 1..Len(p) : Behind(p, i) /\ p[i].kind # "Torn" => In(p, i)
    OBVIOUS
  <2> SUFFICES ASSUME NEW i \in 1..Len(t), NEW h \in 1..Len(t), h <= i, t[h].kind = "Sync",
                      t[i].kind # "Torn"
               PROVE  In(t, i)
    BY <2>1
  <2> HIDE DEF t, P
  <2>6. CASE i \in 1..Len(p)
    <3>1. h \in 1..Len(p) /\ t[h] = p[h] /\ t[i] = p[i]
      BY <2>1, <2>6
    <3>2. PICK n \in 1..Len(Since(p)) : Since(p)[n] = p[i]
      BY <2>5, <2>6, <3>1
    <3>3. QED
      BY <2>4, <3>1, <3>2
  <2>7. CASE i \notin 1..Len(p)
    <3>1. i = Len(p) + 1 /\ t[i] = x /\ x.kind # "Torn"
      BY <2>1, <2>7
    <3>2. Since(p) # <<>> \/ x.kind = "Sync"
      <4>1. CASE h = i
        BY <3>1, <4>1
      <4>2. CASE h # i
        <5>1. h \in 1..Len(p) /\ t[h] = p[h]
          BY <2>1, <3>1, <4>2
        <5>2. ~NoSync(p)
          BY <5>1 DEF NoSync, Kinded
        <5>3. QED
          BY <5>2, SinceEmpty
      <4>3. QED
        BY <4>1, <4>2
    <3>3. Since(t) = Append(Since(p), x)
      BY <2>2, <3>1, <3>2
    <3>4. Len(Since(p)) + 1 \in 1..Len(Since(t)) /\ Since(t)[Len(Since(p)) + 1] = t[i]
      BY <2>3, <3>1, <3>3
    <3>5. QED
      BY <3>4
  <2>8. QED
    BY <2>6, <2>7
<1> HIDE DEF P
<1>3. Seq(Unit) \subseteq P
  BY <1>1, <1>2, SeqInduct
<1>4. q \in P /\ Behind(q, k)
  BY <1>3
<1>5. QED
  BY <1>4 DEF P

\* What follows the first Sync stands in the sequence behind a Sync.
LEMMA SinceFrom ==
  ASSUME NEW q \in Seq(Unit), NEW n \in 1..Len(Since(q))
  PROVE  \E k \in 1..Len(q) :
           /\ Since(q)[n] = q[k]
           /\ \E j \in 1..Len(q) : j <= k /\ q[j].kind = "Sync"
<1> DEFINE Behind(p, i) == \E h \in 1..Len(p) : h <= i /\ p[h].kind = "Sync"
           P == {p \in Seq(Unit) :
                   \A m \in 1..Len(Since(p)) :
                     \E i \in 1..Len(p) : Since(p)[m] = p[i] /\ Behind(p, i)}
<1>1. <<>> \in P
  <2>1. Since(<<>>) = <<>> /\ Len(<<>>) = 0 /\ <<>> \in Seq(Unit)
    BY SinceFacts
  <2>2. QED
    BY <2>1
<1>2. ASSUME NEW p \in P \cap Seq(Unit), NEW x \in Unit
      PROVE  Append(p, x) \in P
  <2> DEFINE t == Append(p, x)
  <2>1. /\ t \in Seq(Unit) /\ Len(p) \in Nat /\ Len(t) = Len(p) + 1 /\ t[Len(p) + 1] = x
        /\ \A i \in 1..Len(p) : t[i] = p[i] /\ i \in 1..Len(t)
        /\ Len(p) + 1 \in 1..Len(t)
    OBVIOUS
  <2>2. /\ Since(t) = IF x.kind = "Torn" \/ (Since(p) = <<>> /\ x.kind # "Sync") THEN Since(p)
                      ELSE Append(Since(p), x)
        /\ Since(p) \in Seq(Unit)
    BY SinceFacts
  <2>3. /\ Len(Since(p)) \in Nat
        /\ Len(Append(Since(p), x)) = Len(Since(p)) + 1
        /\ Append(Since(p), x)[Len(Since(p)) + 1] = x
        /\ \A m \in 1..Len(Since(p)) : Append(Since(p), x)[m] = Since(p)[m]
    BY <2>2
  <2>4. \A m \in 1..Len(Since(p)) :
          \E i \in 1..Len(p) : Since(p)[m] = p[i] /\ Behind(p, i)
    OBVIOUS
  <2>5. \A i \in 1..Len(p) : Behind(p, i) => Behind(t, i)
    BY <2>1
  <2> SUFFICES ASSUME NEW m \in 1..Len(Since(t))
               PROVE  \E i \in 1..Len(t) : Since(t)[m] = t[i] /\ Behind(t, i)
    BY <2>1
  <2> HIDE DEF t, P, Behind
  <2>6. CASE m \in 1..Len(Since(p))
    <3>1. PICK i \in 1..Len(p) : Since(p)[m] = p[i] /\ Behind(p, i)
      BY <2>4, <2>6
    <3>2. Since(t)[m] = Since(p)[m]
      BY <2>2, <2>3, <2>6
    <3>3. QED
      BY <2>1, <2>5, <3>1, <3>2
  <2>7. CASE m \notin 1..Len(Since(p))
    <3>1. Since(t) = Append(Since(p), x) /\ ~(Since(p) = <<>> /\ x.kind # "Sync")
      BY <2>2, <2>7
    <3>2. m = Len(Since(p)) + 1 /\ Since(t)[m] = x
      BY <2>3, <2>7, <3>1
    <3>3. Behind(t, Len(p) + 1)
      <4>1. CASE x.kind = "Sync"
        BY <2>1, <4>1 DEF Behind
      <4>2. CASE x.kind # "Sync"
        <5>1. ~NoSync(p)
          BY <3>1, <4>2, SinceEmpty
        <5>2. PICK h \in 1..Len(p) : p[h].kind \notin Kinds \ {"Sync"}
          BY <5>1 DEF NoSync, Kinded
        <5>3. p[h] \in Unit
          OBVIOUS
        <5>4. p[h].kind = "Sync"
          BY <5>2, <5>3 DEF Unit
        <5>5. h \in 1..Len(t) /\ t[h] = p[h] /\ h <= Len(p) + 1
          BY <2>1
        <5>6. QED
          BY <5>4, <5>5 DEF Behind
      <4>3. QED
        BY <4>1, <4>2
    <3>4. QED
      BY <2>1, <3>2, <3>3
  <2>8. QED
    BY <2>6, <2>7
<1> HIDE DEF P
<1>3. Seq(Unit) \subseteq P
  BY <1>1, <1>2, SeqInduct
<1>4. QED
  BY <1>3 DEF P

-----------------------------------------------------------------------------
\* What the handle expects, against what the server still has to answer.

\* The kinds of a pipeline's units on the wire.
WireKinds == ExecKinds \cup {"Sync", "Torn"}

\* No statement is expected twice.
Distinct(q) == \A i, j \in 1..Len(q) : i < j /\ q[i].kind # "Sync" => q[i] # q[j]

\* The units w on the wire are what queue q expects, but for what exec failed to
\* encode; in an aborted pipeline only from the first Sync on.
Match(w, q, ab) ==
  /\ w \in Seq(Unit) /\ Kinded(w, WireKinds)
  /\ q \in Seq(Unit) /\ Kinded(q, ExecKinds \cup {"Sync"}) /\ Distinct(q)
  /\ IF ab THEN Since(w) = Since(q) ELSE OfKinds(w, Encoded) = q

\* The kinds, by cases.
LEMMA KindFacts ==
  /\ ExecKinds \subseteq Encoded /\ "Sync" \in Encoded /\ "Torn" \notin Encoded
  /\ ExecKinds \cup {"Sync"} \subseteq WireKinds /\ WireKinds \subseteq Kinds
  /\ "Sync" \notin ExecKinds /\ "Torn" \notin ExecKinds
  /\ ExecKinds \cap ReadyKinds = {} /\ "Torn" \notin ReadyKinds /\ "Sync" \in ReadyKinds
  /\ \A k \in WireKinds : k \in Encoded <=> k # "Torn"
  BY DEF ExecKinds, Encoded, Kinds, WireKinds, ReadyKinds

\* A queue stays distinct when its head goes or something new comes.
LEMMA DistinctFacts ==
  ASSUME NEW q \in Seq(Unit), Distinct(q)
  PROVE  /\ q # <<>> => Distinct(Tail(q))
         /\ \A x \in Unit : (x.kind = "Sync" \/ \A i \in 1..Len(q) : q[i] # x)
                              => Distinct(Append(q, x))
<1>1. ASSUME q # <<>>
      PROVE  Distinct(Tail(q))
  <2> DEFINE t == Tail(q)
  <2>1. /\ Len(q) \in Nat \ {0} /\ Len(t) = Len(q) - 1
        /\ \A i \in 1..Len(t) : t[i] = q[i + 1]
    BY <1>1, TailFacts
  <2> HIDE DEF t
  <2>2. ASSUME NEW i \in 1..Len(t), NEW j \in 1..Len(t), i < j, t[i].kind # "Sync"
        PROVE  t[i] # t[j]
    <3>1. i + 1 \in 1..Len(q) /\ j + 1 \in 1..Len(q) /\ i + 1 < j + 1
      BY <2>1, <2>2
    <3>2. QED
      BY <2>1, <2>2, <3>1 DEF Distinct
  <2>3. QED
    BY <2>2 DEF Distinct, t
<1>2. ASSUME NEW x \in Unit, x.kind = "Sync" \/ \A i \in 1..Len(q) : q[i] # x
      PROVE  Distinct(Append(q, x))
  <2> DEFINE t == Append(q, x)
  <2>1. /\ Len(q) \in Nat /\ Len(t) = Len(q) + 1 /\ t[Len(q) + 1] = x
        /\ \A i \in 1..Len(q) : t[i] = q[i]
    OBVIOUS
  <2> HIDE DEF t
  <2>2. ASSUME NEW i \in 1..Len(t), NEW j \in 1..Len(t), i < j, t[i].kind # "Sync"
        PROVE  t[i] # t[j]
    <3>1. i \in 1..Len(q) /\ (j \in 1..Len(q) \/ j = Len(q) + 1)
      BY <2>1, <2>2
    <3>2. CASE j \in 1..Len(q)
      BY <2>1, <2>2, <3>1, <3>2 DEF Distinct
    <3>3. CASE j = Len(q) + 1
      BY <1>2, <2>1, <2>2, <3>1, <3>3
    <3>4. QED
      BY <3>1, <3>2, <3>3
  <2>3. QED
    BY <2>2 DEF Distinct, t
<1>3. QED
  BY <1>1, <1>2

\* An empty queue matches an empty wire.
LEMMA MatchEmpty == Match(<<>>, <<>>, FALSE)
<1>1. <<>> \in Seq(Unit) /\ OfKinds(<<>>, Encoded) = <<>>
  BY OfKindsFacts
<1>2. QED
  BY <1>1 DEF Match, Kinded, Distinct

\* A statement or a Sync is written and expected.
LEMMA MatchQueue ==
  ASSUME NEW w, NEW q, NEW ab, Match(w, q, ab), NEW x \in Unit, x.kind \in ExecKinds \cup {"Sync"},
         x.kind = "Sync" \/ \A i \in 1..Len(q) : q[i] # x
  PROVE  Match(Append(w, x), Append(q, x), ab)
<1>1. w \in Seq(Unit) /\ q \in Seq(Unit) /\ Append(w, x) \in Seq(Unit) /\ Append(q, x) \in Seq(Unit)
  BY DEF Match
<1>2. Kinded(Append(w, x), WireKinds) /\ Kinded(Append(q, x), ExecKinds \cup {"Sync"})
  BY <1>1, KindedFacts, KindFacts DEF Match
<1>3. Distinct(Append(q, x))
  BY <1>1, DistinctFacts DEF Match
<1>4. CASE ab
  <2>1. Since(w) = Since(q)
    BY <1>4 DEF Match
  <2>2. Since(Append(w, x)) = Since(Append(q, x))
    BY <1>1, <2>1, SinceFacts
  <2>3. QED
    BY <1>1, <1>2, <1>3, <1>4, <2>2 DEF Match
<1>5. CASE ~ab
  <2>1. OfKinds(w, Encoded) = q
    BY <1>5 DEF Match
  <2>2. OfKinds(Append(w, x), Encoded) = Append(q, x)
    BY <1>1, <2>1, OfKindsFacts, KindFacts
  <2>3. QED
    BY <1>1, <1>2, <1>3, <1>5, <2>2 DEF Match
<1>6. QED
  BY <1>4, <1>5

\* What exec fails to encode is written and not expected.
LEMMA MatchTorn ==
  ASSUME NEW w, NEW q, NEW ab, Match(w, q, ab), NEW x \in Unit, x.kind = "Torn"
  PROVE  Match(Append(w, x), q, ab)
<1>1. w \in Seq(Unit) /\ Append(w, x) \in Seq(Unit)
  BY DEF Match
<1>2. Kinded(Append(w, x), WireKinds)
  BY <1>1, KindedFacts DEF Match, WireKinds
<1>3. Since(Append(w, x)) = Since(w)
  BY <1>1, SinceFacts
<1>4. x.kind \notin Encoded
  BY KindFacts
<1>5. OfKinds(Append(w, x), Encoded) = OfKinds(w, Encoded)
  BY <1>1, <1>4, OfKindsFacts
<1>6. QED
  BY <1>1, <1>2, <1>3, <1>5 DEF Match

\* The parts of a match that do not depend on its state.
LEMMA MatchParts ==
  ASSUME NEW w, NEW q, NEW ab, Match(w, q, ab)
  PROVE  /\ w \in Seq(Unit) /\ q \in Seq(Unit)
         /\ w # <<>> => /\ Tail(w) \in Seq(Unit) /\ Kinded(Tail(w), WireKinds)
                        /\ Head(w) \in Unit /\ Head(w).kind \in WireKinds
         /\ q # <<>> => /\ Tail(q) \in Seq(Unit) /\ Kinded(Tail(q), ExecKinds \cup {"Sync"})
                        /\ Distinct(Tail(q))
                        /\ Head(q) \in Unit /\ Head(q).kind \in ExecKinds \cup {"Sync"}
         /\ OfKinds(q, Encoded) = q
<1>1. w \in Seq(Unit) /\ q \in Seq(Unit)
  BY DEF Match
<1>2. w # <<>> => /\ Tail(w) \in Seq(Unit) /\ Kinded(Tail(w), WireKinds)
                  /\ Head(w) \in Unit /\ Head(w).kind \in WireKinds
  BY <1>1, TailFacts, KindedFacts DEF Match
<1>3. q # <<>> => /\ Tail(q) \in Seq(Unit) /\ Kinded(Tail(q), ExecKinds \cup {"Sync"})
                  /\ Distinct(Tail(q))
                  /\ Head(q) \in Unit /\ Head(q).kind \in ExecKinds \cup {"Sync"}
  BY <1>1, TailFacts, KindedFacts, DistinctFacts DEF Match
<1>4. Kinded(q, Encoded)
  BY KindFacts DEF Match, Kinded
<1>5. QED
  BY <1>1, <1>2, <1>3, <1>4, OfKindsAll

\* The server answers in the order of the queue.
LEMMA MatchAnswer ==
  ASSUME NEW w, NEW q, Match(w, q, FALSE), w # <<>>, Head(w).kind # "Torn"
  PROVE  q # <<>> /\ Head(q) = Head(w) /\ Match(Tail(w), Tail(q), FALSE)
<1>1. w \in Seq(Unit) /\ Tail(w) \in Seq(Unit) /\ Head(w) \in Unit /\ Head(w).kind \in Encoded
  BY MatchParts, KindFacts
<1>2. OfKinds(w, Encoded) = q /\ OfKinds(Tail(w), Encoded) \in Seq(Unit)
  BY <1>1, OfKindsFacts DEF Match
<1>3. q = <<Head(w)>> \o OfKinds(Tail(w), Encoded)
  BY <1>1, <1>2, OfKindsHead
<1>4. q # <<>> /\ Head(q) = Head(w) /\ Tail(q) = OfKinds(Tail(w), Encoded)
  BY <1>1, <1>2, <1>3
<1>5. QED
  BY <1>1, <1>4, MatchParts DEF Match

\* An error at a statement aborts the pipeline; the statement leaves the queue.
LEMMA MatchError ==
  ASSUME NEW w, NEW q, Match(w, q, FALSE), w # <<>>, Head(w).kind \in ExecKinds
  PROVE  Match(Tail(w), Tail(q), TRUE)
<1>1. Head(w).kind # "Torn"
  BY KindFacts
<1>2. Match(Tail(w), Tail(q), FALSE)
  BY <1>1, MatchAnswer
<1>3. Tail(w) \in Seq(Unit) /\ OfKinds(Tail(w), Encoded) = Tail(q)
  BY <1>2 DEF Match
<1>4. Since(Tail(w)) = Since(Tail(q))
  BY <1>3, SinceOfKinds
<1>5. QED
  BY <1>2, <1>4 DEF Match

\* The server skips.
LEMMA MatchSkipWire ==
  ASSUME NEW w, NEW q, Match(w, q, TRUE), w # <<>>, Head(w).kind # "Sync"
  PROVE  Match(Tail(w), q, TRUE)
<1>1. Since(w) = Since(Tail(w))
  BY MatchParts, SinceHead
<1>2. QED
  BY <1>1, MatchParts DEF Match

\* The client passes over.
LEMMA MatchSkipQueue ==
  ASSUME NEW w, NEW q, Match(w, q, TRUE), q # <<>>, Head(q).kind # "Sync"
  PROVE  Match(w, Tail(q), TRUE)
<1>1. Since(q) = Since(Tail(q))
  BY MatchParts, SinceHead
<1>2. QED
  BY <1>1, MatchParts DEF Match

\* At the Sync both meet.
LEMMA MatchReady ==
  ASSUME NEW w, NEW q, Match(w, q, TRUE), w # <<>>, Head(w).kind = "Sync",
         q # <<>>, Head(q).kind = "Sync"
  PROVE  Match(w, q, FALSE)
<1>1. Since(w) = OfKinds(w, Encoded) /\ Since(q) = OfKinds(q, Encoded)
  BY MatchParts, SinceHead
<1>2. OfKinds(w, Encoded) = q
  BY <1>1, MatchParts DEF Match
<1>3. QED
  BY <1>2 DEF Match

\* A queue that expects no Sync expects none on the wire, and the reverse.
LEMMA MatchNoSync ==
  ASSUME NEW w, NEW q, NEW ab, Match(w, q, ab)
  PROVE  NoSync(w) <=> NoSync(q)
<1>1. w \in Seq(Unit) /\ q \in Seq(Unit) /\ (OfKinds(w, Encoded) = q \/ Since(w) = Since(q))
  BY DEF Match
<1>2. Since(w) = Since(q)
  BY <1>1, SinceOfKinds
<1>3. QED
  BY <1>1, <1>2, SinceEmpty

\* What is expected is still to be answered: there is an answer to wait for.
LEMMA MatchNonEmpty ==
  ASSUME NEW w, NEW q, Match(w, q, FALSE), q # <<>>
  PROVE  w # <<>> /\ (Head(w) = Head(q) \/ Head(w).kind = "Torn")
<1>1. w # <<>>
  BY OfKindsFacts DEF Match
<1>2. QED
  BY <1>1, MatchAnswer

\* A Sync that is awaited in an aborted pipeline is on the wire.
LEMMA MatchSyncAhead ==
  ASSUME NEW w, NEW q, NEW ab, Match(w, q, ab), q # <<>>, Head(q).kind = "Sync"
  PROVE  ~NoSync(w)
<1>1. ~NoSync(q)
  BY MatchParts, KindedFacts DEF NoSync
<1>2. QED
  BY <1>1, MatchNoSync

\* A queue with a Sync has one, and the reverse.
LEMMA AnySyncFacts ==
  ASSUME NEW q \in Seq(Unit)
  PROVE  AnySync(q) <=> ~NoSync(q)
<1>1. \A i \in 1..Len(q) : q[i].kind \in Kinds
  <2>1. \A i \in 1..Len(q) : q[i] \in Unit
    OBVIOUS
  <2>2. QED
    BY <2>1 DEF Unit
<1>2. DOMAIN q = 1..Len(q)
  OBVIOUS
<1>3. QED
  BY <1>1, <1>2 DEF AnySync, NoSync, Kinded

\* Putting a unit in front of a queue and taking it off.
LEMMA ConsFacts ==
  ASSUME NEW x \in Unit, NEW q \in Seq(Unit)
  PROVE  /\ <<x>> \o q \in Seq(Unit) /\ <<x>> \o q # <<>>
         /\ Head(<<x>> \o q) = x /\ Tail(<<x>> \o q) = q
         /\ q # <<>> => <<Head(q)>> \o Tail(q) = q
<1>1. /\ <<x>> \o q \in Seq(Unit) /\ <<x>> \o q # <<>>
      /\ Head(<<x>> \o q) = x /\ Tail(<<x>> \o q) = q
  OBVIOUS
<1>2. q # <<>> => <<Head(q)>> \o Tail(q) = q
  OBVIOUS
<1>3. QED
  BY <1>1, <1>2

\* The server reads what was written before what is in the buffer.
LEMMA FrontFacts ==
  ASSUME NEW p \in Seq(Unit), NEW q \in Seq(Unit)
  PROVE  /\ p \o <<>> = p /\ <<>> \o p = p /\ p \o q \in Seq(Unit)
         /\ p # <<>> => Head(p \o q) = Head(p) /\ Tail(p \o q) = Tail(p) \o q
         /\ \A x \in Unit : p \o Append(q, x) = Append(p \o q, x)
  OBVIOUS

\* Nothing expected is left behind a Sync: nothing that came after it, or more that ends in one.
Closed(q) == NoSync(q) \/ EndsInSync(q)

LEMMA ClosedFacts ==
  ASSUME NEW q \in Seq(Unit), Closed(q), q # <<>>
  PROVE  Closed(Tail(q))
<1>1. CASE NoSync(q)
  BY <1>1, KindedFacts DEF NoSync, Closed
<1>2. CASE EndsInSync(q)
  <2>1. Tail(q) = <<>> => NoSync(Tail(q))
    BY KindedFacts DEF NoSync
  <2>2. QED
    BY <1>2, <2>1, EndsFacts DEF Closed
<1>3. QED
  BY <1>1, <1>2 DEF Closed

\* What the server answers to the units of a pipeline: a statement ends with its
\* CommandComplete or EmptyQueryResponse, a Sync with ReadyForQuery.
LEMMA PipeReply ==
  ASSUME BackendTypeOK, StageFits, NEW m, Reply(m), Head(todo).kind \in WireKinds
  PROVE  /\ todo # <<>> /\ StageFits' /\ alive
         /\ Head(todo).kind \in ExecKinds =>
              /\ m # "ReadyForQuery"
              /\ IF m \in {"CommandComplete", "EmptyQueryResponse"} THEN todo' = Tail(todo)
                 ELSE todo' = todo
         /\ Head(todo).kind = "Torn" => m = "ParseComplete" /\ todo' = todo
         /\ Head(todo).kind = "Sync" => m = "ReadyForQuery" /\ todo' = Tail(todo)
         /\ skipping => Head(todo).kind = "Sync"
         /\ skipping' = (skipping /\ m # "ReadyForQuery") /\ framing' = framing
         /\ at_sync' = (m = "ReadyForQuery")
         /\ m = "ReadyForQuery" => server_tx' = server_tx
<1> DEFINE k == Head(todo).kind
<1>1. k \in WireKinds /\ stage \in KindStages(k) /\ todo # <<>> /\ StageFits'
  BY ReplyFacts DEF StageFits
<1>2. PICK a \in Answers(k, stage) : a.type = m /\ Advance(a.next)
  BY DEF Reply
<1>3. /\ skipping => k = "Sync"
      /\ skipping' = (skipping /\ m # "ReadyForQuery") /\ framing' = framing /\ alive
      /\ at_sync' = (m = "ReadyForQuery")
      /\ m = "ReadyForQuery" => server_tx' = server_tx
  BY DEF Reply, CanAnswer, TxAfter
<1>4. todo' = IF a.next = "done" THEN Tail(todo) ELSE todo
  BY <1>2 DEF Advance
<1>5. /\ k \in ExecKinds =>
           (a.type # "ReadyForQuery"
              /\ (a.next = "done" <=> a.type \in {"CommandComplete", "EmptyQueryResponse"}))
      /\ k = "Torn" => a.type = "ParseComplete" /\ a.next # "done"
      /\ k = "Sync" => a.type = "ReadyForQuery" /\ a.next = "done"
  BY <1>1 DEF Answers, KindStages, AfterParse, AfterBind, Ans, ExecKinds
<1> HIDE DEF k
<1>6. QED
  BY <1>1, <1>2, <1>3, <1>4, <1>5 DEF k

-----------------------------------------------------------------------------
\* There are statements to claim in queue q for the tickets from cs on, up to the
\* first that was not issued.
TicketsFor(q, cs, qs, tl) ==
  \A n \in cs..qs :
    (\A i \in cs..(n - 1) : i \notin tl) => Len(OfKinds(q, ExecKinds)) >= n - cs

\* A new handle issued none.
LEMMA TicketsNone == TicketsFor(<<>>, 0, 0, {})
<1>1. OfKinds(<<>>, ExecKinds) = <<>> /\ Len(<<>>) = 0
  BY OfKindsFacts
<1>2. QED
  BY <1>1 DEF TicketsFor

\* exec adds a statement and issues a ticket, or neither.
LEMMA TicketsExec ==
  ASSUME NEW q \in Seq(Unit), NEW cs \in Nat, NEW qs \in Nat, cs <= qs,
         NEW tl, TicketsFor(q, cs, qs, tl), NEW x \in Unit
  PROVE  /\ x.kind \in ExecKinds => TicketsFor(Append(q, x), cs, qs + 1, tl)
         /\ x.kind \notin ExecKinds => TicketsFor(Append(q, x), cs, qs, tl)
         /\ TicketsFor(q, cs, qs + 1, tl \cup {qs})
<1> DEFINE L(p) == Len(OfKinds(p, ExecKinds))
<1>1. /\ L(q) \in Nat
      /\ x.kind \in ExecKinds => L(Append(q, x)) = L(q) + 1
      /\ x.kind \notin ExecKinds => L(Append(q, x)) = L(q)
  <2>1. OfKinds(q, ExecKinds) \in Seq(Unit)
    BY OfKindsFacts
  <2>2. OfKinds(Append(q, x), ExecKinds) =
          IF x.kind \in ExecKinds THEN Append(OfKinds(q, ExecKinds), x)
          ELSE OfKinds(q, ExecKinds)
    BY OfKindsFacts
  <2>3. Len(Append(OfKinds(q, ExecKinds), x)) = Len(OfKinds(q, ExecKinds)) + 1
    BY <2>1
  <2>4. QED
    BY <2>1, <2>2, <2>3
<1>2. \A n \in cs..qs : (\A i \in cs..(n - 1) : i \notin tl) => L(q) >= n - cs
  BY DEF TicketsFor
<1> HIDE DEF L
<1>3. ASSUME x.kind \in ExecKinds, NEW n \in cs..(qs + 1), \A i \in cs..(n - 1) : i \notin tl
      PROVE  L(Append(q, x)) >= n - cs
  <2>1. CASE n \in cs..qs
    BY <1>1, <1>2, <1>3, <2>1
  <2>2. CASE n \notin cs..qs
    <3>1. n = qs + 1 /\ qs \in cs..qs /\ cs..(qs - 1) \subseteq cs..(n - 1)
      BY <2>2, <1>3
    <3>2. L(q) >= qs - cs
      BY <1>2, <1>3, <3>1
    <3>3. QED
      BY <1>1, <1>3, <3>1, <3>2
  <2>3. QED
    BY <2>1, <2>2
<1>4. ASSUME NEW n \in cs..(qs + 1), \A i \in cs..(n - 1) : i \notin tl \cup {qs}
      PROVE  L(q) >= n - cs
  <2>1. n # qs + 1
    <3>1. qs \in cs..((qs + 1) - 1)
      OBVIOUS
    <3>2. QED
      BY <1>4, <3>1
  <2>2. n \in cs..qs
    BY <1>4, <2>1
  <2>3. QED
    BY <1>2, <1>4, <2>2
<1>5. QED
  BY <1>1, <1>2, <1>3, <1>4 DEF TicketsFor, L

\* The next ticket has a statement; when it is claimed the rest have theirs.
LEMMA TicketsClaim ==
  ASSUME NEW q \in Seq(Unit), NEW cs \in Nat, NEW qs \in Nat, cs < qs, NEW tl, cs \notin tl,
         TicketsFor(q, cs, qs, tl)
  PROVE  /\ OfKinds(q, ExecKinds) # <<>>
         /\ q # <<>> => TicketsFor(Tail(q), cs + 1, qs, tl)
<1>1. \A n \in cs..qs :
        (\A i \in cs..(n - 1) : i \notin tl) => Len(OfKinds(q, ExecKinds)) >= n - cs
  BY DEF TicketsFor
<1>2. OfKinds(q, ExecKinds) # <<>>
  <2>1. cs + 1 \in cs..qs /\ \A i \in cs..((cs + 1) - 1) : i = cs
    OBVIOUS
  <2>2. Len(OfKinds(q, ExecKinds)) >= (cs + 1) - cs
    BY <1>1, <2>1
  <2>3. Len(<<>>) = 0 /\ ~(0 >= (cs + 1) - cs)
    OBVIOUS
  <2>4. QED
    BY <2>2, <2>3, Zenon
<1>3. ASSUME q # <<>>
      PROVE  TicketsFor(Tail(q), cs + 1, qs, tl)
  <2> DEFINE t == OfKinds(Tail(q), ExecKinds)
             o == OfKinds(q, ExecKinds)
  <2>1. t \in Seq(Unit) /\ o \in Seq(Unit)
    BY <1>3, TailFacts, OfKindsFacts
  <2>2. o = t \/ o = <<Head(q)>> \o t
    BY <1>3, OfKindsHead
  <2>3. Head(q) \in Unit
    BY <1>3, TailFacts
  <2> HIDE DEF t, o
  <2>4. Len(t) \in Nat /\ Len(o) <= Len(t) + 1 /\ Len(o) \in Nat
    BY <2>1, <2>2, <2>3
  <2>5. ASSUME NEW n \in (cs + 1)..qs, \A i \in (cs + 1)..(n - 1) : i \notin tl
        PROVE  Len(t) >= n - (cs + 1)
    <3>1. n \in cs..qs /\ \A i \in cs..(n - 1) : i = cs \/ i \in (cs + 1)..(n - 1)
      OBVIOUS
    <3>2. Len(o) >= n - cs
      BY <1>1, <2>5, <3>1 DEF o
    <3>3. QED
      BY <2>4, <2>5, <3>2
  <2>6. QED
    BY <2>5 DEF TicketsFor, t
<1>4. QED
  BY <1>2, <1>3

\* A Sync leaves the queue without a ticket.
LEMMA TicketsSync ==
  ASSUME NEW q \in Seq(Unit), q # <<>>, Head(q).kind \notin ExecKinds, NEW cs, NEW qs, NEW tl,
         TicketsFor(q, cs, qs, tl)
  PROVE  TicketsFor(Tail(q), cs, qs, tl)
<1>1. OfKinds(q, ExecKinds) = OfKinds(Tail(q), ExecKinds)
  BY OfKindsHead
<1>2. QED
  BY <1>1 DEF TicketsFor

\* A queue of Syncs has no statement.
LEMMA OnlySyncs ==
  ASSUME NEW q \in Seq(Unit), Kinded(q, {"Sync"})
  PROVE  OfKinds(q, ExecKinds) = <<>>
<1> DEFINE P == {p \in Seq(Unit) : Kinded(p, {"Sync"}) => OfKinds(p, ExecKinds) = <<>>}
<1>1. <<>> \in P
  BY OfKindsFacts
<1>2. ASSUME NEW p \in P \cap Seq(Unit), NEW x \in Unit
      PROVE  Append(p, x) \in P
  <2>1. Kinded(Append(p, x), {"Sync"}) <=> Kinded(p, {"Sync"}) /\ x.kind = "Sync"
    BY KindedFacts
  <2>2. x.kind = "Sync" => OfKinds(Append(p, x), ExecKinds) = OfKinds(p, ExecKinds)
    BY OfKindsFacts, KindFacts
  <2>3. Append(p, x) \in Seq(Unit)
    OBVIOUS
  <2>4. QED
    BY <2>1, <2>2, <2>3
<1> HIDE DEF P
<1>3. Seq(Unit) \subseteq P
  BY <1>1, <1>2, SeqInduct
<1>4. QED
  BY <1>3 DEF P
=============================================================================
