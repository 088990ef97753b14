------------------------------ MODULE Backend ------------------------------
(***************************************************************************)
(* The PostgreSQL server at the other end of the socket, as the client     *)
(* code relies on it.  It is external to the repository: its behaviour is  *)
(* taken from the messages the client accepts in each of its states, from  *)
(* the controlled peer of the cancellation tests, and from the protocol    *)
(* description kept in the repository.                                     *)
(*                                                                         *)
(* The client writes requests in UNITS, the groups of frontend messages it *)
(* always writes together (Parse+Bind+Describe+Execute, Bind+Execute,      *)
(* Sync, ...).  todo holds the units written and not fully answered,       *)
(* oldest first, and stage says what the server owes next for its head.    *)
(* An answer is produced when the client reads it: the socket is FIFO, so  *)
(* the client cannot tell the difference.  Each write of the client ends   *)
(* with Flush, Sync or Query, so every answer is eventually sent and Flush *)
(* needs no unit of its own.  "Torn" is a statement whose parameters       *)
(* failed to encode, perhaps after its Parse: the length field of its Bind *)
(* is still 0, and the server hangs up on it.                              *)
(***************************************************************************)
EXTENDS Naturals, Sequences, FiniteSets

CONSTANT Requests  \* identities of the calls that write units

ASSUME RequestsAssumption == Requests # {}

VARIABLES
  todo,       \* units written by the client and not fully answered
  stage,      \* what the server owes next for Head(todo)
  skipping,   \* an extended-protocol error occurred: ignore all up to Sync
  server_tx,  \* the server's transaction status: "I", "T" or "E"
  at_sync,    \* the last answer was ReadyForQuery
  alive,      \* the server still serves this connection
  framing     \* "torn" once a message was cut short in either direction

backend == <<todo, stage, skipping, server_tx, at_sync, alive, framing>>

Kinds == {"Query", "Prepare", "Parse", "ParseBind", "Bind", "ParseBindExecute",
          "BindDescribeExecute", "BindExecute", "DescribeExecute", "Close", "Sync", "Torn"}

Stages == {"none", "parse", "bind", "param", "stmtdesc", "desc", "rows", "norows",
           "close", "sync", "ready", "query", "qmore", "qrows", "qready", "qcopy",
           "torn", "broken"}

TxStatus == {"I", "T", "E"}

Unit == [kind : Kinds, req : Requests]

\* Answers that end an exchange come from these units only.
ReadyKinds == {"Query", "Sync"}

-----------------------------------------------------------------------------
\* What the server owes first for a unit of kind k.
FirstStage(k) ==
  CASE k \in {"Prepare", "Parse", "ParseBind", "ParseBindExecute"} -> "parse"
    [] k \in {"Bind", "BindDescribeExecute", "BindExecute"} -> "bind"
    [] k = "DescribeExecute" -> "desc"
    [] k = "Close" -> "close"
    [] k = "Sync"  -> "sync"
    [] k = "Torn"  -> "torn"
    [] OTHER       -> "query"

\* The stages that may follow ParseComplete and BindComplete; "done" ends the unit.
AfterParse(k) ==
  CASE k = "Parse"   -> "done"
    [] k = "Prepare" -> "param"
    [] OTHER         -> "bind"

AfterBind(k) ==
  CASE k \in {"Bind", "ParseBind"} -> {"done"}
    [] k = "BindExecute" -> {"rows", "norows"}
    [] OTHER             -> {"desc"}

Ans(type, next) == [type |-> type, next |-> next]

(***************************************************************************)
(* The answers, other than errors, that the server may give next for a     *)
(* unit of kind k at stage s.  Result sets are chosen freely: any number   *)
(* of rows, statements without a result, and empty query strings.          *)
(***************************************************************************)
Answers(k, s) ==
  CASE s = "parse"    -> {Ans("ParseComplete", AfterParse(k))}
    [] s = "bind"     -> {Ans("BindComplete", t) : t \in AfterBind(k)}
    [] s = "param"    -> {Ans("ParameterDescription", "stmtdesc")}
    [] s = "stmtdesc" -> {Ans("RowDescription", "done"), Ans("NoData", "done")}
    [] s = "desc"     -> {Ans("RowDescription", "rows"), Ans("NoData", "norows")}
    [] s = "rows"     -> {Ans("DataRow", "rows"), Ans("CommandComplete", "done")}
                           \cup (IF k = "DescribeExecute"
                                 THEN {Ans("PortalSuspended", "done")} ELSE {})
    [] s = "norows"   -> {Ans("CommandComplete", "done"), Ans("EmptyQueryResponse", "done")}
    [] s = "close"    -> {Ans("CloseComplete", "done")}
    [] s \in {"sync", "ready", "qready"} -> {Ans("ReadyForQuery", "done")}
    [] s = "query"    -> {Ans("RowDescription", "qrows"), Ans("CommandComplete", "qmore"),
                          Ans("EmptyQueryResponse", "qready"), Ans("CopyInResponse", "qcopy")}
    [] s = "qmore"    -> {Ans("RowDescription", "qrows"), Ans("CommandComplete", "qmore"),
                          Ans("ReadyForQuery", "done")}
    [] s = "qrows"    -> {Ans("DataRow", "qrows"), Ans("CommandComplete", "qmore")}
    [] s = "torn"     -> {Ans("ParseComplete", "broken")}
    [] OTHER          -> {}

\* The transaction statuses possible after an answer: a command may open, close
\* or recover a transaction block; nothing else changes it.
TxAfter(m, tx) ==
  IF m # "CommandComplete" THEN {tx}
  ELSE CASE tx = "I" -> {"I", "T"}
         [] tx = "T" -> {"T", "I"}
         [] OTHER    -> {"E", "T", "I"}

\* An error inside a block fails it, or ends it when COMMIT itself failed.
TxAfterError(tx) == IF tx = "T" THEN {"E", "I"} ELSE {tx}

-----------------------------------------------------------------------------
BackendInit ==
  /\ todo = <<>> /\ stage = "none" /\ skipping = FALSE
  /\ server_tx = "I" /\ at_sync = TRUE /\ alive = TRUE /\ framing = "whole"

StageOf(units) == IF units = <<>> THEN "none" ELSE FirstStage(Head(units).kind)

\* The client's bytes reach the server's input.
Deliver(units) ==
  /\ todo' = todo \o units
  /\ stage' = IF todo = <<>> THEN StageOf(units) ELSE stage
  /\ UNCHANGED <<skipping, server_tx, at_sync, alive>>

\* The server can answer: while skipping it only answers Sync.
CanAnswer ==
  /\ alive
  /\ todo # <<>>
  /\ skipping => Head(todo).kind = "Sync"

Advance(next) ==
  IF next = "done"
  THEN todo' = Tail(todo) /\ stage' = StageOf(Tail(todo))
  ELSE todo' = todo /\ stage' = next

\* One answer of type m, not an error.
Reply(m) ==
  /\ CanAnswer
  /\ \E a \in Answers(Head(todo).kind, stage) : a.type = m /\ Advance(a.next)
  /\ skipping' = (skipping /\ m # "ReadyForQuery")
  /\ server_tx' \in TxAfter(m, server_tx)
  /\ at_sync' = (m = "ReadyForQuery")
  /\ UNCHANGED <<alive, framing>>

\* ErrorResponse of severity ERROR.  A simple query ends with ReadyForQuery, as
\* does a failed commit at Sync; any other unit makes the server skip to Sync.
ReplyError ==
  /\ CanAnswer
  /\ ~skipping
  /\ stage \notin {"ready", "qready", "qcopy", "torn", "broken"}
  /\ CASE Head(todo).kind = "Query" -> /\ todo' = todo /\ stage' = "qready"
                                       /\ skipping' = FALSE
       [] Head(todo).kind = "Sync"  -> /\ todo' = todo /\ stage' = "ready"
                                       /\ skipping' = FALSE
       [] OTHER -> /\ todo' = Tail(todo) /\ stage' = StageOf(Tail(todo))
                   /\ skipping' = TRUE
  /\ server_tx' \in TxAfterError(server_tx)
  /\ at_sync' = FALSE
  /\ UNCHANGED <<alive, framing>>

\* ErrorResponse of severity FATAL or PANIC, after which the server hangs up.
ReplyFatal ==
  /\ alive
  /\ alive' = FALSE
  /\ at_sync' = FALSE
  /\ UNCHANGED <<todo, stage, skipping, server_tx, framing>>

\* NoticeResponse, NotificationResponse or ParameterStatus: sent at any moment.
ReplyAsync == alive /\ UNCHANGED backend

-----------------------------------------------------------------------------
\* While skipping, the server silently drops what precedes the next Sync.
ServerDiscard ==
  /\ alive /\ skipping
  /\ todo # <<>> /\ Head(todo).kind \notin {"Sync", "Torn"}
  /\ todo' = Tail(todo) /\ stage' = StageOf(Tail(todo))
  /\ UNCHANGED <<skipping, server_tx, at_sync, alive, framing>>

\* The server process or the network goes away without a word.
PeerDies ==
  /\ alive
  /\ alive' = FALSE
  /\ UNCHANGED <<todo, stage, skipping, server_tx, at_sync, framing>>

BackendTypeOK ==
  /\ todo \in Seq(Unit)
  /\ stage \in Stages
  /\ skipping \in BOOLEAN
  /\ server_tx \in TxStatus
  /\ at_sync \in BOOLEAN
  /\ alive \in BOOLEAN
  /\ framing \in {"whole", "torn"}

\* Nothing is owed in either direction: the next bytes written start a fresh request.
Drained == todo = <<>> /\ ~skipping /\ framing = "whole"
=============================================================================
