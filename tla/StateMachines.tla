--------------------------- MODULE StateMachines ---------------------------
(***************************************************************************)
(* The sans-I/O protocol state machines that the connections drive: the    *)
(* simple query machine, the extended query machine, the bind, batch and   *)
(* batch-prepare machines, and the read loops of the low-level calls,      *)
(* which are machines with one waiting state.                              *)
(*                                                                         *)
(* A machine is a function of its state and the type of the message read:  *)
(* its next state, "Finished" when the exchange is over, "Err" when the    *)
(* machine returns the server's error at once, or "LibraryBug" for a       *)
(* message it does not expect.  Payloads are abstracted away.              *)
(***************************************************************************)

Messages == {"ParseComplete", "BindComplete", "ParameterDescription", "RowDescription",
             "NoData", "DataRow", "CommandComplete", "EmptyQueryResponse",
             "PortalSuspended", "CloseComplete", "ReadyForQuery", "CopyInResponse"}

MachineStates == {"none", "WaitingResponse", "WaitingParse", "WaitingDescribe",
                  "WaitingRowDesc", "WaitingBind", "ProcessingRows", "Processing",
                  "WaitingReady", "AwaitBind", "AwaitExecute", "AwaitClose", "AwaitReady"}

Outcomes == {"Finished", "Err", "LibraryBug"}

-----------------------------------------------------------------------------
\* SimpleQueryStateMachine

simple_handle_response(m) ==
  CASE m = "RowDescription"     -> "ProcessingRows"
    [] m = "CommandComplete"    -> "WaitingResponse"
    [] m = "EmptyQueryResponse" -> "WaitingReady"
    [] m = "ReadyForQuery"      -> "Finished"
    [] OTHER                    -> "LibraryBug"

simple_handle_rows(m) ==
  CASE m = "DataRow"         -> "ProcessingRows"
    [] m = "CommandComplete" -> "WaitingResponse"
    [] m = "ReadyForQuery"   -> "Finished"
    [] OTHER                 -> "LibraryBug"

simple_handle_ready(m) == IF m = "ReadyForQuery" THEN "Finished" ELSE "LibraryBug"

simple_step(s, m) ==
  CASE s = "WaitingResponse" -> simple_handle_response(m)
    [] s = "ProcessingRows"  -> simple_handle_rows(m)
    [] s = "WaitingReady"    -> simple_handle_ready(m)
    [] OTHER                 -> "LibraryBug"

-----------------------------------------------------------------------------
\* ExtendedQueryStateMachine, for the operations prepare, execute_sql, execute
\* and close_statement.

extended_handle_parse(o, m) ==
  CASE m = "ParseComplete" /\ o = "exec_sql" -> "WaitingBind"
    [] m = "ParseComplete" /\ o = "prepare"  -> "WaitingDescribe"
    [] OTHER -> "LibraryBug"

extended_handle_describe(m) ==
  IF m = "ParameterDescription" THEN "WaitingRowDesc" ELSE "LibraryBug"

extended_handle_row_desc(m) ==
  IF m \in {"RowDescription", "NoData"} THEN "WaitingReady" ELSE "LibraryBug"

extended_handle_bind(m) ==
  IF m \in {"BindComplete", "RowDescription"} THEN "ProcessingRows" ELSE "LibraryBug"

extended_handle_rows(m) ==
  CASE m \in {"RowDescription", "NoData", "DataRow"} -> "ProcessingRows"
    [] m \in {"CommandComplete", "EmptyQueryResponse", "PortalSuspended"} -> "WaitingReady"
    [] m = "ReadyForQuery" -> "Finished"
    [] OTHER               -> "LibraryBug"

extended_handle_ready(m) ==
  CASE m = "ReadyForQuery" -> "Finished"
    [] m = "CloseComplete" -> "WaitingReady"
    [] OTHER               -> "LibraryBug"

extended_step(o, s, m) ==
  CASE s = "WaitingParse"    -> extended_handle_parse(o, m)
    [] s = "WaitingDescribe" -> extended_handle_describe(m)
    [] s = "WaitingRowDesc"  -> extended_handle_row_desc(m)
    [] s = "WaitingBind"     -> extended_handle_bind(m)
    [] s = "ProcessingRows"  -> extended_handle_rows(m)
    [] s = "WaitingReady"    -> extended_handle_ready(m)
    [] OTHER                 -> "LibraryBug"

-----------------------------------------------------------------------------
\* BindStateMachine: Parse and Bind without Execute or Sync.
bind_step(s, m) ==
  CASE s = "WaitingParse" /\ m = "ParseComplete" -> "WaitingBind"
    [] s = "WaitingBind"  /\ m = "BindComplete"  -> "Finished"
    [] OTHER -> "LibraryBug"

\* BatchStateMachine: one chunk of exec_batch.
batch_step(s, m) ==
  CASE s = "WaitingParse" /\ m = "ParseComplete" -> "Processing"
    [] s = "Processing" /\ m \in {"BindComplete", "NoData", "RowDescription", "DataRow",
                                  "CommandComplete", "EmptyQueryResponse"} -> "Processing"
    [] s = "Processing" /\ m = "ReadyForQuery"   -> "Finished"
    [] OTHER -> "LibraryBug"

\* BatchPrepareStateMachine: several Parse+Describe and one Sync.
batch_prepare_step(s, m) ==
  CASE s = "Processing" /\ m \in {"ParseComplete", "ParameterDescription",
                                  "RowDescription", "NoData"} -> "Processing"
    [] s = "Processing" /\ m = "ReadyForQuery" -> "Finished"
    [] OTHER -> "LibraryBug"

-----------------------------------------------------------------------------
\* The read loops of the low-level calls.

lowlevel_bind_step(m) == IF m = "BindComplete" THEN "Finished" ELSE "LibraryBug"

lowlevel_execute_step(m) ==
  CASE m \in {"RowDescription", "NoData", "DataRow"}   -> "AwaitExecute"
    [] m \in {"CommandComplete", "PortalSuspended"}    -> "Finished"
    [] OTHER -> "LibraryBug"

lowlevel_close_step(m) == IF m = "CloseComplete" THEN "Finished" ELSE "LibraryBug"

\* lowlevel_sync ignores whatever precedes ReadyForQuery.
lowlevel_sync_step(m) == IF m = "ReadyForQuery" THEN "Finished" ELSE "AwaitReady"

-----------------------------------------------------------------------------
\* The calls that drive a machine.  portal_* are the exchanges of exec_portal.
BindOps    == {"named_portal_sql", "named_portal_prepared",
               "portal_bind_sql", "portal_bind_prepared"}
DriveOps   == {"query", "prepare", "exec_sql", "exec_prepared", "close_statement"}
BatchOps   == {"exec_batch_sql", "exec_batch_prepared"}
ExecuteOps == {"lowlevel_execute", "portal_exec"}
SyncOps    == {"lowlevel_sync", "portal_sync"}
ReadOps    == BindOps \cup DriveOps \cup BatchOps \cup ExecuteOps \cup SyncOps
                \cup {"prepare_batch", "lowlevel_bind", "lowlevel_close_portal"}

\* The calls whose exchange ends at ReadyForQuery.
ReadyOps == DriveOps \cup BatchOps \cup SyncOps \cup {"prepare_batch"}

\* The state in which each machine waits for the first message.
InitialState(o) ==
  CASE o = "query" -> "WaitingResponse"
    [] o \in {"prepare", "exec_sql", "exec_batch_sql",
              "named_portal_sql", "portal_bind_sql"} -> "WaitingParse"
    [] o \in {"exec_prepared", "named_portal_prepared", "portal_bind_prepared"} -> "WaitingBind"
    [] o = "close_statement" -> "WaitingReady"
    [] o \in {"exec_batch_prepared", "prepare_batch"} -> "Processing"
    [] o = "lowlevel_bind" -> "AwaitBind"
    [] o \in ExecuteOps    -> "AwaitExecute"
    [] o = "lowlevel_close_portal" -> "AwaitClose"
    [] OTHER -> "AwaitReady"

\* One message that is neither asynchronous nor an error.
MachineStep(o, s, m) ==
  CASE o = "query"         -> simple_step(s, m)
    [] o \in DriveOps \ {"query"} -> extended_step(o, s, m)
    [] o \in BindOps       -> bind_step(s, m)
    [] o \in BatchOps      -> batch_step(s, m)
    [] o = "prepare_batch" -> batch_prepare_step(s, m)
    [] o = "lowlevel_bind" -> lowlevel_bind_step(m)
    [] o \in ExecuteOps    -> lowlevel_execute_step(m)
    [] o = "lowlevel_close_portal" -> lowlevel_close_step(m)
    [] OTHER -> lowlevel_sync_step(m)

\* ErrorResponse: the machines of drive and drive_batch and the low-level Sync
\* keep the error and read on to ReadyForQuery; the others return it at once.
MachineError(o) ==
  CASE o \in DriveOps -> "WaitingReady"
    [] o \in BatchOps -> "Processing"
    [] o \in SyncOps  -> "AwaitReady"
    [] OTHER          -> "Err"

\* An asynchronous message leaves every machine in its state.
MachineAsync(s) == s

\* The messages on which the caller's handler runs (result_start, row, result_end).
\* prepare, close_statement and the batches use no caller-supplied handler.
CallsHandler(o, m) ==
  /\ o \in {"query", "exec_sql", "exec_prepared"} \cup ExecuteOps
  /\ m \in {"RowDescription", "DataRow", "CommandComplete"}
=============================================================================
