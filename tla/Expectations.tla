---------------------------- MODULE Expectations ----------------------------
(***************************************************************************)
(* What the blocking and the asynchronous pipeline have in common: the     *)
(* queue of expected answers, and how a claim reads one of them.           *)
(***************************************************************************)
EXTENDS Calls

\* The call orders that the code permits and does not survive.  exec_behind_sync: exec()
\* on an aborted pipeline while the oldest expectation is a Sync (a sync() after the last
\* claim was refused).  flush_behind_sync: flush() of statements queued after a sync()
\* whose ReadyForQuery is still to be read.
UsageKinds == {"exec_behind_sync", "flush_behind_sync"}

ExecKinds == {"ParseBindExecute", "BindExecute"}

SyncInFront(q) == q # <<>> /\ Head(q).kind = "Sync"

AnySync(q) == \E i \in DOMAIN q : q[i].kind = "Sync"

\* pop_front, on an empty queue too.
PopFront(q) == IF q = <<>> THEN <<>> ELSE Tail(q)

\* claim_parse_bind_exec_inner, claim_bind_exec_inner and the row loops.
claim_step(k, s, m) ==
  CASE s = "WaitingParse" /\ m = "ParseComplete" -> "WaitingBind"
    [] s = "WaitingBind" /\ m = "BindComplete" ->
         IF k = "BindExecute" THEN "RowsCached" ELSE "WaitingDesc"
    [] s = "WaitingDesc" /\ m = "RowDescription" -> "Rows"
    [] s = "WaitingDesc" /\ m = "NoData" -> "NoRows"
    [] s \in {"Rows", "RowsCached"} /\ m = "DataRow" -> s
    [] s \in {"Rows", "RowsCached", "NoRows"}
         /\ m \in {"CommandComplete", "EmptyQueryResponse"} -> "Done"
    [] OTHER -> "LibraryBug"

\* Where a claim of a unit of kind k begins.
claim_start(k) == IF k = "BindExecute" THEN "WaitingBind" ELSE "WaitingParse"

ClaimStates == {"none", "WaitingParse", "WaitingBind", "WaitingDesc", "Rows", "RowsCached",
                "NoRows"}
=============================================================================
