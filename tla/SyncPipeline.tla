---------------------------- MODULE SyncPipeline ----------------------------
(***************************************************************************)
(* The blocking pipeline (sync::pipeline::Pipeline) on the connection of   *)
(* module SyncConn, whose calls may come before and after it.              *)
(*                                                                         *)
(* Nothing can be abandoned here, but little is recorded: a handle takes   *)
(* any connection over, only sync() and a claim's own answer mark it       *)
(* broken, and cleanup ignores every error it meets.  The ghost astray     *)
(* says that the handle lost its place in the server's answers without     *)
(* leaving a mark.  Tickets are used with the handle that issued them, in  *)
(* order; a claim out of order is rejected without effect.                 *)
(***************************************************************************)
EXTENDS SyncConn, Expectations

CONSTANTS
  MaxQueue,  \* bound: statements queued on one handle, and expectations a sync may add to
  Usage      \* the unusual call orders the caller may use, see UsageKinds

ASSUME PipelineAssumption == MaxQueue \in Nat \ {0} /\ Usage \subseteq UsageKinds

VARIABLES
  queue_seq, claim_seq, aborted,
  ticketless,    \* sequence numbers that exec consumed without issuing a ticket
  expectations,  \* expected answers, oldest first
  write_buffer,  \* units encoded and not written
  pc,            \* none, ready, claim, syncs, drain, drain_read
  cur,           \* the expectation being read
  cstate,        \* where a claim is within it
  astray         \* ghost, see above

handle == <<queue_seq, ticketless, claim_seq, aborted, expectations, write_buffer, pc, cur,
            cstate, astray>>
spvars == <<syncvars, handle>>

\* What no operation of the handle touches.
UnusedByHandle ==
  UNCHANGED <<op, req, state, pending_error, chunks, carry, early>>

NothingQueued ==
  /\ queue_seq' = 0 /\ ticketless' = {} /\ claim_seq' = 0 /\ aborted' = FALSE
  /\ expectations' = <<>>

\* No answer is being read.
At(p) == pc' = p /\ cur' = U("Sync", req) /\ cstate' = "none"

Ready == At("ready")

-----------------------------------------------------------------------------
\* The connection was in step before the handle and nothing was lost since.
OnCourse == InStep /\ ~astray

\* A handle takes over any connection and queues on any: bounded to those on course.
new_inner(r) ==
  /\ at = "idle" /\ pc = "none"
  /\ OnCourse
  /\ at' = "pipe" /\ req' = r
  /\ NothingQueued /\ write_buffer' = <<>>
  /\ pc' = "ready" /\ cur' = U("Sync", r) /\ cstate' = "none"
  /\ UNCHANGED <<backend, is_broken, transaction_status, op, state, pending_error, chunks,
                 carry, early, astray>>

\* exec: take a number, then encode.  Parameters that do not encode leave a torn
\* Bind in the buffer and issue no ticket.
exec_queue(u) ==
  /\ pc = "ready"
  /\ OnCourse
  /\ queue_seq < MaxQueue /\ Len(write_buffer) <= MaxQueue
  /\ aborted /\ SyncInFront(expectations) => "exec_behind_sync" \in Usage
  /\ \A q \in {todo, write_buffer, expectations} : \A i \in DOMAIN q : q[i].req # u.req
  /\ queue_seq' = queue_seq + 1
  /\ \/ /\ write_buffer' = Append(write_buffer, u)
        /\ expectations' = Append(expectations, u)
        /\ ticketless' = ticketless
     \/ /\ write_buffer' = Append(write_buffer, U("Torn", u.req))
        /\ expectations' = expectations
        /\ ticketless' = ticketless \cup {queue_seq}
  /\ UNCHANGED <<backend, is_broken, transaction_status, at, claim_seq, aborted, pc, cur,
                 cstate, astray>>
  /\ UnusedByHandle

\* A write fails; what still reached the peer, which is gone, makes no difference.
WriteFails ==
  /\ ~alive /\ framing' = "torn"
  /\ UNCHANGED <<todo, stage, skipping, server_tx, at_sync, alive>>

\* flush: a failure is returned and not recorded; the buffer stays.
flush ==
  /\ pc = "ready" /\ OnCourse /\ write_buffer # <<>>
  /\ AnySync(expectations) => "flush_behind_sync" \in Usage
  /\ \/ Deliver(write_buffer) /\ UNCHANGED <<framing, astray>> /\ write_buffer' = <<>>
     \/ WriteFails /\ astray' = TRUE /\ UNCHANGED write_buffer
  /\ UNCHANGED <<is_broken, transaction_status, at, queue_seq, ticketless, claim_seq,
                 aborted, expectations, pc, cur, cstate>>
  /\ UnusedByHandle

WithSync(q) == Append(q, U("Sync", req))

\* sync_inner: the Sync is expected before it is written, and stays in the buffer
\* when the write fails (at most MaxQueue + 1 units: bound).
SyncWritten == Deliver(WithSync(write_buffer)) /\ write_buffer' = <<>> /\ UNCHANGED framing

SyncFails ==
  /\ Len(write_buffer) <= MaxQueue
  /\ WriteFails
  /\ write_buffer' = WithSync(write_buffer)
  /\ is_broken' = TRUE

sync ==
  /\ pc = "ready" /\ OnCourse /\ Len(expectations) <= MaxQueue
  /\ expectations' = WithSync(expectations)
  /\ \/ SyncWritten /\ UNCHANGED is_broken
     \/ SyncFails
  /\ UNCHANGED <<transaction_status, at, queue_seq, ticketless, claim_seq, aborted, pc, cur,
                 cstate, astray>>
  /\ UnusedByHandle

-----------------------------------------------------------------------------
\* Mutant: the Sync whose ReadyForQuery is read stays in the queue.
PendingSyncsKept(q) ==
  IF SyncInFront(q) /\ pc # "syncs"
  THEN expectations' = q /\ pc' = "syncs" /\ cur' = Head(q) /\ cstate' = "none"
  ELSE expectations' = q /\ Ready

\* consume_pending_syncs from queue q on: read the ReadyForQuery of a Sync at its
\* front, or return.
PendingSyncs(q) ==
  IF SyncInFront(q)
  THEN /\ expectations' = Tail(q)
       /\ pc' = "syncs" /\ cur' = Head(q) /\ cstate' = "none"
  ELSE expectations' = q /\ Ready

\* The claim after its auto-sync, from queue q on: report an aborted statement, or
\* read its answer.  A Sync, or nothing, at the front is a LibraryBug.
ClaimFront(q) ==
  IF ~aborted /\ q # <<>> /\ Head(q).kind \in ExecKinds
  THEN /\ cur' = Head(q) /\ expectations' = Tail(q)
       /\ pc' = "claim" /\ cstate' = claim_start(Head(q).kind)
       /\ UNCHANGED <<is_broken, aborted, claim_seq>>
  ELSE /\ is_broken' = (is_broken \/ ~aborted) /\ aborted' = TRUE
       /\ claim_seq' = claim_seq + 1
       /\ PendingSyncs(PopFront(q))

\* A ticket with the number that is next to be claimed was issued.
check_sequence == claim_seq < queue_seq /\ claim_seq \notin ticketless

\* Mutant: never.
NoAutoSync == FALSE

\* A claim first sends what is still in the buffer.
AutoSync == write_buffer # <<>>

claim_with_handler ==
  /\ pc = "ready"
  /\ check_sequence
  /\ \/ /\ ~AutoSync
        /\ ClaimFront(expectations)
        /\ UNCHANGED <<backend, write_buffer>>
     \/ /\ AutoSync /\ SyncWritten
        /\ ClaimFront(WithSync(expectations))
     \/ /\ AutoSync /\ SyncFails
        /\ expectations' = WithSync(expectations)
        /\ UNCHANGED <<claim_seq, aborted, pc, cur, cstate>>
  /\ UNCHANGED <<transaction_status, at, queue_seq, ticketless, astray>>
  /\ UnusedByHandle

-----------------------------------------------------------------------------
\* Mutant: the error is returned and not remembered.
ErrorForgotten(e) ==
  /\ is_broken' = (is_broken \/ (e # "Ok" /\ is_connection_broken(e)))
  /\ claim_seq' = claim_seq + 1 /\ aborted' = aborted
  /\ PendingSyncs(expectations)

\* The claim's own answer is over, with or without an error e.
ClaimOver(e) ==
  /\ aborted' = (aborted \/ e # "Ok")
  /\ is_broken' = (is_broken \/ (e # "Ok" /\ is_connection_broken(e)))
  /\ claim_seq' = claim_seq + 1
  /\ PendingSyncs(expectations)

claim_read(m) ==
  /\ pc = "claim"
  /\ Reply(m)
  /\ LET s == claim_step(cur.kind, cstate, m) IN
     \/ s = "Done" /\ ClaimOver("Ok")
     \/ s = "LibraryBug" /\ ClaimOver("LibraryBug")
     \/ /\ s \notin {"Done", "LibraryBug"}
        /\ cstate' = s
        /\ UNCHANGED <<is_broken, aborted, claim_seq, expectations, pc, cur>>
     \/ /\ s # "LibraryBug" /\ m \in {"DataRow", "CommandComplete"}
        /\ \E e \in {"Decode", "LibraryBug"} : ClaimOver(e)
  /\ UNCHANGED <<transaction_status, at, queue_seq, ticketless, write_buffer, astray>>
  /\ UnusedByHandle

\* The server refuses the statement, or goes away.
claim_error ==
  /\ pc = "claim"
  /\ \/ ReplyError /\ ClaimOver("Server")
     \/ ReplyFatal /\ ClaimOver("Fatal")
     \/ ~alive /\ ClaimOver("Io") /\ UNCHANGED backend
  /\ UNCHANGED <<transaction_status, at, queue_seq, ticketless, write_buffer, astray>>
  /\ UnusedByHandle

ReadingSync == pc = "syncs" \/ (pc = "drain_read" /\ cur.kind = "Sync")

\* What ReadyForQuery changes; in cleanup, aborted is reset at the end only.
AtReadyForQuery ==
  /\ transaction_status' = server_tx
  /\ aborted' = (aborted /\ pc # "syncs")

\* consume_ready_for_query: anything that is not an error is passed over.
consume_ready_for_query(m) ==
  /\ ReadingSync
  /\ Reply(m)
  /\ IF m # "ReadyForQuery"
     THEN UNCHANGED <<transaction_status, aborted, expectations, pc, cur, cstate>>
     ELSE /\ AtReadyForQuery
          /\ IF pc = "syncs" THEN PendingSyncs(expectations)
             ELSE At("drain") /\ UNCHANGED expectations
  /\ UNCHANGED <<is_broken, at, queue_seq, ticketless, claim_seq, write_buffer, astray>>
  /\ UnusedByHandle

\* An error ends it before ReadyForQuery.  A claim returns it, cleanup ignores it;
\* neither records it.
consume_ready_for_query_error ==
  /\ ReadingSync
  /\ \/ ReplyError \/ ReplyFatal
     \/ ~alive /\ UNCHANGED backend
  /\ astray' = TRUE
  /\ IF pc = "syncs" THEN Ready ELSE At("drain")
  /\ UNCHANGED <<is_broken, transaction_status, at, queue_seq, ticketless, claim_seq, aborted,
                 expectations, write_buffer>>
  /\ UnusedByHandle

-----------------------------------------------------------------------------
\* Mutant: only to send what is in the buffer.
SyncsBuffered == write_buffer # <<>>

\* cleanup sends a Sync of its own.
CleanupSyncs == write_buffer # <<>> \/ ~AnySync(expectations)

cleanup_inner ==
  /\ pc = "ready"
  /\ queue_seq # 0 \/ expectations # <<>>
  /\ pc' = "drain"
  /\ \/ /\ CleanupSyncs /\ SyncWritten
        /\ expectations' = WithSync(expectations) /\ UNCHANGED is_broken
     \/ /\ CleanupSyncs /\ SyncFails
        /\ expectations' = WithSync(expectations)
     \/ ~CleanupSyncs /\ UNCHANGED <<backend, is_broken, expectations, write_buffer>>
  /\ UNCHANGED <<transaction_status, at, queue_seq, ticketless, claim_seq, aborted, cur,
                 cstate, astray>>
  /\ UnusedByHandle

\* The head of cleanup's loops: pass over a statement of an aborted pipeline, read
\* the next answer, or finish with fresh counters.
drain_next ==
  /\ pc = "drain"
  /\ \/ /\ expectations # <<>> /\ aborted /\ Head(expectations).kind # "Sync"
        /\ expectations' = Tail(expectations)
        /\ UNCHANGED <<queue_seq, ticketless, claim_seq, aborted, pc, cur, cstate>>
     \/ /\ expectations # <<>> /\ (~aborted \/ Head(expectations).kind = "Sync")
        /\ cur' = Head(expectations) /\ expectations' = Tail(expectations)
        /\ pc' = "drain_read"
        /\ cstate' = IF cur'.kind = "Sync" THEN "none" ELSE claim_start(cur'.kind)
        /\ UNCHANGED <<queue_seq, ticketless, claim_seq, aborted>>
     \/ /\ expectations = <<>>
        /\ NothingQueued /\ Ready
  /\ UNCHANGED <<backend, is_broken, transaction_status, at, write_buffer, astray>>
  /\ UnusedByHandle

\* drain_expectation without its ticket: rows of a prepared statement have no
\* description and end the drain of their statement.
drain_step(m) ==
  IF cur.kind = "BindExecute" /\ m = "DataRow" THEN "LibraryBug"
  ELSE claim_step(cur.kind, cstate, m)

drain_read(m) ==
  /\ pc = "drain_read" /\ cur.kind # "Sync"
  /\ Reply(m)
  /\ IF drain_step(m) \in {"Done", "LibraryBug"} THEN At("drain")
     ELSE cstate' = drain_step(m) /\ UNCHANGED <<pc, cur>>
  /\ UNCHANGED <<is_broken, transaction_status, at, queue_seq, ticketless, claim_seq, aborted,
                 expectations, write_buffer, astray>>
  /\ UnusedByHandle

\* A statement nobody claimed failed: cleanup goes on as if it had not, and reads
\* answers to statements that the server skips.
drain_error ==
  /\ pc = "drain_read" /\ cur.kind # "Sync"
  /\ \/ ReplyError /\ astray' = (astray \/ ~SyncInFront(expectations))
     \/ ReplyFatal /\ astray' = TRUE
     \/ ~alive /\ UNCHANGED backend /\ astray' = TRUE
  /\ At("drain")
  /\ UNCHANGED <<is_broken, transaction_status, at, queue_seq, ticketless, claim_seq, aborted,
                 expectations, write_buffer>>
  /\ UnusedByHandle

\* The handle is gone after its cleanup.  One of the lowlevel feature may go without
\* cleanup; it has no destructor.
close_handle ==
  /\ pc = "ready"
  /\ at' = "idle" /\ pc' = "none"
  /\ astray' = (astray \/ queue_seq # 0 \/ expectations # <<>>)
  /\ NothingQueued /\ write_buffer' = <<>>
  /\ UNCHANGED <<backend, is_broken, transaction_status, cur, cstate>>
  /\ UnusedByHandle

-----------------------------------------------------------------------------
SPInit ==
  /\ SyncInit
  /\ queue_seq = 0 /\ ticketless = {} /\ claim_seq = 0 /\ aborted = FALSE
  /\ expectations = <<>> /\ write_buffer = <<>> /\ pc = "none" /\ cur = U("Sync", req)
  /\ cstate = "none" /\ astray = FALSE

SPNext ==
  \/ (OnCourse \/ at # "idle") /\ SyncNext /\ UNCHANGED handle
  \/ \E r \in Requests : Fresh(r) /\ new_inner(r)
  \/ \E r \in Requests, k \in ExecKinds : exec_queue(U(k, r))
  \/ flush \/ sync \/ claim_with_handler \/ cleanup_inner \/ drain_next \/ close_handle
  \/ \E m \in Messages : claim_read(m) \/ consume_ready_for_query(m) \/ drain_read(m)
  \/ claim_error \/ consume_ready_for_query_error \/ drain_error

SPSpec == SPInit /\ [][SPNext]_spvars

-----------------------------------------------------------------------------
SPTypeOK ==
  /\ BackendTypeOK
  /\ is_broken \in BOOLEAN /\ transaction_status \in TxStatus
  /\ at \in {"idle", "read", "chunk", "portal", "closed", "pipe"}
  /\ pc \in {"none", "ready", "claim", "syncs", "drain", "drain_read"}
  /\ at = "pipe" <=> pc # "none"
  /\ queue_seq \in 0..MaxQueue /\ claim_seq \in 0..queue_seq
  /\ ticketless \subseteq 0..MaxQueue /\ aborted \in BOOLEAN
  /\ expectations \in Seq(Unit) /\ write_buffer \in Seq(Unit) /\ cur \in Unit
  /\ cstate \in ClaimStates /\ astray \in BOOLEAN

\* The Syncs among units.
SyncsOf(q) == OfKinds(q, {"Sync"})

Awaited == IF ReadingSync THEN <<cur>> \o expectations ELSE expectations

(***************************************************************************)
(* Whatever is flushed, claimed, refused, aborted or fails to decode, the  *)
(* handle expects as many ReadyForQuery as the server still has to send:   *)
(* no claim swallows one that is not its own and none is left behind.      *)
(***************************************************************************)
SyncsMatch ==
  at = "pipe" /\ OnCourse => Len(SyncsOf(Awaited)) = Len(SyncsOf(todo \o write_buffer))

(***************************************************************************)
(* A claim of a pipeline on course reads the answer to the statement its   *)
(* ticket was issued for, or waits for a server that will hang up on what  *)
(* exec failed to encode.                                                  *)
(***************************************************************************)
SyncClaimReadsOwnAnswer ==
  pc = "claim" /\ OnCourse => todo # <<>> /\ (Head(todo) = cur \/ Head(todo).kind = "Torn")

(***************************************************************************)
(* A claim, or the cleanup, of a pipeline on course does not block for     *)
(* ever on a live server.                                                  *)
(***************************************************************************)
SyncPipeNeverHangs ==
  pc \in {"claim", "syncs", "drain_read"} /\ alive /\ OnCourse =>
    \E i \in DOMAIN todo : skipping => todo[i].kind = "Sync"

(***************************************************************************)
(* A pipeline that stayed on course gives back a drained connection with   *)
(* the server's transaction status.                                        *)
(***************************************************************************)
GivesBackDrained ==
  at = "idle" /\ OnCourse => Drained /\ (at_sync => transaction_status = server_tx)

(***************************************************************************)
(* What the documentation of cleanup says: it drains "any unclaimed        *)
(* tickets", and does not block for ever on a live server.  It does not    *)
(* hold, and no run checks it: see the README.                             *)
(***************************************************************************)
CleanupReturns ==
  pc = "drain_read" /\ alive /\ InStep =>
    \E i \in DOMAIN todo : skipping => todo[i].kind = "Sync"

(***************************************************************************)
(* What the documentation of Conn::pipeline says: cleanup ensures that     *)
(* "the connection is left in a valid state even if the closure fails".    *)
(* It does not hold, and no run checks it: see the README.                 *)
(***************************************************************************)
LeftValid ==
  [][pc = "drain" /\ pc' = "ready" /\ alive /\ InStep => Drained']_spvars
=============================================================================
