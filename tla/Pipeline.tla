------------------------------ MODULE Pipeline ------------------------------
(***************************************************************************)
(* The asynchronous pipeline (tokio::pipeline::Pipeline) on top of the     *)
(* connection: statements queue in the write buffer, flush and sync send   *)
(* them, claims read their answers in order, cleanup drains the rest.      *)
(*                                                                         *)
(* As in Conn the code between two awaits is one step.  pc says what the   *)
(* handle's current future waits for.  A future of the handle (claim,      *)
(* sync, ...) can be dropped while the handle lives, and the handle itself *)
(* can be dropped (its destructor runs) or forgotten (it does not);        *)
(* dropping the future of Conn::pipeline is one after the other.  Tickets  *)
(* are used with the handle that issued them and before the cleanup that   *)
(* discards them; a claim out of order is rejected without effect and is   *)
(* not an action.                                                          *)
(***************************************************************************)
EXTENDS Conn, Expectations

CONSTANTS
  MaxQueue,  \* bound: statements queued on one handle, and expectations a sync may add to
  Usage      \* the unusual call orders the caller may use, see UsageKinds

ASSUME PipelineAssumption == MaxQueue \in Nat \ {0} /\ Usage \subseteq UsageKinds

VARIABLES
  queue_seq, claim_seq, aborted,
  ticketless,    \* sequence numbers that exec consumed without issuing a ticket
  expectations,  \* expected answers: queued units and Syncs, oldest first
  pc,            \* none, ready, write, claim, syncs, drain, drain_read
  then,          \* whose write it is: flush, sync, or the sync of claim or cleanup
  cur,           \* the expectation being read
  cstate         \* where claim is within it

issued == <<queue_seq, ticketless>>
pipe == <<issued, claim_seq, aborted, expectations, pc, then, cur, cstate>>
pvars == <<vars, pipe>>

\* The fields of Conn no pipeline operation touches.
UnusedByPipeline == UNCHANGED <<op, req, state, pending_error, chunks, carry, failed, result>>

NoUnit == U("Sync", req)

-----------------------------------------------------------------------------
\* Mutant: a fresh handle takes over whatever state the connection is in.
TakeOver == is_broken' = is_broken /\ write_buffer' = <<>>

\* A fresh handle condemns an unusable connection for good.
Condemn ==
  IF ensure_usable THEN is_broken' = is_broken /\ write_buffer' = <<>>
  ELSE is_broken' = TRUE /\ write_buffer' = write_buffer

new_inner(r) ==
  /\ at = "idle" /\ pc = "none"
  /\ Condemn
  /\ at' = "pipe" /\ req' = r
  /\ queue_seq' = 0 /\ ticketless' = {} /\ claim_seq' = 0 /\ aborted' = FALSE /\ expectations' = <<>>
  /\ pc' = "ready" /\ then' = "none" /\ cur' = U("Sync", r) /\ cstate' = "none"
  /\ UNCHANGED <<backend, exchange_in_progress, scope_pending, transaction_status,
                 op, state, pending_error, chunks, carry, failed, result>>

\* exec: take a sequence number, then encode the statement and expect its answer.
\* When its parameters do not encode, exec leaves a torn Bind in the write buffer
\* and issues no ticket.  u is a unit no queue or buffer holds.
exec_queue(u) ==
  /\ pc = "ready"
  /\ ExchangeReady
  /\ queue_seq < MaxQueue
  /\ aborted /\ SyncInFront(expectations) => "exec_behind_sync" \in Usage
  /\ \A q \in {todo, write_buffer, expectations} : \A i \in DOMAIN q : q[i].req # u.req
  /\ queue_seq' = queue_seq + 1
  /\ \/ /\ write_buffer' = Append(write_buffer, u)
        /\ expectations' = Append(expectations, u)
        /\ ticketless' = ticketless
     \/ /\ write_buffer' = Append(write_buffer, U("Torn", u.req))
        /\ expectations' = expectations
        /\ ticketless' = ticketless \cup {queue_seq}
  /\ UNCHANGED <<backend, flags, transaction_status, at, claim_seq, aborted, pc, then, cur, cstate>>
  /\ UnusedByPipeline

\* flush: nothing to do with an empty buffer.
flush ==
  /\ pc = "ready"
  /\ ExchangeReady
  /\ write_buffer # <<>>
  /\ AnySync(expectations) => "flush_behind_sync" \in Usage
  /\ exchange_in_progress' = TRUE /\ scope_pending' = TRUE
  /\ pc' = "write" /\ then' = "flush"
  /\ UNCHANGED <<backend, is_broken, transaction_status, write_buffer, at,
                 issued, claim_seq, aborted, expectations, cur, cstate>>
  /\ UnusedByPipeline

\* sync_inner up to its write, for a caller that continues with k.
sync_inner(k) ==
  /\ ExchangeReady
  /\ exchange_in_progress' = TRUE /\ scope_pending' = TRUE
  /\ write_buffer' = Append(write_buffer, U("Sync", req))
  /\ expectations' = Append(expectations, U("Sync", req))
  /\ pc' = "write" /\ then' = k
  /\ UNCHANGED <<is_broken, claim_seq, aborted, cur, cstate, issued>>

sync ==
  /\ pc = "ready"
  /\ Len(expectations) <= MaxQueue
  /\ sync_inner("sync")
  /\ UNCHANGED <<backend, transaction_status, at>>
  /\ UnusedByPipeline

-----------------------------------------------------------------------------
\* The future ends.  Without finish_exchange the exchange stays in progress.
Ready == pc' = "ready" /\ then' = "none" /\ cur' = NoUnit /\ cstate' = "none"

\* Mutant: the Sync whose ReadyForQuery is read stays in the queue.
PendingSyncsKept(q) ==
  /\ expectations' = q
  /\ IF SyncInFront(q) /\ pc # "syncs"
     THEN /\ pc' = "syncs" /\ cur' = Head(q) /\ then' = "none" /\ cstate' = "none"
          /\ exchange_in_progress' = TRUE
     ELSE exchange_in_progress' = FALSE /\ Ready

\* consume_pending_syncs from queue q on: read the ReadyForQuery of a Sync at its
\* front, or finish the exchange.
PendingSyncs(q) ==
  IF SyncInFront(q)
  THEN /\ expectations' = Tail(q)
       /\ pc' = "syncs" /\ cur' = Head(q) /\ then' = "none" /\ cstate' = "none"
       /\ exchange_in_progress' = TRUE
  ELSE /\ expectations' = q
       /\ exchange_in_progress' = FALSE
       /\ Ready

\* The claim after its auto-sync: report an aborted statement, or read its answer.
\* A Sync, or nothing, at the front is a LibraryBug; the exchange stays open.
ClaimFront ==
  /\ UNCHANGED <<is_broken, scope_pending, aborted, issued>>
  /\ IF aborted
     THEN claim_seq' = claim_seq + 1
          /\ PendingSyncs(PopFront(expectations))
     ELSE /\ exchange_in_progress' = TRUE /\ claim_seq' = claim_seq
          /\ expectations' = PopFront(expectations)
          /\ IF expectations # <<>> /\ Head(expectations).kind \in ExecKinds
             THEN /\ cur' = Head(expectations) /\ pc' = "claim" /\ then' = "none"
                  /\ cstate' = claim_start(cur'.kind)
             ELSE Ready

\* A ticket with the number that is next to be claimed was issued.
check_sequence == claim_seq < queue_seq /\ claim_seq \notin ticketless

\* Mutant: never.
NoAutoSync == FALSE

\* A claim first sends what is still in the buffer.
AutoSync == write_buffer # <<>>

claim_with_handler ==
  /\ pc = "ready"
  /\ ExchangeReady
  /\ check_sequence
  /\ IF AutoSync THEN sync_inner("claim") ELSE ClaimFront /\ UNCHANGED write_buffer
  /\ UNCHANGED <<backend, transaction_status, at>>
  /\ UnusedByPipeline

-----------------------------------------------------------------------------
\* Mutant: only to send what is in the buffer.
SyncsBuffered == write_buffer # <<>>

\* cleanup sends a Sync of its own.
CleanupSyncs == write_buffer # <<>> \/ ~AnySync(expectations)

\* cleanup: nothing was sent, or send what is missing, or start to drain.
cleanup_inner ==
  /\ pc = "ready"
  /\ ExchangeReady
  /\ \/ /\ expectations = <<>> /\ ~scope_pending
        /\ write_buffer' = <<>>
        /\ UNCHANGED <<flags, pipe>>
     \/ /\ expectations # <<>> \/ scope_pending
        /\ CleanupSyncs
        /\ sync_inner("cleanup")
     \/ /\ expectations # <<>> \/ scope_pending
        /\ ~CleanupSyncs
        /\ exchange_in_progress' = TRUE
        /\ pc' = "drain"
        /\ UNCHANGED <<is_broken, scope_pending, write_buffer, issued, claim_seq, aborted,
                       expectations, then, cur, cstate>>
  /\ UNCHANGED <<backend, transaction_status, at>>
  /\ UnusedByPipeline

\* The head of cleanup's loop: skip what the server skipped, read the next answer,
\* or finish with fresh counters.
drain_next ==
  /\ pc = "drain"
  /\ \/ /\ expectations # <<>> /\ aborted /\ Head(expectations).kind # "Sync"
        /\ expectations' = Tail(expectations)
        /\ UNCHANGED <<exchange_in_progress, issued, claim_seq, aborted, pc, then, cur, cstate>>
     \/ /\ expectations # <<>> /\ (~aborted \/ Head(expectations).kind = "Sync")
        /\ cur' = Head(expectations) /\ expectations' = Tail(expectations)
        /\ pc' = "drain_read"
        /\ UNCHANGED <<exchange_in_progress, issued, claim_seq, aborted, then, cstate>>
     \/ /\ expectations = <<>>
        /\ queue_seq' = 0 /\ ticketless' = {} /\ claim_seq' = 0 /\ aborted' = FALSE
        /\ exchange_in_progress' = FALSE
        /\ UNCHANGED expectations
        /\ Ready
  /\ UNCHANGED <<backend, is_broken, scope_pending, transaction_status, write_buffer, at>>
  /\ UnusedByPipeline

-----------------------------------------------------------------------------
\* The write of flush or sync completes; the caller of sync goes on.
PipeWrite ==
  /\ pc = "write"
  /\ Deliver(write_buffer)
  /\ write_buffer' = <<>>
  /\ CASE then = "claim" -> ClaimFront
       [] then = "cleanup" -> /\ pc' = "drain" /\ then' = "none"
                              /\ UNCHANGED <<flags, issued, claim_seq, aborted,
                                             expectations, cur, cstate>>
       [] OTHER -> /\ exchange_in_progress' = FALSE
                   /\ UNCHANGED <<is_broken, scope_pending, issued, claim_seq, aborted,
                                  expectations>>
                   /\ Ready
  /\ UNCHANGED <<framing, transaction_status, at>>
  /\ UnusedByPipeline

\* The write fails; sync records the failure, flush only leaves the exchange open.
PipeWriteFails ==
  /\ pc = "write" /\ ~alive
  /\ CutShort
  /\ is_broken' = (is_broken \/ then # "flush")
  /\ Ready
  /\ UNCHANGED <<exchange_in_progress, scope_pending, transaction_status, write_buffer, at,
                 issued, claim_seq, aborted, expectations>>
  /\ UnusedByPipeline

\* One answer to the statement being claimed; the handler may fail on a row or at
\* the end, which leaves the exchange open.
claim_read(m) ==
  /\ pc = "claim"
  /\ Reply(m)
  /\ LET s == claim_step(cur.kind, cstate, m) IN
     \/ /\ s = "Done"
        /\ claim_seq' = claim_seq + 1
        /\ PendingSyncs(expectations)
     \/ /\ s \notin {"Done", "LibraryBug"}
        /\ cstate' = s
        /\ UNCHANGED <<exchange_in_progress, claim_seq, expectations, pc, then, cur>>
     \/ /\ s = "LibraryBug" \/ m \in {"DataRow", "CommandComplete"}
        /\ UNCHANGED <<exchange_in_progress, claim_seq, expectations>>
        /\ Ready
  /\ UNCHANGED <<is_broken, scope_pending, transaction_status, write_buffer, at, issued, aborted>>
  /\ UnusedByPipeline

\* Mutant: the error is returned and not remembered.
error_unmarked == ReplyError /\ aborted' = aborted

\* read_next_message meets an error of the server: the pipeline is aborted.
read_next_message_error == ReplyError /\ aborted' = TRUE

\* The server refuses the statement being claimed: the claim consumes the Syncs
\* that follow and returns the error.
claim_error ==
  /\ pc = "claim"
  /\ read_next_message_error
  /\ claim_seq' = claim_seq + 1
  /\ PendingSyncs(expectations)
  /\ UNCHANGED <<is_broken, scope_pending, transaction_status, write_buffer, at, issued>>
  /\ UnusedByPipeline

\* Mutant: the pipeline stays aborted behind a ReadyForQuery.
ReadyKeepsAborted ==
  /\ transaction_status' = server_tx
  /\ scope_pending' = (expectations # <<>>) /\ aborted' = aborted

\* What ReadyForQuery changes.
AtReadyForQuery ==
  /\ transaction_status' = server_tx
  /\ scope_pending' = (expectations # <<>>) /\ aborted' = FALSE

\* ReadyForQuery of cur, within a claim or within cleanup.  Anything else that
\* is not an error is ignored.
consume_ready_for_query(m) ==
  /\ pc = "syncs" \/ (pc = "drain_read" /\ cur.kind = "Sync")
  /\ Reply(m)
  /\ IF m = "ReadyForQuery"
     THEN /\ AtReadyForQuery
          /\ IF pc = "syncs" THEN PendingSyncs(expectations)
             ELSE pc' = "drain" /\ UNCHANGED <<exchange_in_progress, expectations, then, cur, cstate>>
     ELSE UNCHANGED <<transaction_status, scope_pending, aborted, exchange_in_progress,
                      expectations, pc, then, cur, cstate>>
  /\ UNCHANGED <<is_broken, write_buffer, at, issued, claim_seq>>
  /\ UnusedByPipeline

\* drain_expectation for a statement nobody claimed.
drain_read(m) ==
  /\ pc = "drain_read" /\ cur.kind # "Sync"
  /\ Reply(m)
  /\ CASE m \in {"CommandComplete", "EmptyQueryResponse"} -> pc' = "drain" /\ UNCHANGED <<then, cur, cstate>>
       [] m \in {"ParseComplete", "BindComplete", "RowDescription", "NoData", "DataRow"} ->
            UNCHANGED <<pc, then, cur, cstate>>
       [] OTHER -> Ready
  /\ UNCHANGED <<flags, transaction_status, write_buffer, at, issued, claim_seq, aborted, expectations>>
  /\ UnusedByPipeline

\* The server refuses a statement nobody claimed: cleanup goes on to its Sync.
drain_error ==
  /\ pc = "drain_read" /\ cur.kind # "Sync"
  /\ read_next_message_error
  /\ pc' = "drain"
  /\ UNCHANGED <<flags, transaction_status, write_buffer, at, issued, claim_seq, expectations,
                 then, cur, cstate>>
  /\ UnusedByPipeline

Reading == pc \in {"claim", "syncs", "drain_read"}

\* An error where ReadyForQuery is due, or a FATAL error anywhere: the future
\* ends with its exchange open.
PipeReadFatal ==
  /\ Reading
  /\ \/ ReplyError /\ pc # "claim" /\ cur.kind = "Sync" /\ is_broken' = is_broken
     \/ ReplyFatal /\ is_broken' = TRUE
  /\ Ready
  /\ UNCHANGED <<exchange_in_progress, scope_pending, transaction_status, write_buffer, at,
                 issued, claim_seq, aborted, expectations>>
  /\ UnusedByPipeline

\* End of file while reading; claim and cleanup do not record it themselves.
PipeReadFails ==
  /\ Reading /\ ~alive
  /\ Ready
  /\ UNCHANGED <<backend, flags, transaction_status, write_buffer, at,
                 issued, claim_seq, aborted, expectations>>
  /\ UnusedByPipeline

-----------------------------------------------------------------------------
\* A future of the handle is dropped while it waits; the handle lives on.
CancelFuture ==
  /\ Reading \/ pc = "write"
  /\ IF pc = "write" THEN CutShort
     ELSE /\ framing' \in {framing, "torn"}
          /\ UNCHANGED <<todo, stage, skipping, server_tx, at_sync, alive>>
  /\ Ready
  /\ UNCHANGED <<flags, transaction_status, write_buffer, at,
                 issued, claim_seq, aborted, expectations>>
  /\ UnusedByPipeline

\* The handle goes away.  Drop records an abandoned scope; forgetting does not.
Drop(b) ==
  /\ is_broken' = (is_broken \/ b)
  /\ at' = "idle" /\ pc' = "none"
  /\ queue_seq' = 0 /\ ticketless' = {} /\ claim_seq' = 0 /\ aborted' = FALSE /\ expectations' = <<>>
  /\ UNCHANGED <<backend, exchange_in_progress, scope_pending, transaction_status,
                 write_buffer, then, cur, cstate>>
  /\ UnusedByPipeline

DropHandle   == pc = "ready" /\ Drop(scope_pending)
ForgetHandle == pc = "ready" /\ Drop(FALSE)

-----------------------------------------------------------------------------
PipeInit ==
  /\ queue_seq = 0 /\ ticketless = {} /\ claim_seq = 0 /\ aborted = FALSE /\ expectations = <<>>
  /\ pc = "none" /\ then = "none" /\ cur = NoUnit /\ cstate = "none"

PInit == Init /\ PipeInit

PipeQueue ==
  \/ \E r \in Requests : Fresh(r) /\ new_inner(r)
  \/ \E r \in Requests, k \in ExecKinds : exec_queue(U(k, r))
  \/ flush \/ sync \/ claim_with_handler \/ cleanup_inner \/ drain_next
  \/ DropHandle \/ ForgetHandle

PipeIO ==
  \/ PipeWrite \/ PipeWriteFails
  \/ \E m \in Messages : claim_read(m) \/ consume_ready_for_query(m) \/ drain_read(m)
  \/ claim_error \/ drain_error \/ PipeReadFatal \/ PipeReadFails \/ CancelFuture

PNext ==
  \/ Next /\ UNCHANGED pipe
  \/ PipeQueue
  \/ PipeIO

PSpec == PInit /\ [][PNext]_pvars
-----------------------------------------------------------------------------
PTypeOK ==
  /\ TypeOK
  /\ queue_seq \in Nat /\ claim_seq \in 0..queue_seq
  /\ aborted \in BOOLEAN /\ ticketless \subseteq 0..queue_seq
  /\ expectations \in Seq(Unit)
  /\ pc \in {"none", "ready", "write", "claim", "syncs", "drain", "drain_read"}
  /\ then \in {"none", "flush", "sync", "claim", "cleanup"}
  /\ cur \in Unit
  /\ cstate \in ClaimStates

\* What the server still has to read or answer, in order.
Outstanding == todo \o write_buffer

(***************************************************************************)
(* As long as no statement failed and no exchange was cut short, the       *)
(* expectations of the handle are exactly what is on the wire and in the   *)
(* write buffer, in that order, but for what exec failed to encode.        *)
(***************************************************************************)
QueueMatchesWire ==
  pc \in {"ready", "drain"} /\ ~aborted /\ (ExchangeReady \/ pc = "drain")
    => expectations = OfKinds(Outstanding, Kinds \ {"Torn"})

(***************************************************************************)
(* A claim reads the answer to the statement its ticket was issued for, or *)
(* waits for a server that will hang up on what exec failed to encode.     *)
(***************************************************************************)
ClaimReadsOwnAnswer ==
  pc = "claim" => todo # <<>> /\ (Head(todo) = cur \/ Head(todo).kind = "Torn")

(***************************************************************************)
(* While the pipeline is aborted, a statement that a claim or cleanup will *)
(* pass over as skipped (one before the first Sync of the queue) is one    *)
(* the server skips: it comes before any Sync the server has to read.      *)
(***************************************************************************)
AbortedMeansSkipped ==
  aborted /\ pc \in {"ready", "drain"} /\ (ExchangeReady \/ pc = "drain") =>
    \A i \in DOMAIN expectations :
      (\A j \in 1..i : expectations[j].kind # "Sync") =>
        /\ skipping
        /\ \A k \in DOMAIN Outstanding :
             Outstanding[k] = expectations[i] => \A j \in 1..k : Outstanding[j].kind # "Sync"

(***************************************************************************)
(* A claim, or cleanup, that waits for a message waits for something.      *)
(***************************************************************************)
PipeNeverWaitsForNothing ==
  Reading /\ alive => \E i \in DOMAIN todo : skipping => todo[i].kind = "Sync"

(***************************************************************************)
(* When cleanup comes to its end the connection is usable again, unless it *)
(* was condemned before: every ticket is drained and nothing is pending.   *)
(***************************************************************************)
CleanupReleases ==
  [][pc = "drain" /\ pc' = "ready" => Usable']_pvars

=============================================================================
