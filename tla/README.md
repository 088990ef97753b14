# A TLA+ model of zero-postgres

zero-postgres is a PostgreSQL client library in Rust. It has three drivers
(blocking, tokio, compio) over one set of sans-I/O protocol state machines, and
on top of the drivers pipelines, portals, transactions and connection pools.
This directory models the part where such a library is hard to get right: one
socket, a server that answers in order and skips to the next Sync after an
error, callers who drop futures, forget handles, return errors from callbacks
and go on using the connection, and, apart from the protocol, the arithmetic of
its value conversions.

## Inventory

| Component | State it keeps | Operations | Hard part | What makes it correct |
|---|---|---|---|---|
| `tokio::Conn` (`src/tokio/conn.rs`, `stream.rs`) | `is_broken`, `exchange_in_progress`, `scope_pending`, `transaction_status`, the write and read buffers | query, prepare, prepare_batch, exec, exec_batch, close_statement, portals, the lowlevel calls, close | a future may be dropped at every await; the three flags are all that is left of it | an accepted call finds a drained socket; it reads its own answers; it never hangs; the status is the server's |
| protocol state machines (`src/state/*.rs`) | state, operation, pending error | one step per message | errors arrive in any state, ReadyForQuery ends an exchange | every exchange ends at its last answer, not before and not after |
| `tokio::pipeline::Pipeline` | `queue_seq`, `claim_seq`, `aborted`, `expectations` | exec, flush, sync, claim, cleanup, drop | positions in a queue stand for answers on the wire; after an error the server skips, and so must the queue | the queue matches the wire; a claim reads its own answer; cleanup gives back a usable connection |
| blocking `sync::Conn` | `is_broken`, `transaction_status` | as tokio | no exchange flag: errors in the middle of an exchange | as tokio |
| blocking `sync::pipeline::Pipeline` | as the tokio one, without marks on the connection | as the tokio one, no cancellation | errors are not recorded, by claims or by cleanup | expects the ReadyForQuery that are due; gives back a drained connection |
| `compio::Conn` (`src/compio/conn.rs`, `stream.rs`) | as tokio, and buffers lent to the runtime | as tokio | a dropped future does not stop the read or write it began | nothing of an abandoned call meets a later one |
| transactions (`*/transaction.rs`, `transaction()`) | the connection's status, the handle's `connection_id` | transaction, commit, rollback, exec_portal_named | decided by a status read after the closure; handles of several connections | all writes or none; Err means undone; no block left open |
| pools (`*/pool.rs`) | idle queue or stack, semaphore | get, check_in, drop | check-in is a spawned task; permits and connections have different lifetimes | no permit is lost, no connection shared, none lent with something of its last user, and none kept on an answer that was not its own |
| startup (`src/state/connection.rs`, `new_with_stream`) | state, SCRAM client, parameters, TLS | step, the upgrade to a Unix socket | the server chooses the order; features chosen at build time | neither side waits for ever; a connection handed out is past startup; SCRAM and Require cannot be skipped |
| value conversions (`src/conversion/*.rs`) | none | from_binary, encode | signs, remainders, widths, scales | the value is kept or refused |
| codecs, options, handlers, diesel, derive, buffer pool | none that the protocol sees | pure functions | byte layouts | round trips |

The components meet in the connection: pipelines, portals and transactions borrow
it mutably (so calls never overlap), pools own it, the state machines are called
by its drive loops, handlers are called back by the state machines, and the
socket connects it with the server.

## Modules

    Backend              the PostgreSQL server (external)
    StateMachines        src/state: the machines as functions on message types
      Calls              what each call writes, and how calls may fail
        Conn             tokio::Conn over Backend, driving StateMachines
        SyncConn         sync::Conn over the same
        CompioConn       compio::Conn over the same
        Expectations     what the pipelines share: the queue, a claim's steps
          Pipeline       tokio::pipeline on top of Conn
          SyncPipeline   sync::pipeline on top of SyncConn
    Session              what a connection promises; Conn, Pipeline and CompioConn
                         implement it, Transaction uses it
      Transaction        transaction() and its handle
    PoolContract         what a pool promises
      Pool               the tokio and the blocking pool
      CompioPool         the compio pool
    Startup              connecting, by all three drivers
    Conversions          integers, dates, times, timestamps and numerics
    ExchangeProofs       lemmas about requests, answers, machines and sequences
      PipelineProofs     theorems about Conn and Pipeline
      SyncPipelineProofs theorems about SyncConn and SyncPipeline
      CompioConnProofs   theorems about CompioConn
    WireProofs           theorems about Startup and Conversions
    TransactionProofs, PoolProofs, CompioPoolProofs

Each `MC...` module is the TLC model of the module it is named after.

**Backend** is what the client relies on. The client writes *units*, the groups
of frontend messages it always writes together; `todo` holds the units not fully
answered, `stage` what the server owes next for the first. `Reply` gives one
answer, `ReplyError` makes the server skip to the next Sync (`skipping`) unless
the unit is a Query or a Sync, `ReplyFatal` and `PeerDies` end it. An answer is
produced when the client reads it: a FIFO socket cannot tell the difference.
Every write of the client ends with Flush, Sync or Query, so Flush needs no unit.
`framing = "torn"` records that a message was cut short in one direction.
Result sets are free: any number of rows, no rows, empty queries, several
statements per Query, CopyInResponse. The server's transaction status changes at
CommandComplete and at errors in every way the protocol allows.

**StateMachines** has one operator per handler (`extended_handle_rows`,
`simple_handle_response`, ...), from state and message type to the next state,
`"Finished"`, `"Err"` (the error is returned at once) or `"LibraryBug"`.
`MachineStep` chooses the machine of a call, `MachineError` and `MachineAsync`
say what errors and asynchronous messages do to it, and `CallsHandler` which
messages run a caller-supplied handler, which may fail.

**Session** is the abstract connection: ready, busy with a call, unusable for
good, or closed. `Release`, the only way back from busy to ready, ends in a
`Settled` state: the socket drained, the status the server's.

**Conn** has the fields of the struct under their own names, and the local state
of the call in progress: where it waits (`at`), which call it is (`op`), its
machine's `state` and `pending_error`, the `chunks` left of `exec_batch`, and the
result of the closure of `exec_portal` (`carry`). The code between two awaits is
one step: `Start` (everything up to the write), `WriteAll`, one `Read...` per
message. Between any two of them `Abandon` drops, forgets or unwinds the future:
part of the request may have been written, part of an answer read, and no flag
changes. `Fail` ends a call without `finish_exchange`, `finish_exchange` with it.
`ghost` variables (`failed`, `result`) record what the server told the call and
what it returned. A rejected call and a parameter that fails to encode before
`begin_exchange` change nothing and are not actions.

**Pipeline** extends Conn by the handle: `exec_queue`, `flush`, `sync`,
`claim_with_handler`, `cleanup_inner` up to their await, `PipeWrite` for the
writes, and one action per kind of answer for the reads (`claim_read`,
`consume_ready_for_query`, `drain_read`, and their errors). `CancelFuture` drops
a future of the handle, `DropHandle` runs its destructor, `ForgetHandle` does
not; dropping the future of `Conn::pipeline` is the first followed by the
second. `ticketless` records the numbers that `exec` used up without issuing a
ticket because the parameters did not encode; the remains of that statement stay
in the write buffer as the unit `Torn` and the server hangs up on them.
`Usage` names two call orders that the code permits and cannot serve: a statement
queued behind the Sync of an aborted pipeline, and one flushed behind a Sync that is
still unread. `{}` leaves out just these (a statement behind the Sync of a healthy
pipeline is in); under the divergences it says what fails with each of them in.

**SyncConn** is the blocking connection. Its calls start with one step (`Start`:
encode, write, flush) and go on with one step per message; nothing can be
abandoned in between, but the server may die, answer with errors, or make a
handler fail. No call tests `is_broken`. The ghost `early` records that a call
returned before its exchange was over and left no mark: `"open"` if the exchange
has no Sync yet, `"unread"` if a ReadyForQuery stays on the socket. The bound
`MaxUnread` limits the units unread when a further call is made. `InStep` is what
the properties of the passing run assume; that `is_broken` alone does not give it
is finding 1.

**SyncPipeline** has the actions of Pipeline without cancellation and without the
destructor, on SyncConn, whose calls may come before and after. The ghost `astray`
records that the handle lost its place in the server's answers without marking the
connection; the properties speak of handles that are `OnCourse`. A handle is only
opened, and only queues, on a connection that is on course. A write to a dead peer
succeeds or fails, and how much of it left does not matter any more.

**CompioConn** is Conn with buffers that belong to the runtime while it works on
them: `lent` is what of the write buffer is still in its hands, `stray_read` a
read whose future is gone. `KernelWrites` sends a unit of `lent` whoever still
waits for it, and after an `Abandon` the stray read may swallow an answer at any
later time, or never. The content of a write buffer that is not lent is left out,
because each encoder clears it first. The two mechanisms hold each other in
place: the flags are what keeps a later call away from the strays.

**Transaction** has, per connection, where `transaction()` is (`at`), the command
whose answer is awaited (`cmd`), what the closure returned, and both copies of the
transaction status. An exchange is one step, as Session describes it: it
completes and leaves the status equal to the server's, or is cut short and leaves
a connection that refuses calls. The closure issues numbered writes, plain BEGIN,
COMMIT and ROLLBACK text, consumes its handle with any connection the program
holds (`connection_id` decides), opens named portals (a Bind without Sync), returns
Ok or an error, or is dropped with the future. The ghost `ended_by` records whose
closures ended the block of a connection: its own, or one whose handle passed the
comparison of ids. The three `transaction()` are the
same text but for the awaits; `map` cites one of them for each definition, and
`Abandon` and `DropFuture` exist for the asynchronous ones only.

**Pool** has the semaphore (`permits`, `waiters`), the idle queue (`conns`), for
each client where it is in `get` or `drop` (`pc`) and which connection it has
(`conn`), and for each connection where it is in `check_in`. A connection is
reduced to `is_broken`, what its session holds (`session`), and whether a client left
it out of step without a mark (`astray`): `"behind"` when answers of earlier calls are
unread, `"deaf"` when the server skips to a Sync. `lose_step` is how it gets there: the
early returns of finding 1 on a blocking connection, an aborted pipeline with an exec
behind its Sync (a divergence below) on any.
A call on such a connection reads what there is (`HasAnswer`, `LeavesUnread`), so that
`discard_all` may keep a connection its DISCARD ALL did not reset. Every await is a
step boundary: waiting for the permit, the ping, the connect, DISCARD ALL.
`cancel` drops the future of `get` at each of them. `blocking`, chosen in the
initial state, makes the same actions those of sync::Pool: any waiter may win,
`drop` runs `check_in` before `release`, nothing is cancelled, and a failed
connect keeps its permit. A pool without `pool_max_concurrency` is one with as
many permits as clients. **CompioPool** has a stack and a detached check-in task,
and no permits, because the code has none. **PoolContract** is what both promise:
a connection is closed, idle, out with one client, or on its way back; unless a
client left it astray it goes out only clean and comes back only through its reset; and
only clients leave one astray.

**Startup** is `ConnectionStateMachine` with the driver loop around it: one step
reads a message (or the byte that answers SSLRequest) and does everything up to
the next read. The initial state chooses the options, the driver and the TLS
features of the build, and the `peer`: `"server"` follows the protocol (`srv` is
its place in the conversation), `"anyone"` sends any message at any time. A digest
is good or bad. The upgrade of a loopback connection to the Unix socket the server
names is a second startup, with the first connection in `conn`.

**Conversions** sends a column value through `from_binary` and the Rust value
through `encode` back to the server. Bytes are numbers modulo a power of the values
a byte has, and all sizes are constants, since what matters is which bound is reached
first.
Numerics are the groups of digits of the binary format; a text is the two
sequences of digits around the point. Where the code panics (a coefficient of more
than 96 bits) or overflows (`time::Date` and the i128 of `Decimal`, in debug builds) the
result is `Panic`; in release builds both wrap, and `decimal` returns the outcomes of
both builds.

## Runs

| Run | Instance | Checks |
|---|---|---|
| `pipeline` | 3 identities (calls, or a handle and 2 statements), batches of 2, 2 chunks, `Usage = {}`; 939,030 states | all of the tokio connection, and the pipeline on top of it |
| `sync_conn` | 2 identities, batches of 2, 2 chunks, `MaxUnread = 1`; 392,078 states | the blocking connection |
| `sync_conn_unmarked` | the same | shows finding 1 |
| `sync_pipeline` | 3 identities, 2 statements, `Usage = {}`; 441,864 states | the blocking pipeline between calls |
| `compio_conn` | 2 identities, batches of 2, 2 chunks, no symmetry, with fairness; 31,444 states | the compio connection, and that its calls end |
| `transaction` | 2 connections with distinct ids; closures of 2 and 0 writes; 1,777,912 states | transactions and handles used with the wrong connection |
| `pool` | 3 clients, 2 permits, 2 connections, 1 idle, both pools, no symmetry, with fairness; 179,350 states | permits, owners, sessions, the contract, and that waiters are served |
| `pool_stray` | the same with 3 connections | shows finding 3 |
| `compio_pool` | 3 clients, 3 connections, 2 idle; 25,764 states | the contract of the compio pool |
| `startup` | all options and builds, both peers, 2 parameters, with fairness; 80,084 states | startup |
| `conversions` | 3-bit bytes, short days, 2 digits to a group, 18-bit i128; 37,196 states | the conversions |
| `conversions_chrono_date` | the same | shows finding 2 |

`pipeline` is the run of module Conn too: what the connection does without a handle is
part of it (`Next` in `PNext`), with more identities than a run of Conn alone needs.

The bounds. Two identities suffice for a call and the answers of an earlier one:
a third adds no new pair, but a handle with two statements needs it. Two statements per batch and two chunks reach the
first, a middle and a last one, and an error on either side of a chunk boundary.
Two statements on a handle reach an error in front of a skipped statement, a
Sync between statements, and statements behind a Sync; the theorems cover any number. Row counts are not bounded at all (`DataRow` loops).
`Requests` is symmetric where no liveness is checked. One unit more than a call's
own (`MaxUnread`) is enough to misread answers. The queues bound themselves: a
handle has at most `MaxQueue` statements, and at most one unit more than that is
buffered behind a write that failed. Two writes per closure are the least of
which some but not all could be committed; the second connection's closure only
has to hold it and to end its block. With equal ids the properties of `transaction` hold as
well (9,741,925 states, too long for every day), and `BlockHeld` then allows what equal ids
make possible (see the divergences). Three clients for two permits make one wait
while two work. A connection for each permit is enough for the bound, since one being
opened beside them is counted as well; with three the safety properties pass too (71,959
states up to symmetry), but fairness does not allow the symmetry and takes too long
without it. An idle queue of one overflows. Two parameters tell a parameter lost from none kept.
The conversions take all integers next to a power of two up to the widest type,
every day and microsecond around the epoch and beyond what the Rust types reach,
and every numeric of up to three groups from {0, 1, 10, 25, 99} on both sides of
the point; the constants keep the order of the real bounds (the calendar of the
Rust library is longer than a day count near the epoch and shorter than the wire
type, a Decimal shorter than an i128, and that shorter than a NUMERIC: three groups of
digits pass 2^16, the mantissa of the instance, and 2^18, the values of its i128).

Deadlock is not checked: a closed connection, a dead peer, an unusable connection,
a finished startup or round trip really stop, and so do a pool and a program with
transactions when nobody asks for anything, or when all permits are lost.

What the properties say:

- `ImplementsSession`: Conn, Pipeline on Conn, and CompioConn implement Session by
  the mapping at the end of each module. A connection that accepts a call has
  nothing unread, half-written, half-read, or being skipped, and knows the server's
  transaction status; an unusable one stays so, through new handles as well. With
  compio the runtime, too, holds nothing of an earlier call. `UsesSessions`:
  Transaction does nothing with a connection that Session does not allow.
- `UsableMeansDrained`: whenever a new call would be accepted, the socket is drained.
  This is what the flags are for.
- `OwnAnswersOnly`: a call reads answers to its own request only.
- `NeverWaitsForNothing`, `PipeNeverWaitsForNothing`: whoever waits for a message
  waits for a server that has one to give, not for one that waits for a Sync.
- `OkMeansNoServerError`: no error is lost on the way to ReadyForQuery or in the
  closure of `exec_portal`.
- `QueueMatchesWire`, `ClaimReadsOwnAnswer`, `AbortedMeansSkipped`: the queue of
  expectations is what the server will answer, a claim reads the answer of its
  own statement, and what an aborted pipeline passes over the server skips.
- `CleanupReleases`: `cleanup` that runs to its end leaves a usable connection.
- `DrainedUnlessEarly`, `SyncOwnAnswers`, `SyncNeverHangs`: the same for the blocking
  connection, its transaction status included, as long as no call returned early,
  and again after the `lowlevel_sync` that follows a failed call without Sync.
- `SyncsMatch`, `SyncClaimReadsOwnAnswer`, `SyncPipeNeverHangs`,
  `GivesBackDrained`: the blocking pipeline on course expects as many
  ReadyForQuery as are due, and reads its own answers.
- `CallEnds`: a compio call that is not abandoned ends.
- `AllOrNothing`, `NoBlockLeftOpen`, `BlockHeld`: what became durable in the server
  is what the program was told; no block outlives its `transaction()`; none is ended
  behind the back of its closure, except by the handle of a connection whose id is
  equal. `BlockHeldByOwner`, without the exception, is what the documentation says.
- `PermitsConserved`, `KeepsContract`: no permit is invented (with tokio, none lost
  either); both modules of pools implement PoolContract: an open connection is with
  one client, idle, or being checked in, and an idle one that no client left astray is
  usable, reset and outside any transaction. `IdleIsClean` is the same of every idle
  connection of the blocking pool, and false.
- `ConcurrencyBound`: open and opening connections of the blocking pool never
  exceed the permits.
- `WaiterServed`: a `get` of the tokio pool that waits for a permit is served or
  cancelled.
- `StartupEnds`, `ReadyTogether`: startup with a server ends, on both sides, with
  nothing lost. `ServerProved`, `RequireMeansTls`, `UpgradeIsOptional`: with anyone.
- `IntegersKept`, `CopyIsFaithful`, `NumericTextExact`, `DecimalExact`: the value
  that arrives is the value that was sent; of a Decimal, when the digits fit the i128
  they are summed in (`DecimalIsSum` leaves that out, and is false).
  `RefusalsJustified`: nothing else is refused.

Each property of a passing run has a mutant, an operator marked *Mutant* next to the definition it replaces,
that breaks it. The type invariant of each module (`...TypeOK`) is not among them:
those of Conn, Pipeline, SyncConn, SyncPipeline, CompioConn, Startup, Transaction and
the pools are proved.
`StatusIsServers` and `UnusableForGood`, which ImplementsSession gives in the runs,
are proved as well.

### Fairness

Three properties need it. `WaiterServed` holds under `PoolFairness` (of the tokio pool
alone, since a blocking DISCARD ALL or ping on a connection that is deaf waits until the
peer dies, which nothing promises): weak fairness
of every step that the runtime, the server or the semaphore takes (acquire, pop,
ping, connect, check-in), which tokio's scheduler, its FIFO semaphore and a server
that answers or hangs up provide, and of `drop`: clients give their connections
back in the end. Nothing is assumed of `get`, `use` and `cancel`. `StartupEnds`
holds under weak fairness of `Progress` (the driver is polled, the server sends
what is due or hangs up) and strong fairness of the messages other than notices,
since a server that sent notices for ever would keep any client. `CallEnds`
assumes that the runtime finishes the operations it was given and polls the future
(weak fairness of `KernelWrites`, `WriteDone`, `ReadFails`, `Skips` and the reads),
and that CommandComplete and ReadyForQuery come again and again where they may
(strong fairness), as result sets and query strings are finite.

### Findings

1. *The blocking connection is not marked when a call returns early.* A handler
   that returns an error (which `query_foreach` invites), and a server error in
   `prepare_batch`, leave a ReadyForQuery unread: the next call reads it as its
   own and all later ones are one answer behind. A server error while
   `exec_portal` binds leaves the server waiting for a Sync: the next `query`
   blocks for ever. `is_broken()` stays false.
2. *chrono's NaiveDate decodes every date before 2000-01-01 as 2000-01-01.* The
   branch that subtracts is tried only when the one that adds fails, and adding
   `pg_days.max(0)` succeeds.
3. *The blocking pool keeps a connection that is an answer behind, unreset.* After
   finding 1 `check_in` asks `is_broken()`, which is false, and sends DISCARD ALL, which
   reads the CommandComplete and ReadyForQuery that were left over and succeeds. The
   ping of the next `get` reads the answer of DISCARD ALL, and the next client the
   ping's. `tokio/cancellation_tests.rs:147` asserts the contrary of the tokio pool.

### Other divergences, and how to see them

The runs above leave these out by a constant, by a ghost variable, or by a
condition in a property. Each can be shown by the change named here.

| The code | Where | To reproduce |
|---|---|---|
| An aborted claim may pop a Sync. `exec A; flush; claim A` (refused); `sync; exec B; claim B`: the claim pops the front of the queue as skipped, but the front is the Sync. Cleanup pops B as skipped, takes the first ReadyForQuery for the last and releases the scope: the connection is usable with the answer to B and a ReadyForQuery unread, although line 54 says of a handle left with "protocol completion still pending" that it "makes the connection unusable". The blocking pipeline pops in the same way. | `tokio/pipeline/mod.rs:394` | `Usage = {"exec_behind_sync"}` in MCPipeline.cfg: `UsableMeansDrained`, and `QueueMatchesWire`, `ClaimReadsOwnAnswer`, `AbortedMeansSkipped`; in MCSyncPipeline.cfg: `SyncsMatch`, `SyncClaimReadsOwnAnswer`, `GivesBackDrained` |
| Cleanup may leave a healthy connection unusable. `sync; exec B; flush`, then cleanup: a Sync is in the queue, so none is sent behind B; all is drained, but `scope_pending` stays set, which line 114 allows for an "interrupted or fatally failed exchange" only. If B fails, the server skips to a Sync that is never sent. | `tokio/pipeline/mod.rs:134` | `Usage = {"flush_behind_sync"}`: `CleanupReleases`, and `QueueMatchesWire`, `ClaimReadsOwnAnswer`, `PipeNeverWaitsForNothing`, `UsableMeansDrained`; in MCSyncPipeline.cfg: `SyncClaimReadsOwnAnswer`, `GivesBackDrained` |
| The blocking pipeline's cleanup does not remember that a statement failed, and waits for the answer of one that the server skips. | `sync/pipeline/mod.rs:127` | `CleanupReturns` in MCSyncPipeline.cfg |
| It also ends its read at an ErrorResponse where ReadyForQuery is due, which stays unread. | `sync/pipeline/mod.rs:275` | property `LeftValid` |
| `transaction()` returns Ok when the closure ignored an error and the COMMIT of its failed block was a rollback. | `tokio/conn.rs:1395` | `OkMeansCommitted` in MCTransaction.cfg |
| A handle is tied to its connection by the server's process id only, although `commit` and `rollback` promise an error "if the connection is not the same as the one that started the transaction" (line 30). Two servers may have the same id, and a connection that got no BackendKeyData has 0: then one closure's handle ends the block of another connection. | `tokio/transaction.rs:34` | `connection_id <- Shared` in MCTransaction.cfg: `BlockHeldByOwner` |
| A dropped future of `transaction()` leaves its block open on a connection that accepts calls. | `tokio/conn.rs:1388` | `NoBlockLeftOpen` with `"Dropped"` among the results |
| The tokio pool exceeds `pool_max_concurrency`: a dropped `PooledConn` releases its permit while its check-in task still has the connection. | `tokio/pool.rs:99` | `ConcurrencyBound` without `blocking =>` |
| The blocking pool loses a permit whenever `Conn::new` fails in `get`. | `sync/pool.rs:43` | `PermitsConserved` without `~blocking =>` |
| The compio pool ignores `pool_max_concurrency`. | `compio/pool.rs:29` | there is nothing in the code to model |
| `SslMode::Prefer` sends SSLRequest when the TLS feature of another driver is enabled, fails if the server agrees, and never sends it with compio's alone. | `state/connection.rs:80` | `handle_initial` of module Startup |
| A NUMERIC beyond 2^127 decodes as another number: its digits are summed in an i128 with plain arithmetic. No profile in Cargo.toml sets `overflow-checks`, so a release build wraps, and 2^128 is decoded as 0, where the comment at line 85 says that the value is the sum; a debug build panics. | `conversion/decimal.rs:88` | `DecimalIsSum` in MCConversions.cfg |
| A decimal infinity decodes as 0, a coefficient of more than 96 bits panics. | `conversion/decimal.rs:105` | `decimal` of module Conversions, and `DecimalExact` without `Finite` |

## Proofs

The eight modules of theorems prove for every value of the constants what the runs
check on their instances. The assumptions on the constants are that sets are not
empty and bounds not senseless (`RequestsAssumption`, `BatchAssumption`,
`PipelineAssumption`, `UnreadAssumption`, `TransactionAssumption`, `PoolAssumption`,
`CompioPoolAssumption`, `StartupAssumption`, `ConversionsAssumption`), that a day fits
a TIME and the calendar a DATE with room to spare (`WidthAssumption`), and, for the
theorems of the two pipelines, whose statements say so, `Usage = {}` (below).

| Module | Theorems | Inductive invariant |
|---|---|---|
| `PipelineProofs` | of Conn: `TypeCorrect`, `UsableIsDrained`, `OwnAnswers`, `NoHang`, `StatusCorrect`, `OkIsOk`, `StaysUnusable`, `ConnImplementsSession` | `IInv` |
| | of Pipeline: `PipelineTypeCorrect`, `QueueIsOnTheWire`, `ClaimsReadTheirOwn`, `SkippedByBoth`, `PipelineNeverHangs`, `CleanupGivesBack`, `PipelineImplementsSession` | `PInv` |
| `SyncPipelineProofs` | of SyncConn: `SyncTypeCorrect`, `SyncDrained`, `SyncReadsOwn`, `SyncAnswerDue` | `IInv` |
| | of SyncPipeline: `SPTypeCorrect`, `EverySyncMatched`, `SyncClaimsOwn`, `SyncPipeAnswerDue`, `HandleGivesBackDrained` | `SPInv` |
| `CompioConnProofs` | `CompioTypeCorrect`, `CompioOkIsOk`, `CompioUsableIsQuiet`, `CompioImplementsSession` | `IInv` |
| `WireProofs` | of Startup: `StartupTypeCorrect`, `ConnectedMeansReady`, `ScramCannotBeSkipped`, `RequireKeepsSecrets`, `UpgradeNeverFails` | `StartupInv` |
| | of Conversions: `ConvIntegersKept`, `ConvCopyIsFaithful`, `ConvRefusalsJustified` | `ConvInv` |
| `TransactionProofs` | `TransactionTypeCorrect`, `TransactionAtomic`, `BlockEnds`, `BlockOwned`, `TransactionUsesSessions` | one conjunct per phase of a call |
| `PoolProofs` | `PoolTypeCorrect`, `PermitsKept`, `PoolKeepsContract`, `BlockingPoolBounded` | `PermitInv`, `LendInv` |
| `CompioPoolProofs` | `CompioPoolTypeCorrect`, `CompioPoolKeepsContract` | `PoolInv` |

`ExchangeProofs` has the lemmas that the three connections share: what requests
look like (`RequestFacts`), which machines finish on which message
(`MachineReady`, `MachineSingle`), what an answer, an error, a skipped unit and a
write do to `todo` and `stage` (`ReplyFacts`, `ErrorFacts`, `DiscardFacts`,
`DeliverFits`), that the answer on which a machine finishes is the last one owed
(`LastAnswer`) and any other leaves something to read (`NotLastAnswer`).

**The asynchronous connection.** None of the invariants of Conn that the runs check is
inductive as it stands: whether the socket is drained when a call ends depends on
what it wrote, what the server has answered, and where the machine is. `IInv` says so:

- `ReadyInv`: without exchange and failure the wire is drained;
- `WriteInv`, `ReadInv`: what a call will write, and what is left to read of it,
  has its `Shape`: one Query, or units that end with the only Sync, or the single
  unit of a call that does not sync; all with its own identity; the server skips
  only for calls that end with a Sync; a reported error is kept as pending;
- `StageFits`: what the server owes next belongs to the unit in front;
- `PortalInv`, `StatusInv`: an error inside `exec_portal` leaves its exchange
  open; between exchanges the status is the server's.

There is one lemma per action. `UnusableForGood` is proved as an action property.
`ConnImplementsSession` shows that initial states map to initial states and every
step of Conn to a step of Session or a stutter; that a released connection is
settled is `ReadyInv` and `StatusInv`.

**The asynchronous pipeline.** The theorems assume `Usage = {}`, as the run does:
the caller queues no statement behind the Sync of an aborted pipeline and flushes none
behind a Sync it has not claimed past. They say nothing of callers who do; the
assumption is needed: with either order `QueueMatchesWire` and most of what follows from
it is false, as the divergences show. Any other mixture of exec,
flush, sync and claim is covered, exec behind the Sync of a healthy pipeline included:
when that pipeline aborts, the Sync is read before the statement is claimed. `QueueMatchesWire`
says nothing of an aborted pipeline, of a future that waits, or of an exchange
being cut short, and each of these can come before a step that has to restore it.
The invariant therefore relates queue and wire at every point of a handle that is
`OnCourse` (not condemned, and no future of it ended with its exchange open):

- `WireInv`: what the server has to answer and what is expected `Match`. While the
  pipeline is healthy the queue is the wire without its torn statements; while it
  is aborted only what follows the first Sync has to agree (`Since`), since the
  server and the claims pass over the rest each at its own pace. The server skips
  exactly while `aborted` is set;
- `BufferInv`: no statement is left behind the last Sync when the buffer is empty
  (`Closed`), the write of a sync ends with a Sync, that of a flush has none;
- `ScopeInv`: a scope that is not pending left nothing on the server, and cleanup
  drains a queue that ends in a Sync;
- `TicketInv`: each ticket that can still be claimed has its statement in the queue, and
  in an aborted pipeline no statement is behind a Sync in front. Without it a claim in an
  aborted pipeline could pass over a Sync in place of a statement, which is the first of the divergences;
- `FutureInv`, `HandleInv`: what each future waits for, and that a handle is the
  one that borrows the connection.

With `IInv` of the connection this is `PInv`, checked by TLC on the instance of the
`pipeline` run before it was proved. `MatchAnswer`, `MatchError`, `MatchSkipWire`,
`MatchSkipQueue` and `MatchReady` say how the relation survives an answer, an error, a
unit the server skips, one the handle skips, and ReadyForQuery; each action is then
one lemma (`...Course`). `PipelineImplementsSession` maps a handle to one call of
Session: taking it is `Accept`, its futures are `Work`, and when it is gone the
connection is ready and settled, or unusable for good.

**The blocking connection.** The invariant is that of Conn with the ghost `early` in
place of the flags: a connection `InStep` between calls is drained, a call reads what
is left of a request of its own `Shape`, and after an early return that left the
exchange `"open"` nothing unread ends with ReadyForQuery, so that the `lowlevel_sync`
that follows finds its own. The bound `MaxUnread` is arbitrary.

**The blocking pipeline.** The theorems assume `Usage = {}`, with the meaning it has for
the asynchronous pipeline, and speak of handles that are `OnCourse`, as the properties
do. `SyncsMatch` is not inductive: that a Sync leaves the queue when its ReadyForQuery
leaves the wire depends on what stands in front of it, which an aborted handle passes
over and a server that skips drops, each at its own pace. `SPInv` has two parts.
`HandleOK` says what holds on course or not: a handle borrows a connection in step, and
one that lost its place is not used again, so that outside a handle the invariant of the
connection holds. `CourseInv` relates queue and wire: `WireInv` (the two `Match`; the
wire may have statements in front that a cleanup which forgot an error has passed,
`Late`), `BufferInv` (no Sync is left in the buffer, and when the buffer is empty no
statement is left behind the last Sync), `DrainInv` (cleanup drains a queue that ends in
a Sync, or has nothing to drain), `TicketInv` (each ticket left has its statement in the queue, and in an aborted
pipeline none is behind a Sync in front) and `AnswerInv` (what each read waits for).

**The compio connection.** What a call has written is on the wire or in the runtime's
hands: `Wire` is `todo` followed by `lent`, and it is this sequence that has the `Shape`
of the call's request while it writes. When it reads, `lent` is empty. A write or a read
that lost its future is pending only while `exchange_in_progress` is set, and that flag
is never cleared once its call is gone: so a connection that accepts a call is `Quiet`,
which is `drained` in the refinement of Session (`CompioUsableIsQuiet`,
`CompioImplementsSession`), and what the runtime does for an abandoned call is a stutter
of Session whenever it happens (`Unwatched`, `KernelWritesInv`). `IInv` was checked by TLC
on the instance of the `compio_conn` run before it was proved.

**Startup.** `StartupInv` ties the place of the server in the conversation to the
client's state when the peer is a server, and says for any peer what must have been
proved or encrypted before each state (`Proof`, `Secrecy`), for the first startup and
for the one over the Unix socket with the first connection kept.

**Conversions.** The arithmetic is proved for bytes of any even number of values, 256
among them, and units of time of any length. The lemmas build on each other: division
has one quotient and one remainder (`Division`, `DivisionUnique`, `RemainderShift`);
bytes that are those of a number in range are read back as it (`RoundTrip`), and an
integer that wraps changes by a multiple of the power (`Wrapped`); encode casts only
to targets that hold every value of the type (`EncodableFits`); the division of Rust is
towards zero (`TowardsZero`), which `ChronoInstant` corrects before 2000-01-01 by less
than a second, and `MixedRadix` puts hours, minutes, seconds and fractions together
again; then one lemma for each kind of column says what `from_binary` returns
(`DecodedInteger`, `DecodedDate`, `DecodedTime`, `DecodedTimestamp`). `ConvInv`, checked
by TLC, follows a value: the Rust value is one that the column decodes to, the parameter
what encode returns for it, the stored value what the server reads. A Julian day that
wraps (`time::Date`, in release builds) is still written back as the day that was read.
`WidthAssumption` is what the refusals need: a day is shorter than what a TIME can count,
and no date of the calendar wraps.

**Transactions.** `TransactionProofs` proves `AllOrNothing`, `NoBlockLeftOpen`,
`BlockHeld` and `UsesSessions` for any number of connections and closures of any
length, and whatever their ids: connections may share one. The inductive invariant says, of
each connection by itself, what the server has (a block of this call or of nobody, open
or failed) at each phase of the call: `OpenBlock` while the closure runs, `Ended`
once COMMIT or ROLLBACK was answered. A step of one closure changes another connection only
through a handle with an equal id, and then that connection's `ended_by` names the
closure, which is what `BlockHeld` says and what exempts the block from `AllOrNothing`;
so a block is ended by nobody else where ids are distinct. `UsesSessions` says that
each step is one that Session allows, and `ConnImplementsSession` that Conn is a
Session: that is how what is proved of a call on its own carries over to calls made
in sequence by `transaction()`.

**Pools.** `PoolProofs` proves, for any finite sets of clients and connections and any
positive limits (an idle queue of size 0 panics at construction), that both pools
keep `PoolTypeOK`, with the bound on the idle queue, and `PermitsConserved`: with
tokio every permit is somewhere, with the blocking pool none is invented. The count
alone is not inductive: the end of a check-in moves the client that has the
connection, so the invariant adds `HolderInv`, whoever has a connection has a
permit. `Enters`, `Leaves` and `Stays` say how a client's step changes the number
of permit holders, from the library's facts on cardinality.

Both implement PoolContract, with connections that clients left astray among theirs:
`KeepsContract` asks of those that they are shared, lost or made astray by the pool no
more than others, and of all others that they are lent and kept clean. Finding 3 is
outside the theorem by that condition alone. That a connection has one place at a time
follows from an inductive invariant in three parts: the idle queue holds a connection once, clean
or astray, and nobody has it (`QueueInv`); a client that pings, holds or checks in has an open
connection of its own (`OwnerInv`); `check_in` works on an open connection
(`CheckInInv`). `BlockingPoolBounded` proves `ConcurrencyBound` from them and the count
of permits: the blocking pool opens a connection only when none is idle, and then
every open one is with a client that holds a permit, because the permit is released
after `check_in` (`Owned`). With tokio that is what fails.

`CompioPoolProofs` proves that CompioPool keeps its type invariant and implements
PoolContract, for any `pool_max_idle_conn`, zero included. The inductive invariant
says that the stack holds a connection once, clean or astray and with nobody (`StackInv`),
that a client's connection is open and its own (`HolderInv`), and that a check-in
works on an open connection (`CheckInInv`).

**How sequences are handled.** The queue of a pipeline is filtered by kind
(`OfKinds`), which the model writes as a fold over the sequence (`Accumulate`, a
function of its length that is defined by its recurrence). `ExchangeProofs` proves
that this function exists and is unique (`RunExists`, `RunUnique`), by the
well-foundedness of the order on Nat from the library, and from it what the filter
does to an appended element and to the head (`OfKindsFacts`, `OfKindsHead`).
`SeqInduct` is induction on sequences for a *set* of sequences, which is what the
provers can instantiate; the library's theorem takes an operator.

Only model-checked: `NumericTextExact`, `DecimalExact` and the NUMERIC case of
`RefusalsJustified`. They compare numbers with their decimal digits, by powers of ten
and folds over the groups: induction over data, with `^`, which the provers do not
interpret (the powers of Conversions that are proved about are products for that
reason). The liveness properties (`WaiterServed`, `StartupEnds`, `CallEnds`) stay with
TLC: liveness under fairness and ENABLED are out of the prover's reach.

## Not modelled

- The pipeline of compio: the control flow of Pipeline over the writes and reads of
  CompioConn; its two halves are modelled, their product is not.
- Savepoints, and statements sent without a Sync by a closure of `transaction()`
  (lowlevel feature), other than named portals.
- Startup: MD5, the digests of SCRAM, the layout of the messages.
- Conversions of text, floating point, strings, bytes and uuid; the text a Decimal
  is sent as.
- Byte layouts of the protocol, options, the buffer pool, diesel and the derive
  macros: pure or invisible to the protocol. The asynchronous message handler (it
  cannot touch the connection). SQLSTATE and the fields of errors.
- Handlers that panic on the blocking connection. A stale ticket used after
  `cleanup` on the same handle (lowlevel feature).

## Plan

Done: all modules above. Next, most important first:

1. The compio pipeline, by giving Pipeline the lent buffer; its theorems follow those
   of PipelineProofs, with `Wire` of CompioConnProofs in place of `todo`.
2. The codecs whose lengths are computed (Bind, the rows), and the text conversions
   with a scan of their own (numeric, arrays).
3. The digits of a NUMERIC as a sum, in a form whose induction is over a set of
   sequences, for `DecimalExact`.
