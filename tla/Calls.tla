------------------------------- MODULE Calls -------------------------------
(***************************************************************************)
(* What the blocking and the asynchronous connection have in common: what  *)
(* each call writes, and how calls may fail.                               *)
(***************************************************************************)
EXTENDS Backend, StateMachines

CONSTANTS
  MaxBatch,   \* bound: statements per prepare_batch, parameter sets per chunk
  MaxChunks   \* bound: chunks per exec_batch

ASSUME BatchAssumption == MaxBatch \in Nat \ {0} /\ MaxChunks \in Nat \ {0}

Errors == {"Io", "LibraryBug", "ConnectionBroken", "Fatal", "Server", "Decode"}

\* Error::is_connection_broken; "Decode" stands for Decode, Encode and InvalidUsage.
is_connection_broken(e) == e \notin {"Server", "Decode"}

-----------------------------------------------------------------------------
U(k, r) == [kind |-> k, req |-> r]

Repeat(k, r, n) == [i \in 1..n |-> U(k, r)]

\* Mutant: the Sync is forgotten.
Unsynced(k, r) == <<U(k, r)>>

Synced(k, r) == <<U(k, r), U("Sync", r)>>

\* What each call encodes in the write buffer.
Request(o, r, n) ==
  CASE o = "query"           -> <<U("Query", r)>>
    [] o = "prepare"         -> Synced("Prepare", r)
    [] o = "exec_sql"        -> Synced("ParseBindExecute", r)
    [] o = "exec_prepared"   -> Synced("BindDescribeExecute", r)
    [] o = "close_statement" -> Synced("Close", r)
    [] o = "prepare_batch"   -> Append(Repeat("Prepare", r, n), U("Sync", r))
    [] o = "exec_batch_sql"  -> <<U("Parse", r)>> \o Append(Repeat("BindExecute", r, n), U("Sync", r))
    [] o = "exec_batch_prepared" -> Append(Repeat("BindExecute", r, n), U("Sync", r))
    [] o \in {"named_portal_sql", "portal_bind_sql"} -> <<U("ParseBind", r)>>
    [] o \in {"named_portal_prepared", "portal_bind_prepared", "lowlevel_bind"} -> <<U("Bind", r)>>
    [] o \in ExecuteOps      -> <<U("DescribeExecute", r)>>
    [] o = "lowlevel_close_portal" -> <<U("Close", r)>>
    [] o \in SyncOps         -> <<U("Sync", r)>>
    [] OTHER                 -> <<>>

\* The last of the results that g takes from e on, one element of q at a time.
Accumulate(g, e, q) ==
  LET f[i \in 0..Len(q)] == IF i = 0 THEN e ELSE g[<<f[i - 1], q[i]>>]
  IN  f[Len(q)]

\* Adds a unit of the kinds K to a sequence of units.
Keep(K) ==
  [p \in Seq(Unit) \X Unit |-> IF p[2].kind \in K THEN Append(p[1], p[2]) ELSE p[1]]

\* The units of q of the kinds K, in order.
OfKinds(q, K) == Accumulate(Keep(K), <<>>, q)

\* An identity that no unanswered unit carries.
Fresh(r) == \A i \in DOMAIN todo : todo[i].req # r
=============================================================================
