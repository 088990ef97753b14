----------------------------- MODULE PoolProofs -----------------------------
(***************************************************************************)
(* Proofs about module Pool, for any number of clients and permits and any *)
(* size of the idle queue.                                                 *)
(***************************************************************************)
EXTENDS Pool, FiniteSetTheorems, TLAPS

\* A client with a connection is where it also holds a permit.
HolderInv ==
  \A c \in Clients : conn[c] # None => pc[c] \in {"ping", "hold", "check_in"}

PermitInv == PoolTypeOK /\ HolderInv /\ PermitsConserved

\* A step leaves the permits as many as they are; a blocking get that fails loses one.
Kept == AllPermits' = AllPermits \/ (blocking /\ AllPermits' = AllPermits - 1)

-----------------------------------------------------------------------------
\* The clients with a permit are finitely many.
LEMMA PermitCount ==
  /\ IsFiniteSet(HasPermit) /\ Cardinality(HasPermit) \in Nat
  /\ IsFiniteSet(HasPermit)' /\ Cardinality(HasPermit)' \in Nat
<1>1. HasPermit \subseteq Clients /\ HasPermit' \subseteq Clients
  BY DEF HasPermit
<1>2. IsFiniteSet(HasPermit) /\ IsFiniteSet(HasPermit')
  BY <1>1, PoolAssumption, FS_Subset
<1>3. QED
  BY <1>2, FS_CardinalityType

\* A client that takes a permit is counted once more.
LEMMA Enters ==
  ASSUME PoolTypeOK, NEW c \in Clients, NEW s \in Steps \ {"idle", "acquire"},
         pc[c] \in {"idle", "acquire"}, pc' = [pc EXCEPT ![c] = s]
  PROVE  Cardinality(HasPermit)' = Cardinality(HasPermit) + 1
<1>1. c \notin HasPermit /\ HasPermit' = HasPermit \cup {c}
  BY DEF HasPermit, PoolTypeOK
<1>2. QED
  BY <1>1, PermitCount, FS_AddElement

\* A client that gives up its permit is counted once less.
LEMMA Leaves ==
  ASSUME PoolTypeOK, NEW c \in Clients, NEW s \in {"idle", "acquire"},
         pc[c] \notin {"idle", "acquire"}, pc' = [pc EXCEPT ![c] = s]
  PROVE  Cardinality(HasPermit)' = Cardinality(HasPermit) - 1
<1>1. c \in HasPermit /\ HasPermit' = HasPermit \ {c}
  BY DEF HasPermit, PoolTypeOK
<1>2. QED
  BY <1>1, PermitCount, FS_RemoveElement

\* Any other step of clients leaves the count alone.
LEMMA Stays ==
  ASSUME \A c \in Clients : pc'[c] \in {"idle", "acquire"} <=> pc[c] \in {"idle", "acquire"}
  PROVE  Cardinality(HasPermit)' = Cardinality(HasPermit)
<1>1. HasPermit' = HasPermit
  BY DEF HasPermit
<1>2. QED
  BY <1>1

-----------------------------------------------------------------------------
\* A new pool is well typed.
LEMMA PoolInitType == PoolInit => PoolTypeOK
  BY PoolAssumption DEF PoolInit, PoolTypeOK, Steps

\* Leaving the queue of waiters keeps its type.
LEMMA LeaveQueueType ==
  ASSUME PoolTypeOK, NEW c \in Clients, LeaveQueue(c)
  PROVE  waiters' \in Seq(Clients)
<1>1. waiters \in Seq(Clients) /\ DOMAIN waiters = 1..Len(waiters) /\ Len(waiters) \in Nat
  BY DEF PoolTypeOK
<1>2. PICK i \in 1..Len(waiters) :
        waiters' = SubSeq(waiters, 1, i - 1) \o SubSeq(waiters, i + 1, Len(waiters))
  BY <1>1 DEF LeaveQueue
<1>3. SubSeq(waiters, 1, i - 1) \in Seq(Clients)
  BY <1>1, <1>2
<1>4. SubSeq(waiters, i + 1, Len(waiters)) \in Seq(Clients)
  BY <1>1, <1>2
<1>5. QED
  BY <1>2, <1>3, <1>4

\* The oldest idle connection leaves the queue.
LEMMA IdleFacts ==
  ASSUME PoolTypeOK, conns # <<>>
  PROVE  Head(conns) \in Conns /\ Tail(conns) \in Seq(Conns) /\ Len(Tail(conns)) <= MaxIdle
<1>1. conns \in Seq(Conns) /\ Len(conns) \in Nat /\ Len(conns) <= MaxIdle /\ MaxIdle \in Nat
  BY PoolAssumption DEF PoolTypeOK
<1>2. Head(conns) \in Conns /\ Tail(conns) \in Seq(Conns) /\ Len(Tail(conns)) = Len(conns) - 1
  BY <1>1
<1>3. QED
  BY <1>1, <1>2

\* Dropping a connection keeps the types.
LEMMA ClosedType ==
  ASSUME PoolTypeOK, NEW k, Closed(k)
  PROVE  /\ session' \in [Conns -> {"none", "clean", "used", "tx"}]
         /\ is_broken' \in [Conns -> BOOLEAN]
         /\ astray' \in [Conns -> SUBSET {"behind", "deaf"}]
  BY DEF PoolTypeOK, Closed

\* The end of check_in keeps the types.
LEMMA CheckedInType ==
  ASSUME PoolTypeOK, NEW k \in Conns, CheckedIn(k)
  PROVE  /\ check_in' \in [Conns -> {"no", "start", "discard"}]
         /\ pc' \in [Clients -> Steps]
         /\ conn' \in [Clients -> Conns \cup {None}]
  BY DEF PoolTypeOK, CheckedIn, Steps

\* Every step of the pool keeps the types: one step per action.
LEMMA PoolNextType == PoolTypeOK /\ [PoolNext]_allvars => PoolTypeOK'
<1> SUFFICES ASSUME PoolTypeOK, [PoolNext]_allvars PROVE PoolTypeOK'
  OBVIOUS
<1> USE PoolAssumption
<1>0. blocking' = blocking
  BY DEF PoolNext, allvars
<1>1. ASSUME NEW c \in Clients, get(c) PROVE PoolTypeOK'
  BY <1>0, <1>1 DEF get, connection, PoolTypeOK, Steps
<1>2. ASSUME NEW c \in Clients, acquire(c) PROVE PoolTypeOK'
  BY <1>0, <1>2, LeaveQueueType DEF acquire, connection, PoolTypeOK, Steps
<1>3. ASSUME NEW c \in Clients, pop(c) PROVE PoolTypeOK'
  BY <1>0, <1>3, IdleFacts DEF pop, connection, PoolTypeOK, Steps
<1>4. ASSUME NEW c \in Clients, ping(c) PROVE PoolTypeOK'
  <2>1. pc' \in [Clients -> Steps] /\ conn' \in [Clients -> Conns \cup {None}]
    BY <1>4 DEF ping, PoolTypeOK, Steps
  <2>2. /\ session' \in [Conns -> {"none", "clean", "used", "tx"}]
        /\ is_broken' \in [Conns -> BOOLEAN]
        /\ astray' \in [Conns -> SUBSET {"behind", "deaf"}]
    BY <1>4, ClosedType DEF ping, PoolTypeOK
  <2>3. QED
    BY <1>0, <1>4, <2>1, <2>2 DEF ping, PoolTypeOK
<1>5. ASSUME NEW c \in Clients, connect(c) PROVE PoolTypeOK'
  <2>1. permits' \in Nat
    BY <1>5 DEF connect, PermitOfFailedGet, PoolTypeOK
  <2>2. pc' \in [Clients -> Steps]
    BY <1>5 DEF connect, PoolTypeOK, Steps
  <2>3. conn' \in [Clients -> Conns \cup {None}]
    BY <1>5 DEF connect, PoolTypeOK
  <2>4. session' \in [Conns -> {"none", "clean", "used", "tx"}]
    BY <1>5 DEF connect, PoolTypeOK
  <2>5. QED
    BY <1>0, <1>5, <2>1, <2>2, <2>3, <2>4 DEF connect, PoolTypeOK
<1>6. ASSUME NEW c \in Clients, cancel(c) PROVE PoolTypeOK'
  BY <1>0, <1>6, ClosedType, LeaveQueueType DEF cancel, connection, PoolTypeOK, Steps
<1>7. ASSUME NEW c \in Clients, use(c) PROVE PoolTypeOK'
  BY <1>0, <1>7 DEF use, PoolTypeOK
<1>8. ASSUME NEW c \in Clients, drop(c) PROVE PoolTypeOK'
  <2>1. permits' \in Nat
    BY <1>8 DEF drop, GiveBack, PoolTypeOK
  <2>2. pc' \in [Clients -> Steps] /\ conn' \in [Clients -> Conns \cup {None}]
    BY <1>8 DEF drop, GiveBack, PoolTypeOK, Steps
  <2>3. check_in' \in [Conns -> {"no", "start", "discard"}]
    BY <1>8 DEF drop, PoolTypeOK
  <2>4. QED
    BY <1>0, <1>8, <2>1, <2>2, <2>3 DEF drop, connection, PoolTypeOK
<1>9. ASSUME NEW c \in Clients, release(c) PROVE PoolTypeOK'
  BY <1>0, <1>9 DEF release, connection, PoolTypeOK, Steps
<1>10. ASSUME NEW k \in Conns, check_in_start(k) PROVE PoolTypeOK'
  BY <1>0, <1>10, ClosedType, CheckedInType DEF check_in_start, connection, PoolTypeOK
<1>11. ASSUME NEW k \in Conns, discard_all(k) PROVE PoolTypeOK'
  <2>1. conns' \in Seq(Conns) /\ Len(conns') <= MaxIdle
    <3>1. conns \in Seq(Conns) /\ Len(conns) \in Nat /\ Len(conns) <= MaxIdle
      BY DEF PoolTypeOK
    <3>2. CASE conns' = Append(conns, k) /\ Len(conns) < MaxIdle
      <4>1. Append(conns, k) \in Seq(Conns) /\ Len(Append(conns, k)) = Len(conns) + 1
        BY <3>1
      <4>2. QED
        BY <3>1, <3>2, <4>1
    <3>3. CASE conns' = conns
      BY <3>1, <3>3
    <3>4. QED
      BY <1>11, <3>2, <3>3 DEF discard_all, push, discard_failed
  <2>2. /\ session' \in [Conns -> {"none", "clean", "used", "tx"}]
        /\ is_broken' \in [Conns -> BOOLEAN]
        /\ astray' \in [Conns -> SUBSET {"behind", "deaf"}]
    BY <1>11, ClosedType DEF discard_all, push, Reset, discard_failed, PoolTypeOK
  <2>3. QED
    BY <1>0, <1>11, <2>1, <2>2, CheckedInType DEF discard_all, PoolTypeOK
<1>12. ASSUME NEW c \in Clients, lose_step(c) PROVE PoolTypeOK'
  <2>1. PICK left \in SUBSET {"behind", "deaf"} :
          astray' = [astray EXCEPT ![conn[c]] = left]
    BY <1>12 DEF lose_step
  <2>2. astray' \in [Conns -> SUBSET {"behind", "deaf"}]
    BY <2>1 DEF PoolTypeOK
  <2>3. /\ UNCHANGED <<permits, waiters, conns, pc>>
        /\ UNCHANGED <<conn, check_in, session, is_broken>>
    BY <1>12 DEF lose_step
  <2>4. QED
    BY <1>0, <2>2, <2>3 DEF PoolTypeOK
<1>13. CASE UNCHANGED poolvars
  BY <1>0, <1>13 DEF poolvars, connection, PoolTypeOK
<1>14. QED
  BY <1>1, <1>2, <1>3, <1>4, <1>5, <1>6, <1>7, <1>8, <1>9, <1>10, <1>11, <1>12, <1>13
  DEF PoolNext, allvars

\* The variables of the pool keep their types; the idle queue never exceeds
\* pool_max_idle_conn.
THEOREM PoolTypeCorrect == PoolSpec => []PoolTypeOK
<1>1. QED
  BY PoolInitType, PoolNextType, PTL DEF PoolSpec

-----------------------------------------------------------------------------
\* A step keeps the count right when permits and clients change together.
LEMMA PermitStep ==
  ASSUME PoolTypeOK, HolderInv, [PoolNext]_allvars
  PROVE  Kept /\ HolderInv'
<1> USE PoolAssumption DEF Kept
<1>0. permits \in Nat /\ pc \in [Clients -> Steps] /\ conn \in [Clients -> Conns \cup {None}]
  BY DEF PoolTypeOK
<1>1. ASSUME NEW c \in Clients, get(c) PROVE Kept /\ HolderInv'
  <2>1. Cardinality(HasPermit)' = Cardinality(HasPermit)
    BY <1>0, <1>1, Stays DEF get
  <2>2. QED
    BY <1>0, <1>1, <2>1 DEF get, AllPermits, HolderInv
<1>2. ASSUME NEW c \in Clients, acquire(c) PROVE Kept /\ HolderInv'
  <2>1. Cardinality(HasPermit)' = Cardinality(HasPermit) + 1
    BY <1>2, Enters DEF acquire, Steps
  <2>2. AllPermits' = AllPermits
    BY <1>0, <1>2, <2>1, PermitCount DEF acquire, AllPermits
  <2>3. QED
    BY <1>0, <1>2, <2>2 DEF acquire, AllPermits, HolderInv
<1>3. ASSUME NEW c \in Clients, pop(c) PROVE Kept /\ HolderInv'
  <2>1. Cardinality(HasPermit)' = Cardinality(HasPermit)
    BY <1>0, <1>3, Stays DEF pop
  <2>2. Kept
    BY <1>3, <2>1 DEF pop, AllPermits
  <2>3. HolderInv'
    BY <1>0, <1>3 DEF pop, HolderInv
  <2>4. QED
    BY <2>2, <2>3
<1>4. ASSUME NEW c \in Clients, ping(c) PROVE Kept /\ HolderInv'
  <2>1. Cardinality(HasPermit)' = Cardinality(HasPermit)
    BY <1>0, <1>4, Stays DEF ping
  <2>2. Kept
    BY <1>4, <2>1 DEF ping, AllPermits
  <2>3. HolderInv'
    BY <1>0, <1>4 DEF ping, HolderInv
  <2>4. QED
    BY <2>2, <2>3
<1>5. ASSUME NEW c \in Clients, connect(c) PROVE Kept /\ HolderInv'
  <2>1. HolderInv'
    BY <1>0, <1>5 DEF connect, HolderInv
  <2>2. CASE pc' = [pc EXCEPT ![c] = "hold"] /\ permits' = permits
    <3>1. Cardinality(HasPermit)' = Cardinality(HasPermit)
      BY <1>0, <1>5, <2>2, Stays DEF connect
    <3>2. QED
      BY <2>1, <2>2, <3>1 DEF AllPermits
  <2>3. CASE pc' = [pc EXCEPT ![c] = "idle"] /\ permits' = permits + 1
    <3>1. Cardinality(HasPermit)' = Cardinality(HasPermit) - 1
      BY <1>5, <2>3, Leaves DEF connect
    <3>2. AllPermits' = AllPermits
      BY <1>0, <2>3, <3>1, PermitCount DEF AllPermits
    <3>3. QED
      BY <2>1, <3>2 DEF AllPermits
  <2>4. CASE pc' = [pc EXCEPT ![c] = "idle"] /\ permits' = permits /\ blocking
    <3>1. Cardinality(HasPermit)' = Cardinality(HasPermit) - 1
      BY <1>5, <2>4, Leaves DEF connect
    <3>2. AllPermits' = AllPermits - 1
      BY <1>0, <2>4, <3>1, PermitCount DEF AllPermits
    <3>3. QED
      BY <2>1, <2>4, <3>2
  <2>5. QED
    BY <1>5, <2>2, <2>3, <2>4 DEF connect, PermitOfFailedGet
<1>6. ASSUME NEW c \in Clients, cancel(c) PROVE Kept /\ HolderInv'
  <2>1. pc' = [pc EXCEPT ![c] = "idle"]
    BY <1>6 DEF cancel
  <2>2. HolderInv'
    BY <1>0, <1>6, <2>1 DEF cancel, HolderInv
  <2>3. CASE pc[c] = "acquire" /\ permits' = permits
    <3>1. Cardinality(HasPermit)' = Cardinality(HasPermit)
      BY <1>0, <2>1, <2>3, Stays
    <3>2. QED
      BY <2>2, <2>3, <3>1 DEF AllPermits
  <2>4. CASE pc[c] \in {"ping", "connect"} /\ permits' = permits + 1
    <3>1. Cardinality(HasPermit)' = Cardinality(HasPermit) - 1
      BY <2>1, <2>4, Leaves
    <3>2. AllPermits' = AllPermits
      BY <1>0, <2>4, <3>1, PermitCount DEF AllPermits
    <3>3. QED
      BY <2>2, <3>2 DEF AllPermits
  <2>5. QED
    BY <1>6, <2>3, <2>4 DEF cancel
<1>7. ASSUME NEW c \in Clients, use(c) \/ lose_step(c) PROVE Kept /\ HolderInv'
  <2>1. UNCHANGED <<permits, pc, conn>>
    BY <1>7 DEF use, lose_step
  <2>2. QED
    BY <2>1, Stays DEF AllPermits, HolderInv
<1>8. ASSUME NEW c \in Clients, drop(c) PROVE Kept /\ HolderInv'
  <2>1. CASE /\ permits' = permits + 1 /\ pc' = [pc EXCEPT ![c] = "idle"]
             /\ conn' = [conn EXCEPT ![c] = None] /\ pc[c] = "hold"
    <3>1. Cardinality(HasPermit)' = Cardinality(HasPermit) - 1
      BY <2>1, Leaves
    <3>2. AllPermits' = AllPermits
      BY <1>0, <2>1, <3>1, PermitCount DEF AllPermits
    <3>3. HolderInv'
      BY <1>0, <2>1 DEF HolderInv
    <3>4. QED
      BY <3>2, <3>3
  <2>2. CASE /\ UNCHANGED <<permits, conn>> /\ pc' = [pc EXCEPT ![c] = "check_in"]
             /\ pc[c] = "hold"
    <3>1. Cardinality(HasPermit)' = Cardinality(HasPermit)
      BY <1>0, <2>2, Stays
    <3>2. QED
      BY <1>0, <2>2, <3>1 DEF AllPermits, HolderInv
  <2>3. QED
    BY <1>8, <2>1, <2>2 DEF drop, GiveBack
<1>9. ASSUME NEW c \in Clients, release(c) PROVE Kept /\ HolderInv'
  <2>1. Cardinality(HasPermit)' = Cardinality(HasPermit) - 1
    BY <1>9, Leaves DEF release
  <2>2. AllPermits' = AllPermits
    BY <1>0, <1>9, <2>1, PermitCount DEF release, AllPermits
  <2>3. HolderInv'
    BY <1>0, <1>9 DEF release, HolderInv
  <2>4. QED
    BY <2>2, <2>3 DEF AllPermits
<1>10. ASSUME NEW k \in Conns, CheckedIn(k), permits' = permits
       PROVE  Kept /\ HolderInv'
  <2>1. \A c \in Clients : pc'[c] \in {"idle", "acquire"} <=> pc[c] \in {"idle", "acquire"}
    BY <1>0, <1>10 DEF CheckedIn, HolderInv
  <2>2. Cardinality(HasPermit)' = Cardinality(HasPermit)
    BY <2>1, Stays
  <2>3. HolderInv'
    BY <1>0, <1>10 DEF CheckedIn, HolderInv
  <2>4. QED
    BY <1>10, <2>2, <2>3 DEF AllPermits
<1>11. ASSUME UNCHANGED <<permits, pc, conn>> PROVE Kept /\ HolderInv'
  BY <1>11, Stays DEF AllPermits, HolderInv
<1>12. ASSUME NEW k \in Conns, check_in_start(k) \/ discard_all(k)
       PROVE  Kept /\ HolderInv'
  BY <1>10, <1>11, <1>12 DEF check_in_start, discard_all
<1>13. QED
  BY <1>1, <1>2, <1>3, <1>4, <1>5, <1>6, <1>7, <1>8, <1>9, <1>11, <1>12 DEF PoolNext, allvars, poolvars

\* A new pool has all its permits.
LEMMA PermitStart == PoolInit => AllPermits = MaxConcurrency /\ HolderInv
<1> SUFFICES ASSUME PoolInit PROVE AllPermits = MaxConcurrency /\ HolderInv
  OBVIOUS
<1>1. HasPermit = {}
  BY DEF PoolInit, HasPermit
<1>2. Cardinality(HasPermit) = 0
  BY <1>1, FS_EmptySet
<1>3. QED
  BY <1>2, PoolAssumption DEF PoolInit, AllPermits, HolderInv

LEMMA PermitInit == PoolInit => PermitInv
  BY PoolInitType, PermitStart, PoolAssumption DEF PermitInv, PermitsConserved

LEMMA PermitNext ==
  ASSUME PermitInv, [PoolNext]_allvars
  PROVE  PermitInv'
<1>1. PoolTypeOK' /\ Kept /\ HolderInv'
  BY PoolNextType, PermitStep DEF PermitInv
<1>2. blocking' = blocking
  BY DEF PoolNext, allvars
<1>3. AllPermits \in Nat
  BY PermitCount DEF PermitInv, PoolTypeOK, AllPermits
<1>4. PermitsConserved'
  BY <1>1, <1>2, <1>3, PoolAssumption DEF PermitInv, PermitsConserved, Kept
<1>5. QED
  BY <1>1, <1>4 DEF PermitInv

\* No permit of the tokio pool is lost or made up, however many gets fail or are
\* cancelled at any await and however check-in tasks are delayed; the blocking pool
\* makes up none.
THEOREM PermitsKept == PoolSpec => []PermitsConserved
<1>1. PermitInv /\ [PoolNext]_allvars => PermitInv'
  BY PermitNext
<1>2. PermitInv => PermitsConserved
  BY DEF PermitInv
<1>3. QED
  BY PermitInit, <1>1, <1>2, PTL DEF PoolSpec

-----------------------------------------------------------------------------
(***************************************************************************)
(* Both pools keep the contract of module PoolContract, for any number of  *)
(* clients and connections and any limits.                                 *)
(*                                                                         *)
(* That a connection has one place follows from an inductive invariant:    *)
(* the idle queue holds a connection once, clean unless it is astray, and  *)
(* nobody has it (QueueInv); a client that pings, holds or checks in has an open         *)
(* connection of its own (OwnerInv); and check_in works on an open one     *)
(* (CheckInInv).  The blocking pool runs check_in in the client, which     *)
(* keeps the connection meanwhile.                                         *)
(*                                                                         *)
(* The bound on the connections of the blocking pool follows from that and *)
(* the count of permits: every open connection is idle or with a client    *)
(* that holds a permit (Owned).                                            *)
(***************************************************************************)

Distinct == \A i, j \in 1..Len(conns) : conns[i] = conns[j] => i = j

QueueInv ==
  \A k \in Conns : Idle(k) =>
    /\ session[k] = "clean" \/ Astray(k)
    /\ session[k] # "none" /\ ~is_broken[k] /\ check_in[k] = "no"
    /\ \A c \in Clients : conn[c] # k

OwnerInv ==
  \A c \in Clients :
    /\ pc[c] \in {"ping", "hold", "check_in"} <=> conn[c] \in Conns
    /\ conn[c] \in Conns => /\ session[conn[c]] # "none"
                            /\ check_in[conn[c]] = "no" <=> pc[c] # "check_in"
                            /\ \A d \in Clients : conn[d] = conn[c] => d = c

CheckInInv ==
  \A k \in Conns :
    /\ check_in[k] # "no" => session[k] # "none"
    /\ check_in[k] = "discard" \/ session[k] = "none" => ~is_broken[k]
    /\ session[k] = "none" => ~Astray(k)

LendInv == PoolTypeOK /\ Distinct /\ QueueInv /\ OwnerInv /\ CheckInInv

-----------------------------------------------------------------------------
\* The oldest idle connection leaves the queue.
LEMMA TakeFirst ==
  ASSUME PoolTypeOK, Distinct, conns # <<>>, NEW first, first = Head(conns),
         conns' = Tail(conns)
  PROVE  /\ first \in Conns
         /\ Idle(first) /\ ~Idle(first)'
         /\ \A k \in Conns \ {first} : Idle(k)' <=> Idle(k)
         /\ Distinct'
<1>1. /\ conns \in Seq(Conns) /\ Len(conns) \in Nat /\ DOMAIN conns = 1..Len(conns)
  BY DEF PoolTypeOK
<1>2. Len(conns) >= 1 /\ first = conns[1] /\ first \in Conns
  BY <1>1
<1>3. Len(conns') = Len(conns) - 1 /\ DOMAIN conns' = 1..(Len(conns) - 1)
  BY <1>1, <1>2
<1>4. \A i \in 1..(Len(conns) - 1) : conns'[i] = conns[i + 1]
  BY <1>1, <1>2
<1>5. Distinct'
  BY <1>1, <1>3, <1>4 DEF Distinct
<1>6. Idle(first)
  BY <1>1, <1>2 DEF Idle
<1>7. ~Idle(first)'
  <2>1. ASSUME NEW i \in 1..(Len(conns) - 1), conns'[i] = first
        PROVE  FALSE
    BY <2>1, <1>1, <1>2, <1>4 DEF Distinct
  <2>2. QED
    BY <2>1, <1>3 DEF Idle
<1>8. ASSUME NEW k \in Conns, k # first
      PROVE  Idle(k)' <=> Idle(k)
  <2>1. Idle(k)' <=> \E i \in 1..(Len(conns) - 1) : conns[i + 1] = k
    BY <1>3, <1>4 DEF Idle
  <2>2. Idle(k) <=> \E i \in 1..Len(conns) : conns[i] = k
    BY <1>1 DEF Idle
  <2>3. ASSUME NEW i \in 1..Len(conns), conns[i] = k
        PROVE  \E j \in 1..(Len(conns) - 1) : conns[j + 1] = k
    <3>1. i - 1 \in 1..(Len(conns) - 1) /\ conns[(i - 1) + 1] = k
      BY <1>1, <1>2, <1>8, <2>3
    <3>2. QED
      BY <3>1
  <2>4. ASSUME NEW i \in 1..(Len(conns) - 1), conns[i + 1] = k
        PROVE  \E j \in 1..Len(conns) : conns[j] = k
    <3>1. i + 1 \in 1..Len(conns)
      BY <1>1, <1>2
    <3>2. QED
      BY <2>4, <3>1
  <2>5. QED
    BY <2>1, <2>2, <2>3, <2>4
<1>9. QED
  BY <1>2, <1>5, <1>6, <1>7, <1>8

\* Putting a connection into the queue.
LEMMA PushLast ==
  ASSUME PoolTypeOK, Distinct, NEW k \in Conns, ~Idle(k), Len(conns) < MaxIdle,
         conns' = Append(conns, k)
  PROVE  /\ Idle(k)'
         /\ \A j \in Conns \ {k} : Idle(j)' <=> Idle(j)
         /\ Distinct'
<1>1. /\ conns \in Seq(Conns) /\ Len(conns) \in Nat /\ MaxIdle \in Nat
      /\ DOMAIN conns = 1..Len(conns)
  BY PoolAssumption DEF PoolTypeOK
<1>2. /\ conns' \in Seq(Conns) /\ Len(conns') = Len(conns) + 1
      /\ DOMAIN conns' = 1..(Len(conns) + 1)
      /\ conns'[Len(conns) + 1] = k
  BY <1>1
<1>3. \A i \in 1..Len(conns) : conns'[i] = conns[i]
  BY <1>1
<1>4. \A i \in 1..Len(conns) : conns[i] # k
  BY <1>1 DEF Idle
<1>5. Distinct'
  BY <1>1, <1>2, <1>3, <1>4 DEF Distinct
<1>6. ASSUME NEW j
      PROVE  Idle(j)' <=> Idle(j) \/ j = k
  <2>1. Idle(j)' <=> \E i \in 1..(Len(conns) + 1) : conns'[i] = j
    BY <1>2 DEF Idle
  <2>2. Idle(j) <=> \E i \in 1..Len(conns) : conns[i] = j
    BY <1>1 DEF Idle
  <2>3. QED
    BY <2>1, <2>2, <1>1, <1>2, <1>3
<1>7. QED
  BY <1>1, <1>2, <1>5, <1>6

-----------------------------------------------------------------------------
\* The types of a connection's place once its state is known.
LEMMA PlaceFacts ==
  \A k :
    /\ session[k] = "none" => Place(k) = "closed"
    /\ session[k] # "none" /\ check_in[k] # "no" => Place(k) = "back"
    /\ session[k] # "none" /\ check_in[k] = "no" /\ Idle(k) => Place(k) = "idle"
    /\ session[k] # "none" /\ check_in[k] = "no" /\ ~Idle(k) => Place(k) = "out"
  BY DEF Place

LEMMA PlaceFactsNext ==
  \A k :
    /\ session'[k] = "none" => Place(k)' = "closed"
    /\ session'[k] # "none" /\ check_in'[k] # "no" => Place(k)' = "back"
    /\ session'[k] # "none" /\ check_in'[k] = "no" /\ Idle(k)' => Place(k)' = "idle"
    /\ session'[k] # "none" /\ check_in'[k] = "no" /\ ~Idle(k)' => Place(k)' = "out"
  BY DEF Place

\* What stays for a connection whose state stays.
LEMMA Unmoved ==
  ASSUME NEW k, session'[k] = session[k], check_in'[k] = check_in[k],
         Idle(k)' <=> Idle(k), is_broken'[k] = is_broken[k], Astray(k)' = Astray(k)
  PROVE  Place(k)' = Place(k) /\ Clean(k)' = Clean(k)
  BY DEF Place, Clean

\* A call that reads an answer leaves a connection in step, or astray, as it was.
LEMMA LeavesFacts ==
  ASSUME NEW k \in Conns, PoolTypeOK, NEW left, LeavesUnread(k, left),
         astray' = [astray EXCEPT ![k] = left]
  PROVE  \A j \in Conns : Astray(j)' = Astray(j)
<1>1. (left # {}) = (astray[k] # {})
  BY DEF LeavesUnread
<1>2. astray'[k] = left /\ \A j \in Conns \ {k} : astray'[j] = astray[j]
  BY DEF PoolTypeOK
<1>3. QED
  BY <1>1, <1>2 DEF Astray

\* A connection moves and the others stay.
LEMMA MoveFacts ==
  ASSUME NEW k \in Conns, NEW from, NEW to, NEW who,
         Place(k) = from, Place(k)' = to, Holders(k)' = who,
         \A j \in Conns \ {k} : Place(j)' = Place(j) /\ Holders(j)' = Holders(j)
  PROVE  Contract!Move(k, from, to, who)
  BY DEF Contract!Move

\* A connection that is closed, the others as they were.
LEMMA DiscardFacts ==
  ASSUME NEW k \in Conns, Place(k) \in {"out", "back"}, Place(k)' = "closed",
         Holders(k)' = {}, Clean(k)' = FALSE, Astray(k)' = FALSE,
         \A j \in Conns \ {k} : /\ Place(j)' = Place(j) /\ Holders(j)' = Holders(j)
                               /\ Clean(j)' = Clean(j) /\ Astray(j)' = Astray(j)
  PROVE  Contract!Discard(k)
<1>1. \E from \in {"out", "back"} : Contract!Move(k, from, "closed", {})
  BY MoveFacts
<1>2. [j \in Conns |-> Clean(j)]' = [[j \in Conns |-> Clean(j)] EXCEPT ![k] = FALSE]
  OBVIOUS
<1>3. [j \in Conns |-> Astray(j)]' = [[j \in Conns |-> Astray(j)] EXCEPT ![k] = FALSE]
  OBVIOUS
<1>4. QED
  BY <1>1, <1>2, <1>3 DEF Contract!Discard, Contract!Gone

LEMMA StutterFacts ==
  ASSUME \A j \in Conns : /\ Place(j)' = Place(j) /\ Holders(j)' = Holders(j)
                         /\ Clean(j)' = Clean(j) /\ Astray(j)' = Astray(j)
  PROVE  UNCHANGED Contract!contract
  BY DEF Contract!contract

-----------------------------------------------------------------------------
\* Idleness depends on the queue alone.
LEMMA QueueFrame == UNCHANGED conns => Distinct' = Distinct /\ \A k : Idle(k)' = Idle(k)
  BY DEF Distinct, Idle

\* What the invariant says of a client that pings or holds a connection.
LEMMA OwnerFacts ==
  ASSUME LendInv, NEW c \in Clients, pc[c] \in {"ping", "hold"}
  PROVE  /\ conn[c] \in Conns /\ conn[c] # None
         /\ session[conn[c]] # "none" /\ check_in[conn[c]] = "no"
         /\ ~Idle(conn[c]) /\ Holders(conn[c]) = {c}
         /\ \A d \in Clients : conn[d] = conn[c] => d = c
<1>1. /\ conn[c] \in Conns /\ session[conn[c]] # "none" /\ check_in[conn[c]] = "no"
      /\ \A d \in Clients : conn[d] = conn[c] => d = c
  BY DEF LendInv, OwnerInv
<1>2. Holders(conn[c]) = {c}
  BY <1>1 DEF Holders
<1>3. ~Idle(conn[c])
  BY <1>1 DEF LendInv, QueueInv
<1>4. QED
  BY <1>1, <1>2, <1>3, PoolAssumption

\* A connection being checked in is not idle, and no get or client has it.
LEMMA BackFacts ==
  ASSUME LendInv, NEW k \in Conns, check_in[k] # "no"
  PROVE  Holders(k) = {} /\ ~Idle(k) /\ session[k] # "none" /\ Place(k) = "back"
<1>1. Holders(k) = {}
  BY DEF LendInv, OwnerInv, Holders
<1>2. ~Idle(k) /\ session[k] # "none"
  BY DEF LendInv, QueueInv, CheckInInv
<1>3. QED
  BY <1>1, <1>2, PlaceFacts

\* A closed connection is nowhere.
LEMMA ClosedFacts ==
  ASSUME LendInv, NEW k \in Conns, session[k] = "none"
  PROVE  Holders(k) = {} /\ ~Idle(k) /\ check_in[k] = "no" /\ ~is_broken[k] /\ ~Astray(k)
         /\ \A c \in Clients : conn[c] # k
<1>1. \A c \in Clients : conn[c] # k
  BY DEF LendInv, OwnerInv
<1>2. QED
  BY <1>1 DEF LendInv, QueueInv, CheckInInv, PoolTypeOK, Holders

\* A new pool: no connection is open.
LEMMA LendInit == PoolInit => LendInv /\ Contract!ContractInit
<1> SUFFICES ASSUME PoolInit PROVE LendInv /\ Contract!ContractInit
  OBVIOUS
<1>1. PoolTypeOK /\ Distinct
  BY PoolInitType DEF PoolInit, Distinct
<1>2. \A k \in Conns : ~Idle(k)
  BY DEF PoolInit, Idle
<1>3. QueueInv /\ OwnerInv /\ CheckInInv
  BY <1>2, PoolAssumption DEF PoolInit, QueueInv, OwnerInv, CheckInInv, Astray
<1>4. \A k \in Conns : /\ Place(k) = "closed" /\ Holders(k) = {}
                       /\ Clean(k) = FALSE /\ Astray(k) = FALSE
  BY PoolAssumption DEF PoolInit, Place, Clean, Holders, Astray
<1>5. QED
  BY <1>1, <1>3, <1>4 DEF LendInv, Contract!ContractInit

\* Steps of a client that has no connection, or keeps it, are not seen.
LEMMA Unseen ==
  ASSUME LendInv, PoolTypeOK', UNCHANGED <<conns, conn, check_in, session, is_broken>>,
         \A k \in Conns : Astray(k)' = Astray(k),
         \A c \in Clients :
           \/ pc'[c] = pc[c]
           \/ pc[c] = "ping" /\ pc'[c] = "hold"
           \/ pc[c] \notin {"ping", "hold", "check_in"}
              /\ pc'[c] \notin {"ping", "hold", "check_in"}
  PROVE  LendInv' /\ UNCHANGED Contract!contract
<1>1. Distinct' /\ \A k : Idle(k)' = Idle(k)
  BY QueueFrame DEF LendInv
<1>2. QueueInv' /\ CheckInInv'
  BY <1>1 DEF LendInv, QueueInv, CheckInInv
<1>3. OwnerInv'
  BY DEF LendInv, OwnerInv
<1>4. \A k \in Conns : Holders(k)' = Holders(k)
  BY PoolAssumption DEF LendInv, OwnerInv, Holders
<1>5. \A k \in Conns : Place(k)' = Place(k) /\ Clean(k)' = Clean(k)
  BY <1>1, Unmoved
<1>6. QED
  BY <1>1, <1>2, <1>3, <1>4, <1>5, StutterFacts DEF LendInv

\* pop lends the oldest idle connection, or goes on to open one.
LEMMA PopStep ==
  ASSUME LendInv, PoolTypeOK', NEW c \in Clients, pop(c)
  PROVE  LendInv' /\ [Contract!ContractNext]_(Contract!contract)
<1>1. /\ PoolTypeOK /\ OwnerInv /\ QueueInv /\ CheckInInv /\ Distinct /\ pc[c] = "pop"
      /\ conn[c] \notin Conns /\ UNCHANGED <<check_in, session, is_broken, astray>>
      /\ \A k \in Conns : Astray(k)' = Astray(k)
  BY DEF LendInv, pop, connection, OwnerInv, Astray
<1>2. CASE conns = <<>>
  <2>1. pc' = [pc EXCEPT ![c] = "connect"] /\ UNCHANGED <<conns, conn>>
    BY <1>2 DEF pop
  <2>2. \A d \in Clients :
          \/ pc'[d] = pc[d]
          \/ pc[d] \notin {"ping", "hold", "check_in"} /\ pc'[d] \notin {"ping", "hold", "check_in"}
    BY <1>1, <2>1 DEF PoolTypeOK
  <2>3. QED
    BY <1>1, <2>1, <2>2, Unseen
<1>3. CASE conns # <<>>
  <2>1. PICK first :
          /\ first = Head(conns) /\ conns' = Tail(conns)
          /\ conn' = [conn EXCEPT ![c] = first] /\ pc' = [pc EXCEPT ![c] = "ping"]
    BY <1>3 DEF pop
  <2>2. /\ first \in Conns /\ Idle(first) /\ ~Idle(first)'
        /\ \A k \in Conns \ {first} : Idle(k)' <=> Idle(k)
        /\ Distinct'
    BY <1>1, <1>3, <2>1, TakeFirst
  <2>3. /\ session[first] = "clean" \/ Astray(first)
        /\ session[first] # "none" /\ ~is_broken[first] /\ check_in[first] = "no"
        /\ \A d \in Clients : conn[d] # first
    BY <1>1, <2>2 DEF QueueInv
  <2>4. conn'[c] = first /\ pc'[c] = "ping"
        /\ \A d \in Clients \ {c} : conn'[d] = conn[d] /\ pc'[d] = pc[d]
    BY <1>1, <2>1 DEF PoolTypeOK
  <2>5. OwnerInv'
    BY <1>1, <2>2, <2>3, <2>4 DEF OwnerInv
  <2>6. QueueInv' /\ CheckInInv'
    BY <1>1, <2>2, <2>4 DEF QueueInv, CheckInInv
  <2>7. Place(first) = "idle" /\ Place(first)' = "out" /\ (Clean(first) \/ Astray(first))
    BY <1>1, <2>2, <2>3, PlaceFacts, PlaceFactsNext DEF Clean
  <2>8. Holders(first)' = {c} /\ \A k \in Conns \ {first} : Holders(k)' = Holders(k)
    BY <1>1, <2>3, <2>4 DEF Holders
  <2>9. /\ \A k \in Conns \ {first} : Place(k)' = Place(k)
        /\ \A k \in Conns : Clean(k)' = Clean(k)
    BY <1>1, <2>2, Unmoved DEF Clean
  <2>10. Contract!Lend(c, first)
    BY <1>1, <2>2, <2>7, <2>8, <2>9, MoveFacts DEF Contract!Lend, Contract!Fit
  <2>11. QED
    BY <2>2, <2>5, <2>6, <2>10 DEF LendInv, Contract!ContractNext
<1>4. QED
  BY <1>2, <1>3

\* A get drops the connection it pinged.
LEMMA DropDead ==
  ASSUME LendInv, PoolTypeOK', NEW c \in Clients, NEW s \in {"pop", "idle"},
         pc[c] = "ping", Closed(conn[c]), conn' = [conn EXCEPT ![c] = None],
         pc' = [pc EXCEPT ![c] = s], UNCHANGED <<conns, check_in>>
  PROVE  LendInv' /\ [Contract!ContractNext]_(Contract!contract)
<1>1. PoolTypeOK /\ OwnerInv /\ QueueInv /\ CheckInInv
  BY DEF LendInv
<1>2. PICK dead \in Conns :
        /\ dead = conn[c] /\ ~Idle(dead) /\ check_in[dead] = "no" /\ session[dead] # "none"
        /\ Holders(dead) = {c} /\ \A d \in Clients : conn[d] = dead => d = c
  BY OwnerFacts
<1>3. /\ session'[dead] = "none" /\ is_broken'[dead] = FALSE /\ Astray(dead)' = FALSE
      /\ \A k \in Conns \ {dead} : /\ session'[k] = session[k] /\ is_broken'[k] = is_broken[k]
                                   /\ Astray(k)' = Astray(k)
  BY <1>1, <1>2 DEF PoolTypeOK, Closed, Astray
<1>4. /\ conn'[c] = None /\ pc'[c] = s
      /\ \A d \in Clients \ {c} : conn'[d] = conn[d] /\ pc'[d] = pc[d]
  BY <1>1 DEF PoolTypeOK
<1>5. Distinct' /\ \A k : Idle(k)' = Idle(k)
  BY QueueFrame DEF LendInv
<1>6. OwnerInv'
  BY <1>1, <1>2, <1>3, <1>4, PoolAssumption DEF OwnerInv
<1>7. QueueInv' /\ CheckInInv'
  BY <1>1, <1>2, <1>3, <1>4, <1>5, PoolAssumption DEF QueueInv, CheckInInv
<1>8. Place(dead) = "out" /\ Place(dead)' = "closed" /\ Clean(dead)' = FALSE
  BY <1>2, <1>3, PlaceFacts, PlaceFactsNext DEF Clean
<1>9. Holders(dead)' = {} /\ \A k \in Conns \ {dead} : Holders(k)' = Holders(k)
  BY <1>2, <1>4, PoolAssumption DEF Holders
<1>10. \A k \in Conns \ {dead} : Place(k)' = Place(k) /\ Clean(k)' = Clean(k)
  BY <1>3, <1>5, Unmoved
<1>11. Contract!Discard(dead)
  BY <1>3, <1>8, <1>9, <1>10, DiscardFacts
<1>12. QED
  BY <1>5, <1>6, <1>7, <1>11 DEF LendInv, Contract!ContractNext

\* connect opens a connection, or fails.
LEMMA ConnectStep ==
  ASSUME LendInv, PoolTypeOK', NEW c \in Clients, connect(c)
  PROVE  LendInv' /\ [Contract!ContractNext]_(Contract!contract)
<1>1. /\ PoolTypeOK /\ OwnerInv /\ QueueInv /\ CheckInInv /\ pc[c] = "connect"
      /\ conn[c] \notin Conns /\ UNCHANGED <<conns, check_in, is_broken>>
      /\ \A k \in Conns : Astray(k)' = Astray(k)
  BY DEF LendInv, connect, OwnerInv, Astray
<1>2. Distinct' /\ \A k : Idle(k)' = Idle(k)
  BY <1>1, QueueFrame DEF LendInv
<1>3. ASSUME NEW k \in Conns, session[k] = "none", conn' = [conn EXCEPT ![c] = k],
             session' = [session EXCEPT ![k] = "clean"], pc' = [pc EXCEPT ![c] = "hold"]
      PROVE  LendInv' /\ [Contract!ContractNext]_(Contract!contract)
  <2>1. /\ check_in[k] = "no" /\ ~is_broken[k] /\ Holders(k) = {} /\ ~Idle(k) /\ ~Astray(k)
        /\ \A d \in Clients : conn[d] # k
    BY <1>3, ClosedFacts
  <2>2. session'[k] = "clean" /\ \A j \in Conns \ {k} : session'[j] = session[j]
    BY <1>1, <1>3 DEF PoolTypeOK
  <2>3. /\ conn'[c] = k /\ pc'[c] = "hold"
        /\ \A d \in Clients \ {c} : conn'[d] = conn[d] /\ pc'[d] = pc[d]
    BY <1>1, <1>3 DEF PoolTypeOK
  <2>4. OwnerInv'
    BY <1>1, <2>1, <2>2, <2>3 DEF OwnerInv
  <2>5. QueueInv' /\ CheckInInv'
    BY <1>1, <1>2, <2>1, <2>2, <2>3 DEF QueueInv, CheckInInv
  <2>6. Place(k) = "closed" /\ Place(k)' = "out" /\ Clean(k)' = TRUE
    BY <1>1, <1>2, <1>3, <2>1, <2>2, PlaceFacts, PlaceFactsNext DEF Clean
  <2>7. Holders(k)' = {c} /\ \A j \in Conns \ {k} : Holders(j)' = Holders(j)
    BY <1>1, <2>1, <2>3 DEF Holders
  <2>8. \A j \in Conns \ {k} : Place(j)' = Place(j) /\ Clean(j)' = Clean(j)
    BY <1>1, <1>2, <2>2, Unmoved
  <2>9. Contract!Move(k, "closed", "out", {c})
    BY <2>6, <2>7, <2>8, MoveFacts
  <2>10. [j \in Conns |-> Clean(j)]' = [[j \in Conns |-> Clean(j)] EXCEPT ![k] = TRUE]
    BY <2>6, <2>8
  <2>11. Contract!Open(c, k)
    BY <1>1, <2>1, <2>9, <2>10 DEF Contract!Open
  <2>12. QED
    BY <1>2, <2>4, <2>5, <2>11 DEF LendInv, Contract!ContractNext
<1>4. ASSUME pc' = [pc EXCEPT ![c] = "idle"], UNCHANGED <<conn, session>>
      PROVE  LendInv' /\ [Contract!ContractNext]_(Contract!contract)
  <2>1. \A d \in Clients :
          \/ pc'[d] = pc[d]
          \/ pc[d] \notin {"ping", "hold", "check_in"} /\ pc'[d] \notin {"ping", "hold", "check_in"}
    BY <1>1, <1>4 DEF PoolTypeOK
  <2>2. QED
    BY <1>1, <1>4, <2>1, Unseen
<1>5. QED
  BY <1>3, <1>4 DEF connect

\* Only the holder uses a connection.
LEMMA UseStep ==
  ASSUME LendInv, PoolTypeOK', NEW c \in Clients, use(c) \/ lose_step(c)
  PROVE  LendInv' /\ [Contract!ContractNext]_(Contract!contract)
<1>1. PoolTypeOK /\ OwnerInv /\ QueueInv /\ CheckInInv /\ UNCHANGED <<conns, pc, conn, check_in>>
  BY DEF LendInv, use, lose_step
<1>2. PICK k \in Conns : /\ k = conn[c] /\ ~Idle(k) /\ check_in[k] = "no"
                         /\ session[k] # "none"
  BY OwnerFacts DEF use, lose_step
<1>3. \/ /\ \E s \in {"used", "tx"} : session' = [session EXCEPT ![k] = s]
         /\ UNCHANGED <<is_broken, astray>>
      \/ is_broken' = [is_broken EXCEPT ![k] = TRUE] /\ UNCHANGED <<session, astray>>
      \/ (\E left : astray' = [astray EXCEPT ![k] = left]) /\ UNCHANGED <<session, is_broken>>
  BY <1>2 DEF use, lose_step
<1>4. /\ session'[k] # "none"
      /\ \A j \in Conns \ {k} : /\ session'[j] = session[j] /\ is_broken'[j] = is_broken[j]
                                /\ Astray(j)' = Astray(j)
  BY <1>1, <1>2, <1>3 DEF PoolTypeOK, Astray
<1>5. /\ Distinct' /\ \A j : Idle(j)' = Idle(j)
      /\ \A j : Holders(j)' = Holders(j)
  BY <1>1, QueueFrame DEF LendInv, Holders
<1>6. OwnerInv'
  BY <1>1, <1>4 DEF OwnerInv
<1>7. QueueInv' /\ CheckInInv'
  BY <1>1, <1>2, <1>4, <1>5 DEF QueueInv, CheckInInv
<1>8. \A j \in Conns \ {k} : Place(j)' = Place(j) /\ Clean(j)' = Clean(j)
  BY <1>1, <1>4, <1>5, Unmoved
<1>9. Place(k) = "out" /\ Place(k)' = "out"
  BY <1>1, <1>2, <1>4, <1>5, PlaceFacts, PlaceFactsNext
<1>10. Contract!Use(k)
  BY <1>4, <1>5, <1>8, <1>9 DEF Contract!Use, Contract!Only
<1>11. QED
  BY <1>5, <1>6, <1>7, <1>10 DEF LendInv, Contract!ContractNext

\* PooledConn is dropped: the connection is the pool's again.
LEMMA DropStep ==
  ASSUME LendInv, PoolTypeOK', NEW c \in Clients, drop(c)
  PROVE  LendInv' /\ [Contract!ContractNext]_(Contract!contract)
<1>1. /\ PoolTypeOK /\ OwnerInv /\ QueueInv /\ CheckInInv /\ pc[c] = "hold"
      /\ UNCHANGED <<conns, session, is_broken>>
      /\ \A k \in Conns : Astray(k)' = Astray(k)
  BY DEF LendInv, drop, connection, Astray
<1>2. PICK k \in Conns : /\ k = conn[c] /\ ~Idle(k) /\ check_in[k] = "no"
                         /\ session[k] # "none" /\ Holders(k) = {c}
                         /\ \A d \in Clients : conn[d] = k => d = c
  BY <1>1, OwnerFacts
<1>3. check_in'[k] = "start" /\ \A j \in Conns \ {k} : check_in'[j] = check_in[j]
  BY <1>1, <1>2 DEF drop, PoolTypeOK
<1>4. /\ \/ conn'[c] = k /\ pc'[c] = "check_in"
         \/ conn'[c] = None /\ pc'[c] = "idle"
      /\ \A d \in Clients \ {c} : conn'[d] = conn[d] /\ pc'[d] = pc[d]
  BY <1>1, <1>2 DEF drop, GiveBack, PoolTypeOK
<1>5. Distinct' /\ \A j : Idle(j)' = Idle(j)
  BY <1>1, QueueFrame DEF LendInv
<1>6. OwnerInv'
  BY <1>1, <1>2, <1>3, <1>4, PoolAssumption DEF OwnerInv
<1>7. QueueInv' /\ CheckInInv'
  BY <1>1, <1>2, <1>3, <1>4, <1>5, PoolAssumption DEF QueueInv, CheckInInv
<1>8. Holders(k)' = {} /\ \A j \in Conns \ {k} : Holders(j)' = Holders(j)
  BY <1>1, <1>2, <1>4, PoolAssumption DEF Holders
<1>9. Place(k) = "out" /\ Place(k)' = "back"
  BY <1>1, <1>2, <1>3, PlaceFacts, PlaceFactsNext
<1>10. \A j \in Conns \ {k} : Place(j)' = Place(j)
  BY <1>1, <1>3, <1>5, Unmoved
<1>11. \A j \in Conns : Clean(j)' = Clean(j)
  BY <1>1 DEF Clean
<1>12. Contract!GiveBack(k)
  BY <1>1, <1>8, <1>9, <1>10, <1>11, MoveFacts DEF Contract!GiveBack
<1>13. QED
  BY <1>5, <1>6, <1>7, <1>12 DEF LendInv, Contract!ContractNext

\* After check_in of k, and of nothing else, owners are as the invariant says.
LEMMA CheckedInFacts ==
  ASSUME LendInv, NEW k \in Conns, check_in[k] # "no", CheckedIn(k)
  PROVE  /\ check_in'[k] = "no" /\ \A j \in Conns \ {k} : check_in'[j] = check_in[j]
         /\ \A c \in Clients : \/ conn[c] = k /\ conn'[c] = None /\ pc'[c] = "release"
                               \/ conn[c] # k /\ conn'[c] = conn[c] /\ pc'[c] = pc[c]
         /\ \A j \in Conns : Holders(j)' = Holders(j)
<1>1. /\ check_in'[k] = "no" /\ \A j \in Conns \ {k} : check_in'[j] = check_in[j]
      /\ \A c \in Clients : \/ conn[c] = k /\ conn'[c] = None /\ pc'[c] = "release"
                            \/ conn[c] # k /\ conn'[c] = conn[c] /\ pc'[c] = pc[c]
  BY DEF LendInv, PoolTypeOK, CheckedIn
<1>2. \A c \in Clients : conn[c] = k => pc[c] = "check_in"
  BY DEF LendInv, OwnerInv
<1>3. \A j \in Conns : Holders(j)' = Holders(j)
  BY <1>1, <1>2, PoolAssumption DEF Holders
<1>4. QED
  BY <1>1, <1>3

\* check_in closes k.
LEMMA CloseStep ==
  ASSUME LendInv, PoolTypeOK', NEW k \in Conns, check_in[k] # "no", CheckedIn(k), Closed(k),
         UNCHANGED conns
  PROVE  LendInv' /\ [Contract!ContractNext]_(Contract!contract)
<1>1. /\ PoolTypeOK /\ OwnerInv /\ QueueInv /\ CheckInInv
      /\ Holders(k) = {} /\ ~Idle(k) /\ Place(k) = "back"
  BY BackFacts DEF LendInv
<1>2. /\ session'[k] = "none" /\ is_broken'[k] = FALSE /\ Astray(k)' = FALSE
      /\ \A j \in Conns \ {k} : /\ session'[j] = session[j] /\ is_broken'[j] = is_broken[j]
                                /\ Astray(j)' = Astray(j)
  BY <1>1 DEF PoolTypeOK, Closed, Astray
<1>3. /\ check_in'[k] = "no" /\ \A j \in Conns \ {k} : check_in'[j] = check_in[j]
      /\ \A c \in Clients : \/ conn[c] = k /\ conn'[c] = None /\ pc'[c] = "release"
                            \/ conn[c] # k /\ conn'[c] = conn[c] /\ pc'[c] = pc[c]
      /\ \A j \in Conns : Holders(j)' = Holders(j)
  BY CheckedInFacts
<1>4. Distinct' /\ \A j : Idle(j)' = Idle(j)
  BY QueueFrame DEF LendInv
<1>5. OwnerInv'
  BY <1>1, <1>2, <1>3, PoolAssumption DEF OwnerInv
<1>6. QueueInv' /\ CheckInInv'
  BY <1>1, <1>2, <1>3, <1>4, PoolAssumption DEF QueueInv, CheckInInv
<1>7. Place(k)' = "closed" /\ Clean(k)' = FALSE
  BY <1>2, PlaceFactsNext DEF Clean
<1>8. \A j \in Conns \ {k} : Place(j)' = Place(j) /\ Clean(j)' = Clean(j)
  BY <1>2, <1>3, <1>4, Unmoved
<1>9. Contract!Discard(k)
  BY <1>1, <1>2, <1>3, <1>7, <1>8, DiscardFacts
<1>10. QED
  BY <1>4, <1>5, <1>6, <1>9 DEF LendInv, Contract!ContractNext

\* check_in keeps k: it joins the queue, clean unless it is astray.
LEMMA KeepStep ==
  ASSUME LendInv, PoolTypeOK', NEW k \in Conns, check_in[k] = "discard", CheckedIn(k),
         Len(conns) < MaxIdle, conns' = Append(conns, k), ReadsSuccess(k),
         session' = [session EXCEPT ![k] = Reset(k)], UNCHANGED is_broken,
         \A j \in Conns : Astray(j)' = Astray(j)
  PROVE  LendInv' /\ [Contract!ContractNext]_(Contract!contract)
<1>1. /\ PoolTypeOK /\ OwnerInv /\ QueueInv /\ CheckInInv /\ Distinct
      /\ Holders(k) = {} /\ ~Idle(k) /\ Place(k) = "back" /\ ~is_broken[k]
      /\ session[k] # "none"
  BY BackFacts DEF LendInv, CheckInInv
<1>2. /\ session'[k] = "clean" \/ Astray(k)
      /\ session'[k] # "none" /\ \A j \in Conns \ {k} : session'[j] = session[j]
  BY <1>1 DEF PoolTypeOK, Reset, ReadsSuccess, Astray
<1>3. /\ check_in'[k] = "no" /\ \A j \in Conns \ {k} : check_in'[j] = check_in[j]
      /\ \A c \in Clients : \/ conn[c] = k /\ conn'[c] = None /\ pc'[c] = "release"
                            \/ conn[c] # k /\ conn'[c] = conn[c] /\ pc'[c] = pc[c]
      /\ \A j \in Conns : Holders(j)' = Holders(j)
  BY CheckedInFacts
<1>4. Idle(k)' /\ Distinct' /\ \A j \in Conns \ {k} : Idle(j)' <=> Idle(j)
  BY <1>1, PushLast
<1>5. OwnerInv'
  BY <1>1, <1>2, <1>3, PoolAssumption DEF OwnerInv
<1>6. QueueInv' /\ CheckInInv'
  BY <1>1, <1>2, <1>3, <1>4, PoolAssumption DEF QueueInv, CheckInInv
<1>7. Place(k)' = "idle" /\ Clean(k)' = ~Astray(k)
  BY <1>1, <1>2, <1>3, <1>4, PlaceFactsNext DEF Clean
<1>8. \A j \in Conns \ {k} : Place(j)' = Place(j) /\ Clean(j)' = Clean(j)
  BY <1>2, <1>3, <1>4, Unmoved
<1>9. Contract!Move(k, "back", "idle", {})
  BY <1>1, <1>3, <1>7, <1>8, MoveFacts
<1>10. [j \in Conns |-> Clean(j)]' = [[j \in Conns |-> Clean(j)] EXCEPT ![k] = ~Astray(k)]
  BY <1>7, <1>8
<1>11. QED
  BY <1>4, <1>5, <1>6, <1>9, <1>10 DEF LendInv, Contract!Keep, Contract!ContractNext

\* check_in begins: a broken connection is closed, another one sent DISCARD ALL.
LEMMA StartStep ==
  ASSUME LendInv, PoolTypeOK', NEW k \in Conns, check_in_start(k)
  PROVE  LendInv' /\ [Contract!ContractNext]_(Contract!contract)
<1>1. /\ PoolTypeOK /\ OwnerInv /\ QueueInv /\ CheckInInv /\ check_in[k] = "start"
      /\ UNCHANGED conns
  BY DEF LendInv, check_in_start
<1>2. CASE is_broken[k]
  BY <1>1, <1>2, CloseStep DEF check_in_start
<1>3. CASE ~is_broken[k]
  <2>1. /\ check_in' = [check_in EXCEPT ![k] = "discard"] /\ UNCHANGED <<pc, conn, session, is_broken>>
        /\ \A j \in Conns : Astray(j)' = Astray(j)
    BY <1>3 DEF check_in_start, connection, Astray
  <2>2. check_in'[k] = "discard" /\ \A j \in Conns \ {k} : check_in'[j] = check_in[j]
    BY <1>1, <2>1 DEF PoolTypeOK
  <2>3. Distinct' /\ (\A j : Idle(j)' = Idle(j)) /\ \A j : Holders(j)' = Holders(j)
    BY <1>1, <2>1, QueueFrame DEF LendInv, Holders
  <2>4. OwnerInv'
    BY <1>1, <2>1, <2>2 DEF OwnerInv
  <2>5. QueueInv' /\ CheckInInv'
    BY <1>1, <1>3, <2>1, <2>2, <2>3 DEF QueueInv, CheckInInv
  <2>6. \A j \in Conns : Place(j)' = Place(j) /\ Clean(j)' = Clean(j)
    BY <1>1, <2>1, <2>2, <2>3 DEF Place, Clean, CheckInInv
  <2>7. QED
    BY <2>1, <2>3, <2>4, <2>5, <2>6, StutterFacts DEF LendInv
<1>4. QED
  BY <1>2, <1>3

\* Every step of either pool keeps the invariant and the contract.
LEMMA LendStep ==
  ASSUME LendInv, [PoolNext]_allvars
  PROVE  LendInv' /\ [Contract!ContractNext]_(Contract!contract)
<1>0. PoolTypeOK /\ PoolTypeOK'
  BY PoolNextType DEF LendInv
<1>1. ASSUME NEW c \in Clients, get(c) \/ acquire(c) \/ release(c)
      PROVE  LendInv' /\ [Contract!ContractNext]_(Contract!contract)
  <2>1. /\ UNCHANGED <<conns, conn, check_in, session, is_broken>>
        /\ \A k \in Conns : Astray(k)' = Astray(k)
    BY <1>1 DEF get, acquire, release, connection, Astray
  <2>2. \A d \in Clients :
          \/ pc'[d] = pc[d]
          \/ pc[d] \notin {"ping", "hold", "check_in"} /\ pc'[d] \notin {"ping", "hold", "check_in"}
    BY <1>0, <1>1 DEF get, acquire, release, PoolTypeOK
  <2>3. QED
    BY <1>0, <2>1, <2>2, Unseen
<1>2. ASSUME NEW c \in Clients, ping(c)
      PROVE  LendInv' /\ [Contract!ContractNext]_(Contract!contract)
  <2>1. CASE /\ pc' = [pc EXCEPT ![c] = "hold"] /\ UNCHANGED <<conn, session, is_broken>>
             /\ \E left : LeavesUnread(conn[c], left) /\ astray' = [astray EXCEPT ![conn[c]] = left]
    <3>1. pc[c] = "ping" /\ UNCHANGED <<conns, check_in>>
      BY <1>2 DEF ping
    <3>4. \A k \in Conns : Astray(k)' = Astray(k)
      BY <1>0, <2>1, <3>1, OwnerFacts, LeavesFacts
    <3>2. \A d \in Clients : pc'[d] = pc[d] \/ (pc[d] = "ping" /\ pc'[d] = "hold")
      BY <1>0, <2>1, <3>1 DEF PoolTypeOK
    <3>3. QED
      BY <1>0, <2>1, <3>1, <3>2, <3>4, Unseen
  <2>2. CASE pc' = [pc EXCEPT ![c] = "pop"]
    BY <1>0, <1>2, <2>2, DropDead DEF ping, PoolTypeOK
  <2>3. QED
    BY <1>2, <2>1, <2>2 DEF ping
<1>3. ASSUME NEW c \in Clients, cancel(c)
      PROVE  LendInv' /\ [Contract!ContractNext]_(Contract!contract)
  <2>1. pc' = [pc EXCEPT ![c] = "idle"] /\ UNCHANGED <<conns, check_in>>
    BY <1>3 DEF cancel
  <2>2. CASE pc[c] = "ping"
    BY <1>0, <1>3, <2>1, <2>2, DropDead DEF cancel
  <2>3. CASE pc[c] \in {"acquire", "connect"}
    <3>1. /\ UNCHANGED <<conn, session, is_broken>>
          /\ \A k \in Conns : Astray(k)' = Astray(k)
      BY <1>3, <2>3 DEF cancel, connection, Astray
    <3>2. \A d \in Clients :
            \/ pc'[d] = pc[d]
            \/ pc[d] \notin {"ping", "hold", "check_in"}
               /\ pc'[d] \notin {"ping", "hold", "check_in"}
      BY <1>0, <2>1, <2>3 DEF PoolTypeOK
    <3>3. QED
      BY <1>0, <2>1, <3>1, <3>2, Unseen
  <2>4. QED
    BY <1>3, <2>2, <2>3 DEF cancel
<1>4. ASSUME NEW k \in Conns, discard_all(k)
      PROVE  LendInv' /\ [Contract!ContractNext]_(Contract!contract)
  <2>1. check_in[k] = "discard" /\ CheckedIn(k)
    BY <1>4 DEF discard_all
  <2>2. CASE Closed(k) /\ UNCHANGED conns
    BY <1>0, <2>1, <2>2, CloseStep
  <2>3. CASE /\ Len(conns) < MaxIdle /\ conns' = Append(conns, k) /\ ReadsSuccess(k)
             /\ session' = [session EXCEPT ![k] = Reset(k)] /\ UNCHANGED is_broken
             /\ \E left : LeavesUnread(k, left) /\ astray' = [astray EXCEPT ![k] = left]
    <3>1. \A j \in Conns : Astray(j)' = Astray(j)
      BY <1>0, <2>3, LeavesFacts
    <3>2. QED
      BY <1>0, <2>1, <2>3, <3>1, KeepStep
  <2>4. QED
    BY <1>4, <2>2, <2>3 DEF discard_all, push, discard_failed
<1>5. CASE UNCHANGED poolvars
  BY <1>0, <1>5, Unseen DEF poolvars, connection, Astray
<1>6. QED
  BY <1>0, <1>1, <1>2, <1>3, <1>4, <1>5, PopStep, ConnectStep, UseStep, DropStep, StartStep
  DEF PoolNext, allvars

(***************************************************************************)
(* Pool::get, PooledConn::drop and check_in keep the contract in both      *)
(* pools: a connection is lent to one client at a time; one that no client *)
(* left astray is lent only clean and kept only after a DISCARD ALL that   *)
(* succeeded; and no step of the pool leads a connection astray, whatever  *)
(* fails or is cancelled between, and whether check_in runs in a task of   *)
(* its own or in the client.                                               *)
(***************************************************************************)
THEOREM PoolKeepsContract == PoolSpec => KeepsContract
<1>1. PoolInit => LendInv /\ Contract!ContractInit
  BY LendInit
<1>2. LendInv /\ [PoolNext]_allvars => LendInv' /\ [Contract!ContractNext]_(Contract!contract)
  BY LendStep
<1>3. QED
  BY <1>1, <1>2, PTL DEF PoolSpec, KeepsContract, Contract!ContractSpec
-----------------------------------------------------------------------------
\* What ConcurrencyBound counts.
Open == {k \in Conns : session[k] # "none"}

Opening == {c \in Clients : pc[c] = "connect"}

\* Every open connection of the blocking pool is idle or with a client.
Owned == \A k \in Open : Idle(k) \/ \E c \in Clients : conn[c] = k

BoundInv ==
  /\ LendInv /\ PermitInv
  /\ blocking => Owned
  /\ ConcurrencyBound

LEMMA Counts ==
  /\ IsFiniteSet(Open) /\ Cardinality(Open) \in Nat
  /\ IsFiniteSet(Opening) /\ Cardinality(Opening) \in Nat
  /\ IsFiniteSet(Open') /\ Cardinality(Open') \in Nat
  /\ IsFiniteSet(Opening') /\ Cardinality(Opening') \in Nat
<1>1. /\ Open \subseteq Conns /\ Open' \subseteq Conns
      /\ Opening \subseteq Clients /\ Opening' \subseteq Clients
  BY DEF Open, Opening
<1>2. /\ IsFiniteSet(Open) /\ IsFiniteSet(Open')
      /\ IsFiniteSet(Opening) /\ IsFiniteSet(Opening')
  BY <1>1, PoolAssumption, FS_Subset
<1>3. QED
  BY <1>2, FS_CardinalityType

LEMMA BoundFacts ==
  ConcurrencyBound <=> (blocking => Cardinality(Open) + Cardinality(Opening) <= MaxConcurrency)
  BY DEF ConcurrencyBound, Open, Opening

LEMMA BoundFactsNext ==
  ConcurrencyBound' <=>
    (blocking' => Cardinality(Open') + Cardinality(Opening') <= MaxConcurrency)
  BY DEF ConcurrencyBound, Open, Opening

\* A step that opens nothing keeps the bound.
LEMMA Fewer ==
  ASSUME ConcurrencyBound, blocking' = blocking, Open' \subseteq Open, Opening' \subseteq Opening
  PROVE  ConcurrencyBound'
<1>1. Cardinality(Open') <= Cardinality(Open) /\ Cardinality(Opening') <= Cardinality(Opening)
  BY Counts, FS_Subset
<1>2. QED
  BY <1>1, Counts, PoolAssumption, BoundFacts, BoundFactsNext

(***************************************************************************)
(* When nothing is idle, the clients that have the open connections, those *)
(* that open one, and one that is about to, all hold a permit.             *)
(***************************************************************************)
LEMMA RoomToOpen ==
  ASSUME BoundInv, blocking, conns = <<>>, NEW c \in Clients, pc[c] = "pop"
  PROVE  Cardinality(Open) + Cardinality(Opening) + 1 <= MaxConcurrency
<1> DEFINE Having == {d \in Clients : conn[d] \in Conns}
           f == [d \in Having |-> conn[d]]
<1>1. PoolTypeOK /\ OwnerInv /\ Owned /\ PermitsConserved
  BY DEF BoundInv, LendInv, PermitInv
<1>2. \A k : ~Idle(k)
  BY DEF Idle
<1>3. \A k \in Open : \E d \in Having : f[d] = k
  BY <1>1, <1>2 DEF Owned, Open
<1>4. \A d \in Having : f[d] \in Open
  BY <1>1 DEF OwnerInv, Open
<1>5. IsFiniteSet(Having)
  BY PoolAssumption, FS_Subset
<1>6. f \in Surjection(Having, Open)
  BY <1>3, <1>4 DEF Surjection
<1>7. Cardinality(Open) <= Cardinality(Having)
  BY <1>5, <1>6, FS_Surjection
<1>8. /\ Having \cap Opening = {} /\ c \notin Having \cup Opening
      /\ (Having \cup Opening) \cup {c} \subseteq HasPermit
  BY <1>1 DEF OwnerInv, Opening, HasPermit
<1>9. /\ IsFiniteSet(Having \cup Opening)
      /\ Cardinality(Having \cup Opening) = Cardinality(Having) + Cardinality(Opening)
  <2>1. Cardinality(Having) \in Nat /\ Cardinality(Having \cap Opening) = 0
    BY <1>5, <1>8, FS_CardinalityType, FS_EmptySet
  <2> HIDE DEF Having
  <2>2. /\ IsFiniteSet(Having \cup Opening)
        /\ Cardinality(Having \cup Opening) =
             Cardinality(Having) + Cardinality(Opening) - Cardinality(Having \cap Opening)
    BY <1>5, Counts, FS_Union
  <2>3. QED
    BY <2>1, <2>2, Counts
<1>10. /\ IsFiniteSet((Having \cup Opening) \cup {c})
       /\ Cardinality((Having \cup Opening) \cup {c}) = Cardinality(Having \cup Opening) + 1
  BY <1>8, <1>9, FS_AddElement
<1>11. Cardinality((Having \cup Opening) \cup {c}) <= Cardinality(HasPermit)
  BY <1>8, PermitCount, FS_Subset
<1>12. Cardinality(HasPermit) <= MaxConcurrency
  BY <1>1, PermitCount, PoolAssumption DEF PermitsConserved, AllPermits, PoolTypeOK
<1>13. Cardinality(Having) \in Nat
  BY <1>5, FS_CardinalityType
<1>14. QED
  BY <1>7, <1>9, <1>10, <1>11, <1>12, <1>13, Counts, PermitCount, PoolAssumption

\* A client about to open a connection is counted from pop on.
LEMMA PopBound ==
  ASSUME BoundInv, NEW c \in Clients, pop(c), blocking' = blocking
  PROVE  ConcurrencyBound' /\ (blocking => Owned')
<1>1. PoolTypeOK /\ OwnerInv /\ Distinct /\ ConcurrencyBound /\ pc[c] = "pop" /\ session' = session
  BY DEF BoundInv, LendInv, pop, connection
<1>2. Open' = Open
  BY <1>1 DEF Open
<1>3. CASE conns # <<>>
  <2>1. /\ conn' = [conn EXCEPT ![c] = Head(conns)] /\ conns' = Tail(conns)
        /\ pc' = [pc EXCEPT ![c] = "ping"]
    BY <1>3 DEF pop
  <2>2. Opening' \subseteq Opening
    BY <1>1, <2>1 DEF Opening, PoolTypeOK
  <2>3. Head(conns) \in Conns /\ \A k \in Conns \ {Head(conns)} : Idle(k)' <=> Idle(k)
    BY <1>1, <1>3, <2>1, TakeFirst
  <2>4. /\ conn'[c] = Head(conns) /\ conn[c] \notin Conns
        /\ \A d \in Clients \ {c} : conn'[d] = conn[d]
    BY <1>1, <2>1 DEF OwnerInv, PoolTypeOK
  <2>5. blocking => Owned'
    BY <1>2, <2>3, <2>4 DEF BoundInv, Owned, Open
  <2>6. QED
    BY <1>1, <1>2, <2>2, <2>5, Fewer
<1>4. CASE conns = <<>>
  <2>1. pc' = [pc EXCEPT ![c] = "connect"] /\ UNCHANGED <<conn, conns>>
    BY <1>4 DEF pop
  <2>2. Opening' = Opening \cup {c} /\ c \notin Opening
    BY <1>1, <2>1 DEF Opening, PoolTypeOK
  <2>3. Cardinality(Opening') = Cardinality(Opening) + 1
    BY <2>2, Counts, FS_AddElement
  <2>4. ConcurrencyBound'
    BY <1>2, <1>4, <1>1, <2>3, RoomToOpen, Counts, PoolAssumption, BoundFactsNext
  <2>5. blocking => Owned'
    BY <1>2, <2>1, QueueFrame DEF BoundInv, Owned
  <2>6. QED
    BY <2>4, <2>5
<1>5. QED
  BY <1>3, <1>4

\* The client that opened a connection is counted no more, its connection is.
LEMMA ConnectBound ==
  ASSUME BoundInv, NEW c \in Clients, connect(c), blocking' = blocking
  PROVE  ConcurrencyBound' /\ (blocking => Owned')
<1>1. /\ PoolTypeOK /\ OwnerInv /\ ConcurrencyBound /\ pc[c] = "connect" /\ conn[c] \notin Conns
      /\ UNCHANGED conns
  BY DEF BoundInv, LendInv, OwnerInv, connect
<1>2. CASE UNCHANGED <<conn, session>> /\ pc' = [pc EXCEPT ![c] = "idle"]
  <2>1. Open' = Open /\ Opening' \subseteq Opening
    BY <1>1, <1>2 DEF Open, Opening, PoolTypeOK
  <2>2. QED
    BY <1>1, <1>2, <2>1, Fewer, QueueFrame DEF BoundInv, Owned
<1>3. ASSUME NEW k \in Conns, session[k] = "none", conn' = [conn EXCEPT ![c] = k],
             session' = [session EXCEPT ![k] = "clean"], pc' = [pc EXCEPT ![c] = "hold"]
      PROVE  ConcurrencyBound' /\ (blocking => Owned')
  <2>1. Open' = Open \cup {k} /\ k \notin Open
    BY <1>1, <1>3 DEF Open, PoolTypeOK
  <2>2. Opening' = Opening \ {c} /\ c \in Opening
    BY <1>1, <1>3 DEF Opening, PoolTypeOK
  <2>3. Cardinality(Open') = Cardinality(Open) + 1
    BY <2>1, Counts, FS_AddElement
  <2>4. Cardinality(Opening') = Cardinality(Opening) - 1
    BY <2>2, Counts, FS_RemoveElement
  <2>5. ConcurrencyBound'
    BY <1>1, <2>3, <2>4, Counts, PoolAssumption, BoundFacts, BoundFactsNext
  <2>6. conn'[c] = k /\ \A d \in Clients \ {c} : conn'[d] = conn[d]
    BY <1>1, <1>3 DEF PoolTypeOK
  <2>7. blocking => Owned'
    BY <1>1, <2>1, <2>6, QueueFrame DEF BoundInv, Owned, Open
  <2>8. QED
    BY <2>5, <2>7
<1>4. QED
  BY <1>2, <1>3 DEF connect

\* A connection is closed or kept at the end of check_in, and no other one changes.
LEMMA DiscardBound ==
  ASSUME BoundInv, NEW k \in Conns, check_in[k] # "no", CheckedIn(k), blocking' = blocking,
         \/ Closed(k) /\ UNCHANGED conns
         \/ /\ Len(conns) < MaxIdle /\ conns' = Append(conns, k)
            /\ session' = [session EXCEPT ![k] = Reset(k)]
  PROVE  ConcurrencyBound' /\ (blocking => Owned')
<1>1. PoolTypeOK /\ Distinct /\ ConcurrencyBound /\ ~Idle(k) /\ session[k] # "none"
  BY BackFacts DEF BoundInv, LendInv
<1>2. \A c \in Clients : (conn[c] = k /\ pc'[c] = "release") \/ (conn'[c] = conn[c] /\ pc'[c] = pc[c])
  BY CheckedInFacts DEF BoundInv
<1>3. Opening' \subseteq Opening
  BY <1>2 DEF Opening
<1>4. CASE Closed(k) /\ UNCHANGED conns
  <2>1. Open' = Open \ {k}
    BY <1>1, <1>4 DEF Open, Closed, PoolTypeOK
  <2>2. QED
    BY <1>1, <1>2, <1>3, <1>4, <2>1, Fewer, QueueFrame DEF BoundInv, Owned
<1>5. CASE /\ Len(conns) < MaxIdle /\ conns' = Append(conns, k)
           /\ session' = [session EXCEPT ![k] = Reset(k)]
  <2>1. Open' = Open
    BY <1>1, <1>5 DEF Open, PoolTypeOK, Reset
  <2>2. Idle(k)' /\ \A j \in Conns \ {k} : Idle(j)' <=> Idle(j)
    BY <1>1, <1>5, PushLast
  <2>3. QED
    BY <1>1, <1>2, <1>3, <2>1, <2>2, Fewer DEF BoundInv, Owned, Open
<1>6. QED
  BY <1>4, <1>5

\* A client that finds its connection dead closes it.
LEMMA PingBound ==
  ASSUME BoundInv, NEW c \in Clients, ping(c), blocking' = blocking
  PROVE  ConcurrencyBound' /\ (blocking => Owned')
<1>1. PoolTypeOK /\ ConcurrencyBound /\ pc[c] = "ping" /\ UNCHANGED conns
  BY DEF BoundInv, LendInv, ping
<1>2. conn[c] \in Conns /\ \A d \in Clients : conn[d] = conn[c] => d = c
  BY <1>1, OwnerFacts DEF BoundInv
<1>3. Opening' \subseteq Opening
  BY <1>1 DEF ping, Opening, PoolTypeOK
<1>4. CASE UNCHANGED <<conn, session>>
  BY <1>1, <1>3, <1>4, Fewer, QueueFrame DEF BoundInv, Owned, Open
<1>5. CASE Closed(conn[c]) /\ conn' = [conn EXCEPT ![c] = None]
  <2>1. Open' = Open \ {conn[c]}
    BY <1>1, <1>2, <1>5 DEF Open, Closed, PoolTypeOK
  <2>2. \A d \in Clients \ {c} : conn'[d] = conn[d]
    BY <1>1, <1>5 DEF PoolTypeOK
  <2>3. QED
    BY <1>1, <1>2, <1>3, <2>1, <2>2, Fewer, QueueFrame DEF BoundInv, Owned
<1>6. QED
  BY <1>4, <1>5 DEF ping

\* Every step keeps the bound.
LEMMA BoundStep ==
  ASSUME BoundInv, [PoolNext]_allvars
  PROVE  BoundInv'
<1>1. LendInv' /\ PermitInv'
  BY LendStep, PermitNext DEF BoundInv
<1>2. blocking' = blocking
  BY DEF PoolNext, allvars
<1>3. PoolTypeOK /\ ConcurrencyBound
  BY DEF BoundInv, LendInv
<1>4. ASSUME NEW c \in Clients,
             get(c) \/ acquire(c) \/ use(c) \/ lose_step(c) \/ drop(c) \/ release(c)
      PROVE  ConcurrencyBound' /\ (blocking => Owned')
  <2>1. UNCHANGED conns /\ (blocking => UNCHANGED conn)
    BY <1>4 DEF get, acquire, use, lose_step, drop, GiveBack, release
  <2>2. Opening' \subseteq Opening
    BY <1>3, <1>4 DEF get, acquire, use, lose_step, drop, GiveBack, release, Opening, PoolTypeOK
  <2>3. Open' = Open
    <3>1. CASE use(c)
      <4>1. session[conn[c]] # "none" /\ conn[c] \in Conns
        BY <3>1, OwnerFacts DEF use, BoundInv
      <4>2. QED
        BY <1>3, <3>1, <4>1 DEF use, Open, PoolTypeOK
    <3>2. CASE ~use(c)
      BY <1>4, <3>2 DEF get, acquire, lose_step, drop, release, connection, Open
    <3>3. QED
      BY <3>1, <3>2
  <2>4. QED
    BY <1>2, <1>3, <2>1, <2>2, <2>3, Fewer, QueueFrame DEF BoundInv, Owned
<1>5. ASSUME NEW c \in Clients, cancel(c)
      PROVE  ConcurrencyBound' /\ (blocking => Owned')
  BY <1>2, <1>5, BoundFactsNext DEF cancel
<1>6. ASSUME NEW k \in Conns, check_in_start(k)
      PROVE  ConcurrencyBound' /\ (blocking => Owned')
  <2>1. CASE is_broken[k]
    BY <1>2, <1>6, <2>1, DiscardBound DEF check_in_start
  <2>2. CASE UNCHANGED <<pc, conn, session>> /\ UNCHANGED conns
    BY <1>2, <1>3, <2>2, Fewer, QueueFrame DEF BoundInv, Owned, Open, Opening
  <2>3. QED
    BY <1>6, <2>1, <2>2 DEF check_in_start, connection
<1>7. ASSUME NEW k \in Conns, discard_all(k)
      PROVE  ConcurrencyBound' /\ (blocking => Owned')
  BY <1>2, <1>7, DiscardBound DEF discard_all, push, discard_failed
<1>8. ASSUME UNCHANGED poolvars
      PROVE  ConcurrencyBound' /\ (blocking => Owned')
  BY <1>2, <1>3, <1>8, Fewer, QueueFrame DEF BoundInv, Owned, Open, Opening, poolvars, connection
<1>9. ConcurrencyBound' /\ (blocking => Owned')
  BY <1>2, <1>4, <1>5, <1>6, <1>7, <1>8, PopBound, ConnectBound, PingBound DEF PoolNext, allvars
<1>10. QED
  BY <1>1, <1>2, <1>9 DEF BoundInv

(***************************************************************************)
(* pool_max_concurrency bounds the connections of the blocking pool that   *)
(* are open or being opened, idle ones included: get opens one only when   *)
(* none is idle, and then every open one is with a client that holds a     *)
(* permit, since the permit is released after check_in.                    *)
(***************************************************************************)
THEOREM BlockingPoolBounded == PoolSpec => []ConcurrencyBound
<1>1. PoolInit => BoundInv
  <2>1. ASSUME PoolInit PROVE Owned /\ ConcurrencyBound
    <3>1. Open = {} /\ Opening = {}
      BY <2>1 DEF PoolInit, Open, Opening
    <3>2. QED
      BY <3>1, FS_EmptySet, BoundFacts, PoolAssumption DEF Owned
  <2>2. QED
    BY <2>1, LendInit, PermitInit DEF BoundInv
<1>2. BoundInv /\ [PoolNext]_allvars => BoundInv'
  BY BoundStep
<1>3. BoundInv => ConcurrencyBound
  BY DEF BoundInv
<1>4. QED
  BY <1>1, <1>2, <1>3, PTL DEF PoolSpec
=============================================================================
