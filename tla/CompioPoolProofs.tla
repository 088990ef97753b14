-------------------------- MODULE CompioPoolProofs --------------------------
(***************************************************************************)
(* The pool of module CompioPool keeps the contract of module PoolContract *)
(* for any number of clients and connections and any pool_max_idle_conn,   *)
(* zero included.                                                          *)
(*                                                                         *)
(* That a connection has one place follows from an inductive invariant of  *)
(* three parts: the stack holds a connection once, clean or astray, and    *)
(* only what nobody has (StackInv); a connection that a client has is open, not on   *)
(* its way back and nobody else's (HolderInv); and the task that checks a  *)
(* connection in works on an open one (CheckInInv).                        *)
(***************************************************************************)
EXTENDS CompioPool, TLAPS

Distinct == \A i, j \in 1..Len(conns) : conns[i] = conns[j] => i = j

StackInv ==
  \A k \in Conns : Idle(k) =>
    /\ session[k] = "clean" \/ astray[k]
    /\ session[k] # "none" /\ ~is_broken[k] /\ check_in[k] = "no" /\ Holders(k) = {}

HolderInv ==
  \A c \in Clients :
    /\ pc[c] \in {"ping", "hold"} <=> conn[c] \in Conns
    /\ conn[c] \in Conns => /\ session[conn[c]] # "none" /\ check_in[conn[c]] = "no"
                            /\ \A d \in Clients : conn[d] = conn[c] => d = c

CheckInInv ==
  \A k \in Conns :
    /\ check_in[k] # "no" => session[k] # "none"
    /\ check_in[k] = "discard" \/ session[k] = "none" => ~is_broken[k]
    /\ session[k] = "none" => ~astray[k]

PoolInv == CPTypeOK /\ Distinct /\ StackInv /\ HolderInv /\ CheckInInv

-----------------------------------------------------------------------------
\* Taking the top off the stack.
LEMMA PopTop ==
  ASSUME CPTypeOK, Distinct, conns # <<>>, NEW top, top = conns[Len(conns)],
         conns' = SubSeq(conns, 1, Len(conns) - 1)
  PROVE  /\ conns' \in Seq(Conns) /\ Len(conns') <= MaxIdle
         /\ top \in Conns
         /\ Idle(top) /\ ~Idle(top)'
         /\ \A k \in Conns \ {top} : Idle(k)' <=> Idle(k)
         /\ Distinct'
<1>1. /\ conns \in Seq(Conns) /\ Len(conns) \in Nat /\ Len(conns) <= MaxIdle
      /\ DOMAIN conns = 1..Len(conns) /\ MaxIdle \in Nat
  BY CompioPoolAssumption DEF CPTypeOK
<1>2. Len(conns) >= 1 /\ top = conns[Len(conns)] /\ top \in Conns
  BY <1>1
<1>3. /\ conns' \in Seq(Conns) /\ Len(conns') = Len(conns) - 1
      /\ DOMAIN conns' = 1..(Len(conns) - 1)
  BY <1>1, <1>2
<1>4. \A i \in 1..(Len(conns) - 1) : conns'[i] = conns[i]
  BY <1>1, <1>2
<1>5. Distinct'
  BY <1>1, <1>3, <1>4 DEF Distinct
<1>6. Idle(top)
  BY <1>1, <1>2 DEF Idle
<1>7. ~Idle(top)'
  <2>1. ASSUME NEW i \in 1..(Len(conns) - 1), conns'[i] = top
        PROVE  FALSE
    BY <2>1, <1>1, <1>2, <1>4 DEF Distinct
  <2>2. ~ \E i \in DOMAIN conns' : conns'[i] = top
    BY <2>1, <1>3
  <2>3. ASSUME NEW k, ~ \E i \in DOMAIN conns' : conns'[i] = k
        PROVE  ~Idle(k)'
    BY <2>3 DEF Idle
  <2>4. QED
    BY <2>2, <2>3
<1>8. ASSUME NEW k \in Conns, k # top
      PROVE  Idle(k)' <=> Idle(k)
  <2>1. Idle(k)' <=> \E i \in 1..(Len(conns) - 1) : conns[i] = k
    BY <1>3, <1>4 DEF Idle
  <2>2. Idle(k) <=> \E i \in 1..Len(conns) : conns[i] = k
    BY <1>1 DEF Idle
  <2>3. QED
    BY <2>1, <2>2, <1>1, <1>2, <1>8
<1>9. QED
  BY <1>1, <1>2, <1>3, <1>5, <1>6, <1>7, <1>8

\* Putting a connection on the stack.
LEMMA PushTop ==
  ASSUME CPTypeOK, Distinct, NEW k \in Conns, ~Idle(k), Len(conns) < MaxIdle,
         conns' = Append(conns, k)
  PROVE  /\ conns' \in Seq(Conns) /\ Len(conns') <= MaxIdle
         /\ Idle(k)'
         /\ \A j \in Conns \ {k} : Idle(j)' <=> Idle(j)
         /\ Distinct'
<1>1. /\ conns \in Seq(Conns) /\ Len(conns) \in Nat /\ MaxIdle \in Nat
      /\ DOMAIN conns = 1..Len(conns)
  BY CompioPoolAssumption DEF CPTypeOK
<1>2. /\ conns' \in Seq(Conns) /\ Len(conns') = Len(conns) + 1
      /\ DOMAIN conns' = 1..(Len(conns) + 1)
      /\ conns'[Len(conns) + 1] = k
  BY <1>1
<1>3. \A i \in 1..Len(conns) : conns'[i] = conns[i]
  BY <1>1
<1>4. \A i \in 1..Len(conns) : conns[i] # k
  BY <1>1 DEF Idle
<1>5. Distinct'
  BY <1>1, <1>2, <1>3, <1>4 DEF Distinct
<1>6. ASSUME NEW j
      PROVE  Idle(j)' <=> Idle(j) \/ j = k
  <2>1. Idle(j)' <=> \E i \in 1..(Len(conns) + 1) : conns'[i] = j
    BY <1>2 DEF Idle
  <2>2. Idle(j) <=> \E i \in 1..Len(conns) : conns[i] = j
    BY <1>1 DEF Idle
  <2>3. QED
    BY <2>1, <2>2, <1>1, <1>2, <1>3
<1>7. QED
  BY <1>1, <1>2, <1>5, <1>6

\* The loop of get takes the top of the stack, or finds it empty.
LEMMA CandidateFacts ==
  ASSUME PoolInv, NEW c \in Clients, Candidate(c, conns)
  PROVE  \/ \E top \in Conns :
              /\ conns' \in Seq(Conns) /\ Len(conns') <= MaxIdle /\ Distinct'
              /\ Idle(top) /\ ~Idle(top)'
              /\ \A k \in Conns \ {top} : Idle(k)' <=> Idle(k)
              /\ conn' = [conn EXCEPT ![c] = top] /\ pc' = [pc EXCEPT ![c] = "ping"]
         \/ /\ conns' = conns
            /\ conn' = [conn EXCEPT ![c] = None] /\ pc' = [pc EXCEPT ![c] = "connect"]
<1>1. CASE conns = <<>>
  BY <1>1 DEF Candidate
<1>2. CASE conns # <<>>
  <2>1. /\ conns' = SubSeq(conns, 1, Len(conns) - 1)
        /\ conn' = [conn EXCEPT ![c] = conns[Len(conns)]]
        /\ pc' = [pc EXCEPT ![c] = "ping"]
    BY <1>2 DEF Candidate
  <2>2. PICK top : top = conns[Len(conns)]
    OBVIOUS
  <2>3. QED
    BY <1>2, <2>1, <2>2, PopTop DEF PoolInv
<1>3. QED
  BY <1>1, <1>2

\* What the invariant says of a client that pings or holds a connection.
LEMMA HolderFacts ==
  ASSUME PoolInv, NEW c \in Clients, pc[c] \in {"ping", "hold"}
  PROVE  /\ conn[c] \in Conns /\ conn[c] # None
         /\ session[conn[c]] # "none" /\ check_in[conn[c]] = "no"
         /\ ~Idle(conn[c]) /\ Holders(conn[c]) = {c}
<1>1. conn[c] \in Conns /\ session[conn[c]] # "none" /\ check_in[conn[c]] = "no"
  BY DEF PoolInv, HolderInv
<1>2. Holders(conn[c]) = {c}
  BY <1>1 DEF PoolInv, HolderInv, Holders
<1>3. ~Idle(conn[c])
  BY <1>1, <1>2 DEF PoolInv, StackInv
<1>4. QED
  BY <1>1, <1>2, <1>3, CompioPoolAssumption

\* A connection that is closed or on its way back has no holder and is not idle.
LEMMA FreeFacts ==
  ASSUME PoolInv, NEW k \in Conns, session[k] = "none" \/ check_in[k] # "no"
  PROVE  Holders(k) = {} /\ ~Idle(k)
<1>1. Holders(k) = {}
  BY DEF PoolInv, HolderInv, Holders
<1>2. ~Idle(k)
  BY DEF PoolInv, StackInv
<1>3. QED
  BY <1>1, <1>2

-----------------------------------------------------------------------------
LEMMA InitInv == CompioPoolInit => PoolInv
<1> SUFFICES ASSUME CompioPoolInit PROVE PoolInv
  OBVIOUS
<1>1. CPTypeOK /\ Distinct
  BY CompioPoolAssumption DEF CompioPoolInit, CPTypeOK, Distinct
<1>2. \A k \in Conns : ~Idle(k)
  BY DEF CompioPoolInit, Idle
<1>3. StackInv /\ HolderInv /\ CheckInInv
  BY <1>2, CompioPoolAssumption DEF CompioPoolInit, StackInv, HolderInv, CheckInInv
<1>4. QED
  BY <1>1, <1>3 DEF PoolInv

\* Idleness depends on the stack alone, holding on the clients alone.
LEMMA Frames ==
  /\ UNCHANGED conns => Distinct' = Distinct /\ \A k : Idle(k)' = Idle(k)
  /\ UNCHANGED conn => \A k : Holders(k)' = Holders(k)
  BY DEF Distinct, Idle, Holders

LEMMA GetInv ==
  ASSUME PoolInv, NEW c \in Clients, get(c)
  PROVE  PoolInv'
<1>1. CPTypeOK /\ HolderInv /\ StackInv /\ CheckInInv /\ Distinct
  BY DEF PoolInv
<1>2. conn[c] \notin Conns /\ Candidate(c, conns)
  BY <1>1 DEF get, connection, HolderInv
<1>3. UNCHANGED <<check_in, session, is_broken, astray>>
  BY DEF get, connection
<1>4. CheckInInv'
  BY <1>1, <1>3 DEF CheckInInv
<1>5. ASSUME NEW top \in Conns, conns' \in Seq(Conns), Len(conns') <= MaxIdle, Distinct',
             Idle(top), ~Idle(top)', \A k \in Conns \ {top} : Idle(k)' <=> Idle(k),
             conn' = [conn EXCEPT ![c] = top], pc' = [pc EXCEPT ![c] = "ping"]
      PROVE  PoolInv'
  <2>1. CPTypeOK'
    BY <1>1, <1>3, <1>5 DEF CPTypeOK
  <2>2. session[top] # "none" /\ check_in[top] = "no" /\ \A d \in Clients : conn[d] # top
    BY <1>1, <1>5 DEF StackInv, Holders
  <2>3. HolderInv'
    BY <1>1, <1>2, <1>3, <1>5, <2>2 DEF HolderInv, CPTypeOK
  <2>4. \A k \in Conns \ {top} : Holders(k)' = Holders(k)
    BY <1>1, <1>2, <1>5 DEF Holders, CPTypeOK
  <2>5. StackInv'
    BY <1>1, <1>3, <1>5, <2>4 DEF StackInv
  <2>6. QED
    BY <1>4, <1>5, <2>1, <2>3, <2>5 DEF PoolInv
<1>6. ASSUME conns' = conns, conn' = [conn EXCEPT ![c] = None],
             pc' = [pc EXCEPT ![c] = "connect"]
      PROVE  PoolInv'
  <2>1. CPTypeOK' /\ Distinct'
    BY <1>1, <1>3, <1>6, Frames DEF CPTypeOK
  <2>2. HolderInv'
    BY <1>1, <1>2, <1>3, <1>6, CompioPoolAssumption DEF HolderInv, CPTypeOK
  <2>3. \A k \in Conns : Holders(k)' = Holders(k)
    BY <1>1, <1>2, <1>6, CompioPoolAssumption DEF Holders, CPTypeOK
  <2>4. StackInv'
    BY <1>1, <1>3, <1>6, <2>3, Frames DEF StackInv
  <2>5. QED
    BY <1>4, <2>1, <2>2, <2>4 DEF PoolInv
<1>7. QED
  BY <1>2, <1>5, <1>6, CandidateFacts

LEMMA PingOkInv ==
  ASSUME PoolInv, NEW c \in Clients, ping_ok(c)
  PROVE  PoolInv'
<1>1. CPTypeOK' /\ HolderInv'
  BY DEF PoolInv, CPTypeOK, HolderInv, ping_ok, connection
<1>2. Distinct' /\ StackInv' /\ CheckInInv'
  BY Frames DEF PoolInv, StackInv, CheckInInv, ping_ok, connection
<1>3. QED
  BY <1>1, <1>2 DEF PoolInv

\* The dead connection is closed; then the loop goes on as in GetInv.
LEMMA PingFailedInv ==
  ASSUME PoolInv, NEW c \in Clients, ping_failed(c)
  PROVE  PoolInv'
<1>1. CPTypeOK /\ HolderInv /\ StackInv /\ CheckInInv /\ Distinct
  BY DEF PoolInv
<1>2. PICK dead \in Conns : dead = conn[c]
  BY HolderFacts DEF ping_failed
<1>3. /\ session' = [session EXCEPT ![dead] = "none"]
      /\ is_broken' = [is_broken EXCEPT ![dead] = FALSE]
      /\ astray' = [astray EXCEPT ![dead] = FALSE]
      /\ Candidate(c, conns) /\ UNCHANGED check_in
  BY <1>2 DEF ping_failed, Closed
<1>4. /\ ~Idle(dead) /\ check_in[dead] = "no"
      /\ \A d \in Clients : conn[d] = dead => d = c
  BY <1>1, <1>2, HolderFacts DEF ping_failed, HolderInv
<1>5. CheckInInv'
  BY <1>1, <1>3, <1>4 DEF CheckInInv, CPTypeOK
<1>6. ASSUME NEW top \in Conns, conns' \in Seq(Conns), Len(conns') <= MaxIdle, Distinct',
             Idle(top), ~Idle(top)', \A k \in Conns \ {top} : Idle(k)' <=> Idle(k),
             conn' = [conn EXCEPT ![c] = top], pc' = [pc EXCEPT ![c] = "ping"]
      PROVE  PoolInv'
  <2>1. CPTypeOK'
    BY <1>1, <1>3, <1>6 DEF CPTypeOK
  <2>2. /\ top # dead /\ session[top] # "none" /\ check_in[top] = "no"
        /\ \A d \in Clients : conn[d] # top
    BY <1>1, <1>4, <1>6 DEF StackInv, Holders
  <2>3. HolderInv'
    BY <1>1, <1>2, <1>3, <1>4, <1>6, <2>2 DEF HolderInv, CPTypeOK
  <2>4. \A k \in Conns \ {top} : Holders(k)' \subseteq Holders(k)
    BY <1>1, <1>6 DEF Holders, CPTypeOK
  <2>5. StackInv'
    BY <1>1, <1>3, <1>4, <1>6, <2>2, <2>4 DEF StackInv, CPTypeOK
  <2>6. QED
    BY <1>5, <1>6, <2>1, <2>3, <2>5 DEF PoolInv
<1>7. ASSUME conns' = conns, conn' = [conn EXCEPT ![c] = None],
             pc' = [pc EXCEPT ![c] = "connect"]
      PROVE  PoolInv'
  <2>1. CPTypeOK' /\ Distinct'
    BY <1>1, <1>3, <1>7, Frames DEF CPTypeOK
  <2>2. HolderInv'
    BY <1>1, <1>3, <1>4, <1>7, CompioPoolAssumption DEF HolderInv, CPTypeOK
  <2>3. \A k \in Conns : Holders(k)' \subseteq Holders(k)
    BY <1>1, <1>7, CompioPoolAssumption DEF Holders, CPTypeOK
  <2>4. StackInv'
    BY <1>1, <1>3, <1>4, <1>7, <2>3, Frames DEF StackInv, CPTypeOK
  <2>5. QED
    BY <1>5, <2>1, <2>2, <2>4 DEF PoolInv
<1>8. QED
  BY <1>3, <1>6, <1>7, CandidateFacts

LEMMA ConnectInv ==
  ASSUME PoolInv, NEW c \in Clients, connect(c)
  PROVE  PoolInv'
<1>1. CPTypeOK /\ HolderInv /\ StackInv /\ CheckInInv /\ conn[c] \notin Conns
  BY DEF PoolInv, connect, HolderInv
<1>2. /\ pc[c] = "connect" /\ UNCHANGED <<conns, check_in, is_broken, astray>>
      /\ Distinct' /\ \A k : Idle(k)' = Idle(k)
  BY Frames DEF PoolInv, connect
<1>3. ASSUME NEW k \in Conns, session[k] = "none", conn' = [conn EXCEPT ![c] = k],
             session' = [session EXCEPT ![k] = "clean"], pc' = [pc EXCEPT ![c] = "hold"]
      PROVE  PoolInv'
  <2>1. CPTypeOK'
    BY <1>1, <1>2, <1>3 DEF CPTypeOK
  <2>2. check_in[k] = "no" /\ ~Idle(k) /\ Holders(k) = {}
    BY <1>1, <1>3, FreeFacts DEF CheckInInv, CPTypeOK
  <2>3. \A d \in Clients : conn[d] # k
    BY <2>2 DEF Holders
  <2>4. HolderInv'
    BY <1>1, <1>2, <1>3, <2>2, <2>3 DEF HolderInv, CPTypeOK
  <2>5. \A j \in Conns \ {k} : Holders(j)' = Holders(j)
    BY <1>1, <1>3 DEF Holders, CPTypeOK
  <2>6. StackInv' /\ CheckInInv'
    BY <1>1, <1>2, <1>3, <2>2, <2>5 DEF StackInv, CheckInInv, CPTypeOK
  <2>7. QED
    BY <1>2, <2>1, <2>4, <2>6 DEF PoolInv
<1>4. ASSUME pc' = [pc EXCEPT ![c] = "idle"], UNCHANGED <<conn, session>>
      PROVE  PoolInv'
  <2>1. CPTypeOK' /\ HolderInv'
    BY <1>1, <1>2, <1>4 DEF CPTypeOK, HolderInv
  <2>2. StackInv' /\ CheckInInv'
    BY <1>1, <1>2, <1>4, Frames DEF StackInv, CheckInInv
  <2>3. QED
    BY <1>2, <2>1, <2>2 DEF PoolInv
<1>5. QED
  BY <1>3, <1>4 DEF connect

LEMMA CancelInv ==
  ASSUME PoolInv, NEW c \in Clients, cancel(c)
  PROVE  PoolInv'
<1>1. CPTypeOK /\ HolderInv /\ StackInv /\ CheckInInv
  BY DEF PoolInv
<1>2. /\ conn' = [conn EXCEPT ![c] = None] /\ pc' = [pc EXCEPT ![c] = "idle"]
      /\ UNCHANGED <<conns, check_in>> /\ Distinct' /\ \A k : Idle(k)' = Idle(k)
  BY Frames DEF PoolInv, cancel
<1>3. \A k \in Conns : Holders(k)' \subseteq Holders(k)
  BY <1>1, <1>2, CompioPoolAssumption DEF Holders, CPTypeOK
<1>4. CASE pc[c] = "ping" /\ Closed(conn[c])
  <2>1. PICK dead \in Conns : /\ dead = conn[c] /\ ~Idle(dead) /\ check_in[dead] = "no"
                              /\ \A d \in Clients : conn[d] = dead => d = c
    BY <1>1, <1>4, HolderFacts DEF HolderInv
  <2>2. /\ session' = [session EXCEPT ![dead] = "none"]
        /\ is_broken' = [is_broken EXCEPT ![dead] = FALSE]
        /\ astray' = [astray EXCEPT ![dead] = FALSE]
    BY <1>4, <2>1 DEF Closed
  <2>3. CPTypeOK'
    BY <1>1, <1>2, <2>2 DEF CPTypeOK
  <2>4. HolderInv'
    BY <1>1, <1>2, <2>1, <2>2, CompioPoolAssumption DEF HolderInv, CPTypeOK
  <2>5. StackInv' /\ CheckInInv'
    BY <1>1, <1>2, <1>3, <2>1, <2>2 DEF StackInv, CheckInInv, CPTypeOK
  <2>6. QED
    BY <1>2, <2>3, <2>4, <2>5 DEF PoolInv
<1>5. CASE UNCHANGED <<session, is_broken, astray>>
  <2>1. CPTypeOK'
    BY <1>1, <1>2, <1>5 DEF CPTypeOK
  <2>2. HolderInv'
    BY <1>1, <1>2, <1>5, CompioPoolAssumption DEF HolderInv, CPTypeOK
  <2>3. StackInv' /\ CheckInInv'
    BY <1>1, <1>2, <1>3, <1>5 DEF StackInv, CheckInInv
  <2>4. QED
    BY <1>2, <2>1, <2>2, <2>3 DEF PoolInv
<1>6. QED
  BY <1>4, <1>5 DEF cancel, connection

LEMMA UseInv ==
  ASSUME PoolInv, NEW c \in Clients, use(c) \/ lose_step(c)
  PROVE  PoolInv'
<1>1. CPTypeOK /\ HolderInv /\ StackInv /\ CheckInInv
  BY DEF PoolInv
<1>2. PICK k \in Conns : /\ k = conn[c] /\ ~Idle(k) /\ check_in[k] = "no"
                         /\ session[k] # "none"
  BY HolderFacts DEF use, lose_step
<1>3. /\ UNCHANGED <<conns, pc, conn, check_in>>
      /\ \/ \E s \in {"used", "tx"} : session' = [session EXCEPT ![k] = s]
            /\ UNCHANGED <<is_broken, astray>>
         \/ is_broken' = [is_broken EXCEPT ![k] = TRUE] /\ UNCHANGED <<session, astray>>
         \/ astray' = [astray EXCEPT ![k] = TRUE] /\ UNCHANGED <<session, is_broken>>
  BY <1>2 DEF use, lose_step
<1>4. Distinct' /\ (\A j : Idle(j)' = Idle(j)) /\ \A j : Holders(j)' = Holders(j)
  BY <1>3, Frames DEF PoolInv
<1>5. CPTypeOK' /\ HolderInv'
  <2>1. CPTypeOK'
    BY <1>1, <1>3 DEF CPTypeOK
  <2>2. \A j \in Conns : session[j] # "none" => session'[j] # "none"
    BY <1>1, <1>2, <1>3 DEF CPTypeOK
  <2>3. HolderInv'
    BY <1>1, <1>3, <2>2 DEF HolderInv
  <2>4. QED
    BY <2>1, <2>3
<1>6. StackInv'
  BY <1>1, <1>2, <1>3, <1>4 DEF StackInv, CPTypeOK
<1>7. CheckInInv'
  BY <1>1, <1>2, <1>3 DEF CheckInInv, CPTypeOK
<1>8. QED
  BY <1>4, <1>5, <1>6, <1>7 DEF PoolInv

LEMMA DropInv ==
  ASSUME PoolInv, NEW c \in Clients, drop(c)
  PROVE  PoolInv'
<1>1. CPTypeOK /\ HolderInv /\ StackInv /\ CheckInInv
  BY DEF PoolInv
<1>2. PICK k \in Conns : /\ k = conn[c] /\ ~Idle(k) /\ session[k] # "none"
                         /\ \A d \in Clients : conn[d] = k => d = c
  BY <1>1, HolderFacts DEF drop, HolderInv
<1>3. /\ check_in' = [check_in EXCEPT ![k] = "start"]
      /\ conn' = [conn EXCEPT ![c] = None] /\ pc' = [pc EXCEPT ![c] = "idle"]
      /\ UNCHANGED <<conns, session, is_broken, astray>> /\ Distinct' /\ \A j : Idle(j)' = Idle(j)
  BY <1>2, Frames DEF PoolInv, drop, connection
<1>4. \A j \in Conns : Holders(j)' \subseteq Holders(j)
  BY <1>1, <1>3, CompioPoolAssumption DEF Holders, CPTypeOK
<1>5. CPTypeOK'
  BY <1>1, <1>3 DEF CPTypeOK
<1>6. HolderInv'
  BY <1>1, <1>2, <1>3, CompioPoolAssumption DEF HolderInv, CPTypeOK
<1>7. StackInv' /\ CheckInInv'
  BY <1>1, <1>2, <1>3, <1>4 DEF StackInv, CheckInInv, CPTypeOK
<1>8. QED
  BY <1>3, <1>5, <1>6, <1>7 DEF PoolInv

\* The task that checks k in ends and k is closed.
LEMMA ClosedInv ==
  ASSUME PoolInv, NEW k \in Conns, check_in[k] # "no",
         check_in' = [check_in EXCEPT ![k] = "no"], Closed(k), UNCHANGED <<conns, pc, conn>>
  PROVE  PoolInv'
<1>1. CPTypeOK /\ HolderInv /\ StackInv /\ CheckInInv /\ ~Idle(k) /\ Holders(k) = {}
  BY FreeFacts DEF PoolInv
<1>2. Distinct' /\ (\A j : Idle(j)' = Idle(j)) /\ \A j : Holders(j)' = Holders(j)
  BY Frames DEF PoolInv
<1>3. CPTypeOK'
  BY <1>1 DEF CPTypeOK, Closed
<1>4. HolderInv'
  BY <1>1 DEF HolderInv, Holders, Closed, CPTypeOK
<1>5. StackInv' /\ CheckInInv'
  BY <1>1, <1>2 DEF StackInv, CheckInInv, Closed, CPTypeOK
<1>6. QED
  BY <1>2, <1>3, <1>4, <1>5 DEF PoolInv

LEMMA CheckInStartInv ==
  ASSUME PoolInv, NEW k \in Conns, check_in_start(k)
  PROVE  PoolInv'
<1>1. CPTypeOK /\ HolderInv /\ StackInv /\ CheckInInv /\ check_in[k] = "start"
  BY DEF PoolInv, check_in_start
<1>2. CASE is_broken[k]
  BY <1>1, <1>2, ClosedInv DEF check_in_start
<1>3. CASE ~is_broken[k]
  <2>1. /\ check_in' = [check_in EXCEPT ![k] = "discard"]
        /\ UNCHANGED <<conns, pc, conn, session, is_broken, astray>>
    BY <1>3 DEF check_in_start, connection
  <2>2. Distinct' /\ (\A j : Idle(j)' = Idle(j)) /\ \A j : Holders(j)' = Holders(j)
    BY <2>1, Frames DEF PoolInv
  <2>3. CPTypeOK' /\ HolderInv'
    BY <1>1, <2>1 DEF CPTypeOK, HolderInv
  <2>4. StackInv' /\ CheckInInv'
    BY <1>1, <1>3, <2>1, <2>2 DEF StackInv, CheckInInv, CPTypeOK
  <2>5. QED
    BY <2>2, <2>3, <2>4 DEF PoolInv
<1>4. QED
  BY <1>2, <1>3

LEMMA DiscardAllInv ==
  ASSUME PoolInv, NEW k \in Conns, discard_all(k)
  PROVE  PoolInv'
<1>1. /\ CPTypeOK /\ HolderInv /\ StackInv /\ CheckInInv /\ Distinct /\ check_in[k] = "discard"
      /\ ~Idle(k) /\ Holders(k) = {} /\ ~is_broken[k] /\ session[k] # "none"
  BY FreeFacts DEF PoolInv, discard_all, CheckInInv
<1>2. check_in' = [check_in EXCEPT ![k] = "no"] /\ UNCHANGED <<pc, conn>>
  BY DEF discard_all
<1>3. CASE Closed(k) /\ UNCHANGED conns
  BY <1>1, <1>2, <1>3, ClosedInv
<1>4. CASE Len(conns) < MaxIdle /\ conns' = Append(conns, k)
             /\ session' = [session EXCEPT ![k] = IF @ = "tx" THEN @ ELSE "clean"]
             /\ (session[k] # "tx" \/ astray[k]) /\ UNCHANGED <<is_broken, astray>>
  <2>1. /\ conns' \in Seq(Conns) /\ Len(conns') <= MaxIdle /\ Idle(k)' /\ Distinct'
        /\ \A j \in Conns \ {k} : Idle(j)' <=> Idle(j)
    BY <1>1, <1>4, PushTop
  <2>2. CPTypeOK'
    BY <1>1, <1>2, <1>4, <2>1 DEF CPTypeOK
  <2>3. HolderInv'
    BY <1>1, <1>2, <1>4 DEF HolderInv, Holders, CPTypeOK
  <2>4. \A j : Holders(j)' = Holders(j)
    BY <1>2, Frames
  <2>5. StackInv' /\ CheckInInv'
    BY <1>1, <1>2, <1>4, <2>1, <2>4 DEF StackInv, CheckInInv, CPTypeOK
  <2>6. QED
    BY <2>1, <2>2, <2>3, <2>5 DEF PoolInv
<1>5. QED
  BY <1>3, <1>4 DEF discard_all, push

LEMMA NextInv == PoolInv /\ [CompioPoolNext]_poolvars => PoolInv'
<1> SUFFICES ASSUME PoolInv, [CompioPoolNext]_poolvars PROVE PoolInv'
  OBVIOUS
<1>1. CASE UNCHANGED poolvars
  <2>1. CPTypeOK' /\ HolderInv' /\ CheckInInv'
    BY <1>1 DEF poolvars, connection, PoolInv, CPTypeOK, HolderInv, CheckInInv
  <2>2. Distinct' /\ StackInv'
    BY <1>1, Frames DEF poolvars, connection, PoolInv, StackInv
  <2>3. QED
    BY <2>1, <2>2 DEF PoolInv
<1>2. QED
  BY <1>1, GetInv, PingOkInv, PingFailedInv, ConnectInv, CancelInv, UseInv, DropInv,
     CheckInStartInv, DiscardAllInv DEF CompioPoolNext

LEMMA PoolInvariant == CompioPoolSpec => []PoolInv
  BY InitInv, NextInv, PTL DEF CompioPoolSpec

-----------------------------------------------------------------------------
\* The types of a connection's place once its state is known.
LEMMA PlaceFacts ==
  \A k :
    /\ session[k] = "none" => Place(k) = "closed"
    /\ session[k] # "none" /\ check_in[k] # "no" => Place(k) = "back"
    /\ session[k] # "none" /\ check_in[k] = "no" /\ Idle(k) => Place(k) = "idle"
    /\ session[k] # "none" /\ check_in[k] = "no" /\ ~Idle(k) => Place(k) = "out"
  BY DEF Place

LEMMA PlaceFactsNext ==
  \A k :
    /\ session'[k] = "none" => Place(k)' = "closed"
    /\ session'[k] # "none" /\ check_in'[k] # "no" => Place(k)' = "back"
    /\ session'[k] # "none" /\ check_in'[k] = "no" /\ Idle(k)' => Place(k)' = "idle"
    /\ session'[k] # "none" /\ check_in'[k] = "no" /\ ~Idle(k)' => Place(k)' = "out"
  BY DEF Place

\* What stays for a connection whose state stays.
LEMMA Unmoved ==
  ASSUME NEW k, session'[k] = session[k], check_in'[k] = check_in[k],
         Idle(k)' <=> Idle(k), is_broken'[k] = is_broken[k], astray'[k] = astray[k]
  PROVE  Place(k)' = Place(k) /\ Clean(k)' = Clean(k)
  BY DEF Place, Clean

\* A connection moves and the others stay.
LEMMA MoveFacts ==
  ASSUME NEW k \in Conns, NEW from, NEW to, NEW who,
         Place(k) = from, Place(k)' = to, Holders(k)' = who,
         \A j \in Conns \ {k} : Place(j)' = Place(j) /\ Holders(j)' = Holders(j)
  PROVE  Contract!Move(k, from, to, who)
  BY DEF Contract!Move

\* A connection that is closed, the others as they were.
LEMMA DiscardFacts ==
  ASSUME NEW k \in Conns, Place(k) \in {"out", "back"}, Place(k)' = "closed",
         Holders(k)' = {}, Clean(k)' = FALSE,
         astray' = [astray EXCEPT ![k] = FALSE],
         \A j \in Conns \ {k} :
           Place(j)' = Place(j) /\ Holders(j)' = Holders(j) /\ Clean(j)' = Clean(j)
  PROVE  Contract!Discard(k)
<1>1. \E from \in {"out", "back"} : Contract!Move(k, from, "closed", {})
  BY MoveFacts
<1>2. [j \in Conns |-> Clean(j)]' = [[j \in Conns |-> Clean(j)] EXCEPT ![k] = FALSE]
  OBVIOUS
<1>3. QED
  BY <1>1, <1>2 DEF Contract!Discard, Contract!Gone

LEMMA StutterFacts ==
  ASSUME UNCHANGED astray,
         \A j \in Conns : Place(j)' = Place(j) /\ Holders(j)' = Holders(j) /\ Clean(j)' = Clean(j)
  PROVE  UNCHANGED Contract!contract
  BY DEF Contract!contract

\* get takes a clean connection, or one that was left astray, off the stack, or has nothing yet.
LEMMA GetStep ==
  ASSUME PoolInv, NEW c \in Clients, get(c)
  PROVE  [Contract!ContractNext]_(Contract!contract)
<1>1. CPTypeOK /\ HolderInv /\ StackInv
  BY DEF PoolInv
<1>2. conn[c] \notin Conns /\ Candidate(c, conns) /\ UNCHANGED <<check_in, session, is_broken, astray>>
  BY <1>1 DEF get, connection, HolderInv
<1>3. ASSUME NEW top \in Conns, Idle(top), ~Idle(top)',
             \A k \in Conns \ {top} : Idle(k)' <=> Idle(k),
             conn' = [conn EXCEPT ![c] = top]
      PROVE  Contract!Lend(c, top)
  <2>1. /\ session[top] = "clean" \/ astray[top]
        /\ session[top] # "none" /\ ~is_broken[top] /\ check_in[top] = "no"
        /\ Holders(top) = {}
    BY <1>1, <1>3 DEF StackInv
  <2>2. Place(top) = "idle" /\ Place(top)' = "out" /\ (Clean(top) \/ astray[top])
    BY <1>2, <1>3, <2>1, PlaceFacts, PlaceFactsNext DEF Clean
  <2>3. Holders(top)' = {c} /\ \A k \in Conns \ {top} : Holders(k)' = Holders(k)
    BY <1>1, <1>2, <1>3, <2>1 DEF Holders, CPTypeOK
  <2>4. \A k \in Conns \ {top} : Place(k)' = Place(k)
    BY <1>2, <1>3, Unmoved
  <2>5. \A k \in Conns : Clean(k)' = Clean(k)
    BY <1>2 DEF Clean
  <2>6. QED
    BY <1>2, <2>2, <2>3, <2>4, <2>5, MoveFacts DEF Contract!Lend, Contract!Fit
<1>4. ASSUME conns' = conns, conn' = [conn EXCEPT ![c] = None]
      PROVE  UNCHANGED Contract!contract
  <2>1. \A k \in Conns : Holders(k)' = Holders(k)
    BY <1>1, <1>2, <1>4, CompioPoolAssumption DEF Holders, CPTypeOK
  <2>2. \A k \in Conns : Place(k)' = Place(k) /\ Clean(k)' = Clean(k)
    BY <1>2, <1>4, Frames, Unmoved
  <2>3. QED
    BY <1>2, <2>1, <2>2, StutterFacts
<1>5. QED
  BY <1>2, <1>3, <1>4, CandidateFacts DEF Contract!ContractNext

\* A dead connection is closed, and the next one taken in the same step.
LEMMA PingFailedStep ==
  ASSUME PoolInv, NEW c \in Clients, ping_failed(c)
  PROVE  [Contract!ContractNext]_(Contract!contract)
<1>1. CPTypeOK /\ HolderInv /\ StackInv
  BY DEF PoolInv
<1>2. PICK dead \in Conns :
        /\ dead = conn[c] /\ ~Idle(dead) /\ check_in[dead] = "no" /\ session[dead] # "none"
        /\ Holders(dead) = {c}
  BY HolderFacts DEF ping_failed
<1>3. /\ session' = [session EXCEPT ![dead] = "none"]
      /\ is_broken' = [is_broken EXCEPT ![dead] = FALSE]
      /\ astray' = [astray EXCEPT ![dead] = FALSE]
      /\ Candidate(c, conns) /\ UNCHANGED check_in
  BY <1>2 DEF ping_failed, Closed
<1>4. Place(dead) = "out" /\ Place(dead)' = "closed" /\ Clean(dead)' = FALSE
  BY <1>1, <1>2, <1>3, PlaceFacts, PlaceFactsNext DEF CPTypeOK, Clean
<1>5. \A k \in Conns \ {dead} : Clean(k)' = Clean(k)
  BY <1>1, <1>3 DEF Clean, CPTypeOK
<1>6. [j \in Conns |-> Clean(j)]' = [[j \in Conns |-> Clean(j)] EXCEPT ![dead] = FALSE]
  BY <1>4, <1>5
<1>7. ASSUME NEW top \in Conns, Idle(top), ~Idle(top)',
             \A k \in Conns \ {top} : Idle(k)' <=> Idle(k),
             conn' = [conn EXCEPT ![c] = top]
      PROVE  Contract!Replace(c, dead, top)
  <2>1. /\ top # dead /\ (session[top] = "clean" \/ astray[top])
        /\ session[top] # "none" /\ ~is_broken[top] /\ check_in[top] = "no"
        /\ Holders(top) = {}
    BY <1>1, <1>2, <1>7 DEF StackInv
  <2>2. session'[top] # "none" /\ check_in'[top] = "no"
    BY <1>1, <1>3, <2>1 DEF CPTypeOK
  <2>3. Place(top) = "idle" /\ Place(top)' = "out" /\ (Clean(top) \/ astray[top])
    BY <1>7, <2>1, <2>2, PlaceFacts, PlaceFactsNext DEF Clean
  <2>4. Holders(top)' = {c} /\ Holders(dead)' = {}
    BY <1>1, <1>2, <1>7, <2>1 DEF Holders, CPTypeOK
  <2>5. \A k \in Conns \ {top, dead} : Holders(k)' = Holders(k)
    BY <1>1, <1>2, <1>7 DEF Holders, CPTypeOK
  <2>6. \A k \in Conns \ {top, dead} : Place(k)' = Place(k)
    <3>1. \A k \in Conns \ {top, dead} : /\ session'[k] = session[k] /\ check_in'[k] = check_in[k]
                                         /\ is_broken'[k] = is_broken[k] /\ (Idle(k)' <=> Idle(k))
                                         /\ astray'[k] = astray[k]
      BY <1>1, <1>3, <1>7 DEF CPTypeOK
    <3>2. QED
      BY <3>1, Unmoved
  <2>7. QED
    BY <1>2, <1>3, <1>4, <1>6, <2>1, <2>3, <2>4, <2>5, <2>6
    DEF Contract!Replace, Contract!Fit, Contract!Gone
<1>8. ASSUME conns' = conns, conn' = [conn EXCEPT ![c] = None]
      PROVE  Contract!Discard(dead)
  <2>1. Holders(dead)' = {} /\ \A k \in Conns \ {dead} : Holders(k)' = Holders(k)
    BY <1>1, <1>2, <1>8, CompioPoolAssumption DEF Holders, CPTypeOK
  <2>2. \A k \in Conns \ {dead} : Place(k)' = Place(k)
    <3>1. \A k \in Conns \ {dead} : /\ session'[k] = session[k] /\ check_in'[k] = check_in[k]
                                    /\ is_broken'[k] = is_broken[k] /\ (Idle(k)' <=> Idle(k))
                                    /\ astray'[k] = astray[k]
      BY <1>1, <1>3, <1>8, Frames DEF CPTypeOK
    <3>2. QED
      BY <3>1, Unmoved
  <2>3. Contract!Move(dead, "out", "closed", {})
    BY <1>4, <2>1, <2>2, MoveFacts
  <2>4. QED
    BY <1>3, <1>6, <2>3 DEF Contract!Discard, Contract!Gone
<1>9. QED
  BY <1>2, <1>3, <1>7, <1>8, CandidateFacts DEF Contract!ContractNext

\* A ping that succeeds is not seen from outside.
LEMMA PingOkStep ==
  ASSUME PoolInv, NEW c \in Clients, ping_ok(c)
  PROVE  UNCHANGED Contract!contract
<1>1. \A k \in Conns : Place(k)' = Place(k) /\ Holders(k)' = Holders(k) /\ Clean(k)' = Clean(k)
  BY Frames, Unmoved DEF ping_ok, connection
<1>2. QED
  BY <1>1, StutterFacts DEF ping_ok, connection

LEMMA ConnectStep ==
  ASSUME PoolInv, NEW c \in Clients, connect(c)
  PROVE  [Contract!ContractNext]_(Contract!contract)
<1>1. CPTypeOK /\ HolderInv /\ CheckInInv /\ conn[c] \notin Conns
  BY DEF PoolInv, connect, HolderInv
<1>2. UNCHANGED <<conns, check_in, is_broken, astray>> /\ \A k : Idle(k)' = Idle(k)
  BY Frames DEF connect
<1>3. ASSUME NEW k \in Conns, session[k] = "none", conn' = [conn EXCEPT ![c] = k],
             session' = [session EXCEPT ![k] = "clean"]
      PROVE  Contract!Open(c, k)
  <2>1. /\ check_in[k] = "no" /\ ~is_broken[k] /\ ~astray[k]
        /\ Holders(k) = {} /\ ~Idle(k)
    BY <1>1, <1>3, FreeFacts DEF CheckInInv, CPTypeOK
  <2>2. session'[k] = "clean"
    BY <1>1, <1>3 DEF CPTypeOK
  <2>3. Place(k) = "closed" /\ Place(k)' = "out" /\ Clean(k)' = TRUE
    BY <1>2, <1>3, <2>1, <2>2, PlaceFacts, PlaceFactsNext DEF Clean
  <2>4. Holders(k)' = {c} /\ \A j \in Conns \ {k} : Holders(j)' = Holders(j)
    BY <1>1, <1>3, <2>1 DEF Holders, CPTypeOK
  <2>5. \A j \in Conns \ {k} : session'[j] = session[j]
    BY <1>1, <1>3 DEF CPTypeOK
  <2>6. \A j \in Conns \ {k} : Place(j)' = Place(j) /\ Clean(j)' = Clean(j)
    BY <1>2, <2>5, Unmoved
  <2>7. Contract!Move(k, "closed", "out", {c})
    BY <2>3, <2>4, <2>6, MoveFacts
  <2>8. [j \in Conns |-> Clean(j)]' = [[j \in Conns |-> Clean(j)] EXCEPT ![k] = TRUE]
    BY <2>3, <2>6
  <2>9. QED
    BY <1>2, <2>1, <2>7, <2>8 DEF Contract!Open
<1>4. ASSUME UNCHANGED <<conn, session>>
      PROVE  UNCHANGED Contract!contract
  BY <1>2, <1>4, Frames, Unmoved, StutterFacts
<1>5. QED
  BY <1>3, <1>4 DEF connect, Contract!ContractNext

\* A get cancelled at its ping closes the connection it has.
LEMMA CancelStep ==
  ASSUME PoolInv, NEW c \in Clients, cancel(c)
  PROVE  [Contract!ContractNext]_(Contract!contract)
<1>1. CPTypeOK /\ HolderInv
  BY DEF PoolInv
<1>2. conn' = [conn EXCEPT ![c] = None] /\ UNCHANGED <<conns, check_in>>
      /\ \A k : Idle(k)' = Idle(k)
  BY Frames DEF cancel
<1>3. CASE pc[c] = "ping" /\ Closed(conn[c])
  <2>1. PICK dead \in Conns :
          /\ dead = conn[c] /\ ~Idle(dead) /\ check_in[dead] = "no" /\ session[dead] # "none"
          /\ Holders(dead) = {c}
    BY <1>3, HolderFacts
  <2>2. /\ session' = [session EXCEPT ![dead] = "none"]
        /\ is_broken' = [is_broken EXCEPT ![dead] = FALSE]
        /\ astray' = [astray EXCEPT ![dead] = FALSE]
    BY <1>3, <2>1 DEF Closed
  <2>3. Place(dead) = "out" /\ Place(dead)' = "closed" /\ Clean(dead)' = FALSE
    BY <1>1, <2>1, <2>2, PlaceFacts, PlaceFactsNext DEF CPTypeOK, Clean
  <2>4. Holders(dead)' = {} /\ \A k \in Conns \ {dead} : Holders(k)' = Holders(k)
    BY <1>1, <1>2, <2>1, CompioPoolAssumption DEF Holders, CPTypeOK
  <2>5. \A k \in Conns \ {dead} : /\ session'[k] = session[k] /\ is_broken'[k] = is_broken[k]
                                   /\ astray'[k] = astray[k]
    BY <1>1, <2>2 DEF CPTypeOK
  <2>6. \A k \in Conns \ {dead} : Place(k)' = Place(k) /\ Clean(k)' = Clean(k)
    BY <1>2, <2>5, Unmoved
  <2>7. Contract!Discard(dead)
    BY <2>2, <2>3, <2>4, <2>6, DiscardFacts
  <2>8. QED
    BY <2>7 DEF Contract!ContractNext
<1>4. CASE pc[c] = "connect" /\ UNCHANGED <<session, is_broken, astray>>
  <2>1. \A k \in Conns : Holders(k)' = Holders(k)
    BY <1>1, <1>2, <1>4, CompioPoolAssumption DEF Holders, CPTypeOK, HolderInv
  <2>2. \A k \in Conns : Place(k)' = Place(k) /\ Clean(k)' = Clean(k)
    BY <1>2, <1>4, Unmoved
  <2>3. QED
    BY <1>4, <2>1, <2>2, StutterFacts
<1>5. QED
  BY <1>3, <1>4 DEF cancel, connection

LEMMA UseStep ==
  ASSUME PoolInv, NEW c \in Clients, use(c) \/ lose_step(c)
  PROVE  [Contract!ContractNext]_(Contract!contract)
<1>1. CPTypeOK
  BY DEF PoolInv
<1>2. PICK k \in Conns : /\ k = conn[c] /\ ~Idle(k) /\ check_in[k] = "no"
                         /\ session[k] # "none"
  BY HolderFacts DEF use, lose_step
<1>3. /\ UNCHANGED <<conns, pc, conn, check_in>>
      /\ \/ \E s \in {"used", "tx"} : session' = [session EXCEPT ![k] = s]
            /\ UNCHANGED <<is_broken, astray>>
         \/ is_broken' = [is_broken EXCEPT ![k] = TRUE] /\ UNCHANGED <<session, astray>>
         \/ astray' = [astray EXCEPT ![k] = TRUE] /\ UNCHANGED <<session, is_broken>>
  BY <1>2 DEF use, lose_step
<1>4. (\A j : Idle(j)' = Idle(j)) /\ \A j : Holders(j)' = Holders(j)
  BY <1>3, Frames
<1>5. session'[k] # "none"
      /\ \A j \in Conns \ {k} : /\ session'[j] = session[j] /\ is_broken'[j] = is_broken[j]
                                /\ astray'[j] = astray[j]
  BY <1>1, <1>2, <1>3 DEF CPTypeOK
<1>6. \A j \in Conns \ {k} : Place(j)' = Place(j) /\ Clean(j)' = Clean(j)
  BY <1>3, <1>4, <1>5, Unmoved
<1>7. Place(k) = "out" /\ Place(k)' = "out"
  BY <1>2, <1>3, <1>4, <1>5, PlaceFacts, PlaceFactsNext
<1>8. Contract!Use(k)
  BY <1>4, <1>5, <1>6, <1>7 DEF Contract!Use, Contract!Only
<1>9. QED
  BY <1>8 DEF Contract!ContractNext

LEMMA DropStep ==
  ASSUME PoolInv, NEW c \in Clients, drop(c)
  PROVE  [Contract!ContractNext]_(Contract!contract)
<1>1. CPTypeOK
  BY DEF PoolInv
<1>2. PICK k \in Conns : /\ k = conn[c] /\ ~Idle(k) /\ check_in[k] = "no"
                         /\ session[k] # "none" /\ Holders(k) = {c}
  BY HolderFacts DEF drop
<1>3. /\ check_in' = [check_in EXCEPT ![k] = "start"] /\ conn' = [conn EXCEPT ![c] = None]
      /\ UNCHANGED <<conns, session, is_broken, astray>> /\ \A j : Idle(j)' = Idle(j)
  BY <1>2, Frames DEF drop, connection
<1>4. Holders(k)' = {} /\ \A j \in Conns \ {k} : Holders(j)' = Holders(j)
  BY <1>1, <1>2, <1>3, CompioPoolAssumption DEF Holders, CPTypeOK
<1>5. check_in'[k] = "start" /\ \A j \in Conns \ {k} : check_in'[j] = check_in[j]
  BY <1>1, <1>3 DEF CPTypeOK
<1>6. Place(k) = "out" /\ Place(k)' = "back"
  BY <1>2, <1>3, <1>5, PlaceFacts, PlaceFactsNext
<1>7. \A j \in Conns \ {k} : Place(j)' = Place(j)
  BY <1>3, <1>5, Unmoved
<1>8. \A j \in Conns : Clean(j)' = Clean(j)
  BY <1>3 DEF Clean
<1>9. Contract!GiveBack(k)
  BY <1>3, <1>4, <1>6, <1>7, <1>8, MoveFacts DEF Contract!GiveBack
<1>10. QED
  BY <1>9 DEF Contract!ContractNext

\* The task that checks k in closes it.
LEMMA ClosedStep ==
  ASSUME PoolInv, NEW k \in Conns, check_in[k] # "no",
         check_in' = [check_in EXCEPT ![k] = "no"], Closed(k), UNCHANGED <<conns, conn>>
  PROVE  Contract!Discard(k)
<1>1. CPTypeOK /\ session[k] # "none" /\ Holders(k) = {}
  BY FreeFacts DEF PoolInv, CheckInInv
<1>2. (\A j : Idle(j)' = Idle(j)) /\ \A j : Holders(j)' = Holders(j)
  BY Frames
<1>3. Place(k) = "back" /\ Place(k)' = "closed" /\ Clean(k)' = FALSE
  BY <1>1, PlaceFacts, PlaceFactsNext DEF CPTypeOK, Clean, Closed
<1>4. \A j \in Conns \ {k} : /\ session'[j] = session[j] /\ check_in'[j] = check_in[j]
                             /\ is_broken'[j] = is_broken[j] /\ astray'[j] = astray[j]
  BY <1>1 DEF CPTypeOK, Closed
<1>5. \A j \in Conns \ {k} : Place(j)' = Place(j) /\ Clean(j)' = Clean(j)
  BY <1>2, <1>4, Unmoved
<1>6. QED
  BY <1>1, <1>2, <1>3, <1>5, DiscardFacts DEF Closed

LEMMA CheckInStartStep ==
  ASSUME PoolInv, NEW k \in Conns, check_in_start(k)
  PROVE  [Contract!ContractNext]_(Contract!contract)
<1>1. CPTypeOK /\ CheckInInv /\ check_in[k] = "start" /\ UNCHANGED <<conns, conn>>
  BY DEF PoolInv, check_in_start
<1>2. CASE is_broken[k]
  BY <1>1, <1>2, ClosedStep DEF check_in_start, Contract!ContractNext
<1>3. CASE ~is_broken[k]
  <2>1. check_in' = [check_in EXCEPT ![k] = "discard"] /\ UNCHANGED <<session, is_broken, astray>>
    BY <1>3 DEF check_in_start, connection
  <2>2. (\A j : Idle(j)' = Idle(j)) /\ \A j : Holders(j)' = Holders(j)
    BY <1>1, Frames
  <2>3. Place(k) = "back" /\ Place(k)' = "back"
    BY <1>1, <2>1, PlaceFacts, PlaceFactsNext DEF CPTypeOK, CheckInInv
  <2>4. \A j \in Conns \ {k} : Place(j)' = Place(j)
    BY <1>1, <2>1, <2>2, Unmoved DEF CPTypeOK
  <2>5. \A j \in Conns : Clean(j)' = Clean(j)
    BY <2>1 DEF Clean
  <2>6. QED
    BY <2>1, <2>2, <2>3, <2>4, <2>5, StutterFacts
<1>4. QED
  BY <1>2, <1>3

\* DISCARD ALL: the connection goes back on the stack clean, or is closed.
LEMMA DiscardAllStep ==
  ASSUME PoolInv, NEW k \in Conns, discard_all(k)
  PROVE  [Contract!ContractNext]_(Contract!contract)
<1>1. /\ CPTypeOK /\ Distinct /\ check_in[k] = "discard" /\ ~is_broken[k]
      /\ session[k] # "none" /\ ~Idle(k) /\ Holders(k) = {}
  BY FreeFacts DEF PoolInv, discard_all, CheckInInv
<1>2. check_in' = [check_in EXCEPT ![k] = "no"] /\ UNCHANGED conn
      /\ \A j : Holders(j)' = Holders(j)
  BY Frames DEF discard_all
<1>3. CASE Closed(k) /\ UNCHANGED conns
  BY <1>1, <1>2, <1>3, ClosedStep DEF Contract!ContractNext
<1>4. CASE Len(conns) < MaxIdle /\ conns' = Append(conns, k)
             /\ session' = [session EXCEPT ![k] = IF @ = "tx" THEN @ ELSE "clean"]
             /\ (session[k] # "tx" \/ astray[k]) /\ UNCHANGED <<is_broken, astray>>
  <2>1. Idle(k)' /\ \A j \in Conns \ {k} : Idle(j)' <=> Idle(j)
    BY <1>1, <1>4, PushTop
  <2>2. /\ session'[k] # "none" /\ check_in'[k] = "no"
        /\ session'[k] = "clean" \/ astray[k]
    BY <1>1, <1>2, <1>4 DEF CPTypeOK
  <2>3. Place(k) = "back" /\ Place(k)' = "idle" /\ Clean(k)' = ~astray[k]
    BY <1>1, <1>4, <2>1, <2>2, PlaceFacts, PlaceFactsNext DEF Clean
  <2>4. \A j \in Conns \ {k} : session'[j] = session[j] /\ check_in'[j] = check_in[j]
    BY <1>1, <1>2, <1>4 DEF CPTypeOK
  <2>5. \A j \in Conns \ {k} : Place(j)' = Place(j) /\ Clean(j)' = Clean(j)
    BY <1>4, <2>1, <2>4, Unmoved
  <2>6. Contract!Move(k, "back", "idle", {})
    BY <1>1, <1>2, <2>3, <2>5, MoveFacts
  <2>7. [j \in Conns |-> Clean(j)]' = [[j \in Conns |-> Clean(j)] EXCEPT ![k] = ~astray[k]]
    BY <2>3, <2>5
  <2>8. QED
    BY <1>4, <2>6, <2>7 DEF Contract!Keep, Contract!ContractNext
<1>5. QED
  BY <1>3, <1>4 DEF discard_all, push

-----------------------------------------------------------------------------
LEMMA ContractInitStep == CompioPoolInit => Contract!ContractInit
<1> SUFFICES ASSUME CompioPoolInit PROVE Contract!ContractInit
  OBVIOUS
<1>1. \A k \in Conns : Place(k) = "closed" /\ Clean(k) = FALSE /\ Holders(k) = {}
  BY CompioPoolAssumption DEF CompioPoolInit, Place, Clean, Holders
<1>2. QED
  BY <1>1 DEF CompioPoolInit, Contract!ContractInit

LEMMA ContractStep ==
  PoolInv /\ [CompioPoolNext]_poolvars => [Contract!ContractNext]_(Contract!contract)
<1> SUFFICES ASSUME PoolInv, [CompioPoolNext]_poolvars
             PROVE  [Contract!ContractNext]_(Contract!contract)
  OBVIOUS
<1>1. CASE UNCHANGED poolvars
  BY <1>1, Frames, Unmoved, StutterFacts DEF poolvars, connection
<1>2. CASE CompioPoolNext
  BY <1>2, GetStep, PingOkStep, PingFailedStep, ConnectStep, CancelStep, UseStep, DropStep,
     CheckInStartStep, DiscardAllStep DEF CompioPoolNext
<1>3. QED
  BY <1>1, <1>2

(***************************************************************************)
(* The variables keep their types, and the stack its bound: push compares  *)
(* its length with pool_max_idle_conn before every insertion.              *)
(***************************************************************************)
THEOREM CompioPoolTypeCorrect == CompioPoolSpec => []CPTypeOK
<1>1. PoolInv => CPTypeOK
  BY DEF PoolInv
<1>2. QED
  BY <1>1, PoolInvariant, PTL

(***************************************************************************)
(* The pool implements the contract: a connection is lent to one client at *)
(* a time; what no client left astray is lent only clean and kept only     *)
(* after check_in reset it; and the pool leads none astray, for every      *)
(* interleaving of get, its cancellation and the check-in tasks.           *)
(***************************************************************************)
THEOREM CompioPoolKeepsContract == CompioPoolSpec => KeepsContract
<1>1. CompioPoolSpec => []PoolInv /\ CompioPoolInit /\ [][CompioPoolNext]_poolvars
  BY PoolInvariant DEF CompioPoolSpec
<1>2. QED
  BY <1>1, ContractInitStep, ContractStep, PTL DEF KeepsContract, Contract!ContractSpec
=============================================================================
