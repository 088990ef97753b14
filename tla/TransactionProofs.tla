-------------------------- MODULE TransactionProofs --------------------------
(***************************************************************************)
(* The properties of module Transaction, for any number of connections,    *)
(* whatever their ids, and closures of any length.                         *)
(*                                                                         *)
(* A step changes one connection, that of the caller or, with a handle,    *)
(* one with the same id, so the inductive invariant speaks of one          *)
(* connection.  Its core is OpenBlock: until a closure ends the block,     *)
(* nothing is durable, client and server agree that the block is open, and *)
(* as long as the connection is usable what the server holds back is what  *)
(* the closure was told.  Enders says whose closures may end it.           *)
(***************************************************************************)
EXTENDS Transaction, TLAPS

InBlock == {"T", "E"}

\* Which command may be in progress where.
CommandFits(c) ==
  /\ cmd[c] # "none" => usable[c] /\ result[c] = "none"
  /\ result[c] # "none" => at[c] = "idle"
  /\ cmd[c] \in {"STMT", "PORTAL"} => at[c] = "closure"
  /\ cmd[c] = "STMT" => issued[c] # 0
  /\ at[c] \in {"begin", "closure"} => ret[c] = "none"
  /\ at[c] = "closure" /\ ended_by[c] = {} => cmd[c] \notin {"COMMIT", "ROLLBACK"}

\* A usable connection knows the server's status; outside a block nothing is held back.
InAgreement(c) ==
  /\ usable[c] => transaction_status[c] = server_tx[c]
  /\ server_tx[c] = "I" => work[c] = {}

Beginning(c) ==
  at[c] = "begin" => /\ server_tx[c] = "I" /\ ended_by[c] = {}
                     /\ durable[c] = {} /\ done[c] = {}

OpenBlock(c) ==
  at[c] \in {"closure", "commit", "rollback"} /\ ended_by[c] = {} =>
    /\ durable[c] = {}
    /\ server_tx[c] \in InBlock /\ transaction_status[c] \in InBlock
    /\ usable[c] => work[c] = done[c] /\ (server_tx[c] = "E" => told[c])

\* Between transactions a block that a dropped future left open may still be
\* committed, but only as a whole.
Ended(c) ==
  at[c] = "idle" =>
    /\ ended_by[c] = {} =>
         /\ \/ durable[c] = {} /\ (usable[c] => work[c] \in {{}, done[c]})
            \/ durable[c] = done[c] /\ (usable[c] => work[c] = {})
         /\ ret[c] = "Err" => durable[c] = {} /\ (usable[c] => work[c] = {})
         /\ result[c] = "Ok" /\ ~told[c] => durable[c] = done[c]
    /\ result[c] \in {"Ok", "Err"} /\ usable[c] => server_tx[c] = "I"

\* A block is ended by closures of connections with its id.
Enders(c) == \A d \in ended_by[c] : connection_id[d] = connection_id[c]

ConnInv(c) ==
  CommandFits(c) /\ InAgreement(c) /\ Beginning(c) /\ OpenBlock(c) /\ Ended(c) /\ Enders(c)

TxInv == TxTypeOK /\ \A c \in Conns : ConnInv(c)

-----------------------------------------------------------------------------
\* What a command does to an open block, and outside one.
Effect(q, w, s, k, o) ==
  /\ o.ok \in BOOLEAN /\ o.tx \in {"I", "T", "E"}
  /\ o.work \in {{}, k, k \cup {w}} /\ o.kept \in {{}, k, {w}}
  /\ q # "STMT" => o.work \in {{}, k} /\ o.kept \in {{}, k}
  /\ (s = "I" => k = {}) /\ o.tx = "I" => o.work = {}
  /\ q \in {"BEGIN", "PORTAL"} => o.work = k /\ o.kept = {}
  /\ q = "BEGIN" /\ s = "I" => o.tx = (IF o.ok THEN "T" ELSE "I")
  /\ q \in {"BEGIN", "STMT", "PORTAL"} /\ s \in InBlock =>
       /\ o.tx \in InBlock /\ o.kept = {}
       /\ o.tx = "E" => s = "E" \/ ~o.ok
       /\ o.work = IF q = "STMT" /\ o.ok THEN k \cup {w} ELSE k
  /\ q = "PORTAL" /\ o.ok => o.tx = s
  /\ q \in {"COMMIT", "ROLLBACK"} => o.tx = "I" /\ o.work = {}
  /\ q = "ROLLBACK" => o.kept = {}
  /\ q = "COMMIT" /\ s = "T" /\ o.ok => o.kept = k

LEMMA OutcomeFacts ==
  ASSUME NEW q \in Commands, NEW w, NEW s \in {"I", "T", "E"}, NEW k,
         NEW o \in Outcomes(q, w, s, k)
  PROVE  Effect(q, w, s, k, o)
<1> DEFINE Is(b, t, u, v) == o.ok = b /\ o.tx = t /\ o.work = u /\ o.kept = v
<1>1. CASE q = "BEGIN"
  <2>1. Outcomes("BEGIN", w, s, k) =
          IF s = "E" THEN {Outcome(FALSE, "E", k, {})}
          ELSE {Outcome(TRUE, "T", k, {}), Outcome(FALSE, IF s = "T" THEN "E" ELSE "I", k, {})}
    BY DEF Outcomes
  <2>2. \/ s = "E" /\ Is(FALSE, "E", k, {})
        \/ s # "E" /\ Is(TRUE, "T", k, {})
        \/ s = "T" /\ Is(FALSE, "E", k, {})
        \/ s = "I" /\ Is(FALSE, "I", k, {})
    BY <1>1, <2>1 DEF Outcome
  <2>3. QED
    BY <1>1, <2>2 DEF InBlock, Effect
<1>2. CASE q = "COMMIT"
  <2>1. Outcomes("COMMIT", w, s, k) =
          IF s = "T" THEN {Outcome(TRUE, "I", {}, k), Outcome(FALSE, "I", {}, {})}
          ELSE {Outcome(TRUE, "I", {}, {})}
    BY DEF Outcomes
  <2>2. \/ s = "T" /\ Is(TRUE, "I", {}, k)
        \/ s = "T" /\ Is(FALSE, "I", {}, {})
        \/ s # "T" /\ Is(TRUE, "I", {}, {})
    BY <1>2, <2>1 DEF Outcome
  <2>3. QED
    BY <1>2, <2>2 DEF InBlock, Effect
<1>3. CASE q = "ROLLBACK"
  <2>1. Outcomes("ROLLBACK", w, s, k) = {Outcome(TRUE, "I", {}, {})}
    BY DEF Outcomes
  <2>2. Is(TRUE, "I", {}, {})
    BY <1>3, <2>1 DEF Outcome
  <2>3. QED
    BY <1>3, <2>2 DEF InBlock, Effect
<1>4. CASE q = "STMT"
  <2>1. Outcomes("STMT", w, s, k) =
          CASE s = "I" -> {Outcome(TRUE, "I", {}, {w}), Outcome(FALSE, "I", {}, {})}
            [] s = "T" -> {Outcome(TRUE, "T", k \cup {w}, {}), Outcome(FALSE, "E", k, {})}
            [] OTHER   -> {Outcome(FALSE, "E", k, {})}
    BY DEF Outcomes
  <2>2. \/ s = "I" /\ (Is(TRUE, "I", {}, {w}) \/ Is(FALSE, "I", {}, {}))
        \/ s = "T" /\ (Is(TRUE, "T", k \cup {w}, {}) \/ Is(FALSE, "E", k, {}))
        \/ s = "E" /\ Is(FALSE, "E", k, {})
    BY <1>4, <2>1 DEF Outcome
  <2>3. QED
    BY <1>4, <2>2 DEF InBlock, Effect
<1>5. CASE q = "PORTAL"
  <2>1. Outcomes("PORTAL", w, s, k) =
          CASE s = "I" -> {Outcome(TRUE, "I", k, {}), Outcome(FALSE, "I", k, {})}
            [] s = "T" -> {Outcome(TRUE, "T", k, {}), Outcome(FALSE, "E", k, {})}
            [] OTHER   -> {Outcome(FALSE, "E", k, {})}
    BY DEF Outcomes
  <2>2. \/ s = "I" /\ (Is(TRUE, "I", k, {}) \/ Is(FALSE, "I", k, {}))
        \/ s = "T" /\ (Is(TRUE, "T", k, {}) \/ Is(FALSE, "E", k, {}))
        \/ s = "E" /\ Is(FALSE, "E", k, {})
    BY <1>5, <2>1 DEF Outcome
  <2>3. QED
    BY <1>5, <2>2 DEF InBlock, Effect
<1>6. QED
  BY <1>1, <1>2, <1>3, <1>4, <1>5 DEF Commands

-----------------------------------------------------------------------------
\* Nothing changes at connections other than c.
Frame(c) ==
  \A d \in Conns \ {c} :
    /\ transaction_status'[d] = transaction_status[d] /\ usable'[d] = usable[d]
    /\ server_tx'[d] = server_tx[d] /\ work'[d] = work[d] /\ durable'[d] = durable[d]
    /\ done'[d] = done[d] /\ issued'[d] = issued[d] /\ at'[d] = at[d] /\ cmd'[d] = cmd[d]
    /\ ret'[d] = ret[d] /\ result'[d] = result[d]
    /\ ended_by'[d] = ended_by[d] /\ told'[d] = told[d]

LEMMA FrameKeeps ==
  ASSUME TxInv, NEW c \in Conns, TxTypeOK', ConnInv(c)', Frame(c)
  PROVE  TxInv'
<1>1. ASSUME NEW d \in Conns, d # c
      PROVE  ConnInv(d)'
  <2>1. ConnInv(d)
    BY DEF TxInv
  <2>2. CommandFits(d)' /\ InAgreement(d)' /\ Beginning(d)'
    BY <2>1, <1>1 DEF Frame, ConnInv, CommandFits, InAgreement, Beginning
  <2>3. OpenBlock(d)' /\ Ended(d)'
    BY <2>1, <1>1 DEF Frame, ConnInv, OpenBlock, Ended
  <2>4. Enders(d)'
    BY <2>1, <1>1 DEF Frame, ConnInv, Enders
  <2>5. QED
    BY <2>2, <2>3, <2>4 DEF ConnInv
<1>2. QED
  BY <1>1 DEF TxInv

\* BEGIN goes out on a connection that is outside any block.
LEMMA Transaction_Inv ==
  ASSUME TxInv, NEW c \in Conns, transaction(c)
  PROVE  TxInv'
<1> USE DEF TxInv, ConnInv
<1>1. /\ at[c] = "idle" /\ usable[c] /\ cmd[c] = "none" /\ server_tx[c] = "I"
  <2>1. at[c] = "idle" /\ usable[c] /\ cmd[c] = "none" /\ transaction_status[c] \notin InBlock
    BY DEF transaction, Issue, Ready, in_transaction, InBlock
  <2>2. transaction_status[c] = server_tx[c] /\ server_tx[c] \in {"I", "T", "E"}
    BY <2>1 DEF InAgreement, TxTypeOK
  <2>3. QED
    BY <2>1, <2>2 DEF InBlock, Effect
<1>2. TxTypeOK'
  <2>1. /\ at' = [at EXCEPT ![c] = "begin"] /\ cmd' = [cmd EXCEPT ![c] = "BEGIN"]
        /\ durable' = [durable EXCEPT ![c] = {}] /\ done' = [done EXCEPT ![c] = {}]
        /\ issued' = [issued EXCEPT ![c] = 0] /\ ret' = [ret EXCEPT ![c] = "none"]
        /\ result' = [result EXCEPT ![c] = "none"] /\ ended_by' = [ended_by EXCEPT ![c] = {}]
        /\ told' = [told EXCEPT ![c] = FALSE]
        /\ UNCHANGED <<transaction_status, usable, server_tx, work, tx>>
    BY DEF transaction, Issue, Set
  <2>2. ~tx[c] /\ 0 <= MaxWrites[c]
    BY <1>1, TransactionAssumption DEF TxTypeOK
  <2>3. QED
    BY <2>1, <2>2 DEF TxTypeOK, Commands
<1>3. Frame(c)
  BY DEF TxTypeOK, transaction, Issue, Set, Frame
<1>4. /\ at'[c] = "begin" /\ cmd'[c] = "BEGIN" /\ durable'[c] = {} /\ done'[c] = {}
      /\ issued'[c] = 0 /\ ret'[c] = "none" /\ result'[c] = "none" /\ ended_by'[c] = {}
      /\ UNCHANGED <<transaction_status, usable, server_tx, work>>
  BY DEF TxTypeOK, transaction, Issue, Set
<1>5. ConnInv(c)'
  BY <1>1, <1>4 DEF CommandFits, InAgreement, Beginning, OpenBlock, Ended, Enders
<1>6. QED
  BY <1>2, <1>3, <1>5, FrameKeeps

\* The closure issues its next write.
LEMMA Statement_Inv ==
  ASSUME TxInv, NEW c \in Conns, statement(c)
  PROVE  TxInv'
<1> USE DEF TxInv, ConnInv
<1>1. at[c] = "closure" /\ usable[c] /\ cmd[c] = "none" /\ issued[c] \in Nat
      /\ MaxWrites[c] \in Nat /\ issued[c] < MaxWrites[c]
  BY TransactionAssumption DEF statement, Issue, Ready, TxTypeOK
<1>2. TxTypeOK'
  BY <1>1 DEF TxTypeOK, statement, Issue, Set, Commands
<1>3. Frame(c)
  BY DEF TxTypeOK, statement, Issue, Set, Frame
<1>4. /\ cmd'[c] = "STMT" /\ issued'[c] = issued[c] + 1
      /\ UNCHANGED <<transaction_status, usable, server_tx, work, durable, done, at, ret,
                     result, ended_by, told>>
  BY DEF TxTypeOK, statement, Issue, Set
<1>5. ConnInv(c)'
  BY <1>1, <1>4 DEF CommandFits, InAgreement, Beginning, OpenBlock, Ended, Enders
<1>6. QED
  BY <1>2, <1>3, <1>5, FrameKeeps

\* Plain BEGIN, COMMIT or ROLLBACK.
LEMMA Query_Inv ==
  ASSUME TxInv, NEW c \in Conns, NEW q \in {"BEGIN", "COMMIT", "ROLLBACK"}, query(c, q)
  PROVE  TxInv'
<1> USE DEF TxInv, ConnInv
<1>1. at[c] \in {"idle", "closure"} /\ usable[c] /\ cmd[c] = "none"
  BY DEF query, Issue, Ready
<1>2. TxTypeOK'
  BY <1>1 DEF TxTypeOK, query, Issue, Set, Commands
<1>3. Frame(c)
  BY DEF TxTypeOK, query, Issue, Set, Frame
<1>4. /\ cmd'[c] = q /\ result'[c] = "none"
      /\ ended_by'[c] = IF at[c] = "closure" /\ q # "BEGIN" THEN ended_by[c] \cup {c} ELSE ended_by[c]
      /\ UNCHANGED <<transaction_status, usable, server_tx, work, durable, done, issued, at,
                     ret, told>>
  BY DEF TxTypeOK, query, Issue, Set
<1>5. ended_by[c] \subseteq ended_by'[c] /\ ended_by'[c] \subseteq ended_by[c] \cup {c}
  BY <1>4 DEF TxTypeOK
<1>6. CommandFits(c)' /\ InAgreement(c)' /\ Beginning(c)'
  BY <1>1, <1>4 DEF CommandFits, InAgreement, Beginning
<1>7. OpenBlock(c)' /\ Ended(c)'
  BY <1>1, <1>4, <1>5 DEF OpenBlock, Ended
<1>8. Enders(c)'
  BY <1>5 DEF Enders
<1>9. QED
  BY <1>2, <1>3, <1>6, <1>7, <1>8, FrameKeeps

\* The handle ends the block of a connection with the id of its own, or nothing but
\* the handle goes.
LEMMA EndBlock_Inv ==
  ASSUME TxInv, NEW c \in Conns, NEW d \in Conns, NEW q \in {"COMMIT", "ROLLBACK"},
         EndBlock(c, d, q)
  PROVE  TxInv'
<1> USE DEF TxInv, ConnInv
<1>1. CASE ~same_connection(c, d)
  <2>1. /\ tx' = Set(tx, c, FALSE)
        /\ UNCHANGED <<transaction_status, usable, server_tx, work, durable, done, issued, at,
                       cmd, ret, result, ended_by, told>>
    BY <1>1 DEF EndBlock
  <2>2. TxTypeOK' /\ Frame(c)
    BY <2>1 DEF TxTypeOK, Set, Frame
  <2>3. ConnInv(c)'
    BY <2>1 DEF CommandFits, InAgreement, Beginning, OpenBlock, Ended, Enders
  <2>4. QED
    BY <2>2, <2>3, FrameKeeps
<1>2. CASE same_connection(c, d)
  <2>1. /\ at[d] \in {"idle", "closure"} /\ usable[d] /\ cmd[d] = "none"
        /\ cmd' = Set(cmd, d, q) /\ result' = Set(result, d, "none") /\ tx' = Set(tx, c, FALSE)
        /\ ended_by' = IF at[d] = "closure" THEN Set(ended_by, d, ended_by[d] \cup {c})
                       ELSE ended_by
        /\ UNCHANGED <<transaction_status, usable, server_tx, work, durable, done, issued, at,
                       ret, told>>
    BY <1>2 DEF EndBlock, Issue, Ready
  <2>2. TxTypeOK' /\ Frame(d)
    BY <2>1 DEF TxTypeOK, Set, Frame, Commands
  <2>3. /\ cmd'[d] = q /\ result'[d] = "none"
        /\ ended_by'[d] = IF at[d] = "closure" THEN ended_by[d] \cup {c} ELSE ended_by[d]
    BY <2>1 DEF TxTypeOK, Set
  <2>4. CommandFits(d)' /\ InAgreement(d)' /\ Beginning(d)'
    BY <2>1, <2>3 DEF CommandFits, InAgreement, Beginning
  <2>5. OpenBlock(d)' /\ Ended(d)'
    BY <2>1, <2>3 DEF OpenBlock, Ended
  <2>6. connection_id[c] = connection_id[d]
    BY <1>2 DEF same_connection
  <2>7. Enders(d)'
    BY <2>3, <2>6 DEF Enders
  <2>8. QED
    BY <2>2, <2>4, <2>5, <2>7, FrameKeeps
<1>3. QED
  BY <1>1, <1>2

\* The Bind of a named portal.
LEMMA Portal_Inv ==
  ASSUME TxInv, NEW c \in Conns, NEW d \in Conns, exec_portal_named(c, d)
  PROVE  TxInv'
<1> USE DEF TxInv, ConnInv
<1>1. /\ at[d] = "closure" /\ usable[d] /\ cmd[d] = "none" /\ cmd' = Set(cmd, d, "PORTAL")
      /\ UNCHANGED <<transaction_status, usable, server_tx, work, durable, done, issued, at, tx,
                     ret, result, ended_by, told>>
  BY DEF exec_portal_named, Issue, Ready, local
<1>2. TxTypeOK' /\ Frame(d)
  BY <1>1 DEF TxTypeOK, Set, Frame, Commands
<1>3. cmd'[d] = "PORTAL"
  BY <1>1 DEF TxTypeOK, Set
<1>4. ConnInv(d)'
  BY <1>1, <1>3 DEF CommandFits, InAgreement, Beginning, OpenBlock, Ended, Enders
<1>5. QED
  BY <1>2, <1>4, FrameKeeps

\* The closure returns.
LEMMA Return_Inv ==
  ASSUME TxInv, NEW c \in Conns, NEW v \in {"Ok", "Err"}, closure_returns(c, v)
  PROVE  TxInv'
<1> USE DEF TxInv, ConnInv
<1>1. /\ at[c] = "closure" /\ cmd[c] = "none" /\ ret' = Set(ret, c, v)
      /\ UNCHANGED <<transaction_status, usable, server_tx, work, durable, done, issued,
                     ended_by, told>>
  BY DEF closure_returns
<1>2. ret'[c] = v
  BY <1>1 DEF TxTypeOK, Set
<1>3. CASE in_transaction(c) /\ Ready(c)
  <2>1. /\ usable[c] /\ cmd' = Set(cmd, c, FinalCommand(v)) /\ UNCHANGED result
        /\ at' = Set(at, c, IF v = "Ok" THEN "commit" ELSE "rollback") /\ tx' = Set(tx, c, FALSE)
    BY <1>3 DEF closure_returns, Issue, Ready
  <2>2. TxTypeOK' /\ Frame(c)
    BY <1>1, <2>1 DEF TxTypeOK, Set, Frame, Commands, FinalCommand
  <2>3. /\ cmd'[c] = FinalCommand(v) /\ at'[c] = (IF v = "Ok" THEN "commit" ELSE "rollback")
    BY <2>1 DEF TxTypeOK, Set
  <2>4. CommandFits(c)' /\ InAgreement(c)' /\ Beginning(c)'
    BY <1>1, <2>1, <2>3 DEF CommandFits, InAgreement, Beginning, FinalCommand
  <2>5. OpenBlock(c)' /\ Ended(c)' /\ Enders(c)'
    BY <1>1, <2>1, <2>3 DEF OpenBlock, Ended, Enders
  <2>6. QED
    BY <2>2, <2>4, <2>5, FrameKeeps
<1>4. CASE ~(in_transaction(c) /\ Ready(c))
  <2>1. /\ Returns(c, IF in_transaction(c) THEN "Err" ELSE v) /\ UNCHANGED cmd
    BY <1>4 DEF closure_returns
  <2>2. TxTypeOK' /\ Frame(c)
    BY <1>1, <2>1 DEF TxTypeOK, Set, Frame, Returns
  <2>3. at'[c] = "idle" /\ result'[c] = IF in_transaction(c) THEN "Err" ELSE v
    BY <2>1 DEF TxTypeOK, Set, Returns
  <2>4. usable[c] => ~in_transaction(c) /\ server_tx[c] = "I"
    BY <1>1, <1>4 DEF Ready, in_transaction, InAgreement, TxTypeOK
  <2>5. ended_by[c] = {} => in_transaction(c) /\ ~usable[c] /\ durable[c] = {}
    BY <1>1, <2>4 DEF OpenBlock, in_transaction, InBlock
  <2>6. CommandFits(c)' /\ InAgreement(c)' /\ Beginning(c)' /\ OpenBlock(c)'
    BY <1>1, <2>1, <2>3 DEF CommandFits, InAgreement, Beginning, OpenBlock
  <2>7. Ended(c)'
    BY <1>1, <1>2, <2>1, <2>3, <2>4, <2>5 DEF Ended
  <2>8. Enders(c)'
    BY <1>1 DEF Enders
  <2>9. QED
    BY <2>2, <2>6, <2>7, <2>8, FrameKeeps
<1>5. QED
  BY <1>3, <1>4

-----------------------------------------------------------------------------
\* The write of a statement in progress is one of its closure's.
LEMMA StatementWrites ==
  ASSUME TxInv, NEW c \in Conns
  PROVE  cmd[c] = "STMT" => at[c] = "closure" /\ issued[c] \in Writes
<1>1. cmd[c] = "STMT" => at[c] = "closure" /\ issued[c] \in 1..MaxWrites[c]
  BY TransactionAssumption DEF TxInv, ConnInv, CommandFits, TxTypeOK
<1>2. QED
  BY <1>1 DEF Writes

\* The server does what the command in progress may do.
LEMMA ApplyFacts ==
  ASSUME TxInv, NEW c \in Conns, cmd[c] # "none", NEW o \in Possible(c), Apply(c, o)
  PROVE  /\ server_tx' \in [Conns -> {"I", "T", "E"}]
         /\ work' \in [Conns -> SUBSET Writes] /\ durable' \in [Conns -> SUBSET Writes]
         /\ server_tx'[c] = o.tx /\ work'[c] = o.work /\ durable'[c] = durable[c] \cup o.kept
         /\ \A d \in Conns \ {c} :
              server_tx'[d] = server_tx[d] /\ work'[d] = work[d] /\ durable'[d] = durable[d]
         /\ Effect(cmd[c], issued[c], server_tx[c], work[c], o)
<1>1. /\ cmd[c] \in Commands /\ server_tx[c] \in {"I", "T", "E"} /\ issued[c] \in Nat
      /\ issued[c] <= MaxWrites[c] /\ MaxWrites[c] \in Nat
      /\ work[c] \in SUBSET Writes /\ durable[c] \in SUBSET Writes
  BY TransactionAssumption DEF TxInv, TxTypeOK
<1>2. o \in Outcomes(cmd[c], issued[c], server_tx[c], work[c])
  BY DEF Possible
<1>3. Effect(cmd[c], issued[c], server_tx[c], work[c], o)
  BY <1>1, <1>2, OutcomeFacts, Zenon
<1>4. /\ o.tx \in {"I", "T", "E"}
      /\ o.work \in {{}, work[c], work[c] \cup {issued[c]}}
      /\ o.kept \in {{}, work[c], {issued[c]}}
      /\ cmd[c] # "STMT" => o.work \in {{}, work[c]} /\ o.kept \in {{}, work[c]}
  BY <1>3 DEF Effect
<1>5. cmd[c] = "STMT" => issued[c] \in Writes
  BY StatementWrites
<1>6. o.work \in SUBSET Writes /\ durable[c] \cup o.kept \in SUBSET Writes
  BY <1>1, <1>4, <1>5
<1>7. /\ server_tx' = [server_tx EXCEPT ![c] = o.tx] /\ work' = [work EXCEPT ![c] = o.work]
      /\ durable' = [durable EXCEPT ![c] = durable[c] \cup o.kept]
  BY DEF Apply, Set
<1>8. QED
  BY <1>3, <1>4, <1>6, <1>7 DEF TxInv, TxTypeOK

\* Where the end of the exchange leads.
ContinueEffect(c, ok) ==
  /\ at' \in [Conns -> {"idle", "begin", "closure", "commit", "rollback"}]
  /\ tx' \in [Conns -> BOOLEAN] /\ done' \in [Conns -> SUBSET Writes]
  /\ result' \in [Conns -> {"none", "Ok", "Err", "Dropped"}]
  /\ \A d \in Conns \ {c} :
       at'[d] = at[d] /\ tx'[d] = tx[d] /\ done'[d] = done[d] /\ result'[d] = result[d]
  /\ done'[c] = IF ok /\ cmd[c] = "STMT" THEN done[c] \cup {issued[c]} ELSE done[c]
  /\ at[c] = "begin" /\ ok => at'[c] = "closure" /\ result'[c] = result[c]
  /\ at[c] = "begin" /\ ~ok => at'[c] = "idle" /\ result'[c] = "Err"
  /\ at[c] = "commit" => at'[c] = "idle" /\ result'[c] = IF ok THEN "Ok" ELSE "Err"
  /\ at[c] = "rollback" => at'[c] = "idle" /\ result'[c] = "Err"
  /\ at[c] \in {"idle", "closure"} => at'[c] = at[c] /\ result'[c] = result[c]
  /\ tx'[c] => at'[c] = "closure"

LEMMA ContinueFacts ==
  ASSUME TxTypeOK, NEW c \in Conns, NEW ok \in BOOLEAN, Continue(c, ok),
         cmd[c] = "STMT" => at[c] = "closure" /\ issued[c] \in Writes
  PROVE  ContinueEffect(c, ok)
<1>1. at[c] \in {"idle", "begin", "closure", "commit", "rollback"} /\ done[c] \in SUBSET Writes
  BY DEF TxTypeOK
<1>2. CASE at[c] = "begin" /\ ok
  <2>1. /\ at' = [at EXCEPT ![c] = "closure"] /\ tx' = [tx EXCEPT ![c] = TRUE]
        /\ UNCHANGED <<result, done>>
    BY <1>2 DEF Continue, Set
  <2>2. QED
    BY <1>1, <1>2, <2>1 DEF TxTypeOK, Commands, ContinueEffect
<1>3. CASE at[c] \in {"begin", "commit", "rollback"} /\ ~(at[c] = "begin" /\ ok)
  <2>1. /\ at' = [at EXCEPT ![c] = "idle"] /\ tx' = [tx EXCEPT ![c] = FALSE] /\ UNCHANGED done
        /\ result' = [result EXCEPT ![c] = IF at[c] = "commit" /\ ok THEN "Ok" ELSE "Err"]
    BY <1>3 DEF Continue, Set, Returns
  <2>2. QED
    BY <1>1, <1>3, <2>1 DEF TxTypeOK, Commands, ContinueEffect
<1>4. CASE at[c] \in {"idle", "closure"}
  <2>1. /\ UNCHANGED <<at, tx, result>>
        /\ done' = IF ok /\ cmd[c] = "STMT" /\ at[c] = "closure"
                   THEN [done EXCEPT ![c] = done[c] \cup {issued[c]}] ELSE done
    BY <1>4 DEF Continue, Set
  <2>2. QED
    BY <1>1, <1>4, <2>1 DEF TxTypeOK, Commands, ContinueEffect
<1>5. QED
  BY <1>1, <1>2, <1>3, <1>4

-----------------------------------------------------------------------------
\* The exchange runs to its end.
LEMMA Complete_Inv ==
  ASSUME TxInv, NEW c \in Conns, Complete(c)
  PROVE  TxInv'
<1> USE DEF TxInv, ConnInv
<1>1. PICK o \in Possible(c) :
        /\ Apply(c, o) /\ Continue(c, o.ok)
        /\ IF cmd[c] = "PORTAL"
           THEN /\ usable' = Set(usable, c, o.ok)
                /\ UNCHANGED transaction_status
           ELSE /\ transaction_status' = Set(transaction_status, c, o.tx)
                /\ UNCHANGED usable
        /\ told' = Set(told, c, told[c] \/ (at[c] = "closure" /\ ~o.ok))
  BY DEF Complete, StatusAfter
<1>2. /\ cmd[c] # "none" /\ cmd' = Set(cmd, c, "none") /\ UNCHANGED <<issued, ret, ended_by>>
      /\ usable[c] /\ result[c] = "none" /\ transaction_status[c] = server_tx[c]
  BY DEF Complete, CommandFits, InAgreement
<1>3. /\ server_tx' \in [Conns -> {"I", "T", "E"}]
      /\ work' \in [Conns -> SUBSET Writes] /\ durable' \in [Conns -> SUBSET Writes]
      /\ server_tx'[c] = o.tx /\ work'[c] = o.work /\ durable'[c] = durable[c] \cup o.kept
      /\ \A d \in Conns \ {c} :
           server_tx'[d] = server_tx[d] /\ work'[d] = work[d] /\ durable'[d] = durable[d]
      /\ Effect(cmd[c], issued[c], server_tx[c], work[c], o)
  BY <1>1, <1>2, ApplyFacts
<1>4. o.ok \in BOOLEAN /\ o.tx \in {"I", "T", "E"}
  BY <1>3 DEF Effect
<1>5. cmd[c] = "STMT" => at[c] = "closure" /\ issued[c] \in Writes
  BY StatementWrites
<1>6. ContinueEffect(c, o.ok)
  BY <1>1, <1>4, <1>5, ContinueFacts
<1>7. /\ cmd'[c] = "none" /\ told'[c] = (told[c] \/ (at[c] = "closure" /\ ~o.ok))
      /\ usable'[c] = (cmd[c] # "PORTAL" \/ o.ok)
      /\ transaction_status'[c] = IF cmd[c] = "PORTAL" THEN server_tx[c] ELSE o.tx
      /\ UNCHANGED <<issued, ret, ended_by>>
  BY <1>1, <1>2, <1>4 DEF Set, TxTypeOK
<1>8. TxTypeOK' /\ Frame(c)
  <2>1. /\ cmd' \in [Conns -> Commands \cup {"none"}] /\ usable' \in [Conns -> BOOLEAN]
        /\ told' \in [Conns -> BOOLEAN] /\ transaction_status' \in [Conns -> {"I", "T", "E"}]
        /\ \A d \in Conns \ {c} : /\ cmd'[d] = cmd[d] /\ usable'[d] = usable[d]
                                  /\ told'[d] = told[d]
                                  /\ transaction_status'[d] = transaction_status[d]
    BY <1>1, <1>2, <1>4 DEF Set, TxTypeOK
  <2>2. QED
    BY <1>2, <1>3, <1>6, <2>1 DEF TxTypeOK, Frame, ContinueEffect
<1>9. CommandFits(c) /\ InAgreement(c) /\ Beginning(c) /\ OpenBlock(c) /\ Ended(c) /\ Enders(c)
  BY Zenon
<1>10. /\ at[c] \in {"idle", "begin", "closure", "commit", "rollback"} /\ cmd[c] \in Commands
       /\ server_tx[c] \in {"I", "T", "E"} /\ told[c] \in BOOLEAN /\ ended_by[c] \subseteq Conns
       /\ at[c] = "begin" => cmd[c] = "BEGIN"
       /\ at[c] = "commit" => cmd[c] = "COMMIT" /\ ret[c] = "Ok"
       /\ at[c] = "rollback" => cmd[c] = "ROLLBACK" /\ ret[c] = "Err"
  BY <1>2 DEF TxTypeOK
<1> USE <1>2, <1>7, <1>9, <1>10
<1> HIDE DEF TxInv, ConnInv
<1>11. CommandFits(c)'
  BY <1>6 DEF CommandFits, ContinueEffect
<1>12. InAgreement(c)'
  BY <1>3 DEF InAgreement, Effect
<1>13. Beginning(c)'
  BY <1>6 DEF ContinueEffect, Beginning
<1>14. ASSUME at[c] = "idle"
       PROVE  OpenBlock(c)' /\ Ended(c)'
  <2>1. at'[c] = "idle" /\ result'[c] = "none" /\ done'[c] = done[c]
    BY <1>5, <1>6, <1>14 DEF ContinueEffect
  <2>2. cmd[c] \in {"BEGIN", "COMMIT", "ROLLBACK"}
    BY <1>14 DEF CommandFits, Commands
  <2>3. o.work \in {{}, work[c]} /\ o.kept \in {{}, work[c]} /\ (o.kept # {} => o.work = {})
    BY <1>3, <2>2 DEF Effect
  <2>4. QED
    BY <1>3, <1>14, <2>1, <2>3 DEF OpenBlock, Ended
<1>15. ASSUME at[c] = "begin"
       PROVE  OpenBlock(c)' /\ Ended(c)'
  <2>1. o.work = work[c] /\ o.kept = {} /\ o.tx = (IF o.ok THEN "T" ELSE "I") /\ done'[c] = {}
        /\ work[c] = {} /\ durable'[c] = {}
    BY <1>3, <1>6, <1>15 DEF Effect, ContinueEffect, Beginning, InAgreement
  <2>2. QED
    BY <1>3, <1>4, <1>6, <1>15, <2>1 DEF OpenBlock, Ended, ContinueEffect, InBlock
<1>16. ASSUME at[c] = "closure"
       PROVE  OpenBlock(c)' /\ Ended(c)'
  <2>1. at'[c] = "closure" /\ done'[c] = IF o.ok /\ cmd[c] = "STMT" THEN done[c] \cup {issued[c]}
                                         ELSE done[c]
    BY <1>6, <1>16 DEF ContinueEffect
  <2>2. Ended(c)'
    BY <2>1 DEF Ended
  <2>3. ASSUME ended_by[c] = {}
        PROVE  OpenBlock(c)'
    <3>1. /\ server_tx[c] \in InBlock /\ durable[c] = {} /\ work[c] = done[c]
          /\ (server_tx[c] = "E" => told[c])
      BY <1>16, <2>3 DEF OpenBlock
    <3>2. cmd[c] \in {"BEGIN", "STMT", "PORTAL"}
      BY <1>16, <2>3 DEF CommandFits, Commands
    <3>3. /\ o.tx \in InBlock /\ o.kept = {} /\ (o.tx = "E" => server_tx[c] = "E" \/ ~o.ok)
          /\ o.work = IF cmd[c] = "STMT" /\ o.ok THEN work[c] \cup {issued[c]} ELSE work[c]
      BY <1>3, <3>1, <3>2 DEF Effect
    <3>4. durable'[c] = {} /\ work'[c] = done'[c]
      BY <1>3, <2>1, <3>1, <3>3
    <3>5. server_tx'[c] \in InBlock /\ transaction_status'[c] \in InBlock
          /\ (server_tx'[c] = "E" => told'[c])
      BY <1>3, <1>16, <3>1, <3>3
    <3>6. QED
      BY <3>4, <3>5 DEF OpenBlock
  <2>4. QED
    BY <2>2, <2>3 DEF OpenBlock
<1>17. ASSUME at[c] \in {"commit", "rollback"}
       PROVE  OpenBlock(c)' /\ Ended(c)'
  <2>1. /\ at'[c] = "idle" /\ done'[c] = done[c]
        /\ result'[c] = IF at[c] = "commit" /\ o.ok THEN "Ok" ELSE "Err"
    BY <1>6, <1>17 DEF ContinueEffect
  <2>2. /\ o.tx = "I" /\ o.work = {} /\ o.kept \in {{}, work[c]}
        /\ (at[c] = "rollback" => o.kept = {})
        /\ (at[c] = "commit" /\ server_tx[c] = "T" /\ o.ok => o.kept = work[c])
    BY <1>3, <1>17 DEF Effect
  <2>3. ended_by[c] = {} =>
          /\ durable[c] = {} /\ work[c] = done[c]
          /\ server_tx[c] = "T" \/ told[c]
    BY <1>17 DEF OpenBlock, InBlock
  <2>4. OpenBlock(c)'
    BY <2>1 DEF OpenBlock
  <2>5. Ended(c)'
    BY <1>3, <1>17, <2>1, <2>2, <2>3 DEF Ended
  <2>6. QED
    BY <2>4, <2>5
<1>18. Enders(c)'
  BY <1>6, <1>9 DEF ContinueEffect, Enders
<1>19. ConnInv(c)'
  BY <1>11, <1>12, <1>13, <1>14, <1>15, <1>16, <1>17, <1>18 DEF ConnInv
<1>20. QED
  BY <1>8, <1>19, FrameKeeps

-----------------------------------------------------------------------------
\* What is known of the server after an exchange cut short.
CutEffect(c) ==
  /\ server_tx' \in [Conns -> {"I", "T", "E"}]
  /\ work' \in [Conns -> SUBSET Writes] /\ durable' \in [Conns -> SUBSET Writes]
  /\ \A d \in Conns \ {c} :
       server_tx'[d] = server_tx[d] /\ work'[d] = work[d] /\ durable'[d] = durable[d]
  /\ server_tx'[c] = "I" => work'[c] = {}
  /\ cmd[c] \in {"BEGIN", "ROLLBACK"} => durable'[c] = durable[c]
  /\ cmd[c] = "COMMIT" => durable'[c] \in {durable[c], durable[c] \cup work[c]}
  /\ cmd[c] \in {"BEGIN", "STMT", "PORTAL"} /\ server_tx[c] \in InBlock =>
       server_tx'[c] \in InBlock /\ durable'[c] = durable[c]

LEMMA UnansweredFacts ==
  ASSUME TxInv, NEW c \in Conns, cmd[c] # "none", Unanswered(c)
  PROVE  CutEffect(c)
<1>1. InAgreement(c)
  BY DEF TxInv, ConnInv
<1>2. CASE \E o \in Possible(c) : Apply(c, o)
  <2>1. PICK o \in Possible(c) : Apply(c, o)
    BY <1>2
  <2>2. /\ server_tx' \in [Conns -> {"I", "T", "E"}]
        /\ work' \in [Conns -> SUBSET Writes] /\ durable' \in [Conns -> SUBSET Writes]
        /\ server_tx'[c] = o.tx /\ work'[c] = o.work /\ durable'[c] = durable[c] \cup o.kept
        /\ \A d \in Conns \ {c} :
             server_tx'[d] = server_tx[d] /\ work'[d] = work[d] /\ durable'[d] = durable[d]
        /\ Effect(cmd[c], issued[c], server_tx[c], work[c], o)
    BY <2>1, ApplyFacts
  <2>3. /\ (server_tx[c] = "I" => work[c] = {}) /\ o.tx = "I" => o.work = {}
        /\ cmd[c] \in {"BEGIN", "ROLLBACK"} => o.kept = {}
        /\ cmd[c] = "COMMIT" => o.kept \in {{}, work[c]}
        /\ cmd[c] \in {"BEGIN", "STMT", "PORTAL"} /\ server_tx[c] \in InBlock =>
             o.tx \in InBlock /\ o.kept = {}
    BY <2>2 DEF Effect
  <2>4. QED
    BY <1>1, <2>2, <2>3 DEF CutEffect, InAgreement
<1>3. CASE UNCHANGED <<server_tx, work, durable>>
  BY <1>1, <1>3 DEF CutEffect, InAgreement, TxInv, TxTypeOK
<1>4. QED
  BY <1>2, <1>3 DEF Unanswered

\* The exchange is cut short.
LEMMA CutShort_Inv ==
  ASSUME TxInv, NEW c \in Conns, CutShort(c)
  PROVE  TxInv'
<1>1. /\ cmd[c] # "none" /\ Unanswered(c) /\ Continue(c, FALSE)
      /\ cmd' = Set(cmd, c, "none") /\ usable' = Set(usable, c, FALSE)
      /\ UNCHANGED <<transaction_status, issued, ret, ended_by, told>>
  BY DEF CutShort, Unanswered
<1>2. CutEffect(c)
  BY <1>1, UnansweredFacts
<1>3. cmd[c] = "STMT" => at[c] = "closure" /\ issued[c] \in Writes
  BY StatementWrites
<1>4. ContinueEffect(c, FALSE)
  BY <1>1, <1>3, ContinueFacts DEF TxInv
<1>5. TxTypeOK' /\ Frame(c)
  <2>1. /\ cmd' \in [Conns -> Commands \cup {"none"}] /\ usable' \in [Conns -> BOOLEAN]
        /\ \A d \in Conns \ {c} : cmd'[d] = cmd[d] /\ usable'[d] = usable[d]
    BY <1>1 DEF Set, TxInv, TxTypeOK
  <2>2. at'[c] \in {"idle", "closure"} /\ (tx'[c] => at'[c] = "closure")
    BY <1>4 DEF TxInv, TxTypeOK, ContinueEffect
  <2>3. TxTypeOK'
    <3>1. ASSUME NEW d \in Conns
          PROVE  /\ at'[d] = "begin"    => cmd'[d] = "BEGIN"
                 /\ at'[d] = "commit"   => cmd'[d] = "COMMIT"   /\ ret'[d] = "Ok"
                 /\ at'[d] = "rollback" => cmd'[d] = "ROLLBACK" /\ ret'[d] = "Err"
                 /\ tx'[d] => at'[d] = "closure"
                 /\ issued'[d] <= MaxWrites[d]
      <4>1. /\ at[d] = "begin"    => cmd[d] = "BEGIN"
            /\ at[d] = "commit"   => cmd[d] = "COMMIT"   /\ ret[d] = "Ok"
            /\ at[d] = "rollback" => cmd[d] = "ROLLBACK" /\ ret[d] = "Err"
            /\ (tx[d] => at[d] = "closure") /\ issued[d] <= MaxWrites[d]
        BY DEF TxInv, TxTypeOK
      <4>2. d # c => at'[d] = at[d] /\ tx'[d] = tx[d]
        BY <1>4 DEF ContinueEffect
      <4>3. QED
        BY <1>1, <2>1, <2>2, <4>1, <4>2
    <3>2. QED
      BY <1>1, <1>2, <1>4, <2>1, <3>1 DEF TxInv, TxTypeOK, CutEffect, ContinueEffect
  <2>4. QED
    BY <1>1, <1>2, <1>4, <2>1, <2>3 DEF Frame, CutEffect, ContinueEffect
<1>6. CommandFits(c) /\ InAgreement(c) /\ Beginning(c) /\ OpenBlock(c) /\ Ended(c) /\ Enders(c)
  BY Zenon DEF TxInv, ConnInv
<1>7. /\ at[c] \in {"idle", "begin", "closure", "commit", "rollback"} /\ cmd[c] \in Commands
      /\ at[c] = "begin" => cmd[c] = "BEGIN"
      /\ at[c] = "commit" => cmd[c] = "COMMIT" /\ ret[c] = "Ok"
      /\ at[c] = "rollback" => cmd[c] = "ROLLBACK" /\ ret[c] = "Err"
      /\ cmd'[c] = "none" /\ usable'[c] = FALSE
  BY <1>1 DEF TxInv, TxTypeOK, Set
<1>8. CommandFits(c)' /\ InAgreement(c)' /\ Beginning(c)'
  BY <1>1, <1>2, <1>4, <1>6, <1>7
  DEF CommandFits, InAgreement, Beginning, CutEffect, ContinueEffect
<1>9. usable[c] /\ result[c] = "none" /\ transaction_status[c] = server_tx[c]
  BY <1>1, <1>6 DEF CommandFits, InAgreement
<1> USE <1>1, <1>2, <1>4, <1>6, <1>7, <1>9
<1>10. ASSUME at[c] \in {"idle", "begin"}
       PROVE  OpenBlock(c)' /\ Ended(c)'
  <2>1. at'[c] = "idle" /\ result'[c] # "Ok" /\ done'[c] = done[c]
    BY <1>10 DEF ContinueEffect
  <2>2. cmd[c] \in {"BEGIN", "COMMIT", "ROLLBACK"}
    BY <1>10 DEF CommandFits, Commands
  <2>3. /\ durable'[c] \in {durable[c], durable[c] \cup work[c]}
        /\ at[c] = "begin" => durable'[c] = durable[c]
    BY <2>2 DEF CutEffect
  <2>4. QED
    BY <1>10, <2>1, <2>3 DEF OpenBlock, Ended, Beginning, CommandFits
<1>11. ASSUME at[c] = "closure"
       PROVE  OpenBlock(c)' /\ Ended(c)'
  <2>1. at'[c] = "closure"
    BY <1>11 DEF ContinueEffect
  <2>2. ended_by[c] = {} => cmd[c] \in {"BEGIN", "STMT", "PORTAL"}
    BY <1>11 DEF CommandFits, Commands
  <2>3. QED
    BY <1>11, <2>1, <2>2 DEF OpenBlock, Ended, CutEffect
<1>12. ASSUME at[c] \in {"commit", "rollback"}
       PROVE  OpenBlock(c)' /\ Ended(c)'
  <2>1. at'[c] = "idle" /\ done'[c] = done[c] /\ result'[c] = "Err"
    BY <1>12 DEF ContinueEffect
  <2>2. ended_by[c] = {} => durable[c] = {} /\ work[c] = done[c]
    BY <1>12 DEF OpenBlock
  <2>3. QED
    BY <1>12, <2>1, <2>2 DEF OpenBlock, Ended, CutEffect
<1>13. Enders(c)'
  BY <1>4, <1>6 DEF ContinueEffect, Enders
<1>14. ConnInv(c)'
  BY <1>8, <1>10, <1>11, <1>12, <1>13 DEF ConnInv
<1>15. QED
  BY <1>5, <1>14, FrameKeeps

\* The future of transaction() is dropped.
LEMMA Abandon_Inv ==
  ASSUME TxInv, NEW c \in Conns, Abandon(c)
  PROVE  TxInv'
<1>1. /\ at[c] # "idle" /\ Returns(c, "Dropped")
      /\ UNCHANGED <<transaction_status, done, issued, ret, ended_by, told>>
  BY DEF Abandon
<1>2. /\ at' \in [Conns -> {"idle", "begin", "closure", "commit", "rollback"}]
      /\ tx' \in [Conns -> BOOLEAN] /\ result' \in [Conns -> {"none", "Ok", "Err", "Dropped"}]
      /\ \A d \in Conns \ {c} : at'[d] = at[d] /\ tx'[d] = tx[d] /\ result'[d] = result[d]
      /\ at'[c] = "idle" /\ tx'[c] = FALSE /\ result'[c] = "Dropped"
  BY <1>1 DEF Returns, Set, TxInv, TxTypeOK
<1>3. CommandFits(c) /\ InAgreement(c) /\ Beginning(c) /\ OpenBlock(c) /\ Ended(c) /\ Enders(c)
  BY Zenon DEF TxInv, ConnInv
<1>4. /\ at[c] \in {"begin", "closure", "commit", "rollback"}
      /\ cmd[c] \in Commands \cup {"none"}
      /\ at[c] = "begin" => cmd[c] = "BEGIN"
      /\ at[c] = "commit" => cmd[c] = "COMMIT" /\ ret[c] = "Ok"
      /\ at[c] = "rollback" => cmd[c] = "ROLLBACK" /\ ret[c] = "Err"
  BY <1>1 DEF TxInv, TxTypeOK
<1>5. CASE cmd[c] = "none"
  <2>1. UNCHANGED <<server_tx, work, durable, usable, cmd>>
    BY <1>5 DEF Abandon
  <2>2. TxTypeOK' /\ Frame(c)
    <3>1. TxTypeOK'
      BY <1>1, <1>2, <2>1 DEF TxInv, TxTypeOK
    <3>2. QED
      BY <1>1, <1>2, <2>1, <3>1 DEF Frame
  <2>3. at[c] = "closure"
    BY <1>4, <1>5
  <2>4. ConnInv(c)'
    BY <1>1, <1>2, <1>3, <1>5, <2>1, <2>3
    DEF ConnInv, CommandFits, InAgreement, Beginning, OpenBlock, Ended, Enders
  <2>5. QED
    BY <2>2, <2>4, FrameKeeps
<1>6. CASE cmd[c] # "none"
  <2>1. Unanswered(c) /\ cmd' = Set(cmd, c, "none") /\ usable' = Set(usable, c, FALSE)
    BY <1>6 DEF Abandon, Unanswered
  <2>2. CutEffect(c)
    BY <1>6, <2>1, UnansweredFacts
  <2>3. /\ cmd' \in [Conns -> Commands \cup {"none"}] /\ usable' \in [Conns -> BOOLEAN]
        /\ \A d \in Conns \ {c} : cmd'[d] = cmd[d] /\ usable'[d] = usable[d]
        /\ cmd'[c] = "none" /\ usable'[c] = FALSE
    BY <2>1 DEF Set, TxInv, TxTypeOK
  <2>4. TxTypeOK' /\ Frame(c)
    <3>1. TxTypeOK'
      BY <1>1, <1>2, <2>2, <2>3 DEF TxInv, TxTypeOK, CutEffect
    <3>2. QED
      BY <1>1, <1>2, <2>2, <2>3, <3>1 DEF Frame, CutEffect
  <2>5. CommandFits(c)' /\ InAgreement(c)' /\ Beginning(c)' /\ OpenBlock(c)'
    BY <1>1, <1>2, <2>2, <2>3 DEF CommandFits, InAgreement, Beginning, OpenBlock, CutEffect
  <2>6. Ended(c)'
    <3>1. usable[c] /\ transaction_status[c] = server_tx[c]
      BY <1>3, <1>6 DEF CommandFits, InAgreement
    <3>2. at[c] = "begin" => durable'[c] = {} /\ done[c] = {}
      BY <1>3, <1>4, <2>2 DEF Beginning, CutEffect
    <3>3. at[c] = "closure" /\ ended_by[c] = {} =>
            cmd[c] \in {"BEGIN", "STMT", "PORTAL"} /\ ret[c] = "none"
      BY <1>3, <1>4, <1>6 DEF CommandFits, Commands
    <3>4. at[c] = "closure" /\ ended_by[c] = {} => durable'[c] = {}
      BY <1>3, <2>2, <3>3 DEF OpenBlock, CutEffect
    <3>5. at[c] \in {"commit", "rollback"} /\ ended_by[c] = {} =>
            /\ durable'[c] \in {{}, done[c]} /\ (ret[c] = "Err" => durable'[c] = {})
      BY <1>3, <1>4, <2>2, <3>1 DEF OpenBlock, CutEffect
    <3>6. at[c] = "begin" => ret[c] = "none"
      BY <1>3 DEF CommandFits
    <3>7. QED
      BY <1>1, <1>2, <1>4, <2>3, <3>2, <3>3, <3>4, <3>5 DEF Ended
  <2>7. Enders(c)'
    BY <1>1, <1>3 DEF Enders
  <2>8. QED
    BY <2>4, <2>5, <2>6, <2>7, FrameKeeps DEF ConnInv
<1>7. QED
  BY <1>5, <1>6

-----------------------------------------------------------------------------
\* TxInv holds when the connections are new.
LEMMA Init_Inv == TxInit => TxInv
<1> SUFFICES ASSUME TxInit PROVE TxInv
  OBVIOUS
<1>1. TxTypeOK
  BY TransactionAssumption DEF TxInit, TxTypeOK
<1>2. ASSUME NEW c \in Conns PROVE ConnInv(c)
  BY DEF TxInit, ConnInv, CommandFits, InAgreement, Beginning, OpenBlock, Ended, Enders
<1>3. QED
  BY <1>1, <1>2 DEF TxInv

\* Every step keeps TxInv.
LEMMA Step_Inv ==
  ASSUME TxInv, [TxNext]_txvars
  PROVE  TxInv'
<1>1. CASE UNCHANGED txvars
  <2>1. TxTypeOK'
    BY <1>1 DEF txvars, TxInv, TxTypeOK
  <2>2. ASSUME NEW c \in Conns PROVE ConnInv(c)'
    BY <1>1 DEF txvars, TxInv, ConnInv, CommandFits, InAgreement, Beginning, OpenBlock, Ended, Enders
  <2>3. QED
    BY <2>1, <2>2 DEF TxInv
<1>2. ASSUME NEW c \in Conns, Step(c)
      PROVE  TxInv'
  <2>1. CASE transaction(c) \/ statement(c)
    BY <2>1, Transaction_Inv, Statement_Inv
  <2>2. CASE \E q \in {"BEGIN", "COMMIT", "ROLLBACK"} : query(c, q)
    BY <2>2, Query_Inv
  <2>3. ASSUME NEW d \in Conns, tx_commit(c, d) \/ tx_rollback(c, d) \/ exec_portal_named(c, d)
        PROVE  TxInv'
    BY <2>3, EndBlock_Inv, Portal_Inv DEF tx_commit, tx_rollback
  <2>4. CASE Complete(c) \/ CutShort(c)
    BY <2>4, Complete_Inv, CutShort_Inv
  <2>5. CASE \E v \in {"Ok", "Err"} : closure_returns(c, v)
    BY <2>5, Return_Inv
  <2>6. CASE Abandon(c)
    BY <2>6, Abandon_Inv
  <2>7. QED
    BY <1>2, <2>1, <2>2, <2>3, <2>4, <2>5, <2>6 DEF Step
<1>3. QED
  BY <1>1, <1>2 DEF TxNext

\* The inductive invariant holds of every run of the program.
LEMMA TxInvHolds == TxSpec => []TxInv
<1>1. TxInit => TxInv
  BY Init_Inv
<1>2. TxInv /\ [TxNext]_txvars => TxInv'
  BY Step_Inv
<1>3. QED
  BY <1>1, <1>2, PTL DEF TxSpec

(***************************************************************************)
(* The variables keep their types, and COMMIT and ROLLBACK are only in     *)
(* progress where transaction() sends them.                                *)
(***************************************************************************)
THEOREM TransactionTypeCorrect == TxSpec => []TxTypeOK
BY TxInvHolds, PTL DEF TxInv

(***************************************************************************)
(* transaction() is atomic (transaction in sync and tokio Conn), with any  *)
(* number of connections, whatever their ids, closures of any length, and  *)
(* handles used with the wrong connection.                                 *)
(***************************************************************************)
THEOREM TransactionAtomic == TxSpec => []AllOrNothing
<1>1. TxInv => AllOrNothing
  <2> SUFFICES ASSUME TxInv, NEW c \in Conns
               PROVE  /\ at[c] = "idle" /\ ended_by[c] = {} => durable[c] \in {{}, done[c]}
                      /\ ret[c] = "Err" /\ ended_by[c] = {} => durable[c] = {}
                      /\ at[c] = "idle" /\ result[c] = "Ok" /\ ended_by[c] = {} /\ ~told[c]
                           => durable[c] = done[c]
    BY DEF AllOrNothing
  <2>1. /\ at[c] \in {"idle", "begin", "closure", "commit", "rollback"}
        /\ CommandFits(c) /\ OpenBlock(c) /\ Ended(c)
    BY DEF TxInv, TxTypeOK, ConnInv
  <2>2. QED
    BY <2>1 DEF CommandFits, OpenBlock, Ended
<1>2. QED
  BY <1>1, TxInvHolds, PTL

(***************************************************************************)
(* A connection given back by transaction() and still usable is outside    *)
(* any block, failed blocks included.                                      *)
(***************************************************************************)
THEOREM BlockEnds == TxSpec => []NoBlockLeftOpen
<1>1. TxInv => NoBlockLeftOpen
  BY DEF TxInv, ConnInv, Ended, NoBlockLeftOpen
<1>2. QED
  BY <1>1, TxInvHolds, PTL

(***************************************************************************)
(* The check of the connection id in Transaction::commit and rollback does *)
(* what it can: whatever the ids are, the block of a closure is ended only *)
(* by the closure or by handles of connections whose id is equal to its    *)
(* own, so by nobody else where the ids are distinct.                      *)
(***************************************************************************)
THEOREM BlockOwned == TxSpec => []BlockHeld
<1>1. TxInv => BlockHeld
  BY DEF TxInv, ConnInv, OpenBlock, Enders, InBlock, BlockHeld
<1>2. QED
  BY <1>1, TxInvHolds, PTL

-----------------------------------------------------------------------------
\* How a step may change what a connection's session sees of it.
Same(d) == /\ cmd'[d] = cmd[d] /\ usable'[d] = usable[d]
           /\ transaction_status'[d] = transaction_status[d] /\ server_tx'[d] = server_tx[d]

Begins(d) == cmd[d] = "none" /\ usable[d] /\ cmd'[d] # "none"

Ends(d) == cmd[d] # "none" /\ cmd'[d] = "none"

\* A command is issued on c.
LEMMA Issuing ==
  ASSUME TxInv, NEW c \in Conns, NEW q \in Commands, Issue(c, q),
         UNCHANGED <<transaction_status, usable, server_tx>>, NEW d \in Conns
  PROVE  Same(d) \/ Begins(d)
BY DEF Issue, Ready, Set, Same, Begins, TxInv, TxTypeOK, Commands

\* The exchange of c ends.
LEMMA Ending ==
  ASSUME TxInv, NEW c \in Conns, Complete(c) \/ (Unanswered(c) /\ UNCHANGED transaction_status),
         cmd[c] # "none", NEW d \in Conns
  PROVE  Same(d) \/ Ends(d)
<1>1. TxTypeOK /\ cmd' = Set(cmd, c, "none")
  BY DEF TxInv, Complete, Unanswered
<1>2. CASE c = d
  BY <1>1, <1>2 DEF TxTypeOK, Set, Ends
<1>3. CASE c # d
  <2>1. cmd'[d] = cmd[d]
    BY <1>1, <1>3 DEF TxTypeOK, Set
  <2>2. \/ \E o \in Possible(c) : Apply(c, o)
        \/ UNCHANGED <<server_tx, work, durable>>
    BY DEF Complete, Unanswered
  <2>3. server_tx'[d] = server_tx[d]
    BY <1>1, <1>3, <2>2 DEF Apply, Set, TxTypeOK
  <2>4. usable'[d] = usable[d] /\ transaction_status'[d] = transaction_status[d]
    BY <1>1, <1>3 DEF Complete, Unanswered, Set, TxTypeOK
  <2>5. QED
    BY <2>1, <2>3, <2>4 DEF Same
<1>4. QED
  BY <1>2, <1>3

\* Each step leaves a session alone, begins a call, or ends one.
LEMMA SessionSteps ==
  ASSUME TxInv, [TxNext]_txvars, NEW d \in Conns
  PROVE  Same(d) \/ Begins(d) \/ Ends(d)
<1>1. CASE UNCHANGED txvars
  BY <1>1 DEF txvars, Same
<1>2. ASSUME NEW c \in Conns, Step(c)
      PROVE  Same(d) \/ Begins(d) \/ Ends(d)
  <2>1. CASE transaction(c)
    BY <2>1, Issuing DEF transaction, Commands
  <2>2. CASE statement(c)
    BY <2>2, Issuing DEF statement, Commands
  <2>3. CASE \E q \in {"BEGIN", "COMMIT", "ROLLBACK"} : query(c, q)
    BY <2>3, Issuing DEF query, Commands
  <2>4. ASSUME NEW e \in Conns, NEW q \in {"COMMIT", "ROLLBACK"}, EndBlock(c, e, q)
        PROVE  Same(d) \/ Begins(d)
    <3>1. \/ Issue(e, q) /\ UNCHANGED <<transaction_status, usable, server_tx>>
          \/ UNCHANGED <<cmd, transaction_status, usable, server_tx>>
      BY <2>4 DEF EndBlock
    <3>2. q \in Commands
      BY DEF Commands
    <3>3. QED
      BY <3>1, <3>2, Issuing DEF Same
  <2>5. ASSUME NEW e \in Conns, exec_portal_named(c, e)
        PROVE  Same(d) \/ Begins(d)
    BY <2>5, Issuing DEF exec_portal_named, Commands
  <2>6. CASE Complete(c)
    <3>1. cmd[c] # "none"
      BY <2>6 DEF Complete
    <3>2. QED
      BY <2>6, <3>1, Ending
  <2>7. CASE CutShort(c)
    BY <2>7, Ending DEF CutShort
  <2>8. ASSUME NEW v \in {"Ok", "Err"}, closure_returns(c, v)
        PROVE  Same(d) \/ Begins(d)
    <3>1. \/ Issue(c, FinalCommand(v)) /\ UNCHANGED <<transaction_status, usable, server_tx>>
          \/ UNCHANGED <<cmd, transaction_status, usable, server_tx>>
      BY <2>8 DEF closure_returns
    <3>2. FinalCommand(v) \in Commands
      BY DEF FinalCommand, Commands
    <3>3. QED
      BY <3>1, <3>2, Issuing DEF Same
  <2>9. CASE Abandon(c)
    <3>1. CASE cmd[c] = "none"
      BY <2>9, <3>1 DEF Abandon, Same
    <3>2. CASE cmd[c] # "none"
      BY <2>9, <3>2, Ending DEF Abandon
    <3>3. QED
      BY <3>1, <3>2
  <2>10. QED
    BY <1>2, <2>1, <2>2, <2>3, <2>4, <2>5, <2>6, <2>7, <2>8, <2>9
    DEF Step, tx_commit, tx_rollback
<1>3. QED
  BY <1>1, <1>2 DEF TxNext

(***************************************************************************)
(* What transaction() asks of its connections, and what it lets happen to  *)
(* them, is within what module Session promises, and tokio::Conn is proved *)
(* to keep (ConnImplementsSession): the two fit together, for any number   *)
(* of connections.                                                         *)
(***************************************************************************)
THEOREM TransactionUsesSessions == TxSpec => UsesSessions
<1>1. TxInit => \A c \in Conns : Connection(c)!SessionInit
  <2> SUFFICES ASSUME TxInit, NEW c \in Conns PROVE Connection(c)!SessionInit
    OBVIOUS
  <2>1. cmd[c] = "none" /\ usable[c] = TRUE /\ transaction_status[c] = server_tx[c]
    BY DEF TxInit
  <2>2. Phase(c) = "ready" /\ Ready(c) = TRUE
    BY <2>1 DEF Phase, Ready
  <2>3. QED
    BY <2>1, <2>2 DEF Connection!SessionInit, Connection!Settled
<1>2. TxInv /\ TxInv' /\ [TxNext]_txvars =>
        \A c \in Conns : Connection(c)!SessionNext \/ UNCHANGED Connection(c)!session
  <2> SUFFICES ASSUME TxInv, TxInv', [TxNext]_txvars, NEW c \in Conns
               PROVE  Connection(c)!SessionNext \/ UNCHANGED Connection(c)!session
    OBVIOUS
  <2>1. CASE Same(c)
    <3>1. Phase(c)' = Phase(c) /\ Ready(c)' = Ready(c)
      BY <2>1 DEF Same, Phase, Ready
    <3>2. (transaction_status[c] = server_tx[c])' = (transaction_status[c] = server_tx[c])
      BY <2>1 DEF Same
    <3>3. QED
      BY <3>1, <3>2 DEF Connection!session
  <2>2. CASE Begins(c)
    <3>1. Phase(c) = "ready" /\ Phase(c)' = "busy"
      BY <2>2 DEF Begins, Phase, Ready
    <3>2. QED
      BY <3>1 DEF Connection!SessionNext, Connection!Accept
  <2>3. CASE Ends(c)
    <3>1. Phase(c) = "busy"
      BY <2>3 DEF Ends, Phase, Ready
    <3>2. CASE usable'[c]
      <4>1. Phase(c)' = "ready" /\ Ready(c)' = TRUE
        BY <2>3, <3>2 DEF Ends, Phase, Ready
      <4>2. (transaction_status[c] = server_tx[c])' = TRUE
        BY <3>2 DEF TxInv, ConnInv, InAgreement
      <4>3. QED
        BY <3>1, <4>1, <4>2 DEF Connection!SessionNext, Connection!Release, Connection!Settled
    <3>3. CASE ~usable'[c]
      <4>1. Phase(c)' = "unusable"
        BY <2>3, <3>3 DEF Ends, Phase, Ready
      <4>2. QED
        BY <3>1, <4>1 DEF Connection!SessionNext, Connection!Condemn
    <3>4. QED
      BY <3>2, <3>3
  <2>4. QED
    BY <2>1, <2>2, <2>3, SessionSteps
<1>3. QED
  BY <1>1, <1>2, TxInvHolds, PTL DEF TxSpec, UsesSessions
=============================================================================
