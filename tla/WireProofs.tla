----------------------------- MODULE WireProofs -----------------------------
(***************************************************************************)
(* The safety properties of the two modules that no connection's state is  *)
(* part of: Startup, for every choice of options, build and peer and any   *)
(* number of parameters, and Conversions, for every width of a byte, every *)
(* length of a second, minute, hour and day and every value that is sent.  *)
(*                                                                         *)
(* The inductive invariant of Startup follows the machine's states: what   *)
(* has been verified (Proof), what the stream is under SslMode::Require    *)
(* (Secrecy), where a server that keeps to the protocol stands (Place),    *)
(* and that the connection new() holds is never the stream a machine runs  *)
(* on (Outer).                                                             *)
(*                                                                         *)
(* That of Conversions follows a value's way: the column, what it decodes  *)
(* to, what encode makes of that, what the server reads (ConvInv).  Before *)
(* it come lemmas about the arithmetic: division and its remainder, the    *)
(* bits of an integer (RoundTrip), and what each from_binary returns       *)
(* (Decoded...).                                                           *)
(***************************************************************************)
EXTENDS Startup, Conversions, TLAPS

\* The states before SCRAM can have begun.
BeforeSasl == {"Initial", "WaitingSslResponse", "WaitingTlsHandshake", "Secured", "WaitingAuth"}

\* The states in which a startup message has been sent.
Introduced == {"WaitingAuth", "SaslInProgress", "WaitingAuthResult", "WaitingReady"}

Proof ==
  /\ state \in BeforeSasl => scram = "none"
  /\ state \in {"WaitingAuthResult", "WaitingReady"} /\ scram # "none" => proven
  /\ conn = stream /\ scram # "none" => proven

Secrecy ==
  /\ state = "Secured" => stream = "tls"
  /\ options.ssl_mode = "Require" /\ state \in Introduced => stream = "tls"
  /\ RequireMeansTls

\* Where the server is while the machine waits, and what it has reported.
Place ==
  peer = "server" =>
    /\ state = "WaitingAuth" => srv = "auth"
    /\ state = "SaslInProgress" => srv \in {"challenge", "judge_sasl"}
    /\ state = "WaitingAuthResult" => srv \in {"judge", "auth_done"}
    /\ state = "WaitingReady" => srv \in {"params", "keyed"}
    /\ show = "asked" => srv = "idle"
    /\ server_params = reported

Outer ==
  /\ state # "none" /\ conn # "none" => conn # "unix" /\ stream = "unix"
  /\ show = "asked" => conn = stream /\ stream # "unix" /\ result = "none"
  /\ server_params <= reported

StartupInv ==
  StartupTypeOK /\ Proof /\ Secrecy /\ Place /\ Outer /\ ReadyTogether /\ UpgradeIsOptional

Failures == {"Auth", "NoTls", "NoMethod", "LibraryBug", "Server", "Io"}

ServerStates == Await \cup {"ssl", "auth", "judge", "challenge", "judge_sasl", "auth_done",
                            "params", "keyed", "idle", "closed"}

-----------------------------------------------------------------------------
\* A server that keeps to the protocol stays within its states.
LEMMA ServerType ==
  ASSUME NEW s \in ServerStates, NEW m
  PROVE  /\ ServerSends(s, m) \in ServerStates \cup {"no"}
         /\ ServerGets(s, m) \in ServerStates
  BY DEF ServerSends, ServerGets, ServerStates, Await

\* What it may send to a client that waits for it: the parameters, the key data
\* and ReadyForQuery only after AuthenticationOk.
LEMMA ServerFacts ==
  ASSUME NEW m, m # "Error"
  PROVE  /\ ServerSends("auth", m) # "no" =>
              /\ m # "Parameter"
              /\ m \in {"Notice", "Notification"} => ServerSends("auth", m) = "auth"
              /\ m = "AuthOk" => ServerSends("auth", m) = "params"
         /\ \A s \in {"challenge", "judge_sasl"} : ServerSends(s, m) # "no" =>
              /\ m # "Parameter"
              /\ m \in {"Notice", "Notification"} => ServerSends(s, m) = s
              /\ m = "Final" => ServerSends(s, m) = "auth_done"
         /\ \A s \in {"judge", "auth_done"} : ServerSends(s, m) # "no" =>
              /\ m # "Parameter"
              /\ m \in {"Notice", "Notification"} => ServerSends(s, m) = s
              /\ m = "AuthOk" => ServerSends(s, m) = "params"
         /\ \A s \in {"params", "keyed"} : ServerSends(s, m) # "no" =>
              /\ m \in {"Notice", "Notification", "Parameter"} => ServerSends(s, m) = s
              /\ m = "KeyData" => ServerSends(s, m) = "keyed"
              /\ m = "Ready" => ServerSends(s, m) = "idle"
  BY DEF ServerSends, Await

\* What the server says next is one of its states.
LEMMA AfterSendingType ==
  ASSUME StartupTypeOK, NEW m, MaySend(m)
  PROVE  AfterSending(m) \in ServerStates
  BY ServerType DEF StartupTypeOK, MaySend, AfterSending, ServerStates

-----------------------------------------------------------------------------
\* A startup that fails leaves the connection there was, if any.
LEMMA RefuseStep ==
  ASSUME StartupInv, NEW e \in Failures, state # "none", Refuse(e), srv' \in {srv, "closed"},
         UNCHANGED peer
  PROVE  StartupInv'
<1> USE DEF StartupInv, Refuse, NoMachine, Fallback
<1>1. StartupTypeOK'
  BY DEF StartupTypeOK, Failures, Outer
<1>2. Proof' /\ Secrecy'
  BY DEF StartupTypeOK, Proof, Secrecy, RequireMeansTls, BeforeSasl, Introduced
<1>3. Place' /\ Outer'
  BY DEF StartupTypeOK, Place, Outer
<1>4. ReadyTogether' /\ UpgradeIsOptional'
  BY DEF StartupTypeOK, Outer, ReadyTogether, UpgradeIsOptional
<1>5. QED
  BY <1>1, <1>2, <1>3, <1>4

\* The startup message is sent: over TLS, if it is required.
LEMMA IntroduceStep ==
  ASSUME StartupInv, UNCHANGED peer, Introduce,
         state \in {"Initial", "WaitingSslResponse", "Secured"},
         options.ssl_mode = "Require" => state = "Secured"
  PROVE  StartupInv'
<1> USE DEF StartupInv, Introduce, Answer, Goto, Write, Keep, outer
<1>1. StartupTypeOK'
  BY DEF StartupTypeOK, ReadStates, ServerGets
<1>2. Proof'
  BY DEF StartupTypeOK, Proof, BeforeSasl, Outer
<1>3. Secrecy'
  BY DEF StartupTypeOK, Secrecy, RequireMeansTls, Introduced
<1>4. Place' /\ Outer'
  BY DEF StartupTypeOK, Place, Outer, ServerGets
<1>5. ReadyTogether' /\ UpgradeIsOptional'
  BY DEF StartupTypeOK, ReadyTogether, UpgradeIsOptional
<1>6. QED
  BY <1>1, <1>2, <1>3, <1>4, <1>5

\* The first move: SSLRequest, the startup message, or a refusal.
LEMMA InitialStep ==
  ASSUME StartupInv, UNCHANGED peer, handle_initial
  PROVE  StartupInv'
<1>1. CASE Refuse("NoTls") /\ UNCHANGED srv
  BY <1>1, RefuseStep DEF handle_initial, Failures
<1>2. CASE Introduce /\ (options.ssl_mode = "Require" => client_supports_tls)
                     /\ ~(options.ssl_mode # "Disable" /\ client_supports_tls)
  BY <1>2, IntroduceStep DEF handle_initial
<1>3. CASE Answer("SSLRequest", "WaitingSslResponse") /\ Keep
  <2> USE <1>3 DEF StartupInv, handle_initial, Answer, Goto, Write, Keep, outer
  <2>1. StartupTypeOK'
    BY DEF StartupTypeOK, ReadStates, ServerGets
  <2>2. Proof' /\ Secrecy'
    BY DEF StartupTypeOK, Proof, BeforeSasl, Outer, Secrecy, RequireMeansTls, Introduced
  <2>3. Place' /\ Outer'
    BY DEF StartupTypeOK, Place, Outer, ServerGets
  <2>4. ReadyTogether' /\ UpgradeIsOptional'
    BY DEF StartupTypeOK, ReadyTogether, UpgradeIsOptional
  <2>5. QED
    BY <2>1, <2>2, <2>3, <2>4
<1>4. QED
  BY <1>1, <1>2, <1>3 DEF handle_initial

\* The answer to SSLRequest: plain text is accepted only when TLS is not required.
LEMMA SslStep ==
  ASSUME StartupInv, UNCHANGED peer, NEW byte, handle_ssl_response(byte)
  PROVE  StartupInv'
<1>1. CASE \E e \in Failures : Refuse(e) /\ srv' = "closed"
  BY <1>1, RefuseStep DEF handle_ssl_response
<1>2. CASE byte = "N" /\ PlainAccepted /\ Introduce
  BY <1>2, IntroduceStep DEF handle_ssl_response, PlainAccepted
<1>3. CASE Goto("WaitingTlsHandshake") /\ srv' = "handshake" /\ Keep /\ Quiet
  <2> USE <1>3 DEF StartupInv, handle_ssl_response, Goto, Keep, Quiet, outer
  <2>1. StartupTypeOK'
    BY DEF StartupTypeOK, Await
  <2>2. Proof' /\ Secrecy'
    BY DEF StartupTypeOK, Proof, BeforeSasl, Outer, Secrecy, RequireMeansTls, Introduced
  <2>3. Place' /\ Outer'
    BY DEF StartupTypeOK, Place, Outer
  <2>4. ReadyTogether' /\ UpgradeIsOptional'
    BY DEF StartupTypeOK, ReadyTogether, UpgradeIsOptional
  <2>5. QED
    BY <2>1, <2>2, <2>3, <2>4
<1>4. QED
  BY <1>1, <1>2, <1>3 DEF handle_ssl_response, Failures

\* The stream becomes a TLS stream, or the startup fails.
LEMMA TlsStep ==
  ASSUME StartupInv, UNCHANGED peer, tls_handshake
  PROVE  StartupInv'
<1>1. CASE \E e \in Failures : Refuse(e) /\ srv' = "closed"
  BY <1>1, RefuseStep DEF tls_handshake
<1>2. CASE /\ stream = "tcp" /\ stream' = "tls" /\ state' = "Secured" /\ srv' = "startup"
           /\ Keep /\ UNCHANGED <<options, build, exposed, outer>>
  <2> USE <1>2 DEF StartupInv, tls_handshake, Keep, outer
  <2>1. StartupTypeOK'
    BY DEF StartupTypeOK, Await
  <2>2. conn = "none"
    BY DEF Outer
  <2>3. Proof' /\ Secrecy'
    BY <2>2 DEF StartupTypeOK, Proof, BeforeSasl, Secrecy, RequireMeansTls, Introduced
  <2>4. Place' /\ Outer'
    BY <2>2 DEF StartupTypeOK, Place, Outer
  <2>5. ReadyTogether' /\ UpgradeIsOptional'
    BY DEF StartupTypeOK, ReadyTogether, UpgradeIsOptional
  <2>6. QED
    BY <2>1, <2>3, <2>4, <2>5
<1>3. QED
  BY <1>1, <1>2 DEF tls_handshake, Failures

-----------------------------------------------------------------------------
\* The machine reads on after m, in a state where the server's next move fits,
\* and SCRAM goes no further.
LEMMA MachineReads ==
  ASSUME StartupInv, UNCHANGED <<peer, scram, proven, exposed>>, NEW s \in Introduced, Goto(s),
         state \in Introduced, srv' \in ServerStates,
         s \in {"WaitingAuthResult", "WaitingReady"} /\ scram # "none" => proven,
         peer = "server" =>
           /\ s = "WaitingAuth" => srv' = "auth"
           /\ s = "SaslInProgress" => srv' \in {"challenge", "judge_sasl"}
           /\ s = "WaitingAuthResult" => srv' \in {"judge", "auth_done"}
           /\ s = "WaitingReady" => srv' \in {"params", "keyed"}
           /\ server_params' = reported',
         server_params' \in 0..MaxParams, reported' \in 0..MaxParams, server_params' <= reported',
         s = "WaitingAuth" => state = "WaitingAuth"
  PROVE  StartupInv'
<1> USE DEF StartupInv, Goto, outer
<1>1. StartupTypeOK'
  BY DEF StartupTypeOK, ReadStates, Introduced, ServerStates
<1>2. Proof' /\ Secrecy'
  BY DEF StartupTypeOK, Proof, BeforeSasl, Outer, Secrecy, RequireMeansTls, Introduced
<1>3. Place' /\ Outer'
  BY DEF StartupTypeOK, Place, Outer, Introduced
<1>4. ReadyTogether' /\ UpgradeIsOptional'
  BY DEF StartupTypeOK, ReadyTogether, UpgradeIsOptional, Introduced
<1>5. QED
  BY <1>1, <1>2, <1>3, <1>4

\* The machine answers with m and goes on in state s.
LEMMA MachineAnswers ==
  ASSUME StartupInv, UNCHANGED <<peer, server_params, reported, proven>>,
         NEW m \in {"Password", "SASLInitialResponse", "SASLResponse"},
         NEW s \in {"SaslInProgress", "WaitingAuthResult"}, Answer(m, s),
         state \in Introduced,
         scram' \in {"none", "started", "keyed"},
         s = "WaitingAuthResult" => m = "Password" /\ scram' = "none",
         s = "SaslInProgress" => m # "Password"
  PROVE  StartupInv'
<1> USE DEF StartupInv, Answer, Write, Goto, outer
<1>1. StartupTypeOK'
  <2>1. srv' \in {"judge", "challenge", "judge_sasl"}
    BY DEF ServerGets
  <2>2. exposed' \in BOOLEAN
    BY DEF StartupTypeOK
  <2>3. state # "none" /\ result = "none" /\ show = "none"
    BY DEF StartupTypeOK, Introduced
  <2>4. QED
    BY <2>1, <2>2, <2>3 DEF StartupTypeOK, ReadStates
<1>2. Proof'
  BY DEF StartupTypeOK, Proof, BeforeSasl, Outer, Introduced
<1>3. Secrecy'
  BY DEF StartupTypeOK, Secrecy, RequireMeansTls, Introduced
<1>4. Place' /\ Outer'
  BY DEF StartupTypeOK, Place, Outer, Introduced, ServerGets
<1>5. ReadyTogether' /\ UpgradeIsOptional'
  BY DEF StartupTypeOK, ReadyTogether, UpgradeIsOptional, Introduced
<1>6. QED
  BY <1>1, <1>2, <1>3, <1>4, <1>5

\* An authentication request: OK, a password, SCRAM, or a refusal.
LEMMA AuthStep ==
  ASSUME StartupInv, UNCHANGED peer, NEW m, m # "Error", MaySend(m), handle_auth_message(m)
  PROVE  StartupInv'
<1>0. state = "WaitingAuth" /\ state \in Introduced /\ state # "none" /\ scram = "none"
  BY DEF handle_auth_message, StartupInv, Proof, BeforeSasl, Introduced
<1>1. CASE \E e \in Failures : Refuse(e) /\ srv' = "closed"
  BY <1>0, <1>1, RefuseStep
<1>2. CASE Answer("Password", "WaitingAuthResult") /\ Keep
  BY <1>0, <1>2, MachineAnswers DEF Keep
<1>3. CASE Answer("SASLInitialResponse", "SaslInProgress") /\ scram' = "started"
           /\ UNCHANGED <<proven, server_params, reported>>
  BY <1>0, <1>3, MachineAnswers
<1>4. CASE m = "AuthOk" /\ Goto("WaitingReady") /\ srv' = AfterSending(m) /\ Keep /\ Quiet
  <2>1. peer = "server" => srv' \in {"params", "keyed"}
    BY <1>0, <1>4, ServerFacts DEF StartupInv, Place, MaySend, AfterSending
  <2>2. srv' \in ServerStates
    BY <1>4, AfterSendingType DEF StartupInv
  <2>3. server_params \in 0..MaxParams /\ reported \in 0..MaxParams /\ server_params <= reported
        /\ (peer = "server" => server_params = reported)
    BY DEF StartupInv, StartupTypeOK, Outer, Place
  <2>4. QED
    BY <1>0, <1>4, <2>1, <2>2, <2>3, MachineReads DEF Keep, Quiet, Introduced
<1>5. QED
  BY <1>1, <1>2, <1>3, <1>4 DEF handle_auth_message, SendPassword, Failures

\* SCRAM: only a verified signature leads out of it.
LEMMA SaslStep ==
  ASSUME StartupInv, UNCHANGED peer, NEW m, m # "Error", MaySend(m), handle_sasl_message(m)
  PROVE  StartupInv'
<1>0. state = "SaslInProgress" /\ state \in Introduced /\ state # "none"
  BY DEF handle_sasl_message, Introduced
<1>1. CASE \E e \in Failures : Refuse(e) /\ srv' = "closed"
  BY <1>0, <1>1, RefuseStep
<1>2. CASE Answer("SASLResponse", "SaslInProgress") /\ scram' = "keyed"
           /\ UNCHANGED <<proven, server_params, reported>>
  BY <1>0, <1>2, MachineAnswers
<1>3. CASE Verified(m) /\ Goto("WaitingAuthResult") /\ srv' = AfterSending(m)
           /\ proven' = (m = "Final" /\ scram = "keyed")
           /\ Quiet /\ UNCHANGED <<scram, server_params, reported>>
  <2> USE <1>0, <1>3 DEF StartupInv, Goto, Quiet, outer
  <2>1. proven'
    BY DEF Verified
  <2>2. srv' \in ServerStates
    BY AfterSendingType
  <2>3. peer = "server" => srv' = "auth_done"
    BY ServerFacts DEF Place, MaySend, AfterSending, Verified
  <2>4. StartupTypeOK'
    BY <2>1, <2>2 DEF StartupTypeOK, ReadStates, ServerStates
  <2>5. Proof' /\ Secrecy'
    BY <2>1 DEF StartupTypeOK, Proof, BeforeSasl, Outer, Secrecy, RequireMeansTls, Introduced
  <2>6. Place' /\ Outer'
    BY <2>3 DEF StartupTypeOK, Place, Outer
  <2>7. ReadyTogether' /\ UpgradeIsOptional'
    BY DEF StartupTypeOK, ReadyTogether, UpgradeIsOptional
  <2>8. QED
    BY <2>4, <2>5, <2>6, <2>7
<1>4. QED
  BY <1>1, <1>2, <1>3 DEF handle_sasl_message, Failures

\* AuthenticationOk, or a refusal.
LEMMA AuthResultStep ==
  ASSUME StartupInv, UNCHANGED peer, NEW m, m # "Error", MaySend(m), handle_auth_result(m)
  PROVE  StartupInv'
<1>0. /\ state = "WaitingAuthResult" /\ state \in Introduced /\ state # "none"
      /\ scram # "none" => proven
  BY DEF handle_auth_result, Introduced, StartupInv, Proof
<1>1. CASE \E e \in Failures : Refuse(e) /\ srv' = "closed"
  BY <1>0, <1>1, RefuseStep
<1>2. CASE m = "AuthOk" /\ Goto("WaitingReady") /\ srv' = AfterSending(m) /\ Keep /\ Quiet
  <2>1. peer = "server" => srv' \in {"params", "keyed"}
    BY <1>0, <1>2, ServerFacts DEF StartupInv, Place, MaySend, AfterSending
  <2>2. srv' \in ServerStates
    BY <1>2, AfterSendingType DEF StartupInv
  <2>3. server_params \in 0..MaxParams /\ reported \in 0..MaxParams /\ server_params <= reported
        /\ (peer = "server" => server_params = reported)
    BY DEF StartupInv, StartupTypeOK, Outer, Place
  <2>4. QED
    BY <1>0, <1>2, <2>1, <2>2, <2>3, MachineReads DEF Keep, Quiet, Introduced
<1>3. QED
  BY <1>1, <1>2 DEF handle_auth_result, Failures

\* ReadyForQuery: the connection is built, and may ask for the Unix socket.
LEMMA FinishStep ==
  ASSUME StartupInv, UNCHANGED peer, state = "WaitingReady", Finish, srv' \in ServerStates,
         peer = "server" => srv' = "idle"
  PROVE  StartupInv'
<1> USE DEF StartupInv, Finish, Keep, Quiet
<1>1. scram # "none" => proven
  BY DEF Proof
<1>2. StartupTypeOK'
  BY DEF StartupTypeOK, ServerStates
<1>3. Proof' /\ Secrecy'
  BY <1>1 DEF StartupTypeOK, Proof, BeforeSasl, Secrecy, RequireMeansTls, Introduced
<1>4. Place' /\ Outer'
  BY DEF StartupTypeOK, Place, Outer, is_tcp_loopback
<1>5. ReadyTogether' /\ UpgradeIsOptional'
  BY DEF StartupTypeOK, Place, ReadyTogether, UpgradeIsOptional
<1>6. QED
  BY <1>2, <1>3, <1>4, <1>5

\* What the server reports before it is ready.
LEMMA ReadyStep ==
  ASSUME StartupInv, UNCHANGED peer, NEW m, m # "Error", MaySend(m),
         m = "Parameter" => reported < MaxParams, handle_ready_message(m)
  PROVE  StartupInv'
<1>0. /\ state = "WaitingReady" /\ state \in Introduced /\ state # "none"
      /\ scram # "none" => proven
      /\ MaxParams \in Nat
      /\ server_params \in 0..MaxParams /\ reported \in 0..MaxParams /\ server_params <= reported
      /\ (peer = "server" => server_params = reported)
  BY StartupAssumption
  DEF handle_ready_message, Introduced, StartupInv, Proof, StartupTypeOK, Outer, Place
<1>1. CASE \E e \in Failures : Refuse(e) /\ srv' = "closed"
  BY <1>0, <1>1, RefuseStep
<1>2. srv' = AfterSending(m) => srv' \in ServerStates
  BY AfterSendingType DEF StartupInv
<1>3. CASE m = "KeyData" /\ Goto("WaitingReady") /\ srv' = AfterSending(m) /\ Keep /\ Quiet
  <2>1. peer = "server" => srv' \in {"params", "keyed"}
    BY <1>0, <1>3, ServerFacts DEF StartupInv, Place, MaySend, AfterSending
  <2>2. QED
    BY <1>0, <1>2, <1>3, <2>1, MachineReads DEF Keep, Quiet, Introduced
<1>4. CASE /\ m = "Parameter" /\ Goto("WaitingReady") /\ srv' = AfterSending(m) /\ Quiet
           /\ server_params' = server_params + 1 /\ reported' = reported + 1
           /\ UNCHANGED <<scram, proven>>
  <2>1. peer = "server" => srv' \in {"params", "keyed"}
    BY <1>0, <1>4, ServerFacts DEF StartupInv, Place, MaySend, AfterSending
  <2>2. server_params' \in 0..MaxParams /\ reported' \in 0..MaxParams
        /\ server_params' <= reported' /\ (peer = "server" => server_params' = reported')
    BY <1>0, <1>4
  <2>3. QED
    BY <1>0, <1>2, <1>4, <2>1, <2>2, MachineReads DEF Quiet, Introduced
<1>5. CASE m = "Ready" /\ Finish /\ srv' = AfterSending(m)
  <2>1. peer = "server" => srv' = "idle"
    BY <1>0, <1>5, ServerFacts DEF StartupInv, Place, MaySend, AfterSending
  <2>2. QED
    BY <1>0, <1>2, <1>5, <2>1, FinishStep
<1>6. QED
  BY <1>1, <1>3, <1>4, <1>5 DEF handle_ready_message, Failures

\* An asynchronous message: no parameter is reported before authentication is over.
LEMMA AsyncStep ==
  ASSUME StartupInv, UNCHANGED peer, NEW m, IsAsync(m), MaySend(m),
         m = "Parameter" => reported < MaxParams,
         state \in Introduced, srv' = AfterSending(m), Goto(state), Quiet,
         reported' = IF m = "Parameter" THEN reported + 1 ELSE reported,
         UNCHANGED <<scram, proven, server_params>>
  PROVE  StartupInv'
<1>1. /\ MaxParams \in Nat
      /\ server_params \in 0..MaxParams /\ reported \in 0..MaxParams /\ server_params <= reported
      /\ (peer = "server" => server_params = reported)
  BY StartupAssumption DEF StartupInv, StartupTypeOK, Outer, Place
<1>2. m # "Error" /\ (m = "Parameter" => state # "WaitingReady")
      /\ m \in {"Notice", "Notification", "Parameter"}
  BY DEF IsAsync, Async
<1>3. peer = "server" => m # "Parameter" /\ srv' = srv
  BY <1>2, ServerFacts DEF StartupInv, Place, MaySend, AfterSending, Introduced
<1>4. srv' \in ServerStates
  BY AfterSendingType DEF StartupInv
<1>5. reported' \in 0..MaxParams /\ server_params' <= reported'
      /\ (peer = "server" => server_params' = reported')
  BY <1>1, <1>3
<1>6. state \in {"WaitingAuthResult", "WaitingReady"} /\ scram # "none" => proven
  BY DEF StartupInv, Proof
<1>7. QED
  BY <1>1, <1>3, <1>4, <1>5, <1>6, MachineReads DEF Quiet, StartupInv, Place

LEMMA MessageStep ==
  ASSUME StartupInv, UNCHANGED peer, NEW m, step(m)
  PROVE  StartupInv'
<1>1. state \in Introduced /\ state # "none"
  BY DEF step, ReadStates, Introduced
<1>2. CASE IsAsync(m)
  <2>1. /\ MaySend(m) /\ (m = "Parameter" => reported < MaxParams)
        /\ srv' = AfterSending(m)
        /\ reported' = IF m = "Parameter" THEN reported + 1 ELSE reported
        /\ Goto(state) /\ Quiet /\ UNCHANGED <<scram, proven, server_params>>
    BY <1>2 DEF step, IsAsync, Async
  <2>2. QED
    BY <1>1, <1>2, <2>1, AsyncStep
<1>3. CASE ~IsAsync(m) /\ m = "Error"
  BY <1>1, <1>3, RefuseStep DEF step, Failures
<1>4. CASE ~IsAsync(m) /\ m # "Error"
  BY <1>4, AuthStep, SaslStep, AuthResultStep, ReadyStep DEF step
<1>5. QED
  BY <1>2, <1>3, <1>4

-----------------------------------------------------------------------------
\* The connection there is, is returned.
LEMMA NoUpgradeStep ==
  ASSUME StartupInv, UNCHANGED peer, NoUpgrade
  PROVE  StartupInv'
<1> USE DEF StartupInv, NoUpgrade, machine
<1>1. StartupTypeOK'
  BY DEF StartupTypeOK
<1>2. Proof' /\ Secrecy'
  BY DEF Proof, Secrecy, RequireMeansTls
<1>3. Place' /\ Outer'
  BY DEF StartupTypeOK, Place, Outer
<1>4. ReadyTogether' /\ UpgradeIsOptional'
  BY DEF Place, ReadyTogether, UpgradeIsOptional
<1>5. QED
  BY <1>1, <1>2, <1>3, <1>4

\* The second startup begins, beside the connection there is.
LEMMA ReconnectStep ==
  ASSUME StartupInv, UNCHANGED peer, Reconnect
  PROVE  StartupInv'
<1> USE DEF StartupInv, Reconnect
<1>1. StartupTypeOK'
  <2>1. 0 \in 0..MaxParams
    BY StartupAssumption
  <2>2. options' \in [ssl_mode : {"Disable", "Prefer", "Require"}, password : BOOLEAN,
                      upgrade : BOOLEAN]
    BY DEF StartupTypeOK
  <2>3. result = "none" /\ conn # "none"
    BY DEF Outer, StartupTypeOK
  <2>4. QED
    BY <2>1, <2>2, <2>3 DEF StartupTypeOK, Await
<1>2. Proof' /\ Secrecy'
  BY DEF StartupTypeOK, Outer, Proof, BeforeSasl, Secrecy, RequireMeansTls, Introduced
<1>3. Place' /\ Outer'
  BY DEF StartupTypeOK, Place, Outer
<1>4. ReadyTogether' /\ UpgradeIsOptional'
  BY DEF Outer, ReadyTogether, UpgradeIsOptional
<1>5. QED
  BY <1>1, <1>2, <1>3, <1>4

LEMMA AbandonStep ==
  ASSUME StartupInv, UNCHANGED peer, Abandon
  PROVE  StartupInv'
<1> USE DEF StartupInv, Abandon, NoMachine
<1>1. StartupTypeOK'
  BY DEF StartupTypeOK
<1>2. Proof' /\ Secrecy'
  BY DEF Proof, Secrecy, RequireMeansTls, BeforeSasl, Introduced
<1>3. Place' /\ Outer'
  BY DEF StartupTypeOK, Place, Outer
<1>4. ReadyTogether' /\ UpgradeIsOptional'
  BY DEF ReadyTogether, UpgradeIsOptional
<1>5. QED
  BY <1>1, <1>2, <1>3, <1>4

LEMMA StartupStep == StartupInv /\ [StartupNext]_allvars => StartupInv'
<1> SUFFICES ASSUME StartupInv, [StartupNext]_allvars PROVE StartupInv'
  OBVIOUS
<1>1. CASE UNCHANGED allvars
  BY <1>1 DEF allvars, startupvars, machine, outer, StartupInv, StartupTypeOK, Proof, Secrecy,
              RequireMeansTls, Place, Outer, ReadyTogether, UpgradeIsOptional
<1>2. CASE StartupNext
  <2>1. UNCHANGED peer
    BY <1>2 DEF StartupNext
  <2>2. CASE IoFails
    BY <2>1, <2>2, RefuseStep DEF IoFails, Failures
  <2>3. CASE handle_initial \/ read_u8 \/ tls_handshake
    BY <2>1, <2>3, InitialStep, SslStep, TlsStep DEF read_u8
  <2>4. CASE handle_tls_handshake_complete
    BY <2>1, <2>4, IntroduceStep DEF handle_tls_handshake_complete
  <2>5. CASE \E m \in Received : step(m)
    BY <2>1, <2>5, MessageStep
  <2>6. CASE NoUpgrade \/ Reconnect \/ Abandon
    BY <2>1, <2>6, NoUpgradeStep, ReconnectStep, AbandonStep
  <2>7. QED
    BY <1>2, <2>2, <2>3, <2>4, <2>5, <2>6 DEF StartupNext, Progress
<1>3. QED
  BY <1>1, <1>2

LEMMA StartupInvHolds == StartupSpec => []StartupInv
<1>1. ASSUME StartupInit PROVE StartupInv
  <2>1. 0 \in 0..MaxParams
    BY StartupAssumption
  <2>2. StartupTypeOK
    BY <1>1, <2>1 DEF StartupInit, StartupTypeOK, Await
  <2>3. Proof /\ Secrecy /\ Place /\ Outer
    BY <1>1 DEF StartupInit, Proof, Secrecy, RequireMeansTls, Place, Outer, BeforeSasl, Introduced
  <2>4. ReadyTogether /\ UpgradeIsOptional
    BY <1>1 DEF StartupInit, ReadyTogether, UpgradeIsOptional
  <2>5. QED
    BY <2>2, <2>3, <2>4 DEF StartupInv
<1>2. QED
  BY <1>1, StartupStep, PTL DEF StartupSpec

-----------------------------------------------------------------------------
\* The variables of the startup keep their types.
THEOREM StartupTypeCorrect == StartupSpec => []StartupTypeOK
BY StartupInvHolds, PTL DEF StartupInv

(***************************************************************************)
(* new_with_stream returns a connection that is past startup on both       *)
(* sides, with every parameter reported so far, whatever the options and   *)
(* the build, and with or without the upgrade to the Unix socket.          *)
(***************************************************************************)
THEOREM ConnectedMeansReady == StartupSpec => []ReadyTogether
BY StartupInvHolds, PTL DEF StartupInv

(***************************************************************************)
(* handle_sasl_message lets nobody pass who has not proved to know the     *)
(* password, in whatever order messages come: an AuthenticationOk in place *)
(* of the signature, a signature before the challenge, a second challenge. *)
(***************************************************************************)
THEOREM ScramCannotBeSkipped == StartupSpec => []ServerProved
<1>1. StartupInv => ServerProved
  BY DEF StartupInv, Proof, ServerProved
<1>2. QED
  BY <1>1, StartupInvHolds, PTL

\* Nothing but SSLRequest goes out in the clear with SslMode::Require, in the first
\* startup or in the second one over the Unix socket.
THEOREM RequireKeepsSecrets == StartupSpec => []RequireMeansTls
BY StartupInvHolds, PTL DEF StartupInv, Secrecy

\* Once there is a connection new() does not fail.
THEOREM UpgradeNeverFails == StartupSpec => []UpgradeIsOptional
BY StartupInvHolds, PTL DEF StartupInv

(***************************************************************************)
(* Conversions.                                                            *)
(***************************************************************************)
\* The sizes of the integers that are sent.
Sizes == {1, 2, 4, 8}

LEMMA ConstantsNat ==
  /\ ByteValues \in Nat \ {0} /\ UsecsPerSec \in Nat \ {0} /\ SecsPerMinute \in Nat \ {0}
  /\ MinutesPerHour \in Nat \ {0} /\ HoursPerDay \in Nat \ {0} /\ EpochJulianDay \in Nat \ {0}
  /\ MaxDays \in Nat \ {0} /\ MaxSecs \in Nat \ {0} /\ MaxMantissa \in Nat \ {0}
  BY ConversionsAssumption

(***************************************************************************)
(* Division: the quotient and the remainder, and that there is only one.   *)
(***************************************************************************)
LEMMA Division ==
  ASSUME NEW a \in Int, NEW b \in Nat \ {0}
  PROVE  /\ a \div b \in Int /\ a % b \in 0..(b - 1)
         /\ a = (b * (a \div b)) + (a % b)
  OBVIOUS

LEMMA DivisionUnique ==
  ASSUME NEW a \in Int, NEW b \in Nat \ {0}, NEW q \in Int, NEW r \in 0..(b - 1),
         a = (b * q) + r
  PROVE  q = a \div b /\ r = a % b
  OBVIOUS

\* A remainder does not change when the divisor is added or taken away.
LEMMA RemainderShift ==
  ASSUME NEW a \in Int, NEW b \in Nat \ {0}, NEW k \in Int
  PROVE  (a + (b * k)) % b = a % b
<1> DEFINE q == a \div b
           r == a % b
<1>1. q \in Int /\ r \in 0..(b - 1) /\ a = (b * q) + r
  BY Division
<1> HIDE DEF q, r
<1>2. a + (b * k) = (b * (q + k)) + r
  BY <1>1
<1>3. a + (b * k) \in Int /\ q + k \in Int
  BY <1>1
<1>4. r = (a + (b * k)) % b
  BY <1>1, <1>2, <1>3, DivisionUnique
<1> QED BY <1>4 DEF r

-----------------------------------------------------------------------------
LEMMA PowerFacts ==
  /\ Power(1) \in Nat \ {0} /\ Power(2) \in Nat \ {0} /\ Power(4) \in Nat \ {0}
  /\ Power(8) \in Nat \ {0}
  /\ Power(2) = Power(1) * Power(1) /\ Power(4) = Power(2) * Power(2)
  /\ Power(8) = Power(4) * Power(4)
  BY ConstantsNat DEF Power

\* An even number is twice its half.
LEMMA Half ==
  ASSUME NEW P \in Nat \ {0}, P % 2 = 0
  PROVE  P \div 2 \in Nat \ {0} /\ P = 2 * (P \div 2)
  OBVIOUS

\* The square of an even number is even, and its half no smaller than the number.
LEMMA Square ==
  ASSUME NEW P \in Nat \ {0}, P % 2 = 0
  PROVE  (P * P) % 2 = 0 /\ P <= (P * P) \div 2
<1> DEFINE h == P \div 2
<1>1. h \in Nat \ {0} /\ P = 2 * h
  BY Half
<1> HIDE DEF h
<1>2. h * P \in Int /\ P * P = (2 * (h * P)) + 0
  BY <1>1
<1>3. h * P = (P * P) \div 2 /\ 0 = (P * P) % 2
  BY <1>2, DivisionUnique
<1>4. P <= h * P
  BY <1>1
<1> QED BY <1>3, <1>4

LEMMA Widths ==
  /\ \A n \in Sizes : Power(n) \in Nat \ {0} /\ Power(n) % 2 = 0
  /\ Power(1) <= Power(2) \div 2 /\ Power(2) <= Power(4) \div 2 /\ Power(4) <= Power(8) \div 2
<1>1. Power(1) % 2 = 0
  BY WidthAssumption DEF Power
<1>2. Power(2) % 2 = 0 /\ Power(1) <= Power(2) \div 2
  BY <1>1, PowerFacts, Square
<1>3. Power(4) % 2 = 0 /\ Power(2) <= Power(4) \div 2
  BY <1>2, PowerFacts, Square
<1>4. Power(8) % 2 = 0 /\ Power(4) <= Power(8) \div 2
  BY <1>3, PowerFacts, Square
<1> QED BY <1>1, <1>2, <1>3, <1>4, PowerFacts DEF Sizes

\* The half of a power is a number, and the power is twice that.
LEMMA Halves ==
  ASSUME NEW n \in Sizes
  PROVE  /\ Power(n) \in Nat \ {0} /\ Power(n) \div 2 \in Nat \ {0}
         /\ Power(n) = 2 * (Power(n) \div 2)
  BY Widths, Half

(***************************************************************************)
(* to_be_bytes and from_be_bytes: bytes that are those of a number in the  *)
(* range of their size are read back as it, whatever was written.          *)
(***************************************************************************)
LEMMA RoundTrip ==
  ASSUME NEW n \in Sizes, NEW x \in Int, NEW v \in Signed(n), x % Power(n) = v % Power(n)
  PROVE  from_be_bytes(to_be_bytes(x, n), n) = v
<1> DEFINE P == Power(n)
           h == P \div 2
           b == v % P
<1>1. P \in Nat \ {0} /\ h \in Nat \ {0} /\ P = 2 * h
  BY Halves
<1>2. v \in Int /\ -h <= v /\ v < h
  BY <1>1 DEF Signed
<1> HIDE DEF P, h
<1>3. CASE v >= 0
  <2>1. v = (P * 0) + v /\ v \in 0..(P - 1)
    BY <1>1, <1>2, <1>3
  <2>2. b = v
    BY <1>1, <1>2, <2>1, DivisionUnique
  <2>3. ~(2 * v >= P)
    BY <1>1, <1>2
  <2> QED BY <2>2, <2>3 DEF from_be_bytes, to_be_bytes, P
<1>4. CASE v < 0
  <2>1. v = (P * (-1)) + (v + P) /\ v + P \in 0..(P - 1)
    BY <1>1, <1>2, <1>4
  <2>2. b = v + P
    BY <1>1, <1>2, <2>1, DivisionUnique
  <2>3. 2 * (v + P) >= P /\ (v + P) - P = v
    BY <1>1, <1>2
  <2> QED BY <2>2, <2>3 DEF from_be_bytes, to_be_bytes, P
<1> QED BY <1>2, <1>3, <1>4

-----------------------------------------------------------------------------
\* Integers.
\* A number is in the range of a size if it is between minus a half of the power and the half.
LEMMA InSigned ==
  ASSUME NEW n \in Sizes, NEW v \in Int
  PROVE  (v \in Signed(n)) <=> (-(Power(n) \div 2) <= v /\ v < Power(n) \div 2)
<1>1. Power(n) \div 2 \in Nat \ {0}
  BY Halves
<1> QED BY <1>1 DEF Signed

\* What encode does not refuse fits the parameter, also where it casts.
LEMMA EncodableFits ==
  ASSUME NEW T \in DOMAIN IntegerTypes, NEW v \in IntegerTypes[T], NEW oid \in IntegerOids,
         ~Unencodable(T, oid, v)
  PROVE  v \in Signed(Bytes[oid]) /\ Bytes[oid] \in Sizes /\ v \in Int
<1>1. /\ Bytes["INT2"] = 2 /\ Bytes["INT4"] = 4 /\ Bytes["INT8"] = 8
  BY DEF Bytes
<1> DEFINE h1 == Power(1) \div 2
           h2 == Power(2) \div 2
           h4 == Power(4) \div 2
           h8 == Power(8) \div 2
<1>2. /\ h1 \in Nat \ {0} /\ h2 \in Nat \ {0} /\ h4 \in Nat \ {0} /\ h8 \in Nat \ {0}
      /\ Power(1) = 2 * h1 /\ Power(2) = 2 * h2 /\ Power(4) = 2 * h4 /\ Power(8) = 2 * h8
  BY Halves DEF Sizes
<1>3. Power(1) <= h2 /\ Power(2) <= h4 /\ Power(4) <= h8
  BY Widths
<1>4. T \in {"i8", "u8", "i16", "u16", "i32", "u32", "i64", "u64"}
  BY DEF IntegerTypes
<1>5. oid \in {"INT2", "INT4", "INT8"}
  BY DEF IntegerOids
<1> DEFINE Values(t) == CASE t = "i8" -> (-h1)..(h1 - 1)  [] t = "u8" -> 0..(Power(1) - 1)
                         [] t = "i16" -> (-h2)..(h2 - 1) [] t = "u16" -> 0..(Power(2) - 1)
                         [] t = "i32" -> (-h4)..(h4 - 1) [] t = "u32" -> 0..(Power(4) - 1)
                         [] t = "i64" -> (-h8)..(h8 - 1) [] OTHER -> 0..(Power(8) - 1)
<1>6. /\ v \in Int /\ (T = "i8" => (-h1 <= v /\ v < h1)) /\ (T = "u8" => (0 <= v /\ v < Power(1)))
      /\ (T = "i16" => (-h2 <= v /\ v < h2)) /\ (T = "u16" => (0 <= v /\ v < Power(2)))
      /\ (T = "i32" => (-h4 <= v /\ v < h4)) /\ (T = "u32" => (0 <= v /\ v < Power(4)))
      /\ (T = "i64" => (-h8 <= v /\ v < h8)) /\ (T = "u64" => (0 <= v /\ v < Power(8)))
  <2>1. IntegerTypes[T] = Values(T)
    BY <1>4 DEF IntegerTypes, Signed
  <2>2. v \in Values(T)
    BY <2>1
  <2> HIDE DEF h1, h2, h4, h8
  <2> QED BY <2>2, <1>2, <1>4
<1>7. Bytes[oid] \in Sizes
  BY <1>1, <1>5 DEF Sizes
<1>8. CASE oid \in TryFrom[T]
  BY <1>6, <1>7, <1>8 DEF Unencodable
<1>9. CASE oid \notin TryFrom[T]
  <2>1. \/ T \in {"i8", "u8", "i16"} \/ (T \in {"u16", "i32"} /\ oid \in {"INT4", "INT8"})
        \/ (T \in {"u32", "i64"} /\ oid = "INT8")
    BY <1>4, <1>5, <1>9 DEF TryFrom, IntegerOids
  <2> HIDE DEF h1, h2, h4, h8
  <2>2. \/ (oid = "INT2" /\ -h2 <= v /\ v < h2)
        \/ (oid = "INT4" /\ -h4 <= v /\ v < h4)
        \/ (oid = "INT8" /\ -h8 <= v /\ v < h8)
    BY <2>1, <1>2, <1>3, <1>5, <1>6
  <2>3. -(Power(Bytes[oid]) \div 2) <= v /\ v < Power(Bytes[oid]) \div 2
    BY <2>2, <1>1 DEF h2, h4, h8
  <2> QED BY <2>3, <1>6, <1>7, InSigned
<1> QED BY <1>8, <1>9

-----------------------------------------------------------------------------
\* What the server sends is read as the number it is.
LEMMA ReadsColumn ==
  ASSUME NEW n \in Sizes, NEW v \in Signed(n)
  PROVE  v \in Int /\ to_be_bytes(v, n) \in Int /\ from_be_bytes(to_be_bytes(v, n), n) = v
<1>1. v \in Int /\ Power(n) \in Nat \ {0}
  BY Halves DEF Signed
<1>2. from_be_bytes(to_be_bytes(v, n), n) = v
  BY <1>1, RoundTrip
<1> QED BY <1>1, <1>2, Division DEF to_be_bytes

\* An integer that wraps changes by a multiple of the power.
LEMMA Wrapped ==
  ASSUME NEW n \in Sizes, NEW x \in Int
  PROVE  \E k \in Int : from_be_bytes(to_be_bytes(x, n), n) = x + (Power(n) * k)
<1> DEFINE P == Power(n)
           q == x \div P
           b == x % P
<1>1. P \in Nat \ {0}
  BY Halves
<1>2. from_be_bytes(to_be_bytes(x, n), n) \in {b, b - P}
  BY DEF from_be_bytes, to_be_bytes
<1> HIDE DEF P
<1>3. q \in Int /\ b \in Int /\ x = (P * q) + b
  BY <1>1, Division
<1> HIDE DEF q, b
<1>4. b = x + (P * (-q)) /\ b - P = x + (P * ((-q) - 1))
  BY <1>1, <1>3
<1>5. \E k \in Int : from_be_bytes(to_be_bytes(x, n), n) = x + (P * k)
  BY <1>2, <1>3, <1>4
<1> QED BY <1>5 DEF P

\* The division towards zero.
LEMMA TowardsZero ==
  ASSUME NEW a \in Int, NEW b \in Nat \ {0}
  PROVE  /\ Quotient(a, b) \in Int /\ Remainder(a, b) \in Int
         /\ a = (b * Quotient(a, b)) + Remainder(a, b)
         /\ a >= 0 => (Quotient(a, b) = a \div b /\ Remainder(a, b) = a % b)
         /\ a < 0 => (Quotient(a, b) = -((-a) \div b) /\ Remainder(a, b) = -((-a) % b))
<1>1. CASE a >= 0
  <2>1. Quotient(a, b) = a \div b
    BY <1>1 DEF Quotient
  <2>2. a \div b \in Int /\ a % b \in Int /\ a = (b * (a \div b)) + (a % b)
    BY Division
  <2>3. Remainder(a, b) = a - (b * (a \div b))
    BY <2>1 DEF Remainder
  <2>4. Remainder(a, b) = a % b
    BY <2>2, <2>3
  <2> QED BY <1>1, <2>1, <2>2, <2>4
<1>2. CASE a < 0
  <2>1. Quotient(a, b) = -((-a) \div b)
    BY <1>2 DEF Quotient
  <2> DEFINE q == (-a) \div b
             r == (-a) % b
  <2>2. q \in Int /\ r \in Int /\ -a = (b * q) + r
    BY Division
  <2>3. Remainder(a, b) = a - (b * (-q))
    BY <2>1 DEF Remainder
  <2> HIDE DEF q, r
  <2>4. Remainder(a, b) = -r /\ a = (b * (-q)) + (-r) /\ -q \in Int /\ -r \in Int
    BY <2>2, <2>3
  <2> QED BY <1>2, <2>1, <2>4 DEF q, r
<1> QED BY <1>1, <1>2

\* Integers.
LEMMA DecodedInteger ==
  ASSUME NEW oid \in IntegerOids, NEW v \in Signed(Bytes[oid]), NEW T \in DOMAIN Widening,
         NEW r, r = decode_integer(T, to_be_bytes(v, Bytes[oid]), oid)
  PROVE  /\ r.type = T /\ r.is \in {"Ok", "Err"}
         /\ r.is = "Ok" => (r.v = v /\ v \in IntegerTypes[T])
         /\ r.is = "Err" => oid \notin Widening[T]
<1>1. /\ Bytes["INT2"] = 2 /\ Bytes["INT4"] = 4 /\ Bytes["INT8"] = 8
      /\ oid \in {"INT2", "INT4", "INT8"}
  BY DEF Bytes, IntegerOids
<1>2. Bytes[oid] \in Sizes
  BY <1>1 DEF Sizes
<1>3. CASE oid \notin Widening[T]
  BY <1>3 DEF decode_integer, Error
<1>4. CASE oid \in Widening[T]
  <2>1. r.type = T /\ r.is = "Ok" /\ r.v = from_be_bytes(to_be_bytes(v, Bytes[oid]), Bytes[oid])
    BY <1>4 DEF decode_integer, Ok
  <2>2. r.v = v /\ v \in Int
    BY <1>2, <2>1, ReadsColumn
  <2>3. T \in {"i16", "i32", "i64"}
    BY DEF Widening
  <2>4. \/ (T = "i16" /\ oid = "INT2") \/ (T = "i32" /\ oid \in {"INT2", "INT4"}) \/ T = "i64"
    BY <1>4, <2>3 DEF Widening
  <2>5. /\ IntegerTypes["i16"] = Signed(2) /\ IntegerTypes["i32"] = Signed(4)
        /\ IntegerTypes["i64"] = Signed(8)
    BY DEF IntegerTypes
  <2>6. /\ (v \in Signed(2) => v \in Signed(4)) /\ (v \in Signed(4) => v \in Signed(8))
    <3> DEFINE h2 == Power(2) \div 2
               h4 == Power(4) \div 2
               h8 == Power(8) \div 2
    <3>1. /\ h2 \in Nat \ {0} /\ h4 \in Nat \ {0} /\ h8 \in Nat \ {0}
          /\ Power(2) = 2 * h2 /\ Power(4) = 2 * h4
      BY Halves DEF Sizes
    <3>2. Power(2) <= h4 /\ Power(4) <= h8
      BY Widths
    <3>3. Signed(2) = (-h2)..(h2 - 1) /\ Signed(4) = (-h4)..(h4 - 1) /\ Signed(8) = (-h8)..(h8 - 1)
      BY DEF Signed
    <3> HIDE DEF h2, h4, h8
    <3> QED BY <2>2, <3>1, <3>2, <3>3
  <2>7. v \in IntegerTypes[T]
    BY <1>1, <2>4, <2>5, <2>6
  <2> QED BY <1>4, <2>1, <2>2, <2>7
<1> QED BY <1>3, <1>4

\* Dates.
LEMMA DecodedDate ==
  ASSUME NEW v \in Signed(4), NEW r,
         r \in {naive_date(to_be_bytes(v, 4))} \cup time_date(to_be_bytes(v, 4))
  PROVE  /\ r.is \in {"Ok", "Err", "Panic"} /\ r.type \in {"NaiveDate", "Date"}
         /\ r.is = "Ok" => r.v \in Int
         /\ (r.is = "Ok" /\ r.type = "Date") => r.v % Power(4) = v % Power(4)
         /\ r.is = "Err" => Abs(v) > MaxDays
<1>1. v \in Int /\ to_be_bytes(v, 4) \in Int /\ from_be_bytes(to_be_bytes(v, 4), 4) = v
  BY ReadsColumn DEF Sizes
<1>2. MaxDays \in Nat \ {0} /\ EpochJulianDay \in Nat \ {0}
  BY ConstantsNat
<1>3. CASE r = naive_date(to_be_bytes(v, 4))
  <2> DEFINE later   == IF v > 0 THEN v ELSE 0
             earlier == IF -v > 0 THEN -v ELSE 0
  <2>1. r = IF InRange(later) THEN Ok("NaiveDate", later)
            ELSE Checked("NaiveDate", InRange(-earlier), -earlier)
    BY <1>1, <1>3 DEF naive_date
  <2>2. later \in Int /\ -earlier \in Int
    BY <1>1
  <2>3. ~InRange(later) => InRange(-earlier)
    BY <1>1, <1>2 DEF InRange, Abs
  <2> HIDE DEF later, earlier
  <2>4. r.is = "Ok" /\ r.type = "NaiveDate" /\ r.v \in Int
    BY <2>1, <2>2, <2>3 DEF Checked, Ok
  <2> QED BY <2>4
<1>4. CASE r \in time_date(to_be_bytes(v, 4))
  <2> DEFINE julian  == v + EpochJulianDay
             wrapped == from_be_bytes(to_be_bytes(julian, 4), 4)
             days    == wrapped - EpochJulianDay
  <2>1. r = Checked("Date", InRange(days), days) \/ r = Panics("Date")
    BY <1>1, <1>4 DEF time_date
  <2>2. julian \in Int
    BY <1>1, <1>2
  <2>3. PICK k \in Int : wrapped = julian + (Power(4) * k)
    BY <2>2, Wrapped DEF Sizes
  <2>4. Power(4) \in Nat \ {0} /\ Power(4) \div 2 \in Nat \ {0}
    BY Halves DEF Sizes
  <2>5. days = v + (Power(4) * k)
    <3> HIDE DEF wrapped
    <3>1. Power(4) * k \in Int
      BY <2>4
    <3> QED BY <1>1, <1>2, <2>3, <3>1
  <2>6. days % Power(4) = v % Power(4) /\ days \in Int
    BY <1>1, <2>4, <2>5, RemainderShift
  <2>7. ~InRange(days) => Abs(v) > MaxDays
    <3>1. CASE julian \in Signed(4)
      <4>1. wrapped = julian
        BY <3>1, ReadsColumn DEF Sizes
      <4>2. days = v
        <5> HIDE DEF wrapped
        <5> QED BY <1>1, <1>2, <4>1
      <4> QED BY <1>1, <1>2, <4>2 DEF InRange, Abs
    <3>2. CASE julian \notin Signed(4)
      <4> DEFINE h == Power(4) \div 2
      <4>1. -h <= v /\ v < h /\ ~(-h <= julian /\ julian < h)
        BY <1>1, <2>2, <3>2, InSigned DEF Sizes
      <4>2. EpochJulianDay + MaxDays < h
        BY WidthAssumption
      <4>3. h \in Nat \ {0}
        BY <2>4
      <4> HIDE DEF h
      <4>4. v > MaxDays
        BY <1>1, <1>2, <4>1, <4>2, <4>3
      <4> QED BY <1>1, <1>2, <4>4 DEF Abs
    <3> QED BY <3>1, <3>2
  <2> HIDE DEF days
  <2>8. CASE r = Panics("Date")
    BY <2>8 DEF Panics
  <2>9. CASE r = Checked("Date", InRange(days), days)
    BY <2>6, <2>7, <2>9 DEF Checked, Ok, Error
  <2> QED BY <2>1, <2>8, <2>9
<1> QED BY <1>3, <1>4

\* A factor keeps the order.
LEMMA Monotone ==
  ASSUME NEW a \in Int, NEW b \in Int, NEW c \in Nat \ {0}, a <= b
  PROVE  c * a <= c * b
  OBVIOUS

\* Times.
LEMMA DayFits ==
  ASSUME NEW v \in 0..(SecsPerDay * UsecsPerSec)
  PROVE  /\ v \in Nat /\ v <= UsecsPerSec * SecsPerDay /\ v \in Signed(8)
         /\ SecsPerHour \in Nat \ {0} /\ SecsPerDay \in Nat \ {0}
<1>1. SecsPerHour \in Nat \ {0}
  BY ConstantsNat DEF SecsPerHour
<1>2. SecsPerDay \in Nat \ {0}
  BY <1>1, ConstantsNat DEF SecsPerDay
<1>3. SecsPerDay * UsecsPerSec = ((HoursPerDay * MinutesPerHour) * SecsPerMinute) * UsecsPerSec
  BY ConstantsNat DEF SecsPerDay, SecsPerHour
<1>4. SecsPerDay * UsecsPerSec < Power(8) \div 2
  BY <1>3, WidthAssumption
<1>5. UsecsPerSec \in Nat \ {0}
  BY ConstantsNat
<1>6. SecsPerDay * UsecsPerSec \in Nat /\ SecsPerDay * UsecsPerSec = UsecsPerSec * SecsPerDay
  BY <1>2, <1>5
<1>7. v \in Nat /\ v <= UsecsPerSec * SecsPerDay /\ v < Power(8) \div 2
  <2> DEFINE all == SecsPerDay * UsecsPerSec
             h   == Power(8) \div 2
  <2>1. h \in Nat \ {0}
    BY Halves DEF Sizes
  <2>2. all \in Nat /\ all = UsecsPerSec * SecsPerDay /\ all < h /\ v \in 0..all
    BY <1>4, <1>6
  <2> HIDE DEF all, h
  <2>3. v \in Nat /\ v <= all /\ v < h
    BY <2>1, <2>2
  <2> QED BY <2>2, <2>3 DEF h
<1>8. v \in Signed(8)
  <2>1. Power(8) \div 2 \in Nat \ {0}
    BY Halves DEF Sizes
  <2>2. -(Power(8) \div 2) <= v
    BY <1>7, <2>1
  <2> QED BY <1>7, <2>2, InSigned DEF Sizes
<1> QED BY <1>1, <1>2, <1>7, <1>8

\* Hours, minutes, seconds and a part of a second, in two ways.
LEMMA MixedRadix ==
  ASSUME NEW h \in Int, NEW m \in Int, NEW s \in Int, NEW p \in Int,
         NEW secs \in Int, NEW mins \in Int, NEW usecs \in Int
  PROVE  ((((h * mins) + m) * secs) + s) * usecs + p
           = (((((secs * mins) * usecs) * h) + ((secs * usecs) * m)) + (usecs * s)) + p
  OBVIOUS

LEMMA DecodedTime ==
  ASSUME NEW v \in 0..(SecsPerDay * UsecsPerSec), NEW r,
         r \in {naive_time(to_be_bytes(v, 8)), time_time(to_be_bytes(v, 8))}
  PROVE  /\ r.is \in {"Ok", "Err"} /\ r.type \in {"NaiveTime", "Time"}
         /\ r.is = "Ok" => TimeOfDay(r) = v
         /\ r.is = "Err" => v = SecsPerDay * UsecsPerSec
<1>1. /\ v \in Nat /\ v \in Int /\ v >= 0 /\ v <= UsecsPerSec * SecsPerDay /\ v \in Signed(8)
      /\ SecsPerHour \in Nat \ {0} /\ SecsPerDay \in Nat \ {0}
  BY DayFits
<1>2. from_be_bytes(to_be_bytes(v, 8), 8) = v
  BY <1>1, ReadsColumn DEF Sizes
<1>3. /\ UsecsPerSec \in Nat \ {0} /\ SecsPerMinute \in Nat \ {0} /\ MinutesPerHour \in Nat \ {0}
      /\ HoursPerDay \in Nat \ {0}
  BY ConstantsNat
<1>4. UsecsPerSec * SecsPerDay = SecsPerDay * UsecsPerSec
  BY <1>1, <1>3
<1>5. CASE r = naive_time(to_be_bytes(v, 8))
  <2> DEFINE secs == Quotient(v, UsecsPerSec)
             part == Remainder(v, UsecsPerSec)
  <2>1. r = Checked("NaiveTime", secs \in 0..(SecsPerDay - 1), <<secs, part>>)
    BY <1>2, <1>5 DEF naive_time
  <2>2. secs = v \div UsecsPerSec /\ part = v % UsecsPerSec
    BY <1>1, <1>3, TowardsZero
  <2>3. secs \in Int /\ part \in 0..(UsecsPerSec - 1) /\ v = (UsecsPerSec * secs) + part
    BY <1>1, <1>3, <2>2, Division
  <2> HIDE DEF secs, part
  <2>4. secs >= 0
    BY <1>1, <1>3, <2>3
  <2>5. CASE secs \in 0..(SecsPerDay - 1)
    <3>1. r.type = "NaiveTime" /\ r.is = "Ok" /\ r.v[1] = secs /\ r.v[2] = part
      BY <2>1, <2>5 DEF Checked, Ok
    <3>2. (secs * UsecsPerSec) + part = v
      BY <1>3, <2>3
    <3> QED BY <3>1, <3>2 DEF TimeOfDay
  <2>6. CASE secs \notin 0..(SecsPerDay - 1)
    <3>1. SecsPerDay <= secs
      BY <1>1, <2>3, <2>4, <2>6
    <3>2. UsecsPerSec * SecsPerDay <= UsecsPerSec * secs
      BY <1>1, <1>3, <2>3, <3>1, Monotone
    <3>3. v = UsecsPerSec * SecsPerDay
      BY <1>1, <1>3, <2>3, <3>2
    <3>4. r.type = "NaiveTime" /\ r.is = "Err"
      BY <2>1, <2>6 DEF Checked, Error
    <3> QED BY <1>4, <3>3, <3>4
  <2> QED BY <2>5, <2>6
<1>6. CASE r = time_time(to_be_bytes(v, 8))
  <2> DEFINE hour      == SecsPerHour * UsecsPerSec
             minute    == SecsPerMinute * UsecsPerSec
             of_hour   == Remainder(v, hour)
             of_minute == Remainder(of_hour, minute)
             hours     == Quotient(v, hour)
             minutes   == Quotient(of_hour, minute)
             secs      == Quotient(of_minute, UsecsPerSec)
             part      == Remainder(of_minute, UsecsPerSec)
  <2>1. r = Checked("Time", hours \in 0..(HoursPerDay - 1), <<hours, minutes, secs, part>>)
    BY <1>2, <1>6 DEF time_time
  <2>2. hour \in Nat \ {0} /\ minute \in Nat \ {0}
    BY <1>1, <1>3
  <2>3. hour = (SecsPerMinute * MinutesPerHour) * UsecsPerSec
    BY DEF SecsPerHour
  <2>4. minute = SecsPerMinute * UsecsPerSec
    OBVIOUS
  <2> HIDE DEF hour, minute
  <2>5. /\ hours = v \div hour /\ of_hour = v % hour /\ hours \in Int
        /\ of_hour \in 0..(hour - 1) /\ v = (hour * hours) + of_hour
    BY <1>1, <2>2, TowardsZero, Division
  <2> HIDE DEF hours, of_hour
  <2>6. of_hour \in Int /\ of_hour >= 0
    BY <2>2, <2>5
  <2>7. /\ minutes \in Int /\ of_minute = of_hour % minute
        /\ of_hour = (minute * minutes) + of_minute /\ of_minute \in 0..(minute - 1)
    BY <2>2, <2>6, TowardsZero, Division
  <2> HIDE DEF minutes, of_minute
  <2>8. secs \in Int /\ part \in Int /\ of_minute = (UsecsPerSec * secs) + part
    <3>1. of_minute \in Int
      BY <2>2, <2>7
    <3> QED BY <1>3, <3>1, TowardsZero
  <2> HIDE DEF secs, part
  <2>9. hours >= 0
    BY <1>1, <2>2, <2>5
  <2>10. ((((hours * MinutesPerHour) + minutes) * SecsPerMinute) + secs) * UsecsPerSec + part = v
    <3>1. /\ hours \in Int /\ minutes \in Int /\ secs \in Int /\ part \in Int
          /\ SecsPerMinute \in Int /\ MinutesPerHour \in Int /\ UsecsPerSec \in Int
      BY <1>3, <2>5, <2>7, <2>8
    <3>2. v = (((((SecsPerMinute * MinutesPerHour) * UsecsPerSec) * hours)
                + ((SecsPerMinute * UsecsPerSec) * minutes)) + (UsecsPerSec * secs)) + part
      <4>1. hour * hours \in Int /\ minute * minutes \in Int /\ UsecsPerSec * secs \in Int
        BY <2>2, <3>1
      <4>2. v = (((hour * hours) + (minute * minutes)) + (UsecsPerSec * secs)) + part
        <5> DEFINE a == hour * hours
                   b == minute * minutes
                   c == UsecsPerSec * secs
        <5>1. of_hour \in Int /\ of_minute \in Int
          BY <2>2, <2>6, <2>7
        <5>2. v = a + of_hour /\ of_hour = b + of_minute /\ of_minute = c + part
          BY <2>5, <2>7, <2>8
        <5>3. a \in Int /\ b \in Int /\ c \in Int
          BY <4>1
        <5> HIDE DEF a, b, c
        <5>4. v = ((a + b) + c) + part
          BY <3>1, <5>1, <5>2, <5>3
        <5> QED BY <5>4 DEF a, b, c
      <4> QED BY <2>3, <2>4, <4>2
    <3> QED BY <3>1, <3>2, MixedRadix
  <2>11. CASE hours \in 0..(HoursPerDay - 1)
    <3>1. /\ r.type = "Time" /\ r.is = "Ok" /\ r.v[1] = hours /\ r.v[2] = minutes /\ r.v[3] = secs
          /\ r.v[4] = part
      BY <2>1, <2>11 DEF Checked, Ok
    <3> QED BY <2>10, <3>1 DEF TimeOfDay
  <2>12. CASE hours \notin 0..(HoursPerDay - 1)
    <3>1. HoursPerDay <= hours
      BY <1>3, <2>5, <2>9, <2>12
    <3>2. hour * HoursPerDay <= hour * hours
      BY <1>3, <2>2, <2>5, <3>1, Monotone
    <3>3. hour * HoursPerDay = UsecsPerSec * SecsPerDay
      BY <1>3, <2>3 DEF SecsPerDay, SecsPerHour
    <3>4. v = UsecsPerSec * SecsPerDay
      BY <1>1, <1>3, <2>2, <2>5, <3>2, <3>3
    <3>5. r.type = "Time" /\ r.is = "Err"
      BY <2>1, <2>12 DEF Checked, Error
    <3> QED BY <1>4, <3>4, <3>5
  <2> QED BY <2>11, <2>12
<1> QED BY <1>5, <1>6

\* Timestamps.
\* A second and a fraction of a number of microseconds, counted from a second.
LEMMA SecondAt ==
  ASSUME NEW secs \in Int, NEW u \in Int
  PROVE  /\ Second(secs, u)[1] = secs + (u \div UsecsPerSec)
         /\ Second(secs, u)[2] \in 0..(UsecsPerSec - 1)
         /\ Second(secs, u)[1] \in Int
         /\ (Second(secs, u)[1] * UsecsPerSec) + Second(secs, u)[2] = (secs * UsecsPerSec) + u
<1> DEFINE q == u \div UsecsPerSec
           r == u % UsecsPerSec
<1>1. UsecsPerSec \in Nat \ {0}
  BY ConstantsNat
<1>2. q \in Int /\ r \in 0..(UsecsPerSec - 1) /\ u = (UsecsPerSec * q) + r
  BY <1>1, Division
<1>3. Second(secs, u)[1] = secs + q /\ Second(secs, u)[2] = r
  BY DEF Second
<1> HIDE DEF q, r
<1>4. ((secs + q) * UsecsPerSec) + r = (secs * UsecsPerSec) + u
  BY <1>1, <1>2
<1> QED BY <1>2, <1>3, <1>4 DEF q

\* What chrono makes of a number of microseconds: the instant, and a second that
\* is at most one before the one it cuts off to.
LEMMA ChronoInstant ==
  ASSUME NEW v \in Int, NEW secs, secs = Quotient(v, UsecsPerSec), NEW at,
         at = AddFraction(secs, v, Abs(Remainder(v, UsecsPerSec)))
  PROVE  /\ secs \in Int /\ at[1] \in Int /\ at[2] \in 0..(UsecsPerSec - 1)
         /\ (at[1] * UsecsPerSec) + at[2] = v
         /\ v >= 0 => (secs >= 0 /\ at[1] = secs)
         /\ v < 0 => (secs <= 0 /\ at[1] \in {secs - 1, secs})
<1> DEFINE U == UsecsPerSec
           part == Remainder(v, U)
<1>1. U \in Nat \ {0}
  BY ConstantsNat
<1> HIDE DEF U
<1>2. secs \in Int /\ part \in Int /\ v = (U * secs) + part
  BY <1>1, TowardsZero DEF U
<1>3. CASE v >= 0
  <2>1. secs = v \div U /\ part = v % U
    BY <1>1, <1>3, TowardsZero DEF U
  <2>2. part \in 0..(U - 1)
    BY <1>1, <2>1, Division
  <2> HIDE DEF part
  <2>3. Abs(part) = part /\ secs >= 0
    BY <1>1, <1>2, <1>3, <2>2 DEF Abs
  <2>4. at = <<secs, part>>
    BY <1>3, <2>3 DEF AddFraction, part, U
  <2>5. at[1] = secs /\ at[2] = part
    BY <2>4
  <2>6. (secs * U) + part = v
    BY <1>1, <1>2
  <2> QED BY <1>2, <1>3, <2>2, <2>3, <2>5, <2>6 DEF U
<1>4. CASE v < 0
  <2> DEFINE q == (-v) \div U
             r == (-v) % U
  <2>1. secs = -q /\ part = -r
    BY <1>1, <1>4, TowardsZero DEF U
  <2>2. q \in Int /\ r \in 0..(U - 1) /\ -v = (U * q) + r
    BY <1>1, Division
  <2> HIDE DEF part, q, r
  <2>3. Abs(part) = r /\ -r \in Int
    BY <1>1, <2>1, <2>2 DEF Abs
  <2>4. q >= 0
    BY <1>1, <1>4, <2>2
  <2>5. at = Second(secs, -r)
    BY <1>4, <2>3 DEF AddFraction, part, U
  <2>6. /\ at[1] = secs + ((-r) \div U) /\ at[1] \in Int /\ at[2] \in 0..(U - 1)
        /\ (at[1] * U) + at[2] = (secs * U) + (-r)
    BY <1>2, <2>3, <2>5, SecondAt DEF U
  <2>7. (secs * U) + (-r) = v
    BY <1>1, <1>2, <2>1
  <2>8. (-r) \div U \in {-1, 0}
    <3>1. CASE r = 0
      <4>1. -r = (U * 0) + 0 /\ 0 \in 0..(U - 1)
        BY <1>1, <3>1
      <4> QED BY <1>1, <2>3, <4>1, DivisionUnique
    <3>2. CASE r # 0
      <4>1. -r = (U * (-1)) + (U - r) /\ U - r \in 0..(U - 1)
        BY <1>1, <2>2, <3>2
      <4> QED BY <1>1, <2>3, <4>1, DivisionUnique
    <3> QED BY <3>1, <3>2
  <2>9. secs <= 0 /\ at[1] \in {secs - 1, secs}
    BY <1>2, <2>1, <2>2, <2>4, <2>6, <2>8
  <2> QED BY <1>2, <1>4, <2>6, <2>7, <2>9 DEF U
<1> QED BY <1>3, <1>4

LEMMA DecodedTimestamp ==
  ASSUME NEW v \in Signed(8), NEW T, NEW r,
         r \in {naive_date_time(T, to_be_bytes(v, 8)), time_date_time(T, to_be_bytes(v, 8))}
  PROVE  /\ r.is \in {"Ok", "Err"} /\ r.type = T
         /\ r.is = "Ok" => (Instant(r) = v /\ r.v[2] \in 0..(UsecsPerSec - 1))
         /\ r.is = "Err" => Abs(v) > (MaxSecs - 1) * UsecsPerSec
<1>1. v \in Int /\ from_be_bytes(to_be_bytes(v, 8), 8) = v
  BY ReadsColumn DEF Sizes
<1>2. UsecsPerSec \in Nat \ {0} /\ MaxSecs \in Nat \ {0}
  BY ConstantsNat
<1> DEFINE cut == Quotient(v, UsecsPerSec)
           chrono == AddFraction(cut, v, Abs(Remainder(v, UsecsPerSec)))
           time   == Second(0, v)
<1>3. \/ r = Checked(T, InSeconds(<<cut, 0>>) /\ InSeconds(chrono), chrono)
      \/ r = Checked(T, InSeconds(time), time)
  BY <1>1 DEF naive_date_time, time_date_time
<1>4. /\ cut \in Int /\ chrono[1] \in Int /\ chrono[2] \in 0..(UsecsPerSec - 1)
      /\ (chrono[1] * UsecsPerSec) + chrono[2] = v
      /\ v >= 0 => (cut >= 0 /\ chrono[1] = cut)
      /\ v < 0 => (cut <= 0 /\ chrono[1] \in {cut - 1, cut})
  BY <1>1, ChronoInstant
<1>5. /\ time[1] \in Int /\ time[2] \in 0..(UsecsPerSec - 1)
      /\ (time[1] * UsecsPerSec) + time[2] = v
  <2>1. 0 \in Int /\ 0 * UsecsPerSec = 0
    BY <1>2
  <2> QED BY <1>1, <2>1, SecondAt
<1> HIDE DEF cut, chrono, time
\* An instant whose second is out of range is far from 2000-01-01.
<1>6. ASSUME NEW at, at[1] \in Int, at[2] \in 0..(UsecsPerSec - 1),
             (at[1] * UsecsPerSec) + at[2] = v, ~InSeconds(at)
      PROVE  Abs(v) > (MaxSecs - 1) * UsecsPerSec
  <2>1. at[1] > MaxSecs \/ -at[1] > MaxSecs
    BY <1>2, <1>6 DEF InSeconds, Abs
  <2>2. CASE at[1] > MaxSecs
    <3>1. UsecsPerSec * MaxSecs <= UsecsPerSec * at[1]
      BY <1>2, <1>6, <2>2, Monotone
    <3>2. v > (MaxSecs - 1) * UsecsPerSec /\ v >= 0
      BY <1>1, <1>2, <1>6, <3>1
    <3> QED BY <1>1, <3>2 DEF Abs
  <2>3. CASE -at[1] > MaxSecs
    <3>1. UsecsPerSec * MaxSecs <= UsecsPerSec * ((-at[1]) - 1)
      BY <1>2, <1>6, <2>3, Monotone
    <3>2. -v > (MaxSecs - 1) * UsecsPerSec /\ v < 0
      BY <1>1, <1>2, <1>6, <3>1
    <3> QED BY <1>1, <3>2 DEF Abs
  <2> QED BY <2>1, <2>2, <2>3
<1>7. ~InSeconds(<<cut, 0>>) => Abs(v) > (MaxSecs - 1) * UsecsPerSec
  <2> SUFFICES ASSUME ~InSeconds(<<cut, 0>>)
               PROVE  Abs(v) > (MaxSecs - 1) * UsecsPerSec
    OBVIOUS
  <2>1. ~(Abs(cut) <= MaxSecs)
    BY DEF InSeconds
  <2>2. CASE chrono[1] = cut
    <3>1. ~InSeconds(chrono)
      BY <2>1, <2>2 DEF InSeconds
    <3> QED BY <1>4, <1>6, <3>1
  <2>3. CASE chrono[1] = cut - 1 /\ v < 0
    <3>1. ~(Abs(cut - 1) <= MaxSecs)
      BY <1>2, <1>4, <2>1, <2>3 DEF Abs
    <3>2. ~InSeconds(chrono)
      BY <2>3, <3>1 DEF InSeconds
    <3> QED BY <1>4, <1>6, <3>2
  <2>4. v >= 0 \/ v < 0
    BY <1>1
  <2> QED BY <1>4, <2>2, <2>3, <2>4
<1>8. ~InSeconds(chrono) => Abs(v) > (MaxSecs - 1) * UsecsPerSec
  BY <1>4, <1>6
<1>9. ~InSeconds(time) => Abs(v) > (MaxSecs - 1) * UsecsPerSec
  BY <1>5, <1>6
<1>10. CASE r = Checked(T, InSeconds(<<cut, 0>>) /\ InSeconds(chrono), chrono)
  <2>1. CASE InSeconds(<<cut, 0>>) /\ InSeconds(chrono)
    <3>1. r.type = T /\ r.is = "Ok" /\ r.v = chrono
      BY <1>10, <2>1 DEF Checked, Ok
    <3> QED BY <1>4, <3>1 DEF Instant
  <2>2. CASE ~(InSeconds(<<cut, 0>>) /\ InSeconds(chrono))
    <3>1. r.type = T /\ r.is = "Err"
      BY <1>10, <2>2 DEF Checked, Error
    <3> QED BY <1>7, <1>8, <2>2, <3>1
  <2> QED BY <2>1, <2>2
<1>11. CASE r = Checked(T, InSeconds(time), time)
  <2>1. CASE InSeconds(time)
    <3>1. r.type = T /\ r.is = "Ok" /\ r.v = time
      BY <1>11, <2>1 DEF Checked, Ok
    <3> QED BY <1>5, <3>1 DEF Instant
  <2>2. CASE ~InSeconds(time)
    <3>1. r.type = T /\ r.is = "Err"
      BY <1>11, <2>2 DEF Checked, Error
    <3> QED BY <1>9, <2>2, <3>1
  <2> QED BY <2>1, <2>2
<1> QED BY <1>3, <1>10, <1>11

\* Numerics.
LEMMA DecodedNumeric ==
  ASSUME NEW n, NEW r \in decimal(n)
  PROVE  r.type = "Decimal" /\ r.is \in {"Ok", "Err", "Panic"}
<1>1. \A m, e : /\ Scaled(m, e, "Decimal").type = "Decimal"
                /\ Scaled(m, e, "Decimal").is \in {"Ok", "Err"}
  BY DEF Scaled, Checked, Ok, Error
<1>2. \A d, x : (x.type = "Decimal" /\ x.is \in {"Ok", "Err"})
                  => (RoundTo(d, x).type = "Decimal" /\ RoundTo(d, x).is \in {"Ok", "Err"})
  BY DEF RoundTo, Ok
<1>3. \E m, e : r \in {Error("Decimal"), Ok("Decimal", <<0, 0>>), Panics("Decimal"),
                       RoundTo(n.dscale, Scaled(m, e, "Decimal"))}
  BY DEF decimal
<1>4. QED
  BY <1>1, <1>2, <1>3 DEF Error, Ok, Panics

-----------------------------------------------------------------------------
(***************************************************************************)
(* The inductive invariant of a value's way: what the server sent, what    *)
(* the Rust value is (made by the program, or one of those the column      *)
(* decodes to), that a parameter is what encode returns for some target,   *)
(* and that the server stored what it reads of it.                         *)
(***************************************************************************)
ColumnInv ==
  \/ column = Nothing
  \/ column.oid \in IntegerOids /\ column.v \in Signed(Bytes[column.oid])
  \/ column.oid = "DATE" /\ column.v \in Signed(4)
  \/ column.oid = "TIME" /\ column.v \in 0..(SecsPerDay * UsecsPerSec)
  \/ column.oid \in {"TIMESTAMP", "TIMESTAMPTZ"} /\ column.v \in Signed(8)
  \/ column.oid = "NUMERIC"

RustInv ==
  \/ rust = NotYet
  \/ /\ column = Nothing
     /\ rust.is = "Ok" /\ rust.type \in DOMAIN IntegerTypes /\ rust.v \in IntegerTypes[rust.type]
  \/ column # Nothing /\ rust \in Decoded

ParamInv ==
  \/ param = NotYet
  \/ rust.is = "Ok" /\ rust.type # "Decimal" /\ \E oid \in DOMAIN Bytes : param = Encoded(oid)

StoredInv ==
  \/ stored = Nothing
  \/ /\ param.is = "Ok"
     /\ stored = [oid |-> param.type, v |-> from_be_bytes(param.v, Bytes[param.type])]

ConvInv == ColumnInv /\ RustInv /\ ParamInv /\ StoredInv

-----------------------------------------------------------------------------
\* The types of the Rust values are told apart by name.
LEMMA TypeNames ==
  /\ DOMAIN IntegerTypes = {"i8", "u8", "i16", "u16", "i32", "u32", "i64", "u64"}
  /\ DOMAIN Widening = {"i16", "i32", "i64"}
  /\ TimestampTypes = {"NaiveDateTime", "DateTimeUtc", "PrimitiveDateTime", "OffsetDateTime"}
  /\ IntegerOids = {"INT2", "INT4", "INT8"}
  BY DEF IntegerTypes, Widening, TimestampTypes, ChronoTimestamps, IntegerOids

\* What the Rust value is, for each type of column.
LEMMA FromColumn ==
  ASSUME ColumnInv, RustInv, column # Nothing, rust # NotYet
  PROVE  /\ column.oid \in IntegerOids =>
              /\ rust.type \in DOMAIN Widening
              /\ rust.is = "Ok" => (rust.v = column.v /\ rust.v \in IntegerTypes[rust.type])
              /\ rust.is = "Err" => column.oid \notin Widening[rust.type]
         /\ column.oid = "DATE" =>
              /\ rust.type \in {"NaiveDate", "Date"} /\ column.v \in Signed(4)
              /\ rust.is = "Ok" => rust.v \in Int
              /\ (rust.is = "Ok" /\ rust.type = "Date")
                   => rust.v % Power(4) = column.v % Power(4)
              /\ rust.is = "Err" => Abs(column.v) > MaxDays
         /\ column.oid = "TIME" =>
              /\ rust.type \in {"NaiveTime", "Time"} /\ column.v \in Signed(8)
              /\ rust.is = "Ok" => TimeOfDay(rust) = column.v
              /\ rust.is = "Err" => column.v = SecsPerDay * UsecsPerSec
         /\ column.oid \in {"TIMESTAMP", "TIMESTAMPTZ"} =>
              /\ rust.type \in TimestampTypes /\ column.v \in Signed(8)
              /\ rust.is = "Ok" => (Instant(rust) = column.v /\ rust.v[2] \in 0..(UsecsPerSec - 1))
              /\ rust.is = "Err" => Abs(column.v) > (MaxSecs - 1) * UsecsPerSec
         /\ column.oid = "NUMERIC" => rust.type = "Decimal"
         /\ column.oid \in IntegerOids \cup {"DATE", "TIME", "TIMESTAMP", "TIMESTAMPTZ", "NUMERIC"}
<1>1. rust \in Decoded
  BY DEF RustInv
<1>2. column.oid \in IntegerOids \cup {"DATE", "TIME", "TIMESTAMP", "TIMESTAMPTZ", "NUMERIC"}
  BY DEF ColumnInv
<1>3. CASE column.oid \in IntegerOids
  <2>1. column.v \in Signed(Bytes[column.oid])
    BY <1>3 DEF ColumnInv, IntegerOids
  <2>2. PICK T \in DOMAIN Widening : rust = decode_integer(T, ColumnBytes, column.oid)
    BY <1>1, <1>3, TypeNames DEF Decoded
  <2>3. rust = decode_integer(T, to_be_bytes(column.v, Bytes[column.oid]), column.oid)
    BY <2>2 DEF ColumnBytes
  <2>4. /\ rust.type = T
        /\ rust.is = "Ok" => (rust.v = column.v /\ column.v \in IntegerTypes[T])
        /\ rust.is = "Err" => column.oid \notin Widening[T]
    BY <1>3, <2>1, <2>3, DecodedInteger
  <2>5. column.oid \notin {"DATE", "TIME", "TIMESTAMP", "TIMESTAMPTZ", "NUMERIC"}
    BY <1>3, TypeNames
  <2> QED BY <1>2, <1>3, <2>4, <2>5
<1>4. CASE column.oid = "DATE"
  <2>1. column.v \in Signed(4) /\ ColumnBytes = to_be_bytes(column.v, 4)
    BY <1>4 DEF ColumnInv, IntegerOids, ColumnBytes, Bytes
  <2>2. rust \in {naive_date(ColumnBytes)} \cup time_date(ColumnBytes)
    BY <1>1, <1>4, TypeNames DEF Decoded
  <2>3. /\ rust.type \in {"NaiveDate", "Date"}
        /\ rust.is = "Ok" => rust.v \in Int
        /\ (rust.is = "Ok" /\ rust.type = "Date") => rust.v % Power(4) = column.v % Power(4)
        /\ rust.is = "Err" => Abs(column.v) > MaxDays
    BY <2>1, <2>2, DecodedDate
  <2> QED BY <1>2, <1>4, <2>1, <2>3, TypeNames
<1>5. CASE column.oid = "TIME"
  <2>1. column.v \in 0..(SecsPerDay * UsecsPerSec) /\ ColumnBytes = to_be_bytes(column.v, 8)
    BY <1>5 DEF ColumnInv, IntegerOids, ColumnBytes, Bytes
  <2>2. rust \in {naive_time(ColumnBytes), time_time(ColumnBytes)}
    BY <1>1, <1>5, TypeNames DEF Decoded
  <2>3. /\ rust.type \in {"NaiveTime", "Time"}
        /\ rust.is = "Ok" => TimeOfDay(rust) = column.v
        /\ rust.is = "Err" => column.v = SecsPerDay * UsecsPerSec
    BY <2>1, <2>2, DecodedTime
  <2>4. column.v \in Signed(8)
    BY <2>1, DayFits
  <2> QED BY <1>2, <1>5, <2>3, <2>4, TypeNames
<1>6. CASE column.oid \in {"TIMESTAMP", "TIMESTAMPTZ"}
  <2>1. column.v \in Signed(8) /\ ColumnBytes = to_be_bytes(column.v, 8)
    BY <1>6 DEF ColumnInv, IntegerOids, ColumnBytes, Bytes
  <2>2. PICK T \in TimestampTypes :
          rust \in {naive_date_time(T, ColumnBytes), time_date_time(T, ColumnBytes)}
    BY <1>1, <1>6, TypeNames DEF Decoded, TimestampTypes, ChronoTimestamps
  <2>3. /\ rust.type = T
        /\ rust.is = "Ok" => (Instant(rust) = column.v /\ rust.v[2] \in 0..(UsecsPerSec - 1))
        /\ rust.is = "Err" => Abs(column.v) > (MaxSecs - 1) * UsecsPerSec
    BY <2>1, <2>2, DecodedTimestamp
  <2> QED BY <1>2, <1>6, <2>1, <2>3, TypeNames
<1>7. CASE column.oid = "NUMERIC"
  <2>1. rust \in decimal(column.v)
    BY <1>1, <1>7, TypeNames DEF Decoded
  <2>2. rust.type = "Decimal"
    BY <2>1, DecodedNumeric
  <2> QED BY <1>2, <1>7, <2>2, TypeNames
<1> QED BY <1>2, <1>3, <1>4, <1>5, <1>6, <1>7

\* What the server stores of an integer is that integer.
LEMMA StoredInteger ==
  ASSUME ParamInv, StoredInv, stored # Nothing, rust.is = "Ok",
         rust.type \in DOMAIN IntegerTypes, rust.v \in IntegerTypes[rust.type]
  PROVE  stored.v = rust.v
<1>1. /\ param.is = "Ok"
      /\ stored = [oid |-> param.type, v |-> from_be_bytes(param.v, Bytes[param.type])]
  BY DEF StoredInv
<1>2. param # NotYet
  BY <1>1 DEF NotYet
<1>3. PICK oid \in DOMAIN Bytes : param = Encoded(oid)
  BY <1>2 DEF ParamInv
<1>4. oid \in IntegerOids /\ param = encode_integer(rust.type, rust.v, oid)
  <2>1. /\ rust.type \notin {"NaiveDate", "Date", "NaiveTime", "Time"}
        /\ rust.type \notin TimestampTypes
    BY TypeNames
  <2>2. oid \notin IntegerOids => param = Error(rust.type)
    BY <1>3, <2>1 DEF Encoded
  <2>3. oid \in IntegerOids
    BY <1>1, <2>2 DEF Error
  <2> QED BY <1>3, <2>1, <2>3, TypeNames DEF Encoded
<1>5. ~Unencodable(rust.type, oid, rust.v)
  BY <1>1, <1>4 DEF encode_integer, Error
<1>6. param = Ok(oid, to_be_bytes(rust.v, Bytes[oid]))
  BY <1>4, <1>5 DEF encode_integer
<1>7. rust.v \in Signed(Bytes[oid]) /\ Bytes[oid] \in Sizes
  BY <1>4, <1>5, EncodableFits
<1>8. stored.v = from_be_bytes(to_be_bytes(rust.v, Bytes[oid]), Bytes[oid])
  BY <1>1, <1>6 DEF Ok
<1> QED BY <1>7, <1>8, ReadsColumn

\* What is stored of a date, a time or a timestamp is what is read of its bytes.
LEMMA StoredOther ==
  ASSUME ParamInv, StoredInv, stored # Nothing, rust.type \notin DOMAIN IntegerTypes
  PROVE  /\ rust.type \in {"NaiveDate", "Date"} =>
              stored.v = from_be_bytes(to_be_bytes(rust.v, 4), 4)
         /\ rust.type \in {"NaiveTime", "Time"} =>
              stored.v = from_be_bytes(to_be_bytes(TimeOfDay(rust), 8), 8)
         /\ rust.type \in TimestampTypes =>
              stored.v = from_be_bytes(to_be_bytes(Instant(rust), 8), 8)
         /\ rust.type # "Decimal"
<1>1. /\ param.is = "Ok"
      /\ stored = [oid |-> param.type, v |-> from_be_bytes(param.v, Bytes[param.type])]
  BY DEF StoredInv
<1>2. param # NotYet
  BY <1>1 DEF NotYet
<1>3. PICK oid \in DOMAIN Bytes : param = Encoded(oid)
  BY <1>2 DEF ParamInv
<1>4. rust.type # "Decimal"
  BY <1>2 DEF ParamInv
<1>5. param # Error(rust.type)
  BY <1>1 DEF Error
<1>6. /\ Bytes["DATE"] = 4 /\ Bytes["TIME"] = 8 /\ Bytes["TIMESTAMP"] = 8
      /\ Bytes["TIMESTAMPTZ"] = 8
  BY DEF Bytes
<1>7. CASE rust.type \in {"NaiveDate", "Date"}
  <2>1. oid = "DATE" /\ param = Ok(oid, to_be_bytes(rust.v, 4))
    BY <1>3, <1>5, <1>7, TypeNames DEF Encoded
  <2> QED BY <1>1, <1>4, <1>6, <1>7, <2>1, TypeNames DEF Ok
<1>8. CASE rust.type \in {"NaiveTime", "Time"}
  <2>1. oid = "TIME" /\ param = Ok(oid, to_be_bytes(TimeOfDay(rust), 8))
    BY <1>3, <1>5, <1>8, TypeNames DEF Encoded
  <2> QED BY <1>1, <1>4, <1>6, <1>8, <2>1, TypeNames DEF Ok
<1>9. CASE rust.type \in TimestampTypes
  <2>1. oid \in {"TIMESTAMP", "TIMESTAMPTZ"} /\ param = Ok(oid, to_be_bytes(Instant(rust), 8))
    BY <1>3, <1>5, <1>9, TypeNames DEF Encoded
  <2> QED BY <1>1, <1>4, <1>6, <1>9, <2>1, TypeNames DEF Ok
<1> QED BY <1>4, <1>7, <1>8, <1>9

LEMMA ConvInvInductive == ConvSpec => []ConvInv
<1>1. ConvInit => ConvInv
  BY DEF ConvInit, ConvInv, ColumnInv, RustInv, ParamInv, StoredInv
<1>2. ConvInv /\ [ConvNext]_convvars => ConvInv'
  <2> SUFFICES ASSUME ConvInv, [ConvNext]_convvars
               PROVE  ConvInv'
    OBVIOUS
  <2> USE DEF ConvInv
  <2>a. column' = column => (Decoded' = Decoded /\ (ColumnInv' <=> ColumnInv))
    BY DEF Decoded, ColumnBytes, ColumnInv
  <2>b. rust' = rust => \A oid : Encoded(oid)' = Encoded(oid)
    BY DEF Encoded
  <2>c. (rust = NotYet => param = NotYet) /\ (param = NotYet => stored = Nothing)
    BY DEF ParamInv, StoredInv, NotYet
  <2>1. CASE Sends
    <3>1. UNCHANGED <<rust, param, stored>> /\ rust = NotYet /\ param = NotYet /\ stored = Nothing
      BY <2>1, <2>c DEF Sends
    <3>2. ColumnInv'
      BY <2>1 DEF Sends, SendsInteger, SendsDate, SendsTime, SendsTimestamp, SendsNumeric, ColumnInv
    <3> QED BY <3>1, <3>2 DEF RustInv, ParamInv, StoredInv
  <2>2. CASE Makes
    <3>1. /\ UNCHANGED <<column, param, stored>> /\ column = Nothing
          /\ param = NotYet /\ stored = Nothing
      BY <2>2, <2>c DEF Makes
    <3>2. PICK T \in DOMAIN IntegerTypes : \E v \in IntegerTypes[T] : rust' = Ok(T, v)
      BY <2>2 DEF Makes
    <3>3. RustInv'
      BY <3>1, <3>2 DEF RustInv, Ok
    <3> QED BY <2>a, <3>1, <3>3 DEF ParamInv, StoredInv
  <2>3. CASE from_binary
    <3>1. UNCHANGED <<column, param, stored>> /\ column # Nothing /\ rust' \in Decoded
          /\ param = NotYet /\ stored = Nothing
      BY <2>3, <2>c DEF from_binary
    <3>2. RustInv'
      BY <2>a, <3>1 DEF RustInv
    <3> QED BY <2>a, <3>1, <3>2 DEF ParamInv, StoredInv
  <2>4. CASE encode
    <3>1. UNCHANGED <<column, rust, stored>> /\ stored = Nothing /\ rust.is = "Ok"
          /\ rust.type # "Decimal" /\ \E oid \in DOMAIN Bytes : param' = Encoded(oid)
      BY <2>4, <2>c DEF encode
    <3>2. RustInv'
      BY <2>a, <3>1 DEF RustInv
    <3>3. ParamInv'
      BY <2>b, <3>1 DEF ParamInv
    <3> QED BY <2>a, <3>1, <3>2, <3>3 DEF StoredInv
  <2>5. CASE Stores
    <3>1. UNCHANGED <<column, rust, param>> /\ param.is = "Ok"
          /\ stored' = [oid |-> param.type, v |-> from_be_bytes(param.v, Bytes[param.type])]
      BY <2>5 DEF Stores
    <3>2. RustInv'
      BY <2>a, <3>1 DEF RustInv
    <3>3. ParamInv'
      BY <2>b, <3>1 DEF ParamInv
    <3> QED BY <2>a, <3>1, <3>2, <3>3 DEF StoredInv
  <2>6. CASE UNCHANGED convvars
    <3>1. UNCHANGED <<column, rust, param, stored>>
      BY <2>6 DEF convvars
    <3>2. RustInv'
      BY <2>a, <3>1 DEF RustInv
    <3>3. ParamInv'
      BY <2>b, <3>1 DEF ParamInv
    <3> QED BY <2>a, <3>1, <3>2, <3>3 DEF StoredInv
  <2> QED BY <2>1, <2>2, <2>3, <2>4, <2>5, <2>6 DEF ConvNext
<1> QED BY <1>1, <1>2, PTL DEF ConvSpec

\* An integer that is Ok is in the range of its type, wherever it came from.
LEMMA IntegerInRange ==
  ASSUME ColumnInv, RustInv, rust.is = "Ok", rust.type \in DOMAIN IntegerTypes
  PROVE  rust.v \in IntegerTypes[rust.type]
<1>1. rust # NotYet
  BY DEF NotYet
<1>2. CASE column = Nothing
  BY <1>1, <1>2 DEF RustInv
<1>3. CASE column # Nothing
  <2>1. column.oid \in IntegerOids
    BY <1>1, <1>3, FromColumn, TypeNames
  <2> QED BY <1>1, <1>3, <2>1, FromColumn
<1> QED BY <1>2, <1>3

(***************************************************************************)
(* An integer parameter arrives as the number the program has, for every   *)
(* width of a byte, type and target: encode casts only where the target is *)
(* wide enough and tries elsewhere.                                        *)
(***************************************************************************)
THEOREM ConvIntegersKept == ConvSpec => []IntegersKept
<1>1. ConvInv => IntegersKept
  <2> SUFFICES ASSUME ConvInv, rust.is = "Ok", rust.type \in DOMAIN IntegerTypes
               PROVE  /\ stored # Nothing => stored.v = rust.v
                      /\ \A oid \in IntegerOids :
                           encode_integer(rust.type, rust.v, oid).is = "Err"
                             => rust.v \notin Signed(Bytes[oid])
    BY DEF IntegersKept
  <2>1. stored # Nothing => stored.v = rust.v
    BY IntegerInRange, StoredInteger DEF ConvInv
  <2>2. ASSUME NEW oid \in IntegerOids, encode_integer(rust.type, rust.v, oid).is = "Err"
        PROVE  rust.v \notin Signed(Bytes[oid])
    BY <2>2 DEF encode_integer, Unencodable, Ok
  <2> QED BY <2>1, <2>2
<1> QED BY <1>1, ConvInvInductive, PTL

(***************************************************************************)
(* A time or timestamp is decoded as the instant it is, and a column that  *)
(* is read and written back is unchanged, whatever the lengths of a byte,  *)
(* a second, an hour and a day and the ranges of the Rust types.           *)
(***************************************************************************)
THEOREM ConvCopyIsFaithful == ConvSpec => []CopyIsFaithful
<1>1. ConvInv => CopyIsFaithful
  <2> SUFFICES ASSUME ConvInv, column # Nothing, rust.is = "Ok"
               PROVE  /\ column.oid = "TIME" => TimeOfDay(rust) = column.v
                      /\ column.oid \in {"TIMESTAMP", "TIMESTAMPTZ"} =>
                           Instant(rust) = column.v /\ rust.v[2] \in 0..(UsecsPerSec - 1)
                      /\ stored # Nothing /\ rust.type # "NaiveDate" => stored.v = column.v
    BY DEF CopyIsFaithful
  <2>1. rust # NotYet /\ ColumnInv /\ RustInv /\ ParamInv /\ StoredInv
    BY DEF NotYet, ConvInv
  <2>2. column.oid = "TIME" => TimeOfDay(rust) = column.v
    BY <2>1, FromColumn
  <2>3. column.oid \in {"TIMESTAMP", "TIMESTAMPTZ"} =>
          Instant(rust) = column.v /\ rust.v[2] \in 0..(UsecsPerSec - 1)
    BY <2>1, FromColumn
  <2>4. ASSUME stored # Nothing, rust.type # "NaiveDate"
        PROVE  stored.v = column.v
    <3>1. CASE column.oid \in IntegerOids
      <4>1. /\ rust.type \in DOMAIN IntegerTypes /\ rust.v = column.v
            /\ rust.v \in IntegerTypes[rust.type]
        BY <2>1, <3>1, FromColumn, TypeNames
      <4> QED BY <2>1, <2>4, <4>1, StoredInteger
    <3>2. CASE column.oid = "DATE"
      <4>1. /\ rust.type = "Date" /\ rust.v \in Int /\ column.v \in Signed(4)
            /\ rust.v % Power(4) = column.v % Power(4)
        BY <2>1, <2>4, <3>2, FromColumn
      <4>2. stored.v = from_be_bytes(to_be_bytes(rust.v, 4), 4)
        BY <2>1, <2>4, <4>1, StoredOther, TypeNames
      <4> QED BY <4>1, <4>2, RoundTrip DEF Sizes
    <3>3. CASE column.oid = "TIME"
      <4>1. rust.type \in {"NaiveTime", "Time"} /\ column.v \in Signed(8)
        BY <2>1, <3>3, FromColumn
      <4>2. stored.v = from_be_bytes(to_be_bytes(column.v, 8), 8)
        BY <2>1, <2>2, <2>4, <3>3, <4>1, StoredOther, TypeNames
      <4> QED BY <4>1, <4>2, ReadsColumn DEF Sizes
    <3>4. CASE column.oid \in {"TIMESTAMP", "TIMESTAMPTZ"}
      <4>1. rust.type \in TimestampTypes /\ column.v \in Signed(8)
        BY <2>1, <3>4, FromColumn
      <4>2. stored.v = from_be_bytes(to_be_bytes(column.v, 8), 8)
        BY <2>1, <2>3, <2>4, <3>4, <4>1, StoredOther, TypeNames
      <4> QED BY <4>1, <4>2, ReadsColumn DEF Sizes
    <3>5. CASE column.oid = "NUMERIC"
      <4>1. rust.type = "Decimal"
        BY <2>1, <3>5, FromColumn
      <4> QED BY <2>1, <2>4, <4>1, StoredOther, TypeNames
    <3>6. column.oid \in IntegerOids \cup {"DATE", "TIME", "TIMESTAMP", "TIMESTAMPTZ", "NUMERIC"}
      BY <2>1, FromColumn
    <3> QED BY <3>1, <3>2, <3>3, <3>4, <3>5, <3>6
  <2> QED BY <2>2, <2>3, <2>4
<1> QED BY <1>1, ConvInvInductive, PTL

(***************************************************************************)
(* An integer, date, time or timestamp column is refused only for a value  *)
(* the Rust type does not have.  (Numerics compute with powers of ten and  *)
(* folds over their groups: they stay with the model checker.)             *)
(***************************************************************************)
THEOREM ConvRefusalsJustified ==
  ConvSpec => [](column.oid # "NUMERIC" => RefusalsJustified)
<1>1. ConvInv => (column.oid # "NUMERIC" => RefusalsJustified)
  <2> SUFFICES ASSUME ConvInv, column.oid # "NUMERIC", rust.is = "Err", column # Nothing
               PROVE  RefusalsJustified
    BY DEF RefusalsJustified
  <2>1. rust # NotYet /\ ColumnInv /\ RustInv
    BY DEF NotYet, ConvInv
  <2>2. /\ column.oid \in IntegerOids => column.oid \notin Widening[rust.type]
        /\ column.oid = "DATE" => Abs(column.v) > MaxDays
        /\ column.oid = "TIME" => column.v = SecsPerDay * UsecsPerSec
        /\ column.oid \in {"TIMESTAMP", "TIMESTAMPTZ"} =>
             Abs(column.v) > (MaxSecs - 1) * UsecsPerSec
        /\ column.oid \in IntegerOids \cup {"DATE", "TIME", "TIMESTAMP", "TIMESTAMPTZ"}
    BY <2>1, FromColumn
  <2> QED BY <2>2, TypeNames DEF RefusalsJustified
<1> QED BY <1>1, ConvInvInductive, PTL
=============================================================================
