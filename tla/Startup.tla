------------------------------ MODULE Startup ------------------------------
(***************************************************************************)
(* Connecting: ConnectionStateMachine, the driver loops of the three       *)
(* connections (new_with_stream) around it, and the upgrade of a loopback  *)
(* connection to the server's Unix socket, which is a second startup.      *)
(*                                                                         *)
(* One step reads a message (or the byte that answers SSLRequest), hands   *)
(* it to the machine and does what the machine asks for up to the next     *)
(* read.  The machine's ...Read states, which only say that a read comes   *)
(* next, are merged with the states they lead to.  The digests are not     *)
(* modelled: a challenge or a signature is good or bad.                    *)
(***************************************************************************)
EXTENDS Naturals

CONSTANT
  MaxParams   \* bound: ParameterStatus messages

ASSUME StartupAssumption == MaxParams \in Nat

VARIABLES
  peer,       \* "server" keeps to the protocol, "anyone" sends anything
  options,    \* ssl_mode, whether there is a password, upgrade_to_unix_socket
  build,      \* the driver used, and the drivers whose TLS feature is enabled
  state,      \* the machine's state; none when no machine runs
  stream,     \* what the driver talks over: tcp, tls or unix
  scram,      \* ScramClient: none, started, or keyed by a server-first-message
  proven,     \* ghost: the server's signature was verified
  server_params, \* number of parameters kept
  reported,   \* ghost: number of parameters the server reported
  exposed,    \* ghost: a startup or password message went out unencrypted
  srv,        \* the server's place in the conversation
  show,       \* none, or "asked" while SHOW unix_socket_directories runs
  conn,       \* the connection that new() holds: none, or its stream
  conn_usable,
  result      \* none, Ok, Dropped, or the error: Auth, Unsupported for want of TLS (NoTls)
              \* or of an authentication method (NoMethod), LibraryBug, Server, Io

machine == <<state, scram, proven, server_params, reported>>
outer   == <<show, conn, conn_usable, result>>
startupvars == <<options, build, machine, stream, exposed, srv, outer>>
allvars == <<peer, startupvars>>

Drivers == {"sync", "tokio", "compio"}

AuthMessages == {"AuthOk", "Cleartext", "Md5", "Sasl", "SaslOther", "Continue", "BadContinue",
                 "Final", "BadFinal", "AuthOther"}

Async == {"Notice", "Notification", "Parameter"}

Received == AuthMessages \cup Async \cup {"Negotiate", "KeyData", "Ready", "Error", "Unexpected"}

ReadStates == {"WaitingSslResponse", "WaitingAuth", "SaslInProgress", "WaitingAuthResult",
               "WaitingReady"}

-----------------------------------------------------------------------------
\* The server.  Await is where it waits for the client.
Await == {"start", "handshake", "startup", "password", "sasl_first", "sasl_response"}

\* Where it goes when it sends m, or "no" when it does not send m there.
ServerSends(s, m) ==
  CASE m \in {"Notice", "Notification"} /\ s \notin Await \cup {"ssl", "closed", "idle"} -> s
    [] s \in {"auth", "judge", "challenge", "judge_sasl", "auth_done", "params", "keyed"}
         /\ m = "Error" -> "closed"
    [] s = "auth" /\ m = "AuthOk" -> "params"
    [] s = "auth" /\ m \in {"Cleartext", "Md5"} -> "password"
    [] s = "auth" /\ m \in {"Sasl", "SaslOther"} -> "sasl_first"
    [] s = "auth" /\ m = "AuthOther" -> "password"
    [] s = "auth" /\ m = "Negotiate" -> "auth"
    [] s = "judge" /\ m = "AuthOk" -> "params"
    [] s = "challenge" /\ m = "Continue" -> "sasl_response"
    [] s = "judge_sasl" /\ m = "Final" -> "auth_done"
    [] s = "auth_done" /\ m = "AuthOk" -> "params"
    [] s \in {"params", "keyed"} /\ m = "Parameter" -> s
    [] s = "params" /\ m = "KeyData" -> "keyed"
    [] s \in {"params", "keyed"} /\ m = "Ready" -> "idle"
    [] OTHER -> "no"

\* The client's message m arrives.
ServerGets(s, m) ==
  CASE m = "SSLRequest" -> "ssl"
    [] m = "Startup"    -> "auth"
    [] m = "Password"   -> "judge"
    [] m = "SASLInitialResponse" -> "challenge"
    [] OTHER            -> "judge_sasl"

MaySend(m) == peer = "anyone" \/ ServerSends(srv, m) # "no"

AfterSending(m) == IF peer = "anyone" THEN srv ELSE ServerSends(srv, m)

-----------------------------------------------------------------------------
\* The driver.

\* cfg!(any(feature = "sync-tls", feature = "tokio-tls")), whatever the driver.
client_supports_tls == build.tls \cap {"sync", "tokio"} # {}

\* is_tcp_loopback; the server is taken to be on this host.
is_tcp_loopback == stream = "tcp" \/ (stream = "tls" /\ build.driver # "compio")

Write(m) ==
  /\ srv' = ServerGets(srv, m)
  /\ exposed' = (exposed \/ (m # "SSLRequest" /\ stream # "tls"))

NoMachine == state' = "none" /\ UNCHANGED <<scram, proven, server_params, reported>>

\* Mutant: a failed upgrade fails new().
PropagateError(e) == result' = e /\ UNCHANGED <<show, conn, conn_usable>>

\* new_with_stream returns an error; the upgrade falls back on the connection it has.
Fallback(e) ==
  /\ result' = IF conn = "none" THEN e ELSE "Ok"
  /\ UNCHANGED <<show, conn, conn_usable>>

\* The whole startup over this stream fails with e.
Refuse(e) == NoMachine /\ Fallback(e) /\ UNCHANGED <<options, build, stream, exposed>>

\* The machine goes to s and reads on.
Goto(s) == state' = s /\ UNCHANGED <<options, build, stream, outer>>

Keep == UNCHANGED <<scram, proven, server_params, reported>>

Quiet == UNCHANGED exposed

\* The machine asks to send m and to go on in state s.
Answer(m, s) == Write(m) /\ Goto(s)

\* write_startup_message.
Introduce == Answer("Startup", "WaitingAuth") /\ Keep

\* handle_initial.
handle_initial ==
  /\ state = "Initial"
  /\ CASE options.ssl_mode = "Require" /\ ~client_supports_tls -> Refuse("NoTls") /\ UNCHANGED srv
       [] options.ssl_mode # "Disable" /\ client_supports_tls ->
            Answer("SSLRequest", "WaitingSslResponse") /\ Keep
       [] OTHER -> Introduce

\* Mutant: a refusal of TLS is never an error.
PlainAllowed == TRUE

PlainAccepted == options.ssl_mode # "Require"

\* handle_ssl_response.
handle_ssl_response(byte) ==
  /\ state = "WaitingSslResponse"
  /\ CASE byte = "S" -> Goto("WaitingTlsHandshake") /\ srv' = "handshake" /\ Keep /\ Quiet
       [] byte = "N" /\ PlainAccepted -> Introduce
       [] byte = "N" /\ ~PlainAccepted -> Refuse("Auth") /\ srv' = "closed"
       [] OTHER -> Refuse("LibraryBug") /\ srv' = "closed"

\* Action::TlsHandshake: a stream is upgraded by the driver's own feature only.
tls_handshake ==
  /\ state = "WaitingTlsHandshake"
  /\ \/ /\ build.driver \in build.tls /\ stream = "tcp"
        /\ stream' = "tls" /\ state' = "Secured" /\ srv' = "startup"
        /\ Keep /\ UNCHANGED <<options, build, exposed, outer>>
     \/ /\ build.driver \in build.tls
        /\ Refuse("Io") /\ srv' = "closed"
     \/ /\ build.driver \notin build.tls
        /\ Refuse("NoTls") /\ srv' = "closed"

handle_tls_handshake_complete == state = "Secured" /\ Introduce

-----------------------------------------------------------------------------
\* The machine's handlers, for a message m that is neither async nor an error.

\* Mutant: the machine reads on without writing the password.
ForgetPassword == Goto("WaitingAuthResult") /\ srv' = "password" /\ Keep /\ Quiet

\* A password message, if there is a password.
SendPassword ==
  IF options.password
  THEN Answer("Password", "WaitingAuthResult") /\ Keep
  ELSE Refuse("Auth") /\ srv' = "closed"

handle_auth_message(m) ==
  /\ state = "WaitingAuth"
  /\ CASE m = "AuthOk" -> Goto("WaitingReady") /\ srv' = AfterSending(m) /\ Keep /\ Quiet
       [] m \in {"Cleartext", "Md5"} -> SendPassword
       [] m = "Sasl" /\ options.password ->
            /\ Answer("SASLInitialResponse", "SaslInProgress")
            /\ scram' = "started"
            /\ UNCHANGED <<proven, server_params, reported>>
       [] m = "SaslOther" \/ (m = "Sasl" /\ ~options.password) -> Refuse("Auth") /\ srv' = "closed"
       [] m \in AuthMessages \ {"AuthOk", "Cleartext", "Md5", "Sasl", "SaslOther"} ->
            Refuse("NoMethod") /\ srv' = "closed"
       [] OTHER -> Refuse("LibraryBug") /\ srv' = "closed"

\* Mutant: AuthenticationOk is as good as a verified signature.
OkAccepted(m) == m \in {"AuthOk", "Final"}

\* verify_server_final needs the keys that process_server_first derived.
Verified(m) == m = "Final" /\ scram = "keyed"

handle_sasl_message(m) ==
  /\ state = "SaslInProgress"
  /\ CASE m = "Continue" ->
            /\ Answer("SASLResponse", "SaslInProgress")
            /\ scram' = "keyed"
            /\ UNCHANGED <<proven, server_params, reported>>
       [] Verified(m) ->
            /\ Goto("WaitingAuthResult")
            /\ srv' = AfterSending(m)
            /\ proven' = (m = "Final" /\ scram = "keyed")
            /\ Quiet /\ UNCHANGED <<scram, server_params, reported>>
       [] m = "BadContinue" \/ (m \in {"Final", "BadFinal"} /\ ~Verified(m)) ->
            Refuse("Auth") /\ srv' = "closed"
       [] OTHER -> Refuse("LibraryBug") /\ srv' = "closed"

handle_auth_result(m) ==
  /\ state = "WaitingAuthResult"
  /\ CASE m = "AuthOk" -> Goto("WaitingReady") /\ srv' = AfterSending(m) /\ Keep /\ Quiet
       [] m \in AuthMessages \ {"AuthOk"} -> Refuse("Auth") /\ srv' = "closed"
       [] OTHER -> Refuse("LibraryBug") /\ srv' = "closed"

\* Action::Finished: the connection is built.  One over a loopback TCP stream
\* asks the server for its Unix socket.
Finish ==
  /\ state' = "none" /\ Keep /\ Quiet
  /\ conn' = stream /\ conn_usable' = TRUE
  /\ IF options.upgrade /\ is_tcp_loopback /\ conn = "none"
     THEN show' = "asked" /\ UNCHANGED result
     ELSE result' = "Ok" /\ UNCHANGED show
  /\ UNCHANGED <<options, build, stream>>

handle_ready_message(m) ==
  /\ state = "WaitingReady"
  /\ CASE m = "KeyData" -> Goto("WaitingReady") /\ srv' = AfterSending(m) /\ Keep /\ Quiet
       [] m = "Parameter" ->
            /\ Goto("WaitingReady") /\ srv' = AfterSending(m) /\ Quiet
            /\ server_params' = server_params + 1 /\ reported' = reported + 1
            /\ UNCHANGED <<scram, proven>>
       [] m = "Ready" -> Finish /\ srv' = AfterSending(m)
       [] OTHER -> Refuse("LibraryBug") /\ srv' = "closed"

\* Mutant: ParameterStatus is asynchronous at all times.
AlwaysAsync(m) == m \in Async

\* ParameterStatus is part of the startup once authentication is over.
IsAsync(m) == m \in Async /\ ~(state = "WaitingReady" /\ m = "Parameter")

\* step: async messages are ignored, an error ends the startup.
step(m) ==
  /\ state \in ReadStates \ {"WaitingSslResponse"}
  /\ MaySend(m)
  /\ m = "Parameter" => reported < MaxParams
  /\ CASE IsAsync(m) ->
            /\ srv' = AfterSending(m)
            /\ reported' = IF m = "Parameter" THEN reported + 1 ELSE reported
            /\ Goto(state) /\ Quiet /\ UNCHANGED <<scram, proven, server_params>>
       [] m = "Error" -> Refuse("Server") /\ srv' = "closed"
       [] OTHER -> \/ handle_auth_message(m) \/ handle_sasl_message(m)
                   \/ handle_auth_result(m) \/ handle_ready_message(m)

\* The byte that answers SSLRequest.
read_u8 ==
  /\ state = "WaitingSslResponse"
  /\ \E byte \in {"S", "N", "other"} :
       /\ byte = "other" => peer = "anyone"
       /\ handle_ssl_response(byte)

\* A read or a write fails.
IoFails ==
  /\ state # "none"
  /\ Refuse("Io") /\ srv' = "closed"

-----------------------------------------------------------------------------
\* try_upgrade_to_unix_socket.

\* SHOW unix_socket_directories fails, is cut short, or names no directory; or
\* nobody listens on the socket: new() returns the connection it has.
NoUpgrade ==
  /\ show = "asked"
  /\ show' = "none" /\ result' = "Ok"
  /\ conn_usable' \in BOOLEAN
  /\ UNCHANGED <<options, build, machine, stream, exposed, srv, conn>>

\* The second startup, over the Unix socket, with the upgrade turned off.
Reconnect ==
  /\ show = "asked"
  /\ show' = "none"
  /\ state' = "Initial" /\ stream' = "unix" /\ srv' = "start"
  /\ scram' = "none" /\ proven' = FALSE /\ server_params' = 0 /\ reported' = 0
  /\ options' = [options EXCEPT !.upgrade = FALSE]
  /\ UNCHANGED <<build, exposed, conn, conn_usable, result>>

\* The future of new() is dropped.
Abandon ==
  /\ result = "none"
  /\ NoMachine
  /\ result' = "Dropped" /\ srv' = "closed" /\ show' = "none"
  /\ UNCHANGED <<options, build, stream, exposed, conn, conn_usable>>

StartupInit ==
  /\ peer \in {"server", "anyone"}
  /\ options \in [ssl_mode : {"Disable", "Prefer", "Require"}, password : BOOLEAN, upgrade : BOOLEAN]
  /\ build \in [driver : Drivers, tls : SUBSET Drivers]
  /\ state = "Initial" /\ stream \in {"tcp", "unix"} /\ scram = "none" /\ proven = FALSE
  /\ server_params = 0 /\ reported = 0 /\ exposed = FALSE /\ srv = "start"
  /\ show = "none" /\ conn = "none" /\ conn_usable = FALSE /\ result = "none"

Progress ==
  \/ handle_initial \/ read_u8 \/ tls_handshake \/ handle_tls_handshake_complete
  \/ \E m \in Received : step(m)
  \/ NoUpgrade \/ Reconnect

StartupNext ==
  /\ Progress \/ IoFails \/ Abandon
  /\ UNCHANGED peer

StartupSpec == StartupInit /\ [][StartupNext]_allvars

\* The driver runs, and the server does not send notices for ever.
StartupFair ==
  /\ WF_startupvars(Progress)
  /\ SF_startupvars(\E m \in Received \ {"Notice", "Notification"} : step(m))

LiveSpec == StartupSpec /\ StartupFair

-----------------------------------------------------------------------------
StartupTypeOK ==
  /\ peer \in {"server", "anyone"}
  /\ options \in [ssl_mode : {"Disable", "Prefer", "Require"}, password : BOOLEAN, upgrade : BOOLEAN]
  /\ build \in [driver : Drivers, tls : SUBSET Drivers]
  /\ state \in ReadStates \cup {"Initial", "WaitingTlsHandshake", "Secured", "none"}
  /\ stream \in {"tcp", "tls", "unix"}
  /\ scram \in {"none", "started", "keyed"} /\ proven \in BOOLEAN
  /\ server_params \in 0..MaxParams /\ reported \in 0..MaxParams
  /\ exposed \in BOOLEAN
  /\ srv \in Await \cup {"ssl", "auth", "judge", "challenge", "judge_sasl", "auth_done",
                         "params", "keyed", "idle", "closed"}
  /\ show \in {"none", "asked"}
  /\ conn \in {"none", "tcp", "tls", "unix"} /\ conn_usable \in BOOLEAN
  /\ result \in {"none", "Ok", "Auth", "NoTls", "NoMethod", "LibraryBug", "Server", "Io",
                "Dropped"}
  /\ state # "none" => result = "none" /\ show = "none"
  /\ show = "asked" => conn # "none"

(***************************************************************************)
(* A connection handed out is past startup on both sides: the server is    *)
(* waiting for the first query, nothing of the startup is unread, and      *)
(* every parameter the server reported is in server_params().              *)
(***************************************************************************)
ReadyTogether ==
  peer = "server" /\ result = "Ok" /\ conn = stream => srv = "idle" /\ server_params = reported

(***************************************************************************)
(* Once SCRAM has begun only a server that proved it knows the password    *)
(* gets a connection, whatever it sends and in whatever order.             *)
(***************************************************************************)
ServerProved ==
  scram # "none" /\ (state = "WaitingReady" \/ conn = stream) => proven

\* With SslMode::Require nothing but the SSLRequest is written in the clear.
RequireMeansTls == options.ssl_mode = "Require" => ~exposed

(***************************************************************************)
(* The upgrade to a Unix socket is best effort: once the first startup has *)
(* succeeded new() returns a connection, the first one if the second       *)
(* startup fails, unless the caller drops it.                              *)
(***************************************************************************)
UpgradeIsOptional ==
  conn # "none" => result \in {"none", "Ok", "Dropped"}

\* Talking to a server that keeps to the protocol, startup ends: with a
\* connection or an error.  Neither waits for ever for the other: no driver
\* reads on while the server waits for a message it has yet to write.
StartupEnds == peer = "server" ~> result # "none"
=============================================================================
