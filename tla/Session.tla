------------------------------ MODULE Session ------------------------------
(***************************************************************************)
(* What an asynchronous connection promises to whoever holds it: the       *)
(* pools, transaction(), the application.  It accepts one call at a time;  *)
(* a call ends with the connection ready again, and then nothing is owed   *)
(* in either direction and transaction_status is the server's, or with     *)
(* the connection unusable, and then it stays so.                          *)
(***************************************************************************)
VARIABLES
  phase,    \* ready, busy (a call is in progress), unusable, closed
  drained,  \* nothing is unread, half-written or skipped on the socket
  agreed    \* transaction_status is the server's, if its last word was ReadyForQuery

session == <<phase, drained, agreed>>

Settled == drained = TRUE /\ agreed = TRUE

SessionInit == phase = "ready" /\ Settled

Accept == phase = "ready" /\ phase' = "busy"

Work == phase = "busy" /\ phase' = "busy"

\* The call is over and the next one may be made.
Release == phase = "busy" /\ phase' = "ready" /\ Settled'

\* The call was cut short or failed for good.
Condemn == phase = "busy" /\ phase' = "unusable"

\* What is left on the socket of an unusable connection may still change.
Decay == phase = "unusable" /\ phase' = "unusable"

Close == phase = "ready" /\ phase' = "closed"

SessionNext == Accept \/ Work \/ Release \/ Condemn \/ Decay \/ Close

SessionSpec == SessionInit /\ [][SessionNext]_session
=============================================================================
