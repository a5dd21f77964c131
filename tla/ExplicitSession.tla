-------------------------- MODULE ExplicitSession --------------------------
(***************************************************************************)
(* instro_ethernetip_rs::ExplicitSession: a session that keeps its address *)
(* and replaces its client.  A retryable failure drops the client, and the *)
(* next operation connects again; the failed operation itself is reported  *)
(* and never repeated.  The connection and the PLC behind it are modelled  *)
(* as the session sees them: a connection works, or is lost and fails      *)
(* every request that is sent over it.                                     *)
(***************************************************************************)
EXTENDS Naturals

CONSTANT MaxOutages     \* bound: times that the network or the connection fails

ASSUME OutagesAssumption == MaxOutages \in Nat

VARIABLES
  link,       \* self.client: "none", or whether its connection still works
  up,         \* a new connection to the PLC would be accepted
  outages,    \* how often the network has failed
  failed      \* history: the last connection has answered with a retryable error

sessionVars == <<link, up, outages, failed>>

Links == {"none", "live", "lost"}

NoSession == link = "none" /\ failed = FALSE

----------------------------------------------------------------------------
(* The network *)

\* The connection is lost, and perhaps the PLC cannot be reached for a while.
Lose ==
  /\ outages < MaxOutages
  /\ up' \in BOOLEAN
  /\ link' = IF link = "live" THEN "lost" ELSE link
  /\ outages' = outages + 1
  /\ UNCHANGED failed

Restore == ~up /\ up' = TRUE /\ UNCHANGED <<link, outages, failed>>

----------------------------------------------------------------------------
(* The session *)

\* ExplicitConnector::connect() registers a session with the PLC.
Connect == up /\ link' = "live" /\ failed' = FALSE /\ UNCHANGED <<up, outages>>

ConnectFails == ~up /\ UNCHANGED sessionVars

\* The request is answered: with values, or with an error that is not retryable.
Answered == link = "live" /\ UNCHANGED sessionVars

\* drop_client_if_retriable().
DropClient ==
  /\ link = "lost"
  /\ link' = "none"
  /\ failed' = TRUE
  /\ UNCHANGED <<up, outages>>

\* A bug of the usual kind: the errors of single tags do not count.
BatchKeepsClient ==
  /\ link = "lost"
  /\ failed' = TRUE
  /\ UNCHANGED <<link, up, outages>>

\* read_tags(): the batch is answered, but tags in it failed with a retryable error.
BatchItemsFail == DropClient

\* close() unregisters the session if there is a client; a failure is reported, and the
\* client is gone all the same.
CloseSession == link' = "none" /\ failed' = FALSE /\ UNCHANGED <<up, outages>>
=============================================================================
