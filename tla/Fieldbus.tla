------------------------------ MODULE Fieldbus ------------------------------
(***************************************************************************)
(* EtherNetIPDevice on its native session: an owner that opens, starts,    *)
(* stops and closes the device, user threads that read and write tags, and *)
(* the background daemon that polls.  They share the device's lock, the    *)
(* stop event and the client.  The stop event is set and cleared without   *)
(* the lock, except in open().  ModbusDevice is built in the same way.     *)
(* Init, Next and Spec are BusInit, BusNext and BusSpec here, so that a    *)
(* module can extend Fieldbus beside the specification of another session. *)
(***************************************************************************)
EXTENDS ExplicitSession

CONSTANT Users          \* threads that read and write tags besides the owner

Owner == "owner"
Daemon == "daemon"
Nobody == "nobody"

ASSUME UsersAssumption == Users \cap {Owner, Daemon, Nobody} = {}

VARIABLES
  lock,       \* the thread that holds _lock
  stopping,   \* _background_stop_event
  opened,     \* _client is not None
  pc          \* where each thread is

deviceVars == <<lock, stopping, opened, pc>>
busVars == <<sessionVars, deviceVars>>

Callers == Users \cup {Owner}
Threads == Callers \cup {Daemon}

BusInit ==
  /\ NoSession /\ up = TRUE /\ outages = 0
  /\ lock = Nobody
  /\ stopping = FALSE
  /\ opened = FALSE
  /\ pc = [t \in Threads |-> IF t = Daemon THEN "unborn" ELSE "idle"]

DaemonAlive == pc[Daemon] \notin {"unborn", "dead"}

----------------------------------------------------------------------------
(* Operations: _read_tag_raw, _write_tag_raw and the daemon's _read_tags_raw *)

Ready(t) == IF t = Daemon THEN "poll" ELSE "idle"

\* A bug of the usual kind: a poll that raises ends the loop.
RestIdle(t) == "idle"

Rest(t) == IF t = Daemon THEN "loop" ELSE "idle"

\* A bug of the usual kind: the wrapper does not ask for the client.
EnterUnchecked(t) ==
  /\ pc[t] = Ready(t) /\ lock = Nobody
  /\ lock' = t
  /\ pc' = [pc EXCEPT ![t] = "reconnect"]
  /\ UNCHANGED <<sessionVars, stopping, opened>>

\* What the wrapper asks of the stop event and of the client.
Usable == ~stopping /\ opened

\* _eip_op: the wrapper takes the lock, and refuses the operation if the device is not usable.
Enter(t) ==
  /\ pc[t] = Ready(t) /\ lock = Nobody
  /\ IF Usable
     THEN lock' = t /\ pc' = [pc EXCEPT ![t] = "reconnect"]
     ELSE pc' = [pc EXCEPT ![t] = Rest(t)] /\ UNCHANGED lock
  /\ UNCHANGED <<sessionVars, stopping, opened>>

Leave(t) ==
  /\ lock' = Nobody
  /\ pc' = [pc EXCEPT ![t] = Rest(t)]
  /\ UNCHANGED <<stopping, opened>>

\* reconnect_if_needed().
Reconnect(t) ==
  /\ pc[t] = "reconnect"
  /\ \/ /\ link # "none" /\ UNCHANGED sessionVars
        /\ pc' = [pc EXCEPT ![t] = "request"]
        /\ UNCHANGED <<lock, stopping, opened>>
     \/ /\ link = "none" /\ Connect
        /\ pc' = [pc EXCEPT ![t] = "request"]
        /\ UNCHANGED <<lock, stopping, opened>>
     \/ link = "none" /\ ConnectFails /\ Leave(t)

\* read_tag(), write_tag(), read_tags().
Request(t) ==
  /\ pc[t] = "request"
  /\ \/ Answered
     \/ DropClient
     \/ t = Daemon /\ BatchItemsFail
  /\ Leave(t)

----------------------------------------------------------------------------
(* The owner *)

\* open(), under the lock: clears the stop event whether or not it connects.
Open ==
  /\ pc[Owner] = "idle" /\ lock = Nobody
  /\ stopping' = FALSE
  /\ \/ opened /\ UNCHANGED <<sessionVars, opened>>
     \/ ~opened /\ Connect /\ opened' = TRUE
     \/ ~opened /\ ConnectFails /\ UNCHANGED opened
  /\ UNCHANGED <<lock, pc>>

Start ==
  /\ pc[Owner] = "idle" /\ ~DaemonAlive
  /\ stopping' = FALSE
  /\ pc' = [pc EXCEPT ![Daemon] = "loop"]
  /\ UNCHANGED <<sessionVars, lock, opened>>

Stop ==
  /\ pc[Owner] = "idle" /\ DaemonAlive
  /\ stopping' = TRUE
  /\ pc' = [pc EXCEPT ![Owner] = "join_in_stop"]
  /\ UNCHANGED <<sessionVars, lock, opened>>

\* close() sets the stop event, then stops the daemon, then closes the client.
Close ==
  /\ pc[Owner] = "idle"
  /\ stopping' = TRUE
  /\ pc' = [pc EXCEPT ![Owner] = "close"]
  /\ UNCHANGED <<sessionVars, lock, opened>>

StopInClose ==
  /\ pc[Owner] = "close"
  /\ pc' = [pc EXCEPT ![Owner] = IF DaemonAlive THEN "join_in_close" ELSE "close_publishers"]
  /\ UNCHANGED <<sessionVars, lock, stopping, opened>>

\* A bug of the usual kind: close() takes the lock before it waits for the daemon.
JoinUnderLock ==
  /\ pc[Owner] \in {"join_in_stop", "join_in_close"}
  /\ \/ pc[Owner] = "join_in_close" /\ lock = Nobody /\ lock' = Owner /\ UNCHANGED pc
     \/ /\ ~DaemonAlive /\ lock' = IF lock = Owner THEN Nobody ELSE lock
        /\ pc' = [pc EXCEPT ![Owner] = IF @ = "join_in_stop" THEN "idle" ELSE "close_publishers"]
  /\ UNCHANGED <<sessionVars, stopping, opened>>

Join ==
  /\ pc[Owner] \in {"join_in_stop", "join_in_close"} /\ ~DaemonAlive
  /\ pc' = [pc EXCEPT ![Owner] = IF @ = "join_in_stop" THEN "idle" ELSE "close_publishers"]
  /\ UNCHANGED <<sessionVars, lock, stopping, opened>>

\* Instrument.close() closes the publishers.  One that raises ends close() here: the client
\* stays open and the stop event stays set.
ClosePublishers ==
  /\ pc[Owner] = "close_publishers"
  /\ \E stage \in {"close_client", "idle"} : pc' = [pc EXCEPT ![Owner] = stage]
  /\ UNCHANGED <<sessionVars, lock, stopping, opened>>

\* A bug of the usual kind: the client is closed without the lock.
CloseClientUnlocked ==
  /\ pc[Owner] = "close_client"
  /\ CloseSession
  /\ opened' = FALSE
  /\ pc' = [pc EXCEPT ![Owner] = "idle"]
  /\ UNCHANGED <<lock, stopping>>

CloseClient ==
  /\ pc[Owner] = "close_client" /\ lock = Nobody
  /\ CloseSession
  /\ opened' = FALSE
  /\ pc' = [pc EXCEPT ![Owner] = "idle"]
  /\ UNCHANGED <<lock, stopping>>

----------------------------------------------------------------------------
(* The daemon *)

\* The loop looks at the stop event, then polls; a poll that raises does not end it.
Loop ==
  /\ pc[Daemon] = "loop"
  /\ pc' = [pc EXCEPT ![Daemon] = IF stopping THEN "dead" ELSE "poll"]
  /\ UNCHANGED <<sessionVars, lock, stopping, opened>>

\* A publisher that raises while the loop publishes its timing ends the thread.
Die ==
  /\ pc[Daemon] = "loop"
  /\ pc' = [pc EXCEPT ![Daemon] = "dead"]
  /\ UNCHANGED <<sessionVars, lock, stopping, opened>>

----------------------------------------------------------------------------
BusNext ==
  \/ \E t \in Threads : Enter(t) \/ Reconnect(t) \/ Request(t)
  \/ Open \/ Start \/ Stop
  \/ Close \/ StopInClose \/ Join \/ ClosePublishers \/ CloseClient
  \/ Loop \/ Die
  \/ (Lose \/ Restore) /\ UNCHANGED deviceVars

Safety == BusInit /\ [][BusNext]_busVars

\* An operation that has begun ends, with an answer or a timeout, and close() goes on; the
\* lock is released again and again and the daemon gets it in the end.  Nothing says that
\* anybody opens, starts, stops, closes or calls, nor that the network comes back.
BusFairness ==
  /\ \A t \in Threads : WF_busVars(Reconnect(t)) /\ WF_busVars(Request(t))
  /\ WF_busVars(StopInClose) /\ WF_busVars(Join) /\ WF_busVars(ClosePublishers) /\ WF_busVars(CloseClient)
  /\ WF_busVars(Loop) /\ SF_busVars(Enter(Daemon))

BusSpec == Safety /\ BusFairness

----------------------------------------------------------------------------
(* Properties *)

Stages(t) ==
  {"reconnect", "request"}
    \cup IF t = Daemon THEN {"unborn", "dead", "loop", "poll"} ELSE {"idle"}
    \cup IF t = Owner THEN {"close", "join_in_stop", "join_in_close", "close_publishers", "close_client"} ELSE {}

\* Every variable has its type, and every thread is where its own code can be.
BusTypeOK ==
  /\ link \in Links /\ up \in BOOLEAN /\ outages \in 0..MaxOutages /\ failed \in BOOLEAN
  /\ lock \in Threads \cup {Nobody}
  /\ stopping \in BOOLEAN /\ opened \in BOOLEAN
  /\ pc \in [Threads -> UNION {Stages(t) : t \in Threads}]
  /\ \A t \in Threads : pc[t] \in Stages(t)

Inside(t) == pc[t] \in {"reconnect", "request"}

\* A thread inside the native session holds the lock and the client under it stays open:
\* close() never takes the client from an operation that has passed its checks.
ClientInUse == \A t \in Threads : Inside(t) => lock = t /\ opened

\* A request goes out over a client, as expect("client should be connected") has it, and
\* never over one that has already failed with a retryable error.
RequestHasClient == \A t \in Threads : pc[t] = "request" => link # "none" /\ ~failed

\* A closed session stays closed: no operation connects again behind close().
ClosedStaysClosed == ~opened => link = "none"

\* stop() and close() return, whatever the daemon and the users are in the middle of.
CloseReturns == (pc[Owner] # "idle" /\ ~Inside(Owner)) ~> (pc[Owner] = "idle")

\* However the connection was lost, polling resumes by itself once the PLC can be reached.
PollingRecovers ==
  <>[](up /\ opened /\ DaemonAlive /\ ~stopping)
    => []<>(pc[Daemon] = "request" /\ link = "live")

\* stop() ends the background daemon and nothing else: when it returns, a device that is
\* open can be read and written.
StopLeavesDeviceOpen ==
  [][pc[Owner] = "join_in_stop" /\ pc'[Owner] = "idle" /\ opened => Usable']_busVars
=============================================================================
