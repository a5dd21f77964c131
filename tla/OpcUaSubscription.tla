------------------------- MODULE OpcUaSubscription -------------------------
(***************************************************************************)
(* packages/instro-opcua: the subscription pump of OpcUaClient, the        *)
(* session that runs it and the client it holds weakly.  The pump waits    *)
(* for a poll tick or a notification.  A notification is passed on at      *)
(* once; a tick reads the nodes that have not notified and keeps what it   *)
(* read for one more tick, so that a late notification can replace it.     *)
(*                                                                         *)
(* The server is external.  Its clock is its timestamps; the value of a    *)
(* node is the time at which it last changed.  A change is notified if the *)
(* node is monitored, after any delay, in order; a server whose queue for  *)
(* the node is full discards the oldest notification.                      *)
(***************************************************************************)
EXTENDS Naturals, Sequences

CONSTANTS
  Nodes,       \* the nodes of the subscription
  Monitored,   \* those for which the server has created a monitored item
  QueueSize,   \* the server's queue of a monitored item
  MaxClock     \* bound: server time

ASSUME MonitoredAssumption == Monitored \subseteq Nodes
ASSUME QueueSizeAssumption == QueueSize \in Nat \ {0}
ASSUME MaxClockAssumption == MaxClock \in Nat

VARIABLES
  clock, changed, inbox,   \* server time; last change of each node; undelivered notifications
  loop,                    \* where the pump is
  quiet,                   \* quiet_nodes
  polled,                  \* polled_nodes: samples read at a tick and kept back
  reads,                   \* the answer to the read in flight
  emitted,                 \* history: timestamp of the last sample of each node given to on_data
  reported,                \* history: the newest value of each node given to on_data
  flushed,                 \* history: timestamp of the last sample a tick has flushed
  held,                    \* the user holds an Arc of the client
  disconnected             \* disconnect() has disconnected gracefully

server == <<clock, changed, inbox>>
output == <<emitted, reported, flushed>>
client == <<held, disconnected>>
vars == <<server, loop, quiet, polled, reads, output, client>>

Sample == [ts : 0..MaxClock, val : 0..MaxClock]
NoSamples == [n \in {} |-> [ts |-> 0, val |-> 0]]
Newest(a, b) == IF a >= b THEN a ELSE b

\* The strong references: the user's, and the one read_nodes() holds while it waits.
Alive == held \/ loop \in {"reading", "answered"}

Running == loop \in {"select", "flushed", "reading", "answered"}

Init ==
  /\ clock = 0
  /\ changed = [n \in Nodes |-> 0]
  /\ inbox = [n \in Nodes |-> <<>>]
  /\ loop = "select"
  /\ quiet = Nodes
  /\ polled = NoSamples
  /\ reads = NoSamples
  /\ emitted = [n \in Nodes |-> 0]
  /\ reported = [n \in Nodes |-> 0]
  /\ flushed = [n \in Nodes |-> 0]
  /\ held = TRUE
  /\ disconnected = FALSE

----------------------------------------------------------------------------
(* The server *)

Elapse ==
  /\ clock < MaxClock
  /\ clock' = clock + 1
  /\ UNCHANGED <<changed, inbox, loop, quiet, polled, reads, output, client>>

Change(n) ==
  /\ clock < MaxClock
  /\ clock' = clock + 1
  /\ changed' = [changed EXCEPT ![n] = clock + 1]
  /\ inbox' = [inbox EXCEPT ![n] =
                 IF n \notin Monitored THEN @
                 ELSE Append(IF Len(@) = QueueSize THEN Tail(@) ELSE @, clock + 1)]
  /\ UNCHANGED <<loop, quiet, polled, reads, output, client>>

----------------------------------------------------------------------------
(* The pump: subscription_loop *)

\* on_data() of the samples in polled_nodes, in any order: at most one for a node.
Flush ==
  /\ emitted' = [n \in Nodes |-> IF n \in DOMAIN polled THEN polled[n].ts ELSE emitted[n]]
  /\ reported' = [n \in Nodes |->
                    IF n \in DOMAIN polled THEN Newest(reported[n], polled[n].val) ELSE reported[n]]
  /\ flushed' = [n \in Nodes |-> IF n \in DOMAIN polled THEN polled[n].ts ELSE flushed[n]]

\* Bugs of the usual kind: what was polled is dropped, not flushed, at a tick; nodes that
\* have notified are not made quiet again after one.
TickDrops ==
  /\ loop = "select"
  /\ Alive
  /\ polled' = NoSamples
  /\ loop' = "flushed"
  /\ UNCHANGED <<server, quiet, reads, output, client>>

ReadNeverResets ==
  /\ loop = "answered"
  /\ polled' = [n \in DOMAIN polled \cup DOMAIN reads |->
                  IF n \in DOMAIN reads THEN reads[n] ELSE polled[n]]
  /\ reads' = NoSamples
  /\ loop' = "select"
  /\ UNCHANGED <<server, quiet, output, client>>

\* A tick that finds the client alive flushes what the previous one has read.
Tick ==
  /\ loop = "select"
  /\ Alive
  /\ Flush
  /\ polled' = NoSamples
  /\ loop' = "flushed"
  /\ UNCHANGED <<server, quiet, reads, client>>

\* The tick goes on: read the quiet nodes, if there are any and the client can still be
\* upgraded.  An upgrade that fails is a read that fails.
StartRead ==
  /\ loop = "flushed"
  /\ IF quiet = {} THEN quiet' = Nodes /\ loop' = "select"
     ELSE UNCHANGED quiet /\ loop' = IF held THEN "reading" ELSE "select"
  /\ UNCHANGED <<server, polled, reads, output, client>>

\* read_nodes(): the server answers, and what cannot be decoded is left out.
Answer ==
  /\ loop = "reading"
  /\ \E got \in SUBSET quiet :
       reads' = [n \in got |-> [ts |-> clock, val |-> changed[n]]]
  /\ loop' = "answered"
  /\ UNCHANGED <<server, quiet, polled, output, client>>

\* The samples that were read wait in polled_nodes, and every node is quiet again.
ReadDone ==
  /\ loop = "answered"
  /\ polled' = [n \in DOMAIN polled \cup DOMAIN reads |->
                  IF n \in DOMAIN reads THEN reads[n] ELSE polled[n]]
  /\ reads' = NoSamples
  /\ quiet' = Nodes
  /\ loop' = "select"
  /\ UNCHANGED <<server, output, client>>

\* The read fails, and `continue` skips the reset of quiet_nodes.
ReadFails ==
  /\ loop = "reading"
  /\ loop' = "select"
  /\ UNCHANGED <<server, quiet, polled, reads, output, client>>

\* Bug of the usual kind: the polled sample is passed on behind the notification.
NotifyBehind(n) ==
  /\ loop = "select"
  /\ inbox[n] # <<>>
  /\ inbox' = [inbox EXCEPT ![n] = Tail(@)]
  /\ quiet' = quiet \ {n}
  /\ reported' = [reported EXCEPT ![n] = Newest(@, Head(inbox[n]))]
  /\ emitted' = [emitted EXCEPT ![n] = Head(inbox[n])]
  /\ UNCHANGED <<clock, changed, loop, polled, reads, flushed, client>>

\* One notification of a chunk: an older polled sample of its node goes before it, a
\* same-or-newer one is dropped.
Notify(n) ==
  /\ loop = "select"
  /\ inbox[n] # <<>>
  /\ LET ts == Head(inbox[n])
         older == n \in DOMAIN polled /\ polled[n].ts < ts
     IN  /\ emitted' = [emitted EXCEPT ![n] = ts]
         /\ reported' = [reported EXCEPT ![n] = Newest(Newest(@, IF older THEN polled[n].val ELSE 0), ts)]
  /\ inbox' = [inbox EXCEPT ![n] = Tail(@)]
  /\ quiet' = quiet \ {n}
  /\ polled' = [m \in DOMAIN polled \ {n} |-> polled[m]]
  /\ UNCHANGED <<clock, changed, loop, reads, flushed, client>>

\* The tick that finds the client gone, or the end of the stream: leave the loop, then flush.
Exit ==
  /\ loop = "select"
  /\ ~Alive \/ \A n \in Nodes : inbox[n] = <<>>
  /\ Flush
  /\ polled' = NoSamples
  /\ loop' = "ended"
  /\ UNCHANGED <<server, quiet, reads, client>>

----------------------------------------------------------------------------
(* The session and the client *)

\* OpcUaStreamSession: stop_rx wins the select! and the pump is dropped where it waits.
StopSession ==
  /\ Running
  /\ loop' = "cancelled"
  /\ polled' = NoSamples
  /\ reads' = NoSamples
  /\ UNCHANGED <<server, quiet, output, client>>

\* Bug of the usual kind: disconnect() does not care who else holds the client.
DisconnectAnyway ==
  /\ held
  /\ held' = FALSE
  /\ disconnected' = TRUE
  /\ UNCHANGED <<server, loop, quiet, polled, reads, output>>

\* disconnect() consumes the user's Arc, and disconnects only if it is the last one.
Disconnect ==
  /\ held
  /\ held' = FALSE
  /\ disconnected' = (loop \notin {"reading", "answered"})
  /\ UNCHANGED <<server, loop, quiet, polled, reads, output>>

----------------------------------------------------------------------------
Next ==
  \/ Elapse
  \/ \E n \in Nodes : Change(n) \/ Notify(n)
  \/ Tick \/ StartRead \/ Answer \/ ReadDone \/ ReadFails \/ Exit
  \/ StopSession \/ Disconnect

\* An answer that holds every node that was asked for.
FullAnswer == Answer /\ DOMAIN reads' = quiet

\* The timer ticks, the pump runs, and a read that is tried again and again is answered
\* in full one day.  The server need not change or deliver anything.
Fairness ==
  /\ WF_vars(Tick)
  /\ WF_vars(StartRead)
  /\ WF_vars(ReadDone)
  /\ WF_vars(Answer \/ ReadFails)
  /\ SF_vars(FullAnswer)

Spec == Init /\ [][Next]_vars /\ Fairness

----------------------------------------------------------------------------
(* Properties *)

\* Every variable has its type: for the reader, and proved.
TypeOK ==
  /\ clock \in 0..MaxClock
  /\ changed \in [Nodes -> 0..MaxClock]
  /\ \A n \in Nodes : inbox[n] \in Seq(1..MaxClock) /\ Len(inbox[n]) <= QueueSize
  /\ Running \/ loop \in {"ended", "cancelled"}
  /\ quiet \subseteq Nodes
  /\ DOMAIN polled \subseteq Nodes /\ \A n \in DOMAIN polled : polled[n] \in Sample
  /\ DOMAIN reads \subseteq Nodes /\ \A n \in DOMAIN reads : reads[n] \in Sample
  /\ emitted \in [Nodes -> 0..MaxClock]
  /\ reported \in [Nodes -> 0..MaxClock]
  /\ flushed \in [Nodes -> 0..MaxClock]
  /\ held \in BOOLEAN /\ disconnected \in BOOLEAN

\* Keeping polled samples back for a tick keeps the timestamps of a node in order: they
\* go back only for a notification that arrives after the poll that overtook it was flushed.
OvertakenOnlyAfterFlush ==
  [][\A n \in Nodes : emitted'[n] < emitted[n] => emitted'[n] <= flushed[n]]_vars

\* A polled sample that a notification replaces held nothing new: whatever the pump has
\* read of a node has been passed on, waits in polled_nodes, or is still to be notified.
PolledValueSurvives ==
  [][\A n \in DOMAIN polled :
       loop' # "cancelled" =>
         \/ n \in DOMAIN polled' /\ polled'[n].val >= polled[n].val
         \/ reported'[n] >= polled[n].val
         \/ \E i \in DOMAIN inbox'[n] : inbox'[n][i] >= polled[n].val]_vars

\* A graceful disconnect never happens under a read, and no read starts after it.
NoReadAfterDisconnect == disconnected => loop \notin {"reading", "answered"}

\* Every change of a node is reported, it or a newer one, while the pump runs: also when
\* the server never monitored the node or has discarded its notification.
ChangesAreReported ==
  \A n \in Nodes, t \in 1..MaxClock :
    changed[n] = t ~> (reported[n] >= t \/ ~Running \/ ~held)
=============================================================================
