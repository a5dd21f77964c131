----------------------------- MODULE Instrument -----------------------------
(***************************************************************************)
(* instro.lib.instrument: the life cycle every instrument inherits.  One   *)
(* controlling thread calls open(), start(), stop() and close(); start()   *)
(* spawns a daemon thread that runs the registered functions, waits and    *)
(* publishes its timing; other threads call get_channel().  Nothing of     *)
(* this is locked: each action below is what one thread does between two   *)
(* points at which another can run.                                        *)
(*                                                                         *)
(* A channel buffer is a generation, numbered in the order in which        *)
(* _setup_channel_buffer creates them, and so is a daemon thread; 0 is     *)
(* None.  What a buffer holds is abstracted to the threads whose samples   *)
(* it holds (ChannelBuffer models the rest of it).                         *)
(***************************************************************************)
EXTENDS Naturals, Sequences, FiniteSets

CONSTANTS
  Readers,    \* threads that call get_channel()
  MaxStarts   \* bound: daemon threads started

ASSUME MaxStartsAssumption == MaxStarts \in Nat

VARIABLES
  publishers,  \* self.publishers: User, or a buffer's generation
  buffer,      \* self._channel_buffer
  nbuffers,    \* buffers created so far
  shut,        \* buffers whose close() was called
  holds,       \* for each buffer, the threads whose samples it holds
  thread,      \* self._background_thread
  live,        \* the daemon threads that is_alive() says are alive
  event,       \* self._background_stop_event
  tpc,         \* where each daemon thread is
  tidx,        \* its position in the loop over self.publishers
  ctl,         \* where the controlling thread is
  op,          \* the call it makes, or made last
  cidx,        \* its position in close()'s loop over self.publishers
  joined,      \* history: the threads stop() has joined
  rpc,         \* where each reader is
  rbuf,        \* the buffer each reader waits on
  rout         \* how each reader's last call ended

publishing == <<publishers, buffer, nbuffers, shut, holds>>
daemon == <<thread, live, event, tpc, tidx>>
control == <<ctl, op, cidx, joined>>
reading == <<rpc, rbuf, rout>>
vars == <<publishing, daemon, control, reading>>

User == 0       \* the publisher the user configured
None == 0
Generations == 1..MaxStarts
Threads == 1..MaxStarts

Elements(list) == {list[i] : i \in DOMAIN list}

\* list.remove(x): the first occurrence goes.
Without(list, x) ==
  LET k == CHOOSE i \in DOMAIN list : list[i] = x /\ \A j \in 1..i - 1 : list[j] # x
  IN  [i \in 1..Len(list) - 1 |-> IF i < k THEN list[i] ELSE list[i + 1]]

Init ==
  /\ publishers \in {<<>>, <<User>>}
  /\ buffer = None
  /\ nbuffers = 0
  /\ shut = {}
  /\ holds = [g \in Generations |-> {}]
  /\ thread = None
  /\ live = {}
  /\ event = FALSE
  /\ tpc = [t \in Threads |-> "unborn"]
  /\ tidx = [t \in Threads |-> 1]
  /\ ctl = "idle"
  /\ op = "none"
  /\ cidx = 1
  /\ joined = {}
  /\ rpc = [r \in Readers |-> "idle"]
  /\ rbuf = [r \in Readers |-> None]
  /\ rout = [r \in Readers |-> "none"]

Alive == thread # None /\ thread \in live

----------------------------------------------------------------------------
(* The controlling thread *)

\* add_publisher(), here once, before or after start().
AddPublisher ==
  /\ ctl = "idle"
  /\ User \notin Elements(publishers)
  /\ publishers' = Append(publishers, User)
  /\ UNCHANGED <<buffer, nbuffers, shut, holds, daemon, control, reading>>

\* open() of the fieldbus instruments clears the stop event, opened already or not.
Open ==
  /\ ctl = "idle"
  /\ op' = "open"
  /\ event' = FALSE
  /\ UNCHANGED <<publishing, thread, live, tpc, tidx, ctl, cidx, joined, reading>>

\* A bug of the usual kind: start() does not look at the running thread.
StartAlways ==
  /\ ctl = "idle"
  /\ thread < MaxStarts
  /\ op' = "start"
  /\ ctl' = "setup"
  /\ UNCHANGED <<publishing, daemon, cidx, joined, reading>>

\* start(): a no-op while the thread is alive.
Start ==
  /\ ctl = "idle"
  /\ Alive \/ thread < MaxStarts
  /\ op' = "start"
  /\ ctl' = IF Alive THEN "idle" ELSE "setup"
  /\ UNCHANGED <<publishing, daemon, cidx, joined, reading>>

\* A bug of the usual kind: the buffer is registered but not kept in the instrument.
RegisterOnly ==
  /\ ctl = "setup"
  /\ nbuffers' = nbuffers + 1
  /\ publishers' = Append(publishers, nbuffers + 1)
  /\ ctl' = "spawn"
  /\ UNCHANGED <<buffer, shut, holds, daemon, op, cidx, joined, reading>>

\* _setup_channel_buffer().
SetupChannelBuffer ==
  /\ ctl = "setup"
  /\ IF buffer = None
     THEN nbuffers' = nbuffers + 1 /\ buffer' = nbuffers + 1
     ELSE UNCHANGED <<nbuffers, buffer>>
  /\ publishers' = IF buffer' \in Elements(publishers) \ {User} THEN publishers
                   ELSE Append(publishers, buffer')
  /\ ctl' = "spawn"
  /\ UNCHANGED <<shut, holds, daemon, op, cidx, joined, reading>>

\* A bug of the usual kind: start() of the thread object comes before the assignment.
SpawnSwapped ==
  /\ ctl = "spawn"
  /\ event' = FALSE
  /\ thread' = thread + 1
  /\ live' = live \cup {thread}
  /\ tpc' = [tpc EXCEPT ![thread + 1] = "check"]
  /\ ctl' = "idle"
  /\ UNCHANGED <<publishing, tidx, op, cidx, joined, reading>>

\* start() goes on: clear the event, create the thread and start it.
Spawn ==
  /\ ctl = "spawn"
  /\ event' = FALSE
  /\ thread' = thread + 1
  /\ live' = live \cup {thread + 1}
  /\ tpc' = [tpc EXCEPT ![thread + 1] = "check"]
  /\ ctl' = "idle"
  /\ UNCHANGED <<publishing, tidx, op, cidx, joined, reading>>

\* A bug of the usual kind: the thread is joined without being told to stop.
StopWithoutSignal ==
  /\ UNCHANGED event
  /\ ctl' = IF Alive THEN "join" ELSE IF op' = "close" THEN "closing" ELSE "idle"

\* stop(), called by the user or by close(): where the controlling thread goes next.
StopFrom ==
  IF Alive
  THEN event' = TRUE /\ ctl' = "join"
  ELSE event' = event /\ ctl' = IF op' = "close" THEN "closing" ELSE "idle"

Stop ==
  /\ ctl = "idle"
  /\ op' = "stop"
  /\ StopFrom
  /\ UNCHANGED <<publishing, thread, live, tpc, tidx, cidx, joined, reading>>

\* close() of the fieldbus instruments sets the event before anything else.
SignalAndClose ==
  /\ ctl = "idle"
  /\ op' = "close"
  /\ event' = TRUE
  /\ ctl' = "stop"
  /\ cidx' = 1
  /\ UNCHANGED <<publishing, thread, live, tpc, tidx, joined, reading>>

\* Instrument.close(): stop() comes first.
Close ==
  /\ ctl = "idle"
  /\ op' = "close"
  /\ ctl' = "stop"
  /\ cidx' = 1
  /\ UNCHANGED <<publishing, daemon, joined, reading>>

StopInClose ==
  /\ ctl = "stop"
  /\ UNCHANGED op
  /\ StopFrom
  /\ UNCHANGED <<publishing, thread, live, tpc, tidx, cidx, joined, reading>>

\* A bug of the usual kind: stop() does not wait for the thread.
JoinWithoutWaiting ==
  /\ ctl = "join"
  /\ joined' = joined \cup {thread}
  /\ ctl' = "close_buffer"
  /\ UNCHANGED <<publishing, daemon, op, cidx, reading>>

\* thread.join().
Join ==
  /\ ctl = "join"
  /\ thread \notin live
  /\ joined' = joined \cup {thread}
  /\ ctl' = "close_buffer"
  /\ UNCHANGED <<publishing, daemon, op, cidx, reading>>

\* A bug of the usual kind: the buffer is dropped without close().
LeaveBufferOpen ==
  /\ ctl = "close_buffer"
  /\ ctl' = "drop_buffer"
  /\ UNCHANGED <<publishing, daemon, op, cidx, joined, reading>>

\* stop() goes on: close() of the buffer empties it and wakes its readers.
CloseBuffer ==
  /\ ctl = "close_buffer"
  /\ shut' = shut \cup {buffer}
  /\ holds' = [holds EXCEPT ![buffer] = {}]
  /\ ctl' = "drop_buffer"
  /\ UNCHANGED <<publishers, buffer, nbuffers, daemon, op, cidx, joined, reading>>

\* A bug of the usual kind: the closed buffer stays registered.
ForgetBuffer ==
  /\ ctl = "drop_buffer"
  /\ buffer' = None
  /\ ctl' = IF op = "close" THEN "closing" ELSE "idle"
  /\ UNCHANGED <<publishers, nbuffers, shut, holds, daemon, op, cidx, joined, reading>>

\* stop() ends: the buffer is unregistered and forgotten.
DropBuffer ==
  /\ ctl = "drop_buffer"
  /\ publishers' = IF buffer \in Elements(publishers) THEN Without(publishers, buffer) ELSE publishers
  /\ buffer' = None
  /\ ctl' = IF op = "close" THEN "closing" ELSE "idle"
  /\ UNCHANGED <<nbuffers, shut, holds, daemon, op, cidx, joined, reading>>

\* close() closes the publishers one by one; a user's publisher may raise, which ends close().
ClosePublisher ==
  /\ ctl = "closing"
  /\ IF cidx > Len(publishers)
     THEN ctl' = "idle" /\ UNCHANGED <<shut, holds, cidx>>
     ELSE IF publishers[cidx] = User
     THEN /\ ctl' \in {"closing", "idle"}
          /\ cidx' = cidx + 1
          /\ UNCHANGED <<shut, holds>>
     ELSE /\ shut' = shut \cup {publishers[cidx]}
          /\ holds' = [holds EXCEPT ![publishers[cidx]] = {}]
          /\ cidx' = cidx + 1
          /\ UNCHANGED ctl
  /\ UNCHANGED <<publishers, buffer, nbuffers, daemon, op, joined, reading>>

----------------------------------------------------------------------------
(* The daemon thread t: _background_daemon_loop *)

Die(t) ==
  /\ live' = live \ {t}
  /\ tpc' = [tpc EXCEPT ![t] = "dead"]
  /\ UNCHANGED tidx

Check(t) ==
  /\ tpc[t] = "check"
  /\ IF event THEN Die(t)
     ELSE tpc' = [tpc EXCEPT ![t] = "work"] /\ UNCHANGED <<live, tidx>>
  /\ UNCHANGED <<publishing, thread, event, control, reading>>

\* _background_daemon(): a function raises, which is caught, or publishes a measurement.
Work(t) ==
  /\ tpc[t] = "work"
  /\ \/ tpc' = [tpc EXCEPT ![t] = "wait"] /\ UNCHANGED tidx
     \/ tpc' = [tpc EXCEPT ![t] = "publish"] /\ tidx' = [tidx EXCEPT ![t] = 1]
  /\ UNCHANGED <<publishing, thread, live, event, control, reading>>

\* stop_event.wait(interval), then _publish_daemon_timing().
Wait(t) ==
  /\ tpc[t] = "wait"
  /\ tpc' = [tpc EXCEPT ![t] = "timing"]
  /\ tidx' = [tidx EXCEPT ![t] = 1]
  /\ UNCHANGED <<publishing, thread, live, event, control, reading>>

\* One round of publish()'s loop over self.publishers, for a measurement of a daemon
\* function (at = "publish") or for the timing (at = "timing").  A publisher that raises
\* ends the function's turn in the first case, and the thread in the second.
Fan(t, at, next) ==
  /\ tpc[t] = at
  /\ IF tidx[t] > Len(publishers)
     THEN /\ tpc' = [tpc EXCEPT ![t] = next]
          /\ UNCHANGED <<holds, live, tidx>>
     ELSE IF publishers[tidx[t]] = User
     THEN /\ \/ tidx' = [tidx EXCEPT ![t] = @ + 1] /\ UNCHANGED <<tpc, live>>
             \/ at = "publish" /\ tpc' = [tpc EXCEPT ![t] = "wait"] /\ UNCHANGED <<live, tidx>>
             \/ at = "timing" /\ Die(t)
          /\ UNCHANGED holds
     ELSE /\ holds' = [holds EXCEPT ![publishers[tidx[t]]] = @ \cup {t}]
          /\ tidx' = [tidx EXCEPT ![t] = @ + 1]
          /\ UNCHANGED <<tpc, live>>
  /\ UNCHANGED <<publishers, buffer, nbuffers, shut, thread, event, control, reading>>

PublishMethod(t) == Fan(t, "publish", "wait")
PublishTiming(t) == Fan(t, "timing", "check")

DaemonStep(t) == Check(t) \/ Work(t) \/ Wait(t) \/ PublishMethod(t) \/ PublishTiming(t)

----------------------------------------------------------------------------
(* A reader r: get_channel() *)

\* The daemon is alive, or RuntimeError.
GetChannel(r) ==
  /\ rpc[r] = "idle"
  /\ IF Alive
     THEN rpc' = [rpc EXCEPT ![r] = "assert"] /\ rout' = [rout EXCEPT ![r] = "none"]
     ELSE rout' = [rout EXCEPT ![r] = "not_started"] /\ UNCHANGED rpc
  /\ UNCHANGED <<publishing, daemon, control, rbuf>>

EndGet(r, result) ==
  /\ rpc' = [rpc EXCEPT ![r] = "idle"]
  /\ rbuf' = [rbuf EXCEPT ![r] = None]
  /\ rout' = [rout EXCEPT ![r] = result]

\* assert self._channel_buffer.
AssertBuffer(r) ==
  /\ rpc[r] = "assert"
  /\ IF buffer = None THEN EndGet(r, "assertion")
     ELSE rpc' = [rpc EXCEPT ![r] = "load"] /\ UNCHANGED <<rbuf, rout>>
  /\ UNCHANGED <<publishing, daemon, control>>

\* self._channel_buffer is read again, and get() called on it.
LoadBuffer(r) ==
  /\ rpc[r] = "load"
  /\ IF buffer = None THEN EndGet(r, "attribute")
     ELSE /\ rpc' = [rpc EXCEPT ![r] = "blocked"]
          /\ rbuf' = [rbuf EXCEPT ![r] = buffer]
          /\ UNCHANGED rout
  /\ UNCHANGED <<publishing, daemon, control>>

\* get() of the buffer returns: data, or the publisher is closed.
GetReturns(r) ==
  /\ rpc[r] = "blocked"
  /\ \/ rbuf[r] \in shut /\ EndGet(r, "closed")
     \/ rbuf[r] \notin shut /\ holds[rbuf[r]] # {} /\ EndGet(r, "data")
  /\ UNCHANGED <<publishing, daemon, control>>

GetTimesOut(r) ==
  /\ rpc[r] = "blocked"
  /\ EndGet(r, "timeout")
  /\ UNCHANGED <<publishing, daemon, control>>

ReaderStep(r) == AssertBuffer(r) \/ LoadBuffer(r) \/ GetReturns(r)

----------------------------------------------------------------------------
\* What the controlling thread does of itself once it is in a call.
ControlStep ==
  \/ SetupChannelBuffer \/ Spawn \/ StopInClose \/ Join
  \/ CloseBuffer \/ DropBuffer \/ ClosePublisher

Next ==
  \/ AddPublisher \/ Open \/ Start \/ Stop \/ Close \/ SignalAndClose
  \/ ControlStep
  \/ \E t \in Threads : DaemonStep(t)
  \/ \E r \in Readers : GetChannel(r) \/ ReaderStep(r) \/ GetTimesOut(r)

\* Threads that can run do run; nobody has to call anything, and no timeout has to fire.
Fairness ==
  /\ WF_vars(ControlStep)
  /\ \A t \in Threads : WF_vars(DaemonStep(t))
  /\ \A r \in Readers : WF_vars(ReaderStep(r))

Spec == Init /\ [][Next]_vars /\ Fairness

----------------------------------------------------------------------------
(* Properties *)

Calls == {"none", "open", "start", "stop", "close"}
ControlPoints ==
  {"idle", "setup", "spawn", "stop", "join", "close_buffer", "drop_buffer", "closing"}
DaemonPoints == {"unborn", "check", "work", "publish", "wait", "timing", "dead"}
Results == {"none", "not_started", "assertion", "attribute", "closed", "data", "timeout"}

\* Every variable has its type.
TypeOK ==
  /\ publishers \in Seq({User} \cup Generations)
  /\ buffer \in {None} \cup Generations
  /\ nbuffers \in 0..MaxStarts
  /\ shut \subseteq Generations
  /\ holds \in [Generations -> SUBSET Threads]
  /\ thread \in {None} \cup Threads
  /\ live \subseteq Threads
  /\ event \in BOOLEAN
  /\ tpc \in [Threads -> DaemonPoints]
  /\ tidx \in [Threads -> Nat \ {0}]
  /\ ctl \in ControlPoints
  /\ op \in Calls
  /\ cidx \in Nat \ {0}
  /\ joined \subseteq Threads
  /\ rpc \in [Readers -> {"idle", "assert", "load", "blocked"}]
  /\ rbuf \in [Readers -> {None} \cup Generations]
  /\ rout \in [Readers -> Results]

\* start() is a no-op while a daemon runs and stop() joins it, so however daemons are
\* started, stopped and killed by their publishers, two never run at once.
OneDaemon == \A t, u \in live : t = u

\* Once stop() or close() has returned, no daemon thread is left to publish anything,
\* until the next start().
QuietAfterStop == ctl = "idle" /\ op \in {"stop", "close"} => live = {}

\* The assert in stop(): the thread it has joined has left a channel buffer to close.
StopFindsItsBuffer == ctl \in {"join", "close_buffer", "drop_buffer"} => buffer # None

\* Once stop() has joined a daemon, get_channel() never finds what that daemon, or one
\* that shared its buffer, has sampled, whatever is started afterwards.
OldSamplesUnreachable ==
  \A g \in Generations :
    holds[g] \cap joined # {} => ctl = "close_buffer" /\ g = buffer

\* Buffers do not pile up in self.publishers: over any number of starts, stops and deaths
\* of the daemon it holds the current buffer at most, and at most once.
NoBufferLeak ==
  \A i, j \in DOMAIN publishers :
    (publishers[i] # User /\ publishers[j] # User) => i = j /\ publishers[i] = buffer

\* stop() returns: the daemon leaves its loop and the controlling thread goes on.
StopReturns == ctl = "join" ~> ctl = "idle"

\* A reader blocked in get_channel() when stop() is called is released, without its timeout.
StopReleasesReaders == \A r \in Readers : (ctl = "join" /\ rpc[r] = "blocked") ~> (rpc[r] = "idle")

\* The comment in stop() says that close() of a buffer is one-way, so the next start()
\* builds and registers a fresh one: a running daemon never publishes to a closed buffer.
StartBuildsFreshBuffer == ctl = "idle" /\ live # {} => buffer \notin shut
=============================================================================
