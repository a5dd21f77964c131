------------------------------- MODULE NiDriver -------------------------------
(***************************************************************************)
(* instro.daq.drivers.ni: the analog-input task of DAQmx.  The task holds  *)
(* the channels in the order in which they were added to it; close()       *)
(* destroys it, while _ai_channels and _ai_hw_timing_config survive.       *)
(***************************************************************************)
EXTENDS DaqDriver

VARIABLES
  aitask,    \* channels of _tasks[ANALOG_INPUT], <<>> when there is no task
  clocked,   \* the task has a sample clock
  airunning  \* ANALOG_INPUT is in _running_channel_types

ni == <<aitask, clocked, airunning>>

NiInit ==
  /\ aitask = <<>>
  /\ clocked = FALSE
  /\ airunning = FALSE

\* open() looks for the device; tasks are made by the first configure call.
NiOpen == UNCHANGED <<ni, board>>

InTask(c) == \E i \in DOMAIN aitask : aitask[i] = c

\* configure_ai_channel(): DAQmx refuses a channel the task has already.
NiConfigureAi(c) ==
  /\ ~InTask(c)
  /\ aitask' = Append(aitask, c)
  /\ ai' = Inserted(ai, c)
  /\ UNCHANGED <<clocked, airunning>>

\* configure_ai_hw_timing(): a task without channels cannot be timed.
NiConfigureTiming(n) ==
  /\ aitask # <<>>
  /\ clocked' = TRUE
  /\ timing' = n
  /\ UNCHANGED <<aitask, airunning>>

\* start() raises: the task runs already, or it has been started and only then the
\* missing sample rate is noticed.
NiStartRaises ==
  \/ airunning /\ UNCHANGED <<airunning, stamper, board>>
  \/ /\ ~airunning /\ aitask # <<>> /\ timing = 0
     /\ airunning' = TRUE
     /\ stamper' = <<>>
     /\ UNCHANGED board

\* start() of a driver without tasks starts nothing.
NiStartNothing ==
  /\ ~airunning
  /\ aitask = <<>>
  /\ UNCHANGED <<airunning, stamper, board>>

\* With the sample clock configured for this task.
NiStart ==
  /\ ~airunning
  /\ aitask # <<>> /\ timing # 0 /\ clocked
  /\ airunning' = TRUE
  /\ stamper' = <<>>
  /\ BeginScan(aitask)

NiStop ==
  /\ airunning' = FALSE
  /\ EndScan
  /\ stamper' = <<>>

NiClose ==
  /\ aitask' = <<>>
  /\ clocked' = FALSE
  /\ airunning' = FALSE

\* zip() of the registered names with the data of the task's channels.
TaskNames == SubSeq(ai, 1, Len(aitask))

\* _read_to_measurements().
NiMeasurements(size) ==
  PublishBatch(TaskNames, Samples(taken, size), made, Len(aitask))

\* fetch_analog(): task.read() of the next samples_per_channel scans.
NiFetch ==
  LET size == Len(aitask) * timing
  IN  /\ fpc = "poll"
      /\ scanning /\ made >= taken + size
      /\ NiMeasurements(size)
      /\ Consume(size)
      /\ fpc' = "idle"

\* task.read() gives up after ten seconds without the samples, fetch_analog() at once
\* without a task that runs.
NiFetchRaises ==
  /\ fpc = "poll"
  /\ ~airunning \/ ~scanning \/ made < taken + Len(aitask) * timing
  /\ fpc' = "idle"

NiRead ==
  /\ aitask # <<>>
  /\ PublishReading(TaskNames, aitask)

=============================================================================
