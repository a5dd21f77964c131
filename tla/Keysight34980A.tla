---------------------------- MODULE Keysight34980A ----------------------------
(***************************************************************************)
(* instro.daq.drivers.keysight_34980a: the instrument keeps the scan list, *)
(* the trigger and the readings; *RST at open() clears them, while         *)
(* _ai_channels and _ai_hw_timing_config survive close().  The instrument  *)
(* scans in the order of the channel numbers and stamps its readings       *)
(* itself; the driver orders the registered channels the same way.         *)
(***************************************************************************)
EXTENDS DaqDriver

VARIABLES
  routed,  \* ROUT:SCAN: the channels in the instrument's scan list
  timer    \* TRIG:SOUR TIMER, TRIG:COUN INF

keysight == <<routed, timer>>

KeysightInit ==
  /\ routed = {}
  /\ timer = FALSE

\* The numbers of S in order: the i-th has i - 1 below it.
Ascending(S) ==
  [i \in 1..Cardinality(S) |-> CHOOSE c \in S : Cardinality({d \in S : d < c}) = i - 1]

\* The instrument clears its readings when it is reset or configured.
ClearReadings ==
  /\ taken' = made
  /\ UNCHANGED <<scanlist, made>>

\* open(): *RST.
KeysightOpen ==
  /\ routed' = {}
  /\ timer' = FALSE
  /\ scanning' = FALSE
  /\ ClearReadings

\* configure_ai_channel(): the channel is in the scan list before the instrument is asked
\* for errors, and in _ai_channels after that.
KeysightConfigureAi(c, ok) ==
  /\ routed' = routed \cup {c}
  /\ ai' = IF ok THEN Inserted(ai, c) ELSE ai
  /\ ClearReadings
  /\ UNCHANGED <<timer, scanning>>

KeysightConfigureTiming(n) ==
  /\ timer' = TRUE
  /\ timing' = n
  /\ ClearReadings
  /\ UNCHANGED <<routed, scanning>>

\* start() raises: INIT without a scan list, or while a scan runs.
KeysightStartRaises ==
  /\ routed = {} \/ scanning
  /\ UNCHANGED <<keysight, board>>

\* INIT clears the readings; without the timer the instrument makes one scan and is idle.
KeysightStart ==
  /\ routed # {} /\ ~scanning
  /\ \/ timer /\ BeginScan(Ascending(routed))
     \/ /\ ~timer
        /\ scanlist' = Ascending(routed)
        /\ made' = Cardinality(routed) /\ taken' = 0
        /\ UNCHANGED scanning
  /\ UNCHANGED keysight

\* ABORt: the readings so far stay in memory.
KeysightStop == scanning' = FALSE /\ UNCHANGED <<scanlist, made, taken>>

\* get_scanlist(): the registered channels as the instrument scans them.
GetScanlist == Ascending({ai[i] : i \in DOMAIN ai})

Registered == Len(ai)

\* The readings in memory that DATA:REM? takes: as many full scans as there are.
Removable == ((made - taken) \div Registered) * Registered

\* _scale_analog_measurement() looks for every scaled channel in every measurement; the
\* driver makes a measurement of each channel.
ScalingRaises == scaled # {} /\ Registered > 1

\* _read_to_measurements(): a measurement of each channel, at the instrument's own stamps.
KeysightMeasurements ==
  [p \in 1..Removable |->
     [name |-> GetScanlist[((p - 1) % Registered) + 1],
      ch |-> Sample(taken + p - 1).ch,
      at |-> Sample(taken + p - 1).at,
      t |-> Sample(taken + p - 1).at]]

\* fetch_analog() and what the instrument stamped.  The readings are gone from the memory
\* when _check_errors() raises over an error that the instrument reports, or the scaling does.
KeysightFetch ==
  /\ fpc = "poll"
  /\ timing # 0 /\ ai # <<>> /\ made - taken >= FetchSize
  /\ Consume(Removable)
  /\ \/ ~ScalingRaises /\ out' = KeysightMeasurements
     \/ UNCHANGED out
  /\ fpc' = "idle"
  /\ UNCHANGED stamper

\* The only ways out before readings are taken: no rate was ever configured, or no channel.
KeysightFetchRaises ==
  /\ fpc = "poll"
  /\ timing = 0 \/ ai = <<>>
  /\ fpc' = "idle"

\* READ? of the registered channels.
KeysightRead ==
  /\ ai # <<>>
  /\ ~ScalingRaises
  /\ PublishReading(GetScanlist, GetScanlist)

=============================================================================
