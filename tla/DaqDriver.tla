------------------------------- MODULE DaqDriver -------------------------------
(***************************************************************************)
(* instro.daq: what every DAQ driver holds (DAQDriverBase), the timestamps *)
(* of its batches (HWTimestamper) and the board behind it.                 *)
(*                                                                         *)
(* A board samples the channels of its scan list in turn, one sample per   *)
(* tick; time is counted from the start of the acquisition, so sample n is *)
(* taken at tick n.  A channel's alias and its physical name are one       *)
(* number; channels are numbered in the order of their addresses.          *)
(***************************************************************************)
EXTENDS Naturals, Sequences, FiniteSets

CONSTANTS
  Channels,   \* physical analog inputs, numbers
  MaxTime     \* bound: ticks of an acquisition

VARIABLES
  ai,        \* _ai_channels: a dict keeps the order of its insertions
  scaled,    \* the channels configured with a scaler
  timing,    \* _ai_hw_timing_config.samples_per_channel, 0 for None
  stamper,   \* _timestamper: <<>> for None, or <<last timestamp>>
  scanning,  \* the board runs a scan
  scanlist,  \* its channels, in the order in which it samples them
  made,      \* samples it has taken, and the time
  taken,     \* samples the driver has consumed
  out,       \* the last measurement of the acquisition, sample by sample
  fpc        \* where fetch_analog() is: idle, poll, window, copy, verify or return

base == <<ai, scaled, timing>>
board == <<scanning, scanlist, made, taken>>

\* d[key] = ... on a dict: a new key goes to the end, an old one keeps its place.
Inserted(dict, key) ==
  IF \E i \in DOMAIN dict : dict[i] = key THEN dict ELSE Append(dict, key)

\* Sample n of the scan.
Sample(n) == [ch |-> scanlist[(n % Len(scanlist)) + 1], at |-> n]
Samples(first, n) == [i \in 1..n |-> Sample(first + i - 1)]

DriverInit ==
  /\ ai = <<>>
  /\ scaled = {}
  /\ timing = 0
  /\ stamper = <<>>
  /\ scanning = FALSE
  /\ scanlist = <<>>
  /\ made = 0 /\ taken = 0
  /\ out = <<>>
  /\ fpc = "idle"

\* The board samples.
Advance ==
  /\ scanning
  /\ made < MaxTime
  /\ made' = made + 1
  /\ UNCHANGED <<base, stamper, scanning, scanlist, taken, out, fpc>>

BeginScan(list) ==
  /\ scanning' = TRUE
  /\ scanlist' = list
  /\ made' = 0 /\ taken' = 0

EndScan ==
  /\ scanning' = FALSE
  /\ scanlist' = <<>>
  /\ made' = 0 /\ taken' = 0

\* A bug of the usual kind: a batch starts at the last timestamp of the one before.
StampsOverlap(wall, dt, length) ==
  IF stamper = <<>> THEN wall - dt * (length - 1) ELSE stamper[1]

\* HWTimestamper.seed() for the first batch of an acquisition, next_batch() for the
\* others: the timestamp of a batch's first scan.
FirstStamp(wall, dt, length) ==
  IF stamper = <<>> THEN wall - dt * (length - 1) ELSE stamper[1] + dt

\* _read_to_measurements() of a batch of interleaved samples: sample p goes under the
\* name at p's place in the channel list, with the timestamp of its scan.
ReadToMeasurements(names, data, first, dt) ==
  [p \in DOMAIN data |->
     [name |-> names[((p - 1) % Len(names)) + 1],
      ch |-> data[p].ch,
      at |-> data[p].at,
      t |-> first + ((p - 1) \div Len(names)) * dt]]

\* A batch of a hardware-timed acquisition, its scans dt apart, is stamped and published.
PublishBatch(names, data, wall, dt) ==
  LET length == Len(data) \div Len(names)
      first == FirstStamp(wall, dt, length)
  IN  /\ stamper' = <<first + dt * (length - 1)>>
      /\ out' = ReadToMeasurements(names, data, first, dt)

\* A software-timed conversion of the channels in list, published under names; it leaves
\* no samples to fetch.
PublishReading(names, list) ==
  /\ out' = ReadToMeasurements(names, [i \in DOMAIN list |-> [ch |-> list[i], at |-> 0]], 0, 1)
  /\ made' = 0 /\ taken' = 0
  /\ UNCHANGED <<stamper, scanning, scanlist>>

\* The samples of a fetch leave the board.
Consume(n) ==
  /\ taken' = taken + n
  /\ UNCHANGED <<scanning, scanlist, made>>

FetchSize == Len(ai) * timing

=============================================================================
