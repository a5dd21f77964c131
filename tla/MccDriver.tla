------------------------------- MODULE MccDriver -------------------------------
(***************************************************************************)
(* instro.daq.drivers.mcc: a scan that the board writes by DMA into a ring *)
(* it shares with the driver.  fetch_analog() asks the board how far it    *)
(* is, decides whether its window is still in the ring, copies it and asks *)
(* again; the board goes on writing between any two of these steps, and    *)
(* between any two samples of the copy.                                    *)
(***************************************************************************)
EXTENDS DaqDriver

CONSTANTS
  Multiplier,  \* buffer_multiplier
  Width,       \* bits of the board's sample counter (32)
  Buffers      \* bound: scan buffers the library can allocate, numbers from 1

ASSUME RingAssumption == Multiplier \in Nat \ {0} /\ Width \in Nat \ {0} /\ 0 \notin Buffers

VARIABLES
  memhandle,  \* _memhandle: a buffer, or 0
  buffers,    \* buffers allocated
  target,     \* the buffer the board writes to
  bufsize,    \* _buffer_size
  rawPrev,    \* _raw_count_prev
  offset,     \* _count_offset
  curr,       \* curr_count of its last poll
  wall,       \* timestamp
  origin,     \* read_origin
  copy        \* buffer_snapshot, as far as it is filled

ring == <<memhandle, buffers, target, bufsize>>
counter == <<rawPrev, offset>>
window == <<curr, wall, origin, copy>>

MccInit ==
  /\ memhandle = 0
  /\ buffers = {}
  /\ target = 0
  /\ bufsize = 0
  /\ rawPrev = 0
  /\ offset = 0
  /\ curr = 0
  /\ wall = 0
  /\ origin = 0
  /\ copy = <<>>

\* open() finds the board; what was configured earlier is taken from the driver at the start.
MccOpen == UNCHANGED <<ring, counter, board>>

\* ul.get_status(): the cumulative count as a signed number of Width bits.
Reported ==
  LET low == made % (2 ^ Width)
  IN  IF low < 2 ^ (Width - 1) THEN low ELSE low - 2 ^ Width

\* _accumulate_count(): the count that the reported one stands for.
Accumulated ==
  LET raw == Reported % (2 ^ Width)
  IN  raw + offset + (IF raw < rawPrev THEN 2 ^ Width ELSE 0)

AccumulateCount ==
  LET raw == Reported % (2 ^ Width)
  IN  /\ rawPrev' = raw
      /\ offset' = offset + (IF raw < rawPrev THEN 2 ^ Width ELSE 0)

\* _build_channel_lists(): the scan takes the channels in the order of the registry.
ChannelLists == ai

\* start(): counters first, then the buffer, then the scan; a scan that does not start
\* (the board is busy, or any other ULError) gives its buffer back.
MccStart(ok) ==
  /\ stamper' = <<>>
  /\ rawPrev' = 0
  /\ offset' = 0
  /\ \/ /\ ~ok
        /\ timing = 0 \/ ai = <<>>
        /\ taken' = 0
        /\ UNCHANGED <<scanning, scanlist, made, ring>>
     \/ /\ ~ok
        /\ timing # 0 /\ ai # <<>>
        /\ memhandle' = 0
        /\ bufsize' = FetchSize * Multiplier
        /\ taken' = 0
        /\ UNCHANGED <<scanning, scanlist, made, buffers, target>>
     \/ /\ ok
        /\ timing # 0 /\ ai # <<>> /\ ~scanning
        /\ Buffers \ buffers # {}
        /\ memhandle' = CHOOSE b \in Buffers \ buffers : TRUE
        /\ buffers' = buffers \cup {memhandle'}
        /\ target' = memhandle'
        /\ bufsize' = FetchSize * Multiplier
        /\ BeginScan(ChannelLists)

\* A bug of the usual kind: the handle is dropped, its buffer is not freed.
StopKeepsBuffer ==
  /\ stamper' = <<>>
  /\ EndScan
  /\ memhandle' = 0 /\ target' = 0
  /\ UNCHANGED <<buffers, bufsize, counter>>

\* stop(): the scan first, then its buffer.
MccStop ==
  /\ stamper' = <<>>
  /\ EndScan
  /\ buffers' = buffers \ {memhandle}
  /\ memhandle' = 0 /\ target' = 0
  /\ UNCHANGED <<bufsize, counter>>

\* close() stops the scan before it lets the board go.
MccClose == MccStop

----------------------------------------------------------------------------
(* fetch_analog() *)

\* The inner loop: enough samples beyond the consumed ones, or look again.
MccPoll ==
  /\ fpc = "poll" /\ memhandle # 0
  /\ scanning /\ made > 0
  /\ AccumulateCount
  /\ IF Accumulated < taken + FetchSize
     THEN UNCHANGED <<fpc, curr, wall>>
     ELSE fpc' = "window" /\ curr' = Accumulated /\ wall' = made
  /\ UNCHANGED <<stamper, board, out, ring, origin, copy>>

\* The least multiple of k that is not below n.
RoundUp(n, k) == IF n % k = 0 THEN n ELSE n + k - (n % k)

\* A bug of the usual kind: the window moves to the oldest sample, in the middle of a scan.
WindowUnaligned ==
  /\ fpc = "window"
  /\ IF curr > taken + bufsize
     THEN taken' = curr - bufsize /\ fpc' = "poll" /\ UNCHANGED <<origin, copy>>
     ELSE fpc' = "copy" /\ origin' = taken /\ copy' = <<>> /\ UNCHANGED taken
  /\ UNCHANGED <<stamper, scanning, scanlist, made, out, ring, counter, curr, wall>>

\* An overrun: the samples to read next have been overwritten, so the window moves to the
\* first full scan in the ring.  Otherwise the copy begins.
MccWindow ==
  /\ fpc = "window"
  /\ IF curr > taken + bufsize
     THEN taken' = RoundUp(curr - bufsize, Len(ai)) /\ fpc' = "poll" /\ UNCHANGED <<origin, copy>>
     ELSE fpc' = "copy" /\ origin' = taken /\ copy' = <<>> /\ UNCHANGED taken
  /\ UNCHANGED <<stamper, scanning, scanlist, made, out, ring, counter, curr, wall>>

\* What a slot of the ring holds: the last sample the board wrote there.  A buffer the
\* board does not write to holds no sample of any channel.
Slot(i) ==
  IF memhandle # target THEN [ch |-> 0, at |-> 0]
  ELSE Sample(made - 1 - ((made - 1 + bufsize - i) % bufsize))

MccCopy ==
  /\ fpc = "copy"
  /\ copy' = Append(copy, Slot((origin + Len(copy)) % bufsize))
  /\ fpc' = IF Len(copy) + 1 = FetchSize THEN "verify" ELSE "copy"
  /\ UNCHANGED <<stamper, board, out, ring, counter, curr, wall, origin>>

\* A bug of the usual kind: the copy is taken as it is.
VerifyNothing ==
  /\ fpc = "verify"
  /\ AccumulateCount
  /\ taken' = origin + FetchSize
  /\ fpc' = "return"
  /\ UNCHANGED <<stamper, scanning, scanlist, made, out, ring, window>>

\* The torn-copy guard: the board may have come round to the window during the copy.
MccVerify ==
  /\ fpc = "verify"
  /\ AccumulateCount
  /\ IF Accumulated > origin + bufsize
     THEN fpc' = "poll" /\ UNCHANGED taken
     ELSE fpc' = "return" /\ taken' = origin + FetchSize
  /\ UNCHANGED <<stamper, scanning, scanlist, made, out, ring, window>>

MccFetchStep == MccPoll \/ MccWindow \/ MccCopy \/ MccVerify

\* _read_to_measurements(): every num_channels-th sample of the copy is a channel's.
MccMeasurements == PublishBatch(ai, copy, wall, Len(ai))

Returned ==
  /\ fpc' = "idle"
  /\ curr' = 0 /\ wall' = 0 /\ origin' = 0 /\ copy' = <<>>

MccFetch ==
  /\ fpc = "return"
  /\ MccMeasurements
  /\ Returned

\* There is no scan, or the five seconds are over while the loop waits for samples.
MccFetchRaises ==
  /\ fpc = "poll"
  /\ memhandle = 0 \/ ~scanning \/ Accumulated < taken + FetchSize
  /\ Returned

MccRead ==
  /\ ai # <<>>
  /\ PublishReading(ai, ai)

\* configure_ai_channel(), configure_ai_hw_timing(): the board takes both at the start.
MccConfigureAi(c) == ai' = Inserted(ai, c)
MccConfigureTiming(n) == timing' = n

=============================================================================
