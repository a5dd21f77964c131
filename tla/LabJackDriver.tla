----------------------------- MODULE LabJackDriver -----------------------------
(***************************************************************************)
(* instro.daq.drivers.labjack: a stream whose batches a callback of the    *)
(* LJM library puts into _data_queue from a thread of its own.  stop()     *)
(* only forgets that the stream runs (the call that would stop it is       *)
(* commented out); open() stops it.  Nothing ever empties the queue.       *)
(***************************************************************************)
EXTENDS DaqDriver

CONSTANT
  QueueBound  \* bound: batches waiting in _data_queue

VARIABLES
  streaming,  \* _streaming_active
  queue       \* _data_queue: batches with the time at which the callback read them

labjack == <<streaming, queue>>

LabJackInit ==
  /\ streaming = FALSE
  /\ queue = <<>>

\* _stop_stream(): eStreamStop, whose error means that there was no stream.
StopStream == EndScan

LabJackOpen == StopStream

\* close(): a closed handle gets no callbacks any more.
LabJackClose == EndScan

LabJackConfigureAi(c) == ai' = Inserted(ai, c)

\* configure_ai_hw_timing(): _validate_scan_rate() needs the model, which the first
\* channel brings.
LabJackConfigureTiming(n) ==
  /\ ai # <<>>
  /\ timing' = n

\* start() returns at once when it believes that the stream runs.
LabJackStartAgain ==
  /\ timing # 0 /\ streaming
  /\ UNCHANGED <<streaming, stamper, board>>

\* start() raises: no rate, no channels, or LJM refuses a stream that is still active.
LabJackStartRaises ==
  /\ timing = 0 \/ (~streaming /\ (ai = <<>> \/ scanning))
  /\ stamper' = IF timing # 0 /\ ai # <<>> THEN <<>> ELSE stamper
  /\ UNCHANGED <<streaming, board>>

LabJackStart ==
  /\ timing # 0 /\ ai # <<>>
  /\ ~streaming /\ ~scanning
  /\ stamper' = <<>>
  /\ streaming' = TRUE
  /\ BeginScan(ai)

LabJackStop == streaming' = FALSE

\* _stream_callback(): the library has a batch.
StreamCallback ==
  LET size == Len(scanlist) * timing
  IN  /\ scanning /\ made >= taken + size
      /\ Len(queue) < QueueBound
      /\ queue' = Append(queue, [data |-> Samples(taken, size),
                                 wall |-> made, period |-> Len(scanlist)])
      /\ Consume(size)
      /\ UNCHANGED <<base, stamper, out, fpc, streaming>>

\* _read_to_measurements().
LabJackMeasurements(batch) == PublishBatch(ai, batch.data, batch.wall, batch.period)

\* fetch_analog(): the oldest batch in the queue, whichever stream it came from.
LabJackFetch ==
  LET batch == Head(queue)
  IN  /\ fpc = "poll"
      /\ queue # <<>>
      /\ LabJackMeasurements(batch)
      /\ queue' = Tail(queue)
      /\ fpc' = "idle"

\* Five seconds without a batch.
LabJackFetchRaises ==
  /\ fpc = "poll"
  /\ queue = <<>>
  /\ fpc' = "idle"

LabJackRead ==
  /\ ai # <<>>
  /\ PublishReading(ai, ai)

=============================================================================
