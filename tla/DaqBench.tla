------------------------------- MODULE DaqBench -------------------------------
(***************************************************************************)
(* InstroDAQ: a control thread that opens, configures, starts, stops, reads*)
(* and closes a DAQ, the background daemon that fetches from it, and the   *)
(* driver of one of four vendors.  A bench has one DAQ, used for analog    *)
(* input or for its lines (DaqLines).                                      *)
(*                                                                         *)
(* The program configures channels and the sample rate while no            *)
(* acquisition runs.                                                       *)
(***************************************************************************)
EXTENDS MccDriver, NiDriver, LabJackDriver, Keysight34980A, DaqLines

CONSTANTS
  Vendors,     \* the drivers of this bench
  PerChannel,  \* samples_per_channel that the program configures
  Sessions,    \* bound: how often the program opens the DAQ
  ShortTime    \* bound: ticks of an acquisition where no ring comes round

\* configure_ai_sample_rate() takes its default for 0.
ASSUME PerChannelAssumption == PerChannel \in Nat \ {0}

VARIABLES
  vendor,      \* the driver
  analog,      \* the DAQ is used for analog input
  opened,      \* _is_open
  opens,       \* how often it was opened
  ctl,         \* the control thread: idle, join (in stop() or close()) or read
  closing,     \* the join is close()'s
  daemon,      \* the daemon thread: none, check (of the stop event) or fetch
  stopping,    \* _background_stop_event
  registered,  \* _fetch_analog is among _background_methods
  started,     \* start() returned, and neither stop() nor close() since
  restarted,   \* start() was called over an acquisition
  skipped,     \* a fetch said that samples were lost
  drift        \* what the board scans or sent may not be what is registered

life == <<vendor, analog>>
control == <<opened, opens, ctl, closing, daemon, stopping, registered, started, restarted>>
marks == <<skipped, drift>>
mcc == <<ring, counter, window>>
vendorVars == <<mcc, ni, labjack, keysight>>
analogVars == <<base, stamper, board, out, fpc, vendorVars, control, marks>>
vars == <<life, analogVars, lineVars>>

Init ==
  /\ DriverInit /\ MccInit /\ NiInit /\ LabJackInit /\ KeysightInit
  /\ LinesInit(Vendors)
  /\ vendor = maker
  /\ analog \in BOOLEAN
  /\ ~analog \/ ~input
  /\ opened = FALSE /\ opens = 0
  /\ ctl = "idle" /\ closing = FALSE
  /\ daemon = "none" /\ stopping = FALSE /\ registered = FALSE
  /\ started = FALSE /\ restarted = FALSE
  /\ skipped = FALSE /\ drift = FALSE

\* The actions of one vendor leave the state of the others alone.
Of(v) ==
  /\ vendor = v
  /\ v # "mcc" => UNCHANGED mcc
  /\ v # "ni" => UNCHANGED ni
  /\ v # "labjack" => UNCHANGED labjack
  /\ v # "keysight" => UNCHANGED keysight

----------------------------------------------------------------------------
(* The control thread *)

\* open().  A registry that survived close() is met by a board that knows nothing of it.
Open ==
  /\ ctl = "idle" /\ ~opened /\ opens < Sessions
  /\ opened' = TRUE /\ opens' = opens + 1
  /\ drift' = (drift \/ (ai # <<>> /\ vendor \in {"ni", "keysight"}))
  /\ \/ Of("mcc") /\ MccOpen /\ UNCHANGED window
     \/ Of("ni") /\ NiOpen
     \/ Of("labjack") /\ LabJackOpen /\ UNCHANGED labjack
     \/ Of("keysight") /\ KeysightOpen
  /\ UNCHANGED <<life, base, stamper, out, fpc, skipped, ctl, closing, daemon, stopping,
                 registered, started, restarted>>

MayConfigure == ctl = "idle" /\ opened /\ ~started /\ daemon = "none"

\* configure_analog_channel(INPUT, c); a scaler matters where a fetch makes more than one
\* measurement.  ok: the instrument reports no error.
ConfigureAnalogChannel(c, scaler, ok) ==
  /\ MayConfigure
  /\ scaler \/ ~ok => vendor = "keysight"
  /\ scaled' = IF ~ok THEN scaled ELSE IF scaler THEN scaled \cup {c} ELSE scaled \ {c}
  /\ drift' = (drift \/ ~ok \/ scanning \/ queue # <<>>)
  /\ \/ Of("mcc") /\ MccConfigureAi(c) /\ UNCHANGED <<mcc, board>>
     \/ Of("ni") /\ NiConfigureAi(c) /\ UNCHANGED board
     \/ Of("labjack") /\ LabJackConfigureAi(c) /\ UNCHANGED <<labjack, board>>
     \/ Of("keysight") /\ KeysightConfigureAi(c, ok)
  /\ UNCHANGED <<life, control, timing, stamper, out, fpc, skipped>>

\* configure_ai_sample_rate().
ConfigureAiSampleRate ==
  /\ MayConfigure
  /\ \/ Of("mcc") /\ MccConfigureTiming(PerChannel) /\ UNCHANGED <<mcc, board>>
     \/ Of("ni") /\ NiConfigureTiming(PerChannel) /\ ~airunning /\ UNCHANGED board
     \/ Of("labjack") /\ LabJackConfigureTiming(PerChannel) /\ UNCHANGED <<labjack, board>>
     \/ Of("keysight") /\ KeysightConfigureTiming(PerChannel)
  /\ UNCHANGED <<life, control, ai, scaled, stamper, out, fpc, marks>>

\* start() after the driver's: the daemon, if it is asked for.
Begin(background) ==
  /\ started' = TRUE
  /\ out' = IF taken' = 0 THEN <<>> ELSE out
  /\ registered' = (registered \/ (background /\ ai # <<>>))
  /\ IF background THEN daemon' = "check" /\ stopping' = FALSE ELSE UNCHANGED <<daemon, stopping>>

\* start() returns.  Batches of an earlier stream are still in a LabJack's queue.
Start(background) ==
  /\ ctl = "idle" /\ opened /\ daemon = "none"
  /\ \/ Of("mcc") /\ MccStart(TRUE) /\ UNCHANGED window
     \/ Of("ni") /\ (NiStart \/ NiStartNothing) /\ UNCHANGED <<aitask, clocked>>
     \/ Of("labjack") /\ (LabJackStart \/ LabJackStartAgain) /\ UNCHANGED queue
     \/ Of("keysight") /\ KeysightStart /\ UNCHANGED stamper
  /\ Begin(background)
  /\ skipped' = FALSE
  /\ drift' = (drift \/ queue # <<>>)
  /\ UNCHANGED <<life, base, fpc, opened, opens, ctl, closing, restarted>>

\* start() raises: nothing to scan, no rate, or an acquisition runs already.
StartRaises ==
  /\ ctl = "idle" /\ opened /\ daemon = "none"
  /\ \/ Of("mcc") /\ MccStart(FALSE) /\ UNCHANGED window
     \/ Of("ni") /\ NiStartRaises /\ UNCHANGED <<aitask, clocked>>
     \/ Of("labjack") /\ LabJackStartRaises /\ UNCHANGED queue
     \/ Of("keysight") /\ KeysightStartRaises /\ UNCHANGED stamper
  /\ restarted' = (restarted \/ scanning)
  /\ UNCHANGED <<life, base, out, fpc, marks, opened, opens, ctl, closing, daemon, stopping,
                 registered, started>>

\* stop() and close(): the daemon is told to end, and joined.
StopCall(close) ==
  /\ ctl = "idle" /\ opened
  /\ ctl' = "join" /\ closing' = close
  /\ stopping' = (stopping \/ daemon # "none")
  /\ UNCHANGED <<life, base, stamper, board, out, fpc, vendorVars, marks, opened, opens, daemon,
                 registered, started, restarted>>

\* The join returns; the driver is stopped and, in close(), closed.
Joined == ctl = "join" /\ daemon = "none"

Stopped ==
  /\ Joined
  /\ \/ Of("mcc") /\ (IF closing THEN MccClose ELSE MccStop) /\ UNCHANGED window
     \/ Of("ni") /\ IF closing THEN NiClose /\ EndScan /\ stamper' = <<>>
                    ELSE NiStop /\ UNCHANGED <<aitask, clocked>>
     \/ /\ Of("labjack") /\ LabJackStop /\ UNCHANGED <<queue, stamper>>
        /\ IF closing THEN LabJackClose ELSE UNCHANGED board
     \/ Of("keysight") /\ KeysightStop /\ UNCHANGED <<keysight, stamper>>
  /\ ctl' = "idle" /\ closing' = FALSE
  /\ opened' = ~closing
  /\ started' = FALSE
  /\ UNCHANGED <<life, base, out, fpc, marks, opens, daemon, stopping, registered, restarted>>

\* read_analog() without a sample rate: a conversion.
SoftwareTimedRead ==
  /\ ctl = "idle" /\ opened /\ timing = 0
  /\ \/ Of("mcc") /\ MccRead /\ UNCHANGED mcc
     \/ Of("ni") /\ NiRead /\ ~airunning /\ UNCHANGED ni
     \/ Of("labjack") /\ LabJackRead /\ UNCHANGED labjack
     \/ Of("keysight") /\ KeysightRead /\ UNCHANGED keysight
  /\ UNCHANGED <<life, base, fpc, control, marks>>

\* read_analog() of a hardware-timed acquisition without a daemon; with one it raises.
ReadCall ==
  /\ ctl = "idle" /\ opened /\ timing # 0 /\ daemon = "none"
  /\ ctl' = "read" /\ fpc' = "poll"
  /\ UNCHANGED <<life, base, stamper, board, out, vendorVars, marks, opened, opens, closing,
                 daemon, stopping, registered, started, restarted>>

----------------------------------------------------------------------------
(* The daemon, and fetches on either thread *)

\* A bug of the usual kind: the stop event is not looked at while there is work.
LoopWhileWork ==
  /\ daemon = "check"
  /\ IF stopping /\ ~registered THEN daemon' = "none" /\ UNCHANGED fpc
     ELSE registered /\ daemon' = "fetch" /\ fpc' = "poll"
  /\ UNCHANGED <<life, base, stamper, board, out, vendorVars, marks, opened, opens, ctl, closing,
                 stopping, registered, started, restarted>>

\* The loop: the stop event, then _fetch_analog if it is registered.
DaemonLoop ==
  /\ daemon = "check"
  /\ IF stopping THEN daemon' = "none" /\ UNCHANGED fpc
     ELSE registered /\ daemon' = "fetch" /\ fpc' = "poll"
  /\ UNCHANGED <<life, base, stamper, board, out, vendorVars, marks, opened, opens, ctl, closing,
                 stopping, registered, started, restarted>>

\* A fetch that published or raised: the daemon goes round, read_analog() returns or raises.
FetchOver ==
  /\ daemon' = IF daemon = "fetch" THEN "check" ELSE daemon
  /\ ctl' = IF ctl = "read" THEN "idle" ELSE ctl
  /\ UNCHANGED <<life, base, opened, opens, closing, stopping, registered, started, restarted>>

Fetch ==
  /\ \/ Of("mcc") /\ MccFetch /\ UNCHANGED <<ring, counter, board>>
     \/ Of("ni") /\ NiFetch /\ UNCHANGED ni
     \/ Of("labjack") /\ LabJackFetch /\ UNCHANGED <<streaming, board>>
     \/ Of("keysight") /\ KeysightFetch /\ UNCHANGED keysight
  /\ skipped' = (skipped \/ (vendor = "keysight" /\ out' = out))
  /\ FetchOver /\ UNCHANGED drift

FetchRaises ==
  /\ \/ Of("mcc") /\ MccFetchRaises /\ UNCHANGED <<ring, counter>>
     \/ Of("ni") /\ NiFetchRaises /\ UNCHANGED ni
     \/ Of("labjack") /\ LabJackFetchRaises /\ UNCHANGED labjack
     \/ Of("keysight") /\ KeysightFetchRaises /\ UNCHANGED keysight
  /\ FetchOver /\ UNCHANGED <<stamper, board, out, marks>>

\* The steps of a fetch from the ring of an MCC board; an overrun is warned of.
MccFetching ==
  /\ Of("mcc") /\ MccFetchStep
  /\ skipped' = (skipped \/ (fpc = "window" /\ fpc' = "poll"))
  /\ UNCHANGED <<life, base, control, drift>>

\* The LJM library calls back.
Callback ==
  /\ Of("labjack") /\ StreamCallback
  /\ UNCHANGED <<life, control, marks>>

\* The board samples.  An MCC board's counter does not come round between two polls.
Sampling ==
  /\ IF vendor = "mcc" THEN made + 1 < rawPrev + offset + 2 ^ Width ELSE made < ShortTime
  /\ Advance
  /\ UNCHANGED <<life, vendorVars, control, marks>>

----------------------------------------------------------------------------

ControlNext ==
  \/ Open
  \/ \E c \in Channels, scaler, ok \in BOOLEAN : ConfigureAnalogChannel(c, scaler, ok)
  \/ ConfigureAiSampleRate
  \/ \E background \in BOOLEAN : Start(background)
  \/ StartRaises
  \/ \E close \in BOOLEAN : StopCall(close)
  \/ Stopped
  \/ SoftwareTimedRead
  \/ ReadCall

FetchNext == DaemonLoop \/ Fetch \/ FetchRaises \/ MccFetching

Next ==
  \/ /\ analog
     /\ ControlNext \/ FetchNext \/ Callback \/ Sampling
     /\ UNCHANGED lineVars
  \/ /\ ~analog
     /\ LinesNext
     /\ UNCHANGED <<life, analogVars>>

\* Threads are scheduled, and a wait with a timeout ends.
Fairness ==
  /\ WF_vars(analog /\ FetchNext /\ UNCHANGED lineVars)
  /\ WF_vars(analog /\ Stopped /\ UNCHANGED lineVars)

Spec == Init /\ [][Next]_vars /\ Fairness

----------------------------------------------------------------------------

\* Every sample is published under the name of the channel it was taken from.  A batch is an
\* interleaved list, so one sample lost or added shifts all that follow.
PublishedUnderItsChannel ==
  ~drift => \A i \in DOMAIN out : out[i].name = out[i].ch

\* A timestamp is never earlier than the sample it stands for, on a timeline that is anchored
\* once and then counted on.
StampsFollowSamples ==
  (~drift /\ ~skipped) => \A i \in DOMAIN out : out[i].t >= out[i].at

\* Once stop() or close() has returned, or start() has raised, the board does not scan and
\* its buffer is free; start() over an acquisition loses the buffer of that.
StopEndsAcquisition ==
  (~started /\ vendor # "labjack") => (~scanning /\ (buffers = {} \/ restarted))

\* No sample is published twice, and none is missing between two batches of an acquisition
\* unless a fetch said so: not one that was overwritten while it was copied either.
SamplesContiguous ==
  [][(out' # out /\ out' # <<>> /\ ~drift' /\ ~skipped' /\ timing # 0) =>
       /\ out'[1].at = IF out = <<>> THEN 0 ELSE out[Len(out)].at + 1
       /\ \A i \in DOMAIN out' \ {1} : out'[i].at = out'[i - 1].at + 1]_vars

\* stop() and close() return, whatever the daemon is in the middle of.  fetch_analog() of the
\* Keysight has no timeout.
StopReturns == (ctl = "join" /\ vendor # "keysight") ~> (ctl # "join")

=============================================================================
