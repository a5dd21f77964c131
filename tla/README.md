# Formal model of instro

instro is a Python library, with two Rust crates under it, that talks to test and
measurement instruments: supplies, multimeters, loads, DAQs, scopes, PLCs. Most of what it
does is translation of calls into commands. What is hard in it is small and sits below all
instruments: a daemon thread that samples while user threads call, publishers and buffers
that both of them feed, sessions that lose their connection, and a simulated supply that
must protect itself. On top of these come the drivers: which commands a call sends, under
which lock, what is remembered between calls, and who asks the instrument whether it
agreed. This directory models those parts in TLA+, checks them with TLC and proves, with
TLAPS, most of what is a matter of safety in the eight systems it builds of them.

Line numbers below and in `PROJECT.json` refer to the sources under `src/`.

## 1. The system

### 1.1 Components

| Component | State it keeps | Operations | What makes it correct |
|---|---|---|---|
| `Instrument` (`instro/lib/instrument.py`) | publishers, channel buffer, stop event, daemon thread | open, start, stop, close, add_publisher, publish, get_channel, the daemon loop | one daemon at most; nothing runs after stop(); stop() returns and releases readers; buffers neither leak nor outlive their daemon |
| Channel buffer (`lib/publishers/channel_buffer.py`) | per channel a deque or a numpy ring, a counter of samples, closed | publish, get with two kinds of wait, close | a read returns the end of the window of the newest samples; "new" means new; close() wakes everyone |
| Publishing wrappers (`lib/publishers/publisher.py`) | a list; a queue, a stop event, a worker thread | publish, flush, close | an accepted item is sent once and in order, or is still somewhere |
| OPC UA client (`packages/instro-opcua/src/client.rs`) | sessions, quiet nodes, polled samples kept back | connect, read, poll, subscribe, stop, disconnect | every change is reported; timestamps stay in order where promised; no read on a disconnected client |
| OPC UA browse, types, metrics | the set of nodes seen; windows of poll times | browse, classify, convert, sample | depth limit, termination, windows that count what they should |
| EtherNet/IP session (`packages/instro-ethernetip-rs`) | the client or nothing | connect, read, read_tags, write, close | a dead connection is dropped and replaced, a live one kept; closed is closed |
| EtherNet/IP and Modbus instruments | lock, client, the inherited stop event | open, close, read, write, poll | no client is taken from an operation in flight; close() cannot deadlock |
| `InstroPSU` and its drivers (`psu/`) | the resource lock, the driver's resource | one command or query at a time, each followed by a look at the errors | a call that returns normally was applied |
| Simulated supply (`psu/scpi_sim_server.py`) | channels, protections, latches, error queue | the SCPI handlers, the panel's edits | protections hold, settings stay ordered, no trip is silent |
| `InstroDAQ` and the MCC, NI, LabJack and Keysight drivers (`daq/`, `packages/instro-daq-*`) | registries of channels, the rate, the scan buffer or stream queue, the last timestamp, caches of line values | open, configure, start, fetch, read, stop, close; write and read lines, ports, outputs, relays | samples appear under their channel, once, without gaps; timestamps are not early; stop() returns and frees the board; a line keeps its value while others are written |
| Drivers of seven real supplies (`psu/drivers`, contrib) | the selected channel, limits read at open | set, get, query_status | the command goes to the channel asked for, and its refusal to its caller |
| `InstroDMM`, `InstroELoad`, `I2CInterface` | the function, the range, the mode; registers | set, read; write and read fields | a reading carries the name of what was measured; no field is lost to a write of another |
| `InstroScope` and three drivers (`packages/instro-unstable`) | armed or not, time of the last acquisition, trigger source, slots, average count | run, stop, single, fetch, measure, trigger settings, save, load | a single shot's record is new and carries its own time; what was set is set |
| File publishers, Nominal publishers | open file, schema, vendor stream | publish, close | a file is well formed after any prefix of calls |
| VISA transport | a reentrant lock, one resource | open, close, read, write, query | a query is not interleaved; a temporary timeout is restored |
| CLI, TUI, scaling formulas, test servers | none of interest | | |

### 1.2 How they interact

A user thread and the daemon thread call the same instrument. Both call
`Instrument.publish()`, which iterates `self.publishers` without a lock; the channel buffer
is one of the publishers, is created by `start()` and dropped by `stop()`, and is read by
`get_channel()` from any thread. The fieldbus instruments put a lock around their I/O, but
their `close()` and `stop()` also use the daemon's stop event, which is not under it. The
OPC UA pump holds its client weakly, so that `disconnect()` can consume the client under
it. The drivers of SCPI instruments own a `VisaDriver`, whose reentrant lock covers one
command or a sequence with its error check; above it lies the instrument's `_resource_lock`,
and what an instrument remembers is updated before, under or after that lock. A DAQ's
daemon fetches from a buffer that the board fills on its own, and `stop()` takes that buffer
away. The driver of the simulated supply holds its lock from the command to the error check;
the panel of the simulator takes the server's lock in between.

### 1.3 What is hard

Interleavings of the unlocked life cycle; conditions that are evaluated after the state
they read was dropped; retries that meet new data; a connection that is lost between two
steps of one operation; polled and notified values that overtake each other; an error queue
that several actors fill and one entry at a time is taken from; a ring that is overwritten
while it is copied, and whose count comes round; state kept on the host that the instrument
may not share; an answer that comes after its query gave up; a trigger that comes after the
caller gave up. `PROJECT.json` lists each
of these hazards at its line, with the properties that would catch it.

## 2. The modules

```
SampleWindow  <= implemented by =  ChannelBuffer <- ChannelBufferProofs
Instrument            <- InstrumentProofs
BufferedPublisher     <- SharedBuffer
                      <- QueuedPublisher <- QueuedPublisherProofs
OpcUaSubscription     <- SessionProofs
ExplicitSession       <- Fieldbus <- SessionProofs
SimulatedPsu          <- PsuBench <- PsuProofs
DaqDriver <- MccDriver, NiDriver, LabJackDriver, Keysight34980A <- DaqBench <- DaqProofs
                                           DaqLines             <- DaqBench
VisaDriver <- PsuDrivers, MeterDrivers, ScopeDrivers, I2CInterface <- VisaBench
                                                      VisaBench <- VisaProofs <- SettingProofs
```

(`<-` is EXTENDS.) The `.cfg` files instantiate the modules directly. Each comes with a few
operators introduced as "a bug of the usual kind": variants of an action that no
specification uses, kept to see that a property notices such a bug.

**SampleWindow** says what an in-memory buffer promises: a window of at most `MaxLen`
samples per channel, always the most recent, and an answer that is the end of the window of
the channel and of the length that the call asked for. It is also the deque variant.
**ChannelBuffer** is the base class with the numpy ring: a slot array, an index, a size;
`Extend` and `GetLatest` compute on them as the code does. Each action is what a thread
does while it holds the condition's lock. `get()` is a small program counter:
`exist`/`fill` (two waits of `_get_with_buffer_wait`), `appear`/`count`/`new` (the channel
look-up without the lock, `target_count`, the wait for it). `parked` is the condition's set
of sleepers. Samples are numbered per channel, so that "newest" and "published before the
call" can be said.

**Instrument** models every call of the controlling thread as the steps between which
another thread can see a difference: `start()` is `Start`, `SetupChannelBuffer`, `Spawn`;
`stop()` is `Stop`, `Join`, `CloseBuffer`, `DropBuffer`; `close()` is `Close` (or
`SignalAndClose` of the fieldbus instruments, which set the event first), `StopInClose`,
then one `ClosePublisher` per publisher. The daemon goes through `Check`, `Work`, one
`PublishMethod` per publisher, `Wait`, one `PublishTiming` per publisher. A publisher that
raises ends a function's turn in the first loop and the thread in the second. A buffer is
a generation number with the set of threads whose samples it holds.

**BufferedPublisher** is `BasicBufferedPublisher.publish()` and `close()` cut at every
point where the list can change under them. **SharedBuffer** gives one of them to two
threads; **QueuedPublisher** puts the bounded queue, the worker and `close()` in front.

**OpcUaSubscription** is `subscription_loop`, the session that can drop it at any await,
and `disconnect()`. The server is external: a clock, the values, a bounded queue of
notifications per monitored node that loses its oldest entry when it is full. The value of
a node is the time of its last change, so that "older" and "newer" need no payload.

**ExplicitSession** is the Rust session with the network: no client, a client whose
connection works, a client whose connection is lost. **Fieldbus** is `EtherNetIPDevice` on
it: the lock, the stop event, `_client`, an owner, users and the daemon. `Enter` is the
wrapper `_eip_op`; `Reconnect` and `Request` happen inside the native call.
`ModbusDevice` has the same wrapper, lock and use of the event; its reconnect is inside
pymodbus. `Init`, `Next` and `Spec` have names of their own here, `BusInit`, `BusNext` and
`BusSpec`: `SessionProofs` extends the two sessions with a controller together.

**SimulatedPsu** is the simulated supply: every handler that changes state and the update
after it, with the voltage source (constant voltage, constant current, open, short, EMF in
the load), the two protections, the latch, the error queue. Numbers are integers and the
loads are chosen so that quotients have no fraction; the code's noise and its floats are
abstracted. **PsuBench** adds the callers: `Call` takes the instrument's lock, `Serve` is
the server's turn, `CheckErrors` is `SYST:ERR?`, and `Edit`, `EditLimit`, `Add` and
`Remove` are the panel's.

**DaqDriver** is what the DAQ drivers share: the registry of channels in the order of
configuration, the timestamper, the board (one sample per tick, the channels of its scan in
turn) and the step that turns an interleaved batch into named, stamped samples.
**MccDriver** is the ring: `fetch_analog()` in its steps `poll`, `window`, `copy` (one
sample at a time, while the board goes on writing) and `verify`, the count of the library as
a signed number of `Width` bits and its accumulation. **NiDriver** has one task, **LabJackDriver**
a stream with a queue that a callback fills, **Keysight34980A** a reading memory and a scan
list ordered by address. **DaqBench** puts `InstroDAQ`, its control thread and its daemon
over one of the four; each action of a vendor is one disjunct of the instrument's action.
**DaqLines** is the other half of `InstroDAQ`: lines, port, analog output and relay, with
the line cache of NI, the active-low logic of each vendor, and the polarity that the
Keysight programs for a whole port.

**VisaDriver** describes a driver's method as the sequence of its steps (`Put`, `Ask`,
`Check`, `Note`, `Locked` for a `with self._visa.lock()`) and says what the transport does
with each. **PsuDrivers**, **MeterDrivers**, **ScopeDrivers** and **I2CInterface** give, for
every method of every driver, that sequence as a function of the call and of what the
driver remembers; they are operators without variables. **VisaBench** runs them: two threads,
`_resource_lock` (`Enter`, `Finish`), the part of a method before it (`Prepare`) and after
it (`Post`), one action per kind of step, and an instrument that accepts, refuses silently
until asked, answers late, answers too late or does not answer. Every step may raise; an
exception releases both locks and skips what is left: a Siglent whose `INR?` or `STOP` fails
stays armed, a second `LIST?` that times out leaves its reply in the line.

## 3. What is checked

| Run | States | Bounds | Question |
|---|---|---|---|
| `channel_buffer` | 60 522 | 2 channels, 1 reader, ring of 3, batches of 0 to 3, 4 samples per channel | do the ring, the counter and the waits implement the window, and does close() release a reader? |
| `instrument` | 248 726 | 3 daemons one after the other, 1 reader, a user's publisher or none | the life cycle under every interleaving |
| `queued_publisher` | 19 008 | 2 producers of 2 items, queue of 1, batch of 2, 1 failure, 2 closes | is an accepted item ever dropped, does everybody return? |
| `opcua_subscription` | 135 463 | 2 nodes, one unmonitored, queue of 1, 4 instants | order, loss, cancellation, disconnection |
| `fieldbus` | 2 228 | 3 users, owner, daemon, 3 outages | lock, event, client and connection together |
| `psu_bench` | 640 295 | 1 channel that may be removed and added, 2 threads, setpoints -1 to 6, limits 4 and 2, 3 loads | protection, order of levels, errors |
| `daq_bench` | 641 954 | 4 vendors, 2 channels, 2 samples per channel, 10 ticks, a ring of 2 fetches, a count of 3 bits, a queue of 1 batch, 2 lines, opened twice | does every sample arrive once, under its name, not stamped early, and does stop() end it? |
| `visa_bench` | 959 049 | 14 drivers, 2 threads, 3 channel numbers, 2 values, 2 measurement slots, 4 menus of scope calls | do settings, readings and records belong to the call that asked for them? |

Why the bounds suffice. A ring of three has every fill level, an exact fit, a wrap with a
remainder and a batch larger than itself; two channels are needed for a measurement that
creates one channel and not another. Three daemons give a start after a clean stop, after
a death and after a close in both orders. A queue of one and a batch of two make the queue
full and the batch partial at once. Four instants let a notification be delayed past a
poll, past the flush of that poll and be dropped from a full queue. Three users contend
for the fieldbus lock with the owner and the daemon; more add nothing, as the proof of the
safety part shows. One supply channel shows every branch of the update; several
channels tripping at once are left to the proof, which has no bound.

Ten ticks of two channels bring the MCC board round its ring and its count through zero,
so that a window is overtaken before, during and after a copy, and a fetch of two samples
per channel is a batch of two scans; the other vendors have no ring and get four ticks. Two channels are the least that can be swapped, two lines the least
of which one can be forgotten, and two sessions the least after which a registry is older
than the board. Of three channel numbers one does not exist on a two-channel supply. A scope's
methods are offered in four sets (`Menus`): arming with fetching, trigger settings with
recall, vertical and acquisition settings with save and recall, measuring with arming and
recall. Methods of different sets touch different state of the driver, or meet in a set.

The properties, one line each (the modules state them in full):

- `channel_buffer`: `NewSamplesAreNew`, `ImplementsWindow` (refinement),
  `CloseWakesReaders`.
- `instrument`: `OneDaemon`, `QuietAfterStop`, `StopFindsItsBuffer` (the assert),
  `OldSamplesUnreachable`, `NoBufferLeak`, `StopReturns`, `StopReleasesReaders`.
- `queued_publisher`: `AcceptedIsSomewhere`, `CloseSendsAccepted`, `SentOnceInOrder`,
  `CloseReturns`, `PutReturns`.
- `opcua_subscription`: `NoReadAfterDisconnect`, `OvertakenOnlyAfterFlush`,
  `PolledValueSurvives`, `ChangesAreReported`.
- `fieldbus`: `ClientInUse`, `RequestHasClient`, `ClosedStaysClosed`, `CloseReturns`,
  `PollingRecovers`.
- `psu_bench`: `ProtectionHolds`, `LevelsInOrder`, `TripIsNotSilent`, `OkMeansApplied`.
- `daq_bench`: `PublishedUnderItsChannel` (one sample lost or added shifts all that follow),
  `StampsFollowSamples`, `SamplesContiguous` (over an overwritten ring and a count that comes
  round), `StopEndsAcquisition`, `StopReturns`, `LinesAreTheirOwn`.
- `visa_bench`: `SettingsAreAsAsked` (a setting holds what the last call that returned asked
  for, or what one that raised or is under way asks for), `ReadingsAreWhatTheySay`,
  `WaveformsAreFresh`.

`instrument`, `fieldbus` and `psu_bench` also check a `TypeOK` (`BusTypeOK`), which the proofs use. Those of
`ChannelBuffer`, `QueuedPublisher` and `OpcUaSubscription` are proved and need no run.

### What the two benches set aside

Both benches carry a history flag for situations in which the code is known to disagree
with its documentation (section 4). The properties are stated for what happens without
them; otherwise one disagreement would hide everything else.

- `drift` in `DaqBench`: registries that survived `close()` meet a board that knows nothing
  of them, a channel the instrument refused, a channel configured while the LabJack streams or
  has batches of an earlier stream in its queue, those batches when the next stream begins. `muddled` in `DaqLines` is the same for lines, and is also set when a
  Keysight port is given lines of both polarities, because the port has one. `skipped`: a
  fetch has said that samples were overwritten, or has raised after it had removed them (a
  scaler that is not found, the Keysight's error check after `DATA:REM?`).
- `adrift` in `VisaBench`: one of the situations listed before `EnterAdrift` in the module.
  It ends the behaviour, because what follows from a state the host is wrong about is of no
  interest.

### What is assumed of the environment

- DAQ: the program configures while nothing runs, configures a rate in the session in which
  it starts an NI board, and does not call `start()` while a daemon runs. The MCC daemon
  polls before the library's count comes round once (2^31 samples). `*RST` and a new scan
  list clear the readings of the Keysight. Time is counted from the start of the scan.
- SCPI: nobody uses the front panel and the instrument keeps its power. One outstanding error
  stands for any number. Arming clears the bit of Siglent's INR register. A new session
  starts with an empty buffer. The user's thread sets, opens and closes; the daemon polls. A
  scope's user also reads.

### Fairness

- A thread that can take a step takes it (weak fairness): reader wake-ups, the daemon, the
  worker, the owner inside `stop()` or `close()`. Nobody has to call anything and no
  timeout has to fire, so no property owes its truth to a timeout.
- `fieldbus`: a native operation that has begun ends with an answer or an error, because
  the client has timeouts. The daemon gets the device's lock if the lock is free again and
  again (strong fairness on `Enter(Daemon)`): a Python lock makes no such promise by
  itself, but users release it for longer than they hold it. Only `PollingRecovers`
  depends on it. `close()` needs only weak fairness: once the event is set, users are
  turned away without keeping the lock. `PollingRecovers` is conditional: the network is up
  for good from some moment on.
- `opcua_subscription`: the timer ticks, the pump runs, and a read that is tried for ever
  is answered in full some time (strong fairness); a server that never answers cannot be
  reported on. The server owes neither changes nor notifications.
- `daq_bench`: the daemon's thread is scheduled and waits with a timeout end; the board need
  not sample. The Keysight's wait has no timeout and is left out of `StopReturns`.
- `psu_bench` and `visa_bench` state no liveness: their queries and locks end with the
  transport's timeout, which is the external library's.

Deadlock is checked, except where the system may rest: `queued_publisher` and
`shared_buffer`, whose producers have a last item, `opcua_subscription`, whose session may
be stopped, `daq_bench`, whose program may not open its DAQ again, and `visa_bench`, whose
behaviours end when a disagreement occurs.

## 4. Where code and documentation disagree

Four runs look for a violation and find it. They state what a comment or a page says.

- `channel_buffer_close`, `OnlyDocumentedErrors`: `close()` empties `_values`, so a reader
  that waits for the buffer to fill gets a `KeyError` from its own predicate
  (`channel_buffer.py:113`); the error written for the case (lines 121-127) is reached only if
  another thread publishes after `close()` and makes the channel again before the reader looks.
- `instrument_restart`, `StartBuildsFreshBuffer`: if the daemon has ended before `stop()`
  looks (a publisher raised, or a fieldbus `close()` set the event first), the closed buffer
  is kept and reused by the next `start()`; the comment at `instrument.py:281` says
  otherwise.
- `shared_buffer`, `NoDataLost`: `publishers.mdx:356` promises "no data is lost", but
  `clear()` removes an item that another thread appended after the batch was sent
  (`publisher.py:33`).
- `fieldbus_stop`, `StopLeavesDeviceOpen`: `stop()` leaves the stop event set, and the
  operations use it as their shutdown flag (`ethernetip.py:48`, `modbus.py:46`); the guide
  (`custom-instruments.mdx:145`) says that start and stop bracket the daemon only.

The others were met while modelling; no run is spent on them. The benches set aside the
situations in which they occur, `PROJECT.json` quotes the lines.

OPC UA: after a failed read, `continue` skips the reset of `quiet_nodes` (`client.rs:530`),
although the comment at line 484 says "until the next tick". `ChangesAreReported` still
holds: the loss is of one interval, not for ever.

DAQ:

- LabJack's `stop()` leaves the stream running and its queue full (`t_series.py:90`). The first
  fetches after a reopening publish those batches, under the names of the channels that are
  configured by then.
- Registries and caches survive `close()`: a reopened Keysight that was not configured again
  waits for ever for readings (`keysight_34980a.py:192`), and a reopened NI driver writes
  one line's value to another (`nidaq.py:89`). A line that DAQmx refuses stays in the cache.
- One scaled channel among several makes every fetch of the Keysight raise (`daq.py:635`).
- The Keysight driver programs the polarity of a line for its whole port: a second line with
  the other `Logic` inverts those configured before (`keysight_34980a.py:316`).

SCPI instruments:

- A DMM's reading is named after the lock (`dmm.py:314`), and a Keithley 2400 may have
  changed its function when the call that changes it raises (`keithley_2400.py:69`).
- `fetch_waveform()` arms again and throws away a completed single shot; if the arming is
  refused, an old record passes for the new one (`scope.py:372`). After a fetch that timed
  out, `get_acquisition_state()` takes "stopped" for "completed" (`scope.py:355`).
- `load_settings()` leaves the drivers' memory of slots, trigger and average count as it was
  (`scope.py:534`).
- BK914X remembers a channel whose selection was refused (`bk_914x.py:35`); KeysightE36100
  ignores the channel (`keysight_e36100.py:22`).
- A late reply is taken for the answer to the next query (`visa.py:197`); only
  MatrixWPS300S and two scopes clear the device after a timeout.

## 5. What is proved

TLAPS proves, for every value of the constants that the named assumptions admit:

| Module | Theorems |
|---|---|
| `ChannelBufferProofs` | `TypeCorrect`, `ReadsOnlyNewSamples`, `RingImplementsWindow` |
| `InstrumentProofs` | `TypeCorrect`, `AtMostOneDaemon`, `StopIsQuiet`, `AssertHolds`, `NoOldSamples`, `BuffersDoNotPileUp` |
| `QueuedPublisherProofs` | `TypeCorrect`, `NothingAcceptedIsLost`, `CloseSendsWhatWasAccepted`, `SentInOrder` |
| `SessionProofs`, of OpcUaSubscription | `TypeCorrect`, `NoReadAfterGracefulDisconnect`, `OrderIsLostOnlyAfterFlush`, `WhatWasReadSurvives` |
| `SessionProofs`, of Fieldbus | `BusTypeCorrect`, `ClientIsInUse`, `RequestsHaveClients`, `ClosedIsClosed` |
| `PsuProofs` | `TypeCorrect`, `ProtectionCorrect`, `LevelsCorrect`, `NoTripIsLost`, `OkIsApplied` |
| `DaqProofs` | `StopReleasesTheBoard`, `EachLineIsItsOwn`, `SamplesKeepTheirChannel`, `TimelineKeepsUp`, `SamplesAreContiguous` |
| `VisaProofs` | `RecordsAreFresh`, `ReadingsAreRight` |
| `SettingProofs` | `SettingsStayAsAsked` |

*ChannelBuffer.* All a ring ever holds is a run of consecutive samples: `Holds(ring, hi)` says
that its `size` slots before `index`, counted back around the wrap, are `hi`, `hi - 1`, and so
on. `ExtendHolds` proves it of the slice assignments of `extend()`, with or without a wrap;
`LatestOfRing` reads the run off again for `get_latest()`. `RingInv` adds that the size is
the number of samples seen, up to the ring's length. The refinement `ImplementsWindow` then
is two equations on runs, one for the batch that drops what is too old (`KeepRun`), one for
the answer. `NewSamplesAreNew` rests on `CallInv`: what a waiting reader's target still lacks
is at least what must be published before `len` samples are newer than its call.
Assumptions: the ring has a length, readers ask for at least one sample.

*Instrument.* None of the properties is inductive. `OneDaemon` needs `DaemonInv` (the only
thread that can be alive is the one the attribute names) and `ControlInv` (none is alive
while the controlling thread is past a join or before a spawn). `OldSamplesUnreachable`
needs `BufferInv`: only the current buffer holds samples or is registered, and a live
daemon has a buffer. That in turn rests on `SetupChannelBuffer` always coming before
`Spawn`. `CountInv` ties buffers to starts, so that a new buffer is a new number. The list
lemma `WithoutFacts` says what `list.remove` leaves. Assumption: `MaxStarts` is a natural
number.

*QueuedPublisher.* The worker and `close()` share one list without a lock. `TurnsInv` says that
they do not meet in it: `close()` gets to the wrapped publisher only after the worker has
ended. `BatchInv` says that what `clear()` removes has been sent, which is `NoDataLost` where
the list has one user at a time; `EndInv` that the worker ends with an empty queue or with
all of it passed on. `OrderInv` keeps the order: queue after list, list after what was sent,
except that the part of a list whose flush is under way is in both (`Unsent`). Any number of
producers; the queue and the batch hold at least one item.

*OpcUaSubscription.* `NoReadAfterDisconnect` is `ClientInv`: a disconnected client is not held,
and nobody is between read and answer. The other two are action properties. For
`OvertakenOnlyAfterFlush`, `KeptInv` says that a polled sample kept back is not older than
what was emitted, `InboxInv` that notifications are in order, and that one older than the last
emission is not newer than the last flush. `WhatWasReadSurvives` needs the clock of each value
(`ClockInv`): a notification that replaces a kept sample carries the same change or a later
one. Any set of nodes, any queue that can hold one notification.

*Fieldbus.* `LockInv` says that a thread is inside the native session exactly if it holds
the lock; `SessionInv` that a connection known to have failed is gone and that a closed
device has none. With `ClientInUse` and `RequestHasClient` this is inductive: the lock
keeps `CloseClient` out while someone is inside, and `CloseClient` is the only step that
takes the client away from others. Assumptions: the users are not called owner, daemon or
nobody; the number of outages is a natural number.

*PsuBench.* Every handler that does not refuse hands a `Settled` channel (typed, levels in
order, not latched and on at once) to the update, and the update turns a settled channel
into a `Protected` one (`UpdatedFacts` and the lemmas before it, one for each thing that
can happen to a channel). For errors: an entry leaves the queue only through `CheckErrors`,
which tells its caller, or through a reset at the panel, which also takes the latches;
`RefusalInv` says that a refusal is still in a non-empty queue when its call looks.
`OkIsApplied` is an action property from the same invariant. Assumptions: the levels,
limits and resistances are natural numbers, EMFs are integers, the defaults too.

*DaqBench.* `StopReleasesTheBoard` needs to know only who may be fetching (`ThreadsInv`) and who
owns the board's buffer (`ReleaseInv`). The three properties of the samples need to know where
they are between board and publication: `StreamInv` says of each vendor how many the driver
has consumed (`taken`), that these are whole scans of the registered channels, and that
the next to be published follow on the last (`NextAt`). For NI the two are equal (`NiInv`);
for LabJack the batches in the queue lie between them (`LabJackInv`); the Keysight's memory
is read in scans of its own, ascending order (`KeysightInv`). For MCC, `CounterInv` says that
the accumulated count of the library is the board's number of samples as it was at the last
poll, whatever its width, and `WindowInv` that every sample copied so far is the one its place
in the window stands for, as long as the board has not come round: which is what `verify`
asks before the copy is used. `LinesInv` is the invariant of the lines: the registry and the
port exclude each other, the Keysight's one polarity is that of every line, and the NI
driver's cache has the bits of the lines that were asked for, in the order of the task. Both
hold outside `drift` and `muddled` (section 3); both were checked with TLC on the bounds of
`daq_bench` before they were proved. Assumptions: a fetch has at least one sample per channel,
the ring at least one fetch, the counter at least one bit, the lines are numbered from 0. The
four theorems that speak of a count's width or of the bits of a port have the hypothesis
`PowersOfTwo`, three facts of arithmetic (2^n is positive, 2^(m + n) is a product, 2^1 is 2):
`^` has no meaning for the provers, and its definition is by induction.

*VisaBench.* `WaveformsAreFresh` concerns the three scopes; that no other instrument is ever
asked for a record is `OthersInv`. A call carries the list of steps it has still to take, and
the state of the scope says nothing without it, so the invariant is about lists. First, what
each method hands to `Enter` (`StepsAre` and the lemmas before it, driver by
driver): the steps of open() and close() do not touch the acquisition (`Mute`), those of most
methods at most force the trigger (`Mild`), `get_acquisition_state()` only asks for it
(`AsksState`), a fetch arms, waits, notes the time and reads, in this order, or only reads
(`Fetches`), and a binary block is always followed by the reading of its terminator
(`Drained`). Then, what every step makes of such a list. `FetchInv` names the four stages of
a fetch that began after `single()` had returned: still to arm, still to wait, still to
note the time, or reading, with the record then in the scope. `PromiseInv` says where the promise is
between calls: the flag is set or the record is in. `TurnInv` says that one
call at a time is inside the lock or on its way out, `LineInv` that nothing is in the line but
the terminator that the same call is about to read; without it an old reply could pass for
"stopped". All this holds until `adrift`, and TLC checked it on the bounds of
`visa_bench` first.

`ReadingsAreWhatTheySay` concerns the thirteen SCPI instruments (of the I2C adapter it says nothing). Its
invariant, `Reports`, has three layers. `Base` is what every call has: a list of steps, and one of the
calls its thread may issue. `Held` ties `_resource_lock` to the one call that runs under it.
`Tells` says of a call that publishes that it will raise, or has still to send its question, and this
question is the right one, or has the answer and asks no more. Which question is the right one depends
on what the instrument has been told, and each family has its own invariant about that. `PsuInv`: the channel
the BK914X remembers is the one selected, unless the call that is changing it is between the `INST`
and its assignment; the other supplies take the channel in the command or have one only. `DmmInv`: the function
the 2400 is in is the one that is remembered, unless `set_measurement_function()` is under way, and then
the error queue will stop it if it was refused. `LoadInv`: every reading is of the one input.
`LooksInv`: a fetch still has to set its waveform source, or has set it, or the refusal is in the error
queue before the next check; a Tektronix slot that is remembered measures what it is remembered
for, and `Grown` counts `setup_measurement()` through its steps, from the length of the list before to the slot
that is added, pointed at its source, and noted. The lists that each driver hands over are described by
`Within` (which steps may occur at all), and lemmas such as `SlotTakes` say what one step of such a list does.

`SettingsAreAsAsked` adds to this what the writes carry. For the SCPI instruments `Settles` has, besides
the property itself (`InForce`), three parts. `Orders` is about the user's call, through `Keeps`: every
write still to come puts a value that was asked for into the setting it was asked for (`Reaches` says which
setting a command goes to, `Gives` which value); and of each setting that will hold one value only,
it says (`Settled`) that the setting holds it, or that the write of it is still to come and will be checked
(`Backs`), or that it was refused, the refusal is in the error queue and the call is going to read it (`FoundOut`).
When no step is left only the first remains, and `Finish` may forget the older values. `Apart` says that the other
threads only read; this is what makes `FoundOut` last, for an error is read by whoever checks first. On the
`RigolDP800` and the `SiglentSPD3303` a status is read without `_resource_lock`, so there a write and its check
must hold the transport together; on the others the lock is enough. `Memory` says of a scope that the source and the average
count its driver remembers were asked for, which is what a trigger level and a switch to averaging rest
on. `CallStarts` collects what each driver's lists are at first (`PsuStarts`, `DmmStarts`, `LoadStarts`, and for the
scopes `SourceStarts`, `TypeStarts`, `LevelStarts`, `ModeStarts`, `RecallStarts`), `StepSettles` what a step does to them. For the
I2C adapter `Registers` takes their place: a call that has read the register and not yet written it back has
what the register holds (`Replaces`), since no other writer has the lock, and `FieldsApart` is the
arithmetic of mask and shift. TLC checked `Settles` on the bounds of `visa_bench` first.

Assumptions: the kinds are among the fourteen, `User` is a thread and `None` is not one, channels of a
supply are numbered from 1 (`psu.py:384`; 0 stands for the selected one), and `None`, which stands for "no channel
remembered", is none of them. `SettingsStayAsAsked` has the hypothesis `PowersOfTwo`, here 2^0 = 1, 2^1 = 2 and 2^2 = 4.
Any number of threads; the proof found that some CASEs of the model relied on
the first guard that holds, where TLA+ promises nothing; their guards now exclude each other.

The theorems speak of `Init /\ [][Next]_vars` or of the full specification, which implies
it; fairness is not used. `TypeCorrect` of the channel buffer assumes that there is a channel
at all; without one no call can be made.

Only model-checked: liveness, which needs fairness and ENABLED: `CloseWakesReaders`, the two `StopReturns`,
`StopReleasesReaders`, the two `CloseReturns`, `PutReturns`, `ChangesAreReported`,
`PollingRecovers`.
So every invariant and every action property that a run checks is proved, except those that the four runs of
section 4 refute.

That the operators compute what the Python and Rust code computes is shown by nothing
but reading: `map` in `PROJECT.json` names the lines.

## 6. What is not modelled, and why

- Floats, noise, scaling, thermocouples: formulas without state.
- Tags, names, formatting, logging, configuration files: data the properties do not tell
  apart.
- The vendor's libraries (NI, LabJack, MCC, Nominal, pymodbus, VISA) are external.
- The CLI, the simulator's terminal screen, and the servers of the test suite.
- The header and number parser of the SCPI server, `*CLS`, the command log.
- The serial settings of the VISA transport, its choice of a backend, and its raw reads and
  writes by themselves. The spelling of commands; the clamping and formatting of values; the
  throttle of MatrixWPS300S and the delays of `InstroPSU`.
- DAQ: ranges and terminal configurations, thermocouples and resistances, several boards in
  one program, the look-up of serial numbers.
- Scope: `sync_configuration()` and the `ScopeConfig`, which no other code reads, `clear_measurements()`,
  screenshots, the conversion to volts and seconds. DMM: digits and integration times. I2C:
  data formats and the bus adapter.
- A second thread that opens a fieldbus device: one owner opens and closes it, so `open()` does
  not clear the stop event while `close()` waits for the daemon (`ethernetip.py:146-162`). A call
  of `start()` on a DAQ whose daemon runs (`daq.py:557`).
- Publishers that never return: those of `Instrument` and `QueuedPublisher` return or raise.
- Two failures about which code and documents promise nothing: a publisher whose `close()`
  raises ends `Instrument.close()` (`instrument.py:220`) and, for EtherNet/IP, leaves the
  client open (`ethernetip.py:167`). The model has the steps; no property speaks of them.

## 7. Plan

Twelve runs, with forty properties in those that pass and four in those of section 4, are the size
at which the project stays quick to re-check, and it is reached. What follows replaces a weaker property, joins an existing
run, or is a proof. To make room for the two benches, the run that showed the OPC UA
disagreement of section 4, the check of three type invariants, and one invariant of the
ring's counter, whose content `ImplementsWindow` and `NewSamplesAreNew` cover, were given up.

1. *Proofs*: a new property of the items below comes with its inductive invariant; `VisaProofs` has the lemmas
   about lists of steps for a further SCPI driver.
2. *Modbus*: `_read_group` (one batched read cut into registers), `_validate_write_value`
   and `_validate_raw_value_range`, and the register codec (`_decode_registers` against
   `_encode_value`, word order and widths, modulo 2^16). Its wrapper, which closes a dead
   socket and raises, becomes a second session of `Fieldbus`.
3. *OPC UA*: `poll_loop` and the session's stop with its 2 s timeout beside
   `OpcUaSubscription`; `browse.rs` (recursion, depth limit, the set of nodes seen) and `metrics.rs`
   (windows).
4. *Files*: the JSON read-modify-write, the CSV header and the Avro schema over a sequence
   of measurements whose channels change.
