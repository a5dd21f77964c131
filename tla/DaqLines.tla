-------------------------------- MODULE DaqLines --------------------------------
(***************************************************************************)
(* The digital lines, digital port, analog output and relay of a DAQ, as   *)
(* InstroDAQ and its drivers configure, write and read them.  All lines    *)
(* are lines of one port: DAQmx writes and reads the lines of a task       *)
(* together, and the Keysight programs direction and polarity by port.     *)
(***************************************************************************)
EXTENDS Integers, Sequences, FiniteSets

CONSTANTS
  Pins,         \* the lines of the port, numbers from 0
  LineSessions  \* bound: how often the program opens the DAQ

ASSUME PinsAssumption == IsFiniteSet(Pins) /\ Pins # {} /\ Pins = 0..(Cardinality(Pins) - 1)

VARIABLES
  maker,     \* the vendor of the driver
  input,     \* the lines are inputs
  isopen,    \* _is_open
  sessions,  \* how often it was opened
  logic,     \* _do_channels or _di_channels: the Logic of each configured line
  port,      \* the Logic of the configured port, or none
  cache,     \* NI: _do_lines_state or _di_lines_state, in the order of its insertions
  task,      \* NI: the lines of the shared task, or of the port's
  inverted,  \* Keysight: CONF:DIG:POL INV
  level,     \* what each line carries, as the board's registers have it
  asked,     \* the level last asked of each line in this session
  output,    \* the analog output or relay: none, or what it was set to
  aotask,    \* NI: the output's task in _ao_sw_tasks: none, empty or ready
  heard,     \* the lines of the last published reading and what it said of them
  muddled    \* what the driver keeps of the lines and what the board has may differ

kept == <<maker, input, isopen, sessions>>
outputs == <<output, aotask>>
lineVars == <<kept, logic, port, cache, task, inverted, level, asked, outputs, heard, muddled>>

Logics == {"HIGH", "LOW"}
Mask == 2 ^ Cardinality(Pins) - 1
Bit(data, p) == (data \div 2 ^ p) % 2
Flip(bit, flipped) == IF flipped THEN 1 - bit ELSE bit
Empty == [p \in {} |-> 0]

\* f with v at p.
With(f, p, v) == [q \in DOMAIN f \cup {p} |-> IF q = p THEN v ELSE f[q]]

LinesInit(makers) ==
  /\ maker \in makers
  /\ input \in BOOLEAN
  /\ isopen = FALSE /\ sessions = 0
  /\ logic = Empty /\ port = "none"
  /\ cache = <<>> /\ task = <<>>
  /\ inverted = FALSE
  /\ level = [p \in Pins |-> 0]
  /\ asked = Empty /\ heard = Empty
  /\ output = "none" /\ aotask = "none"
  /\ muddled = FALSE

----------------------------------------------------------------------------
(* NI *)

Cached(p) == \E i \in DOMAIN cache : cache[i].pin = p
Wired(p) == \E i \in DOMAIN task : task[i] = p

CacheSet(p, bit) ==
  IF Cached(p)
  THEN [i \in DOMAIN cache |-> IF cache[i].pin = p THEN [cache[i] EXCEPT !.bit = bit] ELSE cache[i]]
  ELSE Append(cache, [pin |-> p, bit |-> bit])

\* The line is in the cache before DAQmx is asked, which takes no line twice.  The registries
\* and the cache survive close(), the task does not.
NiConfigureLine(p, ok) ==
  /\ Wired(p) => ~ok
  /\ cache' = CacheSet(p, 0)
  /\ task' = IF ok THEN Append(task, p) ELSE task
  /\ muddled' = (muddled \/ ~ok \/ sessions > 1)
  /\ UNCHANGED inverted

\* CHAN_FOR_ALL_LINES, in a task of its own.
NiConfigurePort ==
  /\ task' = [i \in 1..Cardinality(Pins) |-> i - 1]
  /\ UNCHANGED <<cache, inverted>>

\* A bug of the usual kind: the values are sent before the new one is among them.
NiSendBeforeSet(p, raw) ==
  /\ task # <<>>
  /\ cache' = CacheSet(p, raw)
  /\ Len(cache') = Len(task)
  /\ level' = [q \in Pins |-> IF Wired(q) THEN cache[CHOOSE i \in DOMAIN task : task[i] = q].bit
                              ELSE level[q]]

\* write_digital_line(): the new value is kept, and the values of all lines are sent.
NiSend(p, raw) ==
  /\ task # <<>>
  /\ cache' = CacheSet(p, raw)
  /\ Len(cache') = Len(task)
  /\ level' = [q \in Pins |-> IF Wired(q) THEN cache'[CHOOSE i \in DOMAIN task : task[i] = q].bit
                              ELSE level[q]]

\* DAQmx refuses a list that is not as long as its task; the value is kept all the same.
NiSendRefused(p, raw) ==
  /\ task # <<>>
  /\ cache' = CacheSet(p, raw)
  /\ Len(cache') # Len(task)
  /\ UNCHANGED level

\* read_digital_line(): all lines are read; the answer is at the line's place in the cache.
NiSense(p) ==
  LET place == CHOOSE i \in DOMAIN cache : cache[i].pin = p
  IN  /\ Len(task) >= Len(cache)
      /\ heard' = With(Empty, p, Flip(level[task[place]], logic[p] = "LOW"))
      /\ cache' = [i \in DOMAIN cache |-> [cache[i] EXCEPT !.bit = level[task[i]]]]

NiPortLevels(data) ==
  /\ task # <<>>
  /\ LET raw == IF port = "LOW" THEN Mask - data ELSE data
     IN  level' = [p \in Pins |-> Bit(raw, p)]

----------------------------------------------------------------------------
(* MCC and LabJack: one call of the library for one line *)

MccConfigureLine == UNCHANGED <<cache, task, inverted, muddled>>
LabJackConfigureLine == UNCHANGED <<cache, task, inverted, muddled>>

MccSend(p, raw) == level' = [level EXCEPT ![p] = raw] /\ UNCHANGED cache
LabJackSend(p, raw) == level' = [level EXCEPT ![p] = raw] /\ UNCHANGED cache

MccSense(p) == heard' = With(Empty, p, Flip(level[p], logic[p] = "LOW")) /\ UNCHANGED cache
LabJackSense(p) == heard' = With(Empty, p, Flip(level[p], logic[p] = "LOW")) /\ UNCHANGED cache

\* write_digital_port(): data ^ mask for an active-low port.
MccPortLevels(data) ==
  LET raw == IF port = "LOW" THEN Mask - data ELSE data
  IN  level' = [p \in Pins |-> Bit(raw, p)]

----------------------------------------------------------------------------
(* Keysight: active-low is applied by the hardware *)

\* The voltage on a line.
Wire(p) == Flip(level[p], inverted)

\* _program_port(): width, direction and polarity of the port of the line, before the
\* instrument is asked for errors.  It inverts the lines of the port that were configured
\* with the other polarity.
KeysightProgramPort(l) ==
  /\ inverted' = (l = "LOW")
  /\ muddled' = (muddled \/ \E q \in DOMAIN logic : logic[q] # l)
  /\ UNCHANGED <<cache, task>>

KeysightSend(p, data) == level' = [level EXCEPT ![p] = data] /\ UNCHANGED cache
KeysightSense(p) == heard' = With(Empty, p, Wire(p)) /\ UNCHANGED cache
KeysightPortLevels(data) == level' = [p \in Pins |-> Bit(data, p)]

\* *RST at open() takes the polarity of the lines that the registries still have.
KeysightReset ==
  /\ inverted' = FALSE
  /\ level' = [p \in Pins |-> 0]
  /\ muddled' = (muddled \/ DOMAIN logic # {} \/ port # "none")

----------------------------------------------------------------------------
(* InstroDAQ *)

OpenLines ==
  /\ ~isopen /\ sessions < LineSessions
  /\ isopen' = TRUE /\ sessions' = sessions + 1
  /\ asked' = Empty /\ heard' = Empty
  /\ IF maker = "keysight" THEN KeysightReset ELSE UNCHANGED <<inverted, level, muddled>>
  /\ UNCHANGED <<maker, input, logic, port, cache, task, outputs>>

\* NI closes its tasks; the registries stay.
CloseLines ==
  /\ isopen
  /\ isopen' = FALSE
  /\ task' = <<>> /\ aotask' = "none"
  /\ asked' = Empty /\ heard' = Empty
  /\ UNCHANGED <<maker, input, sessions, logic, port, cache, inverted, level, output, muddled>>

\* configure_digital_line(): the library or the instrument may refuse.
ConfigureDigitalLine(p, l, ok) ==
  /\ isopen /\ port = "none"
  /\ \/ maker = "mcc" /\ MccConfigureLine
     \/ maker = "ni" /\ NiConfigureLine(p, ok)
     \/ maker = "labjack" /\ LabJackConfigureLine
     \/ maker = "keysight" /\ KeysightProgramPort(l)
  /\ logic' = IF ok THEN With(logic, p, l) ELSE logic
  /\ asked' = [q \in DOMAIN asked \ {p} |-> asked[q]]
  /\ heard' = Empty
  /\ UNCHANGED <<kept, port, level, outputs>>

\* configure_digital_port(); LabJack has no ports.
ConfigureDigitalPort(l) ==
  /\ isopen /\ maker # "labjack"
  /\ DOMAIN logic = {} /\ cache = <<>>
  /\ \/ maker = "mcc" /\ UNCHANGED <<cache, task, inverted, muddled>>
     \/ maker = "ni" /\ NiConfigurePort /\ UNCHANGED muddled
     \/ maker = "keysight" /\ KeysightProgramPort(l)
  /\ port' = l
  /\ asked' = Empty /\ heard' = Empty
  /\ UNCHANGED <<kept, logic, level, outputs>>

\* write_digital_line().
WriteDigitalLine(p, data) ==
  LET raw == Flip(data, logic[p] = "LOW")
  IN  /\ isopen /\ ~input /\ p \in DOMAIN logic
      /\ \/ maker = "mcc" /\ MccSend(p, raw)
         \/ maker = "ni" /\ NiSend(p, raw)
         \/ maker = "labjack" /\ LabJackSend(p, raw)
         \/ maker = "keysight" /\ KeysightSend(p, data)
      /\ asked' = With(asked, p, raw)
      /\ UNCHANGED <<kept, logic, port, task, inverted, outputs, heard, muddled>>

WriteRefused(p, data) ==
  /\ isopen /\ ~input /\ p \in DOMAIN logic
  /\ maker = "ni" /\ NiSendRefused(p, Flip(data, logic[p] = "LOW"))
  /\ UNCHANGED <<kept, logic, port, task, inverted, asked, outputs, heard, muddled>>

\* write_digital_port(): a value the port is too narrow for is refused.
WriteDigitalPort(data) ==
  /\ isopen /\ ~input /\ port # "none"
  /\ data <= Mask
  /\ \/ maker = "mcc" /\ MccPortLevels(data)
     \/ maker = "ni" /\ NiPortLevels(data)
     \/ maker = "keysight" /\ KeysightPortLevels(data)
  /\ asked' = [p \in Pins |-> Flip(Bit(data, p), port = "LOW")]
  /\ UNCHANGED <<kept, logic, port, cache, task, inverted, outputs, heard, muddled>>

\* read_digital_line().
ReadDigitalLine(p) ==
  /\ isopen /\ input /\ p \in DOMAIN logic
  /\ \/ maker = "mcc" /\ MccSense(p)
     \/ maker = "ni" /\ NiSense(p)
     \/ maker = "labjack" /\ LabJackSense(p)
     \/ maker = "keysight" /\ KeysightSense(p)
  /\ UNCHANGED <<kept, logic, port, task, inverted, level, asked, outputs, muddled>>

\* read_digital_port().
ReadDigitalPort ==
  /\ isopen /\ input /\ port # "none"
  /\ maker = "ni" => task # <<>>
  /\ heard' = [p \in Pins |-> IF maker = "keysight" THEN Wire(p) ELSE Flip(level[p], port = "LOW")]
  /\ UNCHANGED <<kept, logic, port, cache, task, inverted, level, asked, outputs, muddled>>

\* What the wires carry changes.
Drive(p) ==
  /\ input
  /\ level' = [level EXCEPT ![p] = 1 - @]
  /\ heard' = Empty
  /\ UNCHANGED <<kept, logic, port, cache, task, inverted, asked, outputs, muddled>>

\* configure_ao_channel() of NI: the task is kept before the board accepts the channel, and a
\* second one is refused.
NiConfigureOutput(ok) ==
  /\ aotask # "none" => ~ok
  /\ aotask' = IF aotask # "none" THEN aotask ELSE IF ok THEN "ready" ELSE "empty"

\* configure_analog_channel(OUTPUT), or configure_relay_channel() of the Keysight.
ConfigureOutput(ok) ==
  /\ isopen /\ DOMAIN logic = {}
  /\ IF maker = "ni" THEN NiConfigureOutput(ok) ELSE UNCHANGED aotask
  /\ output' = IF ok /\ output = "none" THEN "unset" ELSE output
  /\ UNCHANGED <<kept, logic, port, cache, task, inverted, level, asked, heard, muddled>>

OutputSet(value) ==
  /\ isopen /\ output # "none"
  /\ output' = value
  /\ UNCHANGED <<kept, aotask, logic, port, cache, task, inverted, level, asked, heard, muddled>>

\* write_analog_value(); NI writes with the channel's own task.
WriteAnalogValue(value) ==
  /\ maker # "keysight"
  /\ maker = "ni" => aotask = "ready"
  /\ OutputSet(value)

\* close_relay(), open_relay().
SwitchRelay(closed) ==
  /\ maker = "keysight"
  /\ OutputSet(IF closed THEN "high" ELSE "low")

LinesNext ==
  \/ OpenLines \/ CloseLines
  \/ \E p \in Pins, l \in Logics, ok \in BOOLEAN : ConfigureDigitalLine(p, l, ok)
  \/ \E l \in Logics : ConfigureDigitalPort(l)
  \/ \E p \in Pins, data \in 0..1 : WriteDigitalLine(p, data) \/ WriteRefused(p, data)
  \/ \E data \in 0..(Mask + 1) : WriteDigitalPort(data)
  \/ \E p \in Pins : ReadDigitalLine(p)
  \/ ReadDigitalPort
  \/ \E p \in Pins : Drive(p)
  \/ \E ok \in BOOLEAN : ConfigureOutput(ok)
  \/ \E value \in {"low", "high"} : WriteAnalogValue(value)
  \/ \E closed \in BOOLEAN : SwitchRelay(closed)

----------------------------------------------------------------------------

\* Every line carries what was last asked of it, whatever was written to the other lines since,
\* and a reading is of the line it is published for: the write of one NI line sends all lines
\* again, from a cache, and a read takes all of them.  Active-low is applied exactly once.
\* Set aside (muddled): a line that was refused, a registry that outlived its board, and a
\* Keysight port whose lines were configured with both polarities, since the last one is that
\* of the whole port.
LinesAreTheirOwn ==
  ~muddled =>
    /\ ~input => \A p \in DOMAIN asked : Wire(p) = asked[p]
    /\ input => \A p \in DOMAIN heard :
         heard[p] = Flip(level[p], IF port # "none" THEN port = "LOW" ELSE logic[p] = "LOW")

=============================================================================
