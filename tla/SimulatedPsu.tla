---------------------------- MODULE SimulatedPsu ----------------------------
(***************************************************************************)
(* instro.psu.scpi_sim_server: the simulated supply behind the SCPI        *)
(* server.  A handler refuses its command with an entry in the error       *)
(* queue, or changes one channel and updates every channel: the update     *)
(* computes what the channel's source does into its load and trips the     *)
(* protections.  Voltages, currents and resistances are integers, chosen   *)
(* so that no quotient has a fraction; a measurement's noise is left out.  *)
(* The field latched stands for protection_latched and the two tripped     *)
(* flags, which the code sets and clears together.                         *)
(***************************************************************************)
EXTENDS Integers, Sequences

CONSTANTS
  MaxId,                    \* bound: channel ids are 1..MaxId
  VoltageMax, CurrentMax,   \* DEFAULT_VOLTAGE_MAX, DEFAULT_CURRENT_MAX
  Resistance, Probe         \* DEFAULT_LOAD_RESISTANCE, DEFAULT_PROBE_RESISTANCE

Open == 0 - 1               \* an infinite resistance

ASSUME LimitsAssumption == MaxId \in Nat \ {0} /\ VoltageMax \in Nat /\ CurrentMax \in Nat
ASSUME LoadsAssumption == Resistance \in Nat /\ Probe \in Nat

VARIABLES
  channels,   \* the channels that exist, by id
  errors      \* _error_queue: codes, each with the channel that caused it

psuVars == <<channels, errors>>

Ids == 1..MaxId

TripCodes == {"overvoltage_tripped", "overcurrent_tripped"}
Refusals ==
  {"suffix_out_of_range", "data_out_of_range", "pv_above_ovp", "pc_above_ocp", "ovp_below_pv", "ocp_below_pc"}

Magnitude(x) == IF x < 0 THEN -x ELSE x

----------------------------------------------------------------------------
(* SimulatedPSUChannel *)

\* A channel whose output does something else.
Output(ch, mode, current, load_voltage, terminal_voltage) ==
  [ch EXCEPT !.mode = mode, !.current = current,
             !.load_voltage = load_voltage, !.terminal_voltage = terminal_voltage]

Off(ch) == Output(ch, "OFF", 0, 0, 0)

Tripped(ch) == Off([ch EXCEPT !.latched = TRUE, !.output_enabled = FALSE])

\* Both protections off, at the channel's limits.
Unprotected(ch) ==
  [ch EXCEPT !.ovp_level = ch.voltage_max, !.ovp_enabled = FALSE,
             !.ocp_level = ch.current_max, !.ocp_enabled = FALSE]

\* A channel as __init__ leaves it, attached to its load, with its limits and sense mode.
Reset(ch) ==
  Off([Unprotected(ch) EXCEPT !.voltage_setpoint = 0, !.current_limit = 0,
                              !.output_enabled = FALSE, !.latched = FALSE])

NewChannel ==
  [voltage_max |-> VoltageMax, current_max |-> CurrentMax, voltage_setpoint |-> 0, current_limit |-> 0,
   ovp_level |-> VoltageMax, ovp_enabled |-> FALSE, ocp_level |-> CurrentMax, ocp_enabled |-> FALSE,
   remote_sense |-> FALSE, output_enabled |-> FALSE, resistance |-> Resistance, probe |-> Probe, emf |-> 0,
   terminal_voltage |-> 0, load_voltage |-> 0, current |-> 0, mode |-> "OFF", latched |-> FALSE]

\* r_total: remote sense regulates at the load, behind the probe.
Total(ch) ==
  IF ch.remote_sense \/ ch.resistance = Open THEN ch.resistance ELSE ch.resistance + ch.probe

\* i_demand; a short asks for an infinite current unless the EMF balances the setpoint.
Demand(ch) ==
  IF Total(ch) \in {0, Open} THEN 0 ELSE (ch.voltage_setpoint - ch.emf) \div Total(ch)

VoltageRegulated(ch) ==
  IF Total(ch) = 0 THEN ch.voltage_setpoint = ch.emf ELSE Demand(ch) <= ch.current_limit

\* _update_voltage_source(): constant voltage, or constant current at the limit.
Source(ch) ==
  LET drop(current) == current * ch.probe
      v == ch.voltage_setpoint
      i == Demand(ch)
      at_load == ch.current_limit * ch.resistance + ch.emf
  IN  IF ~VoltageRegulated(ch)
      THEN Output(ch, "CC", ch.current_limit, at_load, at_load + drop(ch.current_limit))
      ELSE IF ch.remote_sense THEN Output(ch, "CV", i, v, v + drop(i))
      ELSE Output(ch, "CV", i, v - drop(i), v)

\* _sense_voltage().
Sensed(ch) == IF ch.remote_sense THEN ch.load_voltage ELSE ch.terminal_voltage

OverVoltage(ch) == ch.ovp_enabled /\ Sensed(ch) > ch.ovp_level
OverCurrent(ch) == ch.ocp_enabled /\ Magnitude(ch.current) > ch.ocp_level

Driving(ch) == ch.output_enabled /\ ~ch.latched

\* _update_channel().
Updated(ch) ==
  IF ~Driving(ch) THEN Off(ch)
  ELSE IF OverVoltage(Source(ch)) \/ OverCurrent(Source(ch)) THEN Tripped(ch)
  ELSE Source(ch)

Trips(ch) == Driving(ch) /\ Updated(ch).latched

\* The error that the update of a channel that trips queues; overvoltage is looked at first.
TripOf(id, ch) ==
  [code |-> IF OverVoltage(Source(ch)) THEN "overvoltage_tripped" ELSE "overcurrent_tripped",
   channel |-> id]

\* The channels that trip, in the one order in which the update goes through them.
TripOrders(chs) ==
  LET tripped == {id \in DOMAIN chs : Trips(chs[id])}
  IN  {s \in UNION {[1..n -> tripped] : n \in 0..MaxId} :
         /\ \A i, j \in DOMAIN s : i < j => s[i] < s[j]
         /\ \A id \in tripped : \E i \in DOMAIN s : s[i] = id}

\* _update(), after the channels have become chs and before the errors in after are queued.
UpdateThen(chs, after) ==
  /\ channels' = [id \in DOMAIN chs |-> Updated(chs[id])]
  /\ \E s \in TripOrders(chs) :
       errors' = errors \o [i \in DOMAIN s |-> TripOf(s[i], chs[s[i]])] \o after

Update(chs) == UpdateThen(chs, <<>>)

----------------------------------------------------------------------------
(* The handlers of the SCPI commands *)

Present(id) == id \in DOMAIN channels

Refuse(id, code) ==
  /\ errors' = Append(errors, [code |-> code, channel |-> id])
  /\ UNCHANGED channels

Apply(id, ch) == Update([channels EXCEPT ![id] = ch])

\* _require_channel().
MissingChannel(id) == ~Present(id) /\ Refuse(id, "suffix_out_of_range")

\* A bug of the usual kind: the range is not looked at below.
SetVoltageBelowZero(id, x) ==
  \/ MissingChannel(id)
  \/ /\ Present(id)
     /\ IF x > channels[id].ovp_level THEN Refuse(id, "pv_above_ovp")
        ELSE Apply(id, [channels[id] EXCEPT !.voltage_setpoint = x])

SetVoltage(id, x) ==
  \/ MissingChannel(id)
  \/ /\ Present(id)
     /\ IF x \notin 0..channels[id].voltage_max THEN Refuse(id, "data_out_of_range")
        ELSE IF x > channels[id].ovp_level THEN Refuse(id, "pv_above_ovp")
        ELSE Apply(id, [channels[id] EXCEPT !.voltage_setpoint = x])

SetCurrent(id, x) ==
  \/ MissingChannel(id)
  \/ /\ Present(id)
     /\ IF x \notin 0..channels[id].current_max THEN Refuse(id, "data_out_of_range")
        ELSE IF x > channels[id].ocp_level THEN Refuse(id, "pc_above_ocp")
        ELSE Apply(id, [channels[id] EXCEPT !.current_limit = x])

\* A bug of the usual kind: the level is not held against the setpoint.
SetOvpLevelBelow(id, x) ==
  \/ MissingChannel(id)
  \/ /\ Present(id)
     /\ IF x \notin 0..channels[id].voltage_max THEN Refuse(id, "data_out_of_range")
        ELSE Apply(id, [channels[id] EXCEPT !.ovp_level = x])

SetOvpLevel(id, x) ==
  \/ MissingChannel(id)
  \/ /\ Present(id)
     /\ IF x \notin 0..channels[id].voltage_max THEN Refuse(id, "data_out_of_range")
        ELSE IF x < channels[id].voltage_setpoint THEN Refuse(id, "ovp_below_pv")
        ELSE Apply(id, [channels[id] EXCEPT !.ovp_level = x])

SetOcpLevel(id, x) ==
  \/ MissingChannel(id)
  \/ /\ Present(id)
     /\ IF x \notin 0..channels[id].current_max THEN Refuse(id, "data_out_of_range")
        ELSE IF x < channels[id].current_limit THEN Refuse(id, "ocp_below_pc")
        ELSE Apply(id, [channels[id] EXCEPT !.ocp_level = x])

\* A bug of the usual kind: the channels are not updated.
SetOvpStateOnly(id, enable) ==
  \/ MissingChannel(id)
  \/ /\ Present(id)
     /\ channels' = [channels EXCEPT ![id].ovp_enabled = enable]
     /\ UNCHANGED errors

SetOvpState(id, enable) ==
  MissingChannel(id) \/ (Present(id) /\ Apply(id, [channels[id] EXCEPT !.ovp_enabled = enable]))

SetOcpState(id, enable) ==
  MissingChannel(id) \/ (Present(id) /\ Apply(id, [channels[id] EXCEPT !.ocp_enabled = enable]))

\* Turning the output on clears the latch; turning it off does not.
SetOutput(id, enable) ==
  \/ MissingChannel(id)
  \/ /\ Present(id)
     /\ Apply(id, [channels[id] EXCEPT !.latched = @ /\ ~enable, !.output_enabled = enable])

ClearProtectionLatch(id) ==
  MissingChannel(id) \/ (Present(id) /\ Apply(id, [channels[id] EXCEPT !.latched = FALSE]))

SetRemoteSense(id, enable) ==
  MissingChannel(id) \/ (Present(id) /\ Apply(id, [channels[id] EXCEPT !.remote_sense = enable]))

\* The measurements update first, and look for the channel afterwards.
Measure(id) ==
  IF Present(id) THEN Update(channels)
  ELSE UpdateThen(channels, << [code |-> "suffix_out_of_range", channel |-> id] >>)

\* The other queries change nothing.
Query(id) == MissingChannel(id) \/ (Present(id) /\ UNCHANGED psuVars)

\* *RST, which clears the error queue too, with the channels as they are in chs.
ResetTo(chs) ==
  /\ channels' = [id \in DOMAIN chs |-> Reset(chs[id])]
  /\ errors' = <<>>

----------------------------------------------------------------------------
(* The panel of the simulator edits the channels under the server's lock *)

EditLoad(id, r) == Present(id) /\ Apply(id, [channels[id] EXCEPT !.resistance = r])
EditProbe(id, r) == Present(id) /\ Apply(id, [channels[id] EXCEPT !.probe = r])
EditEmf(id, e) == Present(id) /\ Apply(id, [channels[id] EXCEPT !.emf = e])

EditVoltageLimit(id, x) == Present(id) /\ ResetTo([channels EXCEPT ![id].voltage_max = x])
EditCurrentLimit(id, x) == Present(id) /\ ResetTo([channels EXCEPT ![id].current_max = x])

\* The new id is one more than the largest.
AddChannel ==
  /\ \E id \in Ids :
       /\ \A other \in DOMAIN channels : other < id
       /\ id = 1 \/ Present(id - 1)
       /\ channels' = [c \in DOMAIN channels \cup {id} |-> IF c = id THEN NewChannel ELSE channels[c]]
  /\ UNCHANGED errors

RemoveChannel(id) ==
  /\ Present(id)
  /\ channels' = [c \in DOMAIN channels \ {id} |-> channels[c]]
  /\ UNCHANGED errors
=============================================================================
