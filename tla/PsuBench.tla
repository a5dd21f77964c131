------------------------------ MODULE PsuBench ------------------------------
(***************************************************************************)
(* A supply on the bench: threads call InstroPSU, whose driver sends one   *)
(* command to the simulated supply and then takes one entry of its error   *)
(* queue, both under the instrument's lock, while somebody edits loads,    *)
(* limits and channels at the simulator's panel.  The panel and the        *)
(* server share a lock, but the driver holds nothing of it between its     *)
(* command and its look at the errors.                                     *)
(***************************************************************************)
EXTENDS SimulatedPsu

CONSTANTS
  Threads,              \* threads that call the instrument: the user's and the daemon
  Levels,               \* voltages and currents that are asked for, besides one below zero
  VoltageLimits,        \* limits set at the panel
  CurrentLimits,
  Resistances,          \* resistances of loads and probes set at the panel, besides the open load
  Emfs,                 \* EMFs set at the panel
  MaxErrors             \* bound: entries of the error queue

Nobody == "nobody"

ASSUME ThreadsAssumption == Nobody \notin Threads
ASSUME LevelsAssumption == Levels \subseteq Nat
ASSUME PanelAssumption ==
  /\ VoltageLimits \subseteq Nat /\ CurrentLimits \subseteq Nat
  /\ Resistances \subseteq Nat /\ Emfs \subseteq Int
ASSUME MaxErrorsAssumption == MaxErrors \in Nat

VARIABLES
  holder,     \* the thread that holds _resource_lock
  call,       \* its call: the command and its arguments
  stage,      \* how far it is
  refused,    \* history: the supply has refused the command
  wiped,      \* history: the panel has reset the supply since
  told,       \* history: channels whose trip some thread was told of
  outcome     \* how the last call ended

callVars == <<holder, call, stage, refused, wiped>>
vars == <<psuVars, callVars, told, outcome>>

Asked == Levels \cup {0 - 1}

\* What the driver sends.  It has no method for OUTP:PROT:CLE: a script that speaks SCPI
\* through the driver's resource sends it in the same way.
Commands ==
  [op : {"VOLT", "CURR", "VOLT:PROT", "CURR:PROT"}, id : Ids, arg : Asked]
    \cup [op : {"VOLT:PROT:STAT", "CURR:PROT:STAT", "OUTP", "SENS"}, id : Ids, arg : BOOLEAN]
    \cup [op : {"OUTP:PROT:CLE", "MEAS", "query"}, id : Ids, arg : {"none"}]

NoCommand == [op |-> "query", id |-> 1, arg |-> "none"]

Init ==
  /\ channels = [id \in Ids |-> NewChannel]
  /\ errors = <<>>
  /\ holder = Nobody
  /\ call = NoCommand
  /\ stage = "free"
  /\ refused = FALSE
  /\ wiped = FALSE
  /\ told = {}
  /\ outcome = "none"

Latched(chs) == {id \in DOMAIN chs : chs[id].latched}

\* told keeps to the trips that stand: a channel that is not latched has none.
Standing(chs) == told \cap Latched(channels) \cap Latched(chs)

----------------------------------------------------------------------------
(* InstroPSU and the driver *)

\* _execute_command() and _execute_measurement() take the lock.
Call(t, c) ==
  /\ holder = Nobody
  /\ holder' = t
  /\ call' = c
  /\ stage' = "sent"
  /\ outcome' = "none"
  /\ UNCHANGED <<psuVars, refused, wiped, told>>

\* The handler of the command that was sent.
Handler(c) ==
  \/ c.op = "VOLT" /\ SetVoltage(c.id, c.arg)
  \/ c.op = "CURR" /\ SetCurrent(c.id, c.arg)
  \/ c.op = "VOLT:PROT" /\ SetOvpLevel(c.id, c.arg)
  \/ c.op = "CURR:PROT" /\ SetOcpLevel(c.id, c.arg)
  \/ c.op = "VOLT:PROT:STAT" /\ SetOvpState(c.id, c.arg)
  \/ c.op = "CURR:PROT:STAT" /\ SetOcpState(c.id, c.arg)
  \/ c.op = "OUTP" /\ SetOutput(c.id, c.arg)
  \/ c.op = "SENS" /\ SetRemoteSense(c.id, c.arg)
  \/ c.op = "OUTP:PROT:CLE" /\ ClearProtectionLatch(c.id)
  \/ c.op = "MEAS" /\ Measure(c.id)
  \/ c.op = "query" /\ Query(c.id)

\* The server processes the command.
Serve ==
  /\ stage = "sent"
  /\ Handler(call)
  /\ stage' = "served"
  /\ refused' = (errors' \notin {errors, <<>>} /\ errors'[Len(errors')].code \in Refusals)
  /\ told' = Standing(channels')
  /\ UNCHANGED <<holder, call, wiped, outcome>>

Finish(result) ==
  /\ outcome' = result
  /\ holder' = Nobody
  /\ call' = NoCommand
  /\ stage' = "free"
  /\ refused' = FALSE
  /\ wiped' = FALSE
  /\ UNCHANGED channels

\* A bug of the usual kind: only a refusal is an error.
CheckErrorsRefusals ==
  /\ stage = "served"
  /\ errors' = IF errors = <<>> THEN <<>> ELSE Tail(errors)
  /\ told' = told
  /\ Finish(IF errors # <<>> /\ Head(errors).code \in Refusals THEN "raised" ELSE "ok")

\* _check_errors(): SYST:ERR? takes one entry off the queue, and any entry is raised.
CheckErrors ==
  /\ stage = "served"
  /\ IF errors = <<>>
     THEN Finish("ok") /\ UNCHANGED <<errors, told>>
     ELSE /\ Finish("raised")
          /\ errors' = Tail(errors)
          /\ told' = IF Head(errors).code \in TripCodes /\ Head(errors).channel \in Latched(channels)
                     THEN told \cup {Head(errors).channel} ELSE told

----------------------------------------------------------------------------
(* The panel *)

Edit(id) ==
  /\ Len(errors) < MaxErrors
  /\ \/ \E r \in Resistances \cup {Open} : EditLoad(id, r)
     \/ \E r \in Resistances : EditProbe(id, r)
     \/ \E e \in Emfs : EditEmf(id, e)
  /\ told' = Standing(channels')
  /\ UNCHANGED <<callVars, outcome>>

EditLimit(id) ==
  /\ \/ \E x \in VoltageLimits : EditVoltageLimit(id, x)
     \/ \E x \in CurrentLimits : EditCurrentLimit(id, x)
  /\ wiped' = (stage = "served")
  /\ told' = {}
  /\ UNCHANGED <<holder, call, stage, refused, outcome>>

Add == AddChannel /\ UNCHANGED <<callVars, told, outcome>>

Remove(id) ==
  /\ RemoveChannel(id)
  /\ told' = told \ {id}
  /\ UNCHANGED <<callVars, outcome>>

----------------------------------------------------------------------------
Next ==
  \/ \E t \in Threads, c \in Commands : Call(t, c)
  \/ Serve
  \/ CheckErrors
  \/ \E id \in Ids : Edit(id) \/ EditLimit(id) \/ Remove(id)
  \/ Add

Spec == Init /\ [][Next]_vars

----------------------------------------------------------------------------
(* Properties *)

Channel ==
  [voltage_max : Nat, current_max : Nat, voltage_setpoint : Nat, current_limit : Nat,
   ovp_level : Nat, ovp_enabled : BOOLEAN, ocp_level : Nat, ocp_enabled : BOOLEAN,
   remote_sense : BOOLEAN, output_enabled : BOOLEAN, resistance : Nat \cup {Open}, probe : Nat, emf : Int,
   terminal_voltage : Int, load_voltage : Int, current : Int, mode : {"OFF", "CV", "CC"}, latched : BOOLEAN]

Error == [code : TripCodes \cup Refusals, channel : Ids]

\* Every variable has its type.
TypeOK ==
  /\ DOMAIN channels \subseteq Ids
  /\ \A id \in DOMAIN channels : channels[id] \in Channel
  /\ errors \in Seq(Error)
  /\ holder \in Threads \cup {Nobody}
  /\ call \in Commands
  /\ stage \in {"free", "sent", "served"}
  /\ refused \in BOOLEAN /\ wiped \in BOOLEAN
  /\ told \subseteq Ids
  /\ outcome \in {"none", "ok", "raised"}

Protected(ch) ==
  /\ ch.ovp_enabled /\ ch.mode # "OFF" => Sensed(ch) <= ch.ovp_level
  /\ ch.ocp_enabled /\ ch.mode # "OFF" => Magnitude(ch.current) <= ch.ocp_level
  /\ ch.current <= ch.current_limit
  /\ ch.latched => ch.mode = "OFF" /\ ~ch.output_enabled

\* Whatever the panel does to loads and the driver to settings, a channel never shows a
\* voltage or a current that an enabled protection forbids, nor more than its limit, and
\* one that is latched is off.
ProtectionHolds == \A id \in DOMAIN channels : Protected(channels[id])

Ordered(ch) ==
  /\ ch.voltage_setpoint <= ch.ovp_level /\ ch.ovp_level <= ch.voltage_max
  /\ ch.current_limit <= ch.ocp_level /\ ch.ocp_level <= ch.current_max

\* Setpoints stay below their protection level and that below the channel's limit, in
\* whatever order the three are set and reset.
LevelsInOrder == \A id \in DOMAIN channels : Ordered(channels[id])

\* A channel that has tripped has told some caller of it, or has it in the error queue:
\* no trip is lost between the panel, two threads and one error per call.
TripIsNotSilent ==
  \A id \in Latched(channels) :
    id \in told \/ \E i \in DOMAIN errors : errors[i].channel = id /\ errors[i].code \in TripCodes

\* A call that returns without an error was not refused by the supply, and leaves no
\* error behind; a reset at the panel between the two is the one exception.
OkMeansApplied ==
  [][(holder # Nobody /\ holder' = Nobody /\ outcome' = "ok" /\ ~wiped) => ~refused /\ errors = <<>>]_vars
=============================================================================
