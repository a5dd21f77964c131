----------------------------- MODULE VisaBench -----------------------------
(***************************************************************************)
(* One SCPI or I2C instrument, the object that drives it and two threads   *)
(* that share the object: the user's and the background daemon's.  A call   *)
(* prepares, waits for the object's _resource_lock, takes the steps of its  *)
(* driver one at a time and, after the lock, updates what the object        *)
(* remembers and publishes.  The instrument may refuse a command, answer    *)
(* too late or fail to take a write; close() cuts into running calls where  *)
(* the code does not wait for them.                                        *)
(***************************************************************************)
EXTENDS PsuDrivers, MeterDrivers, ScopeDrivers, I2CInterface

CONSTANTS
    Kinds,      \* the instruments put on the bench, one at a time
    Menus,      \* for a scope: the sets of methods one behaviour may use
    User,       \* the thread that opens, closes and sets; the other one polls
    Channels,   \* the channels calls to a supply may name
    Values,     \* the values calls may set
    MaxSlots    \* how many measurements a Tektronix scope can hold

ASSUME BenchAssumption == User \in Threads /\ None \notin Threads /\ 1 \in Channels
ASSUME ChannelsAssumption == Channels \subseteq Nat \ {0} /\ None \notin Channels \cup 1..2
ASSUME KindsAssumption == Kinds \subseteq Psus \cup Dmms \cup Loads \cup Scopes \cup {"Aardvark"}

VARIABLES
    kind,       \* which instrument it is
    menu,       \* which of its methods are used
    owner,      \* the thread that holds _resource_lock
    host,       \* what the object and its driver remember
    dev,        \* the instrument
    call,       \* what each thread is doing
    asked,      \* for each setting: the values it may have been asked to hold
    due,        \* single() returned and nobody ended that acquisition since
    adrift      \* a recorded disagreement has occurred: see GoesAdrift

vars == <<visaVars, kind, menu, owner, host, dev, call, asked, due, adrift>>

---------------------------------------------------------------------------
(* The instrument (external).                                              *)

Settings(k) ==
    CASE k \in Psus -> {"voltage", "ocp"} \X (1..IF k \in {"RigolDP800", "SiglentSPD3303", "BK914X"} THEN 2 ELSE 1)
      [] k \in Dmms -> {"DC_VOLTAGE", "RESISTANCE"} \X {0}
      [] k \in Loads -> {"mode", "CC", "CP", "input", "short"} \X {0}
      [] k \in Scopes -> {<<"scale", 1>>, <<"level", 1>>, <<"level", 2>>, <<"acq mode", 0>>, <<"average", 0>>}
      [] k = "Aardvark" -> {Register}

(* What they hold at first; 0 also stands for the average count that       *)
(* instrument and driver both start with.                                  *)
Fresh(k) ==
    [x \in Settings(k) |-> CASE x[1] = "mode" -> "CC" [] x[1] = "acq mode" -> "NORMAL" [] OTHER -> 0]

DevInit(k) ==
    [reg |-> Fresh(k), sel |-> 1, func |-> "DC_VOLTAGE", trig |-> "EDGE", errs |-> 0,
     acq |-> "stopped", fresh |-> FALSE, wave |-> 1, slots |-> <<>>]

(* Channel 0 is the selected one: a supply's, or a scope's trigger source. *)
Addressed(d, at) ==
    IF at[2] = 0 /\ <<at[1], d.sel>> \in DOMAIN d.reg THEN <<at[1], d.sel>> ELSE at

(* There is no such channel, or no room for another measurement.           *)
Impossible(d, m) ==
    \/ m.at[1] = "select" /\ m.to \notin 1..2
    \/ m.at[1] \in {"voltage", "ocp"} /\ Addressed(d, m.at) \notin DOMAIN d.reg
    \/ m.at[1] = "add slot" /\ Len(d.slots) = MaxSlots

Accepted(d, m) ==
    LET at == Addressed(d, m.at) IN
    CASE at[1] = "select" -> [d EXCEPT !.sel = m.to]
      [] at[1] = "function" -> [d EXCEPT !.func = m.to]
      [] at[1] = "averaging" -> [d EXCEPT !.reg[<<"acq mode", 0>>] = "AVERAGE",
                                          !.reg[<<"average", 0>>] = m.to]
      [] at[1] = "trigger type" -> [d EXCEPT !.trig = m.to]
      [] at[1] = "trigger" -> [d EXCEPT !.trig = m.to[1], !.sel = m.to[2]]
      [] at[1] = "acquisition" -> [d EXCEPT !.acq = m.to, !.fresh = @ /\ m.to # "armed"]
      [] at[1] = "force" -> [d EXCEPT !.acq = IF @ = "armed" THEN "stopped" ELSE @,
                                      !.fresh = @ \/ d.acq # "stopped"]
      [] at[1] = "wave source" -> [d EXCEPT !.wave = m.to]
      [] at[1] = "add slot" -> [d EXCEPT !.slots = Append(@, <<m.to, 1>>)]
      [] at[1] = "slot source" -> [d EXCEPT !.slots[Len(d.slots)][2] = m.to]
      [] at[1] = "recall" -> DevInit(kind)
      [] OTHER -> IF at \in DOMAIN d.reg THEN [d EXCEPT !.reg[at] = m.to] ELSE d

Refused(d) == [d EXCEPT !.errs = 1]

(* What a query reads: which quantity of which channel the reply is about. *)
Reply(d, h, at) ==
    CASE at[1] = "read" -> <<d.func, 0>>
      [] at[1] = "register" -> <<"register", d.reg[at]>>
      [] at[1] = "slots" -> <<"slots", Len(d.slots)>>
      [] at[1] = "slot" -> d.slots[h.slots[at[2]]]
      [] at[1] = "state" -> <<d.acq, 0>>
      [] at = <<"wave", 0>> -> <<"wave", d.wave>>
      [] at[1] \in {"voltage", "ocp"} -> Addressed(d, at)
      [] OTHER -> at

---------------------------------------------------------------------------
(* Calls.                                                                  *)

C(op, name, ch, val) == [op |-> op, name |-> name, ch |-> ch, val |-> val]
NoCall == C("none", "none", 0, 0)

PsuReads == {C("get", "voltage", ch, 0) : ch \in Channels} \cup {C("get", "ocp", 1, 0)}
PsuWrites == {C("set", "voltage", ch, v) : ch \in Channels, v \in Values}

DmmReads == {C("read", "none", 0, 0)}
DmmWrites ==
    {C("function", f, 0, 0) : f \in {"DC_VOLTAGE", "RESISTANCE", "AC_VOLTAGE"}}
      \cup {C("range", "none", 0, v) : v \in Values}

LoadReads == {C("get", "current", 0, 0)}
LoadWrites ==
    {C("mode", m, 0, 0) : m \in {"CC", "CP"}}
      \cup {C(op, "none", 0, 1) : op \in {"level", "range", "short", "output"}}

ScopeReads ==
    {C("get", "scale", 1, 0), C("state", "none", 0, 0), C("fetch", "wave", 2, 0),
     C("measure", "VPP", 1, 0), C("measure", "FREQUENCY", 2, 0)}
ScopeWrites ==
    {C("set", "scale", 1, 1), C("set", "average", 0, 1)}
      \cup {C("acq mode", mode, 0, 0) : mode \in {"NORMAL", "AVERAGE", "ENVELOPE"}}
      \cup {C(op, "none", 0, 0) : op \in {"run", "stop", "single", "force", "load"}}
      \cup {C("source", "none", ch, 0) : ch \in 1..2}
      \cup {C("type", ty, 0, 0) : ty \in {"EDGE", "PULSE"}}
      \cup {C("level", "none", 0, 1), C("slope", "RISING", 0, 0), C("save", "setup", 0, 0)}

I2CReads ==
    {C("get", "register", 0, 0), C("query", "none", 0, 0), C("set", "mode", 0, 1), C("set", "gain", 0, 3)}
I2CWrites ==
    {C("set", f, 0, v) : f \in Fields, v \in {1, 4}}
      \cup {C("set", "register", 0, v) : v \in {0, 5}}
      \cup {C("reset", "none", 0, 0)}

Reads(k) ==
    CASE k \in Psus -> PsuReads
      [] k \in Dmms -> DmmReads
      [] k \in Loads -> LoadReads
      [] k \in Scopes -> ScopeReads
      [] k = "Aardvark" -> I2CReads

Writes(k) ==
    CASE k \in Psus -> PsuWrites
      [] k \in Dmms -> DmmWrites
      [] k \in Loads -> LoadWrites
      [] k \in Scopes -> ScopeWrites
      [] k = "Aardvark" -> I2CWrites

Statuses(k) ==
    IF k \in {"RigolDP800", "SiglentSPD3303"} THEN {C("status", "none", 0, 0)} ELSE {}

---------------------------------------------------------------------------
(* What instrument object and driver remember, and the steps of a call.    *)

MeasureKeys == {<<"VPP", 1>>, <<"FREQUENCY", 2>>}

HostInit ==
    [active |-> None, limits |-> <<>>, func |-> None, range |-> None, mode |-> None,
     armed |-> FALSE, stamp |-> "none", source |-> None, type |-> "EDGE",
     average |-> 0, slots |-> [key \in MeasureKeys |-> 0]]

(* open() of the driver, after the transport's.                            *)
OpenSteps(k) ==
    Step("open", <<"session", 0>>, 0) \o
    CASE k = "RigolDP800" -> LoadLimits([ch \in RigolChannels |-> 1])
      [] k = "Agilent34401A" -> AgilentOpen
      [] k = "Keithley2400" -> KeithleyOpen
      [] k \in Loads -> LoadOpen
      [] k = "SiglentSDS1000XE" -> SiglentOpen
      [] OTHER -> <<>>

CloseSteps(k) ==
    (IF k = "Keithley2400" THEN KeithleyClose(session) ELSE <<>>)
      \o Step("close", <<"session", 0>>, 0)

MethodSteps(k, h, c) ==
    CASE k \in Psus -> PsuSteps(k, h, c)
      [] k \in Dmms -> DmmSteps(k, h, c)
      [] k \in Loads -> BK85XXB(h, c)
      [] k \in Scopes -> ScopeSteps(k, h, c)
      [] k = "Aardvark" -> I2CSteps(c)

Steps(k, h, c) ==
    CASE c.op = "open" -> OpenSteps(k)
      [] c.op = "close" -> CloseSteps(k)
      [] OTHER -> MethodSteps(k, h, c)

(* Which calls take _resource_lock.                                        *)
Locks(k, c) ==
    c.op \notin {"open", "close", "status"} /\ (k = "Aardvark" => I2CLocks(c))

Ready(k, h, c) ==
    /\ k \in Dmms /\ c.op \in {"function", "range", "read"} => DmmReady(h, c)
    /\ k \in Loads => LoadReady(h, c)

(* The settings a call asks for, with the values it asks them to hold.  A   *)
(* trigger level is meant for the channel that triggers.                   *)
Select == <<"select", 0>>

SetTo(x, v) == [y \in {x} |-> v]

AskedBy(k, h, c) ==
    CASE k \in Psus /\ c.op = "set" -> SetTo(<<c.name, c.ch>>, c.val)
      [] k = "Keithley2400" /\ c.op = "range" -> SetTo(<<h.func, 0>>, c.val)
      [] c.op = "mode" -> SetTo(<<"mode", 0>>, c.name)
      [] k \in Loads /\ c.op = "level" -> SetTo(<<h.mode, 0>>, c.val)
      [] c.op = "output" -> SetTo(<<"input", 0>>, c.val)
      [] c.op = "short" -> [x \in {"input", "short"} \X {0} |-> c.val]
      [] k \in Scopes /\ c.op = "set" -> SetTo(<<c.name, c.ch>>, c.val)
      [] c.op = "acq mode" -> SetTo(<<"acq mode", 0>>, c.name)
      [] c.op = "source" -> SetTo(Select, c.ch)
      [] k \in Scopes /\ c.op = "level" -> [x \in {"level"} \X asked[Select] |-> c.val]
      [] c.op = "load" -> [x \in {Select} \cup Settings(k) |-> IF x = Select THEN 1 ELSE Fresh(k)[x]]
      [] k = "Aardvark" /\ c.op = "set" /\ c.name \in Fields ->
           SetTo(<<c.name, 0>>, c.val % (2 ^ FieldDef[c.name].width))
      [] k = "Aardvark" /\ (c.op = "reset" \/ (c.op = "set" /\ c.name = "register")) ->
           [x \in Fields \X {0} |-> Extract(IF c.op = "set" THEN c.val ELSE DefaultValue, x[1])]
      [] OTHER -> <<>>

AskedInit(k) ==
    IF k = "Aardvark" THEN [x \in Fields \X {0} |-> {0}]
    ELSE [x \in Settings(k) \cup (IF k \in Scopes THEN {Select} ELSE {}) |->
            {IF x = Select THEN 1 ELSE Fresh(k)[x]}]

(* From its first step on a call may have been carried out; once it has     *)
(* returned it has been, unless it is not known which channel triggers.     *)
AskedToo(k, h, c) ==
    [x \in DOMAIN asked |-> asked[x] \cup (IF x \in DOMAIN AskedBy(k, h, c)
                                           THEN {AskedBy(k, h, c)[x]} ELSE {})]
Sole(S) == \E x \in S : S = {x}
AskedOnly(k, h, c) ==
    [x \in DOMAIN asked |->
       IF x \in DOMAIN AskedBy(k, h, c) /\ (k \in Scopes /\ c.op = "level" => Sole(asked[Select]))
       THEN {AskedBy(k, h, c)[x]} ELSE asked[x]]

---------------------------------------------------------------------------
(* What the recorded disagreements need to occur: the properties hold until *)
(* one does, and nothing is said of what follows.                          *)

(* A call starts while another one has released the lock but not yet read   *)
(* or updated what the object remembers; a Keysight supply is asked for a   *)
(* channel it does not have.                                               *)
EnterAdrift(t, c) ==
    \/ kind \in Dmms \cup Scopes /\ \E u \in Threads \ {t} : call[u].phase = "post"
    \/ kind = "KeysightE36100" /\ c.op \in {"get", "set"} /\ c.ch # 1

(* A setting is refused and nobody asks; a channel that was not selected is *)
(* remembered as selected; *OPC? answers although the arming was refused;  *)
(* recalled settings replace what is remembered.                           *)
RefusedAdrift(s) ==
    \/ kind = "MatrixWPS300S"
    \/ kind = "BK914X" /\ s.at = Select
    \/ kind \in Scopes /\ host.armed /\ s.at[1] = "acquisition"
RecallAdrift(s) ==
    s.at[1] = "recall" /\ (host.source # None \/ host.average # 0 \/ \E key \in MeasureKeys : host.slots[key] # 0)

(* The function was changed, and the call that changed it raises.          *)
RaiseAdrift == kind = "Keithley2400" /\ host.func \notin {None, dev.func}

(* An answer too late for its query stays in the line.                     *)
LateAnswer == line' # line /\ line' # <<>>

(* The scope stopped without a record, and that is taken for a completed    *)
(* acquisition.                                                            *)
StateAdrift(c, got) == c.op = "state" /\ host.armed /\ got[1] = "stopped" /\ ~dev.fresh

---------------------------------------------------------------------------
(* A call waits for _resource_lock, takes its steps, and does what its      *)
(* method does after the lock.                                             *)

Idle == [c |-> NoCall, phase |-> "idle", todo |-> <<>>, got |-> <<"none", 0>>,
         due |-> FALSE, fresh |-> FALSE]

Init ==
    /\ VisaInit
    /\ kind \in Kinds
    /\ menu \in IF kind \in Scopes THEN Menus ELSE {{}}
    /\ owner = None
    /\ host = HostInit
    /\ dev = DevInit(kind)
    /\ call = [t \in Threads |-> Idle]
    /\ asked = AskedInit(kind)
    /\ due = FALSE
    /\ adrift = FALSE

Calls(t) ==
    LET mine == IF t # User THEN Reads(kind) \cup Statuses(kind)
                ELSE Writes(kind) \cup IF kind \in Scopes THEN Reads(kind) ELSE {}
    IN  {c \in mine : kind \in Scopes => c.op \in menu}
          \cup IF t = User THEN {C("open", "none", 0, 0), C("close", "none", 0, 0)} ELSE {}

(* Instrument.close() ends the daemon before the driver is closed; only the *)
(* scope closes its driver first.                                          *)
DaemonGone(t, c) ==
    kind \notin Scopes =>
      \A u \in Threads \ {t} : call[u].c.op # "close" /\ (c.op = "close" => call[u].phase = "idle")

(* set_mode() of a load: the part before the lock.                         *)
Prepare(t) ==
    \E c \in Calls(t) :
      /\ ~adrift /\ call[t].phase = "idle" /\ c.op = "mode"
      /\ host' = LoadPre(host, c)
      /\ call' = [call EXCEPT ![t].c = c, ![t].phase = "wait"]
      /\ UNCHANGED <<visaVars, kind, menu, owner, dev, asked, due, adrift>>

Enter(t) ==
    \E c \in Calls(t) :
      /\ ~adrift
      /\ IF c.op = "mode" THEN call[t].phase = "wait" /\ call[t].c = c ELSE call[t].phase = "idle"
      /\ Ready(kind, host, c)
      /\ DaemonGone(t, c)
      /\ Locks(kind, c) => owner = None
      /\ owner' = IF Locks(kind, c) THEN t ELSE owner
      /\ call' = [call EXCEPT ![t] = [Idle EXCEPT !.c = c, !.phase = "busy", !.due = due,
                                                  !.todo = Steps(kind, host, c)]]
      /\ asked' = AskedToo(kind, host, c)
      /\ due' = (due /\ c.op \notin {"run", "stop", "single", "load"})
      /\ adrift' = EnterAdrift(t, c)
      /\ UNCHANGED <<visaVars, kind, menu, host, dev>>

Finish(t) ==
    /\ ~adrift /\ call[t].phase = "busy" /\ call[t].todo = <<>>
    /\ owner' = IF owner = t THEN None ELSE owner
    /\ call' = [call EXCEPT ![t].phase = "post"]
    /\ asked' = AskedOnly(kind, host, call[t].c)
    /\ UNCHANGED <<visaVars, kind, menu, host, dev, due, adrift>>

Post(t) ==
    LET c == call[t].c IN
    /\ ~adrift /\ call[t].phase = "post"
    /\ host' = CASE kind \in Dmms -> DmmPost(host, c)
                 [] kind \in Scopes -> ScopePost(host, c, call[t].got, "record")
                 [] OTHER -> host
    /\ call' = [call EXCEPT ![t] = Idle]
    /\ due' = (due \/ c.op = "single")
    /\ adrift' = (adrift \/ StateAdrift(c, call[t].got))
    /\ UNCHANGED <<visaVars, kind, menu, owner, dev, asked>>

---------------------------------------------------------------------------
(* The steps.                                                              *)

Head1(t) == Head(call[t].todo)
At(t, do) == ~adrift /\ call[t].phase = "busy" /\ call[t].todo # <<>> /\ Head1(t).do = do

Advance(t) ==
    /\ Transport(t, Head1(t))
    /\ call' = [call EXCEPT ![t].todo = Tail(@)]
    /\ UNCHANGED <<kind, menu, owner, asked, due>>

AdvanceWith(t, got) ==
    /\ Transport(t, Head1(t))
    /\ call' = [call EXCEPT ![t].todo = Tail(@), ![t].got = got, ![t].fresh = dev.fresh]
    /\ UNCHANGED <<kind, menu, owner, asked, due, host, adrift>>

(* The exception leaves the method: both locks are released, what comes     *)
(* after them is not done.                                                 *)
Raises(t) ==
    /\ TransportRaises(t)
    /\ owner' = IF owner = t THEN None ELSE owner
    /\ call' = [call EXCEPT ![t] = Idle]
    /\ adrift' = (RaiseAdrift \/ LateAnswer)
    /\ UNCHANGED <<kind, menu, host, asked, due>>

(* A record that was taken after the time remembered for the last one.     *)
Outdated(h) == [h EXCEPT !.stamp = IF @ = "record" THEN "older" ELSE @]

Written(t, m) ==
    /\ session /\ ~Impossible(dev, m)
    /\ Advance(t)
    /\ dev' = Accepted(dev, m)
    /\ host' = IF m.at[1] = "force" /\ dev.acq # "stopped" THEN Outdated(host) ELSE host
    /\ adrift' = RecallAdrift(m)
    /\ UNCHANGED <<session, line>>

(* SCPI reports a refusal only when asked.                                 *)
WriteRefused(t, m) ==
    /\ session /\ kind # "Aardvark"
    /\ Advance(t)
    /\ dev' = Refused(dev)
    /\ adrift' = RefusedAdrift(m)
    /\ UNCHANGED <<session, line, host>>

(* A 2400 that cannot be told to release its output is closed all the same. *)
WriteRaises(t) ==
    /\ session' = (session /\ call[t].c.op # "close")
    /\ UNCHANGED <<line, dev>>
    /\ Raises(t)

PutStep(t) == At(t, "put") /\ (Written(t, Head1(t)) \/ WriteRefused(t, Head1(t)) \/ WriteRaises(t))

(* write() of a field: the register that was read with the field replaced.  *)
MergeStep(t) ==
    /\ At(t, "merge")
    /\ LET m == Head1(t)
           merged == Insert(call[t].got[2], m.at[1], m.to)
       IN  Written(t, [m EXCEPT !.at = Register, !.to = merged]) \/ WriteRaises(t)

NotOpen(t) == ~session /\ UNCHANGED <<session, line, dev>> /\ Raises(t)

AskStep(t) ==
    /\ At(t, "ask")
    /\ LET reply == Reply(dev, host, Head1(t).at)
           known == ~Impossible(dev, Head1(t))
       IN  \/ /\ known /\ Query(reply) /\ AdvanceWith(t, Replied(reply))
              /\ UNCHANGED dev
           \/ /\ known /\ (IF kind = "MatrixWPS300S" THEN session /\ Clear ELSE QueryTimesOut(reply))
              /\ UNCHANGED dev
              /\ Raises(t)
           \/ /\ ~known /\ session
              /\ dev' = Refused(dev)
              /\ UNCHANGED <<session, line>>
              /\ Raises(t)
           \/ NotOpen(t)

(* The list of measurements, asked for again, must have grown by one.      *)
CompareStep(t) ==
    LET grown == Len(dev.slots) = call[t].got[2] + 1 IN
    /\ At(t, "compare")
    /\ \/ /\ session /\ grown
          /\ Advance(t)
          /\ UNCHANGED <<session, line, host, dev, adrift>>
       \/ session /\ ~grown /\ UNCHANGED <<session, line, dev>> /\ Raises(t)
       \/ QueryTimesOut(Reply(dev, host, Head1(t).at)) /\ UNCHANGED dev /\ Raises(t)
       \/ NotOpen(t)

CheckStep(t) ==
    LET reply == <<"error", dev.errs>> IN
    /\ At(t, "check")
    /\ \/ /\ Query(reply) /\ (Replied(reply) = reply => dev.errs = 0)
          /\ Advance(t)
          /\ UNCHANGED <<host, dev, adrift>>
       \/ /\ Query(reply) /\ (Replied(reply) = reply => dev.errs # 0)
          /\ dev' = [dev EXCEPT !.errs = 0]
          /\ Raises(t)
       \/ QueryTimesOut(reply) /\ UNCHANGED dev /\ Raises(t)
       \/ NotOpen(t)

(* Siglent's binary block leaves its terminator behind.                    *)
BlockStep(t) ==
    LET reply == Reply(dev, host, Head1(t).at) IN
    /\ At(t, "block")
    /\ \/ /\ session
          /\ line' = Append(Tail(Append(line, reply)), <<"terminator", 0>>)
          /\ AdvanceWith(t, Replied(reply))
          /\ UNCHANGED <<session, dev>>
       \/ QueryTimesOut(reply) /\ UNCHANGED dev /\ Raises(t)
       \/ NotOpen(t)

DrainStep(t) == At(t, "drain") /\ Drain /\ Advance(t) /\ UNCHANGED <<host, dev, adrift>>

(* *OPC? answers when nothing is pending, INR? says that a record came.     *)
AcquisitionDone(how) ==
    IF how = "clear" THEN dev.acq # "armed" ELSE dev.acq = "stopped" /\ dev.fresh

(* The wait gives up by clearing the device, which may end the acquisition, *)
(* or by STOP, which does; a poll of INR? or a STOP that fails does not.    *)
AwaitStep(t) ==
    LET how == Head1(t).at[1] IN
    /\ At(t, "await")
    /\ \/ /\ session /\ AcquisitionDone(how)
          /\ Advance(t)
          /\ UNCHANGED <<session, line, host, dev, adrift>>
       \/ /\ session
          /\ IF how = "clear" THEN Clear ELSE UNCHANGED <<session, line>>
          /\ \E acq \in {"stopped"} \cup IF how = "clear" THEN {dev.acq} ELSE {} :
               dev' = [dev EXCEPT !.acq = acq]
          /\ Raises(t)
       \/ how # "clear" /\ QueryTimesOut(<<"new signal", 0>>) /\ UNCHANGED dev /\ Raises(t)
       \/ NotOpen(t)

Noted(h, attribute, value, got) ==
    CASE attribute = "slot" -> [h EXCEPT !.slots[value] = got[2] + 1]
      [] attribute = "acquired" -> [h EXCEPT !.armed = FALSE, !.stamp = "record"]
      [] OTHER -> [h EXCEPT ![attribute] = value]

NoteStep(t) ==
    /\ At(t, "note")
    /\ host' = Noted(host, Head1(t).at, Head1(t).to, call[t].got)
    /\ Advance(t)
    /\ UNCHANGED <<session, line, dev, adrift>>

RaiseStep(t) == At(t, "raise") /\ UNCHANGED <<session, line, dev>> /\ Raises(t)

OpenStep(t) ==
    /\ At(t, "open")
    /\ \/ Open(TRUE) /\ Advance(t) /\ UNCHANGED <<host, dev, adrift>>
       \/ ~session /\ Open(FALSE) /\ UNCHANGED dev /\ Raises(t)

CloseStep(t) == At(t, "close") /\ Close /\ Advance(t) /\ UNCHANGED <<host, dev, adrift>>

(* The signal meets the trigger condition.                                 *)
Trigger ==
    /\ ~adrift /\ kind \in Scopes /\ dev.acq # "stopped"
    /\ dev' = [dev EXCEPT !.acq = IF @ = "armed" THEN "stopped" ELSE @, !.fresh = TRUE]
    /\ host' = Outdated(host)
    /\ <<dev', host'>> # <<dev, host>>
    /\ UNCHANGED <<visaVars, kind, menu, owner, call, asked, due, adrift>>

StepOf(t) ==
    \/ PutStep(t) \/ MergeStep(t) \/ AskStep(t) \/ CompareStep(t) \/ CheckStep(t) \/ BlockStep(t)
    \/ DrainStep(t) \/ AwaitStep(t) \/ NoteStep(t) \/ RaiseStep(t) \/ OpenStep(t) \/ CloseStep(t)

Next ==
    \/ \E t \in Threads : Prepare(t) \/ Enter(t) \/ Finish(t) \/ Post(t) \/ StepOf(t)
    \/ Trigger

Spec == Init /\ [][Next]_vars

---------------------------------------------------------------------------
(* Properties.                                                             *)

Holds(x) ==
    CASE kind = "Aardvark" -> Extract(dev.reg[Register], x[1])
      [] x = Select -> dev.sel
      [] OTHER -> dev.reg[x]

(* What the instrument holds in a setting is what the last call that        *)
(* returned asked for, or what a call that raised or is under way asks for: *)
(* no refusal is swallowed or answered to another call, no command goes to  *)
(* another channel, no field of a register is lost to a write of another.  *)
SettingsAreAsAsked == adrift \/ \A x \in DOMAIN asked : Holds(x) \in asked[x]

(* A reading is published under the name of what was measured: the channel, *)
(* function, measurement slot or waveform the answer is about is the one    *)
(* the method names when it publishes.                                     *)
PublishedAs(t) ==
    LET c == call[t].c IN
    CASE c.op = "read" -> <<host.func, 0>>
      [] c.op = "fetch" -> <<"wave", c.ch>>
      [] c.op \in {"get", "measure", "save"} -> <<c.name, c.ch>>

ReadingsAreWhatTheySay ==
    adrift \/ kind = "Aardvark" \/
      \A t \in Threads :
        call[t].phase = "post" /\ call[t].c.op \in {"read", "fetch", "get", "measure", "save"}
          => PublishedAs(t) = call[t].got

(* After single() returned, and until run(), stop or another single(), what *)
(* fetch_waveform() and measure() publish is of a record taken since, with  *)
(* the time remembered for that record.                                    *)
WaveformsAreFresh ==
    adrift \/ \A t \in Threads :
      call[t].phase = "post" /\ call[t].c.op \in {"fetch", "measure"} /\ call[t].due
        => call[t].fresh /\ host.stamp = "record"
=============================================================================
