--------------------------- MODULE ScopeDrivers ---------------------------
(***************************************************************************)
(* Oscilloscopes: the calls of InstroScope (src/packages/instro-unstable/  *)
(* instro/unstable/scope/scope.py) and what the three drivers send.  h is   *)
(* what is remembered: h.armed (_acquisition_armed), h.stamp (what          *)
(* _last_acquisition_ts is the time of), h.source and h.type (the driver's  *)
(* trigger source and type), h.slots (the Tektronix measurement slots),     *)
(* h.average (Siglent's average count).                                     *)
(***************************************************************************)
EXTENDS VisaDriver

Scopes == {"Keysight1200X", "Tektronix2SeriesMSO", "SiglentSDS1000XE"}

Acquisition(state) == Put(<<"acquisition", 0>>, state)

(* *OPC? under a temporary timeout, then clear(); or polls of INR? until a *)
(* deadline, then STOP.  Either way TimeoutError.                          *)
AwaitOpc == Locked(Put(<<"opc", 0>>, 0) \o Step("await", <<"clear", 0>>, 0))
AwaitInr == Step("await", <<"stop", 0>>, 0)

---------------------------------------------------------------------------
(* Vertical, timebase and acquisition settings: one write or one query.    *)

Setting(c) == IF c.op = "get" THEN Ask(<<c.name, c.ch>>) ELSE Put(<<c.name, c.ch>>, c.val)

Mode(mode) == Put(<<"acq mode", 0>>, mode)

KeysightSetting(c) ==
    CASE c.op = "acq mode" -> IF c.name = "ENVELOPE" THEN Refuse ELSE Mode(c.name)
      [] OTHER -> Setting(c)

TekSetting(c) == IF c.op = "acq mode" THEN Mode(c.name) ELSE Setting(c)

(* AVERAGE needs a count in the same command: the one set last.            *)
SiglentMode(h, mode) ==
    CASE mode = "ENVELOPE" -> Refuse
      [] mode = "AVERAGE" -> Put(<<"averaging", 0>>, h.average)
      [] OTHER -> Mode(mode)

SiglentSetting(h, c) ==
    CASE c.op = "acq mode" -> SiglentMode(h, c.name)
      [] c.op = "set" /\ c.name = "average" -> Note("average", c.val) \o Setting(c)
      [] OTHER -> Setting(c)

ScopeSetting(k, h, c) ==
    CASE k = "Keysight1200X" -> KeysightSetting(c)
      [] k = "Tektronix2SeriesMSO" -> TekSetting(c)
      [] k = "SiglentSDS1000XE" -> SiglentSetting(h, c)

---------------------------------------------------------------------------
(* Arming: run(), stop(), single(), digitize().                            *)

KeysightDigitize == Acquisition("armed") \o AwaitOpc

(* STOPAfter SEQuence or RUNSTop goes before STATE RUN.                    *)
TekArm(state) == Put(<<"stop after", 0>>, 0) \o Acquisition(state)
TekDigitize == TekArm("armed") \o AwaitOpc

(* TRMD SINGLE, then ARM.                                                  *)
SiglentArm == Put(<<"trigger mode", 0>>, 0) \o Acquisition("armed")
SiglentDigitize == SiglentArm \o AwaitInr

Control(k, state) ==
    CASE k = "Tektronix2SeriesMSO" /\ state # "stopped" -> TekArm(state)
      [] k = "SiglentSDS1000XE" /\ state = "armed" -> SiglentArm
      [] OTHER -> Acquisition(state)

Digitize(k) ==
    CASE k = "Keysight1200X" -> KeysightDigitize
      [] k = "Tektronix2SeriesMSO" -> TekDigitize
      [] k = "SiglentSDS1000XE" -> SiglentDigitize

(* As WaitForAcquisition, with the flag dropped first.                     *)
DropFlagThenWait(k, h) ==
    IF h.armed THEN Note("acquired", 0) \o Digitize(k) ELSE <<>>

(* _wait_for_acquisition(): digitize() arms again and waits; only then is   *)
(* the time taken and the flag dropped.                                    *)
WaitForAcquisition(k, h) ==
    IF h.armed THEN Digitize(k) \o Note("acquired", 0) ELSE <<>>

---------------------------------------------------------------------------
(* Waveforms.                                                              *)

KeysightFetch(ch) ==
    Put(<<"wave source", 0>>, ch) \o Check \o Ask(<<"preamble", 0>>) \o Ask(<<"wave", 0>>)

TekFetch(ch) ==
    Put(<<"wave source", 0>>, ch) \o Check \o Ask(<<"points", 0>>)
      \o Put(<<"data stop", 0>>, 0) \o Ask(<<"scaling", 0>>) \o Ask(<<"wave", 0>>)

(* As SiglentFetch, with the terminator left where it is.                  *)
FetchWithoutDrain(ch) ==
    Put(<<"wave setup", 0>>, 0) \o Check \o Ask(<<"scaling", ch>>)
      \o Step("block", <<"wave", ch>>, 0)

(* A binary block is followed by a lone terminator that must be read too.  *)
SiglentFetch(ch) ==
    Put(<<"wave setup", 0>>, 0) \o Check \o Ask(<<"scaling", ch>>)
      \o Step("block", <<"wave", ch>>, 0) \o Step("drain", <<"none", 0>>, 0)

Fetch(k, ch) ==
    CASE k = "Keysight1200X" -> KeysightFetch(ch)
      [] k = "Tektronix2SeriesMSO" -> TekFetch(ch)
      [] k = "SiglentSDS1000XE" -> SiglentFetch(ch)

---------------------------------------------------------------------------
(* Measurements.                                                           *)

KeysightMeasure(type, ch) == Put(<<"display", 0>>, 0) \o Check \o Ask(<<type, ch>>)

SiglentMeasure(type, ch) == Ask(<<type, ch>>)

(* setup_measurement(): the new slot is the difference of two lists; it is *)
(* remembered once its source is set and no error was reported.            *)
TekSetup(h, type, ch) ==
    IF h.slots[<<type, ch>>] # 0 THEN <<>>
    ELSE Ask(<<"slots", 0>>) \o Put(<<"add slot", 0>>, type) \o Step("compare", <<"slots", 0>>, 0)
           \o Put(<<"slot source", 0>>, ch) \o Check
           \o Note("slot", <<type, ch>>) \o Ask(<<"slot", <<type, ch>>>>)

TekMeasure(type, ch) == Ask(<<"slot", <<type, ch>>>>)

SetupMeasurement(k, h, type, ch) ==
    IF k = "Tektronix2SeriesMSO" THEN TekSetup(h, type, ch) ELSE <<>>

MeasureSteps(k, type, ch) ==
    CASE k = "Keysight1200X" -> KeysightMeasure(type, ch)
      [] k = "Tektronix2SeriesMSO" -> TekMeasure(type, ch)
      [] k = "SiglentSDS1000XE" -> SiglentMeasure(type, ch)

---------------------------------------------------------------------------
(* Trigger settings and what the drivers remember of them.                 *)

KnownSource(h) == IF h.source = None THEN 1 ELSE h.source

(* TRSE sets type and source in one command.                               *)
SiglentTriggerSelect(type, source) == Put(<<"trigger", 0>>, <<type, source>>)

TriggerSource(k, h, ch) ==
    IF k = "SiglentSDS1000XE" THEN Note("source", ch) \o SiglentTriggerSelect(h.type, ch)
    ELSE Put(<<"select", 0>>, ch) \o Note("source", ch)

TriggerType(k, h, type) ==
    IF k = "SiglentSDS1000XE"
    THEN Note("type", type) \o SiglentTriggerSelect(type, KnownSource(h))
    ELSE Put(<<"trigger type", 0>>, type)

(* The level belongs to a channel; Keysight leaves an unknown one out.     *)
TriggerLevel(k, h, val) ==
    IF k = "Keysight1200X" /\ h.source = None THEN Put(<<"level", 0>>, val)
    ELSE Put(<<"level", KnownSource(h)>>, val)

(* Siglent's slope belongs to a channel as well.                           *)
TriggerSlope(k, h, slope) ==
    Put(<<"slope", IF k = "SiglentSDS1000XE" THEN KnownSource(h) ELSE 0>>, slope)

---------------------------------------------------------------------------
(* Setups saved to the host and recalled from it.                          *)

KeysightSave == Put(<<"save", 0>>, 0) \o Check \o Ask(<<"setup", 0>>)

(* Through a file of the scope, which is deleted after it was read.         *)
TekSave ==
    Put(<<"save", 0>>, 0) \o Ask(<<"opc", 0>>) \o Check
      \o Locked(Put(<<"read file", 0>>, 0) \o Ask(<<"setup", 0>>)) \o Put(<<"delete", 0>>, 0)
TekLoad == Put(<<"upload", 0>>, 0) \o Put(<<"recall", 0>>, 0) \o Put(<<"delete", 0>>, 0)

(* Read to the end of the message with the terminator switched off.        *)
SiglentSave == Ask(<<"setup", 0>>)

SaveSettings(k) ==
    CASE k = "Keysight1200X" -> KeysightSave
      [] k = "Tektronix2SeriesMSO" -> TekSave
      [] k = "SiglentSDS1000XE" -> SiglentSave

LoadSettings(k) ==
    IF k = "Tektronix2SeriesMSO" THEN TekLoad ELSE Put(<<"recall", 0>>, 0)

---------------------------------------------------------------------------
(* InstroScope: every call holds the _resource_lock from its first step to *)
(* the error check.                                                        *)
ScopeMethod(k, h, c) ==
    CASE c.op \in {"set", "get", "acq mode"} -> ScopeSetting(k, h, c)
      [] c.op = "run" -> Control(k, "running")
      [] c.op = "stop" -> Control(k, "stopped")
      [] c.op = "single" -> Control(k, "armed")
      [] c.op = "state" -> Ask(<<"state", 0>>)
      [] c.op = "fetch" -> WaitForAcquisition(k, h) \o Fetch(k, c.ch)
      [] c.op = "measure" -> SetupMeasurement(k, h, c.name, c.ch)
                               \o WaitForAcquisition(k, h) \o MeasureSteps(k, c.name, c.ch)
      [] c.op = "source" -> TriggerSource(k, h, c.ch)
      [] c.op = "type" -> TriggerType(k, h, c.name)
      [] c.op = "level" -> TriggerLevel(k, h, c.val)
      [] c.op = "slope" -> TriggerSlope(k, h, c.name)
      [] c.op = "force" -> Put(<<"force", 0>>, 0)
      [] c.op = "save" -> SaveSettings(k)
      [] c.op = "load" -> LoadSettings(k)
ScopeSteps(k, h, c) == ScopeMethod(k, h, c) \o Check

(* After the lock: the flag of single(), stop() and get_acquisition_state(). *)
ScopePost(h, c, got, now) ==
    CASE c.op = "single" -> [h EXCEPT !.armed = TRUE]
      [] h.armed /\ (c.op = "stop" \/ (c.op = "state" /\ got[1] = "stopped"))
           -> [h EXCEPT !.armed = FALSE, !.stamp = now]
      [] OTHER -> h

(* Siglent turns headers off and clears the status when it is opened.      *)
SiglentOpen == Put(<<"headers", 0>>, 0) \o Put(<<"clear status", 0>>, 0)
=============================================================================
