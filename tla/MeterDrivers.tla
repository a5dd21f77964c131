--------------------------- MODULE MeterDrivers ---------------------------
(***************************************************************************)
(* Multimeters and electronic loads: the calls of InstroDMM                *)
(* (src/instro/dmm/dmm.py) and InstroELoad (src/instro/eload/eload.py) and  *)
(* what their drivers send.  h is what instrument object and driver         *)
(* remember: h.func the configured function, h.range the Agilent's range,   *)
(* h.mode the load's mode.                                                 *)
(***************************************************************************)
EXTENDS VisaDriver

Dmms == {"Agilent34401A", "Keithley2400"}
Loads == {"BK85XXB"}

(* MEAS:<function>? selects the function, measures and is checked.         *)
AgilentMeasure(f) == Locked(Ask(<<f, 0>>) \o Check)

(* The function is configured by a dummy measurement, the range kept for   *)
(* the next MEAS.                                                          *)
Agilent34401A(h, c) ==
    CASE c.op = "function" -> AgilentMeasure(c.name)
      [] c.op = "range" -> Note("range", c.val)
      [] c.op = "read" -> AgilentMeasure(h.func)

(* The functions the 2400 has, with the writes around SENS:FUNC.           *)
KeithleyFunction(f) ==
    CASE f = "DC_VOLTAGE" -> Locked(Put(<<"ohms mode", 0>>, 0) \o Put(<<"function", 0>>, f)
                                      \o Put(<<"source", 0>>, 0) \o Check)
      [] f = "RESISTANCE" -> Locked(Put(<<"function", 0>>, f) \o Put(<<"ohms mode", 0>>, 1) \o Check)
      [] OTHER -> Refuse

(* READ? measures whatever function the instrument is in.                  *)
KeithleyMeasure(f) ==
    IF f \in {"DC_VOLTAGE", "RESISTANCE"}
    THEN Locked(Put(<<"output", 0>>, 1) \o Ask(<<"read", 0>>) \o Check) ELSE Refuse

KeithleyRange(f, val) ==
    Locked(Put(<<"auto range", 0>>, 0) \o Put(<<f, 0>>, val) \o Check)

Keithley2400(h, c) ==
    CASE c.op = "function" -> KeithleyFunction(c.name)
      [] c.op = "range" -> KeithleyRange(h.func, c.val)
      [] c.op = "read" -> KeithleyMeasure(h.func)

DmmSteps(k, h, c) ==
    IF k = "Agilent34401A" THEN Agilent34401A(h, c) ELSE Keithley2400(h, c)

(* set_range() and read() raise before set_measurement_function() was called. *)
DmmReady(h, c) == c.op = "function" \/ h.func # None

(* set_measurement_function() remembers the function after the lock.       *)
DmmPost(h, c) == IF c.op = "function" THEN [h EXCEPT !.func = c.name] ELSE h

(* set_mode() remembers the mode before the lock, whatever the load says.  *)
LoadPre(h, c) == IF c.op = "mode" THEN [h EXCEPT !.mode = c.name] ELSE h

LoadReady(h, c) == c.op \in {"level", "range"} => h.mode # None

BK85XXB(h, c) ==
    CASE c.op = "short" -> Locked(Put(<<"short", 0>>, c.val) \o Put(<<"input", 0>>, c.val) \o Check)
      [] c.op = "mode" -> Locked(Put(<<"mode", 0>>, c.name) \o Check)
      [] c.op = "level" -> Locked(Put(<<h.mode, 0>>, c.val) \o Check)
      [] c.op = "range" -> IF h.mode \in {"CC", "CV"}
                           THEN Locked(Put(<<"load range", 0>>, c.val) \o Check) ELSE Refuse
      [] c.op = "output" -> Locked(Put(<<"input", 0>>, c.val) \o Check)
      [] c.op = "get" -> Locked(Ask(<<c.name, 0>>) \o Check)

(* What open() sends before the first call.                                *)
AgilentOpen == Put(<<"clear status", 0>>, 0) \o Put(<<"remote", 0>>, 1) \o Check
KeithleyOpen == Locked(Put(<<"clear status", 0>>, 0) \o Check)
LoadOpen == Locked(Put(<<"remote", 0>>, 1) \o Check)

(* The 2400 is told to release its output, but only while it is open.      *)
KeithleyClose(open) == IF open THEN Put(<<"output", 0>>, 0) ELSE <<>>
=============================================================================
