---------------------------- MODULE PsuDrivers ----------------------------
(***************************************************************************)
(* The power-supply drivers: what each method of a driver sends, in order, *)
(* given what the driver remembers.  A call is a record [op, name, ch,     *)
(* val]: op is "set" or "get", name the quantity.  InstroPSU                *)
(* (src/instro/psu/psu.py) runs each call under its _resource_lock.         *)
(***************************************************************************)
EXTENDS VisaDriver

(* What InstroPSU can set and get.                                         *)
PsuQuantities == {"voltage", "current", "enabled", "ovp", "ovp.enabled",
                  "ovp.delay", "ocp", "ocp.enabled", "remote_sense"}

Psus == {"BK9115", "BK914X", "KeysightE36100", "TDKLambdaGenesys", "MatrixWPS300S",
         "RigolDP800", "SiglentSPD3303"}

(* The write or the query of a call, addressed to channel ch.              *)
Transfer(c, ch) ==
    IF c.op = "set" THEN Put(<<c.name, ch>>, c.val) ELSE Ask(<<c.name, ch>>)

(* _write_checked, _query_checked_*: one transfer, then SYST:ERR?.         *)
Checked(c, ch) == Locked(Transfer(c, ch) \o Check)

BK9115(c) ==
    IF c.ch # 1 \/ c.name \in {"ocp", "ocp.enabled", "remote_sense"}
    THEN Refuse ELSE Checked(c, 0)

(* INST is sent only when the channel differs from the remembered one.     *)
ChannelSelect(h, ch) ==
    IF ch = h.active THEN <<>> ELSE Put(<<"select", 0>>, ch) \o Note("active", ch)

BK914X(h, c) ==
    IF c.name \in {"ovp.enabled", "ovp.delay"} THEN Refuse
    ELSE Locked(ChannelSelect(h, c.ch) \o Transfer(c, 0) \o Check)

KeysightE36100(c) ==
    IF c.name \in {"ovp.delay", "ocp"} THEN Refuse ELSE Checked(c, 0)

TDKLambdaGenesys(c) ==
    IF c.ch # 1 \/ c.name \in {"ovp.enabled", "ovp.delay", "ocp", "remote_sense"}
    THEN Refuse ELSE Checked(c, 0)

(* _check_errors returns at once: nothing is checked.                      *)
MatrixWPS300S(c) ==
    IF c.ch # 1 \/ c.name \in {"ovp.delay", "remote_sense"} THEN Refuse ELSE Transfer(c, 0)

(* The limits of each channel were read when the driver was opened.        *)
OutOfRange(h, c) ==
    /\ c.op = "set" /\ c.name \in {"voltage", "current", "ovp", "ocp"}
    /\ c.ch \in DOMAIN h.limits /\ c.val > h.limits[c.ch]

RigolDP800(h, c) ==
    IF c.name = "ovp.delay" \/ OutOfRange(h, c) THEN Refuse ELSE Checked(c, c.ch)

RigolChannels == 1..2

(* open(): the minimum and maximum of four quantities of every channel.    *)
LoadLimits(limits) ==
    Ask(<<"idn", 0>>) \o Check
      \o Locked(Ask(<<"limit", 1>>) \o Check) \o Locked(Ask(<<"limit", 2>>) \o Check)
      \o Note("limits", limits)

RigolStatus ==
    Locked(Ask(<<"enabled", 1>>) \o Check \o Ask(<<"condition", 1>>) \o Check
             \o Ask(<<"enabled", 2>>) \o Check \o Ask(<<"condition", 2>>) \o Check)

SiglentSPD3303(c) ==
    IF c.ch \notin 1..2
         \/ c.name \in {"ovp", "ovp.enabled", "ovp.delay", "ocp", "ocp.enabled", "remote_sense"}
    THEN Refuse ELSE Checked(c, c.ch)

(* query_status() reads one word for both channels.                        *)
SiglentStatus == Locked(Ask(<<"status", 0>>) \o Check)

PsuSteps(k, h, c) ==
    CASE k = "BK9115" -> BK9115(c)
      [] k = "BK914X" -> BK914X(h, c)
      [] k = "KeysightE36100" -> KeysightE36100(c)
      [] k = "TDKLambdaGenesys" -> TDKLambdaGenesys(c)
      [] k = "MatrixWPS300S" -> MatrixWPS300S(c)
      [] k = "RigolDP800" -> IF c.op = "status" THEN RigolStatus ELSE RigolDP800(h, c)
      [] k = "SiglentSPD3303" -> IF c.op = "status" THEN SiglentStatus ELSE SiglentSPD3303(c)
=============================================================================
