---------------------------- MODULE SettingProofs ----------------------------
(***************************************************************************)
(* The third invariant of VisaBench, for any number of threads:            *)
(* SettingsAreAsAsked is about what every instrument is set to.  Settles   *)
(* says of the SCPI instruments which values the writes still to come will *)
(* give which settings, and that a refusal will be found out; Registers    *)
(* that a field of an I2C register is replaced in what the register holds. *)
(* Both stand on Reports, which says where the queries and the writes of a *)
(* call go.                                                                *)
(***************************************************************************)
EXTENDS VisaProofs

----------------------------------------------------------------------------
(* What the instrument is set to: the settings that are accounted for, and  *)
(* which of them a step reaches.                                            *)

Accounts(k) == Settings(k) \cup IF k \in Scopes THEN {Select} ELSE {}

\* What an SCPI instrument holds in a setting.
Held1(d, x) == IF x = Select THEN d.sel ELSE d.reg[x]

SettingNames ==
  {"voltage", "ocp", "DC_VOLTAGE", "RESISTANCE", "mode", "CC", "CP", "input", "short", "scale", "level",
   "acq mode", "average", "averaging", "trigger", "recall"}

\* A step that sets none of them, nor touches what the triggering channel and
\* the average count are remembered to be.
Spare(k, m) ==
  /\ m.do # "merge"
  /\ m.do = "put" => m.at[1] \notin SettingNames /\ (m.at[1] = "select" => k \in Psus)
  /\ m.do = "note" => m.at \notin {"source", "average"}

Leaves(k, s) == Listed(s) /\ \A i \in DOMAIN s : Spare(k, s[i])

\* A supply's command without a number goes to the channel of the call.
Aim(k, d, m, c) == IF k \in Psus \ Numbered /\ m.at[2] = 0 THEN <<m.at[1], c.ch>> ELSE Addressed(d, m.at)

\* What changes the channel that triggers.
Sources == {"select", "trigger", "recall"}

Reaches(k, d, m, c, x) ==
  /\ m.do = "put" /\ ~Spare(k, m)
  /\ CASE m.at[1] \in {"select", "trigger"} -> x = Select
       [] m.at[1] = "averaging" -> x \in {<<"acq mode", 0>>, <<"average", 0>>}
       [] m.at[1] = "recall" -> TRUE
       [] OTHER -> Aim(k, d, m, c) = x

Default(k, x) == IF x = Select THEN 1 ELSE Fresh(k)[x]

Gives(k, m, x) ==
  CASE m.at[1] = "trigger" -> m.to[2]
    [] m.at[1] = "averaging" /\ x = <<"acq mode", 0>> -> "AVERAGE"
    [] m.at[1] = "recall" -> Default(k, x)
    [] OTHER -> m.to

\* The write at i is checked before anybody else can read the error queue; the
\* MatrixWPS300S checks nothing.
Backs(k, s, i) ==
  \/ k = "MatrixWPS300S"
  \/ IF k \in Numbered THEN s[i].hold /\ i + 1 \in DOMAIN s /\ s[i + 1].do = "check"
     ELSE \E j \in DOMAIN s : j > i /\ s[j].do = "check"

\* A refusal is in the error queue, and the call has still to read it.
FoundOut(k, d, who, s) ==
  /\ d.errs # 0
  /\ IF k \in Numbered THEN s # <<>> /\ s[1].do = "check" /\ who = User ELSE Checks(s)

\* The setting x holds v, or will, or the call raises.
Settled(k, d, who, s, c, x, v) ==
  \/ Refuses(s) \/ Held1(d, x) = v \/ FoundOut(k, d, who, s)
  \/ \E i \in DOMAIN s : Reaches(k, d, s[i], c, x) /\ Backs(k, s, i)

\* What is left of a call is what it was asked for: every value is one of A's,
\* and V says which it will be when the call returns.
Keeps(k, d, who, s, c, A, V) ==
  /\ \A i \in DOMAIN s : s[i].do # "merge"
  /\ \A i \in DOMAIN s : \A x \in DOMAIN A : Reaches(k, d, s[i], c, x) => Gives(k, s[i], x) \in A[x]
  /\ \A x \in DOMAIN V : /\ Settled(k, d, who, s, c, x, V[x])
                         /\ \A i \in DOMAIN s : Reaches(k, d, s[i], c, x) => Gives(k, s[i], x) = V[x]
  /\ \A i \in DOMAIN s : s[i].do = "put" /\ ~Spare(k, s[i]) =>
       IF k \in Psus THEN c.op = "set" ELSE s[i].at[1] \in Sources <=> c.op \in {"source", "type", "load"}

\* The settings that hold one value alone when the call c returns, and which.
Wanted(c) ==
  LET B == AskedBy(kind, host, c) IN
  [x \in {y \in DOMAIN asked \cap DOMAIN B :
            kind \in Scopes /\ c.op = "level" => Sole(asked[Select])} |-> B[x]]

\* What a call asks for is accounted for while it runs.
Meant(c) == LET B == AskedBy(kind, host, c) IN \A x \in DOMAIN asked \cap DOMAIN B : B[x] \in asked[x]

Orders ==
  Busy(User) =>
    LET c == call[User].c IN Meant(c) /\ Keeps(kind, dev, holder, call[User].todo, c, asked, Wanted(c))

\* What the object remembers of the triggering channel and of the average count
\* is something that was asked for, and alone so when nothing else is.
Minds(k, h, d, who, s, c) ==
  /\ \A i \in DOMAIN s : s[i].do = "note" =>
       /\ s[i].at = "source" => c.op = "source" /\ s[i].to = c.ch
       /\ s[i].at = "average" => c.op = "set" /\ c.name = "average" /\ s[i].to = c.val
  /\ c.op = "source" => h.source = c.ch \/ \E i \in DOMAIN s : s[i].do = "note" /\ s[i].at = "source"
  /\ k = "SiglentSDS1000XE" /\ c.op = "set" /\ c.name = "average" =>
       h.average = c.val \/ \E i \in DOMAIN s : s[i].do = "note" /\ s[i].at = "average"
  /\ c.op = "load" => \/ h.source = None /\ (k = "SiglentSDS1000XE" => h.average = 0)
                      \/ FoundOut(k, d, who, s)
                      \/ \E i \in DOMAIN s : s[i].do = "put" /\ s[i].at[1] = "recall" /\ Backs(k, s, i)

Memory ==
  kind \in Scopes =>
    /\ KnownSource(host) \in asked[Select]
    /\ kind = "SiglentSDS1000XE" => host.average \in asked[<<"average", 0>>]
    /\ Busy(User) => Minds(kind, host, dev, holder, call[User].todo, call[User].c)

\* Who else is at the instrument only reads.
Apart(t) ==
  /\ Underway(t) => call[t].c \in Reads(kind) \cup Statuses(kind)
  /\ Busy(t) => Leaves(kind, call[t].todo)

\* Every setting as one of the values it may have been asked to hold.
InForce == \A x \in Accounts(kind) : Held1(dev, x) \in asked[x]

Settles ==
  /\ asked = [x \in Accounts(kind) |-> asked[x]] /\ InForce
  /\ \A t \in Threads \ {User} : Apart(t)
  /\ Orders /\ Memory

SettleInv == ~adrift /\ kind # "Aardvark" => Settles

\* The registers a command changes.
Changed(d, m, x) ==
  LET n == m.at[1] at == Addressed(d, m.at) IN
  /\ n = "averaging" => x.reg = [d.reg EXCEPT ![<<"acq mode", 0>>] = "AVERAGE", ![<<"average", 0>>] = m.to]
  /\ n \in SettingNames \ {"averaging", "trigger", "recall"} =>
       x.reg = IF at \in DOMAIN d.reg THEN [d.reg EXCEPT ![at] = m.to] ELSE d.reg
  /\ n \notin SettingNames \/ n = "trigger" => x.reg = d.reg
  /\ n = "select" => x.sel = m.to
  /\ n = "trigger" => x.sel = m.to[2]

LEMMA SettingIsOne ==
  ASSUME kind \in Psus \cup Dmms \cup Loads \cup Scopes, NEW x \in Settings(kind)
  PROVE  /\ x[1] \in SettingNames \ {"averaging", "trigger", "recall"} /\ x = <<x[1], x[2]>> /\ x # Select
         /\ kind \in Psus => x[1] \in Quantities /\ x[2] \in {1, 2}
         /\ kind \in Dmms \cup Loads => x[2] = 0
         /\ kind \in Scopes => x \in {<<"scale", 1>>, <<"level", 1>>, <<"level", 2>>, <<"acq mode", 0>>, <<"average", 0>>}
<1> DEFINE N == SettingNames \ {"averaging", "trigger", "recall"}
<1>1. Select[1] \notin N
  BY DEF Select, SettingNames
<1>2. CASE kind \in Psus
  <2>1. kind \notin Dmms \cup Loads \cup Scopes \cup {"Aardvark"}
    BY <1>2, KindsApart
  <2>2. Settings(kind) = Quantities \X (1..IF kind \in {"RigolDP800", "SiglentSPD3303", "BK914X"} THEN 2 ELSE 1)
    BY <1>2, <2>1 DEF Settings, Quantities
  <2>3. x[1] \in Quantities /\ x[2] \in {1, 2} /\ x = <<x[1], x[2]>>
    BY <2>2
  <2>4. Quantities \subseteq N
    BY DEF Quantities, SettingNames
  <2> HIDE DEF N
  <2> QED  BY <1>1, <2>1, <2>3, <2>4 DEF N
<1>3. CASE kind \in Dmms
  <2>1. kind \notin Psus \cup Loads \cup Scopes \cup {"Aardvark"}
    BY <1>3, KindsApart
  <2>2. Settings(kind) = {"DC_VOLTAGE", "RESISTANCE"} \X {0}
    BY <1>3, <2>1 DEF Settings
  <2>3. x[1] \in {"DC_VOLTAGE", "RESISTANCE"} /\ x[2] = 0 /\ x = <<x[1], x[2]>>
    BY <2>2
  <2>4. x[1] \in N
    BY <2>3 DEF SettingNames
  <2> HIDE DEF N
  <2> QED  BY <1>1, <2>1, <2>3, <2>4 DEF N
<1>4. CASE kind \in Loads
  <2>1. kind \notin Psus \cup Dmms \cup Scopes \cup {"Aardvark"}
    BY <1>4, KindsApart
  <2>2. Settings(kind) = {"mode", "CC", "CP", "input", "short"} \X {0}
    BY <1>4, <2>1 DEF Settings
  <2>3. x[1] \in {"mode", "CC", "CP", "input", "short"} /\ x[2] = 0 /\ x = <<x[1], x[2]>>
    BY <2>2
  <2>4. x[1] \in N
    BY <2>3 DEF SettingNames
  <2> HIDE DEF N
  <2> QED  BY <1>1, <2>1, <2>3, <2>4 DEF N
<1>5. CASE kind \in Scopes
  <2>1. kind \notin Psus \cup Dmms \cup Loads \cup {"Aardvark"}
    BY <1>5, KindsApart
  <2>2. x \in {<<"scale", 1>>, <<"level", 1>>, <<"level", 2>>, <<"acq mode", 0>>, <<"average", 0>>}
    BY <1>5, <2>1 DEF Settings
  <2>3. x[1] \in {"scale", "level", "acq mode", "average"} /\ x = <<x[1], x[2]>>
    <3>1. CASE x = <<"scale", 1>>
      BY <3>1
    <3>2. CASE x = <<"level", 1>>
      BY <3>2
    <3>3. CASE x = <<"level", 2>>
      BY <3>3
    <3>4. CASE x = <<"acq mode", 0>>
      BY <3>4
    <3>5. CASE x = <<"average", 0>>
      BY <3>5
    <3> QED  BY <2>2, <3>1, <3>2, <3>3, <3>4, <3>5
  <2>4. x[1] \in N
    BY <2>3 DEF SettingNames
  <2> HIDE DEF N
  <2> QED  BY <1>1, <2>1, <2>2, <2>3, <2>4 DEF N
<1> QED  BY <1>2, <1>3, <1>4, <1>5

LEMMA AcceptedChanges ==
  ASSUME NEW d, NEW m, DOMAIN d = DevParts, DOMAIN d.reg = Settings(kind),
         kind \in Psus \cup Dmms \cup Loads \cup Scopes
  PROVE  Changed(d, m, Accepted(d, m))
<1> DEFINE x == Accepted(d, m) at == Addressed(d, m.at) n == m.at[1]
<1>1. at[1] = n
  BY DEF Addressed
<1>2. x = CASE n = "select" -> [d EXCEPT !.sel = m.to]
            [] n = "function" -> [d EXCEPT !.func = m.to]
            [] n = "averaging" -> [d EXCEPT !.reg[<<"acq mode", 0>>] = "AVERAGE",
                                                !.reg[<<"average", 0>>] = m.to]
            [] n = "trigger type" -> [d EXCEPT !.trig = m.to]
            [] n = "trigger" -> [d EXCEPT !.trig = m.to[1], !.sel = m.to[2]]
            [] n = "acquisition" -> [d EXCEPT !.acq = m.to, !.fresh = @ /\ m.to # "armed"]
            [] n = "force" -> [d EXCEPT !.acq = IF @ = "armed" THEN "stopped" ELSE @,
                                            !.fresh = @ \/ d.acq # "stopped"]
            [] n = "wave source" -> [d EXCEPT !.wave = m.to]
            [] n = "add slot" -> [d EXCEPT !.slots = Append(@, <<m.to, 1>>)]
            [] n = "slot source" -> [d EXCEPT !.slots[Len(d.slots)][2] = m.to]
            [] n = "recall" -> DevInit(kind)
            [] OTHER -> IF at \in DOMAIN d.reg THEN [d EXCEPT !.reg[at] = m.to] ELSE d
  BY <1>1 DEF Accepted
<1>3. at \in DOMAIN d.reg => n \in SettingNames \ {"averaging", "trigger", "recall"}
  BY <1>1, SettingIsOne
<1> HIDE DEF x, at, n
<1>4. CASE n = "averaging"
  <2>1. x = [d EXCEPT !.reg[<<"acq mode", 0>>] = "AVERAGE", !.reg[<<"average", 0>>] = m.to]
    BY <1>2, <1>4
  <2>2. x.reg = [d.reg EXCEPT ![<<"acq mode", 0>>] = "AVERAGE", ![<<"average", 0>>] = m.to]
    BY <2>1 DEF DevParts
  <2> QED  BY <1>4, <2>2 DEF Changed, n, x, SettingNames
<1>5. CASE n \in {"select", "trigger"}
  <2>1. x = IF n = "select" THEN [d EXCEPT !.sel = m.to] ELSE [d EXCEPT !.trig = m.to[1], !.sel = m.to[2]]
    BY <1>2, <1>5
  <2>2. x.reg = d.reg /\ x.sel = IF n = "select" THEN m.to ELSE m.to[2]
    BY <1>5, <2>1 DEF DevParts
  <2> QED  BY <1>5, <2>2 DEF Changed, n, x, SettingNames
<1>6. CASE n \in SettingNames \ {"averaging", "trigger", "recall"}
  <2>1. x = IF at \in DOMAIN d.reg THEN [d EXCEPT !.reg[at] = m.to] ELSE d
    BY <1>2, <1>6 DEF SettingNames
  <2>2. x.reg = IF at \in DOMAIN d.reg THEN [d.reg EXCEPT ![at] = m.to] ELSE d.reg
    BY <2>1 DEF DevParts
  <2> QED  BY <1>6, <2>2 DEF Changed, n, x, at, SettingNames
<1>7. CASE n \notin SettingNames /\ n # "select"
  <2>1. x.reg = d.reg
    <3>1. CASE n \in {"function", "trigger type", "acquisition", "force", "wave source", "add slot", "slot source"}
      BY <1>2, <3>1 DEF DevParts
    <3>2. CASE n \notin {"function", "trigger type", "acquisition", "force", "wave source", "add slot", "slot source"}
      <4>1. n \notin {"select", "averaging", "trigger", "recall"} /\ at \notin DOMAIN d.reg
        BY <1>3, <1>7 DEF SettingNames
      <4>2. x = d
        BY <1>2, <3>2, <4>1
      <4> QED  BY <4>2
    <3> QED  BY <3>1, <3>2
  <2> QED  BY <1>7, <2>1 DEF Changed, n, x, SettingNames
<1>8. CASE n = "recall"
  BY <1>8 DEF Changed, n, SettingNames
<1> QED  BY <1>4, <1>5, <1>6, <1>7, <1>8

\* A command that is carried out gives the settings it reaches, and no others.
LEMMA PutReaches ==
  ASSUME Base, kind \in Psus \cup Dmms \cup Loads \cup Scopes, kind' = kind, NEW m, m.do = "put", NEW c,
         NEW x \in Accounts(kind), dev' = Accepted(dev, m),
         kind \in Psus \ Numbered /\ ~Spare(kind, m) /\ m.at[2] = 0 => dev.sel = c.ch
  PROVE  Held1(dev', x) = IF Reaches(kind, dev, m, c, x) THEN Gives(kind, m, x) ELSE Held1(dev, x)
<1> DEFINE n == m.at[1] at == Addressed(dev, m.at)
<1>1. kind # "Aardvark" /\ DOMAIN dev = DevParts /\ DOMAIN dev.reg = Settings(kind)
  BY KindsApart DEF Base
<1>2. Changed(dev, m, dev') /\ AcceptedParts(dev, m, dev')
  BY <1>1, AcceptedChanges, AcceptedDoes
<1>3. /\ Held1(dev, x) = IF x = Select THEN dev.sel ELSE dev.reg[x]
      /\ Held1(dev', x) = IF x = Select THEN dev'.sel ELSE dev'.reg[x]
  BY DEF Held1
<1>4. x # Select => x \in Settings(kind)
  BY DEF Accounts
<1>5. x = Select => kind \in Scopes
  <2>1. Select \notin Settings(kind)
    BY SettingIsOne
  <2> QED  BY <2>1 DEF Accounts
<1>6. /\ at[1] = n /\ Aim(kind, dev, m, c)[1] = n
      /\ n \in SettingNames \/ n = "select" => (Spare(kind, m) <=> n = "select" /\ kind \in Psus)
      /\ n \notin SettingNames /\ n # "select" => Spare(kind, m)
  BY DEF Addressed, Aim, Spare, SettingNames
<1>7. n = "recall" => dev'.sel = 1 /\ (x # Select => dev'.reg[x] = Default(kind, x)) /\ Default(kind, Select) = 1
  <2>1. n = "recall" => dev' = DevInit(kind)
    BY <1>2 DEF AcceptedParts
  <2>2. DevInit(kind).sel = 1 /\ DevInit(kind).reg = Fresh(kind)
    BY DEF DevInit
  <2> QED  BY <2>1, <2>2 DEF Default
<1>8. CASE x = Select
  <2>1. kind \in Scopes /\ kind \notin Psus /\ Held1(dev, x) = dev.sel /\ Held1(dev', x) = dev'.sel
    BY <1>3, <1>5, <1>8, KindsApart
  <2>2. Select[1] = "select" /\ Select \notin {<<"acq mode", 0>>, <<"average", 0>>}
    BY DEF Select
  <2>3. CASE n \in Sources
    <3>1. ~Spare(kind, m)
      BY <1>6, <2>1, <2>3 DEF Sources, SettingNames
    <3>2. Reaches(kind, dev, m, c, x)
      BY <1>8, <2>3, <3>1 DEF Reaches, Sources
    <3>3. Gives(kind, m, x) = dev'.sel
      BY <1>2, <1>7, <1>8, <2>3 DEF Gives, Sources, Changed, AcceptedParts
    <3> QED  BY <2>1, <3>2, <3>3
  <2>4. CASE n \notin Sources
    <3>1. dev'.sel = dev.sel
      BY <1>2, <2>4 DEF AcceptedParts, Sources
    <3>2. Aim(kind, dev, m, c) # Select
      BY <1>6, <2>2, <2>4 DEF Sources
    <3>3. ~Reaches(kind, dev, m, c, x)
      BY <1>8, <2>2, <2>4, <3>2 DEF Reaches, Sources
    <3> QED  BY <2>1, <3>1, <3>3
  <2> QED  BY <2>3, <2>4
<1>9. CASE x # Select
  <2>1. x \in Settings(kind) /\ Held1(dev, x) = dev.reg[x] /\ Held1(dev', x) = dev'.reg[x]
    BY <1>3, <1>4, <1>9
  <2>2. CASE n = "recall"
    <3>1. Reaches(kind, dev, m, c, x) /\ Gives(kind, m, x) = Default(kind, x)
      BY <1>6, <2>2 DEF Reaches, Gives, SettingNames
    <3> QED  BY <1>7, <1>9, <2>1, <2>2, <3>1
  <2>3. CASE n = "averaging"
    <3>1. dev'.reg = [dev.reg EXCEPT ![<<"acq mode", 0>>] = "AVERAGE", ![<<"average", 0>>] = m.to]
      BY <1>2, <2>3 DEF Changed
    <3>2. Reaches(kind, dev, m, c, x) <=> x \in {<<"acq mode", 0>>, <<"average", 0>>}
      BY <1>6, <2>3 DEF Reaches, SettingNames
    <3>3. <<"acq mode", 0>> # <<"average", 0>>
      OBVIOUS
    <3>4. Gives(kind, m, x) = IF x = <<"acq mode", 0>> THEN "AVERAGE" ELSE m.to
      BY <2>3 DEF Gives
    <3> QED  BY <1>1, <2>1, <3>1, <3>2, <3>3, <3>4
  <2>4. CASE n \in SettingNames \ {"averaging", "trigger", "recall"}
    <3>1. dev'.reg = IF at \in DOMAIN dev.reg THEN [dev.reg EXCEPT ![at] = m.to] ELSE dev.reg
      BY <1>2, <2>4 DEF Changed
    <3>2. ~Spare(kind, m) /\ n # "select" /\ Gives(kind, m, x) = m.to
      BY <1>6, <2>4 DEF Gives, SettingNames
    <3>3. Reaches(kind, dev, m, c, x) <=> Aim(kind, dev, m, c) = x
      BY <2>4, <3>2 DEF Reaches
    <3>4. Aim(kind, dev, m, c) = x <=> at = x
      <4>1. CASE kind \in Psus \ Numbered /\ m.at[2] = 0
        <5>1. Aim(kind, dev, m, c) = <<n, dev.sel>>
          BY <3>2, <4>1 DEF Aim
        <5>2. at = IF <<n, dev.sel>> \in Settings(kind) THEN <<n, dev.sel>> ELSE m.at
          BY <1>1, <4>1 DEF Addressed
        <5>3. x[2] \in {1, 2}
          BY <2>1, <4>1, SettingIsOne
        <5>4. m.at # x
          BY <4>1, <5>3
        <5> QED  BY <2>1, <5>1, <5>2, <5>4
      <4>2. CASE ~(kind \in Psus \ Numbered /\ m.at[2] = 0)
        BY <4>2 DEF Aim
      <4> QED  BY <4>1, <4>2
    <3> QED  BY <1>1, <2>1, <3>1, <3>2, <3>3, <3>4
  <2>5. CASE n \notin SettingNames \/ n = "trigger"
    <3>1. dev'.reg = dev.reg
      BY <1>2, <2>5 DEF Changed
    <3>2. ~Reaches(kind, dev, m, c, x)
      BY <1>6, <1>9, <2>5 DEF Reaches
    <3> QED  BY <2>1, <3>1, <3>2
  <2> QED  BY <2>2, <2>3, <2>4, <2>5
<1> QED  BY <1>8, <1>9

LEMMA SameAims ==
  ASSUME NEW k, NEW d, NEW e, NEW m, NEW c, DOMAIN e.reg = DOMAIN d.reg,
         k \in Psus \ Numbered \/ e.sel = d.sel \/ (m.do = "put" /\ ~Spare(k, m) => m.at[1] \in Sources)
  PROVE  \A x : Reaches(k, e, m, c, x) <=> Reaches(k, d, m, c, x)
<1>1. CASE k \in Psus \ Numbered \/ e.sel = d.sel
  <2>1. Aim(k, e, m, c) = Aim(k, d, m, c)
    <3>1. CASE m.at[2] = 0
      BY <1>1, <3>1 DEF Aim, Addressed
    <3>2. CASE m.at[2] # 0
      BY <3>2 DEF Aim, Addressed
    <3> QED  BY <3>1, <3>2
  <2> QED  BY <2>1 DEF Reaches
<1>2. CASE m.do = "put" /\ ~Spare(k, m) => m.at[1] \in Sources
  BY <1>2 DEF Reaches, Sources
<1> QED  BY <1>1, <1>2

\* What is true of a list of steps and of every place in it.
LEMMA RestBacks ==
  ASSUME NEW k, NEW s, IsSeq(s), s # <<>>
  PROVE  LET r == Tail(s) IN
         /\ IsSeq(r) /\ 1 \in DOMAIN s
         /\ \A j \in DOMAIN r : j + 1 \in DOMAIN s /\ r[j] = s[j + 1]
         /\ \A i \in DOMAIN s : i # 1 => i - 1 \in DOMAIN r /\ r[i - 1] = s[i] /\ (Backs(k, s, i) => Backs(k, r, i - 1))
         /\ Checks(s) => s[1].do = "check" \/ Checks(r)
         /\ Backs(k, s, 1) => \/ k = "MatrixWPS300S"
                              \/ k \in Numbered /\ s[1].hold /\ r # <<>> /\ r[1].do = "check"
                              \/ k \notin Numbered /\ Checks(r)
<1> DEFINE r == Tail(s)
<1>1. 1 \in DOMAIN s /\ IsSeq(r) /\ \A i \in DOMAIN r : r[i] = s[i + 1]
  BY TailOf
<1>2. \A i : i \in DOMAIN r <=> i \in Nat \ {0} /\ i + 1 \in DOMAIN s
  BY TailOf
<1>3. DOMAIN s = 1..Len(s) /\ Len(s) \in Nat
  BY ListOf
<1>4. DOMAIN <<>> = {}
  BY EmptyIs
<1> HIDE DEF r
<1>5. \A i \in DOMAIN s : i # 1 => i - 1 \in DOMAIN r /\ r[i - 1] = s[i]
  BY <1>1, <1>2, <1>3
<1>6. ASSUME NEW i \in DOMAIN s, i # 1, Backs(k, s, i)  PROVE Backs(k, r, i - 1)
  <2>1. CASE k \in Numbered
    <3>1. i \in Nat \ {0} /\ (i - 1) + 1 = i
      BY <1>3
    <3>2. i + 1 \in DOMAIN s => i \in DOMAIN r
      BY <1>2, <3>1
    <3>3. i + 1 \in DOMAIN s => r[i] = s[i + 1]
      BY <1>1, <3>2
    <3> QED  BY <1>5, <1>6, <2>1, <3>1, <3>2, <3>3 DEF Backs
  <2>2. CASE k \notin Numbered
    <3>1. \A j \in DOMAIN s : j > i => j - 1 \in DOMAIN r /\ r[j - 1] = s[j] /\ j - 1 > i - 1
      BY <1>3, <1>5, <1>6
    <3> QED  BY <1>6, <2>2, <3>1 DEF Backs
  <2> QED  BY <2>1, <2>2
<1>7. Checks(s) => s[1].do = "check" \/ Checks(r)
  BY <1>5 DEF Checks
<1>8. ASSUME Backs(k, s, 1)
      PROVE  \/ k = "MatrixWPS300S"
             \/ k \in Numbered /\ s[1].hold /\ r # <<>> /\ r[1].do = "check"
             \/ k \notin Numbered /\ Checks(r)
  <2>1. CASE k \in Numbered
    <3>1. 1 + 1 \in DOMAIN s => 1 \in DOMAIN r /\ r[1] = s[1 + 1]
      BY <1>1, <1>2
    <3>2. 1 \in DOMAIN r => r # <<>>
      BY <1>4
    <3> QED  BY <1>8, <2>1, <3>1, <3>2 DEF Backs
  <2>2. CASE k \notin Numbered /\ k # "MatrixWPS300S"
    <3>1. \A j \in DOMAIN s : j > 1 => j - 1 \in DOMAIN r /\ r[j - 1] = s[j]
      BY <1>3, <1>5
    <3> QED  BY <1>8, <2>2, <3>1 DEF Backs, Checks
  <2> QED  BY <2>1, <2>2
<1>9. \A j \in DOMAIN r : j + 1 \in DOMAIN s
  BY <1>2
<1> QED  BY <1>1, <1>5, <1>6, <1>7, <1>8, <1>9 DEF r

\* What a step of the call makes of the instrument: it is carried out, or it is
\* refused, or it changes no setting.
Works(k, d, e, m, c, D) ==
  \/ /\ m.do = "put" /\ (m.at[1] # "recall" => e.errs = d.errs)
     /\ \A x \in D : Held1(e, x) = IF Reaches(k, d, m, c, x) THEN Gives(k, m, x) ELSE Held1(d, x)
  \/ /\ m.do = "put" /\ e.errs # 0 /\ k # "MatrixWPS300S"
     /\ \A x \in D : Held1(e, x) = Held1(d, x)
  \/ /\ m.do # "put" /\ e.errs = d.errs /\ (m.do = "check" => d.errs = 0)
     /\ \A x \in D : Held1(e, x) = Held1(d, x)

LEMMA KeepsOn ==
  ASSUME NEW k, NEW d, NEW e, NEW who, NEW next, NEW s, NEW c, NEW A, NEW V,
         IsSeq(s), s # <<>>, Keeps(k, d, who, s, c, A, V), s[1].do # "raise",
         Works(k, d, e, s[1], c, DOMAIN V), next = IF s[1].hold THEN User ELSE None,
         \A j \in DOMAIN s : j # 1 => \A x : Reaches(k, e, s[j], c, x) <=> Reaches(k, d, s[j], c, x)
  PROVE  Keeps(k, e, next, Tail(s), c, A, V)
<1> DEFINE r == Tail(s) m == s[1]
<1>1. /\ 1 \in DOMAIN s
      /\ \A j \in DOMAIN r : j + 1 \in DOMAIN s /\ r[j] = s[j + 1]
      /\ \A i \in DOMAIN s : i # 1 => i - 1 \in DOMAIN r /\ r[i - 1] = s[i] /\ (Backs(k, s, i) => Backs(k, r, i - 1))
  BY RestBacks
<1>2. /\ Checks(s) => s[1].do = "check" \/ Checks(r)
      /\ Backs(k, s, 1) => \/ k = "MatrixWPS300S"
                           \/ k \in Numbered /\ s[1].hold /\ r # <<>> /\ r[1].do = "check"
                           \/ k \notin Numbered /\ Checks(r)
  BY RestBacks
<1>3. \A j \in DOMAIN r : j + 1 # 1
  <2>1. \A j \in DOMAIN r : j \in Nat \ {0}
    BY TailOf
  <2> QED  BY <2>1
<1> HIDE DEF r
<1>4. \A j \in DOMAIN r : \A x : Reaches(k, e, r[j], c, x) <=> Reaches(k, d, r[j], c, x)
  BY <1>1, <1>3
<1>5. ASSUME NEW x \in DOMAIN V  PROVE Settled(k, e, next, r, c, x, V[x])
  <2>1. /\ Settled(k, d, who, s, c, x, V[x])
        /\ \A i \in DOMAIN s : Reaches(k, d, s[i], c, x) => Gives(k, s[i], x) = V[x]
    BY <1>5 DEF Keeps
  <2>2. ~Refuses(s)
    BY DEF Refuses
  <2>3. CASE Held1(d, x) = V[x]
    <3>1. Held1(e, x) = V[x]
      BY <1>1, <1>5, <2>1, <2>3 DEF Works
    <3> QED  BY <3>1 DEF Settled
  <2>4. CASE FoundOut(k, d, who, s)
    <3>1. m.do # "check" /\ d.errs # 0
      BY <2>4 DEF FoundOut, Works
    <3>2. k \notin Numbered /\ Checks(r)
      BY <1>2, <2>4, <3>1 DEF FoundOut
    <3>3. CASE e.errs # 0
      BY <3>2, <3>3 DEF Settled, FoundOut
    <3>4. CASE e.errs = 0
      <4>1. m.do = "put" /\ m.at[1] = "recall" /\ Held1(e, x) = IF Reaches(k, d, m, c, x) THEN Gives(k, m, x) ELSE Held1(d, x)
        BY <1>5, <3>1, <3>4 DEF Works
      <4>2. Reaches(k, d, m, c, x)
        BY <4>1 DEF Reaches, Spare, SettingNames
      <4>3. Held1(e, x) = V[x]
        BY <1>1, <2>1, <4>1, <4>2
      <4> QED  BY <4>3 DEF Settled
    <3> QED  BY <3>3, <3>4
  <2>5. ASSUME NEW i \in DOMAIN s, Reaches(k, d, s[i], c, x), Backs(k, s, i)
        PROVE  Settled(k, e, next, r, c, x, V[x])
    <3>1. CASE i # 1
      <4>1. i - 1 \in DOMAIN r /\ r[i - 1] = s[i] /\ Backs(k, r, i - 1)
        BY <1>1, <2>5, <3>1
      <4>2. Reaches(k, e, r[i - 1], c, x)
        BY <1>4, <2>5, <4>1
      <4> QED  BY <4>1, <4>2 DEF Settled
    <3>2. CASE i = 1
      <4>1. m.do = "put" /\ Gives(k, m, x) = V[x] /\ Reaches(k, d, m, c, x) /\ Backs(k, s, 1)
        BY <2>1, <2>5, <3>2 DEF Reaches
      <4>2. Held1(e, x) = V[x] \/ (e.errs # 0 /\ k # "MatrixWPS300S")
        BY <1>5, <4>1 DEF Works
      <4>3. e.errs # 0 /\ k # "MatrixWPS300S" => FoundOut(k, e, next, r)
        BY <1>2, <4>1 DEF FoundOut
      <4> QED  BY <4>2, <4>3 DEF Settled
    <3> QED  BY <3>1, <3>2
  <2> QED  BY <2>1, <2>2, <2>3, <2>4, <2>5 DEF Settled
<1>6. /\ \A i \in DOMAIN r : r[i].do # "merge"
      /\ \A i \in DOMAIN r : \A x \in DOMAIN A : Reaches(k, e, r[i], c, x) => Gives(k, r[i], x) \in A[x]
      /\ \A x \in DOMAIN V : \A i \in DOMAIN r : Reaches(k, e, r[i], c, x) => Gives(k, r[i], x) = V[x]
      /\ \A i \in DOMAIN r : r[i].do = "put" /\ ~Spare(k, r[i]) =>
           IF k \in Psus THEN c.op = "set" ELSE r[i].at[1] \in Sources <=> c.op \in {"source", "type", "load"}
  BY <1>1, <1>4 DEF Keeps
<1> QED  BY <1>5, <1>6 DEF Keeps, r

LEMMA KeepsStays ==
  ASSUME NEW k, NEW d, NEW e, NEW who, NEW next, NEW s, NEW c, NEW A, NEW V, Keeps(k, d, who, s, c, A, V),
         \A x \in DOMAIN V : Held1(e, x) = Held1(d, x),
         \A j \in DOMAIN s : \A x : Reaches(k, e, s[j], c, x) <=> Reaches(k, d, s[j], c, x),
         DOMAIN V = {} \/ (FoundOut(k, d, who, s) => FoundOut(k, e, next, s))
  PROVE  Keeps(k, e, next, s, c, A, V)
<1>1. ASSUME NEW x \in DOMAIN V  PROVE Settled(k, e, next, s, c, x, V[x])
  BY <1>1 DEF Keeps, Settled
<1> QED  BY <1>1 DEF Keeps

\* What a call asks for depends on the function of a multimeter and on the mode
\* of a load, and on nothing else the object remembers.
LEMMA WantedSame ==
  ASSUME kind' = kind, asked' = asked, kind \in Dmms => host'.func = host.func, kind \in Loads => host'.mode = host.mode,
         NEW c
  PROVE  AskedBy(kind, host, c)' = AskedBy(kind, host, c) /\ Wanted(c)' = Wanted(c)
<1>1. AskedBy(kind, host, c)' = AskedBy(kind, host, c)
  <2>1. CASE kind = "Keithley2400" \/ kind \in Loads
    <3>1. kind = "Keithley2400" => host'.func = host.func
      BY DEF Dmms
    <3> QED  BY <2>1, <3>1 DEF AskedBy
  <2>2. CASE kind # "Keithley2400" /\ kind \notin Loads
    BY <2>2 DEF AskedBy
  <2> QED  BY <2>1, <2>2
<1> QED  BY <1>1 DEF Wanted

\* Who takes a step has the transport, and keeps it if the step says so.
LEMMA StepHolds ==
  ASSUME NEW t \in Threads, Base, StepOf(t), ~adrift'
  PROVE  /\ holder \in {None, t}
         /\ Takes(t) => holder' = IF call[t].todo[1].hold THEN t ELSE None
<1>1. Busy(t) /\ call[t].todo # <<>> /\ IsSeq(call[t].todo)
  BY StepTakes DEF Base, CallIsWhole
<1>2. Head1(t) = call[t].todo[1]
  BY <1>1, TailOf DEF Head1
<1>3. CASE Advance(t) \/ \E got : AdvanceWith(t, got)
  BY <1>2, <1>3 DEF Advance, AdvanceWith, Transport
<1>4. CASE Raises(t)
  <2>1. holder \in {None, t} /\ call'[t].phase = "idle"
    BY <1>4, IdleIs DEF Raises, TransportRaises, Base
  <2>2. ~Takes(t)
    BY <1>1, <2>1 DEF Takes, Passes, Busy
  <2> QED  BY <2>1, <2>2
<1> QED  BY <1>3, <1>4, StepMoves

LEMMA HeldSame ==
  ASSUME SameDev
  PROVE  \A x : Held1(dev', x) = Held1(dev, x)
  BY DEF SameDev, Held1

LEMMA TakesWorks ==
  ASSUME NEW t \in Threads, Base, kind \in Psus \cup Dmms \cup Loads \cup Scopes, kind' = kind, Takes(t),
         call[t].todo[1].do # "merge", call[t].todo[1].do = "check" => line = <<>>,
         LET m == call[t].todo[1] IN
           kind \in Psus \ Numbered /\ m.do = "put" /\ ~Spare(kind, m) => dev.sel = call[t].c.ch
  PROVE  /\ Works(kind, dev, dev', call[t].todo[1], call[t].c, Accounts(kind))
         /\ call[t].todo[1].do # "raise"
         /\ dev'.sel # dev.sel => call[t].todo[1].do = "put" /\ call[t].todo[1].at[1] \in Sources
<1> DEFINE m == call[t].todo[1] c == call[t].c
<1>1. \/ m.do = "put" /\ Command(m, m)
      \/ m.do = "put" /\ SameDev /\ dev'.errs = 1 /\ ~RefusedAdrift(m)
      \/ m.do # "put" /\ dev' = dev /\ (m.do = "check" => dev.errs = 0)
  BY DEF Takes, Effect
<1>2. m.do # "raise"
  BY DEF Takes, Effect
<1>3. /\ kind \in Psus \ Numbered /\ m.do = "put" /\ ~Spare(kind, m) => dev.sel = c.ch
      /\ kind \in Psus \ Numbered /\ m.do = "put" /\ ~Spare(kind, m) /\ m.at[2] = 0 => dev.sel = c.ch
  OBVIOUS
<1> HIDE DEF m, c
<1>4. CASE m.do = "put" /\ Command(m, m)
  <2>1. dev' = Accepted(dev, m) /\ AcceptedParts(dev, m, dev')
    BY <1>4, CommandDoes DEF Command
  <2>2. m.at[1] # "recall" => dev'.errs = dev.errs
    BY <2>1 DEF AcceptedParts
  <2>3. ASSUME NEW x \in Accounts(kind)
        PROVE  Held1(dev', x) = IF Reaches(kind, dev, m, c, x) THEN Gives(kind, m, x) ELSE Held1(dev, x)
    BY <1>3, <1>4, <2>1, <2>3, PutReaches
  <2>4. dev'.sel # dev.sel => m.at[1] \in Sources
    BY <2>1 DEF AcceptedParts, Sources
  <2>5. Works(kind, dev, dev', m, c, Accounts(kind))
    BY <1>4, <2>2, <2>3 DEF Works
  <2> QED  BY <1>2, <1>4, <2>4, <2>5 DEF m, c
<1>5. CASE m.do = "put" /\ SameDev /\ dev'.errs = 1 /\ ~RefusedAdrift(m)
  <2>1. kind # "MatrixWPS300S" /\ dev'.errs # 0 /\ dev'.sel = dev.sel
    BY <1>5 DEF RefusedAdrift, SameDev
  <2>2. \A x : Held1(dev', x) = Held1(dev, x)
    BY <1>5, HeldSame
  <2>3. Works(kind, dev, dev', m, c, Accounts(kind))
    BY <1>5, <2>1, <2>2 DEF Works
  <2> QED  BY <1>2, <2>1, <2>3 DEF m, c
<1>6. CASE m.do # "put" /\ dev' = dev /\ (m.do = "check" => dev.errs = 0)
  <2>1. dev'.sel = dev.sel /\ dev'.errs = dev.errs /\ \A x : Held1(dev', x) = Held1(dev, x)
    BY <1>6
  <2>2. Works(kind, dev, dev', m, c, Accounts(kind))
    BY <1>6, <2>1 DEF Works
  <2> QED  BY <1>2, <2>1, <2>2 DEF m, c
<1> QED  BY <1>1, <1>4, <1>5, <1>6

\* Of no multimeter does a step change the function, nor of a load the mode.
LEMMA ModeStays ==
  ASSUME NEW t \in Threads, Base, Reports, Busy(t), call[t].todo # <<>>, Takes(t), kind' = kind, Reports'
  PROVE  (kind \in Dmms => host'.func = host.func) /\ (kind \in Loads => host'.mode = host.mode)
<1>1. IsSeq(call[t].todo)
  BY DEF Base, CallIsWhole
<1>2. CASE kind \in Dmms
  <2>1. call[t].todo[1].do = "note" => call[t].todo[1].at # "func"
    <3>1. \/ Metered(call[t].todo) \/ Switches(call[t].todo, call[t].c.name)
      BY <1>2 DEF Reports, DmmInv, Measures, SwitchesOver, Underway, Busy
    <3>2. \/ FitsMeter(call[t].todo[1]) \/ SetsFunction(call[t].todo[1], call[t].c.name)
      BY <1>1, <3>1, RestAsks, RestSwitches DEF Metered, FitsMeter
    <3> QED  BY <3>2 DEF FitsMeter, Fits, SetsFunction
  <2>2. kind \notin Loads
    BY <1>2, KindsApart
  <2> QED  BY <2>1, <2>2, FuncStays
<1>3. CASE kind \in Loads
  <2>1. call[t].todo[1].do # "note"
    <3>1. Loaded(call[t].todo)
      BY <1>3 DEF Reports, LoadInv
    <3> QED  BY <1>1, <3>1, RestAsks DEF Loaded, Fits
  <2>2. host'.mode = host.mode
    BY <2>1 DEF Takes, Effect, Command, SameHost
  <2>3. kind \notin Dmms
    BY <1>3, KindsApart
  <2> QED  BY <2>2, <2>3
<1> QED  BY <1>2, <1>3

LEMMA WorksOnPart ==
  ASSUME NEW k, NEW d, NEW e, NEW m, NEW c, NEW E, NEW D, Works(k, d, e, m, c, E), D \subseteq E
  PROVE  Works(k, d, e, m, c, D)
  BY DEF Works

LEMMA OrdersOn ==
  ASSUME Base, kind \in Psus \cup Dmms \cup Loads \cup Scopes, kind' = kind, Busy(User), call[User].todo # <<>>,
         Takes(User), Reports, Reports', Settles, call[User].todo[1].do = "check" => line = <<>>,
         holder' = IF call[User].todo[1].hold THEN User ELSE None
  PROVE  Orders' /\ InForce'
<1> DEFINE s == call[User].todo m == s[1] c == call[User].c V == Wanted(c) r == Tail(s)
<1>0. User \in Threads /\ IsSeq(s) /\ 1 \in DOMAIN s
  BY BenchAssumption, TailOf DEF Base, CallIsWhole
<1>1. Keeps(kind, dev, holder, s, c, asked, V)
  BY DEF Settles, Orders
<1>2. DOMAIN asked = Accounts(kind) /\ asked' = asked /\ DOMAIN V \subseteq Accounts(kind)
  <2>1. DOMAIN asked = Accounts(kind)
    BY DEF Settles
  <2> QED  BY <2>1 DEF Takes, Passes, Wanted
<1>3. /\ call'[User].c = c /\ call'[User].todo = r /\ Busy(User)'
      /\ DOMAIN dev'.reg = DOMAIN dev.reg
  BY <1>0, TakesOn DEF Reports, Base
<1>4. V' = V /\ AskedBy(kind, host, c)' = AskedBy(kind, host, c)
  BY <1>0, <1>2, <1>3, ModeStays, WantedSame
<1>5. /\ m.do # "merge"
      /\ m.do = "put" /\ ~Spare(kind, m) =>
           IF kind \in Psus THEN c.op = "set" ELSE m.at[1] \in Sources <=> c.op \in {"source", "type", "load"}
      /\ \A j \in DOMAIN s : s[j].do = "put" /\ ~Spare(kind, s[j]) /\ kind \notin Psus =>
           (s[j].at[1] \in Sources <=> c.op \in {"source", "type", "load"})
  BY <1>0, <1>1 DEF Keeps
<1>6. kind \in Psus \ Numbered /\ m.do = "put" /\ ~Spare(kind, m) => dev.sel = c.ch
  <2> SUFFICES ASSUME kind \in Psus, kind \notin Numbered, m.do = "put", ~Spare(kind, m)  PROVE dev.sel = c.ch
    OBVIOUS
  <2>1. c.op \in Transfers
    BY <1>5 DEF Transfers
  <2>2. ~(m.at = Select)
    <3>1. m.at[1] # "select"
      BY <1>5 DEF Spare, SettingNames
    <3>2. Select[1] = "select"
      BY DEF Select
    <3> QED  BY <3>1, <3>2, Zenon
  <2>3. Targets(User)
    BY <1>0 DEF Reports, PsuInv
  <2>4. \/ c.op \in Transfers /\ kind \notin Numbered => m.do = "raise" \/ dev.sel = c.ch
        \/ m.at = Select
        \/ m.do = "note"
    BY <1>0, <2>3, PsuHead
  <2> QED  BY <2>1, <2>2, <2>4
<1> HIDE DEF V
<1>7. /\ Works(kind, dev, dev', m, c, Accounts(kind)) /\ m.do # "raise"
      /\ dev'.sel # dev.sel => m.do = "put" /\ m.at[1] \in Sources
  BY <1>0, <1>5, <1>6, TakesWorks
<1>8. ASSUME NEW j \in DOMAIN s, j # 1
      PROVE  \A x : Reaches(kind, dev', s[j], c, x) <=> Reaches(kind, dev, s[j], c, x)
  <2>1. kind \in Numbered => dev'.sel = dev.sel /\ kind \in Psus
    BY DEF Reports, PsuInv, SelectInv, Numbered, Psus
  <2>2. kind \notin Psus /\ dev'.sel # dev.sel => ~Spare(kind, m)
    BY <1>7 DEF Spare, Sources, SettingNames
  <2>3. kind \in Psus \ Numbered \/ dev'.sel = dev.sel \/ (s[j].do = "put" /\ ~Spare(kind, s[j]) => s[j].at[1] \in Sources)
    BY <1>5, <1>7, <1>8, <2>1, <2>2
  <2> QED  BY <1>3, <2>3, SameAims
<1>9. Works(kind, dev, dev', m, c, DOMAIN V)
  BY <1>2, <1>7, WorksOnPart
<1>10. Keeps(kind, dev', holder', r, c, asked, V)
  BY <1>0, <1>1, <1>7, <1>8, <1>9, KeepsOn
<1>11. Orders'
  <2>1. Meant(c)
    BY DEF Settles, Orders
  <2>2. Meant(c)'
    BY <1>2, <1>4, <2>1 DEF Meant
  <2> QED  BY <1>2, <1>3, <1>4, <1>10, <2>2 DEF Orders, V
<1>12. ASSUME NEW x \in Accounts(kind)  PROVE Held1(dev', x) \in asked[x]
  <2>1. Held1(dev, x) \in asked[x]
    BY DEF Settles, InForce
  <2>2. Reaches(kind, dev, m, c, x) => Gives(kind, m, x) \in asked[x]
    BY <1>0, <1>1, <1>2 DEF Keeps
  <2> QED  BY <1>7, <2>1, <2>2 DEF Works
<1> QED  BY <1>2, <1>11, <1>12 DEF InForce

LEMMA MindsOn ==
  ASSUME NEW k, NEW h, NEW g, NEW d, NEW e, NEW who, NEW next, NEW s, NEW c,
         IsSeq(s), s # <<>>, Minds(k, h, d, who, s, c), k \notin Numbered, k # "MatrixWPS300S",
         s[1].do = "check" => d.errs = 0,
         IF s[1].do = "note" /\ s[1].at = "source" THEN g.source = s[1].to ELSE g.source = h.source,
         IF s[1].do = "note" /\ s[1].at = "average" THEN g.average = s[1].to ELSE g.average = h.average,
         IF s[1].do = "put" /\ s[1].at[1] = "recall" THEN e.errs # 0 \/ (h.source = None /\ h.average = 0)
         ELSE d.errs # 0 => e.errs # 0
  PROVE  Minds(k, g, e, next, Tail(s), c)
<1> DEFINE r == Tail(s) m == s[1] Recall(q) == q.do = "put" /\ q.at[1] = "recall"
           Sets1(q, a) == q.do = "note" /\ q.at = a
<1>1. /\ 1 \in DOMAIN s
      /\ \A j \in DOMAIN r : j + 1 \in DOMAIN s /\ r[j] = s[j + 1]
      /\ \A i \in DOMAIN s : i # 1 => i - 1 \in DOMAIN r /\ r[i - 1] = s[i] /\ (Backs(k, s, i) => Backs(k, r, i - 1))
  BY RestBacks
<1>2. (Checks(s) => m.do = "check" \/ Checks(r)) /\ (Backs(k, s, 1) => Checks(r))
  BY RestBacks
<1>3. /\ \A i \in DOMAIN s : s[i].do = "note" =>
           /\ s[i].at = "source" => c.op = "source" /\ s[i].to = c.ch
           /\ s[i].at = "average" => c.op = "set" /\ c.name = "average" /\ s[i].to = c.val
      /\ c.op = "source" => h.source = c.ch \/ \E i \in DOMAIN s : s[i].do = "note" /\ s[i].at = "source"
      /\ k = "SiglentSDS1000XE" /\ c.op = "set" /\ c.name = "average" =>
           h.average = c.val \/ \E i \in DOMAIN s : s[i].do = "note" /\ s[i].at = "average"
      /\ c.op = "load" => \/ h.source = None /\ (k = "SiglentSDS1000XE" => h.average = 0)
                          \/ FoundOut(k, d, who, s)
                          \/ \E i \in DOMAIN s : s[i].do = "put" /\ s[i].at[1] = "recall" /\ Backs(k, s, i)
  BY DEF Minds
<1> HIDE DEF r, m
<1>4. \A i \in DOMAIN r : r[i].do = "note" =>
           /\ r[i].at = "source" => c.op = "source" /\ r[i].to = c.ch
           /\ r[i].at = "average" => c.op = "set" /\ c.name = "average" /\ r[i].to = c.val
  BY <1>1, <1>3
<1>5. c.op = "source" => g.source = c.ch \/ \E i \in DOMAIN r : r[i].do = "note" /\ r[i].at = "source"
  BY <1>1, <1>3 DEF m
<1>6. k = "SiglentSDS1000XE" /\ c.op = "set" /\ c.name = "average" =>
           g.average = c.val \/ \E i \in DOMAIN r : r[i].do = "note" /\ r[i].at = "average"
  BY <1>1, <1>3 DEF m
<1>7. ASSUME c.op = "load"
      PROVE  \/ g.source = None /\ (k = "SiglentSDS1000XE" => g.average = 0)
             \/ FoundOut(k, e, next, r)
             \/ \E i \in DOMAIN r : r[i].do = "put" /\ r[i].at[1] = "recall" /\ Backs(k, r, i)
  <2>1. g.source = h.source /\ g.average = h.average
    BY <1>1, <1>3, <1>7 DEF m
  <2>2. CASE h.source = None /\ (k = "SiglentSDS1000XE" => h.average = 0)
    BY <2>1, <2>2
  <2>3. CASE FoundOut(k, d, who, s)
    <3>1. d.errs # 0 /\ Checks(r)
      BY <1>2, <2>3 DEF FoundOut, m
    <3> QED  BY <2>1, <3>1 DEF FoundOut
  <2>4. ASSUME NEW i \in DOMAIN s, Recall(s[i]), Backs(k, s, i)
        PROVE  \/ g.source = None /\ (k = "SiglentSDS1000XE" => g.average = 0)
               \/ FoundOut(k, e, next, r)
               \/ \E j \in DOMAIN r : r[j].do = "put" /\ r[j].at[1] = "recall" /\ Backs(k, r, j)
    <3>1. CASE i = 1
      <4>1. Checks(r) /\ (e.errs # 0 \/ (h.source = None /\ h.average = 0))
        BY <1>2, <2>4, <3>1 DEF m
      <4> QED  BY <2>1, <4>1 DEF FoundOut
    <3>2. CASE i # 1
      BY <1>1, <2>4, <3>2
    <3> QED  BY <3>1, <3>2
  <2> QED  BY <1>3, <1>7, <2>2, <2>3, <2>4
<1> QED  BY <1>4, <1>5, <1>6, <1>7 DEF Minds, r

LEMMA ScopeSets ==
  ASSUME kind \in Scopes, NEW c \in Issued(kind)
  PROVE  /\ c.op = "source" => c.ch \in 1..2
         /\ c.op = "set" => (c.name = "scale" /\ c.ch = 1) \/ (c.name = "average" /\ c.ch = 0)
<1>1. kind \notin Psus /\ kind \notin Dmms /\ kind \notin Loads /\ kind # "Aardvark"
  BY KindsApart
<1>2. Statuses(kind) = {} /\ Writes(kind) = ScopeWrites
  BY <1>1 DEF Statuses, Writes, Scopes
<1>3. c \in Reads(kind) \cup ScopeWrites \cup {C("open", "none", 0, 0), C("close", "none", 0, 0)}
  BY <1>2 DEF Issued
<1>4. CASE c \in Reads(kind)
  <2>1. c.op \in {"get", "state", "fetch", "measure"}
    BY <1>4, ScopeReadsAre
  <2> QED  BY <2>1
<1>5. CASE c \in ScopeWrites
  <2> DEFINE Ops == {"acq mode", "slope", "run", "stop", "single", "force", "load", "type", "level", "save"}
  <2>1. \/ c = C("set", "scale", 1, 1) \/ c = C("set", "average", 0, 1)
        \/ \E ch \in 1..2 : c = C("source", "none", ch, 0)
        \/ \E op \in Ops : \E name, ch, val : c = C(op, name, ch, val)
    BY <1>5 DEF ScopeWrites
  <2>2. ASSUME c = C("set", "scale", 1, 1)  PROVE c.op = "set" /\ c.name = "scale" /\ c.ch = 1
    BY <2>2 DEF C
  <2>3. ASSUME c = C("set", "average", 0, 1)  PROVE c.op = "set" /\ c.name = "average" /\ c.ch = 0
    BY <2>3 DEF C
  <2>4. ASSUME NEW ch \in 1..2, c = C("source", "none", ch, 0)  PROVE c.op = "source" /\ c.ch \in 1..2
    BY <2>4 DEF C
  <2>5. ASSUME NEW op \in Ops, NEW name, NEW ch, NEW val, c = C(op, name, ch, val)  PROVE c.op \in Ops
    <3> HIDE DEF Ops
    <3> QED  BY <2>5 DEF C
  <2>6. \/ c.op = "set" /\ c.name = "scale" /\ c.ch = 1
        \/ c.op = "set" /\ c.name = "average" /\ c.ch = 0
        \/ c.op = "source" /\ c.ch \in 1..2
        \/ c.op \in Ops
    BY <2>1, <2>2, <2>3, <2>4, <2>5
  <2> QED  BY <2>6
<1>6. CASE c \in {C("open", "none", 0, 0), C("close", "none", 0, 0)}
  <2>1. c.op \in {"open", "close"}
    BY <1>6 DEF C
  <2> QED  BY <2>1
<1> QED  BY <1>3, <1>4, <1>5, <1>6

LEMMA MemoryOn ==
  ASSUME Base, kind \in Scopes, kind' = kind, Busy(User), call[User].todo # <<>>,
         Takes(User), Settles, call[User].todo[1].do = "check" => line = <<>>
  PROVE  Memory'
<1> DEFINE s == call[User].todo m == s[1] c == call[User].c avg == <<"average", 0>>
<1>0. User \in Threads /\ IsSeq(s) /\ 1 \in DOMAIN s /\ c \in Issued(kind)
  BY BenchAssumption, TailOf DEF Base, CallIsWhole, Underway, Busy
<1>1. /\ asked' = asked /\ DOMAIN asked = Accounts(kind) /\ Meant(c)
      /\ KnownSource(host) \in asked[Select]
      /\ kind = "SiglentSDS1000XE" => host.average \in asked[avg]
      /\ Minds(kind, host, dev, holder, s, c)
  BY DEF Takes, Passes, Settles, Memory, Orders
<1>2. call'[User].c = c /\ call'[User].todo = Tail(s) /\ Busy(User)'
  BY <1>0, TakesOn
<1>3. kind \notin Numbered /\ kind # "MatrixWPS300S" /\ kind # "Aardvark" /\ kind \notin Psus
  BY KindsApart DEF Numbered, Scopes
<1>4. Select \in Accounts(kind) /\ avg \in Accounts(kind)
  <2>1. avg \in Settings(kind)
    BY KindsApart DEF Settings
  <2> QED  BY <2>1 DEF Accounts
<1>5. \/ m.do = "put" /\ Command(m, m)
      \/ m.do = "put" /\ SameHost /\ dev'.errs = 1
      \/ m.do = "note" /\ dev' = dev /\ host' = Noted(host, m.at, m.to, call[User].got)
      \/ m.do = "merge"
      \/ m.do \notin {"put", "note"} /\ dev' = dev /\ host' = host /\ (m.do = "check" => dev.errs = 0)
  BY DEF Takes, Effect
<1>6. m.do # "merge"
  BY <1>0 DEF Settles, Orders, Keeps
<1>7. DOMAIN host = HostParts /\ DOMAIN dev = DevParts
  BY DEF Base
<1>8. /\ m.do = "note" /\ m.at = "source" => c.op = "source" /\ m.to = c.ch
      /\ m.do = "note" /\ m.at = "average" => c.op = "set" /\ c.name = "average" /\ m.to = c.val
  BY <1>0, <1>1 DEF Minds
<1>9. c.op = "source" => c.ch \in asked[Select] /\ c.ch # None
  <2> SUFFICES ASSUME c.op = "source"  PROVE c.ch \in asked[Select] /\ c.ch # None
    OBVIOUS
  <2>1. AskedBy(kind, host, c) = SetTo(Select, c.ch)
    BY <1>3, KindsApart DEF AskedBy, Dmms, Scopes
  <2>2. DOMAIN SetTo(Select, c.ch) = {Select} /\ SetTo(Select, c.ch)[Select] = c.ch
    BY DEF SetTo
  <2>3. c.ch \in asked[Select]
    BY <1>1, <1>4, <2>1, <2>2 DEF Meant
  <2>4. c.ch \in 1..2
    BY <1>0, ScopeSets
  <2> QED  BY <2>3, <2>4, ChannelsAssumption
<1>10. c.op = "set" /\ c.name = "average" => c.val \in asked[avg]
  <2> SUFFICES ASSUME c.op = "set", c.name = "average"  PROVE c.val \in asked[avg]
    OBVIOUS
  <2>1. <<c.name, c.ch>> = avg
    BY <1>0, ScopeSets
  <2>2. AskedBy(kind, host, c) = SetTo(avg, c.val)
    BY <1>3, <2>1, KindsApart DEF AskedBy, Dmms
  <2>3. DOMAIN SetTo(avg, c.val) = {avg} /\ SetTo(avg, c.val)[avg] = c.val
    BY DEF SetTo
  <2> QED  BY <1>1, <1>4, <2>2, <2>3 DEF Meant
<1> HIDE DEF m, s, c, avg
<1>11. /\ IF m.do = "note" /\ m.at = "source" THEN host'.source = m.to ELSE host'.source = host.source
       /\ IF m.do = "note" /\ m.at = "average" THEN host'.average = m.to ELSE host'.average = host.average
  <2>1. CASE m.do = "note" /\ host' = Noted(host, m.at, m.to, call[User].got)
    <3>1. CASE m.at \in {"source", "average"}
      <4>1. host' = [host EXCEPT ![m.at] = m.to]
        BY <2>1, <3>1 DEF Noted
      <4> QED  BY <1>7, <2>1, <3>1, <4>1 DEF HostParts
    <3>2. CASE m.at \notin {"source", "average"}
      <4>1. host'.source = host.source /\ host'.average = host.average
        BY <1>7, <2>1, <3>2 DEF Noted, HostParts
      <4> QED  BY <3>2, <4>1
    <3> QED  BY <3>1, <3>2
  <2>2. CASE m.do # "note" /\ (SameHost \/ host' = host)
    BY <2>2 DEF SameHost
  <2> QED  BY <1>5, <1>6, <2>1, <2>2 DEF Command
<1>12. IF m.do = "put" /\ m.at[1] = "recall" THEN dev'.errs # 0 \/ (host.source = None /\ host.average = 0)
       ELSE dev.errs # 0 => dev'.errs # 0
  <2>1. CASE m.do = "put" /\ Command(m, m)
    <3>1. AcceptedParts(dev, m, dev') /\ ~RecallAdrift(m)
      BY <2>1, CommandDoes DEF Command
    <3> QED  BY <2>1, <3>1 DEF AcceptedParts, RecallAdrift
  <2> QED  BY <1>5, <1>6, <2>1
<1>13. m.do = "check" => dev.errs = 0
  BY <1>5
<1>14. Minds(kind, host', dev', holder', Tail(s), c)
  BY <1>0, <1>1, <1>3, <1>11, <1>12, <1>13, MindsOn DEF m, s
<1>15. KnownSource(host') \in asked[Select]
  BY <1>1, <1>8, <1>9, <1>11 DEF KnownSource
<1>16. kind = "SiglentSDS1000XE" => host'.average \in asked[avg]
  BY <1>1, <1>8, <1>10, <1>11
<1> QED  BY <1>1, <1>2, <1>14, <1>15, <1>16 DEF Memory, avg

\* The calls of the other threads hold the lock of the object, but for those that
\* read the status of a supply; the calls that do not, ask for nothing.
LEMMA ReadsLock ==
  ASSUME kind \in Psus \cup Dmms \cup Loads \cup Scopes, NEW c \in Reads(kind) \cup Statuses(kind)
  PROVE  /\ c.op \in {"get", "read", "state", "fetch", "measure", "status"}
         /\ Locks(kind, c) \/ kind \in Numbered
<1>1. kind # "Aardvark"
  BY KindsApart
<1>2. CASE c \in Statuses(kind)
  <2>1. kind \in Numbered /\ c = C("status", "none", 0, 0)
    BY <1>2 DEF Statuses, Numbered
  <2> QED  BY <2>1 DEF C
<1>3. CASE c \in Reads(kind)
  <2>1. c.op \in {"get", "read", "state", "fetch", "measure"}
    <3>1. CASE kind \in Psus
      <4>1. c \in PsuReads
        BY <1>3, <3>1, KindsApart DEF Reads
      <4> QED  BY <4>1 DEF PsuReads, C
    <3>2. CASE kind \in Dmms
      <4>1. c \in DmmReads
        BY <1>3, <3>2, KindsApart DEF Reads
      <4> QED  BY <4>1 DEF DmmReads, C
    <3>3. CASE kind \in Loads
      <4>1. c \in LoadReads
        BY <1>3, <3>3, KindsApart DEF Reads
      <4> QED  BY <4>1 DEF LoadReads, C
    <3>4. CASE kind \in Scopes
      BY <1>3, <3>4, ScopeReadsAre
    <3> QED  BY <3>1, <3>2, <3>3, <3>4
  <2> QED  BY <1>1, <2>1 DEF Locks
<1> QED  BY <1>2, <1>3

LEMMA NothingAsked ==
  ASSUME NEW h, NEW c, kind # "Aardvark",
         c.op \in {"open", "close", "get", "read", "state", "fetch", "measure", "status", "function", "save", "slope",
                   "run", "stop", "single", "force", "type"}
           \/ (c.op = "range" /\ kind # "Keithley2400")
  PROVE  AskedBy(kind, h, c) = <<>> /\ DOMAIN AskedBy(kind, h, c) = {}
<1>1. AskedBy(kind, h, c) = <<>>
  BY DEF AskedBy
<1> QED  BY <1>1, EmptyIs

\* A step that leaves the settings alone.
LEMMA SpareTakes ==
  ASSUME NEW t \in Threads, Base, kind \in Psus \cup Dmms \cup Loads \cup Scopes, kind' = kind, Reports, Reports',
         Busy(t), call[t].todo # <<>>, Takes(t), call[t].todo[1].do = "check" => line = <<>>,
         Spare(kind, call[t].todo[1])
  PROVE  /\ \A x \in Accounts(kind) : Held1(dev', x) = Held1(dev, x)
         /\ dev'.sel # dev.sel => kind \in Psus \ Numbered
         /\ host'.source = host.source /\ host'.average = host.average
         /\ (kind \in Dmms => host'.func = host.func) /\ (kind \in Loads => host'.mode = host.mode)
<1> DEFINE m == call[t].todo[1] c == call[t].c
<1>1. m.do # "merge" /\ (m.do = "note" => m.at \notin {"source", "average"})
      /\ (m.do = "put" => m.at[1] \notin SettingNames /\ (m.at[1] = "select" => kind \in Psus))
  BY DEF Spare
<1>2. \A x : ~Reaches(kind, dev, m, c, x)
  BY DEF Reaches
<1>3. /\ Works(kind, dev, dev', m, c, Accounts(kind))
      /\ dev'.sel # dev.sel => m.do = "put" /\ m.at[1] \in Sources
  BY <1>1, TakesWorks
<1>4. kind \in Numbered => dev'.sel = dev.sel
  BY DEF Reports, PsuInv, SelectInv, Numbered, Psus
<1>5. DOMAIN host = HostParts
  BY DEF Base
<1>6. \/ m.do = "note" /\ host' = Noted(host, m.at, m.to, call[t].got)
      \/ SameHost \/ host' = host
  BY <1>1 DEF Takes, Effect, Command
<1> HIDE DEF m, c
<1>7. \A x \in Accounts(kind) : Held1(dev', x) = Held1(dev, x)
  BY <1>2, <1>3 DEF Works
<1>8. dev'.sel # dev.sel => kind \in Psus \ Numbered
  BY <1>1, <1>3, <1>4 DEF Sources, SettingNames
<1>9. host'.source = host.source /\ host'.average = host.average
  BY <1>1, <1>5, <1>6 DEF Noted, HostParts, SameHost
<1> QED  BY <1>7, <1>8, <1>9, ModeStays

LEMMA RestLeaves ==
  ASSUME NEW k, NEW s, Leaves(k, s), s # <<>>
  PROVE  Spare(k, s[1]) /\ Leaves(k, Tail(s))
<1>1. /\ IsSeq(Tail(s)) /\ 1 \in DOMAIN s
      /\ \A j \in DOMAIN Tail(s) : j + 1 \in DOMAIN s /\ Tail(s)[j] = s[j + 1]
  BY RestBacks DEF Leaves, Listed
<1> QED  BY <1>1 DEF Leaves, Listed

LEMMA OthersOn ==
  ASSUME NEW t \in Threads \ {User}, Base, kind \in Psus \cup Dmms \cup Loads \cup Scopes, kind' = kind,
         Reports, Reports', Settles, Busy(t), call[t].todo # <<>>, Takes(t) \/ GivesUp(t),
         call[t].todo[1].do = "check" => line = <<>>, holder \in {None, t}
  PROVE  Settles'
<1> DEFINE s == call[User].todo c == call[User].c V == Wanted(c)
<1>0. User \in Threads /\ User # t /\ t # None /\ User # None
  BY BenchAssumption
<1>1. call[t].c \in Reads(kind) \cup Statuses(kind) /\ Leaves(kind, call[t].todo)
  BY DEF Settles, Apart, Busy, Underway
<1>2. Spare(kind, call[t].todo[1]) /\ Leaves(kind, Tail(call[t].todo))
  BY <1>1, RestLeaves
<1>3. asked' = asked /\ DOMAIN asked = Accounts(kind) /\ \A u \in Threads \ {t} : call'[u] = call[u]
  BY DEF Takes, GivesUp, Passes, Others, Settles
<1>4. /\ \A x \in Accounts(kind) : Held1(dev', x) = Held1(dev, x)
      /\ dev'.sel # dev.sel => kind \in Psus \ Numbered
      /\ host'.source = host.source /\ host'.average = host.average
      /\ (kind \in Dmms => host'.func = host.func) /\ (kind \in Loads => host'.mode = host.mode)
  <2>1. CASE Takes(t)
    BY <1>2, <2>1, SpareTakes
  <2>2. CASE GivesUp(t)
    <3>1. SameDev /\ host' = host
      BY <2>2 DEF GivesUp
    <3> QED  BY <3>1, HeldSame DEF SameDev
  <2> QED  BY <2>1, <2>2
<1>5. InForce'
  BY <1>3, <1>4 DEF Settles, InForce
<1>6. \A u \in Threads \ {User} : Apart(u)'
  <2>1. \A u \in Threads \ {User, t} : Apart(u)'
    BY <1>3 DEF Settles, Apart, Underway, Busy
  <2>2. Apart(t)'
    <3>1. CASE Takes(t)
      <4>1. call'[t].c = call[t].c /\ call'[t].todo = Tail(call[t].todo)
        BY <3>1, TakesOn
      <4> QED  BY <1>1, <1>2, <4>1 DEF Apart
    <3>2. CASE GivesUp(t)
      <4>1. ~Underway(t)' /\ ~Busy(t)'
        BY <3>2, IdleIs DEF GivesUp, Underway, Busy
      <4> QED  BY <4>1 DEF Apart
    <3> QED  BY <3>1, <3>2
  <2> QED  BY <2>1, <2>2
<1>7. call'[User] = call[User] /\ (Busy(User)' <=> Busy(User))
  BY <1>0, <1>3 DEF Busy
<1>8. V' = V /\ AskedBy(kind, host, c)' = AskedBy(kind, host, c)
  BY <1>3, <1>4, <1>7, WantedSame
\* Nobody else is under way while the user's call holds the lock.
<1>9. ASSUME Busy(User), kind \notin Numbered
      PROVE  c.op \in {"open", "close", "status"} /\ DOMAIN V = {}
  <2>1. Locks(kind, call[t].c)
    BY <1>1, <1>9, ReadsLock
  <2>2. ~Locks(kind, c)
    BY <1>0, <1>9, <2>1, HeldByOne DEF Reports
  <2>3. kind # "Aardvark"
    BY KindsApart
  <2>4. c.op \in {"open", "close", "status"}
    BY <2>2, <2>3 DEF Locks
  <2>5. DOMAIN AskedBy(kind, host, c) = {}
    BY <2>3, <2>4, NothingAsked
  <2> QED  BY <2>4, <2>5 DEF Wanted
<1>10. Orders'
  <2> SUFFICES ASSUME Busy(User)  PROVE Meant(c)' /\ Keeps(kind, dev', holder', s, c, asked, V)
    BY <1>3, <1>7, <1>8 DEF Orders
  <2>1. Meant(c) /\ Keeps(kind, dev, holder, s, c, asked, V)
    BY DEF Settles, Orders
  <2>2. Meant(c)'
    BY <1>3, <1>7, <1>8, <2>1 DEF Meant
  <2>3. DOMAIN V \subseteq Accounts(kind)
    BY <1>3 DEF Wanted
  <2>4. \A j \in DOMAIN s : \A x : Reaches(kind, dev', s[j], c, x) <=> Reaches(kind, dev, s[j], c, x)
    <3>1. DOMAIN dev'.reg = DOMAIN dev.reg /\ (kind \in Psus \ Numbered \/ dev'.sel = dev.sel)
      BY <1>4 DEF Base, Reports
    <3> QED  BY <3>1, SameAims
  <2>5. DOMAIN V = {} \/ (FoundOut(kind, dev, holder, s) => FoundOut(kind, dev', holder', s))
    <3>1. CASE kind \in Numbered
      BY <1>0, <3>1 DEF FoundOut
    <3>2. CASE kind \notin Numbered
      BY <1>9, <3>2
    <3> QED  BY <3>1, <3>2
  <2> HIDE DEF V, c, s
  <2> QED  BY <1>4, <2>1, <2>2, <2>3, <2>4, <2>5, KeepsStays
<1>11. Memory'
  <2> SUFFICES ASSUME kind \in Scopes  PROVE Memory'
    BY DEF Memory
  <2>1. /\ KnownSource(host) \in asked[Select]
        /\ kind = "SiglentSDS1000XE" => host.average \in asked[<<"average", 0>>]
        /\ Busy(User) => Minds(kind, host, dev, holder, s, c)
    BY DEF Settles, Memory
  <2>2. ASSUME Busy(User)  PROVE Minds(kind, host', dev', holder', s, c)
    <3>1. c.op \in {"open", "close", "status"}
      BY <1>9, <2>2 DEF Numbered, Scopes
    <3> QED  BY <2>1, <2>2, <3>1 DEF Minds
  <2>3. KnownSource(host') = KnownSource(host)
    BY <1>4 DEF KnownSource
  <2> QED  BY <1>3, <1>4, <1>7, <2>1, <2>2, <2>3 DEF Memory
<1> QED  BY <1>3, <1>5, <1>6, <1>10, <1>11 DEF Settles

LEMMA UserGivesUp ==
  ASSUME kind' = kind, Settles, GivesUp(User)
  PROVE  Settles'
<1>1. /\ asked' = asked /\ host' = host /\ SameDev /\ call'[User] = Idle
      /\ \A u \in Threads \ {User} : call'[u] = call[u]
  BY DEF GivesUp, Others
<1>2. ~Busy(User)'
  BY <1>1, IdleIs DEF Busy
<1>3. InForce'
  BY <1>1, HeldSame DEF Settles, InForce
<1>4. \A u \in Threads \ {User} : Apart(u)'
  BY <1>1 DEF Settles, Apart, Underway, Busy
<1>5. Memory'
  BY <1>1, <1>2 DEF Settles, Memory
<1> QED  BY <1>1, <1>2, <1>3, <1>4, <1>5 DEF Settles, Orders

\* A step of a call that is under way.
LEMMA StepSettles ==
  ASSUME NEW t \in Threads, Inv, kind # "Aardvark", ~adrift, Reports, Reports', Settles, StepOf(t), ~adrift', kind' = kind
  PROVE  Settles'
<1> DEFINE m == call[t].todo[1]
<1>1. kind \in Psus \cup Dmms \cup Loads \cup Scopes /\ (kind \in Scopes => ScopeInv)
  BY KindIs DEF Inv
<1>2. Base
  BY DEF Reports
<1>3. Busy(t) /\ call[t].todo # <<>> /\ (Takes(t) \/ GivesUp(t))
  BY <1>2, StepTakes
<1>4. m.do = "check" => line = <<>>
  <2> SUFFICES ASSUME m.do = "check"  PROVE line = <<>>
    OBVIOUS
  <2>1. CASE kind \in Scopes
    BY <1>1, <1>3, <2>1, LineIsEmpty
  <2>2. CASE kind \notin Scopes
    BY <1>1, <2>2 DEF Reports, PsuInv, DmmInv, LoadInv
  <2> QED  BY <2>1, <2>2
<1>5. holder \in {None, t} /\ (Takes(t) => holder' = IF m.hold THEN t ELSE None)
  BY <1>2, StepHolds
<1>6. CASE t # User
  BY <1>1, <1>2, <1>3, <1>4, <1>5, <1>6, OthersOn
<1>7. CASE t = User /\ GivesUp(t)
  BY <1>7, UserGivesUp
<1>8. CASE t = User /\ Takes(t)
  <2>1. Orders' /\ InForce'
    BY <1>1, <1>2, <1>3, <1>4, <1>5, <1>8, OrdersOn
  <2>2. Memory'
    <3>1. CASE kind \in Scopes
      BY <1>2, <1>3, <1>4, <1>8, <3>1, MemoryOn
    <3> QED  BY <3>1 DEF Memory
  <2>3. asked' = asked /\ \A u \in Threads \ {User} : call'[u] = call[u]
    BY <1>8 DEF Takes, Passes, Others
  <2>4. \A u \in Threads \ {User} : Apart(u)'
    BY <2>3 DEF Settles, Apart, Underway, Busy
  <2> QED  BY <2>1, <2>2, <2>3, <2>4 DEF Settles
<1> QED  BY <1>3, <1>6, <1>7, <1>8

----------------------------------------------------------------------------
(* What a call starts with *)

LEMMA LeavesSteps ==
  ASSUME NEW k
  PROVE  /\ Leaves(k, Check) /\ Leaves(k, Refuse) /\ Leaves(k, <<>>) /\ \A at : Leaves(k, Ask(at))
         /\ \A do \in {"open", "close", "block", "drain", "await", "compare"} : \A at : Leaves(k, Step(do, at, 0))
         /\ \A name : name \notin SettingNames \cup {"select"} => \A ch, v : Leaves(k, Put(<<name, ch>>, v))
         /\ \A a : a \notin {"source", "average"} => \A v : Leaves(k, Note(a, v))
<1>1. ASSUME NEW do, NEW at, NEW to, do # "merge",
             do = "put" => at[1] \notin SettingNames \cup {"select"}, do = "note" => at \notin {"source", "average"}
      PROVE  Leaves(k, Step(do, at, to))
  <2>1. LET s == Step(do, at, to) IN
        Listed(s) /\ DOMAIN s = {1} /\ s[1].do = do /\ s[1].at = at
    BY OneStepIs
  <2> QED  BY <1>1, <2>1 DEF Leaves, Spare
<1>2. Leaves(k, Check) /\ Leaves(k, Refuse) /\ \A at : Leaves(k, Ask(at))
  BY <1>1 DEF Check, Refuse, Ask
<1>3. Leaves(k, <<>>)
  BY EmptyIs DEF Leaves
<1>4. \A do \in {"open", "close", "block", "drain", "await", "compare"} : \A at : Leaves(k, Step(do, at, 0))
  BY <1>1
<1>5. ASSUME NEW name, name \notin SettingNames \cup {"select"}, NEW ch, NEW v  PROVE Leaves(k, Put(<<name, ch>>, v))
  BY <1>1, <1>5 DEF Put
<1>6. ASSUME NEW a, a \notin {"source", "average"}, NEW v  PROVE Leaves(k, Note(a, v))
  BY <1>1, <1>6 DEF Note
<1> QED  BY <1>2, <1>3, <1>4, <1>5, <1>6

LEMMA LeavesMore ==
  ASSUME NEW k, NEW a, NEW b, Leaves(k, a), Leaves(k, b)
  PROVE  Leaves(k, a \o b) /\ Leaves(k, Locked(a)) /\ IsSeq(a)
<1>1. Listed(a) /\ Listed(b) /\ IsSeq(a) /\ IsSeq(b)
  BY DEF Leaves, Listed
<1>2. Leaves(k, a \o b)
  <2>1. Listed(a \o b) /\ Joined(a, b)
    BY <1>1, CatAsks, PlacesOf
  <2> QED  BY <2>1 DEF Joined, Leaves
<1>3. Leaves(k, Locked(a))
  <2>1. LET l == Locked(a) IN
        /\ Listed(l) /\ DOMAIN l = DOMAIN a
        /\ \A i \in DOMAIN a : l[i].do = a[i].do /\ l[i].at = a[i].at /\ l[i].to = a[i].to
    BY <1>1, LockedList
  <2> QED  BY <2>1 DEF Leaves, Spare
<1> QED  BY <1>1, <1>2, <1>3

\* The calls that ask for no setting.
Innocent(k, c) ==
  \/ c.op \in {"open", "close", "get", "read", "state", "fetch", "measure", "status", "function", "save", "slope",
               "run", "stop", "single", "force"}
  \/ c.op = "range" /\ k # "Keithley2400"

LEMMA PsuLeaves ==
  ASSUME kind \in Psus, NEW c \in Issued(kind), c.op # "set"
  PROVE  Leaves(kind, Steps(kind, host, c))
<1> DEFINE s == Steps(kind, host, c)
<1>1. kind \notin Dmms \cup Loads \cup Scopes \cup {"Aardvark"} /\ kind # "Keithley2400"
  BY KindsApart DEF Dmms
<1>2. Leaves(kind, Check) /\ Leaves(kind, Refuse) /\ Leaves(kind, <<>>) /\ \A at : Leaves(kind, Ask(at))
  BY LeavesSteps
<1>3. \A a, b : Leaves(kind, a) /\ Leaves(kind, b) => Leaves(kind, a \o b) /\ Leaves(kind, Locked(a))
  BY LeavesMore
<1>4. \A v : Leaves(kind, Note("limits", v)) /\ Leaves(kind, Note("active", v))
  BY LeavesSteps
<1>5. Leaves(kind, Step("open", <<"session", 0>>, 0)) /\ Leaves(kind, Step("close", <<"session", 0>>, 0))
  BY LeavesSteps
<1>6. CASE c.op = "open"
  <2>1. Leaves(kind, LoadLimits([ch \in RigolChannels |-> 1]))
    <3> DEFINE a == Ask(<<"idn", 0>>) b == Ask(<<"limit", 1>>) d == Ask(<<"limit", 2>>)
               n == Note("limits", [ch \in RigolChannels |-> 1])
    <3>1. LoadLimits([ch \in RigolChannels |-> 1]) = (((a \o Check) \o Locked(b \o Check)) \o Locked(d \o Check)) \o n
      BY DEF LoadLimits
    <3>2. Leaves(kind, a) /\ Leaves(kind, b) /\ Leaves(kind, d) /\ Leaves(kind, n)
      BY <1>2, <1>4
    <3> HIDE DEF a, b, d, n
    <3>3. Leaves(kind, a \o Check) /\ Leaves(kind, Locked(b \o Check)) /\ Leaves(kind, Locked(d \o Check))
      BY <1>2, <1>3, <3>2
    <3>4. Leaves(kind, ((a \o Check) \o Locked(b \o Check)) \o Locked(d \o Check))
      BY <1>3, <3>3
    <3> QED  BY <1>3, <3>1, <3>2, <3>4
  <2>2. s = OpenSteps(kind)
    BY <1>6 DEF Steps
  <2>3. \/ s = Step("open", <<"session", 0>>, 0) \o LoadLimits([ch \in RigolChannels |-> 1])
        \/ s = Step("open", <<"session", 0>>, 0) \o <<>>
    BY <1>1, <2>2 DEF OpenSteps, Dmms, Scopes
  <2> HIDE DEF s
  <2> QED  BY <1>2, <1>3, <1>5, <2>1, <2>3 DEF s
<1>7. CASE c.op = "close"
  <2>1. s = <<>> \o Step("close", <<"session", 0>>, 0)
    BY <1>1, <1>7 DEF Steps, CloseSteps
  <2> HIDE DEF s
  <2> QED  BY <1>2, <1>3, <1>5, <2>1 DEF s
<1>8. CASE c.op = "status"
  <2> DEFINE q(n, ch) == Ask(<<n, ch>>)
  <2>1. \/ s = Locked((((((((q("enabled", 1) \o Check) \o q("condition", 1)) \o Check) \o q("enabled", 2)) \o Check)
                          \o q("condition", 2)) \o Check))
        \/ s = Locked(q("status", 0) \o Check)
    <3>1. kind \in Numbered
      BY <1>8, PsuCalls
    <3> QED  BY <1>1, <1>8, <3>1 DEF Steps, MethodSteps, PsuSteps, Numbered, RigolStatus, SiglentStatus
  <2>2. \A n, ch : Leaves(kind, q(n, ch))
    BY <1>2
  <2> HIDE DEF s, q
  <2>3. \A a, n, ch : Leaves(kind, a) => Leaves(kind, (a \o q(n, ch)) \o Check)
    BY <1>2, <1>3, <2>2
  <2>4. Leaves(kind, q("enabled", 1) \o Check) /\ Leaves(kind, q("status", 0) \o Check)
    BY <1>2, <1>3, <2>2
  <2>5. Leaves(kind, (((((((q("enabled", 1) \o Check) \o q("condition", 1)) \o Check) \o q("enabled", 2)) \o Check)
                          \o q("condition", 2)) \o Check))
    <3>1. Leaves(kind, (((q("enabled", 1) \o Check) \o q("condition", 1)) \o Check))
      BY <2>3, <2>4
    <3>2. Leaves(kind, (((((q("enabled", 1) \o Check) \o q("condition", 1)) \o Check) \o q("enabled", 2)) \o Check))
      BY <2>3, <3>1
    <3> QED  BY <2>3, <3>2
  <2> QED  BY <1>3, <2>1, <2>4, <2>5 DEF s
<1>9. CASE c.op = "get"
  <2>1. s = PsuSteps(kind, host, c)
    BY <1>1, <1>9 DEF Steps, MethodSteps
  <2>2. \A ch : Leaves(kind, Transfer(c, ch))
    BY <1>2, <1>9 DEF Transfer
  <2>3. \A ch : Leaves(kind, Checked(c, ch)) /\ Leaves(kind, Transfer(c, ch) \o Check)
    BY <1>2, <1>3, <2>2 DEF Checked
  <2>4. CASE kind = "BK914X"
    <3>1. s = Refuse \/ s = Locked((ChannelSelect(host, c.ch) \o Transfer(c, 0)) \o Check)
      BY <2>1, <2>4 DEF PsuSteps, BK914X
    <3>2. Leaves(kind, ChannelSelect(host, c.ch))
      <4>1. Leaves(kind, Put(Select, c.ch))
        <5>1. LET p == Put(Select, c.ch) IN Listed(p) /\ DOMAIN p = {1} /\ p[1].do = "put" /\ p[1].at = Select
          BY OneStepIs DEF Put
        <5>2. Select[1] = "select"
          BY DEF Select
        <5> QED  BY <5>1, <5>2 DEF Leaves, Spare, SettingNames
      <4>2. ChannelSelect(host, c.ch) = <<>> \/ ChannelSelect(host, c.ch) = Put(Select, c.ch) \o Note("active", c.ch)
        BY DEF ChannelSelect, Select
      <4> QED  BY <1>2, <1>3, <1>4, <4>1, <4>2
    <3> HIDE DEF s
    <3>3. Leaves(kind, (ChannelSelect(host, c.ch) \o Transfer(c, 0)) \o Check)
      BY <1>2, <1>3, <2>2, <3>2
    <3> QED  BY <1>2, <1>3, <3>1, <3>3 DEF s
  <2>5. CASE kind # "BK914X"
    <3>1. s = Refuse \/ s = Checked(c, 0) \/ s = Checked(c, c.ch) \/ s = Transfer(c, 0)
      BY <1>9, <2>1, <2>5 DEF PsuSteps, Psus, BK9115, KeysightE36100, TDKLambdaGenesys, MatrixWPS300S, RigolDP800,
                              SiglentSPD3303
    <3> HIDE DEF s
    <3> QED  BY <1>2, <2>2, <2>3, <3>1 DEF s
  <2> QED  BY <2>4, <2>5
<1> QED  BY <1>6, <1>7, <1>8, <1>9, PsuCalls

LEMMA DmmLeaves ==
  ASSUME kind \in Dmms, NEW c \in Issued(kind), Innocent(kind, c)
  PROVE  Leaves(kind, Steps(kind, host, c))
<1> DEFINE s == Steps(kind, host, c)
<1>1. kind \notin Psus \cup Loads \cup Scopes \cup {"Aardvark"} /\ kind \in {"Agilent34401A", "Keithley2400"}
  BY KindsApart DEF Dmms
<1>2. Leaves(kind, Check) /\ Leaves(kind, Refuse) /\ Leaves(kind, <<>>) /\ \A at : Leaves(kind, Ask(at))
  BY LeavesSteps
<1>3. \A a, b : Leaves(kind, a) /\ Leaves(kind, b) => Leaves(kind, a \o b) /\ Leaves(kind, Locked(a))
  BY LeavesMore
<1>4. /\ \A v : Leaves(kind, Note("range", v))
      /\ Leaves(kind, Step("open", <<"session", 0>>, 0)) /\ Leaves(kind, Step("close", <<"session", 0>>, 0))
  BY LeavesSteps
<1>5. \A name : name \notin SettingNames \cup {"select"} => \A ch, v : Leaves(kind, Put(<<name, ch>>, v))
  BY LeavesSteps
<1>6. /\ \A v : Leaves(kind, Put(<<"clear status", 0>>, v)) /\ Leaves(kind, Put(<<"remote", 0>>, v))
      /\ \A v : Leaves(kind, Put(<<"output", 0>>, v)) /\ Leaves(kind, Put(<<"ohms mode", 0>>, v))
      /\ \A v : Leaves(kind, Put(<<"function", 0>>, v)) /\ Leaves(kind, Put(<<"source", 0>>, v))
  BY <1>5 DEF SettingNames
<1>7. \A f : Leaves(kind, AgilentMeasure(f))
  BY <1>2, <1>3 DEF AgilentMeasure
<1>8. CASE c.op = "open"
  <2>1. s = Step("open", <<"session", 0>>, 0) \o AgilentOpen \/ s = Step("open", <<"session", 0>>, 0) \o KeithleyOpen
    BY <1>1, <1>8 DEF Steps, OpenSteps, Loads
  <2>2. Leaves(kind, AgilentOpen) /\ Leaves(kind, KeithleyOpen)
    BY <1>2, <1>3, <1>6 DEF AgilentOpen, KeithleyOpen
  <2> HIDE DEF s
  <2> QED  BY <1>3, <1>4, <2>1, <2>2 DEF s
<1>9. CASE c.op = "close"
  <2>1. \/ s = Put(<<"output", 0>>, 0) \o Step("close", <<"session", 0>>, 0)
        \/ s = <<>> \o Step("close", <<"session", 0>>, 0)
    BY <1>9 DEF Steps, CloseSteps, KeithleyClose
  <2> HIDE DEF s
  <2> QED  BY <1>2, <1>3, <1>4, <1>6, <2>1 DEF s
<1>10. CASE c.op \in {"read", "function", "range"} /\ kind = "Agilent34401A"
  <2>1. s = AgilentMeasure(c.name) \/ s = Note("range", c.val) \/ s = AgilentMeasure(host.func)
    BY <1>1, <1>10 DEF Steps, MethodSteps, DmmSteps, Agilent34401A
  <2> HIDE DEF s
  <2> QED  BY <1>4, <1>7, <2>1 DEF s
<1>11. CASE c.op = "read" /\ kind = "Keithley2400"
  <2>1. s = Refuse \/ s = Locked((Put(<<"output", 0>>, 1) \o Ask(<<"read", 0>>)) \o Check)
    BY <1>1, <1>11 DEF Steps, MethodSteps, DmmSteps, Keithley2400, KeithleyMeasure
  <2> HIDE DEF s
  <2> QED  BY <1>2, <1>3, <1>6, <2>1 DEF s
<1>12. CASE c.op = "function" /\ kind = "Keithley2400"
  <2> DEFINE f == c.name p == Put(<<"ohms mode", 0>>, 0) q == Put(<<"function", 0>>, f) r == Put(<<"source", 0>>, 0)
             o == Put(<<"ohms mode", 0>>, 1)
  <2>1. s = Refuse \/ s = Locked(((p \o q) \o r) \o Check) \/ s = Locked((q \o o) \o Check)
    BY <1>1, <1>12 DEF Steps, MethodSteps, DmmSteps, Keithley2400, KeithleyFunction
  <2>2. Leaves(kind, p) /\ Leaves(kind, q) /\ Leaves(kind, r) /\ Leaves(kind, o)
    BY <1>6
  <2> HIDE DEF s, p, q, r, o
  <2>3. Leaves(kind, (p \o q) \o r) /\ Leaves(kind, q \o o)
    BY <1>3, <2>2
  <2> QED  BY <1>2, <1>3, <2>1, <2>3 DEF s
<1>13. c.op \in {"read", "function", "range", "open", "close"}
  BY DmmCalls
<1> QED  BY <1>1, <1>8, <1>9, <1>10, <1>11, <1>12, <1>13 DEF Innocent

LEMMA LoadLeaves ==
  ASSUME kind \in Loads, NEW c \in Issued(kind), Innocent(kind, c)
  PROVE  Leaves(kind, Steps(kind, host, c))
<1> DEFINE s == Steps(kind, host, c)
<1>1. kind \notin Psus \cup Dmms \cup Scopes \cup {"Aardvark"} /\ kind # "Keithley2400" /\ kind = "BK85XXB"
  BY KindsApart DEF Loads, Dmms
<1>2. Leaves(kind, Check) /\ Leaves(kind, Refuse) /\ Leaves(kind, <<>>) /\ \A at : Leaves(kind, Ask(at))
  BY LeavesSteps
<1>3. \A a, b : Leaves(kind, a) /\ Leaves(kind, b) => Leaves(kind, a \o b) /\ Leaves(kind, Locked(a))
  BY LeavesMore
<1>4. Leaves(kind, Step("open", <<"session", 0>>, 0)) /\ Leaves(kind, Step("close", <<"session", 0>>, 0))
  BY LeavesSteps
<1>5. \A name : name \notin SettingNames \cup {"select"} => \A ch, v : Leaves(kind, Put(<<name, ch>>, v))
  BY LeavesSteps
<1>6. \A v : Leaves(kind, Put(<<"load range", 0>>, v)) /\ Leaves(kind, Put(<<"remote", 0>>, v))
  BY <1>5 DEF SettingNames
<1>7. CASE c.op = "open"
  <2>1. s = Step("open", <<"session", 0>>, 0) \o LoadOpen
    BY <1>1, <1>7 DEF Steps, OpenSteps, Loads
  <2>2. Leaves(kind, LoadOpen)
    BY <1>2, <1>3, <1>6 DEF LoadOpen
  <2> HIDE DEF s
  <2> QED  BY <1>3, <1>4, <2>1, <2>2 DEF s
<1>8. CASE c.op = "close"
  <2>1. s = <<>> \o Step("close", <<"session", 0>>, 0)
    BY <1>1, <1>8 DEF Steps, CloseSteps
  <2> HIDE DEF s
  <2> QED  BY <1>2, <1>3, <1>4, <2>1 DEF s
<1>9. CASE c.op \in {"get", "range"}
  <2>1. s = Locked(Ask(<<c.name, 0>>) \o Check) \/ s = Locked(Put(<<"load range", 0>>, c.val) \o Check) \/ s = Refuse
    BY <1>1, <1>9 DEF Steps, MethodSteps, BK85XXB
  <2> HIDE DEF s
  <2> QED  BY <1>2, <1>3, <1>6, <2>1 DEF s
<1>10. c.op \in {"get", "mode", "level", "range", "short", "output", "open", "close"}
  BY LoadCalls
<1> QED  BY <1>7, <1>8, <1>9, <1>10 DEF Innocent

LEMMA DigitizeLeaves ==
  ASSUME NEW k \in Scopes, NEW h
  PROVE  Leaves(k, WaitForAcquisition(k, h)) /\ \A state : Leaves(k, Control(k, state))
<1>1. \A a, b : Leaves(k, a) /\ Leaves(k, b) => Leaves(k, a \o b) /\ Leaves(k, Locked(a))
  BY LeavesMore
<1>2. \A name : name \notin SettingNames \cup {"select"} => \A ch, v : Leaves(k, Put(<<name, ch>>, v))
  BY LeavesSteps
<1>3. \A v : /\ Leaves(k, Put(<<"opc", 0>>, v)) /\ Leaves(k, Put(<<"acquisition", 0>>, v))
             /\ Leaves(k, Put(<<"stop after", 0>>, v)) /\ Leaves(k, Put(<<"trigger mode", 0>>, v))
  BY <1>2 DEF SettingNames
<1>4. (\A at : Leaves(k, Step("await", at, 0))) /\ Leaves(k, <<>>) /\ Leaves(k, Note("acquired", 0))
  BY LeavesSteps
<1>5. Leaves(k, AwaitOpc) /\ Leaves(k, AwaitInr)
  BY <1>1, <1>3, <1>4 DEF AwaitOpc, AwaitInr
<1>6. \A state : Leaves(k, Acquisition(state))
  BY <1>3 DEF Acquisition
<1>7. Leaves(k, SiglentArm) /\ \A state : Leaves(k, TekArm(state))
  BY <1>1, <1>3, <1>6 DEF SiglentArm, TekArm
<1>8. Leaves(k, KeysightDigitize) /\ Leaves(k, TekDigitize) /\ Leaves(k, SiglentDigitize)
  BY <1>1, <1>5, <1>6, <1>7 DEF KeysightDigitize, TekDigitize, SiglentDigitize
<1>9. Leaves(k, Digitize(k))
  BY <1>8 DEF Digitize, Scopes
<1>10. Leaves(k, WaitForAcquisition(k, h))
  BY <1>1, <1>4, <1>9 DEF WaitForAcquisition
<1>11. \A state : Leaves(k, Control(k, state))
  BY <1>6, <1>7 DEF Control
<1> QED  BY <1>10, <1>11

LEMMA FetchLeaves ==
  ASSUME NEW k \in Scopes, NEW ch
  PROVE  Leaves(k, Fetch(k, ch))
<1>1. \A a, b : Leaves(k, a) /\ Leaves(k, b) => Leaves(k, a \o b)
  BY LeavesMore
<1>2. \A name : name \notin SettingNames \cup {"select"} => \A x, v : Leaves(k, Put(<<name, x>>, v))
  BY LeavesSteps
<1>3. \A v : /\ Leaves(k, Put(<<"wave source", 0>>, v)) /\ Leaves(k, Put(<<"data stop", 0>>, v))
             /\ Leaves(k, Put(<<"wave setup", 0>>, v))
  BY <1>2 DEF SettingNames
<1>4. Leaves(k, Check) /\ \A at : Leaves(k, Ask(at)) /\ Leaves(k, Step("block", at, 0)) /\ Leaves(k, Step("drain", at, 0))
  BY LeavesSteps
<1> DEFINE a == Put(<<"wave source", 0>>, ch) p == Ask(<<"points", 0>>) d == Put(<<"data stop", 0>>, 0)
           c == Ask(<<"scaling", 0>>) w == Ask(<<"wave", 0>>) r == Ask(<<"preamble", 0>>)
           u == Put(<<"wave setup", 0>>, 0) q == Ask(<<"scaling", ch>>) b == Step("block", <<"wave", ch>>, 0)
           n == Step("drain", <<"none", 0>>, 0)
<1>5. /\ KeysightFetch(ch) = ((a \o Check) \o r) \o w
      /\ TekFetch(ch) = ((((a \o Check) \o p) \o d) \o c) \o w
      /\ SiglentFetch(ch) = (((u \o Check) \o q) \o b) \o n
  BY DEF KeysightFetch, TekFetch, SiglentFetch
<1>6. Leaves(k, a) /\ Leaves(k, p) /\ Leaves(k, d) /\ Leaves(k, c) /\ Leaves(k, w) /\ Leaves(k, r)
      /\ Leaves(k, u) /\ Leaves(k, q) /\ Leaves(k, b) /\ Leaves(k, n)
  BY <1>3, <1>4
<1> HIDE DEF a, p, d, c, w, r, u, q, b, n
<1>7. Leaves(k, KeysightFetch(ch))
  BY <1>1, <1>4, <1>5, <1>6
<1>8. Leaves(k, TekFetch(ch))
  <2>1. Leaves(k, ((a \o Check) \o p) \o d)
    BY <1>1, <1>4, <1>6
  <2> QED  BY <1>1, <1>5, <1>6, <2>1
<1>9. Leaves(k, SiglentFetch(ch))
  <2>1. Leaves(k, (u \o Check) \o q)
    BY <1>1, <1>4, <1>6
  <2> QED  BY <1>1, <1>5, <1>6, <2>1
<1> QED  BY <1>7, <1>8, <1>9 DEF Fetch, Scopes

LEMMA MeasureLeaves ==
  ASSUME NEW k \in Scopes, NEW h, NEW type, NEW ch
  PROVE  Leaves(k, SetupMeasurement(k, h, type, ch)) /\ Leaves(k, MeasureSteps(k, type, ch))
<1>1. \A a, b : Leaves(k, a) /\ Leaves(k, b) => Leaves(k, a \o b)
  BY LeavesMore
<1>2. \A name : name \notin SettingNames \cup {"select"} => \A x, v : Leaves(k, Put(<<name, x>>, v))
  BY LeavesSteps
<1>3. \A v : /\ Leaves(k, Put(<<"add slot", 0>>, v)) /\ Leaves(k, Put(<<"slot source", 0>>, v))
             /\ Leaves(k, Put(<<"display", 0>>, v))
  BY <1>2 DEF SettingNames
<1>4. /\ Leaves(k, Check) /\ Leaves(k, <<>>) /\ \A at : Leaves(k, Ask(at)) /\ Leaves(k, Step("compare", at, 0))
      /\ \A v : Leaves(k, Note("slot", v))
  BY LeavesSteps
<1>5. Leaves(k, TekSetup(h, type, ch))
  <2> DEFINE a == Ask(<<"slots", 0>>) b == Put(<<"add slot", 0>>, type) c == Step("compare", <<"slots", 0>>, 0)
             d == Put(<<"slot source", 0>>, ch) n == Note("slot", <<type, ch>>) q == Ask(<<"slot", <<type, ch>>>>)
  <2>1. TekSetup(h, type, ch) = <<>> \/ TekSetup(h, type, ch) = (((((a \o b) \o c) \o d) \o Check) \o n) \o q
    BY DEF TekSetup
  <2>2. Leaves(k, a) /\ Leaves(k, b) /\ Leaves(k, c) /\ Leaves(k, d) /\ Leaves(k, n) /\ Leaves(k, q)
    BY <1>3, <1>4
  <2> HIDE DEF a, b, c, d, n, q
  <2>3. Leaves(k, ((a \o b) \o c) \o d)
    BY <1>1, <2>2
  <2>4. Leaves(k, ((((a \o b) \o c) \o d) \o Check) \o n)
    BY <1>1, <1>4, <2>2, <2>3
  <2> QED  BY <1>1, <1>4, <2>1, <2>2, <2>4
<1>6. Leaves(k, KeysightMeasure(type, ch)) /\ Leaves(k, TekMeasure(type, ch)) /\ Leaves(k, SiglentMeasure(type, ch))
  BY <1>1, <1>3, <1>4 DEF KeysightMeasure, TekMeasure, SiglentMeasure
<1> QED  BY <1>4, <1>5, <1>6 DEF SetupMeasurement, MeasureSteps, Scopes

LEMMA SaveLeaves ==
  ASSUME NEW k \in Scopes
  PROVE  Leaves(k, SaveSettings(k))
<1>1. \A a, b : Leaves(k, a) /\ Leaves(k, b) => Leaves(k, a \o b) /\ Leaves(k, Locked(a))
  BY LeavesMore
<1>2. \A name : name \notin SettingNames \cup {"select"} => \A x, v : Leaves(k, Put(<<name, x>>, v))
  BY LeavesSteps
<1>3. \A v : Leaves(k, Put(<<"save", 0>>, v)) /\ Leaves(k, Put(<<"read file", 0>>, v)) /\ Leaves(k, Put(<<"delete", 0>>, v))
  BY <1>2 DEF SettingNames
<1>4. Leaves(k, Check) /\ \A at : Leaves(k, Ask(at))
  BY LeavesSteps
<1> DEFINE p == Put(<<"save", 0>>, 0) o == Ask(<<"opc", 0>>) f == Put(<<"read file", 0>>, 0)
           d == Put(<<"delete", 0>>, 0) q == Ask(<<"setup", 0>>)
<1>5. /\ KeysightSave = (p \o Check) \o q /\ SiglentSave = q
      /\ TekSave = (((p \o o) \o Check) \o Locked(f \o q)) \o d
  BY DEF KeysightSave, SiglentSave, TekSave
<1>6. Leaves(k, p) /\ Leaves(k, o) /\ Leaves(k, f) /\ Leaves(k, d) /\ Leaves(k, q)
  BY <1>3, <1>4
<1> HIDE DEF p, o, f, d, q
<1>7. Leaves(k, KeysightSave) /\ Leaves(k, SiglentSave)
  BY <1>1, <1>4, <1>5, <1>6
<1>8. Leaves(k, TekSave)
  <2>1. Leaves(k, (p \o o) \o Check) /\ Leaves(k, Locked(f \o q))
    BY <1>1, <1>4, <1>6
  <2>2. Leaves(k, ((p \o o) \o Check) \o Locked(f \o q))
    BY <1>1, <2>1
  <2> QED  BY <1>1, <1>5, <1>6, <2>2
<1> QED  BY <1>7, <1>8 DEF SaveSettings, Scopes

LEMMA ScopeLeaves ==
  ASSUME kind \in Scopes, NEW c \in Issued(kind), Innocent(kind, c)
  PROVE  Leaves(kind, Steps(kind, host, c))
<1> DEFINE s == Steps(kind, host, c) m == ScopeMethod(kind, host, c)
<1>1. c.op \in {"open", "close", "get", "state", "fetch", "measure", "slope", "save", "run", "stop", "single", "force"}
  BY ScopeCalls DEF Innocent
<1>2. Leaves(kind, Check) /\ Leaves(kind, <<>>) /\ \A at : Leaves(kind, Ask(at))
  BY LeavesSteps
<1>3. \A a, b : Leaves(kind, a) /\ Leaves(kind, b) => Leaves(kind, a \o b)
  BY LeavesMore
<1>4. \A name : name \notin SettingNames \cup {"select"} => \A x, v : Leaves(kind, Put(<<name, x>>, v))
  BY LeavesSteps
<1>5. CASE c.op \in {"open", "close"}
  <2>1. \/ s = Step("open", <<"session", 0>>, 0) \o SiglentOpen
        \/ s = Step("open", <<"session", 0>>, 0) \o <<>>
        \/ s = <<>> \o Step("close", <<"session", 0>>, 0)
    BY <1>5, StepsAre DEF OpenSteps, CloseSteps, Scopes, Loads
  <2>2. Leaves(kind, Step("open", <<"session", 0>>, 0)) /\ Leaves(kind, Step("close", <<"session", 0>>, 0))
    BY LeavesSteps
  <2>3. Leaves(kind, SiglentOpen)
    <3>1. Leaves(kind, Put(<<"headers", 0>>, 0)) /\ Leaves(kind, Put(<<"clear status", 0>>, 0))
      BY <1>4 DEF SettingNames
    <3> QED  BY <1>3, <3>1 DEF SiglentOpen
  <2> HIDE DEF s
  <2> QED  BY <1>2, <1>3, <2>1, <2>2, <2>3 DEF s
<1>6. CASE c.op \notin {"open", "close"}
  <2>1. s = m \o Check
    BY <1>6, StepsAre DEF ScopeSteps
  <2>2. Leaves(kind, m)
    <3>1. CASE c.op = "get"
      <4>1. m = Ask(<<c.name, c.ch>>)
        BY <3>1 DEF ScopeMethod, ScopeSetting, KeysightSetting, TekSetting, SiglentSetting, Setting, Scopes
      <4> QED  BY <1>2, <4>1
    <3>2. CASE c.op \in {"run", "stop", "single"}
      <4>1. \E state : m = Control(kind, state)
        BY <3>2 DEF ScopeMethod
      <4> QED  BY <4>1, DigitizeLeaves
    <3>3. CASE c.op = "state"
      BY <1>2, <3>3 DEF ScopeMethod
    <3>4. CASE c.op = "fetch"
      <4>1. m = WaitForAcquisition(kind, host) \o Fetch(kind, c.ch)
        BY <3>4 DEF ScopeMethod
      <4> QED  BY <1>3, <4>1, DigitizeLeaves, FetchLeaves
    <3>5. CASE c.op = "measure"
      <4>1. m = (SetupMeasurement(kind, host, c.name, c.ch) \o WaitForAcquisition(kind, host))
                  \o MeasureSteps(kind, c.name, c.ch)
        BY <3>5 DEF ScopeMethod
      <4>2. Leaves(kind, SetupMeasurement(kind, host, c.name, c.ch) \o WaitForAcquisition(kind, host))
        BY <1>3, DigitizeLeaves, MeasureLeaves
      <4> QED  BY <1>3, <4>1, <4>2, MeasureLeaves
    <3>6. CASE c.op = "slope"
      <4>1. \E ch : m = Put(<<"slope", ch>>, c.name)
        BY <3>6 DEF ScopeMethod, TriggerSlope
      <4>2. \A ch : Leaves(kind, Put(<<"slope", ch>>, c.name))
        BY <1>4 DEF SettingNames
      <4> QED  BY <4>1, <4>2
    <3>7. CASE c.op = "force"
      <4>1. m = Put(<<"force", 0>>, 0)
        BY <3>7 DEF ScopeMethod
      <4>2. Leaves(kind, Put(<<"force", 0>>, 0))
        BY <1>4 DEF SettingNames
      <4> QED  BY <4>1, <4>2
    <3>8. CASE c.op = "save"
      <4>1. m = SaveSettings(kind)
        BY <3>8 DEF ScopeMethod
      <4> QED  BY <4>1, SaveLeaves
    <3> QED  BY <1>1, <1>6, <3>1, <3>2, <3>3, <3>4, <3>5, <3>6, <3>7, <3>8
  <2> HIDE DEF m, s
  <2> QED  BY <1>2, <1>3, <2>1, <2>2 DEF s
<1> QED  BY <1>5, <1>6

LEMMA CallLeaves ==
  ASSUME kind \in Psus \cup Dmms \cup Loads \cup Scopes, NEW c \in Issued(kind), Innocent(kind, c)
  PROVE  Leaves(kind, Steps(kind, host, c))
<1>1. CASE kind \in Psus
  <2>1. c.op # "set"
    BY DEF Innocent
  <2> QED  BY <1>1, <2>1, PsuLeaves
<1> QED  BY <1>1, DmmLeaves, LoadLeaves, ScopeLeaves

\* What the steps of a call that asks for B may do: give a setting the value that
\* is asked for, or one of those it may have.
Apt(k, d, m, c, A, B) ==
  /\ m.do # "merge"
  /\ \A x \in DOMAIN A : Reaches(k, d, m, c, x) =>
       IF x \in DOMAIN B THEN Gives(k, m, x) = B[x] ELSE Gives(k, m, x) \in A[x]
  /\ m.do = "put" /\ ~Spare(k, m) =>
       IF k \in Psus THEN c.op = "set" ELSE m.at[1] \in Sources <=> c.op \in {"source", "type", "load"}
  /\ m.do = "note" => /\ m.at = "source" => c.op = "source" /\ m.to = c.ch
                      /\ m.at = "average" => c.op = "set" /\ c.name = "average" /\ m.to = c.val

AllApt(k, d, s, c, A, B) == Listed(s) /\ \A i \in DOMAIN s : Apt(k, d, s[i], c, A, B)

LEMMA AptMore ==
  ASSUME NEW k, NEW d, NEW c, NEW A, NEW B, NEW a, NEW b, AllApt(k, d, a, c, A, B), AllApt(k, d, b, c, A, B)
  PROVE  AllApt(k, d, a \o b, c, A, B) /\ AllApt(k, d, Locked(a), c, A, B) /\ IsSeq(a)
<1>1. Listed(a) /\ Listed(b) /\ IsSeq(a) /\ IsSeq(b)
  BY DEF AllApt, Listed
<1>2. AllApt(k, d, a \o b, c, A, B)
  <2>1. Listed(a \o b) /\ Joined(a, b)
    BY <1>1, CatAsks, PlacesOf
  <2> QED  BY <2>1 DEF Joined, AllApt
<1>3. AllApt(k, d, Locked(a), c, A, B)
  <2> DEFINE l == Locked(a)
  <2>1. /\ Listed(l) /\ DOMAIN l = DOMAIN a
        /\ \A i \in DOMAIN a : l[i].do = a[i].do /\ l[i].at = a[i].at /\ l[i].to = a[i].to
    BY <1>1, LockedList
  <2> HIDE DEF l
  <2>2. ASSUME NEW i \in DOMAIN a  PROVE Apt(k, d, l[i], c, A, B)
    <3>1. Apt(k, d, a[i], c, A, B)
      BY DEF AllApt
    <3>2. \A x : (Reaches(k, d, l[i], c, x) <=> Reaches(k, d, a[i], c, x)) /\ Gives(k, l[i], x) = Gives(k, a[i], x)
      BY <2>1 DEF Reaches, Gives, Spare, Aim
    <3>3. Spare(k, l[i]) <=> Spare(k, a[i])
      BY <2>1 DEF Spare
    <3> QED  BY <2>1, <3>1, <3>2, <3>3 DEF Apt
  <2> QED  BY <2>1, <2>2 DEF AllApt, l
<1> QED  BY <1>1, <1>2, <1>3

LEMMA LeavesApt ==
  ASSUME NEW k, NEW d, NEW s, NEW c, NEW A, NEW B, Leaves(k, s)
  PROVE  AllApt(k, d, s, c, A, B)
BY DEF Leaves, AllApt, Apt, Reaches, Spare

\* A command that stands in a list before a check.
Sends(s, at, v) ==
  \E i, j \in DOMAIN s : i < j /\ s[i].do = "put" /\ s[i].at = at /\ s[i].to = v /\ s[j].do = "check"

LEMMA SendsOne ==
  ASSUME NEW at, NEW v, NEW q, IsSeq(q), Checks(q)
  PROVE  Sends(Put(at, v) \o q, at, v)
<1> DEFINE p == Put(at, v)
<1>1. /\ IsSeq(p) /\ DOMAIN p = {1} /\ Len(p) = 1
      /\ p[1].do = "put" /\ p[1].at = at /\ p[1].to = v
  BY OneStepIs DEF Put
<1> HIDE DEF p
<1>2. Joined(p, q)
  BY <1>1, PlacesOf
<1>3. PICK j \in DOMAIN q : q[j].do = "check"
  BY DEF Checks
<1>4. 1 \in DOMAIN (p \o q) /\ (p \o q)[1] = p[1]
  BY <1>1, <1>2 DEF Joined
<1>5. 1 + j \in DOMAIN (p \o q) /\ (p \o q)[1 + j] = q[j] /\ 1 < 1 + j
  BY <1>1, <1>2, <1>3 DEF Joined
<1>6. Sends(p \o q, at, v)
  BY <1>1, <1>3, <1>4, <1>5 DEF Sends
<1> QED  BY <1>6 DEF p

LEMMA SendsMore ==
  ASSUME NEW a, NEW b, Listed(a), Listed(b)
  PROVE  /\ \A at, v : Sends(b, at, v) => Sends(a \o b, at, v)
         /\ \A at, v : Sends(a, at, v) => Sends(a \o b, at, v) /\ Sends(Locked(a), at, v)
         /\ Checks(b) => Checks(a \o b)
<1>1. Joined(a, b)
  BY PlacesOf DEF Listed
<1>2. ASSUME NEW at, NEW v, Sends(b, at, v)  PROVE Sends(a \o b, at, v)
  <2>1. PICK i \in DOMAIN b, j \in DOMAIN b :
            i < j /\ b[i].do = "put" /\ b[i].at = at /\ b[i].to = v /\ b[j].do = "check"
    BY <1>2 DEF Sends
  <2>2. Len(a) \in Nat /\ i \in Nat /\ j \in Nat
    BY <1>1 DEF Joined
  <2>3. Len(a) + i < Len(a) + j
    BY <2>1, <2>2
  <2> QED  BY <1>1, <2>1, <2>3 DEF Joined, Sends
<1>3. ASSUME NEW at, NEW v, Sends(a, at, v)  PROVE Sends(a \o b, at, v) /\ Sends(Locked(a), at, v)
  <2>1. Sends(a \o b, at, v)
    BY <1>1, <1>3 DEF Joined, Sends
  <2>2. LET l == Locked(a) IN
        /\ DOMAIN l = DOMAIN a
        /\ \A i \in DOMAIN a : l[i].do = a[i].do /\ l[i].at = a[i].at /\ l[i].to = a[i].to
    BY LockedList
  <2> QED  BY <1>3, <2>1, <2>2 DEF Sends
<1>4. ASSUME Checks(b)  PROVE Checks(a \o b)
  <2>1. PICK i \in DOMAIN b : b[i].do = "check"
    BY <1>4 DEF Checks
  <2>2. Len(a) + i \in DOMAIN (a \o b) /\ (a \o b)[Len(a) + i] = b[i]
    BY <1>1 DEF Joined
  <2> QED  BY <2>1, <2>2 DEF Checks
<1> QED  BY <1>2, <1>3, <1>4

LEMMA CheckChecks == Checks(Check) /\ IsSeq(Check) /\ Listed(Check)
<1>1. LET s == Check IN IsSeq(s) /\ Listed(s) /\ DOMAIN s = {1} /\ s[1].do = "check"
  BY OneStepIs DEF Check
<1> QED  BY <1>1 DEF Checks

\* A call that is asked for B keeps to it, if each setting that is wanted is sent
\* for and checked.
LEMMA StartKeeps ==
  ASSUME NEW k, NEW d, NEW who, NEW s, NEW c, NEW A, NEW B, NEW V, AllApt(k, d, s, c, A, B),
         \A x \in DOMAIN A \cap DOMAIN B : B[x] \in A[x],
         \A x \in DOMAIN V : x \in DOMAIN A \cap DOMAIN B /\ V[x] = B[x],
         \A x \in DOMAIN V : Refuses(s) \/ \E i \in DOMAIN s : Reaches(k, d, s[i], c, x) /\ Backs(k, s, i)
  PROVE  Keeps(k, d, who, s, c, A, V)
<1>1. \A i \in DOMAIN s : Apt(k, d, s[i], c, A, B)
  BY DEF AllApt
<1>2. \A i \in DOMAIN s : \A x \in DOMAIN A : Reaches(k, d, s[i], c, x) => Gives(k, s[i], x) \in A[x]
  BY <1>1 DEF Apt
<1>3. ASSUME NEW x \in DOMAIN V
      PROVE  /\ Settled(k, d, who, s, c, x, V[x])
             /\ \A i \in DOMAIN s : Reaches(k, d, s[i], c, x) => Gives(k, s[i], x) = V[x]
  BY <1>1 DEF Apt, Settled
<1> QED  BY <1>1, <1>2, <1>3 DEF Keeps, Apt

\* How a call starts: its steps are apt, and what is wanted of it is sent for and
\* checked, or it refuses.
Starts(s, c, A) ==
  LET B == AskedBy(kind, host, c) IN
  /\ AllApt(kind, dev, s, c, A, B)
  /\ \A x \in DOMAIN A \cap DOMAIN B :
       (kind \in Scopes /\ c.op = "level" => Sole(A[Select])) =>
         Refuses(s) \/ \E i \in DOMAIN s : Reaches(kind, dev, s[i], c, x) /\ Backs(kind, s, i)

LEMMA SentReaches ==
  ASSUME NEW k, NEW d, NEW s, NEW c, NEW x, NEW at, NEW v, k \notin Numbered, Sends(s, at, v),
         \A m : m.do = "put" /\ m.at = at => Reaches(k, d, m, c, x)
  PROVE  \E i \in DOMAIN s : Reaches(k, d, s[i], c, x) /\ Backs(k, s, i)
<1>1. PICK i \in DOMAIN s, j \in DOMAIN s :
          i < j /\ s[i].do = "put" /\ s[i].at = at /\ s[i].to = v /\ s[j].do = "check"
  BY DEF Sends
<1>2. Backs(k, s, i)
  BY <1>1 DEF Backs
<1>3. Reaches(k, d, s[i], c, x)
  BY <1>1
<1> QED  BY <1>2, <1>3

LEMMA PlainPut ==
  ASSUME NEW k, NEW d, NEW c, NEW A, NEW B, NEW name \in SettingNames \ {"averaging", "trigger", "recall"}, NEW ch, NEW v,
         NEW aim, aim = IF k \in Psus \ Numbered /\ ch = 0 THEN <<name, c.ch>> ELSE Addressed(d, <<name, ch>>),
         IF k \in Psus THEN c.op = "set" ELSE c.op \notin {"source", "type", "load"},
         aim \in DOMAIN A => IF aim \in DOMAIN B THEN B[aim] = v ELSE v \in A[aim]
  PROVE  /\ AllApt(k, d, Put(<<name, ch>>, v), c, A, B)
         /\ \A m : m.do = "put" /\ m.at = <<name, ch>> => Reaches(k, d, m, c, aim)
<1> DEFINE at == <<name, ch>>
<1>1. at[1] = name /\ at[2] = ch
  OBVIOUS
<1>2. name \notin Sources \cup {"averaging", "trigger", "recall", "select"} /\ name \in SettingNames
  BY DEF Sources, SettingNames
<1> HIDE DEF at
<1>3. ASSUME NEW m, m.do = "put", m.at = at
      PROVE  /\ ~Spare(k, m) /\ \A x : (Reaches(k, d, m, c, x) <=> aim = x) /\ Gives(k, m, x) = m.to
  <2>1. ~Spare(k, m)
    BY <1>1, <1>2, <1>3 DEF Spare
  <2>2. Aim(k, d, m, c) = aim
    BY <1>1, <1>3 DEF Aim, at
  <2>3. m.at[1] \notin {"select", "trigger", "averaging", "recall"}
    BY <1>1, <1>2, <1>3
  <2> QED  BY <1>3, <2>1, <2>2, <2>3 DEF Reaches, Gives
<1>4. LET p == Put(at, v) IN Listed(p) /\ DOMAIN p = {1} /\ p[1].do = "put" /\ p[1].at = at /\ p[1].to = v
  BY OneStepIs DEF Put
<1>5. AllApt(k, d, Put(at, v), c, A, B)
  <2> DEFINE m == Put(at, v)[1]
  <2>1. m.do = "put" /\ m.at = at /\ m.to = v /\ m.at[1] \notin Sources
    BY <1>1, <1>2, <1>4
  <2> HIDE DEF m
  <2>2. \A x : (Reaches(k, d, m, c, x) <=> aim = x) /\ Gives(k, m, x) = v
    BY <1>3, <2>1
  <2>3. Apt(k, d, m, c, A, B)
    BY <2>1, <2>2 DEF Apt
  <2> QED  BY <1>4, <2>3 DEF AllApt, m
<1>6. \A m : m.do = "put" /\ m.at = at => Reaches(k, d, m, c, aim)
  BY <1>3
<1> QED  BY <1>5, <1>6 DEF at

LEMMA LockedPair ==
  ASSUME NEW at, NEW v
  PROVE  LET s == Locked(Put(at, v) \o Check) IN
         s # <<>> /\ DOMAIN s = {1, 2} /\ s[1].do = "put" /\ s[1].at = at /\ s[1].hold /\ s[2].do = "check"
<1> DEFINE p == Put(at, v) s == Locked(p \o Check)
<1>1. /\ IsSeq(p) /\ Listed(p) /\ DOMAIN p = {1} /\ Len(p) = 1 /\ p[1].do = "put" /\ p[1].at = at
  BY OneStepIs DEF Put
<1>2. LET q == Check IN IsSeq(q) /\ Listed(q) /\ DOMAIN q = {1} /\ Len(q) = 1 /\ q[1].do = "check"
  BY OneStepIs DEF Check
<1> HIDE DEF p
<1>3. /\ Joined(p, Check) /\ Listed(p \o Check)
      /\ Len(p \o Check) = 2 /\ DOMAIN (p \o Check) = 1..2
      /\ (p \o Check)[1] = p[1] /\ (p \o Check)[2] = Check[1]
  BY <1>1, <1>2, PlacesOf, CatAsks, TwoListsOfOne
<1>4. s = [i \in DOMAIN (p \o Check) |-> [(p \o Check)[i] EXCEPT !.hold = i < Len(p \o Check)]]
  BY DEF Locked
<1>5. DOMAIN (p \o Check)[1] = StepParts
  BY <1>3 DEF Listed
<1>6. s[1].hold = (1 < 2)
  BY <1>3, <1>4, <1>5 DEF StepParts
<1>7. /\ DOMAIN s = DOMAIN (p \o Check) /\ s # <<>>
      /\ \A i \in DOMAIN (p \o Check) : s[i].do = (p \o Check)[i].do /\ s[i].at = (p \o Check)[i].at
  <2>1. /\ DOMAIN s = DOMAIN (p \o Check)
        /\ \A i \in DOMAIN (p \o Check) : s[i].do = (p \o Check)[i].do /\ s[i].at = (p \o Check)[i].at
    BY <1>3, LockedList
  <2> HIDE DEF s
  <2>2. 1 \in DOMAIN s
    BY <1>3, <2>1
  <2>3. s # <<>>
    BY <2>2, EmptyIs
  <2> QED  BY <2>1, <2>3
<1> DEFINE r == p \o Check
<1>8. 1 \in DOMAIN r /\ 2 \in DOMAIN r /\ DOMAIN r = {1, 2}
  <2>1. 1..2 = {1, 2}
    OBVIOUS
  <2> QED  BY <1>3, <2>1
<1>9. s[1].do = "put" /\ s[1].at = at /\ s[2].do = "check"
  <2>1. s[1].do = r[1].do /\ s[1].at = r[1].at /\ s[2].do = r[2].do
    BY <1>7, <1>8
  <2> QED  BY <1>1, <1>2, <1>3, <2>1
<1>10. DOMAIN s = {1, 2}
  BY <1>7, <1>8
<1> HIDE DEF s, r
<1>11. s[1].hold = TRUE
  <2>1. (1 < 2) = TRUE
    OBVIOUS
  <2> QED  BY <1>6, <2>1
<1>12. s[1].hold
  BY <1>11, Zenon
<1>13. s # <<>> /\ DOMAIN s = {1, 2} /\ s[1].do = "put" /\ s[1].at = at /\ s[1].hold /\ s[2].do = "check"
  BY <1>7, <1>9, <1>10, <1>12
<1> QED  BY <1>13 DEF s, p

LEMMA SetToIs == \A x, v : DOMAIN SetTo(x, v) = {x} /\ SetTo(x, v)[x] = v
BY DEF SetTo

LEMMA PsuStarts ==
  ASSUME kind \in Psus, NEW c \in Issued(kind), c.op = "set", NEW A
  PROVE  Starts(Steps(kind, host, c), c, A)
<1> DEFINE s == Steps(kind, host, c) B == AskedBy(kind, host, c) x == <<c.name, c.ch>>
           to(ch) == Put(<<c.name, ch>>, c.val)
<1>1. kind \notin Dmms \cup Loads \cup Scopes \cup {"Aardvark"} /\ kind # "Keithley2400"
  BY KindsApart DEF Dmms
<1>2. /\ c.name \in SettingNames \ {"averaging", "trigger", "recall"}
      /\ c.ch # 0
  <2>1. c.name \in Quantities /\ c.ch \in Channels
    BY PsuCalls DEF Transfers
  <2> QED  BY <2>1, ChannelsAssumption DEF Quantities, SettingNames
<1>3. B = SetTo(x, c.val)
  BY <1>1 DEF AskedBy
<1>4. DOMAIN B = {x} /\ B[x] = c.val
  BY <1>3, SetToIs
<1>5. AllApt(kind, dev, Check, c, A, B) /\ AllApt(kind, dev, Refuse, c, A, B)
  BY LeavesSteps, LeavesApt
<1>6. Refuses(Refuse)
  BY DirectSteps
<1>7. \A a, b : AllApt(kind, dev, a, c, A, B) /\ AllApt(kind, dev, b, c, A, B) =>
                  AllApt(kind, dev, a \o b, c, A, B) /\ AllApt(kind, dev, Locked(a), c, A, B)
  BY AptMore
<1>8. \A ch : Checked(c, ch) = Locked(to(ch) \o Check) /\ Transfer(c, ch) = to(ch)
  BY DEF Checked, Transfer
<1>9. s = PsuSteps(kind, host, c)
  BY <1>1 DEF Steps, MethodSteps
<1>10. CASE kind \in Numbered
  <2>1. s = Refuse \/ s = Locked(to(c.ch) \o Check)
    BY <1>8, <1>9, <1>10 DEF PsuSteps, Numbered, RigolDP800, SiglentSPD3303
  <2>2. Addressed(dev, x) = x
    BY <1>2 DEF Addressed
  <2> HIDE DEF B, s
  <2>3. /\ AllApt(kind, dev, to(c.ch), c, A, B)
        /\ \A m : m.do = "put" /\ m.at = x => Reaches(kind, dev, m, c, x)
    BY <1>2, <1>4, <1>10, <2>2, PlainPut
  <2>4. LET l == Locked(to(c.ch) \o Check) IN
        l # <<>> /\ DOMAIN l = {1, 2} /\ l[1].do = "put" /\ l[1].at = x /\ l[1].hold /\ l[2].do = "check"
    BY LockedPair
  <2>5. AllApt(kind, dev, s, c, A, B)
    BY <1>5, <1>7, <2>1, <2>3
  <2> HIDE DEF x, to
  <2>6. Refuses(s) \/ \E i \in DOMAIN s : Reaches(kind, dev, s[i], c, x) /\ Backs(kind, s, i)
    <3>1. CASE s = Refuse
      BY <1>6, <3>1
    <3>2. CASE s = Locked(to(c.ch) \o Check)
      <4>1. 1 \in DOMAIN s /\ Reaches(kind, dev, s[1], c, x)
        BY <2>3, <2>4, <3>2
      <4>2. s[1].hold /\ 1 + 1 \in DOMAIN s /\ s[1 + 1].do = "check"
        BY <2>4, <3>2
      <4>3. Backs(kind, s, 1)
        BY <1>10, <4>2 DEF Backs
      <4> QED  BY <4>1, <4>3
    <3> QED  BY <2>1, <3>1, <3>2
  <2> QED  BY <1>4, <2>5, <2>6 DEF Starts, s, B
<1>11. CASE kind \notin Numbered
  <2> HIDE DEF B, s
  <2>1. /\ AllApt(kind, dev, to(0), c, A, B)
        /\ \A m : m.do = "put" /\ m.at = <<c.name, 0>> => Reaches(kind, dev, m, c, x)
    BY <1>2, <1>4, <1>11, PlainPut
  <2> DEFINE p == to(0) at == <<c.name, 0>>
  <2>2. Sends(p \o Check, at, c.val) /\ Listed(p)
    BY <2>1, CheckChecks, SendsOne DEF AllApt
  <2> HIDE DEF at
  <2>3. AllApt(kind, dev, p \o Check, c, A, B) /\ AllApt(kind, dev, Locked(p \o Check), c, A, B)
    BY <1>5, <1>7, <2>1
  <2>4. Listed(p \o Check)
    BY <2>3 DEF AllApt
  <2>5. CASE kind = "BK914X"
    <3> DEFINE a == ChannelSelect(host, c.ch)
    <3>1. s = Refuse \/ s = Locked((a \o p) \o Check)
      BY <1>8, <1>9, <2>5 DEF PsuSteps, BK914X
    <3>2. AllApt(kind, dev, a, c, A, B)
      <4>1. Leaves(kind, Put(Select, c.ch))
        <5>1. LET q == Put(Select, c.ch) IN Listed(q) /\ DOMAIN q = {1} /\ q[1].do = "put" /\ q[1].at = Select
          BY OneStepIs DEF Put
        <5>2. Select[1] = "select"
          BY DEF Select
        <5> QED  BY <5>1, <5>2 DEF Leaves, Spare, SettingNames
      <4>2. a = <<>> \/ a = Put(Select, c.ch) \o Note("active", c.ch)
        BY DEF ChannelSelect, Select
      <4>3. Leaves(kind, <<>>) /\ Leaves(kind, Note("active", c.ch))
        BY LeavesSteps
      <4> HIDE DEF a
      <4>4. Leaves(kind, a)
        BY <4>1, <4>2, <4>3, LeavesMore
      <4> QED  BY <4>4, LeavesApt
    <3> HIDE DEF a, p
    <3>3. (a \o p) \o Check = a \o (p \o Check) /\ Listed(a)
      BY <2>2, <3>2, CatAssoc, CheckChecks DEF AllApt, Listed
    <3>4. Sends(a \o (p \o Check), at, c.val) /\ Listed(a \o (p \o Check))
      BY <2>2, <2>4, <3>3, SendsMore, CatAsks
    <3>5. Sends(Locked((a \o p) \o Check), at, c.val)
      <4>1. Sends(Locked(a \o (p \o Check)), at, c.val)
        BY <3>4, CheckChecks, SendsMore
      <4> QED  BY <3>3, <4>1
    <3>6. AllApt(kind, dev, Locked((a \o p) \o Check), c, A, B)
      <4>1. AllApt(kind, dev, a \o p, c, A, B)
        BY <1>7, <2>1, <3>2 DEF p
      <4> QED  BY <1>5, <1>7, <4>1
    <3>7. s # Refuse => \E i \in DOMAIN s : Reaches(kind, dev, s[i], c, x) /\ Backs(kind, s, i)
      BY <1>11, <2>1, <3>1, <3>5, SentReaches DEF at
    <3> QED  BY <1>4, <1>5, <1>6, <3>1, <3>6, <3>7 DEF Starts, s, B
  <2>6. CASE kind \notin {"BK914X", "MatrixWPS300S"}
    <3>1. s = Refuse \/ s = Locked(p \o Check)
      BY <1>8, <1>9, <1>11, <2>6 DEF PsuSteps, Psus, Numbered, BK9115, KeysightE36100, TDKLambdaGenesys
    <3> HIDE DEF p
    <3>2. Sends(Locked(p \o Check), at, c.val)
      BY <2>2, <2>4, CheckChecks, SendsMore
    <3>3. \A m : m.do = "put" /\ m.at = at => Reaches(kind, dev, m, c, x)
      BY <2>1 DEF at
    <3> HIDE DEF x
    <3>4. s # Refuse => \E i \in DOMAIN s : Reaches(kind, dev, s[i], c, x) /\ Backs(kind, s, i)
      BY <1>11, <3>1, <3>2, <3>3, SentReaches
    <3> QED  BY <1>4, <1>5, <1>6, <2>3, <3>1, <3>4 DEF Starts, s, B, x
  <2>7. CASE kind = "MatrixWPS300S"
    <3>1. s = Refuse \/ s = p
      BY <1>8, <1>9, <2>7 DEF PsuSteps, MatrixWPS300S
    <3>2. 1 \in DOMAIN p /\ p[1].do = "put" /\ p[1].at = at
      BY OneStepIs DEF Put, at
    <3>3. \A m : m.do = "put" /\ m.at = at => Reaches(kind, dev, m, c, x)
      BY <2>1 DEF at
    <3> HIDE DEF p, x
    <3>4. s # Refuse => 1 \in DOMAIN s /\ Reaches(kind, dev, s[1], c, x) /\ Backs(kind, s, 1)
      BY <2>7, <3>1, <3>2, <3>3 DEF Backs
    <3> QED  BY <1>4, <1>5, <1>6, <2>1, <3>1, <3>4 DEF Starts, s, B, p, x
  <2> QED  BY <2>5, <2>6, <2>7
<1> QED  BY <1>10, <1>11

\* A command that ends up checked is apt together with the rest, and is sent.
LEMMA PutThen ==
  ASSUME NEW k, NEW d, NEW c, NEW A, NEW B, NEW a, NEW at, NEW v, NEW q, AllApt(k, d, a, c, A, B),
         AllApt(k, d, Put(at, v), c, A, B), AllApt(k, d, q, c, A, B), Checks(q)
  PROVE  /\ LET s == Put(at, v) \o q IN
              /\ AllApt(k, d, s, c, A, B) /\ Sends(s, at, v) /\ Checks(s)
              /\ AllApt(k, d, Locked(s), c, A, B) /\ Sends(Locked(s), at, v)
         /\ LET s == (a \o Put(at, v)) \o q IN
              /\ AllApt(k, d, s, c, A, B) /\ Sends(s, at, v) /\ Checks(s)
              /\ AllApt(k, d, Locked(s), c, A, B) /\ Sends(Locked(s), at, v)
<1> DEFINE p == Put(at, v) s == p \o q r == a \o s
<1>1. Listed(a) /\ Listed(p) /\ Listed(q) /\ IsSeq(q)
  BY DEF AllApt, Listed
<1>2. Sends(s, at, v)
  BY <1>1, SendsOne
<1> HIDE DEF p
<1>3. AllApt(k, d, s, c, A, B) /\ Checks(s)
  BY <1>1, AptMore, SendsMore DEF p
<1>4. Listed(s)
  BY <1>3 DEF AllApt
<1> HIDE DEF s
<1>5. AllApt(k, d, r, c, A, B) /\ Checks(r) /\ Sends(r, at, v)
  BY <1>1, <1>2, <1>3, <1>4, AptMore, SendsMore
<1>6. Listed(r)
  BY <1>5 DEF AllApt
<1>7. (a \o p) \o q = r
  BY <1>1, CatAssoc DEF s, Listed
<1> HIDE DEF r
<1>8. /\ AllApt(k, d, Locked(s), c, A, B) /\ Sends(Locked(s), at, v)
      /\ AllApt(k, d, Locked(r), c, A, B) /\ Sends(Locked(r), at, v)
  BY <1>1, <1>2, <1>3, <1>4, <1>5, <1>6, AptMore, SendsMore
<1>9. /\ AllApt(k, d, (a \o p) \o q, c, A, B) /\ Sends((a \o p) \o q, at, v) /\ Checks((a \o p) \o q)
      /\ AllApt(k, d, Locked((a \o p) \o q), c, A, B) /\ Sends(Locked((a \o p) \o q), at, v)
  BY <1>5, <1>7, <1>8
<1> QED  BY <1>2, <1>3, <1>8, <1>9 DEF s, p

\* A call that asks for one setting and sends for it.
LEMMA OneStarts ==
  ASSUME kind \notin Numbered, NEW c, NEW A, NEW s, NEW x, NEW at, NEW v, DOMAIN AskedBy(kind, host, c) = {x},
         AllApt(kind, dev, s, c, A, AskedBy(kind, host, c)), Sends(s, at, v),
         \A m : m.do = "put" /\ m.at = at => Reaches(kind, dev, m, c, x)
  PROVE  Starts(s, c, A)
<1> DEFINE B == AskedBy(kind, host, c)
<1>1. DOMAIN B = {x} /\ AllApt(kind, dev, s, c, A, B)
  OBVIOUS
<1> HIDE DEF B
<1>2. \E i \in DOMAIN s : Reaches(kind, dev, s[i], c, x) /\ Backs(kind, s, i)
  BY SentReaches
<1> QED  BY <1>1, <1>2 DEF Starts, B

LEMMA NoChannels ==
  ASSUME Base, kind \in Dmms \cup Loads, NEW name
  PROVE  Addressed(dev, <<name, 0>>) = <<name, 0>>
<1> DEFINE y == <<name, dev.sel>>
<1>1. y[1] = name /\ y[2] = dev.sel
  OBVIOUS
<1>2. y \in DOMAIN dev.reg => y[2] = 0
  <2> HIDE DEF y
  <2>1. ASSUME y \in Settings(kind)  PROVE y[2] = 0
    BY <2>1, SettingIsOne
  <2> QED  BY <2>1 DEF Base
<1>3. y \in DOMAIN dev.reg => y = <<name, 0>>
  BY <1>1, <1>2
<1> QED  BY <1>3 DEF Addressed

LEMMA DmmStarts ==
  ASSUME kind \in Dmms, Base, FunctionInv, NEW c \in Issued(kind), ~Innocent(kind, c), Ready(kind, host, c), NEW A,
         DOMAIN A = Accounts(kind)
  PROVE  Starts(Steps(kind, host, c), c, A)
<1> DEFINE s == Steps(kind, host, c) B == AskedBy(kind, host, c) x == <<host.func, 0>>
           a == Put(<<"auto range", 0>>, 0) p == Put(x, c.val)
<1>1. kind \notin Psus \cup Loads \cup Scopes \cup {"Aardvark"} /\ kind \notin Numbered
  BY KindsApart DEF Numbered, Psus
<1>2. c.op = "range" /\ kind = "Keithley2400"
  BY DmmCalls DEF Innocent
<1>3. host.func \in Functions
  BY <1>2 DEF FunctionInv, Ready, DmmReady
<1>4. s = Locked((a \o p) \o Check)
  BY <1>1, <1>2 DEF Steps, MethodSteps, DmmSteps, Keithley2400, KeithleyRange, Dmms
<1>5. B = SetTo(x, c.val)
  BY <1>1, <1>2 DEF AskedBy
<1>6. DOMAIN B = {x} /\ B[x] = c.val
  BY <1>5, SetToIs
<1>7. /\ AllApt(kind, dev, a, c, A, B) /\ AllApt(kind, dev, Check, c, A, B)
  <2>1. Leaves(kind, a)
    <3>1. \A name : name \notin SettingNames \cup {"select"} => Leaves(kind, Put(<<name, 0>>, 0))
      BY LeavesSteps
    <3> QED  BY <3>1 DEF SettingNames
  <2> QED  BY <2>1, LeavesSteps, LeavesApt
<1> HIDE DEF B, s, a
<1>8. CASE host.func = "AC_VOLTAGE"
  <2>1. Leaves(kind, p)
    <3>1. \A name : name \notin SettingNames \cup {"select"} => Leaves(kind, Put(<<name, 0>>, c.val))
      BY LeavesSteps
    <3> QED  BY <1>8, <3>1 DEF SettingNames
  <2>2. AllApt(kind, dev, p, c, A, B)
    BY <2>1, LeavesApt
  <2>3. AllApt(kind, dev, s, c, A, B)
    BY <1>4, <1>7, <2>2, AptMore
  <2>4. x \notin DOMAIN A
    <3>1. x[1] = "AC_VOLTAGE"
      BY <1>8
    <3> HIDE DEF x
    <3>2. x \notin Settings(kind)
      BY <1>1, <3>1, SettingIsOne DEF SettingNames
    <3> QED  BY <1>1, <3>2 DEF Accounts
  <2> QED  BY <1>6, <2>3, <2>4 DEF Starts, s, B
<1>9. CASE host.func # "AC_VOLTAGE"
  <2>1. host.func \in SettingNames \ {"averaging", "trigger", "recall"}
    BY <1>3, <1>9 DEF Functions, SettingNames
  <2>2. Addressed(dev, x) = x
    BY NoChannels
  <2>3. AllApt(kind, dev, p, c, A, B) /\ \A m : m.do = "put" /\ m.at = x => Reaches(kind, dev, m, c, x)
    BY <1>1, <1>2, <1>6, <2>1, <2>2, PlainPut
  <2> HIDE DEF x
  <2>4. AllApt(kind, dev, s, c, A, B) /\ Sends(s, x, c.val)
    BY <1>4, <1>7, <2>3, PutThen, CheckChecks
  <2>5. Starts(s, c, A)
    BY <1>1, <1>6, <2>3, <2>4, OneStarts DEF B
  <2> QED  BY <2>5 DEF s
<1> QED  BY <1>8, <1>9

LEMMA LoadStarts ==
  ASSUME kind \in Loads, Base, LoadInv, NEW c \in Issued(kind), ~Innocent(kind, c), Ready(kind, host, c), NEW A
  PROVE  Starts(Steps(kind, host, c), c, A)
<1> DEFINE s == Steps(kind, host, c) B == AskedBy(kind, host, c)
<1>1. kind \notin Psus \cup Dmms \cup Scopes \cup {"Aardvark"} /\ kind \notin Numbered /\ kind # "Keithley2400"
  BY KindsApart DEF Numbered, Psus, Dmms
<1>2. c.op \in {"mode", "level", "short", "output"}
  BY <1>1, LoadCalls DEF Innocent
<1>3. s = BK85XXB(host, c)
  BY <1>1, <1>2 DEF Steps, MethodSteps
<1>4. AllApt(kind, dev, Check, c, A, B) /\ AllApt(kind, dev, <<>>, c, A, B) /\ Checks(Check)
  BY LeavesSteps, LeavesApt, CheckChecks
<1>5. ASSUME NEW name, name \in SettingNames \ {"averaging", "trigger", "recall"}, NEW v, NEW q,
             B[<<name, 0>>] = v, <<name, 0>> \in DOMAIN B, AllApt(kind, dev, q, c, A, B), Checks(q)
      PROVE  /\ LET l == Put(<<name, 0>>, v) \o q IN
                  /\ AllApt(kind, dev, l, c, A, B) /\ Sends(l, <<name, 0>>, v) /\ Checks(l)
                  /\ AllApt(kind, dev, Locked(l), c, A, B) /\ Sends(Locked(l), <<name, 0>>, v)
             /\ \A m : m.do = "put" /\ m.at = <<name, 0>> => Reaches(kind, dev, m, c, <<name, 0>>)
  <2> DEFINE x == <<name, 0>> p == Put(x, v)
  <2>1. Addressed(dev, x) = x
    BY NoChannels
  <2> HIDE DEF B
  <2>2. AllApt(kind, dev, p, c, A, B) /\ \A m : m.do = "put" /\ m.at = x => Reaches(kind, dev, m, c, x)
    BY <1>1, <1>2, <1>5, <2>1, PlainPut
  <2> HIDE DEF x
  <2>3. LET l == p \o q IN
          /\ AllApt(kind, dev, l, c, A, B) /\ Sends(l, x, v) /\ Checks(l)
          /\ AllApt(kind, dev, Locked(l), c, A, B) /\ Sends(Locked(l), x, v)
    BY <1>4, <1>5, <2>2, PutThen
  <2> QED  BY <2>2, <2>3 DEF x
<1>6. ASSUME NEW name, name \in SettingNames \ {"averaging", "trigger", "recall"}, NEW v,
             B = SetTo(<<name, 0>>, v), s = Locked(Put(<<name, 0>>, v) \o Check)
      PROVE  Starts(s, c, A)
  <2> DEFINE x == <<name, 0>>
  <2>1. DOMAIN B = {x} /\ B[x] = v
    BY <1>6, SetToIs
  <2> HIDE DEF B, s
  <2>2. /\ AllApt(kind, dev, s, c, A, B) /\ Sends(s, x, v)
        /\ \A m : m.do = "put" /\ m.at = x => Reaches(kind, dev, m, c, x)
    BY <1>4, <1>5, <1>6, <2>1
  <2> HIDE DEF x
  <2>3. Starts(s, c, A)
    BY <1>1, <2>1, <2>2, OneStarts DEF B
  <2> QED  BY <2>3 DEF s
<1>7. CASE c.op = "mode"
  <2>1. B = SetTo(<<"mode", 0>>, c.name) /\ s = Locked(Put(<<"mode", 0>>, c.name) \o Check)
    BY <1>1, <1>3, <1>7 DEF AskedBy, BK85XXB
  <2>2. "mode" \in SettingNames \ {"averaging", "trigger", "recall"}
    BY DEF SettingNames
  <2> HIDE DEF B, s
  <2> QED  BY <1>6, <2>1, <2>2 DEF s
<1>8. CASE c.op = "level"
  <2>1. B = SetTo(<<host.mode, 0>>, c.val) /\ s = Locked(Put(<<host.mode, 0>>, c.val) \o Check)
    BY <1>1, <1>3, <1>8 DEF AskedBy, BK85XXB
  <2>2. host.mode \in SettingNames \ {"averaging", "trigger", "recall"}
    <3>1. host.mode \in {"CC", "CP"}
      BY <1>8 DEF LoadInv, Ready, LoadReady
    <3> QED  BY <3>1 DEF SettingNames
  <2> HIDE DEF B, s
  <2> QED  BY <1>6, <2>1, <2>2 DEF s
<1>9. CASE c.op = "output"
  <2>1. B = SetTo(<<"input", 0>>, c.val) /\ s = Locked(Put(<<"input", 0>>, c.val) \o Check)
    BY <1>1, <1>3, <1>9 DEF AskedBy, BK85XXB
  <2>2. "input" \in SettingNames \ {"averaging", "trigger", "recall"}
    BY DEF SettingNames
  <2> HIDE DEF B, s
  <2> QED  BY <1>6, <2>1, <2>2 DEF s
<1>10. CASE c.op = "short"
  <2> DEFINE i == <<"input", 0>> h == <<"short", 0>> l == Put(i, c.val) \o Check
  <2>1. B = [y \in {"input", "short"} \X {0} |-> c.val] /\ s = Locked((Put(h, c.val) \o Put(i, c.val)) \o Check)
    BY <1>1, <1>3, <1>10 DEF AskedBy, BK85XXB
  <2>2. {"input", "short"} \subseteq SettingNames \ {"averaging", "trigger", "recall"}
    BY DEF SettingNames
  <2>3. DOMAIN B = {i, h} /\ B[i] = c.val /\ B[h] = c.val
    BY <2>1
  <2>4. s = Locked(Put(h, c.val) \o l)
    <3> DEFINE p == Put(h, c.val) q == Put(i, c.val)
    <3>1. IsSeq(p) /\ IsSeq(q) /\ IsSeq(Check)
      BY OneStepIs, CheckChecks DEF Put
    <3>2. s = Locked((p \o q) \o Check)
      BY <2>1
    <3> HIDE DEF p, q, s
    <3>3. (p \o q) \o Check = p \o (q \o Check)
      BY <3>1, CatAssoc
    <3>4. s = Locked(p \o (q \o Check))
      BY <3>2, <3>3
    <3> QED  BY <3>4 DEF p, q
  <2> HIDE DEF B, s
  <2>5. /\ AllApt(kind, dev, l, c, A, B) /\ Checks(l) /\ Sends(l, i, c.val)
        /\ \A m : m.do = "put" /\ m.at = i => Reaches(kind, dev, m, c, i)
    BY <1>4, <1>5, <2>2, <2>3
  <2> HIDE DEF l
  <2>6. /\ AllApt(kind, dev, s, c, A, B) /\ Sends(s, h, c.val)
        /\ \A m : m.do = "put" /\ m.at = h => Reaches(kind, dev, m, c, h)
    BY <1>4, <1>5, <2>2, <2>3, <2>4, <2>5
  <2>7. Sends(s, i, c.val)
    <3>1. LET p == Put(h, c.val) IN Listed(p)
      BY OneStepIs DEF Put
    <3>2. Sends(Put(h, c.val) \o l, i, c.val) /\ Listed(Put(h, c.val) \o l)
      BY <2>5, <3>1, SendsMore, CatAsks DEF AllApt
    <3> QED  BY <2>4, <3>2, SendsMore, CheckChecks
  <2> HIDE DEF i, h
  <2>8. \A x \in {i, h} : \E j \in DOMAIN s : Reaches(kind, dev, s[j], c, x) /\ Backs(kind, s, j)
    <3>1. \E j \in DOMAIN s : Reaches(kind, dev, s[j], c, i) /\ Backs(kind, s, j)
      BY <1>1, <2>5, <2>7, SentReaches
    <3>2. \E j \in DOMAIN s : Reaches(kind, dev, s[j], c, h) /\ Backs(kind, s, j)
      BY <1>1, <2>6, SentReaches
    <3> QED  BY <3>1, <3>2
  <2>9. Starts(s, c, A)
    BY <2>3, <2>6, <2>8 DEF Starts, B
  <2> QED  BY <2>9 DEF s
<1> QED  BY <1>2, <1>7, <1>8, <1>9, <1>10

LEMMA PutOnly ==
  ASSUME NEW place, NEW value
  PROVE  LET s == Put(place, value) IN
         /\ Listed(s) /\ IsSeq(s) /\ DOMAIN s = {1} /\ s[1].do = "put" /\ s[1].at = place /\ s[1].to = value
BY OneStepIs DEF Put

\* A call of a scope notes what it is about, and recalls what it is to recall.
Remarks(k, s, c) ==
  /\ c.op = "source" => \E i \in DOMAIN s : s[i].do = "note" /\ s[i].at = "source"
  /\ k = "SiglentSDS1000XE" /\ c.op = "set" /\ c.name = "average" =>
       \E i \in DOMAIN s : s[i].do = "note" /\ s[i].at = "average"
  /\ c.op = "load" => \E i \in DOMAIN s : s[i].do = "put" /\ s[i].at[1] = "recall" /\ Backs(k, s, i)

Notes(s, a) == \E i \in DOMAIN s : s[i].do = "note" /\ s[i].at = a

LEMMA NotesMore ==
  ASSUME NEW a, NEW b, IsSeq(a), IsSeq(b)
  PROVE  \A n : Notes(a, n) \/ Notes(b, n) => Notes(a \o b, n)
<1>1. Joined(a, b)
  BY PlacesOf
<1>2. ASSUME NEW n, Notes(a, n)  PROVE Notes(a \o b, n)
  BY <1>1, <1>2 DEF Joined, Notes
<1>3. ASSUME NEW n, Notes(b, n)  PROVE Notes(a \o b, n)
  <2>1. PICK i \in DOMAIN b : b[i].do = "note" /\ b[i].at = n
    BY <1>3 DEF Notes
  <2>2. Len(a) + i \in DOMAIN (a \o b) /\ (a \o b)[Len(a) + i] = b[i]
    BY <1>1 DEF Joined
  <2> QED  BY <2>1, <2>2 DEF Notes
<1> QED  BY <1>2, <1>3

LEMMA NoteApt ==
  ASSUME NEW k, NEW d, NEW c, NEW A, NEW B, NEW a, NEW v,
         a = "source" => c.op = "source" /\ v = c.ch,
         a = "average" => c.op = "set" /\ c.name = "average" /\ v = c.val
  PROVE  AllApt(k, d, Note(a, v), c, A, B) /\ Notes(Note(a, v), a) /\ IsSeq(Note(a, v)) /\ Listed(Note(a, v))
<1> DEFINE s == Note(a, v)
<1>1. /\ Listed(s) /\ IsSeq(s) /\ DOMAIN s = {1} /\ s[1].do = "note" /\ s[1].at = a /\ s[1].to = v
  BY OneStepIs DEF Note
<1> HIDE DEF s
<1>2. Apt(k, d, s[1], c, A, B)
  BY <1>1 DEF Apt, Reaches
<1>3. AllApt(k, d, s, c, A, B) /\ Notes(s, a)
  BY <1>1, <1>2 DEF AllApt, Notes
<1> QED  BY <1>1, <1>3 DEF s

LEMMA SelectApt ==
  ASSUME NEW k \in Scopes, NEW d, NEW c, NEW A, NEW B, NEW name \in {"select", "trigger"}, NEW v, NEW ch,
         ch = IF name = "select" THEN v ELSE v[2], c.op \in {"source", "type", "load"},
         IF Select \in DOMAIN B THEN B[Select] = ch ELSE ch \in A[Select]
  PROVE  /\ AllApt(k, d, Put(<<name, 0>>, v), c, A, B)
         /\ \A m : m.do = "put" /\ m.at = <<name, 0>> => Reaches(k, d, m, c, Select)
<1> DEFINE at == <<name, 0>> s == Put(at, v)
<1>1. at[1] = name
  OBVIOUS
<1>2. k \notin Psus
  BY KindsApart
<1> HIDE DEF at
<1>3. Listed(s) /\ DOMAIN s = {1} /\ s[1].do = "put" /\ s[1].at = at /\ s[1].to = v
  BY OneStepIs DEF Put
<1>4. ASSUME NEW m, m.do = "put", m.at = at
      PROVE  ~Spare(k, m) /\ (\A x : Reaches(k, d, m, c, x) <=> x = Select) /\ (m.to = v => Gives(k, m, Select) = ch)
  <2>1. m.at[1] = name
    BY <1>1, <1>4
  <2>2. ~Spare(k, m)
    BY <1>2, <1>4, <2>1 DEF Spare, SettingNames
  <2>3. \A x : Reaches(k, d, m, c, x) <=> x = Select
    BY <1>4, <2>1, <2>2 DEF Reaches
  <2>4. m.to = v => Gives(k, m, Select) = ch
    BY <2>1 DEF Gives
  <2> QED  BY <2>2, <2>3, <2>4
<1> HIDE DEF s
<1>5. Apt(k, d, s[1], c, A, B)
  <2> DEFINE m == s[1]
  <2>1. m.do = "put" /\ m.at = at /\ m.to = v /\ m.at[1] = name
    BY <1>1, <1>3
  <2> HIDE DEF m
  <2>2. (\A x : Reaches(k, d, m, c, x) <=> x = Select) /\ Gives(k, m, Select) = ch
    BY <1>4, <2>1
  <2>3. m.at[1] \in Sources
    BY <2>1 DEF Sources
  <2>4. Apt(k, d, m, c, A, B)
    BY <1>2, <2>1, <2>2, <2>3 DEF Apt
  <2> QED  BY <2>4 DEF m
<1>6. AllApt(k, d, s, c, A, B)
  BY <1>3, <1>5 DEF AllApt
<1>7. \A m : m.do = "put" /\ m.at = at => Reaches(k, d, m, c, Select)
  BY <1>4
<1> QED  BY <1>6, <1>7 DEF at, s

LEMMA SourceStarts ==
  ASSUME kind \in Scopes, NEW c \in Issued(kind), c.op = "source", NEW A
  PROVE  Starts(Steps(kind, host, c), c, A) /\ Remarks(kind, Steps(kind, host, c), c)
<1> DEFINE s == Steps(kind, host, c) B == AskedBy(kind, host, c) n == Note("source", c.ch)
<1>1. kind \notin Psus \cup Dmms \cup Loads \cup {"Aardvark", "Keithley2400"} /\ kind \notin Numbered
  BY KindsApart DEF Numbered, Psus, Dmms
<1>2. s = TriggerSource(kind, host, c.ch) \o Check
  <2>1. s = ScopeMethod(kind, host, c) \o Check
    BY StepsAre DEF ScopeSteps
  <2>2. ScopeMethod(kind, host, c) = TriggerSource(kind, host, c.ch)
    BY DEF ScopeMethod
  <2> QED  BY <2>1, <2>2
<1>3. B = SetTo(Select, c.ch)
  BY <1>1 DEF AskedBy
<1>4. DOMAIN B = {Select} /\ B[Select] = c.ch
  BY <1>3, SetToIs
<1>5. /\ AllApt(kind, dev, Check, c, A, B) /\ Checks(Check) /\ IsSeq(Check) /\ Listed(Check)
  BY LeavesSteps, LeavesApt, CheckChecks
<1>6. AllApt(kind, dev, n, c, A, B) /\ Notes(n, "source") /\ IsSeq(n) /\ Listed(n)
  BY NoteApt
<1> HIDE DEF B, n
<1>7. \E name, v : /\ AllApt(kind, dev, s, c, A, B) /\ Sends(s, <<name, 0>>, v) /\ Notes(s, "source")
                   /\ \A m : m.do = "put" /\ m.at = <<name, 0>> => Reaches(kind, dev, m, c, Select)
  <2>1. CASE kind = "SiglentSDS1000XE"
    <3> DEFINE v == <<host.type, c.ch>> at == <<"trigger", 0>> p == Put(at, v)
    <3>1. s = (n \o p) \o Check
      BY <1>2, <2>1 DEF TriggerSource, SiglentTriggerSelect, n
    <3>2. v[2] = c.ch
      OBVIOUS
    <3> HIDE DEF v, s
    <3>3. AllApt(kind, dev, p, c, A, B) /\ \A m : m.do = "put" /\ m.at = at => Reaches(kind, dev, m, c, Select)
      BY <1>4, <3>2, SelectApt
    <3> HIDE DEF at
    <3>4. AllApt(kind, dev, s, c, A, B) /\ Sends(s, at, v)
      BY <1>5, <1>6, <3>1, <3>3, PutThen
    <3> HIDE DEF p
    <3>5. Notes(s, "source")
      <4>1. IsSeq(p) /\ IsSeq(n \o p)
        BY <1>6, <3>3, AptMore DEF AllApt, Listed
      <4> QED  BY <1>5, <1>6, <3>1, <4>1, NotesMore
    <3> QED  BY <3>3, <3>4, <3>5 DEF at
  <2>2. CASE kind # "SiglentSDS1000XE"
    <3> DEFINE v == c.ch at == <<"select", 0>> p == Put(at, v)
    <3>1. s = (p \o n) \o Check
      BY <1>2, <2>2 DEF TriggerSource, n
    <3> HIDE DEF s
    <3>2. AllApt(kind, dev, p, c, A, B) /\ \A m : m.do = "put" /\ m.at = at => Reaches(kind, dev, m, c, Select)
      BY <1>4, SelectApt
    <3> HIDE DEF at
    <3>3. IsSeq(p) /\ s = p \o (n \o Check)
      <4>1. IsSeq(p)
        BY <3>2 DEF AllApt, Listed
      <4> HIDE DEF p
      <4>2. (p \o n) \o Check = p \o (n \o Check)
        BY <1>5, <1>6, <4>1, CatAssoc
      <4> QED  BY <3>1, <4>1, <4>2
    <3> DEFINE q == n \o Check
    <3>4. AllApt(kind, dev, q, c, A, B) /\ Checks(q) /\ Notes(q, "source")
      BY <1>5, <1>6, AptMore, SendsMore, NotesMore
    <3>5. IsSeq(q)
      BY <3>4 DEF AllApt, Listed
    <3> HIDE DEF q
    <3>6. AllApt(kind, dev, p \o q, c, A, B) /\ Sends(p \o q, at, v)
      BY <3>2, <3>4, PutThen
    <3> HIDE DEF p
    <3>7. Notes(p \o q, "source")
      BY <3>3, <3>4, <3>5, NotesMore
    <3>8. s = p \o q
      BY <3>3 DEF q
    <3> QED  BY <3>2, <3>6, <3>7, <3>8 DEF at
  <2> QED  BY <2>1, <2>2
<1> HIDE DEF s
<1>8. PICK name, v : /\ AllApt(kind, dev, s, c, A, B) /\ Sends(s, <<name, 0>>, v) /\ Notes(s, "source")
                     /\ \A m : m.do = "put" /\ m.at = <<name, 0>> => Reaches(kind, dev, m, c, Select)
  BY <1>7
<1>9. Starts(s, c, A)
  BY <1>1, <1>4, <1>8, OneStarts DEF B
<1>10. Remarks(kind, s, c)
  BY <1>8 DEF Remarks, Notes
<1> QED  BY <1>9, <1>10 DEF s

LEMMA TypeStarts ==
  ASSUME kind \in Scopes, NEW c \in Issued(kind), c.op = "type", NEW A, KnownSource(host) \in A[Select]
  PROVE  Starts(Steps(kind, host, c), c, A) /\ Remarks(kind, Steps(kind, host, c), c)
<1> DEFINE s == Steps(kind, host, c) B == AskedBy(kind, host, c) n == Note("type", c.name)
<1>1. kind # "Aardvark"
  BY KindsApart
<1>2. s = TriggerType(kind, host, c.name) \o Check
  <2>1. s = ScopeMethod(kind, host, c) \o Check
    BY StepsAre DEF ScopeSteps
  <2>2. ScopeMethod(kind, host, c) = TriggerType(kind, host, c.name)
    BY DEF ScopeMethod
  <2> QED  BY <2>1, <2>2
<1>3. DOMAIN B = {}
  BY <1>1, NothingAsked
<1>4. AllApt(kind, dev, Check, c, A, B)
  BY LeavesSteps, LeavesApt
<1>5. AllApt(kind, dev, n, c, A, B)
  BY NoteApt
<1> HIDE DEF B, n
<1>6. AllApt(kind, dev, TriggerType(kind, host, c.name), c, A, B)
  <2>1. CASE kind = "SiglentSDS1000XE"
    <3> DEFINE v == <<c.name, KnownSource(host)>> at == <<"trigger", 0>> p == Put(at, v)
    <3>1. TriggerType(kind, host, c.name) = n \o p
      BY <2>1 DEF TriggerType, SiglentTriggerSelect, n
    <3>2. v[2] = KnownSource(host)
      OBVIOUS
    <3> HIDE DEF v
    <3>3. AllApt(kind, dev, p, c, A, B)
      BY <1>3, <3>2, SelectApt
    <3> HIDE DEF p
    <3> QED  BY <1>5, <3>1, <3>3, AptMore
  <2>2. CASE kind # "SiglentSDS1000XE"
    <3>1. TriggerType(kind, host, c.name) = Put(<<"trigger type", 0>>, c.name)
      BY <2>2 DEF TriggerType
    <3>2. \A name : name \notin SettingNames \cup {"select"} => Leaves(kind, Put(<<name, 0>>, c.name))
      BY LeavesSteps
    <3>3. Leaves(kind, Put(<<"trigger type", 0>>, c.name))
      BY <3>2 DEF SettingNames
    <3> QED  BY <3>1, <3>3, LeavesApt
  <2> QED  BY <2>1, <2>2
<1>7. AllApt(kind, dev, s, c, A, B)
  BY <1>2, <1>4, <1>6, AptMore
<1> QED  BY <1>3, <1>7 DEF Starts, Remarks, s, B

\* set_trigger_level() sends the level to the channel that triggers, and that is
\* where it is wanted if only one channel can be the one.
LEMMA LevelStarts ==
  ASSUME kind \in Scopes, Base, NEW c \in Issued(kind), c.op = "level", NEW A, DOMAIN A = Accounts(kind),
         A[Select] = asked[Select], KnownSource(host) \in A[Select], dev.sel \in A[Select]
  PROVE  Starts(Steps(kind, host, c), c, A) /\ Remarks(kind, Steps(kind, host, c), c)
<1> DEFINE s == Steps(kind, host, c) B == AskedBy(kind, host, c)
<1>1. kind \notin Psus \cup Dmms \cup Loads \cup {"Aardvark", "Keithley2400"} /\ kind \notin Numbered
  BY KindsApart DEF Numbered, Psus, Dmms
<1>2. s = TriggerLevel(kind, host, c.val) \o Check
  <2>1. s = ScopeMethod(kind, host, c) \o Check
    BY StepsAre DEF ScopeSteps
  <2>2. ScopeMethod(kind, host, c) = TriggerLevel(kind, host, c.val)
    BY DEF ScopeMethod
  <2> QED  BY <2>1, <2>2
<1>3. B = [x \in {"level"} \X asked[Select] |-> c.val]
  BY <1>1 DEF AskedBy
<1>4. AllApt(kind, dev, Check, c, A, B) /\ Checks(Check)
  BY LeavesSteps, LeavesApt, CheckChecks
<1>5. PICK ch : TriggerLevel(kind, host, c.val) = Put(<<"level", ch>>, c.val) /\ ch \in {0, KnownSource(host)}
  BY DEF TriggerLevel
<1> DEFINE at == <<"level", ch>> aim == Addressed(dev, at) y == <<"level", dev.sel>>
<1>6. /\ aim = IF ch = 0 /\ y \in DOMAIN A THEN y ELSE at
      /\ at[1] = "level" /\ at[2] = ch /\ y[1] = "level" /\ y[2] = dev.sel
  <2>1. y \in DOMAIN dev.reg <=> y \in DOMAIN A
    <3>1. y # Select
      BY DEF Select
    <3> QED  BY <3>1 DEF Base, Accounts
  <2> QED  BY <2>1 DEF Addressed
<1>7. \A u : <<"level", u>> \in DOMAIN A => u # 0
  <2> DEFINE z == <<"level", 0>>
  <2>1. z \notin {<<"scale", 1>>, <<"level", 1>>, <<"level", 2>>, <<"acq mode", 0>>, <<"average", 0>>} /\ z # Select
    BY DEF Select
  <2> HIDE DEF z
  <2>2. z \notin Settings(kind)
    BY <2>1, SettingIsOne
  <2>3. z \notin DOMAIN A
    BY <2>1, <2>2 DEF Accounts
  <2> QED  BY <2>3 DEF z
<1>8. aim \in DOMAIN A => aim[2] \in A[Select] /\ aim = <<"level", aim[2]>>
  <2>1. ch = 0 => at \notin DOMAIN A
    BY <1>7
  <2> HIDE DEF aim
  <2>2. ch # 0 => ch \in A[Select]
    BY <1>5
  <2> QED  BY <1>6, <2>1, <2>2
<1>9. aim \in DOMAIN A => aim \in DOMAIN B /\ B[aim] = c.val
  <2> HIDE DEF aim, at
  <2>1. DOMAIN B = {"level"} \X asked[Select]
    BY <1>3
  <2>2. aim \in DOMAIN A => aim \in DOMAIN B
    BY <1>8, <2>1
  <2>3. \A x \in DOMAIN B : B[x] = c.val
    BY <1>3, <2>1
  <2> QED  BY <2>2, <2>3
<1> HIDE DEF s, B
<1>10. /\ AllApt(kind, dev, Put(at, c.val), c, A, B)
      /\ \A m : m.do = "put" /\ m.at = at => Reaches(kind, dev, m, c, aim)
  <2>1. "level" \in SettingNames \ {"averaging", "trigger", "recall"}
    BY DEF SettingNames
  <2>2. aim \in DOMAIN A => IF aim \in DOMAIN B THEN B[aim] = c.val ELSE c.val \in A[aim]
    BY <1>9
  <2>3. aim = IF kind \in Psus \ Numbered /\ ch = 0 THEN <<"level", c.ch>> ELSE Addressed(dev, at)
    BY <1>1
  <2> HIDE DEF aim
  <2> QED  BY <1>1, <2>1, <2>2, <2>3, PlainPut
<1> HIDE DEF at, aim
<1>11. AllApt(kind, dev, s, c, A, B) /\ Sends(s, at, c.val)
  BY <1>2, <1>4, <1>5, <1>10, PutThen DEF at
<1>12. \E i \in DOMAIN s : Reaches(kind, dev, s[i], c, aim) /\ Backs(kind, s, i)
  BY <1>1, <1>10, <1>11, SentReaches
<1>13. ASSUME NEW x \in DOMAIN A \cap DOMAIN B, Sole(A[Select])
       PROVE  x = aim
  <2>1. PICK u : A[Select] = {u}
    BY <1>13 DEF Sole
  <2>2. x[1] = "level" /\ x[2] = u /\ x = <<"level", u>>
    <3>1. x \in {"level"} \X A[Select]
      BY <1>3 DEF B
    <3> QED  BY <2>1, <3>1
  <2>3. u # 0
    BY <1>7, <2>2
  <2>4. ch = 0 => dev.sel = u
    BY <2>1
  <2>5. ch # 0 => ch = u
    BY <1>5, <2>1
  <2>6. at = <<"level", ch>> /\ y = <<"level", dev.sel>>
    BY DEF at
  <2>7. CASE ch = 0
    <3>1. y = x
      BY <2>2, <2>4, <2>6, <2>7
    <3> QED  BY <1>6, <2>7, <3>1
  <2>8. CASE ch # 0
    BY <1>6, <2>2, <2>5, <2>6, <2>8
  <2> QED  BY <2>7, <2>8
<1>14. Starts(s, c, A)
  BY <1>11, <1>12, <1>13 DEF Starts, B
<1> QED  BY <1>14 DEF Remarks, s

LEMMA ScopePlaces ==
  ASSUME NEW x, x \in {<<"scale", 1>>, <<"level", 1>>, <<"level", 2>>, <<"acq mode", 0>>, <<"average", 0>>}
  PROVE  x[2] = 0 <=> x[1] \in {"acq mode", "average"}
<1>1. CASE x = <<"scale", 1>>
  BY <1>1
<1>2. CASE x = <<"level", 1>>
  BY <1>2
<1>3. CASE x = <<"level", 2>>
  BY <1>3
<1>4. CASE x = <<"acq mode", 0>>
  BY <1>4
<1>5. CASE x = <<"average", 0>>
  BY <1>5
<1> QED  BY <1>1, <1>2, <1>3, <1>4, <1>5

\* A setting of a scope has a place of its own.
LEMMA SettingAim ==
  ASSUME kind \in Scopes, Base, NEW x \in Settings(kind)
  PROVE  Addressed(dev, x) = x
<1> DEFINE name == x[1] ch == x[2]
<1>2. /\ name \in SettingNames \ {"averaging", "trigger", "recall"} /\ x = <<name, ch>>
      /\ x \in {<<"scale", 1>>, <<"level", 1>>, <<"level", 2>>, <<"acq mode", 0>>, <<"average", 0>>}
  BY SettingIsOne
<1> DEFINE y == <<name, dev.sel>>
<1>3. ASSUME ch = 0, y \in Settings(kind)  PROVE y = x
  <2>1. y \in {<<"scale", 1>>, <<"level", 1>>, <<"level", 2>>, <<"acq mode", 0>>, <<"average", 0>>}
    BY <1>3, SettingIsOne
  <2>2. y[1] = name /\ y[2] = dev.sel
    OBVIOUS
  <2>3. y[2] = 0
    <3> HIDE DEF y
    <3>1. x[1] \in {"acq mode", "average"}
      BY <1>2, <1>3, ScopePlaces
    <3> QED  BY <2>1, <2>2, <3>1, ScopePlaces
  <2> QED  BY <1>2, <1>3, <2>2, <2>3
<1>4. y \in DOMAIN dev.reg <=> y \in Settings(kind)
  BY DEF Base
<1> QED  BY <1>2, <1>3, <1>4 DEF Addressed

LEMMA SettingStarts ==
  ASSUME kind \in Scopes, Base, NEW c \in Issued(kind), c.op = "set", NEW A
  PROVE  Starts(Steps(kind, host, c), c, A) /\ Remarks(kind, Steps(kind, host, c), c)
<1> DEFINE s == Steps(kind, host, c) B == AskedBy(kind, host, c) x == <<c.name, c.ch>> p == Put(x, c.val)
           n == Note("average", c.val)
<1>1. kind \notin Psus \cup Dmms \cup Loads \cup {"Aardvark", "Keithley2400"} /\ kind \notin Numbered
  BY KindsApart DEF Numbered, Psus, Dmms
<1>2. s = ScopeSetting(kind, host, c) \o Check
  <2>1. s = ScopeMethod(kind, host, c) \o Check
    BY StepsAre DEF ScopeSteps
  <2>2. ScopeMethod(kind, host, c) = ScopeSetting(kind, host, c)
    BY DEF ScopeMethod
  <2> QED  BY <2>1, <2>2
<1>3. B = SetTo(x, c.val)
  BY <1>1 DEF AskedBy
<1>4. DOMAIN B = {x} /\ B[x] = c.val
  BY <1>3, SetToIs
<1>5. x \in Settings(kind)
  <2>1. \/ c.name = "scale" /\ c.ch = 1
        \/ c.name = "average" /\ c.ch = 0
    BY ScopeSets
  <2>2. Settings(kind) = {<<"scale", 1>>, <<"level", 1>>, <<"level", 2>>, <<"acq mode", 0>>, <<"average", 0>>}
    BY <1>1 DEF Settings
  <2> QED  BY <2>1, <2>2
<1>6. AllApt(kind, dev, Check, c, A, B) /\ Checks(Check) /\ IsSeq(Check)
  BY LeavesSteps, LeavesApt, CheckChecks
<1>7. \/ s = p \o Check /\ (kind = "SiglentSDS1000XE" => c.name # "average")
      \/ s = (n \o p) \o Check /\ c.name = "average"
  BY <1>2 DEF ScopeSetting, KeysightSetting, TekSetting, SiglentSetting, Setting, Scopes
<1> HIDE DEF B, s
<1>8. AllApt(kind, dev, p, c, A, B) /\ \A m : m.do = "put" /\ m.at = x => Reaches(kind, dev, m, c, x)
  <2>1. c.name \in SettingNames \ {"averaging", "trigger", "recall"}
    BY ScopeSets DEF SettingNames
  <2>2. Addressed(dev, x) = x
    BY <1>5, SettingAim
  <2> QED  BY <1>1, <1>4, <2>1, <2>2, PlainPut
<1> HIDE DEF x
<1>9. c.name = "average" => AllApt(kind, dev, n, c, A, B) /\ Notes(n, "average") /\ IsSeq(n)
  BY NoteApt
<1>10. AllApt(kind, dev, s, c, A, B) /\ Sends(s, x, c.val)
  BY <1>6, <1>7, <1>8, <1>9, PutThen
<1>11. Remarks(kind, s, c)
  <2>1. CASE s = (n \o p) \o Check /\ c.name = "average"
    <3>1. IsSeq(p) /\ IsSeq(n \o p)
      BY <1>8, <1>9, <2>1, AptMore DEF AllApt, Listed
    <3> HIDE DEF n, p
    <3>2. Notes(s, "average")
      BY <1>6, <1>9, <2>1, <3>1, NotesMore
    <3> QED  BY <3>2 DEF Remarks, Notes
  <2> QED  BY <1>7, <2>1 DEF Remarks
<1>12. Starts(s, c, A)
  BY <1>1, <1>4, <1>8, <1>10, OneStarts DEF B
<1> QED  BY <1>11, <1>12 DEF s

\* The one command that sets mode and count.
LEMMA AveragingApt ==
  ASSUME NEW k \in Scopes, NEW d, NEW c, c.op \notin {"set", "source", "type", "load"}, NEW A, NEW B, NEW v
  PROVE  /\ v \in A[<<"average", 0>>] /\ B = SetTo(<<"acq mode", 0>>, "AVERAGE") =>
              AllApt(k, d, Put(<<"averaging", 0>>, v), c, A, B)
         /\ \A m : m.do = "put" /\ m.at = <<"averaging", 0>> => Reaches(k, d, m, c, <<"acq mode", 0>>)
<1> DEFINE at == <<"averaging", 0>> x == <<"acq mode", 0>> y == <<"average", 0>> s == Put(at, v)
<1>1. at[1] = "averaging" /\ x # y
  OBVIOUS
<1>2. k \notin Psus
  BY KindsApart
<1>3. B = SetTo(x, "AVERAGE") => DOMAIN B = {x} /\ B[x] = "AVERAGE"
  BY SetToIs
<1> HIDE DEF at
<1>4. Listed(s) /\ DOMAIN s = {1} /\ s[1].do = "put" /\ s[1].at = at /\ s[1].to = v
  BY PutOnly
<1> HIDE DEF x, y
<1>5. ASSUME NEW m, m.do = "put", m.at = at
      PROVE  /\ ~Spare(k, m) /\ (\A z : Reaches(k, d, m, c, z) <=> z \in {x, y})
             /\ Gives(k, m, x) = "AVERAGE" /\ Gives(k, m, y) = m.to
  <2>1. m.at[1] = "averaging"
    BY <1>1, <1>5
  <2>2. ~Spare(k, m)
    BY <1>5, <2>1 DEF Spare, SettingNames
  <2>3. \A z : Reaches(k, d, m, c, z) <=> z \in {x, y}
    BY <1>5, <2>1, <2>2 DEF Reaches, x, y
  <2>4. Gives(k, m, x) = "AVERAGE" /\ Gives(k, m, y) = m.to
    BY <2>1 DEF Gives, x, y
  <2> QED  BY <2>2, <2>3, <2>4
<1> HIDE DEF s
<1>6. ASSUME v \in A[y], B = SetTo(x, "AVERAGE")  PROVE Apt(k, d, s[1], c, A, B)
  <2> DEFINE m == s[1]
  <2>1. m.do = "put" /\ m.at = at /\ m.to = v /\ m.at[1] \notin Sources
    BY <1>1, <1>4 DEF Sources
  <2> HIDE DEF m
  <2>2. (\A z : Reaches(k, d, m, c, z) <=> z \in {x, y}) /\ Gives(k, m, x) = "AVERAGE" /\ Gives(k, m, y) = v
    BY <1>5, <2>1
  <2>3. Apt(k, d, m, c, A, B)
    BY <1>1, <1>2, <1>3, <1>6, <2>1, <2>2 DEF Apt
  <2> QED  BY <2>3 DEF m
<1>7. v \in A[y] /\ B = SetTo(x, "AVERAGE") => AllApt(k, d, s, c, A, B)
  BY <1>4, <1>6 DEF AllApt
<1>8. \A m : m.do = "put" /\ m.at = at => Reaches(k, d, m, c, x)
  BY <1>5
<1> QED  BY <1>7, <1>8 DEF at, s, x, y

LEMMA ModeStarts ==
  ASSUME kind \in Scopes, Base, NEW c \in Issued(kind), c.op = "acq mode", NEW A,
         kind = "SiglentSDS1000XE" => host.average \in A[<<"average", 0>>]
  PROVE  Starts(Steps(kind, host, c), c, A) /\ Remarks(kind, Steps(kind, host, c), c)
<1> DEFINE s == Steps(kind, host, c) B == AskedBy(kind, host, c) x == <<"acq mode", 0>> p == Put(x, c.name)
           at == <<"averaging", 0>> q == Put(at, host.average)
<1>1. kind \notin Psus \cup Dmms \cup Loads \cup {"Aardvark", "Keithley2400"} /\ kind \notin Numbered
  BY KindsApart DEF Numbered, Psus, Dmms
<1>2. s = ScopeSetting(kind, host, c) \o Check
  <2>1. s = ScopeMethod(kind, host, c) \o Check
    BY StepsAre DEF ScopeSteps
  <2>2. ScopeMethod(kind, host, c) = ScopeSetting(kind, host, c)
    BY DEF ScopeMethod
  <2> QED  BY <2>1, <2>2
<1>3. B = SetTo(x, c.name)
  BY <1>1 DEF AskedBy
<1>4. DOMAIN B = {x} /\ B[x] = c.name
  BY <1>3, SetToIs
<1>5. x \in Settings(kind)
  BY <1>1 DEF Settings
<1>6. /\ AllApt(kind, dev, Check, c, A, B) /\ Checks(Check) /\ Listed(Check)
      /\ AllApt(kind, dev, Refuse, c, A, B)
  BY LeavesSteps, LeavesApt, CheckChecks
<1>7. \/ s = p \o Check
      \/ s = Refuse \o Check
      \/ s = q \o Check /\ c.name = "AVERAGE" /\ kind = "SiglentSDS1000XE"
  BY <1>2 DEF ScopeSetting, KeysightSetting, TekSetting, SiglentSetting, SiglentMode, Mode, Scopes
<1>8. Remarks(kind, s, c)
  BY DEF Remarks
<1> HIDE DEF B, s
<1>9. CASE s = p \o Check
  <2>1. AllApt(kind, dev, p, c, A, B) /\ \A m : m.do = "put" /\ m.at = x => Reaches(kind, dev, m, c, x)
    <3>1. "acq mode" \in SettingNames \ {"averaging", "trigger", "recall"}
      BY DEF SettingNames
    <3>2. Addressed(dev, x) = x
      BY <1>5, SettingAim
    <3> QED  BY <1>1, <1>4, <3>1, <3>2, PlainPut
  <2> HIDE DEF x
  <2>2. AllApt(kind, dev, s, c, A, B) /\ Sends(s, x, c.name)
    BY <1>6, <1>9, <2>1, PutThen
  <2> QED  BY <1>1, <1>4, <1>8, <2>1, <2>2, OneStarts DEF B, s
<1>10. CASE s = Refuse \o Check
  <2>1. Listed(Refuse)
    BY <1>6 DEF AllApt
  <2>2. Refuses(s)
    BY <1>6, <1>10, <2>1, CatAsks, DirectSteps
  <2>3. AllApt(kind, dev, s, c, A, B)
    BY <1>6, <1>10, AptMore
  <2>4. Starts(s, c, A)
    BY <2>2, <2>3 DEF Starts, B
  <2> QED  BY <1>8, <2>4 DEF s
<1>11. CASE s = q \o Check /\ c.name = "AVERAGE" /\ kind = "SiglentSDS1000XE"
  <2>1. AllApt(kind, dev, q, c, A, B) /\ \A m : m.do = "put" /\ m.at = at => Reaches(kind, dev, m, c, x)
    BY <1>3, <1>11, AveragingApt
  <2> HIDE DEF x, at
  <2>2. AllApt(kind, dev, s, c, A, B) /\ Sends(s, at, host.average)
    BY <1>6, <1>11, <2>1, PutThen
  <2> QED  BY <1>1, <1>4, <1>8, <2>1, <2>2, OneStarts DEF B, s
<1> QED  BY <1>7, <1>9, <1>10, <1>11

LEMMA RecallStarts ==
  ASSUME kind \in Scopes, NEW c \in Issued(kind), c.op \in {"load"}, NEW A, DOMAIN A = Accounts(kind)
  PROVE  Starts(Steps(kind, host, c), c, A) /\ Remarks(kind, Steps(kind, host, c), c)
<1> DEFINE s == Steps(kind, host, c) B == AskedBy(kind, host, c) at == <<"recall", 0>> p == Put(at, 0)
           u == Put(<<"upload", 0>>, 0) e == Put(<<"delete", 0>>, 0)
<1>1. kind \notin Psus \cup Dmms \cup Loads \cup {"Aardvark", "Keithley2400"} /\ kind \notin Numbered
  BY KindsApart DEF Numbered, Psus, Dmms
<1>2. s = LoadSettings(kind) \o Check
  <2>1. s = ScopeMethod(kind, host, c) \o Check
    BY StepsAre DEF ScopeSteps
  <2>2. ScopeMethod(kind, host, c) = LoadSettings(kind)
    BY DEF ScopeMethod
  <2> QED  BY <2>1, <2>2
<1>3. B = [x \in {Select} \cup Settings(kind) |-> Default(kind, x)]
  BY <1>1 DEF AskedBy, Default
<1>4. \A x \in DOMAIN A : x \in DOMAIN B /\ B[x] = Default(kind, x)
  BY <1>3 DEF Accounts
<1>5. /\ AllApt(kind, dev, Check, c, A, B) /\ Checks(Check) /\ IsSeq(Check)
      /\ AllApt(kind, dev, u, c, A, B) /\ AllApt(kind, dev, e, c, A, B) /\ AllApt(kind, dev, <<>>, c, A, B)
  <2>1. \A name : name \notin SettingNames \cup {"select"} => Leaves(kind, Put(<<name, 0>>, 0))
    BY LeavesSteps
  <2>2. Leaves(kind, u) /\ Leaves(kind, e)
    BY <2>1 DEF SettingNames
  <2> QED  BY <2>2, LeavesSteps, LeavesApt, CheckChecks
<1>6. \/ s = p \o Check
      \/ s = ((u \o p) \o e) \o Check
  BY <1>2 DEF LoadSettings, TekLoad
<1> HIDE DEF B, s
<1>7. at[1] = "recall"
  OBVIOUS
<1> HIDE DEF at
<1>8. ASSUME NEW m, m.do = "put", m.at = at
      PROVE  /\ ~Spare(kind, m) /\ m.at[1] \in Sources
             /\ \A x : Reaches(kind, dev, m, c, x) /\ Gives(kind, m, x) = Default(kind, x)
  <2>1. m.at[1] = "recall"
    BY <1>7, <1>8
  <2>2. ~Spare(kind, m)
    BY <1>8, <2>1 DEF Spare, SettingNames
  <2> QED  BY <1>8, <2>1, <2>2 DEF Reaches, Gives, Sources
<1>9. Listed(p) /\ DOMAIN p = {1} /\ p[1].do = "put" /\ p[1].at = at
  BY PutOnly
<1>10. AllApt(kind, dev, p, c, A, B)
  <2> DEFINE m == p[1]
  <2>1. m.do = "put" /\ m.at = at
    BY <1>9
  <2> HIDE DEF m
  <2>2. /\ ~Spare(kind, m) /\ m.at[1] \in Sources
        /\ \A x : Reaches(kind, dev, m, c, x) /\ Gives(kind, m, x) = Default(kind, x)
    BY <1>8, <2>1
  <2>3. Apt(kind, dev, m, c, A, B)
    BY <1>1, <1>4, <2>1, <2>2 DEF Apt
  <2> QED  BY <1>9, <2>3 DEF AllApt, m
<1>11. AllApt(kind, dev, s, c, A, B) /\ Sends(s, at, 0)
  <2>1. CASE s = p \o Check
    BY <1>5, <1>10, <2>1, PutThen
  <2>2. CASE s = ((u \o p) \o e) \o Check
    <3>1. AllApt(kind, dev, e \o Check, c, A, B) /\ Checks(e \o Check)
      <4>1. Listed(e) /\ Listed(Check)
        BY <1>5 DEF AllApt
      <4> HIDE DEF e
      <4> QED  BY <1>5, <4>1, AptMore, SendsMore
    <3>2. AllApt(kind, dev, (u \o p) \o (e \o Check), c, A, B) /\ Sends((u \o p) \o (e \o Check), at, 0)
      BY <1>5, <1>10, <3>1, PutThen
    <3> HIDE DEF u, p, e
    <3>3. IsSeq(u \o p) /\ IsSeq(e)
      <4>1. AllApt(kind, dev, u \o p, c, A, B)
        BY <1>5, <1>10, AptMore
      <4> QED  BY <1>5, <4>1 DEF AllApt, Listed
    <3>4. ((u \o p) \o e) \o Check = (u \o p) \o (e \o Check)
      <4> DEFINE r == u \o p
      <4>1. IsSeq(r)
        BY <3>3
      <4> HIDE DEF r
      <4>2. (r \o e) \o Check = r \o (e \o Check)
        BY <1>5, <3>3, <4>1, CatAssoc
      <4> QED  BY <4>2 DEF r
    <3> QED  BY <2>2, <3>2, <3>4
  <2> QED  BY <1>6, <2>1, <2>2
<1>12. \A x : \E i \in DOMAIN s : Reaches(kind, dev, s[i], c, x) /\ Backs(kind, s, i)
  BY <1>1, <1>8, <1>11, SentReaches
<1>13. PICK i \in DOMAIN s, j \in DOMAIN s : i < j /\ s[i].do = "put" /\ s[i].at = at /\ s[j].do = "check"
  BY <1>11 DEF Sends
<1>14. Starts(s, c, A)
  BY <1>11, <1>12 DEF Starts, B
<1>15. Remarks(kind, s, c)
  <2>1. Backs(kind, s, i) /\ s[i].at[1] = "recall"
    BY <1>1, <1>7, <1>13 DEF Backs
  <2> QED  BY <1>13, <2>1 DEF Remarks
<1> QED  BY <1>14, <1>15 DEF s

\* The steps a call of the user's starts with.
LEMMA CallStarts ==
  ASSUME Base, kind \in Psus \cup Dmms \cup Loads \cup Scopes, NEW c \in Issued(kind), Ready(kind, host, c),
         kind \in Dmms => FunctionInv, kind \in Loads => LoadInv, NEW A, DOMAIN A = Accounts(kind),
         kind \in Scopes => /\ KnownSource(host) \in A[Select] /\ dev.sel \in A[Select]
                            /\ c.op = "level" => A[Select] = asked[Select]
                            /\ kind = "SiglentSDS1000XE" => host.average \in A[<<"average", 0>>]
  PROVE  /\ Starts(Steps(kind, host, c), c, A)
         /\ kind \in Scopes => Remarks(kind, Steps(kind, host, c), c)
<1> DEFINE s == Steps(kind, host, c)
<1>1. kind # "Aardvark"
  BY KindsApart
<1>2. CASE Innocent(kind, c)
  <2>1. Leaves(kind, s)
    BY <1>2, CallLeaves
  <2>2. DOMAIN AskedBy(kind, host, c) = {}
    BY <1>1, <1>2, NothingAsked DEF Innocent
  <2>3. AllApt(kind, dev, s, c, A, AskedBy(kind, host, c))
    BY <2>1, LeavesApt
  <2>4. c.op \notin {"source", "set", "load"}
    BY <1>2 DEF Innocent
  <2> HIDE DEF s
  <2>5. Starts(s, c, A)
    BY <2>2, <2>3 DEF Starts
  <2>6. Remarks(kind, s, c)
    BY <2>4 DEF Remarks
  <2> QED  BY <2>5, <2>6 DEF s
<1>3. CASE ~Innocent(kind, c)
  <2>1. CASE kind \in Psus
    <3>1. c.op = "set" /\ kind \notin Scopes
      BY <1>3, <2>1, PsuCalls, KindsApart DEF Innocent
    <3> QED  BY <2>1, <3>1, PsuStarts
  <2>2. CASE kind \in Dmms
    <3>1. kind \notin Scopes
      BY <2>2, KindsApart
    <3> QED  BY <1>3, <2>2, <3>1, DmmStarts
  <2>3. CASE kind \in Loads
    <3>1. kind \notin Scopes
      BY <2>3, KindsApart
    <3> QED  BY <1>3, <2>3, <3>1, LoadStarts
  <2>4. CASE kind \in Scopes
    <3>1. c.op \in {"set", "acq mode", "source", "type", "level", "load"}
      BY <1>3, <2>4, ScopeCalls DEF Innocent
    <3>2. CASE c.op = "set"
      BY <2>4, <3>2, SettingStarts
    <3>3. CASE c.op = "acq mode"
      BY <2>4, <3>3, ModeStarts
    <3>4. CASE c.op = "source"
      BY <2>4, <3>4, SourceStarts
    <3>5. CASE c.op = "type"
      BY <2>4, <3>5, TypeStarts
    <3>6. CASE c.op = "level"
      BY <2>4, <3>6, LevelStarts
    <3>7. CASE c.op = "load"
      BY <2>4, <3>7, RecallStarts
    <3> QED  BY <3>1, <3>2, <3>3, <3>4, <3>5, <3>6, <3>7
  <2> QED  BY <2>1, <2>2, <2>3, <2>4
<1> QED  BY <1>2, <1>3

\* A call that asks for nothing leaves what is asked for as it is.
LEMMA AskingNothing ==
  ASSUME NEW h, NEW c, asked = [x \in Accounts(kind) |-> asked[x]], DOMAIN AskedBy(kind, h, c) = {}
  PROVE  AskedToo(kind, h, c) = asked /\ AskedOnly(kind, h, c) = asked
<1> DEFINE B == AskedBy(kind, h, c)
<1>1. DOMAIN asked = Accounts(kind) /\ DOMAIN B = {}
  OBVIOUS
<1> HIDE DEF B
<1>2. \A x : IF x \in DOMAIN B THEN FALSE ELSE TRUE
  BY <1>1
<1>3. [x \in DOMAIN asked |-> asked[x] \cup (IF x \in DOMAIN B THEN {B[x]} ELSE {})] = [x \in Accounts(kind) |-> asked[x]]
  BY <1>1
<1>4. [x \in DOMAIN asked |->
         IF x \in DOMAIN B /\ (kind \in Scopes /\ c.op = "level" => Sole(asked[Select]))
         THEN {B[x]} ELSE asked[x]] = [x \in Accounts(kind) |-> asked[x]]
  BY <1>1
<1> QED  BY <1>3, <1>4 DEF AskedToo, AskedOnly, B

\* The other thread enters: it asks for nothing, and leaves the settings.
LEMMA OthersEnter ==
  ASSUME NEW t \in Threads \ {User}, kind \in Psus \cup Dmms \cup Loads \cup Scopes, kind' = kind, Base, Settles,
         NEW c \in Calls(t), Begins(t, c), asked' = AskedToo(kind, host, c), holder' = holder
  PROVE  Settles'
<1>0. User \in Threads /\ kind # "Aardvark"
  BY BenchAssumption, KindsApart
<1>1. c \in Reads(kind) \cup Statuses(kind) /\ c \in Issued(kind)
  BY CallsAreIssued DEF Calls
<1>2. c.op \in {"get", "read", "state", "fetch", "measure", "status"}
  BY <1>1, ReadsLock
<1>3. Leaves(kind, Steps(kind, host, c))
  BY <1>1, <1>2, CallLeaves DEF Innocent
<1>4. asked' = asked
  <2>1. DOMAIN AskedBy(kind, host, c) = {}
    BY <1>0, <1>2, NothingAsked
  <2> QED  BY <2>1, AskingNothing DEF Settles
<1>5. host' = host /\ dev' = dev /\ (\A u \in Threads \ {t} : call'[u] = call[u]) /\ call'[User] = call[User]
  BY <1>0 DEF Begins, Others
<1>6. InForce'
  BY <1>4, <1>5 DEF Settles, InForce, Held1
<1>7. \A u \in Threads \ {User} : Apart(u)'
  <2>1. \A u \in Threads \ {User, t} : Apart(u)'
    BY <1>5 DEF Settles, Apart, Underway, Busy
  <2>2. call'[t].c = c /\ call'[t].todo = Steps(kind, host, c)
    BY DEF Begins
  <2>3. Apart(t)'
    BY <1>1, <1>3, <2>2 DEF Apart
  <2> QED  BY <2>1, <2>3
<1>8. Orders' /\ Memory'
  <2>1. \A d : AskedBy(kind, host, d)' = AskedBy(kind, host, d) /\ Wanted(d)' = Wanted(d)
    BY <1>4, <1>5, WantedSame
  <2>2. \A d : Meant(d)' <=> Meant(d)
    BY <1>4, <2>1 DEF Meant
  <2>3. Orders'
    BY <1>4, <1>5, <2>1, <2>2 DEF Settles, Orders, Busy
  <2>4. Memory'
    BY <1>4, <1>5 DEF Settles, Memory, Busy, KnownSource
  <2> QED  BY <2>3, <2>4
<1> QED  BY <1>4, <1>6, <1>7, <1>8 DEF Settles

\* The user's call enters.
LEMMA UserEnters ==
  ASSUME kind \in Psus \cup Dmms \cup Loads \cup Scopes, kind' = kind, Reports, Settles, NEW c \in Calls(User),
         Ready(kind, host, c), Begins(User, c), asked' = AskedToo(kind, host, c), holder' = holder
  PROVE  Settles'
<1> DEFINE s == Steps(kind, host, c) B == AskedBy(kind, host, c) A == AskedToo(kind, host, c)
<1>0. User \in Threads /\ c \in Issued(kind) /\ Base
  BY BenchAssumption, CallsAreIssued DEF Reports
<1>1. DOMAIN asked = Accounts(kind) /\ InForce
  BY DEF Settles
<1>2. /\ A = [x \in Accounts(kind) |-> A[x]] /\ DOMAIN A = Accounts(kind)
      /\ \A x \in Accounts(kind) : A[x] = asked[x] \cup (IF x \in DOMAIN B THEN {B[x]} ELSE {})
  BY <1>1 DEF AskedToo
<1>3. kind \in Scopes => /\ Select \in Accounts(kind) /\ <<"average", 0>> \in Accounts(kind)
                         /\ kind \notin Psus /\ kind # "Keithley2400" /\ kind \notin Loads
  <2> SUFFICES ASSUME kind \in Scopes  PROVE Select \in Accounts(kind) /\ <<"average", 0>> \in Accounts(kind)
    BY KindsApart DEF Dmms
  <2>1. <<"average", 0>> \in Settings(kind)
    BY KindsApart DEF Settings
  <2> QED  BY <2>1 DEF Accounts
<1>4. kind \in Scopes /\ c.op = "level" => A[Select] = asked[Select]
  <2> SUFFICES ASSUME kind \in Scopes, c.op = "level"  PROVE Select \notin DOMAIN B
    BY <1>2, <1>3
  <2>1. DOMAIN B = {"level"} \X asked[Select]
    BY <1>3 DEF AskedBy
  <2>2. Select[1] # "level"
    BY DEF Select
  <2> HIDE DEF B
  <2> QED  BY <2>1, <2>2
<1>5. B' = B
  <2>1. host' = host /\ (kind \in Scopes /\ c.op = "level" => asked'[Select] = asked[Select])
    BY <1>4 DEF Begins
  <2>2. CASE kind \in Scopes /\ c.op = "level"
    <3>1. kind \notin Psus /\ kind # "Keithley2400" /\ kind \notin Loads
      BY <1>3, <2>2
    <3>2. B = [x \in {"level"} \X asked[Select] |-> c.val] /\ B' = [x \in {"level"} \X asked'[Select] |-> c.val]
      BY <2>2, <3>1 DEF AskedBy
    <3> QED  BY <2>1, <2>2, <3>2
  <2>3. CASE ~(kind \in Scopes /\ c.op = "level")
    BY <2>1, <2>3 DEF AskedBy
  <2> QED  BY <2>2, <2>3
<1>6. kind \in Scopes => /\ KnownSource(host) \in asked[Select] /\ dev.sel \in asked[Select]
                         /\ kind = "SiglentSDS1000XE" => host.average \in asked[<<"average", 0>>]
  BY <1>1, <1>3 DEF Settles, Memory, InForce, Held1
<1> HIDE DEF A, B
<1>7. kind \in Scopes => /\ KnownSource(host) \in A[Select] /\ dev.sel \in A[Select]
                         /\ kind = "SiglentSDS1000XE" => host.average \in A[<<"average", 0>>]
  <2> SUFFICES ASSUME kind \in Scopes
               PROVE  /\ KnownSource(host) \in A[Select] /\ dev.sel \in A[Select]
                      /\ kind = "SiglentSDS1000XE" => host.average \in A[<<"average", 0>>]
    OBVIOUS
  <2>1. asked[Select] \subseteq A[Select] /\ asked[<<"average", 0>>] \subseteq A[<<"average", 0>>]
    BY <1>2, <1>3
  <2> QED  BY <1>6, <2>1
<1>8. Starts(s, c, A) /\ (kind \in Scopes => Remarks(kind, s, c))
  BY <1>0, <1>2, <1>4, <1>7, CallStarts DEF Reports, DmmInv
<1>9. call'[User].c = c /\ call'[User].todo = s /\ Busy(User)' /\ host' = host /\ dev' = dev
      /\ \A u \in Threads \ {User} : call'[u] = call[u]
  BY DEF Begins, Busy, Others
<1> HIDE DEF s
<1>10. asked' = A /\ AllApt(kind, dev, s, c, A, B)
  BY <1>8 DEF A, B, Starts
<1>11. Orders'
  <2> DEFINE V == [x \in {y \in DOMAIN A \cap DOMAIN B :
                            kind \in Scopes /\ c.op = "level" => Sole(A[Select])} |-> B[x]]
  <2>1. Wanted(c)' = V
    BY <1>5, <1>10 DEF Wanted, B
  <2>2. \A x \in DOMAIN A \cap DOMAIN B : B[x] \in A[x]
    BY <1>2
  <2>3. Meant(c)'
    BY <1>5, <1>10, <2>2 DEF Meant, B
  <2>4. \A x \in DOMAIN V : x \in DOMAIN A \cap DOMAIN B /\ V[x] = B[x]
    OBVIOUS
  <2>5. \A x \in DOMAIN V : Refuses(s) \/ \E i \in DOMAIN s : Reaches(kind, dev, s[i], c, x) /\ Backs(kind, s, i)
    BY <1>8 DEF Starts, B
  <2> HIDE DEF V
  <2>6. Keeps(kind, dev, holder, s, c, A, V)
    BY <1>10, <2>2, <2>4, <2>5, StartKeeps
  <2> QED  BY <1>9, <1>10, <2>1, <2>3, <2>6 DEF Orders
<1>12. InForce'
  BY <1>1, <1>2, <1>9, <1>10 DEF InForce, Held1
<1>13. \A u \in Threads \ {User} : Apart(u)'
  BY <1>9 DEF Settles, Apart, Underway, Busy
<1>14. Memory'
  <2> SUFFICES ASSUME kind \in Scopes  PROVE Minds(kind, host, dev, holder, s, c)
    <3>1. KnownSource(host') = KnownSource(host)
      BY <1>9
    <3> QED  BY <1>7, <1>9, <1>10, <3>1 DEF Memory
  <2>1. \A i \in DOMAIN s : s[i].do = "note" =>
          /\ s[i].at = "source" => c.op = "source" /\ s[i].to = c.ch
          /\ s[i].at = "average" => c.op = "set" /\ c.name = "average" /\ s[i].to = c.val
    BY <1>10 DEF AllApt, Apt
  <2>2. Remarks(kind, s, c)
    BY <1>8
  <2> QED  BY <2>1, <2>2 DEF Minds, Remarks
<1>15. asked' = [x \in Accounts(kind) |-> asked'[x]]
  BY <1>2, <1>10
<1> QED  BY <1>11, <1>12, <1>13, <1>14, <1>15 DEF Settles

LEMMA EnterSettles ==
  ASSUME NEW t \in Threads, Inv, kind # "Aardvark", Reports, Settles, Enter(t), kind' = kind
  PROVE  Settles'
<1>1. Base /\ kind \in Psus \cup Dmms \cup Loads \cup Scopes
  BY KindIs DEF Reports
<1>2. holder' = holder
  BY DEF Enter, visaVars
<1>3. PICK c \in Calls(t) : Begins(t, c) /\ Ready(kind, host, c) /\ asked' = AskedToo(kind, host, c)
  BY <1>1, EnterBegins
<1>4. CASE t = User
  BY <1>1, <1>2, <1>3, <1>4, UserEnters
<1>5. CASE t # User
  BY <1>1, <1>2, <1>3, <1>5, OthersEnter
<1> QED  BY <1>4, <1>5

----------------------------------------------------------------------------
(* After the last step *)

\* What changes nothing of this leaves it true.
LEMMA QuietSettles ==
  ASSUME kind' = kind, asked' = asked, holder' = holder, SameDev, dev'.errs = dev.errs, Settles,
         host'.source = host.source, host'.average = host.average,
         Busy(User)' => /\ Busy(User) /\ call'[User] = call[User]
                        /\ kind \in Dmms => host'.func = host.func
                        /\ kind \in Loads => host'.mode = host.mode,
         \A u \in Threads \ {User} : Apart(u)'
  PROVE  Settles'
<1> DEFINE s == call[User].todo c == call[User].c V == Wanted(c)
<1>1. \A x : Held1(dev', x) = Held1(dev, x)
  BY HeldSame
<1>2. InForce'
  BY <1>1 DEF Settles, InForce
<1>3. \A e : FoundOut(kind, dev, holder, e) <=> FoundOut(kind, dev', holder, e)
  BY DEF FoundOut
<1>4. Orders'
  <2> SUFFICES ASSUME Busy(User)'  PROVE Meant(c)' /\ Keeps(kind, dev, holder, s, c, asked, V)'
    BY DEF Orders
  <2>1. V' = V /\ AskedBy(kind, host, c)' = AskedBy(kind, host, c) /\ s' = s /\ c' = c
    BY WantedSame
  <2>2. Meant(c) /\ Keeps(kind, dev, holder, s, c, asked, V)
    BY DEF Settles, Orders
  <2>3. DOMAIN dev'.reg = DOMAIN dev.reg /\ dev'.sel = dev.sel
    BY DEF SameDev
  <2>4. \A j \in DOMAIN s : \A x : Reaches(kind, dev', s[j], c, x) <=> Reaches(kind, dev, s[j], c, x)
    BY <2>3, SameAims
  <2> HIDE DEF s, c, V
  <2>5. Keeps(kind, dev', holder, s, c, asked, V)
    BY <1>1, <1>3, <2>2, <2>4, KeepsStays
  <2> QED  BY <2>1, <2>2, <2>5 DEF Meant
<1>5. Memory'
  <2> SUFFICES ASSUME kind \in Scopes
               PROVE  /\ KnownSource(host') \in asked[Select]
                      /\ kind = "SiglentSDS1000XE" => host'.average \in asked[<<"average", 0>>]
                      /\ Busy(User)' => Minds(kind, host', dev', holder, s, c)
    BY DEF Memory
  <2>1. KnownSource(host') = KnownSource(host)
    BY DEF KnownSource
  <2>2. ASSUME Busy(User)'  PROVE Minds(kind, host', dev', holder, s, c)
    <3>1. Minds(kind, host, dev, holder, s, c)
      BY <2>2 DEF Settles, Memory
    <3> HIDE DEF s, c
    <3> QED  BY <1>3, <3>1 DEF Minds
  <2> QED  BY <2>1, <2>2 DEF Settles, Memory
<1> QED  BY <1>2, <1>4, <1>5 DEF Settles

\* What sets the triggering channel and the average count of a scope.
LEMMA ScopeAsks ==
  ASSUME kind \in Scopes, NEW h, NEW c \in Issued(kind)
  PROVE  LET B == AskedBy(kind, h, c) avg == <<"average", 0>> IN
         /\ Select \in DOMAIN B => (c.op = "source" /\ B[Select] = c.ch) \/ (c.op = "load" /\ B[Select] = 1)
         /\ avg \in DOMAIN B => \/ c.op = "set" /\ c.name = "average" /\ B[avg] = c.val
                                \/ c.op = "load" /\ B[avg] = 0
<1> DEFINE B == AskedBy(kind, h, c) avg == <<"average", 0>>
<1>1. kind \notin Psus /\ kind # "Keithley2400" /\ kind \notin Loads /\ kind # "Aardvark"
  BY KindsApart DEF Dmms
<1>2. /\ c.op \in {"open", "close", "get", "state", "fetch", "measure", "set", "acq mode", "slope", "save",
                   "run", "stop", "single", "force", "load", "source", "type", "level"}
      /\ c.op = "set" => (c.name = "scale" /\ c.ch = 1) \/ (c.name = "average" /\ c.ch = 0)
  BY ScopeCalls, ScopeSets
<1>3. Select[1] = "select" /\ avg[1] = "average" /\ avg # Select
  BY DEF Select
<1>4. CASE c.op \in {"open", "close", "get", "state", "fetch", "measure", "slope", "save", "run", "stop", "single", "force", "type"}
  <2>1. DOMAIN B = {}
    BY <1>1, <1>4, NothingAsked
  <2> HIDE DEF B, avg
  <2> QED  BY <2>1 DEF B, avg
<1>5. CASE c.op = "set"
  <2>1. B = SetTo(<<c.name, c.ch>>, c.val)
    BY <1>1, <1>5 DEF AskedBy
  <2>2. DOMAIN B = {<<c.name, c.ch>>} /\ \A x \in DOMAIN B : B[x] = c.val
    BY <2>1 DEF SetTo
  <2>3. Select \notin DOMAIN B
    <3>1. <<c.name, c.ch>>[1] # "select"
      BY <1>2, <1>5
    <3> QED  BY <1>3, <2>2, <3>1
  <2>4. avg \in DOMAIN B => c.name = "average" /\ B[avg] = c.val
    <3> SUFFICES ASSUME avg \in DOMAIN B  PROVE c.name = "average" /\ B[avg] = c.val
      OBVIOUS
    <3>1. avg = <<c.name, c.ch>>
      BY <2>2
    <3>2. c.name = "average"
      BY <3>1
    <3> QED  BY <2>2, <3>2
  <2> HIDE DEF B, avg
  <2> QED  BY <1>5, <2>3, <2>4 DEF B, avg
<1>6. CASE c.op = "acq mode"
  <2>1. B = SetTo(<<"acq mode", 0>>, c.name)
    BY <1>1, <1>6 DEF AskedBy
  <2>2. DOMAIN B = {<<"acq mode", 0>>} /\ <<"acq mode", 0>>[1] = "acq mode"
    BY <2>1 DEF SetTo
  <2>3. Select \notin DOMAIN B /\ avg \notin DOMAIN B
    BY <1>3, <2>2
  <2> HIDE DEF B, avg
  <2> QED  BY <2>3 DEF B, avg
<1>7. CASE c.op = "source"
  <2>1. B = SetTo(Select, c.ch)
    BY <1>1, <1>7 DEF AskedBy
  <2>2. DOMAIN B = {Select} /\ B[Select] = c.ch
    BY <2>1 DEF SetTo
  <2> HIDE DEF B, avg
  <2> QED  BY <1>3, <1>7, <2>2 DEF B, avg
<1>8. CASE c.op = "level"
  <2>1. B = [x \in {"level"} \X asked[Select] |-> c.val]
    BY <1>1, <1>8 DEF AskedBy
  <2>2. \A x \in DOMAIN B : x[1] = "level"
    BY <2>1
  <2>3. Select \notin DOMAIN B /\ avg \notin DOMAIN B
    <3> HIDE DEF B, avg
    <3> QED  BY <1>3, <2>2
  <2> HIDE DEF B, avg
  <2> QED  BY <2>3 DEF B, avg
<1>9. CASE c.op = "load"
  <2>1. B = [x \in {Select} \cup Settings(kind) |-> IF x = Select THEN 1 ELSE Fresh(kind)[x]]
    BY <1>1, <1>9 DEF AskedBy
  <2>2. B[Select] = 1
    BY <2>1
  <2>3. ASSUME avg \in DOMAIN B  PROVE B[avg] = 0
    <3>1. avg \in Settings(kind) /\ B[avg] = Fresh(kind)[avg]
      BY <1>3, <2>1, <2>3
    <3>2. Fresh(kind)[avg] = 0
      BY <3>1 DEF Fresh
    <3> QED  BY <3>1, <3>2
  <2> HIDE DEF B, avg
  <2> QED  BY <1>9, <2>2, <2>3 DEF B, avg
<1> HIDE DEF B, avg
<1>10. c.op \in {"open", "close", "get", "state", "fetch", "measure", "slope", "save", "run", "stop", "single", "force", "type"}
       \/ c.op = "set" \/ c.op = "acq mode" \/ c.op = "source" \/ c.op = "level" \/ c.op = "load"
  BY <1>2
<1> QED  BY <1>4, <1>5, <1>6, <1>7, <1>8, <1>9, <1>10 DEF B, avg

\* The user's call has taken its last step: what it asked for is in force.
LEMMA UserFinishes ==
  ASSUME kind \in Psus \cup Dmms \cup Loads \cup Scopes, kind' = kind, Base, Settles, Finish(User), holder' = holder
  PROVE  Settles'
<1> DEFINE c == call[User].c B == AskedBy(kind, host, c) V == Wanted(c) A == AskedOnly(kind, host, c) avg == <<"average", 0>>
<1>0. User \in Threads
  BY BenchAssumption
<1>1. /\ Others(User) /\ Busy(User) /\ call[User].todo = <<>> /\ call'[User].phase = "post"
      /\ host' = host /\ dev' = dev /\ asked' = A
  BY <1>0, FinishEnds
<1>2. DOMAIN asked = Accounts(kind) /\ Meant(c) /\ Keeps(kind, dev, holder, <<>>, c, asked, V) /\ c \in Issued(kind)
  BY <1>0, <1>1 DEF Settles, Orders, Base, CallIsWhole, Underway, Busy
<1>3. /\ DOMAIN A = Accounts(kind) /\ A = [x \in Accounts(kind) |-> A[x]]
      /\ \A x \in Accounts(kind) : IF x \in DOMAIN V THEN A[x] = {V[x]} ELSE A[x] = asked[x]
  BY <1>2 DEF AskedOnly, Wanted
<1>4. DOMAIN V \subseteq Accounts(kind) /\ DOMAIN V \subseteq DOMAIN B /\ \A x \in DOMAIN V : V[x] = B[x]
  BY <1>2 DEF Wanted
<1> HIDE DEF c, B, V, A, avg
<1>5. ASSUME NEW x \in DOMAIN V  PROVE Held1(dev, x) = V[x]
  <2>1. DOMAIN <<>> = {} /\ ~Refuses(<<>>) /\ ~Checks(<<>>)
    BY EmptyIs DEF Checks
  <2>2. ~FoundOut(kind, dev, holder, <<>>)
    BY <2>1, EmptyIs DEF FoundOut
  <2> QED  BY <1>2, <1>5, <2>1, <2>2 DEF Keeps, Settled
<1>6. InForce'
  BY <1>1, <1>3, <1>4, <1>5 DEF Settles, InForce, Held1
<1>7. ~Busy(User)'
  BY <1>1 DEF Busy
<1>8. \A u \in Threads \ {User} : Apart(u)'
  BY <1>1 DEF Others, Settles, Apart, Underway, Busy
<1>9. ASSUME kind \in Scopes
      PROVE  /\ KnownSource(host) \in A[Select]
             /\ kind = "SiglentSDS1000XE" => host.average \in A[avg]
  <2>1. Select \in Accounts(kind) /\ avg \in Accounts(kind)
    <3>1. avg \in Settings(kind)
      BY <1>9, KindsApart DEF Settings, avg
    <3> QED  BY <1>9, <3>1 DEF Accounts
  <2>2. /\ Minds(kind, host, dev, holder, <<>>, c)
        /\ KnownSource(host) \in asked[Select]
        /\ kind = "SiglentSDS1000XE" => host.average \in asked[avg]
    BY <1>1, <1>9 DEF Settles, Memory, c, avg
  <2>3. /\ c.op = "source" => host.source = c.ch
        /\ kind = "SiglentSDS1000XE" /\ c.op = "set" /\ c.name = "average" => host.average = c.val
        /\ c.op = "load" => host.source = None /\ (kind = "SiglentSDS1000XE" => host.average = 0)
    <3>1. DOMAIN <<>> = {} /\ ~Checks(<<>>)
      BY EmptyIs DEF Checks
    <3>2. ~FoundOut(kind, dev, holder, <<>>)
      BY <3>1, EmptyIs DEF FoundOut
    <3> QED  BY <2>2, <3>1, <3>2 DEF Minds
  <2>4. /\ Select \in DOMAIN B => (c.op = "source" /\ B[Select] = c.ch) \/ (c.op = "load" /\ B[Select] = 1)
        /\ avg \in DOMAIN B => \/ c.op = "set" /\ c.name = "average" /\ B[avg] = c.val
                               \/ c.op = "load" /\ B[avg] = 0
    BY <1>2, <1>9, ScopeAsks DEF B, avg
  <2>5. KnownSource(host) \in A[Select]
    <3>1. CASE Select \in DOMAIN V
      <4>1. A[Select] = {B[Select]} /\ Select \in DOMAIN B
        BY <1>3, <1>4, <2>1, <3>1
      <4>2. c.op = "source" => c.ch # None
        <5>1. c.op = "source" => c.ch \in 1..2
          BY <1>2, <1>9, ScopeSets
        <5> QED  BY <5>1, ChannelsAssumption
      <4> QED  BY <2>3, <2>4, <4>1, <4>2 DEF KnownSource
    <3>2. CASE Select \notin DOMAIN V
      BY <1>3, <2>1, <2>2, <3>2
    <3> QED  BY <3>1, <3>2
  <2>6. ASSUME kind = "SiglentSDS1000XE"  PROVE host.average \in A[avg]
    <3>1. CASE avg \in DOMAIN V
      <4>1. A[avg] = {B[avg]} /\ avg \in DOMAIN B
        BY <1>3, <1>4, <2>1, <3>1
      <4> QED  BY <2>3, <2>4, <2>6, <4>1
    <3>2. CASE avg \notin DOMAIN V
      BY <1>3, <2>1, <2>2, <2>6, <3>2
    <3> QED  BY <3>1, <3>2
  <2> QED  BY <2>5, <2>6
<1>10. Memory'
  BY <1>1, <1>7, <1>9 DEF Memory, avg
<1> QED  BY <1>1, <1>3, <1>6, <1>7, <1>8, <1>10 DEF Settles, Orders

LEMMA FinishSettles ==
  ASSUME NEW t \in Threads, Base, kind \in Psus \cup Dmms \cup Loads \cup Scopes, kind' = kind, Settles, Finish(t)
  PROVE  Settles'
<1>1. holder' = holder
  BY DEF Finish, visaVars
<1>2. CASE t = User
  BY <1>1, <1>2, UserFinishes
<1>3. CASE t # User
  <2>1. /\ Others(t) /\ Busy(t) /\ call'[t].phase = "post" /\ call'[t].c = call[t].c
        /\ host' = host /\ dev' = dev /\ asked' = AskedOnly(kind, host, call[t].c)
    BY FinishEnds
  <2>2. User \in Threads /\ kind # "Aardvark" /\ call[t].c \in Reads(kind) \cup Statuses(kind)
    BY <1>3, <2>1, BenchAssumption, KindsApart DEF Settles, Apart, Underway, Busy
  <2>3. DOMAIN AskedBy(kind, host, call[t].c) = {}
    BY <2>2, ReadsLock, NothingAsked
  <2>4. asked' = asked
    BY <2>1, <2>3, AskingNothing DEF Settles
  <2>5. call'[User] = call[User] /\ (Busy(User)' <=> Busy(User))
    BY <1>3, <2>1, <2>2 DEF Others, Busy
  <2>6. \A u \in Threads \ {User, t} : Apart(u)'
    BY <2>1 DEF Others, Settles, Apart, Underway, Busy
  <2>7. Apart(t)'
    BY <2>1, <2>2 DEF Apart, Busy
  <2>8. SameDev
    BY <2>1 DEF SameDev
  <2> QED  BY <1>1, <2>1, <2>4, <2>5, <2>6, <2>7, <2>8, QuietSettles
<1> QED  BY <1>2, <1>3

LEMMA PostSettles ==
  ASSUME NEW t \in Threads, Base, kind \in Psus \cup Dmms \cup Loads \cup Scopes, kind' = kind, Settles, Post(t)
  PROVE  Settles'
<1> DEFINE c == call[t].c
<1>1. holder' = holder
  BY DEF Post, visaVars
<1>2. /\ Others(t) /\ call[t].phase = "post" /\ call'[t] = Idle /\ dev' = dev /\ asked' = asked
      /\ host' = CASE kind \in Dmms -> DmmPost(host, c)
                   [] kind \in Scopes -> ScopePost(host, c, call[t].got, "record")
                   [] OTHER -> host
  BY PostEnds
<1>3. User \in Threads /\ DOMAIN host = HostParts
  BY BenchAssumption DEF Base
<1>4. /\ host'.source = host.source /\ host'.average = host.average /\ host'.mode = host.mode
      /\ kind \in Dmms /\ c.op # "function" => host'.func = host.func
  <2>1. CASE kind \in Dmms
    <3>1. host' = DmmPost(host, c)
      BY <1>2, <2>1, KindsApart
    <3> QED  BY <1>3, <3>1 DEF DmmPost, HostParts
  <2>2. CASE kind \notin Dmms
    <3>1. \/ host' = host \/ host' = [host EXCEPT !.armed = TRUE]
          \/ host' = [host EXCEPT !.armed = FALSE, !.stamp = "record"]
      BY <1>2, <2>2 DEF ScopePost
    <3> QED  BY <1>3, <2>2, <3>1 DEF HostParts
  <2> QED  BY <2>1, <2>2
<1>5. ~Underway(t)' /\ ~Busy(t)'
  BY <1>2, IdleIs DEF Underway, Busy
<1>6. \A u \in Threads \ {User} : Apart(u)'
  <2>1. Apart(t)'
    BY <1>5 DEF Apart
  <2>2. \A u \in Threads \ {User, t} : Apart(u)'
    BY <1>2 DEF Others, Settles, Apart, Underway, Busy
  <2> QED  BY <2>1, <2>2
<1>7. ASSUME Busy(User)'
      PROVE  /\ Busy(User) /\ call'[User] = call[User] /\ host'.mode = host.mode
             /\ kind \in Dmms => host'.func = host.func
  <2>1. t # User
    BY <1>5, <1>7
  <2>2. c.op # "function"
    <3>1. c \in Reads(kind) \cup Statuses(kind)
      BY <1>2, <2>1 DEF Settles, Apart, Underway
    <3> QED  BY <3>1, ReadsLock
  <2>3. call'[User] = call[User]
    BY <1>2, <1>3, <2>1 DEF Others
  <2> QED  BY <1>4, <1>7, <2>2, <2>3 DEF Busy
<1>8. SameDev
  BY <1>2 DEF SameDev
<1> QED  BY <1>1, <1>2, <1>4, <1>6, <1>7, <1>8, QuietSettles

LEMMA PrepareSettles ==
  ASSUME NEW t \in Threads, Base, kind \in Psus \cup Dmms \cup Loads \cup Scopes, kind' = kind, Settles, Prepare(t)
  PROVE  Settles'
<1>1. holder' = holder
  BY DEF Prepare, visaVars
<1>2. PICK c \in Calls(t) : c.op = "mode" /\ host' = LoadPre(host, c)
  BY PrepareIs
<1>3. Others(t) /\ ~Underway(t) /\ call'[t].phase = "wait" /\ dev' = dev /\ asked' = asked /\ SameDev
  BY PrepareIs DEF SameDev
<1>4. t = User
  <2> SUFFICES ASSUME t # User  PROVE FALSE
    OBVIOUS
  <2>1. c \in Reads(kind) \cup Statuses(kind)
    BY DEF Calls
  <2> QED  BY <1>2, <2>1, ReadsLock
<1>5. host'.source = host.source /\ host'.average = host.average
  BY <1>2 DEF LoadPre, Base, HostParts
<1>6. ~Busy(User)' /\ \A u \in Threads \ {User} : Apart(u)'
  BY <1>3, <1>4 DEF Others, Settles, Apart, Underway, Busy
<1> QED  BY <1>1, <1>3, <1>5, <1>6, QuietSettles

LEMMA TriggerSettles ==
  ASSUME Base, kind' = kind, Settles, Trigger
  PROVE  Settles'
<1>1. SameDev /\ SameHost /\ dev'.errs = dev.errs /\ call' = call /\ asked' = asked /\ holder' = holder
  BY TriggerIsSame DEF Trigger, visaVars
<1>2. \A u \in Threads \ {User} : Apart(u)'
  BY <1>1 DEF Settles, Apart, Underway, Busy
<1> QED  BY <1>1, <1>2, QuietSettles DEF SameHost, Busy

LEMMA SettlesInit ==
  ASSUME Init, kind \in Psus \cup Dmms \cup Loads \cup Scopes
  PROVE  Settles
<1> DEFINE avg == <<"average", 0>>
<1>1. /\ call = [t \in Threads |-> Idle] /\ host = HostInit /\ dev = DevInit(kind) /\ asked = AskedInit(kind)
      /\ User \in Threads
  BY BenchAssumption DEF Init
<1>2. \A t \in Threads : ~Busy(t) /\ ~Underway(t)
  BY <1>1, IdleIs DEF Busy, Underway
<1>3. kind # "Aardvark" /\ (kind \in Scopes => kind \notin Psus /\ kind \notin Dmms /\ kind \notin Loads)
  BY KindsApart
<1>4. asked = [x \in Accounts(kind) |-> {IF x = Select THEN 1 ELSE Fresh(kind)[x]}]
  BY <1>1, <1>3 DEF AskedInit, Accounts
<1>5. dev.sel = 1 /\ dev.reg = Fresh(kind)
  BY <1>1 DEF DevInit
<1>6. InForce
  BY <1>4, <1>5 DEF InForce, Held1
<1>7. \A t \in Threads \ {User} : Apart(t)
  BY <1>2 DEF Apart
<1>8. Memory
  <2> SUFFICES ASSUME kind \in Scopes
               PROVE  /\ KnownSource(host) \in asked[Select]
                      /\ host.average \in asked[avg]
    BY <1>1, <1>2 DEF Memory
  <2>1. avg \in Settings(kind) /\ avg # Select
    <3>1. avg \in Settings(kind)
      BY <1>3 DEF Settings
    <3>2. avg[1] = "average" /\ Select[1] = "select"
      BY DEF Select
    <3> HIDE DEF avg
    <3> QED  BY <3>1, <3>2
  <2>2. Fresh(kind)[avg] = 0
    BY <2>1 DEF Fresh
  <2>3. Select \in Accounts(kind) /\ avg \in Accounts(kind)
    BY <2>1 DEF Accounts
  <2>4. host.source = None /\ host.average = 0
    BY <1>1 DEF HostInit
  <2> HIDE DEF avg
  <2>5. asked[Select] = {1} /\ asked[avg] = {0}
    BY <1>4, <2>1, <2>2, <2>3
  <2> QED  BY <2>4, <2>5 DEF KnownSource
<1> QED  BY <1>1, <1>2, <1>4, <1>6, <1>7, <1>8 DEF Settles, Orders

LEMMA SettlesHold == Inv /\ ReadInv /\ SettleInv /\ [Next]_vars => SettleInv'
<1> SUFFICES ASSUME Inv, ReadInv, SettleInv, [Next]_vars, ~adrift', kind' # "Aardvark"  PROVE Settles'
  BY DEF SettleInv
<1>1. CASE UNCHANGED vars
  <2>1. Settles /\ kind' = kind /\ asked' = asked /\ holder' = holder /\ dev' = dev /\ host' = host /\ call' = call
    BY <1>1 DEF SettleInv, vars, visaVars
  <2>2. \A u \in Threads \ {User} : Apart(u)'
    BY <2>1 DEF Settles, Apart, Underway, Busy
  <2>3. SameDev
    BY <2>1 DEF SameDev
  <2> QED  BY <2>1, <2>2, <2>3, QuietSettles DEF Busy
<1>2. CASE Next
  <2>1. kind' = kind /\ ~adrift
    BY <1>2, KindStays, NothingAfterDrift
  <2>2. /\ Settles /\ Reports /\ Base /\ kind # "Aardvark" /\ kind \in Psus \cup Dmms \cup Loads \cup Scopes
    BY <2>1, KindIs DEF SettleInv, ReadInv, Reports
  <2>3. Reports'
    BY <1>2, <2>1, ReadsHold DEF ReadInv
  <2>4. CASE Trigger
    BY <2>1, <2>2, <2>4, TriggerSettles
  <2>5. ASSUME NEW t \in Threads, Prepare(t) \/ Enter(t) \/ Finish(t) \/ Post(t) \/ StepOf(t)  PROVE Settles'
    BY <2>1, <2>2, <2>3, <2>5, PrepareSettles, EnterSettles, FinishSettles, PostSettles, StepSettles
  <2> QED  BY <1>2, <2>4, <2>5 DEF Next
<1> QED  BY <1>1, <1>2

LEMMA SettlesAreRight == SettleInv /\ kind # "Aardvark" => SettingsAreAsAsked
  BY DEF SettleInv, Settles, InForce, Held1, SettingsAreAsAsked, Holds

----------------------------------------------------------------------------
(* The fields of a register                                                 *)

\* What the provers have to be told of the powers of two.
PowersOfTwo == 2 ^ 0 = 1 /\ 2 ^ 1 = 2 /\ 2 ^ 2 = 4

Raws == 0..7
Held2 == dev.reg[Register]

\* What a call asks of the fields.
Fielded(c) ==
  IF c.op = "set" /\ c.name \in Fields THEN SetTo(<<c.name, 0>>, c.val % (2 ^ FieldDef[c.name].width))
  ELSE IF c.op = "reset" \/ (c.op = "set" /\ c.name = "register")
  THEN [x \in Fields \X {0} |-> Extract(IF c.op = "set" THEN c.val ELSE DefaultValue, x[1])]
  ELSE <<>>

\* The step that gives the register its contents.
Alters(m) == m.do = "merge" \/ (m.do = "put" /\ m.at = Register)

\* What is left of the call c, which has got the answer got, writes once, the
\* last of all, and what it was asked for: the register it read just before
\* with the field replaced, or a new contents.
Replaces(s, c, got, raw) ==
  LET B == Fielded(c) IN
  /\ \A i \in DOMAIN s : /\ s[i].do \in {"put", "merge", "ask", "open", "close"}
                         /\ s[i].do = "put" => s[i].at \in {Register, <<"command", 0>>}
  /\ \A i \in DOMAIN s : Alters(s[i]) => c.op \in {"set", "reset"} /\ i + 1 \notin DOMAIN s
  /\ \A i \in DOMAIN s : Alters(s[i]) /\ s[i].do = "put" =>
       s[i].to \in Raws /\ DOMAIN B = Fields \X {0} /\ \A x \in DOMAIN B : B[x] = Extract(s[i].to, x[1])
  /\ \A i \in DOMAIN s : s[i].do = "merge" =>
       LET f == s[i].at[1] v == s[i].to IN
       /\ f \in Fields /\ v \in Nat /\ B = SetTo(<<f, 0>>, v % (2 ^ FieldDef[f].width))
       /\ i = 1 => got[2] = raw
       /\ i # 1 => i = 2 /\ s[1].do = "ask" /\ s[1].at = Register
  /\ (\E i \in DOMAIN s : Alters(s[i])) \/ \A x \in DOMAIN B : Extract(raw, x[1]) = B[x]

Writing(t) ==
  Busy(t) => LET c == call[t].c IN
             /\ Listed(call[t].todo) /\ Replaces(call[t].todo, c, call[t].got, Held2)
             /\ \A x \in DOMAIN Fielded(c) : Fielded(c)[x] \in asked[x]

Registers ==
  /\ Base /\ Held /\ line = <<>>
  /\ asked = [x \in Fields \X {0} |-> asked[x]] /\ Held2 \in Raws
  /\ \A x \in Fields \X {0} : Extract(Held2, x[1]) \in asked[x]
  /\ \A t \in Threads : Writing(t)

RegisterInv == ~adrift /\ kind = "Aardvark" => Registers

LEMMA FieldsAre ==
  ASSUME PowersOfTwo, NEW raw \in Raws
  PROVE  /\ Extract(raw, "mode") = raw % 2 /\ Extract(raw, "gain") = (raw \div 2) % 4
         /\ \A v : Insert(raw, "mode", v) = raw + ((v % 2) - (raw % 2)) * 1
         /\ \A v : Insert(raw, "gain", v) = raw + ((v % 4) - ((raw \div 2) % 4)) * 2
         /\ 2 ^ FieldDef["mode"].width = 2 /\ 2 ^ FieldDef["gain"].width = 4
<1>1. /\ 2 ^ FieldDef["mode"].lsb = 1 /\ 2 ^ FieldDef["mode"].width = 2
      /\ 2 ^ FieldDef["gain"].lsb = 2 /\ 2 ^ FieldDef["gain"].width = 4
  BY DEF PowersOfTwo, FieldDef
<1>2. Extract(raw, "mode") = (raw \div 1) % 2 /\ Extract(raw, "gain") = (raw \div 2) % 4
  BY <1>1 DEF Extract
<1>3. raw \div 1 = raw
  BY DEF Raws
<1>4. /\ \A v : Insert(raw, "mode", v) = raw + ((v % 2) - Extract(raw, "mode")) * 1
      /\ \A v : Insert(raw, "gain", v) = raw + ((v % 4) - Extract(raw, "gain")) * 2
  BY <1>1 DEF Insert
<1> QED  BY <1>1, <1>2, <1>3, <1>4

\* A field that is replaced holds the new value, cut to its width, and the
\* other one what it held.
LEMMA FieldsApart ==
  ASSUME PowersOfTwo, NEW raw \in Raws, NEW f \in Fields, NEW v \in Nat
  PROVE  LET n == Insert(raw, f, v) IN
         /\ n \in Raws /\ Extract(n, f) = v % (2 ^ FieldDef[f].width)
         /\ \A g \in Fields \ {f} : Extract(n, g) = Extract(raw, g)
<1> DEFINE n == Insert(raw, f, v)
<1>1. CASE f = "mode"
  <2> DEFINE p == v % 2
  <2>1. p \in 0..1
    OBVIOUS
  <2>2. n = raw + (p - (raw % 2)) * 1
    BY <1>1, FieldsAre
  <2> HIDE DEF n, p
  <2>3. n \in Raws /\ n % 2 = p /\ (n \div 2) % 4 = (raw \div 2) % 4
    BY <2>1, <2>2, Z3 DEF Raws
  <2>4. Extract(n, "mode") = p /\ Extract(n, "gain") = Extract(raw, "gain")
    BY <2>3, FieldsAre
  <2>5. 2 ^ FieldDef["mode"].width = 2
    BY FieldsAre
  <2> QED  BY <1>1, <2>3, <2>4, <2>5 DEF Fields, n, p
<1>2. CASE f = "gain"
  <2> DEFINE p == v % 4
  <2>1. p \in 0..3
    OBVIOUS
  <2>2. n = raw + (p - ((raw \div 2) % 4)) * 2
    BY <1>2, FieldsAre
  <2> HIDE DEF n, p
  <2>3. n \in Raws /\ (n \div 2) % 4 = p /\ n % 2 = raw % 2
    BY <2>1, <2>2, Z3 DEF Raws
  <2>4. Extract(n, "gain") = p /\ Extract(n, "mode") = Extract(raw, "mode")
    BY <2>3, FieldsAre
  <2>5. 2 ^ FieldDef["gain"].width = 4
    BY FieldsAre
  <2> QED  BY <1>2, <2>3, <2>4, <2>5 DEF Fields, n, p
<1> QED  BY <1>1, <1>2 DEF Fields

LEMMA I2CAsks ==
  ASSUME kind = "Aardvark", NEW h, NEW c \in Issued(kind)
  PROVE  /\ AskedBy(kind, h, c) = Fielded(c)
         /\ c.op \in {"open", "close", "get", "query", "set", "reset"} /\ (Locks(kind, c) <=> c.op \in {"query", "set", "reset"})
         /\ c.op = "set" => \/ c.name \in Fields /\ c.val \in Nat
                            \/ c.name = "register" /\ c.val \in Raws
         /\ c.op \notin {"set", "reset"} => Fielded(c) = <<>>
<1>1. kind \notin Psus /\ kind \notin Dmms /\ kind \notin Loads /\ kind \notin Scopes /\ kind # "Keithley2400"
  BY KindsApart DEF Dmms
<1>2. c \in I2CReads \cup I2CWrites \cup {C("open", "none", 0, 0), C("close", "none", 0, 0)}
  BY <1>1 DEF Issued, Reads, Writes, Statuses
<1>3. /\ c.op \in {"open", "close", "get", "query", "set", "reset"}
      /\ c.op = "set" => \/ c.name \in Fields /\ c.val \in {1, 3, 4}
                         \/ c.name = "register" /\ c.val \in {0, 5}
  <2>1. CASE c \in I2CReads
    BY <2>1 DEF I2CReads, C, Fields
  <2>2. CASE c \in I2CWrites
    <3>1. CASE c \in {C("set", f, 0, v) : f \in Fields, v \in {1, 4}}
      BY <3>1 DEF C
    <3>2. CASE c \in {C("set", "register", 0, v) : v \in {0, 5}}
      BY <3>2 DEF C
    <3>3. CASE c \in {C("reset", "none", 0, 0)}
      BY <3>3 DEF C
    <3> QED  BY <2>2, <3>1, <3>2, <3>3 DEF I2CWrites
  <2>3. CASE c \in {C("open", "none", 0, 0), C("close", "none", 0, 0)}
    BY <2>3 DEF C
  <2> QED  BY <1>2, <2>1, <2>2, <2>3
<1>4. Locks(kind, c) <=> c.op \in {"query", "set", "reset"}
  BY <1>3 DEF Locks, I2CLocks
<1>5. AskedBy(kind, h, c) = Fielded(c)
  <2>1. CASE c.op = "set" /\ c.name \in Fields
    <3> DEFINE F == SetTo(<<c.name, 0>>, c.val % (2 ^ FieldDef[c.name].width))
    <3>1. Fielded(c) = F
      BY <2>1 DEF Fielded
    <3>2. c.name # "register"
      BY <2>1 DEF Fields
    <3>3. AskedBy(kind, h, c) = F
      BY <1>1, <2>1, <3>2 DEF AskedBy
    <3> QED  BY <3>1, <3>3
  <2>2. CASE c.op = "reset" \/ (c.op = "set" /\ c.name = "register")
    <3>1. ~(c.op = "set" /\ c.name \in Fields)
      BY <2>2 DEF Fields
    <3> DEFINE v == IF c.op = "set" THEN c.val ELSE DefaultValue
               F == [x \in Fields \X {0} |-> Extract(v, x[1])]
    <3>2. Fielded(c) = F
      BY <2>2, <3>1 DEF Fielded
    <3>3. AskedBy(kind, h, c) = F
      BY <1>1, <2>2, <3>1, Zenon DEF AskedBy
    <3> QED  BY <3>2, <3>3
  <2>3. CASE c.op \in {"open", "close", "get", "query"}
    BY <1>1, <2>3 DEF AskedBy, Fielded
  <2> QED  BY <1>3, <2>1, <2>2, <2>3
<1>6. c.op \notin {"set", "reset"} => Fielded(c) = <<>>
  BY DEF Fielded
<1> QED  BY <1>3, <1>4, <1>5, <1>6 DEF Raws

\* A call that is one step.
LEMMA OneReplaces ==
  ASSUME NEW s, NEW c, NEW got, NEW raw, DOMAIN s = {1}, s[1].do \in {"put", "ask", "open", "close"},
         s[1].do = "put" => s[1].at = Register,
         s[1].do = "put" => /\ c.op \in {"set", "reset"} /\ s[1].to \in Raws /\ DOMAIN Fielded(c) = Fields \X {0}
                            /\ \A x \in DOMAIN Fielded(c) : Fielded(c)[x] = Extract(s[1].to, x[1]),
         s[1].do # "put" => DOMAIN Fielded(c) = {}
  PROVE  Replaces(s, c, got, raw)
<1> DEFINE B == Fielded(c) m == s[1]
<1> HIDE DEF B, m
<1>1. \A i \in DOMAIN s : i = 1 /\ s[i] = m /\ i + 1 \notin DOMAIN s
  BY DEF m
<1>2. m.do # "merge" /\ (Alters(m) <=> m.do = "put")
  BY DEF Alters, m
<1>3. m.do = "put" => /\ c.op \in {"set", "reset"} /\ m.to \in Raws /\ DOMAIN B = Fields \X {0}
                      /\ \A x \in DOMAIN B : B[x] = Extract(m.to, x[1])
  BY DEF B, m
<1>4. m.do \in {"put", "merge", "ask", "open", "close"} /\ (m.do = "put" => m.at \in {Register, <<"command", 0>>})
  BY DEF m
<1>5. m.do # "put" => DOMAIN B = {}
  BY DEF B, m
<1>6. (\E i \in DOMAIN s : Alters(s[i])) \/ \A x \in DOMAIN B : Extract(raw, x[1]) = B[x]
  <2>1. 1 \in DOMAIN s /\ s[1] = m
    BY DEF m
  <2> QED  BY <1>2, <1>5, <2>1
<1> QED  BY <1>1, <1>2, <1>3, <1>4, <1>6 DEF Replaces, B

\* A call that is two steps, of which the second alters the register or none does.
LEMMA TwoReplace ==
  ASSUME NEW s, NEW c, NEW got, NEW raw, DOMAIN s = {1, 2},
         \/ /\ s[1].do = "ask" /\ s[1].at = Register /\ s[2].do = "merge" /\ c.op \in {"set", "reset"}
            /\ s[2].at[1] \in Fields /\ s[2].to \in Nat
            /\ Fielded(c) = SetTo(<<s[2].at[1], 0>>, s[2].to % (2 ^ FieldDef[s[2].at[1]].width))
         \/ /\ s[1].do = "put" /\ s[1].at = <<"command", 0>> /\ s[2].do = "ask"
            /\ DOMAIN Fielded(c) = {}
  PROVE  Replaces(s, c, got, raw)
<1> DEFINE B == Fielded(c) p == s[1] m == s[2]
<1>1. \A i \in DOMAIN s : (i = 1 /\ s[i] = p) \/ (i = 2 /\ s[i] = m /\ i + 1 \notin DOMAIN s)
  OBVIOUS
<1>2. 2 \in DOMAIN s /\ s[2] = m
  OBVIOUS
<1>3. CASE /\ p.do = "ask" /\ p.at = Register /\ m.do = "merge" /\ c.op \in {"set", "reset"}
           /\ m.at[1] \in Fields /\ m.to \in Nat
           /\ B = SetTo(<<m.at[1], 0>>, m.to % (2 ^ FieldDef[m.at[1]].width))
  <2> DEFINE ok == m.at[1] \in Fields /\ m.to \in Nat /\ B = SetTo(<<m.at[1], 0>>, m.to % (2 ^ FieldDef[m.at[1]].width))
  <2>1. ok
    BY <1>3
  <2>2. Alters(m) /\ ~Alters(p) /\ m.do = "merge" /\ p.do = "ask" /\ p.at = Register /\ c.op \in {"set", "reset"}
    BY <1>3 DEF Alters
  <2> HIDE DEF B, p, m, ok
  <2>3. \A i \in DOMAIN s : /\ s[i].do \in {"put", "merge", "ask", "open", "close"}
                            /\ s[i].do = "put" => s[i].at \in {Register, <<"command", 0>>}
                            /\ Alters(s[i]) => c.op \in {"set", "reset"} /\ i + 1 \notin DOMAIN s
                            /\ ~(Alters(s[i]) /\ s[i].do = "put")
                            /\ s[i].do = "merge" => i = 2 /\ s[i] = m
    BY <1>1, <2>2
  <2>4. \A i \in DOMAIN s : s[i].do = "merge" =>
          LET f == s[i].at[1] v == s[i].to IN
          /\ f \in Fields /\ v \in Nat /\ B = SetTo(<<f, 0>>, v % (2 ^ FieldDef[f].width))
          /\ i = 1 => got[2] = raw
          /\ i # 1 => i = 2 /\ s[1].do = "ask" /\ s[1].at = Register
    BY <2>1, <2>2, <2>3 DEF ok, p
  <2>5. \E i \in DOMAIN s : Alters(s[i])
    BY <1>2, <2>2
  <2> QED  BY <2>3, <2>4, <2>5 DEF Replaces, B
<1>4. CASE p.do = "put" /\ p.at = <<"command", 0>> /\ m.do = "ask" /\ DOMAIN B = {}
  <2>1. <<"command", 0>> # Register
    <3>1. <<"command", 0>>[1] # Register[1]
      BY DEF Register
    <3> QED  BY <3>1
  <2>2. p.do = "put" /\ p.at = <<"command", 0>> /\ m.do = "ask" /\ ~Alters(m) /\ ~Alters(p)
    BY <1>4, <2>1 DEF Alters
  <2>3. DOMAIN B = {}
    BY <1>4
  <2> HIDE DEF B, p, m
  <2>4. \A i \in DOMAIN s : /\ s[i].do \in {"put", "merge", "ask", "open", "close"} /\ ~Alters(s[i]) /\ s[i].do # "merge"
                            /\ s[i].do = "put" => s[i].at \in {Register, <<"command", 0>>}
    BY <1>1, <2>2
  <2> QED  BY <2>3, <2>4 DEF Replaces, B
<1> QED  BY <1>3, <1>4

LEMMA I2CStarts ==
  ASSUME kind = "Aardvark", NEW h, NEW c \in Issued(kind), NEW got, NEW raw
  PROVE  Listed(Steps(kind, h, c)) /\ Replaces(Steps(kind, h, c), c, got, raw)
<1> DEFINE s == Steps(kind, h, c)
<1>1. kind \notin Psus /\ kind \notin Dmms /\ kind \notin Loads /\ kind \notin Scopes /\ kind # "Keithley2400"
  BY KindsApart DEF Dmms
<1>2. /\ c.op \in {"open", "close", "get", "query", "set", "reset"}
      /\ c.op = "set" => \/ c.name \in Fields /\ c.val \in Nat
                         \/ c.name = "register" /\ c.val \in Raws
      /\ c.op \notin {"set", "reset"} => Fielded(c) = <<>>
  BY I2CAsks
<1>3. c.op \notin {"set", "reset"} => DOMAIN Fielded(c) = {}
  BY <1>2, EmptyIs
<1>4. c.op \notin {"open", "close"} => s = I2CSteps(c)
  BY <1>1 DEF Steps, MethodSteps
<1>5. Listed(WriteReadRaw) /\ DOMAIN WriteReadRaw = {1} /\ Len(WriteReadRaw) = 1
      /\ WriteReadRaw[1].do = "ask" /\ WriteReadRaw[1].at = Register
  BY OneStepIs DEF WriteReadRaw, Ask
<1>6. CASE c.op \in {"open", "close"}
  <2>1. s = Step("open", <<"session", 0>>, 0) \o <<>> \/ s = <<>> \o Step("close", <<"session", 0>>, 0)
    <3>1. c.op = "open" => s = Step("open", <<"session", 0>>, 0) \o <<>>
      BY <1>1 DEF Steps, OpenSteps
    <3>2. c.op = "close" => s = <<>> \o Step("close", <<"session", 0>>, 0)
      BY <1>1 DEF Steps, CloseSteps
    <3> QED  BY <1>6, <3>1, <3>2
  <2>2. ASSUME NEW do \in {"open", "close"}
        PROVE  LET a == Step(do, <<"session", 0>>, 0) IN
               /\ <<>> \o a = a
               /\ Listed(a \o <<>>) /\ DOMAIN (a \o <<>>) = {1} /\ (a \o <<>>)[1] = a[1]
    <3> DEFINE a == Step(do, <<"session", 0>>, 0)
    <3>1. Listed(a) /\ IsSeq(a) /\ Len(a) = 1 /\ Listed(<<>>) /\ IsSeq(<<>>) /\ Len(<<>>) = 0
      BY OneStepIs, EmptyIs
    <3> HIDE DEF a
    <3>2. <<>> \o a = a
      BY <3>1, CatAssoc
    <3>3. DOMAIN (a \o <<>>) = 1..1 + 0 /\ \A i \in 1..1 : (a \o <<>>)[i] = a[i]
      BY <3>1, CatOf
    <3>4. Listed(a \o <<>>)
      BY <3>1, CatAsks
    <3> QED  BY <3>2, <3>3, <3>4 DEF a
  <2>3. Listed(s) /\ DOMAIN s = {1} /\ s[1].do \in {"open", "close"}
    <3>1. ASSUME NEW do \in {"open", "close"}
          PROVE  LET a == Step(do, <<"session", 0>>, 0) IN Listed(a) /\ DOMAIN a = {1} /\ a[1].do = do
      BY OneStepIs
    <3>2. CASE s = Step("open", <<"session", 0>>, 0) \o <<>>
      BY <2>2, <3>1, <3>2
    <3>3. CASE s = <<>> \o Step("close", <<"session", 0>>, 0)
      BY <2>2, <3>1, <3>3
    <3> QED  BY <2>1, <3>2, <3>3
  <2>4. DOMAIN Fielded(c) = {}
    BY <1>3, <1>6
  <2> HIDE DEF s
  <2> QED  BY <2>3, <2>4, OneReplaces DEF s
<1>7. CASE c.op \in {"get"}
  <2>1. s = WriteReadRaw /\ DOMAIN Fielded(c) = {}
    BY <1>3, <1>4, <1>7 DEF I2CSteps
  <2> HIDE DEF s
  <2> QED  BY <1>5, <2>1, OneReplaces DEF s
<1>8. CASE c.op \in {"query"}
  <2> DEFINE a == Put(<<"command", 0>>, 0) b == Ask(<<"command", 0>>)
  <2>1. s = a \o b /\ DOMAIN Fielded(c) = {}
    BY <1>3, <1>4, <1>8 DEF I2CSteps, WriteThenRead
  <2>2. /\ Listed(a) /\ Listed(b) /\ IsSeq(a) /\ IsSeq(b) /\ Len(a) = 1 /\ Len(b) = 1
        /\ a[1].do = "put" /\ a[1].at = <<"command", 0>> /\ b[1].do = "ask"
    BY OneStepIs DEF Put, Ask
  <2> HIDE DEF a, b
  <2>3. Listed(a \o b)
    BY <2>2, CatAsks
  <2>4. DOMAIN (a \o b) = 1..2 /\ (a \o b)[1] = a[1] /\ (a \o b)[2] = b[1]
    BY <2>2, TwoListsOfOne
  <2> HIDE DEF s
  <2>5. Listed(s) /\ DOMAIN s = {1, 2} /\ s[1].do = "put" /\ s[1].at = <<"command", 0>> /\ s[2].do = "ask"
    BY <2>1, <2>2, <2>3, <2>4
  <2> QED  BY <2>1, <2>5, TwoReplace DEF s
<1>9. CASE c.op \in {"set"} /\ c.name \in Fields
  <2> DEFINE a == WriteReadRaw b == Step("merge", <<c.name, 0>>, c.val)
  <2>1. s = a \o b
    BY <1>4, <1>9 DEF I2CSteps, I2CWrite
  <2>2. c.val \in Nat /\ c.name \in Fields /\ c.op \in {"set", "reset"}
    BY <1>2, <1>9 DEF Fields
  <2>3. Fielded(c) = SetTo(<<c.name, 0>>, c.val % (2 ^ FieldDef[c.name].width))
    BY <1>9 DEF Fielded
  <2>4. Listed(b) /\ Len(b) = 1 /\ b[1].do = "merge" /\ b[1].at[1] = c.name /\ b[1].to = c.val
    <3>1. Listed(b) /\ Len(b) = 1 /\ b[1].do = "merge" /\ b[1].at = <<c.name, 0>> /\ b[1].to = c.val
      BY OneStepIs
    <3>2. <<c.name, 0>>[1] = c.name
      OBVIOUS
    <3> QED  BY <3>1, <3>2
  <2> HIDE DEF a, b
  <2>5. Listed(a) /\ Len(a) = 1 /\ a[1].do = "ask" /\ a[1].at = Register
    BY <1>5 DEF a
  <2>6. Listed(a \o b)
    BY <2>4, <2>5, CatAsks
  <2>7. DOMAIN (a \o b) = 1..2 /\ (a \o b)[1] = a[1] /\ (a \o b)[2] = b[1]
    BY <2>4, <2>5, TwoListsOfOne DEF Listed
  <2> HIDE DEF s
  <2>8. Listed(s) /\ DOMAIN s = {1, 2} /\ s[1].do = "ask" /\ s[1].at = Register
        /\ s[2].do = "merge" /\ s[2].at[1] = c.name /\ s[2].to = c.val
    BY <2>1, <2>4, <2>5, <2>6, <2>7
  <2>9. Replaces(s, c, got, raw)
    <3>1. s[2].at[1] \in Fields /\ s[2].to \in Nat
          /\ Fielded(c) = SetTo(<<s[2].at[1], 0>>, s[2].to % (2 ^ FieldDef[s[2].at[1]].width))
      BY <2>2, <2>3, <2>8
    <3> QED  BY <2>2, <2>8, <3>1, TwoReplace
  <2> QED  BY <2>8, <2>9 DEF s
<1>10. CASE c.op \in {"reset"} \/ (c.op \in {"set"} /\ c.name \in {"register"})
  <2> DEFINE v == IF c.op = "set" THEN c.val ELSE DefaultValue
  <2>1. s = Put(Register, v)
    BY <1>4, <1>10 DEF I2CSteps, I2CWrite, Fields
  <2>2. Fielded(c) = [x \in Fields \X {0} |-> Extract(v, x[1])]
    <3>1. ~(c.op = "set" /\ c.name \in Fields)
      BY <1>10 DEF Fields
    <3> QED  BY <1>10, <3>1 DEF Fielded
  <2>3. v \in Raws
    BY <1>2, <1>10 DEF DefaultValue, Raws, Fields
  <2> HIDE DEF v
  <2>4. Listed(s) /\ DOMAIN s = {1} /\ s[1].do = "put" /\ s[1].at = Register /\ s[1].to = v
    BY <2>1, OneStepIs DEF Put
  <2>5. c.op \in {"set", "reset"}
    BY <1>10
  <2>6. DOMAIN Fielded(c) = Fields \X {0} /\ \A x \in DOMAIN Fielded(c) : Fielded(c)[x] = Extract(v, x[1])
    BY <2>2
  <2> HIDE DEF s
  <2> QED  BY <2>3, <2>4, <2>5, <2>6, OneReplaces DEF s
<1>11. \/ c.op \in {"open", "close"} \/ c.op \in {"get"} \/ c.op \in {"query"} \/ (c.op \in {"set"} /\ c.name \in Fields)
       \/ c.op \in {"reset"} \/ (c.op \in {"set"} /\ c.name \in {"register"})
  BY <1>2
<1> QED  BY <1>6, <1>7, <1>8, <1>9, <1>10, <1>11

\* The contents after the step that alters the register: what is asked of the
\* fields is in them, and the other fields are as they were.
After(m, got) == IF m.do = "merge" THEN Insert(got[2], m.at[1], m.to) ELSE m.to

Changes(c, raw, new) ==
  LET B == Fielded(c) IN
  /\ new \in Raws
  /\ \A x \in DOMAIN B : Extract(new, x[1]) = B[x]
  /\ \A x \in (Fields \X {0}) \ DOMAIN B : Extract(new, x[1]) = Extract(raw, x[1])
LEMMA Altered ==
  ASSUME PowersOfTwo, NEW s, NEW c, NEW got, NEW raw \in Raws, Replaces(s, c, got, raw), 1 \in DOMAIN s, Alters(s[1])
  PROVE  c.op \in {"set", "reset"} /\ Changes(c, raw, After(s[1], got))
<1> SUFFICES ASSUME NEW new, s[1].do = "put" => new = s[1].to, s[1].do = "merge" => new = Insert(got[2], s[1].at[1], s[1].to)
             PROVE  c.op \in {"set", "reset"} /\ Changes(c, raw, new)
  BY DEF After, Alters
<1> USE DEF Changes
<1> DEFINE B == Fielded(c)
<1>1. c.op \in {"set", "reset"}
  BY DEF Replaces
<1>2. CASE s[1].do = "put"
  <2>1. s[1].to \in Raws /\ DOMAIN B = Fields \X {0} /\ \A x \in DOMAIN B : B[x] = Extract(s[1].to, x[1])
    BY <1>2 DEF Replaces
  <2> QED  BY <1>1, <1>2, <2>1
<1>3. CASE s[1].do = "merge"
  <2> DEFINE f == s[1].at[1] v == s[1].to
  <2>1. f \in Fields /\ v \in Nat /\ B = SetTo(<<f, 0>>, v % (2 ^ FieldDef[f].width)) /\ got[2] = raw
    BY <1>3 DEF Replaces
  <2>2. new = Insert(raw, f, v)
    BY <1>3, <2>1
  <2>3. DOMAIN B = {<<f, 0>>} /\ \A x \in DOMAIN B : x[1] = f /\ B[x] = v % (2 ^ FieldDef[f].width)
    <3>1. DOMAIN B = {<<f, 0>>} /\ \A x \in DOMAIN B : B[x] = v % (2 ^ FieldDef[f].width)
      BY <2>1 DEF SetTo
    <3>2. <<f, 0>>[1] = f
      OBVIOUS
    <3> QED  BY <3>1, <3>2
  <2>4. ASSUME NEW x \in (Fields \X {0}) \ DOMAIN B  PROVE x[1] \in Fields \ {f}
    <3>1. x = <<x[1], 0>> /\ x[1] \in Fields
      BY <2>4
    <3> QED  BY <2>3, <2>4, <3>1
  <2> HIDE DEF B, f, v
  <2>5. /\ new \in Raws /\ Extract(new, f) = v % (2 ^ FieldDef[f].width)
        /\ \A g \in Fields \ {f} : Extract(new, g) = Extract(raw, g)
    BY <2>1, <2>2, FieldsApart
  <2> QED  BY <1>1, <2>3, <2>4, <2>5 DEF B
<1> QED  BY <1>2, <1>3 DEF Alters

LEMMA ReplacesRest ==
  ASSUME NEW s, NEW c, NEW got, NEW raw, NEW next, NEW new, IsSeq(s), s # <<>>, Replaces(s, c, got, raw),
         IF Alters(s[1]) THEN \A x \in DOMAIN Fielded(c) : Extract(new, x[1]) = Fielded(c)[x]
         ELSE new = raw /\ (s[1].do = "ask" /\ s[1].at = Register => next[2] = raw)
  PROVE  Replaces(Tail(s), c, next, new)
<1> DEFINE r == Tail(s)
<1>1. /\ 1 \in DOMAIN s /\ \A i \in DOMAIN r : r[i] = s[i + 1] /\ i \in Nat \ {0} /\ i + 1 \in DOMAIN s
      /\ \A i \in DOMAIN s \ {1} : i - 1 \in DOMAIN r /\ r[i - 1] = s[i]
  <2>1. Len(s) \in Nat /\ DOMAIN s = 1..Len(s)
    BY ListOf
  <2>2. /\ 1 \in DOMAIN s /\ \A i \in DOMAIN Tail(s) : Tail(s)[i] = s[i + 1]
        /\ \A i : i \in DOMAIN Tail(s) <=> i \in Nat \ {0} /\ i + 1 \in DOMAIN s
    BY TailOf
  <2> HIDE DEF r
  <2>3. ASSUME NEW i \in DOMAIN s \ {1}  PROVE i - 1 \in DOMAIN r /\ r[i - 1] = s[i]
    <3>1. i \in Nat \ {0, 1} /\ (i - 1) + 1 = i /\ i - 1 \in Nat \ {0}
      BY <2>1, <2>3
    <3> QED  BY <2>2, <3>1 DEF r
  <2> QED  BY <2>2, <2>3 DEF r
<1> HIDE DEF r
<1>2. CASE Alters(s[1])
  <2>1. DOMAIN r = {}
    <3> SUFFICES ASSUME NEW i \in DOMAIN r  PROVE FALSE
      OBVIOUS
    <3>1. 1 + 1 \notin DOMAIN s
      BY <1>1, <1>2 DEF Replaces
    <3>2. Len(s) \in Nat /\ DOMAIN s = 1..Len(s)
      BY ListOf
    <3> QED  BY <1>1, <3>1, <3>2
  <2> QED  BY <1>2, <2>1 DEF Replaces, r
<1>3. CASE ~Alters(s[1])
  <2> DEFINE B == Fielded(c)
  <2>1. new = raw /\ (s[1].do = "ask" /\ s[1].at = Register => next[2] = raw)
    BY <1>3
  <2>2. \A i \in DOMAIN r : /\ r[i].do \in {"put", "merge", "ask", "open", "close"}
                            /\ r[i].do = "put" => r[i].at \in {Register, <<"command", 0>>}
    BY <1>1 DEF Replaces
  <2>3. ASSUME NEW i \in DOMAIN r, Alters(r[i])  PROVE c.op \in {"set", "reset"} /\ i + 1 \notin DOMAIN r
    <3>1. i + 1 \in DOMAIN s /\ Alters(s[i + 1]) /\ i \in Nat
      BY <1>1, <2>3
    <3>2. c.op \in {"set", "reset"} /\ (i + 1) + 1 \notin DOMAIN s
      BY <3>1 DEF Replaces
    <3> QED  BY <1>1, <3>2
  <2>4. ASSUME NEW i \in DOMAIN r, Alters(r[i]), r[i].do = "put"
        PROVE  r[i].to \in Raws /\ DOMAIN B = Fields \X {0} /\ \A x \in DOMAIN B : B[x] = Extract(r[i].to, x[1])
    <3> DEFINE j == i + 1
    <3>1. j \in DOMAIN s /\ r[i] = s[j]
      BY <1>1
    <3> HIDE DEF j
    <3>2. s[j].to \in Raws /\ DOMAIN B = Fields \X {0} /\ \A x \in DOMAIN B : B[x] = Extract(s[j].to, x[1])
      BY <2>4, <3>1 DEF Replaces
    <3> QED  BY <3>1, <3>2
  <2>5. ASSUME NEW i \in DOMAIN r, r[i].do = "merge"
        PROVE  /\ r[i].at[1] \in Fields /\ r[i].to \in Nat
               /\ B = SetTo(<<r[i].at[1], 0>>, r[i].to % (2 ^ FieldDef[r[i].at[1]].width))
               /\ i = 1 /\ next[2] = raw
    <3> DEFINE j == i + 1
    <3>1. j \in DOMAIN s /\ r[i] = s[j] /\ j # 1 /\ i \in Nat
      BY <1>1
    <3> HIDE DEF j
    <3>2. /\ s[j].at[1] \in Fields /\ s[j].to \in Nat
          /\ B = SetTo(<<s[j].at[1], 0>>, s[j].to % (2 ^ FieldDef[s[j].at[1]].width))
          /\ j = 2 /\ s[1].do = "ask" /\ s[1].at = Register
      BY <2>5, <3>1 DEF Replaces
    <3>3. i = 1
      BY <3>1, <3>2 DEF j
    <3> QED  BY <2>1, <3>1, <3>2, <3>3
  <2>6. (\E i \in DOMAIN r : Alters(r[i])) \/ \A x \in DOMAIN B : Extract(raw, x[1]) = B[x]
    <3> SUFFICES ASSUME NEW i \in DOMAIN s, Alters(s[i])  PROVE \E k \in DOMAIN r : Alters(r[k])
      BY DEF Replaces
    <3>1. i \in DOMAIN s \ {1}
      BY <1>3
    <3> QED  BY <1>1, <3>1
  <2> QED  BY <2>1, <2>2, <2>3, <2>4, <2>5, <2>6 DEF Replaces, r
<1> QED  BY <1>2, <1>3

\* A call that alters nothing depends on no contents.
LEMMA ReadsNoBits ==
  ASSUME NEW s, NEW c, NEW got, NEW raw, NEW new, Replaces(s, c, got, raw), c.op \notin {"set", "reset"},
         DOMAIN Fielded(c) = {}
  PROVE  Replaces(s, c, got, new)
<1>1. \A i \in DOMAIN s : ~Alters(s[i]) /\ s[i].do # "merge"
  BY DEF Replaces, Alters
<1> QED  BY <1>1 DEF Replaces

LEMMA RegisterTakes ==
  ASSUME NEW d, DOMAIN d = DevParts, DOMAIN d.reg = {Register}, NEW m
  PROVE  /\ m.at = Register => Accepted(d, m).reg[Register] = m.to
         /\ m.at = <<"command", 0>> => Accepted(d, m) = d
<1>1. /\ Register[1] = "register" /\ Register[2] = 0
      /\ \A sel : <<"register", sel>> \in DOMAIN d.reg => <<"register", sel>> = Register
      /\ \A sel : <<"command", sel>> \notin DOMAIN d.reg
  <2>1. Register[1] = "register" /\ Register[2] = 0
    BY DEF Register
  <2>2. \A sel : <<"command", sel>>[1] = "command"
    OBVIOUS
  <2>3. \A sel : <<"command", sel>> # Register
    <3> SUFFICES ASSUME NEW sel, <<"command", sel>> = Register  PROVE FALSE
      OBVIOUS
    <3>1. "command" = "register"
      BY <2>1, <2>2
    <3> QED  BY <3>1
  <2> QED  BY <2>1, <2>3
<1>2. ASSUME m.at = Register  PROVE Accepted(d, m).reg[Register] = m.to
  <2> DEFINE at == Addressed(d, m.at)
  <2>1. at = Register
    BY <1>1, <1>2 DEF Addressed
  <2> HIDE DEF at
  <2>2. at[1] = "register" /\ at \in DOMAIN d.reg
    BY <1>1, <2>1
  <2>3. Accepted(d, m) = [d EXCEPT !.reg[at] = m.to]
    BY <2>2 DEF Accepted, at
  <2>4. "reg" \in DOMAIN d
    BY DEF DevParts
  <2> QED  BY <2>1, <2>2, <2>3, <2>4
<1>3. ASSUME m.at = <<"command", 0>>  PROVE Accepted(d, m) = d
  <2> DEFINE at == Addressed(d, m.at)
  <2>1. at = <<"command", 0>>
    BY <1>1, <1>3 DEF Addressed
  <2>2. at[1] = "command" /\ at \notin DOMAIN d.reg
    BY <1>1, <2>1
  <2> HIDE DEF at
  <2> QED  BY <2>2 DEF Accepted, at
<1> QED  BY <1>2, <1>3

\* The thread t takes a step: the register holds new now.
LEMMA RegistersOn ==
  ASSUME PowersOfTwo, NEW t \in Threads, Registers, kind = "Aardvark", kind' = kind, Base', Held', Busy(t), call[t].todo # <<>>,
         Takes(t)
  PROVE  Registers'
<1> DEFINE s == call[t].todo m == s[1] c == call[t].c B == Fielded(c) raw == Held2 new == Held2'
<1>0. Base /\ Held /\ line = <<>> /\ raw \in Raws /\ DOMAIN asked = Fields \X {0}
  BY DEF Registers
<1>1. Listed(s) /\ IsSeq(s) /\ 1 \in DOMAIN s /\ c \in Issued(kind) /\ DOMAIN m = StepParts
  BY <1>0, TailOf DEF Registers, Writing, Base, CallIsWhole, Underway, Busy, Listed
<1>2. Replaces(s, c, call[t].got, raw) /\ \A x \in DOMAIN B : B[x] \in asked[x]
  BY DEF Registers, Writing
<1>3. /\ Others(t) /\ Busy(t)' /\ call'[t].c = c /\ call'[t].todo = Tail(s) /\ asked' = asked
      /\ ~Obtains(m) => call'[t].got = call[t].got
  BY <1>0, TakesOn DEF Takes, Passes
<1>4. m.do \in {"put", "merge", "ask", "open", "close"} /\ (m.do = "put" => m.at \in {Register, <<"command", 0>>})
  BY <1>1, <1>2 DEF Replaces
<1>5. line' = <<>>
  BY <1>0, <1>4 DEF Takes
<1>6. DOMAIN dev = DevParts /\ DOMAIN dev.reg = {Register}
  BY <1>0, KindsApart DEF Base, Settings
<1>7. \/ m.do = "put" /\ dev' = Accepted(dev, m)
      \/ m.do = "merge" /\ dev' = Accepted(dev, Merged(t, m))
      \/ m.do \in {"ask", "open", "close"} /\ dev' = dev
  BY <1>4 DEF Takes, Effect, Command
<1>8. ASSUME Alters(m)
      PROVE  /\ m.do = "put" => new = m.to
             /\ m.do = "merge" => new = Insert(call[t].got[2], m.at[1], m.to)
  <2>1. CASE m.do = "put"
    <3>1. m.at = Register /\ dev' = Accepted(dev, m)
      BY <1>7, <1>8, <2>1 DEF Alters
    <3>2. Accepted(dev, m).reg[Register] = m.to
      BY <1>6, <3>1, RegisterTakes
    <3> QED  BY <2>1, <3>1, <3>2 DEF Held2
  <2>2. CASE m.do = "merge"
    <3> DEFINE n == Merged(t, m) v == Insert(call[t].got[2], m.at[1], m.to)
    <3>1. dev' = Accepted(dev, n)
      BY <1>7, <2>2
    <3>2. n.at = Register /\ n.to = v
      <4> HIDE DEF v
      <4>1. n = [m EXCEPT !.at = Register, !.to = v]
        BY DEF Merged, v
      <4> HIDE DEF n, m
      <4> QED  BY <1>1, <4>1 DEF StepParts
    <3>3. Accepted(dev, n).reg[Register] = n.to
      <4> HIDE DEF n
      <4> QED  BY <1>6, <3>2, RegisterTakes
    <3> HIDE DEF n, v
    <3>4. new = v
      BY <3>1, <3>2, <3>3 DEF Held2
    <3> QED  BY <2>2, <3>4 DEF v
  <2> QED  BY <1>8, <2>1, <2>2 DEF Alters
<1>9. ASSUME ~Alters(m)  PROVE new = raw
  <2>1. CASE m.do = "put"
    <3>1. m.at = <<"command", 0>> /\ dev' = Accepted(dev, m)
      BY <1>4, <1>7, <1>9, <2>1 DEF Alters
    <3>2. Accepted(dev, m) = dev
      BY <1>6, <3>1, RegisterTakes
    <3> QED  BY <3>1, <3>2 DEF Held2
  <2>2. CASE m.do # "put"
    <3>1. dev' = dev
      BY <1>7, <1>9, <2>2 DEF Alters
    <3> QED  BY <3>1 DEF Held2
  <2> QED  BY <2>1, <2>2
<1>10. ASSUME m.do = "ask", m.at = Register  PROVE call'[t].got[2] = raw
  <2>1. call'[t].got = Reply(dev, host, Register)
    BY <1>0, <1>10 DEF Takes, Obtains
  <2>2. Register[1] = "register"
    BY DEF Register
  <2>3. Reply(dev, host, Register) = <<"register", dev.reg[Register]>>
    BY <2>2 DEF Reply
  <2> QED  BY <2>1, <2>3 DEF Held2
<1> HIDE DEF raw, new, m
<1>11. ASSUME Alters(m)
       PROVE  /\ c.op \in {"set", "reset"} /\ new \in Raws
              /\ \A x \in DOMAIN B : Extract(new, x[1]) = B[x]
              /\ \A x \in (Fields \X {0}) \ DOMAIN B : Extract(new, x[1]) = Extract(raw, x[1])
  <2> DEFINE got == call[t].got
  <2>1. raw \in Raws /\ Replaces(s, c, got, raw) /\ 1 \in DOMAIN s /\ Alters(s[1])
    BY <1>0, <1>1, <1>2, <1>11 DEF m
  <2>2. new = After(s[1], got)
    BY <1>8, <1>11 DEF After, Alters, m
  <2> HIDE DEF s, c, got, B
  <2>3. c.op \in {"set", "reset"} /\ Changes(c, raw, new)
    BY <2>1, <2>2, Altered
  <2> QED  BY <2>3 DEF Changes, B
<1>12. new \in Raws /\ \A x \in Fields \X {0} : Extract(new, x[1]) \in asked'[x]
  <2>1. \A x \in Fields \X {0} : Extract(raw, x[1]) \in asked[x]
    BY DEF Registers, raw
  <2>2. CASE Alters(m)
    <3> HIDE DEF B, c
    <3> QED  BY <1>2, <1>3, <1>11, <2>1, <2>2
  <2>3. CASE ~Alters(m)
    BY <1>0, <1>3, <1>9, <2>1, <2>3
  <2> QED  BY <2>2, <2>3
<1>13. Writing(t)'
  <2>1. Listed(Tail(s))
    BY <1>1, TailOf DEF Listed
  <2>2. Replaces(Tail(s), c, call'[t].got, new)
    <3>1. IF Alters(m) THEN \A x \in DOMAIN B : Extract(new, x[1]) = B[x]
          ELSE new = raw /\ (m.do = "ask" /\ m.at = Register => call'[t].got[2] = raw)
      BY <1>9, <1>10, <1>11
    <3> HIDE DEF s, c
    <3> QED  BY <1>1, <1>2, <3>1, ReplacesRest DEF m
  <2> QED  BY <1>2, <1>3, <2>1, <2>2 DEF Writing, new
<1>14. ASSUME NEW u \in Threads \ {t}  PROVE Writing(u)'
  <2> SUFFICES ASSUME Busy(u)  PROVE Replaces(call[u].todo, call[u].c, call[u].got, new)
    BY <1>3 DEF Registers, Writing, Others, Busy, new
  <2>1. Replaces(call[u].todo, call[u].c, call[u].got, raw) /\ call[u].c \in Issued(kind)
    BY <1>0 DEF Registers, Writing, Base, CallIsWhole, Underway, Busy, raw
  <2>2. CASE Alters(m)
    <3>1. Locks(kind, c)
      BY <1>1, <1>11, <2>2, I2CAsks
    <3>2. ~Locks(kind, call[u].c)
      BY <1>0, <3>1, HeldByOne
    <3>3. call[u].c.op \notin {"set", "reset"}
      BY <2>1, <3>2, I2CAsks
    <3>4. DOMAIN Fielded(call[u].c) = {}
      BY <2>1, <3>3, I2CAsks, EmptyIs
    <3> QED  BY <2>1, <3>3, <3>4, ReadsNoBits
  <2>3. CASE ~Alters(m)
    BY <1>9, <2>1, <2>3
  <2> QED  BY <2>2, <2>3
<1> QED  BY <1>3, <1>5, <1>12, <1>13, <1>14 DEF Registers, new

LEMMA StepRegisters ==
  ASSUME PowersOfTwo, NEW t \in Threads, Registers, kind = "Aardvark", kind' = kind, StepOf(t), ~adrift'
  PROVE  Registers'
<1>1. Base /\ Held
  BY DEF Registers
<1>2. Busy(t) /\ call[t].todo # <<>> /\ (Takes(t) \/ GivesUp(t))
  BY <1>1, StepTakes
<1>3. Base' /\ Held'
  BY <1>1, <1>2, StepBase, StepHeld
<1>4. CASE Takes(t)
  BY <1>2, <1>3, <1>4, RegistersOn
<1>5. CASE GivesUp(t)
  <2>1. /\ Others(t) /\ call'[t] = Idle /\ asked' = asked /\ Held2' = Held2 /\ line' = <<>>
    BY <1>5 DEF GivesUp, SameDev, Registers, Held2
  <2>2. ~Busy(t)'
    BY <2>1, IdleIs DEF Busy
  <2>3. \A u \in Threads : Writing(u)'
    BY <2>1, <2>2 DEF Registers, Writing, Others, Busy
  <2> QED  BY <1>3, <2>1, <2>3 DEF Registers
<1> QED  BY <1>2, <1>4, <1>5

LEMMA EnterRegisters ==
  ASSUME NEW t \in Threads, Registers, kind = "Aardvark", kind' = kind, Enter(t)
  PROVE  Registers'
<1>0. Base /\ Held /\ DOMAIN asked = Fields \X {0}
  BY DEF Registers
<1>1. PICK c \in Calls(t) : /\ Begins(t, c) /\ ~Underway(t) /\ (Locks(kind, c) => owner = None)
                            /\ owner' = IF Locks(kind, c) THEN t ELSE owner
                            /\ asked' = AskedToo(kind, host, c)
  BY <1>0, EnterBegins
<1> DEFINE s == Steps(kind, host, c) B == Fielded(c)
<1>2. c \in Issued(kind)
  BY CallsAreIssued
<1>3. Listed(s) /\ IsSeq(s) /\ Replaces(s, c, <<"none", 0>>, Held2) /\ AskedBy(kind, host, c) = B
  BY <1>2, I2CStarts, I2CAsks DEF Listed
<1>4. Base' /\ Held'
  BY <1>0, <1>1, <1>3, EnterBase, EnterHeld
<1>5. /\ Others(t) /\ call'[t].c = c /\ call'[t].todo = s /\ call'[t].got = <<"none", 0>>
      /\ Held2' = Held2 /\ line' = line
  BY <1>1 DEF Begins, Held2
<1> HIDE DEF s, B
<1>6. /\ asked' = [x \in Fields \X {0} |-> asked'[x]]
      /\ \A x \in Fields \X {0} : asked[x] \subseteq asked'[x] /\ (x \in DOMAIN B => B[x] \in asked'[x])
  BY <1>0, <1>1, <1>3 DEF AskedToo
<1>7. \A d \in Issued(kind) : DOMAIN Fielded(d) \subseteq Fields \X {0}
  <2> SUFFICES ASSUME NEW d \in Issued(kind)  PROVE DOMAIN Fielded(d) \subseteq Fields \X {0}
    OBVIOUS
  <2>1. CASE d.op = "set" /\ d.name \in Fields
    BY <2>1 DEF Fielded, SetTo
  <2>2. CASE ~(d.op = "set" /\ d.name \in Fields) /\ (d.op = "reset" \/ (d.op = "set" /\ d.name = "register"))
    BY <2>2 DEF Fielded
  <2>3. CASE ~(d.op = "set" /\ d.name \in Fields) /\ ~(d.op = "reset" \/ (d.op = "set" /\ d.name = "register"))
    BY <2>3, EmptyIs DEF Fielded
  <2> QED  BY <2>1, <2>2, <2>3
<1>8. Writing(t)'
  <2>1. \A x \in DOMAIN B : B[x] \in asked'[x]
    BY <1>2, <1>6, <1>7 DEF B
  <2> QED  BY <1>3, <1>5, <2>1 DEF Writing, B
<1>9. ASSUME NEW u \in Threads \ {t}  PROVE Writing(u)'
  <2> SUFFICES ASSUME Busy(u)  PROVE \A x \in DOMAIN Fielded(call[u].c) : Fielded(call[u].c)[x] \in asked'[x]
    BY <1>5 DEF Registers, Writing, Others, Busy
  <2>1. /\ call[u].c \in Issued(kind)
        /\ \A x \in DOMAIN Fielded(call[u].c) : Fielded(call[u].c)[x] \in asked[x]
    BY <1>0 DEF Registers, Writing, Base, CallIsWhole, Underway, Busy
  <2> QED  BY <1>6, <1>7, <2>1
<1>10. \A x \in Fields \X {0} : Extract(Held2, x[1]) \in asked'[x]
  BY <1>6 DEF Registers
<1> QED  BY <1>4, <1>5, <1>6, <1>8, <1>9, <1>10 DEF Registers

LEMMA FinishRegisters ==
  ASSUME NEW t \in Threads, Registers, kind = "Aardvark", kind' = kind, Finish(t)
  PROVE  Registers'
<1> DEFINE c == call[t].c B == Fielded(c)
<1>0. Base /\ Held /\ DOMAIN asked = Fields \X {0}
  BY DEF Registers
<1>1. /\ Others(t) /\ Busy(t) /\ call[t].todo = <<>> /\ call'[t].phase = "post"
      /\ Held2' = Held2 /\ line' = line /\ asked' = AskedOnly(kind, host, c)
  BY <1>0, FinishEnds DEF Held2
<1>2. Base' /\ Held'
  BY <1>0, FinishBase, FinishHeld
<1>3. c \in Issued(kind)
  BY <1>0, <1>1 DEF Base, CallIsWhole, Underway, Busy
<1>4. AskedBy(kind, host, c) = B /\ kind \notin Scopes
  <2>1. AskedBy(kind, host, c) = B
    BY <1>3, I2CAsks
  <2>2. kind \notin Scopes
    BY KindsApart
  <2> QED  BY <2>1, <2>2
<1>5. \A x \in DOMAIN B : Extract(Held2, x[1]) = B[x]
  BY <1>1, EmptyIs DEF Registers, Writing, Replaces
<1>6. asked' = [x \in Fields \X {0} |-> IF x \in DOMAIN B THEN {B[x]} ELSE asked[x]]
  BY <1>0, <1>1, <1>4 DEF AskedOnly
<1> HIDE DEF B
<1>7. \A x \in Fields \X {0} : Extract(Held2, x[1]) \in asked'[x]
  BY <1>5, <1>6 DEF Registers
<1>8. ~Busy(t)'
  BY <1>1 DEF Busy
<1>9. ASSUME NEW u \in Threads \ {t}  PROVE Writing(u)'
  <2> SUFFICES ASSUME Busy(u)  PROVE \A x \in DOMAIN Fielded(call[u].c) : Fielded(call[u].c)[x] \in asked'[x]
    BY <1>1 DEF Registers, Writing, Others, Busy
  <2>1. /\ call[u].c \in Issued(kind)
        /\ \A x \in DOMAIN Fielded(call[u].c) : Fielded(call[u].c)[x] \in asked[x]
    BY <1>0 DEF Registers, Writing, Base, CallIsWhole, Underway, Busy
  <2>2. CASE c.op \in {"set", "reset"}
    <3>1. Locks(kind, c)
      BY <1>3, <2>2, I2CAsks
    <3>2. ~Locks(kind, call[u].c)
      BY <1>0, <1>1, <3>1, HeldByOne
    <3>3. DOMAIN Fielded(call[u].c) = {}
      BY <2>1, <3>2, I2CAsks, EmptyIs
    <3> QED  BY <3>3
  <2>3. CASE c.op \notin {"set", "reset"}
    <3>1. DOMAIN B = {}
      BY <1>3, <2>3, I2CAsks, EmptyIs DEF B
    <3>2. asked' = asked
      BY <1>6, <3>1 DEF Registers
    <3> QED  BY <2>1, <3>2
  <2> QED  BY <2>2, <2>3
<1>10. asked' = [x \in Fields \X {0} |-> asked'[x]]
  BY <1>6
<1> QED  BY <1>1, <1>2, <1>7, <1>8, <1>9, <1>10 DEF Registers, Writing

LEMMA PostRegisters ==
  ASSUME NEW t \in Threads, Registers, kind' = kind, Post(t)
  PROVE  Registers'
<1>0. Base /\ Held
  BY DEF Registers
<1>1. Others(t) /\ call'[t] = Idle /\ Held2' = Held2 /\ line' = line /\ asked' = asked
  BY <1>0, PostEnds DEF Held2
<1>2. Base' /\ Held'
  BY <1>0, PostBase, PostHeld
<1>3. ~Busy(t)'
  BY <1>1, IdleIs DEF Busy
<1>4. \A u \in Threads : Writing(u)'
  BY <1>1, <1>3 DEF Registers, Writing, Others, Busy
<1> QED  BY <1>1, <1>2, <1>4 DEF Registers

LEMMA RegistersInit ==
  ASSUME PowersOfTwo, Init, kind = "Aardvark"
  PROVE  Registers
<1>1. /\ call = [t \in Threads |-> Idle] /\ dev = DevInit(kind) /\ owner = None /\ line = <<>>
      /\ asked = [x \in Fields \X {0} |-> {0}] /\ None \notin Threads /\ host = HostInit
  BY BenchAssumption DEF Init, VisaInit, AskedInit
<1>2. DOMAIN call = Threads /\ \A t \in Threads : call[t] = Idle /\ ~Busy(t) /\ ~Underway(t)
  BY <1>1, IdleIs DEF Busy, Underway
<1>3. Base
  <2>1. \A t \in Threads : CallIsWhole(t)
    BY <1>2, IdleIs, EmptyIs DEF CallIsWhole
  <2>2. DOMAIN host = HostParts
    BY <1>1 DEF HostInit, HostParts
  <2> QED  BY <1>1, <1>2, <2>1, <2>2, DevInitIs DEF Base
<1>4. Held
  BY <1>1, <1>2 DEF Held
<1>5. Held2 = 0
  <2>1. Settings(kind) = {Register}
    BY KindsApart DEF Settings
  <2>2. dev.reg = Fresh(kind) /\ Register[1] = "register"
    BY <1>1 DEF DevInit, Register
  <2>3. Fresh(kind)[Register] = 0
    BY <2>1, <2>2 DEF Fresh
  <2> QED  BY <2>2, <2>3 DEF Held2
<1>6. \A x \in Fields \X {0} : Extract(Held2, x[1]) = 0
  <2>1. 0 \in Raws /\ 0 % 2 = 0 /\ (0 \div 2) % 4 = 0
    BY DEF Raws
  <2>2. Extract(0, "mode") = 0 /\ Extract(0, "gain") = 0
    BY <2>1, FieldsAre
  <2>3. \A f \in Fields : Extract(Held2, f) = 0
    BY <1>5, <2>2 DEF Fields
  <2> QED  BY <2>3
<1> QED  BY <1>1, <1>2, <1>3, <1>4, <1>5, <1>6 DEF Registers, Writing, Raws

LEMMA RegistersHold ==
  ASSUME PowersOfTwo, RegisterInv, [Next]_vars
  PROVE  RegisterInv'
<1> SUFFICES ASSUME ~adrift', kind' = "Aardvark"  PROVE Registers'
  BY DEF RegisterInv
<1>1. CASE UNCHANGED vars
  <2>1. /\ Registers /\ Base' /\ Held' /\ asked' = asked /\ line' = line /\ Held2' = Held2
        /\ \A t \in Threads : Writing(t)' <=> Writing(t)
    BY <1>1 DEF RegisterInv, Registers, Base, CallIsWhole, Held, Held2, Busy, Underway, Writing, vars, visaVars
  <2> QED  BY <2>1 DEF Registers
<1>2. CASE Next
  <2>1. kind' = kind /\ ~adrift /\ kind \notin Scopes
    BY <1>2, KindStays, NothingAfterDrift, KindsApart
  <2>2. Registers /\ kind = "Aardvark" /\ Base
    BY <2>1 DEF RegisterInv, Registers
  <2>3. \A t \in Threads : ~Prepare(t)
    <3> SUFFICES ASSUME NEW t \in Threads, NEW c \in Calls(t), c.op = "mode"  PROVE FALSE
      BY <2>2, PrepareIs
    <3> QED  BY <2>2, CallsAreIssued, I2CAsks
  <2>4. ~Trigger
    BY <2>1 DEF Trigger
  <2>5. PICK t \in Threads : Enter(t) \/ Finish(t) \/ Post(t) \/ StepOf(t)
    BY <1>2, <2>3, <2>4 DEF Next
  <2> QED  BY <2>1, <2>2, <2>5, EnterRegisters, FinishRegisters, PostRegisters, StepRegisters
<1> QED  BY <1>1, <1>2

LEMMA RegistersAreRight == RegisterInv /\ kind = "Aardvark" => SettingsAreAsAsked
<1> SUFFICES ASSUME Registers, kind = "Aardvark", NEW x \in DOMAIN asked  PROVE Holds(x) \in asked[x]
  BY DEF RegisterInv, SettingsAreAsAsked
<1>1. x \in Fields \X {0} /\ Extract(Held2, x[1]) \in asked[x]
  BY DEF Registers
<1>2. x # Select
  <2>1. x[1] \in {"mode", "gain"} /\ Select[1] = "select"
    BY <1>1 DEF Fields, Select
  <2> QED  BY <2>1
<1>3. Holds(x) = Extract(Held2, x[1])
  BY <1>2 DEF Holds, Held2
<1> QED  BY <1>1, <1>3

\* What the instrument holds in a setting is what the last call that returned
\* asked for, or what a call that raised or is under way asks for: whatever the
\* threads, the channels and the values, a setting that was refused makes its
\* call raise, for nobody else reads the error queue between the write and its
\* check; a command goes to the channel it was meant for, also where another
\* command selects that channel or the triggering one is remembered; and no
\* field of an I2C register is lost when another one is written.
THEOREM SettingsStayAsAsked ==
  ASSUME PowersOfTwo
  PROVE  Spec => []SettingsAreAsAsked
<1>1. Init => Inv /\ ReadInv /\ SettleInv /\ RegisterInv
  <2>1. Init => Inv /\ ReadInv
    BY InitHolds, ReadsInit
  <2>2. Init => SettleInv
    BY <2>1, SettlesInit, KindIs DEF SettleInv
  <2>3. Init => RegisterInv
    BY RegistersInit DEF RegisterInv
  <2> QED  BY <2>1, <2>2, <2>3
<1>2. Inv /\ ReadInv /\ SettleInv /\ RegisterInv /\ [Next]_vars => Inv' /\ ReadInv' /\ SettleInv' /\ RegisterInv'
  BY NextHolds, ReadsHold, SettlesHold, RegistersHold
<1>3. SettleInv /\ RegisterInv => SettingsAreAsAsked
  BY SettlesAreRight, RegistersAreRight
<1> QED  BY <1>1, <1>2, <1>3, PTL DEF Spec
=============================================================================
