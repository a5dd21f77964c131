----------------------------- MODULE PsuProofs -----------------------------
(***************************************************************************)
(* The properties of PsuBench for any number of channels and threads and   *)
(* any levels, loads and limits.  Every handler that is not refused hands  *)
(* a Settled channel to the update, and the update alone makes it a        *)
(* Protected one; an entry of the error queue is only ever removed by the  *)
(* thread that is told of it.                                              *)
(***************************************************************************)
EXTENDS PsuBench, TLAPS

\* What a channel must be for the update to protect it.
Settled(ch) == ch \in Channel /\ Ordered(ch) /\ (ch.latched => ~ch.output_enabled)

\* What the update leaves alone.
SameSettings(ch, d) ==
  /\ d.voltage_max = ch.voltage_max /\ d.current_max = ch.current_max
  /\ d.voltage_setpoint = ch.voltage_setpoint /\ d.current_limit = ch.current_limit
  /\ d.ovp_level = ch.ovp_level /\ d.ocp_level = ch.ocp_level
  /\ d.ovp_enabled = ch.ovp_enabled /\ d.ocp_enabled = ch.ocp_enabled
  /\ d.remote_sense = ch.remote_sense

LEMMA OutputFacts ==
  ASSUME NEW ch \in Channel, NEW mode \in {"OFF", "CV", "CC"},
         NEW i \in Int, NEW load \in Int, NEW terminal \in Int
  PROVE  LET d == Output(ch, mode, i, load, terminal)
         IN  /\ d \in Channel
             /\ SameSettings(ch, d)
             /\ d.mode = mode /\ d.current = i
             /\ d.latched = ch.latched /\ d.output_enabled = ch.output_enabled
BY DEF Output, Channel, SameSettings

LEMMA OffFacts ==
  ASSUME NEW ch \in Channel
  PROVE  /\ Off(ch) \in Channel
         /\ SameSettings(ch, Off(ch))
         /\ Off(ch).mode = "OFF" /\ Off(ch).current = 0
         /\ Off(ch).latched = ch.latched /\ Off(ch).output_enabled = ch.output_enabled
BY OutputFacts DEF Off

LEMMA TrippedFacts ==
  ASSUME NEW ch \in Channel
  PROVE  /\ Tripped(ch) \in Channel
         /\ SameSettings(ch, Tripped(ch))
         /\ Tripped(ch).mode = "OFF" /\ Tripped(ch).current = 0
         /\ Tripped(ch).latched /\ ~Tripped(ch).output_enabled
<1> DEFINE yes == TRUE
           no == FALSE
           d == [ch EXCEPT !.latched = yes, !.output_enabled = no]
<1>1. yes \in BOOLEAN /\ no \in BOOLEAN
  OBVIOUS
<1>2. Tripped(ch) = Off(d)
  BY DEF Tripped
<1>3. d.latched = yes /\ d.output_enabled = no
  BY DEF Channel
<1>4. d \in Channel /\ SameSettings(ch, d)
  <2> HIDE DEF yes, no
  <2> QED BY <1>1 DEF Channel, SameSettings
<1> HIDE DEF d
<1> QED BY <1>2, <1>3, <1>4, OffFacts DEF SameSettings

LEMMA DemandType ==
  ASSUME NEW ch \in Channel
  PROVE  /\ Total(ch) \in Nat \cup {Open}
         /\ Demand(ch) \in Int
         /\ Total(ch) = 0 => Demand(ch) = 0
<1>1. /\ ch.resistance \in Nat \cup {Open} /\ ch.probe \in Nat
      /\ ch.voltage_setpoint \in Nat /\ ch.emf \in Int
  BY DEF Channel
<1>2. Total(ch) \in Nat \cup {Open}
  BY <1>1 DEF Total, Open
<1>3. Demand(ch) \in Int
  BY <1>1, <1>2 DEF Demand, Open
<1> QED BY <1>2, <1>3 DEF Demand

LEMMA SourceFacts ==
  ASSUME NEW ch \in Channel
  PROVE  /\ Source(ch) \in Channel
         /\ SameSettings(ch, Source(ch))
         /\ Source(ch).current <= ch.current_limit
         /\ Source(ch).latched = ch.latched /\ Source(ch).output_enabled = ch.output_enabled
<1> DEFINE at_load == ch.current_limit * ch.resistance + ch.emf
           drop(i) == i * ch.probe
<1>1. /\ ch.resistance \in Int /\ ch.probe \in Nat /\ ch.emf \in Int
      /\ ch.voltage_setpoint \in Nat /\ ch.current_limit \in Nat
  BY DEF Channel, Open
<1>2. at_load \in Int /\ drop(Demand(ch)) \in Int /\ drop(ch.current_limit) \in Int
  BY <1>1, DemandType
<1>3. CASE ~VoltageRegulated(ch)
  <2>1. Source(ch) = Output(ch, "CC", ch.current_limit, at_load, at_load + drop(ch.current_limit))
    BY <1>3 DEF Source
  <2>2. at_load + drop(ch.current_limit) \in Int /\ ch.current_limit \in Int
    BY <1>1, <1>2
  <2> HIDE DEF at_load, drop
  <2> QED BY <1>1, <1>2, <2>1, <2>2, OutputFacts
<1>4. CASE VoltageRegulated(ch)
  <2> DEFINE v == ch.voltage_setpoint
             i == Demand(ch)
  <2>1. i <= ch.current_limit
    BY <1>1, <1>4, DemandType DEF VoltageRegulated
  <2>2. v \in Int /\ i \in Int /\ v + drop(i) \in Int /\ v - drop(i) \in Int
    BY <1>1, <1>2, DemandType
  <2>3. Source(ch) \in {Output(ch, "CV", i, v, v + drop(i)), Output(ch, "CV", i, v - drop(i), v)}
    BY <1>4 DEF Source
  <2> HIDE DEF v, i, drop
  <2> QED BY <2>1, <2>2, <2>3, OutputFacts
<1> QED BY <1>3, <1>4

\* The update keeps a settled channel settled and protects it.
LEMMA UpdatedFacts ==
  ASSUME NEW ch, Settled(ch)
  PROVE  Settled(Updated(ch)) /\ Protected(Updated(ch))
<1>1. ch \in Channel /\ Ordered(ch) /\ (ch.latched => ~ch.output_enabled) /\ ch.current_limit \in Nat
  BY DEF Settled, Channel
<1>2. CASE ~Driving(ch)
  <2>1. Updated(ch) = Off(ch)
    BY <1>2 DEF Updated
  <2> QED BY <1>1, <2>1, OffFacts DEF Settled, Protected, Ordered, SameSettings
<1>3. CASE Driving(ch) /\ (OverVoltage(Source(ch)) \/ OverCurrent(Source(ch)))
  <2>1. Updated(ch) = Tripped(ch)
    BY <1>3 DEF Updated
  <2> QED BY <1>1, <2>1, TrippedFacts DEF Settled, Protected, Ordered, SameSettings
<1>4. CASE Driving(ch) /\ ~(OverVoltage(Source(ch)) \/ OverCurrent(Source(ch)))
  <2> DEFINE s == Source(ch)
  <2>1. Updated(ch) = s
    BY <1>4 DEF Updated
  <2>2. /\ s \in Channel /\ SameSettings(ch, s) /\ s.current <= s.current_limit
        /\ s.latched = ch.latched /\ s.output_enabled = ch.output_enabled
    BY <1>1, SourceFacts DEF SameSettings
  <2>3. /\ Sensed(s) \in Int /\ s.current \in Int
        /\ s.ovp_level \in Nat /\ s.ocp_level \in Nat
    BY <2>2 DEF Sensed, Channel
  <2>4. ~OverVoltage(s) /\ ~OverCurrent(s) /\ ~s.latched
    BY <1>4, <2>2 DEF Driving
  <2> HIDE DEF s
  <2>5. Magnitude(s.current) \in Int
    BY <2>3 DEF Magnitude
  <2>6. Protected(s)
    BY <2>2, <2>3, <2>4, <2>5 DEF Protected, OverVoltage, OverCurrent
  <2>7. Settled(s)
    BY <1>1, <2>2, <2>4 DEF Settled, Ordered, SameSettings
  <2> QED BY <2>1, <2>6, <2>7
<1> QED BY <1>2, <1>3, <1>4

LEMMA UnprotectedFacts ==
  ASSUME NEW ch \in Channel
  PROVE  LET d == Unprotected(ch)
         IN  d \in Channel /\ d.ovp_level = d.voltage_max /\ d.ocp_level = d.current_max
<1> DEFINE no == FALSE
           d == [ch EXCEPT !.ovp_level = ch.voltage_max, !.ovp_enabled = no,
                           !.ocp_level = ch.current_max, !.ocp_enabled = no]
<1>1. no \in BOOLEAN /\ ch.voltage_max \in Nat /\ ch.current_max \in Nat
  BY DEF Channel
<1>2. d = Unprotected(ch)
  BY DEF Unprotected
<1> HIDE DEF no
<1>3. d \in Channel /\ d.ovp_level = d.voltage_max /\ d.ocp_level = d.current_max
  BY <1>1 DEF Channel
<1> QED BY <1>2, <1>3

LEMMA ResetFacts ==
  ASSUME NEW ch \in Channel
  PROVE  Settled(Reset(ch)) /\ Protected(Reset(ch)) /\ ~Reset(ch).latched
<1> DEFINE u == Unprotected(ch)
           zero == 0
           no == FALSE
           d == [u EXCEPT !.voltage_setpoint = zero, !.current_limit = zero,
                          !.output_enabled = no, !.latched = no]
<1>1. Reset(ch) = Off(d)
  BY DEF Reset
<1>2. zero = 0 /\ zero \in Nat /\ no = FALSE /\ no \in BOOLEAN
  OBVIOUS
<1>3. u \in Channel /\ u.ovp_level = u.voltage_max /\ u.ocp_level = u.current_max
  BY UnprotectedFacts
<1> HIDE DEF zero, no, u
<1>4. d \in Channel
  <2>1. zero \in Nat /\ no \in BOOLEAN
    BY <1>2
  <2> QED BY <1>3, <2>1 DEF Channel
<1>5. d.voltage_setpoint = zero /\ d.current_limit = zero /\ d.latched = no
  BY <1>3 DEF Channel
<1>6. d.ovp_level = d.voltage_max /\ d.ocp_level = d.current_max
  BY <1>3 DEF Channel
<1>7. d.voltage_max \in Nat /\ d.current_max \in Nat
  BY <1>4 DEF Channel
<1> HIDE DEF d
<1>8. /\ Off(d) \in Channel /\ SameSettings(d, Off(d))
      /\ Off(d).mode = "OFF" /\ Off(d).current = 0 /\ ~Off(d).latched
  BY <1>2, <1>4, <1>5, OffFacts
<1>9. Ordered(Off(d)) /\ Off(d).current <= Off(d).current_limit
  BY <1>2, <1>5, <1>6, <1>7, <1>8 DEF Ordered, SameSettings
<1> QED BY <1>1, <1>8, <1>9 DEF Settled, Protected

LEMMA NewChannelFacts ==
  Settled(NewChannel) /\ Protected(NewChannel) /\ ~NewChannel.latched
BY LimitsAssumption, LoadsAssumption DEF NewChannel, Channel, Settled, Ordered, Protected

----------------------------------------------------------------------------
(* The error queue *)

\* The queue tells of a trip of the channel.
Tells(es, id) == \E i \in DOMAIN es : es[i].channel = id /\ es[i].code \in TripCodes

LEMMA QueueFacts ==
  ASSUME NEW e \in Seq(Error), NEW t \in Seq(Error), NEW a \in Seq(Error)
  PROVE  /\ e \o t \o a \in Seq(Error)
         /\ e # <<>> \/ a # <<>> => e \o t \o a # <<>>
         /\ \A id : Tells(e, id) \/ Tells(t, id) => Tells(e \o t \o a, id)
<1> DEFINE q == e \o t \o a
<1>1. q \in Seq(Error) /\ Len(q) = Len(e) + Len(t) + Len(a)
  OBVIOUS
<1>2. e # <<>> \/ a # <<>> => q # <<>>
  BY <1>1
<1>3. \A i \in DOMAIN e : i \in DOMAIN q /\ q[i] = e[i]
  OBVIOUS
<1>4. \A i \in DOMAIN t : Len(e) + i \in DOMAIN q /\ q[Len(e) + i] = t[i]
  OBVIOUS
<1> HIDE DEF q
<1>5. \A id : Tells(e, id) \/ Tells(t, id) => Tells(q, id)
  BY <1>3, <1>4 DEF Tells
<1> QED BY <1>1, <1>2, <1>5 DEF q

LEMMA TakenFacts ==
  ASSUME NEW e \in Seq(Error), e # <<>>
  PROVE  /\ Tail(e) \in Seq(Error) /\ Head(e) \in Error
         /\ \A id : Tells(e, id) =>
              Tells(Tail(e), id) \/ (Head(e).channel = id /\ Head(e).code \in TripCodes)
<1>1. Tail(e) \in Seq(Error) /\ Head(e) \in Error /\ Head(e) = e[1]
  OBVIOUS
<1>2. \A i \in DOMAIN e : i # 1 => i - 1 \in DOMAIN Tail(e) /\ Tail(e)[i - 1] = e[i]
  OBVIOUS
<1> QED BY <1>1, <1>2 DEF Tells

----------------------------------------------------------------------------
(* The update *)

\* What holds of the channels between any two steps.
ChannelsInv ==
  /\ DOMAIN channels \subseteq Ids
  /\ \A id \in DOMAIN channels : Settled(channels[id]) /\ Protected(channels[id])

TripsTold == \A id \in Latched(channels) : id \in told \/ Tells(errors, id)

LEMMA TripOfFacts ==
  ASSUME NEW id \in Ids, NEW ch
  PROVE  /\ TripOf(id, ch) \in Error
         /\ TripOf(id, ch).channel = id /\ TripOf(id, ch).code \in TripCodes
BY DEF TripOf, Error, TripCodes

\* An update of settled channels, which latches none by itself, protects them all and
\* queues an error for each that it latches.
LEMMA UpdateFacts ==
  ASSUME errors \in Seq(Error),
         NEW chs, DOMAIN chs \subseteq Ids, \A id \in DOMAIN chs : Settled(chs[id]),
         NEW after \in Seq(Error),
         UpdateThen(chs, after)
  PROVE  /\ ChannelsInv'
         /\ errors' \in Seq(Error)
         /\ errors # <<>> \/ after # <<>> => errors' # <<>>
         /\ Latched(chs) \subseteq Latched(channels) /\ TripsTold /\ told' = Standing(channels')
              => TripsTold'
<1>1. /\ DOMAIN channels' = DOMAIN chs
      /\ \A id \in DOMAIN chs : channels'[id] = Updated(chs[id])
  BY DEF UpdateThen
<1>2. ChannelsInv'
  BY <1>1, UpdatedFacts DEF ChannelsInv
<1> DEFINE tripped == {id \in DOMAIN chs : Trips(chs[id])}
<1>3. PICK s \in TripOrders(chs) : errors' = errors \o [i \in DOMAIN s |-> TripOf(s[i], chs[s[i]])] \o after
  BY DEF UpdateThen
<1> DEFINE t == [i \in DOMAIN s |-> TripOf(s[i], chs[s[i]])]
<1>4. PICK n \in 0..MaxId : s \in [1..n -> tripped]
  BY <1>3 DEF TripOrders
<1>5. \A id \in tripped : \E i \in DOMAIN s : s[i] = id
  BY <1>3 DEF TripOrders
<1>6. DOMAIN s = 1..n /\ n \in Nat /\ \A i \in 1..n : s[i] \in Ids
  BY <1>4, LimitsAssumption
<1>7. t \in [1..n -> Error]
  BY <1>6, TripOfFacts
<1>8. t \in Seq(Error)
  BY <1>6, <1>7
<1>9. \A id \in tripped : Tells(t, id)
  <2> SUFFICES ASSUME NEW id \in tripped PROVE Tells(t, id)
    OBVIOUS
  <2>1. PICK i \in DOMAIN s : s[i] = id
    BY <1>5
  <2>2. t[i] = TripOf(id, chs[id]) /\ i \in DOMAIN t
    BY <2>1
  <2> QED BY <1>6, <2>1, <2>2, TripOfFacts DEF Tells
<1>10. errors' = errors \o t \o after
  BY <1>3
<1> HIDE DEF t
<1>11. /\ errors' \in Seq(Error)
       /\ errors # <<>> \/ after # <<>> => errors' # <<>>
       /\ \A id : Tells(errors, id) \/ Tells(t, id) => Tells(errors', id)
  BY <1>8, <1>10, QueueFacts
<1>12. ASSUME Latched(chs) \subseteq Latched(channels), TripsTold, told' = Standing(channels')
       PROVE  TripsTold'
  <2> SUFFICES ASSUME NEW id \in Latched(channels'), id \notin told'
               PROVE  Tells(errors', id)
    BY DEF TripsTold, Latched
  <2>1. id \in DOMAIN chs /\ Updated(chs[id]).latched
    BY <1>1 DEF Latched
  <2>2. CASE id \in Latched(channels)
    <3>1. id \notin told
      BY <1>12, <2>2 DEF Standing
    <3> QED BY <1>11, <1>12, <2>2, <3>1 DEF TripsTold
  <2>3. CASE id \notin Latched(channels)
    <3>1. ~chs[id].latched
      BY <1>12, <2>1, <2>3 DEF Latched
    <3>2. chs[id] \in Channel
      BY <2>1 DEF Settled
    <3>3. Driving(chs[id])
      BY <2>1, <3>1, <3>2, OffFacts DEF Updated
    <3> QED BY <1>9, <1>11, <2>1, <3>3 DEF Trips
  <2> QED BY <2>2, <2>3
<1> QED BY <1>2, <1>11, <1>12

----------------------------------------------------------------------------
(* The handlers *)

QueueInv == errors \in Seq(Error)

\* What a step of the supply keeps, whichever handler takes it.
Kept ==
  /\ ChannelsInv' /\ QueueInv'
  /\ errors # <<>> => errors' # <<>>
  /\ TripsTold /\ told' = Standing(channels') => TripsTold'

LEMMA ApplyFacts ==
  ASSUME ChannelsInv, QueueInv, NEW id \in DOMAIN channels,
         NEW ch, Settled(ch), ch.latched => channels[id].latched,
         Apply(id, ch)
  PROVE  Kept
<1> DEFINE chs == [channels EXCEPT ![id] = ch]
<1>1. UpdateThen(chs, <<>>)
  BY DEF Apply, Update
<1>2. DOMAIN chs = DOMAIN channels /\ \A c \in DOMAIN chs : chs[c] = IF c = id THEN ch ELSE channels[c]
  OBVIOUS
<1> HIDE DEF chs
<1>3. DOMAIN chs \subseteq Ids /\ \A c \in DOMAIN chs : Settled(chs[c])
  BY <1>2 DEF ChannelsInv
<1>4. Latched(chs) \subseteq Latched(channels)
  BY <1>2 DEF Latched
<1>5. <<>> \in Seq(Error)
  OBVIOUS
<1>6. /\ ChannelsInv' /\ errors' \in Seq(Error)
      /\ errors # <<>> => errors' # <<>>
      /\ TripsTold /\ told' = Standing(channels') => TripsTold'
  <2> USE DEF QueueInv
  <2> QED BY <1>1, <1>3, <1>4, <1>5, UpdateFacts
<1> QED BY <1>6 DEF Kept, QueueInv

LEMMA RefuseFacts ==
  ASSUME ChannelsInv, QueueInv, NEW id \in Ids, NEW code \in Refusals, Refuse(id, code)
  PROVE  Kept
<1> DEFINE entry == [code |-> code, channel |-> id]
<1>1. errors' = Append(errors, entry) /\ channels' = channels
  BY DEF Refuse
<1>2. entry \in Error
  BY DEF Error
<1> HIDE DEF entry
<1>3. errors' \in Seq(Error) /\ errors' # <<>>
  BY <1>1, <1>2 DEF QueueInv
<1>4. \A i \in DOMAIN errors : i \in DOMAIN errors' /\ errors'[i] = errors[i]
  BY <1>1, <1>2 DEF QueueInv
<1>5. Latched(channels') = Latched(channels)
  BY <1>1
<1>6. TripsTold /\ told' = Standing(channels') => TripsTold'
  BY <1>4, <1>5 DEF TripsTold, Tells, Standing
<1> QED BY <1>1, <1>3, <1>6 DEF Kept, ChannelsInv, QueueInv

LEMMA MissingFacts ==
  ASSUME ChannelsInv, QueueInv, NEW id \in Ids, MissingChannel(id)
  PROVE  Kept
<1>1. Refuse(id, "suffix_out_of_range") /\ "suffix_out_of_range" \in Refusals
  BY DEF MissingChannel, Refusals
<1> QED BY <1>1, RefuseFacts

\* The settings a handler changes once its conditions hold.
LEMMA SetpointFacts ==
  ASSUME NEW ch, Settled(ch), NEW x \in Nat
  PROVE  /\ x <= ch.ovp_level => LET d == [ch EXCEPT !.voltage_setpoint = x]
                                 IN  Settled(d) /\ d.latched = ch.latched
         /\ x <= ch.ocp_level => LET d == [ch EXCEPT !.current_limit = x]
                                 IN  Settled(d) /\ d.latched = ch.latched
BY DEF Settled, Ordered, Channel

LEMMA LevelFacts ==
  ASSUME NEW ch, Settled(ch), NEW x \in Nat
  PROVE  /\ ch.voltage_setpoint <= x /\ x <= ch.voltage_max
              => LET d == [ch EXCEPT !.ovp_level = x] IN Settled(d) /\ d.latched = ch.latched
         /\ ch.current_limit <= x /\ x <= ch.current_max
              => LET d == [ch EXCEPT !.ocp_level = x] IN Settled(d) /\ d.latched = ch.latched
BY DEF Settled, Ordered, Channel

LEMMA SwitchFacts ==
  ASSUME NEW ch, Settled(ch), NEW b \in BOOLEAN
  PROVE  /\ LET d == [ch EXCEPT !.ovp_enabled = b] IN Settled(d) /\ d.latched = ch.latched
         /\ LET d == [ch EXCEPT !.ocp_enabled = b] IN Settled(d) /\ d.latched = ch.latched
         /\ LET d == [ch EXCEPT !.remote_sense = b] IN Settled(d) /\ d.latched = ch.latched
BY DEF Settled, Ordered, Channel

LEMMA LatchFacts ==
  ASSUME NEW ch, Settled(ch), NEW b \in BOOLEAN
  PROVE  /\ LET d == [ch EXCEPT !.latched = @ /\ ~b, !.output_enabled = b]
             IN  Settled(d) /\ (d.latched => ch.latched)
         /\ LET d == [ch EXCEPT !.latched = FALSE] IN Settled(d) /\ ~d.latched
BY DEF Settled, Ordered, Channel

LEMMA LoadFacts ==
  ASSUME NEW ch, Settled(ch), NEW r \in Nat \cup {Open}, NEW p \in Nat, NEW e \in Int
  PROVE  /\ LET d == [ch EXCEPT !.resistance = r] IN Settled(d) /\ d.latched = ch.latched
         /\ LET d == [ch EXCEPT !.probe = p] IN Settled(d) /\ d.latched = ch.latched
         /\ LET d == [ch EXCEPT !.emf = e] IN Settled(d) /\ d.latched = ch.latched
BY DEF Settled, Ordered, Channel

LEMMA CommandFacts ==
  ASSUME NEW c \in Commands
  PROVE  /\ c.id \in Ids
         /\ c.op \in {"VOLT", "CURR", "VOLT:PROT", "CURR:PROT"} => c.arg \in Int
         /\ c.op \in {"VOLT:PROT:STAT", "CURR:PROT:STAT", "OUTP", "SENS"} => c.arg \in BOOLEAN
<1>1. CASE c \in [op : {"VOLT", "CURR", "VOLT:PROT", "CURR:PROT"}, id : Ids, arg : Asked]
  <2>1. c.id \in Ids /\ c.arg \in Asked /\ c.op \in {"VOLT", "CURR", "VOLT:PROT", "CURR:PROT"}
    BY <1>1
  <2>2. c.arg \in Int
    <3>1. Asked \subseteq Int
      BY LevelsAssumption DEF Asked
    <3> QED BY <2>1, <3>1
  <2>3. c.op \notin {"VOLT:PROT:STAT", "CURR:PROT:STAT", "OUTP", "SENS"}
    BY <2>1
  <2> QED BY <2>1, <2>2, <2>3
<1>2. CASE c \in [op : {"VOLT:PROT:STAT", "CURR:PROT:STAT", "OUTP", "SENS"}, id : Ids, arg : BOOLEAN]
  BY <1>2
<1>3. CASE c \in [op : {"OUTP:PROT:CLE", "MEAS", "query"}, id : Ids, arg : {"none"}]
  BY <1>3
<1> QED BY <1>1, <1>2, <1>3 DEF Commands

LEMMA SetpointStep ==
  ASSUME ChannelsInv, QueueInv, NEW id \in Ids, NEW x \in Int,
         SetVoltage(id, x) \/ SetCurrent(id, x)
  PROVE  Kept
<1>1. CASE MissingChannel(id)
  BY <1>1, MissingFacts
<1>2. CASE Refuse(id, "data_out_of_range") \/ Refuse(id, "pv_above_ovp") \/ Refuse(id, "pc_above_ocp")
  <2>1. {"data_out_of_range", "pv_above_ovp", "pc_above_ocp"} \subseteq Refusals
    BY DEF Refusals
  <2> QED BY <1>2, <2>1, RefuseFacts
<1>3. CASE /\ Present(id)
           /\ \/ /\ x \in 0..channels[id].voltage_max /\ ~(x > channels[id].ovp_level)
                 /\ Apply(id, [channels[id] EXCEPT !.voltage_setpoint = x])
              \/ /\ x \in 0..channels[id].current_max /\ ~(x > channels[id].ocp_level)
                 /\ Apply(id, [channels[id] EXCEPT !.current_limit = x])
  <2> DEFINE ch == channels[id]
  <2>1. id \in DOMAIN channels /\ Settled(ch)
    BY <1>3 DEF Present, ChannelsInv
  <2>2. /\ ch.voltage_max \in Nat /\ ch.current_max \in Nat
        /\ ch.ovp_level \in Nat /\ ch.ocp_level \in Nat
    BY <2>1 DEF Settled, Channel
  <2> DEFINE d == [ch EXCEPT !.voltage_setpoint = x]
             e == [ch EXCEPT !.current_limit = x]
  <2>3. \/ Apply(id, d) /\ Settled(d) /\ d.latched = ch.latched
        \/ Apply(id, e) /\ Settled(e) /\ e.latched = ch.latched
    <3>1. x \in Nat
      BY <1>3, <2>2
    <3> QED BY <1>3, <2>1, <2>2, <3>1, SetpointFacts
  <2> HIDE DEF d, e
  <2> QED BY <2>1, <2>3, ApplyFacts
<1> QED BY <1>1, <1>2, <1>3 DEF SetVoltage, SetCurrent

LEMMA LevelStep ==
  ASSUME ChannelsInv, QueueInv, NEW id \in Ids, NEW x \in Int,
         SetOvpLevel(id, x) \/ SetOcpLevel(id, x)
  PROVE  Kept
<1>1. CASE MissingChannel(id)
  BY <1>1, MissingFacts
<1>2. CASE Refuse(id, "data_out_of_range") \/ Refuse(id, "ovp_below_pv") \/ Refuse(id, "ocp_below_pc")
  <2>1. {"data_out_of_range", "ovp_below_pv", "ocp_below_pc"} \subseteq Refusals
    BY DEF Refusals
  <2> QED BY <1>2, <2>1, RefuseFacts
<1>3. CASE /\ Present(id)
           /\ \/ /\ x \in 0..channels[id].voltage_max /\ ~(x < channels[id].voltage_setpoint)
                 /\ Apply(id, [channels[id] EXCEPT !.ovp_level = x])
              \/ /\ x \in 0..channels[id].current_max /\ ~(x < channels[id].current_limit)
                 /\ Apply(id, [channels[id] EXCEPT !.ocp_level = x])
  <2> DEFINE ch == channels[id]
  <2>1. id \in DOMAIN channels /\ Settled(ch)
    BY <1>3 DEF Present, ChannelsInv
  <2>2. /\ ch.voltage_max \in Nat /\ ch.current_max \in Nat
        /\ ch.voltage_setpoint \in Nat /\ ch.current_limit \in Nat
    BY <2>1 DEF Settled, Channel
  <2> DEFINE d == [ch EXCEPT !.ovp_level = x]
             e == [ch EXCEPT !.ocp_level = x]
  <2>3. \/ Apply(id, d) /\ Settled(d) /\ d.latched = ch.latched
        \/ Apply(id, e) /\ Settled(e) /\ e.latched = ch.latched
    <3>1. x \in Nat
      BY <1>3, <2>2
    <3> QED BY <1>3, <2>1, <2>2, <3>1, LevelFacts
  <2> HIDE DEF d, e
  <2> QED BY <2>1, <2>3, ApplyFacts
<1> QED BY <1>1, <1>2, <1>3 DEF SetOvpLevel, SetOcpLevel

LEMMA SwitchStep ==
  ASSUME ChannelsInv, QueueInv, NEW id \in Ids, NEW b \in BOOLEAN,
         SetOvpState(id, b) \/ SetOcpState(id, b) \/ SetRemoteSense(id, b)
  PROVE  Kept
<1>1. CASE MissingChannel(id)
  BY <1>1, MissingFacts
<1>2. CASE /\ Present(id)
           /\ \/ Apply(id, [channels[id] EXCEPT !.ovp_enabled = b])
              \/ Apply(id, [channels[id] EXCEPT !.ocp_enabled = b])
              \/ Apply(id, [channels[id] EXCEPT !.remote_sense = b])
  <2> DEFINE ch == channels[id]
             d == [ch EXCEPT !.ovp_enabled = b]
             e == [ch EXCEPT !.ocp_enabled = b]
             f == [ch EXCEPT !.remote_sense = b]
  <2>1. id \in DOMAIN channels /\ Settled(ch)
    BY <1>2 DEF Present, ChannelsInv
  <2>2. /\ Settled(d) /\ d.latched = ch.latched
        /\ Settled(e) /\ e.latched = ch.latched
        /\ Settled(f) /\ f.latched = ch.latched
    BY <2>1, SwitchFacts
  <2>3. Apply(id, d) \/ Apply(id, e) \/ Apply(id, f)
    BY <1>2
  <2> HIDE DEF d, e, f
  <2> QED BY <2>1, <2>2, <2>3, ApplyFacts
<1> QED BY <1>1, <1>2 DEF SetOvpState, SetOcpState, SetRemoteSense

LEMMA LatchStep ==
  ASSUME ChannelsInv, QueueInv, NEW id \in Ids, NEW b \in BOOLEAN,
         SetOutput(id, b) \/ ClearProtectionLatch(id)
  PROVE  Kept
<1>1. CASE MissingChannel(id)
  BY <1>1, MissingFacts
<1>2. CASE /\ Present(id)
           /\ \/ Apply(id, [channels[id] EXCEPT !.latched = @ /\ ~b, !.output_enabled = b])
              \/ Apply(id, [channels[id] EXCEPT !.latched = FALSE])
  <2> DEFINE ch == channels[id]
             d == [ch EXCEPT !.latched = @ /\ ~b, !.output_enabled = b]
             e == [ch EXCEPT !.latched = FALSE]
  <2>1. id \in DOMAIN channels /\ Settled(ch)
    BY <1>2 DEF Present, ChannelsInv
  <2>2. /\ Settled(d) /\ (d.latched => ch.latched)
        /\ Settled(e) /\ (e.latched => ch.latched)
    BY <2>1, LatchFacts
  <2>3. Apply(id, d) \/ Apply(id, e)
    BY <1>2
  <2> HIDE DEF d, e
  <2> QED BY <2>1, <2>2, <2>3, ApplyFacts
<1> QED BY <1>1, <1>2 DEF SetOutput, ClearProtectionLatch

LEMMA QueryStep ==
  ASSUME ChannelsInv, QueueInv, NEW id \in Ids, Measure(id) \/ Query(id)
  PROVE  Kept
<1>1. CASE MissingChannel(id)
  BY <1>1, MissingFacts
<1>2. CASE UNCHANGED psuVars
  BY <1>2 DEF psuVars, Kept, ChannelsInv, QueueInv, TripsTold, Standing, Latched, Tells
<1>3. CASE Measure(id)
  <2> DEFINE missing == << [code |-> "suffix_out_of_range", channel |-> id] >>
  <2>1. missing \in Seq(Error) /\ <<>> \in Seq(Error)
    BY DEF Error, Refusals
  <2>2. UpdateThen(channels, <<>>) \/ UpdateThen(channels, missing)
    BY <1>3 DEF Measure, Update
  <2> HIDE DEF missing
  <2>3. DOMAIN channels \subseteq Ids /\ \A c \in DOMAIN channels : Settled(channels[c])
    BY DEF ChannelsInv
  <2>4. /\ ChannelsInv' /\ errors' \in Seq(Error)
        /\ errors # <<>> => errors' # <<>>
        /\ TripsTold /\ told' = Standing(channels') => TripsTold'
    <3> USE DEF QueueInv
    <3> QED BY <2>1, <2>2, <2>3, UpdateFacts
  <2> QED BY <2>4 DEF Kept, QueueInv
<1> QED BY <1>1, <1>2, <1>3 DEF Query

LEMMA HandlerStep ==
  ASSUME ChannelsInv, QueueInv, NEW c \in Commands, Handler(c)
  PROVE  Kept
<1>1. CASE c.op \in {"VOLT", "CURR"} /\ (SetVoltage(c.id, c.arg) \/ SetCurrent(c.id, c.arg))
  BY <1>1, CommandFacts, SetpointStep
<1>2. CASE c.op \in {"VOLT:PROT", "CURR:PROT"} /\ (SetOvpLevel(c.id, c.arg) \/ SetOcpLevel(c.id, c.arg))
  BY <1>2, CommandFacts, LevelStep
<1>3. CASE /\ c.op \in {"VOLT:PROT:STAT", "CURR:PROT:STAT", "SENS"}
           /\ SetOvpState(c.id, c.arg) \/ SetOcpState(c.id, c.arg) \/ SetRemoteSense(c.id, c.arg)
  BY <1>3, CommandFacts, SwitchStep
<1>4. CASE c.op = "OUTP" /\ SetOutput(c.id, c.arg)
  BY <1>4, CommandFacts, LatchStep
<1>5. CASE ClearProtectionLatch(c.id)
  BY <1>5, CommandFacts, LatchStep
<1>6. CASE Measure(c.id) \/ Query(c.id)
  BY <1>6, CommandFacts, QueryStep
<1> QED BY <1>1, <1>2, <1>3, <1>4, <1>5, <1>6 DEF Handler

----------------------------------------------------------------------------
(* The bench *)

CallInv ==
  /\ holder \in Threads \cup {Nobody}
  /\ call \in Commands
  /\ stage \in {"free", "sent", "served"}
  /\ refused \in BOOLEAN /\ wiped \in BOOLEAN
  /\ told \subseteq Ids
  /\ outcome \in {"none", "ok", "raised"}

\* A refusal waits in the queue until the call that got it looks, unless the panel wipes it.
RefusalInv ==
  /\ stage # "free" => holder # Nobody
  /\ refused => stage = "served"
  /\ refused /\ ~wiped => errors # <<>>

Inv == ChannelsInv /\ QueueInv /\ CallInv /\ TripsTold /\ RefusalInv

LEMMA InvImplies ==
  Inv => TypeOK /\ ProtectionHolds /\ LevelsInOrder /\ TripIsNotSilent
<1> SUFFICES ASSUME Inv PROVE TypeOK /\ ProtectionHolds /\ LevelsInOrder /\ TripIsNotSilent
  OBVIOUS
<1>1. TypeOK
  BY DEF Inv, ChannelsInv, QueueInv, CallInv, Settled, TypeOK
<1>2. ProtectionHolds /\ LevelsInOrder
  BY DEF Inv, ChannelsInv, Settled, ProtectionHolds, LevelsInOrder
<1>3. TripIsNotSilent
  BY DEF Inv, TripsTold, Tells, TripIsNotSilent
<1> QED BY <1>1, <1>2, <1>3

LEMMA InitInv == Init => Inv
<1> SUFFICES ASSUME Init PROVE Inv
  OBVIOUS
<1>1. ChannelsInv /\ Latched(channels) = {}
  BY NewChannelFacts DEF Init, ChannelsInv, Latched
<1>2. QueueInv
  BY DEF Init, QueueInv
<1>3. NoCommand \in Commands
  BY LimitsAssumption DEF NoCommand, Commands, Ids
<1>4. CallInv /\ RefusalInv
  BY <1>3 DEF Init, CallInv, RefusalInv
<1> QED BY <1>1, <1>2, <1>4 DEF Inv, TripsTold

\* What every step of the supply leaves of the invariant.
LEMMA KeptInv ==
  ASSUME Inv, Kept, told' = Standing(channels')
  PROVE  ChannelsInv' /\ QueueInv' /\ TripsTold' /\ told' \subseteq Ids
BY DEF Inv, Kept, CallInv, Standing

LEMMA ServeInv ==
  ASSUME Inv, Serve
  PROVE  Inv'
<1>1. Kept
  BY HandlerStep DEF Serve, Inv, CallInv
<1>2. ChannelsInv' /\ QueueInv' /\ TripsTold' /\ told' \subseteq Ids
  BY <1>1, KeptInv DEF Serve
<1>3. refused' \in BOOLEAN /\ (refused' => errors' # <<>>)
  BY DEF Serve
<1>4. CallInv' /\ RefusalInv'
  BY <1>2, <1>3 DEF Serve, Inv, CallInv, RefusalInv
<1> QED BY <1>2, <1>4 DEF Inv

LEMMA CheckErrorsInv ==
  ASSUME Inv, CheckErrors
  PROVE  Inv'
<1>1. NoCommand \in Commands
  BY LimitsAssumption DEF NoCommand, Commands, Ids
<1>2. CASE errors = <<>>
  <2>1. UNCHANGED <<channels, errors, told>>
    BY <1>2 DEF CheckErrors, Finish
  <2>2. ChannelsInv' /\ QueueInv' /\ TripsTold'
    BY <2>1 DEF Inv, ChannelsInv, QueueInv, TripsTold, Latched, Tells
  <2>3. CallInv' /\ RefusalInv'
    BY <1>1, <1>2, <2>1 DEF Inv, CallInv, RefusalInv, CheckErrors, Finish
  <2> QED BY <2>2, <2>3 DEF Inv
<1>3. CASE errors # <<>>
  <2>1. channels' = channels /\ errors' = Tail(errors)
    BY <1>3 DEF CheckErrors, Finish
  <2>2. told' = IF Head(errors).code \in TripCodes /\ Head(errors).channel \in Latched(channels)
                THEN told \cup {Head(errors).channel} ELSE told
    BY <1>3 DEF CheckErrors
  <2>3. /\ Tail(errors) \in Seq(Error) /\ Head(errors) \in Error
        /\ \A id : Tells(errors, id) =>
             Tells(Tail(errors), id) \/ (Head(errors).channel = id /\ Head(errors).code \in TripCodes)
    BY <1>3, TakenFacts DEF Inv, QueueInv
  <2>4. ChannelsInv' /\ QueueInv'
    BY <2>1, <2>3 DEF Inv, ChannelsInv, QueueInv
  <2>5. TripsTold'
    BY <2>1, <2>2, <2>3 DEF Inv, TripsTold, Latched
  <2>6. told' \subseteq Ids
    BY <2>2, <2>3 DEF Inv, CallInv, Error
  <2>7. CallInv' /\ RefusalInv'
    BY <1>1, <1>3, <2>6 DEF Inv, CallInv, RefusalInv, CheckErrors, Finish
  <2> QED BY <2>4, <2>5, <2>7 DEF Inv
<1> QED BY <1>2, <1>3

LEMMA EditInv ==
  ASSUME Inv, NEW id \in Ids, Edit(id)
  PROVE  Inv'
<1>1. /\ Present(id)
      /\ \/ \E r \in Resistances \cup {Open} : Apply(id, [channels[id] EXCEPT !.resistance = r])
         \/ \E r \in Resistances : Apply(id, [channels[id] EXCEPT !.probe = r])
         \/ \E e \in Emfs : Apply(id, [channels[id] EXCEPT !.emf = e])
  BY DEF Edit, EditLoad, EditProbe, EditEmf
<1> DEFINE ch == channels[id]
<1>2. id \in DOMAIN channels /\ Settled(ch)
  BY <1>1 DEF Present, Inv, ChannelsInv
<1>3. PICK d : Apply(id, d) /\ Settled(d) /\ d.latched = ch.latched
  <2>1. 0 \in Nat /\ 0 \in Nat \cup {Open} /\ 0 \in Int
    OBVIOUS
  <2>2. CASE \E r \in Resistances \cup {Open} : Apply(id, [ch EXCEPT !.resistance = r])
    <3>1. PICK r \in Nat \cup {Open} : Apply(id, [ch EXCEPT !.resistance = r])
      BY <2>2, PanelAssumption
    <3> DEFINE d == [ch EXCEPT !.resistance = r]
    <3>2. Settled(d) /\ d.latched = ch.latched
      BY <1>2, <2>1, LoadFacts
    <3> HIDE DEF d
    <3> QED BY <3>1, <3>2 DEF d
  <2>3. CASE \E r \in Resistances : Apply(id, [ch EXCEPT !.probe = r])
    <3>1. PICK r \in Nat : Apply(id, [ch EXCEPT !.probe = r])
      BY <2>3, PanelAssumption
    <3> DEFINE d == [ch EXCEPT !.probe = r]
    <3>2. Settled(d) /\ d.latched = ch.latched
      BY <1>2, <2>1, LoadFacts
    <3> QED BY <3>1, <3>2
  <2>4. CASE \E e \in Emfs : Apply(id, [ch EXCEPT !.emf = e])
    <3>1. PICK e \in Int : Apply(id, [ch EXCEPT !.emf = e])
      BY <2>4, PanelAssumption
    <3> DEFINE d == [ch EXCEPT !.emf = e]
    <3>2. Settled(d) /\ d.latched = ch.latched
      BY <1>2, <2>1, LoadFacts
    <3> QED BY <3>1, <3>2
  <2> QED BY <1>1, <2>2, <2>3, <2>4
<1>4. Kept
  BY <1>2, <1>3, ApplyFacts DEF Inv
<1>5. ChannelsInv' /\ QueueInv' /\ TripsTold' /\ told' \subseteq Ids
  BY <1>4, KeptInv DEF Edit
<1>6. CallInv' /\ RefusalInv'
  BY <1>4, <1>5 DEF Edit, Inv, CallInv, RefusalInv, Kept, callVars
<1> QED BY <1>5, <1>6 DEF Inv

LEMMA EditLimitInv ==
  ASSUME Inv, NEW id \in Ids, EditLimit(id)
  PROVE  Inv'
<1>1. PICK chs : /\ ResetTo(chs) /\ Present(id)
                 /\ \/ \E x \in VoltageLimits : chs = [channels EXCEPT ![id].voltage_max = x]
                    \/ \E x \in CurrentLimits : chs = [channels EXCEPT ![id].current_max = x]
  BY DEF EditLimit, EditVoltageLimit, EditCurrentLimit
<1>2. id \in DOMAIN channels /\ \A c \in DOMAIN channels : channels[c] \in Channel
  BY <1>1 DEF Present, Inv, ChannelsInv, Settled
<1>3. \A x \in Nat : /\ [channels[id] EXCEPT !.voltage_max = x] \in Channel
                     /\ [channels[id] EXCEPT !.current_max = x] \in Channel
  BY <1>2 DEF Channel
<1>4. DOMAIN chs = DOMAIN channels /\ \A c \in DOMAIN chs : chs[c] \in Channel
  BY <1>1, <1>2, <1>3, PanelAssumption
<1>5. /\ DOMAIN channels' = DOMAIN channels
      /\ \A c \in DOMAIN channels : channels'[c] = Reset(chs[c])
      /\ errors' = <<>>
  BY <1>1, <1>4 DEF ResetTo
<1>6. ChannelsInv' /\ Latched(channels') = {}
  BY <1>4, <1>5, ResetFacts DEF ChannelsInv, Latched, Inv
<1>7. QueueInv' /\ TripsTold'
  BY <1>5, <1>6 DEF QueueInv, TripsTold
<1>8. CallInv' /\ RefusalInv'
  BY DEF EditLimit, Inv, CallInv, RefusalInv
<1> QED BY <1>6, <1>7, <1>8 DEF Inv

LEMMA RosterInv ==
  ASSUME Inv, Add \/ \E id \in Ids : Remove(id)
  PROVE  Inv'
<1>1. errors' = errors /\ UNCHANGED <<callVars, outcome>> /\ told' \subseteq told
  BY DEF Add, AddChannel, Remove, RemoveChannel
<1>2. CallInv' /\ RefusalInv' /\ QueueInv'
  BY <1>1 DEF Inv, CallInv, RefusalInv, QueueInv, callVars
<1>3. CASE Add
  <2>1. PICK new \in Ids : channels' = [c \in DOMAIN channels \cup {new} |-> IF c = new THEN NewChannel ELSE channels[c]]
    BY <1>3 DEF Add, AddChannel
  <2>2. told' = told
    BY <1>3 DEF Add
  <2> QED BY <1>1, <1>2, <2>1, <2>2, NewChannelFacts DEF Inv, ChannelsInv, TripsTold, Latched
<1>4. CASE \E id \in Ids : Remove(id)
  <2>1. PICK id \in Ids : /\ channels' = [c \in DOMAIN channels \ {id} |-> channels[c]]
                          /\ told' = told \ {id}
    BY <1>4 DEF Remove, RemoveChannel
  <2> QED BY <1>1, <1>2, <2>1 DEF Inv, ChannelsInv, TripsTold, Latched
<1> QED BY <1>3, <1>4

LEMMA CallStepInv ==
  ASSUME Inv, NEW t \in Threads, NEW c \in Commands, Call(t, c)
  PROVE  Inv'
<1>1. UNCHANGED <<channels, errors, told>> /\ refused' = refused /\ wiped' = wiped
  BY DEF Call, psuVars
<1>2. ChannelsInv' /\ QueueInv' /\ TripsTold'
  BY <1>1 DEF Inv, ChannelsInv, QueueInv, TripsTold, Latched, Tells
<1>3. ~refused
  BY DEF Call, Inv, RefusalInv
<1>4. CallInv' /\ RefusalInv'
  BY <1>1, <1>3, ThreadsAssumption DEF Call, Inv, CallInv, RefusalInv
<1> QED BY <1>2, <1>4 DEF Inv

LEMMA InductiveInv ==
  ASSUME Inv, [Next]_vars
  PROVE  Inv'
<1>1. ASSUME NEW t \in Threads, NEW c \in Commands, Call(t, c) PROVE Inv'
  BY <1>1, CallStepInv
<1>2. CASE Serve
  BY <1>2, ServeInv
<1>3. CASE CheckErrors
  BY <1>3, CheckErrorsInv
<1>4. ASSUME NEW id \in Ids, Edit(id) \/ EditLimit(id) PROVE Inv'
  BY <1>4, EditInv, EditLimitInv
<1>5. CASE Add \/ \E id \in Ids : Remove(id)
  BY <1>5, RosterInv
<1>6. CASE UNCHANGED vars
  BY <1>6 DEF vars, psuVars, callVars, Inv, ChannelsInv, QueueInv, CallInv, RefusalInv, TripsTold, Latched, Tells
<1> QED BY <1>1, <1>2, <1>3, <1>4, <1>5, <1>6 DEF Next

LEMMA Invariance == Spec => []Inv
BY InitInv, InductiveInv, PTL DEF Spec

----------------------------------------------------------------------------
(* The theorems *)

\* Every variable of the supply and of its callers keeps its type, whatever the number of
\* channels, threads, settings and loads.
THEOREM TypeCorrect == Spec => []TypeOK
BY Invariance, InvImplies, PTL

\* No order of commands, load edits, resets and channel edits shows a voltage or a current
\* that an enabled protection forbids (SimulatedPSU._update_channel).
THEOREM ProtectionCorrect == Spec => []ProtectionHolds
BY Invariance, InvImplies, PTL

\* Setpoint, protection level and limit stay in order, although each handler compares with
\* only one of the others.
THEOREM LevelsCorrect == Spec => []LevelsInOrder
BY Invariance, InvImplies, PTL

\* No trip is lost, however many channels trip at once and whichever call takes the error.
THEOREM NoTripIsLost == Spec => []TripIsNotSilent
BY Invariance, InvImplies, PTL

\* A call that returns without an error was not refused, unless the panel reset the supply
\* between its command and its look at the errors.
THEOREM OkIsApplied == Spec => OkMeansApplied
<1>1. ASSUME Inv, [Next]_vars, holder # Nobody, holder' = Nobody, outcome' = "ok", ~wiped
      PROVE  ~refused /\ errors = <<>>
  <2>1. CASE CheckErrors
    <3>1. errors = <<>>
      BY <1>1, <2>1 DEF CheckErrors, Finish
    <3> QED BY <1>1, <3>1 DEF Inv, RefusalInv
  <2>2. CASE ~CheckErrors
    <3>1. holder' = holder \/ holder = Nobody
      BY <1>1, <2>2 DEF Next, Call, Serve, Edit, EditLimit, Add, Remove, vars, callVars
    <3> QED BY <1>1, <3>1
  <2> QED BY <2>1, <2>2
<1> QED BY <1>1, Invariance, PTL DEF Spec, OkMeansApplied
=============================================================================
