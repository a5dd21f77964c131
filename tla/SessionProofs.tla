--------------------------- MODULE SessionProofs ---------------------------
(***************************************************************************)
(* The safety of the two client sessions that a daemon keeps with a        *)
(* controller: the OPC UA subscription and the EtherNet/IP session.        *)
(*   OpcUaSubscription, for any set of nodes, any queue size of the server *)
(* and any length of time: the invariant says what the pump may rely on    *)
(* without looking.  Samples it keeps back are no older than what it has   *)
(* passed on, a notification that was overtaken was overtaken by a flush,  *)
(* and the last notification in a queue is of the last change.             *)
(*   Fieldbus, for any number of users and of outages: the invariant adds  *)
(* to the properties what makes them hold together.  The lock is held      *)
(* exactly by the thread inside the session, and a connection that has     *)
(* failed is gone.  The parts need each other: the lock keeps close() out  *)
(* while a thread is inside, and close() is what could take the client     *)
(* away from a request.                                                    *)
(***************************************************************************)
EXTENDS OpcUaSubscription, Fieldbus, SequenceTheorems, TLAPS

----------------------------------------------------------------------------
(* OpcUaSubscription *)

InboxOK == inbox \in [Nodes -> Seq(1..MaxClock)]

\* No read is under way once the client is disconnected, and the user no longer holds it.
ClientInv == disconnected => ~held /\ loop \notin {"reading", "answered"}

\* What comes from the server is of its past; a sample that was read is of the last change
\* or of an earlier one.
ClockInv ==
  \A n \in Nodes :
    /\ changed[n] <= clock /\ emitted[n] <= clock
    /\ n \in DOMAIN polled => polled[n].val <= changed[n] /\ polled[n].ts <= clock
    /\ n \in DOMAIN reads => reads[n].val <= changed[n] /\ reads[n].ts <= clock

\* A sample kept back is no older than the last one passed on, and is there only while the
\* pump waits; an answer is there only until it is kept.
KeptInv ==
  \A n \in Nodes :
    /\ n \in DOMAIN polled => polled[n].ts >= emitted[n]
    /\ n \in DOMAIN reads => reads[n].ts >= emitted[n] /\ loop = "answered"
    /\ n \in DOMAIN polled => loop = "select"

\* Notifications are in order, and only a flush can have overtaken one.
InboxInv ==
  \A n \in Nodes :
    /\ \A i, j \in DOMAIN inbox[n] : i < j => inbox[n][i] < inbox[n][j]
    /\ \A i \in DOMAIN inbox[n] : /\ inbox[n][i] <= clock
                                  /\ inbox[n][i] >= emitted[n] \/ inbox[n][i] <= flushed[n]
    /\ inbox[n] # <<>> => n \in Monitored /\ inbox[n][Len(inbox[n])] = changed[n]

Inv == TypeOK /\ InboxOK /\ ClientInv /\ ClockInv /\ KeptInv /\ InboxInv

USE MonitoredAssumption, QueueSizeAssumption, MaxClockAssumption

----------------------------------------------------------------------------
(* The server's queue *)

\* Taking a notification leaves the later ones, in order.
LEMMA TailShifts ==
  ASSUME NEW S, NEW list \in Seq(S), list # <<>>
  PROVE  /\ Head(list) \in S /\ Head(list) = list[1] /\ 1 \in DOMAIN list
         /\ Tail(list) \in Seq(S) /\ Len(Tail(list)) = Len(list) - 1
         /\ DOMAIN Tail(list) = 1..Len(list) - 1
         /\ \A i \in DOMAIN Tail(list) : i + 1 \in DOMAIN list /\ Tail(list)[i] = list[i + 1]
         /\ Len(list) \in Nat \ {0} /\ DOMAIN list = 1..Len(list)
<1>1. /\ Len(list) \in Nat \ {0} /\ DOMAIN list = 1..Len(list)
      /\ Head(list) \in S /\ Head(list) = list[1]
  BY LenProperties, EmptySeq
<1> DEFINE rest == Tail(list)
<1>2. /\ rest \in Seq(S) /\ Len(rest) = Len(list) - 1
      /\ \A i \in 1..Len(rest) : rest[i] = list[i + 1]
  BY HeadTailProperties
<1> HIDE DEF rest
<1>3. DOMAIN rest = 1..Len(list) - 1
  BY <1>2, LenProperties
<1>4. \A i \in DOMAIN rest : i + 1 \in DOMAIN list /\ rest[i] = list[i + 1]
  BY <1>1, <1>2, <1>3
<1>5. 1 \in DOMAIN list
  BY <1>1
<1> QED  BY <1>1, <1>2, <1>3, <1>4, <1>5 DEF rest

\* A full queue loses its oldest notification.
Room(list) == IF Len(list) = QueueSize THEN Tail(list) ELSE list

\* The first k notifications of a queue are those of another one, or its next ones.
Keeps(new, list, k) ==
  \E d \in {0, 1} : \A i \in 1..k : i + d \in DOMAIN list /\ new[i] = list[i + d]

LEMMA MakesRoom ==
  ASSUME NEW S, NEW list \in Seq(S), Len(list) <= QueueSize
  PROVE  /\ Room(list) \in Seq(S) /\ Len(Room(list)) \in 0..QueueSize - 1
         /\ \E d \in {0, 1} : \A i \in 1..Len(Room(list)) :
              i + d \in DOMAIN list /\ Room(list)[i] = list[i + d]
<1>1. Len(list) \in Nat /\ DOMAIN list = 1..Len(list)
  BY LenProperties
<1>2. CASE Len(list) = QueueSize
  <2>1. list # <<>>
    BY <1>2
  <2>2. Room(list) = Tail(list)
    BY <1>2 DEF Room
  <2>3. /\ Room(list) \in Seq(S) /\ Len(Room(list)) = Len(list) - 1
        /\ \A i \in 1..Len(list) - 1 : i + 1 \in DOMAIN list /\ Room(list)[i] = list[i + 1]
    BY <2>1, <2>2, TailShifts
  <2>4. 1 \in {0, 1}
    OBVIOUS
  <2>5. Len(Room(list)) \in 0..QueueSize - 1 /\ Len(Room(list)) = Len(list) - 1
    BY <1>1, <1>2, <2>3
  <2>6. \A i \in 1..Len(Room(list)) : i + 1 \in DOMAIN list /\ Room(list)[i] = list[i + 1]
    BY <2>3, <2>5
  <2> QED  BY <2>3, <2>4, <2>5, <2>6
<1>3. CASE Len(list) # QueueSize
  <2>1. Room(list) = list
    BY <1>3 DEF Room
  <2>2. \A i \in 1..Len(Room(list)) : i + 0 \in DOMAIN list /\ Room(list)[i] = list[i + 0]
    BY <1>1, <2>1
  <2>4. Len(list) \in 0..QueueSize - 1
    <3>1. QueueSize \in Nat /\ Len(list) \in Nat
      BY <1>1, QueueSizeAssumption
    <3>2. Len(list) < QueueSize
      BY <1>3, <3>1
    <3> QED  BY <3>1, <3>2
  <2>5. 0 \in {0, 1}
    OBVIOUS
  <2> QED  BY <2>1, <2>2, <2>4, <2>5
<1> QED  BY <1>2, <1>3

\* The new notification is the last of the queue, and the others keep their order.
LEMMA QueueAppends ==
  ASSUME NEW S, NEW list \in Seq(S), Len(list) <= QueueSize, NEW x \in S,
         NEW new, new = Append(Room(list), x)
  PROVE  /\ new \in Seq(S) /\ Len(new) \in 1..QueueSize /\ DOMAIN new = 1..Len(new)
         /\ new # <<>> /\ new[Len(new)] = x
         /\ Keeps(new, list, Len(new) - 1)
<1> DEFINE old == Room(list)
<1>1. PICK d \in {0, 1} :
        /\ old \in Seq(S) /\ Len(old) \in 0..QueueSize - 1
        /\ \A i \in 1..Len(old) : i + d \in DOMAIN list /\ old[i] = list[i + d]
  BY MakesRoom
<1>2. /\ new \in Seq(S) /\ Len(new) = Len(old) + 1 /\ new # <<>>
      /\ \A i \in 1..Len(old) : new[i] = old[i]
      /\ new[Len(old) + 1] = x
  BY <1>1, AppendProperties
<1>3. DOMAIN new = 1..Len(new)
  BY <1>2, LenProperties
<1>4. Len(new) \in 1..QueueSize /\ Len(new) - 1 = Len(old)
  BY <1>1, <1>2
<1>5. \A i \in 1..Len(new) - 1 : i + d \in DOMAIN list /\ new[i] = list[i + d]
  BY <1>1, <1>2, <1>4
<1>6. Keeps(new, list, Len(new) - 1)
  BY <1>5 DEF Keeps
<1> QED  BY <1>2, <1>3, <1>4, <1>6

LEMMA Instants ==
  ASSUME Inv
  PROVE  /\ clock \in Nat
         /\ \A n \in Nodes :
              /\ changed[n] \in Nat /\ emitted[n] \in Nat /\ reported[n] \in Nat /\ flushed[n] \in Nat
              /\ n \in DOMAIN polled => polled[n].val \in Nat /\ polled[n].ts \in Nat
              /\ n \in DOMAIN reads => reads[n].val \in Nat /\ reads[n].ts \in Nat
              /\ inbox[n] \in Seq(1..MaxClock) /\ Len(inbox[n]) \in Nat /\ Len(inbox[n]) <= QueueSize
              /\ DOMAIN inbox[n] = 1..Len(inbox[n])
              /\ \A i \in DOMAIN inbox[n] : inbox[n][i] \in Nat \ {0}
<1>1. clock \in Nat
  BY DEF Inv, TypeOK
<1> SUFFICES ASSUME NEW n \in Nodes
             PROVE  /\ changed[n] \in Nat /\ emitted[n] \in Nat /\ reported[n] \in Nat /\ flushed[n] \in Nat
                    /\ n \in DOMAIN polled => polled[n].val \in Nat /\ polled[n].ts \in Nat
                    /\ n \in DOMAIN reads => reads[n].val \in Nat /\ reads[n].ts \in Nat
                    /\ inbox[n] \in Seq(1..MaxClock) /\ Len(inbox[n]) \in Nat /\ Len(inbox[n]) <= QueueSize
                    /\ DOMAIN inbox[n] = 1..Len(inbox[n])
                    /\ \A i \in DOMAIN inbox[n] : inbox[n][i] \in Nat \ {0}
  BY <1>1
<1>2. changed[n] \in Nat /\ emitted[n] \in Nat /\ reported[n] \in Nat /\ flushed[n] \in Nat
  BY DEF Inv, TypeOK
<1>3. /\ n \in DOMAIN polled => polled[n].val \in Nat /\ polled[n].ts \in Nat
      /\ n \in DOMAIN reads => reads[n].val \in Nat /\ reads[n].ts \in Nat
  BY DEF Inv, TypeOK, Sample
<1>4. inbox[n] \in Seq(1..MaxClock) /\ Len(inbox[n]) <= QueueSize
  BY DEF Inv, TypeOK
<1>5. /\ Len(inbox[n]) \in Nat /\ DOMAIN inbox[n] = 1..Len(inbox[n])
      /\ \A i \in DOMAIN inbox[n] : inbox[n][i] \in 1..MaxClock
  BY <1>4, LenProperties
<1> QED  BY <1>2, <1>3, <1>4, <1>5

----------------------------------------------------------------------------
(* The inductive invariant *)

LEMMA InitInv == Init => Inv
<1> SUFFICES ASSUME Init  PROVE Inv
  OBVIOUS
<1>1. TypeOK
  <2>1. 0 \in 0..MaxClock /\ 0 <= QueueSize
    OBVIOUS
  <2>2. \A n \in Nodes : inbox[n] \in Seq(1..MaxClock) /\ Len(inbox[n]) <= QueueSize
    <3>1. \A n \in Nodes : inbox[n] = <<>>
      BY DEF Init
    <3>2. <<>> \in Seq(1..MaxClock) /\ Len(<<>>) = 0
      OBVIOUS
    <3> QED  BY <2>1, <3>1, <3>2
  <2> QED  BY <2>1, <2>2 DEF Init, TypeOK, Running, NoSamples
<1>2. InboxOK /\ ClientInv /\ ClockInv /\ KeptInv /\ InboxInv
  BY DEF Init, InboxOK, ClientInv, ClockInv, KeptInv, InboxInv, NoSamples
<1> QED  BY <1>1, <1>2 DEF Inv

LEMMA ElapseInv ==
  ASSUME Inv, Elapse
  PROVE  Inv'
<1>1. /\ clock < MaxClock /\ clock' = clock + 1
      /\ UNCHANGED <<changed, inbox, loop, quiet, polled, reads, emitted, reported, flushed,
                     held, disconnected>>
  BY DEF Elapse, output, client
<1>2. TypeOK' /\ InboxOK'
  <2>1. clock' \in 0..MaxClock
    BY <1>1 DEF Inv, TypeOK
  <2> QED  BY <1>1, <2>1 DEF Inv, TypeOK, InboxOK, Running
<1>3. ClientInv' /\ KeptInv'
  BY <1>1 DEF Inv, ClientInv, KeptInv
<1>4. ClockInv' /\ InboxInv'
  BY <1>1, Instants DEF Inv, ClockInv, InboxInv
<1> QED  BY <1>2, <1>3, <1>4 DEF Inv

LEMMA ChangeInv ==
  ASSUME Inv, NEW n \in Nodes, Change(n)
  PROVE  Inv'
<1> DEFINE new == Append(Room(inbox[n]), clock + 1)
<1>1. /\ clock < MaxClock /\ clock' = clock + 1
      /\ changed' = [changed EXCEPT ![n] = clock + 1]
      /\ inbox' = [inbox EXCEPT ![n] = IF n \notin Monitored THEN inbox[n] ELSE new]
      /\ UNCHANGED <<loop, quiet, polled, reads, emitted, reported, flushed, held, disconnected>>
  BY DEF Change, Room, output, client
<1>2. /\ inbox \in [Nodes -> Seq(1..MaxClock)] /\ changed \in [Nodes -> 0..MaxClock]
      /\ clock \in 0..MaxClock /\ clock + 1 \in 1..MaxClock
  BY <1>1 DEF Inv, InboxOK, TypeOK
<1>3. /\ new \in Seq(1..MaxClock) /\ Len(new) \in 1..QueueSize /\ DOMAIN new = 1..Len(new)
      /\ new # <<>> /\ new[Len(new)] = clock + 1
      /\ Keeps(new, inbox[n], Len(new) - 1)
  <2> DEFINE S == 1..MaxClock
             list == inbox[n]
             x == clock + 1
  <2>1. list \in Seq(S) /\ Len(list) <= QueueSize
    BY Instants
  <2>2. new = Append(Room(list), x)
    OBVIOUS
  <2>3. x \in S
    BY <1>2
  <2> HIDE DEF new, S, list, x
  <2>4. new \in Seq(S)
    BY <2>1, <2>2, <2>3, QueueAppends
  <2>7. new # <<>>
    BY <2>1, <2>2, <2>3, QueueAppends
  <2>8. new[Len(new)] = x
    BY <2>1, <2>2, <2>3, QueueAppends
  <2>5. Len(new) \in 1..QueueSize /\ DOMAIN new = 1..Len(new)
    BY <2>1, <2>2, <2>3, QueueAppends
  <2>6. Keeps(new, list, Len(new) - 1)
    BY <2>1, <2>2, <2>3, QueueAppends
  <2> QED  BY <2>4, <2>5, <2>6, <2>7, <2>8 DEF S, list, x
<1> HIDE DEF new
<1>4. InboxOK'
  BY <1>1, <1>2, <1>3 DEF InboxOK
<1>5. /\ changed'[n] = clock + 1 /\ inbox'[n] = IF n \notin Monitored THEN inbox[n] ELSE new
      /\ \A m \in Nodes \ {n} : changed'[m] = changed[m] /\ inbox'[m] = inbox[m]
  BY <1>1, <1>2
<1>6. TypeOK'
  <2>1. clock' \in 0..MaxClock /\ changed' \in [Nodes -> 0..MaxClock]
    BY <1>1, <1>2
  <2>2. \A m \in Nodes : inbox'[m] \in Seq(1..MaxClock) /\ Len(inbox'[m]) <= QueueSize
    <3>1. inbox[n] \in Seq(1..MaxClock) /\ Len(inbox[n]) <= QueueSize /\ Len(new) <= QueueSize
      BY <1>3, Instants
    <3>2. inbox'[n] \in Seq(1..MaxClock) /\ Len(inbox'[n]) <= QueueSize
      BY <1>3, <1>5, <3>1
    <3>3. \A m \in Nodes \ {n} : inbox'[m] \in Seq(1..MaxClock) /\ Len(inbox'[m]) <= QueueSize
      BY <1>5, Instants
    <3> QED  BY <3>2, <3>3
  <2> QED  BY <1>1, <2>1, <2>2 DEF Inv, TypeOK, Running
<1>7. ClientInv' /\ KeptInv'
  BY <1>1 DEF Inv, ClientInv, KeptInv
<1>8. ClockInv'
  <2> SUFFICES ASSUME NEW m \in Nodes
               PROVE  /\ changed'[m] <= clock' /\ emitted[m] <= clock'
                      /\ m \in DOMAIN polled => polled[m].val <= changed'[m] /\ polled[m].ts <= clock'
                      /\ m \in DOMAIN reads => reads[m].val <= changed'[m] /\ reads[m].ts <= clock'
    BY <1>1 DEF ClockInv
  <2>1. /\ changed[m] <= clock /\ emitted[m] <= clock
        /\ m \in DOMAIN polled => polled[m].val <= changed[m] /\ polled[m].ts <= clock
        /\ m \in DOMAIN reads => reads[m].val <= changed[m] /\ reads[m].ts <= clock
    BY DEF Inv, ClockInv
  <2>2. changed'[m] = changed[m] \/ changed'[m] = clock + 1
    BY <1>5
  <2> QED  BY <1>1, <2>1, <2>2, Instants
<1>9. InboxInv'
  <2>1. ASSUME NEW m \in Nodes, inbox'[m] = inbox[m], changed'[m] = changed[m] \/ inbox[m] = <<>>
        PROVE  /\ \A i, j \in DOMAIN inbox'[m] : i < j => inbox'[m][i] < inbox'[m][j]
               /\ \A i \in DOMAIN inbox'[m] : /\ inbox'[m][i] <= clock'
                                              /\ inbox'[m][i] >= emitted[m] \/ inbox'[m][i] <= flushed[m]
               /\ inbox'[m] # <<>> => m \in Monitored /\ inbox'[m][Len(inbox'[m])] = changed'[m]
    <3>1. /\ \A i, j \in DOMAIN inbox[m] : i < j => inbox[m][i] < inbox[m][j]
          /\ \A i \in DOMAIN inbox[m] : /\ inbox[m][i] <= clock
                                        /\ inbox[m][i] >= emitted[m] \/ inbox[m][i] <= flushed[m]
          /\ inbox[m] # <<>> => m \in Monitored /\ inbox[m][Len(inbox[m])] = changed[m]
      BY DEF Inv, InboxInv
    <3>2. \A i \in DOMAIN inbox[m] : inbox[m][i] \in Nat
      BY Instants
    <3>3. clock \in Nat
      BY Instants
    <3>4. \A i \in DOMAIN inbox[m] : inbox[m][i] <= clock'
      BY <1>1, <3>1, <3>2, <3>3
    <3> QED  BY <2>1, <3>1, <3>4
  <2>2. CASE n \notin Monitored
    <3>1. inbox[n] = <<>>
      BY <2>2 DEF Inv, InboxInv
    <3>2. \A m \in Nodes : inbox'[m] = inbox[m] /\ (changed'[m] = changed[m] \/ inbox[m] = <<>>)
      BY <1>5, <2>2, <3>1
    <3> QED  BY <1>1, <2>1, <3>2 DEF InboxInv
  <2>3. CASE n \in Monitored
    <3>1. inbox'[n] = new /\ Len(new) \in Nat \ {0}
      BY <1>3, <1>5, <2>3
    <3>2. PICK d \in {0, 1} : \A i \in 1..Len(new) - 1 : i + d \in DOMAIN inbox[n] /\ new[i] = inbox[n][i + d]
      BY <1>3 DEF Keeps
    <3>3. \A i \in DOMAIN inbox[n] : /\ inbox[n][i] <= clock /\ inbox[n][i] \in Nat
                                     /\ inbox[n][i] >= emitted[n] \/ inbox[n][i] <= flushed[n]
      BY Instants DEF Inv, InboxInv
    <3>4. emitted[n] <= clock /\ emitted[n] \in Nat /\ clock \in Nat
      BY Instants DEF Inv, ClockInv
    <3>5. ASSUME NEW i \in DOMAIN new
          PROVE  new[i] <= clock' /\ (new[i] >= emitted[n] \/ new[i] <= flushed[n])
      <4>1. CASE i = Len(new)
        BY <1>1, <1>3, <3>4, <4>1
      <4>2. CASE i # Len(new)
        <5>1. i \in 1..Len(new) - 1
          BY <1>3, <3>1, <4>2
        <5> QED  BY <1>1, <3>2, <3>3, <3>4, <5>1
      <4> QED  BY <4>1, <4>2
    <3>6. ASSUME NEW i \in DOMAIN new, NEW j \in DOMAIN new, i < j
          PROVE  new[i] < new[j]
      <4>1. i \in 1..Len(new) - 1 /\ i + d \in DOMAIN inbox[n] /\ new[i] = inbox[n][i + d]
        <5>1. i \in 1..Len(new) - 1
          BY <1>3, <3>1, <3>6
        <5> QED  BY <3>2, <5>1
      <4>2. CASE j = Len(new)
        BY <1>3, <3>3, <3>4, <4>1, <4>2
      <4>3. CASE j # Len(new)
        <5>1. j \in 1..Len(new) - 1
          BY <1>3, <3>1, <4>3
        <5>2. j + d \in DOMAIN inbox[n] /\ new[j] = inbox[n][j + d] /\ i + d < j + d
          <6>1. j + d \in DOMAIN inbox[n] /\ new[j] = inbox[n][j + d]
            BY <3>2, <5>1
          <6>2. i + d < j + d
            BY <1>3, <3>1, <3>6
          <6> QED  BY <6>1, <6>2
        <5> QED  BY <4>1, <5>2 DEF Inv, InboxInv
      <4> QED  BY <4>2, <4>3
    <3>7. \A m \in Nodes \ {n} : inbox'[m] = inbox[m] /\ changed'[m] = changed[m]
      BY <1>5
    <3>8. /\ \A i, j \in DOMAIN inbox'[n] : i < j => inbox'[n][i] < inbox'[n][j]
          /\ \A i \in DOMAIN inbox'[n] : /\ inbox'[n][i] <= clock'
                                         /\ inbox'[n][i] >= emitted[n] \/ inbox'[n][i] <= flushed[n]
          /\ inbox'[n] # <<>> => n \in Monitored /\ inbox'[n][Len(inbox'[n])] = changed'[n]
      BY <1>3, <1>5, <2>3, <3>1, <3>5, <3>6
    <3>9. emitted' = emitted /\ flushed' = flushed
      BY <1>1
    <3> QED  BY <2>1, <3>7, <3>8, <3>9 DEF InboxInv
  <2> QED  BY <2>2, <2>3
<1> QED  BY <1>4, <1>6, <1>7, <1>8, <1>9 DEF Inv

\* Nothing is read or kept back where the pump does not expect it.
LEMMA Empty ==
  ASSUME Inv
  PROVE  /\ loop # "select" => DOMAIN polled = {}
         /\ loop # "answered" => DOMAIN reads = {}
<1>1. DOMAIN polled \subseteq Nodes /\ DOMAIN reads \subseteq Nodes
  BY DEF Inv, TypeOK
<1> QED  BY <1>1 DEF Inv, KeptInv

LEMMA NoSamplesEmpty == DOMAIN NoSamples = {}
BY DEF NoSamples

\* A flush never takes back what was passed on, and what it passes on was read by now.
LEMMA FlushMoves ==
  ASSUME Inv, Flush, NEW n \in Nodes
  PROVE  /\ emitted'[n] \in 0..MaxClock /\ reported'[n] \in 0..MaxClock /\ flushed'[n] \in 0..MaxClock
         /\ emitted'[n] >= emitted[n] /\ emitted'[n] <= clock
         /\ \/ emitted'[n] = emitted[n] /\ flushed'[n] = flushed[n]
            \/ emitted'[n] = flushed'[n]
         /\ n \in DOMAIN polled => reported'[n] >= polled[n].val
<1>1. /\ emitted'[n] = IF n \in DOMAIN polled THEN polled[n].ts ELSE emitted[n]
      /\ reported'[n] = IF n \in DOMAIN polled THEN Newest(reported[n], polled[n].val) ELSE reported[n]
      /\ flushed'[n] = IF n \in DOMAIN polled THEN polled[n].ts ELSE flushed[n]
  BY DEF Flush
<1>2. /\ emitted[n] \in 0..MaxClock /\ reported[n] \in 0..MaxClock /\ flushed[n] \in 0..MaxClock
      /\ n \in DOMAIN polled => polled[n].ts \in 0..MaxClock /\ polled[n].val \in 0..MaxClock
  BY DEF Inv, TypeOK, Sample
<1>3. /\ emitted[n] <= clock
      /\ n \in DOMAIN polled => polled[n].ts >= emitted[n] /\ polled[n].ts <= clock
  BY DEF Inv, ClockInv, KeptInv
<1>4. CASE n \in DOMAIN polled
  BY <1>1, <1>2, <1>3, <1>4 DEF Newest
<1>5. CASE n \notin DOMAIN polled
  BY <1>1, <1>2, <1>3, <1>5
<1> QED  BY <1>4, <1>5

\* A tick and the end of the pump flush alike.
LEMMA FlushInv ==
  ASSUME Inv, Flush, UNCHANGED <<server, quiet, reads, client>>,
         loop = "select", polled' = NoSamples, loop' \in {"flushed", "ended"}
  PROVE  Inv'
<1>1. UNCHANGED <<clock, changed, inbox, quiet, reads, held, disconnected>>
  BY DEF server, client
<1>2. DOMAIN polled' = {} /\ DOMAIN reads' = {}
  BY <1>1, Empty, NoSamplesEmpty
<1>3. TypeOK'
  <2>1. /\ emitted' \in [Nodes -> 0..MaxClock] /\ reported' \in [Nodes -> 0..MaxClock]
        /\ flushed' \in [Nodes -> 0..MaxClock]
    <3>1. \A n \in Nodes : /\ emitted'[n] \in 0..MaxClock /\ reported'[n] \in 0..MaxClock
                            /\ flushed'[n] \in 0..MaxClock
      BY FlushMoves
    <3> QED  BY <3>1 DEF Flush
  <2> QED  BY <1>1, <1>2, <2>1 DEF Inv, TypeOK, Running
<1>4. InboxOK' /\ ClientInv' /\ KeptInv'
  BY <1>1, <1>2 DEF Inv, InboxOK, ClientInv, KeptInv
<1>5. ClockInv'
  <2>1. \A n \in Nodes : emitted'[n] <= clock
    BY FlushMoves
  <2> QED  BY <1>1, <1>2, <2>1 DEF Inv, ClockInv
<1>6. InboxInv'
  <2>1. ASSUME NEW n \in Nodes, NEW i \in DOMAIN inbox[n]
        PROVE  inbox[n][i] <= clock /\ (inbox[n][i] >= emitted'[n] \/ inbox[n][i] <= flushed'[n])
    <3>1. inbox[n][i] <= clock /\ (inbox[n][i] >= emitted[n] \/ inbox[n][i] <= flushed[n])
      BY DEF Inv, InboxInv
    <3>2. inbox[n][i] \in Nat
      BY Instants
    <3>3. /\ emitted'[n] \in 0..MaxClock /\ flushed'[n] \in 0..MaxClock
          /\ \/ emitted'[n] = emitted[n] /\ flushed'[n] = flushed[n]
            \/ emitted'[n] = flushed'[n]
      BY FlushMoves
    <3> QED  BY <3>1, <3>2, <3>3
  <2> QED  BY <1>1, <2>1 DEF Inv, InboxInv
<1> QED  BY <1>3, <1>4, <1>5, <1>6 DEF Inv

LEMMA TickInv ==
  ASSUME Inv, Tick
  PROVE  Inv'
BY FlushInv DEF Tick

LEMMA ExitInv ==
  ASSUME Inv, Exit
  PROVE  Inv'
BY FlushInv DEF Exit

\* The steps that leave the server and the output alone.
LEMMA InboxStays ==
  ASSUME Inv, UNCHANGED <<clock, changed, inbox, emitted, reported, flushed>>
  PROVE  InboxOK' /\ InboxInv'
BY DEF Inv, InboxOK, InboxInv

LEMMA StartReadInv ==
  ASSUME Inv, StartRead
  PROVE  Inv'
<1>1. /\ loop = "flushed" /\ loop' \in {"select", "reading"} /\ (loop' = "reading" => held)
      /\ quiet' \subseteq Nodes
      /\ UNCHANGED <<clock, changed, inbox, polled, reads, emitted, reported, flushed, held, disconnected>>
  BY DEF StartRead, server, output, client, Inv, TypeOK
<1>2. DOMAIN polled' = {} /\ DOMAIN reads' = {}
  BY <1>1, Empty
<1>3. TypeOK'
  BY <1>1 DEF Inv, TypeOK, Running
<1>4. ClientInv' /\ KeptInv' /\ ClockInv'
  BY <1>1, <1>2 DEF Inv, ClientInv, KeptInv, ClockInv
<1> QED  BY <1>1, <1>3, <1>4, InboxStays DEF Inv

LEMMA AnswerInv ==
  ASSUME Inv, Answer
  PROVE  Inv'
<1>1. PICK got \in SUBSET quiet : reads' = [n \in got |-> [ts |-> clock, val |-> changed[n]]]
  BY DEF Answer
<1>2. /\ loop = "reading" /\ loop' = "answered"
      /\ UNCHANGED <<clock, changed, inbox, quiet, polled, emitted, reported, flushed, held, disconnected>>
  BY DEF Answer, server, output, client
<1>3. DOMAIN reads' \subseteq Nodes /\ DOMAIN polled = {}
  BY <1>1, <1>2, Empty DEF Inv, TypeOK
<1>4. \A n \in DOMAIN reads' : reads'[n].ts = clock /\ reads'[n].val = changed[n] /\ reads'[n] \in Sample
  <2>1. clock \in 0..MaxClock /\ \A n \in DOMAIN reads' : changed[n] \in 0..MaxClock
    BY <1>3 DEF Inv, TypeOK
  <2> QED  BY <1>1, <2>1 DEF Sample
<1>5. TypeOK'
  BY <1>2, <1>3, <1>4 DEF Inv, TypeOK, Running
<1>6. ClientInv'
  BY <1>2 DEF Inv, ClientInv
<1>7. ClockInv' /\ KeptInv'
  <2>1. \A n \in Nodes : clock \in Nat /\ changed[n] \in Nat /\ emitted[n] <= clock /\ changed[n] <= clock
    BY Instants DEF Inv, ClockInv
  <2> QED  BY <1>2, <1>3, <1>4, <2>1 DEF ClockInv, KeptInv
<1> QED  BY <1>2, <1>5, <1>6, <1>7, InboxStays DEF Inv

LEMMA ReadDoneInv ==
  ASSUME Inv, ReadDone
  PROVE  Inv'
<1>1. /\ loop = "answered" /\ loop' = "select" /\ quiet' = Nodes /\ reads' = NoSamples
      /\ polled' = [n \in DOMAIN polled \cup DOMAIN reads |->
                      IF n \in DOMAIN reads THEN reads[n] ELSE polled[n]]
      /\ UNCHANGED <<clock, changed, inbox, emitted, reported, flushed, held, disconnected>>
  BY DEF ReadDone, server, output, client
<1>2. DOMAIN polled = {} /\ DOMAIN reads' = {}
  BY <1>1, Empty, NoSamplesEmpty
<1>3. DOMAIN polled' = DOMAIN reads /\ \A n \in DOMAIN reads : polled'[n] = reads[n]
  BY <1>1, <1>2
<1>4. TypeOK'
  BY <1>1, <1>2, <1>3 DEF Inv, TypeOK, Running
<1>5. ClientInv' /\ ClockInv' /\ KeptInv'
  BY <1>1, <1>2, <1>3 DEF Inv, ClientInv, ClockInv, KeptInv
<1> QED  BY <1>1, <1>4, <1>5, InboxStays DEF Inv

LEMMA ReadFailsInv ==
  ASSUME Inv, ReadFails
  PROVE  Inv'
<1>1. /\ loop = "reading" /\ loop' = "select"
      /\ UNCHANGED <<clock, changed, inbox, quiet, polled, reads, emitted, reported, flushed,
                     held, disconnected>>
  BY DEF ReadFails, server, output, client
<1>2. DOMAIN polled = {} /\ DOMAIN reads = {}
  BY <1>1, Empty
<1>3. TypeOK'
  BY <1>1 DEF Inv, TypeOK, Running
<1>4. ClientInv' /\ KeptInv' /\ ClockInv'
  BY <1>1, <1>2 DEF Inv, ClientInv, KeptInv, ClockInv
<1> QED  BY <1>1, <1>3, <1>4, InboxStays DEF Inv

LEMMA StopSessionInv ==
  ASSUME Inv, StopSession
  PROVE  Inv'
<1>1. /\ loop' = "cancelled" /\ polled' = NoSamples /\ reads' = NoSamples
      /\ UNCHANGED <<clock, changed, inbox, quiet, emitted, reported, flushed, held, disconnected>>
  BY DEF StopSession, server, output, client
<1>2. DOMAIN polled' = {} /\ DOMAIN reads' = {}
  BY <1>1, NoSamplesEmpty
<1>3. TypeOK'
  BY <1>1, <1>2 DEF Inv, TypeOK, Running
<1>4. ClientInv' /\ KeptInv' /\ ClockInv'
  BY <1>1, <1>2 DEF Inv, ClientInv, KeptInv, ClockInv
<1> QED  BY <1>1, <1>3, <1>4, InboxStays DEF Inv

LEMMA DisconnectInv ==
  ASSUME Inv, Disconnect
  PROVE  Inv'
<1>1. /\ held' = FALSE /\ disconnected' = (loop \notin {"reading", "answered"})
      /\ UNCHANGED <<clock, changed, inbox, loop, quiet, polled, reads, emitted, reported, flushed>>
  BY DEF Disconnect, server, output
<1>2. TypeOK'
  <2>1. held' \in BOOLEAN /\ disconnected' \in BOOLEAN
    BY <1>1
  <2> QED  BY <1>1, <2>1 DEF Inv, TypeOK, Running
<1>3. ClientInv'
  BY <1>1 DEF ClientInv
<1>4. KeptInv' /\ ClockInv'
  BY <1>1 DEF Inv, KeptInv, ClockInv
<1> QED  BY <1>1, <1>2, <1>3, <1>4, InboxStays DEF Inv

LEMMA StutterInv ==
  ASSUME Inv, UNCHANGED vars
  PROVE  Inv'
BY DEF vars, server, output, client, Inv, TypeOK, InboxOK, ClientInv, ClockInv, KeptInv,
       InboxInv, Running

\* What a notification does to its node: it passes on the oldest of the queue, and what was
\* polled before it.
LEMMA NotifyTakes ==
  ASSUME Inv, NEW n \in Nodes, Notify(n)
  PROVE  /\ loop = "select" /\ inbox[n] # <<>>
         /\ inbox'[n] = Tail(inbox[n]) /\ emitted'[n] = inbox[n][1]
         /\ inbox[n][1] \in 1..MaxClock /\ inbox[n][1] <= clock
         /\ reported'[n] \in 0..MaxClock /\ reported'[n] >= inbox[n][1]
         /\ n \in DOMAIN polled /\ polled[n].ts < inbox[n][1] => reported'[n] >= polled[n].val
<1> DEFINE ts == Head(inbox[n])
           older == n \in DOMAIN polled /\ polled[n].ts < ts
           first == IF older THEN polled[n].val ELSE 0
<1>1. /\ loop = "select" /\ inbox[n] # <<>>
      /\ emitted' = [emitted EXCEPT ![n] = ts]
      /\ reported' = [reported EXCEPT ![n] = Newest(Newest(reported[n], first), ts)]
      /\ inbox' = [inbox EXCEPT ![n] = Tail(inbox[n])]
  BY DEF Notify
<1>2. /\ emitted \in [Nodes -> 0..MaxClock] /\ reported \in [Nodes -> 0..MaxClock]
      /\ inbox \in [Nodes -> Seq(1..MaxClock)]
  BY DEF Inv, TypeOK, InboxOK
<1>3. inbox[n] \in Seq(1..MaxClock)
  BY <1>2
<1>4. ts \in 1..MaxClock /\ ts = inbox[n][1] /\ 1 \in DOMAIN inbox[n]
  BY <1>1, <1>3, TailShifts
<1>5. inbox[n][1] <= clock
  BY <1>4 DEF Inv, InboxInv
<1>6. first \in 0..MaxClock /\ reported[n] \in 0..MaxClock
  BY <1>2 DEF Inv, TypeOK, Sample
<1>7. /\ inbox'[n] = Tail(inbox[n]) /\ emitted'[n] = ts
      /\ reported'[n] = Newest(Newest(reported[n], first), ts)
  BY <1>1, <1>2
<1>8. older => first = polled[n].val
  OBVIOUS
<1> HIDE DEF ts, first
<1>9. reported'[n] \in 0..MaxClock /\ reported'[n] >= ts /\ reported'[n] >= first
  BY <1>4, <1>6, <1>7 DEF Newest
<1> QED  BY <1>1, <1>4, <1>5, <1>7, <1>8, <1>9

\* The other nodes see nothing of it.
LEMMA NotifySpares ==
  ASSUME Inv, NEW n \in Nodes, Notify(n)
  PROVE  /\ \A m \in Nodes \ {n} : /\ inbox'[m] = inbox[m] /\ emitted'[m] = emitted[m]
                                     /\ reported'[m] = reported[m]
         /\ DOMAIN polled' = DOMAIN polled \ {n}
         /\ \A m \in DOMAIN polled' : polled'[m] = polled[m]
         /\ DOMAIN inbox' = Nodes /\ DOMAIN emitted' = Nodes /\ DOMAIN reported' = Nodes
         /\ inbox' = [m \in Nodes |-> inbox'[m]] /\ emitted' = [m \in Nodes |-> emitted'[m]]
         /\ reported' = [m \in Nodes |-> reported'[m]]
         /\ quiet' \subseteq quiet
         /\ UNCHANGED <<clock, changed, loop, reads, flushed, held, disconnected>>
<1>1. /\ emitted \in [Nodes -> 0..MaxClock] /\ reported \in [Nodes -> 0..MaxClock]
      /\ inbox \in [Nodes -> Seq(1..MaxClock)]
  BY DEF Inv, TypeOK, InboxOK
<1>2. /\ DOMAIN polled' = DOMAIN polled \ {n}
      /\ \A m \in DOMAIN polled' : polled'[m] = polled[m]
      /\ quiet' \subseteq quiet
      /\ UNCHANGED <<clock, changed, loop, reads, flushed, held, disconnected>>
  BY DEF Notify, client
<1> QED  BY <1>1, <1>2 DEF Notify

LEMMA NotifyInv ==
  ASSUME Inv, NEW n \in Nodes, Notify(n)
  PROVE  Inv'
<1> DEFINE list == inbox[n]
           rest == Tail(inbox[n])
<1>1. /\ loop = "select" /\ list # <<>> /\ inbox'[n] = rest /\ emitted'[n] = list[1]
      /\ list[1] \in 1..MaxClock /\ list[1] <= clock /\ reported'[n] \in 0..MaxClock
  BY NotifyTakes
<1>2. /\ \A m \in Nodes \ {n} : inbox'[m] = inbox[m] /\ emitted'[m] = emitted[m] /\ reported'[m] = reported[m]
      /\ DOMAIN polled' = DOMAIN polled \ {n}
      /\ \A m \in DOMAIN polled' : polled'[m] = polled[m]
      /\ inbox' = [m \in Nodes |-> inbox'[m]] /\ emitted' = [m \in Nodes |-> emitted'[m]]
      /\ reported' = [m \in Nodes |-> reported'[m]]
      /\ quiet' \subseteq quiet
      /\ UNCHANGED <<clock, changed, loop, reads, flushed, held, disconnected>>
  BY NotifySpares
<1>3. list \in Seq(1..MaxClock) /\ Len(list) <= QueueSize
  BY Instants
<1>4. rest \in Seq(1..MaxClock) /\ Len(rest) = Len(list) - 1 /\ Len(list) \in Nat \ {0}
  BY <1>1, <1>3, TailShifts
<1>5. /\ DOMAIN rest = 1..Len(list) - 1 /\ DOMAIN list = 1..Len(list)
      /\ \A i \in DOMAIN rest : i + 1 \in DOMAIN list /\ rest[i] = list[i + 1]
  BY <1>1, <1>3, TailShifts
<1>6. InboxOK'
  <2>1. inbox'[n] \in Seq(1..MaxClock)
    BY <1>1, <1>4
  <2>2. \A m \in Nodes \ {n} : inbox'[m] \in Seq(1..MaxClock)
    <3> HIDE DEF list, rest
    <3> QED  BY <1>2, Instants
  <2>3. \A m \in Nodes : inbox'[m] \in Seq(1..MaxClock)
    BY <2>1, <2>2
  <2> QED  BY <1>2, <2>3 DEF InboxOK
<1>7. TypeOK'
  <2>1. /\ \A m \in Nodes : emitted'[m] \in 0..MaxClock
        /\ \A m \in Nodes : reported'[m] \in 0..MaxClock
    <3>1. emitted'[n] \in 0..MaxClock /\ reported'[n] \in 0..MaxClock
      BY <1>1
    <3>2. \A m \in Nodes \ {n} : emitted[m] \in 0..MaxClock /\ reported[m] \in 0..MaxClock
      BY DEF Inv, TypeOK
    <3>3. \A m \in Nodes \ {n} : emitted'[m] \in 0..MaxClock /\ reported'[m] \in 0..MaxClock
      BY <1>2, <3>2
    <3> QED  BY <3>1, <3>3
  <2>2. emitted' \in [Nodes -> 0..MaxClock] /\ reported' \in [Nodes -> 0..MaxClock]
    BY <1>2, <2>1
  <2>3. \A m \in Nodes : inbox'[m] \in Seq(1..MaxClock) /\ Len(inbox'[m]) <= QueueSize
    <3>1. Len(rest) <= QueueSize
      BY <1>3, <1>4
    <3> QED  BY <1>1, <1>2, <1>4, <3>1 DEF Inv, TypeOK
  <2> QED  BY <1>2, <2>2, <2>3 DEF Inv, TypeOK, Running
<1>8. ClientInv'
  BY <1>2 DEF Inv, ClientInv
<1>9. DOMAIN reads = {}
  BY <1>1, Empty
<1>10. ClockInv' /\ KeptInv'
  BY <1>1, <1>2, <1>9 DEF Inv, ClockInv, KeptInv
<1>11. InboxInv'
  <2>1. /\ \A i, j \in DOMAIN list : i < j => list[i] < list[j]
        /\ \A i \in DOMAIN list : list[i] <= clock
        /\ n \in Monitored /\ list[Len(list)] = changed[n]
    BY <1>1 DEF Inv, InboxInv
  <2>2. \A i \in DOMAIN list : list[i] \in Nat
    BY Instants
  <2> HIDE DEF list, rest
  <2>3. \A i, j \in DOMAIN rest : i < j => rest[i] < rest[j]
    <3> SUFFICES ASSUME NEW i \in DOMAIN rest, NEW j \in DOMAIN rest, i < j  PROVE rest[i] < rest[j]
      OBVIOUS
    <3>1. i + 1 \in DOMAIN list /\ j + 1 \in DOMAIN list /\ rest[i] = list[i + 1] /\ rest[j] = list[j + 1]
      BY <1>5
    <3>2. i + 1 < j + 1
      BY <1>5
    <3> QED  BY <2>1, <3>1, <3>2
  <2>4. \A i \in DOMAIN rest : rest[i] <= clock /\ rest[i] >= list[1]
    <3> SUFFICES ASSUME NEW i \in DOMAIN rest  PROVE rest[i] <= clock /\ rest[i] >= list[1]
      OBVIOUS
    <3>1. 1 \in DOMAIN list /\ i + 1 \in DOMAIN list /\ rest[i] = list[i + 1] /\ 1 < i + 1
      BY <1>4, <1>5
    <3> QED  BY <2>1, <2>2, <3>1
  <2>5. rest # <<>> => rest[Len(rest)] = changed[n]
    <3> SUFFICES ASSUME rest # <<>>  PROVE rest[Len(rest)] = changed[n]
      OBVIOUS
    <3>1. Len(rest) # 0
      BY <1>4, EmptySeq
    <3>2. Len(rest) \in DOMAIN rest /\ Len(rest) + 1 = Len(list)
      BY <1>4, <1>5, <3>1
    <3> QED  BY <1>5, <2>1, <3>2
  <2>6. \A m \in Nodes \ {n} :
           /\ \A i, j \in DOMAIN inbox[m] : i < j => inbox[m][i] < inbox[m][j]
           /\ \A i \in DOMAIN inbox[m] : /\ inbox[m][i] <= clock
                                         /\ inbox[m][i] >= emitted[m] \/ inbox[m][i] <= flushed[m]
           /\ inbox[m] # <<>> => m \in Monitored /\ inbox[m][Len(inbox[m])] = changed[m]
    BY DEF Inv, InboxInv
  <2>7. \A m \in Nodes :
           /\ \A i, j \in DOMAIN inbox'[m] : i < j => inbox'[m][i] < inbox'[m][j]
           /\ \A i \in DOMAIN inbox'[m] : /\ inbox'[m][i] <= clock
                                          /\ inbox'[m][i] >= emitted'[m] \/ inbox'[m][i] <= flushed[m]
           /\ inbox'[m] # <<>> => m \in Monitored /\ inbox'[m][Len(inbox'[m])] = changed[m]
    BY <1>1, <1>2, <2>1, <2>3, <2>4, <2>5, <2>6
  <2> QED  BY <1>2, <2>7 DEF InboxInv
<1> QED  BY <1>6, <1>7, <1>8, <1>10, <1>11 DEF Inv

LEMMA InductiveInv ==
  ASSUME Inv, [Next]_vars
  PROVE  Inv'
BY ElapseInv, ChangeInv, NotifyInv, TickInv, StartReadInv, AnswerInv, ReadDoneInv, ReadFailsInv,
   ExitInv, StopSessionInv, DisconnectInv, StutterInv DEF Next

\* What the safety properties rest on holds in every state.
LEMMA InvHolds == Spec => []Inv
<1>1. Init => Inv
  BY InitInv
<1>2. Inv /\ [Next]_vars => Inv'
  BY InductiveInv
<1> QED  BY <1>1, <1>2, PTL DEF Spec

----------------------------------------------------------------------------
(* The theorems *)

\* Every variable of the pump, its session and its server keeps its type.
THEOREM TypeCorrect == Spec => []TypeOK
<1>1. Inv => TypeOK
  BY DEF Inv
<1> QED  BY <1>1, InvHolds, PTL

\* No read is under way, nor can one start, once disconnect() has closed the session.
THEOREM NoReadAfterGracefulDisconnect == Spec => []NoReadAfterDisconnect
<1>1. Inv => NoReadAfterDisconnect
  BY DEF Inv, ClientInv, NoReadAfterDisconnect
<1> QED  BY <1>1, InvHolds, PTL

\* The timestamps of a node go back in on_data only when a notification arrives after the
\* poll that overtook it has been flushed.
THEOREM OrderIsLostOnlyAfterFlush == Spec => OvertakenOnlyAfterFlush
<1> DEFINE Ordered == \A n \in Nodes : emitted'[n] < emitted[n] => emitted'[n] <= flushed[n]
<1>1. ASSUME Inv, [Next]_vars
      PROVE  [Ordered]_vars
  <2>1. CASE emitted' = emitted
    <3>1. \A n \in Nodes : emitted[n] \in Nat
      BY <1>1, Instants
    <3> QED  BY <2>1, <3>1
  <2>2. CASE Flush
    <3>1. \A n \in Nodes : /\ emitted[n] \in Nat
                            /\ emitted'[n] \in 0..MaxClock /\ emitted'[n] >= emitted[n]
      BY <1>1, <2>2, Instants, FlushMoves
    <3> QED  BY <3>1
  <2>3. ASSUME NEW n \in Nodes, Notify(n)
        PROVE  Ordered
    <3>1. /\ inbox[n] # <<>> /\ emitted'[n] = inbox[n][1]
          /\ \A m \in Nodes \ {n} : emitted'[m] = emitted[m]
      BY <1>1, <2>3, NotifyTakes, NotifySpares
    <3>2. 1 \in DOMAIN inbox[n]
      BY <1>1, <3>1, Instants, TailShifts
    <3>3. inbox[n][1] >= emitted[n] \/ inbox[n][1] <= flushed[n]
      BY <1>1, <3>2 DEF Inv, InboxInv
    <3>4. inbox[n][1] \in Nat /\ \A m \in Nodes : emitted[m] \in Nat
      BY <1>1, <3>2, Instants
    <3>5. emitted'[n] < emitted[n] => emitted'[n] <= flushed[n]
      BY <3>1, <3>3, <3>4
    <3>6. \A m \in Nodes \ {n} : ~(emitted'[m] < emitted[m])
      BY <3>1, <3>4
    <3> QED  BY <3>5, <3>6
  <2>4. [Next]_vars => emitted' = emitted \/ Flush \/ \E n \in Nodes : Notify(n)
    BY DEF Next, Elapse, Change, Tick, StartRead, Answer, ReadDone, ReadFails, Exit, StopSession,
           Disconnect, vars, output
  <2> QED  BY <1>1, <2>1, <2>2, <2>3, <2>4
<1> QED  BY <1>1, InvHolds, PTL DEF Spec, OvertakenOnlyAfterFlush

\* What becomes of a polled sample of node n in one step.
Survives(n) ==
  \/ n \in DOMAIN polled' /\ polled'[n].val >= polled[n].val
  \/ reported'[n] >= polled[n].val
  \/ \E i \in DOMAIN inbox'[n] : inbox'[n][i] >= polled[n].val

LEMMA NotifySurvives ==
  ASSUME Inv, NEW n \in Nodes, Notify(n), NEW m \in DOMAIN polled
  PROVE  Survives(m)
<1>1. m \in Nodes /\ polled[m].val \in Nat
  <2>1. m \in Nodes
    BY DEF Inv, TypeOK
  <2> QED  BY <2>1, Instants
<1>2. CASE m # n
  <2>1. m \in DOMAIN polled' /\ polled'[m] = polled[m]
    BY <1>2, NotifySpares
  <2> QED  BY <1>1, <2>1 DEF Survives
<1>3. CASE m = n
  <2> DEFINE list == inbox[n]
             rest == Tail(list)
  <2>1. /\ list # <<>> /\ inbox'[n] = rest
        /\ reported'[n] \in 0..MaxClock /\ reported'[n] >= list[1]
    BY NotifyTakes
  <2>2. list[Len(list)] = changed[n] /\ polled[n].val <= changed[n] /\ changed[n] \in Nat
    BY <1>3, <2>1, Instants DEF Inv, InboxInv, ClockInv
  <2>3. list \in Seq(1..MaxClock)
    BY Instants
  <2>4. /\ DOMAIN rest = 1..Len(list) - 1 /\ Len(list) \in Nat \ {0}
        /\ \A i \in DOMAIN rest : rest[i] = list[i + 1]
    BY <2>1, <2>3, TailShifts
  <2>5. polled[n].val \in Nat
    BY <1>1, <1>3
  <2> HIDE DEF list, rest
  <2>6. CASE Len(list) = 1
    <3>1. list[1] = changed[n]
      BY <2>2, <2>6
    <3>2. reported'[n] >= polled[n].val
      BY <2>1, <2>2, <2>5, <3>1
    <3> QED  BY <1>3, <3>2 DEF Survives
  <2>7. CASE Len(list) # 1
    <3> DEFINE last == Len(list) - 1
    <3>1. last \in 1..Len(list) - 1 /\ last + 1 = Len(list)
      <4>1. \A k \in Nat \ {0} : k # 1 => k - 1 \in 1..k - 1 /\ (k - 1) + 1 = k
        OBVIOUS
      <4> QED  BY <2>4, <2>7, <4>1
    <3>2. last \in DOMAIN rest /\ rest[last] = changed[n]
      BY <2>2, <2>4, <3>1
    <3>3. rest[last] >= polled[n].val
      BY <2>2, <2>5, <3>2
    <3>4. \E i \in DOMAIN inbox'[n] : inbox'[n][i] >= polled[n].val
      BY <2>1, <3>2, <3>3
    <3> QED  BY <1>3, <3>4 DEF Survives
  <2> QED  BY <2>6, <2>7
<1> QED  BY <1>2, <1>3

\* What the pump has read of a node is never lost, unless the session is stopped: a step
\* keeps it, passes it or something newer on, or leaves something newer in the queue.
THEOREM WhatWasReadSurvives == Spec => PolledValueSurvives
<1> DEFINE Kept == \A n \in DOMAIN polled : loop' # "cancelled" => Survives(n)
<1>1. ASSUME Inv, [Next]_vars
      PROVE  [Kept]_vars
  <2> SUFFICES ASSUME NEW n \in DOMAIN polled, loop' # "cancelled"
               PROVE  Survives(n)
    OBVIOUS
  <2>1. n \in Nodes
    BY <1>1 DEF Inv, TypeOK
  <2>2. polled[n].val \in Nat
    BY <1>1, <2>1, Instants
  <2>3. CASE polled' = polled
    BY <2>2, <2>3 DEF Survives
  <2>4. CASE Flush
    BY <1>1, <2>1, <2>4, FlushMoves DEF Survives
  <2>5. CASE ReadDone
    BY <1>1, <2>5, Empty DEF ReadDone
  <2>6. ASSUME NEW m \in Nodes, Notify(m)
        PROVE  Survives(n)
    BY <1>1, <2>6, NotifySurvives
  <2>7. [Next]_vars => \/ polled' = polled \/ Flush \/ ReadDone \/ StopSession
                       \/ \E m \in Nodes : Notify(m)
    BY DEF Next, Elapse, Change, Tick, StartRead, Answer, ReadFails, Exit, Disconnect, vars
  <2>8. ~StopSession
    BY DEF StopSession
  <2> QED  BY <1>1, <2>3, <2>4, <2>5, <2>6, <2>7, <2>8
<1>2. PolledValueSurvives <=> [][Kept]_vars
  BY DEF PolledValueSurvives, Survives
<1> QED  BY <1>1, <1>2, InvHolds, PTL DEF Spec

----------------------------------------------------------------------------
(* Fieldbus *)

\* The thread inside the session is the one that holds the lock.
LockInv == \A t \in Threads : Inside(t) <=> lock = t

SessionInv ==
  /\ failed => link = "none"
  /\ ClosedStaysClosed

BusInv == BusTypeOK /\ LockInv /\ ClientInUse /\ SessionInv /\ RequestHasClient

USE UsersAssumption, OutagesAssumption

LEMMA Names ==
  /\ Owner \in Threads /\ Daemon \in Threads /\ Owner # Daemon
  /\ Nobody \notin Threads
  /\ Owner \in Callers
  /\ \A t \in Callers : t \in Threads /\ t # Daemon
BY DEF Owner, Daemon, Nobody, Threads, Callers

\* Where a thread rests and where it is ready to call are stages of its own code, outside
\* the session.
LEMMA RestStages ==
  ASSUME NEW t \in Threads
  PROVE  /\ Rest(t) \in Stages(t) /\ Rest(t) \notin {"reconnect", "request"}
         /\ Stages(t) \subseteq UNION {Stages(u) : u \in Threads}
         /\ {"reconnect", "request"} \subseteq Stages(t)
<1>1. Rest(t) \in Stages(t) /\ Rest(t) \notin {"reconnect", "request"}
  BY DEF Rest, Stages
<1>2. {"reconnect", "request"} \subseteq Stages(t)
  BY DEF Stages
<1> QED  BY <1>1, <1>2

\* A thread that moves to a stage of its own keeps pc well typed.
LEMMA Moves ==
  ASSUME NEW t \in Threads, NEW stage \in Stages(t), BusTypeOK, pc' = [pc EXCEPT ![t] = stage]
  PROVE  /\ pc' \in [Threads -> UNION {Stages(u) : u \in Threads}]
         /\ \A u \in Threads : pc'[u] \in Stages(u)
         /\ pc'[t] = stage
         /\ \A u \in Threads : u # t => pc'[u] = pc[u]
<1>1. stage \in UNION {Stages(u) : u \in Threads}
  OBVIOUS
<1>2. pc \in [Threads -> UNION {Stages(u) : u \in Threads}] /\ \A u \in Threads : pc[u] \in Stages(u)
  BY DEF BusTypeOK
<1> QED  BY <1>1, <1>2

LEMMA BusInitInv == BusInit => BusInv
<1> SUFFICES ASSUME BusInit PROVE BusInv
  OBVIOUS
<1>1. \A t \in Threads : pc[t] \in Stages(t) /\ pc[t] \notin {"reconnect", "request"}
  BY DEF BusInit, Stages
<1>2. pc \in [Threads -> UNION {Stages(t) : t \in Threads}]
  <2> DEFINE stage(t) == IF t = Daemon THEN "unborn" ELSE "idle"
  <2>1. \A t \in Threads : stage(t) \in UNION {Stages(u) : u \in Threads}
    BY DEF Stages
  <2>2. pc = [t \in Threads |-> stage(t)]
    BY DEF BusInit
  <2> HIDE DEF stage
  <2> QED  BY <2>1, <2>2
<1>3. link \in Links /\ failed \in BOOLEAN /\ up \in BOOLEAN /\ outages \in 0..MaxOutages
  <2>1. outages \in 0..MaxOutages
    BY OutagesAssumption DEF BusInit
  <2> QED  BY <2>1 DEF BusInit, NoSession, Links
<1>4. lock \in Threads \cup {Nobody} /\ stopping \in BOOLEAN /\ opened \in BOOLEAN
  BY DEF BusInit
<1>5. BusTypeOK
  BY <1>1, <1>2, <1>3, <1>4 DEF BusTypeOK
<1> QED  BY <1>1, <1>5, Names DEF BusInit, NoSession, BusInv, LockInv, ClientInUse, SessionInv,
       RequestHasClient, ClosedStaysClosed, Inside

\* A step that leaves a thread inside the session alone keeps what is said of it.
LEMMA BusInductiveInv == BusInv /\ [BusNext]_busVars => BusInv'
<1> SUFFICES ASSUME BusInv, [BusNext]_busVars PROVE BusInv'
  OBVIOUS
<1> USE Names DEF BusInv, LockInv, ClientInUse, SessionInv, RequestHasClient, ClosedStaysClosed, Inside
<1>1. ASSUME NEW t \in Threads, Enter(t) PROVE BusInv'
  <2>1. CASE ~Usable
    <3>1. pc' = [pc EXCEPT ![t] = Rest(t)] /\ Rest(t) \in Stages(t) /\ Rest(t) \notin {"reconnect", "request"}
      BY <1>1, <2>1, RestStages DEF Enter
    <3>2. BusTypeOK'
      BY <1>1, <2>1, <3>1, Moves DEF Enter, BusTypeOK, sessionVars
    <3>3. \A u \in Threads : pc'[u] \in {"reconnect", "request"} => u # t /\ pc'[u] = pc[u]
      BY <3>1, Moves
    <3>4. \A u \in Threads : u # t => pc'[u] = pc[u]
      BY <3>1, Moves
    <3>5. pc[t] \notin {"reconnect", "request"}
      BY <1>1 DEF Enter, Ready
    <3> QED  BY <1>1, <2>1, <3>2, <3>3, <3>4, <3>5 DEF Enter, sessionVars
  <2>2. CASE Usable
    <3>1. pc' = [pc EXCEPT ![t] = "reconnect"] /\ "reconnect" \in Stages(t)
      BY <1>1, <2>2, RestStages DEF Enter
    <3>2. BusTypeOK'
      BY <1>1, <2>2, <3>1, Moves DEF Enter, BusTypeOK, sessionVars
    <3>3. pc'[t] = "reconnect" /\ \A u \in Threads : u # t => pc'[u] = pc[u]
      BY <3>1, Moves
    <3>4. \A u \in Threads : ~Inside(u)
      BY <1>1 DEF Enter
    <3> QED  BY <1>1, <2>2, <3>2, <3>3, <3>4 DEF Enter, Usable, sessionVars
  <2> QED  BY <2>1, <2>2
<1>2. ASSUME NEW t \in Threads, Reconnect(t) PROVE BusInv'
  <2>1. pc[t] = "reconnect" /\ lock = t /\ opened
    BY <1>2 DEF Reconnect
  <2>2. \A u \in Threads : u # t => ~Inside(u)
    BY <2>1
  <2>3. CASE pc' = [pc EXCEPT ![t] = "request"] /\ UNCHANGED <<lock, stopping, opened>>
             /\ link' # "none" /\ failed' = FALSE /\ link' \in Links /\ UNCHANGED <<up, outages>>
    <3>1. "request" \in Stages(t)
      BY RestStages
    <3>2. BusTypeOK'
      BY <2>3, <3>1, Moves DEF BusTypeOK
    <3>3. pc'[t] = "request" /\ \A u \in Threads : u # t => pc'[u] = pc[u]
      BY <2>3, <3>1, Moves
    <3> QED  BY <2>1, <2>2, <2>3, <3>2, <3>3
  <2>4. CASE UNCHANGED sessionVars /\ Leave(t)
    <3>1. pc' = [pc EXCEPT ![t] = Rest(t)] /\ Rest(t) \in Stages(t) /\ Rest(t) \notin {"reconnect", "request"}
      BY <2>4, RestStages DEF Leave
    <3>2. BusTypeOK'
      BY <2>4, <3>1, Moves DEF Leave, BusTypeOK, sessionVars
    <3>3. \A u \in Threads : ~Inside(u)'
      BY <2>2, <3>1, Moves
    <3> QED  BY <2>4, <3>2, <3>3 DEF Leave, sessionVars
  <2>5. \/ pc' = [pc EXCEPT ![t] = "request"] /\ UNCHANGED <<lock, stopping, opened>>
           /\ link' # "none" /\ failed' = FALSE /\ link' \in Links /\ UNCHANGED <<up, outages>>
        \/ UNCHANGED sessionVars /\ Leave(t)
    <3>1. CASE link # "none"
      <4>1. failed = FALSE
        BY <3>1 DEF BusTypeOK
      <4> QED  BY <1>2, <3>1, <4>1 DEF Reconnect, sessionVars, BusTypeOK
    <3>2. CASE link = "none"
      BY <1>2, <3>2 DEF Reconnect, Connect, ConnectFails, Links
    <3> QED  BY <3>1, <3>2
  <2> QED  BY <2>3, <2>4, <2>5
<1>3. ASSUME NEW t \in Threads, Request(t) PROVE BusInv'
  <2>1. pc[t] = "request" /\ lock = t /\ opened
    BY <1>3 DEF Request
  <2>2. Leave(t)
    BY <1>3 DEF Request
  <2>3. /\ link' \in Links /\ failed' \in BOOLEAN /\ UNCHANGED <<up, outages>>
        /\ failed' => link' = "none"
    <3>1. CASE Answered
      BY <3>1 DEF Answered, sessionVars, BusTypeOK
    <3>2. CASE DropClient \/ BatchItemsFail
      BY <3>2 DEF BatchItemsFail, DropClient, Links
    <3> QED  BY <1>3, <3>1, <3>2 DEF Request
  <2>4. pc' = [pc EXCEPT ![t] = Rest(t)] /\ Rest(t) \in Stages(t) /\ Rest(t) \notin {"reconnect", "request"}
    BY <2>2, RestStages DEF Leave
  <2>5. BusTypeOK'
    BY <2>2, <2>3, <2>4, Moves DEF Leave, BusTypeOK
  <2>6. \A u \in Threads : ~Inside(u)'
    BY <2>1, <2>4, Moves
  <2> QED  BY <2>1, <2>2, <2>3, <2>5, <2>6 DEF Leave
<1>4. CASE Open
  <2>1. \A u \in Threads : ~Inside(u)
    BY <1>4 DEF Open
  <2>2. /\ link' \in Links /\ failed' \in BOOLEAN /\ UNCHANGED <<up, outages, lock, pc>>
        /\ failed' => link' = "none"
        /\ ~opened' => link' = "none"
    <3>1. CASE opened
      BY <1>4, <3>1 DEF Open, sessionVars, BusTypeOK
    <3>2. CASE ~opened /\ Connect
      <4>1. link' = "live" /\ failed' = FALSE /\ UNCHANGED <<up, outages>>
        BY <3>2 DEF Connect
      <4>2. UNCHANGED <<lock, pc>> /\ opened' = TRUE
        BY <1>4, <3>2 DEF Open, Connect, ConnectFails
      <4> QED  BY <4>1, <4>2 DEF Links
    <3>3. CASE ~opened /\ ConnectFails
      BY <1>4, <3>3 DEF Open, ConnectFails, sessionVars, BusTypeOK
    <3> QED  BY <1>4, <3>1, <3>2, <3>3 DEF Open
  <2>3. BusTypeOK'
    BY <1>4, <2>2 DEF Open, BusTypeOK
  <2> QED  BY <2>1, <2>2, <2>3
<1>5. CASE Start
  <2>1. "loop" \in Stages(Daemon)
    BY DEF Stages
  <2>2. BusTypeOK'
    BY <1>5, <2>1, Moves DEF Start, BusTypeOK, sessionVars
  <2>3. pc'[Daemon] = "loop" /\ \A u \in Threads : u # Daemon => pc'[u] = pc[u]
    BY <1>5, <2>1, Moves DEF Start
  <2>4. ~Inside(Daemon)
    BY <1>5 DEF Start, DaemonAlive
  <2> QED  BY <1>5, <2>2, <2>3, <2>4 DEF Start, sessionVars
\* The owner's own steps: it goes from one stage outside the session to another.
<1>6. ASSUME NEW stage \in Stages(Owner), stage \notin {"reconnect", "request"},
             ~Inside(Owner), pc' = [pc EXCEPT ![Owner] = stage], BusTypeOK',
             UNCHANGED <<lock, link, failed, opened>>
      PROVE  BusInv'
  <2>1. pc'[Owner] = stage /\ \A u \in Threads : u # Owner => pc'[u] = pc[u]
    BY <1>6, Moves
  <2> QED  BY <1>6, <2>1
<1>7. CASE Stop
  <2>1. "join_in_stop" \in Stages(Owner)
    BY DEF Stages
  <2>2. BusTypeOK'
    BY <1>7, <2>1, Moves DEF Stop, BusTypeOK, sessionVars
  <2> QED  BY <1>6, <1>7, <2>1, <2>2 DEF Stop, sessionVars
<1>8. CASE Close
  <2>1. "close" \in Stages(Owner)
    BY DEF Stages
  <2>2. BusTypeOK'
    BY <1>8, <2>1, Moves DEF Close, BusTypeOK, sessionVars
  <2> QED  BY <1>6, <1>8, <2>1, <2>2 DEF Close, sessionVars
<1>9. CASE StopInClose
  <2> DEFINE stage == IF DaemonAlive THEN "join_in_close" ELSE "close_publishers"
  <2>1. stage \in Stages(Owner) /\ stage \notin {"reconnect", "request"}
    BY DEF Stages
  <2>2. pc' = [pc EXCEPT ![Owner] = stage]
    BY <1>9 DEF StopInClose
  <2> HIDE DEF stage
  <2>3. BusTypeOK'
    BY <1>9, <2>1, <2>2, Moves DEF StopInClose, BusTypeOK, sessionVars
  <2> QED  BY <1>6, <1>9, <2>1, <2>2, <2>3 DEF StopInClose, sessionVars
<1>10. CASE Join
  <2> DEFINE stage == IF pc[Owner] = "join_in_stop" THEN "idle" ELSE "close_publishers"
  <2>1. stage \in Stages(Owner) /\ stage \notin {"reconnect", "request"}
    BY DEF Stages
  <2>2. pc' = [pc EXCEPT ![Owner] = stage]
    BY <1>10 DEF Join, BusTypeOK
  <2> HIDE DEF stage
  <2>3. BusTypeOK'
    BY <1>10, <2>1, <2>2, Moves DEF Join, BusTypeOK, sessionVars
  <2> QED  BY <1>6, <1>10, <2>1, <2>2, <2>3 DEF Join, sessionVars
<1>11. CASE ClosePublishers
  <2>1. PICK stage \in {"close_client", "idle"} : pc' = [pc EXCEPT ![Owner] = stage]
    BY <1>11 DEF ClosePublishers
  <2>2. stage \in Stages(Owner) /\ stage \notin {"reconnect", "request"}
    BY DEF Stages
  <2>3. BusTypeOK'
    BY <1>11, <2>1, <2>2, Moves DEF ClosePublishers, BusTypeOK, sessionVars
  <2> QED  BY <1>6, <1>11, <2>1, <2>2, <2>3 DEF ClosePublishers, sessionVars
<1>12. CASE CloseClient
  <2>1. "idle" \in Stages(Owner)
    BY DEF Stages
  <2>2. BusTypeOK'
    BY <1>12, <2>1, Moves DEF CloseClient, CloseSession, BusTypeOK, Links
  <2>3. pc'[Owner] = "idle" /\ \A u \in Threads : u # Owner => pc'[u] = pc[u]
    BY <1>12, <2>1, Moves DEF CloseClient
  <2>4. \A u \in Threads : ~Inside(u)
    BY <1>12 DEF CloseClient
  <2>5. \A u \in Threads : ~Inside(u)'
    BY <2>3, <2>4
  <2> QED  BY <1>12, <2>2, <2>5 DEF CloseClient, CloseSession
<1>13. ASSUME Loop \/ Die PROVE BusInv'
  <2>1. PICK stage \in {"dead", "poll"} : pc' = [pc EXCEPT ![Daemon] = stage]
    BY <1>13 DEF Loop, Die
  <2>2. stage \in Stages(Daemon) /\ stage \notin {"reconnect", "request"}
    BY DEF Stages
  <2>3. BusTypeOK'
    BY <1>13, <2>1, <2>2, Moves DEF Loop, Die, BusTypeOK, sessionVars
  <2>4. pc'[Daemon] = stage /\ \A u \in Threads : u # Daemon => pc'[u] = pc[u]
    BY <2>1, <2>2, Moves
  <2>5. ~Inside(Daemon) /\ UNCHANGED <<sessionVars, lock, opened>>
    BY <1>13 DEF Loop, Die
  <2> QED  BY <2>2, <2>3, <2>4, <2>5 DEF sessionVars
<1>14. CASE (Lose \/ Restore) /\ UNCHANGED deviceVars
  <2>1. /\ link' \in Links /\ up' \in BOOLEAN /\ outages' \in 0..MaxOutages
        /\ link' = "none" <=> link = "none"
    <3>1. CASE Lose
      <4>1. outages' \in 0..MaxOutages
        BY <3>1, OutagesAssumption DEF Lose, BusTypeOK
      <4>2. up' \in BOOLEAN
        BY <3>1 DEF Lose
      <4>3. link' \in Links /\ (link' = "none" <=> link = "none")
        BY <3>1 DEF Lose, BusTypeOK, Links
      <4> QED  BY <4>1, <4>2, <4>3
    <3>2. CASE Restore
      BY <3>2 DEF Restore, BusTypeOK
    <3> QED  BY <1>14, <3>1, <3>2
  <2>2. UNCHANGED <<failed, lock, stopping, opened, pc>>
    BY <1>14 DEF Lose, Restore, deviceVars
  <2>3. BusTypeOK'
    BY <2>1, <2>2 DEF BusTypeOK
  <2> QED  BY <2>1, <2>2, <2>3
<1>15. CASE UNCHANGED busVars
  BY <1>15 DEF busVars, sessionVars, deviceVars, BusTypeOK
<1> QED  BY <1>1, <1>2, <1>3, <1>4, <1>5, <1>7, <1>8, <1>9, <1>10, <1>11, <1>12, <1>13, <1>14, <1>15
       DEF BusNext

LEMMA BusInvHolds == Safety => []BusInv
BY BusInitInv, BusInductiveInv, PTL DEF Safety

\* Every variable has its type, and every thread is where its own code can be, for any
\* number of users and of outages.
THEOREM BusTypeCorrect == Safety => []BusTypeOK
BY BusInvHolds, PTL DEF BusInv

\* close() never takes the client from an operation that has passed the checks of _eip_op,
\* however many threads read and write tags.
THEOREM ClientIsInUse == Safety => []ClientInUse
BY BusInvHolds, PTL DEF BusInv

\* A request of the native session goes out over a client that has not failed.
THEOREM RequestsHaveClients == Safety => []RequestHasClient
BY BusInvHolds, PTL DEF BusInv

\* No operation connects again behind close().
THEOREM ClosedIsClosed == Safety => []ClosedStaysClosed
BY BusInvHolds, PTL DEF BusInv, SessionInv
=============================================================================
