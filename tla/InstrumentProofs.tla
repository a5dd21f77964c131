-------------------------- MODULE InstrumentProofs --------------------------
(***************************************************************************)
(* The invariants of Instrument, for any number of readers and of starts.  *)
(* Inv is inductive: next to TypeOK and the properties themselves it says  *)
(* which threads can be alive at each point of the controlling thread, and *)
(* that samples are only ever in the current buffer.                       *)
(***************************************************************************)
EXTENDS Instrument, TLAPS

\* Starts and buffers are counted together.
CountInv ==
  /\ ctl \in {"setup", "spawn"} => thread < MaxStarts
  /\ nbuffers <= thread + (IF ctl = "spawn" THEN 1 ELSE 0)

\* The only thread that can be alive is the one self._background_thread names.
DaemonInv ==
  /\ live \subseteq {thread}
  /\ \A t \in Threads : t \in live <=> tpc[t] \notin {"unborn", "dead"}

\* No daemon is alive while the controlling thread is past a join or before a spawn.
ControlInv ==
  /\ ctl \in {"setup", "spawn", "close_buffer", "drop_buffer", "closing"} => live = {}
  /\ ctl \in {"setup", "spawn"} => op = "start"
  /\ ctl \in {"stop", "closing"} => op = "close"
  /\ ctl \in {"join", "close_buffer", "drop_buffer"} => thread # None
  /\ QuietAfterStop

\* Whoever runs has a buffer, and only the current buffer is registered or holds samples.
BufferInv ==
  /\ live # {} => buffer # None
  /\ ctl \in {"spawn", "join", "close_buffer", "drop_buffer"} => buffer # None
  /\ NoBufferLeak
  /\ \A g \in Generations : holds[g] # {} => g = buffer /\ ctl # "drop_buffer"

\* A joined thread is dead, and none is joined before it is started.
JoinedInv ==
  /\ \A t \in joined : t <= thread /\ t \notin live
  /\ OldSamplesUnreachable

Inv == TypeOK /\ CountInv /\ DaemonInv /\ ControlInv /\ BufferInv /\ JoinedInv

\* list.remove(x) of an element that occurs once: the others stay, each at most where
\* it was, and x is gone.
LEMMA WithoutFacts ==
  ASSUME NEW S, NEW list \in Seq(S), NEW x \in Elements(list),
         \A i, j \in DOMAIN list : list[i] = x /\ list[j] = x => i = j
  PROVE  /\ Without(list, x) \in Seq(S)
         /\ \A i \in DOMAIN Without(list, x) :
              \E k \in DOMAIN list : Without(list, x)[i] = list[k] /\ list[k] # x
<1> DEFINE k == CHOOSE i \in DOMAIN list : list[i] = x /\ \A j \in 1..i - 1 : list[j] # x
           w == Without(list, x)
<1>1. k \in DOMAIN list /\ list[k] = x
  <2>1. PICK i \in DOMAIN list : list[i] = x
    BY DEF Elements
  <2>2. \A j \in 1..i - 1 : list[j] # x
    BY <2>1
  <2> QED BY <2>1, <2>2
<1>2. Len(list) \in Nat /\ DOMAIN list = 1..Len(list)
  OBVIOUS
<1>3. w = [i \in 1..Len(list) - 1 |-> IF i < k THEN list[i] ELSE list[i + 1]]
  BY DEF Without
<1> HIDE DEF k, w
<1>4. \A i \in 1..Len(list) - 1 : \E m \in DOMAIN list : w[i] = list[m] /\ m # k
  <2> TAKE i \in 1..Len(list) - 1
  <2>1. CASE i < k
    <3> WITNESS i \in DOMAIN list
    <3> QED BY <1>1, <1>2, <1>3, <2>1
  <2>2. CASE ~(i < k)
    <3>1. i + 1 \in DOMAIN list /\ i + 1 # k
      BY <1>1, <1>2, <2>2
    <3> WITNESS i + 1 \in DOMAIN list
    <3> QED BY <1>1, <1>2, <1>3, <2>2, <3>1
  <2> QED BY <2>1, <2>2
<1>5. Len(list) - 1 \in Nat
  BY <1>1, <1>2
<1>6. w \in Seq(S) /\ DOMAIN w = 1..Len(list) - 1
  <2>1. \A i \in 1..Len(list) - 1 : w[i] \in S
    BY <1>2, <1>4
  <2>2. w \in [1..Len(list) - 1 -> S]
    BY <1>3, <2>1
  <2> QED BY <1>5, <2>2
<1> QED BY <1>1, <1>4, <1>6 DEF w

\* The ranges Inv's parts are stated over.
USE MaxStartsAssumption DEF User, None, Generations, Threads

LEMMA InitInv == Init => Inv
<1> SUFFICES ASSUME Init PROVE Inv
  OBVIOUS
<1>1. TypeOK
  <2>1. <<>> \in Seq({User} \cup Generations) /\ <<User>> \in Seq({User} \cup Generations)
    OBVIOUS
  <2>5. publishers \in Seq({User} \cup Generations)
    BY <2>1, Zenon DEF Init
  <2>2. /\ buffer \in {None} \cup Generations
        /\ nbuffers \in 0..MaxStarts
        /\ shut \subseteq Generations
        /\ holds \in [Generations -> SUBSET Threads]
        /\ thread \in {None} \cup Threads
        /\ live \subseteq Threads
    BY DEF Init
  <2>6. event \in BOOLEAN
    BY Zenon DEF Init
  <2>3. /\ tpc \in [Threads -> DaemonPoints]
        /\ tidx \in [Threads -> Nat \ {0}]
        /\ ctl \in ControlPoints
        /\ op \in Calls
        /\ cidx \in Nat \ {0}
        /\ joined \subseteq Threads
    BY DEF Init, Calls, ControlPoints, DaemonPoints
  <2>4. /\ rpc \in [Readers -> {"idle", "assert", "load", "blocked"}]
        /\ rbuf \in [Readers -> {None} \cup Generations]
        /\ rout \in [Readers -> Results]
    BY DEF Init, Results
  <2> QED BY <2>2, <2>3, <2>4, <2>5, <2>6 DEF TypeOK
<1>2. CountInv /\ DaemonInv /\ ControlInv /\ BufferInv /\ JoinedInv
  BY DEF Init, CountInv, DaemonInv, ControlInv, BufferInv, JoinedInv, QuietAfterStop,
         NoBufferLeak, OldSamplesUnreachable
<1> QED BY <1>1, <1>2 DEF Inv

----------------------------------------------------------------------------
(* One lemma for each thread: its steps keep Inv. *)

LEMMA ControlKeepsInv ==
  ASSUME Inv,
         AddPublisher \/ Open \/ Start \/ Stop \/ Close \/ SignalAndClose \/ ControlStep
  PROVE  Inv'
<1> USE DEF Inv
<1>1. CASE AddPublisher
  <2>1. TypeOK'
    BY <1>1 DEF AddPublisher, TypeOK, daemon, control, reading
  <2>2. BufferInv'
    BY <1>1 DEF AddPublisher, BufferInv, NoBufferLeak, TypeOK, daemon, control, reading
  <2>3. (CountInv /\ DaemonInv /\ ControlInv /\ JoinedInv)'
    BY <1>1 DEF AddPublisher, CountInv, DaemonInv, ControlInv, JoinedInv, QuietAfterStop,
                OldSamplesUnreachable, daemon, control, reading
  <2> QED BY <2>1, <2>2, <2>3
<1>2. CASE Open \/ Start \/ Stop \/ Close \/ SignalAndClose \/ StopInClose
  <2> USE DEF Open, Start, Stop, Close, SignalAndClose, StopInClose, StopFrom, Alive,
              publishing, daemon, reading
  <2>1. TypeOK'
    <3>1. op' \in Calls /\ ctl' \in ControlPoints
      BY <1>2 DEF TypeOK, Calls, ControlPoints
    <3>3. cidx' \in Nat \ {0}
      BY <1>2 DEF TypeOK
    <3>4. event' \in BOOLEAN
      BY <1>2, Zenon DEF TypeOK
    <3>2. UNCHANGED <<publishing, thread, live, tpc, tidx, joined, reading>>
      BY <1>2
    <3> QED BY <3>1, <3>2, <3>3, <3>4 DEF TypeOK
  <2>2. (CountInv /\ DaemonInv)'
    BY <1>2 DEF CountInv, DaemonInv, TypeOK
  <2>3. ControlInv'
    <3>1. CASE Open
      BY <3>1 DEF ControlInv, QuietAfterStop
    <3>5. CASE Start
      BY <3>5 DEF ControlInv, DaemonInv, QuietAfterStop, TypeOK
    <3>2. CASE Close \/ SignalAndClose
      BY <3>2 DEF ControlInv, QuietAfterStop
    <3>3. CASE Stop
      BY <3>3 DEF ControlInv, DaemonInv, QuietAfterStop, TypeOK
    <3>4. CASE StopInClose
      BY <3>4 DEF ControlInv, DaemonInv, QuietAfterStop, TypeOK
    <3> QED BY <1>2, <3>1, <3>2, <3>3, <3>4, <3>5
  <2>4. BufferInv'
    BY <1>2 DEF BufferInv, NoBufferLeak, TypeOK
  <2>5. JoinedInv'
    BY <1>2 DEF JoinedInv, OldSamplesUnreachable, TypeOK
  <2> QED BY <2>1, <2>2, <2>3, <2>4, <2>5
<1>3. CASE SetupChannelBuffer
  <2> USE DEF SetupChannelBuffer, daemon, reading
  <2>1. /\ buffer' \in Generations
        /\ nbuffers' \in 0..MaxStarts
        /\ nbuffers' <= thread + 1
        /\ buffer # None => buffer' = buffer
    BY <1>3 DEF TypeOK, CountInv
  <2>2. TypeOK'
    <3>1. publishers' \in Seq({User} \cup Generations)
      <4>1. publishers' = publishers \/ publishers' = Append(publishers, buffer')
        BY <1>3
      <4>2. publishers \in Seq({User} \cup Generations)
        BY DEF TypeOK
      <4> HIDE DEF SetupChannelBuffer, Inv
      <4> QED BY <2>1, <4>1, <4>2
    <3>2. ctl' \in ControlPoints
      BY <1>3 DEF ControlPoints
    <3>3. UNCHANGED <<shut, holds, daemon, op, cidx, joined, reading>>
      BY <1>3
    <3> HIDE DEF SetupChannelBuffer
    <3> QED BY <2>1, <3>1, <3>2, <3>3 DEF TypeOK
  <2>3. (CountInv /\ DaemonInv /\ ControlInv)'
    BY <1>3, <2>1 DEF CountInv, DaemonInv, ControlInv, QuietAfterStop, TypeOK
  <2>4. NoBufferLeak'
    BY <1>3, <2>1 DEF BufferInv, NoBufferLeak, TypeOK, Elements
  <2>5. BufferInv'
    BY <1>3, <2>1, <2>4 DEF BufferInv, TypeOK
  <2>6. JoinedInv'
    BY <1>3, <2>1 DEF JoinedInv, OldSamplesUnreachable, BufferInv, TypeOK
  <2> QED BY <2>2, <2>3, <2>5, <2>6
<1>4. CASE Spawn
  <2> USE DEF Spawn, publishing, reading
  <2>1. thread + 1 \in Threads /\ thread \in Nat
    BY <1>4 DEF TypeOK, CountInv
  <2>2. TypeOK'
    BY <1>4, <2>1 DEF TypeOK, Calls, ControlPoints, DaemonPoints
  <2>3. (CountInv /\ DaemonInv /\ ControlInv)'
    BY <1>4, <2>1 DEF CountInv, DaemonInv, ControlInv, QuietAfterStop, TypeOK
  <2>4. BufferInv'
    BY <1>4 DEF BufferInv, NoBufferLeak, TypeOK
  <2>5. JoinedInv'
    BY <1>4, <2>1 DEF JoinedInv, ControlInv, OldSamplesUnreachable, TypeOK
  <2> QED BY <2>2, <2>3, <2>4, <2>5
<1>5. CASE Join
  <2> USE DEF Join, publishing, daemon, reading
  <2>1. thread \in Threads /\ live = {}
    BY <1>5 DEF TypeOK, ControlInv, DaemonInv
  <2>2. TypeOK'
    BY <1>5, <2>1 DEF TypeOK, ControlPoints
  <2>3. (CountInv /\ DaemonInv /\ ControlInv)'
    BY <1>5, <2>1 DEF CountInv, DaemonInv, ControlInv, QuietAfterStop, TypeOK
  <2>4. BufferInv'
    BY <1>5 DEF BufferInv, NoBufferLeak, TypeOK
  <2>5. JoinedInv'
    BY <1>5, <2>1 DEF JoinedInv, BufferInv, OldSamplesUnreachable, TypeOK
  <2> QED BY <2>2, <2>3, <2>4, <2>5
<1>6. CASE CloseBuffer
  <2> USE DEF CloseBuffer, daemon, reading
  <2>1. buffer \in Generations
    BY <1>6 DEF TypeOK, BufferInv
  <2>2. TypeOK'
    BY <1>6, <2>1 DEF TypeOK, ControlPoints
  <2>3. (CountInv /\ DaemonInv /\ ControlInv)'
    BY <1>6 DEF CountInv, DaemonInv, ControlInv, QuietAfterStop, TypeOK
  <2>4. \A g \in Generations : holds'[g] = {}
    BY <1>6, <2>1 DEF BufferInv, TypeOK
  <2>5. (BufferInv /\ JoinedInv)'
    BY <1>6, <2>1, <2>4 DEF BufferInv, NoBufferLeak, JoinedInv, OldSamplesUnreachable, TypeOK
  <2> QED BY <2>2, <2>3, <2>5
<1>7. CASE DropBuffer
  <2> USE DEF DropBuffer, daemon, reading
  <2>1. \A i, j \in DOMAIN publishers : publishers[i] = buffer /\ publishers[j] = buffer => i = j
    BY <1>7 DEF BufferInv, NoBufferLeak, TypeOK
  <2>2. publishers \in Seq({User} \cup Generations)
    BY DEF TypeOK
  <2>3. /\ publishers' \in Seq({User} \cup Generations)
        /\ \A i \in DOMAIN publishers' :
             \E k \in DOMAIN publishers : publishers'[i] = publishers[k] /\ publishers[k] # buffer
    <3>1. CASE buffer \in Elements(publishers)
      BY <1>7, <2>1, <2>2, <3>1, WithoutFacts
    <3>2. CASE buffer \notin Elements(publishers)
      BY <1>7, <2>2, <3>2 DEF Elements
    <3> QED BY <3>1, <3>2
  <2>4. \A i \in DOMAIN publishers' : publishers'[i] = User
    BY <2>3 DEF BufferInv, NoBufferLeak
  <2>5. TypeOK'
    BY <1>7, <2>3 DEF TypeOK, ControlPoints
  <2>6. (CountInv /\ DaemonInv /\ ControlInv)'
    BY <1>7 DEF CountInv, DaemonInv, ControlInv, QuietAfterStop, TypeOK
  <2>7. (BufferInv /\ JoinedInv)'
    BY <1>7, <2>4 DEF BufferInv, NoBufferLeak, ControlInv, JoinedInv, OldSamplesUnreachable, TypeOK
  <2> QED BY <2>5, <2>6, <2>7
<1>8. CASE ClosePublisher
  <2> USE DEF ClosePublisher, daemon, reading
  <2>1. cidx > Len(publishers) \/ publishers[cidx] = User \/ publishers[cidx] \in Generations
    BY DEF TypeOK
  <2>2. \/ UNCHANGED <<shut, holds>>
        \/ \E g \in Generations : shut' = shut \cup {g} /\ holds' = [holds EXCEPT ![g] = {}]
    BY <1>8, <2>1
  <2>3. TypeOK'
    <3>1. shut' \subseteq Generations
      BY <2>2 DEF TypeOK
    <3>3. holds' \in [Generations -> SUBSET Threads]
      BY <2>2 DEF TypeOK
    <3>2. ctl' \in ControlPoints /\ cidx' \in Nat \ {0}
      BY <1>8 DEF TypeOK, ControlPoints
    <3> QED BY <1>8, <3>1, <3>2, <3>3 DEF TypeOK
  <2>4. (CountInv /\ DaemonInv /\ ControlInv)'
    BY <1>8 DEF CountInv, DaemonInv, ControlInv, QuietAfterStop, TypeOK
  <2>5. \A g \in Generations : holds'[g] \subseteq holds[g]
    BY <2>2 DEF TypeOK
  <2>6. (BufferInv /\ JoinedInv)'
    BY <1>8, <2>5 DEF BufferInv, NoBufferLeak, JoinedInv, OldSamplesUnreachable, TypeOK
  <2> QED BY <2>3, <2>4, <2>6
<1> QED BY <1>1, <1>2, <1>3, <1>4, <1>5, <1>6, <1>7, <1>8 DEF ControlStep

LEMMA DaemonKeepsInv ==
  ASSUME Inv, NEW t \in Threads, DaemonStep(t)
  PROVE  Inv'
<1> USE DEF Inv
<1>1. CASE Check(t) \/ Work(t) \/ Wait(t)
  <2> USE DEF Check, Work, Wait, Die, publishing, control, reading
  <2>1. TypeOK'
    <3>1. live' \subseteq Threads /\ tpc' \in [Threads -> DaemonPoints]
      BY <1>1 DEF TypeOK, DaemonPoints
    <3>2. tidx' \in [Threads -> Nat \ {0}]
      <4>1. tidx' = tidx \/ tidx' = [tidx EXCEPT ![t] = 1]
        BY <1>1
      <4> QED BY <4>1 DEF TypeOK
    <3>3. UNCHANGED <<publishing, thread, event, control>> /\ UNCHANGED <<rpc, rbuf, rout>>
      BY <1>1
    <3> HIDE DEF Check, Work, Wait
    <3> QED BY <3>1, <3>2, <3>3 DEF TypeOK
  <2>2. DaemonInv'
    <3>1. CASE Check(t)
      BY <3>1 DEF DaemonInv, TypeOK
    <3>2. CASE Work(t)
      BY <3>2 DEF DaemonInv, TypeOK
    <3>3. CASE Wait(t)
      BY <3>3 DEF DaemonInv, TypeOK
    <3> QED BY <1>1, <3>1, <3>2, <3>3
  <2>3. live' \subseteq live
    BY <1>1
  <2>4. (CountInv /\ ControlInv /\ BufferInv /\ JoinedInv)'
    <3>1. UNCHANGED <<publishing, thread, control>>
      BY <1>1
    <3> HIDE DEF Check, Work, Wait
    <3> QED BY <2>3, <3>1 DEF CountInv, ControlInv, QuietAfterStop, BufferInv, NoBufferLeak, JoinedInv,
                              OldSamplesUnreachable, TypeOK
  <2> QED BY <2>1, <2>2, <2>4
<1>2. ASSUME NEW at \in {"publish", "timing"}, NEW next \in {"wait", "check"}, Fan(t, at, next)
      PROVE  Inv'
  <2> USE <1>2 DEF Fan, Die, control, reading
  <2>1. t \in live /\ live = {thread}
    BY DEF DaemonInv
  <2>2. ctl \in {"idle", "stop", "join"}
    BY <2>1 DEF ControlInv, TypeOK, ControlPoints
  <2>3. /\ live' \subseteq live
        /\ \A g \in Generations : holds'[g] = holds[g] \/ (g = buffer /\ holds'[g] = holds[g] \cup {t})
    <3>1. live' \subseteq live
      OBVIOUS
    <3>2. CASE holds' = holds
      BY <3>1, <3>2
    <3>3. CASE /\ tidx[t] \in DOMAIN publishers /\ publishers[tidx[t]] # User
               /\ holds' = [holds EXCEPT ![publishers[tidx[t]]] = holds[publishers[tidx[t]]] \cup {t}]
      <4>1. publishers[tidx[t]] = buffer
        BY <3>3 DEF BufferInv, NoBufferLeak
      <4>2. holds \in [Generations -> SUBSET Threads]
        BY DEF TypeOK
      <4> HIDE DEF Fan, Inv
      <4> QED BY <3>1, <3>3, <4>1, <4>2
    <3>4. tidx[t] > Len(publishers) \/ tidx[t] \in DOMAIN publishers
      BY DEF TypeOK
    <3> QED BY <3>2, <3>3, <3>4
  <2>4. TypeOK'
    <3>1. \/ tidx[t] > Len(publishers)
          \/ publishers[tidx[t]] = User
          \/ publishers[tidx[t]] \in Generations
      BY DEF TypeOK
    <3>2. live' \subseteq Threads /\ tpc' \in [Threads -> DaemonPoints]
      BY DEF TypeOK, DaemonPoints
    <3>3. tidx' \in [Threads -> Nat \ {0}]
      <4>1. tidx' = tidx \/ tidx' = [tidx EXCEPT ![t] = tidx[t] + 1]
        OBVIOUS
      <4> HIDE DEF Fan
      <4> QED BY <4>1 DEF TypeOK
    <3>4. holds' \in [Generations -> SUBSET Threads]
      <4>1. holds' = holds \/ \E g \in Generations : holds' = [holds EXCEPT ![g] = holds[g] \cup {t}]
        BY <3>1
      <4> HIDE DEF Fan
      <4> QED BY <4>1 DEF TypeOK
    <3>5. UNCHANGED <<publishers, buffer, nbuffers, shut, thread, event, control, reading>>
      OBVIOUS
    <3> HIDE DEF Fan
    <3> QED BY <3>2, <3>3, <3>4, <3>5 DEF TypeOK
  <2>5. (CountInv /\ DaemonInv)'
    BY DEF CountInv, DaemonInv, TypeOK
  <2>6. ControlInv'
    BY <2>3 DEF ControlInv, QuietAfterStop
  <2>7. BufferInv'
    BY <2>1, <2>2, <2>3 DEF BufferInv, NoBufferLeak
  <2>8. t \notin joined
    BY <2>1 DEF JoinedInv
  <2>9. JoinedInv'
    BY <2>2, <2>3, <2>8 DEF JoinedInv, OldSamplesUnreachable
  <2> QED BY <2>4, <2>5, <2>6, <2>7, <2>9
<1>3. CASE PublishMethod(t) \/ PublishTiming(t)
  BY <1>2, <1>3 DEF PublishMethod, PublishTiming
<1> QED BY <1>1, <1>3 DEF DaemonStep

LEMMA ReaderKeepsInv ==
  ASSUME Inv, NEW r \in Readers, GetChannel(r) \/ ReaderStep(r) \/ GetTimesOut(r)
  PROVE  Inv'
<1> USE DEF Inv, GetChannel, ReaderStep, AssertBuffer, LoadBuffer, GetReturns, GetTimesOut, EndGet,
            publishing, daemon, control
<1>1. UNCHANGED <<publishing, daemon, control>>
  OBVIOUS
<1>2. TypeOK'
  BY <1>1 DEF TypeOK, Results
<1>3. (CountInv /\ DaemonInv /\ ControlInv /\ BufferInv /\ JoinedInv)'
  BY <1>1 DEF CountInv, DaemonInv, ControlInv, QuietAfterStop, BufferInv, NoBufferLeak, JoinedInv,
              OldSamplesUnreachable
<1> QED BY <1>2, <1>3

LEMMA NextKeepsInv == Inv /\ [Next]_vars => Inv'
<1> SUFFICES ASSUME Inv, [Next]_vars PROVE Inv'
  OBVIOUS
<1>1. CASE UNCHANGED vars
  <2> USE <1>1 DEF vars, publishing, daemon, control, reading
  <2>1. TypeOK'
    BY DEF Inv, TypeOK
  <2>2. (CountInv /\ DaemonInv /\ ControlInv)'
    BY DEF Inv, CountInv, DaemonInv, ControlInv, QuietAfterStop
  <2>3. (BufferInv /\ JoinedInv)'
    BY DEF Inv, BufferInv, NoBufferLeak, JoinedInv, OldSamplesUnreachable
  <2> QED BY <2>1, <2>2, <2>3 DEF Inv
<1>2. CASE Next
  BY <1>2, ControlKeepsInv, DaemonKeepsInv, ReaderKeepsInv DEF Next
<1> QED BY <1>1, <1>2

LEMMA SpecInv == Spec => []Inv
BY InitInv, NextKeepsInv, PTL DEF Spec

----------------------------------------------------------------------------
(* The properties of Instrument. *)

\* Every variable keeps its type.
THEOREM TypeCorrect == Spec => []TypeOK
BY SpecInv, PTL DEF Inv

\* Two daemon threads are never alive together.
THEOREM AtMostOneDaemon == Spec => []OneDaemon
<1>1. Inv => OneDaemon
  BY DEF Inv, DaemonInv, OneDaemon
<1> QED BY <1>1, SpecInv, PTL

\* After stop() or close() no daemon thread is left.
THEOREM StopIsQuiet == Spec => []QuietAfterStop
BY SpecInv, PTL DEF Inv, ControlInv

\* The assert in stop() never fails.
THEOREM AssertHolds == Spec => []StopFindsItsBuffer
<1>1. Inv => StopFindsItsBuffer
  BY DEF Inv, BufferInv, StopFindsItsBuffer
<1> QED BY <1>1, SpecInv, PTL

\* No read after stop() returns samples from before it.
THEOREM NoOldSamples == Spec => []OldSamplesUnreachable
BY SpecInv, PTL DEF Inv, JoinedInv

\* self.publishers holds the current buffer at most, once.
THEOREM BuffersDoNotPileUp == Spec => []NoBufferLeak
BY SpecInv, PTL DEF Inv, BufferInv
=============================================================================
