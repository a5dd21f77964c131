------------------------------ MODULE VisaProofs ------------------------------
(***************************************************************************)
(* Two invariants of VisaBench, for any number of threads.                  *)
(*   WaveformsAreFresh is about the scopes: no other instrument is fetched  *)
(* from.  Its invariant says who is at the scope, where the record is that  *)
(* single() has promised, and what a fetch that is under way has still to   *)
(* do before it may publish.                                                *)
(*   ReadingsAreWhatTheySay is about what every instrument with a query     *)
(* publishes: supplies, multimeters, loads and scopes.  Its invariant,      *)
(* Reports, says what each query of a call will be about when it is sent:   *)
(* the channel selected, the function set, the slot or source it reads.     *)
(***************************************************************************)
EXTENDS VisaBench, TLAPS

----------------------------------------------------------------------------
(* What is left of a method: a list of steps. *)

IsSeq(s) == s \in Seq({s[i] : i \in DOMAIN s})

\* A step that neither arms, stops, forces nor recalls, nor touches what is
\* remembered of an acquisition.
Harmless(m) ==
  /\ m.do \notin {"await", "merge"}
  /\ m.do = "put" => m.at[1] \notin {"acquisition", "force", "recall"}
  /\ m.do = "note" => m.at \in {"slot", "average", "source", "type"}

Obtains(m) == m.do \in {"ask", "block"}
Arms(m) == m.do = "put" /\ m.at = <<"acquisition", 0>> /\ m.to = "armed"
Acquires(m) == m.do = "note" /\ m.at = "acquired"

Calm(s) == \A i \in DOMAIN s : Harmless(s[i])

\* The scope is armed, waited for and found to have a record, before that is read.
Arming(s) ==
  \E k, w \in DOMAIN s :
    /\ k < w /\ Arms(s[k]) /\ s[w].do = "await"
    /\ w + 1 \in DOMAIN s /\ Acquires(s[w + 1])
    /\ \A i \in DOMAIN s \ {k, w, w + 1} : Harmless(s[i])
    /\ \E i \in DOMAIN s : i > w + 1 /\ Obtains(s[i])

Awaiting(s) ==
  \E w \in DOMAIN s :
    /\ s[w].do = "await" /\ w + 1 \in DOMAIN s /\ Acquires(s[w + 1])
    /\ \A i \in DOMAIN s \ {w, w + 1} : Harmless(s[i])
    /\ \E i \in DOMAIN s : i > w + 1 /\ Obtains(s[i])

Acquiring(s) ==
  /\ 1 \in DOMAIN s /\ Acquires(s[1])
  /\ \A i \in DOMAIN s \ {1} : Harmless(s[i])
  /\ \E i \in DOMAIN s : i > 1 /\ Obtains(s[i])

\* The wait at its end.
EndsInAwait(s) ==
  Len(s) # 0 /\ s[Len(s)].do = "await" /\ \A i \in DOMAIN s \ {Len(s)} : Harmless(s[i])

\* As _wait_for_acquisition() does: armed, waited for, noted.
Waits(s) ==
  \E k \in DOMAIN s :
    /\ k < Len(s) - 1 /\ Arms(s[k]) /\ s[Len(s) - 1].do = "await" /\ Acquires(s[Len(s)])
    /\ \A i \in DOMAIN s \ {k, Len(s) - 1, Len(s)} : Harmless(s[i])

\* As single() does.
ArmsOnce(s) == \E k \in DOMAIN s : Arms(s[k]) /\ \A i \in DOMAIN s \ {k} : Harmless(s[i])

\* As digitize() does: armed, then waited for.
Digitizes(s) ==
  \E k \in DOMAIN s : /\ k < Len(s) /\ Arms(s[k]) /\ s[Len(s)].do = "await"
                      /\ \A i \in DOMAIN s \ {k, Len(s)} : Harmless(s[i])

\* A call that at most forces the trigger.
Mild(s) == \A i \in DOMAIN s : Harmless(s[i]) \/ (s[i].do = "put" /\ s[i].at = <<"force", 0>>)

\* get_acquisition_state() asks for nothing else.
AsksState(s) ==
  \A i \in DOMAIN s : s[i].do = "check" \/ (s[i].do = "ask" /\ s[i].at = <<"state", 0>>)

\* open() and close() read nothing.
Mute(s) == \A i \in DOMAIN s : Harmless(s[i]) /\ s[i].do \in {"put", "open", "close"}

\* The terminator of a binary block is read before anything else.
Drained(s) == \A i \in DOMAIN s : s[i].do = "block" => i + 1 \in DOMAIN s /\ s[i + 1].do = "drain"

Sound(s) == IsSeq(s) /\ Drained(s)
Plain(s) == Sound(s) /\ Calm(s)
Reading(s) == Plain(s) /\ \E i \in DOMAIN s : Obtains(s[i])

----------------------------------------------------------------------------
(* The invariant *)

Unlocked == {"open", "close"}
EndsShot == {"run", "stop", "single", "load"}
ReadsShot == {"fetch", "measure"}
OtherOps == {"none", "get", "set", "state", "acq mode", "slope", "save", "force", "source", "type", "level"}

Busy(t) == call[t].phase = "busy"
Active(t) == call[t].phase \in {"busy", "post"} /\ call[t].c.op \notin Unlocked

\* The scope holds the record that was promised, and its time is remembered.
Recorded == dev.acq = "stopped" /\ dev.fresh /\ host.stamp = "record"

\* A fetch that began after single() returned, and was not followed by run() or stop.
Promised(t) == Active(t) /\ call[t].c.op \in ReadsShot /\ call[t].due

Formed(t) ==
  /\ {"c", "phase", "todo", "got", "due", "fresh"} \subseteq DOMAIN call[t]
  /\ call[t].phase \in {"idle", "busy", "post"}
  /\ call[t].c.op \in Unlocked \cup EndsShot \cup ReadsShot \cup OtherOps
  /\ call[t].phase = "post" => call[t].todo = <<>>
  /\ Sound(call[t].todo)

ShapeInv ==
  /\ DOMAIN call = Threads
  /\ {"acq", "fresh"} \subseteq DOMAIN dev /\ {"armed", "stamp"} \subseteq DOMAIN host
  /\ \A t \in Threads : Formed(t)

\* One call at a time is inside the lock or on its way out.
TurnInv ==
  /\ \A t \in Threads : owner = t <=> Busy(t) /\ Active(t)
  /\ \A t, u \in Threads : Active(t) /\ Active(u) => t = u

\* Nothing is left in the line but a terminator that is about to be read.
Drains(t) == Busy(t) /\ Active(t) /\ call[t].todo # <<>> /\ call[t].todo[1].do = "drain"
LineInv == line # <<>> => Tail(line) = <<>> /\ \E t \in Threads : Drains(t)

Behaves(t) ==
  LET op == call[t].c.op s == call[t].todo IN
  /\ Busy(t) /\ op \in Unlocked => Mute(s)
  /\ Active(t) /\ op \in EndsShot => ~due
  /\ Active(t) /\ op \in ReadsShot => (due => call[t].due)
  /\ Active(t) /\ op \in OtherOps => Mild(s)
  /\ Active(t) /\ op = "state" => AsksState(s) /\ (call[t].got[1] = "stopped" => dev.acq = "stopped")

CallsInv == \A t \in Threads : Behaves(t)

\* How far it is: to arm the scope, to wait, to note the time, to read the record.
Fetches(t) ==
  Promised(t) =>
    LET s == call[t].todo IN
    \/ host.armed /\ Arming(s)
    \/ host.armed /\ Awaiting(s) /\ (dev.acq = "armed" \/ (dev.acq = "stopped" /\ dev.fresh))
    \/ host.armed /\ Acquiring(s) /\ dev.acq = "stopped" /\ dev.fresh
    \/ Recorded /\ Calm(s) /\ (call[t].fresh \/ \E i \in DOMAIN s : Obtains(s[i]))

FetchInv == \A t \in Threads : Fetches(t)

\* What single() promised is still to come, or is there.
PromiseInv == due => host.armed \/ Recorded

ScopeInv ==
  /\ ShapeInv /\ TurnInv /\ LineInv /\ CallsInv /\ FetchInv /\ PromiseInv

OthersInv ==
  /\ DOMAIN call = Threads
  /\ \A t \in Threads : {"c", "phase"} \subseteq DOMAIN call[t] /\ call[t].c.op \notin ReadsShot

Inv == kind \in Kinds /\ IF kind \in Scopes THEN ~adrift => ScopeInv ELSE OthersInv

----------------------------------------------------------------------------
(* Lists of steps *)

LEMMA ListOf ==
  ASSUME NEW s, IsSeq(s)
  PROVE  Len(s) \in Nat /\ DOMAIN s = 1..Len(s)
<1> DEFINE S == {s[i] : i \in DOMAIN s}
<1>1. s \in Seq(S)
  BY DEF IsSeq
<1> HIDE DEF S
<1> QED  BY <1>1

LEMMA ListsOfElements ==
  ASSUME NEW S, NEW s \in Seq(S), NEW T, \A i \in DOMAIN s : s[i] \in T
  PROVE  s \in Seq(T)
  OBVIOUS

LEMMA IsSeqOf ==
  ASSUME NEW S, NEW s \in Seq(S)
  PROVE  IsSeq(s)
<1> DEFINE T == {s[i] : i \in DOMAIN s}
<1>1. \A i \in DOMAIN s : s[i] \in T
  OBVIOUS
<1> HIDE DEF T
<1>2. s \in Seq(T)
  BY <1>1, ListsOfElements
<1> QED  BY <1>2 DEF IsSeq, T

LEMMA TailOf ==
  ASSUME NEW s, IsSeq(s), s # <<>>
  PROVE  /\ Head(s) = s[1] /\ 1 \in DOMAIN s
         /\ IsSeq(Tail(s))
         /\ \A i \in DOMAIN Tail(s) : Tail(s)[i] = s[i + 1]
         /\ \A i : i \in DOMAIN Tail(s) <=> i \in Nat \ {0} /\ i + 1 \in DOMAIN s
<1> DEFINE S == {s[i] : i \in DOMAIN s}
<1>1. s \in Seq(S)
  BY DEF IsSeq
<1> HIDE DEF S
<1>2. Tail(s) \in Seq(S) /\ Head(s) = s[1] /\ Len(s) \in Nat \ {0} /\ Len(Tail(s)) = Len(s) - 1
      /\ \A i \in 1..Len(Tail(s)) : Tail(s)[i] = s[i + 1]
  BY <1>1
<1>3. DOMAIN s = 1..Len(s) /\ DOMAIN Tail(s) = 1..Len(Tail(s))
  BY <1>1, <1>2
<1>4. IsSeq(Tail(s))
  BY <1>2, IsSeqOf
<1> QED  BY <1>2, <1>3, <1>4

LEMMA CatOf ==
  ASSUME NEW s, NEW t, IsSeq(s), IsSeq(t)
  PROVE  /\ IsSeq(s \o t) /\ Len(s \o t) = Len(s) + Len(t) /\ DOMAIN (s \o t) = 1..Len(s) + Len(t)
         /\ Len(s) \in Nat /\ Len(t) \in Nat
         /\ \A i \in 1..Len(s) : (s \o t)[i] = s[i]
         /\ \A i \in 1..Len(t) : (s \o t)[Len(s) + i] = t[i]
<1> DEFINE S == {s[i] : i \in DOMAIN s} \cup {t[i] : i \in DOMAIN t}
<1>1. s \in Seq({s[i] : i \in DOMAIN s}) /\ t \in Seq({t[i] : i \in DOMAIN t})
  BY DEF IsSeq
<1>2. (\A i \in DOMAIN s : s[i] \in S) /\ (\A i \in DOMAIN t : t[i] \in S)
  OBVIOUS
<1> HIDE DEF S
<1>3. s \in Seq(S) /\ t \in Seq(S)
  BY <1>1, <1>2, ListsOfElements
<1>4. s \o t \in Seq(S) /\ Len(s) \in Nat /\ Len(t) \in Nat /\ Len(s \o t) = Len(s) + Len(t)
      /\ DOMAIN s = 1..Len(s) /\ DOMAIN t = 1..Len(t) /\ DOMAIN (s \o t) = 1..Len(s \o t)
  BY <1>3
<1>5. \A i \in 1..Len(s) + Len(t) : (s \o t)[i] = IF i <= Len(s) THEN s[i] ELSE t[i - Len(s)]
  BY <1>3
<1>6. IsSeq(s \o t)
  BY <1>4, IsSeqOf
<1>7. \A i \in 1..Len(t) : (s \o t)[Len(s) + i] = t[i]
  BY <1>4, <1>5
<1>8. \A i \in 1..Len(s) : (s \o t)[i] = s[i]
  BY <1>4, <1>5
<1> QED  BY <1>4, <1>6, <1>7, <1>8

LEMMA StepOfOne ==
  ASSUME NEW do, NEW at, NEW to
  PROVE  /\ IsSeq(Step(do, at, to)) /\ Len(Step(do, at, to)) = 1 /\ DOMAIN Step(do, at, to) = {1}
         /\ Step(do, at, to)[1] = [do |-> do, at |-> at, to |-> to, hold |-> FALSE]
<1> DEFINE r == [do |-> do, at |-> at, to |-> to, hold |-> FALSE]
<1>1. Step(do, at, to) = <<r>>
  BY DEF Step
<1> HIDE DEF r
<1>2. <<r>> \in Seq({r}) /\ Len(<<r>>) = 1 /\ <<r>>[1] = r /\ DOMAIN <<r>> = {1}
  OBVIOUS
<1>3. IsSeq(<<r>>)
  BY <1>2, IsSeqOf
<1> QED  BY <1>1, <1>2, <1>3 DEF r

LEMMA StepDoes == ASSUME NEW do, NEW at, NEW to  PROVE Step(do, at, to)[1].do = do
<1>1. Step(do, at, to)[1] = [do |-> do, at |-> at, to |-> to, hold |-> FALSE]
  BY StepOfOne
<1> QED  BY <1>1

\* What is left of a list after its first step.
LEMMA RestOf ==
  ASSUME NEW s, IsSeq(s), s # <<>>
  PROVE  /\ Calm(s) => Harmless(s[1]) /\ Calm(Tail(s))
         /\ (\E i \in DOMAIN s : Obtains(s[i])) => Obtains(s[1]) \/ \E i \in DOMAIN Tail(s) : Obtains(Tail(s)[i])
         /\ Acquiring(s) => /\ Acquires(s[1]) /\ Calm(Tail(s))
                            /\ \E i \in DOMAIN Tail(s) : Obtains(Tail(s)[i])
         /\ Awaiting(s) => \/ Harmless(s[1]) /\ Awaiting(Tail(s))
                           \/ s[1].do = "await" /\ Acquiring(Tail(s))
         /\ Arming(s) => \/ Harmless(s[1]) /\ Arming(Tail(s))
                         \/ Arms(s[1]) /\ Awaiting(Tail(s))
         /\ Mild(s) => (Harmless(s[1]) \/ (s[1].do = "put" /\ s[1].at = <<"force", 0>>)) /\ Mild(Tail(s))
         /\ AsksState(s) => (s[1].do = "check" \/ (s[1].do = "ask" /\ s[1].at = <<"state", 0>>)) /\ AsksState(Tail(s))
         /\ Mute(s) => Harmless(s[1]) /\ s[1].do \in {"put", "open", "close"} /\ Mute(Tail(s))
         /\ Drained(s) => /\ Drained(Tail(s))
                          /\ s[1].do = "block" => Tail(s) # <<>> /\ Tail(s)[1].do = "drain"
<1> DEFINE r == Tail(s) n == Len(s)
<1>1. 1 \in DOMAIN s /\ \A i \in DOMAIN r : r[i] = s[i + 1]
  BY TailOf
<1>2. \A i : i \in DOMAIN r <=> i \in Nat \ {0} /\ i + 1 \in DOMAIN s
  BY TailOf
<1>3. n \in Nat /\ DOMAIN s = 1..n
  BY ListOf
<1> HIDE DEF r, n
<1>4. \A i \in DOMAIN s : i = 1 \/ (i - 1 \in DOMAIN r /\ r[i - 1] = s[i])
  BY <1>1, <1>2, <1>3
<1>5. \A i \in DOMAIN r : i \in Nat \ {0} /\ i + 1 \in DOMAIN s /\ r[i] = s[i + 1]
  BY <1>1, <1>2
<1>6. Calm(s) => Harmless(s[1]) /\ Calm(r)
  BY <1>1, <1>5 DEF Calm
<1>7. (\E i \in DOMAIN s : Obtains(s[i])) => Obtains(s[1]) \/ \E i \in DOMAIN r : Obtains(r[i])
  BY <1>4
<1>8. Acquiring(s) => Acquires(s[1]) /\ Calm(r) /\ \E i \in DOMAIN r : Obtains(r[i])
  <2> SUFFICES ASSUME Acquiring(s)  PROVE Acquires(s[1]) /\ Calm(r) /\ \E i \in DOMAIN r : Obtains(r[i])
    OBVIOUS
  <2>1. Calm(r)
    <3> SUFFICES ASSUME NEW i \in DOMAIN r  PROVE Harmless(r[i])
      BY DEF Calm
    <3>1. i + 1 \in DOMAIN s \ {1} /\ r[i] = s[i + 1]
      BY <1>3, <1>5
    <3> QED  BY <3>1 DEF Acquiring
  <2>2. PICK i \in DOMAIN s : i > 1 /\ Obtains(s[i])
    BY DEF Acquiring
  <2>3. i - 1 \in DOMAIN r /\ r[i - 1] = s[i]
    BY <1>4, <2>2
  <2> QED  BY <2>1, <2>2, <2>3 DEF Acquiring
<1>9. Awaiting(s) => (Harmless(s[1]) /\ Awaiting(r)) \/ (s[1].do = "await" /\ Acquiring(r))
  <2> SUFFICES ASSUME Awaiting(s)
               PROVE  (Harmless(s[1]) /\ Awaiting(r)) \/ (s[1].do = "await" /\ Acquiring(r))
    OBVIOUS
  <2>1. PICK w \in DOMAIN s :
             /\ s[w].do = "await" /\ w + 1 \in DOMAIN s /\ Acquires(s[w + 1])
             /\ \A i \in DOMAIN s \ {w, w + 1} : Harmless(s[i])
             /\ \E i \in DOMAIN s : i > w + 1 /\ Obtains(s[i])
    BY DEF Awaiting
  <2>2. PICK j \in DOMAIN s : j > w + 1 /\ Obtains(s[j])
    BY <2>1
  <2>3. w \in Nat \ {0} /\ j - 1 \in DOMAIN r /\ r[j - 1] = s[j] /\ w \in DOMAIN r /\ r[w] = s[w + 1]
    BY <1>3, <1>4, <2>1, <2>2
  <2>4. CASE w = 1
    <3>1. \A i \in DOMAIN r \ {1} : Harmless(r[i])
      BY <1>3, <1>5, <2>1, <2>4
    <3>2. j - 1 > 1 /\ Obtains(r[j - 1])
      BY <1>3, <2>2, <2>3, <2>4
    <3> QED  BY <2>1, <2>3, <2>4, <3>1, <3>2 DEF Acquiring
  <2>5. CASE w # 1
    <3>1. w - 1 \in DOMAIN r /\ r[w - 1] = s[w] /\ (w - 1) + 1 = w
      BY <1>3, <1>4, <2>1, <2>5
    <3>2. \A i \in DOMAIN r \ {w - 1, w} : Harmless(r[i])
      BY <1>3, <1>5, <2>1, <2>3
    <3>3. j - 1 > w /\ Obtains(r[j - 1])
      BY <1>3, <2>2, <2>3
    <3>4. Harmless(s[1])
      BY <1>1, <1>3, <2>1, <2>3, <2>5
    <3>5. Awaiting(r)
      BY <2>1, <2>3, <3>1, <3>2, <3>3 DEF Awaiting
    <3> QED  BY <3>4, <3>5
  <2> QED  BY <2>4, <2>5
<1>10. Arming(s) => (Harmless(s[1]) /\ Arming(r)) \/ (Arms(s[1]) /\ Awaiting(r))
  <2> SUFFICES ASSUME Arming(s)
               PROVE  (Harmless(s[1]) /\ Arming(r)) \/ (Arms(s[1]) /\ Awaiting(r))
    OBVIOUS
  <2>1. PICK k \in DOMAIN s, w \in DOMAIN s :
             /\ k < w /\ Arms(s[k]) /\ s[w].do = "await"
             /\ w + 1 \in DOMAIN s /\ Acquires(s[w + 1])
             /\ \A i \in DOMAIN s \ {k, w, w + 1} : Harmless(s[i])
             /\ \E i \in DOMAIN s : i > w + 1 /\ Obtains(s[i])
    BY DEF Arming
  <2>2. PICK j \in DOMAIN s : j > w + 1 /\ Obtains(s[j])
    BY <2>1
  <2>3. /\ k \in Nat \ {0} /\ w \in Nat \ {0, 1} /\ j \in Nat
        /\ j - 1 \in DOMAIN r /\ r[j - 1] = s[j] /\ w \in DOMAIN r /\ r[w] = s[w + 1]
        /\ w - 1 \in DOMAIN r /\ r[w - 1] = s[w] /\ (w - 1) + 1 = w /\ j - 1 > w
    BY <1>3, <1>4, <2>1, <2>2
  <2>4. CASE k = 1
    <3>1. \A i \in DOMAIN r \ {w - 1, w} : Harmless(r[i])
      <4> TAKE i \in DOMAIN r \ {w - 1, w}
      <4>1. i \in Nat \ {0} /\ i + 1 \in DOMAIN s /\ r[i] = s[i + 1]
        BY <1>5
      <4>2. i + 1 # k /\ i + 1 # w /\ i + 1 # w + 1
        BY <2>3, <2>4, <4>1
      <4> QED  BY <2>1, <4>1, <4>2
    <3>2. Awaiting(r)
      BY <2>1, <2>2, <2>3, <3>1 DEF Awaiting
    <3> QED  BY <2>1, <2>4, <3>2
  <2>5. CASE k # 1
    <3>1. k - 1 \in DOMAIN r /\ r[k - 1] = s[k] /\ k - 1 < w - 1
      BY <1>3, <1>4, <2>1, <2>3, <2>5
    <3>2. \A i \in DOMAIN r \ {k - 1, w - 1, w} : Harmless(r[i])
      <4> TAKE i \in DOMAIN r \ {k - 1, w - 1, w}
      <4>1. i \in Nat \ {0} /\ i + 1 \in DOMAIN s /\ r[i] = s[i + 1]
        BY <1>5
      <4>2. i + 1 # k /\ i + 1 # w /\ i + 1 # w + 1
        BY <2>3, <4>1
      <4> QED  BY <2>1, <4>1, <4>2
    <3>3. Harmless(s[1])
      BY <1>1, <1>3, <2>1, <2>3, <2>5
    <3>4. Arming(r)
      BY <2>1, <2>2, <2>3, <3>1, <3>2 DEF Arming
    <3> QED  BY <3>3, <3>4
  <2> QED  BY <2>4, <2>5
<1>11. Mild(s) => (Harmless(s[1]) \/ (s[1].do = "put" /\ s[1].at = <<"force", 0>>)) /\ Mild(r)
  BY <1>1, <1>5 DEF Mild
<1>12. AsksState(s) => (s[1].do = "check" \/ (s[1].do = "ask" /\ s[1].at = <<"state", 0>>)) /\ AsksState(r)
  BY <1>1, <1>5 DEF AsksState
<1>13. Mute(s) => Harmless(s[1]) /\ s[1].do \in {"put", "open", "close"} /\ Mute(r)
  BY <1>1, <1>5 DEF Mute
<1>14. Drained(s) => Drained(r)
  BY <1>2, <1>3, <1>5 DEF Drained
<1>15. Drained(s) /\ s[1].do = "block" => 1 \in DOMAIN r /\ r[1].do = "drain"
  BY <1>1, <1>2, <1>3 DEF Drained
<1>16. 1 \in DOMAIN r => r # <<>>
  OBVIOUS
<1> QED  BY <1>6, <1>7, <1>8, <1>9, <1>10, <1>11, <1>12, <1>13, <1>14, <1>15, <1>16 DEF r

\* Every place of a concatenation is one of either list.
Joined(s, t) ==
  /\ \A i \in DOMAIN (s \o t) : \/ i \in DOMAIN s /\ (s \o t)[i] = s[i]
                                \/ i - Len(s) \in DOMAIN t /\ (s \o t)[i] = t[i - Len(s)]
  /\ \A i \in DOMAIN s : i \in DOMAIN (s \o t) /\ (s \o t)[i] = s[i]
  /\ \A i \in DOMAIN t : Len(s) + i \in DOMAIN (s \o t) /\ (s \o t)[Len(s) + i] = t[i]
  /\ IsSeq(s \o t) /\ Len(s \o t) = Len(s) + Len(t)
  /\ Len(s) \in Nat /\ Len(t) \in Nat /\ DOMAIN s = 1..Len(s) /\ DOMAIN t = 1..Len(t)

LEMMA PlacesOf ==
  ASSUME NEW s, NEW t, IsSeq(s), IsSeq(t)
  PROVE  Joined(s, t)
<1> DEFINE r == s \o t m == Len(s) n == Len(t)
<1>1. /\ IsSeq(r) /\ Len(r) = m + n /\ DOMAIN r = 1..m + n /\ m \in Nat /\ n \in Nat
      /\ \A i \in 1..m : r[i] = s[i]
      /\ \A i \in 1..n : r[m + i] = t[i]
  BY CatOf
<1>2. DOMAIN s = 1..m /\ DOMAIN t = 1..n
  BY ListOf
<1> HIDE DEF r, m, n
<1>3. ASSUME NEW i \in DOMAIN r, i \notin DOMAIN s
      PROVE  i - m \in DOMAIN t /\ r[i] = t[i - m]
  <2>1. i - m \in 1..n /\ m + (i - m) = i
    BY <1>1, <1>2, <1>3
  <2> QED  BY <2>1, <1>1, <1>2
<1>4. \A i \in DOMAIN s : i \in DOMAIN r /\ r[i] = s[i]
  BY <1>1, <1>2
<1>5. \A i \in DOMAIN t : m + i \in DOMAIN r /\ r[m + i] = t[i]
  BY <1>1, <1>2
<1> QED  BY <1>1, <1>2, <1>3, <1>4, <1>5 DEF Joined, r, m, n

LEMMA ListsThen ==
  ASSUME NEW s, NEW t, IsSeq(s), IsSeq(t)
  PROVE  /\ Calm(s) /\ Calm(t) => Calm(s \o t)
         /\ Mild(s) /\ Mild(t) => Mild(s \o t)
         /\ AsksState(s) /\ AsksState(t) => AsksState(s \o t)
         /\ Mute(s) /\ Mute(t) => Mute(s \o t)
         /\ Drained(s) /\ Drained(t) => Drained(s \o t)
         /\ (\E i \in DOMAIN s : Obtains(s[i])) \/ (\E i \in DOMAIN t : Obtains(t[i]))
              => \E i \in DOMAIN (s \o t) : Obtains((s \o t)[i])
<1> DEFINE r == s \o t m == Len(s)
<1>0. Joined(s, t)
  BY PlacesOf
<1>1. \A i \in DOMAIN r : (i \in DOMAIN s /\ r[i] = s[i]) \/ (i - m \in DOMAIN t /\ r[i] = t[i - m])
  BY <1>0 DEF Joined
<1>2. \A i \in DOMAIN s : i \in DOMAIN r /\ r[i] = s[i]
  BY <1>0 DEF Joined
<1>3. \A i \in DOMAIN t : m + i \in DOMAIN r /\ r[m + i] = t[i]
  BY <1>0 DEF Joined
<1>4. m \in Nat /\ DOMAIN s = 1..m /\ \A i \in DOMAIN t : i \in Nat
  BY ListOf
<1> HIDE DEF r, m
<1>5. Calm(s) /\ Calm(t) => Calm(r)
  BY <1>1 DEF Calm
<1>6. Mild(s) /\ Mild(t) => Mild(r)
  BY <1>1 DEF Mild
<1>7. AsksState(s) /\ AsksState(t) => AsksState(r)
  BY <1>1 DEF AsksState
<1>8. Mute(s) /\ Mute(t) => Mute(r)
  BY <1>1 DEF Mute
<1>9. ASSUME Drained(s), Drained(t), NEW i \in DOMAIN r, r[i].do = "block"
      PROVE  i + 1 \in DOMAIN r /\ r[i + 1].do = "drain"
  <2>1. CASE i \in DOMAIN s /\ r[i] = s[i]
    BY <2>1, <1>2, <1>9 DEF Drained
  <2>2. CASE i - m \in DOMAIN t /\ r[i] = t[i - m]
    <3>1. (i - m) + 1 \in DOMAIN t /\ t[(i - m) + 1].do = "drain"
      BY <2>2, <1>9 DEF Drained
    <3>2. m + ((i - m) + 1) \in DOMAIN r /\ r[m + ((i - m) + 1)].do = "drain"
      BY <3>1, <1>3
    <3>3. i \in Int
      <4>1. CASE i \in DOMAIN s
        BY <1>4, <4>1
      <4>2. CASE i \notin DOMAIN s
        BY <1>4, <2>2, <4>2, <1>0 DEF Joined, r
      <4> QED  BY <4>1, <4>2
    <3>4. m + ((i - m) + 1) = i + 1
      BY <3>3, <1>4
    <3> QED  BY <3>2, <3>4
  <2> QED  BY <1>1, <2>1, <2>2
<1>10. Drained(s) /\ Drained(t) => Drained(r)
  BY <1>9 DEF Drained
<1>11. (\E i \in DOMAIN s : Obtains(s[i])) \/ (\E i \in DOMAIN t : Obtains(t[i])) => \E i \in DOMAIN r : Obtains(r[i])
  BY <1>2, <1>3
<1> QED  BY <1>5, <1>6, <1>7, <1>8, <1>10, <1>11 DEF r

LEMMA CalmThenWaits ==
  ASSUME NEW p, NEW w, IsSeq(p), IsSeq(w), Calm(p), Waits(w)
  PROVE  Waits(p \o w)
<1> DEFINE r == p \o w m == Len(p) n == Len(w)
<1>0. Joined(p, w)
  BY PlacesOf
<1>1. \A i \in DOMAIN r : (i \in DOMAIN p /\ r[i] = p[i]) \/ (i - m \in DOMAIN w /\ r[i] = w[i - m])
  BY <1>0 DEF Joined
<1>2. \A i \in DOMAIN w : m + i \in DOMAIN r /\ r[m + i] = w[i]
  BY <1>0 DEF Joined
<1>3. IsSeq(r) /\ Len(r) = m + n /\ m \in Nat /\ n \in Nat /\ DOMAIN p = 1..m /\ DOMAIN w = 1..n
  BY <1>0 DEF Joined
<1> HIDE DEF r, m, n
<1>4. DOMAIN r = 1..m + n
  BY <1>3, ListOf
<1>5. PICK k \in DOMAIN w :
           /\ k < n - 1 /\ Arms(w[k]) /\ w[n - 1].do = "await" /\ Acquires(w[n])
           /\ \A i \in DOMAIN w \ {k, n - 1, n} : Harmless(w[i])
  BY DEF Waits, n
<1>6. k \in Nat \ {0} /\ n - 1 \in DOMAIN w /\ n \in DOMAIN w
  BY <1>3, <1>5
<1>7. /\ m + k \in DOMAIN r /\ Arms(r[m + k]) /\ m + k < (m + n) - 1
      /\ r[(m + n) - 1].do = "await" /\ Acquires(r[m + n])
  <2>1. m + (n - 1) = (m + n) - 1
    BY <1>3
  <2>2. m + k < (m + n) - 1
    BY <1>3, <1>5, <1>6
  <2>3. r[m + (n - 1)].do = "await" /\ Acquires(r[m + n]) /\ m + k \in DOMAIN r /\ Arms(r[m + k])
    BY <1>2, <1>5, <1>6
  <2> QED  BY <2>1, <2>2, <2>3
<1>8. ASSUME NEW i \in DOMAIN r \ {m + k, (m + n) - 1, m + n}
      PROVE  Harmless(r[i])
  <2>1. CASE i \in DOMAIN p /\ r[i] = p[i]
    BY <2>1 DEF Calm
  <2>2. CASE i - m \in DOMAIN w /\ r[i] = w[i - m]
    <3>1. i - m # k /\ i - m # n - 1 /\ i - m # n
      BY <1>3, <1>4, <1>6
    <3> QED  BY <1>5, <2>2, <3>1
  <2> QED  BY <1>1, <2>1, <2>2
<1>9. Waits(r)
  BY <1>3, <1>7, <1>8 DEF Waits
<1> QED  BY <1>9 DEF r

LEMMA WaitsThen ==
  ASSUME NEW w, NEW r, IsSeq(w), IsSeq(r), Waits(w), Calm(r), \E i \in DOMAIN r : Obtains(r[i])
  PROVE  Arming(w \o r)
<1> DEFINE s == w \o r m == Len(w)
<1>0. Joined(w, r)
  BY PlacesOf
<1>1. \A i \in DOMAIN s : (i \in DOMAIN w /\ s[i] = w[i]) \/ (i - m \in DOMAIN r /\ s[i] = r[i - m])
  BY <1>0 DEF Joined
<1>2. \A i \in DOMAIN w : i \in DOMAIN s /\ s[i] = w[i]
  BY <1>0 DEF Joined
<1>3. \A i \in DOMAIN r : m + i \in DOMAIN s /\ s[m + i] = r[i]
  BY <1>0 DEF Joined
<1>4. m \in Nat /\ DOMAIN w = 1..m /\ DOMAIN r = 1..Len(r)
  BY <1>0 DEF Joined
<1> HIDE DEF s, m
<1>5. PICK k \in DOMAIN w :
           /\ k < m - 1 /\ Arms(w[k]) /\ w[m - 1].do = "await" /\ Acquires(w[m])
           /\ \A i \in DOMAIN w \ {k, m - 1, m} : Harmless(w[i])
  BY DEF Waits, m
<1>6. PICK j \in DOMAIN r : Obtains(r[j])
  OBVIOUS
<1>7. k \in Nat \ {0} /\ m - 1 \in DOMAIN w /\ m \in DOMAIN w /\ (m - 1) + 1 = m /\ m + j > m
  BY <1>4, <1>5
<1>8. \A i \in DOMAIN s \ {k, m - 1, m} : Harmless(s[i])
  BY <1>1, <1>5 DEF Calm
<1>9. Arming(s)
  <2>1. /\ k \in DOMAIN s /\ m - 1 \in DOMAIN s /\ (m - 1) + 1 \in DOMAIN s
        /\ k < m - 1 /\ Arms(s[k]) /\ s[m - 1].do = "await" /\ Acquires(s[(m - 1) + 1])
    BY <1>2, <1>5, <1>7
  <2>2. m + j \in DOMAIN s /\ m + j > (m - 1) + 1 /\ Obtains(s[m + j])
    BY <1>3, <1>6, <1>7
  <2> QED  BY <1>7, <1>8, <2>1, <2>2 DEF Arming
<1> QED  BY <1>9 DEF s

LEMMA ArmingThen ==
  ASSUME NEW s, NEW t, IsSeq(s), IsSeq(t), Arming(s), Calm(t)
  PROVE  Arming(s \o t)
<1> DEFINE r == s \o t m == Len(s)
<1>0. Joined(s, t)
  BY PlacesOf
<1>1. \A i \in DOMAIN r : (i \in DOMAIN s /\ r[i] = s[i]) \/ (i - m \in DOMAIN t /\ r[i] = t[i - m])
  BY <1>0 DEF Joined
<1>2. \A i \in DOMAIN s : i \in DOMAIN r /\ r[i] = s[i]
  BY <1>0 DEF Joined
<1> HIDE DEF r, m
<1>3. PICK k \in DOMAIN s, w \in DOMAIN s :
           /\ k < w /\ Arms(s[k]) /\ s[w].do = "await"
           /\ w + 1 \in DOMAIN s /\ Acquires(s[w + 1])
           /\ \A i \in DOMAIN s \ {k, w, w + 1} : Harmless(s[i])
           /\ \E i \in DOMAIN s : i > w + 1 /\ Obtains(s[i])
  BY DEF Arming
<1>4. \A i \in DOMAIN r \ {k, w, w + 1} : Harmless(r[i])
  BY <1>1, <1>3 DEF Calm
<1>5. Arming(r)
  BY <1>2, <1>3, <1>4 DEF Arming
<1> QED  BY <1>5 DEF r

----------------------------------------------------------------------------
(* The scopes' methods *)

LEMMA PlainThen ==
  ASSUME NEW s, NEW t
  PROVE  /\ Sound(s) /\ Sound(t) => Sound(s \o t)
         /\ Plain(s) /\ Plain(t) => Plain(s \o t)
         /\ Plain(s) /\ Reading(t) => Reading(s \o t)
         /\ Reading(s) /\ Plain(t) => Reading(s \o t)
<1>1. Sound(s) /\ Sound(t) => Sound(s \o t)
  BY ListsThen, CatOf DEF Sound
<1>2. Plain(s) /\ Plain(t) => Plain(s \o t)
  BY <1>1, ListsThen DEF Plain, Sound
<1>3. ASSUME (Plain(s) /\ Reading(t)) \/ (Reading(s) /\ Plain(t))
      PROVE  Reading(s \o t)
  <2>1. Plain(s) /\ Plain(t) /\ ((\E i \in DOMAIN s : Obtains(s[i])) \/ (\E i \in DOMAIN t : Obtains(t[i])))
    BY <1>3 DEF Reading
  <2>2. IsSeq(s) /\ IsSeq(t)
    BY <2>1 DEF Plain, Sound
  <2> QED  BY <1>2, <2>1, <2>2, ListsThen DEF Reading
<1> QED  BY <1>1, <1>2, <1>3

LEMMA EmptyIsPlain == Plain(<<>>)
<1>1. <<>> \in Seq({}) /\ DOMAIN <<>> = {}
  OBVIOUS
<1>2. IsSeq(<<>>)
  BY <1>1, IsSeqOf
<1> QED  BY <1>1, <1>2 DEF Plain, Sound, Drained, Calm

LEMMA StepIs ==
  ASSUME NEW do, NEW at, NEW to
  PROVE  /\ do # "block" => Sound(Step(do, at, to))
         /\ do \notin {"put", "note", "await", "merge", "block"} => Plain(Step(do, at, to))
         /\ do = "ask" => Reading(Step(do, at, to))
<1> DEFINE s == Step(do, at, to)
<1>1. IsSeq(s) /\ DOMAIN s = {1} /\ s[1] = [do |-> do, at |-> at, to |-> to, hold |-> FALSE]
  BY StepOfOne
<1> HIDE DEF s
<1>2. do # "block" => Sound(s)
  BY <1>1 DEF Sound, Drained
<1>3. do \notin {"put", "note", "await", "merge", "block"} => Plain(s)
  BY <1>1, <1>2 DEF Plain, Calm, Harmless
<1>4. do = "ask" => Reading(s)
  BY <1>1, <1>3 DEF Reading, Obtains
<1> QED  BY <1>2, <1>3, <1>4 DEF s

LEMMA PutIs ==
  ASSUME NEW at, NEW to
  PROVE  /\ Sound(Put(at, to))
         /\ at[1] \notin {"acquisition", "force", "recall"} => Plain(Put(at, to)) /\ Mute(Put(at, to))
         /\ at = <<"force", 0>> => Mild(Put(at, to))
<1> DEFINE s == Step("put", at, to)
<1>1. IsSeq(s) /\ DOMAIN s = {1} /\ s[1] = [do |-> "put", at |-> at, to |-> to, hold |-> FALSE]
  BY StepOfOne
<1>2. Sound(s)
  BY StepIs
<1>3. Put(at, to) = s
  BY DEF Put
<1> HIDE DEF s
<1>4. at[1] \notin {"acquisition", "force", "recall"} => Plain(s) /\ Mute(s)
  BY <1>1, <1>2 DEF Plain, Calm, Harmless, Mute
<1>5. at = <<"force", 0>> => Mild(s)
  BY <1>1 DEF Mild
<1> QED  BY <1>2, <1>3, <1>4, <1>5

LEMMA NoteIs ==
  ASSUME NEW at, NEW to, at \in {"slot", "average", "source", "type"}
  PROVE  Plain(Note(at, to))
<1> DEFINE s == Step("note", at, to)
<1>1. IsSeq(s) /\ DOMAIN s = {1} /\ s[1] = [do |-> "note", at |-> at, to |-> to, hold |-> FALSE]
  BY StepOfOne
<1>2. Sound(s)
  BY StepIs
<1>3. Note(at, to) = s
  BY DEF Note
<1> HIDE DEF s
<1>4. Plain(s)
  BY <1>1, <1>2 DEF Plain, Calm, Harmless
<1> QED  BY <1>3, <1>4

LEMMA AskIs == ASSUME NEW at  PROVE Reading(Ask(at)) /\ Plain(Ask(at)) /\ (at = <<"state", 0>> => AsksState(Ask(at)))
<1> DEFINE s == Step("ask", at, 0)
<1>1. DOMAIN s = {1} /\ s[1] = [do |-> "ask", at |-> at, to |-> 0, hold |-> FALSE]
  BY StepOfOne
<1>2. Reading(s)
  BY StepIs
<1>3. Ask(at) = s
  BY DEF Ask
<1> HIDE DEF s
<1>4. at = <<"state", 0>> => AsksState(s)
  BY <1>1 DEF AsksState
<1> QED  BY <1>2, <1>3, <1>4 DEF Reading

LEMMA CheckIs == Plain(Check) /\ AsksState(Check)
<1> DEFINE s == Step("check", <<"error", 0>>, 0)
<1>1. DOMAIN s = {1} /\ s[1] = [do |-> "check", at |-> <<"error", 0>>, to |-> 0, hold |-> FALSE]
  BY StepOfOne
<1>2. Plain(s)
  BY StepIs
<1>3. Check = s
  BY DEF Check
<1> HIDE DEF s
<1>4. AsksState(s)
  BY <1>1 DEF AsksState
<1> QED  BY <1>2, <1>3, <1>4

LEMMA RefuseIs == Plain(Refuse)
  BY StepIs DEF Refuse

LEMMA TwoListsOfOne ==
  ASSUME NEW a, NEW b, IsSeq(a), IsSeq(b)
  PROVE  Len(a) = 1 /\ Len(b) = 1 =>
           Len(a \o b) = 2 /\ DOMAIN (a \o b) = 1..2 /\ (a \o b)[1] = a[1] /\ (a \o b)[2] = b[1]
<1> DEFINE r == a \o b
<1>1. /\ Len(r) = Len(a) + Len(b) /\ DOMAIN r = 1..Len(a) + Len(b)
      /\ \A i \in 1..Len(a) : r[i] = a[i]
      /\ \A i \in 1..Len(b) : r[Len(a) + i] = b[i]
  BY CatOf
<1> HIDE DEF r
<1> SUFFICES ASSUME Len(a) = 1, Len(b) = 1
             PROVE  Len(r) = 2 /\ DOMAIN r = 1..2 /\ r[1] = a[1] /\ r[2] = b[1]
  BY DEF r
<1>2. Len(r) = 2 /\ DOMAIN r = 1..2
  BY <1>1
<1>3. r[1] = a[1]
  BY <1>1
<1>4. r[1 + 1] = b[1]
  BY <1>1
<1> QED  BY <1>2, <1>3, <1>4

\* Two steps under one lock are the same two steps.
LEMMA LockedIs ==
  ASSUME NEW do1, NEW at1, NEW to1, NEW do2, NEW at2, NEW to2
  PROVE  LET s == Locked(Step(do1, at1, to1) \o Step(do2, at2, to2)) IN
         /\ IsSeq(s) /\ Len(s) = 2 /\ DOMAIN s = 1..2
         /\ s[1].do = do1 /\ s[1].at = at1 /\ s[1].to = to1
         /\ s[2].do = do2 /\ s[2].at = at2 /\ s[2].to = to2
<1> DEFINE a == Step(do1, at1, to1) b == Step(do2, at2, to2) r == a \o b s == Locked(r)
<1>1. /\ IsSeq(a) /\ Len(a) = 1 /\ a[1] = [do |-> do1, at |-> at1, to |-> to1, hold |-> FALSE]
      /\ IsSeq(b) /\ Len(b) = 1 /\ b[1] = [do |-> do2, at |-> at2, to |-> to2, hold |-> FALSE]
  BY StepOfOne
<1> HIDE DEF a, b
<1>2. Len(r) = 2 /\ DOMAIN r = 1..2 /\ r[1] = a[1] /\ r[2] = b[1]
  BY <1>1, TwoListsOfOne
<1> HIDE DEF r
<1>3. s = [i \in 1..2 |-> [r[i] EXCEPT !.hold = i < 2]]
  BY <1>2 DEF Locked
<1> HIDE DEF s
<1>4. /\ DOMAIN s = 1..2
      /\ s[1].do = do1 /\ s[1].at = at1 /\ s[1].to = to1
      /\ s[2].do = do2 /\ s[2].at = at2 /\ s[2].to = to2
  BY <1>1, <1>2, <1>3
<1> DEFINE S == {s[1], s[2]}
<1>5. \A i \in 1..2 : s[i] \in S
  OBVIOUS
<1>6. s = [i \in 1..2 |-> s[i]]
  BY <1>3
<1> HIDE DEF S
<1>7. s \in Seq(S) /\ Len(s) = 2
  BY <1>5, <1>6
<1>8. IsSeq(s)
  BY <1>7, IsSeqOf
<1> QED  BY <1>4, <1>7, <1>8 DEF s, r, a, b

LEMMA ArmsThenAwaits ==
  ASSUME NEW a, NEW b, Sound(a), Sound(b), ArmsOnce(a), EndsInAwait(b)
  PROVE  Digitizes(a \o b) /\ Sound(a \o b)
<1> DEFINE r == a \o b m == Len(a) n == Len(b)
<1>a. IsSeq(a) /\ IsSeq(b)
  BY DEF Sound
<1>c. Joined(a, b)
  BY <1>a, PlacesOf
<1>b. Sound(r)
  BY PlainThen
<1>1. \A i \in DOMAIN r : (i \in DOMAIN a /\ r[i] = a[i]) \/ (i - m \in DOMAIN b /\ r[i] = b[i - m])
  BY <1>c DEF Joined
<1>2. \A i \in DOMAIN a : i \in DOMAIN r /\ r[i] = a[i]
  BY <1>c DEF Joined
<1>3. \A i \in DOMAIN b : m + i \in DOMAIN r /\ r[m + i] = b[i]
  BY <1>c DEF Joined
<1>4. Len(r) = m + n /\ m \in Nat /\ n \in Nat /\ DOMAIN a = 1..m /\ DOMAIN b = 1..n
  BY <1>c DEF Joined
<1>5. n # 0 /\ b[n].do = "await" /\ \A i \in DOMAIN b \ {n} : Harmless(b[i])
  BY DEF EndsInAwait
<1> HIDE DEF r, m, n
<1>6. PICK k \in DOMAIN a : Arms(a[k]) /\ \A i \in DOMAIN a \ {k} : Harmless(a[i])
  BY DEF ArmsOnce
<1>7. k \in DOMAIN r /\ k < m + n /\ Arms(r[k]) /\ r[m + n].do = "await"
  BY <1>2, <1>3, <1>4, <1>5, <1>6
<1>8. ASSUME NEW i \in DOMAIN r \ {k, m + n}
      PROVE  Harmless(r[i])
  <2>1. CASE i \in DOMAIN a /\ r[i] = a[i]
    BY <1>6, <2>1
  <2>2. CASE i - m \in DOMAIN b /\ r[i] = b[i - m]
    <3>1. i - m # n
      BY <1>a, <1>1, <1>4, <2>2, ListOf, CatOf DEF r, m
    <3> QED  BY <1>5, <2>2, <3>1
  <2> QED  BY <1>1, <2>1, <2>2
<1>9. Digitizes(r)
  BY <1>4, <1>7, <1>8 DEF Digitizes
<1> QED  BY <1>b, <1>9 DEF r

LEMMA DigitizesThenNotes ==
  ASSUME NEW a, NEW b, IsSeq(a), IsSeq(b), Digitizes(a), Acquires(b[1])
  PROVE  Len(b) = 1 => Waits(a \o b)
<1> DEFINE r == a \o b m == Len(a)
<1>0. Joined(a, b)
  BY PlacesOf
<1>1. \A i \in DOMAIN r : (i \in DOMAIN a /\ r[i] = a[i]) \/ (i - m \in DOMAIN b /\ r[i] = b[i - m])
  BY <1>0 DEF Joined
<1>2. \A i \in DOMAIN a : i \in DOMAIN r /\ r[i] = a[i]
  BY <1>0 DEF Joined
<1>3. \A i \in DOMAIN b : m + i \in DOMAIN r /\ r[m + i] = b[i]
  BY <1>0 DEF Joined
<1>4. Len(r) = m + Len(b) /\ m \in Nat /\ DOMAIN a = 1..m /\ DOMAIN b = 1..Len(b)
  BY <1>0 DEF Joined
<1>5. IsSeq(r)
  BY <1>0 DEF Joined
<1>6. PICK k \in DOMAIN a : /\ k < m /\ Arms(a[k]) /\ a[m].do = "await"
                            /\ \A i \in DOMAIN a \ {k, m} : Harmless(a[i])
  BY DEF Digitizes, m
<1> HIDE DEF r, m
<1> SUFFICES ASSUME Len(b) = 1  PROVE Waits(r)
  BY DEF r
<1>7. DOMAIN r = 1..m + 1 /\ Len(r) = m + 1 /\ (m + 1) - 1 = m
  BY <1>4, <1>5, ListOf
<1>8. /\ k \in DOMAIN r /\ k < m /\ Arms(r[k])
      /\ r[m].do = "await" /\ Acquires(r[m + 1])
  BY <1>2, <1>3, <1>4, <1>6
<1>9. ASSUME NEW i \in DOMAIN r \ {k, m, m + 1}
      PROVE  Harmless(r[i])
  <2>1. i \in DOMAIN a /\ r[i] = a[i]
    BY <1>1, <1>4, <1>7
  <2> QED  BY <1>6, <2>1
<1> QED  BY <1>7, <1>8, <1>9 DEF Waits

LEMMA ArmingIs ==
  /\ ArmsOnce(Acquisition("armed")) /\ Sound(Acquisition("armed"))
  /\ ArmsOnce(TekArm("armed")) /\ Sound(TekArm("armed"))
  /\ ArmsOnce(SiglentArm) /\ Sound(SiglentArm)
<1> DEFINE b == Acquisition("armed")
<1>1. /\ IsSeq(b) /\ Len(b) = 1 /\ DOMAIN b = {1}
      /\ b[1] = [do |-> "put", at |-> <<"acquisition", 0>>, to |-> "armed", hold |-> FALSE]
  BY StepOfOne DEF Acquisition, Put
<1>2. Sound(b)
  BY PutIs DEF Acquisition
<1>3. b = Acquisition("armed")
  OBVIOUS
<1> HIDE DEF b
<1>4. Arms(b[1])
  BY <1>1 DEF Arms
<1>5. ArmsOnce(b)
  BY <1>1, <1>4 DEF ArmsOnce
<1>6. ASSUME NEW what, NEW to, what[1] \notin {"acquisition", "force", "recall"}
      PROVE  ArmsOnce(Put(what, to) \o b) /\ Sound(Put(what, to) \o b)
  <2> DEFINE a == Put(what, to) r == a \o b
  <2>1. IsSeq(a) /\ Len(a) = 1
    BY StepOfOne DEF Put
  <2>2. Plain(a)
    BY <1>6, PutIs
  <2> HIDE DEF a
  <2>3. Len(r) = 2 /\ DOMAIN r = 1..2 /\ r[1] = a[1] /\ r[2] = b[1]
    BY <1>1, <2>1, TwoListsOfOne
  <2>4. Sound(r)
    BY <1>2, <2>2, PlainThen DEF Plain
  <2> HIDE DEF r
  <2>5. 1 \in DOMAIN a
    BY <2>1, ListOf
  <2>6. Harmless(a[1])
    BY <2>2, <2>5 DEF Plain, Calm
  <2>7. ArmsOnce(r)
    BY <1>4, <2>3, <2>6 DEF ArmsOnce
  <2> QED  BY <2>4, <2>7 DEF r, a
<1>7. ArmsOnce(TekArm("armed")) /\ Sound(TekArm("armed"))
  BY <1>3, <1>6 DEF TekArm
<1>8. ArmsOnce(SiglentArm) /\ Sound(SiglentArm)
  BY <1>3, <1>6 DEF SiglentArm
<1> QED  BY <1>2, <1>3, <1>5, <1>7, <1>8

LEMMA WaitIs ==
  ASSUME NEW k \in Scopes
  PROVE  LET w == Digitize(k) \o Note("acquired", 0) IN Sound(w) /\ Waits(w)
<1>1. Sound(AwaitOpc) /\ EndsInAwait(AwaitOpc)
  <2> DEFINE b == AwaitOpc
  <2>1. /\ IsSeq(b) /\ Len(b) = 2 /\ DOMAIN b = 1..2
        /\ b[1].do = "put" /\ b[1].at = <<"opc", 0>> /\ b[2].do = "await"
    BY LockedIs DEF AwaitOpc, Put
  <2> HIDE DEF b
  <2>2. \A i \in DOMAIN b : i = 1 \/ i = 2
    BY <2>1
  <2>3. Sound(b)
    BY <2>1, <2>2 DEF Sound, Drained
  <2>4. Harmless(b[1])
    BY <2>1 DEF Harmless
  <2>5. EndsInAwait(b)
    BY <2>1, <2>2, <2>4 DEF EndsInAwait
  <2> QED  BY <2>3, <2>5 DEF b
<1>2. Sound(AwaitInr) /\ EndsInAwait(AwaitInr)
  <2> DEFINE b == AwaitInr
  <2>1. Len(b) = 1 /\ DOMAIN b = {1}
    BY StepOfOne DEF AwaitInr
  <2>4. b[1].do = "await"
    BY StepDoes DEF AwaitInr
  <2>2. Sound(b)
    BY StepIs DEF AwaitInr
  <2> HIDE DEF b
  <2>3. EndsInAwait(b)
    BY <2>1, <2>4 DEF EndsInAwait
  <2> QED  BY <2>2, <2>3 DEF b
<1>3. Digitizes(Digitize(k)) /\ Sound(Digitize(k))
  <2>1. CASE k = "Keysight1200X"
    <3>1. Digitize(k) = Acquisition("armed") \o AwaitOpc
      BY <2>1 DEF Digitize, KeysightDigitize
    <3> QED  BY <1>1, <3>1, ArmingIs, ArmsThenAwaits
  <2>2. CASE k = "Tektronix2SeriesMSO"
    <3>1. Digitize(k) = TekArm("armed") \o AwaitOpc
      BY <2>2 DEF Digitize, TekDigitize
    <3> QED  BY <1>1, <3>1, ArmingIs, ArmsThenAwaits
  <2>3. CASE k = "SiglentSDS1000XE"
    <3>1. Digitize(k) = SiglentArm \o AwaitInr
      BY <2>3 DEF Digitize, SiglentDigitize
    <3> QED  BY <1>2, <3>1, ArmingIs, ArmsThenAwaits
  <2> QED  BY <2>1, <2>2, <2>3 DEF Scopes
<1>4. LET b == Note("acquired", 0) IN IsSeq(b) /\ Len(b) = 1 /\ Acquires(b[1]) /\ Sound(b)
  <2> DEFINE b == Note("acquired", 0)
  <2>1. IsSeq(b) /\ Len(b) = 1 /\ b[1] = [do |-> "note", at |-> "acquired", to |-> 0, hold |-> FALSE]
    BY StepOfOne DEF Note
  <2>2. Sound(b)
    BY StepIs DEF Note
  <2> QED  BY <2>1, <2>2 DEF Acquires
<1> DEFINE d == Digitize(k) b == Note("acquired", 0)
<1>5. Digitizes(d) /\ IsSeq(d) /\ Sound(d) /\ IsSeq(b) /\ Len(b) = 1 /\ Acquires(b[1]) /\ Sound(b)
  BY <1>3, <1>4 DEF Sound
<1> HIDE DEF d, b
<1>6. Waits(d \o b)
  BY <1>5, DigitizesThenNotes
<1>7. Sound(d \o b)
  BY <1>5, PlainThen
<1> QED  BY <1>6, <1>7 DEF d, b

LEMMA BlockThenDrain ==
  ASSUME NEW a, NEW at1, NEW at2, Plain(a)
  PROVE  Reading((a \o Step("block", at1, 0)) \o Step("drain", at2, 0))
<1> DEFINE b == Step("block", at1, 0) d == Step("drain", at2, 0) r == a \o b q == r \o d m == Len(a)
<1>1. IsSeq(a) /\ Calm(a) /\ Drained(a)
  BY DEF Plain, Sound
<1>2. /\ IsSeq(b) /\ Len(b) = 1 /\ DOMAIN b = {1}
      /\ IsSeq(d) /\ Len(d) = 1 /\ DOMAIN d = {1}
  BY StepOfOne
<1>3. b[1].do = "block" /\ d[1].do = "drain"
  BY StepDoes
<1> HIDE DEF b, d
<1>18. Joined(a, b)
  BY <1>1, <1>2, PlacesOf
<1>4. /\ Len(r) = m + Len(b) /\ m \in Nat /\ DOMAIN a = 1..m /\ IsSeq(r)
      /\ \A i \in DOMAIN r : (i \in DOMAIN a /\ r[i] = a[i]) \/ (i - m \in DOMAIN b /\ r[i] = b[i - m])
      /\ \A i \in DOMAIN b : m + i \in DOMAIN r /\ r[m + i] = b[i]
  BY <1>18 DEF Joined
<1>5. \A i \in DOMAIN a : i \in DOMAIN r /\ r[i] = a[i]
  BY <1>18 DEF Joined
<1> HIDE DEF r, m
<1>17. IsSeq(r) /\ IsSeq(d)
  BY <1>2, <1>4
<1>19. Joined(r, d)
  BY <1>17, PlacesOf
<1>6. /\ Len(q) = Len(r) + Len(d) /\ IsSeq(q)
      /\ \A i \in DOMAIN q : (i \in DOMAIN r /\ q[i] = r[i]) \/ (i - Len(r) \in DOMAIN d /\ q[i] = d[i - Len(r)])
      /\ \A i \in DOMAIN r : i \in DOMAIN q /\ q[i] = r[i]
      /\ \A i \in DOMAIN d : Len(r) + i \in DOMAIN q /\ q[Len(r) + i] = d[i]
  BY <1>19 DEF Joined
<1> HIDE DEF q
<1>7. Len(r) = m + 1 /\ DOMAIN r = 1..m + 1 /\ Len(q) = m + 2 /\ DOMAIN q = 1..m + 2
  BY <1>2, <1>4, <1>6, ListOf
<1>8. \A i \in 1..m : q[i] = a[i]
  BY <1>4, <1>5, <1>6
<1>9. q[m + 1] = b[1]
  BY <1>2, <1>4, <1>6
<1>10. q[m + 2] = d[1]
  BY <1>2, <1>4, <1>6, <1>7
<1>11. \A i \in DOMAIN q : i \in 1..m \/ i = m + 1 \/ i = m + 2
  BY <1>4, <1>7
<1>12. Harmless(b[1]) /\ Harmless(d[1]) /\ Obtains(b[1])
  BY <1>3 DEF Harmless, Obtains
<1>13. Calm(q)
  BY <1>1, <1>4, <1>8, <1>9, <1>10, <1>11, <1>12 DEF Calm
<1>14. ASSUME NEW i \in DOMAIN q, q[i].do = "block"
       PROVE  i + 1 \in DOMAIN q /\ q[i + 1].do = "drain"
  <2>1. CASE i \in 1..m
    <3>1. a[i].do = "block"
      BY <1>8, <1>14, <2>1
    <3>2. i + 1 \in DOMAIN a /\ a[i + 1].do = "drain"
      BY <1>1, <1>4, <2>1, <3>1 DEF Drained
    <3> QED  BY <1>4, <1>5, <1>6, <3>2
  <2>2. CASE i = m + 1
    BY <1>3, <1>4, <1>7, <1>10, <2>2
  <2>3. CASE i = m + 2
    BY <1>3, <1>10, <1>14, <2>3
  <2> QED  BY <1>11, <2>1, <2>2, <2>3
<1>15. Drained(q)
  BY <1>14 DEF Drained
<1>16. \E i \in DOMAIN q : Obtains(q[i])
  BY <1>4, <1>7, <1>9, <1>12
<1> QED  BY <1>6, <1>13, <1>15, <1>16 DEF Reading, Plain, Sound, q, r, b, d

LEMMA FetchIs ==
  ASSUME NEW k \in Scopes, NEW ch
  PROVE  Reading(Fetch(k, ch))
<1>1. Plain(Put(<<"wave source", 0>>, ch) \o Check)
  BY PutIs, CheckIs, PlainThen
<1>2. CASE k = "Keysight1200X"
  BY <1>1, <1>2, AskIs, PlainThen DEF Fetch, KeysightFetch
<1>3. CASE k = "Tektronix2SeriesMSO"
  <2>1. Plain(Put(<<"data stop", 0>>, 0))
    BY PutIs
  <2>2. Plain(Put(<<"wave source", 0>>, ch) \o Check \o Ask(<<"points", 0>>) \o Put(<<"data stop", 0>>, 0))
    BY <1>1, <2>1, AskIs, PlainThen
  <2>3. Reading(Put(<<"wave source", 0>>, ch) \o Check \o Ask(<<"points", 0>>)
                  \o Put(<<"data stop", 0>>, 0) \o Ask(<<"scaling", 0>>) \o Ask(<<"wave", 0>>))
    BY <2>2, AskIs, PlainThen
  <2> QED  BY <1>3, <2>3 DEF Fetch, TekFetch
<1>4. CASE k = "SiglentSDS1000XE"
  <2>1. Plain(Put(<<"wave setup", 0>>, 0) \o Check \o Ask(<<"scaling", ch>>))
    BY PutIs, CheckIs, AskIs, PlainThen
  <2> QED  BY <1>4, <2>1, BlockThenDrain DEF Fetch, SiglentFetch
<1> QED  BY <1>2, <1>3, <1>4 DEF Scopes

LEMMA MeasureIs ==
  ASSUME NEW k \in Scopes, NEW h, NEW type, NEW ch
  PROVE  Reading(MeasureSteps(k, type, ch)) /\ Plain(SetupMeasurement(k, h, type, ch))
<1>1. Reading(KeysightMeasure(type, ch))
  BY PutIs, CheckIs, AskIs, PlainThen DEF KeysightMeasure
<1>2. Reading(MeasureSteps(k, type, ch))
  BY <1>1, AskIs DEF MeasureSteps, SiglentMeasure, TekMeasure, Scopes
<1>3. Plain(TekSetup(h, type, ch))
  <2>1. Plain(Put(<<"add slot", 0>>, type)) /\ Plain(Put(<<"slot source", 0>>, ch))
    BY PutIs
  <2>2. Plain(Step("compare", <<"slots", 0>>, 0))
    BY StepIs
  <2>3. Plain(Note("slot", <<type, ch>>))
    BY NoteIs
  <2>4. Plain(Ask(<<"slots", 0>>) \o Put(<<"add slot", 0>>, type) \o Step("compare", <<"slots", 0>>, 0))
    BY <2>1, <2>2, AskIs, PlainThen
  <2>5. Plain(Ask(<<"slots", 0>>) \o Put(<<"add slot", 0>>, type) \o Step("compare", <<"slots", 0>>, 0)
                \o Put(<<"slot source", 0>>, ch) \o Check)
    BY <2>1, <2>4, CheckIs, PlainThen
  <2>6. Plain(Ask(<<"slots", 0>>) \o Put(<<"add slot", 0>>, type) \o Step("compare", <<"slots", 0>>, 0)
                \o Put(<<"slot source", 0>>, ch) \o Check
                \o Note("slot", <<type, ch>>) \o Ask(<<"slot", <<type, ch>>>>))
    BY <2>3, <2>5, AskIs, PlainThen
  <2> QED  BY <2>6, EmptyIsPlain DEF TekSetup
<1>4. Plain(SetupMeasurement(k, h, type, ch))
  BY <1>3, EmptyIsPlain DEF SetupMeasurement
<1> QED  BY <1>2, <1>4

\* A fetch or a measurement waits if single() has armed the scope, and reads.
LEMMA ReadsShotIs ==
  ASSUME NEW k \in Scopes, NEW h, NEW c, c.op \in ReadsShot
  PROVE  /\ Sound(ScopeSteps(k, h, c))
         /\ IF h.armed THEN Arming(ScopeSteps(k, h, c)) ELSE Reading(ScopeSteps(k, h, c))
<1> DEFINE w == Digitize(k) \o Note("acquired", 0)
<1>1. Sound(w) /\ Waits(w) /\ (WaitForAcquisition(k, h) = IF h.armed THEN w ELSE <<>>)
  BY WaitIs DEF WaitForAcquisition
<1> HIDE DEF w
<1>2. Plain(Check)
  BY CheckIs
<1>3. ASSUME NEW p, NEW r, Plain(p), Reading(r)
      PROVE  LET s == ((p \o WaitForAcquisition(k, h)) \o r) \o Check IN
             Sound(s) /\ IF h.armed THEN Arming(s) ELSE Reading(s)
  <2>1. IsSeq(w) /\ IsSeq(p) /\ Calm(p) /\ IsSeq(r) /\ Calm(r) /\ Sound(p) /\ Sound(r) /\ IsSeq(Check) /\ Calm(Check)
        /\ Sound(Check) /\ \E i \in DOMAIN r : Obtains(r[i])
    BY <1>1, <1>2, <1>3 DEF Plain, Reading, Sound
  <2>2. CASE h.armed
    <3>1. Waits(p \o w) /\ IsSeq(p \o w) /\ Sound(p \o w)
      BY <1>1, <2>1, CalmThenWaits, CatOf, PlainThen
    <3>2. Arming((p \o w) \o r) /\ IsSeq((p \o w) \o r) /\ Sound((p \o w) \o r)
      BY <2>1, <3>1, WaitsThen, CatOf, PlainThen
    <3>3. Arming(((p \o w) \o r) \o Check) /\ Sound(((p \o w) \o r) \o Check)
      BY <2>1, <3>2, ArmingThen, PlainThen
    <3> QED  BY <1>1, <2>2, <3>3
  <2>3. CASE ~h.armed
    <3>1. Plain(p \o <<>>)
      BY <1>3, EmptyIsPlain, PlainThen
    <3>2. Reading((p \o <<>>) \o r)
      BY <1>3, <3>1, PlainThen
    <3>3. Reading(((p \o <<>>) \o r) \o Check)
      BY <1>2, <3>2, PlainThen
    <3>4. Sound(((p \o <<>>) \o r) \o Check)
      BY <3>3 DEF Reading, Plain
    <3> QED  BY <1>1, <2>3, <3>3, <3>4
  <2> QED  BY <2>2, <2>3
<1>4. CASE c.op = "measure"
  <2> DEFINE p == SetupMeasurement(k, h, c.name, c.ch) r == MeasureSteps(k, c.name, c.ch)
  <2>1. Plain(p) /\ Reading(r)
    BY MeasureIs
  <2>2. ScopeSteps(k, h, c) = ((p \o WaitForAcquisition(k, h)) \o r) \o Check
    BY <1>4 DEF ScopeSteps, ScopeMethod
  <2> HIDE DEF p, r
  <2> QED  BY <1>3, <2>1, <2>2
<1>5. CASE c.op = "fetch"
  <2> DEFINE r == Fetch(k, c.ch)
  <2>1. Reading(r)
    BY FetchIs
  <2>2. ScopeSteps(k, h, c) = (WaitForAcquisition(k, h) \o r) \o Check
    BY <1>5 DEF ScopeSteps, ScopeMethod
  <2> HIDE DEF r
  <2>3. IsSeq(WaitForAcquisition(k, h))
    BY <1>1, EmptyIsPlain DEF Sound, Plain
  <2>4. <<>> \o WaitForAcquisition(k, h) = WaitForAcquisition(k, h)
    BY <2>3 DEF IsSeq
  <2> QED  BY <1>3, <2>1, <2>2, <2>4, EmptyIsPlain
<1> QED  BY <1>4, <1>5 DEF ReadsShot

LEMMA ChangesIs ==
  ASSUME NEW k \in Scopes, NEW h, NEW c, c.op \in EndsShot
  PROVE  Sound(ScopeSteps(k, h, c))
<1>1. \A state : Sound(Acquisition(state))
  BY PutIs DEF Acquisition
<1>2. \A at, to : Sound(Put(at, to))
  BY PutIs
<1>3. Sound(Check)
  BY CheckIs DEF Plain
<1>4. \A state : Sound(Control(k, state))
  BY <1>1, <1>2, PlainThen DEF Control, TekArm, SiglentArm
<1>5. Sound(LoadSettings(k))
  BY <1>2, PlainThen DEF LoadSettings, TekLoad
<1>6. CASE c.op \in {"run", "stop", "single"}
  BY <1>3, <1>4, <1>6, PlainThen DEF ScopeSteps, ScopeMethod
<1>7. CASE c.op = "load"
  BY <1>3, <1>5, <1>7, PlainThen DEF ScopeSteps, ScopeMethod
<1> QED  BY <1>6, <1>7 DEF EndsShot

\* The other calls of the bench, with what they may set.
Sets(c) == c.op = "set" => c.name \in {"scale", "average"}

LEMMA OneSettingIs ==
  ASSUME NEW c, Sets(c), c.op # "acq mode", c.op \in {"get", "set", "acq mode"}
  PROVE  Plain(Setting(c))
<1>1. CASE c.op = "get"
  BY <1>1, AskIs DEF Setting
<1>2. CASE c.op = "set"
  <2>1. Setting(c) = Put(<<c.name, c.ch>>, c.val)
    BY <1>2 DEF Setting
  <2>2. <<c.name, c.ch>>[1] \notin {"acquisition", "force", "recall"}
    BY <1>2 DEF Sets
  <2> QED  BY <2>1, <2>2, PutIs
<1> QED  BY <1>1, <1>2

LEMMA SettingIs ==
  ASSUME NEW k \in Scopes, NEW h, NEW c
  PROVE  Sets(c) /\ c.op \in {"get", "set", "acq mode"} => Plain(ScopeSetting(k, h, c))
<1> DEFINE One == Setting(c)
<1>1. \A mode : Plain(Mode(mode))
  BY PutIs DEF Mode
<1>2. \A x : Plain(Note("average", x)) /\ Plain(Put(<<"averaging", 0>>, x))
  BY NoteIs, PutIs
<1>3. \A x, y : Plain(One) => (Plain(Note(x, y)) => Plain(Note(x, y) \o One))
  BY PlainThen
<1>4. Sets(c) /\ c.op \in {"get", "set", "acq mode"} /\ c.op # "acq mode" => Plain(One)
  BY OneSettingIs
<1> SUFFICES ASSUME Sets(c), c.op \in {"get", "set", "acq mode"}
             PROVE  Plain(ScopeSetting(k, h, c))
  OBVIOUS
<1>5. \/ ScopeSetting(k, h, c) = Refuse
      \/ \E mode : ScopeSetting(k, h, c) = Mode(mode)
      \/ \E x : ScopeSetting(k, h, c) = Put(<<"averaging", 0>>, x)
      \/ c.op # "acq mode" /\ ScopeSetting(k, h, c) = One
      \/ c.op # "acq mode" /\ \E x : ScopeSetting(k, h, c) = Note("average", x) \o One
  <2>1. CASE k = "Keysight1200X"
    BY <2>1 DEF ScopeSetting, KeysightSetting
  <2>2. CASE k = "Tektronix2SeriesMSO"
    BY <2>2 DEF ScopeSetting, TekSetting
  <2>3. CASE k = "SiglentSDS1000XE"
    BY <2>3 DEF ScopeSetting, SiglentSetting, SiglentMode
  <2> QED  BY <2>1, <2>2, <2>3 DEF Scopes
<1> HIDE DEF One
<1> QED  BY <1>1, <1>2, <1>3, <1>4, <1>5, RefuseIs

LEMMA TriggerIs ==
  ASSUME NEW k \in Scopes, NEW h, NEW x
  PROVE  /\ Plain(TriggerSource(k, h, x)) /\ Plain(TriggerType(k, h, x))
         /\ Plain(TriggerLevel(k, h, x)) /\ Plain(TriggerSlope(k, h, x))
<1>1. \A type, source : Plain(SiglentTriggerSelect(type, source))
  BY PutIs DEF SiglentTriggerSelect
<1>2. Plain(TriggerSource(k, h, x))
  <2>1. Plain(Put(<<"select", 0>>, x))
    BY PutIs
  <2>2. Plain(Note("source", x))
    BY NoteIs
  <2> QED  BY <1>1, <2>1, <2>2, PlainThen DEF TriggerSource
<1>3. Plain(TriggerType(k, h, x))
  <2>1. Plain(Put(<<"trigger type", 0>>, x))
    BY PutIs
  <2>2. Plain(Note("type", x))
    BY NoteIs
  <2> QED  BY <1>1, <2>1, <2>2, PlainThen DEF TriggerType
<1>4. Plain(TriggerLevel(k, h, x))
  BY PutIs DEF TriggerLevel
<1>5. Plain(TriggerSlope(k, h, x))
  BY PutIs DEF TriggerSlope
<1> QED  BY <1>2, <1>3, <1>4, <1>5

LEMMA LockedRead ==
  ASSUME NEW at1, NEW to1, NEW at2, NEW to2, at1[1] \notin {"acquisition", "force", "recall"}
  PROVE  Plain(Locked(Step("put", at1, to1) \o Step("ask", at2, to2)))
<1> DEFINE s == Locked(Step("put", at1, to1) \o Step("ask", at2, to2))
<1>1. IsSeq(s) /\ DOMAIN s = 1..2 /\ s[1].do = "put" /\ s[1].at = at1 /\ s[2].do = "ask"
  BY LockedIs
<1> HIDE DEF s
<1>2. DOMAIN s = 1..2
  BY <1>1
<1>3. \A i \in DOMAIN s : i = 1 \/ i = 2
  BY <1>2
<1>4. Harmless(s[1]) /\ Harmless(s[2])
  BY <1>1 DEF Harmless
<1>5. Plain(s)
  BY <1>1, <1>3, <1>4 DEF Plain, Sound, Calm, Drained
<1> QED  BY <1>5 DEF s

LEMMA SaveIs ==
  ASSUME NEW k \in Scopes
  PROVE  Plain(SaveSettings(k))
<1>1. Plain(Put(<<"save", 0>>, 0)) /\ Plain(Put(<<"delete", 0>>, 0))
  BY PutIs
<1>2. Plain(KeysightSave)
  BY <1>1, CheckIs, AskIs, PlainThen DEF KeysightSave
<1>3. Plain(Locked(Put(<<"read file", 0>>, 0) \o Ask(<<"setup", 0>>)))
  BY LockedRead DEF Put, Ask
<1>4. Plain(TekSave)
  <2>1. Plain(Put(<<"save", 0>>, 0) \o Ask(<<"opc", 0>>) \o Check)
    BY <1>1, CheckIs, AskIs, PlainThen
  <2> QED  BY <1>1, <1>3, <2>1, PlainThen DEF TekSave
<1> QED  BY <1>2, <1>4, AskIs DEF SaveSettings, SiglentSave, Scopes

LEMMA OthersIs ==
  ASSUME NEW k \in Scopes, NEW h, NEW c, c.op \in OtherOps \ {"none"}, Sets(c)
  PROVE  /\ Sound(ScopeSteps(k, h, c)) /\ Mild(ScopeSteps(k, h, c))
         /\ c.op = "state" => AsksState(ScopeSteps(k, h, c))
<1>1. \A s : Plain(s) => Mild(s) /\ Sound(s) /\ IsSeq(s)
  BY DEF Plain, Calm, Mild, Sound
<1>4. c.op = "state" => AsksState(ScopeSteps(k, h, c))
  <2> SUFFICES ASSUME c.op = "state"  PROVE AsksState(ScopeSteps(k, h, c))
    OBVIOUS
  <2>1. ScopeSteps(k, h, c) = Ask(<<"state", 0>>) \o Check
    BY DEF ScopeSteps, ScopeMethod
  <2>2. IsSeq(Ask(<<"state", 0>>)) /\ IsSeq(Check)
    BY <1>1, AskIs, CheckIs
  <2> QED  BY <2>1, <2>2, AskIs, CheckIs, ListsThen
<1>2. CASE c.op # "force"
  <2>1. Plain(ScopeMethod(k, h, c))
    <3>1. CASE c.op \in {"get", "set", "acq mode"}
      <4>1. Plain(ScopeSetting(k, h, c))
        BY <3>1, SettingIs
      <4>2. ScopeMethod(k, h, c) = ScopeSetting(k, h, c)
        BY <3>1 DEF ScopeMethod
      <4> QED  BY <4>1, <4>2
    <3>2. CASE c.op = "state"
      BY <3>2, AskIs DEF ScopeMethod
    <3>3. CASE c.op \in {"source", "type", "level", "slope"}
      BY <3>3, TriggerIs DEF ScopeMethod
    <3>4. CASE c.op = "save"
      BY <3>4, SaveIs DEF ScopeMethod
    <3> QED  BY <1>2, <3>1, <3>2, <3>3, <3>4 DEF OtherOps
  <2>2. Plain(ScopeSteps(k, h, c))
    BY <2>1, CheckIs, PlainThen DEF ScopeSteps
  <2> QED  BY <1>1, <1>4, <2>2
<1>3. CASE c.op = "force"
  <2>1. ScopeMethod(k, h, c) = Put(<<"force", 0>>, 0)
    BY <1>3 DEF ScopeMethod
  <2>2. Sound(Put(<<"force", 0>>, 0)) /\ Mild(Put(<<"force", 0>>, 0))
    BY PutIs
  <2>3. Sound(Check) /\ Mild(Check)
    BY <1>1, CheckIs
  <2>4. Sound(ScopeSteps(k, h, c))
    BY <2>1, <2>2, <2>3, PlainThen DEF ScopeSteps
  <2>5. IsSeq(Put(<<"force", 0>>, 0)) /\ IsSeq(Check)
    BY <2>2, <2>3 DEF Sound
  <2>6. Mild(ScopeSteps(k, h, c))
    BY <2>1, <2>2, <2>3, <2>5, ListsThen DEF ScopeSteps
  <2> QED  BY <1>4, <2>4, <2>6
<1> QED  BY <1>2, <1>3, <1>4

LEMMA MuteIs ==
  ASSUME NEW k \in Scopes
  PROVE  /\ Sound(OpenSteps(k)) /\ Mute(OpenSteps(k))
         /\ Sound(CloseSteps(k)) /\ Mute(CloseSteps(k))
<1>1. \A do \in {"open", "close"} : Sound(Step(do, <<"session", 0>>, 0)) /\ Mute(Step(do, <<"session", 0>>, 0))
  <2> TAKE do \in {"open", "close"}
  <2> DEFINE s == Step(do, <<"session", 0>>, 0)
  <2>1. DOMAIN s = {1} /\ s[1].do = do
    BY StepOfOne, StepDoes
  <2>2. Sound(s)
    BY StepIs
  <2> HIDE DEF s
  <2>3. Mute(s)
    BY <2>1 DEF Mute, Harmless
  <2> QED  BY <2>2, <2>3 DEF s
<1>2. Sound(<<>>) /\ Mute(<<>>)
  BY EmptyIsPlain DEF Plain, Mute
<1>3. Sound(SiglentOpen) /\ Mute(SiglentOpen)
  <2> DEFINE a == Put(<<"headers", 0>>, 0) b == Put(<<"clear status", 0>>, 0)
  <2>1. Sound(a) /\ Mute(a) /\ Sound(b) /\ Mute(b)
    BY PutIs
  <2>2. IsSeq(a) /\ IsSeq(b)
    BY <2>1 DEF Sound
  <2> HIDE DEF a, b
  <2>3. Sound(a \o b) /\ Mute(a \o b)
    BY <2>1, <2>2, PlainThen, ListsThen
  <2> QED  BY <2>3 DEF SiglentOpen, a, b
<1>4. \A s, t : Sound(s) /\ Mute(s) /\ Sound(t) /\ Mute(t) => Sound(s \o t) /\ Mute(s \o t)
  BY PlainThen, ListsThen DEF Sound
<1>5. OpenSteps(k) = Step("open", <<"session", 0>>, 0) \o IF k = "SiglentSDS1000XE" THEN SiglentOpen ELSE <<>>
  BY DEF OpenSteps, Scopes, Loads
<1>6. CloseSteps(k) = <<>> \o Step("close", <<"session", 0>>, 0)
  BY DEF CloseSteps, Scopes
<1> QED  BY <1>1, <1>2, <1>3, <1>4, <1>5, <1>6

LEMMA StepsAre ==
  ASSUME NEW k \in Scopes, NEW h, NEW c
  PROVE  /\ c.op = "open" => Steps(k, h, c) = OpenSteps(k)
         /\ c.op = "close" => Steps(k, h, c) = CloseSteps(k)
         /\ c.op \notin {"open", "close"} => Steps(k, h, c) = ScopeSteps(k, h, c)
<1>1. k \notin Psus /\ k \notin Dmms /\ k \notin Loads /\ k # "Aardvark"
  BY DEF Scopes, Psus, Dmms, Loads
<1>2. CASE c.op = "open"
  BY <1>1, <1>2 DEF Steps
<1>3. CASE c.op = "close"
  BY <1>1, <1>3 DEF Steps
<1>4. CASE c.op \notin {"open", "close"}
  BY <1>1, <1>4 DEF Steps, MethodSteps
<1> QED  BY <1>2, <1>3, <1>4

LEMMA CallIs == \A op, name, ch, val : C(op, name, ch, val).op = op /\ C(op, name, ch, val).name = name
  BY DEF C

LEMMA KindsApart ==
  ASSUME NEW k
  PROVE  /\ k \in Psus => k \notin Dmms /\ k \notin Loads /\ k \notin Scopes /\ k # "Aardvark"
         /\ k \in Dmms => k \notin Psus /\ k \notin Loads /\ k \notin Scopes /\ k # "Aardvark"
         /\ k \in Loads => k \notin Psus /\ k \notin Dmms /\ k \notin Scopes /\ k # "Aardvark"
         /\ k \in Scopes => k \notin Psus /\ k \notin Dmms /\ k \notin Loads /\ k # "Aardvark"
         /\ k = "Aardvark" => k \notin Psus /\ k \notin Dmms /\ k \notin Loads /\ k \notin Scopes
  BY DEF Psus, Dmms, Loads, Scopes

LEMMA ScopeReadsAre ==
  ASSUME NEW k \in Scopes, NEW c \in Reads(k)
  PROVE  c.op \in {"get", "state", "fetch", "measure"}
<1>1. Reads(k) = ScopeReads
  BY KindsApart DEF Reads
<1>2. \E op \in {"get", "state", "fetch", "measure"} : \E name, ch, val : c = C(op, name, ch, val)
  BY <1>1 DEF ScopeReads
<1> QED  BY <1>2, CallIs

LEMMA ScopeWritesAre ==
  ASSUME NEW k \in Scopes, NEW c \in Writes(k)
  PROVE  /\ c.op \in {"set", "acq mode", "slope", "save", "run", "stop", "single", "force", "load",
                      "source", "type", "level"}
         /\ Sets(c)
<1> DEFINE Ops == {"acq mode", "slope", "save", "run", "stop", "single", "force", "load", "source", "type", "level"}
<1>1. Writes(k) = ScopeWrites
  BY KindsApart DEF Writes
<1>2. \/ \E name \in {"scale", "average"} : \E ch, val : c = C("set", name, ch, val)
      \/ \E op \in Ops : \E name, ch, val : c = C(op, name, ch, val)
  BY <1>1 DEF ScopeWrites
<1>3. ASSUME NEW name \in {"scale", "average"}, NEW ch, NEW val, c = C("set", name, ch, val)
      PROVE  c.op = "set" /\ c.name \in {"scale", "average"}
  BY <1>3, CallIs
<1>4. ASSUME NEW op \in Ops, NEW name, NEW ch, NEW val, c = C(op, name, ch, val)
      PROVE  c.op \in Ops
  <2> HIDE DEF Ops
  <2>1. c.op = op
    BY <1>4, CallIs
  <2> QED  BY <2>1
<1>5. (c.op = "set" /\ c.name \in {"scale", "average"}) \/ c.op \in Ops
  BY <1>2, <1>3, <1>4
<1> QED  BY <1>5 DEF Sets

LEMMA OtherCallsAre ==
  ASSUME NEW k \in Psus \cup Dmms \cup Loads \cup {"Aardvark"}, NEW c \in Reads(k) \cup Writes(k) \cup Statuses(k)
  PROVE  c.op \notin ReadsShot
<1> DEFINE Ops == {"status", "get", "set", "read", "function", "range", "mode", "level", "short", "output", "query", "reset"}
<1>1. c \in {C("status", "none", 0, 0)} \cup PsuReads \cup PsuWrites \cup DmmReads \cup DmmWrites
              \cup LoadReads \cup LoadWrites \cup I2CReads \cup I2CWrites
  <2>1. /\ k \in Psus => Reads(k) = PsuReads /\ Writes(k) = PsuWrites
        /\ k \in Dmms => Reads(k) = DmmReads /\ Writes(k) = DmmWrites
        /\ k \in Loads => Reads(k) = LoadReads /\ Writes(k) = LoadWrites
        /\ k = "Aardvark" => Reads(k) = I2CReads /\ Writes(k) = I2CWrites
    BY KindsApart DEF Reads, Writes
  <2>2. Statuses(k) \subseteq {C("status", "none", 0, 0)}
    BY DEF Statuses
  <2> QED  BY <2>1, <2>2
<1>2. \E op \in Ops : \E name, ch, val : c = C(op, name, ch, val)
  <2>1. CASE c \in {C("status", "none", 0, 0)} \cup PsuReads \cup PsuWrites
    BY <2>1 DEF PsuReads, PsuWrites
  <2>2. CASE c \in DmmReads \cup DmmWrites
    BY <2>2 DEF DmmReads, DmmWrites
  <2>3. CASE c \in LoadReads \cup LoadWrites
    BY <2>3 DEF LoadReads, LoadWrites
  <2>4. CASE c \in I2CReads \cup I2CWrites
    BY <2>4 DEF I2CReads, I2CWrites
  <2> QED  BY <1>1, <2>1, <2>2, <2>3, <2>4
<1>3. c.op \in Ops
  BY <1>2, CallIs
<1> QED  BY <1>3 DEF ReadsShot

LEMMA CallsAre ==
  ASSUME NEW t \in Threads, NEW c \in Calls(t)
  PROVE  /\ kind \in Scopes =>
              /\ c.op \in (Unlocked \cup EndsShot \cup ReadsShot \cup OtherOps) \ {"none"}
              /\ Sets(c)
         /\ kind \in Psus \cup Dmms \cup Loads \cup {"Aardvark"} => c.op \notin ReadsShot
<1>1. c \in Reads(kind) \cup Writes(kind) \cup Statuses(kind)
        \/ c = C("open", "none", 0, 0) \/ c = C("close", "none", 0, 0)
  BY DEF Calls
<1>2. CASE c = C("open", "none", 0, 0) \/ c = C("close", "none", 0, 0)
  <2>1. c.op \in {"open", "close"}
    BY <1>2, CallIs
  <2> QED  BY <2>1 DEF Unlocked, EndsShot, ReadsShot, OtherOps, Sets
<1>3. CASE c \in Reads(kind) \cup Writes(kind) \cup Statuses(kind)
  <2>1. kind \in Psus \cup Dmms \cup Loads \cup {"Aardvark"} => c.op \notin ReadsShot
    BY <1>3, OtherCallsAre
  <2>2. ASSUME kind \in Scopes
        PROVE  c.op \in (Unlocked \cup EndsShot \cup ReadsShot \cup OtherOps) \ {"none"} /\ Sets(c)
    <3>1. Statuses(kind) = {}
      BY <2>2 DEF Statuses, Scopes
    <3>2. CASE c \in Reads(kind)
      <4>1. c.op \in {"get", "state", "fetch", "measure"}
        BY <2>2, <3>2, ScopeReadsAre
      <4> QED  BY <4>1 DEF Unlocked, EndsShot, ReadsShot, OtherOps, Sets
    <3>3. CASE c \in Writes(kind)
      <4>1. /\ c.op \in {"set", "acq mode", "slope", "save", "run", "stop", "single", "force", "load",
                         "source", "type", "level"}
            /\ Sets(c)
        BY <2>2, <3>3, ScopeWritesAre
      <4> QED  BY <4>1 DEF Unlocked, EndsShot, ReadsShot, OtherOps
    <3> QED  BY <1>3, <3>1, <3>2, <3>3
  <2> QED  BY <2>1, <2>2
<1> QED  BY <1>1, <1>2, <1>3
----------------------------------------------------------------------------
(* Steps of a call to a scope *)

\* Nothing changes that an acquisition depends on.
Same == /\ dev'.acq = dev.acq /\ dev'.fresh = dev.fresh
        /\ host'.armed = host.armed /\ host'.stamp = host.stamp

Whole == {"acq", "fresh"} \subseteq DOMAIN dev /\ {"armed", "stamp"} \subseteq DOMAIN host

Others(t) == DOMAIN call' = Threads /\ \A u \in Threads \ {t} : call'[u] = call[u]

\* A call that may do as it likes: nothing is promised.
Free(t) == Active(t) /\ call[t].c.op \in EndsShot \cup ReadsShot /\ ~Promised(t)

\* The call of t takes its next step and goes on.
Goes(t) ==
  LET m == call[t].todo[1] IN
  /\ Others(t) /\ owner' = owner /\ due' = due
  /\ {"c", "phase", "todo", "got", "due", "fresh"} \subseteq DOMAIN call'[t]
  /\ call'[t].c = call[t].c /\ call'[t].phase = call[t].phase /\ call'[t].due = call[t].due
  /\ call'[t].todo = Tail(call[t].todo)
  /\ Obtains(m) => call'[t].fresh = dev.fresh
  /\ ~Obtains(m) => call'[t].fresh = call[t].fresh /\ call'[t].got = call[t].got

\* The call of t raises.
Falls(t) ==
  /\ Others(t) /\ call'[t] = Idle /\ due' = due /\ host' = host
  /\ owner' = IF owner = t THEN None ELSE owner

LEMMA OthersStay ==
  ASSUME NEW t \in Threads, ShapeInv, TurnInv, CallsInv, FetchInv, Others(t),
         Active(t) \/ (Same /\ (due' => due)), NEW u \in Threads \ {t}
  PROVE  /\ Formed(u)' /\ Behaves(u)' /\ Fetches(u)'
         /\ Busy(u)' = Busy(u) /\ Active(u)' = Active(u)
<1>1. call'[u] = call[u]
  BY DEF Others
<1>2. Formed(u)'
  BY <1>1 DEF ShapeInv, Formed
<1>3. Busy(u)' = Busy(u) /\ Active(u)' = Active(u) /\ Promised(u)' = Promised(u)
  BY <1>1 DEF Busy, Active, Promised
<1>4. CASE Active(t)
  <2>1. ~Active(u)
    BY <1>4 DEF TurnInv
  <2>2. Behaves(u)'
    BY <1>1, <1>3, <2>1 DEF Behaves, CallsInv
  <2>3. Fetches(u)'
    BY <1>3, <2>1 DEF Fetches, Promised
  <2> QED  BY <1>2, <1>3, <2>2, <2>3
<1>5. CASE Same /\ (due' => due)
  <2>1. Behaves(u)'
    BY <1>1, <1>3, <1>5 DEF Behaves, CallsInv, Same
  <2>2. Recorded' = Recorded
    BY <1>5 DEF Recorded, Same
  <2>3. Fetches(u)'
    BY <1>1, <1>3, <1>5, <2>2 DEF Fetches, FetchInv, Same
  <2> QED  BY <1>2, <1>3, <2>1, <2>3
<1> QED  BY <1>4, <1>5

\* What the next step of a call can be, and what it is then about.
LEMMA NextStep ==
  ASSUME NEW t \in Threads, ScopeInv, Busy(t), call[t].todo # <<>>
  PROVE  LET m == call[t].todo[1] r == Tail(call[t].todo) IN
         \/ Harmless(m) /\ (~Active(t) => m.do \in {"put", "open", "close"})
         \/ Free(t)
         \/ Active(t) /\ call[t].c.op \in OtherOps \ {"state"} /\ m.do = "put" /\ m.at = <<"force", 0>>
         \/ Promised(t) /\ host.armed /\ Arms(m) /\ Awaiting(r)
         \/ /\ Promised(t) /\ host.armed /\ m.do = "await" /\ Acquiring(r)
            /\ dev.acq = "armed" \/ (dev.acq = "stopped" /\ dev.fresh)
         \/ /\ Promised(t) /\ host.armed /\ Acquires(m) /\ dev.acq = "stopped" /\ dev.fresh
            /\ Calm(r) /\ \E i \in DOMAIN r : Obtains(r[i])
<1> DEFINE s == call[t].todo m == s[1] r == Tail(s)
<1>1. Formed(t) /\ Behaves(t) /\ Fetches(t)
  BY DEF ScopeInv, ShapeInv, CallsInv, FetchInv
<1>2. IsSeq(s) /\ s # <<>>
  BY <1>1 DEF Formed, Sound
<1>3. call[t].phase = "busy" /\ call[t].c.op \in Unlocked \cup EndsShot \cup ReadsShot \cup OtherOps
  BY <1>1 DEF Formed, Busy
<1>4. CASE call[t].c.op \in Unlocked
  <2>1. Mute(s)
    BY <1>1, <1>4 DEF Behaves
  <2> HIDE DEF s
  <2>2. Harmless(m) /\ m.do \in {"put", "open", "close"}
    BY <1>2, <2>1, RestOf
  <2> QED  BY <2>2 DEF s
<1>5. CASE call[t].c.op \notin Unlocked /\ call[t].c.op \in OtherOps
  <2>1. Active(t)
    BY <1>3, <1>5 DEF Active
  <2>2. Mild(s) /\ (call[t].c.op = "state" => AsksState(s))
    BY <1>1, <1>5, <2>1 DEF Behaves
  <2> HIDE DEF s
  <2>3. Harmless(m) \/ (m.do = "put" /\ m.at = <<"force", 0>>)
    BY <1>2, <2>2, RestOf
  <2>4. call[t].c.op = "state" => m.do # "put"
    BY <1>2, <2>2, RestOf
  <2> QED  BY <1>5, <2>1, <2>3, <2>4 DEF s
<1>6. CASE call[t].c.op \notin Unlocked /\ call[t].c.op \in EndsShot \cup ReadsShot /\ ~Promised(t)
  BY <1>3, <1>6 DEF Free, Active
<1>7. CASE Promised(t)
  <2>1. Active(t)
    BY <1>7 DEF Promised
  <2>2. \/ host.armed /\ Arming(s)
        \/ host.armed /\ Awaiting(s) /\ (dev.acq = "armed" \/ (dev.acq = "stopped" /\ dev.fresh))
        \/ host.armed /\ Acquiring(s) /\ dev.acq = "stopped" /\ dev.fresh
        \/ Calm(s)
    BY <1>1, <1>7 DEF Fetches
  <2> HIDE DEF s
  <2>3. Arming(s) => (Harmless(m) /\ Arming(r)) \/ (Arms(m) /\ Awaiting(r))
    BY <1>2, RestOf
  <2>4. Awaiting(s) => (Harmless(m) /\ Awaiting(r)) \/ (m.do = "await" /\ Acquiring(r))
    BY <1>2, RestOf
  <2>5. Acquiring(s) => Acquires(m) /\ Calm(r) /\ \E i \in DOMAIN r : Obtains(r[i])
    BY <1>2, RestOf
  <2>6. Calm(s) => Harmless(m)
    BY <1>2, RestOf
  <2> HIDE DEF m, r
  <2> QED  BY <1>7, <2>1, <2>2, <2>3, <2>4, <2>5, <2>6 DEF s, m, r
<1> QED  BY <1>3, <1>4, <1>5, <1>6, <1>7

LEMMA GoesKeeps ==
  ASSUME NEW t \in Threads, ScopeInv, Busy(t), call[t].todo # <<>>, Goes(t), Whole',
         Active(t) \/ Same, Fetches(t)', PromiseInv', LineInv',
         Active(t) /\ call[t].c.op = "state" => (call'[t].got[1] = "stopped" => dev'.acq = "stopped")
  PROVE  ScopeInv'
<1> USE DEF ScopeInv
<1>1. Others(t) /\ (due' <=> due) /\ owner' = owner
  BY DEF Goes
<1>2. Formed(t) /\ Behaves(t)
  BY DEF ShapeInv, CallsInv
<1>3. \A u \in Threads \ {t} : /\ Formed(u)' /\ Behaves(u)' /\ Fetches(u)'
                               /\ Busy(u)' = Busy(u) /\ Active(u)' = Active(u)
  BY <1>1, OthersStay
<1>4. Busy(t)' = Busy(t) /\ Active(t)' = Active(t)
  BY DEF Goes, Busy, Active
<1> DEFINE s == call[t].todo r == Tail(s)
<1>5. IsSeq(s) /\ Drained(s)
  BY <1>2 DEF Formed, Sound
<1>6. /\ IsSeq(r) /\ Drained(r)
      /\ Mild(s) => Mild(r)
      /\ AsksState(s) => AsksState(r)
      /\ Mute(s) => Mute(r)
  <2>1. s # <<>>
    OBVIOUS
  <2> HIDE DEF s
  <2> QED  BY <1>5, <2>1, RestOf, TailOf
<1>7. call'[t].todo = r
  BY DEF Goes
<1>8. Formed(t)'
  <2>1. Sound(call'[t].todo)
    BY <1>6, <1>7 DEF Sound
  <2>2. /\ {"c", "phase", "todo", "got", "due", "fresh"} \subseteq DOMAIN call'[t]
        /\ call'[t].c = call[t].c /\ call'[t].phase = call[t].phase /\ call[t].phase = "busy"
    BY DEF Goes, Busy
  <2> QED  BY <1>2, <2>1, <2>2 DEF Formed
<1>9. Behaves(t)'
  <2>1. call'[t].c = call[t].c /\ call'[t].due = call[t].due
    BY DEF Goes
  <2> HIDE DEF s, r
  <2> QED  BY <1>1, <1>2, <1>4, <1>6, <1>7, <2>1 DEF Behaves, s
<1>10. ShapeInv' /\ CallsInv' /\ FetchInv'
  BY <1>1, <1>3, <1>8, <1>9 DEF ShapeInv, CallsInv, FetchInv, Others, Whole
<1>11. TurnInv'
  BY <1>1, <1>3, <1>4 DEF TurnInv
<1> QED  BY <1>10, <1>11

LEMMA FallsKeeps ==
  ASSUME NEW t \in Threads, ScopeInv, Busy(t), Falls(t), Whole',
         Active(t) \/ (dev'.acq = dev.acq /\ dev'.fresh = dev.fresh), PromiseInv', LineInv'
  PROVE  ScopeInv'
<1> USE DEF ScopeInv
<1>1. Others(t) /\ (due' <=> due) /\ (Active(t) \/ Same)
  BY DEF Falls, Same
<1>2. \A u \in Threads \ {t} : /\ Formed(u)' /\ Behaves(u)' /\ Fetches(u)'
                               /\ Busy(u)' = Busy(u) /\ Active(u)' = Active(u)
  BY <1>1, OthersStay
<1>3. /\ {"c", "phase", "todo", "got", "due", "fresh"} \subseteq DOMAIN call'[t]
      /\ call'[t].phase = "idle" /\ call'[t].c.op = "none" /\ call'[t].todo = <<>>
  BY DEF Falls, Idle, NoCall, C
<1>4. ~Busy(t)' /\ ~Active(t)'
  BY <1>3 DEF Busy, Active
<1>5. Formed(t)'
  <2>1. Sound(<<>>)
    BY EmptyIsPlain DEF Plain
  <2> QED  BY <1>3, <2>1 DEF Formed, OtherOps
<1>6. Behaves(t)' /\ Fetches(t)'
  BY <1>4 DEF Behaves, Fetches, Promised
<1>7. ShapeInv' /\ CallsInv' /\ FetchInv'
  BY <1>1, <1>2, <1>5, <1>6 DEF ShapeInv, CallsInv, FetchInv, Others, Whole
<1>8. TurnInv'
  <2>1. owner' = IF owner = t THEN None ELSE owner
    BY DEF Falls
  <2>2. None \notin Threads
    BY BenchAssumption
  <2>3. \A u \in Threads : owner' = u <=> Busy(u)' /\ Active(u)'
    BY <1>2, <1>4, <2>1, <2>2 DEF TurnInv
  <2>4. \A u, v \in Threads : Active(u)' /\ Active(v)' => u = v
    BY <1>2, <1>4 DEF TurnInv
  <2> QED  BY <2>3, <2>4 DEF TurnInv
<1> QED  BY <1>7, <1>8

\* What a step of t leaves in the line is no answer, unless it is drained next.
LEMMA LineStays ==
  ASSUME NEW t \in Threads, LineInv, Others(t), line' = line \/ line' = <<>>,
         Busy(t) /\ call[t].todo # <<>> => call[t].todo[1].do # "drain"
  PROVE  LineInv'
<1> SUFFICES ASSUME line' # <<>>  PROVE Tail(line') = <<>> /\ \E u \in Threads : Drains(u)'
  BY DEF LineInv
<1>1. line' = line /\ Tail(line) = <<>>
  BY DEF LineInv
<1>2. PICK u \in Threads : Drains(u)
  BY <1>1 DEF LineInv
<1>3. call'[u] = call[u]
  BY <1>2 DEF Drains, Others
<1>4. Drains(u)'
  BY <1>2, <1>3 DEF Drains, Busy, Active
<1> QED  BY <1>1, <1>4

\* Nobody asks while there is something in the line.
LEMMA LineIsEmpty ==
  ASSUME NEW t \in Threads, ScopeInv, Busy(t), call[t].todo # <<>>,
         call[t].todo[1].do \notin {"put", "open", "close", "drain"}
  PROVE  Active(t) /\ line = <<>>
<1>1. Active(t)
  <2>1. CASE Free(t) \/ Promised(t)
    BY <2>1 DEF Free, Promised
  <2> QED  BY <2>1, NextStep
<1>2. ASSUME NEW u \in Threads, Drains(u)  PROVE FALSE
  BY <1>1, <1>2 DEF Drains, ScopeInv, TurnInv
<1> QED  BY <1>1, <1>2 DEF ScopeInv, LineInv

\* What a command does to the acquisition.
LEMMA AcceptedIs ==
  ASSUME NEW d, NEW m, {"acq", "fresh"} \subseteq DOMAIN d
  PROVE  LET x == Accepted(d, m) IN
         /\ {"acq", "fresh"} \subseteq DOMAIN x
         /\ m.at[1] \notin {"acquisition", "force", "recall"} => x.acq = d.acq /\ x.fresh = d.fresh
         /\ m.at = <<"acquisition", 0>> => x.acq = m.to
         /\ m.at = <<"force", 0>> => /\ x.acq = IF d.acq = "armed" THEN "stopped" ELSE d.acq
                                     /\ x.fresh = (d.fresh \/ d.acq # "stopped")
<1> DEFINE x == Accepted(d, m) at == Addressed(d, m.at)
<1>1. at[1] = m.at[1]
  BY DEF Addressed
<1> HIDE DEF at
<1>2. x = CASE at[1] = "select" -> [d EXCEPT !.sel = m.to]
            [] at[1] = "function" -> [d EXCEPT !.func = m.to]
            [] at[1] = "averaging" -> [d EXCEPT !.reg[<<"acq mode", 0>>] = "AVERAGE",
                                                !.reg[<<"average", 0>>] = m.to]
            [] at[1] = "trigger type" -> [d EXCEPT !.trig = m.to]
            [] at[1] = "trigger" -> [d EXCEPT !.trig = m.to[1], !.sel = m.to[2]]
            [] at[1] = "acquisition" -> [d EXCEPT !.acq = m.to, !.fresh = @ /\ m.to # "armed"]
            [] at[1] = "force" -> [d EXCEPT !.acq = IF @ = "armed" THEN "stopped" ELSE @,
                                            !.fresh = @ \/ d.acq # "stopped"]
            [] at[1] = "wave source" -> [d EXCEPT !.wave = m.to]
            [] at[1] = "add slot" -> [d EXCEPT !.slots = Append(@, <<m.to, 1>>)]
            [] at[1] = "slot source" -> [d EXCEPT !.slots[Len(d.slots)][2] = m.to]
            [] at[1] = "recall" -> DevInit(kind)
            [] OTHER -> IF at \in DOMAIN d.reg THEN [d EXCEPT !.reg[at] = m.to] ELSE d
  BY DEF Accepted, at
<1> HIDE DEF x
<1>7. /\ m.at = <<"acquisition", 0>> => m.at[1] = "acquisition"
      /\ m.at = <<"force", 0>> => m.at[1] = "force"
  OBVIOUS
<1>3. CASE at[1] = "recall"
  <2>1. x = DevInit(kind)
    BY <1>2, <1>3
  <2>2. {"acq", "fresh"} \subseteq DOMAIN x
    BY <2>1 DEF DevInit
  <2> QED  BY <1>1, <1>3, <1>7, <2>2 DEF x
<1>4. CASE at[1] = "acquisition"
  <2>1. x = [d EXCEPT !.acq = m.to, !.fresh = @ /\ m.to # "armed"]
    BY <1>2, <1>4
  <2>2. {"acq", "fresh"} \subseteq DOMAIN x /\ x.acq = m.to
    BY <2>1
  <2> QED  BY <1>1, <1>4, <1>7, <2>2 DEF x
<1>5. CASE at[1] = "force"
  <2>1. x = [d EXCEPT !.acq = IF @ = "armed" THEN "stopped" ELSE @, !.fresh = @ \/ d.acq # "stopped"]
    BY <1>2, <1>5
  <2>2. /\ {"acq", "fresh"} \subseteq DOMAIN x
        /\ x.acq = IF d.acq = "armed" THEN "stopped" ELSE d.acq
        /\ x.fresh = (d.fresh \/ d.acq # "stopped")
    BY <2>1
  <2> QED  BY <1>1, <1>5, <1>7, <2>2 DEF x
<1>6. CASE at[1] \notin {"acquisition", "force", "recall"}
  <2> DEFINE Keeps(y) == {"acq", "fresh"} \subseteq DOMAIN y /\ y.acq = d.acq /\ y.fresh = d.fresh
  <2>1. /\ Keeps(d)
        /\ \A f : /\ Keeps([d EXCEPT !.sel = f]) /\ Keeps([d EXCEPT !.func = f]) /\ Keeps([d EXCEPT !.reg = f])
                  /\ Keeps([d EXCEPT !.trig = f]) /\ Keeps([d EXCEPT !.wave = f]) /\ Keeps([d EXCEPT !.slots = f])
        /\ \A f, g : Keeps([d EXCEPT !.trig = f, !.sel = g])
    OBVIOUS
  <2> SUFFICES Keeps(x)
    BY <1>1, <1>6, <1>7 DEF x
  <2> HIDE DEF Keeps
  <2>2. CASE at[1] = "select"
    <3>1. x = [d EXCEPT !.sel = m.to]
      BY <1>2, <2>2
    <3> QED  BY <2>1, <3>1
  <2>3. CASE at[1] = "function"
    BY <1>2, <2>1, <2>3
  <2>4. CASE at[1] = "averaging"
    <3>1. \E f : x = [d EXCEPT !.reg = f]
      BY <1>2, <2>4
    <3> QED  BY <2>1, <3>1
  <2>5. CASE at[1] = "trigger type"
    BY <1>2, <2>1, <2>5
  <2>6. CASE at[1] = "trigger"
    BY <1>2, <2>1, <2>6
  <2>7. CASE at[1] = "wave source"
    BY <1>2, <2>1, <2>7
  <2>8. CASE at[1] = "add slot"
    BY <1>2, <2>1, <2>8
  <2>9. CASE at[1] = "slot source"
    <3>1. \E f : x = [d EXCEPT !.slots = f]
      BY <1>2, <2>9
    <3> QED  BY <2>1, <3>1
  <2>10. CASE at[1] \notin {"select", "function", "averaging", "trigger type", "trigger", "wave source",
                            "add slot", "slot source"}
    <3>1. x = IF at \in DOMAIN d.reg THEN [d EXCEPT !.reg[at] = m.to] ELSE d
      BY <1>2, <1>6, <2>10
    <3> QED  BY <2>1, <3>1
  <2> QED  BY <2>2, <2>3, <2>4, <2>5, <2>6, <2>7, <2>8, <2>9, <2>10
<1> QED  BY <1>3, <1>4, <1>5, <1>6

\* The two ways to go on.
LEMMA AdvanceGoes ==
  ASSUME NEW t \in Threads, ScopeInv, ~Obtains(call[t].todo[1]),
         call' = [call EXCEPT ![t].todo = Tail(@)], owner' = owner, due' = due
  PROVE  Goes(t)
<1>1. DOMAIN call = Threads /\ {"c", "phase", "todo", "got", "due", "fresh"} \subseteq DOMAIN call[t]
  BY DEF ScopeInv, ShapeInv, Formed
<1> QED  BY <1>1 DEF Goes, Others

LEMMA AdvanceWithGoes ==
  ASSUME NEW t \in Threads, NEW got, ScopeInv, Obtains(call[t].todo[1]),
         call' = [call EXCEPT ![t].todo = Tail(@), ![t].got = got, ![t].fresh = dev.fresh],
         owner' = owner, due' = due
  PROVE  Goes(t) /\ call'[t].got = got
<1>1. DOMAIN call = Threads /\ {"c", "phase", "todo", "got", "due", "fresh"} \subseteq DOMAIN call[t]
  BY DEF ScopeInv, ShapeInv, Formed
<1> QED  BY <1>1 DEF Goes, Others

LEMMA RaisesFalls ==
  ASSUME NEW t \in Threads, ScopeInv, Raises(t), ~adrift'
  PROVE  Falls(t) /\ (line' = line \/ line' = <<>>)
<1>1. DOMAIN call = Threads
  BY DEF ScopeInv, ShapeInv
<1>2. line' = line \/ line' = <<>>
  BY DEF Raises, LateAnswer
<1> QED  BY <1>1, <1>2 DEF Raises, Falls, Others

\* A step that raises and leaves the acquisition as it is.
LEMMA FallingStep ==
  ASSUME NEW t \in Threads, ScopeInv, Busy(t), call[t].todo # <<>>, call[t].todo[1].do # "drain",
         Raises(t), ~adrift', {"acq", "fresh"} \subseteq DOMAIN dev',
         dev'.acq = dev.acq, dev'.fresh = dev.fresh
  PROVE  ScopeInv'
<1>1. Falls(t) /\ (line' = line \/ line' = <<>>)
  BY RaisesFalls
<1>2. Others(t) /\ due' = due /\ host' = host
  BY <1>1 DEF Falls
<1>3. LineInv'
  BY <1>1, <1>2, LineStays DEF ScopeInv
<1>4. Whole' /\ PromiseInv'
  BY <1>2 DEF ScopeInv, ShapeInv, PromiseInv, Recorded, Whole
<1> QED  BY <1>1, <1>3, <1>4, FallsKeeps

\* A step that goes on and leaves the acquisition as it is.
LEMMA HarmlessStep ==
  ASSUME NEW t \in Threads, ScopeInv, Busy(t), call[t].todo # <<>>, Harmless(call[t].todo[1]),
         Goes(t), Same, Whole', LineInv',
         Active(t) /\ call[t].c.op = "state" => (call'[t].got[1] = "stopped" => dev'.acq = "stopped")
  PROVE  ScopeInv'
<1> DEFINE s == call[t].todo m == s[1] r == Tail(s)
<1>1. Formed(t) /\ Fetches(t)
  BY DEF ScopeInv, ShapeInv, FetchInv
<1>2. IsSeq(s) /\ s # <<>>
  BY <1>1 DEF Formed, Sound
<1>3. /\ call'[t].todo = r /\ (Promised(t)' <=> Promised(t)) /\ (due' <=> due)
      /\ call'[t].fresh = IF Obtains(m) THEN dev.fresh ELSE call[t].fresh
  BY DEF Goes, Promised, Active
<1>4. (Recorded' <=> Recorded) /\ dev'.acq = dev.acq /\ dev'.fresh = dev.fresh /\ host'.armed = host.armed
  BY DEF Same, Recorded
<1>5. PromiseInv'
  BY <1>3, <1>4 DEF ScopeInv, PromiseInv
<1>6. Fetches(t)'
  <2> SUFFICES ASSUME Promised(t)
               PROVE  \/ host.armed /\ Arming(r)
                      \/ host.armed /\ Awaiting(r) /\ (dev.acq = "armed" \/ (dev.acq = "stopped" /\ dev.fresh))
                      \/ host.armed /\ Acquiring(r) /\ dev.acq = "stopped" /\ dev.fresh
                      \/ Recorded /\ Calm(r) /\ (call'[t].fresh \/ \E i \in DOMAIN r : Obtains(r[i]))
    BY <1>3, <1>4 DEF Fetches
  <2>1. \/ host.armed /\ Arming(s)
        \/ host.armed /\ Awaiting(s) /\ (dev.acq = "armed" \/ (dev.acq = "stopped" /\ dev.fresh))
        \/ host.armed /\ Acquiring(s) /\ dev.acq = "stopped" /\ dev.fresh
        \/ Recorded /\ Calm(s) /\ (call[t].fresh \/ \E i \in DOMAIN s : Obtains(s[i]))
    BY <1>1 DEF Fetches
  <2>2. Harmless(m) /\ ~Arms(m) /\ ~Acquires(m) /\ m.do # "await"
    BY DEF Harmless, Arms, Acquires
  <2> HIDE DEF s
  <2>3. Arming(s) => (Harmless(m) /\ Arming(r)) \/ (Arms(m) /\ Awaiting(r))
    BY <1>2, RestOf
  <2>4. Awaiting(s) => (Harmless(m) /\ Awaiting(r)) \/ (m.do = "await" /\ Acquiring(r))
    BY <1>2, RestOf
  <2>5. Acquiring(s) => Acquires(m)
    BY <1>2, RestOf
  <2>6. /\ Calm(s) => Calm(r)
        /\ (\E i \in DOMAIN s : Obtains(s[i])) => Obtains(m) \/ \E i \in DOMAIN r : Obtains(r[i])
    BY <1>2, RestOf
  <2>7. Recorded => dev.fresh
    BY DEF Recorded
  <2> HIDE DEF m, r
  <2> QED  BY <1>3, <2>1, <2>2, <2>3, <2>4, <2>5, <2>6, <2>7
<1> QED  BY <1>5, <1>6, GoesKeeps

\* A step of a call that may do as it likes.
LEMMA FreeStep ==
  ASSUME NEW t \in Threads, ScopeInv, Busy(t), call[t].todo # <<>>, Free(t), Goes(t), Whole', LineInv'
  PROVE  ScopeInv'
<1>1. (Promised(t)' <=> Promised(t)) /\ (due' <=> due)
  BY DEF Goes, Promised, Active
<1>2. ~Promised(t) /\ Active(t) /\ call[t].c.op # "state" /\ ~due
  BY DEF Free, Promised, ScopeInv, CallsInv, Behaves, EndsShot, ReadsShot
<1>3. Fetches(t)' /\ PromiseInv'
  BY <1>1, <1>2 DEF Fetches, PromiseInv
<1> QED  BY <1>2, <1>3, GoesKeeps

LEMMA OneAnswer ==
  ASSUME NEW x, NEW y
  PROVE  /\ Tail(Append(<<>>, x)) = <<>> /\ Head(Append(<<>>, x)) = x
         /\ Append(Tail(Append(<<>>, x)), y) = <<y>> /\ Tail(<<y>>) = <<>> /\ <<y>> # <<>>
<1>1. <<>> \in Seq({x, y})
  OBVIOUS
<1>2. Append(<<>>, x) = <<x>>
  BY <1>1
<1>3. Tail(<<x>>) = <<>> /\ Head(<<x>>) = x /\ Append(<<>>, y) = <<y>> /\ Tail(<<y>>) = <<>>
  BY <1>1
<1> QED  BY <1>2, <1>3

LEMMA AtStep ==
  ASSUME NEW t \in Threads, NEW do, ScopeInv, At(t, do)
  PROVE  /\ Busy(t) /\ call[t].todo # <<>> /\ call[t].todo[1].do = do
         /\ Head1(t) = call[t].todo[1]
<1>1. IsSeq(call[t].todo)
  BY DEF ScopeInv, ShapeInv, Formed, Sound
<1>2. Busy(t) /\ call[t].todo # <<>> /\ Head1(t).do = do
  BY DEF At, Busy
<1>3. Head1(t) = call[t].todo[1]
  BY <1>1, <1>2, TailOf DEF Head1
<1> QED  BY <1>2, <1>3

\* get_acquisition_state() has found the scope stopped only if it is.
LEMMA GotStays ==
  ASSUME NEW t \in Threads, ScopeInv, Goes(t), ~Obtains(call[t].todo[1]), dev'.acq = dev.acq
  PROVE  Active(t) /\ call[t].c.op = "state" => (call'[t].got[1] = "stopped" => dev'.acq = "stopped")
  BY DEF ScopeInv, CallsInv, Behaves, Goes

LEMMA WritesKeep ==
  ASSUME NEW t \in Threads, kind \in Scopes, ScopeInv, PutStep(t), ~adrift'
  PROVE  ScopeInv'
<1> DEFINE m == call[t].todo[1] r == Tail(call[t].todo)
<1>1. Busy(t) /\ call[t].todo # <<>> /\ m.do = "put" /\ Head1(t) = m
  BY AtStep DEF PutStep
<1>2. Whole /\ ~Obtains(m)
  BY <1>1 DEF ScopeInv, ShapeInv, Whole, Obtains
<1>3. ASSUME Advance(t), UNCHANGED <<session, line>>
      PROVE  Goes(t) /\ LineInv'
  <2>1. Goes(t)
    BY <1>2, <1>3, AdvanceGoes DEF Advance
  <2>2. Others(t) /\ line' = line
    BY <1>3, <2>1 DEF Goes
  <2>3. LineInv'
    BY <1>1, <2>2, LineStays DEF ScopeInv
  <2> QED  BY <2>1, <2>3
<1>4. \/ Harmless(m)
      \/ Free(t)
      \/ Active(t) /\ call[t].c.op \in OtherOps \ {"state"} /\ m.at = <<"force", 0>>
      \/ Promised(t) /\ host.armed /\ Arms(m) /\ Awaiting(r)
  <2> HIDE DEF m, r
  <2>1. m.do # "await" /\ ~Acquires(m)
    BY <1>1 DEF Acquires
  <2> QED  BY <1>1, <2>1, NextStep DEF m, r
<1>5. CASE Written(t, m)
  <2>1. Goes(t) /\ LineInv'
    BY <1>3, <1>5 DEF Written
  <2>2. dev' = Accepted(dev, m) /\ host' = IF m.at[1] = "force" /\ dev.acq # "stopped" THEN Outdated(host) ELSE host
    BY <1>5 DEF Written
  <2> HIDE DEF m, r
  <2>3. /\ {"acq", "fresh"} \subseteq DOMAIN dev'
        /\ m.at[1] \notin {"acquisition", "force", "recall"} => dev'.acq = dev.acq /\ dev'.fresh = dev.fresh
        /\ m.at = <<"acquisition", 0>> => dev'.acq = m.to
        /\ m.at = <<"force", 0>> => /\ dev'.acq = IF dev.acq = "armed" THEN "stopped" ELSE dev.acq
                                    /\ dev'.fresh = (dev.fresh \/ dev.acq # "stopped")
    BY <1>2, <2>2, AcceptedIs DEF Whole
  <2>4. /\ {"armed", "stamp"} \subseteq DOMAIN host' /\ host'.armed = host.armed
        /\ dev.acq = "stopped" \/ m.at[1] # "force" => host'.stamp = host.stamp
    BY <1>2, <2>2 DEF Outdated, Whole
  <2>5. Whole'
    BY <2>3, <2>4 DEF Whole
  <2>6. CASE Harmless(m)
    <3>1. m.at[1] \notin {"acquisition", "force", "recall"}
      BY <1>1, <2>6 DEF Harmless, m
    <3>2. Same
      BY <2>3, <2>4, <3>1 DEF Same
    <3>3. Active(t) /\ call[t].c.op = "state" => (call'[t].got[1] = "stopped" => dev'.acq = "stopped")
      BY <1>2, <2>1, <3>2, GotStays DEF Same, m
    <3> QED  BY <1>1, <2>1, <2>5, <2>6, <3>2, <3>3, HarmlessStep DEF m
  <2>7. CASE Free(t)
    BY <1>1, <2>1, <2>5, <2>7, FreeStep
  <2>8. CASE Active(t) /\ call[t].c.op \in OtherOps \ {"state"} /\ m.at = <<"force", 0>>
    <3>1. call[t].c.op \notin ReadsShot
      BY <2>8 DEF OtherOps, ReadsShot
    <3>2. Fetches(t)'
      BY <2>1, <3>1 DEF Fetches, Promised, Goes
    <3>3. dev.acq = "stopped" /\ dev.fresh => dev'.acq = "stopped" /\ dev'.fresh
      BY <2>3, <2>8
    <3>4. due' = due
      BY <2>1 DEF Goes
    <3>5. Recorded => Recorded'
      BY <2>4, <3>3 DEF Recorded
    <3>6. PromiseInv'
      BY <2>4, <3>4, <3>5 DEF PromiseInv, ScopeInv
    <3> QED  BY <1>1, <2>1, <2>5, <2>8, <3>2, <3>6, GoesKeeps
  <2>9. CASE Promised(t) /\ host.armed /\ Arms(m) /\ Awaiting(r)
    <3>1. dev'.acq = "armed" /\ host'.armed
      BY <2>3, <2>4, <2>9 DEF Arms
    <3>2. Active(t) /\ call[t].c.op # "state" /\ call'[t].todo = r
      BY <2>1, <2>9 DEF Promised, ReadsShot, Goes, r
    <3>3. Fetches(t)'
      BY <2>9, <3>1, <3>2 DEF Fetches
    <3>4. PromiseInv'
      BY <3>1 DEF PromiseInv
    <3> QED  BY <1>1, <2>1, <2>5, <3>2, <3>3, <3>4, GoesKeeps
  <2> QED  BY <1>4, <2>6, <2>7, <2>8, <2>9
<1>6. CASE WriteRefused(t, m)
  <2>1. Goes(t) /\ LineInv'
    BY <1>3, <1>6 DEF WriteRefused
  <2>2. dev' = [dev EXCEPT !.errs = 1] /\ host' = host
    BY <1>6 DEF WriteRefused, Refused
  <2>3. Whole' /\ Same
    BY <1>2, <2>2 DEF Whole, Same
  <2>4. CASE Harmless(m)
    <3>1. Active(t) /\ call[t].c.op = "state" => (call'[t].got[1] = "stopped" => dev'.acq = "stopped")
      BY <1>2, <2>1, <2>3, GotStays DEF Same
    <3> QED  BY <1>1, <2>1, <2>3, <2>4, <3>1, HarmlessStep
  <2>5. CASE Free(t)
    BY <1>1, <2>1, <2>3, <2>5, FreeStep
  <2>6. CASE Active(t) /\ call[t].c.op \in OtherOps \ {"state"} /\ m.at = <<"force", 0>>
    <3>1. call[t].c.op \notin ReadsShot
      BY <2>6 DEF OtherOps, ReadsShot
    <3>2. Fetches(t)'
      BY <2>1, <3>1 DEF Fetches, Promised, Goes
    <3>3. due' = due
      BY <2>1 DEF Goes
    <3>4. PromiseInv'
      BY <2>3, <3>3 DEF PromiseInv, ScopeInv, Recorded, Same
    <3> QED  BY <1>1, <2>1, <2>3, <2>6, <3>2, <3>4, GoesKeeps
  <2>7. CASE Promised(t) /\ host.armed /\ Arms(m) /\ Awaiting(r)
    <3>1. m.at[1] = "acquisition"
      BY <2>7 DEF Arms
    <3> QED  BY <1>6, <2>7, <3>1 DEF WriteRefused, RefusedAdrift
  <2> QED  BY <1>4, <2>4, <2>5, <2>6, <2>7
<1>7. CASE WriteRaises(t)
  <2>1. dev' = dev /\ Raises(t)
    BY <1>7 DEF WriteRaises
  <2> QED  BY <1>1, <1>2, <2>1, FallingStep DEF Whole
<1> QED  BY <1>1, <1>5, <1>6, <1>7 DEF PutStep

LEMMA MergesKeep ==
  ASSUME NEW t \in Threads, ScopeInv, MergeStep(t), ~adrift'
  PROVE  ScopeInv'
<1> DEFINE m == call[t].todo[1] n == [m EXCEPT !.at = Register, !.to = Insert(call[t].got[2], m.at[1], m.to)]
<1>1. Busy(t) /\ call[t].todo # <<>> /\ m.do = "merge" /\ Head1(t) = m
  BY AtStep DEF MergeStep
<1>2. Written(t, n) \/ WriteRaises(t)
  BY <1>1 DEF MergeStep
<1> HIDE DEF n
<1>3. Whole /\ ~Obtains(m)
  BY <1>1 DEF ScopeInv, ShapeInv, Whole, Obtains
<1>4. CASE Written(t, n)
  <2>1. Goes(t)
    BY <1>3, <1>4, AdvanceGoes DEF Written, Advance
  <2>2. LineInv'
    BY <1>1, <1>4, <2>1, LineStays DEF Written, Goes, ScopeInv
  <2>3. dev' = Accepted(dev, n) /\ {"armed", "stamp"} \subseteq DOMAIN host'
    BY <1>3, <1>4 DEF Written, Outdated, Whole
  <2>4. Whole'
    BY <1>3, <2>3, AcceptedIs DEF Whole
  <2>5. Free(t)
    <3>1. ~Harmless(m) /\ ~Arms(m) /\ ~Acquires(m) /\ m.do # "put" /\ m.do # "await"
      BY <1>1 DEF Harmless, Arms, Acquires
    <3> QED  BY <1>1, <3>1, NextStep
  <2> QED  BY <1>1, <2>1, <2>2, <2>4, <2>5, FreeStep
<1>5. CASE WriteRaises(t)
  <2>1. dev' = dev /\ Raises(t)
    BY <1>5 DEF WriteRaises
  <2> QED  BY <1>1, <1>3, <2>1, FallingStep DEF Whole
<1> QED  BY <1>2, <1>4, <1>5

\* A step that goes on, of which nothing depends but what is left to do.
LEMMA PlainStep ==
  ASSUME NEW t \in Threads, ScopeInv, Busy(t), call[t].todo # <<>>,
         call[t].todo[1].do \notin {"put", "note", "await"}, Goes(t), LineInv',
         dev' = dev, host' = host,
         Active(t) /\ call[t].c.op = "state" => (call'[t].got[1] = "stopped" => dev'.acq = "stopped")
  PROVE  ScopeInv'
<1>1. Same /\ Whole'
  BY DEF Same, ScopeInv, ShapeInv, Whole
<1>2. Harmless(call[t].todo[1]) \/ Free(t)
  <2> DEFINE m == call[t].todo[1]
  <2>1. ~Arms(m) /\ ~Acquires(m)
    BY DEF Arms, Acquires
  <2> QED  BY <2>1, NextStep
<1> QED  BY <1>1, <1>2, HarmlessStep, FreeStep

LEMMA AsksKeep ==
  ASSUME NEW t \in Threads, kind \in Scopes, ScopeInv, AskStep(t), ~adrift'
  PROVE  ScopeInv'
<1> DEFINE m == call[t].todo[1] reply == Reply(dev, host, m.at)
<1>1. Busy(t) /\ call[t].todo # <<>> /\ m.do = "ask" /\ Head1(t) = m
  BY AtStep DEF AskStep
<1>2. Active(t) /\ line = <<>> /\ Obtains(m) /\ Whole
  BY <1>1, LineIsEmpty DEF Obtains, ScopeInv, ShapeInv, Whole
<1>3. \/ Query(reply) /\ AdvanceWith(t, Replied(reply)) /\ dev' = dev
      \/ Raises(t) /\ (dev' = dev \/ dev' = Refused(dev))
  BY <1>1 DEF AskStep, NotOpen
<1>4. CASE Query(reply) /\ AdvanceWith(t, Replied(reply)) /\ dev' = dev
  <2>1. m.at = <<"state", 0>> => reply = <<dev.acq, 0>>
    BY DEF Reply
  <2> HIDE DEF reply
  <2>2. line' = <<>> /\ Replied(reply) = reply
    BY <1>2, <1>4, OneAnswer DEF Query, Replied
  <2>3. Goes(t) /\ call'[t].got = reply /\ host' = host
    BY <1>2, <1>4, <2>2, AdvanceWithGoes DEF AdvanceWith
  <2>4. LineInv'
    BY <2>2 DEF LineInv
  <2>5. Active(t) /\ call[t].c.op = "state" => (call'[t].got[1] = "stopped" => dev'.acq = "stopped")
    <3> SUFFICES ASSUME call[t].c.op = "state", call'[t].got[1] = "stopped"  PROVE dev'.acq = "stopped"
      OBVIOUS
    <3>1. AsksState(call[t].todo) /\ IsSeq(call[t].todo)
      BY <1>2 DEF ScopeInv, CallsInv, Behaves, ShapeInv, Formed, Sound
    <3>2. m.at = <<"state", 0>>
      BY <1>1, <3>1, RestOf
    <3>3. reply[1] = dev.acq
      BY <2>1, <3>2
    <3> QED  BY <1>4, <2>3, <3>3
  <2> QED  BY <1>1, <1>4, <2>3, <2>4, <2>5, PlainStep
<1>5. CASE Raises(t) /\ (dev' = dev \/ dev' = Refused(dev))
  <2>1. {"acq", "fresh"} \subseteq DOMAIN dev' /\ dev'.acq = dev.acq /\ dev'.fresh = dev.fresh
    BY <1>2, <1>5 DEF Refused, Whole
  <2> QED  BY <1>1, <1>5, <2>1, FallingStep
<1> QED  BY <1>3, <1>4, <1>5

LEMMA ComparesKeep ==
  ASSUME NEW t \in Threads, ScopeInv, CompareStep(t), ~adrift'
  PROVE  ScopeInv'
<1> DEFINE m == call[t].todo[1]
<1>1. Busy(t) /\ call[t].todo # <<>> /\ m.do = "compare" /\ ~Obtains(m)
  BY AtStep DEF CompareStep, Obtains
<1>2. CASE Advance(t) /\ UNCHANGED <<session, line, host, dev, adrift>>
  <2>1. Goes(t)
    BY <1>1, <1>2, AdvanceGoes DEF Advance
  <2>2. LineInv'
    BY <1>1, <1>2, <2>1, LineStays DEF Goes, ScopeInv
  <2>3. Active(t) /\ call[t].c.op = "state" => (call'[t].got[1] = "stopped" => dev'.acq = "stopped")
    BY <1>1, <1>2, <2>1, GotStays
  <2> QED  BY <1>1, <1>2, <2>1, <2>2, <2>3, PlainStep
<1>3. CASE Raises(t) /\ dev' = dev
  BY <1>1, <1>3, FallingStep DEF ScopeInv, ShapeInv
<1> QED  BY <1>2, <1>3 DEF CompareStep, NotOpen

LEMMA ChecksKeep ==
  ASSUME NEW t \in Threads, ScopeInv, CheckStep(t), ~adrift'
  PROVE  ScopeInv'
<1> DEFINE m == call[t].todo[1] reply == <<"error", dev.errs>>
<1>1. Busy(t) /\ call[t].todo # <<>> /\ m.do = "check" /\ ~Obtains(m)
  BY AtStep DEF CheckStep, Obtains
<1>2. Active(t) /\ line = <<>> /\ Whole
  BY <1>1, LineIsEmpty DEF ScopeInv, ShapeInv, Whole
<1>3. \/ Query(reply) /\ Advance(t) /\ UNCHANGED <<host, dev, adrift>>
      \/ Raises(t) /\ (dev' = dev \/ dev' = [dev EXCEPT !.errs = 0])
  BY DEF CheckStep, NotOpen
<1>4. CASE Query(reply) /\ Advance(t) /\ UNCHANGED <<host, dev, adrift>>
  <2> HIDE DEF reply
  <2>1. line' = <<>>
    BY <1>2, <1>4, OneAnswer DEF Query
  <2>2. Goes(t)
    BY <1>1, <1>4, AdvanceGoes DEF Advance
  <2>3. LineInv'
    BY <2>1 DEF LineInv
  <2>4. Active(t) /\ call[t].c.op = "state" => (call'[t].got[1] = "stopped" => dev'.acq = "stopped")
    BY <1>1, <1>4, <2>2, GotStays
  <2> QED  BY <1>1, <1>4, <2>2, <2>3, <2>4, PlainStep
<1>5. CASE Raises(t) /\ (dev' = dev \/ dev' = [dev EXCEPT !.errs = 0])
  <2>1. {"acq", "fresh"} \subseteq DOMAIN dev' /\ dev'.acq = dev.acq /\ dev'.fresh = dev.fresh
    BY <1>2, <1>5 DEF Whole
  <2> QED  BY <1>1, <1>5, <2>1, FallingStep
<1> QED  BY <1>3, <1>4, <1>5

LEMMA BlocksKeep ==
  ASSUME NEW t \in Threads, ScopeInv, BlockStep(t), ~adrift'
  PROVE  ScopeInv'
<1> DEFINE s == call[t].todo m == s[1] r == Tail(s) reply == Reply(dev, host, m.at)
<1>1. Busy(t) /\ s # <<>> /\ m.do = "block" /\ Head1(t) = m
  BY AtStep DEF BlockStep
<1>2. Active(t) /\ line = <<>> /\ Obtains(m) /\ IsSeq(s) /\ Drained(s)
  <2>1. Obtains(m) /\ m.do # "drain"
    BY <1>1 DEF Obtains
  <2>2. Formed(t)
    BY DEF ScopeInv, ShapeInv
  <2>3. Active(t) /\ line = <<>>
    BY <1>1, <2>1, LineIsEmpty
  <2> QED  BY <2>1, <2>2, <2>3 DEF Formed, Sound
<1>3. \/ /\ line' = Append(Tail(Append(line, reply)), <<"terminator", 0>>)
         /\ AdvanceWith(t, Replied(reply)) /\ dev' = dev
      \/ Raises(t) /\ dev' = dev
  BY <1>1 DEF BlockStep, NotOpen
<1> HIDE DEF reply
<1>4. CASE /\ line' = Append(Tail(Append(line, reply)), <<"terminator", 0>>)
           /\ AdvanceWith(t, Replied(reply)) /\ dev' = dev
  <2>1. Tail(line') = <<>>
    BY <1>2, <1>4, OneAnswer
  <2>2. Goes(t) /\ host' = host
    BY <1>2, <1>4, AdvanceWithGoes DEF AdvanceWith
  <2>3. r # <<>> /\ r[1].do = "drain"
    <3> HIDE DEF s
    <3> QED  BY <1>1, <1>2, RestOf
  <2>4. Drains(t)'
    BY <1>1, <1>2, <2>2, <2>3 DEF Goes, Drains, Busy, Active
  <2>5. LineInv'
    BY <2>1, <2>4 DEF LineInv
  <2>6. call[t].c.op # "state"
    <3>1. call[t].c.op = "state" => AsksState(s)
      BY <1>2 DEF ScopeInv, CallsInv, Behaves
    <3> HIDE DEF s
    <3> QED  BY <1>1, <1>2, <3>1, RestOf
  <2> QED  BY <1>1, <1>4, <2>2, <2>5, <2>6, PlainStep
<1>5. CASE Raises(t) /\ dev' = dev
  BY <1>1, <1>5, FallingStep DEF ScopeInv, ShapeInv
<1> QED  BY <1>3, <1>4, <1>5

LEMMA DrainsKeep ==
  ASSUME NEW t \in Threads, ScopeInv, DrainStep(t)
  PROVE  ScopeInv'
<1> DEFINE m == call[t].todo[1]
<1>1. Busy(t) /\ call[t].todo # <<>> /\ m.do = "drain" /\ ~Obtains(m)
  BY AtStep DEF DrainStep, Obtains
<1>2. Goes(t)
  BY <1>1, AdvanceGoes DEF DrainStep, Advance
<1>3. line' = <<>>
  BY DEF DrainStep, Drain, ScopeInv, LineInv
<1>4. LineInv'
  BY <1>3 DEF LineInv
<1>5. dev' = dev /\ host' = host
  BY DEF DrainStep
<1>6. Active(t) /\ call[t].c.op = "state" => (call'[t].got[1] = "stopped" => dev'.acq = "stopped")
  BY <1>1, <1>2, <1>5, GotStays
<1> QED  BY <1>1, <1>2, <1>4, <1>5, <1>6, PlainStep

LEMMA AwaitsKeep ==
  ASSUME NEW t \in Threads, ScopeInv, AwaitStep(t), ~adrift'
  PROVE  ScopeInv'
<1> DEFINE m == call[t].todo[1] r == Tail(call[t].todo) how == m.at[1]
<1>1. Busy(t) /\ call[t].todo # <<>> /\ m.do = "await" /\ Head1(t) = m /\ ~Obtains(m)
  <2>1. At(t, "await")
    BY DEF AwaitStep
  <2> QED  BY <2>1, AtStep DEF Obtains
<1>2. Active(t) /\ line = <<>> /\ Whole
  BY <1>1, LineIsEmpty DEF ScopeInv, ShapeInv, Whole
<1>3. \/ Free(t)
      \/ Promised(t) /\ host.armed /\ Acquiring(r) /\ (dev.acq = "armed" \/ (dev.acq = "stopped" /\ dev.fresh))
  <2>1. ~Harmless(m) /\ ~Arms(m) /\ ~Acquires(m) /\ m.do # "put"
    BY <1>1 DEF Harmless, Arms, Acquires
  <2> HIDE DEF m, r
  <2> QED  BY <1>1, <2>1, NextStep DEF m, r
<1>4. \/ AcquisitionDone(how) /\ Advance(t) /\ UNCHANGED <<session, line, host, dev, adrift>>
      \/ /\ Raises(t)
         /\ (\E acq : dev' = [dev EXCEPT !.acq = acq]) \/ dev' = dev
  <2>1. \/ AcquisitionDone(how) /\ Advance(t) /\ UNCHANGED <<session, line, host, dev, adrift>>
        \/ /\ Raises(t)
           /\ \E acq \in {"stopped"} \cup IF how = "clear" THEN {dev.acq} ELSE {} : dev' = [dev EXCEPT !.acq = acq]
        \/ Raises(t) /\ dev' = dev
        \/ NotOpen(t)
    BY <1>1 DEF AwaitStep
  <2> QED  BY <2>1 DEF NotOpen
<1>5. CASE AcquisitionDone(how) /\ Advance(t) /\ UNCHANGED <<session, line, host, dev, adrift>>
  <2>1. Goes(t)
    BY <1>1, <1>5, AdvanceGoes DEF Advance
  <2>2. LineInv'
    BY <1>1, <1>5, <2>1, LineStays DEF Goes, ScopeInv
  <2>3. Whole' /\ Same
    BY <1>2, <1>5 DEF Whole, Same
  <2>4. CASE Free(t)
    BY <1>1, <2>1, <2>2, <2>3, <2>4, FreeStep
  <2>5. CASE Promised(t) /\ host.armed /\ Acquiring(r) /\ (dev.acq = "armed" \/ (dev.acq = "stopped" /\ dev.fresh))
    <3>1. dev.acq = "stopped" /\ dev.fresh
      BY <1>5, <2>5 DEF AcquisitionDone
    <3>2. call'[t].todo = r /\ call[t].c.op # "state"
      BY <2>1, <2>5 DEF Goes, Promised, ReadsShot
    <3>3. Fetches(t)'
      BY <1>5, <2>5, <3>1, <3>2 DEF Fetches
    <3>4. PromiseInv'
      BY <1>5, <2>5 DEF PromiseInv
    <3> QED  BY <1>1, <1>2, <2>1, <2>2, <2>3, <3>2, <3>3, <3>4, GoesKeeps
  <2> QED  BY <1>3, <2>4, <2>5
<1>6. CASE Raises(t) /\ ((\E acq : dev' = [dev EXCEPT !.acq = acq]) \/ dev' = dev)
  <2>1. Falls(t) /\ (line' = line \/ line' = <<>>)
    BY <1>6, RaisesFalls
  <2>2. Others(t) /\ (due' <=> due) /\ host' = host
    BY <2>1 DEF Falls
  <2>3. LineInv'
    BY <1>1, <2>1, <2>2, LineStays DEF ScopeInv
  <2>4. Whole'
    BY <1>2, <1>6, <2>2 DEF Whole
  <2>5. PromiseInv'
    <3>1. CASE Free(t)
      BY <2>2, <3>1 DEF Free, Promised, PromiseInv, ScopeInv, CallsInv, Behaves, EndsShot, ReadsShot
    <3>2. CASE host.armed
      BY <2>2, <3>2 DEF PromiseInv
    <3> QED  BY <1>3, <3>1, <3>2
  <2> QED  BY <1>1, <1>2, <2>1, <2>3, <2>4, <2>5, FallsKeeps
<1> QED  BY <1>4, <1>5, <1>6

LEMMA NotesKeep ==
  ASSUME NEW t \in Threads, ScopeInv, NoteStep(t), ~adrift'
  PROVE  ScopeInv'
<1> DEFINE m == call[t].todo[1] r == Tail(call[t].todo)
<1>1. Busy(t) /\ call[t].todo # <<>> /\ m.do = "note" /\ Head1(t) = m /\ ~Obtains(m)
  BY AtStep DEF NoteStep, Obtains
<1>2. Whole /\ Active(t)
  BY <1>1, LineIsEmpty DEF ScopeInv, ShapeInv, Whole
<1>3. Goes(t)
  BY <1>1, AdvanceGoes DEF NoteStep, Advance
<1>4. host' = Noted(host, m.at, m.to, call[t].got) /\ dev' = dev /\ line' = line
  BY <1>1 DEF NoteStep
<1>5. LineInv'
  BY <1>1, <1>3, <1>4, LineStays DEF Goes, ScopeInv
<1>6. \/ Harmless(m)
      \/ Free(t)
      \/ /\ Promised(t) /\ Acquires(m) /\ dev.acq = "stopped" /\ dev.fresh
         /\ Calm(r) /\ \E i \in DOMAIN r : Obtains(r[i])
  <2>1. ~Arms(m) /\ m.do # "put" /\ m.do # "await"
    BY <1>1 DEF Arms
  <2> HIDE DEF m, r
  <2> QED  BY <1>1, <2>1, NextStep DEF m, r
<1>7. Whole'
  BY <1>2, <1>4 DEF Noted, Whole
<1>8. CASE Harmless(m)
  <2>1. m.at \in {"slot", "average", "source", "type"}
    BY <1>1, <1>8 DEF Harmless
  <2> HIDE DEF m
  <2>2. \/ \E v : host' = [host EXCEPT !.slots = v]
        \/ \E a \in {"average", "source", "type"}, v \in {m.to} : host' = [host EXCEPT ![a] = v]
    BY <1>4, <2>1 DEF Noted
  <2>3. host'.armed = host.armed /\ host'.stamp = host.stamp
    BY <1>2, <2>2 DEF Whole
  <2>4. Same
    BY <1>4, <2>3 DEF Same
  <2>5. Active(t) /\ call[t].c.op = "state" => (call'[t].got[1] = "stopped" => dev'.acq = "stopped")
    BY <1>1, <1>3, <1>4, GotStays DEF m
  <2> QED  BY <1>1, <1>3, <1>5, <1>7, <1>8, <2>4, <2>5, HarmlessStep DEF m
<1>9. CASE Free(t)
  BY <1>1, <1>3, <1>5, <1>7, <1>9, FreeStep
<1>10. CASE /\ Promised(t) /\ Acquires(m) /\ dev.acq = "stopped" /\ dev.fresh
            /\ Calm(r) /\ \E i \in DOMAIN r : Obtains(r[i])
  <2>1. host' = [host EXCEPT !.armed = FALSE, !.stamp = "record"]
    BY <1>4, <1>10 DEF Noted, Acquires
  <2>2. Recorded'
    BY <1>2, <1>4, <1>10, <2>1 DEF Recorded, Whole
  <2>3. call'[t].todo = r /\ call[t].c.op # "state"
    BY <1>3, <1>10 DEF Goes, Promised, ReadsShot
  <2>4. Fetches(t)'
    BY <1>10, <2>2, <2>3 DEF Fetches
  <2>5. PromiseInv'
    BY <2>2 DEF PromiseInv
  <2> QED  BY <1>1, <1>2, <1>3, <1>5, <1>7, <2>3, <2>4, <2>5, GoesKeeps
<1> QED  BY <1>6, <1>8, <1>9, <1>10

LEMMA SessionsKeep ==
  ASSUME NEW t \in Threads, ScopeInv, OpenStep(t) \/ CloseStep(t) \/ RaiseStep(t), ~adrift'
  PROVE  ScopeInv'
<1> DEFINE m == call[t].todo[1]
<1>1. Busy(t) /\ call[t].todo # <<>> /\ m.do \in {"open", "close", "raise"} /\ ~Obtains(m)
  <2>1. PICK do \in {"open", "close", "raise"} : At(t, do)
    BY DEF OpenStep, CloseStep, RaiseStep
  <2>2. Busy(t) /\ call[t].todo # <<>> /\ m.do = do
    BY <2>1, AtStep
  <2> HIDE DEF m
  <2>3. m.do \in {"open", "close", "raise"}
    BY <2>2
  <2>4. ~Obtains(m)
    BY <2>3 DEF Obtains
  <2> QED  BY <2>2, <2>3, <2>4
<1>2. \/ Advance(t) /\ UNCHANGED <<host, dev, adrift>> /\ (line' = line \/ line' = <<>>)
      \/ Raises(t) /\ dev' = dev
  BY DEF OpenStep, CloseStep, RaiseStep, Open, Close
<1>3. CASE Advance(t) /\ UNCHANGED <<host, dev, adrift>> /\ (line' = line \/ line' = <<>>)
  <2>1. Goes(t)
    BY <1>1, <1>3, AdvanceGoes DEF Advance
  <2>2. LineInv'
    BY <1>1, <1>3, <2>1, LineStays DEF Goes, ScopeInv
  <2>3. Active(t) /\ call[t].c.op = "state" => (call'[t].got[1] = "stopped" => dev'.acq = "stopped")
    BY <1>1, <1>3, <2>1, GotStays
  <2> QED  BY <1>1, <1>3, <2>1, <2>2, <2>3, PlainStep
<1>4. CASE Raises(t) /\ dev' = dev
  BY <1>1, <1>4, FallingStep DEF ScopeInv, ShapeInv
<1> QED  BY <1>2, <1>3, <1>4

LEMMA StepsKeep ==
  ASSUME NEW t \in Threads, kind \in Scopes, ScopeInv, StepOf(t), ~adrift'
  PROVE  ScopeInv'
  BY WritesKeep, MergesKeep, AsksKeep, ComparesKeep, ChecksKeep, BlocksKeep, DrainsKeep, AwaitsKeep, NotesKeep,
     SessionsKeep DEF StepOf

LEMMA TriggersKeep ==
  ASSUME ScopeInv, Trigger
  PROVE  ScopeInv'
<1>1. /\ dev' = [dev EXCEPT !.acq = IF @ = "armed" THEN "stopped" ELSE @, !.fresh = TRUE]
      /\ host' = Outdated(host) /\ dev.acq # "stopped"
      /\ call' = call /\ owner' = owner /\ line' = line /\ due' = due
  BY DEF Trigger, visaVars
<1>2. Whole
  BY DEF ScopeInv, ShapeInv, Whole
<1>3. Whole' /\ host'.armed = host.armed /\ dev'.fresh /\ (dev.acq = "armed" => dev'.acq = "stopped")
  BY <1>1, <1>2 DEF Whole, Outdated
<1>4. \A t \in Threads : /\ Formed(t)' = Formed(t) /\ Busy(t)' = Busy(t) /\ Active(t)' = Active(t)
                         /\ Promised(t)' = Promised(t) /\ Drains(t)' = Drains(t)
  BY <1>1 DEF Formed, Busy, Active, Promised, Drains
<1>5. ShapeInv' /\ TurnInv' /\ LineInv'
  BY <1>1, <1>3, <1>4 DEF ScopeInv, ShapeInv, TurnInv, LineInv, Whole
<1>6. CallsInv'
  <2> SUFFICES ASSUME NEW t \in Threads  PROVE Behaves(t)'
    BY DEF CallsInv
  <2>1. Behaves(t)
    BY DEF ScopeInv, CallsInv
  <2> QED  BY <1>1, <1>4, <2>1 DEF Behaves
<1>7. FetchInv'
  <2> SUFFICES ASSUME NEW t \in Threads, Promised(t)  PROVE Fetches(t)'
    BY <1>4 DEF FetchInv, Fetches
  <2>1. \/ host.armed /\ Arming(call[t].todo)
        \/ host.armed /\ Awaiting(call[t].todo) /\ dev.acq = "armed"
    BY <1>1 DEF ScopeInv, FetchInv, Fetches, Recorded
  <2> QED  BY <1>1, <1>3, <2>1 DEF Fetches
<1>8. PromiseInv'
  BY <1>1, <1>3 DEF ScopeInv, PromiseInv, Recorded
<1> QED  BY <1>5, <1>6, <1>7, <1>8 DEF ScopeInv

----------------------------------------------------------------------------
(* Calls begin and end *)

\* What a method has before it when it starts.
LEMMA NewCall ==
  ASSUME NEW t \in Threads, kind \in Scopes, NEW c \in Calls(t), NEW h
  PROVE  LET s == Steps(kind, h, c) IN
         /\ c.op \in (Unlocked \cup EndsShot \cup ReadsShot \cup OtherOps) \ {"none"} /\ Sound(s)
         /\ c.op \in Unlocked => Mute(s)
         /\ c.op \in OtherOps => Mild(s)
         /\ c.op = "state" => AsksState(s)
         /\ c.op \in ReadsShot => IF h.armed THEN Arming(s) ELSE Reading(s)
<1> DEFINE s == Steps(kind, h, c)
<1>1. c.op \in (Unlocked \cup EndsShot \cup ReadsShot \cup OtherOps) \ {"none"} /\ Sets(c)
  BY CallsAre
<1>2. CASE c.op \in Unlocked
  <2>1. Sound(s) /\ Mute(s)
    BY <1>2, StepsAre, MuteIs DEF Unlocked
  <2>2. c.op \notin OtherOps /\ c.op # "state" /\ c.op \notin ReadsShot
    BY <1>2 DEF Unlocked, OtherOps, ReadsShot
  <2> QED  BY <1>1, <2>1, <2>2
<1>3. CASE c.op \in EndsShot
  <2>1. c.op \notin Unlocked /\ c.op \notin OtherOps /\ c.op # "state" /\ c.op \notin ReadsShot
    BY <1>3 DEF EndsShot, Unlocked, OtherOps, ReadsShot
  <2>2. s = ScopeSteps(kind, h, c)
    BY <2>1, StepsAre DEF Unlocked
  <2> QED  BY <1>1, <1>3, <2>1, <2>2, ChangesIs
<1>4. CASE c.op \in ReadsShot
  <2>1. c.op \notin Unlocked /\ c.op \notin OtherOps /\ c.op # "state"
    BY <1>4 DEF Unlocked, OtherOps, ReadsShot
  <2>2. s = ScopeSteps(kind, h, c)
    BY <2>1, StepsAre DEF Unlocked
  <2> QED  BY <1>1, <1>4, <2>1, <2>2, ReadsShotIs
<1>5. CASE c.op \in OtherOps
  <2>1. c.op \notin Unlocked /\ c.op \notin ReadsShot
    BY <1>5 DEF Unlocked, OtherOps, ReadsShot
  <2>2. s = ScopeSteps(kind, h, c)
    BY <2>1, StepsAre DEF Unlocked
  <2>3. c.op \in OtherOps \ {"none"}
    BY <1>1, <1>5
  <2> QED  BY <1>1, <2>1, <2>2, <2>3, OthersIs
<1> QED  BY <1>1, <1>2, <1>3, <1>4, <1>5

LEMMA EntersKeep ==
  ASSUME NEW t \in Threads, kind \in Scopes, ScopeInv, Enter(t), ~adrift'
  PROVE  ScopeInv'
<1> USE DEF ScopeInv
<1>1. PICK c \in Calls(t) :
           /\ IF c.op = "mode" THEN call[t].phase = "wait" /\ call[t].c = c ELSE call[t].phase = "idle"
           /\ Locks(kind, c) => owner = None
           /\ owner' = IF Locks(kind, c) THEN t ELSE owner
           /\ call' = [call EXCEPT ![t] = [Idle EXCEPT !.c = c, !.phase = "busy", !.due = due,
                                                       !.todo = Steps(kind, host, c)]]
           /\ due' = (due /\ c.op \notin {"run", "stop", "single", "load"})
           /\ adrift' = EnterAdrift(t, c)
           /\ UNCHANGED <<visaVars, host, dev>>
  BY DEF Enter
<1> DEFINE s == Steps(kind, host, c)
<1>2. /\ c.op \in (Unlocked \cup EndsShot \cup ReadsShot \cup OtherOps) \ {"none"} /\ Sound(s)
      /\ c.op \in Unlocked => Mute(s)
      /\ c.op \in OtherOps => Mild(s)
      /\ c.op = "state" => AsksState(s)
      /\ c.op \in ReadsShot => IF host.armed THEN Arming(s) ELSE Reading(s)
  BY NewCall
<1> HIDE DEF s
<1>3. call[t].phase = "idle" /\ ~Busy(t) /\ ~Active(t)
  <2>1. c.op # "mode"
    BY <1>2 DEF Unlocked, EndsShot, ReadsShot, OtherOps
  <2> QED  BY <1>1, <2>1 DEF Busy, Active
<1>4. DOMAIN call = Threads /\ Whole
  BY DEF ShapeInv, Whole
<1>5. /\ call'[t].c = c /\ call'[t].phase = "busy" /\ call'[t].todo = s /\ call'[t].due = due
      /\ call'[t].got = <<"none", 0>>
      /\ {"c", "phase", "todo", "got", "due", "fresh"} \subseteq DOMAIN call'[t]
  BY <1>1, <1>4 DEF Idle, s
<1>6. Others(t) /\ line' = line /\ host' = host /\ dev' = dev /\ (due' => due)
  BY <1>1, <1>4 DEF Others, visaVars
<1>7. Same
  BY <1>6 DEF Same
<1>8. \A u \in Threads \ {t} : /\ Formed(u)' /\ Behaves(u)' /\ Fetches(u)'
                               /\ Busy(u)' = Busy(u) /\ Active(u)' = Active(u)
  BY <1>6, <1>7, OthersStay
<1>9. (Locks(kind, c) <=> c.op \notin Unlocked) /\ (owner' = IF c.op \notin Unlocked THEN t ELSE owner)
      /\ (c.op \notin Unlocked => owner = None)
  <2>1. kind # "Aardvark"
    BY DEF Scopes
  <2>2. c.op # "status"
    BY <1>2 DEF Unlocked, EndsShot, ReadsShot, OtherOps
  <2>3. Locks(kind, c) <=> c.op \notin Unlocked
    BY <2>1, <2>2 DEF Locks, Unlocked
  <2> QED  BY <1>1, <2>3
<1>10. Busy(t)' /\ (Active(t)' <=> c.op \notin Unlocked)
  BY <1>5 DEF Busy, Active
<1>11. Formed(t)'
  BY <1>2, <1>5 DEF Formed
<1>12. Behaves(t)'
  <2>1. c.op \in EndsShot => ~due'
    BY <1>1 DEF EndsShot
  <2>2. call'[t].got[1] # "stopped"
    BY <1>5
  <2> QED  BY <1>2, <1>5, <1>6, <1>10, <2>1, <2>2 DEF Behaves
<1>13. Fetches(t)'
  <2> SUFFICES ASSUME Promised(t)'  PROVE Fetches(t)'
    BY DEF Fetches
  <2>1. due /\ c.op \in ReadsShot
    BY <1>5 DEF Promised
  <2>2. CASE host.armed
    <3>1. Arming(s)
      BY <1>2, <2>1, <2>2
    <3> QED  BY <1>5, <1>6, <2>2, <3>1 DEF Fetches
  <2>3. CASE ~host.armed
    <3>1. Recorded /\ Reading(s)
      BY <1>2, <2>1, <2>3 DEF PromiseInv
    <3>2. Calm(s) /\ \E i \in DOMAIN s : Obtains(s[i])
      BY <3>1 DEF Reading, Plain
    <3>3. Recorded'
      BY <1>6, <3>1 DEF Recorded
    <3> QED  BY <1>5, <3>2, <3>3 DEF Fetches
  <2> QED  BY <2>2, <2>3
<1>14. ShapeInv' /\ CallsInv' /\ FetchInv'
  BY <1>4, <1>6, <1>8, <1>11, <1>12, <1>13 DEF ShapeInv, CallsInv, FetchInv, Others, Whole
<1>15. TurnInv'
  <2>1. None \notin Threads
    BY BenchAssumption
  <2>2. ASSUME NEW u \in Threads \ {t}, Active(u)  PROVE c.op \in Unlocked
    <3>1. call[u].phase # "post"
      BY <1>1 DEF EnterAdrift
    <3>2. Busy(u)
      BY <2>2, <3>1 DEF Active, Busy
    <3>3. owner = u
      BY <2>2, <3>2 DEF TurnInv
    <3> QED  BY <1>9, <2>1, <3>3
  <2>3. \A u \in Threads : owner' = u <=> Busy(u)' /\ Active(u)'
    <3>1. CASE c.op \in Unlocked
      <4>1. owner' = owner /\ owner # t
        BY <1>3, <1>9, <3>1 DEF TurnInv
      <4> QED  BY <1>8, <1>10, <3>1, <4>1 DEF TurnInv
    <3>2. CASE c.op \notin Unlocked
      <4>1. owner' = t /\ \A u \in Threads \ {t} : ~Active(u)'
        BY <1>8, <1>9, <2>2, <3>2
      <4> QED  BY <1>10, <3>2, <4>1
    <3> QED  BY <3>1, <3>2
  <2>4. \A u, v \in Threads : Active(u)' /\ Active(v)' => u = v
    <3>1. CASE c.op \in Unlocked
      BY <1>8, <1>10, <3>1 DEF TurnInv
    <3>2. CASE c.op \notin Unlocked
      BY <1>8, <2>2, <3>2
    <3> QED  BY <3>1, <3>2
  <2> QED  BY <2>3, <2>4 DEF TurnInv
<1>16. LineInv'
  BY <1>3, <1>6, LineStays
<1>17. PromiseInv'
  BY <1>6 DEF PromiseInv, Recorded
<1> QED  BY <1>14, <1>15, <1>16, <1>17

LEMMA FinishesKeep ==
  ASSUME NEW t \in Threads, ScopeInv, Finish(t)
  PROVE  ScopeInv'
<1> USE DEF ScopeInv
<1>1. /\ call[t].phase = "busy" /\ call[t].todo = <<>>
      /\ call' = [call EXCEPT ![t].phase = "post"]
      /\ owner' = IF owner = t THEN None ELSE owner
      /\ host' = host /\ dev' = dev /\ line' = line /\ (due' <=> due)
  BY DEF Finish, visaVars
<1>2. DOMAIN call = Threads /\ Formed(t) /\ Behaves(t) /\ Fetches(t) /\ Whole
  BY DEF ShapeInv, CallsInv, FetchInv, Whole
<1>3. /\ call'[t].c = call[t].c /\ call'[t].phase = "post" /\ call'[t].todo = call[t].todo
      /\ call'[t].due = call[t].due /\ call'[t].got = call[t].got /\ call'[t].fresh = call[t].fresh
      /\ {"c", "phase", "todo", "got", "due", "fresh"} \subseteq DOMAIN call'[t]
  BY <1>1, <1>2 DEF Formed
<1>4. Others(t) /\ Same
  BY <1>1, <1>2 DEF Others, Same
<1>5. \A u \in Threads \ {t} : /\ Formed(u)' /\ Behaves(u)' /\ Fetches(u)'
                               /\ Busy(u)' = Busy(u) /\ Active(u)' = Active(u)
  BY <1>1, <1>4, OthersStay
<1>6. Busy(t) /\ ~Busy(t)' /\ (Active(t)' <=> Active(t)) /\ (Promised(t)' <=> Promised(t))
  BY <1>1, <1>3 DEF Busy, Active, Promised
<1>7. Formed(t)'
  BY <1>1, <1>2, <1>3 DEF Formed
<1>8. Behaves(t)'
  BY <1>1, <1>2, <1>3, <1>6 DEF Behaves
<1>9. Fetches(t)'
  BY <1>1, <1>2, <1>3, <1>6 DEF Fetches, Recorded
<1>10. ShapeInv' /\ CallsInv' /\ FetchInv'
  BY <1>1, <1>2, <1>4, <1>5, <1>7, <1>8, <1>9 DEF ShapeInv, CallsInv, FetchInv, Others, Whole
<1>11. TurnInv'
  <2>1. None \notin Threads
    BY BenchAssumption
  <2>2. \A u \in Threads : owner' = u <=> Busy(u)' /\ Active(u)'
    BY <1>1, <1>5, <1>6, <2>1 DEF TurnInv
  <2>3. \A u, v \in Threads : Active(u)' /\ Active(v)' => u = v
    BY <1>5, <1>6 DEF TurnInv
  <2> QED  BY <2>2, <2>3 DEF TurnInv
<1>12. LineInv'
  BY <1>1, <1>4, LineStays
<1>13. PromiseInv'
  BY <1>1 DEF PromiseInv, Recorded
<1> QED  BY <1>10, <1>11, <1>12, <1>13

LEMMA PostsKeep ==
  ASSUME NEW t \in Threads, kind \in Scopes, ScopeInv, Post(t), ~adrift'
  PROVE  ScopeInv'
<1> USE DEF ScopeInv
<1> DEFINE c == call[t].c got == call[t].got
<1>1. /\ call[t].phase = "post" /\ host' = ScopePost(host, c, got, "record")
      /\ call' = [call EXCEPT ![t] = Idle]
      /\ due' = (due \/ c.op = "single") /\ adrift' = (adrift \/ StateAdrift(c, got))
      /\ owner' = owner /\ dev' = dev /\ line' = line
  BY KindsApart DEF Post, visaVars
<1>2. DOMAIN call = Threads /\ Formed(t) /\ Behaves(t) /\ Whole
  BY DEF ShapeInv, CallsInv, Whole
<1>3. /\ {"c", "phase", "todo", "got", "due", "fresh"} \subseteq DOMAIN call'[t]
      /\ call'[t].phase = "idle" /\ call'[t].c.op = "none" /\ call'[t].todo = <<>>
  BY <1>1, <1>2 DEF Idle, NoCall, C
<1>4. Others(t)
  BY <1>1, <1>2 DEF Others
<1>5. (Active(t) <=> c.op \notin Unlocked) /\ ~Busy(t) /\ ~Busy(t)' /\ ~Active(t)'
  BY <1>1, <1>3 DEF Active, Busy
<1>6. /\ c.op = "single" => host' = [host EXCEPT !.armed = TRUE]
      /\ \/ host' = host
         \/ c.op = "single"
         \/ c.op = "stop"
         \/ c.op = "state" /\ host.armed /\ got[1] = "stopped" /\ host' = [host EXCEPT !.armed = FALSE, !.stamp = "record"]
      /\ {"armed", "stamp"} \subseteq DOMAIN host'
  <2> HIDE DEF c, got
  <2>1. CASE c.op = "single"
    <3>1. host' = [host EXCEPT !.armed = TRUE]
      BY <1>1, <2>1 DEF ScopePost
    <3> QED  BY <1>2, <2>1, <3>1 DEF Whole
  <2>2. CASE c.op # "single" /\ host.armed /\ (c.op = "stop" \/ (c.op = "state" /\ got[1] = "stopped"))
    <3>1. host' = [host EXCEPT !.armed = FALSE, !.stamp = "record"]
      BY <1>1, <2>2 DEF ScopePost
    <3> QED  BY <1>2, <2>2, <3>1 DEF Whole
  <2>3. CASE c.op # "single" /\ ~(host.armed /\ (c.op = "stop" \/ (c.op = "state" /\ got[1] = "stopped")))
    <3>1. host' = host
      BY <1>1, <2>3 DEF ScopePost
    <3> QED  BY <1>2, <2>3, <3>1 DEF Whole
  <2> QED  BY <2>1, <2>2, <2>3
<1>7. Active(t) \/ (Same /\ (due' => due))
  <2> SUFFICES ASSUME c.op \in Unlocked  PROVE Same /\ (due' => due)
    BY <1>5
  <2>1. c.op # "single" /\ c.op # "stop" /\ c.op # "state"
    BY DEF Unlocked
  <2> QED  BY <1>1, <1>6, <2>1 DEF Same
<1>8. \A u \in Threads \ {t} : /\ Formed(u)' /\ Behaves(u)' /\ Fetches(u)'
                               /\ Busy(u)' = Busy(u) /\ Active(u)' = Active(u)
  BY <1>4, <1>7, OthersStay
<1>9. Formed(t)'
  <2>1. Sound(<<>>)
    BY EmptyIsPlain DEF Plain
  <2> QED  BY <1>3, <2>1 DEF Formed, OtherOps
<1>10. Behaves(t)' /\ Fetches(t)'
  BY <1>5 DEF Behaves, Fetches, Promised
<1>11. ShapeInv' /\ CallsInv' /\ FetchInv'
  BY <1>1, <1>2, <1>4, <1>6, <1>8, <1>9, <1>10 DEF ShapeInv, CallsInv, FetchInv, Others, Whole
<1>12. TurnInv'
  BY <1>1, <1>5, <1>8 DEF TurnInv
<1>13. LineInv'
  BY <1>1, <1>4, <1>5, LineStays
<1>14. PromiseInv'
  <2>1. CASE c.op = "single"
    <3>1. host'.armed
      BY <1>2, <1>6, <2>1 DEF Whole
    <3> QED  BY <3>1 DEF PromiseInv
  <2>2. CASE c.op = "stop"
    <3>1. Active(t) /\ c.op \in EndsShot
      BY <1>5, <2>2 DEF EndsShot, Unlocked
    <3>2. ~due
      BY <1>2, <3>1 DEF Behaves
    <3> QED  BY <1>1, <2>2, <3>2 DEF PromiseInv
  <2>3. CASE c.op = "state" /\ host.armed /\ got[1] = "stopped" /\ host' = [host EXCEPT !.armed = FALSE, !.stamp = "record"]
    <3>1. Active(t)
      BY <1>5, <2>3 DEF Unlocked
    <3>2. dev.acq = "stopped"
      BY <1>2, <2>3, <3>1 DEF Behaves
    <3>3. dev.fresh
      BY <1>1, <2>3 DEF StateAdrift
    <3>4. Recorded'
      BY <1>1, <1>2, <2>3, <3>2, <3>3 DEF Recorded, Whole
    <3> QED  BY <3>4 DEF PromiseInv
  <2>4. CASE host' = host /\ c.op # "single"
    BY <1>1, <2>4 DEF PromiseInv, Recorded
  <2> QED  BY <1>6, <2>1, <2>2, <2>3, <2>4
<1> QED  BY <1>11, <1>12, <1>13, <1>14

----------------------------------------------------------------------------
(* The whole bench *)

LEMMA InitHolds == Init => Inv
<1> SUFFICES ASSUME Init  PROVE Inv
  OBVIOUS
<1>1. /\ kind \in Kinds /\ call = [t \in Threads |-> Idle] /\ line = <<>> /\ owner = None /\ ~due
      /\ host = HostInit /\ dev = DevInit(kind)
  BY DEF Init, VisaInit
<1>2. \A t \in Threads :
        /\ {"c", "phase", "todo", "got", "due", "fresh"} \subseteq DOMAIN call[t]
        /\ call[t].phase = "idle" /\ call[t].c.op = "none" /\ call[t].todo = <<>>
  BY <1>1 DEF Idle, NoCall, C
<1>3. DOMAIN call = Threads
  BY <1>1
<1>4. OthersInv
  BY <1>2, <1>3 DEF OthersInv, ReadsShot
<1>5. \A t \in Threads : ~Busy(t) /\ ~Active(t)
  BY <1>2 DEF Busy, Active
<1>6. Sound(<<>>)
  BY EmptyIsPlain DEF Plain
<1>7. ShapeInv
  <2>1. {"acq", "fresh"} \subseteq DOMAIN dev /\ {"armed", "stamp"} \subseteq DOMAIN host
    BY <1>1 DEF DevInit, HostInit
  <2> QED  BY <1>2, <1>3, <1>6, <2>1 DEF ShapeInv, Formed, OtherOps
<1>8. None \notin Threads
  BY BenchAssumption
<1>9. TurnInv /\ LineInv /\ PromiseInv
  BY <1>1, <1>5, <1>8 DEF TurnInv, LineInv, PromiseInv
<1>10. CallsInv /\ FetchInv
  BY <1>5 DEF CallsInv, FetchInv, Behaves, Fetches, Promised
<1> QED  BY <1>1, <1>4, <1>7, <1>9, <1>10 DEF Inv, ScopeInv

\* A step of a call goes on to the next one, with or without an answer, or
\* leaves the call with an exception.
LEMMA StepMoves ==
  ASSUME NEW t \in Threads, StepOf(t)
  PROVE  Advance(t) \/ (\E got : AdvanceWith(t, got)) \/ Raises(t)
<1>1. CASE PutStep(t)
  BY <1>1 DEF PutStep, Written, WriteRefused, WriteRaises
<1>2. CASE MergeStep(t)
  BY <1>2 DEF MergeStep, Written, WriteRaises
<1>3. CASE AskStep(t)
  BY <1>3 DEF AskStep, NotOpen
<1>4. CASE CompareStep(t) \/ CheckStep(t) \/ BlockStep(t) \/ DrainStep(t)
  BY <1>4 DEF CompareStep, CheckStep, BlockStep, DrainStep, NotOpen
<1>5. CASE AwaitStep(t) \/ NoteStep(t) \/ RaiseStep(t) \/ OpenStep(t) \/ CloseStep(t)
  BY <1>5 DEF AwaitStep, NoteStep, RaiseStep, OpenStep, CloseStep, NotOpen
<1> QED  BY <1>1, <1>2, <1>3, <1>4, <1>5 DEF StepOf

\* It stays the same instrument.
LEMMA KindStays == Next => kind' = kind
<1>1. ASSUME NEW t \in Threads, Prepare(t)  PROVE kind' = kind
  BY <1>1 DEF Prepare
<1>2. ASSUME NEW t \in Threads, Enter(t)  PROVE kind' = kind
  BY <1>2 DEF Enter
<1>3. ASSUME NEW t \in Threads, Finish(t) \/ Post(t)  PROVE kind' = kind
  BY <1>3 DEF Finish, Post
<1>4. ASSUME NEW t \in Threads, StepOf(t)  PROVE kind' = kind
  <2>1. Advance(t) \/ (\E got : AdvanceWith(t, got)) \/ Raises(t)
    BY <1>4, StepMoves
  <2>2. ASSUME NEW got, AdvanceWith(t, got)  PROVE kind' = kind
    BY <2>2 DEF AdvanceWith
  <2>3. CASE Advance(t)
    BY <2>3 DEF Advance
  <2>4. CASE Raises(t)
    BY <2>4 DEF Raises
  <2> QED  BY <2>1, <2>2, <2>3, <2>4
<1>5. CASE Trigger
  BY <1>5 DEF Trigger
<1> QED  BY <1>1, <1>2, <1>3, <1>4, <1>5 DEF Next

\* Nothing happens once a disagreement has occurred.
LEMMA NothingAfterDrift == Next => ~adrift
<1>1. ASSUME NEW t \in Threads, Prepare(t) \/ Enter(t) \/ Finish(t) \/ Post(t)  PROVE ~adrift
  BY <1>1 DEF Prepare, Enter, Finish, Post
<1>2. ASSUME NEW t \in Threads, StepOf(t)  PROVE ~adrift
  <2>1. CASE PutStep(t) \/ MergeStep(t) \/ AskStep(t) \/ CompareStep(t)
    BY <2>1 DEF PutStep, MergeStep, AskStep, CompareStep, At
  <2>2. CASE CheckStep(t) \/ BlockStep(t) \/ DrainStep(t) \/ AwaitStep(t)
    BY <2>2 DEF CheckStep, BlockStep, DrainStep, AwaitStep, At
  <2>3. CASE NoteStep(t) \/ RaiseStep(t) \/ OpenStep(t) \/ CloseStep(t)
    BY <2>3 DEF NoteStep, RaiseStep, OpenStep, CloseStep, At
  <2> QED  BY <1>2, <2>1, <2>2, <2>3 DEF StepOf
<1>3. CASE Trigger
  BY <1>3 DEF Trigger
<1> QED  BY <1>1, <1>2, <1>3 DEF Next

\* What is not a scope is never fetched from.
LEMMA OthersKeep ==
  ASSUME kind \in Kinds, kind \notin Scopes, OthersInv, Next
  PROVE  OthersInv'
<1>1. kind \in Psus \cup Dmms \cup Loads \cup {"Aardvark"}
  BY KindsAssumption
<1>2. ASSUME NEW t \in Threads, NEW x, call' = [call EXCEPT ![t] = x],
             {"c", "phase"} \subseteq DOMAIN x, x.c.op \notin ReadsShot
      PROVE  OthersInv'
  BY <1>2 DEF OthersInv
<1>3. {"c", "phase"} \subseteq DOMAIN Idle /\ Idle.c.op \notin ReadsShot
  BY DEF Idle, NoCall, C, ReadsShot
<1>4. ASSUME NEW t \in Threads, Prepare(t)  PROVE OthersInv'
  <2>1. PICK c \in Calls(t) : call' = [call EXCEPT ![t].c = c, ![t].phase = "wait"]
    BY <1>4 DEF Prepare
  <2>2. c.op \notin ReadsShot
    BY <1>1, CallsAre
  <2> QED  BY <2>1, <2>2 DEF OthersInv
<1>5. ASSUME NEW t \in Threads, Enter(t)  PROVE OthersInv'
  <2>1. PICK c \in Calls(t) :
          call' = [call EXCEPT ![t] = [Idle EXCEPT !.c = c, !.phase = "busy", !.due = due,
                                                   !.todo = Steps(kind, host, c)]]
    BY <1>5 DEF Enter
  <2>2. c.op \notin ReadsShot
    BY <1>1, CallsAre
  <2> DEFINE x == [Idle EXCEPT !.c = c, !.phase = "busy", !.due = due, !.todo = Steps(kind, host, c)]
  <2>3. {"c", "phase"} \subseteq DOMAIN x /\ x.c = c
    BY DEF Idle
  <2> HIDE DEF x
  <2>4. call' = [call EXCEPT ![t] = x]
    BY <2>1 DEF x
  <2> QED  BY <1>2, <2>2, <2>3, <2>4
<1>6. ASSUME NEW t \in Threads, Finish(t)  PROVE OthersInv'
  BY <1>6 DEF Finish, OthersInv
<1>7. ASSUME NEW t \in Threads, call' = [call EXCEPT ![t] = Idle]  PROVE OthersInv'
  BY <1>2, <1>3, <1>7
<1>8. ASSUME NEW t \in Threads, Post(t)  PROVE OthersInv'
  BY <1>7, <1>8 DEF Post
<1>9. ASSUME NEW t \in Threads, StepOf(t)  PROVE OthersInv'
  <2>1. ASSUME Advance(t)  PROVE OthersInv'
    BY <2>1 DEF Advance, OthersInv
  <2>2. ASSUME NEW got, AdvanceWith(t, got)  PROVE OthersInv'
    BY <2>2 DEF AdvanceWith, OthersInv
  <2>3. ASSUME Raises(t)  PROVE OthersInv'
    BY <1>7, <2>3 DEF Raises
  <2>4. Advance(t) \/ (\E got : AdvanceWith(t, got)) \/ Raises(t)
    BY <1>9, StepMoves
  <2> QED  BY <2>1, <2>2, <2>3, <2>4
<1>10. ASSUME Trigger  PROVE OthersInv'
  BY <1>10 DEF Trigger, OthersInv
<1> QED  BY <1>4, <1>5, <1>6, <1>8, <1>9, <1>10 DEF Next

LEMMA NextHolds == Inv /\ [Next]_vars => Inv'
<1> SUFFICES ASSUME Inv, [Next]_vars  PROVE Inv'
  OBVIOUS
<1>1. CASE UNCHANGED vars
  <2>1. kind' = kind /\ (adrift' <=> adrift)
    BY <1>1 DEF vars
  <2>2. OthersInv' <=> OthersInv
    BY <1>1 DEF OthersInv, vars
  <2>3. ScopeInv' <=> ScopeInv
    BY <1>1 DEF ScopeInv, ShapeInv, TurnInv, LineInv, CallsInv, FetchInv, PromiseInv, Formed, Behaves, Fetches,
                Promised, Drains, Busy, Active, Recorded, vars, visaVars
  <2> QED  BY <2>1, <2>2, <2>3 DEF Inv
<1>2. CASE Next
  <2>1. kind' = kind
    BY <1>2, KindStays
  <2>2. CASE kind \notin Scopes
    BY <1>2, <2>1, <2>2, OthersKeep DEF Inv
  <2>3. CASE kind \in Scopes
    <3> SUFFICES ASSUME ~adrift'  PROVE ScopeInv'
      BY <2>1, <2>3 DEF Inv
    <3>1. ~adrift
      BY <1>2, NothingAfterDrift
    <3>2. ScopeInv
      BY <2>3, <3>1 DEF Inv
    <3>3. ASSUME NEW t \in Threads, Prepare(t)  PROVE FALSE
      <4>1. PICK c \in Calls(t) : c.op = "mode"
        BY <3>3 DEF Prepare
      <4> QED  BY <2>3, <4>1, CallsAre DEF Unlocked, EndsShot, ReadsShot, OtherOps
    <3> QED  BY <1>2, <2>3, <3>2, <3>3, EntersKeep, FinishesKeep, PostsKeep, StepsKeep, TriggersKeep DEF Next
  <2> QED  BY <2>2, <2>3
<1> QED  BY <1>1, <1>2

\* A call that has returned a record after single() returned one taken since,
\* with the time remembered for it.
LEMMA InvGivesFresh == Inv => WaveformsAreFresh
<1> SUFFICES ASSUME Inv, ~adrift, NEW t \in Threads,
                    call[t].phase = "post", call[t].c.op \in {"fetch", "measure"}, call[t].due
             PROVE  call[t].fresh /\ host.stamp = "record"
  BY DEF WaveformsAreFresh
<1>1. kind \in Scopes
  BY DEF Inv, OthersInv, ReadsShot
<1>2. Formed(t) /\ Fetches(t)
  BY <1>1 DEF Inv, ScopeInv, ShapeInv, FetchInv
<1>3. call[t].todo = <<>> /\ DOMAIN <<>> = {}
  BY <1>2 DEF Formed
<1>4. Promised(t)
  BY DEF Promised, Active, ReadsShot, Unlocked
<1>5. ~Arming(<<>>) /\ ~Awaiting(<<>>) /\ ~Acquiring(<<>>) /\ ~\E i \in DOMAIN <<>> : Obtains(<<>>[i])
  BY <1>3 DEF Arming, Awaiting, Acquiring
<1> QED  BY <1>2, <1>3, <1>4, <1>5 DEF Fetches, Recorded

\* After single() returned, and until run(), stop_acquisition(), another
\* single() or load_settings(), what fetch_waveform() and measure() of an
\* oscilloscope publish is of a record taken since, and _last_acquisition_ts is
\* the time remembered for that record: whatever the threads, on each of the
\* three scopes, whichever of their methods are used and whatever raises.
THEOREM RecordsAreFresh == Spec => []WaveformsAreFresh
<1>1. Inv /\ [Next]_vars => Inv'
  BY NextHolds
<1> QED  BY InitHolds, <1>1, InvGivesFresh, PTL DEF Spec

----------------------------------------------------------------------------
(* What a step changes, whatever the instrument *)

\* The calls that can be made to an instrument.
Issued(k) ==
  Reads(k) \cup Writes(k) \cup Statuses(k) \cup {C("open", "none", 0, 0), C("close", "none", 0, 0)}

Underway(t) == call[t].phase \in {"busy", "post"}

DevParts == {"reg", "sel", "func", "trig", "errs", "acq", "fresh", "wave", "slots"}
HostParts ==
  {"active", "limits", "func", "range", "mode", "armed", "stamp", "source", "type", "average", "slots"}
CallParts == {"c", "phase", "todo", "got", "due", "fresh"}

CallIsWhole(t) ==
  /\ DOMAIN call[t] = CallParts
  /\ call[t].phase \in {"idle", "wait", "busy", "post"}
  /\ IsSeq(call[t].todo)
  /\ call[t].phase # "busy" => call[t].todo = <<>>
  /\ Underway(t) => call[t].c \in Issued(kind)

Base ==
  /\ DOMAIN call = Threads /\ DOMAIN host = HostParts
  /\ DOMAIN dev = DevParts /\ DOMAIN dev.reg = Settings(kind)
  /\ \A t \in Threads : CallIsWhole(t)

\* The instrument, but for its errors and its acquisition; what is remembered,
\* but for the time of the last acquisition.
SameDev ==
  /\ DOMAIN dev' = DOMAIN dev /\ dev'.reg = dev.reg /\ dev'.sel = dev.sel /\ dev'.func = dev.func
  /\ dev'.wave = dev.wave /\ dev'.slots = dev.slots /\ dev'.trig = dev.trig
SameHost ==
  /\ DOMAIN host' = DOMAIN host /\ host'.active = host.active /\ host'.limits = host.limits
  /\ host'.func = host.func /\ host'.range = host.range /\ host'.mode = host.mode
  /\ host'.armed = host.armed /\ host'.source = host.source /\ host'.type = host.type
  /\ host'.average = host.average /\ host'.slots = host.slots

\* The call of t raises.
GivesUp(t) ==
  LET m == call[t].todo[1] IN
  /\ Others(t) /\ call'[t] = Idle /\ host' = host /\ asked' = asked
  /\ owner' = IF owner = t THEN None ELSE owner
  /\ ~RaiseAdrift /\ SameDev
  /\ dev.errs # 0 /\ m.do # "check" => dev'.errs # 0
  /\ m.do \notin {"note", "drain"}
  /\ line = <<>> => line' = <<>>

\* The call of t goes on to its next step, which finds got.
Passes(t) ==
  /\ Others(t) /\ owner' = owner /\ asked' = asked
  /\ DOMAIN call'[t] = CallParts
  /\ call'[t].c = call[t].c /\ call'[t].phase = call[t].phase /\ call'[t].todo = Tail(call[t].todo)

Merged(t, m) == [m EXCEPT !.at = Register, !.to = Insert(call[t].got[2], m.at[1], m.to)]

Command(m, n) == session /\ ~Impossible(dev, n) /\ dev' = Accepted(dev, n) /\ SameHost /\ ~RecallAdrift(n)

Effect(t) ==
  LET m == call[t].todo[1] IN
  \/ m.do = "put" /\ Command(m, m)
  \/ m.do = "put" /\ kind # "Aardvark" /\ SameDev /\ dev'.errs = 1 /\ SameHost /\ ~RefusedAdrift(m)
  \/ m.do = "merge" /\ Command(m, Merged(t, m))
  \/ m.do = "ask" /\ dev' = dev /\ host' = host /\ ~Impossible(dev, m)
  \/ m.do = "block" /\ dev' = dev /\ host' = host
  \/ m.do = "note" /\ dev' = dev /\ host' = Noted(host, m.at, m.to, call[t].got)
  \/ m.do = "check" /\ dev' = dev /\ host' = host /\ (line = <<>> => dev.errs = 0)
  \/ m.do = "compare" /\ dev' = dev /\ host' = host /\ Len(dev.slots) = call[t].got[2] + 1
  \/ m.do \in {"drain", "await", "open", "close"} /\ dev' = dev /\ host' = host

Takes(t) ==
  LET m == call[t].todo[1] IN
  /\ Passes(t) /\ Effect(t)
  /\ ~Obtains(m) => call'[t].got = call[t].got
  /\ Obtains(m) /\ line = <<>> => call'[t].got = Reply(dev, host, m.at)
  /\ line = <<>> /\ m.do # "block" => line' = <<>>

LEMMA AdvancePasses ==
  ASSUME NEW t \in Threads, Base, Advance(t)
  PROVE  Passes(t) /\ call'[t].got = call[t].got
<1>1. DOMAIN call = Threads /\ DOMAIN call[t] = CallParts
  BY DEF Base, CallIsWhole
<1> QED  BY <1>1 DEF Advance, Passes, Others, CallParts

LEMMA AdvanceWithPasses ==
  ASSUME NEW t \in Threads, NEW got, Base, AdvanceWith(t, got)
  PROVE  Passes(t) /\ call'[t].got = got /\ host' = host
<1>1. DOMAIN call = Threads /\ DOMAIN call[t] = CallParts
  BY DEF Base, CallIsWhole
<1> QED  BY <1>1 DEF AdvanceWith, Passes, Others, CallParts

LEMMA RaisesGivesUp ==
  ASSUME NEW t \in Threads, Base, Raises(t), ~adrift', SameDev, call[t].todo[1].do \notin {"note", "drain"},
         dev.errs # 0 /\ call[t].todo[1].do # "check" => dev'.errs # 0
  PROVE  GivesUp(t)
<1>1. DOMAIN call = Threads
  BY DEF Base
<1>2. line = <<>> => line' = <<>>
  BY DEF Raises, LateAnswer
<1>3. ~RaiseAdrift
  BY DEF Raises
<1> QED  BY <1>1, <1>2, <1>3 DEF Raises, GivesUp, Others

LEMMA AtTheStep ==
  ASSUME NEW t \in Threads, NEW do, Base, At(t, do)
  PROVE  /\ Busy(t) /\ call[t].todo # <<>> /\ call[t].todo[1].do = do
         /\ Head1(t) = call[t].todo[1]
<1>1. IsSeq(call[t].todo)
  BY DEF Base, CallIsWhole
<1>2. Busy(t) /\ call[t].todo # <<>> /\ Head1(t).do = do
  BY DEF At, Busy
<1>3. Head1(t) = call[t].todo[1]
  BY <1>1, <1>2, TailOf DEF Head1
<1> QED  BY <1>2, <1>3

LEMMA SameIsSame ==
  /\ dev' = dev => SameDev
  /\ host' = host => SameHost
  BY DEF SameDev, SameHost

LEMMA WrittenIs ==
  ASSUME NEW t \in Threads, NEW n, Base, Written(t, n), ~adrift'
  PROVE  Passes(t) /\ call'[t].got = call[t].got /\ Command(call[t].todo[1], n) /\ line' = line
<1>1. Passes(t) /\ call'[t].got = call[t].got
  BY AdvancePasses DEF Written
<1>2. DOMAIN host = HostParts
  BY DEF Base
<1>3. host' = host \/ host' = Outdated(host)
  BY DEF Written
<1>4. host' = Outdated(host) => SameHost
  BY <1>2 DEF Outdated, SameHost, HostParts
<1>5. SameHost
  BY <1>3, <1>4, SameIsSame
<1> QED  BY <1>1, <1>5 DEF Written, Command

LEMMA PutTakes ==
  ASSUME NEW t \in Threads, Base, PutStep(t), ~adrift'
  PROVE  Takes(t) \/ GivesUp(t)
<1> DEFINE m == call[t].todo[1]
<1>1. m.do = "put" /\ Head1(t) = m
  BY AtTheStep DEF PutStep
<1>2. ~Obtains(m)
  BY <1>1 DEF Obtains
<1>3. CASE Written(t, m)
  <2>1. Passes(t) /\ call'[t].got = call[t].got /\ Command(m, m) /\ line' = line
    BY <1>3, WrittenIs
  <2> HIDE DEF m
  <2>2. Effect(t)
    BY <1>1, <2>1 DEF Effect, m
  <2> QED  BY <1>2, <2>1, <2>2 DEF Takes, m
<1>4. CASE WriteRefused(t, m)
  <2>1. Passes(t) /\ call'[t].got = call[t].got
    BY <1>4, AdvancePasses DEF WriteRefused
  <2>2. DOMAIN dev = DevParts
    BY DEF Base
  <2>3. dev' = [dev EXCEPT !.errs = 1] /\ host' = host /\ line' = line /\ kind # "Aardvark" /\ ~RefusedAdrift(m)
    BY <1>4 DEF WriteRefused, Refused
  <2>4. SameDev /\ dev'.errs = 1
    BY <2>2, <2>3 DEF SameDev, DevParts
  <2> HIDE DEF m
  <2>5. Effect(t)
    BY <1>1, <2>3, <2>4, SameIsSame DEF Effect, m
  <2> QED  BY <1>2, <2>1, <2>3, <2>5 DEF Takes, m
<1>5. CASE WriteRaises(t)
  <2>1. dev' = dev /\ Raises(t)
    BY <1>5 DEF WriteRaises
  <2> QED  BY <1>1, <2>1, SameIsSame, RaisesGivesUp
<1> QED  BY <1>1, <1>3, <1>4, <1>5 DEF PutStep

LEMMA MergeTakes ==
  ASSUME NEW t \in Threads, Base, MergeStep(t), ~adrift'
  PROVE  Takes(t) \/ GivesUp(t)
<1> DEFINE m == call[t].todo[1]
<1>1. m.do = "merge" /\ Head1(t) = m
  BY AtTheStep DEF MergeStep
<1>2. ~Obtains(m)
  BY <1>1 DEF Obtains
<1>3. Written(t, Merged(t, m)) \/ WriteRaises(t)
  BY <1>1 DEF MergeStep, Merged
<1>4. CASE Written(t, Merged(t, m))
  <2>1. Passes(t) /\ call'[t].got = call[t].got /\ Command(m, Merged(t, m)) /\ line' = line
    BY <1>4, WrittenIs
  <2> HIDE DEF m
  <2>2. Effect(t)
    BY <1>1, <2>1 DEF Effect, m
  <2> QED  BY <1>2, <2>1, <2>2 DEF Takes, m
<1>5. CASE WriteRaises(t)
  <2>1. dev' = dev /\ Raises(t)
    BY <1>5 DEF WriteRaises
  <2> QED  BY <1>1, <2>1, SameIsSame, RaisesGivesUp
<1> QED  BY <1>3, <1>4, <1>5

LEMMA AskTakes ==
  ASSUME NEW t \in Threads, Base, AskStep(t), ~adrift'
  PROVE  Takes(t) \/ GivesUp(t)
<1> DEFINE m == call[t].todo[1] reply == Reply(dev, host, m.at)
<1>1. m.do = "ask" /\ Head1(t) = m
  BY AtTheStep DEF AskStep
<1>2. Obtains(m)
  BY <1>1 DEF Obtains
<1>3. \/ ~Impossible(dev, m) /\ Query(reply) /\ AdvanceWith(t, Replied(reply)) /\ dev' = dev
      \/ Raises(t) /\ (dev' = dev \/ dev' = Refused(dev))
  BY <1>1 DEF AskStep, NotOpen
<1>4. CASE ~Impossible(dev, m) /\ Query(reply) /\ AdvanceWith(t, Replied(reply)) /\ dev' = dev
  <2> HIDE DEF reply
  <2>1. Passes(t) /\ call'[t].got = Replied(reply) /\ host' = host
    BY <1>4, AdvanceWithPasses
  <2>2. line = <<>> => line' = <<>> /\ Replied(reply) = reply
    BY <1>4, OneAnswer DEF Query, Replied
  <2> HIDE DEF m
  <2>3. Effect(t)
    BY <1>1, <1>4, <2>1 DEF Effect, m
  <2> QED  BY <1>2, <2>1, <2>2, <2>3 DEF Takes, m, reply
<1>5. CASE Raises(t) /\ (dev' = dev \/ dev' = Refused(dev))
  <2>1. DOMAIN dev = DevParts
    BY DEF Base
  <2>2. dev' = Refused(dev) => SameDev
    BY <2>1 DEF Refused, SameDev, DevParts
  <2>3. dev' = Refused(dev) => dev'.errs = 1
    BY <2>1 DEF Refused, DevParts
  <2> QED  BY <1>1, <1>5, <2>2, <2>3, SameIsSame, RaisesGivesUp
<1> QED  BY <1>3, <1>4, <1>5

LEMMA CompareTakes ==
  ASSUME NEW t \in Threads, Base, CompareStep(t), ~adrift'
  PROVE  Takes(t) \/ GivesUp(t)
<1> DEFINE m == call[t].todo[1]
<1>1. m.do = "compare" /\ ~Obtains(m)
  BY AtTheStep DEF CompareStep, Obtains
<1>2. CASE Len(dev.slots) = call[t].got[2] + 1 /\ Advance(t) /\ UNCHANGED <<session, line, host, dev, adrift>>
  <2>1. Passes(t) /\ call'[t].got = call[t].got
    BY <1>2, AdvancePasses
  <2> HIDE DEF m
  <2>2. Effect(t)
    BY <1>1, <1>2 DEF Effect, m
  <2> QED  BY <1>1, <1>2, <2>1, <2>2 DEF Takes, m
<1>3. CASE Raises(t) /\ dev' = dev
  BY <1>1, <1>3, SameIsSame, RaisesGivesUp
<1> QED  BY <1>2, <1>3 DEF CompareStep, NotOpen

LEMMA CheckTakes ==
  ASSUME NEW t \in Threads, Base, CheckStep(t), ~adrift'
  PROVE  Takes(t) \/ GivesUp(t)
<1> DEFINE m == call[t].todo[1] reply == <<"error", dev.errs>>
<1>1. m.do = "check" /\ ~Obtains(m)
  BY AtTheStep DEF CheckStep, Obtains
<1>2. \/ Query(reply) /\ (Replied(reply) = reply => dev.errs = 0) /\ Advance(t) /\ UNCHANGED <<host, dev, adrift>>
      \/ Raises(t) /\ (dev' = dev \/ dev' = [dev EXCEPT !.errs = 0])
  BY DEF CheckStep, NotOpen
<1> HIDE DEF reply
<1>3. CASE Query(reply) /\ (Replied(reply) = reply => dev.errs = 0) /\ Advance(t) /\ UNCHANGED <<host, dev, adrift>>
  <2>1. Passes(t) /\ call'[t].got = call[t].got
    BY <1>3, AdvancePasses
  <2>2. line = <<>> => line' = <<>> /\ Replied(reply) = reply
    BY <1>3, OneAnswer DEF Query, Replied
  <2> HIDE DEF m
  <2>3. Effect(t)
    BY <1>1, <1>3, <2>2 DEF Effect, m
  <2> QED  BY <1>1, <1>3, <2>1, <2>2, <2>3 DEF Takes, m
<1>4. CASE Raises(t) /\ (dev' = dev \/ dev' = [dev EXCEPT !.errs = 0])
  <2>1. DOMAIN dev = DevParts
    BY DEF Base
  <2>2. dev' = [dev EXCEPT !.errs = 0] => SameDev
    BY <2>1 DEF SameDev, DevParts
  <2> QED  BY <1>1, <1>4, <2>2, SameIsSame, RaisesGivesUp
<1> QED  BY <1>2, <1>3, <1>4

LEMMA BlockTakes ==
  ASSUME NEW t \in Threads, Base, BlockStep(t), ~adrift'
  PROVE  Takes(t) \/ GivesUp(t)
<1> DEFINE m == call[t].todo[1] reply == Reply(dev, host, m.at)
<1>1. m.do = "block" /\ Obtains(m) /\ Head1(t) = m
  BY AtTheStep DEF BlockStep, Obtains
<1>2. \/ AdvanceWith(t, Replied(reply)) /\ dev' = dev
      \/ Raises(t) /\ dev' = dev
  BY <1>1 DEF BlockStep, NotOpen
<1> HIDE DEF reply
<1>3. CASE AdvanceWith(t, Replied(reply)) /\ dev' = dev
  <2>1. Passes(t) /\ call'[t].got = Replied(reply) /\ host' = host
    BY <1>3, AdvanceWithPasses
  <2>2. line = <<>> => Replied(reply) = reply
    BY OneAnswer DEF Replied
  <2> HIDE DEF m
  <2>3. Effect(t)
    BY <1>1, <1>3, <2>1 DEF Effect, m
  <2> QED  BY <1>1, <2>1, <2>2, <2>3 DEF Takes, m, reply
<1>4. CASE Raises(t) /\ dev' = dev
  BY <1>1, <1>4, SameIsSame, RaisesGivesUp
<1> QED  BY <1>2, <1>3, <1>4

LEMMA NoteTakes ==
  ASSUME NEW t \in Threads, Base, NoteStep(t), ~adrift'
  PROVE  Takes(t)
<1> DEFINE m == call[t].todo[1]
<1>1. m.do = "note" /\ ~Obtains(m) /\ Head1(t) = m
  BY AtTheStep DEF NoteStep, Obtains
<1>2. host' = Noted(host, m.at, m.to, call[t].got) /\ Advance(t) /\ UNCHANGED <<session, line, dev, adrift>>
  BY <1>1 DEF NoteStep
<1>3. Passes(t) /\ call'[t].got = call[t].got
  BY <1>2, AdvancePasses
<1> HIDE DEF m
<1>4. Effect(t)
  BY <1>1, <1>2 DEF Effect, m
<1> QED  BY <1>1, <1>2, <1>3, <1>4 DEF Takes, m

\* The steps that change neither instrument nor memory.
LEMMA IdleTakes ==
  ASSUME NEW t \in Threads, NEW do \in {"drain", "await", "open", "close"}, Base, At(t, do), ~adrift',
         Advance(t), host' = host, dev' = dev, line = <<>> => line' = <<>>
  PROVE  Takes(t)
<1> DEFINE m == call[t].todo[1]
<1>1. m.do \in {"drain", "await", "open", "close"} /\ ~Obtains(m)
  BY AtTheStep DEF Obtains
<1>2. Passes(t) /\ call'[t].got = call[t].got
  BY AdvancePasses
<1> HIDE DEF m
<1>3. Effect(t)
  BY <1>1 DEF Effect, m
<1> QED  BY <1>1, <1>2, <1>3 DEF Takes, m

LEMMA AwaitTakes ==
  ASSUME NEW t \in Threads, Base, AwaitStep(t), ~adrift'
  PROVE  Takes(t) \/ GivesUp(t)
<1>1. At(t, "await") /\ call[t].todo[1].do = "await"
  BY AtTheStep DEF AwaitStep
<1>2. CASE Advance(t) /\ UNCHANGED <<session, line, host, dev, adrift>>
  BY <1>1, <1>2, IdleTakes
<1>3. CASE Raises(t) /\ (dev' = dev \/ \E acq : dev' = [dev EXCEPT !.acq = acq])
  <2>1. DOMAIN dev = DevParts
    BY DEF Base
  <2>2. (\E acq : dev' = [dev EXCEPT !.acq = acq]) => SameDev /\ dev'.errs = dev.errs
    BY <2>1 DEF SameDev, DevParts
  <2> QED  BY <1>1, <1>3, <2>2, SameIsSame, RaisesGivesUp
<1>4. \/ Advance(t) /\ UNCHANGED <<session, line, host, dev, adrift>>
      \/ Raises(t) /\ (dev' = dev \/ \E acq : dev' = [dev EXCEPT !.acq = acq])
  BY DEF AwaitStep, NotOpen
<1> QED  BY <1>2, <1>3, <1>4

LEMMA SessionTakes ==
  ASSUME NEW t \in Threads, Base, DrainStep(t) \/ RaiseStep(t) \/ OpenStep(t) \/ CloseStep(t), ~adrift'
  PROVE  Takes(t) \/ GivesUp(t)
<1>1. CASE DrainStep(t)
  <2>1. line = <<>> => line' = <<>>
    BY <1>1 DEF DrainStep, Drain
  <2> QED  BY <1>1, <2>1, IdleTakes DEF DrainStep
<1>2. CASE RaiseStep(t)
  <2>1. call[t].todo[1].do = "raise" /\ dev' = dev /\ Raises(t)
    BY <1>2, AtTheStep DEF RaiseStep
  <2> QED  BY <2>1, SameIsSame, RaisesGivesUp
<1>3. CASE OpenStep(t)
  <2>1. call[t].todo[1].do = "open" /\ At(t, "open")
    BY <1>3, AtTheStep DEF OpenStep
  <2>2. \/ Open(TRUE) /\ Advance(t) /\ UNCHANGED <<host, dev, adrift>>
        \/ Raises(t) /\ dev' = dev
    BY <1>3 DEF OpenStep
  <2>3. Open(TRUE) => (line = <<>> => line' = <<>>)
    BY DEF Open
  <2> QED  BY <2>1, <2>2, <2>3, SameIsSame, RaisesGivesUp, IdleTakes
<1>4. CASE CloseStep(t)
  <2>1. At(t, "close") /\ Advance(t) /\ host' = host /\ dev' = dev /\ line' = line
    BY <1>4 DEF CloseStep, Close
  <2> QED  BY <2>1, IdleTakes
<1> QED  BY <1>1, <1>2, <1>3, <1>4

LEMMA StepTakes ==
  ASSUME NEW t \in Threads, Base, StepOf(t), ~adrift'
  PROVE  /\ Busy(t) /\ call[t].todo # <<>>
         /\ Takes(t) \/ GivesUp(t)
<1>1. Takes(t) \/ GivesUp(t)
  BY PutTakes, MergeTakes, AskTakes, CompareTakes, CheckTakes, BlockTakes, NoteTakes, AwaitTakes, SessionTakes
     DEF StepOf
<1>2. \E do : At(t, do)
  <2>1. CASE PutStep(t) \/ MergeStep(t) \/ AskStep(t) \/ CompareStep(t)
    BY <2>1 DEF PutStep, MergeStep, AskStep, CompareStep
  <2>2. CASE CheckStep(t) \/ BlockStep(t) \/ DrainStep(t) \/ AwaitStep(t)
    BY <2>2 DEF CheckStep, BlockStep, DrainStep, AwaitStep
  <2>3. CASE NoteStep(t) \/ RaiseStep(t) \/ OpenStep(t) \/ CloseStep(t)
    BY <2>3 DEF NoteStep, RaiseStep, OpenStep, CloseStep
  <2> QED  BY <2>1, <2>2, <2>3 DEF StepOf
<1> QED  BY <1>1, <1>2, AtTheStep

\* What a command does to the instrument.
AcceptedParts(d, m, x) ==
  /\ DOMAIN x = DevParts
  /\ m.at[1] # "recall" => DOMAIN x.reg = DOMAIN d.reg /\ x.errs = d.errs
  /\ m.at[1] \notin {"select", "trigger", "recall"} => x.sel = d.sel
  /\ m.at[1] \notin {"function", "recall"} => x.func = d.func
  /\ m.at[1] \notin {"wave source", "recall"} => x.wave = d.wave
  /\ m.at[1] \notin {"add slot", "slot source", "recall"} => x.slots = d.slots
  /\ m.at = <<"select", 0>> => x.sel = m.to
  /\ m.at = <<"function", 0>> => x.func = m.to
  /\ m.at = <<"wave source", 0>> => x.wave = m.to
  /\ m.at = <<"add slot", 0>> => x.slots = Append(d.slots, <<m.to, 1>>)
  /\ m.at = <<"slot source", 0>> => x.slots = [d.slots EXCEPT ![Len(d.slots)][2] = m.to]
  /\ m.at[1] = "recall" => x = DevInit(kind)

LEMMA DevInitIs == DOMAIN DevInit(kind) = DevParts /\ DOMAIN DevInit(kind).reg = Settings(kind)
  BY DEF DevInit, DevParts, Fresh

LEMMA AcceptedDoes ==
  ASSUME NEW d, NEW m, DOMAIN d = DevParts
  PROVE  AcceptedParts(d, m, Accepted(d, m))
<1> DEFINE x == Accepted(d, m) at == Addressed(d, m.at)
<1>1. at[1] = m.at[1]
  BY DEF Addressed
<1>2. /\ m.at = <<"select", 0>> => m.at[1] = "select"
      /\ m.at = <<"function", 0>> => m.at[1] = "function"
      /\ m.at = <<"wave source", 0>> => m.at[1] = "wave source"
      /\ m.at = <<"add slot", 0>> => m.at[1] = "add slot"
      /\ m.at = <<"slot source", 0>> => m.at[1] = "slot source"
  <2>1. \A y : m.at = <<y, 0>> => m.at[1] = y
    OBVIOUS
  <2> QED  BY <2>1
<1> DEFINE n == m.at[1]
<1>3. x = CASE n = "select" -> [d EXCEPT !.sel = m.to]
            [] n = "function" -> [d EXCEPT !.func = m.to]
            [] n = "averaging" -> [d EXCEPT !.reg[<<"acq mode", 0>>] = "AVERAGE",
                                                !.reg[<<"average", 0>>] = m.to]
            [] n = "trigger type" -> [d EXCEPT !.trig = m.to]
            [] n = "trigger" -> [d EXCEPT !.trig = m.to[1], !.sel = m.to[2]]
            [] n = "acquisition" -> [d EXCEPT !.acq = m.to, !.fresh = @ /\ m.to # "armed"]
            [] n = "force" -> [d EXCEPT !.acq = IF @ = "armed" THEN "stopped" ELSE @,
                                            !.fresh = @ \/ d.acq # "stopped"]
            [] n = "wave source" -> [d EXCEPT !.wave = m.to]
            [] n = "add slot" -> [d EXCEPT !.slots = Append(@, <<m.to, 1>>)]
            [] n = "slot source" -> [d EXCEPT !.slots[Len(d.slots)][2] = m.to]
            [] n = "recall" -> DevInit(kind)
            [] OTHER -> IF at \in DOMAIN d.reg THEN [d EXCEPT !.reg[at] = m.to] ELSE d
  BY <1>1 DEF Accepted
<1> HIDE DEF x, at
<1> DEFINE Stay(y) == DOMAIN y = DevParts /\ DOMAIN y.reg = DOMAIN d.reg /\ y.errs = d.errs
           Sel(y) == y.sel = d.sel  Func(y) == y.func = d.func
           Wave(y) == y.wave = d.wave  Slots(y) == y.slots = d.slots
<1>4. CASE n = "recall"
  <2>1. x = DevInit(kind) /\ DOMAIN x = DevParts
    BY <1>3, <1>4, DevInitIs
  <2> QED  BY <1>2, <1>4, <2>1 DEF AcceptedParts, x
<1>5. CASE n = "select"
  <2>1. x = [d EXCEPT !.sel = m.to]
    BY <1>3, <1>5
  <2>2. Stay(x) /\ Func(x) /\ Wave(x) /\ Slots(x) /\ x.sel = m.to
    BY <2>1 DEF DevParts
  <2> QED  BY <1>2, <1>5, <2>2 DEF AcceptedParts, x
<1>6. CASE n = "function"
  <2>1. x = [d EXCEPT !.func = m.to]
    BY <1>3, <1>6
  <2>2. Stay(x) /\ Sel(x) /\ Wave(x) /\ Slots(x) /\ x.func = m.to
    BY <2>1 DEF DevParts
  <2> QED  BY <1>2, <1>6, <2>2 DEF AcceptedParts, x
<1>7. CASE n = "wave source"
  <2>1. x = [d EXCEPT !.wave = m.to]
    BY <1>3, <1>7
  <2>2. Stay(x) /\ Sel(x) /\ Func(x) /\ Slots(x) /\ x.wave = m.to
    BY <2>1 DEF DevParts
  <2> QED  BY <1>2, <1>7, <2>2 DEF AcceptedParts, x
<1>8. CASE n = "add slot"
  <2>1. x = [d EXCEPT !.slots = Append(@, <<m.to, 1>>)]
    BY <1>3, <1>8
  <2>2. Stay(x) /\ Sel(x) /\ Func(x) /\ Wave(x) /\ x.slots = Append(d.slots, <<m.to, 1>>)
    BY <2>1 DEF DevParts
  <2> QED  BY <1>2, <1>8, <2>2 DEF AcceptedParts, x
<1>9. CASE n = "slot source"
  <2>1. x = [d EXCEPT !.slots[Len(d.slots)][2] = m.to]
    BY <1>3, <1>9
  <2>2. Stay(x) /\ Sel(x) /\ Func(x) /\ Wave(x) /\ x.slots = [d.slots EXCEPT ![Len(d.slots)][2] = m.to]
    BY <2>1 DEF DevParts
  <2> QED  BY <1>2, <1>9, <2>2 DEF AcceptedParts, x
<1>10. CASE n = "trigger"
  <2>1. x = [d EXCEPT !.trig = m.to[1], !.sel = m.to[2]]
    BY <1>3, <1>10
  <2>2. Stay(x) /\ Func(x) /\ Wave(x) /\ Slots(x)
    BY <2>1 DEF DevParts
  <2> QED  BY <1>2, <1>10, <2>2 DEF AcceptedParts, x
<1>11. CASE n \notin {"recall", "select", "function", "wave source", "add slot", "slot source", "trigger"}
  <2> SUFFICES Stay(x) /\ Sel(x) /\ Func(x) /\ Wave(x) /\ Slots(x)
    BY <1>2, <1>11 DEF AcceptedParts, x
  <2>1. CASE n = "averaging"
    <3>1. x = [d EXCEPT !.reg[<<"acq mode", 0>>] = "AVERAGE", !.reg[<<"average", 0>>] = m.to]
      BY <1>3, <2>1
    <3> QED  BY <3>1 DEF DevParts
  <2>2. CASE n = "trigger type"
    <3>1. x = [d EXCEPT !.trig = m.to]
      BY <1>3, <2>2
    <3> QED  BY <3>1 DEF DevParts
  <2>3. CASE n = "acquisition"
    <3>1. x = [d EXCEPT !.acq = m.to, !.fresh = @ /\ m.to # "armed"]
      BY <1>3, <2>3
    <3> QED  BY <3>1 DEF DevParts
  <2>4. CASE n = "force"
    <3>1. x = [d EXCEPT !.acq = IF @ = "armed" THEN "stopped" ELSE @, !.fresh = @ \/ d.acq # "stopped"]
      BY <1>3, <2>4
    <3> QED  BY <3>1 DEF DevParts
  <2>5. CASE n \notin {"averaging", "trigger type", "acquisition", "force"}
    <3>1. x = IF at \in DOMAIN d.reg THEN [d EXCEPT !.reg[at] = m.to] ELSE d
      BY <1>3, <1>11, <2>5
    <3> QED  BY <3>1 DEF DevParts
  <2> QED  BY <2>1, <2>2, <2>3, <2>4, <2>5
<1> QED  BY <1>4, <1>5, <1>6, <1>7, <1>8, <1>9, <1>10, <1>11

LEMMA CommandDoes ==
  ASSUME NEW m, NEW n, Base, Command(m, n)
  PROVE  AcceptedParts(dev, n, dev')
<1>1. DOMAIN dev = DevParts
  BY DEF Base
<1> QED  BY <1>1, AcceptedDoes DEF Command

----------------------------------------------------------------------------
(* Lists of certain steps *)

StepParts == {"do", "at", "to", "hold"}
Listed(s) == IsSeq(s) /\ \A i \in DOMAIN s : DOMAIN s[i] = StepParts

\* Steps that do one of D, send one of P and assign one of N.
Fits(m, D, P, N) ==
  /\ m.do \in D /\ DOMAIN m = StepParts
  /\ m.do = "put" => m.at[1] \in P
  /\ m.do = "note" => m.at \in N

Within(s, D, P, N) == IsSeq(s) /\ \A i \in DOMAIN s : Fits(s[i], D, P, N)

\* The last answer a call obtains is the one to at; no answer is obtained.
Asks(s, at) ==
  \E i \in DOMAIN s : /\ Obtains(s[i]) /\ s[i].at = at
                      /\ \A j \in DOMAIN s : j > i => ~Obtains(s[j])
Silent(s) == \A i \in DOMAIN s : ~Obtains(s[i])

\* The method raises before anything is sent.
Refuses(s) == s # <<>> /\ s[1].do = "raise"

LEMMA WithinIsListed ==
  ASSUME NEW s, NEW D, NEW P, NEW N, Within(s, D, P, N)
  PROVE  Listed(s)
  BY DEF Within, Listed, Fits

LEMMA WithinMore ==
  ASSUME NEW s, NEW D, NEW P, NEW N, Within(s, D, P, N), NEW E, NEW Q, NEW O,
         D \subseteq E, P \subseteq Q, N \subseteq O
  PROVE  Within(s, E, Q, O)
  BY DEF Within, Fits

LEMMA EmptyIs ==
  /\ IsSeq(<<>>) /\ DOMAIN <<>> = {} /\ Listed(<<>>) /\ Silent(<<>>) /\ ~Refuses(<<>>)
  /\ \A at : ~Asks(<<>>, at)
  /\ \A D, P, N : Within(<<>>, D, P, N)
<1>1. <<>> \in Seq({}) /\ DOMAIN <<>> = {}
  OBVIOUS
<1>2. IsSeq(<<>>)
  BY <1>1, IsSeqOf
<1>3. \A D, P, N : Within(<<>>, D, P, N)
  BY <1>1, <1>2 DEF Within
<1> QED  BY <1>1, <1>2, <1>3 DEF Listed, Silent, Refuses, Asks

LEMMA OneStepIs ==
  ASSUME NEW do, NEW at, NEW to
  PROVE  LET s == Step(do, at, to) IN
         /\ IsSeq(s) /\ Listed(s) /\ DOMAIN s = {1} /\ Len(s) = 1 /\ s # <<>>
         /\ s[1].do = do /\ s[1].at = at /\ s[1].to = to
         /\ do \notin {"ask", "block"} => Silent(s)
         /\ do \in {"ask", "block"} => Asks(s, at)
         /\ do = "raise" => Refuses(s)
<1> DEFINE s == Step(do, at, to)
<1>1. IsSeq(s) /\ DOMAIN s = {1} /\ s[1] = [do |-> do, at |-> at, to |-> to, hold |-> FALSE] /\ Len(s) = 1
  BY StepOfOne
<1> HIDE DEF s
<1>2. s[1].do = do /\ s[1].at = at /\ s[1].to = to /\ DOMAIN s[1] = StepParts
  BY <1>1 DEF StepParts
<1>3. Listed(s)
  BY <1>1, <1>2 DEF Listed
<1>4. s # <<>>
  BY <1>1, EmptyIs
<1>5. do \notin {"ask", "block"} => Silent(s)
  BY <1>1, <1>2 DEF Silent, Obtains
<1>6. do \in {"ask", "block"} => Asks(s, at)
  BY <1>1, <1>2 DEF Asks, Obtains
<1>7. do = "raise" => Refuses(s)
  BY <1>2, <1>4 DEF Refuses
<1> QED  BY <1>1, <1>2, <1>3, <1>4, <1>5, <1>6, <1>7 DEF s

LEMMA StepWithin ==
  ASSUME NEW do, NEW at, NEW to, NEW D, NEW P, NEW N, do \in D,
         do = "put" => at[1] \in P, do = "note" => at \in N
  PROVE  Within(Step(do, at, to), D, P, N)
<1> DEFINE s == Step(do, at, to)
<1>1. IsSeq(s) /\ Listed(s) /\ DOMAIN s = {1} /\ s[1].do = do /\ s[1].at = at
  BY OneStepIs
<1> HIDE DEF s
<1>2. Fits(s[1], D, P, N)
  BY <1>1 DEF Fits, Listed
<1> QED  BY <1>1, <1>2 DEF Within, s

LEMMA CatWithin ==
  ASSUME NEW a, NEW b, NEW D, NEW P, NEW N, Within(a, D, P, N), Within(b, D, P, N)
  PROVE  Within(a \o b, D, P, N)
<1> DEFINE r == a \o b
<1>1. Joined(a, b)
  BY PlacesOf DEF Within
<1>2. IsSeq(r) /\ \A i \in DOMAIN r : \/ i \in DOMAIN a /\ r[i] = a[i]
                                      \/ i - Len(a) \in DOMAIN b /\ r[i] = b[i - Len(a)]
  BY <1>1 DEF Joined
<1> HIDE DEF r
<1> QED  BY <1>2 DEF Within, r

LEMMA LockedList ==
  ASSUME NEW s, Listed(s)
  PROVE  LET l == Locked(s) IN
         /\ Listed(l) /\ DOMAIN l = DOMAIN s
         /\ \A i \in DOMAIN s : l[i].do = s[i].do /\ l[i].at = s[i].at /\ l[i].to = s[i].to
<1> DEFINE l == Locked(s) n == Len(s)
<1>1. IsSeq(s) /\ n \in Nat /\ DOMAIN s = 1..n
  BY ListOf DEF Listed
<1>2. l = [i \in 1..n |-> [s[i] EXCEPT !.hold = i < n]]
  BY <1>1 DEF Locked
<1> HIDE DEF l, n
<1>3. \A i \in 1..n : DOMAIN s[i] = StepParts
  BY <1>1 DEF Listed
<1>4. \A i \in 1..n : /\ DOMAIN l[i] = StepParts
                      /\ l[i].do = s[i].do /\ l[i].at = s[i].at /\ l[i].to = s[i].to
  <2> TAKE i \in 1..n
  <2>1. l[i] = [s[i] EXCEPT !.hold = i < n] /\ DOMAIN s[i] = StepParts
    BY <1>2, <1>3
  <2> QED  BY <2>1 DEF StepParts
<1> DEFINE S == {l[i] : i \in 1..n}
<1>5. \A i \in 1..n : l[i] \in S
  OBVIOUS
<1>6. l = [i \in 1..n |-> l[i]]
  BY <1>2
<1> HIDE DEF S
<1>7. l \in Seq(S)
  BY <1>1, <1>5, <1>6
<1>8. IsSeq(l) /\ DOMAIN l = 1..n
  BY <1>6, <1>7, IsSeqOf
<1> QED  BY <1>1, <1>4, <1>8 DEF Listed, l

LEMMA LockedWithin ==
  ASSUME NEW s, NEW D, NEW P, NEW N, Within(s, D, P, N)
  PROVE  Within(Locked(s), D, P, N)
<1> DEFINE l == Locked(s)
<1>1. /\ Listed(l) /\ DOMAIN l = DOMAIN s
      /\ \A i \in DOMAIN s : l[i].do = s[i].do /\ l[i].at = s[i].at /\ l[i].to = s[i].to
  BY WithinIsListed, LockedList
<1> HIDE DEF l
<1> QED  BY <1>1 DEF Within, Fits, Listed, l

LEMMA LockedAsks ==
  ASSUME NEW s, Listed(s)
  PROVE  /\ Silent(s) => Silent(Locked(s))
         /\ \A at : Asks(s, at) => Asks(Locked(s), at)
<1> DEFINE l == Locked(s)
<1>1. DOMAIN l = DOMAIN s /\ \A i \in DOMAIN s : l[i].do = s[i].do /\ l[i].at = s[i].at
  BY LockedList
<1> HIDE DEF l
<1>2. Silent(s) => Silent(l)
  BY <1>1 DEF Silent, Obtains
<1>3. \A at : Asks(s, at) => Asks(l, at)
  BY <1>1 DEF Asks, Obtains
<1> QED  BY <1>2, <1>3 DEF l

LEMMA CatAsks ==
  ASSUME NEW a, NEW b, Listed(a), Listed(b)
  PROVE  /\ Listed(a \o b)
         /\ Silent(a) /\ Silent(b) => Silent(a \o b)
         /\ \A at : Asks(b, at) => Asks(a \o b, at)
         /\ \A at : Asks(a, at) /\ Silent(b) => Asks(a \o b, at)
         /\ Refuses(a) => Refuses(a \o b)
<1> DEFINE r == a \o b m == Len(a) n == Len(b)
<1>1. Joined(a, b)
  BY PlacesOf DEF Listed
<1>2. /\ \A i \in DOMAIN r : (i \in DOMAIN a /\ r[i] = a[i]) \/ (i - m \in DOMAIN b /\ r[i] = b[i - m])
      /\ \A i \in DOMAIN a : i \in DOMAIN r /\ r[i] = a[i]
      /\ \A i \in DOMAIN b : m + i \in DOMAIN r /\ r[m + i] = b[i]
      /\ IsSeq(r) /\ m \in Nat /\ n \in Nat /\ DOMAIN a = 1..m /\ DOMAIN b = 1..n
  BY <1>1 DEF Joined
<1>3. DOMAIN r \subseteq Int
  BY <1>2, ListOf
<1> HIDE DEF r, m, n
<1>4. Listed(r)
  BY <1>2 DEF Listed
<1>5. Silent(a) /\ Silent(b) => Silent(r)
  BY <1>2 DEF Silent
<1>6. ASSUME NEW at, Asks(b, at)  PROVE Asks(r, at)
  <2>1. PICK i \in DOMAIN b : Obtains(b[i]) /\ b[i].at = at /\ \A j \in DOMAIN b : j > i => ~Obtains(b[j])
    BY <1>6 DEF Asks
  <2>2. m + i \in DOMAIN r /\ r[m + i] = b[i]
    BY <1>2
  <2>3. \A j \in DOMAIN r : j > m + i => ~Obtains(r[j])
    <3> TAKE j \in DOMAIN r
    <3> HAVE j > m + i
    <3>1. j \notin DOMAIN a /\ j - m > i
      BY <1>2, <1>3
    <3> QED  BY <1>2, <2>1, <3>1
  <2> QED  BY <2>1, <2>2, <2>3 DEF Asks
<1>7. ASSUME NEW at, Asks(a, at), Silent(b)  PROVE Asks(r, at)
  <2>1. PICK i \in DOMAIN a : Obtains(a[i]) /\ a[i].at = at /\ \A j \in DOMAIN a : j > i => ~Obtains(a[j])
    BY <1>7 DEF Asks
  <2>2. i \in DOMAIN r /\ r[i] = a[i]
    BY <1>2
  <2>3. \A j \in DOMAIN r : j > i => ~Obtains(r[j])
    BY <1>2, <1>7, <2>1 DEF Silent
  <2> QED  BY <2>1, <2>2, <2>3 DEF Asks
<1>8. Refuses(a) => Refuses(r)
  <2> SUFFICES ASSUME Refuses(a)  PROVE Refuses(r)
    OBVIOUS
  <2>1. 1 \in DOMAIN a /\ a[1].do = "raise"
    BY TailOf DEF Refuses, Listed
  <2>2. 1 \in DOMAIN r /\ r[1] = a[1]
    BY <1>2, <2>1
  <2>3. r # <<>>
    BY <2>2, EmptyIs
  <2> QED  BY <2>1, <2>2, <2>3 DEF Refuses
<1> QED  BY <1>4, <1>5, <1>6, <1>7, <1>8 DEF r

LEMMA RestAsks ==
  ASSUME NEW s, IsSeq(s), s # <<>>
  PROVE  /\ Silent(s) => ~Obtains(s[1]) /\ Silent(Tail(s))
         /\ \A at : Asks(s, at) => Asks(Tail(s), at) \/ (Obtains(s[1]) /\ s[1].at = at /\ Silent(Tail(s)))
         /\ \A D, P, N : Within(s, D, P, N) => Fits(s[1], D, P, N) /\ Within(Tail(s), D, P, N)
<1> DEFINE r == Tail(s)
<1>1. 1 \in DOMAIN s /\ \A i \in DOMAIN r : r[i] = s[i + 1]
  BY TailOf
<1>2. IsSeq(r) /\ \A i : i \in DOMAIN r <=> i \in Nat \ {0} /\ i + 1 \in DOMAIN s
  BY TailOf
<1>3. DOMAIN s = 1..Len(s) /\ Len(s) \in Nat
  BY ListOf
<1> HIDE DEF r
<1>4. Silent(s) => ~Obtains(s[1]) /\ Silent(r)
  BY <1>1, <1>2 DEF Silent
<1>5. ASSUME NEW at, Asks(s, at)  PROVE Asks(r, at) \/ (Obtains(s[1]) /\ s[1].at = at /\ Silent(r))
  <2>1. PICK i \in DOMAIN s : Obtains(s[i]) /\ s[i].at = at /\ \A j \in DOMAIN s : j > i => ~Obtains(s[j])
    BY <1>5 DEF Asks
  <2>2. CASE i = 1
    <3>1. \A j \in DOMAIN r : ~Obtains(r[j])
      BY <1>1, <1>2, <1>3, <2>1, <2>2
    <3> QED  BY <2>1, <2>2, <3>1 DEF Silent
  <2>3. CASE i # 1
    <3>1. i - 1 \in DOMAIN r /\ r[i - 1] = s[i]
      BY <1>1, <1>2, <1>3, <2>3
    <3>2. \A j \in DOMAIN r : j > i - 1 => ~Obtains(r[j])
      BY <1>1, <1>2, <1>3, <2>1
    <3> QED  BY <2>1, <3>1, <3>2 DEF Asks
  <2> QED  BY <2>2, <2>3
<1>6. ASSUME NEW D, NEW P, NEW N, Within(s, D, P, N)  PROVE Fits(s[1], D, P, N) /\ Within(r, D, P, N)
  BY <1>1, <1>2, <1>6 DEF Within
<1> QED  BY <1>4, <1>5, <1>6 DEF r

----------------------------------------------------------------------------
(* What every call has *)

LEMMA IdleIs ==
  /\ DOMAIN Idle = CallParts /\ Idle.phase = "idle" /\ Idle.c.op = "none" /\ Idle.todo = <<>>
  /\ Idle.got = <<"none", 0>>
  BY DEF Idle, NoCall, C, CallParts

LEMMA PassesBase ==
  ASSUME NEW t \in Threads, Base, Busy(t), call[t].todo # <<>>, Takes(t) \/ GivesUp(t), kind' = kind
  PROVE  \A u \in Threads : CallIsWhole(u)'
<1>1. \A u \in Threads \ {t} : CallIsWhole(u)'
  BY DEF Takes, GivesUp, Passes, Others, Base, CallIsWhole, Underway
<1>2. CASE Takes(t)
  <2>1. IsSeq(Tail(call[t].todo))
    BY TailOf DEF Base, CallIsWhole
  <2> QED  BY <1>1, <1>2, <2>1 DEF Takes, Passes, Base, CallIsWhole, Underway, Busy
<1>3. CASE GivesUp(t)
  <2>1. CallIsWhole(t)'
    BY <1>3, IdleIs, EmptyIs DEF GivesUp, CallIsWhole, Underway
  <2> QED  BY <1>1, <2>1
<1> QED  BY <1>2, <1>3

LEMMA StepBase ==
  ASSUME NEW t \in Threads, Base, Busy(t), call[t].todo # <<>>, Takes(t) \/ GivesUp(t), kind' = kind
  PROVE  Base'
<1>1. DOMAIN call' = Threads
  BY DEF Takes, GivesUp, Passes, Others
<1>2. \A u \in Threads : CallIsWhole(u)'
  BY PassesBase
<1>3. DOMAIN host = HostParts /\ DOMAIN dev = DevParts /\ DOMAIN dev.reg = Settings(kind)
  BY DEF Base
<1>4. CASE GivesUp(t)
  BY <1>1, <1>2, <1>3, <1>4 DEF GivesUp, SameDev, Base
<1>5. ASSUME Takes(t)
      PROVE  DOMAIN dev' = DevParts /\ DOMAIN dev'.reg = Settings(kind)
  <2>1. \/ dev' = dev \/ SameDev
        \/ \E m, n : Command(m, n)
    BY <1>5 DEF Takes, Effect
  <2>2. ASSUME NEW m, NEW n, Command(m, n)
        PROVE  DOMAIN dev' = DevParts /\ DOMAIN dev'.reg = Settings(kind)
    <3>1. AcceptedParts(dev, n, dev')
      BY <2>2, CommandDoes
    <3> QED  BY <1>3, <3>1, DevInitIs DEF AcceptedParts
  <2> QED  BY <1>3, <2>1, <2>2 DEF SameDev
<1>6. ASSUME Takes(t)
      PROVE  DOMAIN host' = HostParts
  <2>1. \/ host' = host \/ SameHost
        \/ \E a, v, got : host' = Noted(host, a, v, got)
    BY <1>6 DEF Takes, Effect, Command
  <2>2. ASSUME NEW a, NEW v, NEW got, host' = Noted(host, a, v, got)
        PROVE  DOMAIN host' = HostParts
    <3>1. \/ \E x, y : host' = [host EXCEPT ![x] = y]
          \/ \E x, y : host' = [host EXCEPT !.armed = x, !.stamp = y]
      BY <2>2 DEF Noted
    <3> QED  BY <1>3, <3>1
  <2> QED  BY <1>3, <2>1, <2>2 DEF SameHost
<1> QED  BY <1>1, <1>2, <1>4, <1>5, <1>6 DEF Base

\* A call that starts, and one that leaves the lock.
Begins(t, c) ==
  LET s == Steps(kind, host, c) IN
  /\ Others(t) /\ DOMAIN call'[t] = CallParts
  /\ call'[t].c = c /\ call'[t].phase = "busy" /\ call'[t].todo = s
  /\ call'[t].got = <<"none", 0>>
  /\ host' = host /\ dev' = dev /\ line' = line

LEMMA EnterBegins ==
  ASSUME NEW t \in Threads, Base, Enter(t)
  PROVE  \E c \in Calls(t) :
           /\ Begins(t, c) /\ ~Underway(t)
           /\ Ready(kind, host, c) /\ (Locks(kind, c) => owner = None)
           /\ owner' = IF Locks(kind, c) THEN t ELSE owner
           /\ adrift' = EnterAdrift(t, c)
           /\ asked' = AskedToo(kind, host, c)
<1>1. PICK c \in Calls(t) :
           /\ IF c.op = "mode" THEN call[t].phase = "wait" /\ call[t].c = c ELSE call[t].phase = "idle"
           /\ Ready(kind, host, c)
           /\ Locks(kind, c) => owner = None
           /\ owner' = IF Locks(kind, c) THEN t ELSE owner
           /\ call' = [call EXCEPT ![t] = [Idle EXCEPT !.c = c, !.phase = "busy", !.due = due,
                                                       !.todo = Steps(kind, host, c)]]
           /\ asked' = AskedToo(kind, host, c)
           /\ adrift' = EnterAdrift(t, c)
           /\ UNCHANGED <<visaVars, host, dev>>
  BY DEF Enter
<1>2. DOMAIN call = Threads
  BY DEF Base
<1> DEFINE s == Steps(kind, host, c)
           x == [Idle EXCEPT !.c = c, !.phase = "busy", !.due = due, !.todo = s]
<1> HIDE DEF s
<1>3. DOMAIN x = CallParts /\ x.c = c /\ x.phase = "busy" /\ x.todo = s /\ x.got = <<"none", 0>>
  BY IdleIs DEF CallParts
<1> HIDE DEF x
<1>4. Others(t) /\ call'[t] = x
  BY <1>1, <1>2 DEF Others, x, s
<1>5. Begins(t, c)
  BY <1>1, <1>3, <1>4 DEF Begins, s, visaVars
<1>6. ~Underway(t)
  BY <1>1 DEF Underway
<1> QED  BY <1>1, <1>5, <1>6

LEMMA CallsAreIssued == ASSUME NEW t \in Threads  PROVE Calls(t) \subseteq Issued(kind)
  BY DEF Calls, Issued

LEMMA EnterBase ==
  ASSUME NEW t \in Threads, NEW c \in Calls(t), Base, Begins(t, c), kind' = kind, IsSeq(Steps(kind, host, c))
  PROVE  Base'
<1>1. c \in Issued(kind)
  BY CallsAreIssued
<1>2. CallIsWhole(t)'
  BY <1>1 DEF Begins, CallIsWhole, Underway
<1>3. \A u \in Threads \ {t} : CallIsWhole(u)'
  BY DEF Begins, Others, Base, CallIsWhole, Underway
<1> QED  BY <1>2, <1>3 DEF Begins, Others, Base

LEMMA FinishEnds ==
  ASSUME NEW t \in Threads, Base, Finish(t)
  PROVE  /\ Others(t) /\ Busy(t) /\ call[t].todo = <<>>
         /\ DOMAIN call'[t] = CallParts /\ call'[t].c = call[t].c /\ call'[t].phase = "post"
         /\ call'[t].todo = call[t].todo /\ call'[t].got = call[t].got
         /\ owner' = IF owner = t THEN None ELSE owner
         /\ host' = host /\ dev' = dev /\ line' = line /\ asked' = AskedOnly(kind, host, call[t].c)
<1>1. DOMAIN call = Threads /\ DOMAIN call[t] = CallParts
  BY DEF Base, CallIsWhole
<1> QED  BY <1>1 DEF Finish, Others, Busy, CallParts, visaVars

LEMMA FinishBase ==
  ASSUME NEW t \in Threads, Base, Finish(t), kind' = kind
  PROVE  Base'
<1>1. /\ Others(t) /\ Busy(t) /\ call[t].todo = <<>>
      /\ DOMAIN call'[t] = CallParts /\ call'[t].c = call[t].c /\ call'[t].phase = "post"
      /\ call'[t].todo = call[t].todo
      /\ host' = host /\ dev' = dev
  BY FinishEnds
<1>2. CallIsWhole(t)'
  BY <1>1 DEF Base, CallIsWhole, Underway, Busy
<1>3. \A u \in Threads \ {t} : CallIsWhole(u)'
  BY <1>1 DEF Others, Base, CallIsWhole, Underway
<1> QED  BY <1>1, <1>2, <1>3 DEF Others, Base

LEMMA PostEnds ==
  ASSUME NEW t \in Threads, Base, Post(t)
  PROVE  /\ Others(t) /\ call[t].phase = "post" /\ call'[t] = Idle
         /\ owner' = owner /\ dev' = dev /\ line' = line /\ asked' = asked
         /\ host' = CASE kind \in Dmms -> DmmPost(host, call[t].c)
                      [] kind \in Scopes -> ScopePost(host, call[t].c, call[t].got, "record")
                      [] OTHER -> host
<1>1. DOMAIN call = Threads
  BY DEF Base
<1> QED  BY <1>1 DEF Post, Others, visaVars

LEMMA PostHost ==
  ASSUME NEW h, NEW c, NEW got, DOMAIN h = HostParts
  PROVE  DOMAIN DmmPost(h, c) = HostParts /\ DOMAIN ScopePost(h, c, got, "record") = HostParts
<1>1. DOMAIN DmmPost(h, c) = HostParts
  BY DEF DmmPost
<1>2. \/ ScopePost(h, c, got, "record") = h
      \/ ScopePost(h, c, got, "record") = [h EXCEPT !.armed = TRUE]
      \/ ScopePost(h, c, got, "record") = [h EXCEPT !.armed = FALSE, !.stamp = "record"]
  BY DEF ScopePost
<1> QED  BY <1>1, <1>2

LEMMA PostBase ==
  ASSUME NEW t \in Threads, Base, Post(t), kind' = kind
  PROVE  Base'
<1>1. /\ Others(t) /\ call'[t] = Idle /\ dev' = dev
      /\ \/ host' = DmmPost(host, call[t].c)
         \/ host' = ScopePost(host, call[t].c, call[t].got, "record")
         \/ host' = host
  BY PostEnds
<1>2. DOMAIN host' = HostParts
  BY <1>1, PostHost DEF Base
<1>3. CallIsWhole(t)'
  BY <1>1, IdleIs, EmptyIs DEF CallIsWhole, Underway
<1>4. \A u \in Threads \ {t} : CallIsWhole(u)'
  BY <1>1 DEF Others, Base, CallIsWhole, Underway
<1> QED  BY <1>1, <1>2, <1>3, <1>4 DEF Others, Base

LEMMA PrepareIs ==
  ASSUME NEW t \in Threads, Base, Prepare(t)
  PROVE  /\ \E c \in Calls(t) : c.op = "mode" /\ host' = LoadPre(host, c)
         /\ Others(t) /\ ~Underway(t) /\ call'[t].phase = "wait" /\ call'[t].todo = <<>> /\ DOMAIN call'[t] = CallParts
         /\ owner' = owner /\ dev' = dev /\ line' = line /\ asked' = asked
<1>1. DOMAIN call = Threads /\ DOMAIN call[t] = CallParts /\ (call[t].phase # "busy" => call[t].todo = <<>>)
  BY DEF Base, CallIsWhole
<1> QED  BY <1>1 DEF Prepare, Others, CallParts, visaVars, Underway

LEMMA PrepareBase ==
  ASSUME NEW t \in Threads, Base, Prepare(t), kind' = kind
  PROVE  Base'
<1>1. /\ \E c \in Calls(t) : host' = LoadPre(host, c)
      /\ Others(t) /\ call'[t].phase = "wait" /\ call'[t].todo = <<>> /\ DOMAIN call'[t] = CallParts /\ dev' = dev
  BY PrepareIs
<1>2. DOMAIN host' = HostParts
  BY <1>1 DEF LoadPre, Base
<1>3. CallIsWhole(t)'
  BY <1>1, EmptyIs DEF CallIsWhole, Underway
<1>4. \A u \in Threads \ {t} : CallIsWhole(u)'
  BY <1>1 DEF Others, Base, CallIsWhole, Underway
<1> QED  BY <1>1, <1>2, <1>3, <1>4 DEF Others, Base

LEMMA TriggerIsSame ==
  ASSUME Base, Trigger
  PROVE  /\ SameDev /\ SameHost /\ dev'.errs = dev.errs
         /\ call' = call /\ owner' = owner /\ asked' = asked /\ line' = line
<1>1. DOMAIN dev = DevParts /\ DOMAIN host = HostParts
  BY DEF Base
<1> QED  BY <1>1 DEF Trigger, Outdated, SameDev, SameHost, DevParts, HostParts, visaVars

LEMMA TriggerBase == ASSUME Base, Trigger, kind' = kind  PROVE Base'
<1>1. SameDev /\ SameHost /\ call' = call
  BY TriggerIsSame
<1>2. \A t \in Threads : CallIsWhole(t)'
  BY <1>1 DEF Base, CallIsWhole, Underway
<1> QED  BY <1>1, <1>2 DEF Base, SameDev, SameHost

----------------------------------------------------------------------------
(* Who holds the lock, and what a reading is about *)

\* _resource_lock is held by the thread that runs a call under it.
Held == \A t \in Threads : owner = t <=> Busy(t) /\ Locks(kind, call[t].c)

LEMMA HeldByOne ==
  ASSUME Held, NEW t \in Threads, NEW u \in Threads, Busy(t), Locks(kind, call[t].c), Busy(u), Locks(kind, call[u].c)
  PROVE  t = u
  BY DEF Held

LEMMA StepHeld ==
  ASSUME NEW t \in Threads, Held, Busy(t), Takes(t) \/ GivesUp(t), kind' = kind
  PROVE  Held'
<1>1. \A u \in Threads \ {t} : call'[u] = call[u]
  BY DEF Takes, Passes, GivesUp, Others
<1>2. CASE Takes(t)
  BY <1>1, <1>2 DEF Takes, Passes, Held, Busy
<1>3. CASE GivesUp(t)
  <2>1. ~Busy(t)'
    BY <1>3, IdleIs DEF GivesUp, Busy
  <2>2. None \notin Threads
    BY BenchAssumption
  <2> QED  BY <1>1, <1>3, <2>1, <2>2 DEF GivesUp, Held, Busy
<1> QED  BY <1>2, <1>3

LEMMA EnterHeld ==
  ASSUME NEW t \in Threads, NEW c, Held, Begins(t, c), ~Underway(t), Locks(kind, c) => owner = None,
         owner' = IF Locks(kind, c) THEN t ELSE owner, kind' = kind
  PROVE  Held'
<1>1. None \notin Threads
  BY BenchAssumption
<1>2. \A u \in Threads \ {t} : call'[u] = call[u]
  BY DEF Begins, Others
<1>3. call'[t].phase = "busy" /\ call'[t].c = c /\ ~Busy(t)
  BY DEF Begins, Busy, Underway
<1> QED  BY <1>1, <1>2, <1>3 DEF Held, Busy

LEMMA FinishHeld ==
  ASSUME NEW t \in Threads, Base, Held, Finish(t), kind' = kind
  PROVE  Held'
<1>1. Others(t) /\ call'[t].phase = "post" /\ owner' = IF owner = t THEN None ELSE owner
  BY FinishEnds
<1>2. None \notin Threads
  BY BenchAssumption
<1> QED  BY <1>1, <1>2 DEF Held, Busy, Others

LEMMA PostHeld ==
  ASSUME NEW t \in Threads, Base, Held, Post(t), kind' = kind
  PROVE  Held'
<1>1. Others(t) /\ call[t].phase = "post" /\ call'[t] = Idle /\ owner' = owner
  BY PostEnds
<1> QED  BY <1>1, IdleIs DEF Held, Busy, Others

LEMMA PrepareHeld ==
  ASSUME NEW t \in Threads, Base, Held, Prepare(t), kind' = kind
  PROVE  Held'
<1>1. Others(t) /\ ~Underway(t) /\ call'[t].phase = "wait" /\ owner' = owner
  BY PrepareIs
<1> QED  BY <1>1 DEF Held, Busy, Others, Underway

LEMMA TriggerHeld == ASSUME Base, Held, Trigger, kind' = kind  PROVE Held'
<1>1. call' = call /\ owner' = owner
  BY TriggerIsSame
<1> QED  BY <1>1 DEF Held, Busy

\* The methods that publish a reading, and the query whose answer they publish.
Publishing == {"read", "fetch", "get", "measure", "save"}
Numbered == {"RigolDP800", "SiglentSPD3303"}

ScopeQuestion(k, c) ==
  CASE c.op = "fetch" /\ k # "SiglentSDS1000XE" -> <<"wave", 0>>
    [] c.op = "measure" /\ k = "Tektronix2SeriesMSO" -> <<"slot", <<c.name, c.ch>>>>
    [] OTHER -> <<c.name, c.ch>>

QuestionOf(k, c, func) ==
  CASE k \in Numbered -> <<c.name, c.ch>>
    [] k \in (Psus \cup Loads) \ Numbered -> <<c.name, 0>>
    [] k = "Agilent34401A" -> <<func, 0>>
    [] k = "Keithley2400" -> <<"read", 0>>
    [] k \in Scopes -> ScopeQuestion(k, c)

Question(t) == QuestionOf(kind, call[t].c, host.func)

\* A call that publishes raises, or has still to ask its question, or has the
\* answer to what it publishes.
Tells(t) ==
  Underway(t) /\ call[t].c.op \in Publishing =>
    LET s == call[t].todo IN
    \/ Refuses(s) \/ Asks(s, Question(t))
    \/ Silent(s) /\ call[t].got = PublishedAs(t)

LEMMA QuestionIs ==
  ASSUME NEW k, NEW c, NEW func
  PROVE  LET q == QuestionOf(k, c, func) IN
         /\ k \in Numbered => q = <<c.name, c.ch>>
         /\ k \in Psus \cup Loads /\ k \notin Numbered => q = <<c.name, 0>>
         /\ k = "Agilent34401A" => q = <<func, 0>>
         /\ k = "Keithley2400" => q = <<"read", 0>>
         /\ k \in Scopes => q = ScopeQuestion(k, c)
<1> DEFINE q == QuestionOf(k, c, func)
<1>1. q = CASE k \in Numbered -> <<c.name, c.ch>>
            [] k \in (Psus \cup Loads) \ Numbered -> <<c.name, 0>>
            [] k = "Agilent34401A" -> <<func, 0>>
            [] k = "Keithley2400" -> <<"read", 0>>
            [] k \in Scopes -> ScopeQuestion(k, c)
  BY DEF QuestionOf
<1> HIDE DEF q
<1>2. CASE k \in Numbered
  <2>1. k \notin (Psus \cup Loads) \ Numbered /\ k \notin Dmms \cup Scopes \cup Loads
    BY <1>2 DEF Numbered, Dmms, Scopes, Loads
  <2> QED  BY <1>1, <1>2, <2>1 DEF q, Dmms
<1>3. CASE k \in Psus \cup Loads /\ k \notin Numbered
  <2>1. k \notin Dmms \cup Scopes
    BY <1>3, KindsApart
  <2> QED  BY <1>1, <1>3, <2>1 DEF q, Dmms
<1>4. CASE k \in Dmms
  <2>1. k \notin Psus \cup Loads \cup Scopes \cup Numbered
    BY <1>4, KindsApart DEF Dmms, Numbered
  <2> QED  BY <1>1, <1>4, <2>1 DEF q, Dmms
<1>5. CASE k \in Scopes
  <2>1. k \notin Psus \cup Loads \cup Dmms \cup Numbered
    BY <1>5, KindsApart DEF Scopes, Numbered
  <2> QED  BY <1>1, <1>5, <2>1 DEF q, Dmms
<1>6. k = "Agilent34401A" \/ k = "Keithley2400" => k \in Dmms
  BY DEF Dmms
<1> QED  BY <1>2, <1>3, <1>4, <1>5, <1>6 DEF q

LEMMA SameQuestion ==
  ASSUME NEW t \in Threads, kind' = kind, call'[t].c = call[t].c, host'.func = host.func
  PROVE  Question(t)' = Question(t) /\ PublishedAs(t)' = PublishedAs(t)
<1>1. Question(t)' = Question(t)
  BY DEF Question
<1>2. PublishedAs(t)' = PublishedAs(t)
  BY DEF PublishedAs
<1> QED  BY <1>1, <1>2

LEMMA TellsStays ==
  ASSUME NEW t \in Threads, Tells(t), kind' = kind, call'[t] = call[t], host'.func = host.func
  PROVE  Tells(t)'
<1>1. Question(t)' = Question(t) /\ PublishedAs(t)' = PublishedAs(t)
  BY SameQuestion
<1> QED  BY <1>1 DEF Tells, Underway

LEMMA TellsOn ==
  ASSUME NEW t \in Threads, Base, Busy(t), call[t].todo # <<>>, Tells(t), Takes(t),
         Obtains(call[t].todo[1]) => line = <<>>,
         kind' = kind, host'.func = host.func,
         LET m == call[t].todo[1] IN
           call[t].c.op \in Publishing /\ Obtains(m) /\ m.at = Question(t) /\ (m.do = "ask" => ~Impossible(dev, m))
             => Reply(dev, host, m.at) = PublishedAs(t)
  PROVE  Tells(t)'
<1> DEFINE s == call[t].todo m == s[1] q == Question(t) p == PublishedAs(t)
<1>1. call'[t].c = call[t].c /\ call'[t].phase = call[t].phase /\ call'[t].todo = Tail(s)
  BY DEF Takes, Passes
<1>2. Question(t)' = q /\ PublishedAs(t)' = p
  BY <1>1, SameQuestion
<1>3. (~Obtains(m) => call'[t].got = call[t].got) /\ (Obtains(m) => call'[t].got = Reply(dev, host, m.at))
  BY DEF Takes
<1>4. ~Refuses(s) /\ (m.do = "ask" => ~Impossible(dev, m))
  BY DEF Takes, Effect, Refuses
<1>5. IsSeq(s) /\ s # <<>>
  BY DEF Base, CallIsWhole
<1> HIDE DEF s, q, p
<1>6. /\ Silent(s) => ~Obtains(m) /\ Silent(Tail(s))
      /\ Asks(s, q) => Asks(Tail(s), q) \/ (Obtains(m) /\ m.at = q /\ Silent(Tail(s)))
  BY <1>5, RestAsks
<1>7. ASSUME Underway(t), call[t].c.op \in Publishing
      PROVE  Asks(Tail(s), q) \/ (Silent(Tail(s)) /\ call'[t].got = p)
  <2>1. Asks(s, q) \/ (Silent(s) /\ call[t].got = p)
    BY <1>4, <1>7 DEF Tells, s, q, p
  <2>2. CASE Obtains(m) /\ m.at = q /\ Silent(Tail(s))
    <3>1. Reply(dev, host, m.at) = p
      BY <1>4, <1>7, <2>2 DEF s, q, p
    <3> QED  BY <1>3, <2>2, <3>1
  <2> QED  BY <1>3, <1>6, <2>1, <2>2
<1> QED  BY <1>1, <1>2, <1>7 DEF Tells, Underway

LEMMA TellsNothing ==
  ASSUME NEW t \in Threads, ~Underway(t)'
  PROVE  Tells(t)'
  BY DEF Tells

LEMMA TellsNew ==
  ASSUME NEW t \in Threads, NEW c, Begins(t, c), kind' = kind,
         c.op \in Publishing => LET s == Steps(kind, host, c) IN
                                Refuses(s) \/ Asks(s, QuestionOf(kind, c, host.func))
  PROVE  Tells(t)'
  BY DEF Begins, Tells, Question

LEMMA TellsEnd ==
  ASSUME NEW t \in Threads, Base, Finish(t), Tells(t), kind' = kind
  PROVE  Tells(t)'
<1>1. /\ Busy(t) /\ call'[t].c = call[t].c /\ call'[t].todo = call[t].todo /\ call'[t].got = call[t].got
      /\ host' = host
  BY FinishEnds
<1>2. Question(t)' = Question(t) /\ PublishedAs(t)' = PublishedAs(t)
  BY <1>1, SameQuestion
<1> QED  BY <1>1, <1>2 DEF Tells, Underway, Busy

LEMMA TellsRight ==
  ASSUME NEW t \in Threads, Base, Tells(t), call[t].phase = "post", call[t].c.op \in Publishing
  PROVE  PublishedAs(t) = call[t].got
<1>1. call[t].todo = <<>>
  BY DEF Base, CallIsWhole
<1> QED  BY <1>1, EmptyIs DEF Tells, Underway

\* A step that leaves the remembered function alone.
LEMMA FuncStays ==
  ASSUME NEW t \in Threads, Base, Takes(t) \/ GivesUp(t),
         LET m == call[t].todo[1] IN m.do = "note" => m.at # "func"
  PROVE  host'.func = host.func
<1>1. CASE GivesUp(t)
  BY <1>1 DEF GivesUp
<1>2. CASE Takes(t)
  <2> DEFINE m == call[t].todo[1]
  <2>1. \/ host' = host \/ SameHost
        \/ m.do = "note" /\ host' = Noted(host, m.at, m.to, call[t].got)
    BY <1>2 DEF Takes, Effect, Command
  <2>2. DOMAIN host = HostParts
    BY DEF Base
  <2>3. ASSUME m.do = "note", host' = Noted(host, m.at, m.to, call[t].got)
        PROVE  host'.func = host.func
    <3>1. m.at # "func"
      BY <2>3
    <3> QED  BY <2>2, <2>3, <3>1 DEF Noted, HostParts
  <2> QED  BY <2>1, <2>3 DEF SameHost
<1> QED  BY <1>1, <1>2

----------------------------------------------------------------------------
(* The power supplies *)

ScpiDoes == {"open", "close", "check", "ask", "raise", "put", "note"}
Quantities == {"voltage", "ocp"}
Transfers == {"get", "set"}

\* Steps that leave the selected channel and the memory of it alone.
Direct(s) == Within(s, ScpiDoes, Quantities, {"limits"})

\* The BK914X remembers, or selects and remembers, channel ch first.
Remembers(s, ch) ==
  /\ IsSeq(s) /\ s # <<>>
  /\ s[1].do = "note" /\ s[1].at = "active" /\ s[1].to = ch
  /\ Direct(Tail(s))
Selects(s, ch) ==
  /\ IsSeq(s) /\ s # <<>>
  /\ s[1].do = "put" /\ s[1].at = Select /\ s[1].to = ch
  /\ Remembers(Tail(s), ch)

\* A query without a channel number is only asked of the channel it is meant for.
Targets(t) ==
  Busy(t) =>
    LET s == call[t].todo c == call[t].c IN
    \/ Direct(s) /\ (c.op \in Transfers /\ kind \notin Numbered => Refuses(s) \/ dev.sel = c.ch)
    \/ kind = "BK914X" /\ c.op \in Transfers /\ Selects(s, c.ch)
    \/ kind = "BK914X" /\ c.op \in Transfers /\ Remembers(s, c.ch) /\ dev.sel = c.ch

Remembering(t) ==
  /\ Busy(t) /\ call[t].c.op \in Transfers /\ call[t].todo # <<>>
  /\ call[t].todo[1].do = "note" /\ call[t].todo[1].at = "active"

\* What the BK914X remembers to have selected is selected, or about to be corrected.
SelectInv ==
  /\ kind # "BK914X" => dev.sel = 1
  /\ kind = "BK914X" => host.active \in {None, dev.sel} \/ \E t \in Threads : Remembering(t)

PsuInv == line = <<>> /\ SelectInv /\ \A t \in Threads : Targets(t) /\ Tells(t)

LEMMA PsuCalls ==
  ASSUME kind \in Psus, NEW c \in Issued(kind)
  PROVE  /\ c.op \in {"get", "set", "status", "open", "close"}
         /\ Locks(kind, c) <=> c.op \in Transfers
         /\ c.op \in Transfers => c.name \in Quantities /\ c.ch \in Channels
         /\ c.op = "status" => kind \in Numbered
<1>1. kind \notin Dmms \cup Loads \cup Scopes \cup {"Aardvark"}
  BY KindsApart
<1>2. c \in PsuReads \cup PsuWrites \cup Statuses(kind) \cup {C("open", "none", 0, 0), C("close", "none", 0, 0)}
  BY <1>1 DEF Issued, Reads, Writes
<1>3. 1 \in Channels
  BY BenchAssumption
<1>4. CASE c \in PsuReads
  BY <1>1, <1>3, <1>4 DEF PsuReads, C, Locks, Transfers, Quantities
<1>5. CASE c \in PsuWrites
  BY <1>1, <1>5 DEF PsuWrites, C, Locks, Transfers, Quantities
<1>6. CASE c \in Statuses(kind)
  BY <1>1, <1>6 DEF Statuses, C, Locks, Transfers, Numbered
<1>7. CASE c \in {C("open", "none", 0, 0), C("close", "none", 0, 0)}
  BY <1>1, <1>7 DEF C, Locks, Transfers
<1> QED  BY <1>2, <1>4, <1>5, <1>6, <1>7

LEMMA PsuSettings ==
  ASSUME kind \in Psus
  PROVE  \A x \in Settings(kind) : x[2] \in {1, 2} /\ x = <<x[1], x[2]>>
<1> DEFINE n(k) == IF k \in {"RigolDP800", "SiglentSPD3303", "BK914X"} THEN 2 ELSE 1
<1>1. Settings(kind) = Quantities \X (1..n(kind)) /\ n(kind) \in {1, 2}
  <2>1. kind \notin Dmms \cup Loads \cup Scopes \cup {"Aardvark"}
    BY KindsApart
  <2> QED  BY <2>1 DEF Settings, Quantities
<1> HIDE DEF n
<1>2. 1..n(kind) \subseteq {1, 2}
  BY <1>1
<1> QED  BY <1>1, <1>2

\* What a query of a voltage or a protection threshold is answered with.
LEMMA PsuReply ==
  ASSUME NEW d, NEW h, NEW name \in Quantities, NEW ch
  PROVE  /\ Reply(d, h, <<name, ch>>) = Addressed(d, <<name, ch>>)
         /\ Addressed(d, <<name, ch>>) = IF ch = 0 /\ <<name, d.sel>> \in DOMAIN d.reg THEN <<name, d.sel>> ELSE <<name, ch>>
<1>1. <<name, ch>>[1] = name /\ <<name, ch>>[2] = ch /\ <<name, ch>> # <<"wave", 0>>
  BY DEF Quantities
<1>2. Reply(d, h, <<name, ch>>) = Addressed(d, <<name, ch>>)
  BY <1>1 DEF Reply, Quantities
<1> QED  BY <1>1, <1>2 DEF Addressed

LEMMA PsuAnswers ==
  ASSUME Base, kind \in Psus, NEW t \in Threads, Busy(t), call[t].c.op \in Publishing,
         NEW m, m.at = Question(t), ~Impossible(dev, m),
         kind \notin Numbered => dev.sel = call[t].c.ch
  PROVE  Reply(dev, host, m.at) = PublishedAs(t)
<1> DEFINE c == call[t].c
<1>1. c \in Issued(kind)
  BY DEF Base, CallIsWhole, Underway, Busy
<1>2. c.op = "get" /\ c.name \in Quantities /\ c.ch \in Channels
  BY <1>1, PsuCalls DEF Publishing, Transfers
<1>3. c.ch # 0
  BY <1>2, ChannelsAssumption
<1>4. PublishedAs(t) = <<c.name, c.ch>>
  BY <1>2 DEF PublishedAs
<1>5. /\ kind \in Numbered => m.at = <<c.name, c.ch>>
      /\ kind \notin Numbered => m.at = <<c.name, 0>> /\ dev.sel = c.ch
  BY QuestionIs DEF Question
<1>6. <<c.name, 0>> \notin DOMAIN dev.reg
  <2>1. DOMAIN dev.reg = Settings(kind)
    BY DEF Base
  <2>2. <<c.name, 0>>[2] = 0
    OBVIOUS
  <2> QED  BY <2>1, <2>2, PsuSettings
<1> HIDE DEF c
<1> DEFINE name == c.name ch == c.ch
<1>7. name \in Quantities /\ ch # 0
  BY <1>2, <1>3
<1> HIDE DEF name, ch
<1>8. /\ Reply(dev, host, <<name, ch>>) = <<name, ch>>
      /\ Reply(dev, host, <<name, 0>>) = Addressed(dev, <<name, 0>>)
      /\ Addressed(dev, <<name, 0>>) = IF <<name, dev.sel>> \in DOMAIN dev.reg THEN <<name, dev.sel>> ELSE <<name, 0>>
  BY <1>7, PsuReply
<1>9. CASE kind \in Numbered
  BY <1>4, <1>5, <1>8, <1>9 DEF name, ch
<1>10. CASE kind \notin Numbered
  <2>1. m.at = <<name, 0>> /\ dev.sel = ch
    BY <1>5, <1>10 DEF name, ch
  <2>2. m.at[1] \in Quantities
    BY <1>7, <2>1
  <2>3. Addressed(dev, m.at) \in DOMAIN dev.reg
    BY <2>2 DEF Impossible, Quantities
  <2>4. <<name, 0>> \notin DOMAIN dev.reg
    BY <1>6 DEF name
  <2>5. <<name, dev.sel>> \in DOMAIN dev.reg
    BY <1>8, <2>1, <2>3, <2>4
  <2>6. PublishedAs(t) = <<name, ch>>
    BY <1>4 DEF name, ch
  <2> QED  BY <1>8, <2>1, <2>5, <2>6
<1> QED  BY <1>9, <1>10

LEMMA DirectSteps ==
  /\ Direct(Check) /\ Silent(Check) /\ Listed(Check)
  /\ Direct(Refuse) /\ Refuses(Refuse)
  /\ Direct(<<>>)
  /\ \A at : Direct(Ask(at)) /\ Listed(Ask(at)) /\ Asks(Ask(at), at)
  /\ \A name \in Quantities : \A ch, v : Direct(Put(<<name, ch>>, v))
  /\ \A v : Direct(Note("limits", v))
  /\ Direct(Step("open", <<"session", 0>>, 0)) /\ Direct(Step("close", <<"session", 0>>, 0))
<1>1. Direct(Check) /\ Silent(Check) /\ Listed(Check)
  BY StepWithin, OneStepIs DEF Direct, Check, ScpiDoes
<1>2. Direct(Refuse) /\ Refuses(Refuse)
  BY StepWithin, OneStepIs DEF Direct, Refuse, ScpiDoes
<1>3. Direct(<<>>)
  BY EmptyIs DEF Direct
<1>4. \A at : Direct(Ask(at)) /\ Listed(Ask(at)) /\ Asks(Ask(at), at)
  BY StepWithin, OneStepIs DEF Direct, Ask, ScpiDoes
<1>5. ASSUME NEW name \in Quantities, NEW ch, NEW v
      PROVE  Direct(Put(<<name, ch>>, v))
  <2>1. <<name, ch>>[1] \in Quantities
    OBVIOUS
  <2> QED  BY <2>1, StepWithin DEF Direct, Put, ScpiDoes
<1>6. \A v : Direct(Note("limits", v))
  BY StepWithin DEF Direct, Note, ScpiDoes
<1>7. Direct(Step("open", <<"session", 0>>, 0)) /\ Direct(Step("close", <<"session", 0>>, 0))
  BY StepWithin DEF Direct, ScpiDoes
<1> QED  BY <1>1, <1>2, <1>3, <1>4, <1>5, <1>6, <1>7

LEMMA DirectMore ==
  ASSUME NEW a, NEW b, Direct(a), Direct(b)
  PROVE  Direct(a \o b) /\ Direct(Locked(a)) /\ Listed(a)
  BY CatWithin, LockedWithin, WithinIsListed DEF Direct

LEMMA TransferList ==
  ASSUME NEW c, c.op \in Transfers, c.name \in Quantities, NEW ch
  PROVE  LET s == Transfer(c, ch) IN
         /\ Direct(s) /\ Direct(s \o Check) /\ Direct(Checked(c, ch))
         /\ c.op = "get" => /\ Asks(s, <<c.name, ch>>) /\ Asks(s \o Check, <<c.name, ch>>)
                            /\ Asks(Checked(c, ch), <<c.name, ch>>)
<1> DEFINE s == Transfer(c, ch)
<1>1. Direct(s)
  BY DirectSteps DEF Transfer
<1>2. c.op = "get" => Asks(s, <<c.name, ch>>)
  BY DirectSteps DEF Transfer
<1> HIDE DEF s
<1>3. Direct(s \o Check) /\ Direct(Locked(s \o Check)) /\ Listed(s) /\ Listed(Check) /\ Listed(s \o Check)
  BY <1>1, DirectSteps, DirectMore
<1>4. \A at : Asks(s, at) => Asks(s \o Check, at)
  BY <1>3, CatAsks, DirectSteps
<1>5. \A at : Asks(s \o Check, at) => Asks(Locked(s \o Check), at)
  BY <1>3, LockedAsks
<1> QED  BY <1>1, <1>2, <1>3, <1>4, <1>5 DEF Checked, s

\* A selection is kept by what comes after it, and by the lock around both.
LEMMA SelectsMore ==
  ASSUME NEW ch, NEW b, Direct(b)
  PROVE  LET s == Locked((Put(Select, ch) \o Note("active", ch)) \o b) IN
         Selects(s, ch) /\ \A at : Asks(b, at) => Asks(s, at)
<1> DEFINE p == Put(Select, ch) q == Note("active", ch) a == p \o q r == a \o b s == Locked(r)
<1>1. IsSeq(p) /\ Listed(p) /\ DOMAIN p = {1} /\ Len(p) = 1 /\ p[1].do = "put" /\ p[1].at = Select /\ p[1].to = ch
  BY OneStepIs DEF Put
<1>2. IsSeq(q) /\ Listed(q) /\ DOMAIN q = {1} /\ Len(q) = 1 /\ q[1].do = "note" /\ q[1].at = "active" /\ q[1].to = ch
  BY OneStepIs DEF Note
<1>3. Listed(b) /\ IsSeq(b)
  BY WithinIsListed DEF Direct, Listed
<1> HIDE DEF p, q
<1>4. Joined(p, q) /\ Listed(a)
  BY <1>1, <1>2, PlacesOf, CatAsks
<1>5. 1 \in DOMAIN a /\ 2 \in DOMAIN a /\ a[1] = p[1] /\ a[2] = q[1] /\ Len(a) = 2 /\ IsSeq(a)
  <2>1. 1 \in DOMAIN p /\ 1 \in DOMAIN q /\ Len(p) + 1 = 2 /\ Len(p) + Len(q) = 2
    BY <1>1, <1>2
  <2> QED  BY <1>4, <2>1 DEF Joined
<1> HIDE DEF a
<1>6. Joined(a, b) /\ Listed(r) /\ \A at : Asks(b, at) => Asks(r, at)
  BY <1>3, <1>4, <1>5, PlacesOf, CatAsks
<1>7. /\ 1 \in DOMAIN r /\ 2 \in DOMAIN r /\ r[1] = p[1] /\ r[2] = q[1]
      /\ \A i \in DOMAIN r : i > 2 => i - 2 \in DOMAIN b /\ r[i] = b[i - 2]
  <2>1. DOMAIN a = 1..2
    BY <1>5, ListOf
  <2> QED  BY <1>5, <1>6, <2>1 DEF Joined
<1> HIDE DEF r
<1>8. /\ Listed(s) /\ DOMAIN s = DOMAIN r
      /\ \A i \in DOMAIN r : s[i].do = r[i].do /\ s[i].at = r[i].at /\ s[i].to = r[i].to
  BY <1>6, LockedList
<1>9. \A at : Asks(b, at) => Asks(s, at)
  BY <1>6, LockedAsks
<1> HIDE DEF s
<1>10. /\ s[1].do = "put" /\ s[1].at = Select /\ s[1].to = ch
       /\ s[2].do = "note" /\ s[2].at = "active" /\ s[2].to = ch
  BY <1>1, <1>2, <1>7, <1>8
<1> DEFINE u == Tail(s) v == Tail(u)
<1>11. IsSeq(s) /\ s # <<>> /\ DOMAIN s \subseteq Nat
  BY <1>7, <1>8, EmptyIs, ListOf DEF Listed
<1>12. /\ IsSeq(u) /\ u[1] = s[2] /\ u # <<>>
       /\ \A i : i \in DOMAIN u <=> i \in Nat \ {0} /\ i + 1 \in DOMAIN s
       /\ \A i \in DOMAIN u : u[i] = s[i + 1]
  <2>1. 1 \in Nat \ {0} /\ 1 + 1 \in DOMAIN s
    BY <1>7, <1>8
  <2>2. 1 \in DOMAIN u
    BY <1>11, <2>1, TailOf
  <2> QED  BY <1>11, <2>2, TailOf, EmptyIs
<1> HIDE DEF u
<1>13. IsSeq(v) /\ \A i \in DOMAIN v : i \in Nat \ {0} /\ i + 2 \in DOMAIN s /\ v[i] = s[i + 2]
  <2>1. IsSeq(v) /\ \A i \in DOMAIN v : i \in Nat \ {0} /\ i + 1 \in DOMAIN u /\ v[i] = u[i + 1]
    BY <1>12, TailOf
  <2>2. \A i \in DOMAIN v : (i + 1) + 1 = i + 2
    BY <2>1
  <2> QED  BY <1>12, <2>1, <2>2
<1> HIDE DEF v
<1>14. Direct(v)
  <2>1. \A i \in DOMAIN v : i \in DOMAIN b /\ v[i].do = b[i].do /\ v[i].at = b[i].at /\ DOMAIN v[i] = StepParts
    <3> TAKE i \in DOMAIN v
    <3>1. i + 2 \in DOMAIN r /\ i + 2 > 2 /\ (i + 2) - 2 = i /\ v[i] = s[i + 2]
      BY <1>8, <1>13
    <3>2. i \in DOMAIN b /\ r[i + 2] = b[i]
      BY <1>7, <3>1
    <3> QED  BY <1>8, <3>1, <3>2 DEF Listed
  <2> QED  BY <1>13, <2>1 DEF Direct, Within, Fits
<1>15. Remembers(u, ch)
  BY <1>10, <1>12, <1>14 DEF Remembers, v
<1> QED  BY <1>9, <1>10, <1>11, <1>15 DEF Selects, s, r, a, p, q, u

LEMMA CatAssoc ==
  ASSUME NEW a, NEW b, NEW c, IsSeq(a), IsSeq(b), IsSeq(c)
  PROVE  (a \o b) \o c = a \o (b \o c) /\ <<>> \o a = a
<1> DEFINE S == {a[i] : i \in DOMAIN a} \cup {b[i] : i \in DOMAIN b} \cup {c[i] : i \in DOMAIN c}
<1>1. a \in Seq({a[i] : i \in DOMAIN a}) /\ b \in Seq({b[i] : i \in DOMAIN b}) /\ c \in Seq({c[i] : i \in DOMAIN c})
  BY DEF IsSeq
<1>2. (\A i \in DOMAIN a : a[i] \in S) /\ (\A i \in DOMAIN b : b[i] \in S) /\ (\A i \in DOMAIN c : c[i] \in S)
  OBVIOUS
<1> HIDE DEF S
<1>3. a \in Seq(S) /\ b \in Seq(S) /\ c \in Seq(S)
  BY <1>1, <1>2, ListsOfElements
<1> QED  BY <1>3

LEMMA DirectTransactions ==
  /\ Direct(LoadLimits([ch \in RigolChannels |-> 1]))
  /\ Direct(RigolStatus) /\ Direct(SiglentStatus)
<1> DEFINE q(at) == Ask(at) \o Check
<1>1. \A at : Direct(Ask(at)) /\ Direct(Check)
  BY DirectSteps
<1>2. \A at : Direct(q(at)) /\ Direct(Locked(q(at)))
  <2> TAKE at
  <2>1. Direct(q(at))
    BY <1>1, DirectMore
  <2> HIDE DEF q
  <2> QED  BY <2>1, DirectMore
<1> DEFINE n == Note("limits", [ch \in RigolChannels |-> 1])
<1>3. Direct(n)
  BY DirectSteps
<1>4. LoadLimits([ch \in RigolChannels |-> 1]) = q(<<"idn", 0>>) \o Locked(q(<<"limit", 1>>)) \o Locked(q(<<"limit", 2>>)) \o n
  BY DEF LoadLimits
<1>5. SiglentStatus = Locked(q(<<"status", 0>>))
  BY DEF SiglentStatus
<1>6. RigolStatus = Locked(q(<<"enabled", 1>>) \o Ask(<<"condition", 1>>) \o Check
                             \o Ask(<<"enabled", 2>>) \o Check \o Ask(<<"condition", 2>>) \o Check)
  BY DEF RigolStatus
<1> HIDE DEF q, n
<1>7. Direct(q(<<"idn", 0>>) \o Locked(q(<<"limit", 1>>)) \o Locked(q(<<"limit", 2>>)) \o n)
  BY <1>2, <1>3, DirectMore
<1> DEFINE a == q(<<"enabled", 1>>) \o Ask(<<"condition", 1>>)
           b == a \o Check \o Ask(<<"enabled", 2>>)
           d == b \o Check \o Ask(<<"condition", 2>>) \o Check
<1>8. Direct(a)
  BY <1>1, <1>2, DirectMore
<1> HIDE DEF a
<1>9. Direct(b)
  BY <1>1, <1>8, DirectMore
<1> HIDE DEF b
<1>10. Direct(d)
  BY <1>1, <1>9, DirectMore
<1> HIDE DEF d
<1>11. Direct(Locked(d))
  BY <1>10, DirectMore
<1> QED  BY <1>2, <1>4, <1>5, <1>6, <1>7, <1>11 DEF a, b, d

\* What a call to a supply does, once it is known what it is a call to.
PsuList(s, c) ==
  /\ IF kind = "BK914X" /\ c.op \in Transfers /\ c.ch # host.active THEN Selects(s, c.ch) ELSE Direct(s)
  /\ c.op \in Transfers /\ kind \notin Numbered => Refuses(s) \/ c.ch = 1 \/ kind \in {"KeysightE36100", "BK914X"}
  /\ c.op = "get" => Refuses(s) \/ Asks(s, IF kind \in Numbered THEN <<c.name, c.ch>> ELSE <<c.name, 0>>)

LEMMA PsuStepsAre ==
  ASSUME kind \in Psus, NEW c \in Issued(kind), c.op \notin {"open", "close"}
  PROVE  PsuList(PsuSteps(kind, host, c), c)
<1> DEFINE s == PsuSteps(kind, host, c)
<1>1. /\ c.op \in Transfers \cup {"status"}
      /\ c.op \in Transfers => c.name \in Quantities /\ c.ch \in Channels
      /\ c.op = "status" => kind \in Numbered
  BY PsuCalls DEF Transfers
<1>2. Direct(Refuse) /\ Refuses(Refuse)
  BY DirectSteps
<1>3. ASSUME c.op \in Transfers
      PROVE  \A ch : /\ Direct(Checked(c, ch)) /\ Direct(Transfer(c, ch)) /\ Direct(Transfer(c, ch) \o Check)
                     /\ c.op = "get" => /\ Asks(Checked(c, ch), <<c.name, ch>>) /\ Asks(Transfer(c, ch), <<c.name, ch>>)
                                        /\ Asks(Transfer(c, ch) \o Check, <<c.name, ch>>)
  BY <1>1, <1>3, TransferList
<1>4. CASE c.op = "status"
  <2>1. s = RigolStatus \/ s = SiglentStatus
    BY <1>1, <1>4 DEF PsuSteps, Numbered
  <2> HIDE DEF s
  <2>2. kind # "BK914X" /\ kind \in Numbered /\ c.op # "get"
    BY <1>1, <1>4 DEF Numbered
  <2> QED  BY <2>1, <2>2, DirectTransactions DEF PsuList, s
<1>5. CASE c.op \in Transfers /\ kind = "BK914X"
  <2> DEFINE b == Transfer(c, 0) \o Check  a == Put(Select, c.ch) \o Note("active", c.ch)
  <2>1. s = Locked(ChannelSelect(host, c.ch) \o Transfer(c, 0) \o Check)
    BY <1>1, <1>5 DEF PsuSteps, BK914X, Quantities
  <2>2. IsSeq(Transfer(c, 0)) /\ IsSeq(Check) /\ Direct(b) /\ IsSeq(b)
    BY <1>3, <1>5, DirectSteps DEF Direct, Within
  <2>3. CASE c.ch = host.active
    <3>1. ChannelSelect(host, c.ch) = <<>>
      BY <2>3 DEF ChannelSelect
    <3>2. s = Locked(Transfer(c, 0) \o Check)
      BY <2>1, <2>2, <3>1, CatAssoc, EmptyIs
    <3>3. s = Checked(c, 0)
      BY <3>2 DEF Checked
    <3> HIDE DEF s
    <3> QED  BY <1>3, <1>5, <2>3, <3>3 DEF PsuList, s, Numbered
  <2>4. CASE c.ch # host.active
    <3>1. ChannelSelect(host, c.ch) = a /\ IsSeq(a)
      <4>1. ChannelSelect(host, c.ch) = a
        BY <2>4 DEF ChannelSelect, Select
      <4>2. IsSeq(Put(Select, c.ch)) /\ IsSeq(Note("active", c.ch))
        BY OneStepIs DEF Put, Note
      <4> QED  BY <4>1, <4>2, CatOf
    <3> HIDE DEF a
    <3>2. s = Locked(a \o b)
      <4>1. \A x, y : IsSeq(x) /\ IsSeq(y) => (a \o x) \o y = a \o (x \o y)
        BY <3>1, CatAssoc
      <4> QED  BY <2>1, <2>2, <3>1, <4>1
    <3> HIDE DEF s, b
    <3>3. Selects(Locked(a \o b), c.ch) /\ \A at : Asks(b, at) => Asks(Locked(a \o b), at)
      BY <2>2, SelectsMore DEF a
    <3>4. c.op = "get" => Asks(s, <<c.name, 0>>)
      BY <1>3, <1>5, <3>2, <3>3 DEF b
    <3> QED  BY <1>5, <2>4, <3>2, <3>3, <3>4 DEF PsuList, s, Numbered
  <2> QED  BY <2>3, <2>4
<1>6. CASE c.op \in Transfers /\ kind \in Numbered
  <2>1. s = Refuse \/ s = Checked(c, c.ch)
    BY <1>6 DEF PsuSteps, Numbered, RigolDP800, SiglentSPD3303, Transfers
  <2> HIDE DEF s
  <2>2. kind # "BK914X"
    BY <1>6 DEF Numbered
  <2> QED  BY <1>2, <1>3, <1>6, <2>1, <2>2 DEF PsuList, s
<1>7. CASE c.op \in Transfers /\ kind \notin Numbered \cup {"BK914X"}
  <2>1. /\ s = Refuse \/ s = Checked(c, 0) \/ s = Transfer(c, 0)
        /\ s = Refuse \/ c.ch = 1 \/ kind = "KeysightE36100"
    <3>1. kind \in {"BK9115", "KeysightE36100", "TDKLambdaGenesys", "MatrixWPS300S"}
      BY <1>7 DEF Psus, Numbered
    <3>2. CASE kind = "BK9115"
      BY <3>2 DEF PsuSteps, BK9115
    <3>3. CASE kind = "KeysightE36100"
      BY <3>3 DEF PsuSteps, KeysightE36100
    <3>4. CASE kind = "TDKLambdaGenesys"
      BY <3>4 DEF PsuSteps, TDKLambdaGenesys
    <3>5. CASE kind = "MatrixWPS300S"
      BY <3>5 DEF PsuSteps, MatrixWPS300S
    <3> QED  BY <3>1, <3>2, <3>3, <3>4, <3>5
  <2> HIDE DEF s
  <2> QED  BY <1>2, <1>3, <1>7, <2>1 DEF PsuList, s
<1> QED  BY <1>1, <1>4, <1>5, <1>6, <1>7

LEMMA PsuLists ==
  ASSUME kind \in Psus, NEW c \in Issued(kind)
  PROVE  PsuList(Steps(kind, host, c), c) /\ IsSeq(Steps(kind, host, c))
<1> DEFINE s == Steps(kind, host, c)
<1>1. kind \notin Dmms \cup Loads \cup Scopes \cup {"Aardvark"}
  BY KindsApart
<1>2. CASE c.op = "open"
  <2>1. s = OpenSteps(kind)
    BY <1>2 DEF Steps
  <2>2. \/ s = Step("open", <<"session", 0>>, 0) \o LoadLimits([ch \in RigolChannels |-> 1])
        \/ s = Step("open", <<"session", 0>>, 0) \o <<>>
    BY <1>1, <2>1 DEF OpenSteps, Dmms, Scopes
  <2> HIDE DEF s
  <2>3. Direct(s)
    BY <2>2, DirectSteps, DirectTransactions, DirectMore
  <2> QED  BY <1>2, <2>3 DEF PsuList, s, Direct, Within, Transfers
<1>3. CASE c.op = "close"
  <2>1. s = CloseSteps(kind) /\ kind # "Keithley2400"
    BY <1>1, <1>3 DEF Steps, Dmms
  <2>2. s = <<>> \o Step("close", <<"session", 0>>, 0)
    BY <2>1 DEF CloseSteps
  <2> HIDE DEF s
  <2>3. Direct(s)
    BY <2>2, DirectSteps, DirectMore
  <2> QED  BY <1>3, <2>3 DEF PsuList, s, Direct, Within, Transfers
<1>4. CASE c.op \notin {"open", "close"}
  <2>1. s = PsuSteps(kind, host, c)
    BY <1>1, <1>4 DEF Steps, MethodSteps
  <2> HIDE DEF s
  <2>2. PsuList(s, c)
    BY <1>4, <2>1, PsuStepsAre
  <2>3. IsSeq(s)
    BY <2>2 DEF PsuList, Direct, Within, Selects
  <2> QED  BY <2>2, <2>3 DEF s
<1> QED  BY <1>2, <1>3, <1>4

LEMMA PsuHead ==
  ASSUME Base, kind \in Psus, NEW t \in Threads, Busy(t), call[t].todo # <<>>, Targets(t)
  PROVE  LET s == call[t].todo m == s[1] c == call[t].c IN
         /\ m.do \notin {"block", "merge"} /\ (m.do = "note" => m.at \in {"limits", "active"})
         /\ \/ /\ Fits(m, ScpiDoes, Quantities, {"limits"}) /\ Direct(Tail(s))
               /\ c.op \in Transfers /\ kind \notin Numbered => m.do = "raise" \/ dev.sel = c.ch
            \/ /\ kind = "BK914X" /\ c.op \in Transfers
               /\ m.do = "put" /\ m.at = Select /\ m.to = c.ch /\ Remembers(Tail(s), c.ch)
            \/ /\ kind = "BK914X" /\ c.op \in Transfers /\ dev.sel = c.ch
               /\ m.do = "note" /\ m.at = "active" /\ m.to = c.ch /\ Direct(Tail(s))
<1> DEFINE s == call[t].todo c == call[t].c
<1>1. IsSeq(s) /\ s # <<>>
  BY DEF Base, CallIsWhole
<1>2. \/ Direct(s) /\ (c.op \in Transfers /\ kind \notin Numbered => Refuses(s) \/ dev.sel = c.ch)
      \/ kind = "BK914X" /\ c.op \in Transfers /\ Selects(s, c.ch)
      \/ kind = "BK914X" /\ c.op \in Transfers /\ Remembers(s, c.ch) /\ dev.sel = c.ch
  BY DEF Targets
<1> HIDE DEF s, c
<1>3. Direct(s) => Fits(s[1], ScpiDoes, Quantities, {"limits"}) /\ Direct(Tail(s))
  BY <1>1, RestAsks DEF Direct
<1> QED  BY <1>1, <1>2, <1>3 DEF s, c, Fits, ScpiDoes, Selects, Remembers, Refuses

LEMMA PsuOthers ==
  ASSUME NEW u \in Threads, Targets(u), call'[u] = call[u], kind' = kind,
         dev'.sel = dev.sel \/ ~Busy(u) \/ (kind = "BK914X" /\ call[u].c.op \notin Transfers)
  PROVE  Targets(u)'
  BY DEF Targets, Busy, Transfers

LEMMA PsuGivesUp ==
  ASSUME NEW t \in Threads, Base, kind \in Psus, PsuInv, GivesUp(t), kind' = kind
  PROVE  PsuInv'
<1>1. call'[t] = Idle /\ host' = host /\ dev'.sel = dev.sel /\ line' = <<>> /\ call[t].todo[1].do # "note"
  BY DEF GivesUp, SameDev, PsuInv
<1>2. \A u \in Threads \ {t} : call'[u] = call[u]
  BY DEF GivesUp, Others
<1>3. ~Busy(t)' /\ ~Underway(t)'
  BY <1>1, IdleIs DEF Busy, Underway
<1>4. \A u \in Threads : Targets(u)'
  <2>1. \A u \in Threads \ {t} : Targets(u)'
    BY <1>1, <1>2, PsuOthers DEF PsuInv
  <2> QED  BY <1>3, <2>1 DEF Targets
<1>5. \A u \in Threads : Tells(u)'
  <2>1. \A u \in Threads \ {t} : Tells(u)'
    BY <1>1, <1>2, TellsStays DEF PsuInv
  <2> QED  BY <1>3, <2>1, TellsNothing
<1>6. SelectInv'
  <2>1. \A u \in Threads : Remembering(u) => Remembering(u)'
    BY <1>1, <1>2 DEF Remembering, Busy
  <2> QED  BY <1>1, <2>1 DEF PsuInv, SelectInv
<1> QED  BY <1>1, <1>4, <1>5, <1>6 DEF PsuInv

LEMMA PsuTakes ==
  ASSUME NEW t \in Threads, Base, Held, kind \in Psus, PsuInv, Busy(t), call[t].todo # <<>>, Takes(t), kind' = kind
  PROVE  PsuInv'
<1> DEFINE s == call[t].todo m == s[1] c == call[t].c
<1>1. /\ m.do \notin {"block", "merge"} /\ (m.do = "note" => m.at \in {"limits", "active"})
      /\ \/ /\ Fits(m, ScpiDoes, Quantities, {"limits"}) /\ Direct(Tail(s))
            /\ c.op \in Transfers /\ kind \notin Numbered => m.do = "raise" \/ dev.sel = c.ch
         \/ /\ kind = "BK914X" /\ c.op \in Transfers
            /\ m.do = "put" /\ m.at = Select /\ m.to = c.ch /\ Remembers(Tail(s), c.ch)
         \/ /\ kind = "BK914X" /\ c.op \in Transfers /\ dev.sel = c.ch
            /\ m.do = "note" /\ m.at = "active" /\ m.to = c.ch /\ Direct(Tail(s))
  BY PsuHead DEF PsuInv
<1>2. /\ call'[t].c = c /\ call'[t].phase = "busy" /\ call'[t].todo = Tail(s)
      /\ \A u \in Threads \ {t} : call'[u] = call[u]
  BY DEF Takes, Passes, Others, Busy
<1>3. line' = <<>> /\ m.do # "raise"
  BY <1>1 DEF Takes, Effect, PsuInv
<1>4. host'.func = host.func
  BY <1>1, FuncStays
<1>5. \A u \in Threads \ {t} : Tells(u)'
  BY <1>2, <1>4, TellsStays DEF PsuInv
<1>6. c \in Issued(kind)
  BY DEF Base, CallIsWhole, Underway, Busy
<1>7. c.op \in Publishing => c.op = "get"
  BY <1>6, PsuCalls DEF Publishing
<1>8. Tells(t)'
  <2>1. ASSUME c.op \in Publishing, Obtains(m), m.at = Question(t), m.do = "ask" => ~Impossible(dev, m)
        PROVE  Reply(dev, host, m.at) = PublishedAs(t)
    <3>1. m.do = "ask"
      BY <1>1, <2>1 DEF Obtains
    <3>2. kind \notin Numbered => dev.sel = c.ch
      BY <1>1, <1>3, <1>7, <2>1, <3>1 DEF Transfers
    <3> QED  BY <2>1, <3>1, <3>2, PsuAnswers
  <2> QED  BY <1>4, <2>1, TellsOn DEF PsuInv
<1>9. DOMAIN host = HostParts
  BY DEF Base
<1>10. CASE /\ Fits(m, ScpiDoes, Quantities, {"limits"}) /\ Direct(Tail(s))
            /\ c.op \in Transfers /\ kind \notin Numbered => m.do = "raise" \/ dev.sel = c.ch
  <2>1. (m.do = "put" => m.at[1] \in Quantities) /\ (m.do = "note" => m.at = "limits")
    BY <1>10 DEF Fits
  <2> DEFINE sent == m.do = "put" /\ Command(m, m)
  <2>2. /\ sent \/ SameDev
        /\ (m.do = "note" /\ host' = Noted(host, m.at, m.to, call[t].got)) \/ SameHost
    BY <1>1, SameIsSame DEF Takes, Effect, Command
  <2>3. dev'.sel = dev.sel
    <3>1. CASE sent
      BY <2>1, <3>1, CommandDoes DEF AcceptedParts, Quantities
    <3> QED  BY <2>2, <3>1 DEF SameDev
  <2>4. host'.active = host.active
    <3>1. CASE m.do = "note" /\ host' = Noted(host, m.at, m.to, call[t].got)
      <4>1. host' = [host EXCEPT !.limits = m.to]
        BY <2>1, <3>1 DEF Noted
      <4> QED  BY <4>1
    <3> QED  BY <2>2, <3>1 DEF SameHost
  <2>5. Targets(t)'
    BY <1>2, <1>3, <1>10, <2>3 DEF Targets
  <2>6. \A u \in Threads \ {t} : Targets(u)'
    BY <1>2, <2>3, PsuOthers DEF PsuInv
  <2>7. SelectInv'
    <3>1. ~Remembering(t)
      BY <2>1 DEF Remembering
    <3>2. \A u \in Threads : Remembering(u) => Remembering(u)'
      BY <1>2, <3>1 DEF Remembering, Busy
    <3> QED  BY <2>3, <2>4, <3>2 DEF PsuInv, SelectInv
  <2> QED  BY <1>3, <1>5, <1>8, <2>5, <2>6, <2>7 DEF PsuInv
<1>11. CASE /\ kind = "BK914X" /\ c.op \in Transfers
            /\ m.do = "put" /\ m.at = Select /\ m.to = c.ch /\ Remembers(Tail(s), c.ch)
  <2>1. Command(m, m)
    BY <1>11 DEF Takes, Effect, RefusedAdrift
  <2>2. dev'.sel = c.ch
    BY <1>11, <2>1, CommandDoes DEF AcceptedParts, Select
  <2>3. Targets(t)'
    BY <1>2, <1>11, <2>2 DEF Targets
  <2>4. ASSUME NEW u \in Threads \ {t}  PROVE Targets(u)'
    <3>1. Busy(u) => call[u].c.op \notin Transfers
      <4> SUFFICES ASSUME Busy(u), call[u].c.op \in Transfers  PROVE FALSE
        OBVIOUS
      <4>1. call[u].c \in Issued(kind)
        BY DEF Base, CallIsWhole, Underway, Busy
      <4>2. Locks(kind, c) /\ Locks(kind, call[u].c)
        BY <1>6, <1>11, <4>1, PsuCalls
      <4> QED  BY <4>2, HeldByOne
    <3> QED  BY <1>2, <1>11, <3>1, PsuOthers DEF PsuInv
  <2>5. Remembering(t)'
    BY <1>2, <1>11 DEF Remembering, Busy, Remembers
  <2> QED  BY <1>3, <1>5, <1>8, <1>11, <2>3, <2>4, <2>5 DEF PsuInv, SelectInv
<1>12. CASE /\ kind = "BK914X" /\ c.op \in Transfers /\ dev.sel = c.ch
            /\ m.do = "note" /\ m.at = "active" /\ m.to = c.ch /\ Direct(Tail(s))
  <2>1. dev' = dev /\ host' = Noted(host, "active", c.ch, call[t].got)
    BY <1>12 DEF Takes, Effect
  <2>2. host'.active = dev.sel
    BY <1>9, <1>12, <2>1 DEF Noted, HostParts
  <2>3. Targets(t)'
    BY <1>2, <1>12, <2>1 DEF Targets
  <2>4. \A u \in Threads \ {t} : Targets(u)'
    BY <1>2, <2>1, PsuOthers DEF PsuInv
  <2> QED  BY <1>3, <1>5, <1>8, <1>12, <2>1, <2>2, <2>3, <2>4 DEF PsuInv, SelectInv
<1> QED  BY <1>1, <1>10, <1>11, <1>12

LEMMA PsuEnter ==
  ASSUME NEW t \in Threads, Base, Held, kind \in Psus, PsuInv, Enter(t), ~adrift', kind' = kind
  PROVE  PsuInv' /\ Base'
<1>1. PICK c \in Calls(t) : /\ Begins(t, c) /\ ~Underway(t) /\ (Locks(kind, c) => owner = None)
                            /\ adrift' = EnterAdrift(t, c)
  BY EnterBegins
<1> DEFINE s == Steps(kind, host, c)
<1>2. c \in Issued(kind)
  BY CallsAreIssued
<1>3. PsuList(s, c) /\ IsSeq(s)
  BY <1>2, PsuLists
<1>4. /\ call'[t].c = c /\ call'[t].phase = "busy" /\ call'[t].todo = s
      /\ \A u \in Threads \ {t} : call'[u] = call[u]
      /\ host' = host /\ dev' = dev /\ line' = line
  BY <1>1 DEF Begins, Others
<1>5. Base'
  BY <1>1, <1>3, EnterBase
<1> HIDE DEF s
<1>6. c.op \in Transfers /\ kind \notin Numbered /\ Direct(s) => Refuses(s) \/ dev.sel = c.ch
  <2> SUFFICES ASSUME c.op \in Transfers, kind \notin Numbered, Direct(s), ~Refuses(s)
               PROVE  dev.sel = c.ch
    OBVIOUS
  <2>1. CASE kind = "BK914X"
    <3>1. ~Selects(s, c.ch)
      <4> SUFFICES ASSUME Selects(s, c.ch)  PROVE ~Direct(s)
        OBVIOUS
      <4>1. IsSeq(s) /\ s # <<>> /\ s[1].do = "put" /\ s[1].at[1] = "select"
        BY DEF Selects, Select
      <4> QED  BY <4>1, RestAsks DEF Direct, Fits, Quantities
    <3>2. c.ch = host.active /\ c.ch \in Channels
      BY <1>2, <1>3, <2>1, <3>1, PsuCalls DEF PsuList
    <3>3. \A u \in Threads : ~Remembering(u)
      <4> SUFFICES ASSUME NEW u \in Threads, Remembering(u)  PROVE FALSE
        OBVIOUS
      <4>1. call[u].c \in Issued(kind) /\ Busy(u)
        BY DEF Base, CallIsWhole, Underway, Busy, Remembering
      <4>2. Locks(kind, call[u].c) /\ Locks(kind, c)
        BY <1>2, <4>1, PsuCalls DEF Remembering
      <4> QED  BY <1>1, <4>1, <4>2, BenchAssumption DEF Held
    <3> QED  BY <2>1, <3>2, <3>3, ChannelsAssumption DEF PsuInv, SelectInv
  <2>2. CASE kind # "BK914X"
    <3>1. dev.sel = 1
      BY <2>2 DEF PsuInv, SelectInv
    <3>2. ~EnterAdrift(t, c)
      BY <1>1
    <3>3. c.ch = 1
      BY <1>3, <2>2, <3>2 DEF PsuList, EnterAdrift, Transfers
    <3> QED  BY <3>1, <3>3
  <2> QED  BY <2>1, <2>2
<1>7. Targets(t)'
  BY <1>3, <1>4, <1>6 DEF Targets, PsuList
<1>8. \A u \in Threads \ {t} : Targets(u)' /\ Tells(u)'
  BY <1>4, PsuOthers, TellsStays DEF PsuInv
<1>9. Tells(t)'
  <2>1. c.op \in Publishing => c.op = "get"
    BY <1>2, PsuCalls DEF Publishing
  <2>2. c.op \in Publishing => Refuses(s) \/ Asks(s, QuestionOf(kind, c, host.func))
    BY <1>3, <2>1, QuestionIs DEF PsuList
  <2> QED  BY <1>1, <2>2, TellsNew DEF s
<1>10. SelectInv'
  <2>1. \A u \in Threads : Remembering(u) => Remembering(u)'
    BY <1>1, <1>4 DEF Remembering, Busy, Underway
  <2> QED  BY <1>4, <2>1 DEF PsuInv, SelectInv
<1> QED  BY <1>4, <1>5, <1>7, <1>8, <1>9, <1>10 DEF PsuInv

LEMMA PsuFinish ==
  ASSUME NEW t \in Threads, Base, kind \in Psus, PsuInv, Finish(t), kind' = kind
  PROVE  PsuInv'
<1>1. /\ Others(t) /\ call'[t].phase = "post" /\ call[t].todo = <<>>
      /\ host' = host /\ dev' = dev /\ line' = line
  BY FinishEnds
<1>2. \A u \in Threads : Targets(u)' /\ Tells(u)'
  <2>1. \A u \in Threads \ {t} : Targets(u)' /\ Tells(u)'
    BY <1>1, PsuOthers, TellsStays DEF PsuInv, Others
  <2>2. Targets(t)'
    BY <1>1 DEF Targets, Busy
  <2>3. Tells(t)'
    BY TellsEnd DEF PsuInv
  <2> QED  BY <2>1, <2>2, <2>3
<1>3. \A u \in Threads : Remembering(u) => Remembering(u)'
  BY <1>1 DEF Remembering, Busy, Others
<1> QED  BY <1>1, <1>2, <1>3 DEF PsuInv, SelectInv

LEMMA PsuPost ==
  ASSUME NEW t \in Threads, Base, kind \in Psus, PsuInv, Post(t), kind' = kind
  PROVE  PsuInv'
<1>1. Others(t) /\ call[t].phase = "post" /\ call'[t] = Idle /\ dev' = dev /\ line' = line
  BY PostEnds
<1>2. host' = host
  <2>1. kind \notin Dmms \cup Scopes
    BY KindsApart
  <2> QED  BY <2>1, PostEnds
<1>3. \A u \in Threads : Targets(u)' /\ Tells(u)'
  <2>1. \A u \in Threads \ {t} : Targets(u)' /\ Tells(u)'
    BY <1>1, <1>2, PsuOthers, TellsStays DEF PsuInv, Others
  <2>2. Targets(t)'
    BY <1>1, IdleIs DEF Targets, Busy
  <2>3. Tells(t)'
    BY <1>1, IdleIs, TellsNothing DEF Underway
  <2> QED  BY <2>1, <2>2, <2>3
<1>4. \A u \in Threads : Remembering(u) => Remembering(u)'
  BY <1>1 DEF Remembering, Busy, Others
<1> QED  BY <1>1, <1>2, <1>3, <1>4 DEF PsuInv, SelectInv

----------------------------------------------------------------------------
(* The multimeters *)

Functions == {"DC_VOLTAGE", "RESISTANCE", "AC_VOLTAGE"}
MeterPuts == {"clear status", "remote", "ohms mode", "source", "output", "auto range"} \cup Functions

\* Steps that leave the function alone.
Metered(s) == Within(s, ScpiDoes, MeterPuts, {"range"})
FitsMeter(m) == Fits(m, ScpiDoes, MeterPuts, {"range"})

Checks(s) == \E i \in DOMAIN s : s[i].do = "check"
SetsFunction(m, f) == m.do = "put" /\ m.at = <<"function", 0>> /\ m.to = f /\ DOMAIN m = StepParts

\* The function is set once, and SYST:ERR? asked after that.
Switches(s, f) ==
  /\ IsSeq(s)
  /\ \E i \in DOMAIN s :
       /\ SetsFunction(s[i], f)
       /\ \E k \in DOMAIN s : k > i /\ s[k].do = "check"
       /\ \A j \in DOMAIN s \ {i} : FitsMeter(s[j])

\* The function the 2400 is in is the one that is remembered, if one is.
Known == host.func \in {None, dev.func}

Switching(t) == Active(t) /\ call[t].c.op = "function"

\* set_measurement_function() on its way: nothing sent; the function set, or
\* refused and about to be found out.
SwitchesOver(t) ==
  LET s == call[t].todo f == call[t].c.name IN
  \/ Refuses(s) /\ Known /\ Metered(s)
  \/ Switches(s, f) /\ Known
  \/ Metered(s) /\ (dev.func = f \/ (dev.errs # 0 /\ Checks(s)))

Measures(t) ==
  Underway(t) =>
    IF kind = "Keithley2400" /\ call[t].c.op = "function" THEN SwitchesOver(t)
    ELSE Metered(call[t].todo) /\ (call[t].c.op = "read" => host.func # None)

\* One call at a time is inside the lock or on its way out; the user's thread
\* opens, closes and sets.
OneMeters ==
  /\ \A t, u \in Threads : Active(t) /\ Active(u) => t = u
  /\ \A t \in Threads : Underway(t) /\ call[t].c.op \in {"function", "open", "close"} => t = User

FunctionInv ==
  /\ host.func \in {None} \cup Functions
  /\ kind = "Keithley2400" => Known \/ \E t \in Threads : Switching(t)

DmmInv == line = <<>> /\ OneMeters /\ FunctionInv /\ \A t \in Threads : Measures(t) /\ Tells(t)

LEMMA DmmCalls ==
  ASSUME kind \in Dmms, NEW c \in Issued(kind)
  PROVE  /\ c.op \in {"read", "function", "range", "open", "close"}
         /\ Locks(kind, c) <=> c.op \in {"read", "function", "range"}
         /\ c.op = "function" => c.name \in Functions
         /\ c.op \in Publishing => c.op = "read"
         /\ \A t \in Threads : c \in Calls(t) /\ c.op \in {"function", "open", "close"} => t = User
<1>1. kind \notin Psus /\ kind \notin Loads /\ kind \notin Scopes /\ kind # "Aardvark"
  BY KindsApart
<1>2. Statuses(kind) = {} /\ Reads(kind) = DmmReads /\ Writes(kind) = DmmWrites
  BY <1>1 DEF Statuses, Reads, Writes, Dmms
<1>3. c \in DmmReads \cup DmmWrites \cup {C("open", "none", 0, 0), C("close", "none", 0, 0)}
  BY <1>2 DEF Issued
<1>4. c.op \in {"read", "function", "range", "open", "close"} /\ (c.op = "function" => c.name \in Functions)
  BY <1>3 DEF DmmReads, DmmWrites, C, Functions
<1>5. Locks(kind, c) <=> c.op \in {"read", "function", "range"}
  BY <1>1, <1>4 DEF Locks
<1>6. ASSUME NEW t \in Threads, c \in Calls(t), c.op \in {"function", "open", "close"}
      PROVE  t = User
  <2> SUFFICES ASSUME t # User  PROVE FALSE
    OBVIOUS
  <2>1. c \in DmmReads
    BY <1>2, <1>6 DEF Calls
  <2> QED  BY <1>6, <2>1 DEF DmmReads, C
<1> QED  BY <1>4, <1>5, <1>6 DEF Publishing

LEMMA DmmReply ==
  ASSUME NEW d, NEW h
  PROVE  /\ Reply(d, h, <<"read", 0>>) = <<d.func, 0>>
         /\ \A f \in Functions : Reply(d, h, <<f, 0>>) = <<f, 0>>
<1>1. Reply(d, h, <<"read", 0>>) = <<d.func, 0>>
  BY DEF Reply
<1>2. ASSUME NEW f \in Functions  PROVE Reply(d, h, <<f, 0>>) = <<f, 0>>
  <2>1. <<f, 0>>[1] = f /\ <<f, 0>> # <<"wave", 0>>
    BY DEF Functions
  <2> QED  BY <2>1 DEF Reply, Functions
<1> QED  BY <1>1, <1>2

LEMMA MeterSteps ==
  /\ Metered(Check) /\ Listed(Check) /\ Silent(Check) /\ Checks(Check)
  /\ Metered(Refuse) /\ Refuses(Refuse) /\ Metered(<<>>)
  /\ \A at : Metered(Ask(at)) /\ Listed(Ask(at)) /\ Asks(Ask(at), at)
  /\ \A v : Metered(Note("range", v)) /\ \A name \in MeterPuts : Metered(Put(<<name, 0>>, v))
  /\ Metered(Step("open", <<"session", 0>>, 0)) /\ Metered(Step("close", <<"session", 0>>, 0))
<1>1. Metered(Check) /\ Listed(Check) /\ Silent(Check) /\ DOMAIN Check = {1} /\ Check[1].do = "check"
  BY StepWithin, OneStepIs DEF Metered, Check, ScpiDoes
<1>2. Metered(Refuse) /\ Refuses(Refuse) /\ Metered(<<>>)
  BY StepWithin, OneStepIs, EmptyIs DEF Metered, Refuse, ScpiDoes
<1>3. \A at : Metered(Ask(at)) /\ Listed(Ask(at)) /\ Asks(Ask(at), at)
  BY StepWithin, OneStepIs DEF Metered, Ask, ScpiDoes
<1>4. \A v : Metered(Note("range", v))
  BY StepWithin DEF Metered, Note, ScpiDoes
<1>5. ASSUME NEW v, NEW name \in MeterPuts
      PROVE  Metered(Put(<<name, 0>>, v))
  <2>1. <<name, 0>>[1] \in MeterPuts
    OBVIOUS
  <2> QED  BY <2>1, StepWithin DEF Metered, Put, ScpiDoes
<1>6. Metered(Step("open", <<"session", 0>>, 0)) /\ Metered(Step("close", <<"session", 0>>, 0))
  BY StepWithin DEF Metered, ScpiDoes
<1> QED  BY <1>1, <1>2, <1>3, <1>4, <1>5, <1>6 DEF Checks

LEMMA MeterMore ==
  ASSUME NEW a, NEW b, Metered(a), Metered(b)
  PROVE  Metered(a \o b) /\ Metered(Locked(a)) /\ Listed(a) /\ IsSeq(a)
<1>1. Metered(a \o b) /\ Metered(Locked(a)) /\ Listed(a)
  BY CatWithin, LockedWithin, WithinIsListed DEF Metered
<1> QED  BY <1>1 DEF Listed

\* AgilentMeasure, and the read of KeithleyMeasure.
LEMMA MeterAsks ==
  ASSUME NEW a, Metered(a), NEW at
  PROVE  LET s == Locked(a \o Ask(at) \o Check) r == Locked(Ask(at) \o Check) IN
         Metered(s) /\ Asks(s, at) /\ Metered(r) /\ Asks(r, at)
<1> DEFINE q == Ask(at)
<1>1. Metered(q) /\ Listed(q) /\ Asks(q, at) /\ Metered(Check) /\ Listed(Check) /\ Silent(Check)
  BY MeterSteps
<1> HIDE DEF q
<1>2. Metered(a \o q) /\ Metered(q \o Check) /\ Listed(a) /\ Listed(a \o q) /\ Asks(a \o q, at)
  BY <1>1, MeterMore, CatAsks
<1>3. Metered((a \o q) \o Check) /\ Metered(Locked(q \o Check)) /\ Listed(q \o Check)
  BY <1>1, <1>2, MeterMore
<1>4. Asks(q \o Check, at) /\ Asks((a \o q) \o Check, at) /\ Listed((a \o q) \o Check)
  BY <1>1, <1>2, CatAsks
<1>5. Metered(Locked((a \o q) \o Check)) /\ Asks(Locked((a \o q) \o Check), at) /\ Asks(Locked(q \o Check), at)
  BY <1>1, <1>3, <1>4, MeterMore, LockedAsks
<1> QED  BY <1>3, <1>5 DEF q

LEMMA SwitchesOne ==
  ASSUME NEW f, NEW b, Metered(b), Checks(b)
  PROVE  Switches(Put(<<"function", 0>>, f) \o b, f)
<1> DEFINE p == Put(<<"function", 0>>, f) r == p \o b
<1>1. IsSeq(p) /\ DOMAIN p = {1} /\ Len(p) = 1 /\ SetsFunction(p[1], f)
  BY OneStepIs DEF Put, SetsFunction, Listed
<1>2. IsSeq(b) /\ \A i \in DOMAIN b : FitsMeter(b[i])
  BY DEF Metered, Within, FitsMeter
<1>3. Joined(p, b)
  BY <1>1, <1>2, PlacesOf
<1>4. /\ IsSeq(r) /\ 1 \in DOMAIN r /\ r[1] = p[1]
      /\ \A i \in DOMAIN r : i = 1 \/ (i - 1 \in DOMAIN b /\ r[i] = b[i - 1])
      /\ \A i \in DOMAIN b : 1 + i \in DOMAIN r /\ r[1 + i] = b[i]
  BY <1>1, <1>3 DEF Joined
<1>5. PICK k \in DOMAIN b : b[k].do = "check"
  BY DEF Checks
<1>6. 1 + k > 1 /\ 1 + k \in DOMAIN r /\ r[1 + k].do = "check"
  BY <1>3, <1>4, <1>5 DEF Joined
<1> HIDE DEF p, r
<1>7. \A j \in DOMAIN r \ {1} : FitsMeter(r[j])
  BY <1>2, <1>4
<1> QED  BY <1>1, <1>4, <1>6, <1>7 DEF Switches, p, r

LEMMA SwitchesMore ==
  ASSUME NEW f, NEW a, NEW b, Metered(a), Switches(b, f)
  PROVE  Switches(a \o b, f) /\ Switches(Locked(b), f)
<1> DEFINE r == a \o b l == Locked(b)
<1>1. IsSeq(a) /\ IsSeq(b) /\ \A i \in DOMAIN a : FitsMeter(a[i])
  BY DEF Metered, Within, FitsMeter, Switches
<1>2. PICK i \in DOMAIN b : /\ SetsFunction(b[i], f)
                            /\ \E k \in DOMAIN b : k > i /\ b[k].do = "check"
                            /\ \A j \in DOMAIN b \ {i} : FitsMeter(b[j])
  BY DEF Switches
<1>3. PICK k \in DOMAIN b : k > i /\ b[k].do = "check"
  BY <1>2
<1>4. Switches(r, f)
  <2>1. Joined(a, b)
    BY <1>1, PlacesOf
  <2>2. /\ IsSeq(r) /\ Len(a) \in Nat
        /\ Len(a) + i \in DOMAIN r /\ r[Len(a) + i] = b[i]
        /\ Len(a) + k \in DOMAIN r /\ r[Len(a) + k] = b[k] /\ Len(a) + k > Len(a) + i
    BY <1>3, <2>1 DEF Joined
  <2>3. \A j \in DOMAIN r : (j \in DOMAIN a /\ r[j] = a[j]) \/ (j - Len(a) \in DOMAIN b /\ r[j] = b[j - Len(a)])
    BY <2>1 DEF Joined
  <2>4. DOMAIN r \subseteq Nat
    BY <2>2, ListOf
  <2> HIDE DEF r
  <2>5. \A j \in DOMAIN r \ {Len(a) + i} : FitsMeter(r[j])
    <3> TAKE j \in DOMAIN r \ {Len(a) + i}
    <3>1. j - Len(a) # i
      BY <2>1, <2>2, <2>4 DEF Joined
    <3> QED  BY <1>1, <1>2, <2>3, <3>1
  <2> QED  BY <1>2, <1>3, <2>2, <2>5 DEF Switches
<1>5. Switches(l, f)
  <2>1. Listed(b)
    <3>1. \A j \in DOMAIN b : DOMAIN b[j] = StepParts
      BY <1>2 DEF SetsFunction, FitsMeter, Fits
    <3> QED  BY <1>1, <3>1 DEF Listed
  <2>2. /\ Listed(l) /\ DOMAIN l = DOMAIN b
        /\ \A j \in DOMAIN b : l[j].do = b[j].do /\ l[j].at = b[j].at /\ l[j].to = b[j].to
    BY <2>1, LockedList
  <2> HIDE DEF l
  <2>3. SetsFunction(l[i], f) /\ l[k].do = "check" /\ \A j \in DOMAIN l \ {i} : FitsMeter(l[j])
    BY <1>2, <1>3, <2>2 DEF SetsFunction, FitsMeter, Fits, Listed
  <2> QED  BY <1>3, <2>2, <2>3 DEF Switches, Listed
<1> QED  BY <1>4, <1>5 DEF r, l

LEMMA RestSwitches ==
  ASSUME NEW s, IsSeq(s), s # <<>>
  PROVE  /\ \A f : Switches(s, f) => \/ SetsFunction(s[1], f) /\ Metered(Tail(s)) /\ Checks(Tail(s))
                                     \/ FitsMeter(s[1]) /\ Switches(Tail(s), f)
         /\ Checks(s) => s[1].do = "check" \/ Checks(Tail(s))
<1> DEFINE r == Tail(s)
<1>1. 1 \in DOMAIN s /\ (\A i \in DOMAIN r : r[i] = s[i + 1]) /\ IsSeq(r)
  BY TailOf
<1>2. \A i : i \in DOMAIN r <=> i \in Nat \ {0} /\ i + 1 \in DOMAIN s
  BY TailOf
<1>3. DOMAIN s = 1..Len(s) /\ Len(s) \in Nat
  BY ListOf
<1> HIDE DEF r
<1>4. \A i \in DOMAIN s : i = 1 \/ (i - 1 \in DOMAIN r /\ r[i - 1] = s[i])
  BY <1>1, <1>2, <1>3
<1>5. ASSUME NEW f, Switches(s, f)
      PROVE  \/ SetsFunction(s[1], f) /\ Metered(r) /\ Checks(r)
             \/ FitsMeter(s[1]) /\ Switches(r, f)
  <2>1. PICK i \in DOMAIN s : /\ SetsFunction(s[i], f)
                              /\ \E k \in DOMAIN s : k > i /\ s[k].do = "check"
                              /\ \A j \in DOMAIN s \ {i} : FitsMeter(s[j])
    BY <1>5 DEF Switches
  <2>2. PICK k \in DOMAIN s : k > i /\ s[k].do = "check"
    BY <2>1
  <2>3. k - 1 \in DOMAIN r /\ r[k - 1].do = "check"
    BY <1>3, <1>4, <2>2
  <2>4. CASE i = 1
    <3>1. \A j \in DOMAIN r : FitsMeter(r[j])
      <4> TAKE j \in DOMAIN r
      <4>1. j + 1 \in DOMAIN s \ {i} /\ r[j] = s[j + 1]
        BY <1>1, <1>2, <2>4
      <4> QED  BY <2>1, <4>1
    <3> QED  BY <1>1, <2>1, <2>3, <2>4, <3>1 DEF Metered, Within, FitsMeter, Checks
  <2>5. CASE i # 1
    <3>1. i - 1 \in DOMAIN r /\ r[i - 1] = s[i] /\ k - 1 > i - 1
      BY <1>3, <1>4, <2>2, <2>5
    <3>2. \A j \in DOMAIN r \ {i - 1} : FitsMeter(r[j])
      <4> TAKE j \in DOMAIN r \ {i - 1}
      <4>1. j + 1 \in DOMAIN s \ {i} /\ r[j] = s[j + 1]
        BY <1>1, <1>2, <1>3
      <4> QED  BY <2>1, <4>1
    <3>3. FitsMeter(s[1])
      BY <1>1, <2>1, <2>5
    <3> QED  BY <1>1, <2>1, <2>3, <3>1, <3>2, <3>3 DEF Switches
  <2> QED  BY <2>4, <2>5
<1>6. Checks(s) => s[1].do = "check" \/ Checks(r)
  BY <1>4 DEF Checks
<1> QED  BY <1>5, <1>6 DEF r

\* What a call to a multimeter does, once it is known what it is a call to.
MeterList(s, c) ==
  IF kind = "Keithley2400" /\ c.op = "function"
  THEN (Refuses(s) /\ Metered(s)) \/ Switches(s, c.name)
  ELSE /\ Metered(s)
       /\ c.op = "read" => Refuses(s) \/ Asks(s, QuestionOf(kind, c, host.func))

LEMMA KeithleyFunctionIs ==
  ASSUME NEW f \in Functions
  PROVE  LET s == KeithleyFunction(f) IN (Refuses(s) /\ Metered(s)) \/ Switches(s, f)
<1> DEFINE o(x) == Put(<<"ohms mode", 0>>, x)  n == Put(<<"function", 0>>, f)  v == Put(<<"source", 0>>, 0)
<1>1. f = "DC_VOLTAGE" => KeithleyFunction(f) = Locked(((o(0) \o n) \o v) \o Check)
  BY DEF KeithleyFunction
<1>2. f = "RESISTANCE" => KeithleyFunction(f) = Locked((n \o o(1)) \o Check)
  BY DEF KeithleyFunction
<1>3. f \notin {"DC_VOLTAGE", "RESISTANCE"} => KeithleyFunction(f) = Refuse
  BY DEF KeithleyFunction
<1>4. (\A x : Metered(o(x))) /\ Metered(v) /\ Metered(Check) /\ Checks(Check)
  BY MeterSteps DEF MeterPuts
<1>5. IsSeq(n)
  BY OneStepIs DEF Put
<1>6. ASSUME NEW b, Metered(b), Checks(b)
      PROVE  Switches(n \o b, f)
  BY <1>6, SwitchesOne
<1> HIDE DEF o, n, v
<1>7. (\A x : IsSeq(o(x))) /\ IsSeq(v) /\ IsSeq(Check)
  BY <1>4, MeterMore
<1>8. \A a : Metered(a) => Metered(a \o Check) /\ IsSeq(a \o Check) /\ Checks(a \o Check)
  <2> SUFFICES ASSUME NEW a, Metered(a)  PROVE Metered(a \o Check) /\ IsSeq(a \o Check) /\ Checks(a \o Check)
    OBVIOUS
  <2>1. Metered(a \o Check) /\ IsSeq(a) /\ IsSeq(a \o Check)
    BY <1>4, MeterMore
  <2>2. Joined(a, Check)
    BY <1>7, <2>1, PlacesOf
  <2>3. Checks(a \o Check)
    <3>1. PICK i \in DOMAIN Check : Check[i].do = "check"
      BY <1>4 DEF Checks
    <3>2. Len(a) + i \in DOMAIN (a \o Check) /\ (a \o Check)[Len(a) + i] = Check[i]
      BY <2>2 DEF Joined
    <3> QED  BY <3>1, <3>2 DEF Checks
  <2> QED  BY <2>1, <2>3
<1>9. CASE f = "DC_VOLTAGE"
  <2> DEFINE b == v \o Check a == o(0)
  <2>0. Metered(v) /\ Metered(a) /\ IsSeq(a)
    BY <1>4, <1>7
  <2>1. Metered(b) /\ Checks(b) /\ IsSeq(b)
    BY <1>8, <2>0
  <2>6. KeithleyFunction(f) = Locked(((a \o n) \o v) \o Check)
    BY <1>1, <1>9
  <2> HIDE DEF a
  <2>2. ((a \o n) \o v) \o Check = a \o (n \o b)
    <3>1. IsSeq(a \o n)
      BY <1>5, <2>0, CatOf
    <3>2. ((a \o n) \o v) \o Check = (a \o n) \o b
      BY <1>7, <3>1, CatAssoc
    <3> HIDE DEF b
    <3>3. (a \o n) \o b = a \o (n \o b)
      BY <1>5, <2>0, <2>1, CatAssoc
    <3> QED  BY <3>2, <3>3
  <2> HIDE DEF b
  <2>3. Switches(n \o b, f)
    BY <1>6, <2>1
  <2>4. Switches(a \o (n \o b), f)
    BY <2>0, <2>3, SwitchesMore
  <2>5. Switches(Locked(a \o (n \o b)), f)
    BY <2>0, <2>4, SwitchesMore
  <2> QED  BY <2>2, <2>5, <2>6
<1>10. CASE f = "RESISTANCE"
  <2> DEFINE b == o(1) \o Check
  <2>1. Metered(b) /\ Checks(b)
    BY <1>4, <1>8
  <2>2. (n \o o(1)) \o Check = n \o b
    BY <1>5, <1>7, CatAssoc
  <2> HIDE DEF b
  <2>3. Switches(n \o b, f)
    BY <1>6, <2>1
  <2>4. Switches(Locked(n \o b), f)
    BY <1>4, <2>3, SwitchesMore
  <2> QED  BY <1>2, <1>10, <2>2, <2>4
<1>11. CASE f \notin {"DC_VOLTAGE", "RESISTANCE"}
  BY <1>3, <1>11, MeterSteps
<1> QED  BY <1>9, <1>10, <1>11

LEMMA MeterPutting ==
  ASSUME NEW name \in MeterPuts, NEW x, NEW s, Metered(s)
  PROVE  LET p == Put(<<name, 0>>, x) IN
         Metered(p \o s) /\ Metered(p \o Check) /\ Metered(s \o p) /\ Metered(Locked(p \o Check))
         /\ Metered(Locked(s \o p \o Check)) /\ Metered(s \o p \o Check)
<1> DEFINE p == Put(<<name, 0>>, x)
<1>1. Metered(p) /\ Metered(Check)
  BY MeterSteps
<1> HIDE DEF p
<1>2. Metered(p \o s) /\ Metered(p \o Check) /\ Metered(s \o p)
  BY <1>1, MeterMore
<1>3. Metered(Locked(p \o Check)) /\ Metered((s \o p) \o Check)
  BY <1>1, <1>2, MeterMore
<1>4. Metered(Locked((s \o p) \o Check))
  BY <1>1, <1>3, MeterMore
<1> QED  BY <1>2, <1>3, <1>4 DEF p

LEMMA DmmLists ==
  ASSUME kind \in Dmms, NEW c \in Issued(kind), host.func \in {None} \cup Functions, Ready(kind, host, c)
  PROVE  MeterList(Steps(kind, host, c), c) /\ IsSeq(Steps(kind, host, c))
<1> DEFINE s == Steps(kind, host, c)
<1>1. kind \notin Psus /\ kind \notin Loads /\ kind \notin Scopes /\ kind # "Aardvark"
  BY KindsApart
<1>2. c.op \in {"read", "function", "range", "open", "close"} /\ (c.op = "function" => c.name \in Functions)
  BY DmmCalls
<1>3. c.op \in {"read", "range"} => host.func \in Functions
  BY <1>2 DEF Ready, DmmReady
<1>4. kind \in {"Agilent34401A", "Keithley2400"}
  BY DEF Dmms
<1>5. MeterList(s, c)
  <2>1. CASE c.op = "open"
    <3>1. s = Step("open", <<"session", 0>>, 0) \o AgilentOpen \/ s = Step("open", <<"session", 0>>, 0) \o KeithleyOpen
      BY <1>4, <2>1 DEF Steps, OpenSteps, Loads
    <3>2. Metered(AgilentOpen) /\ Metered(KeithleyOpen)
      <4>1. Metered(Put(<<"clear status", 0>>, 0))
        BY MeterSteps DEF MeterPuts
      <4> QED  BY <4>1, MeterPutting DEF AgilentOpen, KeithleyOpen, MeterPuts
    <3> HIDE DEF s
    <3>3. Metered(s)
      BY <3>1, <3>2, MeterSteps, MeterMore
    <3> QED  BY <2>1, <3>3 DEF MeterList
  <2>2. CASE c.op = "close"
    <3>1. s = CloseSteps(kind)
      BY <2>2 DEF Steps
    <3>2. s = Put(<<"output", 0>>, 0) \o Step("close", <<"session", 0>>, 0) \/ s = <<>> \o Step("close", <<"session", 0>>, 0)
      BY <3>1 DEF CloseSteps, KeithleyClose
    <3> HIDE DEF s
    <3>3. Metered(s)
      BY <3>2, MeterSteps, MeterMore, MeterPutting DEF MeterPuts
    <3> QED  BY <2>2, <3>3 DEF MeterList
  <2>3. CASE c.op \in {"read", "function", "range"} /\ kind = "Agilent34401A"
    <3>1. s = Agilent34401A(host, c)
      BY <1>1, <2>3 DEF Steps, MethodSteps, DmmSteps
    <3>2. QuestionOf(kind, c, host.func) = <<host.func, 0>>
      BY <2>3, QuestionIs
    <3>3. \/ c.op = "function" /\ s = AgilentMeasure(c.name)
          \/ c.op = "range" /\ s = Note("range", c.val)
          \/ c.op = "read" /\ s = AgilentMeasure(host.func)
      BY <2>3, <3>1 DEF Agilent34401A
    <3> HIDE DEF s
    <3>4. \A f : Metered(AgilentMeasure(f)) /\ Asks(AgilentMeasure(f), <<f, 0>>)
      BY MeterAsks, MeterSteps DEF AgilentMeasure
    <3> QED  BY <2>3, <3>2, <3>3, <3>4, MeterSteps DEF MeterList
  <2>4. CASE c.op \in {"read", "function", "range"} /\ kind = "Keithley2400"
    <3>1. s = Keithley2400(host, c)
      BY <1>1, <2>4 DEF Steps, MethodSteps, DmmSteps
    <3>2. QuestionOf(kind, c, host.func) = <<"read", 0>>
      BY <2>4, QuestionIs
    <3>3. CASE c.op = "function"
      <4>1. s = KeithleyFunction(c.name)
        BY <3>1, <3>3 DEF Keithley2400
      <4> HIDE DEF s
      <4> QED  BY <1>2, <2>4, <3>3, <4>1, KeithleyFunctionIs DEF MeterList
    <3>4. CASE c.op = "range"
      <4>1. s = Locked(Put(<<"auto range", 0>>, 0) \o Put(<<host.func, 0>>, c.val) \o Check)
        BY <3>1, <3>4 DEF Keithley2400, KeithleyRange
      <4> HIDE DEF s
      <4>2. Metered(Put(<<"auto range", 0>>, 0)) /\ host.func \in MeterPuts
        BY <1>3, <3>4, MeterSteps DEF MeterPuts
      <4>3. Metered(s)
        BY <4>1, <4>2, MeterPutting
      <4> QED  BY <3>4, <4>3 DEF MeterList
    <3>5. CASE c.op = "read"
      <4>1. s = Refuse \/ s = Locked(Put(<<"output", 0>>, 1) \o Ask(<<"read", 0>>) \o Check)
        BY <3>1, <3>5 DEF Keithley2400, KeithleyMeasure
      <4> HIDE DEF s
      <4>2. Metered(Put(<<"output", 0>>, 1))
        BY MeterSteps DEF MeterPuts
      <4>3. Metered(s) /\ (Refuses(s) \/ Asks(s, <<"read", 0>>))
        BY <4>1, <4>2, MeterAsks, MeterSteps
      <4> QED  BY <3>2, <3>5, <4>3 DEF MeterList
    <3> QED  BY <2>4, <3>3, <3>4, <3>5
  <2> QED  BY <1>2, <1>4, <2>1, <2>2, <2>3, <2>4
<1> HIDE DEF s
<1>6. IsSeq(s)
  BY <1>5, MeterMore DEF MeterList, Switches
<1> QED  BY <1>5, <1>6 DEF s

\* While the function is being set, nobody else is at the multimeter.
LEMMA AloneSwitching ==
  ASSUME kind \in Dmms, Base, OneMeters, NEW t \in Threads, Underway(t), NEW u \in Threads \ {t}, Underway(u)
  PROVE  call[u].c.op # "function"
<1>1. call[t].c.op \in {"read", "function", "range", "open", "close"}
  BY DmmCalls DEF Base, CallIsWhole
<1>2. CASE call[t].c.op \in {"open", "close"}
  BY <1>2 DEF OneMeters
<1>3. CASE call[t].c.op \notin {"open", "close"}
  BY <1>3 DEF OneMeters, Active, Unlocked, Underway
<1> QED  BY <1>2, <1>3

LEMMA MeasuresStays ==
  ASSUME NEW u \in Threads, Measures(u), call'[u] = call[u], kind' = kind, host'.func = host.func,
         (dev'.func = dev.func /\ dev'.errs = dev.errs) \/ ~Underway(u) \/ call[u].c.op # "function"
  PROVE  Measures(u)'
<1>1. CASE kind = "Keithley2400" /\ call[u].c.op = "function" /\ Underway(u)
  BY <1>1 DEF Measures, Underway, SwitchesOver, Known
<1>2. CASE ~(kind = "Keithley2400" /\ call[u].c.op = "function" /\ Underway(u))
  BY <1>2 DEF Measures, Underway
<1> QED  BY <1>1, <1>2

LEMMA DmmGivesUp ==
  ASSUME NEW t \in Threads, Base, kind \in Dmms, DmmInv, Busy(t), GivesUp(t), kind' = kind
  PROVE  DmmInv'
<1>1. call'[t] = Idle /\ host' = host /\ dev'.func = dev.func /\ line' = <<>> /\ ~RaiseAdrift
  BY DEF GivesUp, SameDev, DmmInv
<1>2. \A u \in Threads \ {t} : call'[u] = call[u]
  BY DEF GivesUp, Others
<1>3. ~Active(t)' /\ ~Underway(t)'
  BY <1>1, IdleIs DEF Active, Underway
<1>4. OneMeters'
  BY <1>2, <1>3 DEF DmmInv, OneMeters, Active, Underway
<1>5. FunctionInv'
  <2>1. kind = "Keithley2400" => Known
    BY <1>1 DEF RaiseAdrift, Known
  <2> QED  BY <1>1, <2>1 DEF DmmInv, FunctionInv, Known
<1>6. ASSUME NEW u \in Threads  PROVE Measures(u)' /\ Tells(u)'
  <2>1. CASE u = t
    BY <1>3, <2>1, TellsNothing DEF Measures
  <2>2. CASE u # t
    <3>1. ~Underway(u) \/ call[u].c.op # "function"
      BY <2>2, AloneSwitching DEF DmmInv, Underway, Busy
    <3> QED  BY <1>1, <1>2, <2>2, <3>1, MeasuresStays, TellsStays DEF DmmInv
  <2> QED  BY <2>1, <2>2
<1> QED  BY <1>1, <1>4, <1>5, <1>6 DEF DmmInv

\* A step that may set no function.
LEMMA MeterTakes ==
  ASSUME NEW t \in Threads, Base, Takes(t), FitsMeter(call[t].todo[1]), line = <<>>
  PROVE  LET m == call[t].todo[1] IN
         /\ dev'.func = dev.func /\ host'.func = host.func /\ line' = <<>>
         /\ dev.errs # 0 => m.do # "check" /\ dev'.errs # 0
<1> DEFINE m == call[t].todo[1]
<1>1. m.do \in ScpiDoes /\ (m.do = "put" => m.at[1] \in MeterPuts) /\ (m.do = "note" => m.at = "range")
  BY DEF FitsMeter, Fits
<1>2. line' = <<>>
  BY <1>1 DEF Takes, ScpiDoes
<1>3. host'.func = host.func
  BY <1>1, FuncStays
<1>4. \/ m.do = "put" /\ Command(m, m)
      \/ m.do = "put" /\ SameDev /\ dev'.errs = 1
      \/ dev' = dev /\ (m.do = "check" => dev.errs = 0)
  BY <1>1 DEF Takes, Effect, ScpiDoes
<1>5. CASE m.do = "put" /\ Command(m, m)
  BY <1>1, <1>2, <1>3, <1>5, CommandDoes DEF AcceptedParts, MeterPuts, Functions
<1>6. CASE m.do = "put" /\ SameDev /\ dev'.errs = 1
  BY <1>2, <1>3, <1>6 DEF SameDev
<1>7. CASE dev' = dev /\ (m.do = "check" => dev.errs = 0)
  BY <1>2, <1>3, <1>7
<1> QED  BY <1>4, <1>5, <1>6, <1>7

LEMMA SwitchTakes ==
  ASSUME NEW t \in Threads, Base, Takes(t), Busy(t), call[t].todo # <<>>, line = <<>>, SwitchesOver(t), kind' = kind,
         kind # "Aardvark"
  PROVE  SwitchesOver(t)' /\ host'.func = host.func /\ line' = <<>>
<1> DEFINE s == call[t].todo m == s[1] f == call[t].c.name
<1>1. call'[t].c = call[t].c /\ call'[t].todo = Tail(s)
  BY DEF Takes, Passes
<1>2. ~Refuses(s) /\ IsSeq(s) /\ s # <<>>
  BY DEF Takes, Effect, Refuses, Base, CallIsWhole
<1> HIDE DEF s
<1>3. \/ FitsMeter(m) /\ Switches(Tail(s), f) /\ Known
      \/ SetsFunction(m, f) /\ Metered(Tail(s)) /\ Checks(Tail(s))
      \/ FitsMeter(m) /\ Metered(Tail(s)) /\ (dev.func = f \/ (dev.errs # 0 /\ (m.do = "check" \/ Checks(Tail(s)))))
  <2>1. Metered(s) => FitsMeter(m) /\ Metered(Tail(s))
    BY <1>2, RestAsks DEF Metered, FitsMeter
  <2>2. (Switches(s, f) /\ Known) \/ (Metered(s) /\ (dev.func = f \/ (dev.errs # 0 /\ Checks(s))))
    BY <1>2 DEF SwitchesOver, s
  <2> QED  BY <1>2, <2>1, <2>2, RestSwitches
<1>4. CASE FitsMeter(m)
  <2>1. /\ dev'.func = dev.func /\ host'.func = host.func /\ line' = <<>>
        /\ dev.errs # 0 => m.do # "check" /\ dev'.errs # 0
    BY <1>4, MeterTakes DEF s
  <2>2. ~SetsFunction(m, f)
    <3>1. SetsFunction(m, f) => m.at[1] = "function" /\ m.do = "put"
      BY DEF SetsFunction
    <3> QED  BY <1>4, <3>1 DEF FitsMeter, Fits, MeterPuts, Functions
  <2>3. \/ Switches(Tail(s), f) /\ Known'
        \/ Metered(Tail(s)) /\ (dev'.func = f \/ (dev'.errs # 0 /\ Checks(Tail(s))))
    BY <1>3, <2>1, <2>2 DEF Known
  <2> QED  BY <1>1, <2>1, <2>3 DEF SwitchesOver
<1>5. CASE SetsFunction(m, f) /\ Metered(Tail(s)) /\ Checks(Tail(s))
  <2>1. m.do = "put" /\ m.at = <<"function", 0>> /\ m.to = f
    BY <1>5 DEF SetsFunction
  <2>2. host'.func = host.func /\ line' = <<>>
    BY <2>1, FuncStays DEF Takes, s
  <2>3. Command(m, m) \/ dev'.errs = 1
    BY <2>1 DEF Takes, Effect, s
  <2>4. Command(m, m) => dev'.func = f
    BY <2>1, CommandDoes DEF AcceptedParts
  <2>5. dev'.func = f \/ dev'.errs # 0
    BY <2>3, <2>4
  <2> QED  BY <1>1, <1>5, <2>2, <2>5 DEF SwitchesOver
<1> QED  BY <1>3, <1>4, <1>5

LEMMA DmmTakes ==
  ASSUME NEW t \in Threads, Base, kind \in Dmms, DmmInv, Busy(t), call[t].todo # <<>>, Takes(t), kind' = kind
  PROVE  DmmInv'
<1> DEFINE s == call[t].todo m == s[1] c == call[t].c
<1>1. /\ call'[t].c = c /\ call'[t].phase = "busy" /\ call'[t].todo = Tail(s)
      /\ \A u \in Threads \ {t} : call'[u] = call[u]
  BY DEF Takes, Passes, Others, Busy
<1>2. Measures(t) /\ Tells(t) /\ line = <<>> /\ Underway(t)
  BY DEF DmmInv, Underway, Busy
<1>3. c \in Issued(kind) /\ IsSeq(s) /\ s # <<>>
  BY <1>2 DEF Base, CallIsWhole
<1>4. kind # "Aardvark"
  BY KindsApart
<1> DEFINE switch == kind = "Keithley2400" /\ c.op = "function"
<1>5. ~switch => Metered(s) /\ (c.op = "read" => host.func # None)
  BY <1>2 DEF Measures
<1>6. switch => SwitchesOver(t)
  BY <1>2 DEF Measures
<1>7. ~switch => FitsMeter(m) /\ Metered(Tail(s))
  BY <1>3, <1>5, RestAsks DEF Metered, FitsMeter
<1>8. host'.func = host.func /\ line' = <<>>
  <2>1. CASE switch
    BY <1>2, <1>4, <1>6, <2>1, SwitchTakes
  <2>2. CASE ~switch
    BY <1>2, <1>7, <2>2, MeterTakes
  <2> QED  BY <2>1, <2>2
<1>9. Measures(t)'
  <2>1. CASE switch
    BY <1>1, <1>2, <1>4, <1>6, <2>1, SwitchTakes DEF Measures
  <2>2. CASE ~switch
    BY <1>1, <1>5, <1>7, <1>8, <2>2 DEF Measures
  <2> QED  BY <2>1, <2>2
<1>10. ASSUME NEW u \in Threads \ {t}  PROVE Measures(u)' /\ Tells(u)'
  <2>1. ~Underway(u) \/ call[u].c.op # "function"
    BY <1>2, AloneSwitching DEF DmmInv
  <2> QED  BY <1>1, <1>8, <2>1, MeasuresStays, TellsStays DEF DmmInv
<1>11. OneMeters'
  <2>1. \A u \in Threads : (Active(u)' <=> Active(u)) /\ (Underway(u)' <=> Underway(u)) /\ call'[u].c = call[u].c
    BY <1>1 DEF Active, Underway, Busy
  <2> QED  BY <2>1 DEF DmmInv, OneMeters
<1>12. FunctionInv'
  <2>1. Switching(t)' <=> Switching(t)
    BY <1>1 DEF Switching, Active, Busy
  <2>2. \A u \in Threads : Switching(u)' <=> Switching(u)
    BY <1>1, <2>1 DEF Switching, Active
  <2>3. switch => Switching(t)
    BY <1>2 DEF Switching, Active, Underway, Unlocked
  <2>4. ~switch => dev'.func = dev.func
    BY <1>2, <1>7, MeterTakes
  <2>5. kind = "Keithley2400" => Known' \/ \E u \in Threads : Switching(u)'
    <3>1. CASE switch
      BY <2>1, <2>3, <3>1
    <3>2. CASE ~switch
      BY <1>8, <2>2, <2>4, <3>2 DEF DmmInv, FunctionInv, Known
    <3> QED  BY <3>1, <3>2
  <2> QED  BY <1>8, <2>5 DEF DmmInv, FunctionInv
<1>13. Tells(t)'
  <2>1. ASSUME c.op \in Publishing, Obtains(m), m.at = Question(t)
        PROVE  Reply(dev, host, m.at) = PublishedAs(t)
    <3>1. c.op = "read"
      BY <1>3, <2>1, DmmCalls
    <3>2. PublishedAs(t) = <<host.func, 0>> /\ host.func \in Functions /\ host.func # None
      BY <1>5, <3>1 DEF PublishedAs, DmmInv, FunctionInv
    <3>3. CASE kind = "Agilent34401A"
      <4>1. m.at = <<host.func, 0>>
        BY <2>1, <3>3, QuestionIs DEF Question
      <4> QED  BY <3>2, <4>1, DmmReply
    <3>4. CASE kind = "Keithley2400"
      <4>1. \A u \in Threads : ~Switching(u)
        <5>1. Active(t)
          BY <1>2, <3>1 DEF Active, Underway, Unlocked
        <5> QED  BY <3>1, <5>1 DEF Switching, DmmInv, OneMeters
      <4>2. dev.func = host.func
        BY <3>2, <3>4, <4>1 DEF DmmInv, FunctionInv, Known
      <4>3. m.at = <<"read", 0>>
        BY <2>1, <3>4, QuestionIs DEF Question
      <4> QED  BY <3>2, <4>2, <4>3, DmmReply
    <3> QED  BY <3>3, <3>4 DEF Dmms
  <2> QED  BY <1>2, <1>8, <2>1, TellsOn
<1> QED  BY <1>8, <1>9, <1>10, <1>11, <1>12, <1>13 DEF DmmInv

LEMMA DmmEnter ==
  ASSUME NEW t \in Threads, Base, Held, kind \in Dmms, DmmInv, Enter(t), ~adrift', kind' = kind
  PROVE  DmmInv' /\ Base'
<1>1. PICK c \in Calls(t) : /\ Begins(t, c) /\ ~Underway(t) /\ Ready(kind, host, c)
                            /\ Locks(kind, c) => owner = None
                            /\ adrift' = EnterAdrift(t, c)
  BY EnterBegins
<1> DEFINE s == Steps(kind, host, c)
<1>2. c \in Issued(kind)
  BY CallsAreIssued
<1>3. MeterList(s, c) /\ IsSeq(s)
  BY <1>1, <1>2, DmmLists DEF DmmInv, FunctionInv
<1>4. /\ call'[t].c = c /\ call'[t].phase = "busy" /\ call'[t].todo = s
      /\ \A u \in Threads \ {t} : call'[u] = call[u]
      /\ host' = host /\ dev' = dev /\ line' = line
  BY <1>1 DEF Begins, Others
<1>5. Base'
  BY <1>1, <1>3, EnterBase
<1> HIDE DEF s
<1>6. /\ c.op \in {"read", "function", "range", "open", "close"}
      /\ Locks(kind, c) <=> c.op \in {"read", "function", "range"}
      /\ c.op \in Publishing => c.op = "read"
      /\ c.op \in {"function", "open", "close"} => t = User
  BY <1>2, DmmCalls
<1>7. c.op \in {"read", "function", "range"} => \A u \in Threads : ~Active(u)
  <2> SUFFICES ASSUME c.op \in {"read", "function", "range"}, NEW u \in Threads, Active(u)  PROVE FALSE
    OBVIOUS
  <2>1. u # t
    BY <1>1 DEF Active, Underway
  <2>2. call[u].phase # "post"
    BY <1>1, <2>1 DEF EnterAdrift
  <2>3. Busy(u) /\ call[u].c \in Issued(kind)
    BY <2>2 DEF Active, Busy, Base, CallIsWhole, Underway
  <2>4. Locks(kind, call[u].c)
    BY <2>3, DmmCalls DEF Active, Unlocked
  <2> QED  BY <1>1, <1>6, <2>3, <2>4, BenchAssumption DEF Held
<1>8. OneMeters'
  <2>1. \A u \in Threads \ {t} : (Active(u)' <=> Active(u)) /\ (Underway(u)' <=> Underway(u)) /\ call'[u].c = call[u].c
    BY <1>4 DEF Active, Underway
  <2>2. Active(t)' => c.op \in {"read", "function", "range"}
    BY <1>4, <1>6 DEF Active, Unlocked
  <2> QED  BY <1>4, <1>6, <1>7, <2>1, <2>2 DEF DmmInv, OneMeters
<1>9. FunctionInv'
  <2>1. \A u \in Threads : Switching(u) => Switching(u)'
    BY <1>1, <1>4 DEF Switching, Active, Underway
  <2> QED  BY <1>4, <2>1 DEF DmmInv, FunctionInv, Known
<1>10. \A u \in Threads \ {t} : Measures(u)' /\ Tells(u)'
  BY <1>4, MeasuresStays, TellsStays DEF DmmInv
<1>11. Measures(t)'
  <2>1. CASE kind = "Keithley2400" /\ c.op = "function"
    <3>1. Known'
      BY <1>4, <1>7, <2>1 DEF DmmInv, FunctionInv, Known, Switching
    <3> QED  BY <1>3, <1>4, <2>1, <3>1 DEF MeterList, Measures, SwitchesOver
  <2>2. CASE ~(kind = "Keithley2400" /\ c.op = "function")
    <3>1. c.op = "read" => host.func # None
      BY <1>1 DEF Ready, DmmReady
    <3> QED  BY <1>3, <1>4, <2>2, <3>1 DEF MeterList, Measures
  <2> QED  BY <2>1, <2>2
<1>12. Tells(t)'
  <2>1. c.op \in Publishing => Refuses(s) \/ Asks(s, QuestionOf(kind, c, host.func))
    BY <1>3, <1>6 DEF MeterList
  <2> QED  BY <1>1, <2>1, TellsNew DEF s
<1> QED  BY <1>4, <1>5, <1>8, <1>9, <1>10, <1>11, <1>12 DEF DmmInv

LEMMA DmmFinish ==
  ASSUME NEW t \in Threads, Base, kind \in Dmms, DmmInv, Finish(t), kind' = kind
  PROVE  DmmInv'
<1>1. /\ Others(t) /\ Busy(t) /\ call'[t].c = call[t].c /\ call'[t].phase = "post" /\ call'[t].todo = call[t].todo
      /\ host' = host /\ dev' = dev /\ line' = line
  BY FinishEnds
<1>2. \A u \in Threads : /\ (Active(u)' <=> Active(u)) /\ (Underway(u)' <=> Underway(u))
                         /\ call'[u].c = call[u].c /\ call'[u].todo = call[u].todo
  BY <1>1 DEF Active, Underway, Others, Busy
<1>3. OneMeters' /\ FunctionInv'
  BY <1>1, <1>2 DEF DmmInv, OneMeters, FunctionInv, Known, Switching
<1>4. ASSUME NEW u \in Threads  PROVE Measures(u)'
  <2>1. SwitchesOver(u) => SwitchesOver(u)'
    BY <1>1, <1>2 DEF SwitchesOver, Known
  <2> QED  BY <1>1, <1>2, <2>1 DEF DmmInv, Measures
<1>5. \A u \in Threads : Tells(u)'
  <2>1. \A u \in Threads \ {t} : Tells(u)'
    BY <1>1, TellsStays DEF DmmInv, Others
  <2> QED  BY <2>1, TellsEnd DEF DmmInv
<1> QED  BY <1>1, <1>3, <1>4, <1>5 DEF DmmInv

LEMMA DmmPosts ==
  ASSUME NEW t \in Threads, Base, kind \in Dmms, DmmInv, Post(t), kind' = kind
  PROVE  DmmInv'
<1> DEFINE c == call[t].c
<1>1. /\ Others(t) /\ call[t].phase = "post" /\ call'[t] = Idle /\ dev' = dev /\ line' = line
      /\ host' = DmmPost(host, c)
  <2>1. kind \notin Scopes
    BY KindsApart
  <2> QED  BY <2>1, PostEnds
<1>2. call[t].todo = <<>> /\ c \in Issued(kind) /\ Underway(t) /\ DOMAIN host = HostParts
  BY <1>1 DEF Base, CallIsWhole, Underway
<1>3. ~Active(t)' /\ ~Underway(t)'
  BY <1>1, IdleIs DEF Active, Underway
<1>4. OneMeters'
  BY <1>1, <1>3 DEF DmmInv, OneMeters, Active, Underway, Others
<1>5. CASE c.op # "function"
  <2>1. host' = host
    BY <1>1, <1>5 DEF DmmPost
  <2>2. FunctionInv'
    <3>1. \A u \in Threads : Switching(u) => Switching(u)'
      BY <1>1, <1>5 DEF Switching, Active, Others
    <3> QED  BY <1>1, <2>1, <3>1 DEF DmmInv, FunctionInv, Known
  <2>3. \A u \in Threads : Measures(u)' /\ Tells(u)'
    <3>1. \A u \in Threads \ {t} : Measures(u)' /\ Tells(u)'
      BY <1>1, <2>1, MeasuresStays, TellsStays DEF DmmInv, Others
    <3> QED  BY <1>3, <3>1, TellsNothing DEF Measures
  <2> QED  BY <1>1, <1>4, <2>2, <2>3 DEF DmmInv
<1>6. CASE c.op = "function"
  <2>1. c.name \in Functions /\ host'.func = c.name
    BY <1>1, <1>2, <1>6, DmmCalls DEF DmmPost, HostParts
  <2>2. FunctionInv'
    <3>1. kind = "Keithley2400" => dev.func = c.name
      <4> SUFFICES ASSUME kind = "Keithley2400"  PROVE dev.func = c.name
        OBVIOUS
      <4>1. SwitchesOver(t)
        BY <1>2, <1>6 DEF DmmInv, Measures
      <4> QED  BY <1>2, <4>1, EmptyIs DEF SwitchesOver, Switches, Checks
    <3> QED  BY <1>1, <2>1, <3>1 DEF FunctionInv, Known
  <2>3. ASSUME NEW u \in Threads \ {t}  PROVE Measures(u)' /\ Tells(u)'
    <3>1. call'[u] = call[u]
      BY <1>1 DEF Others
    <3>2. Underway(u) => call[u].c.op \in {"open", "close"}
      <4>1. Active(t)
        BY <1>2, <1>6 DEF Active, Underway, Unlocked
      <4>2. ~Active(u)
        BY <4>1 DEF DmmInv, OneMeters
      <4> QED  BY <4>2 DEF Active, Underway, Unlocked
    <3>3. Measures(u)'
      BY <3>1, <3>2 DEF DmmInv, Measures, Underway
    <3>4. Tells(u)'
      BY <3>1, <3>2 DEF Tells, Underway, Publishing
    <3> QED  BY <3>3, <3>4
  <2>4. Measures(t)' /\ Tells(t)'
    BY <1>3, TellsNothing DEF Measures
  <2> QED  BY <1>1, <1>4, <2>2, <2>3, <2>4 DEF DmmInv
<1> QED  BY <1>5, <1>6

----------------------------------------------------------------------------
(* The electronic load *)

LoadPuts == {None, "CC", "CP", "mode", "input", "short", "load range", "remote"}
Loaded(s) == Within(s, ScpiDoes, LoadPuts, {})

LoadInv ==
  /\ line = <<>> /\ host.mode \in {None, "CC", "CP"}
  /\ \A t \in Threads : Loaded(call[t].todo) /\ Tells(t)

LEMMA LoadCalls ==
  ASSUME kind \in Loads, NEW c \in Issued(kind)
  PROVE  /\ c.op \in {"get", "mode", "level", "range", "short", "output", "open", "close"}
         /\ c.op \in Publishing => c.op = "get" /\ c.name = "current" /\ c.ch = 0
         /\ c.op = "mode" => c.name \in {"CC", "CP"}
<1>1. kind \notin Psus /\ kind \notin Dmms /\ kind \notin Scopes /\ kind # "Aardvark"
  BY KindsApart
<1>2. Statuses(kind) = {} /\ Reads(kind) = LoadReads /\ Writes(kind) = LoadWrites
  BY <1>1 DEF Statuses, Reads, Writes, Loads
<1>3. c \in LoadReads \cup LoadWrites \cup {C("open", "none", 0, 0), C("close", "none", 0, 0)}
  BY <1>2 DEF Issued
<1>4. CASE c \in LoadReads
  BY <1>4 DEF LoadReads, C
<1>5. CASE c \in LoadWrites
  BY <1>5 DEF LoadWrites, C, Publishing
<1>6. CASE c \in {C("open", "none", 0, 0), C("close", "none", 0, 0)}
  BY <1>6 DEF C, Publishing
<1> QED  BY <1>3, <1>4, <1>5, <1>6

LEMMA LoadSteps ==
  /\ Loaded(Check) /\ Loaded(Refuse) /\ Loaded(<<>>) /\ \A at : Loaded(Ask(at))
  /\ \A name \in LoadPuts : \A v : Loaded(Put(<<name, 0>>, v))
  /\ Loaded(Step("open", <<"session", 0>>, 0)) /\ Loaded(Step("close", <<"session", 0>>, 0))
<1>1. Loaded(Check) /\ Loaded(Refuse) /\ Loaded(<<>>) /\ \A at : Loaded(Ask(at))
  BY StepWithin, EmptyIs DEF Loaded, Check, Refuse, Ask, ScpiDoes
<1>2. ASSUME NEW name \in LoadPuts, NEW v  PROVE Loaded(Put(<<name, 0>>, v))
  <2>1. <<name, 0>>[1] \in LoadPuts
    OBVIOUS
  <2> QED  BY <2>1, StepWithin DEF Loaded, Put, ScpiDoes
<1>3. Loaded(Step("open", <<"session", 0>>, 0)) /\ Loaded(Step("close", <<"session", 0>>, 0))
  BY StepWithin DEF Loaded, ScpiDoes
<1> QED  BY <1>1, <1>2, <1>3

LEMMA LoadMore ==
  ASSUME NEW a, NEW b, Loaded(a), Loaded(b)
  PROVE  Loaded(a \o b) /\ Loaded(Locked(a)) /\ Listed(a) /\ IsSeq(a)
<1>1. Loaded(a \o b) /\ Loaded(Locked(a)) /\ Listed(a)
  BY CatWithin, LockedWithin, WithinIsListed DEF Loaded
<1> QED  BY <1>1 DEF Listed

LEMMA LoadPutting ==
  ASSUME NEW name \in LoadPuts, NEW x
  PROVE  Loaded(Locked(Put(<<name, 0>>, x) \o Check))
<1> DEFINE p == Put(<<name, 0>>, x)
<1>1. Loaded(p) /\ Loaded(Check)
  BY LoadSteps
<1> HIDE DEF p
<1>2. Loaded(p \o Check)
  BY <1>1, LoadMore
<1> QED  BY <1>1, <1>2, LoadMore DEF p

LEMMA LoadLists ==
  ASSUME kind \in Loads, NEW c \in Issued(kind), host.mode \in {None, "CC", "CP"}
  PROVE  LET s == Steps(kind, host, c) IN
         Loaded(s) /\ IsSeq(s) /\ (c.op \in Publishing => Asks(s, QuestionOf(kind, c, host.func)))
<1> DEFINE s == Steps(kind, host, c)
<1>1. kind \notin Psus /\ kind \notin Dmms /\ kind \notin Scopes /\ kind # "Aardvark"
  BY KindsApart
<1>2. /\ c.op \in {"get", "mode", "level", "range", "short", "output", "open", "close"}
      /\ c.op \in Publishing => c.op = "get" /\ c.name = "current" /\ c.ch = 0
  BY LoadCalls
<1>3. CASE c.op = "get"
  <2>1. s = Locked(Ask(<<c.name, 0>>) \o Check)
    BY <1>1, <1>3 DEF Steps, MethodSteps, BK85XXB
  <2>2. QuestionOf(kind, c, host.func) = <<c.name, 0>>
    <3>1. kind \notin Numbered
      BY DEF Loads, Numbered
    <3> QED  BY <3>1, QuestionIs
  <2> HIDE DEF s
  <2> DEFINE q == Ask(<<c.name, 0>>)
  <2>3. Loaded(q) /\ Asks(q, <<c.name, 0>>)
    BY LoadSteps, OneStepIs DEF Ask
  <2> HIDE DEF q
  <2>4. Loaded(q \o Check) /\ Listed(q) /\ Listed(Check) /\ Silent(Check)
    BY <2>3, LoadSteps, LoadMore, DirectSteps
  <2>5. Asks(q \o Check, <<c.name, 0>>) /\ Listed(q \o Check)
    BY <2>3, <2>4, CatAsks
  <2>6. Loaded(Locked(q \o Check)) /\ Asks(Locked(q \o Check), <<c.name, 0>>)
    BY <2>4, <2>5, LoadMore, LockedAsks
  <2>7. s = Locked(q \o Check)
    BY <2>1 DEF q
  <2>8. IsSeq(s)
    BY <2>6, <2>7, LoadMore
  <2> QED  BY <2>2, <2>6, <2>7, <2>8 DEF s
<1>4. CASE c.op # "get"
  <2>1. c.op \notin Publishing
    BY <1>2, <1>4
  <2>2. Loaded(s)
    <3>1. CASE c.op = "open"
      <4>1. s = Step("open", <<"session", 0>>, 0) \o LoadOpen
        BY <1>1, <3>1 DEF Steps, OpenSteps, Dmms, Psus, Loads
      <4>2. Loaded(LoadOpen)
        BY LoadPutting DEF LoadOpen, LoadPuts
      <4> HIDE DEF s
      <4> QED  BY <4>1, <4>2, LoadSteps, LoadMore
    <3>2. CASE c.op = "close"
      <4>1. s = <<>> \o Step("close", <<"session", 0>>, 0)
        BY <1>1, <3>2 DEF Steps, CloseSteps, Dmms
      <4> HIDE DEF s
      <4> QED  BY <4>1, LoadSteps, LoadMore
    <3>3. CASE c.op \in {"mode", "level", "range", "output"}
      <4>1. s = BK85XXB(host, c)
        BY <1>1, <3>3 DEF Steps, MethodSteps
      <4>2. \/ s = Refuse
            \/ \E name \in LoadPuts : \E x : s = Locked(Put(<<name, 0>>, x) \o Check)
        BY <3>3, <4>1 DEF BK85XXB, LoadPuts
      <4> HIDE DEF s
      <4> QED  BY <4>2, LoadPutting, LoadSteps
    <3>4. CASE c.op = "short"
      <4> DEFINE p == Put(<<"short", 0>>, c.val) q == Put(<<"input", 0>>, c.val)
      <4>1. s = Locked((p \o q) \o Check)
        BY <1>1, <3>4 DEF Steps, MethodSteps, BK85XXB
      <4>2. Loaded(p) /\ Loaded(q) /\ Loaded(Check)
        BY LoadSteps DEF LoadPuts
      <4> HIDE DEF s, p, q
      <4>3. Loaded(p \o q)
        BY <4>2, LoadMore
      <4>4. Loaded((p \o q) \o Check)
        BY <4>2, <4>3, LoadMore
      <4> QED  BY <4>1, <4>2, <4>4, LoadMore
    <3> QED  BY <1>2, <1>4, <3>1, <3>2, <3>3, <3>4
  <2> HIDE DEF s
  <2>3. IsSeq(s)
    BY <2>2, LoadMore
  <2> QED  BY <2>1, <2>2, <2>3 DEF s
<1> QED  BY <1>3, <1>4

LEMMA LoadSteady ==
  ASSUME NEW t \in Threads, LoadInv, Others(t), kind' = kind, host'.func = host.func
  PROVE  \A u \in Threads \ {t} : Loaded(call'[u].todo) /\ Tells(u)'
  BY TellsStays DEF LoadInv, Others

LEMMA LoadStep ==
  ASSUME NEW t \in Threads, Base, kind \in Loads, LoadInv, Busy(t), call[t].todo # <<>>, Takes(t) \/ GivesUp(t), kind' = kind
  PROVE  LoadInv'
<1> DEFINE s == call[t].todo m == s[1]
<1>1. CASE GivesUp(t)
  <2>1. Others(t) /\ call'[t] = Idle /\ host' = host /\ line' = <<>>
    BY <1>1 DEF GivesUp, LoadInv
  <2>2. Loaded(call'[t].todo) /\ Tells(t)'
    BY <2>1, IdleIs, EmptyIs, TellsNothing DEF Underway, Loaded
  <2> QED  BY <2>1, <2>2, LoadSteady DEF LoadInv
<1>2. CASE Takes(t)
  <2>1. IsSeq(s) /\ s # <<>> /\ Loaded(s) /\ line = <<>> /\ Tells(t)
    BY DEF Base, CallIsWhole, LoadInv
  <2>2. Others(t) /\ call'[t].todo = Tail(s)
    BY <1>2 DEF Takes, Passes
  <2>3. Fits(m, ScpiDoes, LoadPuts, {}) /\ Loaded(Tail(s))
    BY <2>1, RestAsks DEF Loaded
  <2>4. m.do # "block" /\ m.do # "note" /\ m.do # "merge"
    BY <2>3 DEF Fits, ScpiDoes
  <2>5. host'.func = host.func /\ line' = <<>>
    BY <1>2, <2>1, <2>4, FuncStays DEF Takes
  <2>6. host'.mode = host.mode
    BY <1>2, <2>4 DEF Takes, Effect, Command, SameHost
  <2>7. Tells(t)'
    <3>1. ASSUME call[t].c.op \in Publishing, m.at = Question(t)
          PROVE  Reply(dev, host, m.at) = PublishedAs(t)
      <4>1. call[t].c \in Issued(kind)
        BY DEF Base, CallIsWhole, Underway, Busy
      <4>2. call[t].c.op = "get" /\ call[t].c.name = "current" /\ call[t].c.ch = 0
        BY <3>1, <4>1, LoadCalls
      <4>3. PublishedAs(t) = <<"current", 0>>
        BY <4>2 DEF PublishedAs
      <4>4. kind \notin Numbered
        BY DEF Loads, Numbered
      <4>5. m.at = <<"current", 0>>
        BY <3>1, <4>2, <4>4, QuestionIs DEF Question
      <4>6. Reply(dev, host, <<"current", 0>>) = <<"current", 0>>
        BY DEF Reply
      <4> QED  BY <4>3, <4>5, <4>6
    <3> QED  BY <1>2, <2>1, <2>5, <3>1, TellsOn
  <2> QED  BY <2>2, <2>3, <2>5, <2>6, <2>7, LoadSteady DEF LoadInv
<1> QED  BY <1>1, <1>2

LEMMA LoadEnter ==
  ASSUME NEW t \in Threads, Base, kind \in Loads, LoadInv, Enter(t), kind' = kind
  PROVE  LoadInv' /\ Base'
<1>1. PICK c \in Calls(t) : Begins(t, c)
  BY EnterBegins
<1> DEFINE s == Steps(kind, host, c)
<1>2. c \in Issued(kind)
  BY CallsAreIssued
<1>3. Loaded(s) /\ IsSeq(s) /\ (c.op \in Publishing => Asks(s, QuestionOf(kind, c, host.func)))
  BY <1>2, LoadLists DEF LoadInv
<1>4. Others(t) /\ call'[t].todo = s /\ host' = host /\ line' = line
  BY <1>1 DEF Begins
<1>5. Base'
  BY <1>1, <1>3, EnterBase
<1>6. Tells(t)'
  BY <1>1, <1>3, TellsNew
<1> HIDE DEF s
<1> QED  BY <1>3, <1>4, <1>5, <1>6, LoadSteady DEF LoadInv

LEMMA LoadRest ==
  ASSUME NEW t \in Threads, Base, kind \in Loads, LoadInv, Finish(t) \/ Post(t) \/ Prepare(t), kind' = kind
  PROVE  LoadInv'
<1>1. CASE Finish(t)
  <2>1. Others(t) /\ call'[t].todo = call[t].todo /\ host' = host /\ line' = line
    BY <1>1, FinishEnds
  <2>2. Tells(t)'
    BY <1>1, TellsEnd DEF LoadInv
  <2> QED  BY <2>1, <2>2, LoadSteady DEF LoadInv
<1>2. CASE Post(t)
  <2>1. Others(t) /\ call'[t] = Idle /\ line' = line
    BY <1>2, PostEnds
  <2>2. host' = host
    <3>1. kind \notin Dmms /\ kind \notin Scopes
      BY KindsApart
    <3> QED  BY <1>2, <3>1, PostEnds
  <2>3. Loaded(call'[t].todo) /\ Tells(t)'
    BY <2>1, IdleIs, EmptyIs, TellsNothing DEF Underway, Loaded
  <2> QED  BY <2>1, <2>2, <2>3, LoadSteady DEF LoadInv
<1>3. CASE Prepare(t)
  <2>1. /\ Others(t) /\ call'[t].phase = "wait" /\ call'[t].todo = <<>> /\ line' = line
        /\ \E c \in Calls(t) : c.op = "mode" /\ host' = LoadPre(host, c)
    BY <1>3, PrepareIs
  <2>2. PICK c \in Calls(t) : c.op = "mode" /\ host' = [host EXCEPT !.mode = c.name]
    BY <2>1 DEF LoadPre
  <2>3. c.name \in {"CC", "CP"} /\ DOMAIN host = HostParts
    BY <2>2, CallsAreIssued, LoadCalls DEF Base
  <2>4. host'.mode = c.name /\ host'.func = host.func
    BY <2>2, <2>3 DEF HostParts
  <2>5. Loaded(call'[t].todo) /\ Tells(t)'
    BY <2>1, EmptyIs, TellsNothing DEF Underway, Loaded
  <2> QED  BY <2>1, <2>3, <2>4, <2>5, LoadSteady DEF LoadInv
<1> QED  BY <1>1, <1>2, <1>3

----------------------------------------------------------------------------
(* The oscilloscopes: what their methods do *)

ScopeDoes == {"open", "close", "check", "ask", "raise", "put", "note", "await", "block", "drain"}
ScopePuts ==
  {"scale", "average", "acq mode", "averaging", "acquisition", "stop after", "opc", "trigger mode", "force",
   "data stop", "wave setup", "display", "select", "trigger", "trigger type", "level", "slope",
   "save", "read file", "delete", "upload", "headers", "clear status"}
ScopeNotes == {"acquired", "average", "source", "type"}

\* Steps that leave the waveform source and the measurement slots alone.
QuietStep(m) == Fits(m, ScopeDoes, ScopePuts, ScopeNotes)
Quiet(s) == Within(s, ScopeDoes, ScopePuts, ScopeNotes)

\* load_settings() may also recall a setup.
Recalls(s) == Within(s, ScopeDoes, ScopePuts \cup {"recall"}, ScopeNotes)

\* fetch_waveform(): the source is set, and checked, before anything is read.
SetsWave(m, ch) == m.do = "put" /\ m.at = <<"wave source", 0>> /\ m.to = ch
Frames(s, ch) ==
  \E i \in DOMAIN s :
    /\ SetsWave(s[i], ch) /\ i + 1 \in DOMAIN s /\ s[i + 1].do = "check"
    /\ \A j \in DOMAIN s \ {i} : QuietStep(s[j])
    /\ \A j \in DOMAIN s : j < i => ~Obtains(s[j])

LEMMA QuietSteps ==
  /\ Quiet(Check) /\ Quiet(Refuse) /\ Quiet(<<>>)
  /\ \A at : Quiet(Ask(at)) /\ Quiet(Step("block", at, 0)) /\ Quiet(Step("drain", at, 0)) /\ Quiet(Step("await", at, 0))
  /\ \A at : Quiet(Step("open", at, 0)) /\ Quiet(Step("close", at, 0))
  /\ \A name \in ScopePuts : \A ch, v : Quiet(Put(<<name, ch>>, v))
  /\ \A a \in ScopeNotes : \A v : Quiet(Note(a, v))
<1>1. Quiet(Check) /\ Quiet(Refuse) /\ Quiet(<<>>) /\ \A at : Quiet(Ask(at))
  BY StepWithin, EmptyIs DEF Quiet, Check, Refuse, Ask, ScopeDoes
<1>2. ASSUME NEW do \in {"block", "drain", "await", "open", "close"}, NEW at  PROVE Quiet(Step(do, at, 0))
  BY StepWithin DEF Quiet, ScopeDoes
<1>3. ASSUME NEW name \in ScopePuts, NEW ch, NEW v  PROVE Quiet(Put(<<name, ch>>, v))
  <2>1. <<name, ch>>[1] \in ScopePuts
    OBVIOUS
  <2> QED  BY <2>1, StepWithin DEF Quiet, Put, ScopeDoes
<1>4. ASSUME NEW a \in ScopeNotes, NEW v  PROVE Quiet(Note(a, v))
  BY StepWithin DEF Quiet, Note, ScopeDoes
<1> QED  BY <1>1, <1>2, <1>3, <1>4

LEMMA QuietMore ==
  ASSUME NEW a, NEW b, Quiet(a), Quiet(b)
  PROVE  Quiet(a \o b) /\ Quiet(Locked(a)) /\ Listed(a) /\ IsSeq(a)
<1>1. Quiet(a \o b) /\ Quiet(Locked(a)) /\ Listed(a)
  BY CatWithin, LockedWithin, WithinIsListed DEF Quiet
<1> QED  BY <1>1 DEF Listed

LEMMA SilentSteps ==
  /\ Silent(Check) /\ Silent(Refuse) /\ Silent(<<>>)
  /\ \A at, v : Silent(Put(at, v)) /\ Silent(Note(at, v))
  /\ \A at : Silent(Step("drain", at, 0)) /\ Silent(Step("await", at, 0))
  /\ \A at : Asks(Ask(at), at) /\ Asks(Step("block", at, 0), at)
  BY OneStepIs, EmptyIs DEF Check, Refuse, Put, Note, Ask

\* A list that is quiet and obtains nothing; one that is quiet and asks at last.
Mum(s) == Quiet(s) /\ Silent(s)
Queries(s, at) == Quiet(s) /\ Asks(s, at)

LEMMA MumSteps ==
  /\ Mum(Check) /\ Mum(Refuse) /\ Mum(<<>>)
  /\ \A name \in ScopePuts : \A ch, v : Mum(Put(<<name, ch>>, v))
  /\ \A a \in ScopeNotes : \A v : Mum(Note(a, v))
  /\ \A at : Mum(Step("drain", at, 0)) /\ Mum(Step("await", at, 0))
  /\ \A at : Queries(Ask(at), at) /\ Queries(Step("block", at, 0), at)
  BY QuietSteps, SilentSteps DEF Mum, Queries

LEMMA MumMore ==
  ASSUME NEW a, NEW b
  PROVE  /\ Mum(a) /\ Mum(b) => Mum(a \o b)
         /\ \A at : Quiet(a) /\ Queries(b, at) => Queries(a \o b, at)
         /\ \A at : Queries(a, at) /\ Mum(b) => Queries(a \o b, at)
         /\ Mum(a) => Mum(Locked(a)) /\ Quiet(a)
         /\ \A at : Queries(a, at) => Queries(Locked(a), at) /\ Quiet(a)
<1>1. Quiet(a) => Quiet(Locked(a)) /\ Listed(a)
  BY QuietMore
<1>2. Quiet(a) /\ Quiet(b) => Quiet(a \o b) /\ Listed(a) /\ Listed(b)
  BY QuietMore
<1> QED  BY <1>1, <1>2, CatAsks, LockedAsks DEF Mum, Queries

LEMMA FramesOne ==
  ASSUME NEW ch
  PROVE  LET s == Put(<<"wave source", 0>>, ch) \o Check IN Frames(s, ch) /\ Listed(s)
<1> DEFINE w == <<"wave source", 0>>
<1> HIDE DEF w
<1> DEFINE p == Put(w, ch) q == Check s == p \o q
<1>1. /\ IsSeq(p) /\ Listed(p) /\ DOMAIN p = {1} /\ Len(p) = 1
      /\ p[1].do = "put" /\ p[1].at = w /\ p[1].to = ch
  BY OneStepIs DEF Put
<1>2. IsSeq(q) /\ Listed(q) /\ DOMAIN q = {1} /\ q[1].do = "check"
  BY OneStepIs DEF Check
<1>3. QuietStep(q[1])
  BY <1>2, QuietSteps DEF Quiet, Within, QuietStep
<1> HIDE DEF p, q
<1>4. Joined(p, q) /\ Listed(s)
  BY <1>1, <1>2, PlacesOf, CatAsks
<1>5. s[1] = p[1] /\ s[2] = q[1] /\ 1 \in DOMAIN s /\ 2 \in DOMAIN s /\ \A i \in DOMAIN s : i \in {1, 2}
  <2>1. 1 \in DOMAIN p /\ 1 \in DOMAIN q /\ Len(p) + 1 = 2
    BY <1>1, <1>2
  <2>2. \A i \in DOMAIN s : i \in DOMAIN p \/ i - Len(p) \in DOMAIN q
    BY <1>4 DEF Joined
  <2>3. DOMAIN s \subseteq Nat
    BY <1>4, ListOf DEF Listed
  <2> QED  BY <1>1, <1>2, <1>4, <2>1, <2>2, <2>3 DEF Joined
<1> HIDE DEF s
<1>6. SetsWave(s[1], ch) /\ 1 + 1 \in DOMAIN s /\ s[1 + 1].do = "check"
  <2>1. s[1].do = "put" /\ s[1].at = w /\ s[1].to = ch /\ 1 + 1 = 2 /\ s[2].do = "check"
    BY <1>1, <1>2, <1>5
  <2> QED  BY <1>5, <2>1 DEF SetsWave, w
<1>7. \A j \in DOMAIN s \ {1} : QuietStep(s[j])
  BY <1>3, <1>5
<1>8. \A j \in DOMAIN s : j < 1 => ~Obtains(s[j])
  BY <1>5
<1> QED  BY <1>4, <1>5, <1>6, <1>7, <1>8 DEF Frames, s, p, q, w

LEMMA FramesMore ==
  ASSUME NEW a, NEW b, NEW ch
  PROVE  /\ Mum(a) /\ Frames(b, ch) /\ IsSeq(b) => Frames(a \o b, ch)
         /\ Frames(a, ch) /\ IsSeq(a) /\ Quiet(b) => Frames(a \o b, ch)
<1> DEFINE r == a \o b m == Len(a)
<1>1. ASSUME IsSeq(a), IsSeq(b)
      PROVE  /\ \A i \in DOMAIN r : (i \in DOMAIN a /\ r[i] = a[i]) \/ (i - m \in DOMAIN b /\ r[i] = b[i - m])
             /\ \A i \in DOMAIN a : i \in DOMAIN r /\ r[i] = a[i]
             /\ \A i \in DOMAIN b : m + i \in DOMAIN r /\ r[m + i] = b[i]
             /\ m \in Nat /\ DOMAIN a = 1..m /\ DOMAIN b \subseteq Nat /\ DOMAIN r \subseteq Int
  <2>1. Joined(a, b)
    BY <1>1, PlacesOf
  <2> QED  BY <1>1, <2>1, ListOf DEF Joined
<1> HIDE DEF r, m
<1>2. ASSUME Mum(a), Frames(b, ch), IsSeq(b)  PROVE Frames(r, ch)
  <2>1. IsSeq(a) /\ (\A i \in DOMAIN a : QuietStep(a[i])) /\ \A i \in DOMAIN a : ~Obtains(a[i])
    BY <1>2 DEF Mum, Quiet, Within, QuietStep, Silent
  <2>2. PICK i \in DOMAIN b : /\ SetsWave(b[i], ch) /\ i + 1 \in DOMAIN b /\ b[i + 1].do = "check"
                              /\ \A j \in DOMAIN b \ {i} : QuietStep(b[j])
                              /\ \A j \in DOMAIN b : j < i => ~Obtains(b[j])
    BY <1>2 DEF Frames
  <2>3. m + i \in DOMAIN r /\ r[m + i] = b[i] /\ i \in Nat /\ m \in Nat
    BY <1>1, <1>2, <2>1
  <2>4. (m + i) + 1 \in DOMAIN r /\ r[(m + i) + 1] = b[i + 1]
    <3>1. (m + i) + 1 = m + (i + 1)
      BY <2>3
    <3> QED  BY <1>1, <1>2, <2>1, <2>2, <3>1
  <2>5. \A j \in DOMAIN r \ {m + i} : QuietStep(r[j])
    <3> TAKE j \in DOMAIN r \ {m + i}
    <3>1. CASE j \in DOMAIN a /\ r[j] = a[j]
      BY <2>1, <3>1
    <3>2. CASE j - m \in DOMAIN b /\ r[j] = b[j - m]
      <4>1. j - m # i
        BY <1>1, <1>2, <2>1, <2>3
      <4> QED  BY <2>2, <3>2, <4>1
    <3> QED  BY <1>1, <1>2, <2>1, <3>1, <3>2
  <2>6. \A j \in DOMAIN r : j < m + i => ~Obtains(r[j])
    <3> TAKE j \in DOMAIN r
    <3> HAVE j < m + i
    <3>1. CASE j \in DOMAIN a /\ r[j] = a[j]
      BY <2>1, <3>1
    <3>2. CASE j - m \in DOMAIN b /\ r[j] = b[j - m]
      <4>1. j - m < i
        BY <1>1, <1>2, <2>1, <2>3
      <4> QED  BY <2>2, <3>2, <4>1
    <3> QED  BY <1>1, <1>2, <2>1, <3>1, <3>2
  <2> QED  BY <2>2, <2>3, <2>4, <2>5, <2>6 DEF Frames
<1>3. ASSUME Frames(a, ch), IsSeq(a), Quiet(b)  PROVE Frames(r, ch)
  <2>1. IsSeq(b) /\ \A i \in DOMAIN b : QuietStep(b[i])
    BY <1>3 DEF Quiet, Within, QuietStep
  <2>2. PICK i \in DOMAIN a : /\ SetsWave(a[i], ch) /\ i + 1 \in DOMAIN a /\ a[i + 1].do = "check"
                              /\ \A j \in DOMAIN a \ {i} : QuietStep(a[j])
                              /\ \A j \in DOMAIN a : j < i => ~Obtains(a[j])
    BY <1>3 DEF Frames
  <2>3. i \in DOMAIN r /\ r[i] = a[i] /\ i + 1 \in DOMAIN r /\ r[i + 1] = a[i + 1] /\ i \in 1..m /\ m \in Nat
    BY <1>1, <1>3, <2>1, <2>2
  <2>4. \A j \in DOMAIN r \ {i} : QuietStep(r[j])
    BY <1>1, <1>3, <2>1, <2>2
  <2>5. \A j \in DOMAIN r : j < i => ~Obtains(r[j])
    <3> TAKE j \in DOMAIN r
    <3> HAVE j < i
    <3>1. j - m < 1
      BY <1>1, <1>3, <2>1, <2>3
    <3>2. \A k \in DOMAIN b : k >= 1
      BY <2>1, ListOf
    <3>3. j - m \notin DOMAIN b
      BY <3>1, <3>2, <1>1, <1>3, <2>1
    <3> QED  BY <1>1, <1>3, <2>1, <2>2, <3>3
  <2> QED  BY <2>2, <2>3, <2>4, <2>5 DEF Frames
<1> QED  BY <1>2, <1>3 DEF r

LEMMA RestFrames ==
  ASSUME NEW s, NEW ch, IsSeq(s), s # <<>>, Frames(s, ch)
  PROVE  \/ QuietStep(s[1]) /\ ~Obtains(s[1]) /\ Frames(Tail(s), ch)
         \/ SetsWave(s[1], ch) /\ Quiet(Tail(s)) /\ Tail(s) # <<>> /\ Tail(s)[1].do = "check"
<1> DEFINE r == Tail(s)
<1>1. 1 \in DOMAIN s /\ \A i \in DOMAIN r : r[i] = s[i + 1]
  BY TailOf
<1>2. IsSeq(r) /\ \A i : i \in DOMAIN r <=> i \in Nat \ {0} /\ i + 1 \in DOMAIN s
  BY TailOf
<1>3. DOMAIN s = 1..Len(s) /\ Len(s) \in Nat
  BY ListOf
<1> HIDE DEF r
<1>4. PICK i \in DOMAIN s : /\ SetsWave(s[i], ch) /\ i + 1 \in DOMAIN s /\ s[i + 1].do = "check"
                            /\ \A j \in DOMAIN s \ {i} : QuietStep(s[j])
                            /\ \A j \in DOMAIN s : j < i => ~Obtains(s[j])
  BY DEF Frames
<1>5. CASE i = 1
  <2>1. 1 \in DOMAIN r /\ r[1] = s[2]
    <3>1. 1 \in Nat \ {0} /\ 1 + 1 = 2
      OBVIOUS
    <3> QED  BY <1>1, <1>2, <1>4, <1>5, <3>1
  <2>2. \A j \in DOMAIN r : QuietStep(r[j])
    BY <1>1, <1>2, <1>3, <1>4, <1>5
  <2>3. r # <<>>
    BY <2>1, EmptyIs
  <2> QED  BY <1>2, <1>4, <1>5, <2>1, <2>2, <2>3 DEF Quiet, Within, QuietStep, r
<1>6. CASE i # 1
  <2>1. i - 1 \in DOMAIN r /\ r[i - 1] = s[i] /\ (i - 1) + 1 \in DOMAIN r /\ r[(i - 1) + 1] = s[i + 1]
    BY <1>1, <1>2, <1>3, <1>4, <1>6
  <2>2. \A j \in DOMAIN r \ {i - 1} : QuietStep(r[j])
    BY <1>1, <1>2, <1>3, <1>4
  <2>3. \A j \in DOMAIN r : j < i - 1 => ~Obtains(r[j])
    BY <1>1, <1>2, <1>3, <1>4
  <2>4. Frames(r, ch)
    BY <1>4, <2>1, <2>2, <2>3 DEF Frames
  <2>5. QuietStep(s[1]) /\ ~Obtains(s[1])
    BY <1>1, <1>3, <1>4, <1>6
  <2> QED  BY <2>4, <2>5 DEF r
<1> QED  BY <1>5, <1>6

\* setup_measurement() takes six steps, the last of which remembers the slot.
SlotsAt == <<"slots", 0>>
AddSlot == <<"add slot", 0>>
SlotSource == <<"slot source", 0>>
ErrorAt == <<"error", 0>>

Does(m, do, at, to) == m.do = do /\ m.at = at /\ m.to = to
SetupStep(n, m, key) ==
  /\ n = 1 => Does(m, "ask", SlotsAt, 0)
  /\ n = 2 => Does(m, "put", AddSlot, key[1])
  /\ n = 3 => m.do = "compare"
  /\ n = 4 => Does(m, "put", SlotSource, key[2])
  /\ n = 5 => m.do = "check"
  /\ n = 6 => Does(m, "note", "slot", key)

\* What is left of it after n of them.
SetsUp(s, n, key) ==
  /\ n \in 0..6 /\ Listed(s)
  /\ \A i \in 1..6 - n : i \in DOMAIN s /\ SetupStep(n + i, s[i], key)
  /\ \A i \in DOMAIN s : i > 6 - n => QuietStep(s[i])

LEMMA SetsUpMore ==
  ASSUME NEW n \in 0..5, NEW key, NEW do, NEW at, NEW to, NEW r, SetsUp(r, n + 1, key),
         \A m : Does(m, do, at, to) => SetupStep(n + 1, m, key)
  PROVE  SetsUp(Step(do, at, to) \o r, n, key)
<1> DEFINE d == Step(do, at, to) s == d \o r
<1>1. IsSeq(d) /\ Listed(d) /\ DOMAIN d = {1} /\ Len(d) = 1 /\ Does(d[1], do, at, to)
  BY OneStepIs DEF Does
<1>2. Listed(r) /\ IsSeq(r)
  BY DEF SetsUp, Listed
<1> HIDE DEF d
<1>3. Joined(d, r) /\ Listed(s)
  BY <1>1, <1>2, PlacesOf, CatAsks
<1>4. /\ 1 \in DOMAIN s /\ s[1] = d[1]
      /\ \A i \in DOMAIN r : 1 + i \in DOMAIN s /\ s[1 + i] = r[i]
      /\ \A i \in DOMAIN s : i = 1 \/ (i - 1 \in DOMAIN r /\ s[i] = r[i - 1])
  BY <1>1, <1>3 DEF Joined
<1>5. DOMAIN s \subseteq Nat /\ DOMAIN r \subseteq Nat
  BY <1>2, <1>3, ListOf DEF Listed
<1> HIDE DEF s
<1>6. SetupStep(n + 1, s[1], key)
  BY <1>1, <1>4
<1>7. ASSUME NEW i \in 1..6 - n  PROVE i \in DOMAIN s /\ SetupStep(n + i, s[i], key)
  <2>1. CASE i = 1
    BY <1>4, <1>6, <2>1
  <2>2. CASE i # 1
    <3>1. i - 1 \in 1..6 - (n + 1) /\ (n + 1) + (i - 1) = n + i /\ 1 + (i - 1) = i
      BY <2>2
    <3>2. i - 1 \in DOMAIN r /\ SetupStep((n + 1) + (i - 1), r[i - 1], key)
      BY <3>1 DEF SetsUp
    <3>3. 1 + (i - 1) \in DOMAIN s /\ s[1 + (i - 1)] = r[i - 1]
      BY <1>4, <3>2
    <3> QED  BY <3>1, <3>2, <3>3
  <2> QED  BY <2>1, <2>2
<1>8. ASSUME NEW i \in DOMAIN s, i > 6 - n  PROVE QuietStep(s[i])
  <2>1. i # 1 /\ i \in Nat
    BY <1>5, <1>8
  <2>2. i - 1 \in DOMAIN r /\ s[i] = r[i - 1] /\ i - 1 > 6 - (n + 1)
    BY <1>4, <1>8, <2>1
  <2> QED  BY <2>2 DEF SetsUp
<1>9. n \in 0..6
  OBVIOUS
<1> QED  BY <1>3, <1>7, <1>8, <1>9 DEF SetsUp, s, d

LEMMA RestSetsUp ==
  ASSUME NEW s, NEW n, NEW key, s # <<>>, SetsUp(s, n, key)
  PROVE  /\ n # 6 => SetupStep(n + 1, s[1], key) /\ SetsUp(Tail(s), n + 1, key)
         /\ n = 6 => Quiet(s)
<1> DEFINE r == Tail(s)
<1>1. IsSeq(s) /\ Listed(s) /\ n \in 0..6
  BY DEF SetsUp, Listed
<1>2. 1 \in DOMAIN s /\ IsSeq(r) /\ \A i \in DOMAIN r : r[i] = s[i + 1]
  BY <1>1, TailOf
<1>3. \A i : i \in DOMAIN r <=> i \in Nat \ {0} /\ i + 1 \in DOMAIN s
  BY <1>1, TailOf
<1>4. DOMAIN s \subseteq Nat \ {0}
  BY <1>1, ListOf
<1> HIDE DEF r
<1>5. ASSUME n # 6  PROVE SetupStep(n + 1, s[1], key) /\ SetsUp(r, n + 1, key)
  <2>1. 1 \in 1..6 - n /\ n + 1 \in 0..6 /\ 6 - (n + 1) = 5 - n
    BY <1>1, <1>5
  <2>2. SetupStep(n + 1, s[1], key)
    BY <2>1 DEF SetsUp
  <2>3. ASSUME NEW i \in 1..6 - (n + 1)  PROVE i \in DOMAIN r /\ SetupStep((n + 1) + i, r[i], key)
    <3>1. i + 1 \in 1..6 - n /\ n + (i + 1) = (n + 1) + i /\ i \in Nat \ {0}
      BY <1>1
    <3>2. i + 1 \in DOMAIN s /\ SetupStep(n + (i + 1), s[i + 1], key)
      BY <3>1 DEF SetsUp
    <3>3. i \in DOMAIN r /\ r[i] = s[i + 1]
      BY <1>2, <1>3, <3>1, <3>2
    <3> QED  BY <3>1, <3>2, <3>3
  <2>4. ASSUME NEW i \in DOMAIN r, i > 6 - (n + 1)  PROVE QuietStep(r[i])
    <3>1. i + 1 \in DOMAIN s /\ i + 1 > 6 - n /\ r[i] = s[i + 1]
      BY <1>1, <1>2, <1>3, <2>4
    <3> QED  BY <3>1 DEF SetsUp
  <2>5. Listed(r)
    BY <1>1, <1>2, <1>3 DEF Listed
  <2> QED  BY <2>1, <2>2, <2>3, <2>4, <2>5 DEF SetsUp
<1>6. ASSUME n = 6  PROVE Quiet(s)
  <2>1. \A i \in DOMAIN s : QuietStep(s[i])
    BY <1>4, <1>6 DEF SetsUp
  <2> QED  BY <1>1, <2>1 DEF Quiet, Within, QuietStep
<1> QED  BY <1>5, <1>6 DEF r

LEMMA SetupSteps ==
  ASSUME NEW key, NEW m
  PROVE  /\ Does(m, "ask", SlotsAt, 0) => SetupStep(0 + 1, m, key)
         /\ Does(m, "put", AddSlot, key[1]) => SetupStep(1 + 1, m, key)
         /\ Does(m, "compare", SlotsAt, 0) => SetupStep(2 + 1, m, key)
         /\ Does(m, "put", SlotSource, key[2]) => SetupStep(3 + 1, m, key)
         /\ Does(m, "check", ErrorAt, 0) => SetupStep(4 + 1, m, key)
         /\ Does(m, "note", "slot", key) => SetupStep(5 + 1, m, key)
  BY DEF SetupStep, Does

Cat(x, y) == x \o y

LEMMA Regroup ==
  \A x, y, z : IsSeq(x) /\ IsSeq(y) /\ IsSeq(z) => Cat(Cat(x, y), z) = Cat(x, Cat(y, z)) /\ IsSeq(Cat(x, y))
<1> SUFFICES ASSUME NEW x, NEW y, NEW z, IsSeq(x), IsSeq(y), IsSeq(z)
             PROVE  Cat(Cat(x, y), z) = Cat(x, Cat(y, z)) /\ IsSeq(Cat(x, y))
  OBVIOUS
<1>1. (x \o y) \o z = x \o (y \o z)
  BY CatAssoc
<1>2. IsSeq(x \o y)
  BY PlacesOf DEF Joined
<1> QED  BY <1>1, <1>2 DEF Cat

LEMMA SixThen ==
  ASSUME NEW a, NEW b, NEW c, NEW d, NEW e, NEW f, NEW r,
         IsSeq(a), IsSeq(b), IsSeq(c), IsSeq(d), IsSeq(e), IsSeq(f), IsSeq(r)
  PROVE  Cat(Cat(Cat(Cat(Cat(Cat(a, b), c), d), e), f), r) = Cat(a, Cat(b, Cat(c, Cat(d, Cat(e, Cat(f, r))))))
<1> DEFINE ab == Cat(a, b) abc == Cat(ab, c) abcd == Cat(abc, d) abcde == Cat(abcd, e)
           fr == Cat(f, r) efr == Cat(e, fr) defr == Cat(d, efr) cdefr == Cat(c, defr)
<1>1. IsSeq(ab) /\ IsSeq(abc) /\ IsSeq(abcd) /\ IsSeq(abcde)
  BY Regroup
<1>2. IsSeq(fr) /\ IsSeq(efr) /\ IsSeq(defr) /\ IsSeq(cdefr)
  BY Regroup
<1>3. Cat(a, Cat(b, cdefr)) = Cat(ab, cdefr)
  BY <1>2, Regroup
<1>4. Cat(ab, Cat(c, defr)) = Cat(abc, defr)
  BY <1>1, <1>2, Regroup
<1>5. Cat(abc, Cat(d, efr)) = Cat(abcd, efr)
  BY <1>1, <1>2, Regroup
<1>6. Cat(abcd, Cat(e, fr)) = Cat(abcde, fr)
  BY <1>1, <1>2, Regroup
<1>7. Cat(abcde, Cat(f, r)) = Cat(Cat(abcde, f), r)
  BY <1>1, Regroup
<1> QED  BY <1>3, <1>4, <1>5, <1>6, <1>7

LEMMA TekSetupIs ==
  ASSUME NEW h, NEW type, NEW ch, NEW w, NEW q, Mum(w), Quiet(q),
         h.slots[<<type, ch>>] = 0
  PROVE  /\ SetsUp((TekSetup(h, type, ch) \o w) \o q, 0, <<type, ch>>)
         /\ Listed(TekSetup(h, type, ch) \o w)
<1> DEFINE key == <<type, ch>>
           a == Ask(SlotsAt) b == Put(AddSlot, type) c == Step("compare", SlotsAt, 0)
           d == Put(SlotSource, ch) e == Check f == Note("slot", key) g == Ask(<<"slot", key>>)
           p == ((((a \o b) \o c) \o d) \o e) \o f
           r == g \o (w \o q)
<1>1. TekSetup(h, type, ch) = p \o g
  BY DEF TekSetup, SlotsAt, AddSlot, SlotSource
<1>2. /\ IsSeq(a) /\ IsSeq(b) /\ IsSeq(c) /\ IsSeq(d) /\ IsSeq(e) /\ IsSeq(f)
      /\ Listed(a) /\ Listed(b) /\ Listed(c) /\ Listed(d) /\ Listed(e) /\ Listed(f)
  BY OneStepIs DEF Ask, Put, Check, Note
<1>3. Quiet(g) /\ Quiet(w) /\ Quiet(w \o q)
  BY QuietSteps, QuietMore DEF Mum
<1>4. key[1] = type /\ key[2] = ch
  OBVIOUS
<1> DEFINE s6 == f \o r s5 == e \o s6 s4 == d \o s5 s3 == c \o s4 s2 == b \o s3 s1 == a \o s2
<1>5. Quiet(r) /\ Listed(r) /\ IsSeq(r)
  <2> HIDE DEF g
  <2> QED  BY <1>3, QuietMore
<1>6. SetsUp(r, 6, key)
  <2>1. \A i \in DOMAIN r : QuietStep(r[i])
    BY <1>5 DEF Quiet, Within, QuietStep
  <2> HIDE DEF r
  <2> QED  BY <1>5, <2>1 DEF SetsUp
<1> HIDE DEF r, key
<1>7. SetsUp(s6, 5, key)
  BY <1>6, SetupSteps, SetsUpMore DEF Note
<1> HIDE DEF s6
<1>8. SetsUp(s5, 4, key)
  BY <1>7, SetupSteps, SetsUpMore DEF Check, ErrorAt
<1> HIDE DEF s5
<1>9. SetsUp(s4, 3, key)
  <2>1. \A m : Does(m, "put", SlotSource, ch) => SetupStep(3 + 1, m, key)
    BY <1>4, SetupSteps
  <2> QED  BY <1>8, <2>1, SetsUpMore DEF Put
<1> HIDE DEF s4
<1>10. SetsUp(s3, 2, key)
  BY <1>9, SetupSteps, SetsUpMore
<1> HIDE DEF s3
<1>11. SetsUp(s2, 1, key)
  <2>1. \A m : Does(m, "put", AddSlot, type) => SetupStep(1 + 1, m, key)
    BY <1>4, SetupSteps
  <2> QED  BY <1>10, <2>1, SetsUpMore DEF Put
<1> HIDE DEF s2
<1>12. SetsUp(s1, 0, key)
  BY <1>11, SetupSteps, SetsUpMore DEF Ask
<1> HIDE DEF a, b, c, d, e, f, g
<1>13. Listed(p) /\ IsSeq(p) /\ Listed(g) /\ Listed(w) /\ Listed(q)
  <2>1. Listed(a \o b)
    BY <1>2, CatAsks
  <2>2. Listed((a \o b) \o c)
    BY <1>2, <2>1, CatAsks
  <2>3. Listed(((a \o b) \o c) \o d)
    BY <1>2, <2>2, CatAsks
  <2>4. Listed((((a \o b) \o c) \o d) \o e)
    BY <1>2, <2>3, CatAsks
  <2>5. Listed(p)
    BY <1>2, <2>4, CatAsks
  <2> QED  BY <1>3, <2>5, QuietMore DEF Listed
<1>14. p \o r = s1
  <2>1. Cat(Cat(Cat(Cat(Cat(Cat(a, b), c), d), e), f), r) = Cat(a, Cat(b, Cat(c, Cat(d, Cat(e, Cat(f, r))))))
    BY <1>2, <1>5, SixThen
  <2> QED  BY <2>1 DEF Cat, s1, s2, s3, s4, s5, s6
<1> HIDE DEF p
<1>15. Listed(p \o g) /\ Listed((p \o g) \o w)
  BY <1>13, CatAsks
<1>16. ((p \o g) \o w) \o q = p \o r
  <2>1. IsSeq(p) /\ IsSeq(g) /\ IsSeq(w) /\ IsSeq(q) /\ IsSeq(p \o g) /\ IsSeq(w \o q)
    BY <1>3, <1>13, <1>15, QuietMore DEF Listed
  <2>2. Cat(Cat(Cat(p, g), w), q) = Cat(p, Cat(g, Cat(w, q)))
    BY <2>1, Regroup
  <2> QED  BY <2>2 DEF r, Cat
<1> QED  BY <1>1, <1>12, <1>14, <1>15, <1>16 DEF key

LEMMA WaitMum ==
  ASSUME NEW k \in Scopes, NEW h
  PROVE  Mum(WaitForAcquisition(k, h))
<1>1. Mum(AwaitOpc)
  <2> DEFINE a == Put(<<"opc", 0>>, 0) b == Step("await", <<"clear", 0>>, 0)
  <2>1. Mum(a) /\ Mum(b)
    BY MumSteps DEF ScopePuts
  <2> HIDE DEF a, b
  <2>2. Mum(a \o b)
    BY <2>1, MumMore
  <2>3. Mum(Locked(a \o b))
    BY <2>2, MumMore
  <2> QED  BY <2>3 DEF AwaitOpc, a, b
<1>2. \A state : Mum(Acquisition(state))
  BY MumSteps DEF Acquisition, ScopePuts
<1>3. Mum(Put(<<"stop after", 0>>, 0)) /\ Mum(Put(<<"trigger mode", 0>>, 0))
  BY MumSteps DEF ScopePuts
<1>4. Mum(AwaitInr)
  BY MumSteps DEF AwaitInr
<1>5. Mum(KeysightDigitize)
  BY <1>1, <1>2, MumMore DEF KeysightDigitize
<1>6. Mum(TekDigitize)
  <2>1. Mum(TekArm("armed"))
    BY <1>2, <1>3, MumMore DEF TekArm
  <2> QED  BY <1>1, <2>1, MumMore DEF TekDigitize
<1>7. Mum(SiglentDigitize)
  <2>1. Mum(SiglentArm)
    BY <1>2, <1>3, MumMore DEF SiglentArm
  <2> QED  BY <1>4, <2>1, MumMore DEF SiglentDigitize
<1>8. Mum(Digitize(k))
  BY <1>5, <1>6, <1>7 DEF Digitize, Scopes
<1>9. Mum(Note("acquired", 0)) /\ Mum(<<>>)
  BY MumSteps DEF ScopeNotes
<1>10. Mum(Digitize(k) \o Note("acquired", 0))
  BY <1>8, <1>9, MumMore
<1> QED  BY <1>9, <1>10 DEF WaitForAcquisition

LEMMA FetchFrames ==
  ASSUME NEW k \in Scopes \ {"SiglentSDS1000XE"}, NEW ch
  PROVE  LET s == Fetch(k, ch) IN Frames(s, ch) /\ Listed(s) /\ IsSeq(s) /\ Asks(s, <<"wave", 0>>)
<1> DEFINE s == Fetch(k, ch) a == Put(<<"wave source", 0>>, ch) \o Check wave == <<"wave", 0>> w == Ask(wave)
<1>1. Frames(a, ch) /\ Listed(a)
  BY FramesOne
<1>2. Quiet(w) /\ Asks(w, wave)
  BY MumSteps DEF Queries
<1>3. \A b : Quiet(b) => Listed(b) /\ IsSeq(b)
  BY QuietMore
<1> DEFINE Good(x) == Frames(x, ch) /\ Listed(x)
<1>4. \A x, b : Good(x) /\ Quiet(b) => Good(x \o b)
  BY <1>3, FramesMore, CatAsks DEF Listed
<1>5. \A x : Good(x) => Good(x \o w) /\ Asks(x \o w, wave)
  BY <1>2, <1>3, <1>4, CatAsks
<1>6. Good(a)
  BY <1>1
<1> HIDE DEF a, w, Good, wave
<1>7. CASE k = "Keysight1200X"
  <2>1. s = (a \o Ask(<<"preamble", 0>>)) \o w
    BY <1>7 DEF Fetch, KeysightFetch, a, w, wave
  <2>2. Quiet(Ask(<<"preamble", 0>>))
    BY QuietSteps
  <2> HIDE DEF s
  <2>3. Good(s) /\ Asks(s, wave)
    BY <1>4, <1>5, <1>6, <2>1, <2>2
  <2> QED  BY <2>3 DEF Good, s, Listed, wave
<1>8. CASE k = "Tektronix2SeriesMSO"
  <2> DEFINE p == Ask(<<"points", 0>>) d == Put(<<"data stop", 0>>, 0) c == Ask(<<"scaling", 0>>)
  <2>1. s = (((a \o p) \o d) \o c) \o w
    BY <1>8 DEF Fetch, TekFetch, a, w, wave
  <2>2. Quiet(p) /\ Quiet(d) /\ Quiet(c)
    BY QuietSteps DEF ScopePuts
  <2> HIDE DEF s, p, d, c
  <2>3. Good((a \o p) \o d)
    BY <1>4, <1>6, <2>2
  <2>4. Good(s) /\ Asks(s, wave)
    BY <1>4, <1>5, <2>1, <2>2, <2>3
  <2> QED  BY <2>4 DEF Good, s, Listed, wave
<1> QED  BY <1>7, <1>8 DEF Scopes

LEMMA SiglentFetches ==
  ASSUME NEW ch
  PROVE  Queries(SiglentFetch(ch), <<"wave", ch>>)
<1> DEFINE p == Put(<<"wave setup", 0>>, 0) q == Ask(<<"scaling", ch>>) wave == <<"wave", ch>>
           b == Step("block", wave, 0) d == Step("drain", <<"none", 0>>, 0)
<1>1. Quiet(p) /\ Quiet(Check) /\ Quiet(q) /\ Queries(b, wave) /\ Mum(d)
  BY QuietSteps, MumSteps DEF ScopePuts
<1>2. SiglentFetch(ch) = (((p \o Check) \o q) \o b) \o d
  BY DEF SiglentFetch
<1> HIDE DEF p, q, b, d, wave
<1>3. Quiet((p \o Check) \o q)
  BY <1>1, QuietMore
<1>4. Queries(((p \o Check) \o q) \o b, wave)
  BY <1>1, <1>3, MumMore
<1>5. Queries((((p \o Check) \o q) \o b) \o d, wave)
  BY <1>1, <1>4, MumMore
<1> QED  BY <1>2, <1>5 DEF wave

LEMMA MeasureQueries ==
  ASSUME NEW k \in Scopes, NEW type, NEW ch
  PROVE  Queries(MeasureSteps(k, type, ch),
                 IF k = "Tektronix2SeriesMSO" THEN <<"slot", <<type, ch>>>> ELSE <<type, ch>>)
<1>1. Queries(Ask(<<type, ch>>), <<type, ch>>) /\ Queries(Ask(<<"slot", <<type, ch>>>>), <<"slot", <<type, ch>>>>)
  BY MumSteps
<1>2. Queries(KeysightMeasure(type, ch), <<type, ch>>)
  <2> DEFINE p == Put(<<"display", 0>>, 0) at == <<type, ch>> q == Ask(at)
  <2>1. Quiet(p) /\ Quiet(Check) /\ Queries(q, at)
    BY <1>1, QuietSteps DEF ScopePuts
  <2>2. KeysightMeasure(type, ch) = (p \o Check) \o q
    BY DEF KeysightMeasure
  <2> HIDE DEF p, q, at
  <2>3. Quiet(p \o Check)
    BY <2>1, QuietMore
  <2>4. Queries((p \o Check) \o q, at)
    BY <2>1, <2>3, MumMore
  <2> QED  BY <2>2, <2>4 DEF at
<1> QED  BY <1>1, <1>2 DEF MeasureSteps, SiglentMeasure, TekMeasure, Scopes

LEMMA SaveQueries ==
  ASSUME NEW k \in Scopes
  PROVE  Queries(SaveSettings(k), <<"setup", 0>>)
<1> DEFINE at == <<"setup", 0>> q == Ask(at) p == Put(<<"save", 0>>, 0)
<1>1. Queries(q, at) /\ Mum(p) /\ Quiet(p) /\ Quiet(Check)
  BY MumSteps, QuietSteps DEF ScopePuts
<1>2. Queries(KeysightSave, at)
  <2>1. KeysightSave = (p \o Check) \o q
    BY DEF KeysightSave
  <2> HIDE DEF p, q, at
  <2>2. Quiet(p \o Check)
    BY <1>1, QuietMore
  <2> QED  BY <1>1, <2>1, <2>2, MumMore
<1>3. Queries(TekSave, at)
  <2> DEFINE o == Ask(<<"opc", 0>>) f == Put(<<"read file", 0>>, 0) d == Put(<<"delete", 0>>, 0)
  <2>1. TekSave = (((p \o o) \o Check) \o Locked(f \o q)) \o d
    BY DEF TekSave
  <2>2. Quiet(o) /\ Quiet(f) /\ Mum(d)
    BY MumSteps, QuietSteps DEF ScopePuts
  <2> HIDE DEF p, q, at, o, f, d
  <2>3. Quiet((p \o o) \o Check)
    BY <1>1, <2>2, QuietMore
  <2>4. Queries(f \o q, at)
    BY <1>1, <2>2, MumMore
  <2>5. Queries(Locked(f \o q), at)
    BY <2>4, MumMore
  <2>6. Queries(((p \o o) \o Check) \o Locked(f \o q), at)
    BY <2>3, <2>5, MumMore
  <2>7. Queries((((p \o o) \o Check) \o Locked(f \o q)) \o d, at)
    BY <2>2, <2>6, MumMore
  <2> QED  BY <2>1, <2>7
<1>4. SiglentSave = q
  BY DEF SiglentSave
<1> HIDE DEF q, at
<1>5. Queries(SaveSettings(k), at)
  BY <1>1, <1>2, <1>3, <1>4 DEF SaveSettings, Scopes
<1> QED  BY <1>5 DEF at

\* What a call names.
Key(c) == <<c.name, c.ch>>

SetsOrGets(c) == c.op \in {"set", "get", "acq mode"} /\ (c.op = "set" => c.name \in {"scale", "average"})

LEMMA SettingQuiet ==
  ASSUME NEW k \in Scopes, NEW h, NEW c, SetsOrGets(c)
  PROVE  /\ Quiet(ScopeSetting(k, h, c))
         /\ c.op = "get" => Queries(ScopeSetting(k, h, c), Key(c))
<1> DEFINE at == Key(c)
<1>0. c.op \in {"set", "get", "acq mode"} /\ (c.op = "set" => c.name \in {"scale", "average"})
  BY DEF SetsOrGets
<1>1. c.op # "acq mode" => Quiet(Setting(c)) /\ (c.op = "get" => Queries(Setting(c), at))
  <2>1. c.op = "get" => Setting(c) = Ask(at)
    BY DEF Setting, Key
  <2>2. c.op = "set" => Setting(c) = Put(<<c.name, c.ch>>, c.val)
    BY DEF Setting
  <2>3. c.op = "set" => Quiet(Put(<<c.name, c.ch>>, c.val))
    BY <1>0, QuietSteps DEF ScopePuts
  <2>4. Quiet(Ask(at)) /\ Queries(Ask(at), at)
    BY MumSteps DEF Queries
  <2> QED  BY <1>0, <2>1, <2>2, <2>3, <2>4
<1>2. /\ \A mode : Quiet(Mode(mode)) /\ Quiet(Refuse)
      /\ \A v : Quiet(Put(<<"averaging", 0>>, v)) /\ Quiet(Note("average", v))
  BY QuietSteps DEF ScopePuts, ScopeNotes, Mode
<1> HIDE DEF at
<1>3. \A v : c.op = "set" => Quiet(Note("average", v) \o Setting(c))
  BY <1>1, <1>2, QuietMore
<1>4. CASE c.op = "acq mode"
  BY <1>2, <1>4 DEF ScopeSetting, KeysightSetting, TekSetting, SiglentSetting, SiglentMode, Scopes
<1>5. CASE c.op = "get"
  <2>1. ScopeSetting(k, h, c) = Setting(c)
    BY <1>5 DEF ScopeSetting, KeysightSetting, TekSetting, SiglentSetting, Scopes
  <2> QED  BY <1>1, <1>5, <2>1 DEF at
<1>6. CASE c.op = "set"
  <2>1. ScopeSetting(k, h, c) = Setting(c) \/ ScopeSetting(k, h, c) = Note("average", c.val) \o Setting(c)
    BY <1>6 DEF ScopeSetting, KeysightSetting, TekSetting, SiglentSetting, Scopes
  <2> QED  BY <1>1, <1>3, <1>6, <2>1
<1> QED  BY <1>0, <1>4, <1>5, <1>6

LEMMA ScopeCalls ==
  ASSUME kind \in Scopes, NEW c \in Issued(kind)
  PROVE  /\ c.op \in {"open", "close", "get", "state", "fetch", "measure", "set", "acq mode", "slope", "save",
                      "run", "stop", "single", "force", "load", "source", "type", "level"}
         /\ c.op = "get" => c.name = "scale" /\ c.ch = 1
         /\ c.op = "fetch" => c.name = "wave" /\ c.ch = 2
         /\ c.op = "measure" => (c.name = "VPP" /\ c.ch = 1) \/ (c.name = "FREQUENCY" /\ c.ch = 2)
         /\ c.op = "set" => c.name \in {"scale", "average"}
         /\ c.op = "save" => c.name = "setup" /\ c.ch = 0
<1>1. kind \notin Psus /\ kind \notin Dmms /\ kind \notin Loads /\ kind # "Aardvark"
  BY KindsApart
<1>2. Statuses(kind) = {} /\ Reads(kind) = ScopeReads /\ Writes(kind) = ScopeWrites
  BY <1>1 DEF Statuses, Reads, Writes, Scopes
<1>3. c \in ScopeReads \cup ScopeWrites \cup {C("open", "none", 0, 0), C("close", "none", 0, 0)}
  BY <1>2 DEF Issued
<1>4. CASE c \in ScopeReads
  <2>1. \/ c = C("get", "scale", 1, 0) \/ c = C("state", "none", 0, 0) \/ c = C("fetch", "wave", 2, 0)
        \/ c = C("measure", "VPP", 1, 0) \/ c = C("measure", "FREQUENCY", 2, 0)
    BY <1>4 DEF ScopeReads
  <2>2. c = C("get", "scale", 1, 0) => c.op = "get" /\ c.name = "scale" /\ c.ch = 1
    BY DEF C
  <2>3. c = C("state", "none", 0, 0) => c.op = "state"
    BY DEF C
  <2>4. c = C("fetch", "wave", 2, 0) => c.op = "fetch" /\ c.name = "wave" /\ c.ch = 2
    BY DEF C
  <2>5. c = C("measure", "VPP", 1, 0) => c.op = "measure" /\ c.name = "VPP" /\ c.ch = 1
    BY DEF C
  <2>6. c = C("measure", "FREQUENCY", 2, 0) => c.op = "measure" /\ c.name = "FREQUENCY" /\ c.ch = 2
    BY DEF C
  <2>7. \/ c.op = "get" /\ c.name = "scale" /\ c.ch = 1
        \/ c.op = "state"
        \/ c.op = "fetch" /\ c.name = "wave" /\ c.ch = 2
        \/ c.op = "measure" /\ c.name = "VPP" /\ c.ch = 1
        \/ c.op = "measure" /\ c.name = "FREQUENCY" /\ c.ch = 2
    BY <2>1, <2>2, <2>3, <2>4, <2>5, <2>6
  <2> QED  BY <2>7
<1>5. CASE c \in ScopeWrites
  <2> DEFINE Ops == {"acq mode", "slope", "run", "stop", "single", "force", "load", "source", "type", "level"}
  <2>1. \/ \E name \in {"scale", "average"} : \E ch, val : c = C("set", name, ch, val)
        \/ c = C("save", "setup", 0, 0)
        \/ \E op \in Ops : \E name, ch, val : c = C(op, name, ch, val)
    BY <1>5 DEF ScopeWrites
  <2>2. ASSUME NEW name \in {"scale", "average"}, NEW ch, NEW val, c = C("set", name, ch, val)
        PROVE  c.op = "set" /\ c.name \in {"scale", "average"}
    BY <2>2 DEF C
  <2>3. ASSUME NEW op \in Ops, NEW name, NEW ch, NEW val, c = C(op, name, ch, val)
        PROVE  c.op \in Ops
    <3> HIDE DEF Ops
    <3> QED  BY <2>3 DEF C
  <2>4. c = C("save", "setup", 0, 0) => c.op = "save" /\ c.name = "setup" /\ c.ch = 0
    BY DEF C
  <2>5. \/ c.op = "set" /\ c.name \in {"scale", "average"}
        \/ c.op = "save" /\ c.name = "setup" /\ c.ch = 0
        \/ c.op \in Ops
    BY <2>1, <2>2, <2>3, <2>4
  <2> QED  BY <2>5
<1>6. CASE c \in {C("open", "none", 0, 0), C("close", "none", 0, 0)}
  <2>1. c.op \in {"open", "close"}
    BY <1>6 DEF C
  <2> QED  BY <2>1
<1> QED  BY <1>3, <1>4, <1>5, <1>6

\* The calls that change what an answer is about, and what they do first.
Framed(k, c) == c.op = "fetch" /\ k # "SiglentSDS1000XE"
Slotted(k, c) == c.op = "measure" /\ k = "Tektronix2SeriesMSO"

ScopeList(k, h, c, s) ==
  /\ IsSeq(s)
  /\ c.op = "load" => Recalls(s)
  /\ Framed(k, c) => Frames(s, c.ch)
  /\ Slotted(k, c) => IF h.slots[Key(c)] = 0 THEN SetsUp(s, 0, Key(c)) ELSE Quiet(s)
  /\ c.op # "load" /\ ~Framed(k, c) /\ ~Slotted(k, c) => Quiet(s)
  /\ c.op \in Publishing => Asks(s, ScopeQuestion(k, c))

LEMMA ScopeQuestionIs ==
  ASSUME NEW k, NEW c
  PROVE  /\ Framed(k, c) => ScopeQuestion(k, c) = <<"wave", 0>>
         /\ Slotted(k, c) => ScopeQuestion(k, c) = <<"slot", Key(c)>>
         /\ ~Framed(k, c) /\ ~Slotted(k, c) => ScopeQuestion(k, c) = Key(c)
  BY DEF ScopeQuestion, Framed, Slotted, Key

LEMMA FetchList ==
  ASSUME NEW k \in Scopes, NEW h, NEW c, c.op = "fetch", c.name = "wave"
  PROVE  ScopeList(k, h, c, ScopeSteps(k, h, c))
<1> DEFINE s == ScopeSteps(k, h, c) w == WaitForAcquisition(k, h) f == Fetch(k, c.ch)
<1>1. s = (w \o f) \o Check
  BY DEF ScopeSteps, ScopeMethod
<1>2. Mum(w) /\ Mum(Check)
  BY WaitMum, MumSteps
<1>3. Quiet(w) /\ Listed(w) /\ Listed(Check) /\ Silent(Check) /\ Quiet(Check)
  BY <1>2, QuietMore DEF Mum
<1>4. CASE k # "SiglentSDS1000XE"
  <2>1. Frames(f, c.ch) /\ Listed(f) /\ IsSeq(f) /\ Asks(f, <<"wave", 0>>)
    BY <1>4, FetchFrames
  <2>2. ScopeQuestion(k, c) = <<"wave", 0>> /\ Framed(k, c)
    BY <1>4, ScopeQuestionIs DEF Framed
  <2> DEFINE q == <<"wave", 0>>
  <2> HIDE DEF s, w, f, q
  <2>3. Frames(w \o f, c.ch) /\ Listed(w \o f) /\ Asks(w \o f, q)
    BY <1>2, <1>3, <2>1, FramesMore, CatAsks DEF q
  <2>4. IsSeq(w \o f)
    BY <2>3 DEF Listed
  <2>5. Frames((w \o f) \o Check, c.ch) /\ Listed((w \o f) \o Check) /\ Asks((w \o f) \o Check, q)
    BY <1>3, <2>3, <2>4, FramesMore, CatAsks
  <2>6. Frames(s, c.ch) /\ IsSeq(s) /\ Asks(s, q)
    BY <1>1, <2>5 DEF Listed
  <2> QED  BY <2>2, <2>6 DEF ScopeList, Slotted, Framed, q, s
<1>5. CASE k = "SiglentSDS1000XE"
  <2>1. Queries(f, <<"wave", c.ch>>)
    BY <1>5, SiglentFetches DEF Fetch
  <2>2. ScopeQuestion(k, c) = Key(c) /\ Key(c) = <<"wave", c.ch>> /\ ~Framed(k, c) /\ ~Slotted(k, c)
    BY <1>5, ScopeQuestionIs DEF Framed, Slotted, Key
  <2> HIDE DEF s, w, f
  <2>3. Queries(w \o f, Key(c))
    BY <1>3, <2>1, <2>2, MumMore
  <2>4. Queries(s, Key(c))
    BY <1>1, <1>2, <2>3, MumMore
  <2>5. IsSeq(s)
    BY <2>4, QuietMore DEF Queries
  <2> QED  BY <2>2, <2>4, <2>5 DEF ScopeList, Queries, s
<1> QED  BY <1>4, <1>5

LEMMA MeasureList ==
  ASSUME NEW k \in Scopes, NEW h, NEW c, c.op = "measure"
  PROVE  ScopeList(k, h, c, ScopeSteps(k, h, c))
<1> DEFINE s == ScopeSteps(k, h, c) w == WaitForAcquisition(k, h)
           p == SetupMeasurement(k, h, c.name, c.ch) m == MeasureSteps(k, c.name, c.ch)
           q == ScopeQuestion(k, c)
<1>1. s = ((p \o w) \o m) \o Check
  BY DEF ScopeSteps, ScopeMethod
<1>2. Mum(w) /\ Mum(Check)
  BY WaitMum, MumSteps
<1>3. Quiet(w) /\ Listed(w) /\ Listed(Check) /\ Silent(Check) /\ Quiet(Check)
  BY <1>2, QuietMore DEF Mum
<1>4. Queries(m, q)
  <2>1. Queries(m, IF k = "Tektronix2SeriesMSO" THEN <<"slot", <<c.name, c.ch>>>> ELSE <<c.name, c.ch>>)
    BY MeasureQueries
  <2>2. q = IF k = "Tektronix2SeriesMSO" THEN <<"slot", <<c.name, c.ch>>>> ELSE <<c.name, c.ch>>
    BY ScopeQuestionIs DEF Framed, Slotted, Key
  <2> HIDE DEF m, q
  <2> QED  BY <2>1, <2>2
<1>5. ~Framed(k, c)
  BY DEF Framed
<1> HIDE DEF s, w, m, q
<1>6. Quiet(m) /\ Listed(m) /\ Asks(m, q)
  BY <1>4, QuietMore DEF Queries
<1>7. Quiet(m \o Check) /\ Listed(m \o Check) /\ Asks(m \o Check, q)
  BY <1>3, <1>6, QuietMore, CatAsks
<1>8. CASE ~Slotted(k, c) \/ h.slots[Key(c)] # 0
  <2>1. p = <<>>
    BY <1>8 DEF SetupMeasurement, TekSetup, Slotted, Key
  <2> HIDE DEF p
  <2>2. Quiet(p)
    BY <2>1, QuietSteps
  <2>3. Quiet(p \o w)
    BY <1>3, <2>2, QuietMore
  <2>4. Queries((p \o w) \o m, q)
    BY <1>4, <2>3, MumMore
  <2>5. Queries(s, q)
    BY <1>1, <1>2, <2>4, MumMore
  <2>6. IsSeq(s)
    BY <2>5, QuietMore DEF Queries
  <2> QED  BY <1>5, <1>8, <2>5, <2>6 DEF ScopeList, Queries, s, q
<1>9. CASE Slotted(k, c) /\ h.slots[Key(c)] = 0
  <2>1. p = TekSetup(h, c.name, c.ch) /\ h.slots[<<c.name, c.ch>>] = 0
    BY <1>9 DEF SetupMeasurement, Slotted, Key
  <2>2. SetsUp((p \o w) \o (m \o Check), 0, Key(c)) /\ Listed(p \o w)
    BY <1>2, <1>7, <2>1, TekSetupIs DEF Key
  <2> HIDE DEF p
  <2> DEFINE pw == p \o w
  <2>3. Asks(pw \o (m \o Check), q) /\ Listed(pw \o (m \o Check))
    BY <1>7, <2>2, CatAsks
  <2>4. (pw \o m) \o Check = pw \o (m \o Check)
    <3>1. IsSeq(pw) /\ IsSeq(m) /\ IsSeq(Check)
      BY <1>3, <1>6, <2>2 DEF Listed
    <3> HIDE DEF pw
    <3>2. Cat(Cat(pw, m), Check) = Cat(pw, Cat(m, Check))
      BY <3>1, Regroup
    <3> QED  BY <3>2 DEF Cat
  <2>5. SetsUp(s, 0, Key(c)) /\ Asks(s, q) /\ IsSeq(s)
    BY <1>1, <2>2, <2>3, <2>4 DEF Listed
  <2> QED  BY <1>5, <1>9, <2>5 DEF ScopeList, s, q
<1> QED  BY <1>8, <1>9

\* What a list of the other calls needs to be.
LEMMA QuietList ==
  ASSUME NEW k, NEW h, NEW c, NEW s, c.op \notin {"load", "fetch", "measure"}, Quiet(s),
         c.op \in Publishing => Asks(s, Key(c))
  PROVE  ScopeList(k, h, c, s)
<1>1. ~Framed(k, c) /\ ~Slotted(k, c)
  BY DEF Framed, Slotted
<1>2. ScopeQuestion(k, c) = Key(c)
  BY <1>1, ScopeQuestionIs
<1>3. IsSeq(s)
  BY QuietMore
<1> QED  BY <1>1, <1>2, <1>3 DEF ScopeList

LEMMA ArmsQuiet ==
  ASSUME NEW k \in Scopes, NEW h
  PROVE  /\ \A state : Quiet(Control(k, state))
         /\ \A ch : Quiet(TriggerSource(k, h, ch))
         /\ \A type : Quiet(TriggerType(k, h, type))
         /\ \A val : Quiet(TriggerLevel(k, h, val))
         /\ \A slope : Quiet(TriggerSlope(k, h, slope))
<1>1. \A name \in ScopePuts : \A ch, v : Quiet(Put(<<name, ch>>, v))
  BY QuietSteps
<1>2. \A a \in ScopeNotes : \A v : Quiet(Note(a, v))
  BY QuietSteps
<1>3. \A a, b : Quiet(a) /\ Quiet(b) => Quiet(a \o b)
  BY QuietMore
<1>4. \A v : Quiet(Put(<<"stop after", 0>>, v)) /\ Quiet(Put(<<"trigger mode", 0>>, v)) /\ Quiet(Put(<<"acquisition", 0>>, v))
  BY <1>1 DEF ScopePuts
<1>5. \A v : Quiet(Put(<<"select", 0>>, v)) /\ Quiet(Put(<<"trigger", 0>>, v)) /\ Quiet(Put(<<"trigger type", 0>>, v))
  BY <1>1 DEF ScopePuts
<1>6. \A v, ch : Quiet(Put(<<"level", ch>>, v)) /\ Quiet(Put(<<"slope", ch>>, v))
  BY <1>1 DEF ScopePuts
<1>7. \A v : Quiet(Note("source", v)) /\ Quiet(Note("type", v))
  BY <1>2 DEF ScopeNotes
<1>8. ASSUME NEW state  PROVE Quiet(Control(k, state))
  <2>1. Quiet(Acquisition(state)) /\ Quiet(Acquisition("armed"))
    BY <1>4 DEF Acquisition
  <2>2. Quiet(TekArm(state)) /\ Quiet(SiglentArm)
    BY <1>3, <1>4, <2>1 DEF TekArm, SiglentArm
  <2> QED  BY <2>1, <2>2 DEF Control
<1>9. ASSUME NEW ch  PROVE Quiet(TriggerSource(k, h, ch))
  <2>1. \A type, source : Quiet(SiglentTriggerSelect(type, source))
    BY <1>5 DEF SiglentTriggerSelect
  <2> QED  BY <1>3, <1>5, <1>7, <2>1 DEF TriggerSource
<1>10. ASSUME NEW type  PROVE Quiet(TriggerType(k, h, type))
  <2>1. \A ty, source : Quiet(SiglentTriggerSelect(ty, source))
    BY <1>5 DEF SiglentTriggerSelect
  <2> QED  BY <1>3, <1>5, <1>7, <2>1 DEF TriggerType
<1>11. \A val : Quiet(TriggerLevel(k, h, val))
  BY <1>6 DEF TriggerLevel
<1>12. \A slope : Quiet(TriggerSlope(k, h, slope))
  BY <1>6 DEF TriggerSlope
<1> QED  BY <1>8, <1>9, <1>10, <1>11, <1>12

LEMMA LoadRecalls ==
  ASSUME NEW k \in Scopes
  PROVE  Recalls(LoadSettings(k) \o Check) /\ IsSeq(LoadSettings(k) \o Check)
<1>1. \A s : Quiet(s) => Recalls(s)
  BY WithinMore DEF Quiet, Recalls
<1>2. \A a, b : Recalls(a) /\ Recalls(b) => Recalls(a \o b)
  BY CatWithin DEF Recalls
<1>3. Recalls(Put(<<"recall", 0>>, 0))
  <2>1. <<"recall", 0>>[1] \in ScopePuts \cup {"recall"}
    OBVIOUS
  <2> QED  BY <2>1, StepWithin DEF Recalls, Put, ScopeDoes
<1>4. Recalls(Put(<<"upload", 0>>, 0)) /\ Recalls(Put(<<"delete", 0>>, 0)) /\ Recalls(Check)
  BY <1>1, QuietSteps DEF ScopePuts
<1>5. Recalls(LoadSettings(k))
  <2> DEFINE a == Put(<<"upload", 0>>, 0) b == Put(<<"recall", 0>>, 0) d == Put(<<"delete", 0>>, 0)
  <2>1. LoadSettings(k) = (a \o b) \o d \/ LoadSettings(k) = b
    BY DEF LoadSettings, TekLoad
  <2>2. Recalls(a) /\ Recalls(b) /\ Recalls(d)
    BY <1>3, <1>4
  <2> HIDE DEF a, b, d
  <2>3. Recalls((a \o b) \o d)
    BY <1>2, <2>2
  <2> QED  BY <2>1, <2>2, <2>3
<1>6. Recalls(LoadSettings(k) \o Check)
  BY <1>2, <1>4, <1>5
<1> QED  BY <1>6, WithinIsListed DEF Recalls, Listed

LEMMA ScopeLists ==
  ASSUME kind \in Scopes, NEW c \in Issued(kind), NEW h
  PROVE  ScopeList(kind, h, c, Steps(kind, h, c))
<1> DEFINE s == Steps(kind, h, c) m == ScopeMethod(kind, h, c)
<1>1. /\ c.op \in {"open", "close", "get", "state", "fetch", "measure", "set", "acq mode", "slope", "save",
                   "run", "stop", "single", "force", "load", "source", "type", "level"}
      /\ c.op = "fetch" => c.name = "wave"
      /\ c.op = "set" => c.name \in {"scale", "average"}
      /\ c.op = "save" => c.name = "setup" /\ c.ch = 0
  BY ScopeCalls
<1>2. \A a, b : Quiet(a) /\ Quiet(b) => Quiet(a \o b)
  BY QuietMore
<1>3. c.op \notin {"open", "close"} => s = ScopeSteps(kind, h, c) /\ s = m \o Check
  BY StepsAre DEF ScopeSteps
<1>4. CASE c.op \in {"open", "close"}
  <2>1. c.op = "open" => s = Step("open", <<"session", 0>>, 0) \o IF kind = "SiglentSDS1000XE" THEN SiglentOpen ELSE <<>>
    BY StepsAre DEF OpenSteps, Scopes, Loads
  <2>2. c.op = "close" => s = <<>> \o Step("close", <<"session", 0>>, 0)
    BY StepsAre DEF CloseSteps, Scopes
  <2>3. Quiet(SiglentOpen)
    <3>1. Quiet(Put(<<"headers", 0>>, 0)) /\ Quiet(Put(<<"clear status", 0>>, 0))
      BY QuietSteps DEF ScopePuts
    <3> QED  BY <1>2, <3>1 DEF SiglentOpen
  <2>4. Quiet(Step("open", <<"session", 0>>, 0)) /\ Quiet(Step("close", <<"session", 0>>, 0)) /\ Quiet(<<>>)
    BY QuietSteps
  <2> HIDE DEF s
  <2>5. Quiet(s)
    BY <1>2, <1>4, <2>1, <2>2, <2>3, <2>4
  <2>6. c.op \notin Publishing /\ c.op \notin {"load", "fetch", "measure"}
    BY <1>4 DEF Publishing
  <2> QED  BY <2>5, <2>6, QuietList DEF s
<1>5. CASE c.op = "fetch"
  BY <1>1, <1>3, <1>5, FetchList
<1>6. CASE c.op = "measure"
  BY <1>3, <1>6, MeasureList
<1>7. CASE c.op = "load"
  <2>1. s = LoadSettings(kind) \o Check
    BY <1>3, <1>7 DEF ScopeMethod
  <2>2. ~Framed(kind, c) /\ ~Slotted(kind, c) /\ c.op \notin Publishing
    BY <1>7 DEF Framed, Slotted, Publishing
  <2> HIDE DEF s
  <2> QED  BY <1>7, <2>1, <2>2, LoadRecalls DEF ScopeList, s
<1>8. CASE c.op \in {"get", "save"}
  <2>1. Queries(m, Key(c))
    <3>1. c.op = "get" => m = ScopeSetting(kind, h, c)
      BY DEF ScopeMethod
    <3>2. c.op = "save" => m = SaveSettings(kind)
      BY DEF ScopeMethod
    <3>3. c.op = "save" => Key(c) = <<"setup", 0>>
      BY <1>1 DEF Key
    <3>4. ASSUME c.op = "get"  PROVE Queries(m, Key(c))
      <4>1. SetsOrGets(c)
        BY <1>1, <3>4 DEF SetsOrGets
      <4>2. Queries(ScopeSetting(kind, h, c), Key(c))
        BY <3>4, <4>1, SettingQuiet
      <4> QED  BY <3>1, <3>4, <4>2
    <3>5. c.op = "save" => Queries(m, Key(c))
      BY <3>2, <3>3, SaveQueries
    <3> QED  BY <1>8, <3>4, <3>5
  <2>2. c.op \notin {"open", "close"}
    BY <1>8
  <2>3. s = m \o Check
    BY <1>3, <2>2
  <2> HIDE DEF s, m
  <2>4. Queries(s, Key(c))
    BY <2>1, <2>3, MumSteps, MumMore
  <2>5. c.op \notin {"load", "fetch", "measure"}
    BY <1>8
  <2> QED  BY <2>4, <2>5, QuietList DEF Queries, s
<1>9. CASE c.op \in {"state", "set", "acq mode", "slope", "run", "stop", "single", "force", "source", "type", "level"}
  <2>1. Quiet(m)
    <3>1. ASSUME c.op \in {"set", "acq mode"}  PROVE m = ScopeSetting(kind, h, c) /\ Quiet(ScopeSetting(kind, h, c))
      <4>1. m = ScopeSetting(kind, h, c)
        BY <3>1 DEF ScopeMethod
      <4>2. SetsOrGets(c)
        BY <1>1, <3>1 DEF SetsOrGets
      <4> QED  BY <4>1, <4>2, SettingQuiet
    <3>2. c.op \in {"run", "stop", "single"} => \E state : m = Control(kind, state)
      BY DEF ScopeMethod
    <3>3. c.op = "state" => m = Ask(<<"state", 0>>)
      BY DEF ScopeMethod
    <3>4. c.op = "force" => m = Put(<<"force", 0>>, 0)
      BY DEF ScopeMethod
    <3>5. /\ c.op = "source" => m = TriggerSource(kind, h, c.ch)
          /\ c.op = "type" => m = TriggerType(kind, h, c.name)
          /\ c.op = "level" => m = TriggerLevel(kind, h, c.val)
          /\ c.op = "slope" => m = TriggerSlope(kind, h, c.name)
      BY DEF ScopeMethod
    <3>6. Quiet(Ask(<<"state", 0>>)) /\ Quiet(Put(<<"force", 0>>, 0))
      BY QuietSteps DEF ScopePuts
    <3> HIDE DEF m
    <3> QED  BY <1>9, <3>1, <3>2, <3>3, <3>4, <3>5, <3>6, ArmsQuiet
  <2>2. c.op \notin {"open", "close"}
    BY <1>9
  <2>3. s = m \o Check
    BY <1>3, <2>2
  <2> HIDE DEF s, m
  <2>4. Quiet(s)
    BY <1>2, <2>1, <2>3, QuietSteps
  <2>5. c.op \notin {"load", "fetch", "measure"} /\ c.op \notin Publishing
    BY <1>9 DEF Publishing
  <2> QED  BY <2>4, <2>5, QuietList DEF s
<1> QED  BY <1>1, <1>4, <1>5, <1>6, <1>7, <1>8, <1>9

----------------------------------------------------------------------------
(* The oscilloscopes: what they are asked about *)

SlotKinds == {"VPP", "FREQUENCY"} \X {1, 2}
LastSlot(d) == d.slots[Len(d.slots)]

\* A slot that is remembered measures what it is remembered for.
SlotsInv ==
  /\ dev.slots \in Seq(SlotKinds) /\ DOMAIN host.slots = MeasureKeys
  /\ \A key \in MeasureKeys :
       host.slots[key] # 0 => host.slots[key] \in 1..Len(dev.slots) /\ dev.slots[host.slots[key]] = key

\* How far the measurement at the end of the list is, after n steps of setup_measurement()
\* of which the first one counted count measurements.
Grown(d, h, n, key, count) ==
  /\ n \in 1..5 => count \in Nat /\ \A k \in MeasureKeys : h.slots[k] <= count
  /\ n = 1 => Len(d.slots) = count
  /\ n = 2 => Len(d.slots) = count \/ (Len(d.slots) = count + 1 /\ LastSlot(d)[1] = key[1])
  /\ n \in 3..5 => Len(d.slots) = count + 1 /\ LastSlot(d)[1] = key[1]
  /\ n = 4 => LastSlot(d)[2] = key[2] \/ d.errs # 0
  /\ n = 5 => LastSlot(d)[2] = key[2]
  /\ n = 6 => h.slots[key] # 0

\* The source of the waveform is still to be set, or set, or refused and about to be found out.
Framing(d, s, ch) ==
  \/ Frames(s, ch)
  \/ Quiet(s) /\ (d.wave = ch \/ (s # <<>> /\ s[1].do = "check" /\ d.errs # 0))

Slotting(d, h, s, key, count) == \E n \in 0..6 : SetsUp(s, n, key) /\ Grown(d, h, n, key, count)

Looks(t) ==
  Busy(t) =>
    LET s == call[t].todo c == call[t].c IN
    /\ c.op = "load" => Recalls(s)
    /\ Framed(kind, c) => Framing(dev, s, c.ch)
    /\ Slotted(kind, c) => Slotting(dev, host, s, Key(c), call[t].got[2])
    /\ c.op # "load" /\ ~Framed(kind, c) /\ ~Slotted(kind, c) => Quiet(s)

LooksInv == SlotsInv /\ \A t \in Threads : Looks(t) /\ Tells(t)

LEMMA KeysAre ==
  ASSUME NEW key \in MeasureKeys
  PROVE  /\ key \in SlotKinds /\ key[1] \in {"VPP", "FREQUENCY"} /\ key[2] \in {1, 2} /\ key = <<key[1], key[2]>>
  BY DEF MeasureKeys, SlotKinds

\* The list with another measurement, of channel 1, and with the last one's channel changed.
Added(q, type) == Append(q, <<type, 1>>)
Sourced(q, ch) == [q EXCEPT ![Len(q)][2] = ch]

LEMMA SlotAdded ==
  ASSUME NEW q \in Seq(SlotKinds), NEW type \in {"VPP", "FREQUENCY"}
  PROVE  LET r == Added(q, type) IN
         /\ r \in Seq(SlotKinds) /\ Len(r) = Len(q) + 1 /\ r[Len(r)][1] = type
         /\ \A i \in 1..Len(q) : r[i] = q[i]
<1> DEFINE x == <<type, 1>>
<1>1. x \in SlotKinds /\ x[1] = type
  BY DEF SlotKinds
<1> DEFINE r == Added(q, type)
<1>4. r = Append(q, x)
  BY DEF Added
<1> HIDE DEF x, r
<1>2. r \in Seq(SlotKinds) /\ Len(r) = Len(q) + 1 /\ r[Len(q) + 1] = x /\ \A i \in 1..Len(q) : r[i] = q[i]
  BY <1>1, <1>4
<1>3. r[Len(r)][1] = type
  BY <1>1, <1>2
<1> QED  BY <1>2, <1>3 DEF r

LEMMA SlotSourced ==
  ASSUME NEW q \in Seq(SlotKinds), NEW ch \in {1, 2}, Len(q) # 0
  PROVE  LET r == Sourced(q, ch) IN
         /\ r \in Seq(SlotKinds) /\ Len(r) = Len(q)
         /\ r[Len(r)][1] = q[Len(q)][1] /\ r[Len(r)][2] = ch
         /\ \A i \in 1..Len(q) - 1 : r[i] = q[i]
<1> DEFINE n == Len(q) x == [q[n] EXCEPT ![2] = ch] r == Sourced(q, ch)
<1>1. n \in Nat \ {0} /\ n \in 1..n /\ n \in DOMAIN q /\ DOMAIN q = 1..n /\ q[n] \in SlotKinds
  OBVIOUS
<1>2. x \in SlotKinds /\ x[1] = q[n][1] /\ x[2] = ch
  <2>1. PICK a \in {"VPP", "FREQUENCY"} : \E b \in {1, 2} : q[n] = <<a, b>>
    BY <1>1 DEF SlotKinds
  <2>2. PICK b \in {1, 2} : q[n] = <<a, b>>
    BY <2>1
  <2>3. x = <<a, ch>>
    <3> DEFINE z == q[n]
    <3>1. z = <<a, b>>
      BY <2>2
    <3> HIDE DEF z
    <3>2. [z EXCEPT ![2] = ch] = <<a, ch>>
      BY <3>1
    <3> QED  BY <3>2 DEF z
  <2> QED  BY <2>2, <2>3 DEF SlotKinds
<1>3. r = [q EXCEPT ![n] = x]
  BY DEF Sourced
<1> HIDE DEF x, r, n
<1>4. r \in Seq(SlotKinds) /\ Len(r) = n /\ r[n] = x /\ \A i \in 1..n - 1 : r[i] = q[i]
  <2>1. \A i \in 1..n - 1 : i \in 1..n /\ i # n
    BY <1>1
  <2>2. n \in 1..Len(q) /\ Len(q) = n
    BY <1>1 DEF n
  <2> QED  BY <1>2, <1>3, <2>1, <2>2
<1>5. r[Len(r)][1] = q[n][1] /\ r[Len(r)][2] = ch
  BY <1>2, <1>4
<1> QED  BY <1>4, <1>5 DEF n, r

\* Nothing changes that an answer is about.
Steady ==
  /\ dev'.wave = dev.wave /\ dev'.slots = dev.slots /\ host'.slots = host.slots
  /\ dev.errs # 0 => dev'.errs # 0

LEMMA LooksStays ==
  ASSUME NEW t \in Threads, Looks(t), call'[t] = call[t], kind' = kind, Steady
  PROVE  Looks(t)'
<1>1. \A n, key, count : Grown(dev, host, n, key, count) => Grown(dev', host', n, key, count)
  BY DEF Grown, LastSlot, Steady
<1>2. \A s, key, count : Slotting(dev, host, s, key, count) => Slotting(dev', host', s, key, count)
  BY <1>1 DEF Slotting
<1>3. \A s, ch : Framing(dev, s, ch) => Framing(dev', s, ch)
  BY DEF Framing, Steady
<1> QED  BY <1>2, <1>3 DEF Looks, Busy

\* open() and close() do not depend on it.
LEMMA LooksIdle ==
  ASSUME NEW t \in Threads, Looks(t), ~Active(t), call'[t] = call[t], kind' = kind
  PROVE  Looks(t)'
<1> DEFINE c == call[t].c
<1>1. Busy(t) => c.op \in Unlocked
  BY DEF Busy, Active
<1>2. c.op \in Unlocked => c.op # "load" /\ ~Framed(kind, c) /\ ~Slotted(kind, c)
  BY DEF Framed, Slotted, Unlocked
<1>3. Busy(t)' = Busy(t)
  BY DEF Busy
<1> QED  BY <1>1, <1>2, <1>3 DEF Looks

LEMMA QuietSteady ==
  ASSUME NEW t \in Threads, Base, Takes(t), QuietStep(call[t].todo[1])
  PROVE  Steady /\ host'.func = host.func
<1> DEFINE m == call[t].todo[1]
<1>1. DOMAIN host = HostParts
  BY DEF Base
<1>2. /\ m.do \in ScopeDoes
      /\ m.do = "put" => m.at[1] \notin {"wave source", "add slot", "slot source", "recall", "function"}
      /\ m.do = "note" => m.at \in ScopeNotes
  BY DEF QuietStep, Fits, ScopePuts
<1> HIDE DEF m
<1>3. CASE m.do = "put" /\ Command(m, m)
  <2>1. AcceptedParts(dev, m, dev')
    BY <1>3, CommandDoes
  <2>2. dev'.wave = dev.wave /\ dev'.slots = dev.slots /\ dev'.errs = dev.errs
    BY <1>2, <1>3, <2>1 DEF AcceptedParts
  <2> QED  BY <1>3, <2>2 DEF Steady, Command, SameHost
<1>4. CASE SameDev /\ dev'.errs = 1 /\ SameHost
  BY <1>4 DEF Steady, SameDev, SameHost
<1>5. CASE m.do = "note" /\ dev' = dev /\ host' = Noted(host, m.at, m.to, call[t].got)
  <2>1. m.at \in {"acquired", "average", "source", "type"}
    BY <1>2, <1>5 DEF ScopeNotes
  <2>2. host'.slots = host.slots /\ host'.func = host.func
    <3>1. m.at = "acquired" => host' = [host EXCEPT !.armed = FALSE, !.stamp = "record"]
      BY <1>5 DEF Noted
    <3>2. m.at # "acquired" => host' = [host EXCEPT ![m.at] = m.to]
      BY <1>5, <2>1 DEF Noted
    <3> QED  BY <1>1, <2>1, <3>1, <3>2 DEF HostParts
  <2> QED  BY <1>5, <2>2 DEF Steady
<1>6. CASE dev' = dev /\ host' = host
  BY <1>6 DEF Steady
<1>7. m.do # "merge"
  BY <1>2 DEF ScopeDoes
<1> QED  BY <1>3, <1>4, <1>5, <1>6, <1>7 DEF Takes, Effect, m

LEMMA SlotReply ==
  ASSUME NEW d, NEW h, NEW at, at[1] = "slot"
  PROVE  Reply(d, h, at) = d.slots[h.slots[at[2]]]
  BY DEF Reply

LEMMA PlainReply ==
  ASSUME NEW d, NEW h, NEW at, at[1] \in {"wave", "scale", "VPP", "FREQUENCY", "setup"}, at # <<"wave", 0>>
  PROVE  Reply(d, h, at) = at
  BY DEF Reply

LEMMA CountReply ==
  ASSUME NEW d, NEW h
  PROVE  /\ Reply(d, h, <<"wave", 0>>) = <<"wave", d.wave>>
         /\ Reply(d, h, SlotsAt) = <<"slots", Len(d.slots)>>
  BY DEF Reply, SlotsAt

LEMMA ScopeAnswers ==
  ASSUME Base, SlotsInv, kind \in Scopes, NEW t \in Threads, Busy(t), call[t].c.op \in Publishing,
         NEW at, at = Question(t),
         Framed(kind, call[t].c) => dev.wave = call[t].c.ch,
         Slotted(kind, call[t].c) => host.slots[Key(call[t].c)] # 0
  PROVE  Reply(dev, host, at) = PublishedAs(t)
<1> DEFINE c == call[t].c p == PublishedAs(t)
<1>1. c \in Issued(kind)
  BY DEF Base, CallIsWhole, Underway, Busy
<1>2. /\ c.op \in {"get", "fetch", "measure", "save"}
      /\ c.op = "get" => c.name = "scale" /\ c.ch = 1
      /\ c.op = "fetch" => c.name = "wave" /\ c.ch = 2
      /\ c.op = "measure" => (c.name = "VPP" /\ c.ch = 1) \/ (c.name = "FREQUENCY" /\ c.ch = 2)
      /\ c.op = "save" => c.name = "setup" /\ c.ch = 0
  BY <1>1, ScopeCalls DEF Publishing
<1>3. at = ScopeQuestion(kind, c)
  BY QuestionIs DEF Question
<1>4. p = Key(c)
  <2>1. c.op = "fetch" => p = <<"wave", c.ch>>
    BY DEF PublishedAs
  <2>2. c.op \in {"get", "measure", "save"} => p = <<c.name, c.ch>>
    BY DEF PublishedAs
  <2> QED  BY <1>2, <2>1, <2>2 DEF Key
<1> HIDE DEF p
<1>5. CASE Framed(kind, c)
  <2>1. at = <<"wave", 0>> /\ dev.wave = c.ch /\ c.name = "wave"
    BY <1>2, <1>3, <1>5, ScopeQuestionIs DEF Framed
  <2>2. Reply(dev, host, at) = <<"wave", dev.wave>>
    BY <2>1, CountReply
  <2> QED  BY <1>4, <2>1, <2>2 DEF Key, p
<1>6. CASE Slotted(kind, c)
  <2>1. at = <<"slot", Key(c)>>
    BY <1>3, <1>6, ScopeQuestionIs
  <2>2. Reply(dev, host, at) = dev.slots[host.slots[Key(c)]]
    <3> DEFINE k == Key(c)
    <3>1. at = <<"slot", k>>
      BY <2>1
    <3> HIDE DEF k
    <3>2. at[1] = "slot" /\ at[2] = k
      BY <3>1
    <3> QED  BY <3>2, SlotReply DEF k
  <2>3. Key(c) \in MeasureKeys
    BY <1>2, <1>6 DEF Slotted, Key, MeasureKeys
  <2> QED  BY <1>4, <1>6, <2>2, <2>3 DEF SlotsInv, p
<1>7. CASE ~Framed(kind, c) /\ ~Slotted(kind, c)
  <2>1. at = Key(c)
    BY <1>3, <1>7, ScopeQuestionIs
  <2>2. c.name \in {"wave", "scale", "VPP", "FREQUENCY", "setup"} /\ (c.name = "wave" => c.ch = 2)
    BY <1>2
  <2>3. Key(c)[1] = c.name /\ Key(c)[2] = c.ch
    BY DEF Key
  <2>4. at # <<"wave", 0>>
    <3> SUFFICES ASSUME at = <<"wave", 0>>  PROVE FALSE
      OBVIOUS
    <3>1. at[1] = "wave" /\ at[2] = 0
      OBVIOUS
    <3> QED  BY <2>1, <2>2, <2>3, <3>1
  <2> QED  BY <1>4, <2>1, <2>2, <2>3, <2>4, PlainReply DEF p
<1> QED  BY <1>5, <1>6, <1>7

LEMMA QuietSetUp ==
  ASSUME NEW s, NEW key, Quiet(s)
  PROVE  SetsUp(s, 6, key)
<1>1. Listed(s) /\ \A i \in DOMAIN s : QuietStep(s[i])
  BY QuietMore DEF Quiet, Within, QuietStep
<1> QED  BY <1>1 DEF SetsUp

LEMMA SetupDoes ==
  ASSUME NEW n \in 0..5, NEW m, NEW key, SetupStep(n + 1, m, key)
  PROVE  \/ n = 0 /\ Does(m, "ask", SlotsAt, 0)
         \/ n = 1 /\ Does(m, "put", AddSlot, key[1])
         \/ n = 2 /\ m.do = "compare"
         \/ n = 3 /\ Does(m, "put", SlotSource, key[2])
         \/ n = 4 /\ m.do = "check"
         \/ n = 5 /\ Does(m, "note", "slot", key)
<1>1. \/ (n = 0 /\ n + 1 = 1) \/ (n = 1 /\ n + 1 = 2) \/ (n = 2 /\ n + 1 = 3)
      \/ (n = 3 /\ n + 1 = 4) \/ (n = 4 /\ n + 1 = 5) \/ (n = 5 /\ n + 1 = 6)
  OBVIOUS
<1> QED  BY <1>1 DEF SetupStep

\* What a quiet step is not.
LEMMA QuietIsNot ==
  ASSUME NEW m, QuietStep(m)
  PROVE  /\ \A ch : ~SetsWave(m, ch)
         /\ m.do # "compare" /\ m.do # "merge"
         /\ m.do = "put" => m.at # AddSlot /\ m.at # SlotSource
         /\ m.do = "note" => m.at # "slot" /\ m.at # "func"
<1>1. m.do = "put" => m.at[1] \notin {"wave source", "add slot", "slot source"}
  BY DEF QuietStep, Fits, ScopePuts
<1>2. \A name : m.at = <<name, 0>> => m.at[1] = name
  OBVIOUS
<1>3. \A ch : ~SetsWave(m, ch)
  BY <1>1, <1>2 DEF SetsWave
<1>4. m.do = "put" => m.at # AddSlot /\ m.at # SlotSource
  BY <1>1, <1>2 DEF AddSlot, SlotSource
<1>5. /\ m.do # "compare" /\ m.do # "merge"
      /\ m.do = "note" => m.at # "slot" /\ m.at # "func"
  BY DEF QuietStep, Fits, ScopeDoes, ScopeNotes
<1> QED  BY <1>3, <1>4, <1>5

\* An answer is about what the scope and the slots are set to.
LEMMA ScopeTells ==
  ASSUME NEW t \in Threads, Base, kind \in Scopes, ScopeInv, LooksInv, Busy(t), call[t].todo # <<>>, Takes(t),
         kind' = kind, host'.func = host.func
  PROVE  Tells(t)'
<1> DEFINE c == call[t].c s == call[t].todo m == s[1] key == Key(c)
<1>1. IsSeq(s) /\ s # <<>> /\ Looks(t) /\ Tells(t)
  BY DEF Base, CallIsWhole, LooksInv
<1>2. Obtains(m) => m.do \in {"ask", "block"}
  BY DEF Obtains
<1>3. Obtains(m) => line = <<>>
  BY <1>2, LineIsEmpty
<1>4. ASSUME c.op \in Publishing, Obtains(m), m.at = Question(t)
      PROVE  Reply(dev, host, m.at) = PublishedAs(t)
  <2>1. ASSUME Framed(kind, c)  PROVE dev.wave = c.ch
    <3>1. Framing(dev, s, c.ch)
      BY <1>1, <2>1 DEF Looks
    <3>2. ~Frames(s, c.ch)
      <4> HIDE DEF s
      <4> QED  BY <1>1, <1>2, <1>4, RestFrames DEF SetsWave
    <3> QED  BY <1>2, <1>4, <3>1, <3>2 DEF Framing
  <2>2. ASSUME Slotted(kind, c)  PROVE host.slots[key] # 0
    <3>1. PICK n \in 0..6 : SetsUp(s, n, key) /\ Grown(dev, host, n, key, call[t].got[2])
      BY <1>1, <2>2 DEF Looks, Slotting
    <3>2. CASE n = 6
      BY <3>1, <3>2 DEF Grown
    <3>3. CASE n # 6
      <4> HIDE DEF s, key
      <4>1. SetupStep(n + 1, m, key)
        BY <1>1, <3>1, <3>3, RestSetsUp
      <4>0. n \in 0..5
        BY <3>3
      <4>2. m.at = SlotsAt
        BY <1>2, <1>4, <4>0, <4>1, SetupDoes DEF Does
      <4>3. m.at = <<"slot", Key(c)>>
        <5>1. m.at = ScopeQuestion(kind, c)
          BY <1>4, QuestionIs DEF Question
        <5> QED  BY <2>2, <5>1, ScopeQuestionIs
      <4>4. m.at[1] = "slots"
        BY <4>2 DEF SlotsAt
      <4>5. m.at[1] = "slot"
        BY <4>3
      <4> QED  BY <4>4, <4>5
    <3> QED  BY <3>2, <3>3
  <2> QED  BY <1>4, <2>1, <2>2, ScopeAnswers DEF LooksInv
<1> QED  BY <1>1, <1>3, <1>4, TellsOn

LEMMA QuietTakes ==
  ASSUME NEW t \in Threads, Base, kind \in Scopes, ScopeInv, LooksInv, Busy(t), call[t].todo # <<>>, Takes(t),
         kind' = kind, QuietStep(call[t].todo[1])
  PROVE  LooksInv'
<1> DEFINE c == call[t].c s == call[t].todo m == s[1] key == Key(c) r == Tail(s)
<1>1. IsSeq(s) /\ s # <<>> /\ Looks(t)
  BY DEF Base, CallIsWhole, LooksInv
<1>2. Steady /\ host'.func = host.func
  BY QuietSteady
<1>3. /\ call'[t].c = c /\ call'[t].phase = "busy" /\ call'[t].todo = r
      /\ \A u \in Threads \ {t} : call'[u] = call[u]
  BY DEF Takes, Passes, Others, Busy
<1>4. \A u \in Threads \ {t} : Looks(u)' /\ Tells(u)'
  BY <1>2, <1>3, LooksStays, TellsStays DEF LooksInv
<1>5. Tells(t)'
  BY <1>2, ScopeTells
<1>6. SlotsInv'
  BY <1>2 DEF LooksInv, SlotsInv, Steady
<1>7. m.do = "check" => dev.errs = 0
  <2>1. m.do = "check" => line = <<>>
    BY LineIsEmpty
  <2> QED  BY <2>1 DEF Takes, Effect
<1>8. ~Obtains(m) => call'[t].got = call[t].got
  BY DEF Takes
<1>9. m.do = "ask" /\ m.at = SlotsAt => call'[t].got = <<"slots", Len(dev.slots)>>
  <2> SUFFICES ASSUME m.do = "ask", m.at = SlotsAt  PROVE call'[t].got = <<"slots", Len(dev.slots)>>
    OBVIOUS
  <2>1. Obtains(m) /\ line = <<>>
    BY LineIsEmpty DEF Obtains
  <2>2. call'[t].got = Reply(dev, host, m.at)
    BY <2>1 DEF Takes
  <2> QED  BY <2>2, CountReply
<1> DEFINE q == QuietStep(m)
<1>10. q
  OBVIOUS
<1>11. /\ \A ch : ~SetsWave(m, ch)
       /\ m.do # "compare"
       /\ m.do = "put" => m.at # AddSlot /\ m.at # SlotSource
       /\ m.do = "note" => m.at # "slot"
  BY QuietIsNot
<1> HIDE DEF q, m
<1>12. c.op = "load" => Recalls(r)
  <2>1. c.op = "load" => Recalls(s)
    BY <1>1 DEF Looks
  <2> HIDE DEF s, r
  <2>2. Recalls(s) => Recalls(Tail(s))
    BY <1>1, RestAsks DEF Recalls
  <2> QED  BY <2>1, <2>2 DEF r
<1>13. Quiet(s) => Quiet(r)
  <2> HIDE DEF s, r
  <2>2. Quiet(s) => Quiet(Tail(s))
    BY <1>1, RestAsks DEF Quiet
  <2> QED  BY <2>2 DEF r
<1>14. c.op # "load" /\ ~Framed(kind, c) /\ ~Slotted(kind, c) => Quiet(r)
  BY <1>1, <1>13 DEF Looks
<1>15. ASSUME Framed(kind, c)  PROVE Framing(dev', r, c.ch)
  <2>1. Framing(dev, s, c.ch)
    BY <1>1, <1>15 DEF Looks
  <2>2. ~SetsWave(m, c.ch)
    BY <1>11
  <2> HIDE DEF s, r
  <2>3. Frames(s, c.ch) => Frames(Tail(s), c.ch)
    BY <1>1, <2>2, RestFrames DEF m
  <2>4. Quiet(s) => Quiet(r) /\ (s[1].do = "check" => dev.errs = 0)
    BY <1>7, <1>13 DEF m
  <2>5. dev'.wave = dev.wave
    BY <1>2 DEF Steady
  <2> QED  BY <2>1, <2>3, <2>4, <2>5 DEF Framing, r
<1>16. ASSUME Slotted(kind, c)  PROVE Slotting(dev', host', r, key, call'[t].got[2])
  <2>1. PICK n \in 0..6 : SetsUp(s, n, key) /\ Grown(dev, host, n, key, call[t].got[2])
    BY <1>1, <1>16 DEF Looks, Slotting
  <2>2. /\ n # 6 => SetupStep(n + 1, m, key) /\ SetsUp(r, n + 1, key)
        /\ n = 6 => Quiet(s)
    <3> HIDE DEF s, key
    <3> QED  BY <1>1, <2>1, RestSetsUp DEF r, m
  <2>3. \A k : Grown(dev, host, k, key, call[t].got[2]) => Grown(dev', host', k, key, call[t].got[2])
    BY <1>2 DEF Grown, LastSlot, Steady
  <2> HIDE DEF s, r, key
  <2>4. CASE n = 6
    <3>1. Quiet(r) /\ Grown(dev', host', 6, key, call'[t].got[2])
      BY <1>2, <1>13, <2>1, <2>2, <2>4 DEF Grown, Steady
    <3>2. SetsUp(r, 6, key)
      BY <3>1, QuietSetUp
    <3>3. 6 \in 0..6
      OBVIOUS
    <3> QED  BY <3>1, <3>2, <3>3 DEF Slotting
  <2>5. CASE n # 6
    <3>1. n \in 0..5 /\ n + 1 \in 0..6
      BY <2>5
    <3>2. n \in {0, 4}
      <4>1. SetupStep(n + 1, m, key)
        BY <2>2, <2>5
      <4> QED  BY <1>11, <3>1, <4>1, SetupDoes DEF Does
    <3>3. CASE n = 0
      <4>1. m.do = "ask" /\ m.at = SlotsAt
        BY <2>2, <3>1, <3>3, SetupDoes DEF Does
      <4>2. call'[t].got[2] = Len(dev.slots)
        BY <1>9, <4>1
      <4>3. Len(dev.slots) \in Nat /\ \A k \in MeasureKeys : host.slots[k] <= Len(dev.slots)
        <5>1. Len(dev.slots) \in Nat
          BY DEF LooksInv, SlotsInv
        <5> QED  BY <5>1 DEF LooksInv, SlotsInv
      <4>4. Grown(dev', host', 1, key, call'[t].got[2])
        BY <1>2, <4>2, <4>3 DEF Grown, Steady
      <4>5. 0 + 1 = 1 /\ 1 \in 0..6
        OBVIOUS
      <4>6. SetsUp(r, 1, key)
        BY <2>2, <3>3, <4>5
      <4> QED  BY <4>4, <4>5, <4>6 DEF Slotting
    <3>4. CASE n = 4
      <4>1. m.do = "check"
        BY <2>2, <3>1, <3>4, SetupDoes DEF Does
      <4>2. call'[t].got = call[t].got /\ dev.errs = 0
        BY <1>7, <1>8, <4>1 DEF Obtains
      <4>3. Grown(dev, host, 5, key, call[t].got[2])
        BY <2>1, <3>4, <4>2 DEF Grown
      <4>4. Grown(dev', host', 5, key, call'[t].got[2])
        BY <2>3, <4>2, <4>3
      <4>5. 4 + 1 = 5 /\ 5 \in 0..6
        OBVIOUS
      <4>6. SetsUp(r, 5, key)
        BY <2>2, <3>4, <4>5
      <4> QED  BY <4>4, <4>5, <4>6 DEF Slotting
    <3> QED  BY <3>2, <3>3, <3>4
  <2> QED  BY <2>4, <2>5
<1>17. Looks(t)'
  BY <1>3, <1>12, <1>14, <1>15, <1>16 DEF Looks
<1> QED  BY <1>4, <1>5, <1>6, <1>17 DEF LooksInv

\* Where a call is after a step.
LEMMA TakesOn ==
  ASSUME NEW t \in Threads, Base, Busy(t), Takes(t)
  PROVE  /\ Others(t) /\ Busy(t)' /\ call'[t].c = call[t].c /\ call'[t].todo = Tail(call[t].todo)
         /\ ~Obtains(call[t].todo[1]) => call'[t].got = call[t].got
  BY DEF Takes, Passes, Others, Busy

\* A put is carried out or refused.
LEMMA PutDoes ==
  ASSUME NEW t \in Threads, Base, Takes(t), call[t].todo[1].do = "put"
  PROVE  LET m == call[t].todo[1] IN
         /\ call'[t].got = call[t].got /\ SameHost
         /\ \/ AcceptedParts(dev, m, dev') /\ ~RecallAdrift(m)
            \/ SameDev /\ dev'.errs = 1
<1> DEFINE m == call[t].todo[1]
<1>1. call'[t].got = call[t].got
  BY DEF Takes, Obtains
<1>2. \/ Command(m, m)
      \/ SameDev /\ dev'.errs = 1 /\ SameHost
  BY DEF Takes, Effect
<1>3. Command(m, m) => AcceptedParts(dev, m, dev') /\ ~RecallAdrift(m) /\ SameHost
  BY CommandDoes DEF Command
<1> QED  BY <1>1, <1>2, <1>3

LEMMA RecallTakes ==
  ASSUME NEW t \in Threads, Base, LooksInv, Busy(t), call[t].todo # <<>>, Takes(t),
         kind' = kind, call[t].c.op = "load", ~QuietStep(call[t].todo[1])
  PROVE  SlotsInv' /\ host'.func = host.func /\ Looks(t)'
<1> DEFINE c == call[t].c s == call[t].todo m == s[1] r == Tail(s)
<1>1. IsSeq(s) /\ s # <<>> /\ Recalls(s)
  BY DEF Base, CallIsWhole, LooksInv, Looks
<1>2. Fits(m, ScopeDoes, ScopePuts \cup {"recall"}, ScopeNotes) /\ Recalls(r)
  <2> HIDE DEF s
  <2> QED  BY <1>1, RestAsks DEF Recalls
<1>3. m.do = "put" /\ m.at[1] = "recall"
  BY <1>2 DEF Fits, QuietStep
<1>4. SameHost /\ ((AcceptedParts(dev, m, dev') /\ ~RecallAdrift(m)) \/ SameDev)
  BY <1>3, PutDoes
<1>5. SlotsInv'
  <2>1. CASE SameDev
    BY <1>4, <2>1 DEF LooksInv, SlotsInv, SameDev, SameHost
  <2>2. CASE AcceptedParts(dev, m, dev') /\ ~RecallAdrift(m)
    <3>1. dev' = DevInit(kind) /\ \A key \in MeasureKeys : host.slots[key] = 0
      BY <1>3, <2>2 DEF AcceptedParts, RecallAdrift
    <3>2. dev'.slots = <<>>
      BY <3>1 DEF DevInit
    <3>3. dev'.slots \in Seq(SlotKinds)
      BY <3>2
    <3> QED  BY <1>4, <3>1, <3>3 DEF LooksInv, SlotsInv, SameHost
  <2> QED  BY <1>4, <2>1, <2>2
<1>6. call'[t].c = c /\ call'[t].todo = r
  BY TakesOn
<1>7. ~Framed(kind, c) /\ ~Slotted(kind, c)
  BY DEF Framed, Slotted
<1> HIDE DEF r
<1> QED  BY <1>2, <1>4, <1>5, <1>6, <1>7 DEF Looks, SameHost

\* Which command changes what.
LEMMA AcceptedSets ==
  ASSUME NEW d, NEW m, NEW x, AcceptedParts(d, m, x)
  PROVE  /\ \A ch : SetsWave(m, ch) => x.wave = ch /\ x.slots = d.slots
         /\ m.at = AddSlot => x.slots = Added(d.slots, m.to)
         /\ m.at = SlotSource => x.slots = Sourced(d.slots, m.to)
<1>1. m.at = <<"wave source", 0>> => x.wave = m.to
  BY Zenon DEF AcceptedParts
<1>2. m.at[1] = "wave source" => x.slots = d.slots
  BY DEF AcceptedParts
<1>3. \A name : m.at = <<name, 0>> => m.at[1] = name
  OBVIOUS
<1>4. m.at = AddSlot => x.slots = Added(d.slots, m.to)
  BY Zenon DEF AcceptedParts, AddSlot, Added
<1>5. m.at = SlotSource => x.slots = Sourced(d.slots, m.to)
  BY Zenon DEF AcceptedParts, SlotSource, Sourced
<1>6. \A ch : SetsWave(m, ch) => x.wave = ch /\ x.slots = d.slots
  BY <1>1, <1>2, <1>3 DEF SetsWave
<1> QED  BY <1>4, <1>5, <1>6

LEMMA FrameTakes ==
  ASSUME NEW t \in Threads, Base, LooksInv, Busy(t), call[t].todo # <<>>, Takes(t),
         kind' = kind, Framed(kind, call[t].c), ~QuietStep(call[t].todo[1])
  PROVE  SlotsInv' /\ host'.func = host.func /\ Looks(t)'
<1> DEFINE c == call[t].c s == call[t].todo m == s[1] r == Tail(s) ch == c.ch
<1>1. IsSeq(s) /\ s # <<>> /\ Framing(dev, s, ch)
  BY DEF Base, CallIsWhole, LooksInv, Looks
<1>2. Frames(s, ch)
  <2> HIDE DEF s, ch
  <2>1. ~Quiet(s)
    BY <1>1, RestAsks DEF Quiet, QuietStep, s
  <2> QED  BY <1>1, <2>1 DEF Framing
<1>3. SetsWave(m, ch) /\ Quiet(r) /\ r # <<>> /\ r[1].do = "check"
  <2> HIDE DEF s, ch
  <2> QED  BY <1>1, <1>2, RestFrames DEF s
<1>4. m.do = "put"
  BY <1>3 DEF SetsWave
<1>6. SameHost /\ (AcceptedParts(dev, m, dev') \/ (SameDev /\ dev'.errs = 1))
  BY <1>4, PutDoes
<1> HIDE DEF m
<1>7. dev'.slots = dev.slots /\ (dev'.wave = ch \/ dev'.errs # 0)
  <2>1. ASSUME AcceptedParts(dev, m, dev')  PROVE dev'.slots = dev.slots /\ dev'.wave = ch
    <3>1. \A x : SetsWave(m, x) => dev'.wave = x /\ dev'.slots = dev.slots
      BY <2>1, AcceptedSets
    <3> QED  BY <1>3, <3>1
  <2> QED  BY <1>6, <2>1 DEF SameDev
<1>8. SlotsInv'
  BY <1>6, <1>7 DEF LooksInv, SlotsInv, SameHost
<1>10. call'[t].c = c /\ call'[t].todo = r
  BY TakesOn
<1>11. c.op # "load" /\ ~Slotted(kind, c)
  BY DEF Framed, Slotted
<1> HIDE DEF r
<1>12. Framing(dev', r, ch)
  BY <1>3, <1>7 DEF Framing
<1> QED  BY <1>6, <1>8, <1>10, <1>11, <1>12 DEF Looks, SameHost

\* The steps of setup_measurement() that change the list or what is remembered of it.
LEMMA SlotStep ==
  ASSUME NEW t \in Threads, Base, kind \in Scopes, LooksInv, Busy(t), call[t].todo # <<>>,
         Slotted(kind, call[t].c), ~QuietStep(call[t].todo[1])
  PROVE  LET s == call[t].todo m == s[1] key == Key(call[t].c) IN
         /\ key \in MeasureKeys
         /\ \E n \in 0..6 :
              /\ Grown(dev, host, n, key, call[t].got[2]) /\ SetsUp(Tail(s), n + 1, key)
              /\ \/ n = 1 /\ Does(m, "put", AddSlot, key[1])
                 \/ n = 2 /\ m.do = "compare"
                 \/ n = 3 /\ Does(m, "put", SlotSource, key[2])
                 \/ n = 5 /\ Does(m, "note", "slot", key)
<1> DEFINE c == call[t].c s == call[t].todo m == s[1] key == Key(c)
<1>1. key \in MeasureKeys
  <2>1. c \in Issued(kind) /\ c.op = "measure"
    BY DEF Base, CallIsWhole, Underway, Busy, Slotted
  <2>2. (c.name = "VPP" /\ c.ch = 1) \/ (c.name = "FREQUENCY" /\ c.ch = 2)
    BY <2>1, ScopeCalls
  <2> QED  BY <2>2 DEF Key, MeasureKeys
<1>2. IsSeq(s) /\ s # <<>> /\ Looks(t)
  BY DEF Base, CallIsWhole, LooksInv
<1>3. PICK n \in 0..6 : SetsUp(s, n, key) /\ Grown(dev, host, n, key, call[t].got[2])
  BY <1>2 DEF Looks, Slotting
<1> HIDE DEF s, key
<1>4. n # 6
  <2> SUFFICES ASSUME n = 6  PROVE FALSE
    OBVIOUS
  <2>1. Quiet(s)
    BY <1>2, <1>3, RestSetsUp
  <2> QED  BY <1>2, <2>1, RestAsks DEF Quiet, QuietStep, s
<1>5. n \in 0..5
  BY <1>4
<1>6. SetupStep(n + 1, m, key) /\ SetsUp(Tail(s), n + 1, key)
  BY <1>2, <1>3, <1>4, RestSetsUp
<1>7. DOMAIN m = StepParts
  <2>1. 1 \in DOMAIN s
    BY <1>2, TailOf
  <2> QED  BY <1>3, <2>1 DEF SetsUp, Listed
<1>8. m.do \notin {"ask", "check"}
  BY <1>7 DEF QuietStep, Fits, ScopeDoes, s
<1>9. \/ n = 1 /\ Does(m, "put", AddSlot, key[1])
      \/ n = 2 /\ m.do = "compare"
      \/ n = 3 /\ Does(m, "put", SlotSource, key[2])
      \/ n = 5 /\ Does(m, "note", "slot", key)
  BY <1>5, <1>6, <1>8, SetupDoes DEF Does
<1> QED  BY <1>1, <1>3, <1>6, <1>9 DEF s, key

LEMMA SlotsGrow ==
  ASSUME NEW key \in MeasureKeys, NEW m, NEW count, Base, LooksInv, Does(m, "put", AddSlot, key[1]), SameHost,
         Grown(dev, host, 1, key, count), AcceptedParts(dev, m, dev') \/ (SameDev /\ dev'.errs = 1)
  PROVE  SlotsInv' /\ Grown(dev', host', 2, key, count)
<1>1. /\ dev.slots \in Seq(SlotKinds) /\ DOMAIN host.slots = MeasureKeys
      /\ \A k \in MeasureKeys :
           host.slots[k] # 0 => host.slots[k] \in 1..Len(dev.slots) /\ dev.slots[host.slots[k]] = k
  BY DEF LooksInv, SlotsInv
<1>2. /\ count \in Nat /\ (\A k \in MeasureKeys : host.slots[k] <= count) /\ Len(dev.slots) = count
      /\ host'.slots = host.slots
  BY DEF Grown, SameHost
<1>3. CASE SameDev
  <2>1. dev'.slots = dev.slots
    BY <1>3 DEF SameDev
  <2> QED  BY <1>1, <1>2, <2>1 DEF SlotsInv, Grown
<1>4. CASE AcceptedParts(dev, m, dev')
  <2>1. dev'.slots = Added(dev.slots, key[1])
    BY <1>4, AcceptedSets DEF Does
  <2>2. key[1] \in {"VPP", "FREQUENCY"}
    BY KeysAre
  <2>3. /\ dev'.slots \in Seq(SlotKinds) /\ Len(dev'.slots) = count + 1 /\ LastSlot(dev')[1] = key[1]
        /\ \A i \in 1..count : dev'.slots[i] = dev.slots[i]
    BY <1>1, <1>2, <2>1, <2>2, SlotAdded DEF LastSlot
  <2>4. SlotsInv'
    BY <1>1, <1>2, <2>3 DEF SlotsInv
  <2> QED  BY <1>2, <2>3, <2>4 DEF Grown
<1> QED  BY <1>3, <1>4

LEMMA SlotsMeet ==
  ASSUME NEW key \in MeasureKeys, NEW m, NEW count, Base, LooksInv, Does(m, "put", SlotSource, key[2]), SameHost,
         Grown(dev, host, 3, key, count), AcceptedParts(dev, m, dev') \/ (SameDev /\ dev'.errs = 1)
  PROVE  SlotsInv' /\ Grown(dev', host', 4, key, count)
<1>1. /\ dev.slots \in Seq(SlotKinds) /\ DOMAIN host.slots = MeasureKeys
      /\ \A k \in MeasureKeys :
           host.slots[k] # 0 => host.slots[k] \in 1..Len(dev.slots) /\ dev.slots[host.slots[k]] = k
  BY DEF LooksInv, SlotsInv
<1>2. /\ count \in Nat /\ (\A k \in MeasureKeys : host.slots[k] <= count) /\ Len(dev.slots) = count + 1
      /\ LastSlot(dev)[1] = key[1] /\ host'.slots = host.slots
  BY DEF Grown, SameHost
<1>3. CASE SameDev /\ dev'.errs = 1
  <2>1. dev'.slots = dev.slots /\ dev'.errs # 0
    BY <1>3 DEF SameDev
  <2> QED  BY <1>1, <1>2, <2>1 DEF SlotsInv, Grown, LastSlot
<1>4. CASE AcceptedParts(dev, m, dev')
  <2>1. dev'.slots = Sourced(dev.slots, key[2])
    BY <1>4, AcceptedSets DEF Does
  <2>2. key[2] \in {1, 2} /\ Len(dev.slots) # 0
    BY <1>2, KeysAre
  <2>3. /\ dev'.slots \in Seq(SlotKinds) /\ Len(dev'.slots) = count + 1
        /\ LastSlot(dev')[1] = key[1] /\ LastSlot(dev')[2] = key[2]
        /\ \A i \in 1..(count + 1) - 1 : dev'.slots[i] = dev.slots[i]
    <3> DEFINE q == dev.slots ch == key[2] r == Sourced(q, ch)
    <3>1. q \in Seq(SlotKinds) /\ ch \in {1, 2} /\ Len(q) # 0
      BY <1>1, <2>2
    <3>2. dev'.slots = r /\ Len(q) = count + 1 /\ q[Len(q)][1] = key[1]
      BY <1>2, <2>1 DEF LastSlot
    <3> HIDE DEF q, ch
    <3>3. /\ r \in Seq(SlotKinds) /\ Len(r) = Len(q)
          /\ r[Len(r)][1] = q[Len(q)][1] /\ r[Len(r)][2] = ch
          /\ \A i \in 1..Len(q) - 1 : r[i] = q[i]
      BY <3>1, SlotSourced
    <3> HIDE DEF r
    <3> QED  BY <3>2, <3>3 DEF LastSlot, ch, q
  <2>4. \A k \in MeasureKeys : host.slots[k] # 0 => host.slots[k] \in 1..(count + 1) - 1
    BY <1>1, <1>2
  <2>5. SlotsInv'
    BY <1>1, <1>2, <2>3, <2>4 DEF SlotsInv
  <2> QED  BY <1>2, <2>3, <2>5 DEF Grown
<1> QED  BY <1>3, <1>4

LEMMA SlotsNoted ==
  ASSUME NEW key \in MeasureKeys, NEW got, Base, LooksInv, dev' = dev, host' = Noted(host, "slot", key, got),
         Grown(dev, host, 5, key, got[2])
  PROVE  SlotsInv' /\ Grown(dev', host', 6, key, got[2])
<1>1. /\ dev.slots \in Seq(SlotKinds) /\ DOMAIN host.slots = MeasureKeys /\ Len(dev.slots) \in Nat
      /\ \A k \in MeasureKeys :
           host.slots[k] # 0 => host.slots[k] \in 1..Len(dev.slots) /\ dev.slots[host.slots[k]] = k
  BY DEF LooksInv, SlotsInv
<1>2. /\ got[2] \in Nat /\ Len(dev.slots) = got[2] + 1
      /\ LastSlot(dev)[1] = key[1] /\ LastSlot(dev)[2] = key[2]
  BY DEF Grown
<1>3. host'.slots = [host.slots EXCEPT ![key] = got[2] + 1]
  BY DEF Noted, Base, HostParts
<1> DEFINE n == Len(dev.slots) x == dev.slots[n]
<1>4. x = key
  <2>1. x \in SlotKinds
    BY <1>1, <1>2
  <2>2. PICK a \in {"VPP", "FREQUENCY"}, b \in {1, 2} : x = <<a, b>>
    BY <2>1 DEF SlotKinds
  <2>3. x[1] = key[1] /\ x[2] = key[2]
    BY <1>2 DEF LastSlot
  <2>4. key = <<key[1], key[2]>>
    BY KeysAre
  <2> HIDE DEF x
  <2>5. x[1] = a /\ x[2] = b
    BY <2>2
  <2> QED  BY <2>2, <2>3, <2>4, <2>5
<1>5. /\ DOMAIN host'.slots = MeasureKeys /\ host'.slots[key] = n
      /\ \A k \in MeasureKeys \ {key} : host'.slots[k] = host.slots[k]
  BY <1>1, <1>2, <1>3
<1>6. n \in 1..n /\ n # 0
  BY <1>2
<1>7. SlotsInv'
  BY <1>1, <1>4, <1>5, <1>6 DEF SlotsInv
<1> QED  BY <1>5, <1>6, <1>7 DEF Grown

LEMMA SlotTakes ==
  ASSUME NEW t \in Threads, Base, kind \in Scopes, LooksInv, Busy(t), call[t].todo # <<>>, Takes(t),
         kind' = kind, Slotted(kind, call[t].c), ~QuietStep(call[t].todo[1])
  PROVE  SlotsInv' /\ host'.func = host.func /\ Looks(t)'
<1> DEFINE c == call[t].c s == call[t].todo m == s[1] r == Tail(s) key == Key(c) got == call[t].got
<1>1. key \in MeasureKeys
  BY SlotStep
<1>2. PICK n \in 0..6 :
        /\ Grown(dev, host, n, key, got[2]) /\ SetsUp(r, n + 1, key)
        /\ \/ n = 1 /\ Does(m, "put", AddSlot, key[1])
           \/ n = 2 /\ m.do = "compare"
           \/ n = 3 /\ Does(m, "put", SlotSource, key[2])
           \/ n = 5 /\ Does(m, "note", "slot", key)
  BY SlotStep
<1>3. m.do \in {"put", "compare", "note"} /\ (m.do = "note" => m.at = "slot")
  BY <1>2 DEF Does
<1>4. call'[t].c = c /\ call'[t].todo = r /\ call'[t].got = got
  BY <1>3, TakesOn DEF Obtains
<1>5. host'.func = host.func
  BY <1>3, FuncStays
<1>6. m.do = "put" => SameHost /\ (AcceptedParts(dev, m, dev') \/ (SameDev /\ dev'.errs = 1))
  BY PutDoes
<1>7. /\ m.do = "compare" => dev' = dev /\ host' = host /\ Len(dev.slots) = got[2] + 1
      /\ m.do = "note" => dev' = dev /\ host' = Noted(host, m.at, m.to, got)
  BY DEF Takes, Effect
<1> HIDE DEF m, r, key, got
<1>8. SlotsInv' /\ Grown(dev', host', n + 1, key, got[2])
  <2>1. CASE n = 1 /\ Does(m, "put", AddSlot, key[1])
    <3>1. m.do = "put"
      BY <2>1 DEF Does
    <3>2. SlotsInv' /\ Grown(dev', host', 2, key, got[2])
      BY <1>1, <1>2, <1>6, <2>1, <3>1, SlotsGrow
    <3> QED  BY <2>1, <3>2
  <2>2. CASE n = 3 /\ Does(m, "put", SlotSource, key[2])
    <3>1. m.do = "put"
      BY <2>2 DEF Does
    <3>2. SlotsInv' /\ Grown(dev', host', 4, key, got[2])
      BY <1>1, <1>2, <1>6, <2>2, <3>1, SlotsMeet
    <3> QED  BY <2>2, <3>2
  <2>3. CASE n = 2 /\ m.do = "compare"
    <3>1. dev' = dev /\ host' = host /\ Len(dev.slots) = got[2] + 1
      BY <1>7, <2>3
    <3>2. /\ got[2] \in Nat /\ \A k \in MeasureKeys : host.slots[k] <= got[2]
          /\ Len(dev.slots) = got[2] \/ (Len(dev.slots) = got[2] + 1 /\ LastSlot(dev)[1] = key[1])
      BY <1>2, <2>3 DEF Grown
    <3>3. LastSlot(dev)[1] = key[1]
      BY <3>1, <3>2
    <3>4. SlotsInv'
      BY <3>1 DEF LooksInv, SlotsInv
    <3> QED  BY <2>3, <3>1, <3>2, <3>3, <3>4 DEF Grown
  <2>4. CASE n = 5 /\ Does(m, "note", "slot", key)
    <3>1. m.do = "note" /\ m.at = "slot" /\ m.to = key
      BY <2>4 DEF Does
    <3>2. dev' = dev /\ host' = Noted(host, "slot", key, got)
      BY <1>7, <3>1
    <3>3. SlotsInv' /\ Grown(dev', host', 6, key, got[2])
      BY <1>1, <1>2, <2>4, <3>2, SlotsNoted
    <3> QED  BY <2>4, <3>3
  <2> QED  BY <1>2, <2>1, <2>2, <2>3, <2>4
<1>9. n + 1 \in 0..6
  BY <1>2
<1>10. Slotting(dev', host', r, key, got[2])
  BY <1>2, <1>8, <1>9 DEF Slotting
<1>11. c.op # "load" /\ ~Framed(kind, c)
  BY DEF Framed, Slotted
<1>12. Looks(t)'
  BY <1>4, <1>10, <1>11 DEF Looks, key
<1> QED  BY <1>5, <1>8, <1>12

LEMMA ScopeTakes ==
  ASSUME NEW t \in Threads, Base, kind \in Scopes, ScopeInv, LooksInv, Busy(t), call[t].todo # <<>>, Takes(t),
         kind' = kind
  PROVE  LooksInv'
<1> DEFINE c == call[t].c m == call[t].todo[1]
<1>1. CASE QuietStep(m)
  BY <1>1, QuietTakes
<1>2. CASE ~QuietStep(m)
  <2>1. c.op = "load" \/ Framed(kind, c) \/ Slotted(kind, c)
    <3> DEFINE s == call[t].todo
    <3>1. IsSeq(s) /\ s # <<>> /\ Looks(t)
      BY DEF Base, CallIsWhole, LooksInv
    <3>2. Quiet(s) => QuietStep(s[1])
      <4> HIDE DEF s
      <4> QED  BY <3>1, RestAsks DEF Quiet, QuietStep
    <3> QED  BY <1>2, <3>1, <3>2 DEF Looks
  <2>2. SlotsInv' /\ host'.func = host.func /\ Looks(t)'
    BY <1>2, <2>1, RecallTakes, FrameTakes, SlotTakes
  <2>3. Tells(t)'
    BY <2>2, ScopeTells
  <2>4. Active(t) /\ \A u \in Threads \ {t} : ~Active(u)
    <3>1. Active(t)
      BY <2>1 DEF Active, Busy, Framed, Slotted, Unlocked
    <3> QED  BY <3>1 DEF ScopeInv, TurnInv
  <2>5. \A u \in Threads \ {t} : call'[u] = call[u]
    BY TakesOn DEF Others
  <2>6. \A u \in Threads \ {t} : Looks(u)' /\ Tells(u)'
    BY <2>2, <2>4, <2>5, LooksIdle, TellsStays DEF LooksInv
  <2> QED  BY <2>2, <2>3, <2>6 DEF LooksInv
<1> QED  BY <1>1, <1>2

LEMMA ScopeGivesUp ==
  ASSUME NEW t \in Threads, Base, kind \in Scopes, ScopeInv, LooksInv, Busy(t), call[t].todo # <<>>, GivesUp(t),
         kind' = kind
  PROVE  LooksInv'
<1> DEFINE m == call[t].todo[1]
<1>1. /\ \A u \in Threads \ {t} : call'[u] = call[u]
      /\ call'[t] = Idle /\ host' = host /\ SameDev
      /\ dev.errs # 0 /\ m.do # "check" => dev'.errs # 0
  BY DEF GivesUp, Others
<1>2. SlotsInv'
  BY <1>1 DEF LooksInv, SlotsInv, SameDev
<1>3. Looks(t)' /\ Tells(t)'
  BY <1>1, IdleIs, TellsNothing DEF Looks, Busy, Underway
<1>4. \A u \in Threads \ {t} : Tells(u)'
  BY <1>1, TellsStays DEF LooksInv
<1>5. CASE m.do # "check"
  <2>1. Steady
    BY <1>1, <1>5 DEF Steady, SameDev
  <2> QED  BY <1>1, <1>2, <1>3, <1>4, <2>1, LooksStays DEF LooksInv
<1>6. CASE m.do = "check"
  <2>1. Active(t)
    BY <1>6, LineIsEmpty
  <2>2. \A u \in Threads \ {t} : ~Active(u)
    BY <2>1 DEF ScopeInv, TurnInv
  <2> QED  BY <1>1, <1>2, <1>3, <1>4, <2>2, LooksIdle DEF LooksInv
<1> QED  BY <1>5, <1>6

\* A call that starts.
LEMMA ScopeEnter ==
  ASSUME NEW t \in Threads, Base, kind \in Scopes, LooksInv, Enter(t), kind' = kind
  PROVE  LooksInv' /\ Base'
<1>1. PICK c \in Calls(t) : Begins(t, c)
  BY EnterBegins
<1> DEFINE s == Steps(kind, host, c) key == Key(c)
<1>2. c \in Issued(kind)
  BY CallsAreIssued
<1>3. ScopeList(kind, host, c, s)
  BY <1>2, ScopeLists
<1>4. /\ Others(t) /\ call'[t].c = c /\ call'[t].todo = s
      /\ host' = host /\ dev' = dev
  BY <1>1 DEF Begins
<1> HIDE DEF s
<1>5. /\ IsSeq(s) /\ (c.op = "load" => Recalls(s)) /\ (Framed(kind, c) => Frames(s, c.ch))
      /\ c.op # "load" /\ ~Framed(kind, c) /\ ~Slotted(kind, c) => Quiet(s)
      /\ c.op \in Publishing => Asks(s, ScopeQuestion(kind, c))
  BY <1>3 DEF ScopeList
<1>6. Base'
  BY <1>1, <1>5, EnterBase DEF s
<1>7. Tells(t)'
  BY <1>1, <1>5, QuestionIs, TellsNew DEF s
<1>8. SlotsInv' /\ Steady
  BY <1>4 DEF LooksInv, SlotsInv, Steady
<1>9. \A u \in Threads \ {t} : Looks(u)' /\ Tells(u)'
  BY <1>4, <1>8, LooksStays, TellsStays DEF LooksInv, Others
<1>10. ASSUME Slotted(kind, c), NEW count  PROVE Slotting(dev', host', s, key, count)
  <2> HIDE DEF key
  <2>1. CASE host.slots[key] = 0
    <3>1. SetsUp(s, 0, key)
      BY <1>3, <1>10, <2>1 DEF ScopeList, key
    <3>2. Grown(dev', host', 0, key, count) /\ 0 \in 0..6
      BY DEF Grown
    <3> QED  BY <3>1, <3>2 DEF Slotting
  <2>2. CASE host.slots[key] # 0
    <3>1. SetsUp(s, 6, key)
      BY <1>3, <1>10, <2>2, QuietSetUp DEF ScopeList, key
    <3>2. Grown(dev', host', 6, key, count) /\ 6 \in 0..6
      BY <1>4, <2>2 DEF Grown
    <3> QED  BY <3>1, <3>2 DEF Slotting
  <2> QED  BY <2>1, <2>2
<1>11. Looks(t)'
  BY <1>4, <1>5, <1>10 DEF Looks, Framing
<1> QED  BY <1>6, <1>7, <1>8, <1>9, <1>11 DEF LooksInv

LEMMA ScopeRest ==
  ASSUME NEW t \in Threads, Base, kind \in Scopes, LooksInv, Finish(t) \/ Post(t), kind' = kind
  PROVE  LooksInv'
<1>1. Others(t) /\ dev' = dev /\ ~Busy(t)'
  BY FinishEnds, PostEnds, IdleIs DEF Busy
<1>2. host'.func = host.func /\ host'.slots = host.slots
  <2>1. CASE Finish(t)
    BY <2>1, FinishEnds
  <2>2. CASE Post(t)
    <3>1. host' = ScopePost(host, call[t].c, call[t].got, "record")
      <4>1. kind \notin Dmms
        BY KindsApart
      <4> QED  BY <2>2, <4>1, PostEnds
    <3>2. DOMAIN host = HostParts
      BY DEF Base
    <3>3. \/ host' = host \/ host' = [host EXCEPT !.armed = TRUE]
          \/ host' = [host EXCEPT !.armed = FALSE, !.stamp = "record"]
      BY <3>1 DEF ScopePost
    <3> QED  BY <3>2, <3>3 DEF HostParts
  <2> QED  BY <2>1, <2>2
<1>3. SlotsInv' /\ Steady
  BY <1>1, <1>2 DEF LooksInv, SlotsInv, Steady
<1>4. \A u \in Threads \ {t} : Looks(u)' /\ Tells(u)'
  BY <1>1, <1>2, <1>3, LooksStays, TellsStays DEF LooksInv, Others
<1>5. Looks(t)'
  BY <1>1 DEF Looks
<1>6. Tells(t)'
  <2>1. CASE Finish(t)
    BY <2>1, TellsEnd DEF LooksInv
  <2>2. CASE Post(t)
    BY <2>2, PostEnds, IdleIs, TellsNothing DEF Underway
  <2> QED  BY <2>1, <2>2
<1> QED  BY <1>3, <1>4, <1>5, <1>6 DEF LooksInv

LEMMA ScopeTrigger ==
  ASSUME Base, kind \in Scopes, LooksInv, Trigger, kind' = kind
  PROVE  LooksInv'
<1>1. SameDev /\ SameHost /\ dev'.errs = dev.errs /\ call' = call
  BY TriggerIsSame
<1>2. Steady /\ SlotsInv' /\ host'.func = host.func
  BY <1>1 DEF SameDev, SameHost, Steady, LooksInv, SlotsInv
<1> QED  BY <1>1, <1>2, LooksStays, TellsStays DEF LooksInv

----------------------------------------------------------------------------
(* Readings are what they say *)

\* What holds of the instrument on the bench, whichever SCPI instrument it is.
Reports ==
  /\ Base /\ Held
  /\ kind \in Psus => PsuInv
  /\ kind \in Dmms => DmmInv
  /\ kind \in Loads => LoadInv
  /\ kind \in Scopes => LooksInv

ReadInv == ~adrift /\ kind # "Aardvark" => Reports

LEMMA KindIs ==
  ASSUME Inv, kind # "Aardvark"
  PROVE  /\ kind \in Psus \cup Dmms \cup Loads \cup Scopes
         /\ kind \in Psus => kind \notin Dmms /\ kind \notin Loads /\ kind \notin Scopes
         /\ kind \in Dmms => kind \notin Psus /\ kind \notin Loads /\ kind \notin Scopes
         /\ kind \in Loads => kind \notin Psus /\ kind \notin Dmms /\ kind \notin Scopes
         /\ kind \in Scopes => kind \notin Psus /\ kind \notin Dmms /\ kind \notin Loads
<1>1. kind \in Psus \cup Dmms \cup Loads \cup Scopes
  BY KindsAssumption DEF Inv
<1> QED  BY <1>1, KindsApart

LEMMA ReadsInit == Init => ReadInv
<1> SUFFICES ASSUME Init  PROVE Reports
  BY DEF ReadInv
<1>1. /\ call = [t \in Threads |-> Idle] /\ host = HostInit /\ dev = DevInit(kind) /\ owner = None /\ line = <<>>
      /\ None \notin Threads
  BY BenchAssumption DEF Init, VisaInit
<1>2. /\ DOMAIN call = Threads /\ \A t \in Threads : call[t] = Idle
      /\ \A t \in Threads : ~Busy(t) /\ ~Active(t) /\ ~Underway(t) /\ call[t].todo = <<>>
  BY <1>1, IdleIs DEF Busy, Active, Underway
<1>3. /\ DOMAIN host = HostParts /\ host.active = None /\ host.func = None /\ host.mode = None
      /\ host.slots = [key \in MeasureKeys |-> 0]
  BY <1>1 DEF HostInit, HostParts
<1>4. DOMAIN dev = DevParts /\ DOMAIN dev.reg = Settings(kind) /\ dev.sel = 1 /\ dev.slots = <<>>
  <2>1. dev.sel = 1 /\ dev.slots = <<>>
    BY <1>1 DEF DevInit
  <2> QED  BY <1>1, <2>1, DevInitIs
<1>5. Base
  <2>1. \A t \in Threads : CallIsWhole(t)
    BY <1>2, IdleIs, EmptyIs DEF CallIsWhole
  <2> QED  BY <1>2, <1>3, <1>4, <2>1 DEF Base
<1>6. Held
  BY <1>1, <1>2 DEF Held
<1>7. \A t \in Threads : Tells(t)
  BY <1>2 DEF Tells
<1>8. PsuInv
  BY <1>1, <1>2, <1>3, <1>4, <1>7 DEF PsuInv, SelectInv, Targets
<1>9. DmmInv
  BY <1>1, <1>2, <1>3, <1>7 DEF DmmInv, OneMeters, FunctionInv, Known, Measures
<1>10. LoadInv
  BY <1>1, <1>2, <1>3, <1>7, EmptyIs DEF LoadInv, Loaded
<1>11. LooksInv
  <2>1. <<>> \in Seq(SlotKinds)
    OBVIOUS
  <2>2. SlotsInv
    BY <1>3, <1>4, <2>1 DEF SlotsInv
  <2> QED  BY <1>2, <1>7, <2>2 DEF LooksInv, Looks
<1> QED  BY <1>5, <1>6, <1>8, <1>9, <1>10, <1>11 DEF Reports

\* One step of a call.
LEMMA StepReports ==
  ASSUME NEW t \in Threads, Inv, kind # "Aardvark", ~adrift, Reports, StepOf(t), ~adrift', kind' = kind
  PROVE  Reports'
<1>1. Base /\ Held
  BY DEF Reports
<1>2. Busy(t) /\ call[t].todo # <<>> /\ (Takes(t) \/ GivesUp(t))
  BY <1>1, StepTakes
<1>3. Base' /\ Held'
  BY <1>1, <1>2, StepBase, StepHeld
<1>4. CASE kind \in Psus
  <2>1. PsuInv'
    BY <1>1, <1>2, <1>4, PsuTakes, PsuGivesUp DEF Reports
  <2> QED  BY <1>3, <1>4, <2>1, KindIs DEF Reports
<1>5. CASE kind \in Dmms
  <2>1. DmmInv'
    BY <1>1, <1>2, <1>5, DmmTakes, DmmGivesUp DEF Reports
  <2> QED  BY <1>3, <1>5, <2>1, KindIs DEF Reports
<1>6. CASE kind \in Loads
  <2>1. LoadInv'
    BY <1>1, <1>2, <1>6, LoadStep DEF Reports
  <2> QED  BY <1>3, <1>6, <2>1, KindIs DEF Reports
<1>7. CASE kind \in Scopes
  <2>1. ScopeInv
    BY <1>7 DEF Inv
  <2>2. LooksInv'
    BY <1>1, <1>2, <1>7, <2>1, ScopeTakes, ScopeGivesUp DEF Reports
  <2> QED  BY <1>3, <1>7, <2>2, KindIs DEF Reports
<1> QED  BY <1>4, <1>5, <1>6, <1>7, KindIs

LEMMA EnterReports ==
  ASSUME NEW t \in Threads, Inv, kind # "Aardvark", Reports, Enter(t), ~adrift', kind' = kind
  PROVE  Reports'
<1>1. Base /\ Held
  BY DEF Reports
<1>2. Held'
  <2>1. PICK c \in Calls(t) : /\ Begins(t, c) /\ ~Underway(t) /\ (Locks(kind, c) => owner = None)
                              /\ owner' = IF Locks(kind, c) THEN t ELSE owner
    BY <1>1, EnterBegins
  <2> QED  BY <1>1, <2>1, EnterHeld
<1>3. CASE kind \in Psus
  BY <1>1, <1>2, <1>3, PsuEnter, KindIs DEF Reports
<1>4. CASE kind \in Dmms
  BY <1>1, <1>2, <1>4, DmmEnter, KindIs DEF Reports
<1>5. CASE kind \in Loads
  BY <1>1, <1>2, <1>5, LoadEnter, KindIs DEF Reports
<1>6. CASE kind \in Scopes
  BY <1>1, <1>2, <1>6, ScopeEnter, KindIs DEF Reports
<1> QED  BY <1>3, <1>4, <1>5, <1>6, KindIs

\* The lock is released and what comes after it is done.
LEMMA LeaveReports ==
  ASSUME NEW t \in Threads, Inv, kind # "Aardvark", Reports, Finish(t) \/ Post(t), kind' = kind
  PROVE  Reports'
<1>1. Base /\ Held
  BY DEF Reports
<1>2. Base' /\ Held'
  BY <1>1, FinishBase, FinishHeld, PostBase, PostHeld
<1>3. CASE kind \in Psus
  BY <1>1, <1>2, <1>3, PsuFinish, PsuPost, KindIs DEF Reports
<1>4. CASE kind \in Dmms
  BY <1>1, <1>2, <1>4, DmmFinish, DmmPosts, KindIs DEF Reports
<1>5. CASE kind \in Loads
  BY <1>1, <1>2, <1>5, LoadRest, KindIs DEF Reports
<1>6. CASE kind \in Scopes
  BY <1>1, <1>2, <1>6, ScopeRest, KindIs DEF Reports
<1> QED  BY <1>3, <1>4, <1>5, <1>6, KindIs

LEMMA PrepareReports ==
  ASSUME NEW t \in Threads, Inv, kind # "Aardvark", Reports, Prepare(t), kind' = kind
  PROVE  Reports'
<1>1. Base /\ Held
  BY DEF Reports
<1>2. Base' /\ Held'
  BY <1>1, PrepareBase, PrepareHeld
<1>3. PICK c \in Calls(t) : c.op = "mode"
  BY <1>1, PrepareIs
<1>4. c \in Issued(kind)
  BY CallsAreIssued
<1>5. kind \in Loads
  BY <1>3, <1>4, PsuCalls, DmmCalls, ScopeCalls, KindIs
<1>6. LoadInv'
  BY <1>1, <1>5, LoadRest DEF Reports
<1> QED  BY <1>2, <1>5, <1>6, KindIs DEF Reports

LEMMA TriggerReports ==
  ASSUME Inv, kind # "Aardvark", Reports, Trigger, kind' = kind
  PROVE  Reports'
<1>1. Base /\ Held /\ kind \in Scopes
  BY DEF Reports, Trigger
<1>2. Base' /\ Held' /\ LooksInv'
  BY <1>1, TriggerBase, TriggerHeld, ScopeTrigger DEF Reports
<1> QED  BY <1>1, <1>2, KindIs DEF Reports

LEMMA ReadsHold == Inv /\ ReadInv /\ [Next]_vars => ReadInv'
<1> SUFFICES ASSUME Inv, ReadInv, [Next]_vars, ~adrift', kind' # "Aardvark"  PROVE Reports'
  BY DEF ReadInv
<1>1. CASE UNCHANGED vars
  <2>1. Reports
    BY <1>1 DEF ReadInv, vars
  <2>2. Base' /\ Held' /\ \A t \in Threads : (Tells(t)' <=> Tells(t)) /\ (Looks(t)' <=> Looks(t))
    BY <1>1, <2>1 DEF Reports, Base, CallIsWhole, Held, Busy, Underway, Tells, Question, PublishedAs, Looks, vars
  <2>3. PsuInv' <=> PsuInv
    BY <1>1, <2>2 DEF PsuInv, SelectInv, Targets, Remembering, Busy, vars, visaVars
  <2>4. DmmInv' <=> DmmInv
    BY <1>1, <2>2 DEF DmmInv, OneMeters, FunctionInv, Known, Switching, SwitchesOver, Measures, Active, Underway,
                      vars, visaVars
  <2>5. (LoadInv' <=> LoadInv) /\ (LooksInv' <=> LooksInv)
    BY <1>1, <2>2 DEF LoadInv, LooksInv, SlotsInv, vars, visaVars
  <2> QED  BY <1>1, <2>1, <2>2, <2>3, <2>4, <2>5 DEF Reports, vars
<1>2. CASE Next
  <2>1. kind' = kind /\ ~adrift
    BY <1>2, KindStays, NothingAfterDrift
  <2>2. Reports /\ kind # "Aardvark"
    BY <2>1 DEF ReadInv
  <2> QED  BY <1>2, <2>1, <2>2, StepReports, EnterReports, LeaveReports, PrepareReports, TriggerReports DEF Next
<1> QED  BY <1>1, <1>2

LEMMA ReadsAreRight == Inv /\ ReadInv => ReadingsAreWhatTheySay
<1> SUFFICES ASSUME Inv, ReadInv, ~adrift, kind # "Aardvark", NEW t \in Threads,
                    call[t].phase = "post", call[t].c.op \in Publishing
             PROVE  PublishedAs(t) = call[t].got
  BY DEF ReadingsAreWhatTheySay, Publishing
<1>1. Base /\ Tells(t)
  BY KindIs DEF ReadInv, Reports, PsuInv, DmmInv, LoadInv, LooksInv
<1> QED  BY <1>1, TellsRight

\* What a supply, a multimeter, a load or an oscilloscope publishes under the
\* name of a channel, a function, a measurement or a waveform is the answer
\* about that one: whatever the threads, whichever command is refused and
\* whichever call raises, the channel the BK914X remembers to have selected,
\* the function the object of a 2400 remembers, the waveform source a fetch
\* sets and the slots a Tektronix scope keeps for its measurements are what
\* the queries take them for.
THEOREM ReadingsAreRight == Spec => []ReadingsAreWhatTheySay
<1>1. Init => Inv /\ ReadInv
  BY InitHolds, ReadsInit
<1>2. Inv /\ ReadInv /\ [Next]_vars => Inv' /\ ReadInv'
  BY NextHolds, ReadsHold
<1> QED  BY <1>1, <1>2, ReadsAreRight, PTL DEF Spec
=============================================================================
