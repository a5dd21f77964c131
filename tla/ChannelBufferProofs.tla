------------------------ MODULE ChannelBufferProofs ------------------------
(***************************************************************************)
(* The ring of ChannelBuffer implements SampleWindow, for any number of    *)
(* channels and readers and a ring of any length.  A run of consecutive    *)
(* samples is all a ring ever holds: Holds(ring, hi) says that its size    *)
(* slots before index, going back around the wrap, are hi, hi - 1, ...     *)
(* Extend keeps it, GetLatest reads it off, and the window of the          *)
(* abstract buffer is the same run.                                        *)
(***************************************************************************)
EXTENDS ChannelBuffer, SequenceTheorems, TLAPS

\* The n samples that end with sample hi.
Run(hi, n) == [i \in 1..n |-> hi - n + i]

\* The slot that lies j places before index.
Back(ring, j) == IF j <= ring.index THEN ring.index - j ELSE ring.index + MaxLen - j

Holds(ring, hi) ==
  /\ ring \in Ring
  /\ ring.size <= hi
  /\ \A j \in 1..ring.size : ring.slot[Back(ring, j)] = hi + 1 - j

USE MaxLenAssumption, LengthsAssumption, BoundsAssumption

----------------------------------------------------------------------------
(* The operators of the ring *)

LEMMA ModWrap ==
  ASSUME NEW a \in 0..MaxLen + MaxLen - 1
  PROVE  a % MaxLen = IF a < MaxLen THEN a ELSE a - MaxLen
<1>1. CASE a < MaxLen
  BY <1>1
<1>2. CASE a >= MaxLen
  BY <1>2
<1> QED  BY <1>1, <1>2

LEMMA RunIsSeq ==
  ASSUME NEW hi \in Nat, NEW n \in 0..hi
  PROVE  /\ Run(hi, n) \in Seq(Nat)
         /\ Len(Run(hi, n)) = n
         /\ DOMAIN Run(hi, n) = 1..n
         /\ \A i \in 1..n : Run(hi, n)[i] = hi - n + i
<1>1. \A i \in 1..n : hi - n + i \in Nat
  OBVIOUS
<1> QED  BY <1>1 DEF Run

\* Two runs that follow each other are one.
LEMMA RunThenRun ==
  ASSUME NEW hi \in Nat, NEW m \in 0..hi, NEW n \in Nat
  PROVE  Run(hi, m) \o Run(hi + n, n) = Run(hi + n, m + n)
<1> DEFINE s == Run(hi, m)
           t == Run(hi + n, n)
           u == Run(hi + n, m + n)
<1>1. hi + n \in Nat /\ n \in 0..hi + n /\ m + n \in 0..hi + n
  OBVIOUS
<1>2. s \in Seq(Nat) /\ Len(s) = m /\ \A i \in 1..m : s[i] = hi - m + i
  BY RunIsSeq
<1>3. t \in Seq(Nat) /\ Len(t) = n /\ \A i \in 1..n : t[i] = hi + n - n + i
  BY <1>1, RunIsSeq
<1>4. u \in Seq(Nat) /\ Len(u) = m + n /\ \A i \in 1..m + n : u[i] = hi + n - (m + n) + i
  BY <1>1, RunIsSeq
<1> HIDE DEF s, t, u
<1>5. /\ s \o t \in Seq(Nat) /\ Len(s \o t) = m + n
      /\ \A i \in 1..m + n : (s \o t)[i] = IF i <= m THEN s[i] ELSE t[i - m]
  <2>1. s \in Seq(Nat) /\ t \in Seq(Nat)
    BY <1>2, <1>3
  <2>2. /\ s \o t \in Seq(Nat) /\ Len(s \o t) = Len(s) + Len(t)
        /\ \A i \in 1..Len(s) + Len(t) : (s \o t)[i] = IF i <= Len(s) THEN s[i] ELSE t[i - Len(s)]
    BY <2>1, ConcatProperties, Zenon
  <2> QED  BY <1>2, <1>3, <2>2
<1>6. ASSUME NEW i \in 1..m + n  PROVE (s \o t)[i] = u[i]
  <2>1. u[i] = hi - m + i
    BY <1>4
  <2>2. CASE i <= m
    BY <1>2, <1>5, <2>1, <2>2
  <2>3. CASE ~(i <= m)
    <3>1. i - m \in 1..n /\ t[i - m] = hi + n - n + (i - m)
      BY <1>3, <2>3
    <3> QED  BY <1>5, <2>1, <2>3, <3>1
  <2> QED  BY <2>2, <2>3
<1>7. s \o t = u
  BY <1>4, <1>5, <1>6, SeqEqual
<1> QED  BY <1>7 DEF s, t, u

\* What a read of the ring returns: the newest samples, in order.
LEMMA LatestOfRing ==
  ASSUME NEW ring, NEW hi \in Nat, Holds(ring, hi), NEW length \in Nat
  PROVE  GetLatest(ring, length) = Run(hi, Least(length, ring.size))
<1> DEFINE n == Least(length, ring.size)
           start == (ring.index + MaxLen - n) % MaxLen
<1>1. /\ ring.index \in 0..MaxLen - 1 /\ ring.size \in 0..MaxLen
      /\ n \in 0..ring.size /\ n \in 0..hi
      /\ hi - n \in Nat
  BY DEF Holds, Ring, Slots, Least
<1>2. \A j \in 1..n : ring.slot[Back(ring, j)] = hi + 1 - j
  BY <1>1 DEF Holds
<1>3. start = IF n <= ring.index /\ n # 0 THEN ring.index - n
              ELSE IF n = 0 THEN ring.index ELSE ring.index + MaxLen - n
  <2>1. ring.index + MaxLen - n \in 0..MaxLen + MaxLen - 1
    BY <1>1
  <2>2. ASSUME NEW a \in 0..MaxLen + MaxLen - 1, a = ring.index + MaxLen - n
        PROVE  a % MaxLen = IF a < MaxLen THEN a ELSE a - MaxLen
    BY ModWrap
  <2> QED  BY <1>1, <2>1, <2>2
<1> HIDE DEF n, start
<1>4. CASE n = 0
  BY <1>4 DEF GetLatest, Run, n
<1>5. CASE n # 0 /\ start < ring.index
  <2>1. start = ring.index - n
    BY <1>1, <1>3, <1>5
  <2>2. GetLatest(ring, length) = [i \in 1..n |-> ring.slot[start + i - 1]]
    BY <1>5 DEF GetLatest, n, start
  <2>3. ASSUME NEW i \in 1..n  PROVE ring.slot[start + i - 1] = hi - n + i
    <3>1. n + 1 - i \in 1..n /\ n + 1 - i <= ring.index
      BY <1>1, <1>3, <1>5
    <3>2. ring.slot[Back(ring, n + 1 - i)] = hi + 1 - (n + 1 - i)
      BY <1>2, <3>1
    <3>3. Back(ring, n + 1 - i) = start + i - 1
      BY <1>1, <2>1, <3>1 DEF Back
    <3>4. hi + 1 - (n + 1 - i) = hi - n + i
      BY <1>1
    <3> QED  BY <3>2, <3>3, <3>4
  <2> QED  BY <2>2, <2>3 DEF Run, n
<1>6. CASE n # 0 /\ ~(start < ring.index)
  <2>1. start = ring.index + MaxLen - n /\ n > ring.index /\ MaxLen - start = n - ring.index
    BY <1>1, <1>3, <1>6
  <2> DEFINE old == [i \in 1..MaxLen - start |-> ring.slot[start + i - 1]]
             new == [i \in 1..ring.index |-> ring.slot[i - 1]]
  <2>2. GetLatest(ring, length) = old \o new
    BY <1>6 DEF GetLatest, n, start
  <2>3. ASSUME NEW i \in 1..MaxLen - start  PROVE ring.slot[start + i - 1] = hi - n + i
    <3>1. n + 1 - i \in 1..n /\ n + 1 - i > ring.index
      BY <1>1, <2>1
    <3>2. ring.slot[Back(ring, n + 1 - i)] = hi + 1 - (n + 1 - i)
      BY <1>2, <3>1
    <3>3. Back(ring, n + 1 - i) = start + i - 1
      BY <1>1, <2>1, <3>1 DEF Back
    <3>4. hi + 1 - (n + 1 - i) = hi - n + i
      BY <1>1
    <3> QED  BY <3>2, <3>3, <3>4
  <2>4. ASSUME NEW i \in 1..ring.index  PROVE ring.slot[i - 1] = hi - ring.index + i
    <3>1. ring.index + 1 - i \in 1..n /\ ring.index + 1 - i <= ring.index
      BY <1>1, <2>1
    <3>2. ring.slot[Back(ring, ring.index + 1 - i)] = hi + 1 - (ring.index + 1 - i)
      BY <1>2, <3>1
    <3>3. Back(ring, ring.index + 1 - i) = i - 1
      BY <1>1, <3>1 DEF Back
    <3>4. hi + 1 - (ring.index + 1 - i) = hi - ring.index + i
      BY <1>1
    <3> QED  BY <3>2, <3>3, <3>4
  <2>5. old = Run(hi - ring.index, n - ring.index)
    <3>1. \A i \in 1..n - ring.index : hi - ring.index - (n - ring.index) + i = hi - n + i
      BY <1>1, <2>1
    <3> QED  BY <2>1, <2>3, <3>1 DEF Run
  <2>6. new = Run(hi, ring.index)
    BY <2>4 DEF Run
  <2>7. old \o new = Run(hi, n)
    <3>1. hi - ring.index \in Nat /\ n - ring.index \in 0..hi - ring.index
          /\ ring.index \in Nat /\ hi - ring.index + ring.index = hi
          /\ n - ring.index + ring.index = n
      BY <1>1, <2>1
    <3>2. Run(hi - ring.index, n - ring.index) \o Run(hi - ring.index + ring.index, ring.index)
            = Run(hi - ring.index + ring.index, n - ring.index + ring.index)
      BY <3>1, RunThenRun
    <3> HIDE DEF old, new
    <3> QED  BY <2>5, <2>6, <3>1, <3>2
  <2> QED  BY <2>2, <2>7 DEF n
<1> QED  BY <1>4, <1>5, <1>6

\* What publish() makes of a batch of new samples is the run that follows.
LEMMA FreshIsRun ==
  ASSUME NEW hi \in Nat, NEW n \in Nat
  PROVE  [i \in 1..n |-> hi + i] = Run(hi + n, n)
<1>1. \A i \in 1..n : hi + i = hi + n - n + i
  OBVIOUS
<1> QED  BY <1>1 DEF Run

\* A batch that fits, wraps or overruns the ring leaves the newest samples in it.
LEMMA ExtendHolds ==
  ASSUME NEW ring, NEW hi \in Nat, Holds(ring, hi), NEW n \in Nat
  PROVE  /\ Holds(Extend(ring, Run(hi + n, n)), hi + n)
         /\ Extend(ring, Run(hi + n, n)).size = Least(ring.size + n, MaxLen)
<1> DEFINE xs == Run(hi + n, n)
           end == ring.index + n
           first == MaxLen - ring.index
           new == Extend(ring, xs)
<1>1. /\ ring \in Ring
      /\ ring.index \in 0..MaxLen - 1 /\ ring.size \in 0..MaxLen /\ ring.size <= hi
      /\ ring.slot \in [Slots -> Nat]
      /\ \A j \in 1..ring.size : ring.slot[Back(ring, j)] = hi + 1 - j
  BY DEF Holds, Ring, Slots
<1>2. Len(xs) = n /\ \A i \in 1..n : xs[i] = hi + i /\ xs[i] \in Nat
  <2>1. hi + n \in Nat /\ n \in 0..hi + n
    OBVIOUS
  <2>2. Len(xs) = n /\ \A i \in 1..n : xs[i] = hi + n - n + i
    BY <2>1, RunIsSeq
  <2> QED  BY <2>2
<1> HIDE DEF xs
<1>3. CASE n = 0
  <2>1. new = ring
    BY <1>2, <1>3 DEF Extend
  <2> QED  BY <1>1, <1>3, <2>1 DEF Holds, Least, xs, new
<1>4. CASE n >= MaxLen
  <2>1. new = [slot |-> [i \in Slots |-> xs[n - MaxLen + 1 + i]], index |-> 0, size |-> MaxLen]
    BY <1>2, <1>4 DEF Extend
  <2>2. \A i \in Slots : /\ n - MaxLen + 1 + i \in 1..n
                         /\ xs[n - MaxLen + 1 + i] = hi + (n - MaxLen + 1 + i)
    BY <1>2, <1>4 DEF Slots
  <2>3. new \in Ring
    <3>1. [i \in Slots |-> xs[n - MaxLen + 1 + i]] \in [Slots -> Nat]
      BY <1>2, <2>2
    <3>2. 0 \in Slots /\ MaxLen \in 0..MaxLen
      BY DEF Slots
    <3> QED  BY <2>1, <3>1, <3>2 DEF Ring
  <2>4. ASSUME NEW j \in 1..MaxLen  PROVE new.slot[Back(new, j)] = hi + n + 1 - j
    <3>1. Back(new, j) = MaxLen - j /\ MaxLen - j \in Slots
      BY <2>1 DEF Back, Slots
    <3> QED  BY <1>4, <2>1, <2>2, <3>1
  <2> HIDE DEF new
  <2>5. new.size = MaxLen /\ Least(ring.size + n, MaxLen) = MaxLen /\ MaxLen <= hi + n
    BY <1>1, <1>4, <2>1 DEF Least
  <2> QED  BY <2>3, <2>4, <2>5 DEF Holds, xs, new
<1>5. CASE n # 0 /\ n < MaxLen
  <2> DEFINE slot == [i \in Slots |->
                        IF i \in ring.index..end - 1 THEN xs[i - ring.index + 1]
                        ELSE IF i < n - first THEN xs[first + 1 + i]
                        ELSE ring.slot[i]]
             index == end % MaxLen
             size == Least(ring.size + n, MaxLen)
  <2>1. new = [slot |-> slot, index |-> index, size |-> size]
    BY <1>2, <1>5 DEF Extend
  <2>2. end \in 0..MaxLen + MaxLen - 1 /\ n - first = end - MaxLen
    BY <1>1, <1>5
  <2>3. index = IF end < MaxLen THEN end ELSE end - MaxLen
    <3>1. ASSUME NEW a \in 0..MaxLen + MaxLen - 1, a = end
          PROVE  a % MaxLen = IF a < MaxLen THEN a ELSE a - MaxLen
      BY ModWrap
    <3> QED  BY <2>2, <3>1
  <2>4. index \in Slots
    BY <1>1, <2>2, <2>3 DEF Slots
  <2>5. size \in 0..MaxLen /\ size <= ring.size + n /\ size <= hi + n
    BY <1>1 DEF Least
  <2>6. slot \in [Slots -> Nat]
    <3> SUFFICES ASSUME NEW i \in Slots  PROVE slot[i] \in Nat
      OBVIOUS
    <3>1. CASE i \in ring.index..end - 1
      <4>1. i - ring.index + 1 \in 1..n
        BY <1>1, <3>1
      <4> QED  BY <1>2, <3>1, <4>1
    <3>2. CASE i \notin ring.index..end - 1 /\ i < n - first
      <4>1. first + 1 + i \in 1..n
        <5>1. i \in Nat /\ first \in Nat \ {0}
          BY <1>1 DEF Slots
        <5>2. i < n - first
          BY <3>2
        <5> HIDE DEF first
        <5> QED  BY <5>1, <5>2
      <4> QED  BY <1>2, <3>2, <4>1
    <3>3. CASE i \notin ring.index..end - 1 /\ ~(i < n - first)
      BY <1>1, <3>3
    <3> QED  BY <3>1, <3>2, <3>3
  <2>7. new \in Ring
    BY <2>1, <2>4, <2>5, <2>6 DEF Ring
  <2>8. new.slot = slot /\ new.index = index /\ new.size = size
    BY <2>1
  <2> HIDE DEF new, index, size
  <2>9. ASSUME NEW j \in 1..size  PROVE slot[Back(new, j)] = hi + n + 1 - j
    <3> DEFINE b == Back(new, j)
    <3>1. b = IF j <= index THEN index - j ELSE index + MaxLen - j
      BY <2>8 DEF Back
    <3> HIDE DEF b
    <3> SUFFICES slot[b] = hi + n + 1 - j
      BY DEF b
    <3>2. b \in Slots
      <4>1. index \in 0..MaxLen - 1 /\ j \in 1..MaxLen
        BY <2>4, <2>5 DEF Slots
      <4>2. CASE j <= index
        BY <3>1, <4>1, <4>2 DEF Slots
      <4>3. CASE ~(j <= index)
        BY <3>1, <4>1, <4>3 DEF Slots
      <4> QED  BY <4>2, <4>3
    <3>3. CASE j <= n /\ b \in ring.index..end - 1
      <4>1. b - ring.index + 1 = n + 1 - j
        BY <1>1, <1>5, <2>2, <2>3, <3>1, <3>3
      <4>2. n + 1 - j \in 1..n
        BY <3>3
      <4> QED  BY <1>2, <3>2, <3>3, <4>1, <4>2
    <3>4. CASE j <= n /\ b \notin ring.index..end - 1
      <4>1. b < n - first /\ first + 1 + b = n + 1 - j
        BY <1>1, <1>5, <2>2, <2>3, <3>1, <3>4
      <4>2. n + 1 - j \in 1..n
        BY <3>4
      <4> QED  BY <1>2, <3>2, <3>4, <4>1, <4>2
    <3>5. CASE j > n
      <4>1. j - n \in 1..ring.size
        BY <1>1, <2>5, <3>5
      <4>2. b \notin ring.index..end - 1 /\ ~(b < n - first)
        BY <1>1, <1>5, <2>2, <2>3, <2>5, <3>1, <3>5
      <4>3. b = Back(ring, j - n)
        BY <1>1, <1>5, <2>2, <2>3, <2>5, <3>1, <3>5 DEF Back
      <4>4. ring.slot[Back(ring, j - n)] = hi + 1 - (j - n)
        BY <1>1, <4>1
      <4> QED  BY <3>2, <4>2, <4>3, <4>4
    <3> QED  BY <3>3, <3>4, <3>5
  <2> QED  BY <2>5, <2>7, <2>8, <2>9 DEF Holds, size, xs, new
<1> QED  BY <1>3, <1>4, <1>5

\* The end of a run is a run.
LEMMA LatestOfRun ==
  ASSUME NEW hi \in Nat, NEW m \in 0..hi, NEW n \in 0..m
  PROVE  Window!Latest(Run(hi, m), n) = Run(hi, n)
<1> DEFINE s == Run(hi, m)
           t == Run(hi, n)
           u == SubSeq(s, m - n + 1, m)
<1>1. s \in Seq(Nat) /\ Len(s) = m /\ \A i \in 1..m : s[i] = hi - m + i /\ s[i] \in Nat
  <2>1. \A i \in 1..m : hi - m + i \in Nat
    OBVIOUS
  <2>2. s \in Seq(Nat) /\ Len(s) = m /\ \A i \in 1..m : s[i] = hi - m + i
    BY RunIsSeq
  <2> HIDE DEF s
  <2> QED  BY <2>1, <2>2
<1>2. t \in Seq(Nat) /\ Len(t) = n /\ \A i \in 1..n : t[i] = hi - n + i
  BY RunIsSeq
<1> HIDE DEF s, t
<1>3. u \in Seq(Nat) /\ Len(u) = n /\ \A i \in 1..n : u[i] = s[m - n + 1 + i - 1]
  <2>1. m - n + 1 \in Int /\ m \in Int /\ \A i \in (m - n + 1)..m : s[i] \in Nat
    BY <1>1
  <2>2. /\ u \in Seq(Nat)
        /\ Len(u) = IF m - n + 1 <= m THEN m - (m - n + 1) + 1 ELSE 0
        /\ \A i \in 1..m - (m - n + 1) + 1 : u[i] = s[m - n + 1 + i - 1]
    BY <2>1, SubSeqProperties
  <2> QED  BY <2>2
<1> HIDE DEF u
<1>4. \A i \in 1..n : u[i] = t[i]
  BY <1>1, <1>2, <1>3
<1>5. u = t
  BY <1>2, <1>3, <1>4, SeqEqual
<1> QED  BY <1>1, <1>5 DEF Window!Latest, s, t, u

\* The deque of the abstract buffer, extended by the same batch, is the same run.
LEMMA KeepRun ==
  ASSUME NEW hi \in Nat, NEW m \in 0..hi, NEW n \in Nat
  PROVE  Window!Keep(Run(hi, m), Run(hi + n, n)) = Run(hi + n, Least(m + n, MaxLen))
<1>1. Run(hi, m) \o Run(hi + n, n) = Run(hi + n, m + n)
  BY RunThenRun
<1>2. hi + n \in Nat /\ m + n \in 0..hi + n /\ Least(m + n, MaxLen) \in 0..m + n
  BY DEF Least
<1>3. Len(Run(hi + n, m + n)) = m + n
  BY <1>2, RunIsSeq
<1>4. Window!Latest(Run(hi + n, m + n), Least(m + n, MaxLen)) = Run(hi + n, Least(m + n, MaxLen))
  BY <1>2, LatestOfRun
<1>5. Window!Keep(Run(hi, m), Run(hi + n, n))
        = Window!Latest(Run(hi + n, m + n), Least(m + n, MaxLen))
  BY <1>1, <1>3 DEF Window!Keep, Window!Smaller, Least
<1> QED  BY <1>4, <1>5

----------------------------------------------------------------------------
(* The inductive invariant *)

Ended == {"data", "closed", "not_found", "value_timeout", "key_error"}

CountsOK ==
  /\ DOMAIN values \subseteq Channels
  /\ total \in [Channels -> Nat]
  /\ produced \in [Channels -> Nat]
  /\ closed \in BOOLEAN

\* Each ring holds the newest samples of its channel, as many as were counted since the
\* channel was last created; a channel that does not exist counts none.
RingInv ==
  \A c \in Channels :
    IF c \in DOMAIN values
    THEN Holds(values[c], produced[c]) /\ values[c].size = Least(total[c], MaxLen)
    ELSE total[c] = 0

Arguments == [ch : Channels \cup {NoReq.ch}, len : Lengths \cup {1}, since : Nat]

ReadersOK ==
  /\ pc \in [Readers -> {"idle", "appear", "count", "new", "exist", "fill"}]
  /\ parked \subseteq Readers
  /\ req \in [Readers -> Arguments]
  /\ target \in [Readers -> Nat]
  /\ out \in [Readers -> [kind : Kinds, samples : Seq(Nat)]]

\* A call under way is about a channel, has not returned anything yet, and what was
\* published of its channel since it was called is no less than what its count has grown
\* by since it began to wait.
CallInv ==
  \A r \in Readers : pc[r] # "idle" =>
    /\ req[r].ch \in Channels
    /\ out[r] = NoAnswer
    /\ req[r].since <= produced[req[r].ch]
    /\ pc[r] = "new" =>
         /\ target[r] >= req[r].len
         /\ req[r].since + req[r].len + total[req[r].ch] <= produced[req[r].ch] + target[r]

Inv == CountsOK /\ RingInv /\ ReadersOK /\ CallInv

LEMMA InitInv == Init => Inv
<1> SUFFICES ASSUME Init  PROVE Inv
  OBVIOUS
<1>1. CountsOK /\ RingInv
  BY DEF Init, CountsOK, RingInv
<1>2. ReadersOK
  <2>1. NoReq \in Arguments
    BY DEF NoReq, Arguments
  <2>2. NoAnswer \in [kind : Kinds, samples : Seq(Nat)]
    BY DEF NoAnswer, Kinds
  <2> QED  BY <2>1, <2>2 DEF Init, ReadersOK
<1>3. CallInv
  BY DEF Init, CallInv
<1> QED  BY <1>1, <1>2, <1>3 DEF Inv

\* A measurement of n samples makes each of its channels exist and extends its ring.
LEMMA PublishStores ==
  ASSUME Inv, NEW S \in SUBSET Channels, NEW n \in Nat, NEW c \in S
  PROVE  /\ Holds(Stored(c, Fresh(c, n)), produced[c] + n)
         /\ Stored(c, Fresh(c, n)).size = Least(total[c] + n, MaxLen)
<1> DEFINE old == IF c \in DOMAIN values THEN values[c] ELSE NewRing
<1>1. c \in Channels /\ produced[c] \in Nat /\ total[c] \in Nat
  BY DEF Inv, CountsOK
<1>2. Fresh(c, n) = Run(produced[c] + n, n)
  BY <1>1, FreshIsRun DEF Fresh
<1>3. Holds(NewRing, produced[c]) /\ NewRing.size = 0
  <2>1. NewRing \in Ring
    BY DEF NewRing, Ring, Slots
  <2> QED  BY <1>1, <2>1 DEF Holds, NewRing
<1>4. Holds(old, produced[c]) /\ old.size = Least(total[c], MaxLen)
  BY <1>1, <1>3 DEF Inv, RingInv, Least
<1>5. Stored(c, Fresh(c, n)) = Extend(old, Run(produced[c] + n, n))
  BY <1>2 DEF Stored
<1> HIDE DEF old
<1>6. /\ Holds(Extend(old, Run(produced[c] + n, n)), produced[c] + n)
      /\ Extend(old, Run(produced[c] + n, n)).size = Least(old.size + n, MaxLen)
  BY <1>1, <1>4, ExtendHolds
<1>7. Least(old.size + n, MaxLen) = Least(total[c] + n, MaxLen)
  BY <1>1, <1>4 DEF Least
<1> QED  BY <1>5, <1>6, <1>7

\* A read of a channel that exists returns the newest samples of it.
LEMMA ReadOfChannel ==
  ASSUME Inv, NEW c \in DOMAIN values, NEW length \in Nat
  PROVE  /\ GetLatest(values[c], length) = Run(produced[c], Least(length, Least(total[c], MaxLen)))
         /\ Least(length, Least(total[c], MaxLen)) \in 0..produced[c]
         /\ Least(total[c], MaxLen) \in 0..produced[c]
         /\ values[c].size = Least(total[c], MaxLen)
         /\ produced[c] \in Nat
<1>1. /\ produced[c] \in Nat /\ total[c] \in Nat /\ Holds(values[c], produced[c])
      /\ values[c].size = Least(total[c], MaxLen)
  BY DEF Inv, CountsOK, RingInv
<1>2. values[c].size <= produced[c]
  BY <1>1 DEF Holds
<1> QED  BY <1>1, <1>2, LatestOfRing DEF Least

----------------------------------------------------------------------------
(* The steps keep it *)

\* The arguments of a call under way, and the counts of its channel.
LEMMA CallTypes ==
  ASSUME Inv, NEW r \in Readers, pc[r] # "idle"
  PROVE  /\ req[r].ch \in Channels /\ req[r].since \in Nat /\ req[r].len \in Nat \ {0}
         /\ target[r] \in Nat
         /\ total[req[r].ch] \in Nat /\ produced[req[r].ch] \in Nat
<1>1. req[r] \in Arguments /\ target[r] \in Nat
  BY DEF Inv, ReadersOK
<1>2. req[r].since \in Nat /\ req[r].len \in Lengths \cup {1}
  BY <1>1 DEF Arguments
<1>3. req[r].len \in Nat \ {0}
  <2>1. \A len \in Lengths : len \in Nat \ {0}
    BY LengthsAssumption
  <2>2. CASE req[r].len \in Lengths
    BY <2>1, <2>2
  <2>3. CASE req[r].len = 1
    BY <2>3
  <2> QED  BY <1>2, <2>2, <2>3
<1>4. req[r].ch \in Channels
  BY DEF Inv, CallInv
<1> QED  BY <1>1, <1>2, <1>3, <1>4 DEF Inv, CountsOK

LEMMA PublishInv ==
  ASSUME Inv, NEW S \in SUBSET Channels \ {{}}, NEW n \in 0..MaxBatch, Publish(S, n)
  PROVE  Inv'
<1>1. S \in SUBSET Channels /\ n \in Nat
  OBVIOUS
<1>2. CountsOK'
  BY <1>1 DEF Inv, CountsOK, Publish
<1>3. RingInv'
  <2> SUFFICES ASSUME NEW c \in Channels
               PROVE  IF c \in DOMAIN values'
                      THEN Holds(values'[c], produced'[c]) /\ values'[c].size = Least(total'[c], MaxLen)
                      ELSE total'[c] = 0
    BY DEF RingInv, Holds, Back, Least
  <2>1. CASE c \in S
    <3>1. /\ c \in DOMAIN values' /\ values'[c] = Stored(c, Fresh(c, n))
          /\ produced'[c] = produced[c] + n /\ total'[c] = total[c] + n
      BY <2>1 DEF Publish
    <3>2. /\ Holds(Stored(c, Fresh(c, n)), produced[c] + n)
          /\ Stored(c, Fresh(c, n)).size = Least(total[c] + n, MaxLen)
      BY <1>1, <2>1, PublishStores
    <3> QED  BY <3>1, <3>2
  <2>2. CASE c \notin S
    <3>1. /\ c \in DOMAIN values' <=> c \in DOMAIN values
          /\ c \in DOMAIN values => values'[c] = values[c]
          /\ produced'[c] = produced[c] /\ total'[c] = total[c]
      BY <2>2 DEF Publish
    <3> QED  BY <3>1 DEF Inv, RingInv
  <2> QED  BY <2>1, <2>2
<1>4. ReadersOK'
  BY DEF Inv, ReadersOK, Publish
<1>5. CallInv'
  <2> SUFFICES ASSUME NEW r \in Readers, pc[r] # "idle"
               PROVE  /\ req[r].ch \in Channels /\ out[r] = NoAnswer
                      /\ req[r].since <= produced'[req[r].ch]
                      /\ pc[r] = "new" =>
                           /\ target[r] >= req[r].len
                           /\ req[r].since + req[r].len + total'[req[r].ch]
                                <= produced'[req[r].ch] + target[r]
    BY DEF CallInv, Publish
  <2>1. /\ req[r].ch \in Channels /\ req[r].since \in Nat /\ target[r] \in Nat /\ req[r].len \in Nat
        /\ total[req[r].ch] \in Nat /\ produced[req[r].ch] \in Nat
    BY CallTypes
  <2>2. \/ produced'[req[r].ch] = produced[req[r].ch] /\ total'[req[r].ch] = total[req[r].ch]
        \/ produced'[req[r].ch] = produced[req[r].ch] + n /\ total'[req[r].ch] = total[req[r].ch] + n
    BY <2>1 DEF Publish
  <2>3. /\ req[r].ch \in Channels /\ out[r] = NoAnswer
        /\ req[r].since <= produced[req[r].ch]
        /\ pc[r] = "new" =>
             /\ target[r] >= req[r].len
             /\ req[r].since + req[r].len + total[req[r].ch] <= produced[req[r].ch] + target[r]
    BY DEF Inv, CallInv
  <2> QED  BY <1>1, <2>1, <2>2, <2>3
<1> QED  BY <1>2, <1>3, <1>4, <1>5 DEF Inv

LEMMA CloseInv ==
  ASSUME Inv, Close  PROVE  Inv'
<1>1. CountsOK' /\ RingInv'
  BY DEF Inv, CountsOK, RingInv, Close
<1>2. ReadersOK'
  BY DEF Inv, ReadersOK, Close
<1>3. CallInv'
  <2> SUFFICES ASSUME NEW r \in Readers, pc[r] # "idle"
               PROVE  /\ req[r].ch \in Channels /\ out[r] = NoAnswer
                      /\ req[r].since <= produced[req[r].ch]
                      /\ pc[r] = "new" =>
                           /\ target[r] >= req[r].len
                           /\ req[r].since + req[r].len + total'[req[r].ch]
                                <= produced[req[r].ch] + target[r]
    BY DEF CallInv, Close
  <2>1. /\ req[r].ch \in Channels /\ req[r].since \in Nat /\ target[r] \in Nat /\ req[r].len \in Nat
        /\ total[req[r].ch] \in Nat /\ produced[req[r].ch] \in Nat
    BY CallTypes
  <2>2. total'[req[r].ch] = 0
    BY <2>1 DEF Close
  <2> QED  BY <2>1, <2>2 DEF Inv, CallInv
<1> QED  BY <1>1, <1>2, <1>3 DEF Inv

LEMMA GetCallInv ==
  ASSUME Inv, NEW r \in Readers, NEW c \in Channels, NEW len \in Lengths, NEW wait \in BOOLEAN,
         GetCall(r, c, len, wait)
  PROVE  Inv'
<1>1. CountsOK' /\ RingInv'
  BY DEF Inv, CountsOK, RingInv, Holds, Back, Least, GetCall, bufferVars
<1>2. produced[c] \in Nat
  BY DEF Inv, CountsOK
<1>3. ReadersOK'
  <2>1. [ch |-> c, len |-> len, since |-> produced[c]] \in Arguments
    BY <1>2 DEF Arguments
  <2>2. NoAnswer \in [kind : Kinds, samples : Seq(Nat)]
    BY DEF NoAnswer, Kinds
  <2> QED  BY <2>1, <2>2 DEF Inv, ReadersOK, GetCall
<1>4. CallInv'
  <2> SUFFICES ASSUME NEW q \in Readers, pc'[q] # "idle"
               PROVE  /\ req'[q].ch \in Channels /\ out'[q] = NoAnswer
                      /\ req'[q].since <= produced[req'[q].ch]
                      /\ pc'[q] = "new" =>
                           /\ target[q] >= req'[q].len
                           /\ req'[q].since + req'[q].len + total[req'[q].ch]
                                <= produced[req'[q].ch] + target[q]
    BY DEF CallInv, GetCall, bufferVars
  <2>1. CASE q = r
    <3>1. /\ req'[q] = [ch |-> c, len |-> len, since |-> produced[c]]
          /\ out'[q] = NoAnswer /\ pc'[q] # "new"
      BY <2>1 DEF Inv, ReadersOK, GetCall
    <3> QED  BY <1>2, <3>1
  <2>2. CASE q # r
    BY <2>2 DEF Inv, ReadersOK, CallInv, GetCall
  <2> QED  BY <2>1, <2>2
<1> QED  BY <1>1, <1>3, <1>4 DEF Inv

\* How a test ends: the call returns data of a channel that exists, or raises, or the
\* reader goes on to wait; only a wait that reaches its target returns new samples.
ReturnsData(r) ==
  /\ req[r].ch \in DOMAIN values
  /\ pc[r] \notin {"appear", "count"}
  /\ pc[r] = "new" => total[req[r].ch] >= target[r]
  /\ Answer(r)

Raises(r) == \E kind \in Ended \ {"data"} : Raise(r, kind)

GoesOn(r) == \E at \in {"appear", "count", "exist", "fill"} : Park(r, at) \/ Goto(r, at)

Waits(r) ==
  /\ \/ pc[r] = "count" /\ target' = [target EXCEPT ![r] = TargetCount(r)]
     \/ pc[r] = "new" /\ target' = [target EXCEPT ![r] = target[r]]
  /\ pc' = [pc EXCEPT ![r] = "new"]
  /\ parked' = parked \cup {r}
  /\ UNCHANGED <<req, out>>

LEMMA TestEnds ==
  ASSUME Inv, NEW r \in Readers, NEW expired \in BOOLEAN, Test(r, expired)
  PROVE  /\ pc[r] # "idle"
         /\ UNCHANGED bufferVars
         /\ ReturnsData(r) \/ Raises(r) \/ GoesOn(r) \/ Waits(r)
<1>1. pc[r] # "idle" /\ UNCHANGED bufferVars
  BY DEF Test
<1>2. /\ req[r].ch \in Channels /\ total[req[r].ch] \in Nat /\ target[r] \in Nat
      /\ req[r].len \in Nat \ {0}
      /\ req[r].ch \notin DOMAIN values => total[req[r].ch] = 0
  BY <1>1, CallTypes DEF Inv, RingInv
<1> SUFFICES ReturnsData(r) \/ Raises(r) \/ GoesOn(r) \/ Waits(r)
  BY <1>1
<1>3. CASE pc[r] = "appear"
  BY <1>3 DEF Test, AppearWait, Raises, GoesOn, Ended
<1>4. CASE pc[r] = "count"
  <2>1. NewWait(r, expired, TargetCount(r))
    BY <1>4 DEF Test
  <2>2. ~(total[req[r].ch] >= TargetCount(r))
    BY <1>2 DEF TargetCount
  <2> QED  BY <1>4, <2>1, <2>2 DEF NewWait, Raises, Waits, Ended
<1>5. CASE pc[r] = "new"
  <2>1. NewWait(r, expired, target[r])
    BY <1>5 DEF Test
  <2>2. CASE total[req[r].ch] >= target[r]
    <3>1. target[r] >= req[r].len
      BY <1>5 DEF Inv, CallInv
    <3>2. req[r].ch \in DOMAIN values
      BY <1>2, <2>2, <3>1
    <3>3. Answer(r)
      BY <2>1, <2>2 DEF NewWait
    <3> QED  BY <1>1, <1>5, <2>2, <3>2, <3>3 DEF ReturnsData
  <2>3. CASE ~(total[req[r].ch] >= target[r])
    BY <1>1, <1>5, <2>1, <2>3 DEF NewWait, Raises, Waits, Ended
  <2> QED  BY <2>2, <2>3
<1>6. CASE pc[r] = "exist"
  <2>1. ExistWait(r, expired)
    BY <1>6 DEF Test
  <2>2. CASE closed \/ (expired /\ req[r].ch \notin DOMAIN values)
    BY <2>1, <2>2 DEF ExistWait, Raises, Ended
  <2>3. CASE ~closed /\ req[r].ch \in DOMAIN values
    BY <1>6, <2>1, <2>3 DEF ExistWait, FillWait, ReturnsData, Raises, GoesOn, Ended
  <2>4. CASE ~closed /\ ~expired /\ req[r].ch \notin DOMAIN values
    BY <2>1, <2>4 DEF ExistWait, GoesOn
  <2> QED  BY <2>2, <2>3, <2>4
<1>7. CASE pc[r] = "fill"
  <2>1. FillWait(r, expired)
    BY <1>7 DEF Test
  <2> QED  BY <1>7, <2>1 DEF FillWait, ReturnsData, Raises, GoesOn, Ended
<1> QED  BY <1>1, <1>3, <1>4, <1>5, <1>6, <1>7 DEF Test

\* What a reader returns is a run of samples that ends with the newest one.
LEMMA AnswerIsRun ==
  ASSUME Inv, NEW r \in Readers, pc[r] # "idle", ReturnsData(r)
  PROVE  LET c == req[r].ch
             n == Least(req[r].len, Least(total[c], MaxLen))
         IN  /\ out' = [out EXCEPT ![r] = [kind |-> "data", samples |-> Run(produced[c], n)]]
             /\ n \in 0..produced[c]
             /\ Run(produced[c], n) \in Seq(Nat)
<1> DEFINE c == req[r].ch
           n == Least(req[r].len, Least(total[c], MaxLen))
<1>1. c \in DOMAIN values /\ c \in Channels /\ req[r].len \in Nat /\ total[c] \in Nat
  BY CallTypes DEF ReturnsData
<1>2. /\ values[c].size = Least(total[c], MaxLen) /\ produced[c] \in Nat
      /\ n \in 0..produced[c] /\ n \in Nat
      /\ Least(total[c], MaxLen) \in Nat
  BY <1>1, ReadOfChannel
<1>3. GetLatest(values[c], n) = Run(produced[c], Least(n, Least(total[c], MaxLen)))
  BY <1>1, <1>2, ReadOfChannel
<1>4. Least(n, Least(total[c], MaxLen)) = n
  BY <1>1, <1>2 DEF Least
<1>5. out' = [out EXCEPT ![r] = [kind |-> "data", samples |-> GetLatest(values[c], n)]]
  BY <1>2 DEF ReturnsData, Answer, Return, PointsInBuffer
<1>6. Run(produced[c], n) \in Seq(Nat)
  BY <1>2, RunIsSeq
<1> QED  BY <1>2, <1>3, <1>4, <1>5, <1>6

LEMMA TestInv ==
  ASSUME Inv, NEW r \in Readers, NEW expired \in BOOLEAN, Test(r, expired)
  PROVE  Inv'
<1>1. pc[r] # "idle" /\ UNCHANGED bufferVars
  BY TestEnds
<1>2. CountsOK' /\ RingInv'
  BY <1>1 DEF Inv, CountsOK, RingInv, Holds, Back, Least, bufferVars
<1>3. CASE ReturnsData(r) \/ Raises(r)
  <2>1. PICK answer \in [kind : Kinds, samples : Seq(Nat)] :
          /\ out' = [out EXCEPT ![r] = answer]
          /\ pc' = [pc EXCEPT ![r] = "idle"]
          /\ parked' = parked \ {r}
          /\ target' = [target EXCEPT ![r] = 0]
          /\ UNCHANGED req
    <3>1. CASE ReturnsData(r)
      BY <1>1, <3>1, AnswerIsRun DEF ReturnsData, Answer, Return, Kinds
    <3>2. CASE Raises(r)
      <4>1. PICK kind \in Ended \ {"data"} : Raise(r, kind)
        BY <3>2 DEF Raises
      <4>2. [kind |-> kind, samples |-> <<>>] \in [kind : Kinds, samples : Seq(Nat)]
        BY DEF Ended, Kinds
      <4> QED  BY <4>1, <4>2 DEF Raise, Return
    <3> QED  BY <1>3, <3>1, <3>2
  <2>2. ReadersOK'
    BY <2>1 DEF Inv, ReadersOK
  <2>3. CallInv'
    BY <1>1, <2>1 DEF Inv, ReadersOK, CallInv, bufferVars
  <2> QED  BY <1>2, <2>2, <2>3 DEF Inv
<1>4. CASE GoesOn(r)
  <2>1. PICK at \in {"appear", "count", "exist", "fill"} :
          /\ pc' = [pc EXCEPT ![r] = at]
          /\ parked' \in {parked \cup {r}, parked \ {r}}
          /\ UNCHANGED <<req, target, out>>
    BY <1>4 DEF GoesOn, Park, Goto
  <2>2. ReadersOK'
    BY <2>1 DEF Inv, ReadersOK
  <2>3. CallInv'
    BY <1>1, <2>1 DEF Inv, ReadersOK, CallInv, bufferVars
  <2> QED  BY <1>2, <2>2, <2>3 DEF Inv
<1>5. CASE Waits(r)
  <2>1. /\ req[r].ch \in Channels /\ req[r].since \in Nat /\ target[r] \in Nat /\ req[r].len \in Nat
        /\ total[req[r].ch] \in Nat /\ produced[req[r].ch] \in Nat
        /\ req[r].since <= produced[req[r].ch]
    BY <1>1, CallTypes DEF Inv, CallInv
  <2>2. target' \in [Readers -> Nat]
    <3>1. target \in [Readers -> Nat] /\ TargetCount(r) \in Nat
      BY <2>1 DEF TargetCount, Inv, ReadersOK
    <3> QED  BY <1>5, <2>1, <3>1 DEF Waits
  <2>3. ReadersOK'
    BY <1>5, <2>2 DEF Waits, Inv, ReadersOK
  <2>4. /\ target'[r] >= req[r].len
        /\ req[r].since + req[r].len + total[req[r].ch] <= produced[req[r].ch] + target'[r]
    <3>1. CASE pc[r] = "count"
      <4>1. target'[r] = total[req[r].ch] + req[r].len
        BY <1>5, <3>1 DEF Waits, TargetCount, Inv, ReadersOK
      <4> QED  BY <2>1, <4>1
    <3>2. CASE pc[r] = "new"
      <4>1. target'[r] = target[r]
        BY <1>5, <3>2 DEF Waits, Inv, ReadersOK
      <4> QED  BY <3>2, <4>1 DEF Inv, CallInv
    <3> QED  BY <1>5, <3>1, <3>2 DEF Waits
  <2>5. CallInv'
    <3> SUFFICES ASSUME NEW q \in Readers, pc'[q] # "idle"
                 PROVE  /\ req[q].ch \in Channels /\ out[q] = NoAnswer
                        /\ req[q].since <= produced[req[q].ch]
                        /\ pc'[q] = "new" =>
                             /\ target'[q] >= req[q].len
                             /\ req[q].since + req[q].len + total[req[q].ch]
                                  <= produced[req[q].ch] + target'[q]
      BY <1>1, <1>5 DEF CallInv, Waits, bufferVars
    <3>1. CASE q = r
      BY <1>1, <2>1, <2>4, <3>1 DEF Inv, CallInv
    <3>2. CASE q # r
      <4>1. pc'[q] = pc[q] /\ target'[q] = target[q]
        BY <1>5, <3>2 DEF Waits, Inv, ReadersOK
      <4> QED  BY <4>1 DEF Inv, CallInv
    <3> QED  BY <3>1, <3>2
  <2> QED  BY <1>2, <2>3, <2>5 DEF Inv
<1> QED  BY <1>3, <1>4, <1>5, TestEnds

LEMMA InductiveInv == Inv /\ [Next]_vars => Inv'
<1> SUFFICES ASSUME Inv, [Next]_vars  PROVE Inv'
  OBVIOUS
<1>1. ASSUME NEW S \in SUBSET Channels \ {{}}, NEW n \in 0..MaxBatch, Publish(S, n)  PROVE Inv'
  BY <1>1, PublishInv
<1>2. ASSUME Close  PROVE Inv'
  BY <1>2, CloseInv
<1>3. ASSUME NEW r \in Readers, NEW c \in Channels, NEW len \in Lengths, NEW wait \in BOOLEAN,
             GetCall(r, c, len, wait)
      PROVE  Inv'
  BY <1>3, GetCallInv
<1>4. ASSUME NEW r \in Readers, Wake(r) \/ Expire(r)  PROVE Inv'
  BY <1>4, TestInv DEF Wake, Expire
<1>5. ASSUME UNCHANGED vars  PROVE Inv'
  BY <1>5 DEF vars, Inv, CountsOK, RingInv, ReadersOK, CallInv, Holds, Back, Least
<1> QED  BY <1>1, <1>2, <1>3, <1>4, <1>5 DEF Next

LEMMA InvHolds == Spec => []Inv
<1> QED  BY InitInv, InductiveInv, PTL DEF Spec

----------------------------------------------------------------------------
(* The theorems *)

\* Every variable has its type in every reachable state.
THEOREM TypeCorrect ==
  ASSUME Channels # {}
  PROVE  Spec => []TypeOK
<1>1. Inv => TypeOK
  <2> SUFFICES ASSUME Inv  PROVE TypeOK
    OBVIOUS
  <2>1. NoReq.ch \in Channels
    BY DEF NoReq
  <2>2. req \in [Readers -> [ch : Channels, len : Lengths \cup {1}, since : Nat]]
    BY <2>1 DEF Inv, ReadersOK, Arguments
  <2>3. \A c \in DOMAIN values : values[c] \in Ring
    BY DEF Inv, CountsOK, RingInv, Holds
  <2> QED  BY <2>2, <2>3 DEF TypeOK, Inv, CountsOK, ReadersOK
<1> QED  BY <1>1, InvHolds, PTL

\* A step of another reader leaves a call that waits for new samples without an answer.
LEMMA StillWaiting ==
  ASSUME Inv, NEW r \in Readers, pc[r] # "idle", out'[r] = out[r]
  PROVE  out'[r].kind # "data"
BY DEF Inv, CallInv, NoAnswer

LEMMA NewSamplesStep ==
  ASSUME Inv, [Next]_vars, NEW r \in Readers,
         pc[r] \in {"count", "new"}, out'[r].kind = "data", req[r].len <= MaxLen
  PROVE  /\ Len(out'[r].samples) = req[r].len
         /\ \A i \in DOMAIN out'[r].samples : out'[r].samples[i] > req[r].since
<1>1. pc[r] # "idle" /\ out'[r] # out[r]
  <2>1. pc[r] # "idle"
    OBVIOUS
  <2> QED  BY <2>1, StillWaiting
<1>2. /\ req[r].ch \in Channels /\ req[r].since \in Nat /\ req[r].len \in Nat
      /\ target[r] \in Nat /\ total[req[r].ch] \in Nat /\ produced[req[r].ch] \in Nat
  BY <1>1, CallTypes
<1>3. out \in [Readers -> [kind : Kinds, samples : Seq(Nat)]]
  BY DEF Inv, ReadersOK
<1>4. PICK q \in Readers : Wake(q) \/ Expire(q)
  <2>1. ASSUME NEW S \in SUBSET Channels \ {{}}, NEW n \in 0..MaxBatch, Publish(S, n)  PROVE FALSE
    BY <1>1, <2>1 DEF Publish
  <2>2. ASSUME Close  PROVE FALSE
    BY <1>1, <2>2 DEF Close
  <2>3. ASSUME NEW q \in Readers, NEW c \in Channels, NEW len \in Lengths, NEW wait \in BOOLEAN,
               GetCall(q, c, len, wait)
        PROVE  FALSE
    BY <1>1, <1>3, <2>3 DEF GetCall
  <2>4. ASSUME UNCHANGED vars  PROVE FALSE
    BY <1>1, <2>4 DEF vars
  <2> QED  BY <2>1, <2>2, <2>3, <2>4 DEF Next
<1>5. q = r /\ ReturnsData(r)
  <2>1. pc[q] # "idle" /\ (ReturnsData(q) \/ Raises(q) \/ GoesOn(q) \/ Waits(q))
    <3>1. PICK expired \in BOOLEAN : Test(q, expired)
      BY <1>4 DEF Wake, Expire
    <3> QED  BY <3>1, TestEnds
  <2>2. q = r
    BY <1>1, <1>3, <2>1 DEF ReturnsData, Answer, Raises, Raise, Return, GoesOn, Park, Goto, Waits
  <2>3. CASE Raises(q)
    <3>1. PICK kind \in Ended \ {"data"} : Raise(q, kind)
      BY <2>3 DEF Raises
    <3>2. out'[r].kind = kind
      BY <1>3, <2>2, <3>1 DEF Raise, Return
    <3> QED  BY <3>1, <3>2
  <2>4. ~GoesOn(q) /\ ~Waits(q)
    BY <1>1 DEF GoesOn, Park, Goto, Waits
  <2> QED  BY <2>1, <2>2, <2>3, <2>4
<1> DEFINE c == req[r].ch
           n == Least(req[r].len, Least(total[c], MaxLen))
<1>6. pc[r] = "new" /\ total[c] >= target[r]
  BY <1>5 DEF ReturnsData
<1>7. target[r] >= req[r].len /\ req[r].since + req[r].len + total[c] <= produced[c] + target[r]
  BY <1>6 DEF Inv, CallInv
<1>8. n = req[r].len
  BY <1>2, <1>6, <1>7 DEF Least
<1>9. /\ out' = [out EXCEPT ![r] = [kind |-> "data", samples |-> Run(produced[c], n)]]
      /\ n \in 0..produced[c]
  BY <1>1, <1>5, AnswerIsRun
<1>10. out'[r].samples = Run(produced[c], n)
  BY <1>3, <1>9
<1>11. /\ Len(Run(produced[c], n)) = n /\ DOMAIN Run(produced[c], n) = 1..n
       /\ \A i \in 1..n : Run(produced[c], n)[i] = produced[c] - n + i
  BY <1>2, <1>9, RunIsSeq
<1>12. \A i \in 1..n : produced[c] - n + i > req[r].since
  BY <1>2, <1>6, <1>7, <1>8
<1> QED  BY <1>8, <1>10, <1>11, <1>12

\* _get_with_wait hands out only samples published after the call, as many as were asked
\* for: whatever the publishers do meanwhile, and when close() resets the counter under it.
THEOREM ReadsOnlyNewSamples == Spec => NewSamplesAreNew
<1>1. Inv /\ [Next]_vars =>
        [\A r \in Readers :
           (pc[r] \in {"count", "new"} /\ out'[r].kind = "data" /\ req[r].len <= MaxLen) =>
             /\ Len(out'[r].samples) = req[r].len
             /\ \A i \in DOMAIN out'[r].samples : out'[r].samples[i] > req[r].since]_vars
  BY NewSamplesStep
<1> QED  BY <1>1, InvHolds, PTL DEF Spec, NewSamplesAreNew

----------------------------------------------------------------------------
(* The ring implements the window *)

\* The window that the ring of channel c shows, what the readers have asked for and what
\* they have been answered.
Shown == [c \in DOMAIN values |-> GetLatest(values[c], MaxLen)]
Requested == [r \in Readers |-> [ch |-> req[r].ch, len |-> req[r].len]]
Answered == [r \in Readers |-> out[r].samples]

LEMMA ShownIsRun ==
  ASSUME Inv, NEW c \in DOMAIN values
  PROVE  /\ Shown[c] = Run(produced[c], Least(total[c], MaxLen))
         /\ Least(total[c], MaxLen) \in 0..produced[c]
         /\ Len(Shown[c]) = Least(total[c], MaxLen)
<1>1. /\ GetLatest(values[c], MaxLen) = Run(produced[c], Least(MaxLen, Least(total[c], MaxLen)))
      /\ Least(total[c], MaxLen) \in 0..produced[c] /\ produced[c] \in Nat
  BY ReadOfChannel
<1>2. Least(MaxLen, Least(total[c], MaxLen)) = Least(total[c], MaxLen)
  BY DEF Inv, CountsOK, Least
<1>3. Shown[c] = Run(produced[c], Least(total[c], MaxLen))
  BY <1>1, <1>2 DEF Shown
<1>4. Len(Run(produced[c], Least(total[c], MaxLen))) = Least(total[c], MaxLen)
  BY <1>1, RunIsSeq
<1> QED  BY <1>1, <1>3, <1>4

\* A published measurement extends the window of each of its channels.
LEMMA PublishImplements ==
  ASSUME Inv, NEW S \in SUBSET Channels \ {{}}, NEW n \in 0..MaxBatch, Publish(S, n)
  PROVE  Window!WPublish
<1> DEFINE Before(c) == IF c \in DOMAIN Shown THEN Shown[c] ELSE <<>>
<1>1. DOMAIN Shown = DOMAIN values /\ DOMAIN Shown' = DOMAIN values \cup S
  BY DEF Shown, Publish
<1>2. ASSUME NEW c \in S
      PROVE  Shown'[c] = Window!Keep(Before(c), Window!Fresh(c, n))
  <2>1. c \in Channels /\ produced[c] \in Nat /\ total[c] \in Nat /\ n \in Nat /\ S \in SUBSET Channels
    BY DEF Inv, CountsOK
  <2>2. c \in DOMAIN values' /\ values'[c] = Stored(c, Fresh(c, n))
    BY DEF Publish
  <2>3. /\ Holds(values'[c], produced[c] + n)
        /\ values'[c].size = Least(total[c] + n, MaxLen)
    BY <2>1, <2>2, PublishStores
  <2>4. Shown'[c] = Run(produced[c] + n, Least(total[c] + n, MaxLen))
    <3>1. Shown'[c] = GetLatest(values'[c], MaxLen)
      BY <2>2 DEF Shown
    <3>2. GetLatest(values'[c], MaxLen) = Run(produced[c] + n, Least(MaxLen, values'[c].size))
      BY <2>1, <2>3, LatestOfRing
    <3>3. Least(MaxLen, Least(total[c] + n, MaxLen)) = Least(total[c] + n, MaxLen)
      BY <2>1 DEF Least
    <3> QED  BY <2>3, <3>1, <3>2, <3>3
  <2>5. PICK m \in 0..produced[c] : /\ Before(c) = Run(produced[c], m)
                                   /\ m = Least(total[c], MaxLen)
    <3>1. CASE c \in DOMAIN values
      BY <1>1, <3>1, ShownIsRun
    <3>2. CASE c \notin DOMAIN values
      <4>1. Before(c) = Run(produced[c], 0)
        BY <1>1, <3>2 DEF Run
      <4>2. Least(total[c], MaxLen) = 0
        BY <2>1, <3>2 DEF Inv, RingInv, Least
      <4> QED  BY <2>1, <4>1, <4>2
    <3> QED  BY <3>1, <3>2
  <2>6. Window!Fresh(c, n) = Run(produced[c] + n, n)
    BY <2>1, FreshIsRun DEF Window!Fresh
  <2>7. Window!Keep(Run(produced[c], m), Run(produced[c] + n, n))
          = Run(produced[c] + n, Least(m + n, MaxLen))
    BY <2>1, KeepRun
  <2>8. Least(m + n, MaxLen) = Least(total[c] + n, MaxLen)
    BY <2>1, <2>5 DEF Least
  <2> HIDE DEF Before
  <2> QED  BY <2>4, <2>5, <2>6, <2>7, <2>8
<1>3. ASSUME NEW c \in DOMAIN values \cup S, c \notin S
      PROVE  Shown'[c] = Before(c)
  BY <1>1, <1>3 DEF Shown, Publish
<1>4. Shown' = [c \in DOMAIN Shown \cup S |->
                  IF c \in S THEN Window!Keep(Before(c), Window!Fresh(c, n)) ELSE Before(c)]
  <2>1. Shown' = [c \in DOMAIN Shown' |-> Shown'[c]]
    BY DEF Shown
  <2> HIDE DEF Before
  <2> QED  BY <1>1, <1>2, <1>3, <2>1
<1>5. produced' = [c \in Channels |-> IF c \in S THEN produced[c] + n ELSE produced[c]]
  BY DEF Publish
<1>6. UNCHANGED <<closed, Requested, Answered>>
  BY DEF Publish, Requested, Answered
<1> QED  BY <1>4, <1>5, <1>6 DEF Window!WPublish, Shown, Requested, Answered

\* A read that returns data returns the end of its channel's window as it is then, as long as
\* it asked for or as there is.
LEMMA AnswerImplements ==
  ASSUME Inv, NEW r \in Readers, pc[r] # "idle", ReturnsData(r), UNCHANGED bufferVars
  PROVE  Window!WAnswer(r)
<1> DEFINE c == req[r].ch
           m == Least(total[c], MaxLen)
           n == Least(req[r].len, m)
<1>1. c \in DOMAIN values /\ DOMAIN Shown = DOMAIN values
  BY DEF ReturnsData, Shown
<1>2. /\ req[r].len \in Nat /\ produced[c] \in Nat /\ total[c] \in Nat
  BY CallTypes
<1>3. Shown[c] = Run(produced[c], m) /\ m \in 0..produced[c] /\ Len(Shown[c]) = m
  BY <1>1, ShownIsRun
<1>4. n \in 0..m
  BY <1>2, <1>3 DEF Least
<1>5. Window!Latest(Shown[c], n) = Run(produced[c], n)
  BY <1>2, <1>3, <1>4, LatestOfRun
<1>6. out' = [out EXCEPT ![r] = [kind |-> "data", samples |-> Run(produced[c], n)]]
  BY AnswerIsRun
<1>7. Answered' = [Answered EXCEPT ![r] = Window!Latest(Shown[c], n)]
  BY <1>5, <1>6 DEF Inv, ReadersOK, Answered
<1>8. UNCHANGED <<produced, Shown, closed, Requested>>
  BY DEF bufferVars, Shown, Requested, ReturnsData, Answer, Return
<1>9. Requested[r].ch = c /\ n = Window!Smaller(Requested[r].len, Len(Shown[c]))
  BY <1>3 DEF Requested, Window!Smaller, Least
<1> HIDE DEF c, m, n
<1>10. /\ Requested[r].ch \in DOMAIN Shown
       /\ Answered' = [Answered EXCEPT ![r] =
                         Window!Latest(Shown[Requested[r].ch],
                                       Window!Smaller(Requested[r].len, Len(Shown[Requested[r].ch])))]
  BY <1>1, <1>7, <1>9
<1> QED  BY <1>8, <1>10 DEF Window!WAnswer, Shown, Requested, Answered

\* A call that begins or raises shows no samples.
LEMMA NothingAnswered ==
  ASSUME Inv, NEW r \in Readers, UNCHANGED bufferVars,
         NEW kind, out' = [out EXCEPT ![r] = [kind |-> kind, samples |-> <<>>]]
  PROVE  Answered' = [Answered EXCEPT ![r] = <<>>] /\ UNCHANGED <<produced, Shown, closed>>
BY DEF Inv, ReadersOK, Answered, bufferVars, Shown

\* A call is about the channel and the length it is made with.
LEMMA CallImplements ==
  ASSUME Inv, NEW r \in Readers, NEW c \in Channels, NEW len \in Lengths, NEW wait \in BOOLEAN,
         GetCall(r, c, len, wait)
  PROVE  Window!WAsk(r)
<1>1. Answered' = [Answered EXCEPT ![r] = <<>>] /\ UNCHANGED <<produced, Shown, closed>>
  BY NothingAnswered DEF GetCall, NoAnswer
<1>2. Requested' = [Requested EXCEPT ![r] = [ch |-> c, len |-> len]]
  BY DEF GetCall, Inv, ReadersOK, Requested
<1> QED  BY <1>1, <1>2 DEF Window!WAsk, Shown, Requested, Answered

LEMMA RaiseImplements ==
  ASSUME Inv, NEW r \in Readers, NEW kind, Raise(r, kind), UNCHANGED bufferVars
  PROVE  Window!WForget(r)
<1>1. Answered' = [Answered EXCEPT ![r] = <<>>] /\ UNCHANGED <<produced, Shown, closed>>
  BY NothingAnswered DEF Raise, Return
<1>2. UNCHANGED Requested
  BY DEF Raise, Return, Requested
<1> QED  BY <1>1, <1>2 DEF Window!WForget, Shown, Requested, Answered

LEMMA StepImplements ==
  ASSUME Inv, [Next]_vars
  PROVE  [Window!WNext]_(Window!wvars)
<1>1. ASSUME NEW S \in SUBSET Channels \ {{}}, NEW n \in 0..MaxBatch, Publish(S, n)
      PROVE  Window!WNext
  BY <1>1, PublishImplements DEF Window!WNext
<1>2. ASSUME Close  PROVE Window!WNext
  <2>1. Shown' = [c \in {} |-> <<>>]
    BY <1>2 DEF Close, Shown
  <2>2. closed' = TRUE /\ UNCHANGED <<produced, Requested, Answered>>
    BY <1>2 DEF Close, Requested, Answered
  <2>3. Window!WClose
    BY <2>1, <2>2 DEF Window!WClose, Shown, Requested, Answered
  <2> QED  BY <2>3 DEF Window!WNext
<1>3. ASSUME NEW r \in Readers, NEW c \in Channels, NEW len \in Lengths, NEW wait \in BOOLEAN,
             GetCall(r, c, len, wait)
      PROVE  Window!WNext
  BY <1>3, CallImplements DEF Window!WNext
<1>4. ASSUME NEW r \in Readers, Wake(r) \/ Expire(r)
      PROVE  Window!WNext \/ UNCHANGED Window!wvars
  <2>1. PICK expired \in BOOLEAN : Test(r, expired)
    BY <1>4 DEF Wake, Expire
  <2>2. /\ pc[r] # "idle" /\ UNCHANGED bufferVars
        /\ ReturnsData(r) \/ Raises(r) \/ GoesOn(r) \/ Waits(r)
    BY <2>1, TestEnds
  <2>3. CASE ReturnsData(r)
    BY <2>2, <2>3, AnswerImplements DEF Window!WNext
  <2>4. CASE Raises(r)
    <3>1. PICK kind \in Ended \ {"data"} : Raise(r, kind)
      BY <2>4 DEF Raises
    <3>2. Window!WForget(r)
      BY <2>2, <3>1, RaiseImplements
    <3> QED  BY <3>2 DEF Window!WNext
  <2>5. CASE GoesOn(r) \/ Waits(r)
    <3>1. UNCHANGED <<produced, Shown, closed, Requested, Answered>>
      BY <2>2, <2>5 DEF GoesOn, Park, Goto, Waits, bufferVars, Shown, Requested, Answered
    <3> QED  BY <3>1 DEF Window!wvars, Shown, Requested, Answered
  <2> QED  BY <2>2, <2>3, <2>4, <2>5
<1>5. ASSUME UNCHANGED vars  PROVE UNCHANGED Window!wvars
  <2>1. UNCHANGED <<produced, Shown, closed, Requested, Answered>>
    BY <1>5 DEF vars, Shown, Requested, Answered
  <2> QED  BY <2>1 DEF Window!wvars, Shown, Requested, Answered
<1> QED  BY <1>1, <1>2, <1>3, <1>4, <1>5 DEF Next

\* NumpyInMemoryPublisher's ring, its counter and its waits implement the window of the
\* most recent samples, for a ring of any length and batches that wrap or overrun it.
THEOREM RingImplementsWindow == Spec => ImplementsWindow
<1>1. Init => Window!WInit
  <2> SUFFICES ASSUME Init  PROVE Window!WInit
    OBVIOUS
  <2>1. Shown = [c \in {} |-> <<>>]
    BY DEF Init, Shown
  <2>2. Answered = [r \in Readers |-> <<>>]
    BY DEF Init, Answered, NoAnswer
  <2>3. Requested = [r \in Readers |-> [ch |-> CHOOSE c \in Channels : TRUE, len |-> 1]]
    BY DEF Init, Requested, NoReq
  <2> QED  BY <2>1, <2>2, <2>3 DEF Init, Window!WInit, Shown, Requested, Answered
<1>2. Inv /\ [Next]_vars => [Window!WNext]_(Window!wvars)
  BY StepImplements
<1> QED  BY <1>1, <1>2, InvHolds, PTL DEF Spec, ImplementsWindow, Window!WSpec
=============================================================================
