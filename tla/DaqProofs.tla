------------------------------- MODULE DaqProofs -------------------------------
(***************************************************************************)
(* The safety of DaqBench: what is published of an acquisition, for any    *)
(* channels, any rate and any ring, and what is left of it after stop().   *)
(*                                                                         *)
(* Of each vendor the invariant says where the board's samples are between *)
(* board and publication: how many the driver has consumed, that these are *)
(* whole scans of the registered channels, and that the next ones to be    *)
(* published follow on the last.                                           *)
(***************************************************************************)
EXTENDS DaqBench, SequenceTheorems, FiniteSetTheorems, TLAPS

N == Len(ai)
W == 2 ^ Width

\* What the provers have to be told of the powers of two.
PowersOfTwo == \A m, n \in Nat : 2 ^ n \in Nat \ {0} /\ 2 ^ (m + n) = 2 ^ m * 2 ^ n /\ 2 ^ 1 = 2

\* The index of the sample that is to be published next.
NextAt == IF out = <<>> THEN 0 ELSE out[Len(out)].at + 1

Fetching == {"poll", "window", "copy", "verify", "return"}

----------------------------------------------------------------------------
(* The invariant *)

\* The threads: one fetch at a time, and none without a caller.
ThreadsInv ==
  /\ ctl \in {"idle", "join", "read"} /\ daemon \in {"none", "check", "fetch"}
  /\ fpc \in Fetching \cup {"idle"}
  /\ fpc # "idle" <=> daemon = "fetch" \/ ctl = "read"
  /\ ctl = "read" => daemon = "none"
  /\ ~opened => ctl = "idle" /\ daemon = "none" /\ ~started

\* What stop() must find to release it all.
ReleaseInv ==
  /\ vendor # "labjack" => (scanning => started)
  /\ vendor # "mcc" => buffers = {}
  /\ restarted \/ (buffers \subseteq {memhandle} /\ (buffers # {} => scanning))

\* The registered channels and the counts of samples.
DataInv ==
  /\ ai \in Seq(Channels)
  /\ \A i, j \in DOMAIN ai : ai[i] = ai[j] => i = j
  /\ timing \in {0, PerChannel}
  /\ made \in Nat /\ taken \in Nat
  /\ stamper = <<>> \/ (stamper[1] \in Int /\ stamper = <<stamper[1]>>)

\* What is published: each sample under its channel and no later than its timestamp.
OutInv ==
  /\ DOMAIN out = 1..Len(out) /\ Len(out) \in Nat /\ (out # <<>> => Len(out) # 0)
  /\ \A i \in DOMAIN out : /\ out[i].name = out[i].ch
                           /\ out[i].at \in Nat
                           /\ ~skipped => out[i].t >= out[i].at

\* data is whole scans of list, the first sample of which is number start.
Scans(list, start, data) ==
  /\ list # <<>>
  /\ start \in Nat /\ start % Len(list) = 0
  /\ Len(data) \in Nat \ {0} /\ DOMAIN data = 1..Len(data) /\ Len(data) % Len(list) = 0
  /\ \A i \in DOMAIN data : /\ data[i].ch = list[((start + i - 1) % Len(list)) + 1]
                            /\ data[i].at = start + i - 1

\* The timeline has not fallen behind the sample that is next.
Stamped(next) == stamper = <<>> \/ stamper[1] >= next

\* The board scans what is registered, and whole scans have been consumed.
Scanned == scanlist = ai /\ ai # <<>> /\ timing # 0 /\ taken % N = 0

NiInv ==
  /\ ~skipped
  /\ aitask = IF opened THEN ai ELSE <<>>
  /\ scanning => Scanned /\ taken = NextAt /\ Stamped(taken)

Batches == [data : Seq([ch : Channels, at : Nat]), wall : Nat, period : Nat]

\* A batch is whole scans of list that had been made when they were read.
Begins(batch) == batch.data[1].at
Ends(batch) == Begins(batch) + Len(batch.data)
BatchOf(list, batch) ==
  /\ batch.period = Len(list) /\ batch.wall \in Nat /\ batch.wall >= Ends(batch)
  /\ Scans(list, Begins(batch), batch.data)

\* The batches in the queue follow on each other, from the next sample to the consumed ones.
LabJackInv ==
  /\ ~skipped
  /\ queue # <<>> \/ scanning => timing # 0 /\ ai # <<>> /\ Stamped(NextAt)
  /\ queue \in Seq(Batches)
  /\ \A k \in DOMAIN queue : BatchOf(ai, queue[k])
  /\ queue # <<>> => Begins(queue[1]) = NextAt
  /\ \A k \in DOMAIN queue \ {1} : Begins(queue[k]) = Ends(queue[k - 1])
  /\ scanning => Scanned /\ taken = IF queue = <<>> THEN NextAt ELSE Ends(queue[Len(queue)])

\* The instrument scans the registered channels in order.
KeysightInv ==
  /\ routed = {ai[i] : i \in DOMAIN ai}
  /\ timer => timing # 0
  /\ scanning => timing # 0
  /\ scanning \/ made > taken =>
       /\ scanlist = Ascending(routed) /\ ai # <<>> /\ taken % N = 0 /\ made >= taken
       /\ ~skipped /\ timing # 0 => taken = NextAt

\* The sample counter of the board is the driver's, but for full rounds.
CounterInv ==
  /\ rawPrev \in 0..W - 1 /\ offset \in Nat /\ offset % W = 0
  /\ rawPrev + offset <= made /\ made < rawPrev + offset + W

\* The window of a fetch: its samples had been made when it was opened, and the copy is of
\* them for as long as the board has not come round to its first.
WindowInv ==
  /\ curr \in Nat /\ curr <= made /\ wall = curr
  /\ fpc = "window" => curr >= taken + FetchSize
  /\ fpc \in {"copy", "verify", "return"} =>
       /\ origin \in Nat /\ origin % N = 0 /\ curr >= origin + FetchSize
       /\ Len(copy) \in 0..FetchSize /\ DOMAIN copy = 1..Len(copy) /\ copy \in Seq([ch : Channels, at : Int])
       /\ fpc = "copy" <=> Len(copy) # FetchSize
       /\ fpc = "return" \/ made <= origin + bufsize =>
            \A i \in DOMAIN copy : copy[i] = Sample(origin + i - 1)
       /\ taken = IF fpc = "return" THEN origin + FetchSize ELSE origin

MccInv ==
  /\ scanning => scanlist = ai /\ ai # <<>> /\ timing # 0
  /\ memhandle # 0 =>
       /\ scanning /\ memhandle = target
       /\ bufsize = FetchSize * Multiplier
       /\ taken % N = 0
       /\ CounterInv
       /\ fpc \in {"window", "copy", "verify", "return"} => WindowInv
       /\ ~skipped => IF fpc = "return" THEN origin = NextAt /\ Stamped(origin)
                                        ELSE taken = NextAt /\ Stamped(taken)
  /\ fpc \in {"window", "copy", "verify", "return"} => memhandle # 0

StreamInv ==
  /\ DataInv /\ OutInv
  /\ vendor # "mcc" => fpc \in {"idle", "poll"}
  /\ vendor = "ni" => NiInv
  /\ vendor = "labjack" => LabJackInv
  /\ vendor = "keysight" => KeysightInv
  /\ vendor = "mcc" => MccInv
  /\ vendor # "labjack" => queue = <<>>

----------------------------------------------------------------------------
(* Arithmetic *)

\* A number is its quotient and its remainder in one way.
LEMMA DivIs ==
  ASSUME NEW n \in Nat \ {0}, NEW q \in Nat, NEW r \in 0..n - 1
  PROVE  (n * q + r) \div n = q /\ (n * q + r) % n = r
OBVIOUS

LEMMA Divided ==
  ASSUME NEW n \in Nat \ {0}, NEW k \in Nat
  PROVE  k \div n \in Nat /\ k % n \in 0..n - 1 /\ k = n * (k \div n) + (k % n)
OBVIOUS

\* Whole scans do not change whose turn it is.
LEMMA WholeScans ==
  ASSUME NEW n \in Nat \ {0}, NEW a \in Nat, NEW k \in Nat, a % n = 0
  PROVE  (a + k) % n = k % n
<1>1. PICK q \in Nat : a = n * q
  <2>1. a \div n \in Nat /\ a = n * (a \div n) + (a % n)
    BY Divided
  <2> QED  BY <2>1
<1>2. k \div n \in Nat /\ k % n \in 0..n - 1 /\ k = n * (k \div n) + (k % n)
  BY Divided
<1>3. PICK j \in Nat, r \in 0..n - 1 : k = n * j + r /\ r = k % n
  BY <1>2
<1>4. a + k = n * (q + j) + r
  <2>1. \A x, y, z \in Int : x * (y + z) = x * y + x * z
    OBVIOUS
  <2>2. n * q \in Nat /\ n * j \in Nat /\ n * (q + j) = n * q + n * j
    BY <2>1
  <2> QED  BY <1>1, <1>3, <2>2
<1>5. q + j \in Nat
  OBVIOUS
<1>6. (n * (q + j) + r) % n = r
  BY <1>5, DivIs
<1> QED  BY <1>3, <1>4, <1>6

LEMMA Multiple ==
  ASSUME NEW n \in Nat \ {0}, NEW k \in Nat
  PROVE  n * k \in Nat /\ (n * k) % n = 0 /\ (n * k) \div n = k /\ (k # 0 => n * k >= n)
<1>1. n * k \in Nat /\ (k # 0 => n * k >= n)
  OBVIOUS
<1>2. (n * k + 0) % n = 0 /\ (n * k + 0) \div n = k
  BY DivIs
<1> QED  BY <1>1, <1>2

\* A number that is less than twice n has been round once.
LEMMA Wrapped ==
  ASSUME NEW n \in Nat \ {0}, NEW a \in Nat, NEW d \in n..(2 * n) - 1, a % n = 0
  PROVE  (a + d) % n = d - n
<1>1. (a + d) % n = d % n
  <2>1. d \in Nat
    OBVIOUS
  <2> QED  BY <2>1, WholeScans
<1>2. d - n \in 0..n - 1 /\ d = n * 1 + (d - n)
  OBVIOUS
<1>3. (n * 1 + (d - n)) % n = d - n
  BY <1>2, DivIs
<1> QED  BY <1>1, <1>2, <1>3

LEMMA Parts ==
  ASSUME NEW n \in Nat \ {0}, NEW len \in Nat \ {0}, len % n = 0
  PROVE  /\ len \div n \in Nat \ {0} /\ len = n * (len \div n)
         /\ n * ((len \div n) - 1) = len - n
<1>1. PICK q \in Nat : len = n * q /\ q = len \div n
  <2>1. len \div n \in Nat /\ len = n * (len \div n) + (len % n)
    BY Divided
  <2>2. \A x, y \in Nat : len % n = 0 /\ len = x * y + (len % n) => len = x * y
    OBVIOUS
  <2> QED  BY <2>1, <2>2
<1>2. q # 0
  BY <1>1
<1>3. \A x, y \in Int : x * (y - 1) = x * y - x
  OBVIOUS
<1>4. n * (q - 1) = len - n
  BY <1>1, <1>3
<1> QED  BY <1>1, <1>2, <1>4

\* Rounding up to a whole scan.
LEMMA RoundedUp ==
  ASSUME NEW n \in Nat \ {0}, NEW a \in Nat
  PROVE  LET up == IF a % n = 0 THEN a ELSE a + n - (a % n)
         IN  up \in Nat /\ up % n = 0
<1>1. PICK q \in Nat, r \in 0..n - 1 : a = n * q + r /\ r = a % n
  <2>1. a \div n \in Nat /\ a % n \in 0..n - 1 /\ a = n * (a \div n) + (a % n)
    BY Divided
  <2> QED  BY <2>1
<1>2. CASE r = 0
  BY <1>1, <1>2
<1>3. CASE r # 0
  <2>1. n * (q + 1) \in Nat /\ (n * (q + 1)) % n = 0
    <3>1. q + 1 \in Nat
      OBVIOUS
    <3> QED  BY <3>1, Multiple
  <2>2. n * (q + 1) = n * q + n
    <3>1. \A x, y \in Int : x * (y + 1) = x * y + x
      OBVIOUS
    <3> QED  BY <3>1
  <2>3. n * q \in Nat
    OBVIOUS
  <2>4. a + n - (a % n) = n * (q + 1)
    BY <1>1, <2>2, <2>3
  <2> QED  BY <1>1, <1>3, <2>1, <2>4
<1> QED  BY <1>2, <1>3

LEMMA Small ==
  ASSUME NEW n \in Nat \ {0}, NEW r \in 0..n - 1
  PROVE  r % n = r /\ r \div n = 0
<1>1. (n * 0 + r) % n = r /\ (n * 0 + r) \div n = 0
  BY DivIs
<1> QED  BY <1>1
\* The mask less a number has every bit of the number the other way round.
LEMMA ComplementBit ==
  ASSUME NEW m \in Nat \ {0}, NEW k \in Nat \ {0}, NEW data \in 0..m * (2 * k) - 1
  PROVE  ((m * (2 * k) - 1 - data) \div m) % 2 = 1 - ((data \div m) % 2)
<1> DEFINE q == data \div m
           r == data % m
           j == 2 * k - 1 - q
<1>1. q \in Nat /\ r \in 0..m - 1 /\ data = m * q + r /\ m * k \in Nat
  OBVIOUS
<1>2. q < 2 * k
  <2>1. ASSUME q >= 2 * k PROVE FALSE
    <3>1. m * q >= m * (2 * k)
      BY <1>1, <2>1
    <3> QED  BY <1>1, <3>1
  <2> QED  BY <2>1, <1>1
<1>3. j \in Nat /\ m - 1 - r \in 0..m - 1
  BY <1>1, <1>2
<1>4. m * (2 * k) - 1 - data = m * j + (m - 1 - r)
  <2>1. m * j = m * (2 * k) - m - m * q
    <3>1. \A a, b, c \in Int : a * (b - 1 - c) = a * b - a - a * c
      OBVIOUS
    <3> QED  BY <3>1, <1>1
  <2>2. m * q \in Int /\ m * (2 * k) \in Int /\ m * j \in Int
    BY <1>1, <1>3
  <2> HIDE DEF j
  <2> QED  BY <1>1, <2>1, <2>2
<1>5. (m * j + (m - 1 - r)) \div m = j
  <2> HIDE DEF j, r, q
  <2> QED  BY <1>3, DivIs
<1>6. j % 2 = 1 - (q % 2)
  BY <1>1, <1>2
<1> QED  BY <1>4, <1>5, <1>6

----------------------------------------------------------------------------
(* The threads, and what stop() releases *)

ControlInv == ThreadsInv /\ ReleaseInv

LEMMA InitControl == Init => ControlInv
BY DEF Init, ControlInv, ThreadsInv, ReleaseInv, DriverInit, MccInit, Fetching

LEMMA OpenControl ==
  ASSUME ControlInv, Open
  PROVE  ControlInv'
<1>1. ThreadsInv'
  BY DEF ControlInv, ThreadsInv, Open
<1>2. /\ UNCHANGED <<vendor, started, restarted, memhandle, buffers>>
      /\ scanning' = scanning \/ ~scanning'
  <2>1. vendor = "mcc" => UNCHANGED <<memhandle, buffers, scanning>>
    BY DEF Open, Of, MccOpen, ring, board
  <2>2. vendor # "mcc" => UNCHANGED <<memhandle, buffers>>
    BY DEF Open, Of, mcc, ring
  <2>3. scanning' = scanning \/ ~scanning'
    BY DEF Open, Of, MccOpen, NiOpen, LabJackOpen, StopStream, EndScan, KeysightOpen, board
  <2> QED  BY <2>1, <2>2, <2>3 DEF Open, life
<1>3. vendor = "mcc" => scanning' = scanning
  BY DEF Open, Of, MccOpen, board
<1>4. ReleaseInv'
  BY <1>2, <1>3 DEF ControlInv, ReleaseInv
<1> QED  BY <1>1, <1>4 DEF ControlInv

LEMMA ConfigureControl ==
  ASSUME ControlInv,
         \/ \E c \in Channels, scaler, ok \in BOOLEAN : ConfigureAnalogChannel(c, scaler, ok)
         \/ ConfigureAiSampleRate
  PROVE  ControlInv'
<1>1. /\ UNCHANGED <<life, control, fpc, scanning>>
      /\ vendor = "mcc" \/ UNCHANGED mcc
      /\ vendor = "mcc" => UNCHANGED mcc
  BY DEF ConfigureAnalogChannel, ConfigureAiSampleRate, Of, board, KeysightConfigureAi,
         KeysightConfigureTiming
<1>2. UNCHANGED <<vendor, scanning, fpc, opened, ctl, daemon, started, restarted, memhandle, buffers>>
  BY <1>1 DEF life, control, mcc, ring
<1> QED  BY <1>2 DEF ControlInv, ThreadsInv, ReleaseInv

LEMMA StartControl ==
  ASSUME ControlInv, NEW background \in BOOLEAN, Start(background)
  PROVE  ControlInv'
<1>1. /\ ctl = "idle" /\ opened /\ daemon = "none" /\ started'
      /\ UNCHANGED <<vendor, opened, ctl, fpc, restarted>>
      /\ daemon' \in {"none", "check"}
  BY DEF Start, Begin, life
<1>2. ThreadsInv'
  BY <1>1 DEF ControlInv, ThreadsInv
<1>3. CASE vendor = "mcc"
  <2>1. MccStart(TRUE)
    BY <1>3 DEF Start, Of
  <2>2. /\ ~scanning /\ scanning' /\ memhandle' = CHOOSE b \in Buffers \ buffers : TRUE
        /\ buffers' = buffers \cup {memhandle'}
    BY <2>1 DEF MccStart, BeginScan
  <2> QED  BY <1>1, <1>2, <1>3, <2>2 DEF ControlInv, ReleaseInv
<1>4. CASE vendor # "mcc"
  <2>1. UNCHANGED <<memhandle, buffers>>
    BY <1>4 DEF Start, Of, mcc, ring
  <2> QED  BY <1>1, <1>2, <1>4, <2>1 DEF ControlInv, ReleaseInv
<1> QED  BY <1>3, <1>4

LEMMA StartRaisesControl ==
  ASSUME ControlInv, StartRaises
  PROVE  ControlInv'
<1>1. /\ UNCHANGED <<vendor, opened, ctl, daemon, fpc, started>>
      /\ restarted' = (restarted \/ scanning)
  BY DEF StartRaises, life
<1>2. scanning' = scanning
  BY DEF StartRaises, MccStart, NiStartRaises, LabJackStartRaises, KeysightStartRaises, board
<1>3. /\ vendor = "mcc" => buffers' = buffers /\ (memhandle' = memhandle \/ memhandle' = 0)
      /\ vendor # "mcc" => UNCHANGED <<memhandle, buffers>>
  BY DEF StartRaises, Of, MccStart, mcc, ring
<1> QED  BY <1>1, <1>2, <1>3 DEF ControlInv, ThreadsInv, ReleaseInv

LEMMA StopCallControl ==
  ASSUME ControlInv, NEW close \in BOOLEAN, StopCall(close)
  PROVE  ControlInv'
BY DEF StopCall, ControlInv, ThreadsInv, ReleaseInv, life, board, vendorVars, mcc, ring

LEMMA StoppedControl ==
  ASSUME ControlInv, Stopped
  PROVE  ControlInv'
<1>1. /\ ctl = "join" /\ daemon = "none" /\ ctl' = "idle" /\ ~started'
      /\ UNCHANGED <<vendor, daemon, fpc, restarted>>
  BY DEF Stopped, Joined, life
<1>2. vendor # "labjack" => ~scanning'
  BY DEF Stopped, Of, MccClose, MccStop, NiStop, EndScan, KeysightStop
<1>3. /\ vendor = "mcc" => buffers' = buffers \ {memhandle}
      /\ vendor # "mcc" => UNCHANGED <<memhandle, buffers>>
  BY DEF Stopped, Of, MccClose, MccStop, mcc, ring
<1> QED  BY <1>1, <1>2, <1>3 DEF ControlInv, ThreadsInv, ReleaseInv

LEMMA ReadControl ==
  ASSUME ControlInv, SoftwareTimedRead \/ ReadCall
  PROVE  ControlInv'
<1>1. CASE SoftwareTimedRead
  <2>1. UNCHANGED <<vendor, fpc, opened, ctl, daemon, started, restarted, scanning>>
    BY <1>1 DEF SoftwareTimedRead, MccRead, NiRead, LabJackRead, KeysightRead, PublishReading,
                control, life
  <2>2. UNCHANGED <<memhandle, buffers>>
    BY <1>1 DEF SoftwareTimedRead, Of, mcc, ring
  <2> QED  BY <2>1, <2>2 DEF ControlInv, ThreadsInv, ReleaseInv
<1>2. CASE ReadCall
  BY <1>2 DEF ReadCall, ControlInv, ThreadsInv, ReleaseInv, life, board, vendorVars, mcc, ring, Fetching
<1> QED  BY <1>1, <1>2

LEMMA FetchControl ==
  ASSUME ControlInv, FetchNext
  PROVE  ControlInv'
<1>1. CASE DaemonLoop
  BY <1>1 DEF DaemonLoop, ControlInv, ThreadsInv, ReleaseInv, life, board, vendorVars, mcc, ring, Fetching
<1>2. CASE Fetch \/ FetchRaises
  <2>1. /\ fpc # "idle" /\ fpc' = "idle" /\ UNCHANGED scanning
        /\ vendor = "mcc" => UNCHANGED ring
        /\ vendor # "mcc" => UNCHANGED mcc
    BY <1>2 DEF Fetch, FetchRaises, Of, MccFetch, MccFetchRaises, Returned, NiFetch, NiFetchRaises,
                LabJackFetch, LabJackFetchRaises, KeysightFetch, KeysightFetchRaises, Consume, board, ring
  <2>2. /\ UNCHANGED <<vendor, opened, started, restarted>>
        /\ daemon' = IF daemon = "fetch" THEN "check" ELSE daemon
        /\ ctl' = IF ctl = "read" THEN "idle" ELSE ctl
    BY <1>2 DEF Fetch, FetchRaises, FetchOver, life
  <2>3. UNCHANGED <<memhandle, buffers>>
    BY <2>1 DEF mcc, ring
  <2> QED  BY <2>1, <2>2, <2>3 DEF ControlInv, ThreadsInv, ReleaseInv
<1>3. CASE MccFetching
  <2>1. /\ fpc \in Fetching /\ fpc' \in Fetching
        /\ UNCHANGED <<scanning, memhandle, buffers>>
    BY <1>3 DEF MccFetching, MccFetchStep, MccPoll, MccWindow, MccCopy, MccVerify, Fetching, board, ring
  <2>2. UNCHANGED <<vendor, opened, ctl, daemon, started, restarted>>
    BY <1>3 DEF MccFetching, life, control
  <2> QED  BY <2>1, <2>2 DEF ControlInv, ThreadsInv, ReleaseInv, Fetching
<1> QED  BY <1>1, <1>2, <1>3 DEF FetchNext

LEMMA BoardControl ==
  ASSUME ControlInv, Callback \/ Sampling
  PROVE  ControlInv'
<1>1. UNCHANGED <<vendor, fpc, opened, ctl, daemon, started, restarted, scanning>>
  BY DEF Callback, Sampling, StreamCallback, Consume, Advance, life, control
<1>2. UNCHANGED <<memhandle, buffers>>
  BY DEF Callback, Sampling, Of, vendorVars, mcc, ring
<1> QED  BY <1>1, <1>2 DEF ControlInv, ThreadsInv, ReleaseInv

LEMMA SameControl ==
  ASSUME ControlInv, UNCHANGED <<life, analogVars>>
  PROVE  ControlInv'
<1>1. UNCHANGED <<vendor, fpc, opened, ctl, daemon, started, restarted, scanning, memhandle, buffers>>
  BY DEF life, analogVars, board, control, vendorVars, mcc, ring
<1> QED  BY <1>1 DEF ControlInv, ThreadsInv, ReleaseInv

LEMMA ControlStep ==
  ASSUME ControlInv, [Next]_vars
  PROVE  ControlInv'
<1>1. CASE ControlNext
  BY <1>1, OpenControl, ConfigureControl, StartControl, StartRaisesControl, StopCallControl,
     StoppedControl, ReadControl DEF ControlNext
<1>2. CASE FetchNext \/ Callback \/ Sampling
  BY <1>2, FetchControl, BoardControl
<1>3. CASE UNCHANGED <<life, analogVars>>
  BY <1>3, SameControl
<1> QED  BY <1>1, <1>2, <1>3 DEF Next, vars

LEMMA ControlHolds == Spec => []ControlInv
<1>1. Init => ControlInv
  BY InitControl
<1>2. ControlInv /\ [Next]_vars => ControlInv'
  BY ControlStep
<1> QED  BY <1>1, <1>2, PTL DEF Spec

\* After stop() or close(), and after a start() that raised, the board is at rest and its
\* buffer is given back, whatever the daemon was doing when it was told to end.
THEOREM StopReleasesTheBoard == Spec => []StopEndsAcquisition
<1>1. ControlInv => StopEndsAcquisition
  BY DEF ControlInv, ReleaseInv, StopEndsAcquisition
<1> QED  BY <1>1, ControlHolds, PTL

----------------------------------------------------------------------------
(* The lines *)

\* Each line has its registry entry, and the port has one only when no line has.
RegistryInv ==
  /\ level \in [Pins -> Int]
  /\ DOMAIN logic \subseteq Pins /\ DOMAIN asked \subseteq Pins
  /\ port # "none" => DOMAIN logic = {}
  /\ port = "none" => DOMAIN asked \subseteq DOMAIN logic
  /\ isopen => sessions # 0
  /\ sessions \in Nat

\* The Keysight's polarity is that of every line it has been told of.
PolarityInv ==
  /\ inverted \in BOOLEAN
  /\ maker # "keysight" => ~inverted
  /\ maker = "keysight" /\ port # "none" => inverted = (port = "LOW")
  /\ maker = "keysight" => \A p \in DOMAIN logic : inverted = (logic[p] = "LOW")

\* The i-th entry of NI's cache is for the i-th line of its task, and what it holds for an
\* output is what was last asked of that line.
CacheInv ==
  maker = "ni" =>
    /\ cache \in Seq([pin : Pins, bit : Int]) /\ task \in Seq(Pins)
    /\ port # "none" \/ sessions = 0 => cache = <<>>
    /\ \A p \in DOMAIN logic : Cached(p)
    /\ ~isopen \/ (port = "none" /\ sessions # 1) => task = <<>>
    /\ isopen /\ port = "none" /\ sessions = 1 =>
         /\ Len(cache) = Len(task)
         /\ \A i \in DOMAIN cache :
              /\ cache[i].pin = task[i] /\ task[i] \in DOMAIN logic
              /\ ~input /\ task[i] \in DOMAIN asked => cache[i].bit = asked[task[i]]

LinesInv == ~muddled => RegistryInv /\ PolarityInv /\ CacheInv /\ LinesAreTheirOwn

LEMMA InitLines == Init => LinesInv
<1> SUFFICES ASSUME Init PROVE RegistryInv /\ PolarityInv /\ CacheInv /\ LinesAreTheirOwn
  BY DEF LinesInv
<1> USE DEF Init, LinesInit, Empty
<1>1. RegistryInv
  BY DEF RegistryInv
<1>2. PolarityInv
  BY DEF PolarityInv
<1>3. CacheInv
  BY DEF CacheInv
<1>4. LinesAreTheirOwn
  BY DEF LinesAreTheirOwn
<1> QED  BY <1>1, <1>2, <1>3, <1>4

LEMMA OpenKeepsLines ==
  ASSUME LinesInv, OpenLines, ~muddled'
  PROVE  LinesInv'
<1>1. /\ ~muddled /\ ~isopen
      /\ maker = "keysight" => DOMAIN logic = {} /\ port = "none"
  BY DEF OpenLines, KeysightReset
<1> USE <1>1 DEF LinesInv, OpenLines, kept, outputs, KeysightReset, Empty
<1>2. RegistryInv'
  BY DEF RegistryInv
<1>3. PolarityInv'
  BY DEF PolarityInv
<1>4. CacheInv'
  <2>1. maker = "ni" => task = <<>> /\ (sessions' = 1 => cache = <<>>)
    BY DEF CacheInv, RegistryInv
  <2> QED  BY <2>1 DEF CacheInv, Cached, RegistryInv
<1>5. LinesAreTheirOwn'
  BY DEF LinesAreTheirOwn
<1> QED  BY <1>2, <1>3, <1>4, <1>5

LEMMA CloseKeepsLines ==
  ASSUME LinesInv, CloseLines, ~muddled'
  PROVE  LinesInv'
<1>1. ~muddled
  BY DEF CloseLines
<1> USE <1>1 DEF LinesInv, CloseLines, kept, outputs, Empty
<1>2. RegistryInv'
  BY DEF RegistryInv
<1>3. PolarityInv'
  BY DEF PolarityInv
<1>4. CacheInv'
  BY DEF CacheInv, Cached
<1>5. LinesAreTheirOwn'
  BY DEF LinesAreTheirOwn
<1> QED  BY <1>2, <1>3, <1>4, <1>5

\* A line that NI accepts is new to its task and its cache.
LEMMA NiConfigureKeepsCache ==
  ASSUME LinesInv, ~muddled', NEW p \in Pins, NEW l \in Logics, NEW ok \in BOOLEAN,
         ConfigureDigitalLine(p, l, ok), maker = "ni"
  PROVE  CacheInv'
<1>1. ~muddled /\ ok /\ sessions = 1 /\ ~Wired(p) /\ port = "none" /\ isopen
  <2>1. NiConfigureLine(p, ok) /\ port = "none" /\ isopen
    BY DEF ConfigureDigitalLine
  <2>2. ~muddled /\ ok /\ ~(sessions > 1) /\ ~Wired(p)
    BY <2>1, Zenon DEF NiConfigureLine
  <2> QED  BY <2>1, <2>2 DEF LinesInv, RegistryInv
<1>2. /\ Len(cache) = Len(task)
      /\ cache \in Seq([pin : Pins, bit : Int]) /\ task \in Seq(Pins)
      /\ \A i \in DOMAIN cache :
              /\ cache[i].pin = task[i] /\ task[i] \in DOMAIN logic
              /\ ~input /\ task[i] \in DOMAIN asked => cache[i].bit = asked[task[i]]
  BY <1>1 DEF LinesInv, CacheInv
<1>3. ~Cached(p)
  BY <1>1, <1>2 DEF Cached, Wired
<1>4. cache' = Append(cache, [pin |-> p, bit |-> 0]) /\ task' = Append(task, p)
  BY <1>1, <1>3 DEF ConfigureDigitalLine, NiConfigureLine, CacheSet
<1>5. /\ UNCHANGED <<maker, input, isopen, sessions, port>>
      /\ logic' = With(logic, p, l) /\ asked' = [q \in DOMAIN asked \ {p} |-> asked[q]]
  BY <1>1 DEF ConfigureDigitalLine, kept
<1>6. cache' \in Seq([pin : Pins, bit : Int]) /\ task' \in Seq(Pins) /\ Len(cache') = Len(task')
  BY <1>2, <1>4
<1>7. \A q \in DOMAIN logic' : Cached(q)'
  <2>1. Cached(p)'
    <3>1. cache'[Len(cache) + 1].pin = p /\ Len(cache) + 1 \in DOMAIN cache'
      BY <1>2, <1>4
    <3> QED  BY <3>1 DEF Cached
  <2>2. ASSUME NEW q \in DOMAIN logic PROVE Cached(q)'
    <3>1. PICK i \in DOMAIN cache : cache[i].pin = q
      BY <1>1 , <1>2 DEF LinesInv, CacheInv, Cached
    <3>2. i \in DOMAIN cache' /\ cache'[i] = cache[i]
      BY <1>2, <1>4
    <3> QED  BY <3>1, <3>2 DEF Cached
  <2> QED  BY <2>1, <2>2, <1>5 DEF With
<1>8. ASSUME NEW i \in DOMAIN cache'
      PROVE  /\ cache'[i].pin = task'[i] /\ task'[i] \in DOMAIN logic'
             /\ ~input /\ task'[i] \in DOMAIN asked' => cache'[i].bit = asked'[task'[i]]
  <2>1. CASE i = Len(cache) + 1
    <3>1. cache'[i].pin = p /\ task'[i] = p
      BY <2>1, <1>2, <1>4
    <3> QED  BY <3>1, <1>5 DEF With
  <2>2. CASE i # Len(cache) + 1
    <3>1. i \in DOMAIN cache /\ cache'[i] = cache[i] /\ task'[i] = task[i]
      BY <2>2, <1>2, <1>4
    <3> QED  BY <3>1, <1>2, <1>5 DEF With
  <2> QED  BY <2>1, <2>2
<1>9. isopen' /\ port' = "none" /\ sessions' = 1
  BY <1>1, <1>5
<1>10. (port # "none" \/ sessions = 0 => cache = <<>>)'
  BY <1>9
<1>11. (~isopen \/ (port = "none" /\ sessions # 1) => task = <<>>)'
  BY <1>9
<1>12. (\A q \in DOMAIN logic : Cached(q))'
  BY <1>7
<1>13. (\A i \in DOMAIN cache :
              /\ cache[i].pin = task[i] /\ task[i] \in DOMAIN logic
              /\ ~input /\ task[i] \in DOMAIN asked => cache[i].bit = asked[task[i]])'
  BY <1>5, <1>8
<1> QED  BY <1>6, <1>10, <1>11, <1>12, <1>13 DEF CacheInv

LEMMA ConfigureKeepsLines ==
  ASSUME LinesInv, ~muddled', NEW p \in Pins, NEW l \in Logics, NEW ok \in BOOLEAN,
         ConfigureDigitalLine(p, l, ok)
  PROVE  LinesInv'
<1>0. /\ isopen /\ port = "none"
      /\ \/ maker = "mcc" /\ MccConfigureLine
         \/ maker = "ni" /\ NiConfigureLine(p, ok)
         \/ maker = "labjack" /\ LabJackConfigureLine
         \/ maker = "keysight" /\ KeysightProgramPort(l)
  BY DEF ConfigureDigitalLine
<1>1. ~muddled /\ isopen /\ port = "none"
  <2>1. CASE maker = "ni" /\ NiConfigureLine(p, ok)
    BY <1>0, <2>1 DEF NiConfigureLine
  <2>2. CASE maker = "mcc" /\ MccConfigureLine
    BY <1>0, <2>2 DEF MccConfigureLine
  <2>3. CASE maker = "labjack" /\ LabJackConfigureLine
    BY <1>0, <2>3 DEF LabJackConfigureLine
  <2>4. CASE maker = "keysight" /\ KeysightProgramPort(l)
    BY <1>0, <2>4 DEF KeysightProgramPort
  <2> QED  BY <1>0, <2>1, <2>2, <2>3, <2>4
<1>2. /\ logic' = IF ok THEN With(logic, p, l) ELSE logic
      /\ asked' = [q \in DOMAIN asked \ {p} |-> asked[q]]
      /\ heard' = Empty
      /\ UNCHANGED <<maker, input, isopen, sessions, port, level>>
  BY DEF ConfigureDigitalLine, kept
<1>3. \/ maker = "ni" /\ ok /\ inverted' = inverted
      \/ maker \in {"mcc", "labjack"} /\ inverted' = inverted
      \/ maker = "keysight" /\ inverted' = (l = "LOW") /\ \A q \in DOMAIN logic : logic[q] = l
  BY <1>0 DEF NiConfigureLine, MccConfigureLine, LabJackConfigureLine, KeysightProgramPort
<1>4. RegistryInv /\ PolarityInv /\ CacheInv /\ LinesAreTheirOwn
  BY <1>1 DEF LinesInv
<1>5. RegistryInv'
  BY <1>1, <1>2, <1>4 DEF RegistryInv, With
<1>6. PolarityInv'
  <2>1. CASE maker = "keysight"
    <3>1. inverted' = (l = "LOW") /\ \A q \in DOMAIN logic' : logic'[q] = l
      BY <1>2, <1>3, <2>1 DEF With
    <3> QED  BY <1>1, <1>2, <2>1, <3>1 DEF PolarityInv
  <2>2. CASE maker # "keysight"
    BY <1>2, <1>3, <1>4, <2>2 DEF PolarityInv
  <2> QED  BY <2>1, <2>2
<1>7. CacheInv'
  BY <1>2, NiConfigureKeepsCache DEF CacheInv
<1>8. LinesAreTheirOwn'
  <2>1. ASSUME NEW q \in DOMAIN asked', ~input
        PROVE  Wire(q)' = asked'[q]
    <3>1. q \in DOMAIN asked /\ q # p /\ asked'[q] = asked[q] /\ q \in DOMAIN logic
      BY <1>1, <1>2, <1>4, <2>1 DEF RegistryInv
    <3>2. Wire(q) = asked[q]
      BY <1>1, <1>4, <2>1, <3>1 DEF LinesAreTheirOwn
    <3>3. inverted' <=> inverted
      BY <1>3, <1>4, <3>1 DEF PolarityInv
    <3> QED  BY <1>2, <3>1, <3>2, <3>3 DEF Wire, Flip
  <2> QED  BY <1>2, <2>1 DEF LinesAreTheirOwn, Empty
<1> QED  BY <1>5, <1>6, <1>7, <1>8 DEF LinesInv

LEMMA ConfigurePortKeepsLines ==
  ASSUME LinesInv, ~muddled', NEW l \in Logics, ConfigureDigitalPort(l)
  PROVE  LinesInv'
<1>0. \/ maker = "mcc" /\ UNCHANGED <<cache, task, inverted, muddled>>
      \/ maker = "ni" /\ NiConfigurePort /\ UNCHANGED muddled
      \/ maker = "keysight" /\ KeysightProgramPort(l)
  BY DEF ConfigureDigitalPort
<1>1. /\ ~muddled /\ isopen /\ DOMAIN logic = {} /\ cache = <<>>
      /\ port' = l /\ asked' = Empty /\ heard' = Empty
      /\ UNCHANGED <<maker, input, isopen, sessions, logic, level, cache>>
  <2>1. /\ isopen /\ DOMAIN logic = {} /\ cache = <<>>
        /\ port' = l /\ asked' = Empty /\ heard' = Empty
        /\ UNCHANGED <<maker, input, isopen, sessions, logic, level>>
    BY DEF ConfigureDigitalPort, kept
  <2>2. CASE maker # "keysight"
    BY <1>0, <2>1, <2>2 DEF NiConfigurePort
  <2>3. CASE maker = "keysight"
    BY <1>0, <2>1, <2>3, Zenon DEF KeysightProgramPort
  <2> QED  BY <2>2, <2>3
<1>2. RegistryInv /\ PolarityInv /\ CacheInv
  BY <1>1 DEF LinesInv
<1>3. RegistryInv'
  BY <1>1, <1>2 DEF RegistryInv, Empty
<1>4. PolarityInv'
  <2>1. IF maker = "keysight" THEN inverted' = (l = "LOW") ELSE inverted' = inverted
    BY <1>0 DEF NiConfigurePort, KeysightProgramPort
  <2> QED  BY <1>1, <1>2, <2>1 DEF PolarityInv
<1>5. CacheInv'
  <2>1. ASSUME maker = "ni" PROVE task' \in Seq(Pins)
    <3>1. task' = [i \in 1..Cardinality(Pins) |-> i - 1]
      BY <2>1 DEF ConfigureDigitalPort, NiConfigurePort
    <3>2. Cardinality(Pins) \in Nat
      BY PinsAssumption, FS_CardinalityType
    <3>3. \A i \in 1..Cardinality(Pins) : i - 1 \in Pins
      <4>1. \A n \in Nat : \A i \in 1..n : i - 1 \in 0..n - 1
        OBVIOUS
      <4> QED  BY <3>2, <4>1, PinsAssumption
    <3> QED  BY <3>1, <3>2, <3>3
  <2> QED  BY <1>1, <1>2, <2>1 DEF CacheInv, Logics
<1>6. LinesAreTheirOwn'
  BY <1>1 DEF LinesAreTheirOwn, Empty
<1> QED  BY <1>3, <1>4, <1>5, <1>6 DEF LinesInv

\* While there is a task for configured lines, cache and task are of the same lines.
LEMMA LinesOfTheTask ==
  ASSUME LinesInv, ~muddled, maker = "ni", isopen, task # <<>>, NEW p \in DOMAIN logic
  PROVE  /\ p \in Pins /\ port = "none" /\ sessions = 1 /\ Cached(p)
         /\ cache \in Seq([pin : Pins, bit : Int]) /\ task \in Seq(Pins)
         /\ Len(cache) = Len(task) /\ DOMAIN cache = DOMAIN task
         /\ \A i \in DOMAIN cache :
              /\ cache[i].pin = task[i] /\ task[i] \in DOMAIN logic
              /\ ~input /\ task[i] \in DOMAIN asked => cache[i].bit = asked[task[i]]
<1>1. RegistryInv /\ CacheInv
  BY DEF LinesInv
<1>2. p \in Pins /\ port = "none" /\ Cached(p)
  BY <1>1 DEF RegistryInv, CacheInv
<1>3. sessions = 1
  BY <1>1, <1>2 DEF CacheInv
<1>4. Len(cache) = Len(task) /\ cache \in Seq([pin : Pins, bit : Int]) /\ task \in Seq(Pins)
  BY <1>1, <1>2, <1>3 DEF CacheInv
<1>5. \A i \in DOMAIN cache :
        /\ cache[i].pin = task[i] /\ task[i] \in DOMAIN logic
        /\ ~input /\ task[i] \in DOMAIN asked => cache[i].bit = asked[task[i]]
  BY <1>1, <1>2, <1>3 DEF CacheInv
<1> QED  BY <1>2, <1>3, <1>4, <1>5

LEMMA FlipInt ==
  ASSUME NEW data \in 0..1, NEW b
  PROVE  Flip(data, b) \in Int
BY DEF Flip

\* All lines of the task are sent again: each with the level last asked of it.
LEMMA NiWriteKeepsLines ==
  ASSUME LinesInv, ~muddled', NEW p \in Pins, NEW data \in 0..1, WriteDigitalLine(p, data),
         maker = "ni"
  PROVE  LinesInv'
<1> DEFINE raw == Flip(data, logic[p] = "LOW")
<1>1. /\ ~muddled /\ isopen /\ ~input /\ p \in DOMAIN logic
      /\ NiSend(p, raw) /\ asked' = With(asked, p, raw)
      /\ UNCHANGED <<maker, input, isopen, sessions, logic, port, task, inverted, heard>>
  BY DEF WriteDigitalLine, kept
<1>2. /\ port = "none" /\ sessions = 1 /\ Cached(p)
      /\ cache \in Seq([pin : Pins, bit : Int]) /\ task \in Seq(Pins)
      /\ Len(cache) = Len(task) /\ DOMAIN cache = DOMAIN task
      /\ \A i \in DOMAIN cache :
           /\ cache[i].pin = task[i] /\ task[i] \in DOMAIN logic
           /\ ~input /\ task[i] \in DOMAIN asked => cache[i].bit = asked[task[i]]
  BY <1>1, LinesOfTheTask DEF NiSend
<1>3. raw \in Int
  BY FlipInt
<1> HIDE DEF raw
<1>4. cache' = [i \in DOMAIN cache |->
                  IF cache[i].pin = p THEN [cache[i] EXCEPT !.bit = raw] ELSE cache[i]]
  BY <1>1, <1>2 DEF NiSend, CacheSet
<1>5. ASSUME NEW i \in DOMAIN cache
      PROVE  /\ cache'[i] \in [pin : Pins, bit : Int]
             /\ cache'[i].pin = task[i]
             /\ task[i] \in DOMAIN asked' => cache'[i].bit = asked'[task[i]]
  <2>1. cache[i] \in [pin : Pins, bit : Int] /\ cache[i].pin = task[i]
    <3> DEFINE Entries == [pin : Pins, bit : Int]
    <3>1. cache \in Seq(Entries)
      BY <1>2
    <3>2. cache[i] \in Entries
      <4> HIDE DEF Entries
      <4>1. i \in 1..Len(cache)
        BY <3>1
      <4> QED  BY <3>1, <4>1, ElementOfSeq
    <3> QED  BY <1>2, <3>2
  <2>2. CASE task[i] = p
    BY <2>1, <2>2, <1>1, <1>3, <1>4 DEF With
  <2>3. CASE task[i] # p
    BY <2>1, <2>3, <1>1, <1>2, <1>4 DEF With
  <2> QED  BY <2>2, <2>3
<1>6. cache' \in Seq([pin : Pins, bit : Int]) /\ Len(cache') = Len(cache) /\ DOMAIN cache' = DOMAIN cache
  <2>1. DOMAIN cache' = 1..Len(cache) /\ Len(cache) \in Nat
    BY <1>2, <1>4
  <2> QED  BY <2>1, <1>2, <1>4, <1>5
<1>7. RegistryInv
  BY <1>1 DEF LinesInv
<1>8. ASSUME NEW q \in DOMAIN logic
      PROVE  /\ Wired(q) /\ Cached(q)'
             /\ LET j == CHOOSE i \in DOMAIN task : task[i] = q
                IN  j \in DOMAIN cache /\ task[j] = q
  <2>1. PICK i \in DOMAIN cache : cache[i].pin = q
    BY <1>1 DEF LinesInv, CacheInv, Cached
  <2>2. i \in DOMAIN task /\ task[i] = q /\ cache'[i].pin = q /\ i \in DOMAIN cache'
    BY <2>1, <1>2, <1>5, <1>6
  <2> QED  BY <2>2, <1>2 DEF Wired, Cached
<1>9. ASSUME NEW q \in Pins
      PROVE  level'[q] \in Int /\ (q \in DOMAIN asked' => level'[q] = asked'[q])
  <2> DEFINE j == CHOOSE i \in DOMAIN task : task[i] = q
  <2>1. level'[q] = IF Wired(q) THEN cache'[j].bit ELSE level[q]
    BY <1>1 DEF NiSend
  <2>2. Wired(q) => j \in DOMAIN cache /\ task[j] = q
    BY <1>2 DEF Wired
  <2>3. q \in DOMAIN asked' => Wired(q)
    BY <1>1, <1>2, <1>7, <1>8 DEF RegistryInv, With
  <2> HIDE DEF j
  <2>4. Wired(q) => cache'[j].bit \in Int
    BY <2>2, <1>5
  <2>5. level[q] \in Int
    BY <1>7 DEF RegistryInv
  <2> QED  BY <2>1, <2>2, <2>3, <2>4, <2>5, <1>5
<1>10. RegistryInv'
  <2>1. level' = [q \in Pins |-> level'[q]]
    BY <1>1 DEF NiSend
  <2>2. level' \in [Pins -> Int]
    BY <2>1, <1>9
  <2> QED  BY <2>2, <1>1, <1>7 DEF RegistryInv, With
<1>11. PolarityInv'
  BY <1>1 DEF LinesInv, PolarityInv
<1>12. CacheInv'
  <2>1. \A q \in DOMAIN logic' : Cached(q)'
    BY <1>1, <1>8
  <2>2. \A i \in DOMAIN cache' :
          /\ cache'[i].pin = task'[i] /\ task'[i] \in DOMAIN logic'
          /\ ~input' /\ task'[i] \in DOMAIN asked' => cache'[i].bit = asked'[task'[i]]
    BY <1>1, <1>2, <1>5, <1>6
  <2> QED  BY <1>1, <1>2, <1>6, <2>1, <2>2 DEF CacheInv
<1>13. LinesAreTheirOwn'
  <2>1. \A q \in DOMAIN asked' : q \in Pins /\ level'[q] = asked'[q]
    BY <1>9, <1>10 DEF RegistryInv
  <2>2. ~inverted'
    BY <1>1, <1>11 DEF PolarityInv
  <2> QED  BY <1>1, <2>1, <2>2 DEF LinesAreTheirOwn, Wire, Flip
<1> QED  BY <1>10, <1>11, <1>12, <1>13 DEF LinesInv

LEMMA WriteKeepsLines ==
  ASSUME LinesInv, ~muddled', NEW p \in Pins, NEW data \in 0..1,
         WriteDigitalLine(p, data) \/ WriteRefused(p, data)
  PROVE  LinesInv'
<1>1. CASE WriteDigitalLine(p, data) /\ maker = "ni"
  BY <1>1, NiWriteKeepsLines
<1>2. CASE WriteRefused(p, data)
  <2>1. /\ ~muddled /\ maker = "ni" /\ isopen /\ task # <<>> /\ p \in DOMAIN logic
        /\ cache' = CacheSet(p, Flip(data, logic[p] = "LOW")) /\ Len(cache') # Len(task)
    BY <1>2 DEF WriteRefused, NiSendRefused
  <2>2. Cached(p) /\ Len(cache) = Len(task) /\ cache \in Seq([pin : Pins, bit : Int])
    BY <2>1, LinesOfTheTask
  <2>3. Len(cache') = Len(cache)
    BY <2>1, <2>2 DEF CacheSet
  <2> QED  BY <2>1, <2>2, <2>3
<1>3. CASE WriteDigitalLine(p, data) /\ maker # "ni"
  <2> DEFINE raw == Flip(data, logic[p] = "LOW")
  <2>1. /\ ~muddled /\ isopen /\ ~input /\ p \in DOMAIN logic
        /\ asked' = With(asked, p, raw)
        /\ UNCHANGED <<maker, input, isopen, sessions, logic, port, task, inverted, heard>>
    BY <1>3 DEF WriteDigitalLine, kept
  <2>2. RegistryInv /\ PolarityInv /\ LinesAreTheirOwn
    BY <2>1 DEF LinesInv
  <2>3. PICK value \in Int : /\ level' = [level EXCEPT ![p] = value]
                             /\ Flip(value, inverted) = raw
    <3>1. CASE maker = "keysight"
      <4>1. level' = [level EXCEPT ![p] = data]
        BY <1>3, <3>1 DEF WriteDigitalLine, KeysightSend
      <4>2. inverted = (logic[p] = "LOW")
        BY <2>1, <2>2, <3>1 DEF PolarityInv
      <4>3. data \in Int /\ Flip(data, inverted) = raw
        BY <4>2
      <4> QED  BY <4>1, <4>3
    <3>2. CASE maker # "keysight"
      <4>1. level' = [level EXCEPT ![p] = raw]
        BY <1>3, <3>2 DEF WriteDigitalLine, MccSend, LabJackSend
      <4>2. ~inverted
        BY <2>2, <3>2 DEF PolarityInv
      <4>3. raw \in Int
        BY FlipInt
      <4> QED  BY <4>1, <4>2, <4>3 DEF Flip
    <3> QED  BY <3>1, <3>2
  <2>4. RegistryInv'
    BY <2>1, <2>2, <2>3 DEF RegistryInv, With
  <2>5. PolarityInv' /\ CacheInv'
    BY <1>3, <2>1, <2>2 DEF PolarityInv, CacheInv
  <2>6. LinesAreTheirOwn'
    <3>1. ASSUME NEW q \in DOMAIN asked' PROVE Wire(q)' = asked'[q]
      <4>1. CASE q = p
        BY <2>1, <2>2, <2>3, <4>1 DEF Wire, With, RegistryInv
      <4>2. CASE q # p
        <5>1. q \in DOMAIN asked /\ asked'[q] = asked[q]
          BY <2>1, <4>2 DEF With
        <5>2. Wire(q) = asked[q]
          BY <2>1, <2>2, <5>1 DEF LinesAreTheirOwn
        <5>3. level'[q] = level[q]
          BY <2>2, <2>3, <4>2, <5>1 DEF RegistryInv
        <5> QED  BY <2>1, <5>1, <5>2, <5>3 DEF Wire
      <4> QED  BY <4>1, <4>2
    <3> QED  BY <2>1, <3>1 DEF LinesAreTheirOwn
  <2> QED  BY <2>4, <2>5, <2>6 DEF LinesInv
<1> QED  BY <1>1, <1>2, <1>3

\* An active-low port takes the mask less the data: every line the other way round.
LEMMA PortComplement ==
  ASSUME PowersOfTwo, NEW data \in 0..Mask, NEW p \in Pins
  PROVE  Bit(Mask - data, p) = 1 - Bit(data, p) /\ Bit(data, p) \in Int
<1> DEFINE n == Cardinality(Pins)
           m == 2 ^ p
           k == 2 ^ (n - 1 - p)
<1>1. n \in Nat /\ p \in 0..n - 1
  BY PinsAssumption, FS_CardinalityType
<1>2. m \in Nat \ {0} /\ k \in Nat \ {0}
  BY <1>1 DEF PowersOfTwo
<1>3. 2 ^ n = m * (2 * k)
  <2>1. n - 1 - p \in Nat /\ p \in Nat /\ 1 \in Nat /\ 1 + (n - 1 - p) \in Nat /\ n = p + (1 + (n - 1 - p))
    BY <1>1
  <2>2. 2 ^ (1 + (n - 1 - p)) = 2 ^ 1 * k /\ 2 ^ 1 = 2
    BY <2>1 DEF PowersOfTwo
  <2>3. 2 ^ (p + (1 + (n - 1 - p))) = m * 2 ^ (1 + (n - 1 - p))
    BY <2>1 DEF PowersOfTwo
  <2> QED  BY <2>1, <2>2, <2>3
<1>4. Mask = m * (2 * k) - 1
  BY <1>3 DEF Mask
<1> HIDE DEF m, k
<1>5. ((m * (2 * k) - 1 - data) \div m) % 2 = 1 - ((data \div m) % 2)
  BY <1>2, <1>4, ComplementBit
<1>6. (data \div m) % 2 \in Int
  <2>1. data \in Int
    BY <1>2, <1>4
  <2> QED  BY <1>2, <2>1
<1> QED  BY <1>4, <1>5, <1>6 DEF Bit, m

LEMMA WritePortKeepsLines ==
  ASSUME PowersOfTwo, LinesInv, ~muddled', NEW data \in 0..Mask + 1, WriteDigitalPort(data)
  PROVE  LinesInv'
<1>1. /\ ~muddled /\ isopen /\ ~input /\ port # "none" /\ data <= Mask
      /\ asked' = [p \in Pins |-> Flip(Bit(data, p), port = "LOW")]
      /\ UNCHANGED <<maker, input, isopen, sessions, logic, port, task, cache, inverted, heard>>
  BY DEF WriteDigitalPort, kept
<1>2. RegistryInv /\ PolarityInv /\ CacheInv
  BY <1>1 DEF LinesInv
<1>3. Mask \in Int
  <2>1. Cardinality(Pins) \in Nat
    BY PinsAssumption, FS_CardinalityType
  <2> QED  BY <2>1 DEF Mask, PowersOfTwo
<1>4. data \in 0..Mask
  BY <1>1, <1>3
<1>5. \A p \in Pins : Bit(Mask - data, p) = 1 - Bit(data, p) /\ Bit(data, p) \in Int
  BY <1>4, PortComplement
<1>6. /\ level' \in [Pins -> Int]
      /\ \A p \in Pins : Flip(level'[p], inverted) = Flip(Bit(data, p), port = "LOW")
  <2>1. CASE maker = "keysight"
    <3>1. level' = [p \in Pins |-> Bit(data, p)] /\ inverted = (port = "LOW")
      BY <1>1, <1>2, <2>1 DEF WriteDigitalPort, KeysightPortLevels, PolarityInv
    <3> QED  BY <1>5, <3>1
  <2>2. CASE maker # "keysight"
    <3>1. level' = [p \in Pins |-> Bit(IF port = "LOW" THEN Mask - data ELSE data, p)] /\ ~inverted
      BY <1>1, <1>2, <2>2 DEF WriteDigitalPort, NiPortLevels, MccPortLevels, PolarityInv
    <3> QED  BY <1>5, <3>1 DEF Flip
  <2> QED  BY <2>1, <2>2
<1>7. RegistryInv'
  BY <1>1, <1>2, <1>6 DEF RegistryInv
<1>8. PolarityInv' /\ CacheInv'
  BY <1>1, <1>2 DEF PolarityInv, CacheInv, Cached
<1>9. LinesAreTheirOwn'
  BY <1>1, <1>6 DEF LinesAreTheirOwn, Wire
<1> QED  BY <1>7, <1>8, <1>9 DEF LinesInv

\* A read of one NI line takes all lines of the task, and the answer is at the line's place.
LEMMA NiReadKeepsLines ==
  ASSUME LinesInv, ~muddled', NEW p \in Pins, ReadDigitalLine(p), maker = "ni"
  PROVE  /\ heard' = With(Empty, p, Flip(level[p], logic[p] = "LOW"))
         /\ CacheInv'
<1> DEFINE place == CHOOSE i \in DOMAIN cache : cache[i].pin = p
<1>1. /\ ~muddled /\ isopen /\ input /\ p \in DOMAIN logic /\ NiSense(p)
      /\ UNCHANGED <<maker, input, isopen, sessions, logic, port, task, level, asked>>
  BY DEF ReadDigitalLine, kept
<1>2. RegistryInv /\ CacheInv
  BY <1>1 DEF LinesInv
<1>3. task # <<>>
  <2>1. Cached(p) /\ cache \in Seq([pin : Pins, bit : Int])
    BY <1>1, <1>2 DEF CacheInv
  <2>2. Len(cache) # 0
    BY <2>1 DEF Cached
  <2> QED  BY <1>1, <2>1, <2>2 DEF NiSense
<1>4. /\ port = "none" /\ sessions = 1 /\ Cached(p)
      /\ cache \in Seq([pin : Pins, bit : Int]) /\ task \in Seq(Pins)
      /\ Len(cache) = Len(task) /\ DOMAIN cache = DOMAIN task
      /\ \A i \in DOMAIN cache : cache[i].pin = task[i] /\ task[i] \in DOMAIN logic
  BY <1>1, <1>3, LinesOfTheTask
<1>5. place \in DOMAIN cache /\ task[place] = p
  BY <1>4 DEF Cached
<1>6. heard' = With(Empty, p, Flip(level[p], logic[p] = "LOW"))
  BY <1>1, <1>5 DEF NiSense
<1>7. cache' = [i \in DOMAIN cache |-> [cache[i] EXCEPT !.bit = level[task[i]]]]
  BY <1>1 DEF NiSense
<1>8. ASSUME NEW i \in DOMAIN cache
      PROVE  cache'[i] \in [pin : Pins, bit : Int] /\ cache'[i].pin = task[i]
  <2> DEFINE Entries == [pin : Pins, bit : Int]
  <2>1. cache \in Seq(Entries) /\ task \in Seq(Pins)
    BY <1>4
  <2>2. cache[i] \in Entries /\ task[i] \in Pins
    <3> HIDE DEF Entries
    <3>1. i \in 1..Len(cache) /\ i \in 1..Len(task)
      BY <2>1, <1>4
    <3> QED  BY <2>1, <3>1, ElementOfSeq
  <2>3. level[task[i]] \in Int
    BY <1>2, <2>2 DEF RegistryInv
  <2> QED  BY <1>4, <1>7, <2>2, <2>3
<1>9. cache' \in Seq([pin : Pins, bit : Int]) /\ Len(cache') = Len(cache) /\ DOMAIN cache' = DOMAIN cache
  <2>1. DOMAIN cache' = 1..Len(cache) /\ Len(cache) \in Nat
    BY <1>4, <1>7
  <2> QED  BY <2>1, <1>4, <1>7, <1>8
<1>10. CacheInv'
  <2>1. \A q \in DOMAIN logic' : Cached(q)'
    <3> SUFFICES ASSUME NEW q \in DOMAIN logic PROVE Cached(q)'
      BY <1>1
    <3>1. PICK i \in DOMAIN cache : cache[i].pin = q
      BY <1>2 DEF CacheInv, Cached
    <3> QED  BY <3>1, <1>4, <1>8, <1>9 DEF Cached
  <2>2. \A i \in DOMAIN cache' :
          /\ cache'[i].pin = task'[i] /\ task'[i] \in DOMAIN logic'
          /\ ~input' /\ task'[i] \in DOMAIN asked' => cache'[i].bit = asked'[task'[i]]
    BY <1>1, <1>4, <1>8, <1>9
  <2> QED  BY <1>1, <1>4, <1>9, <2>1, <2>2 DEF CacheInv
<1> QED  BY <1>6, <1>10

LEMMA ReadKeepsLines ==
  ASSUME LinesInv, ~muddled', NEW p \in Pins, ReadDigitalLine(p)
  PROVE  LinesInv'
<1>1. /\ ~muddled /\ isopen /\ input /\ p \in DOMAIN logic
      /\ UNCHANGED <<maker, input, isopen, sessions, logic, port, task, inverted, level, asked>>
  BY DEF ReadDigitalLine, kept
<1>2. RegistryInv /\ PolarityInv /\ CacheInv
  BY <1>1 DEF LinesInv
<1>3. port = "none"
  BY <1>1, <1>2 DEF RegistryInv
<1>4. heard' = With(Empty, p, Flip(level[p], logic[p] = "LOW")) /\ CacheInv'
  <2>1. CASE maker = "ni"
    BY <2>1, NiReadKeepsLines
  <2>2. CASE maker # "ni"
    <3>1. heard' = With(Empty, p, Flip(level[p], logic[p] = "LOW"))
      <4>1. CASE maker = "keysight"
        <5>1. heard' = With(Empty, p, Flip(level[p], inverted)) /\ inverted = (logic[p] = "LOW")
          BY <1>1, <1>2, <4>1 DEF ReadDigitalLine, KeysightSense, Wire, PolarityInv
        <5> QED  BY <5>1
      <4>2. CASE maker # "keysight"
        BY <2>2, <4>2 DEF ReadDigitalLine, MccSense, LabJackSense
      <4> QED  BY <4>1, <4>2
    <3> QED  BY <1>1, <2>2, <3>1 DEF CacheInv
  <2> QED  BY <2>1, <2>2
<1>5. RegistryInv' /\ PolarityInv'
  BY <1>1, <1>2 DEF RegistryInv, PolarityInv
<1>6. LinesAreTheirOwn'
  BY <1>1, <1>3, <1>4 DEF LinesAreTheirOwn, With, Empty
<1> QED  BY <1>4, <1>5, <1>6 DEF LinesInv

LEMMA ReadPortKeepsLines ==
  ASSUME LinesInv, ~muddled', ReadDigitalPort
  PROVE  LinesInv'
<1>1. /\ ~muddled /\ isopen /\ input /\ port # "none"
      /\ heard' = [p \in Pins |-> IF maker = "keysight" THEN Wire(p) ELSE Flip(level[p], port = "LOW")]
      /\ UNCHANGED <<maker, input, isopen, sessions, logic, port, cache, task, inverted, level, asked>>
  BY DEF ReadDigitalPort, kept
<1>2. RegistryInv /\ PolarityInv /\ CacheInv
  BY <1>1 DEF LinesInv
<1>3. RegistryInv' /\ PolarityInv' /\ CacheInv'
  BY <1>1, <1>2 DEF RegistryInv, PolarityInv, CacheInv, Cached
<1>4. \A p \in Pins : heard'[p] = Flip(level[p], port = "LOW")
  <2>1. maker = "keysight" => inverted = (port = "LOW")
    BY <1>1, <1>2 DEF PolarityInv
  <2> QED  BY <1>1, <2>1 DEF Wire
<1>5. LinesAreTheirOwn'
  BY <1>1, <1>4 DEF LinesAreTheirOwn
<1> QED  BY <1>3, <1>5 DEF LinesInv

LEMMA DriveKeepsLines ==
  ASSUME LinesInv, ~muddled', NEW p \in Pins, Drive(p)
  PROVE  LinesInv'
<1>1. /\ ~muddled /\ input /\ level' = [level EXCEPT ![p] = 1 - @] /\ heard' = Empty
      /\ UNCHANGED <<maker, input, isopen, sessions, logic, port, cache, task, inverted, asked>>
  BY DEF Drive, kept
<1>2. RegistryInv /\ PolarityInv /\ CacheInv
  BY <1>1 DEF LinesInv
<1>3. RegistryInv' /\ PolarityInv' /\ CacheInv'
  BY <1>1, <1>2 DEF RegistryInv, PolarityInv, CacheInv, Cached
<1>4. LinesAreTheirOwn'
  BY <1>1 DEF LinesAreTheirOwn, Empty
<1> QED  BY <1>3, <1>4 DEF LinesInv

\* The analog output and the relay are no lines.
LEMMA OutputsKeepLines ==
  ASSUME LinesInv,
         \/ \E ok \in BOOLEAN : ConfigureOutput(ok)
         \/ \E value \in {"low", "high"} : WriteAnalogValue(value)
         \/ \E closed \in BOOLEAN : SwitchRelay(closed)
         \/ UNCHANGED lineVars
  PROVE  LinesInv'
<1>1. UNCHANGED <<kept, logic, port, cache, task, inverted, level, asked, heard, muddled>>
  BY DEF ConfigureOutput, WriteAnalogValue, SwitchRelay, OutputSet, lineVars
<1> QED  BY <1>1 DEF LinesInv, RegistryInv, PolarityInv, CacheInv, Cached, LinesAreTheirOwn, Wire, kept

LEMMA LinesStep ==
  ASSUME PowersOfTwo, LinesInv, [Next]_vars
  PROVE  LinesInv'
<1>1. LinesNext \/ UNCHANGED lineVars
  BY DEF Next, vars
<1> SUFFICES ASSUME ~muddled', LinesNext PROVE LinesInv'
  BY <1>1, OutputsKeepLines DEF LinesInv
<1>2. CASE OpenLines \/ CloseLines
  BY <1>2, OpenKeepsLines, CloseKeepsLines
<1>3. CASE \E p \in Pins, l \in Logics, ok \in BOOLEAN : ConfigureDigitalLine(p, l, ok)
  BY <1>3, ConfigureKeepsLines
<1>4. CASE \E l \in Logics : ConfigureDigitalPort(l)
  BY <1>4, ConfigurePortKeepsLines
<1>5. CASE \E p \in Pins, data \in 0..1 : WriteDigitalLine(p, data) \/ WriteRefused(p, data)
  BY <1>5, WriteKeepsLines
<1>6. CASE \E data \in 0..(Mask + 1) : WriteDigitalPort(data)
  BY <1>6, WritePortKeepsLines
<1>7. CASE (\E p \in Pins : ReadDigitalLine(p)) \/ ReadDigitalPort
  BY <1>7, ReadKeepsLines, ReadPortKeepsLines
<1>8. CASE \E p \in Pins : Drive(p)
  BY <1>8, DriveKeepsLines
<1>9. CASE \/ \E ok \in BOOLEAN : ConfigureOutput(ok)
           \/ \E value \in {"low", "high"} : WriteAnalogValue(value)
           \/ \E closed \in BOOLEAN : SwitchRelay(closed)
  BY <1>9, OutputsKeepLines
<1> QED  BY <1>2, <1>3, <1>4, <1>5, <1>6, <1>7, <1>8, <1>9 DEF LinesNext

\* On any number of lines, whichever of them are configured, written or read in any order:
\* each carries what was last asked of it and is heard as it is, unless the driver was told
\* that its board refused a line, a registry met a board that had forgotten it, or a
\* Keysight port was given lines of both polarities.
THEOREM EachLineIsItsOwn ==
  ASSUME PowersOfTwo
  PROVE  Spec => []LinesAreTheirOwn
<1>1. Init => LinesInv
  BY InitLines
<1>2. LinesInv /\ [Next]_vars => LinesInv'
  BY LinesStep
<1>3. LinesInv => LinesAreTheirOwn
  BY DEF LinesInv, LinesAreTheirOwn
<1> QED  BY <1>1, <1>2, <1>3, PTL DEF Spec

----------------------------------------------------------------------------
(* What is published *)

\* len samples are published, the first of which is number start: each under its channel.
Publishes(start, len) ==
  /\ DOMAIN out' = 1..len /\ Len(out') = len
  /\ \A p \in 1..len : out'[p].name = out'[p].ch /\ out'[p].at = start + p - 1

\* None of them is stamped earlier than it was taken.
StampedLate(len) == \A p \in 1..len : out'[p].t >= out'[p].at

\* What SamplesContiguous says of a step.
FollowsOn ==
  (out' # out /\ out' # <<>> /\ ~drift' /\ ~skipped' /\ timing # 0) =>
       /\ out'[1].at = IF out = <<>> THEN 0 ELSE out[Len(out)].at + 1
       /\ \A i \in DOMAIN out' \ {1} : out'[i].at = out'[i - 1].at + 1

StamperOK == stamper = <<>> \/ (stamper[1] \in Int /\ stamper = <<stamper[1]>>)

\* A batch of whole scans is published sample by sample under the names of the scan, and
\* stamped no earlier than it was taken when the timeline was not behind.
LEMMA BatchIsPublished ==
  ASSUME NEW names \in Seq(Channels), NEW start \in Nat, NEW data, Scans(names, start, data),
         NEW now \in Int, StamperOK, PublishBatch(names, data, now, Len(names))
  PROVE  /\ Publishes(start, Len(data))
         /\ stamper'[1] \in Int /\ stamper' = <<stamper'[1]>>
         /\ now >= start + Len(data) /\ Stamped(start) =>
              StampedLate(Len(data)) /\ stamper'[1] >= start + Len(data)
<1> DEFINE n == Len(names)
           len == Len(data)
           scans == len \div n
           first == FirstStamp(now, n, scans)
<1>1. n \in Nat \ {0} /\ DOMAIN names = 1..n
  BY DEF Scans
<1>2. /\ len \in Nat \ {0} /\ DOMAIN data = 1..len /\ len % n = 0 /\ start % n = 0
      /\ \A i \in 1..len : /\ data[i].ch = names[((start + i - 1) % n) + 1]
                           /\ data[i].at = start + i - 1
  BY DEF Scans
<1>3. scans \in Nat \ {0} /\ len = n * scans /\ n * (scans - 1) = len - n
  <2> HIDE DEF n, len
  <2> QED  BY <1>1, <1>2, Parts
<1>4. n * (scans - 1) \in Int
  <2> HIDE DEF n, len, scans
  <2> QED  BY <1>1, <1>2, <1>3
<1>5. first = IF stamper = <<>> THEN now - n * (scans - 1) ELSE stamper[1] + n
  BY DEF FirstStamp
<1>6. first \in Int
  BY <1>1, <1>4, <1>5 DEF StamperOK
<1>7. /\ stamper' = <<first + n * (scans - 1)>>
      /\ out' = [p \in DOMAIN data |->
                   [name |-> names[((p - 1) % n) + 1], ch |-> data[p].ch, at |-> data[p].at,
                    t |-> first + ((p - 1) \div n) * n]]
  BY DEF PublishBatch, ReadToMeasurements
<1> HIDE DEF n, len, scans, first
<1>8. Publishes(start, len)
  <2>1. DOMAIN out' = 1..len /\ Len(out') = len
    BY <1>2, <1>7
  <2>2. ASSUME NEW p \in 1..len
        PROVE  out'[p].name = out'[p].ch /\ out'[p].at = start + p - 1
    <3>1. p - 1 \in Nat /\ start + p - 1 = start + (p - 1)
      BY <1>2
    <3>2. (start + p - 1) % n = (p - 1) % n
      BY <1>1, <1>2, <3>1, WholeScans
    <3>3. data[p].ch = names[((p - 1) % n) + 1]
      BY <1>2, <3>2
    <3> QED  BY <1>2, <1>7, <3>3
  <2> QED  BY <2>1, <2>2 DEF Publishes
<1>9. stamper'[1] = first + n * (scans - 1) /\ stamper'[1] \in Int /\ stamper' = <<stamper'[1]>>
  BY <1>4, <1>6, <1>7
<1>10. ASSUME now >= start + len, Stamped(start)
       PROVE  StampedLate(len) /\ stamper'[1] >= start + len
  <2>1. first >= start + n
    <3>1. CASE stamper = <<>>
      BY <3>1, <1>1, <1>2, <1>3, <1>5, <1>10
    <3>2. CASE stamper # <<>>
      BY <3>2, <1>1, <1>2, <1>5, <1>10 DEF Stamped, StamperOK
    <3> QED  BY <3>1, <3>2
  <2>2. ASSUME NEW p \in 1..len PROVE out'[p].t >= out'[p].at
    <3>1. p - 1 \in Nat
      BY <1>2
    <3>2. /\ (p - 1) \div n \in Nat /\ (p - 1) % n \in 0..n - 1
          /\ p - 1 = n * ((p - 1) \div n) + ((p - 1) % n)
      BY <1>1, <3>1, Divided
    <3>3. ((p - 1) \div n) * n = n * ((p - 1) \div n) /\ n * ((p - 1) \div n) \in Int
      BY <1>1, <3>2
    <3>4. out'[p].t = first + ((p - 1) \div n) * n /\ out'[p].at = start + p - 1
      BY <1>2, <1>7
    <3>5. ((p - 1) \div n) * n + n > p - 1
      BY <1>1, <3>1, <3>2, <3>3
    <3> HIDE DEF n
    <3> QED  BY <1>1, <1>6, <2>1, <3>1, <3>3, <3>4, <3>5
  <2>3. stamper'[1] >= start + len
    <3>1. stamper'[1] = first + (len - n)
      BY <1>3, <1>9
    <3> HIDE DEF n, len, first
    <3> QED  BY <1>1, <1>2, <1>6, <2>1, <3>1
  <2> QED  BY <2>2, <2>3 DEF StampedLate
<1> QED  BY <1>8, <1>9, <1>10 DEF len

\* What is published from the next sample on continues what has been published.
LEMMA PublishedFollowsOn ==
  ASSUME OutInv, NEW start \in Nat, NEW len \in Nat \ {0}, Publishes(start, len),
         ~skipped' => start = NextAt /\ StampedLate(len)
  PROVE  OutInv' /\ FollowsOn /\ NextAt' = start + len
<1>1. /\ DOMAIN out' = 1..len /\ Len(out') = len
      /\ \A p \in 1..len : out'[p].name = out'[p].ch /\ out'[p].at = start + p - 1
  BY DEF Publishes
<1>2. out' # <<>>
  BY <1>1
<1>3. OutInv'
  BY <1>1, <1>2 DEF OutInv, StampedLate
<1>4. FollowsOn
  BY <1>1 DEF FollowsOn, NextAt
<1>5. NextAt' = start + len
  BY <1>1, <1>2 DEF NextAt
<1> QED  BY <1>3, <1>4, <1>5

\* A software-timed conversion is published under the names it was made for.
LEMMA ReadingIsPublished ==
  ASSUME NEW list, Len(list) \in Nat \ {0}, DOMAIN list = 1..Len(list), PublishReading(list, list)
  PROVE  OutInv'
<1> DEFINE n == Len(list)
<1>1. n \in Nat \ {0} /\ DOMAIN list = 1..n
  OBVIOUS
<1>2. out' = [p \in 1..n |-> [name |-> list[((p - 1) % n) + 1], ch |-> list[p], at |-> 0,
                              t |-> 0 + ((p - 1) \div n) * 1]]
  BY <1>1 DEF PublishReading, ReadToMeasurements
<1> HIDE DEF n
<1>3. \A p \in 1..n : (p - 1) % n = p - 1 /\ (p - 1) \div n = 0
  <2>1. \A p \in 1..n : p - 1 \in 0..n - 1
    BY <1>1
  <2> QED  BY <1>1, <2>1, Small
<1>4. DOMAIN out' = 1..n /\ Len(out') = n
  BY <1>1, <1>2
<1>5. \A p \in 1..n : out'[p].name = out'[p].ch /\ out'[p].at = 0 /\ out'[p].t = 0
  BY <1>1, <1>2, <1>3
<1> QED  BY <1>1, <1>4, <1>5 DEF OutInv

\* Samples of the scan, taken in a row from the beginning of a scan.
LEMMA SamplesAreScans ==
  ASSUME scanlist \in Seq(Channels), scanlist # <<>>, NEW first \in Nat, first % Len(scanlist) = 0,
         NEW size \in Nat \ {0}, size % Len(scanlist) = 0
  PROVE  /\ Scans(scanlist, first, Samples(first, size)) /\ Len(Samples(first, size)) = size
         /\ Samples(first, size)[1].at = first
<1> DEFINE data == Samples(first, size)
<1>1. DOMAIN data = 1..size /\ Len(data) = size
  BY DEF Samples
<1>2. \A i \in 1..size : /\ data[i].ch = scanlist[((first + i - 1) % Len(scanlist)) + 1]
                         /\ data[i].at = first + i - 1
  BY DEF Samples, Sample
<1> HIDE DEF data
<1>3. data[1].at = first
  <2>1. 1 \in 1..size /\ first + 1 - 1 = first
    OBVIOUS
  <2>2. data[1].at = first + 1 - 1
    BY <1>2, <2>1
  <2> QED  BY <2>1, <2>2
<1>4. Scans(scanlist, first, data)
  BY <1>1, <1>2 DEF Scans
<1> QED  BY <1>1, <1>3, <1>4 DEF data

\* A channel configured again keeps its place.
LEMMA InsertedChannel ==
  ASSUME NEW dict \in Seq(Channels), \A i, j \in DOMAIN dict : dict[i] = dict[j] => i = j,
         NEW key \in Channels
  PROVE  /\ Inserted(dict, key) \in Seq(Channels) /\ Inserted(dict, key) # <<>>
         /\ \A i, j \in DOMAIN Inserted(dict, key) :
              Inserted(dict, key)[i] = Inserted(dict, key)[j] => i = j
         /\ {Inserted(dict, key)[i] : i \in DOMAIN Inserted(dict, key)} =
              {dict[i] : i \in DOMAIN dict} \cup {key}
<1>1. CASE \E i \in DOMAIN dict : dict[i] = key
  <2>1. Inserted(dict, key) = dict
    BY <1>1 DEF Inserted
  <2> QED  BY <1>1, <2>1
<1>2. CASE ~\E i \in DOMAIN dict : dict[i] = key
  <2> DEFINE new == Append(dict, key)
  <2>1. Inserted(dict, key) = new
    BY <1>2 DEF Inserted
  <2>2. /\ new \in Seq(Channels) /\ DOMAIN new = 1..Len(dict) + 1 /\ DOMAIN dict = 1..Len(dict)
        /\ Len(dict) \in Nat /\ new[Len(dict) + 1] = key
        /\ \A i \in 1..Len(dict) : new[i] = dict[i]
    OBVIOUS
  <2> HIDE DEF new
  <2>3. new # <<>>
    BY <2>2
  <2>4. \A i, j \in DOMAIN new : new[i] = new[j] => i = j
    BY <1>2, <2>2
  <2>5. {new[i] : i \in DOMAIN new} = {dict[i] : i \in DOMAIN dict} \cup {key}
    BY <2>2
  <2> QED  BY <2>1, <2>2, <2>3, <2>4, <2>5
<1> QED  BY <1>1, <1>2

\* Steps that neither sample, consume nor publish.
LEMMA QuietStream ==
  ASSUME StreamInv, UNCHANGED <<vendor, opened, base, stamper, board, out, vendorVars, skipped>>,
         fpc' = fpc \/ (fpc \in {"idle", "poll"} /\ fpc' \in {"idle", "poll"})
  PROVE  StreamInv'
<1>1. UNCHANGED <<vendor, opened, ai, timing, stamper, scanning, scanlist, made, taken, out, skipped,
                  ring, counter, window, aitask, queue, routed, timer>>
  BY DEF base, board, vendorVars, mcc, ni, labjack, keysight
<1>2. DataInv' /\ OutInv'
  BY <1>1 DEF StreamInv, DataInv, OutInv
<1>3. vendor = "ni" => NiInv'
  BY <1>1 DEF StreamInv, NiInv, Scanned, NextAt, Stamped, N
<1>4. vendor = "labjack" => LabJackInv'
  BY <1>1 DEF StreamInv, LabJackInv, Scanned, NextAt, Stamped, N
<1>5. vendor = "keysight" => KeysightInv'
  BY <1>1 DEF StreamInv, KeysightInv, NextAt, N
<1>6. vendor = "mcc" => MccInv'
  <2>1. UNCHANGED <<memhandle, buffers, target, bufsize, rawPrev, offset, curr, wall, origin, copy>>
    BY <1>1 DEF ring, counter, window
  <2>2. CASE fpc' = fpc
    BY <1>1, <2>1, <2>2 DEF StreamInv, MccInv, CounterInv, W, WindowInv, NextAt, Stamped, N, FetchSize, Sample
  <2>3. CASE fpc \in {"idle", "poll"} /\ fpc' \in {"idle", "poll"}
    BY <1>1, <2>1, <2>3 DEF StreamInv, MccInv, CounterInv, W, NextAt, Stamped, N, FetchSize
  <2> QED  BY <2>2, <2>3
<1> QED  BY <1>1, <1>2, <1>3, <1>4, <1>5, <1>6 DEF StreamInv

----------------------------------------------------------------------------
(* The control thread, for all vendors *)

LEMMA InitStream == Init => StreamInv
<1> SUFFICES ASSUME Init PROVE StreamInv
  OBVIOUS
<1> USE DEF Init, DriverInit, MccInit, NiInit, LabJackInit, KeysightInit
<1>1. DataInv
  BY DEF DataInv
<1>2. OutInv
  BY DEF OutInv
<1>3. NiInv /\ LabJackInv /\ KeysightInv /\ MccInv
  BY DEF NiInv, LabJackInv, KeysightInv, MccInv
<1> QED  BY <1>1, <1>2, <1>3 DEF StreamInv

LEMMA OpenStream ==
  ASSUME ControlInv, StreamInv, Open, ~drift'
  PROVE  StreamInv'
<1>1. /\ ctl = "idle" /\ daemon = "none" /\ ~opened /\ opened' /\ ~started /\ fpc = "idle"
      /\ UNCHANGED <<vendor, ai, timing, stamper, out, fpc, skipped>>
      /\ ai = <<>> \/ vendor \notin {"ni", "keysight"}
  BY DEF Open, life, base, ControlInv, ThreadsInv
<1>2. vendor # "labjack" => ~scanning
  BY <1>1 DEF ControlInv, ReleaseInv
<1>3. CASE vendor = "mcc"
  <2>1. UNCHANGED <<memhandle, buffers, target, bufsize, rawPrev, offset, window, scanning, made, taken, scanlist, queue>>
    BY <1>3 DEF Open, Of, MccOpen, ring, counter, board, labjack
  <2> QED  BY <1>1, <1>2, <1>3, <2>1 DEF StreamInv, MccInv, DataInv, OutInv
<1>4. CASE vendor = "ni"
  <2>1. UNCHANGED <<aitask, scanning, made, taken, scanlist, queue>>
    BY <1>4 DEF Open, Of, NiOpen, ni, board, labjack
  <2> QED  BY <1>1, <1>2, <1>4, <2>1 DEF StreamInv, NiInv, DataInv, OutInv
<1>5. CASE vendor = "labjack"
  <2>1. UNCHANGED queue /\ ~scanning' /\ made' = 0 /\ taken' = 0
    BY <1>5 DEF Open, Of, LabJackOpen, StopStream, EndScan, labjack
  <2> QED  BY <1>1, <1>5, <2>1 DEF StreamInv, LabJackInv, DataInv, OutInv, Stamped, NextAt
<1>6. CASE vendor = "keysight"
  <2>1. routed' = {} /\ ~timer' /\ ~scanning' /\ taken' = made /\ made' = made /\ UNCHANGED queue
    BY <1>6 DEF Open, Of, KeysightOpen, ClearReadings, labjack
  <2>2. ai = <<>> /\ made \in Nat
    BY <1>1, <1>6 DEF StreamInv, DataInv
  <2>3. KeysightInv'
    BY <1>1, <2>1, <2>2 DEF KeysightInv
  <2> QED  BY <1>1, <1>6, <2>1, <2>2, <2>3 DEF StreamInv, DataInv, OutInv
<1> QED  BY <1>3, <1>4, <1>5, <1>6 DEF Open, Of

LEMMA ConfigureStream ==
  ASSUME ControlInv, StreamInv, ~drift', NEW c \in Channels, NEW scaler \in BOOLEAN, NEW ok \in BOOLEAN,
         ConfigureAnalogChannel(c, scaler, ok)
  PROVE  StreamInv'
<1>1. /\ ~drift /\ ok /\ ~scanning /\ queue = <<>>
      /\ UNCHANGED <<vendor, opened, timing, stamper, out, fpc, skipped>>
      /\ opened /\ ctl = "idle" /\ daemon = "none" /\ fpc = "idle"
  <2>1. /\ UNCHANGED <<vendor, opened, timing, stamper, out, fpc, skipped>>
        /\ opened /\ ctl = "idle" /\ daemon = "none"
        /\ drift' = (drift \/ ~ok \/ scanning \/ queue # <<>>)
    BY DEF ConfigureAnalogChannel, MayConfigure, life, control
  <2>2. fpc = "idle"
    BY <2>1 DEF ControlInv, ThreadsInv
  <2> QED  BY <2>1, <2>2
<1>2. /\ ai' = Inserted(ai, c) /\ queue' = queue /\ scanning' = scanning
      /\ made' = made /\ taken' \in {made, taken}
  <2>1. CASE vendor = "mcc"
    BY <1>1, <2>1 DEF ConfigureAnalogChannel, Of, MccConfigureAi, board, labjack
  <2>2. CASE vendor = "ni"
    BY <1>1, <2>2 DEF ConfigureAnalogChannel, Of, NiConfigureAi, board, labjack
  <2>3. CASE vendor = "labjack"
    BY <1>1, <2>3 DEF ConfigureAnalogChannel, Of, LabJackConfigureAi, board, labjack
  <2>4. CASE vendor = "keysight"
    BY <1>1, <2>4 DEF ConfigureAnalogChannel, Of, KeysightConfigureAi, ClearReadings, labjack
  <2> QED  BY <2>1, <2>2, <2>3, <2>4 DEF ConfigureAnalogChannel, Of
<1>3. DataInv /\ OutInv
  BY DEF StreamInv
<1>4. /\ ai' \in Seq(Channels) /\ ai' # <<>>
      /\ \A i, j \in DOMAIN ai' : ai'[i] = ai'[j] => i = j
      /\ {ai'[i] : i \in DOMAIN ai'} = {ai[i] : i \in DOMAIN ai} \cup {c}
  <2>1. ai \in Seq(Channels) /\ \A i, j \in DOMAIN ai : ai[i] = ai[j] => i = j
    BY <1>3 DEF DataInv
  <2> DEFINE new == Inserted(ai, c)
  <2>2. new \in Seq(Channels) /\ new # <<>>
    BY <2>1, InsertedChannel
  <2>3. \A i, j \in DOMAIN new : new[i] = new[j] => i = j
    BY <2>1, InsertedChannel
  <2>4. {new[i] : i \in DOMAIN new} = {ai[i] : i \in DOMAIN ai} \cup {c}
    BY <2>1, InsertedChannel
  <2> QED  BY <1>2, <2>2, <2>3, <2>4
<1>5. DataInv' /\ OutInv'
  BY <1>1, <1>2, <1>3, <1>4 DEF DataInv, OutInv
<1>6. vendor = "mcc" => MccInv'
  <2> SUFFICES ASSUME vendor = "mcc" PROVE MccInv'
    OBVIOUS
  <2>1. UNCHANGED memhandle
    BY DEF ConfigureAnalogChannel, Of, mcc, ring
  <2>2. memhandle = 0
    BY <1>1 DEF StreamInv, MccInv
  <2> QED  BY <1>1, <1>2, <2>1, <2>2 DEF MccInv
<1>7. vendor = "ni" => NiInv'
  <2> SUFFICES ASSUME vendor = "ni" PROVE NiInv'
    OBVIOUS
  <2>1. NiConfigureAi(c)
    BY DEF ConfigureAnalogChannel, Of
  <2>2. aitask = ai /\ ~skipped
    BY <1>1 DEF StreamInv, NiInv
  <2>3. ai' = Append(ai, c) /\ aitask' = Append(aitask, c)
    BY <1>2, <2>1, <2>2 DEF NiConfigureAi, Inserted, InTask
  <2> QED  BY <1>1, <1>2, <2>2, <2>3 DEF NiInv
<1>8. vendor = "labjack" => LabJackInv'
  BY <1>1, <1>2 DEF StreamInv, LabJackInv
<1>9. vendor = "keysight" => KeysightInv'
  <2> SUFFICES ASSUME vendor = "keysight" PROVE KeysightInv'
    OBVIOUS
  <2>1. routed' = routed \cup {c} /\ taken' = made /\ UNCHANGED timer
    BY DEF ConfigureAnalogChannel, Of, KeysightConfigureAi, ClearReadings
  <2>2. routed' = {ai'[i] : i \in DOMAIN ai'}
    BY <1>4, <2>1 DEF StreamInv, KeysightInv
  <2>3. timer' => timing' # 0
    BY <1>1, <2>1 DEF StreamInv, KeysightInv
  <2>4. ~(scanning' \/ made' > taken')
    BY <1>1, <1>2, <1>3, <2>1 DEF DataInv
  <2> QED  BY <2>2, <2>3, <2>4 DEF KeysightInv
<1> QED  BY <1>1, <1>2, <1>5, <1>6, <1>7, <1>8, <1>9 DEF StreamInv

LEMMA SampleRateStream ==
  ASSUME ControlInv, StreamInv, ConfigureAiSampleRate
  PROVE  StreamInv'
<1>1. /\ UNCHANGED <<vendor, opened, ai, stamper, out, fpc, skipped>>
      /\ ctl = "idle" /\ daemon = "none" /\ fpc = "idle" /\ ~started
  <2>1. /\ UNCHANGED <<vendor, opened, ai, stamper, out, fpc, skipped>>
        /\ ctl = "idle" /\ daemon = "none" /\ ~started
    BY DEF ConfigureAiSampleRate, MayConfigure, life, control, marks
  <2>2. fpc = "idle"
    BY <2>1 DEF ControlInv, ThreadsInv
  <2> QED  BY <2>1, <2>2
<1>2. vendor # "labjack" => ~scanning
  BY <1>1 DEF ControlInv, ReleaseInv
<1>3. /\ timing' = PerChannel /\ queue' = queue /\ scanning' = scanning /\ scanlist' = scanlist
      /\ made' = made /\ taken' \in {made, taken}
  <2>1. CASE vendor = "mcc"
    BY <2>1 DEF ConfigureAiSampleRate, Of, MccConfigureTiming, board, labjack
  <2>2. CASE vendor = "ni"
    BY <2>2 DEF ConfigureAiSampleRate, Of, NiConfigureTiming, board, labjack
  <2>3. CASE vendor = "labjack"
    BY <2>3 DEF ConfigureAiSampleRate, Of, LabJackConfigureTiming, board, labjack
  <2>4. CASE vendor = "keysight"
    BY <2>4 DEF ConfigureAiSampleRate, Of, KeysightConfigureTiming, ClearReadings, labjack
  <2> QED  BY <2>1, <2>2, <2>3, <2>4 DEF ConfigureAiSampleRate, Of
<1>4. DataInv /\ OutInv
  BY DEF StreamInv
<1>5. DataInv' /\ OutInv'
  BY <1>1, <1>3, <1>4 DEF DataInv, OutInv
<1>6. PerChannel # 0
  BY PerChannelAssumption
<1>7. vendor = "mcc" => MccInv'
  <2> SUFFICES ASSUME vendor = "mcc" PROVE MccInv'
    OBVIOUS
  <2>1. UNCHANGED memhandle
    BY DEF ConfigureAiSampleRate, Of, mcc, ring
  <2>2. memhandle = 0
    BY <1>2 DEF StreamInv, MccInv
  <2> QED  BY <1>1, <1>2, <1>3, <2>1, <2>2 DEF MccInv
<1>8. vendor = "ni" => NiInv'
  <2> SUFFICES ASSUME vendor = "ni" PROVE NiInv'
    OBVIOUS
  <2>1. UNCHANGED aitask
    BY DEF ConfigureAiSampleRate, Of, NiConfigureTiming
  <2> QED  BY <1>1, <1>2, <1>3, <2>1 DEF StreamInv, NiInv
<1>9. vendor = "labjack" => LabJackInv'
  <2> SUFFICES ASSUME vendor = "labjack" PROVE LabJackInv'
    OBVIOUS
  <2>1. UNCHANGED taken
    BY DEF ConfigureAiSampleRate, Of, board
  <2> QED  BY <1>1, <1>3, <1>6, <2>1 DEF StreamInv, LabJackInv, Scanned, N, NextAt, Stamped
<1>10. vendor = "keysight" => KeysightInv'
  <2> SUFFICES ASSUME vendor = "keysight" PROVE KeysightInv'
    OBVIOUS
  <2>1. routed' = routed /\ taken' = made
    BY DEF ConfigureAiSampleRate, Of, KeysightConfigureTiming, ClearReadings
  <2>2. ~(scanning' \/ made' > taken')
    BY <1>2, <1>3, <1>4, <2>1 DEF DataInv
  <2> QED  BY <1>1, <1>3, <1>6, <2>1, <2>2 DEF StreamInv, KeysightInv
<1> QED  BY <1>1, <1>3, <1>5, <1>7, <1>8, <1>9, <1>10 DEF StreamInv

LEMMA PowersArePositive ==
  ASSUME PowersOfTwo
  PROVE  W \in Nat \ {0}
BY RingAssumption DEF PowersOfTwo, W

\* The instrument's scan list has as many channels as are registered.
LEMMA AscendingList ==
  ASSUME DataInv
  PROVE  /\ N \in Nat /\ Cardinality({ai[i] : i \in DOMAIN ai}) = N
         /\ Len(GetScanlist) = N /\ DOMAIN GetScanlist = 1..N
<1> DEFINE S == {ai[i] : i \in DOMAIN ai}
           list == Ascending(S)
<1>1. N \in Nat /\ DOMAIN ai = 1..N
  BY DEF DataInv, N
<1>2. IsFiniteSet(1..N) /\ Cardinality(1..N) = N
  BY <1>1, FS_Interval
<1>3. ai \in Bijection(1..N, S)
  <2>1. ai \in [1..N -> S]
    BY <1>1 DEF DataInv
  <2>2. \A a, b \in 1..N : ai[a] = ai[b] => a = b
    BY <1>1 DEF DataInv
  <2>3. \A t \in S : \E a \in 1..N : ai[a] = t
    BY <1>1
  <2> QED  BY <2>1, <2>2, <2>3 DEF Bijection, Injection, Surjection, IsInjective
<1>4. IsFiniteSet(S) /\ Cardinality(S) = N
  <2> HIDE DEF S
  <2>1. ExistsBijection(1..N, S)
    BY <1>3 DEF ExistsBijection
  <2> QED  BY <1>2, <2>1, FS_Bijection
<1>5. DOMAIN list = 1..N /\ Len(list) = N
  <2>1. list = [i \in 1..N |-> CHOOSE x \in S : Cardinality({d \in S : d < x}) = i - 1]
    BY <1>4 DEF Ascending
  <2> QED  BY <1>1, <2>1
<1> QED  BY <1>1, <1>4, <1>5 DEF GetScanlist

LEMMA StartStream ==
  ASSUME PowersOfTwo, ControlInv, StreamInv, ~drift', NEW background \in BOOLEAN, Start(background)
  PROVE  StreamInv'
<1>1. /\ ctl = "idle" /\ opened /\ daemon = "none" /\ fpc = "idle" /\ fpc' = "idle"
      /\ queue = <<>> /\ ~skipped'
      /\ out' = IF taken' = 0 THEN <<>> ELSE out
      /\ UNCHANGED <<vendor, opened, ai, timing>>
  <2>1. /\ ctl = "idle" /\ opened /\ daemon = "none" /\ UNCHANGED <<vendor, opened, ai, timing, fpc>>
        /\ skipped' = FALSE /\ drift' = (drift \/ queue # <<>>)
        /\ out' = IF taken' = 0 THEN <<>> ELSE out
    BY DEF Start, Begin, life, base
  <2>2. fpc = "idle"
    BY <2>1 DEF ControlInv, ThreadsInv
  <2> QED  BY <2>1, <2>2
<1>2. DataInv /\ OutInv
  BY DEF StreamInv
<1>3. CASE vendor = "mcc"
  <2>1. MccStart(TRUE) /\ UNCHANGED queue
    BY <1>3 DEF Start, Of, labjack
  <2>2. /\ stamper' = <<>> /\ rawPrev' = 0 /\ offset' = 0
        /\ timing # 0 /\ ai # <<>>
        /\ memhandle' = CHOOSE b \in Buffers \ buffers : TRUE
        /\ target' = memhandle' /\ bufsize' = FetchSize * Multiplier
        /\ scanning' = TRUE /\ scanlist' = ai /\ made' = 0 /\ taken' = 0
    BY <2>1 DEF MccStart, BeginScan, ChannelLists
  <2>3. DataInv' /\ OutInv' /\ NextAt' = 0
    BY <1>1, <1>2, <2>2 DEF DataInv, OutInv, NextAt
  <2>4. N \in Nat \ {0} /\ 0 % N = 0
    <3>1. N \in Nat \ {0}
      BY <1>2, <2>2 DEF DataInv, N
    <3> QED  BY <3>1, Small
  <2>5. CounterInv'
    <3>1. W \in Nat \ {0} /\ 0 % W = 0
      BY PowersArePositive, Small
    <3> QED  BY <2>2, <3>1 DEF CounterInv, W
  <2>6. FetchSize' = FetchSize /\ N' = N
    BY <1>1 DEF FetchSize, N
  <2>7. MccInv'
    BY <1>1, <2>2, <2>3, <2>4, <2>5, <2>6 DEF MccInv, Stamped
  <2> QED  BY <1>1, <1>3, <2>1, <2>3, <2>7 DEF StreamInv
<1>4. CASE vendor = "ni"
  <2>1. /\ UNCHANGED <<aitask, queue>>
        /\ \/ /\ aitask # <<>> /\ timing # 0 /\ stamper' = <<>> /\ scanning' = TRUE
              /\ scanlist' = aitask /\ made' = 0 /\ taken' = 0
           \/ aitask = <<>> /\ UNCHANGED <<stamper, scanning, scanlist, made, taken>>
    BY <1>4 DEF Start, Of, NiStart, NiStartNothing, BeginScan, board, labjack
  <2>2. aitask = ai
    BY <1>1, <1>4 DEF StreamInv, NiInv
  <2>3. DataInv' /\ OutInv'
    BY <1>1, <1>2, <1>4, <2>1 DEF DataInv, OutInv, StreamInv, NiInv
  <2>4. NiInv'
    <3>1. CASE aitask = <<>>
      BY <1>1, <1>4, <2>1, <2>2, <3>1 DEF StreamInv, NiInv, Scanned
    <3>2. CASE aitask # <<>>
      <4>1. N \in Nat \ {0} /\ 0 % N = 0
        <5>1. N \in Nat \ {0}
          BY <1>2, <2>2, <3>2 DEF DataInv, N
        <5> QED  BY <5>1, Small
      <4> QED  BY <1>1, <2>1, <2>2, <3>2, <4>1 DEF NiInv, Scanned, NextAt, Stamped, N
    <3> QED  BY <3>1, <3>2
  <2> QED  BY <1>1, <1>4, <2>1, <2>3, <2>4 DEF StreamInv
<1>5. CASE vendor = "labjack"
  <2>1. /\ UNCHANGED queue
        /\ \/ /\ timing # 0 /\ ai # <<>> /\ ~scanning /\ stamper' = <<>> /\ scanning' = TRUE
              /\ scanlist' = ai /\ made' = 0 /\ taken' = 0
           \/ UNCHANGED <<stamper, scanning, scanlist, made, taken>>
    BY <1>5 DEF Start, Of, LabJackStart, LabJackStartAgain, BeginScan, board
  <2>2. DataInv' /\ OutInv'
    BY <1>1, <1>2, <1>5, <2>1 DEF DataInv, OutInv, StreamInv, LabJackInv
  <2>3. LabJackInv'
    <3>1. CASE UNCHANGED <<stamper, scanning, scanlist, made, taken>>
      <4>1. scanning => taken = NextAt
        BY <1>1, <1>5 DEF StreamInv, LabJackInv
      <4>2. scanning' => NextAt' = NextAt
        BY <1>1, <3>1, <4>1 DEF NextAt
      <4> QED  BY <1>1, <1>5, <2>1, <3>1, <4>1, <4>2 DEF StreamInv, LabJackInv, Scanned, Stamped, N
    <3>2. CASE /\ timing # 0 /\ ai # <<>> /\ ~scanning /\ stamper' = <<>> /\ scanning' = TRUE
               /\ scanlist' = ai /\ made' = 0 /\ taken' = 0
      <4>1. N \in Nat \ {0} /\ 0 % N = 0
        <5>1. N \in Nat \ {0}
          BY <1>2, <3>2 DEF DataInv, N
        <5> QED  BY <5>1, Small
      <4> QED  BY <1>1, <2>1, <3>2, <4>1 DEF LabJackInv, Scanned, NextAt, Stamped, N
    <3> QED  BY <2>1, <3>1, <3>2
  <2> QED  BY <1>1, <1>5, <2>2, <2>3 DEF StreamInv
<1>6. CASE vendor = "keysight"
  <2>1. /\ UNCHANGED <<routed, timer, queue, stamper>> /\ routed # {} /\ ~scanning
        /\ scanlist' = Ascending(routed) /\ taken' = 0
        /\ \/ timer /\ scanning' = TRUE /\ made' = 0
           \/ ~timer /\ UNCHANGED scanning /\ made' = Cardinality(routed)
    BY <1>6 DEF Start, Of, KeysightStart, BeginScan, keysight, labjack
  <2>2. routed = {ai[i] : i \in DOMAIN ai} /\ (timer => timing # 0)
    BY <1>6 DEF StreamInv, KeysightInv
  <2>3. made' \in Nat
    <3>1. Cardinality(routed) \in Nat
      BY <1>2, <2>2, AscendingList
    <3> QED  BY <2>1, <3>1
  <2>4. DataInv' /\ OutInv'
    BY <1>1, <1>2, <2>1, <2>3 DEF DataInv, OutInv
  <2>5. KeysightInv'
    <3>1. ai # <<>>
      BY <1>2, <2>1, <2>2 DEF DataInv
    <3>2. N \in Nat \ {0} /\ 0 % N = 0
      <4>1. N \in Nat \ {0}
        BY <1>2, <3>1 DEF DataInv, N
      <4> QED  BY <4>1, Small
    <3> QED  BY <1>1, <2>1, <2>2, <2>3, <3>1, <3>2 DEF KeysightInv, NextAt, N
  <2> QED  BY <1>1, <1>6, <2>1, <2>4, <2>5 DEF StreamInv
<1> QED  BY <1>3, <1>4, <1>5, <1>6 DEF Start, Of

LEMMA StartRaisesStream ==
  ASSUME PowersOfTwo, ControlInv, StreamInv, StartRaises
  PROVE  StreamInv'
<1>1. /\ ctl = "idle" /\ opened /\ daemon = "none" /\ fpc = "idle" /\ fpc' = "idle"
      /\ UNCHANGED <<vendor, opened, ai, timing, out, skipped>>
  <2>1. /\ ctl = "idle" /\ opened /\ daemon = "none"
        /\ UNCHANGED <<vendor, opened, ai, timing, out, skipped, fpc>>
    BY DEF StartRaises, life, base, marks
  <2>2. fpc = "idle"
    BY <2>1 DEF ControlInv, ThreadsInv
  <2> QED  BY <2>1, <2>2
<1>2. DataInv /\ OutInv
  BY DEF StreamInv
<1>3. CASE vendor = "mcc"
  <2>1. /\ UNCHANGED <<queue, scanning, scanlist, made, target>> /\ taken' = 0 /\ stamper' = <<>>
        /\ memhandle' = 0 \/ (memhandle' = memhandle /\ (timing = 0 \/ ai = <<>>))
    BY <1>3 DEF StartRaises, Of, MccStart, labjack, ring
  <2>2. memhandle' = 0
    BY <1>3, <2>1 DEF StreamInv, MccInv
  <2> QED  BY <1>1, <1>2, <1>3, <2>1, <2>2 DEF StreamInv, MccInv, DataInv, OutInv
<1>4. CASE vendor # "mcc"
  <2>1. /\ UNCHANGED <<scanning, scanlist, made, taken, queue, routed, timer, aitask>>
        /\ stamper' = stamper \/ stamper' = <<>>
    BY <1>1, <1>4 DEF StartRaises, Of, NiStartRaises, LabJackStartRaises, KeysightStartRaises,
                      labjack, keysight, ni, board
  <2>2. DataInv' /\ OutInv'
    BY <1>1, <1>2, <2>1 DEF DataInv, OutInv
  <2>3. vendor = "ni" => NiInv'
    BY <1>1, <2>1 DEF StreamInv, NiInv, Scanned, NextAt, Stamped, N
  <2>4. vendor = "labjack" => LabJackInv'
    BY <1>1, <2>1 DEF StreamInv, LabJackInv, Scanned, NextAt, Stamped, N
  <2>5. vendor = "keysight" => KeysightInv'
    BY <1>1, <2>1 DEF StreamInv, KeysightInv, NextAt, N
  <2> QED  BY <1>1, <1>4, <2>1, <2>2, <2>3, <2>4, <2>5 DEF StreamInv
<1> QED  BY <1>3, <1>4

LEMMA StoppedStream ==
  ASSUME ControlInv, StreamInv, Stopped
  PROVE  StreamInv'
<1>1. /\ ctl = "join" /\ daemon = "none" /\ fpc = "idle" /\ fpc' = "idle" /\ opened
      /\ opened' = ~closing
      /\ UNCHANGED <<vendor, ai, timing, out, skipped>>
  <2>1. /\ ctl = "join" /\ daemon = "none" /\ opened' = ~closing
        /\ UNCHANGED <<vendor, ai, timing, out, skipped, fpc>>
    BY DEF Stopped, Joined, life, base, marks
  <2>2. fpc = "idle" /\ opened
    BY <2>1 DEF ControlInv, ThreadsInv
  <2> QED  BY <2>1, <2>2
<1>2. DataInv /\ OutInv
  BY DEF StreamInv
<1>3. CASE vendor = "mcc"
  <2>1. UNCHANGED queue /\ memhandle' = 0 /\ ~scanning' /\ made' = 0 /\ taken' = 0 /\ stamper' = <<>>
    BY <1>3 DEF Stopped, Of, MccClose, MccStop, EndScan, labjack
  <2> QED  BY <1>1, <1>2, <1>3, <2>1 DEF StreamInv, MccInv, DataInv, OutInv
<1>4. CASE vendor = "ni"
  <2>1. /\ UNCHANGED queue /\ ~scanning' /\ made' = 0 /\ taken' = 0 /\ stamper' = <<>>
        /\ aitask' = IF closing THEN <<>> ELSE aitask
    BY <1>4 DEF Stopped, Of, NiStop, NiClose, EndScan, labjack
  <2> QED  BY <1>1, <1>2, <1>4, <2>1 DEF StreamInv, NiInv, DataInv, OutInv
<1>5. CASE vendor = "labjack"
  <2>1. /\ UNCHANGED <<queue, stamper>>
        /\ \/ ~scanning' /\ made' = 0 /\ taken' = 0
           \/ UNCHANGED <<scanning, scanlist, made, taken>>
    BY <1>5 DEF Stopped, Of, LabJackClose, EndScan, board
  <2>2. DataInv' /\ OutInv'
    BY <1>1, <1>2, <2>1 DEF DataInv, OutInv
  <2>3. LabJackInv'
    BY <1>1, <1>5, <2>1 DEF StreamInv, LabJackInv, Scanned, NextAt, Stamped, N
  <2> QED  BY <1>1, <1>5, <2>2, <2>3 DEF StreamInv
<1>6. CASE vendor = "keysight"
  <2>1. UNCHANGED <<queue, stamper, routed, timer, scanlist, made, taken>> /\ ~scanning'
    BY <1>6 DEF Stopped, Of, KeysightStop, labjack, keysight
  <2> QED  BY <1>1, <1>2, <1>6, <2>1 DEF StreamInv, KeysightInv, DataInv, OutInv, NextAt, N
<1> QED  BY <1>3, <1>4, <1>5, <1>6 DEF Stopped, Of

LEMMA SoftwareTimedReadStream ==
  ASSUME ControlInv, StreamInv, SoftwareTimedRead
  PROVE  StreamInv'
<1>1. /\ timing = 0 /\ opened /\ made' = 0 /\ taken' = 0
      /\ UNCHANGED <<vendor, opened, ai, timing, fpc, skipped, stamper, scanning, scanlist>>
      /\ UNCHANGED <<memhandle, aitask, queue, routed, timer>>
  <2>1. timing = 0 /\ opened /\ UNCHANGED <<vendor, opened, ai, timing, fpc, skipped>>
    BY DEF SoftwareTimedRead, life, base, control, marks
  <2>2. /\ made' = 0 /\ taken' = 0 /\ UNCHANGED <<stamper, scanning, scanlist>>
    BY DEF SoftwareTimedRead, MccRead, NiRead, LabJackRead, KeysightRead, PublishReading
  <2>3. UNCHANGED <<memhandle, aitask, queue, routed, timer>>
    BY DEF SoftwareTimedRead, Of, mcc, ring, ni, labjack, keysight
  <2> QED  BY <2>1, <2>2, <2>3
<1>2. DataInv
  BY DEF StreamInv
<1>3. OutInv'
  <2>1. CASE vendor \in {"mcc", "labjack"}
    <3>1. ai # <<>> /\ PublishReading(ai, ai)
      BY <2>1 DEF SoftwareTimedRead, Of, MccRead, LabJackRead
    <3>2. Len(ai) \in Nat \ {0} /\ DOMAIN ai = 1..Len(ai)
      BY <1>2, <3>1 DEF DataInv
    <3> QED  BY <3>1, <3>2, ReadingIsPublished
  <2>2. CASE vendor = "ni"
    <3>1. aitask # <<>> /\ PublishReading(TaskNames, aitask)
      BY <2>2 DEF SoftwareTimedRead, Of, NiRead
    <3>2. aitask = ai
      BY <1>1, <2>2 DEF StreamInv, NiInv
    <3>3. TaskNames = ai
      BY <1>2, <3>2 DEF TaskNames, DataInv
    <3>4. Len(ai) \in Nat \ {0} /\ DOMAIN ai = 1..Len(ai)
      BY <1>2, <3>1, <3>2 DEF DataInv
    <3> QED  BY <3>1, <3>2, <3>3, <3>4, ReadingIsPublished
  <2>3. CASE vendor = "keysight"
    <3>1. ai # <<>> /\ PublishReading(GetScanlist, GetScanlist)
      BY <2>3 DEF SoftwareTimedRead, Of, KeysightRead
    <3>2. Len(GetScanlist) \in Nat \ {0} /\ DOMAIN GetScanlist = 1..Len(GetScanlist)
      <4>1. N # 0
        BY <1>2, <3>1 DEF DataInv, N
      <4> QED  BY <1>2, <4>1, AscendingList
    <3> QED  BY <3>1, <3>2, ReadingIsPublished
  <2> QED  BY <2>1, <2>2, <2>3 DEF SoftwareTimedRead, Of
<1>4. DataInv'
  BY <1>1, <1>2 DEF DataInv
<1>5. vendor = "mcc" => MccInv'
  BY <1>1 DEF StreamInv, MccInv
<1>6. vendor = "ni" => NiInv'
  BY <1>1 DEF StreamInv, NiInv, Scanned
<1>7. vendor = "labjack" => LabJackInv'
  BY <1>1 DEF StreamInv, LabJackInv
<1>8. vendor = "keysight" => KeysightInv'
  BY <1>1 DEF StreamInv, KeysightInv
<1> QED  BY <1>1, <1>3, <1>4, <1>5, <1>6, <1>7, <1>8 DEF StreamInv

\* stop() and close() begin, read_analog() begins, and the daemon goes round.
LEMMA ThreadsStream ==
  ASSUME ControlInv, StreamInv,
         (\E close \in BOOLEAN : StopCall(close)) \/ ReadCall \/ DaemonLoop
  PROVE  StreamInv'
<1>1. UNCHANGED <<vendor, opened, base, stamper, board, out, vendorVars, skipped>>
  BY DEF StopCall, ReadCall, DaemonLoop, life, marks
<1>2. fpc' = fpc \/ (fpc = "idle" /\ fpc' = "poll")
  BY DEF StopCall, ReadCall, DaemonLoop, ControlInv, ThreadsInv
<1> QED  BY <1>1, <1>2, QuietStream

----------------------------------------------------------------------------
(* Fetches *)

\* The samples of one fetch are whole scans.
LEMMA FetchSizes ==
  ASSUME DataInv, ai # <<>>, timing # 0
  PROVE  /\ N \in Nat \ {0} /\ timing \in Nat \ {0} /\ DOMAIN ai = 1..N
         /\ FetchSize \in Nat \ {0} /\ FetchSize % N = 0 /\ FetchSize >= N /\ FetchSize = N * timing
<1>1. N \in Nat \ {0} /\ DOMAIN ai = 1..N
  BY DEF DataInv, N
<1>2. timing \in Nat \ {0}
  BY PerChannelAssumption DEF DataInv
<1>3. FetchSize = N * timing
  BY DEF FetchSize, N
<1>4. N * timing \in Nat /\ (N * timing) % N = 0 /\ N * timing >= N
  BY <1>1, <1>2, Multiple
<1> QED  BY <1>1, <1>2, <1>3, <1>4

LEMMA NiFetchStream ==
  ASSUME ControlInv, StreamInv, Fetch, vendor = "ni"
  PROVE  StreamInv' /\ FollowsOn
<1> DEFINE size == Len(aitask) * timing
<1>1. /\ scanning /\ made >= taken + size
      /\ NiMeasurements(size) /\ Consume(size)
      /\ fpc = "poll" /\ fpc' = "idle"
      /\ UNCHANGED <<vendor, opened, ai, timing, aitask, queue>> /\ ~skipped'
      /\ UNCHANGED <<scanning, scanlist, made>> /\ taken' = taken + size
  <2>1. /\ NiFetch /\ UNCHANGED <<vendor, opened, ai, timing, aitask, queue>>
        /\ skipped' = (skipped \/ (vendor = "keysight" /\ out' = out))
    BY DEF Fetch, Of, FetchOver, life, base, ni, labjack
  <2>2. ~skipped
    BY DEF StreamInv, NiInv
  <2> QED  BY <2>1, <2>2 DEF NiFetch, Consume
<1>2. DataInv /\ OutInv /\ NiInv
  BY DEF StreamInv
<1>3. /\ opened /\ ~skipped /\ aitask = ai /\ ai # <<>> /\ timing # 0 /\ scanlist = ai
      /\ taken % N = 0 /\ taken = NextAt /\ Stamped(taken)
  <2>1. scanning => opened
    BY DEF ControlInv, ThreadsInv, ReleaseInv
  <2> QED  BY <1>1, <1>2, <2>1 DEF NiInv, Scanned
<1>4. /\ N \in Nat \ {0} /\ size \in Nat \ {0} /\ size % N = 0
      /\ made \in Nat /\ taken \in Nat /\ ai \in Seq(Channels) /\ StamperOK
  BY <1>2, <1>3, FetchSizes DEF FetchSize, DataInv, StamperOK
<1>5. TaskNames = ai /\ Len(aitask) = Len(ai)
  BY <1>3, <1>4 DEF TaskNames
<1> DEFINE data == Samples(taken, size)
<1>6. Scans(ai, taken, data) /\ Len(data) = size
  <2> HIDE DEF size
  <2>1. scanlist \in Seq(Channels) /\ scanlist # <<>> /\ taken % Len(scanlist) = 0
        /\ size % Len(scanlist) = 0
    BY <1>3, <1>4 DEF N
  <2>2. Scans(scanlist, taken, data)
    BY <1>4, <2>1, SamplesAreScans
  <2>3. Len(data) = size
    BY <1>4, <2>1, SamplesAreScans
  <2> QED  BY <1>3, <2>2, <2>3
<1>7. PublishBatch(ai, data, made, Len(ai))
  BY <1>1, <1>5 DEF NiMeasurements
<1> HIDE DEF data, size
<1>8. /\ Publishes(taken, size)
      /\ stamper'[1] \in Int /\ stamper' = <<stamper'[1]>>
      /\ StampedLate(size) /\ stamper'[1] >= taken + size
  <2>1. Publishes(taken, Len(data))
    BY <1>4, <1>6, <1>7, BatchIsPublished
  <2>2. stamper'[1] \in Int /\ stamper' = <<stamper'[1]>>
    BY <1>4, <1>6, <1>7, BatchIsPublished
  <2>3. made >= taken + Len(data)
    BY <1>1, <1>6
  <2>4. StampedLate(Len(data)) /\ stamper'[1] >= taken + Len(data)
    BY <1>3, <1>4, <1>6, <1>7, <2>3, BatchIsPublished
  <2> QED  BY <1>6, <2>1, <2>2, <2>4
<1>9. OutInv' /\ FollowsOn /\ NextAt' = taken + size
  BY <1>2, <1>3, <1>4, <1>8, PublishedFollowsOn
<1>10. DataInv'
  BY <1>1, <1>2, <1>4, <1>8 DEF DataInv
<1>11. taken' % N' = 0
  <2>1. (taken + size) % N = size % N
    BY <1>3, <1>4, WholeScans
  <2> QED  BY <1>1, <1>4, <2>1 DEF N
<1>12. NiInv'
  BY <1>1, <1>3, <1>8, <1>9, <1>11 DEF NiInv, Scanned, Stamped
<1> QED  BY <1>1, <1>9, <1>10, <1>12 DEF StreamInv

LEMMA LabJackFetchStream ==
  ASSUME StreamInv, Fetch, vendor = "labjack"
  PROVE  StreamInv' /\ FollowsOn
<1> DEFINE batch == Head(queue)
           start == Begins(batch)
           len == Len(batch.data)
<1>1. /\ queue # <<>> /\ LabJackMeasurements(batch) /\ queue' = Tail(queue)
      /\ fpc = "poll" /\ fpc' = "idle"
      /\ UNCHANGED <<vendor, ai, timing, scanning, scanlist, made, taken>> /\ ~skipped'
  <2>1. /\ LabJackFetch /\ UNCHANGED <<vendor, ai, timing, scanning, scanlist, made, taken>>
        /\ skipped' = (skipped \/ (vendor = "keysight" /\ out' = out))
    BY DEF Fetch, Of, FetchOver, life, base, board
  <2>2. ~skipped
    BY DEF StreamInv, LabJackInv
  <2> QED  BY <2>1, <2>2 DEF LabJackFetch
<1>2. DataInv /\ OutInv /\ LabJackInv
  BY DEF StreamInv
<1>3. /\ Len(queue) \in Nat \ {0} /\ DOMAIN queue = 1..Len(queue) /\ batch = queue[1]
      /\ DOMAIN queue' = 1..Len(queue) - 1 /\ Len(queue') = Len(queue) - 1
      /\ \A k \in 1..Len(queue) - 1 : queue'[k] = queue[k + 1]
  <2>1. queue \in Seq(Batches)
    BY <1>2 DEF LabJackInv
  <2>2. Len(queue) \in Nat \ {0} /\ DOMAIN queue = 1..Len(queue) /\ batch = queue[1]
    BY <1>1, <2>1
  <2>3. queue' \in Seq(Batches) /\ Len(queue') = Len(queue) - 1
    BY <1>1, <2>1, HeadTailProperties
  <2>4. \A k \in 1..Len(queue') : queue'[k] = queue[k + 1]
    BY <1>1, <2>1, HeadTailProperties
  <2> QED  BY <2>2, <2>3, <2>4
<1>4. /\ ~skipped /\ timing # 0 /\ ai # <<>> /\ Stamped(NextAt)
      /\ start = NextAt /\ BatchOf(ai, batch)
  BY <1>1, <1>2, <1>3 DEF LabJackInv
<1>5. /\ Scans(ai, start, batch.data) /\ batch.period = Len(ai) /\ batch.wall \in Nat
      /\ batch.wall >= start + len
  BY <1>4 DEF BatchOf, Ends
<1>6. start \in Nat /\ len \in Nat \ {0} /\ ai \in Seq(Channels) /\ StamperOK
  BY <1>2, <1>5 DEF Scans, DataInv, StamperOK
<1>7. PublishBatch(ai, batch.data, batch.wall, Len(ai))
  BY <1>1, <1>5 DEF LabJackMeasurements
<1>8. /\ Publishes(start, len)
      /\ stamper'[1] \in Int /\ stamper' = <<stamper'[1]>>
      /\ StampedLate(len) /\ stamper'[1] >= start + len
  <2> DEFINE data == batch.data
             time == batch.wall
  <2>0. /\ Scans(ai, start, data) /\ PublishBatch(ai, data, time, Len(ai)) /\ time \in Int
        /\ time >= start + Len(data) /\ Stamped(start)
    BY <1>4, <1>5, <1>7
  <2> HIDE DEF data, time, start
  <2>1. Publishes(start, Len(data))
    BY <1>6, <2>0, BatchIsPublished
  <2>2. stamper'[1] \in Int /\ stamper' = <<stamper'[1]>>
    BY <1>6, <2>0, BatchIsPublished
  <2>3. StampedLate(Len(data)) /\ stamper'[1] >= start + Len(data)
    BY <1>6, <2>0, BatchIsPublished
  <2> QED  BY <2>1, <2>2, <2>3 DEF data
<1> HIDE DEF start, len, batch
<1>9. OutInv' /\ FollowsOn /\ NextAt' = start + len
  BY <1>2, <1>4, <1>6, <1>8, PublishedFollowsOn
<1>10. DataInv'
  BY <1>1, <1>2, <1>8 DEF DataInv
<1>11. Ends(queue[1]) = start + len
  BY <1>3 DEF Ends, start, len
<1>12. LabJackInv'
  <2>1. \A k \in DOMAIN queue' : k + 1 \in DOMAIN queue \ {1} /\ queue'[k] = queue[k + 1]
    BY <1>3
  <2>2. /\ queue' \in Seq(Batches)
        /\ Len(queue') \in Nat /\ DOMAIN queue' = 1..Len(queue') /\ (queue' = <<>> <=> Len(queue') = 0)
    <3>1. queue \in Seq(Batches)
      BY <1>2 DEF LabJackInv
    <3>2. queue' \in Seq(Batches)
      BY <1>1, <3>1
    <3>3. \A q \in Seq(Batches) : Len(q) \in Nat /\ DOMAIN q = 1..Len(q) /\ (q = <<>> <=> Len(q) = 0)
      OBVIOUS
    <3> QED  BY <3>2, <3>3
  <2>3. \A k \in DOMAIN queue' : BatchOf(ai', queue'[k])
    BY <1>1, <1>2, <2>1 DEF LabJackInv
  <2>4. queue' # <<>> => Begins(queue'[1]) = NextAt'
    <3>1. ASSUME queue' # <<>> PROVE 2 \in DOMAIN queue \ {1} /\ queue'[1] = queue[2]
      <4>1. 1 \in DOMAIN queue' /\ 1 + 1 = 2
        BY <2>2, <3>1
      <4> QED  BY <2>1, <4>1
    <3>2. queue' # <<>> => Begins(queue[2]) = Ends(queue[1])
      BY <1>2, <3>1 DEF LabJackInv
    <3> QED  BY <1>9, <1>11, <3>1, <3>2
  <2>5. ASSUME NEW k \in DOMAIN queue' \ {1} PROVE Begins(queue'[k]) = Ends(queue'[k - 1])
    <3>1. k \in DOMAIN queue' /\ k - 1 \in DOMAIN queue' /\ k \in Nat
      BY <2>2
    <3>2. k + 1 \in DOMAIN queue \ {1} /\ queue'[k] = queue[k + 1] /\ queue'[k - 1] = queue[k]
      BY <2>1, <3>1
    <3>3. Begins(queue[k + 1]) = Ends(queue[(k + 1) - 1])
      BY <1>2, <3>2 DEF LabJackInv
    <3> QED  BY <3>1, <3>2, <3>3
  <2>6. ASSUME scanning'
        PROVE  Scanned' /\ taken' = IF queue' = <<>> THEN NextAt' ELSE Ends(queue'[Len(queue')])
    <3>1. Scanned /\ taken = Ends(queue[Len(queue)])
      BY <1>1, <1>2, <2>6 DEF LabJackInv
    <3>2. CASE queue' = <<>>
      BY <1>1, <1>3, <1>9, <1>11, <2>2, <3>1, <3>2 DEF Scanned, N
    <3>3. CASE queue' # <<>>
      <4>1. Len(queue') \in DOMAIN queue' /\ queue'[Len(queue')] = queue[Len(queue)]
        BY <1>3, <2>1, <2>2, <3>3
      <4> QED  BY <1>1, <3>1, <3>3, <4>1 DEF Scanned, N
    <3> QED  BY <3>2, <3>3
  <2>7. Stamped(NextAt)'
    BY <1>6, <1>8, <1>9 DEF Stamped
  <2> QED  BY <1>1, <1>4, <2>2, <2>3, <2>4, <2>5, <2>6, <2>7 DEF LabJackInv
<1> QED  BY <1>1, <1>9, <1>10, <1>12 DEF StreamInv

\* A batch joins the queue behind those it follows on.
LEMMA CallbackStream ==
  ASSUME StreamInv, Callback
  PROVE  StreamInv'
<1> DEFINE size == Len(scanlist) * timing
           data == Samples(taken, size)
           batch == [data |-> data, wall |-> made, period |-> Len(scanlist)]
<1>1. /\ vendor = "labjack" /\ scanning /\ made >= taken + size /\ queue' = Append(queue, batch)
      /\ taken' = taken + size
      /\ UNCHANGED <<vendor, ai, timing, stamper, out, fpc, skipped, scanning, scanlist, made>>
  BY DEF Callback, Of, StreamCallback, Consume, life, base, marks
<1>2. DataInv /\ OutInv /\ LabJackInv
  BY <1>1 DEF StreamInv
<1>3. /\ ~skipped /\ timing # 0 /\ ai # <<>> /\ Stamped(NextAt) /\ scanlist = ai /\ taken % N = 0
      /\ queue \in Seq(Batches)
      /\ taken = IF queue = <<>> THEN NextAt ELSE Ends(queue[Len(queue)])
  BY <1>1, <1>2 DEF LabJackInv, Scanned
<1>4. /\ N \in Nat \ {0} /\ size \in Nat \ {0} /\ size % N = 0
      /\ made \in Nat /\ taken \in Nat /\ ai \in Seq(Channels)
  BY <1>2, <1>3, FetchSizes DEF FetchSize, DataInv
<1>5. Scans(ai, taken, data) /\ Len(data) = size /\ data[1].at = taken
  <2> HIDE DEF size
  <2>1. scanlist \in Seq(Channels) /\ scanlist # <<>> /\ taken % Len(scanlist) = 0
        /\ size % Len(scanlist) = 0
    BY <1>3, <1>4 DEF N
  <2>2. Scans(scanlist, taken, data)
    BY <1>4, <2>1, SamplesAreScans
  <2>3. Len(data) = size /\ data[1].at = taken
    BY <1>4, <2>1, SamplesAreScans
  <2> QED  BY <1>3, <2>2, <2>3
<1>6. batch \in Batches
  <2> DEFINE Taken == [ch : Channels, at : Nat]
  <2>1. \A i \in 1..size : Sample(taken + i - 1) \in Taken
    <3> SUFFICES ASSUME NEW i \in 1..size PROVE Sample(taken + i - 1) \in Taken
      OBVIOUS
    <3>1. taken + i - 1 \in Nat /\ ((taken + i - 1) % N) + 1 \in 1..N
      <4>1. taken + i - 1 \in Nat
        BY <1>4
      <4>2. (taken + i - 1) % N \in 0..N - 1
        BY <1>4, <4>1, Divided
      <4> QED  BY <1>4, <4>1, <4>2
    <3>2. scanlist[((taken + i - 1) % Len(scanlist)) + 1] \in Channels
      BY <1>3, <1>4, <3>1, ElementOfSeq DEF N
    <3> QED  BY <3>1, <3>2 DEF Sample
  <2>2. data \in Seq(Taken)
    <3>1. data = [i \in 1..size |-> Sample(taken + i - 1)]
      BY DEF Samples
    <3> HIDE DEF data, size, Taken
    <3>2. size \in Nat
      BY <1>4
    <3> QED  BY <2>1, <3>1, <3>2
  <2> QED  BY <1>3, <1>4, <2>2 DEF Batches, N
<1>7. Begins(batch) = taken /\ Ends(batch) = taken + size /\ BatchOf(ai, batch)
  BY <1>1, <1>3, <1>4, <1>5 DEF Begins, Ends, BatchOf
<1> HIDE DEF batch, data, size
<1>8. /\ Len(queue) \in Nat /\ DOMAIN queue = 1..Len(queue) /\ (queue = <<>> <=> Len(queue) = 0)
      /\ queue' \in Seq(Batches) /\ Len(queue') = Len(queue) + 1 /\ DOMAIN queue' = 1..Len(queue) + 1
      /\ queue' # <<>> /\ queue'[Len(queue) + 1] = batch
      /\ \A k \in 1..Len(queue) : queue'[k] = queue[k]
  BY <1>1, <1>3, <1>6
<1>9. LabJackInv'
  <2>1. \A k \in DOMAIN queue' : BatchOf(ai', queue'[k])
    BY <1>1, <1>2, <1>7, <1>8 DEF LabJackInv
  <2>2. Begins(queue'[1]) = NextAt'
    <3>1. NextAt' = NextAt
      BY <1>1 DEF NextAt
    <3>2. CASE queue = <<>>
      BY <1>3, <1>7, <1>8, <3>1, <3>2
    <3>3. CASE queue # <<>>
      <4>1. 1 \in 1..Len(queue)
        BY <1>8, <3>3
      <4> QED  BY <1>2, <1>8, <3>1, <3>3, <4>1 DEF LabJackInv
    <3> QED  BY <3>2, <3>3
  <2>3. ASSUME NEW k \in DOMAIN queue' \ {1} PROVE Begins(queue'[k]) = Ends(queue'[k - 1])
    <3>1. k \in Nat /\ k - 1 \in 1..Len(queue) /\ k \in 1..Len(queue) + 1
      BY <1>8
    <3>2. CASE k \in 1..Len(queue)
      <4>1. Begins(queue[k]) = Ends(queue[k - 1])
        BY <1>2, <1>8, <3>2 DEF LabJackInv
      <4> QED  BY <1>8, <3>1, <3>2, <4>1
    <3>3. CASE k = Len(queue) + 1
      <4>1. queue # <<>> /\ k - 1 = Len(queue)
        BY <1>8, <3>1, <3>3
      <4> QED  BY <1>3, <1>7, <1>8, <3>1, <3>3, <4>1
    <3> QED  BY <1>8, <3>1, <3>2, <3>3
  <2>4. taken' % N' = 0
    <3>1. (taken + size) % N = size % N
      BY <1>3, <1>4, WholeScans
    <3> QED  BY <1>1, <1>4, <3>1 DEF N
  <2>5. Scanned' /\ taken' = Ends(queue'[Len(queue')])
    BY <1>1, <1>3, <1>7, <1>8, <2>4 DEF Scanned
  <2>6. Stamped(NextAt)'
    BY <1>1, <1>3 DEF Stamped, NextAt
  <2> QED  BY <1>1, <1>3, <1>8, <2>1, <2>2, <2>3, <2>5, <2>6 DEF LabJackInv
<1>10. DataInv' /\ OutInv'
  BY <1>1, <1>2, <1>4 DEF DataInv, OutInv
<1> QED  BY <1>1, <1>2, <1>9, <1>10 DEF StreamInv

\* DATA:REM? takes whole scans, and each reading is of the channel it is published for.
LEMMA KeysightFetchStream ==
  ASSUME StreamInv, Fetch, vendor = "keysight"
  PROVE  StreamInv' /\ FollowsOn
<1> DEFINE size == Removable
<1>1. /\ timing # 0 /\ ai # <<>> /\ made - taken >= FetchSize
      /\ taken' = taken + size
      /\ out' = out \/ out' = KeysightMeasurements
      /\ fpc' = "idle"
      /\ UNCHANGED <<vendor, ai, timing, stamper, scanning, scanlist, made, routed, timer, queue>>
      /\ skipped' = (skipped \/ out' = out)
  BY DEF Fetch, Of, KeysightFetch, Consume, FetchOver, life, base, keysight, labjack
<1>2. DataInv /\ OutInv /\ KeysightInv
  BY DEF StreamInv
<1>3. /\ N \in Nat \ {0} /\ FetchSize \in Nat \ {0} /\ FetchSize >= N
      /\ made \in Nat /\ taken \in Nat
  BY <1>1, <1>2, FetchSizes DEF DataInv
<1>4. /\ scanlist = Ascending(routed) /\ taken % N = 0 /\ made > taken
      /\ ~skipped => taken = NextAt
  BY <1>1, <1>2, <1>3 DEF KeysightInv
<1>5. scanlist = GetScanlist /\ Len(scanlist) = N
  <2>1. scanlist = GetScanlist
    BY <1>2, <1>4 DEF KeysightInv, GetScanlist
  <2> QED  BY <1>2, <2>1, AscendingList
<1>6. size \in Nat \ {0} /\ size % N = 0 /\ taken + size <= made
  <2> DEFINE left == made - taken
  <2>1. left \in Nat /\ left >= N
    BY <1>1, <1>3
  <2>2. size = (left \div N) * N
    BY DEF Removable, Registered, N
  <2> HIDE DEF left, size
  <2>3. left \div N \in Nat /\ left % N \in 0..N - 1 /\ left = N * (left \div N) + (left % N)
    BY <1>3, <2>1, Divided
  <2> DEFINE q == left \div N
  <2>4. q \in Nat /\ N * q \in Nat /\ (N * q) % N = 0
    BY <1>3, <2>3, Multiple
  <2>5. size = N * q
    <3>1. \A x, y \in Nat : x * y = y * x
      OBVIOUS
    <3> QED  BY <1>3, <2>2, <2>4, <3>1
  <2>6. left = size + (left % N)
    BY <2>3, <2>5
  <2> HIDE DEF q
  <2>7. size # 0
    BY <1>3, <2>1, <2>3, <2>6
  <2> QED  BY <1>3, <2>3, <2>4, <2>5, <2>6, <2>7 DEF left
<1> HIDE DEF size
<1>7. ASSUME out' # out
      PROVE  /\ Publishes(taken, size) /\ StampedLate(size)
  <2>1. out' = [p \in 1..size |->
                  [name |-> GetScanlist[((p - 1) % N) + 1], ch |-> Sample(taken + p - 1).ch,
                   at |-> Sample(taken + p - 1).at, t |-> Sample(taken + p - 1).at]]
    BY <1>1, <1>7 DEF KeysightMeasurements, Registered, N, size
  <2>2. \A p \in 1..size : /\ Sample(taken + p - 1).ch = GetScanlist[((p - 1) % N) + 1]
                           /\ Sample(taken + p - 1).at = taken + p - 1
    <3> SUFFICES ASSUME NEW p \in 1..size
                 PROVE  /\ Sample(taken + p - 1).ch = GetScanlist[((p - 1) % N) + 1]
                        /\ Sample(taken + p - 1).at = taken + p - 1
      OBVIOUS
    <3>1. p - 1 \in Nat /\ taken + p - 1 = taken + (p - 1)
      BY <1>3, <1>6
    <3>2. (taken + (p - 1)) % N = (p - 1) % N
      BY <1>3, <1>4, <3>1, WholeScans
    <3>3. (taken + p - 1) % Len(scanlist) = (p - 1) % N
      BY <1>5, <3>1, <3>2
    <3> QED  BY <1>5, <3>3 DEF Sample
  <2>3. DOMAIN out' = 1..size /\ Len(out') = size
    BY <1>6, <2>1
  <2>4. \A p \in 1..size : out'[p].name = out'[p].ch /\ out'[p].at = taken + p - 1 /\ out'[p].t = out'[p].at
    BY <2>1, <2>2
  <2>5. \A p \in 1..size : taken + p - 1 \in Int
    BY <1>3, <1>6
  <2> QED  BY <2>3, <2>4, <2>5 DEF Publishes, StampedLate
<1>8. /\ OutInv' /\ FollowsOn
      /\ ~skipped' => NextAt' = taken + size
  <2>1. CASE out' = out
    BY <1>1, <1>2, <2>1 DEF OutInv, FollowsOn
  <2>2. CASE out' # out
    <3>1. ~skipped' => taken = NextAt
      BY <1>1, <1>4
    <3> QED  BY <1>2, <1>3, <1>6, <1>7, <2>2, <3>1, PublishedFollowsOn
  <2> QED  BY <2>1, <2>2
<1>9. DataInv'
  BY <1>1, <1>2, <1>3, <1>6 DEF DataInv
<1>10. KeysightInv'
  <2>1. taken' % N' = 0
    <3>1. (taken + size) % N = size % N
      BY <1>3, <1>4, <1>6, WholeScans
    <3> QED  BY <1>1, <1>6, <3>1 DEF N
  <2>2. made' >= taken'
    BY <1>1, <1>3, <1>6
  <2>3. routed' = {ai'[i] : i \in DOMAIN ai'} /\ (timer' => timing' # 0) /\ timing' # 0
    BY <1>1, <1>2 DEF KeysightInv
  <2> QED  BY <1>1, <1>4, <1>8, <2>1, <2>2, <2>3 DEF KeysightInv
<1> QED  BY <1>1, <1>8, <1>9, <1>10 DEF StreamInv

\* A fetch that raises takes nothing.
LEMMA FetchRaisesStream ==
  ASSUME StreamInv, FetchRaises
  PROVE  StreamInv'
<1>1. UNCHANGED <<vendor, opened, base, stamper, board, out, skipped>>
  BY DEF FetchRaises, FetchOver, life, marks
<1>2. fpc = "poll" /\ fpc' = "idle"
  BY DEF FetchRaises, MccFetchRaises, Returned, NiFetchRaises, LabJackFetchRaises, KeysightFetchRaises
<1>3. CASE vendor # "mcc"
  <2>1. UNCHANGED vendorVars
    BY <1>3 DEF FetchRaises, Of, vendorVars
  <2> QED  BY <1>1, <1>2, <2>1, QuietStream
<1>4. CASE vendor = "mcc"
  <2>1. UNCHANGED <<vendor, ai, timing, stamper, scanning, scanlist, made, taken, out, skipped,
                    memhandle, target, bufsize, rawPrev, offset, queue>>
    BY <1>1, <1>4 DEF FetchRaises, Of, base, board, ring, counter, labjack
  <2>2. DataInv' /\ OutInv'
    BY <2>1 DEF StreamInv, DataInv, OutInv
  <2>3. MccInv'
    BY <1>2, <1>4, <2>1 DEF StreamInv, MccInv, CounterInv, W, NextAt, Stamped, N, FetchSize
  <2> QED  BY <1>2, <1>4, <2>1, <2>2, <2>3 DEF StreamInv
<1> QED  BY <1>3, <1>4

----------------------------------------------------------------------------
(* The ring of an MCC board *)

\* A number below zero by less than n.
LEMMA Negative ==
  ASSUME NEW n \in Nat \ {0}, NEW r \in 0..n - 1
  PROVE  (r - n) % n = r
OBVIOUS

\* The count that the driver makes of the reported one is the count of the board, which has
\* not come round twice since the last look.
LEMMA CountIsMade ==
  ASSUME PowersOfTwo, CounterInv, made \in Nat
  PROVE  /\ Accumulated = made
         /\ AccumulateCount => /\ rawPrev' \in 0..W - 1 /\ offset' \in Nat /\ offset' % W = 0
                               /\ rawPrev' + offset' = made
<1> DEFINE low == made % W
           raw == Reported % W
           d == made - offset
<1>1. W \in Nat \ {0}
  BY PowersArePositive
<1>2. /\ rawPrev \in 0..W - 1 /\ offset \in Nat /\ offset % W = 0
      /\ d \in Nat /\ made = offset + d /\ rawPrev <= d /\ d < rawPrev + W
  BY <1>1 DEF CounterInv
<1>3. low \in 0..W - 1
  BY <1>1, Divided
<1>4. raw = low
  <2>1. Reported = low \/ Reported = low - W
    BY DEF Reported, W
  <2> HIDE DEF low
  <2>2. low % W = low /\ (low - W) % W = low
    BY <1>1, <1>3, Small, Negative
  <2> QED  BY <2>1, <2>2
<1>5. Accumulated = raw + offset + (IF raw < rawPrev THEN W ELSE 0)
  BY DEF Accumulated, W
<1>6. AccumulateCount => /\ rawPrev' = raw
                         /\ offset' = offset + (IF raw < rawPrev THEN W ELSE 0)
  BY DEF AccumulateCount, W
<1> HIDE DEF raw
<1>7. CASE d < W
  <2>1. low = d
    <3>1. (offset + d) % W = d % W
      BY <1>1, <1>2, WholeScans
    <3>2. d \in 0..W - 1
      BY <1>1, <1>2, <1>7
    <3>3. d % W = d
      BY <1>1, <3>2, Small
    <3> QED  BY <1>2, <3>1, <3>3
  <2> HIDE DEF low, d
  <2> QED  BY <1>1, <1>2, <1>3, <1>4, <1>5, <1>6, <2>1
<1>8. CASE d >= W
  <2>1. low = d - W
    <3>1. d \in W..(2 * W) - 1
      BY <1>1, <1>2, <1>8
    <3>2. (offset + d) % W = d - W
      BY <1>1, <1>2, <3>1, Wrapped
    <3> QED  BY <1>2, <3>2
  <2>2. (offset + W) % W = 0
    <3>1. (offset + W) % W = W % W
      BY <1>1, <1>2, WholeScans
    <3>2. (W * 1) % W = 0 /\ W * 1 = W
      BY <1>1, Multiple
    <3> QED  BY <3>1, <3>2
  <2> HIDE DEF low, d
  <2>3. raw < rawPrev
    BY <1>1, <1>2, <1>4, <2>1
  <2> QED  BY <1>1, <1>2, <1>3, <1>4, <1>5, <1>6, <2>1, <2>2, <2>3
<1> QED  BY <1>1, <1>2, <1>7, <1>8

\* A fetch under way has a ring, the size of which is a number of whole fetches.
LEMMA RingOfFetch ==
  ASSUME StreamInv, vendor = "mcc", memhandle # 0
  PROVE  /\ scanlist = ai /\ ai # <<>> /\ timing # 0 /\ taken % N = 0 /\ memhandle = target
         /\ N \in Nat \ {0} /\ FetchSize \in Nat \ {0} /\ FetchSize % N = 0 /\ FetchSize >= N
         /\ bufsize \in Nat \ {0} /\ bufsize >= FetchSize
         /\ made \in Nat /\ taken \in Nat /\ CounterInv
<1>1. /\ DataInv /\ scanlist = ai /\ ai # <<>> /\ timing # 0 /\ memhandle = target
      /\ bufsize = FetchSize * Multiplier /\ taken % N = 0 /\ CounterInv
  BY DEF StreamInv, MccInv
<1>2. N \in Nat \ {0} /\ FetchSize \in Nat \ {0} /\ FetchSize % N = 0 /\ FetchSize >= N
  BY <1>1, FetchSizes
<1>3. FetchSize * Multiplier \in Nat \ {0} /\ FetchSize * Multiplier >= FetchSize
  <2> DEFINE f == FetchSize
  <2>1. f \in Nat \ {0} /\ Multiplier \in Nat \ {0}
    BY <1>2, RingAssumption
  <2> HIDE DEF f
  <2>2. f * Multiplier \in Nat /\ f * Multiplier >= f
    BY <2>1, Multiple
  <2> QED  BY <2>1, <2>2 DEF f
<1>4. made \in Nat /\ taken \in Nat
  BY <1>1 DEF DataInv
<1> QED  BY <1>1, <1>2, <1>3, <1>4

LEMMA MccPollStream ==
  ASSUME PowersOfTwo, StreamInv, MccFetching, MccPoll
  PROVE  StreamInv'
<1>1. /\ vendor = "mcc" /\ memhandle # 0 /\ fpc = "poll" /\ AccumulateCount
      /\ IF Accumulated < taken + FetchSize
         THEN UNCHANGED <<fpc, curr, wall>>
         ELSE fpc' = "window" /\ curr' = Accumulated /\ wall' = made
      /\ UNCHANGED <<vendor, ai, timing, stamper, scanning, scanlist, made, taken, out,
                     memhandle, target, bufsize, origin, copy, queue>>
      /\ ~skipped' <=> ~skipped
  BY DEF MccFetching, MccPoll, Of, life, base, board, ring, labjack
<1>2. FetchSize \in Nat \ {0} /\ made \in Nat /\ taken \in Nat /\ CounterInv
  BY <1>1, RingOfFetch
<1>3. /\ Accumulated = made
      /\ rawPrev' \in 0..W - 1 /\ offset' \in Nat /\ offset' % W = 0 /\ rawPrev' + offset' = made
  BY <1>1, <1>2, CountIsMade
<1>4. DataInv' /\ OutInv'
  BY <1>1 DEF StreamInv, DataInv, OutInv
<1>5. CounterInv'
  <2>1. W \in Nat \ {0}
    BY PowersArePositive
  <2>2. rawPrev' + offset' = made /\ made \in Nat /\ W' = W
    BY <1>2, <1>3 DEF W
  <2>3. rawPrev' + offset' <= made /\ made < rawPrev' + offset' + W
    BY <2>1, <2>2
  <2>4. made' = made
    BY <1>1
  <2> QED  BY <1>3, <2>2, <2>3, <2>4 DEF CounterInv
<1>6. fpc' = "window" => WindowInv'
  BY <1>1, <1>2, <1>3 DEF WindowInv, FetchSize
<1>7. MccInv'
  BY <1>1, <1>5, <1>6 DEF StreamInv, MccInv, NextAt, Stamped, N, FetchSize
<1> QED  BY <1>1, <1>4, <1>7 DEF StreamInv

\* After an overrun the window is at the beginning of a scan again.
LEMMA MccWindowStream ==
  ASSUME StreamInv, MccFetching, MccWindow
  PROVE  StreamInv'
<1>1. /\ vendor = "mcc" /\ fpc = "window"
      /\ IF curr > taken + bufsize
         THEN taken' = RoundUp(curr - bufsize, N) /\ fpc' = "poll" /\ skipped' /\ UNCHANGED <<origin, copy>>
         ELSE fpc' = "copy" /\ origin' = taken /\ copy' = <<>> /\ taken' = taken /\ (~skipped' <=> ~skipped)
      /\ UNCHANGED <<vendor, ai, timing, stamper, scanning, scanlist, made, out, memhandle, target,
                     bufsize, rawPrev, offset, curr, wall, queue>>
  BY DEF MccFetching, MccWindow, Of, life, base, ring, counter, labjack, N
<1>2. memhandle # 0 /\ DataInv /\ OutInv /\ MccInv
  BY <1>1 DEF StreamInv, MccInv
<1>3. /\ N \in Nat \ {0} /\ FetchSize \in Nat \ {0} /\ bufsize \in Nat \ {0} /\ taken \in Nat
      /\ taken % N = 0
  BY <1>1, <1>2, RingOfFetch
<1>4. WindowInv /\ curr \in Nat
  BY <1>1, <1>2 DEF MccInv, WindowInv
<1>5. taken' \in Nat /\ taken' % N = 0
  <2>1. CASE curr > taken + bufsize
    <3> DEFINE a == curr - bufsize
    <3>1. a \in Nat
      BY <1>3, <1>4, <2>1
    <3>2. taken' = IF a % N = 0 THEN a ELSE a + N - (a % N)
      BY <1>1, <2>1 DEF RoundUp
    <3> HIDE DEF a
    <3> QED  BY <1>3, <3>1, <3>2, RoundedUp
  <2>2. CASE ~(curr > taken + bufsize)
    BY <1>1, <1>3, <2>2
  <2> QED  BY <2>1, <2>2
<1>6. DataInv' /\ OutInv'
  BY <1>1, <1>2, <1>5 DEF DataInv, OutInv
<1>7. CounterInv' /\ N' = N /\ FetchSize' = FetchSize /\ NextAt' = NextAt
  BY <1>1, <1>2 DEF MccInv, CounterInv, W, N, FetchSize, NextAt
<1>8. CASE curr > taken + bufsize
  <2>1. fpc' = "poll" /\ skipped' /\ UNCHANGED <<vendor, ai, timing, scanning, scanlist, memhandle, target, bufsize, queue>>
    BY <1>1, <1>8
  <2>2. MccInv'
    BY <1>2, <1>5, <1>7, <2>1 DEF MccInv
  <2> QED  BY <1>1, <1>6, <2>1, <2>2 DEF StreamInv
<1>9. CASE ~(curr > taken + bufsize)
  <2>1. /\ fpc' = "copy" /\ origin' = taken /\ copy' = <<>> /\ taken' = taken /\ (~skipped' <=> ~skipped)
    BY <1>1, <1>9
  <2>2. curr >= taken + FetchSize
    BY <1>1, <1>4 DEF WindowInv
  <2>3. WindowInv'
    <3>1. curr' \in Nat /\ curr' <= made' /\ wall' = curr'
      BY <1>1, <1>4 DEF WindowInv
    <3>2. Len(copy') = 0 /\ DOMAIN copy' = 1..0 /\ copy' \in Seq([ch : Channels, at : Int])
      BY <2>1
    <3>3. curr' = curr /\ curr' >= origin' + FetchSize' /\ Len(copy') \in 0..FetchSize' /\ 0 # FetchSize'
      BY <1>1, <1>3, <1>7, <2>1, <2>2, <3>2
    <3>4. origin' \in Nat /\ origin' % N' = 0
      BY <1>3, <1>7, <2>1
    <3>5. \A i \in DOMAIN copy' : copy'[i] = Sample(origin + i - 1)'
      BY <3>2
    <3> QED  BY <2>1, <3>1, <3>2, <3>3, <3>4, <3>5 DEF WindowInv
  <2>4. MccInv'
    <3>1. ~skipped' => taken' = NextAt' /\ Stamped(taken)'
      BY <1>1, <1>2, <1>7, <2>1 DEF MccInv, Stamped
    <3> QED  BY <1>1, <1>2, <1>5, <1>7, <2>1, <2>3, <3>1 DEF MccInv
  <2> QED  BY <1>1, <1>6, <2>1, <2>4 DEF StreamInv
<1> QED  BY <1>8, <1>9

\* A slot of the ring, read before the board comes round to it, holds the sample of its place.
LEMMA SlotHoldsSample ==
  ASSUME NEW size \in Nat \ {0}, size = bufsize, NEW n \in Nat, memhandle = target,
         made \in Nat, n < made, made <= n + size
  PROVE  Slot(n % bufsize) = Sample(n)
<1> DEFINE q == n \div size
           i == n % size
           e == made - 1 - n
<1>1. q \in Nat /\ i \in 0..size - 1 /\ n = size * q + i /\ size * q \in Nat
  <2>1. q \in Nat /\ i \in 0..size - 1 /\ n = size * q + i
    BY Divided
  <2> HIDE DEF q, i
  <2>2. size * q \in Nat
    BY <2>1, Multiple
  <2> QED  BY <2>1, <2>2
<1>2. e \in 0..size - 1 /\ made - 1 = n + e
  OBVIOUS
<1> HIDE DEF q, i, e
<1>3. made - 1 + size - i = size * (q + 1) + e
  <2>1. \A x, y \in Int : x * (y + 1) = x * y + x
    OBVIOUS
  <2>2. size * (q + 1) = size * q + size
    BY <1>1, <2>1
  <2> QED  BY <1>1, <1>2, <2>2
<1>4. (size * (q + 1) + e) % size = e
  <2>1. q + 1 \in Nat
    BY <1>1
  <2> QED  BY <1>2, <2>1, DivIs
<1>5. (made - 1 + size - i) % size = e
  BY <1>3, <1>4
<1>6. made - 1 - e = n
  BY <1>2
<1>7. Slot(i) = Sample(made - 1 - ((made - 1 + size - i) % size))
  BY DEF Slot
<1> QED  BY <1>5, <1>6, <1>7 DEF i

LEMMA MccCopyStream ==
  ASSUME StreamInv, MccFetching, MccCopy
  PROVE  StreamInv'
<1> DEFINE k == Len(copy)
           new == Slot((origin + k) % bufsize)
           Taken == [ch : Channels, at : Int]
<1>1. /\ vendor = "mcc" /\ fpc = "copy" /\ copy' = Append(copy, new)
      /\ fpc' = IF k + 1 = FetchSize THEN "verify" ELSE "copy"
      /\ UNCHANGED <<vendor, ai, timing, stamper, scanning, scanlist, made, taken, out, memhandle, target,
                     bufsize, rawPrev, offset, curr, wall, origin, queue>>
      /\ (~skipped' <=> ~skipped)
  BY DEF MccFetching, MccCopy, Of, life, base, board, ring, counter, labjack
<1>2. memhandle # 0 /\ DataInv /\ OutInv /\ MccInv
  BY <1>1 DEF StreamInv, MccInv
<1>3. /\ N \in Nat \ {0} /\ FetchSize \in Nat \ {0} /\ bufsize \in Nat \ {0} /\ bufsize >= FetchSize
      /\ memhandle = target /\ scanlist = ai /\ made \in Nat
  BY <1>1, <1>2, RingOfFetch
<1>4. WindowInv
  BY <1>1, <1>2 DEF MccInv
<1>5. /\ curr \in Nat /\ curr <= made /\ origin \in Nat /\ origin % N = 0 /\ curr >= origin + FetchSize
      /\ k \in 0..FetchSize /\ k # FetchSize /\ DOMAIN copy = 1..k /\ copy \in Seq(Taken)
      /\ made <= origin + bufsize => \A i \in DOMAIN copy : copy[i] = Sample(origin + i - 1)
      /\ taken = origin
  BY <1>1, <1>4 DEF WindowInv
<1>6. new \in Taken
  <2> DEFINE at == made - 1 - ((made - 1 + bufsize - ((origin + k) % bufsize)) % bufsize)
  <2>1. new = Sample(at)
    BY <1>3 DEF Slot
  <2>2. at \in Int
    <3>1. \A x \in Int, y \in Nat \ {0} : x % y \in Int
      OBVIOUS
    <3>2. (origin + k) % bufsize \in Int
      <4>1. origin + k \in Int /\ bufsize \in Nat \ {0}
        <5>1. origin \in Nat /\ bufsize \in Nat \ {0}
          BY <1>3, <1>5
        <5>2. k \in Nat
          <6> HIDE DEF k
          <6> QED  BY <1>3, <1>5
        <5> HIDE DEF k
        <5> QED  BY <5>1, <5>2
      <4> HIDE DEF k
      <4> QED  BY <3>1, <4>1
    <3> QED  BY <1>3, <3>1, <3>2
  <2> HIDE DEF at, new
  <2>3. (at % N) + 1 \in 1..N
    BY <1>3, <2>2
  <2>4. scanlist[(at % Len(scanlist)) + 1] \in Channels
    BY <1>2, <1>3, <2>3, ElementOfSeq DEF DataInv, N
  <2> QED  BY <2>1, <2>2, <2>4 DEF Sample
<1>7. made <= origin + bufsize => new = Sample(origin + k)
  <2> HIDE DEF new
  <2>0. SUFFICES ASSUME made <= origin + bufsize PROVE new = Sample(origin + k)
    OBVIOUS
  <2>1. origin + k \in Nat /\ origin + k < made /\ made <= origin + k + bufsize
    <3> HIDE DEF k
    <3>1. curr \in Nat /\ curr <= made /\ origin \in Nat /\ made \in Nat /\ bufsize \in Nat
      BY <1>3, <1>5
    <3>2. FetchSize \in Nat /\ k \in Nat /\ k < FetchSize
      BY <1>3, <1>5
    <3>3. curr >= origin + FetchSize
      BY <1>5
    <3>4. origin + k < made
      BY <3>1, <3>2, <3>3
    <3> QED  BY <2>0, <3>1, <3>2, <3>4
  <2>2. Slot((origin + k) % bufsize) = Sample(origin + k)
    BY <1>3, <2>1, SlotHoldsSample
  <2> QED  BY <2>2 DEF new
<1> HIDE DEF new, Taken
<1>8. /\ Len(copy') = k + 1 /\ DOMAIN copy' = 1..k + 1 /\ copy' \in Seq(Taken)
      /\ copy'[k + 1] = new /\ \A i \in 1..k : copy'[i] = copy[i]
  BY <1>1, <1>5, <1>6
<1> HIDE DEF k
<1>9. WindowInv'
  <2>1. FetchSize' = FetchSize /\ N' = N
    BY <1>1 DEF FetchSize, N
  <2>2. Len(copy') \in 0..FetchSize /\ (fpc' = "copy" <=> Len(copy') # FetchSize) /\ fpc' # "return" /\ fpc' # "window"
    BY <1>1, <1>3, <1>5, <1>8
  <2>3. ASSUME made <= origin + bufsize, NEW i \in DOMAIN copy'
        PROVE  copy'[i] = Sample(origin + i - 1)
    <3>1. CASE i \in 1..k
      BY <1>5, <1>8, <2>3, <3>1
    <3>2. CASE i = k + 1
      <4>1. origin + i - 1 = origin + k
        BY <1>3, <1>5, <3>2
      <4> QED  BY <1>7, <1>8, <2>3, <3>2, <4>1
    <3> QED  BY <1>5, <1>8, <3>1, <3>2
  <2>4. \A x : Sample(x)' = Sample(x)
    BY <1>1 DEF Sample
  <2>5. DOMAIN copy' = 1..Len(copy') /\ copy' \in Seq([ch : Channels, at : Int])
    BY <1>8 DEF Taken
  <2>6. made' <= origin' + bufsize' => \A i \in DOMAIN copy' : copy'[i] = Sample(origin + i - 1)'
    BY <1>1, <2>3, <2>4
  <2>7. /\ UNCHANGED <<curr, wall, origin, taken, made>> /\ curr <= made /\ wall = curr
        /\ curr \in Nat /\ origin \in Nat /\ taken = origin /\ origin % N = 0 /\ curr >= origin + FetchSize
    BY <1>1, <1>4, <1>5 DEF WindowInv
  <2> QED  BY <2>1, <2>2, <2>5, <2>6, <2>7 DEF WindowInv
<1>10. DataInv' /\ OutInv'
  BY <1>1, <1>2 DEF DataInv, OutInv
<1>11. MccInv'
  <2>1. CounterInv'
    BY <1>1, <1>2 DEF MccInv, CounterInv, W
  <2>2. fpc' # "return"
    BY <1>1
  <2> QED  BY <1>1, <1>2, <1>9, <2>1, <2>2 DEF MccInv, N, FetchSize, NextAt, Stamped
<1> QED  BY <1>1, <1>10, <1>11 DEF StreamInv

\* The copy is good when the board had not come round to its first sample by its end.
LEMMA MccVerifyStream ==
  ASSUME PowersOfTwo, StreamInv, MccFetching, MccVerify
  PROVE  StreamInv'
<1>1. /\ vendor = "mcc" /\ fpc = "verify" /\ AccumulateCount
      /\ IF Accumulated > origin + bufsize
         THEN fpc' = "poll" /\ taken' = taken
         ELSE fpc' = "return" /\ taken' = origin + FetchSize
      /\ UNCHANGED <<vendor, ai, timing, stamper, scanning, scanlist, made, out, memhandle, target,
                     bufsize, curr, wall, origin, copy, queue>>
      /\ (~skipped' <=> ~skipped)
  BY DEF MccFetching, MccVerify, Of, life, base, ring, window, labjack
<1>2. memhandle # 0 /\ DataInv /\ OutInv /\ MccInv
  BY <1>1 DEF StreamInv, MccInv
<1>3. /\ N \in Nat \ {0} /\ FetchSize \in Nat \ {0} /\ FetchSize % N = 0 /\ made \in Nat
      /\ CounterInv /\ taken \in Nat /\ taken % N = 0
  BY <1>1, <1>2, RingOfFetch
<1>4. WindowInv /\ (~skipped => taken = NextAt /\ Stamped(taken))
  <2>1. fpc = "verify" /\ memhandle # 0
    BY <1>1, <1>2
  <2>2. fpc \in {"window", "copy", "verify", "return"} /\ fpc # "return"
    BY <2>1
  <2> QED  BY <1>2, <2>1, <2>2 DEF MccInv
<1>5. /\ curr \in Nat /\ curr <= made /\ wall = curr /\ origin \in Nat /\ origin % N = 0
      /\ curr >= origin + FetchSize /\ Len(copy) = FetchSize /\ DOMAIN copy = 1..Len(copy)
      /\ copy \in Seq([ch : Channels, at : Int]) /\ taken = origin
      /\ made <= origin + bufsize => \A i \in DOMAIN copy : copy[i] = Sample(origin + i - 1)
  BY <1>1, <1>3, <1>4 DEF WindowInv
<1>6. /\ Accumulated = made
      /\ rawPrev' \in 0..W - 1 /\ offset' \in Nat /\ offset' % W = 0 /\ rawPrev' + offset' = made
  BY <1>1, <1>3, CountIsMade
<1>7. CounterInv'
  <2>1. W \in Nat \ {0}
    BY PowersArePositive
  <2>2. rawPrev' + offset' = made /\ made \in Nat /\ W' = W
    BY <1>3, <1>6 DEF W
  <2>3. rawPrev' + offset' <= made /\ made < rawPrev' + offset' + W
    BY <2>1, <2>2
  <2>4. made' = made
    BY <1>1
  <2> QED  BY <1>6, <2>2, <2>3, <2>4 DEF CounterInv
<1>8. N' = N /\ FetchSize' = FetchSize /\ NextAt' = NextAt
  BY <1>1 DEF N, FetchSize, NextAt
<1>9. CASE made > origin + bufsize
  <2>1. fpc' = "poll" /\ taken' = taken
    BY <1>1, <1>6, <1>9
  <2>2. DataInv' /\ OutInv'
    BY <1>1, <1>2, <2>1 DEF DataInv, OutInv
  <2>3. MccInv'
    BY <1>1, <1>2, <1>4, <1>7, <1>8, <2>1 DEF MccInv, Stamped
  <2> QED  BY <1>1, <2>1, <2>2, <2>3 DEF StreamInv
<1>10. CASE ~(made > origin + bufsize)
  <2>1. fpc' = "return" /\ taken' = origin + FetchSize
    BY <1>1, <1>6, <1>10
  <2>2. bufsize \in Nat
    BY <1>1, <1>2, RingOfFetch
  <2>3. \A i \in DOMAIN copy : copy[i] = Sample(origin + i - 1)
    <3>1. made <= origin + bufsize
      BY <1>3, <1>5, <1>10, <2>2
    <3> QED  BY <1>5, <3>1
  <2>4. taken' \in Nat /\ taken' % N = 0
    <3>1. (origin + FetchSize) % N = FetchSize % N
      BY <1>3, <1>5, WholeScans
    <3> QED  BY <1>3, <1>5, <2>1, <3>1
  <2>5. DataInv' /\ OutInv'
    BY <1>1, <1>2, <2>4 DEF DataInv, OutInv
  <2>6. WindowInv'
    <3>1. \A x : Sample(x)' = Sample(x)
      BY <1>1 DEF Sample
    <3>2. \A i \in DOMAIN copy' : copy'[i] = Sample(origin + i - 1)'
      BY <1>1, <2>3, <3>1
    <3>3. curr' \in Nat /\ curr' <= made' /\ wall' = curr' /\ origin' \in Nat /\ origin' % N' = 0
          /\ curr' >= origin' + FetchSize' /\ Len(copy') = FetchSize' /\ DOMAIN copy' = 1..Len(copy')
          /\ copy' \in Seq([ch : Channels, at : Int]) /\ taken' = origin' + FetchSize'
          /\ FetchSize' \in 0..FetchSize'
      BY <1>1, <1>3, <1>5, <1>8, <2>1
    <3> QED  BY <2>1, <3>2, <3>3 DEF WindowInv
  <2>7. MccInv'
    BY <1>1, <1>2, <1>4, <1>5, <1>7, <1>8, <2>1, <2>4, <2>6 DEF MccInv, Stamped
  <2> QED  BY <1>1, <2>1, <2>5, <2>7 DEF StreamInv
<1> QED  BY <1>9, <1>10

\* A copy that was verified is published.
LEMMA MccFetchStream ==
  ASSUME StreamInv, Fetch, vendor = "mcc"
  PROVE  StreamInv' /\ FollowsOn
<1>1. /\ fpc = "return" /\ PublishBatch(ai, copy, wall, Len(ai)) /\ fpc' = "idle"
      /\ UNCHANGED <<vendor, ai, timing, scanning, scanlist, made, taken, memhandle, target,
                     bufsize, rawPrev, offset, queue>>
      /\ (~skipped' <=> ~skipped)
  BY DEF Fetch, Of, MccFetch, MccMeasurements, Returned, FetchOver, life, base, board, ring, counter,
         labjack
<1>2. memhandle # 0 /\ DataInv /\ OutInv /\ MccInv
  BY <1>1 DEF StreamInv, MccInv
<1>3. /\ N \in Nat \ {0} /\ FetchSize \in Nat \ {0} /\ FetchSize % N = 0 /\ made \in Nat
      /\ CounterInv /\ taken \in Nat /\ taken % N = 0 /\ scanlist = ai /\ ai # <<>>
  BY <1>2, RingOfFetch
<1>4. WindowInv /\ (~skipped => origin = NextAt /\ Stamped(origin))
  BY <1>1, <1>2 DEF MccInv
<1>5. /\ curr \in Nat /\ wall = curr /\ origin \in Nat /\ origin % N = 0
      /\ curr >= origin + FetchSize /\ Len(copy) = FetchSize /\ DOMAIN copy = 1..Len(copy)
      /\ taken = origin + FetchSize
      /\ \A i \in DOMAIN copy : copy[i] = Sample(origin + i - 1)
  BY <1>1, <1>3, <1>4 DEF WindowInv
<1>6. ai \in Seq(Channels) /\ StamperOK
  BY <1>2 DEF DataInv, StamperOK
<1>7. Scans(ai, origin, copy)
  <2>1. \A i \in DOMAIN copy : /\ copy[i].ch = ai[((origin + i - 1) % N) + 1]
                               /\ copy[i].at = origin + i - 1
    BY <1>3, <1>5 DEF Sample, N
  <2> QED  BY <1>3, <1>5, <2>1 DEF Scans, N
<1>8. wall \in Int /\ wall >= origin + Len(copy) /\ Len(copy) = FetchSize
  BY <1>5
<1>9. Publishes(origin, Len(copy))
  BY <1>1, <1>5, <1>6, <1>7, <1>8, BatchIsPublished
<1>10. stamper'[1] \in Int /\ stamper' = <<stamper'[1]>>
  BY <1>1, <1>5, <1>6, <1>7, <1>8, BatchIsPublished
<1>11. Stamped(origin) => StampedLate(Len(copy)) /\ stamper'[1] >= origin + Len(copy)
  BY <1>1, <1>5, <1>6, <1>7, <1>8, BatchIsPublished
<1>12. OutInv' /\ FollowsOn /\ NextAt' = origin + FetchSize
  <2>1. Publishes(origin, FetchSize)
    BY <1>8, <1>9
  <2>2. ~skipped' => origin = NextAt /\ StampedLate(FetchSize)
    BY <1>1, <1>4, <1>8, <1>11
  <2> QED  BY <1>2, <1>3, <1>5, <2>1, <2>2, PublishedFollowsOn
<1>13. DataInv'
  BY <1>1, <1>2, <1>10 DEF DataInv
<1>14. MccInv'
  <2>1. CounterInv'
    BY <1>1, <1>3 DEF CounterInv, W
  <2>2. ~skipped' => taken' = NextAt' /\ Stamped(taken)'
    BY <1>1, <1>4, <1>5, <1>8, <1>11, <1>12 DEF Stamped
  <2> QED  BY <1>1, <1>2, <2>1, <2>2 DEF MccInv, N, FetchSize
<1> QED  BY <1>1, <1>12, <1>13, <1>14 DEF StreamInv

\* The board samples; an MCC board overwrites the oldest samples of its ring.
LEMMA SamplingStream ==
  ASSUME StreamInv, Sampling
  PROVE  StreamInv'
<1>1. /\ scanning /\ made' = made + 1 /\ (vendor = "mcc" => made + 1 < rawPrev + offset + W)
      /\ UNCHANGED <<vendor, opened, ai, timing, stamper, scanning, scanlist, taken, out, fpc, ring,
                     counter, window, aitask, queue, routed, timer>>
      /\ (~skipped' <=> ~skipped)
  BY DEF Sampling, Advance, life, base, control, marks, vendorVars, mcc, ni, labjack, keysight, W
<1>2. made \in Nat /\ taken \in Nat
  BY DEF StreamInv, DataInv
<1>3. DataInv' /\ OutInv'
  BY <1>1, <1>2 DEF StreamInv, DataInv, OutInv
<1>4. CASE vendor = "ni"
  BY <1>1, <1>3, <1>4 DEF StreamInv, NiInv, Scanned, NextAt, Stamped, N
<1>5. CASE vendor = "labjack"
  BY <1>1, <1>3, <1>5 DEF StreamInv, LabJackInv, Scanned, NextAt, Stamped, N
<1>6. CASE vendor = "keysight"
  <2>1. KeysightInv
    BY <1>6 DEF StreamInv
  <2>2. taken % N = 0 /\ made' >= taken
    BY <1>1, <1>2, <2>1 DEF KeysightInv
  <2> QED  BY <1>1, <1>3, <1>6, <2>1, <2>2 DEF StreamInv, KeysightInv, NextAt, N
<1>7. CASE vendor = "mcc"
  <2>1. UNCHANGED <<memhandle, target, bufsize, rawPrev, offset, curr, wall, origin, copy>>
    BY <1>1 DEF ring, counter, window
  <2>2. MccInv
    BY <1>7 DEF StreamInv
  <2>3. ASSUME memhandle # 0 PROVE CounterInv'
    <3>1. CounterInv
      BY <2>2, <2>3 DEF MccInv
    <3>2. rawPrev + offset \in Nat /\ rawPrev + offset <= made
      BY <3>1 DEF CounterInv
    <3>3. rawPrev + offset <= made + 1 /\ made + 1 < rawPrev + offset + W
      BY <1>1, <1>2, <1>7, <3>2
    <3> QED  BY <1>1, <2>1, <3>1, <3>3 DEF CounterInv, W
  <2>4. ASSUME fpc \in {"window", "copy", "verify", "return"} PROVE WindowInv'
    <3>1. WindowInv /\ bufsize \in Nat
      BY <1>7, <2>2, <2>4, RingOfFetch DEF MccInv
    <3>2. /\ curr \in Nat /\ curr <= made'
          /\ \A o \in Nat : made' <= o + bufsize => made <= o + bufsize
      BY <1>1, <1>2, <3>1 DEF WindowInv
    <3>3. \A x : Sample(x)' = Sample(x)
      BY <1>1 DEF Sample
    <3>4. FetchSize' = FetchSize /\ N' = N
      BY <1>1 DEF FetchSize, N
    <3> QED  BY <1>1, <2>1, <3>1, <3>2, <3>3, <3>4 DEF WindowInv
  <2>5. MccInv'
    BY <1>1, <2>1, <2>2, <2>3, <2>4 DEF MccInv, N, FetchSize, NextAt, Stamped
  <2> QED  BY <1>1, <1>3, <1>7, <2>5 DEF StreamInv
<1>8. CASE vendor \notin {"ni", "labjack", "keysight", "mcc"}
  BY <1>1, <1>3, <1>8 DEF StreamInv
<1> QED  BY <1>4, <1>5, <1>6, <1>7, <1>8

----------------------------------------------------------------------------
(* What is published is what was sampled *)

LEMMA FetchStream ==
  ASSUME ControlInv, StreamInv, Fetch
  PROVE  StreamInv' /\ FollowsOn
<1>1. vendor \in {"mcc", "ni", "labjack", "keysight"}
  BY DEF Fetch, Of
<1> QED  BY <1>1, MccFetchStream, NiFetchStream, LabJackFetchStream, KeysightFetchStream

LEMMA MccFetchingStream ==
  ASSUME PowersOfTwo, StreamInv, MccFetching
  PROVE  StreamInv'
<1>1. MccPoll \/ MccWindow \/ MccCopy \/ MccVerify
  BY DEF MccFetching, MccFetchStep
<1> QED  BY <1>1, MccPollStream, MccWindowStream, MccCopyStream, MccVerifyStream

\* Only a fetch publishes samples of an acquisition.
LEMMA OthersPublishNothing ==
  ASSUME \/ ControlNext \/ DaemonLoop \/ FetchRaises \/ MccFetching \/ Callback \/ Sampling
         \/ UNCHANGED <<life, analogVars>>
  PROVE  FollowsOn
<1>1. CASE \/ DaemonLoop \/ FetchRaises \/ MccFetching \/ Callback \/ Sampling
           \/ UNCHANGED <<life, analogVars>>
  <2>1. out' = out
    BY <1>1 DEF DaemonLoop, FetchRaises, MccFetching, MccFetchStep, MccPoll, MccWindow, MccCopy,
                MccVerify, Callback, StreamCallback, Sampling, Advance, analogVars
  <2> QED  BY <2>1 DEF FollowsOn
<1>2. CASE ControlNext
  <2>1. CASE SoftwareTimedRead
    BY <2>1 DEF SoftwareTimedRead, FollowsOn
  <2>2. CASE \E background \in BOOLEAN : Start(background)
    <3>1. out' = <<>> \/ out' = out
      BY <2>2 DEF Start, Begin
    <3> QED  BY <3>1 DEF FollowsOn
  <2>3. CASE \/ Open \/ ConfigureAiSampleRate \/ StartRaises \/ Stopped \/ ReadCall
             \/ \E c \in Channels, scaler, ok \in BOOLEAN : ConfigureAnalogChannel(c, scaler, ok)
             \/ \E close \in BOOLEAN : StopCall(close)
    <3>1. out' = out
      BY <2>3 DEF Open, ConfigureAiSampleRate, StartRaises, Stopped, ReadCall, ConfigureAnalogChannel,
                  StopCall
    <3> QED  BY <3>1 DEF FollowsOn
  <2> QED  BY <1>2, <2>1, <2>2, <2>3 DEF ControlNext
<1> QED  BY <1>1, <1>2

\* The invariant: where the samples are, as long as the board scans what is registered.
AnalogInv == ControlInv /\ (~drift => StreamInv)

LEMMA StreamStep ==
  ASSUME PowersOfTwo, AnalogInv, [Next]_vars
  PROVE  AnalogInv' /\ FollowsOn
<1>1. ControlInv /\ ControlInv'
  BY ControlStep DEF AnalogInv
<1> SUFFICES ASSUME ~drift' PROVE StreamInv' /\ FollowsOn
  BY <1>1 DEF AnalogInv, FollowsOn
<1>2. CASE ControlNext
  <2>1. ~drift
    BY <1>2 DEF ControlNext, Open, ConfigureAnalogChannel, ConfigureAiSampleRate, Start, StartRaises,
                StopCall, Stopped, SoftwareTimedRead, ReadCall, marks
  <2>2. StreamInv
    BY <2>1 DEF AnalogInv
  <2>3. StreamInv'
    <3>1. CASE Open \/ \E c \in Channels, scaler, ok \in BOOLEAN : ConfigureAnalogChannel(c, scaler, ok)
      BY <1>1, <2>2, <3>1, OpenStream, ConfigureStream
    <3>2. CASE ConfigureAiSampleRate \/ SoftwareTimedRead
      BY <1>1, <2>2, <3>2, SampleRateStream, SoftwareTimedReadStream
    <3>3. CASE StartRaises \/ \E background \in BOOLEAN : Start(background)
      BY <1>1, <2>2, <3>3, StartStream, StartRaisesStream
    <3>4. CASE Stopped \/ ReadCall \/ \E close \in BOOLEAN : StopCall(close)
      BY <1>1, <2>2, <3>4, StoppedStream, ThreadsStream
    <3> QED  BY <1>2, <3>1, <3>2, <3>3, <3>4 DEF ControlNext
  <2> QED  BY <1>2, <2>3, OthersPublishNothing
<1>3. CASE FetchNext \/ Callback \/ Sampling
  <2>1. ~drift
    BY <1>3 DEF FetchNext, DaemonLoop, Fetch, FetchRaises, MccFetching, Callback, Sampling, marks
  <2>2. StreamInv
    BY <2>1 DEF AnalogInv
  <2>3. CASE Fetch
    BY <1>1, <2>2, <2>3, FetchStream
  <2>4. CASE DaemonLoop \/ FetchRaises \/ MccFetching \/ Callback \/ Sampling
    <3>1. StreamInv'
      BY <1>1, <2>2, <2>4, ThreadsStream, FetchRaisesStream, MccFetchingStream, CallbackStream,
         SamplingStream
    <3> QED  BY <2>4, <3>1, OthersPublishNothing
  <2> QED  BY <1>3, <2>3, <2>4 DEF FetchNext
<1>4. CASE UNCHANGED <<life, analogVars>>
  <2>1. UNCHANGED <<vendor, opened, base, stamper, board, out, vendorVars, skipped, drift, fpc>>
    BY <1>4 DEF life, analogVars, control, marks
  <2>2. StreamInv
    BY <2>1 DEF AnalogInv
  <2> QED  BY <1>4, <2>1, <2>2, QuietStream, OthersPublishNothing
<1> QED  BY <1>2, <1>3, <1>4 DEF Next, vars

LEMMA AnalogHolds ==
  ASSUME PowersOfTwo
  PROVE  Spec => []AnalogInv
<1>1. Init => AnalogInv
  BY InitControl, InitStream DEF AnalogInv
<1>2. AnalogInv /\ [Next]_vars => AnalogInv'
  BY StreamStep
<1> QED  BY <1>1, <1>2, PTL DEF Spec

\* Whatever the vendor, the channels, the rate, the ring and the interleaving of board, daemon,
\* callback and control thread: each sample is published under the channel it was taken from.
THEOREM SamplesKeepTheirChannel ==
  ASSUME PowersOfTwo
  PROVE  Spec => []PublishedUnderItsChannel
<1>1. AnalogInv => PublishedUnderItsChannel
  BY DEF AnalogInv, StreamInv, OutInv, PublishedUnderItsChannel
<1> QED  BY <1>1, AnalogHolds, PTL

\* The timeline of HWTimestamper, anchored by the first batch and counted on from there, never
\* falls behind the board.
THEOREM TimelineKeepsUp ==
  ASSUME PowersOfTwo
  PROVE  Spec => []StampsFollowSamples
<1>1. AnalogInv => StampsFollowSamples
  BY DEF AnalogInv, StreamInv, OutInv, StampsFollowSamples
<1> QED  BY <1>1, AnalogHolds, PTL

\* No sample is lost or doubled between two batches unless a fetch said so: the torn-copy guard
\* and the overrun check of the MCC ring suffice for any ring and any width of its counter.
THEOREM SamplesAreContiguous ==
  ASSUME PowersOfTwo
  PROVE  Spec => SamplesContiguous
<1>1. AnalogInv /\ [Next]_vars => FollowsOn
  BY StreamStep
<1>2. FollowsOn =>
        ((out' # out /\ out' # <<>> /\ ~drift' /\ ~skipped' /\ timing # 0) =>
           /\ out'[1].at = IF out = <<>> THEN 0 ELSE out[Len(out)].at + 1
           /\ \A i \in DOMAIN out' \ {1} : out'[i].at = out'[i - 1].at + 1)
  BY DEF FollowsOn
<1> QED  BY <1>1, <1>2, AnalogHolds, PTL DEF Spec, SamplesContiguous
=============================================================================
