--------------------------- MODULE ChannelBuffer ---------------------------
(***************************************************************************)
(* instro.lib.publishers.channel_buffer: ChannelBufferPublisher over the   *)
(* ring of NumpyInMemoryPublisher.  Publishing threads append samples,     *)
(* reader threads block in get() on one condition variable, and close()    *)
(* wakes them for good.  Every step below is what one thread does while it *)
(* holds the condition's lock, except GetCall, whose look at _values is    *)
(* made without it.  Samples are numbered per channel: sample k is the     *)
(* k-th one published, and timestamps travel with the values.              *)
(***************************************************************************)
EXTENDS Naturals, Sequences

CONSTANTS
  Channels,     \* channel names
  Readers,      \* threads that call get()
  MaxLen,       \* maxlen of the buffer
  Lengths,      \* the lengths readers ask for
  MaxBatch,     \* bound: samples in one measurement
  MaxProduced   \* bound: samples of one channel, ever

ASSUME MaxLenAssumption == MaxLen \in Nat \ {0}
ASSUME LengthsAssumption == Lengths \subseteq Nat \ {0}
ASSUME BoundsAssumption == MaxBatch \in Nat /\ MaxProduced \in Nat

VARIABLES
  values,     \* _values: the ring of each channel that exists
  total,      \* _total_added_count, a Counter: 0 for a channel it does not hold
  closed,     \* _closed
  produced,   \* history: samples published per channel since construction
  pc,         \* where each reader is in get()
  parked,     \* readers asleep in condition.wait()
  req,        \* the arguments of each reader's call, and produced when it called
  target,     \* target_count of _get_with_wait
  out         \* how each reader's last call ended

vars == <<values, total, closed, produced, pc, parked, req, target, out>>
bufferVars == <<values, total, closed, produced>>

Least(a, b) == IF a <= b THEN a ELSE b

----------------------------------------------------------------------------
(* NumpyRingBuffer *)

Slots == 0..MaxLen - 1
Ring == [slot : [Slots -> Nat], index : Slots, size : 0..MaxLen]
NewRing == [slot |-> [i \in Slots |-> 0], index |-> 0, size |-> 0]

\* A bug of the usual kind: the part of a batch that wraps is not written.
ExtendNoWrap(ring, xs) ==
  LET n == Len(xs)
      end == ring.index + n
  IN  IF n >= MaxLen
      THEN [slot |-> [i \in Slots |-> xs[n - MaxLen + 1 + i]], index |-> 0, size |-> MaxLen]
      ELSE [slot |-> [i \in Slots |->
                        IF i \in ring.index..end - 1 THEN xs[i - ring.index + 1] ELSE ring.slot[i]],
            index |-> end % MaxLen,
            size  |-> Least(ring.size + n, MaxLen)]

\* Write xs at index, wrapping once; a batch of maxlen or more replaces everything.
Extend(ring, xs) ==
  LET n == Len(xs)
      end == ring.index + n
      first == MaxLen - ring.index      \* room before the wrap
  IN  IF n = 0 THEN ring
      ELSE IF n >= MaxLen
      THEN [slot |-> [i \in Slots |-> xs[n - MaxLen + 1 + i]], index |-> 0, size |-> MaxLen]
      ELSE [slot |-> [i \in Slots |->
                        IF i \in ring.index..end - 1 THEN xs[i - ring.index + 1]
                        ELSE IF i < n - first THEN xs[first + 1 + i]
                        ELSE ring.slot[i]],
            index |-> end % MaxLen,
            size  |-> Least(ring.size + n, MaxLen)]

\* The n samples that end at index, oldest first.
GetLatest(ring, length) ==
  LET n == Least(length, ring.size)
      start == (ring.index + MaxLen - n) % MaxLen
  IN  IF n = 0 THEN <<>>
      ELSE IF start < ring.index
      THEN [i \in 1..n |-> ring.slot[start + i - 1]]
      ELSE [i \in 1..MaxLen - start |-> ring.slot[start + i - 1]]
             \o [i \in 1..ring.index |-> ring.slot[i - 1]]

----------------------------------------------------------------------------
(* The publisher *)

PointsInBuffer(c) == values[c].size

\* _ensure_channel, then extend.
Stored(c, xs) == Extend(IF c \in DOMAIN values THEN values[c] ELSE NewRing, xs)

Fresh(c, n) == [i \in 1..n |-> produced[c] + i]

NoReq == [ch |-> CHOOSE c \in Channels : TRUE, len |-> 1, since |-> 0]
NoAnswer == [kind |-> "none", samples |-> <<>>]

Init ==
  /\ values = [c \in {} |-> NewRing]
  /\ total = [c \in Channels |-> 0]
  /\ closed = FALSE
  /\ produced = [c \in Channels |-> 0]
  /\ pc = [r \in Readers |-> "idle"]
  /\ parked = {}
  /\ req = [r \in Readers |-> NoReq]
  /\ target = [r \in Readers |-> 0]
  /\ out = [r \in Readers |-> NoAnswer]

\* publish() of a measurement of n samples on the channels S: the channels of one
\* measurement share its timestamps.  It does not look at _closed.
Publish(S, n) ==
  /\ \A c \in S : produced[c] + n <= MaxProduced
  /\ values' = [c \in DOMAIN values \cup S |->
                  IF c \in S THEN Stored(c, Fresh(c, n)) ELSE values[c]]
  /\ total' = [c \in Channels |-> IF c \in S THEN total[c] + n ELSE total[c]]
  /\ produced' = [c \in Channels |-> IF c \in S THEN produced[c] + n ELSE produced[c]]
  /\ parked' = {}
  /\ UNCHANGED <<closed, pc, req, target, out>>

\* A bug of the usual kind: close() forgets notify_all().
CloseSilently ==
  /\ closed' = TRUE
  /\ values' = [c \in {} |-> NewRing]
  /\ total' = [c \in Channels |-> 0]
  /\ UNCHANGED <<produced, pc, parked, req, target, out>>

\* close(): notify everyone, then drop all data.  Closing twice changes nothing new.
Close ==
  /\ closed' = TRUE
  /\ values' = [c \in {} |-> NewRing]
  /\ total' = [c \in Channels |-> 0]
  /\ parked' = {}
  /\ UNCHANGED <<produced, pc, req, target, out>>

----------------------------------------------------------------------------
(* The readers *)

\* get(): with wait_for_new_samples it first looks for the channel, unlocked.
GetCall(r, c, len, wait) ==
  /\ pc[r] = "idle"
  /\ req' = [req EXCEPT ![r] = [ch |-> c, len |-> len, since |-> produced[c]]]
  /\ pc' = [pc EXCEPT ![r] = IF ~wait THEN "exist"
                             ELSE IF c \in DOMAIN values THEN "count" ELSE "appear"]
  /\ out' = [out EXCEPT ![r] = NoAnswer]
  /\ UNCHANGED <<bufferVars, parked, target>>

Return(r, kind, samples) ==
  /\ out' = [out EXCEPT ![r] = [kind |-> kind, samples |-> samples]]
  /\ pc' = [pc EXCEPT ![r] = "idle"]
  /\ parked' = parked \ {r}
  /\ target' = [target EXCEPT ![r] = 0]
  /\ UNCHANGED req

Raise(r, error) == Return(r, error, <<>>)

Answer(r) ==
  LET c == req[r].ch
  IN  Return(r, "data", GetLatest(values[c], Least(req[r].len, PointsInBuffer(c))))

\* condition.wait(): sleep in state `at` until notified, then test again.
Park(r, at) ==
  /\ pc' = [pc EXCEPT ![r] = at]
  /\ parked' = parked \cup {r}
  /\ UNCHANGED <<req, target, out>>

Goto(r, at) ==
  /\ pc' = [pc EXCEPT ![r] = at]
  /\ parked' = parked \ {r}
  /\ UNCHANGED <<req, target, out>>

\* The second wait of _get_with_buffer_wait.  The predicate reads _values[channel]
\* before it looks at _closed, and close() has emptied _values.
FillWait(r, expired) ==
  LET c == req[r].ch
  IN  IF c \notin DOMAIN values THEN Raise(r, "key_error")
      ELSE IF PointsInBuffer(c) >= req[r].len THEN Answer(r)
      ELSE IF closed \/ expired THEN Raise(r, "value_timeout")
      ELSE Park(r, "fill")

\* The first wait of _get_with_buffer_wait; when its time is used up the second wait is skipped.
ExistWait(r, expired) ==
  IF req[r].ch \in DOMAIN values \/ closed
  THEN IF closed THEN Raise(r, "closed")
       ELSE IF expired THEN Answer(r) ELSE FillWait(r, FALSE)
  ELSE IF expired THEN Raise(r, "not_found") ELSE Park(r, "exist")

\* get() waiting for the channel to appear; the lock is released before _get_with_wait.
AppearWait(r, expired) ==
  IF req[r].ch \in DOMAIN values \/ closed
  THEN IF closed THEN Raise(r, "closed") ELSE Goto(r, "count")
  ELSE IF expired THEN Raise(r, "not_found") ELSE Park(r, "appear")

\* The wait of _get_with_wait.
NewWait(r, expired, goal) ==
  LET c == req[r].ch
  IN  IF total[c] >= goal THEN Answer(r)
      ELSE IF closed \/ expired THEN Raise(r, "value_timeout")
      ELSE /\ pc' = [pc EXCEPT ![r] = "new"]
           /\ parked' = parked \cup {r}
           /\ target' = [target EXCEPT ![r] = goal]
           /\ UNCHANGED <<req, out>>

\* A bug of the usual kind: the samples already there count as new.
CountAllSamples(r) == req[r].len

\* target_count, from the count at the moment the reader starts to wait.
TargetCount(r) == total[req[r].ch] + req[r].len

\* One pass of wait_for(): reader r holds the lock and tests what it waits for.
Test(r, expired) ==
  /\ \/ pc[r] = "appear" /\ AppearWait(r, expired)
     \/ pc[r] = "count" /\ NewWait(r, expired, TargetCount(r))
     \/ pc[r] = "new" /\ NewWait(r, expired, target[r])
     \/ pc[r] = "exist" /\ ExistWait(r, expired)
     \/ pc[r] = "fill" /\ FillWait(r, expired)
  /\ UNCHANGED bufferVars

\* The reader runs: it has just called, or it was notified.
Wake(r) == r \notin parked /\ Test(r, FALSE)

\* The timeout of the call is used up.
Expire(r) == Test(r, TRUE)

Next ==
  \/ \E S \in SUBSET Channels \ {{}}, n \in 0..MaxBatch : Publish(S, n)
  \/ Close
  \/ \E r \in Readers, c \in Channels, len \in Lengths, wait \in BOOLEAN : GetCall(r, c, len, wait)
  \/ \E r \in Readers : Wake(r) \/ Expire(r)

\* A reader that is awake runs; nothing is assumed of timeouts, publishers or callers.
Fairness == \A r \in Readers : WF_vars(Wake(r))

Spec == Init /\ [][Next]_vars /\ Fairness

----------------------------------------------------------------------------
(* Properties *)

Kinds == {"none", "data", "closed", "not_found", "value_timeout", "key_error"}

\* Every variable has its type: for the reader, and proved.
TypeOK ==
  /\ DOMAIN values \subseteq Channels
  /\ \A c \in DOMAIN values : values[c] \in Ring
  /\ total \in [Channels -> Nat]
  /\ closed \in BOOLEAN
  /\ produced \in [Channels -> Nat]
  /\ pc \in [Readers -> {"idle", "appear", "count", "new", "exist", "fill"}]
  /\ parked \subseteq Readers
  /\ req \in [Readers -> [ch : Channels, len : Lengths \cup {1}, since : Nat]]
  /\ target \in [Readers -> Nat]
  /\ \A r \in Readers : out[r].kind \in Kinds /\ out[r].samples \in Seq(Nat)

\* A read that asked for new samples never hands out one that was published before the
\* call: not when the channel appears late, not when close() resets the counter under
\* the waiter and a late publish counts from zero again.
NewSamplesAreNew ==
  [][\A r \in Readers :
       (pc[r] \in {"count", "new"} /\ out'[r].kind = "data" /\ req[r].len <= MaxLen) =>
         /\ Len(out'[r].samples) = req[r].len
         /\ \A i \in DOMAIN out'[r].samples : out'[r].samples[i] > req[r].since]_vars

\* What a read returns is the end of its channel's window of the most recent samples, as long
\* as it asked for or as there are, at the step in which it returns: the ring with its wrap, the counter and the waits implement it.
Window == INSTANCE SampleWindow WITH
  window <- [c \in DOMAIN values |-> GetLatest(values[c], MaxLen)],
  request <- [r \in Readers |-> [ch |-> req[r].ch, len |-> req[r].len]],
  answer <- [r \in Readers |-> out[r].samples]

ImplementsWindow == Window!WSpec

\* close() releases every blocked reader without the help of its timeout.
CloseWakesReaders == \A r \in Readers : (closed /\ pc[r] # "idle") ~> (pc[r] = "idle")

\* get() documents ChannelNotFoundError and ChannelValueTimeoutError, and the code of
\* _get_with_buffer_wait raises the latter when the publisher is closed under a reader
\* that waits for the buffer to fill.
OnlyDocumentedErrors == \A r \in Readers : out[r].kind # "key_error"
=============================================================================
