----------------------- MODULE QueuedPublisherProofs -----------------------
(***************************************************************************)
(* The safety of QueuedPublisher around a BasicBufferedPublisher, for any  *)
(* number of producers, any queue and any buffer.  The buffer has no lock, *)
(* and the proof is that it needs none here: the worker is in the wrapped  *)
(* publisher only while it publishes, the closing thread only after it has *)
(* joined the worker (TurnsInv).  So what one of them has sent of the      *)
(* buffer stays a prefix of it until the buffer is cleared (BatchInv).     *)
(***************************************************************************)
EXTENDS QueuedPublisher, SequenceTheorems, TLAPS

\* Where the worker, and the closing thread, can be in the wrapped publisher.
TurnsInv ==
  /\ bpc[Worker] \in {"idle", "test", "flush", "clear"}
  /\ bpc[Closer] \in {"idle", "close", "shut"}
  /\ bpc[Worker] # "idle" => wpc = "publish"
  /\ bpc[Closer] # "idle" => cpc = "wrapped"
  /\ cpc \in {"wrapped", "closed", "failed"} => wpc = "ended"
  /\ closes = 0 <=> cpc = "open"

\* What a caller has sent of the buffer, at its place in publish_batch() and after it.
BatchInv ==
  \A p \in Callers :
    /\ bpc[p] \in {"flush", "close"} =>
         \A i \in DOMAIN buffer : i < bidx[p] => buffer[i] \in Elements(sent)
    /\ bpc[p] \in {"clear", "shut"} => Elements(buffer) \subseteq Elements(sent)

\* Without a failure the worker ends only when it is told to, and a close() that is
\* through with the batch has sent it.
EndInv ==
  failures = 0 =>
    /\ raised = {}
    /\ wpc = "ended" => stop
    /\ wpc = "ended" /\ waitForQueue => accepted \subseteq Elements(buffer) \cup Elements(sent)
    /\ (cpc = "wrapped" /\ bpc[Closer] = "idle") \/ cpc = "closed" =>
         Elements(buffer) \subseteq Elements(sent)

\* Items are numbered as they are published: a producer that waits to put one has put
\* and sent only older ones.
NumbersInv ==
  /\ \A p \in Producers : ppc[p] = "put" => count[p] \in Nat \ {0}
  /\ \A x \in Elements(queue) \cup Elements(buffer) \cup Elements(sent) :
       /\ x[2] <= count[x[1]]
       /\ ppc[x[1]] = "put" => x[2] < count[x[1]]

Older(x, y) == x[1] = y[1] => x[2] < y[2]
Sorted(list) == \A i, j \in DOMAIN list : i < j => Older(list[i], list[j])
Precedes(first, second) ==
  \A i \in DOMAIN first, j \in DOMAIN second : Older(first[i], second[j])

\* The first item of the buffer that the present round of publish_batch() has not sent, or
\* the next round will send.
Unsent ==
  IF bpc[Worker] = "flush" THEN bidx[Worker]
  ELSE IF bpc[Worker] = "clear" THEN Len(buffer) + 1
  ELSE IF bpc[Closer] = "close" THEN bidx[Closer]
  ELSE IF cpc \in {"open", "join"} THEN 1 ELSE Len(buffer) + 1

\* Sent, then unsent, then queued: the items of a producer are in order along the way.
OrderInv ==
  failures = 0 /\ closes <= 1 =>
    /\ Sorted(sent) /\ Sorted(buffer) /\ Sorted(queue)
    /\ Precedes(sent, queue) /\ Precedes(buffer, queue)
    /\ \A i \in DOMAIN sent, j \in DOMAIN buffer : j >= Unsent => Older(sent[i], buffer[j])

Inv ==
  /\ TypeOK /\ TurnsInv /\ BatchInv /\ AcceptedIsSomewhere
  /\ EndInv /\ NumbersInv /\ OrderInv

USE QueueAssumption, CallersAssumption, CountsAssumption, BufferSizeAssumption, MaxFailuresAssumption

----------------------------------------------------------------------------
(* The lists *)

LEMMA ElementsOfAppend ==
  ASSUME NEW S, NEW list \in Seq(S), NEW x \in S
  PROVE  /\ Append(list, x) \in Seq(S) /\ Len(Append(list, x)) = Len(list) + 1
         /\ Elements(Append(list, x)) = Elements(list) \cup {x}
         /\ DOMAIN Append(list, x) = 1..Len(list) + 1
         /\ \A i \in 1..Len(list) : Append(list, x)[i] = list[i]
         /\ Append(list, x)[Len(list) + 1] = x
<1> DEFINE new == Append(list, x)
<1>1. /\ new \in Seq(S) /\ Len(new) = Len(list) + 1
      /\ \A i \in 1..Len(list) : new[i] = list[i]
      /\ new[Len(list) + 1] = x
  BY AppendProperties
<1> HIDE DEF new
<1>2. Len(list) \in Nat /\ DOMAIN list = 1..Len(list) /\ DOMAIN new = 1..Len(list) + 1
  BY <1>1, LenProperties
<1>3. Elements(new) \subseteq Elements(list) \cup {x}
  BY <1>1, <1>2 DEF Elements
<1>4. Elements(list) \cup {x} \subseteq Elements(new)
  <2>1. ASSUME NEW i \in DOMAIN list  PROVE list[i] \in Elements(new)
    BY <1>1, <1>2 DEF Elements
  <2>2. x \in Elements(new)
    <3>1. Len(list) + 1 \in DOMAIN new
      BY <1>2
    <3> QED  BY <1>1, <3>1 DEF Elements
  <2> QED  BY <2>1, <2>2 DEF Elements
<1> QED  BY <1>1, <1>2, <1>3, <1>4 DEF new

LEMMA ElementsOfTail ==
  ASSUME NEW S, NEW list \in Seq(S), list # <<>>
  PROVE  /\ Head(list) \in S /\ Head(list) = list[1] /\ 1 \in DOMAIN list
         /\ Tail(list) \in Seq(S) /\ Len(Tail(list)) = Len(list) - 1
         /\ Elements(list) = {Head(list)} \cup Elements(Tail(list))
         /\ \A i \in DOMAIN Tail(list) : i + 1 \in DOMAIN list /\ Tail(list)[i] = list[i + 1]
         /\ DOMAIN Tail(list) = 1..Len(list) - 1
<1>1. /\ Len(list) \in Nat \ {0} /\ DOMAIN list = 1..Len(list)
      /\ Head(list) \in S /\ Head(list) = list[1]
  BY LenProperties, EmptySeq
<1> DEFINE rest == Tail(list)
<1>2. /\ rest \in Seq(S) /\ Len(rest) = Len(list) - 1
      /\ \A i \in 1..Len(rest) : rest[i] = list[i + 1]
  BY HeadTailProperties
<1> HIDE DEF rest
<1>3. DOMAIN rest = 1..Len(list) - 1
  BY <1>2, LenProperties
<1>4. \A i \in DOMAIN rest : i + 1 \in DOMAIN list /\ rest[i] = list[i + 1]
  BY <1>1, <1>2, <1>3
<1>5. {Head(list)} \cup Elements(rest) \subseteq Elements(list)
  <2>1. 1 \in DOMAIN list
    BY <1>1
  <2> QED  BY <1>1, <1>4, <2>1 DEF Elements
<1>6. ASSUME NEW i \in DOMAIN list  PROVE list[i] \in {Head(list)} \cup Elements(rest)
  <2>1. CASE i = 1
    BY <1>1, <2>1
  <2>2. CASE i # 1
    <3>1. i - 1 \in DOMAIN rest /\ rest[i - 1] = list[i]
      BY <1>1, <1>3, <1>4, <2>2
    <3> QED  BY <3>1 DEF Elements
  <2> QED  BY <2>1, <2>2
<1>7. Elements(list) \subseteq {Head(list)} \cup Elements(rest)
  BY <1>6 DEF Elements
<1> QED  BY <1>1, <1>2, <1>3, <1>4, <1>5, <1>7 DEF rest

LEMMA ElementsOfNone == Elements(<<>>) = {} /\ DOMAIN <<>> = {}
BY DEF Elements

LEMMA ElementsAreItems ==
  ASSUME NEW S, NEW list \in Seq(S)
  PROVE  /\ Elements(list) \subseteq S /\ Len(list) \in Nat /\ DOMAIN list = 1..Len(list)
         /\ \A i \in DOMAIN list : list[i] \in S /\ list[i] \in Elements(list)
<1>1. Len(list) \in Nat /\ DOMAIN list = 1..Len(list) /\ list \in [1..Len(list) -> S]
  BY LenProperties
<1> QED  BY <1>1 DEF Elements

LEMMA Lists ==
  ASSUME TypeOK
  PROVE  /\ queue \in Seq(Items) /\ buffer \in Seq(Items) /\ sent \in Seq(Items)
         /\ Len(queue) \in Nat /\ Len(buffer) \in Nat /\ Len(sent) \in Nat
         /\ DOMAIN queue = 1..Len(queue) /\ DOMAIN buffer = 1..Len(buffer) /\ DOMAIN sent = 1..Len(sent)
         /\ \A i \in DOMAIN queue : queue[i] \in Items /\ queue[i] \in Elements(queue)
         /\ \A i \in DOMAIN buffer : buffer[i] \in Items /\ buffer[i] \in Elements(buffer)
         /\ \A i \in DOMAIN sent : sent[i] \in Items /\ sent[i] \in Elements(sent)
         /\ Elements(queue) \cup Elements(buffer) \cup Elements(sent) \subseteq Items
<1>1. queue \in Seq(Items) /\ buffer \in Seq(Items) /\ sent \in Seq(Items)
  BY DEF TypeOK, BTypeOK
<1> QED  BY <1>1, ElementsAreItems

LEMMA ItemNumbers ==
  ASSUME NEW x \in Items  PROVE x[1] \in Producers /\ x[2] \in Nat
BY DEF Items

----------------------------------------------------------------------------
(* The inductive invariant *)

LEMMA InitInv == Init => Inv
<1> SUFFICES ASSUME Init  PROVE Inv
  OBVIOUS
<1>1. TypeOK
  <2>1. BTypeOK(Items)
    BY DEF Init, BInit, BTypeOK
  <2>2. 0 \in 0..MaxItems /\ 0 \in 0..MaxCloses /\ 0 <= MaxQueueSize
    OBVIOUS
  <2>3. queue \in Seq(Items) /\ Len(queue) = 0
    BY DEF Init
  <2>4. /\ ppc \in [Producers -> {"idle", "put"}] /\ count \in [Producers -> 0..MaxItems]
        /\ closes \in 0..MaxCloses
    BY <2>2 DEF Init
  <2> QED  BY <2>1, <2>2, <2>3, <2>4 DEF Init, TypeOK
<1>2. TurnsInv /\ BatchInv
  BY DEF Init, BInit, TurnsInv, BatchInv
<1>3. AcceptedIsSomewhere /\ EndInv
  BY DEF Init, BInit, AcceptedIsSomewhere, EndInv
<1>4. NumbersInv /\ OrderInv
  BY ElementsOfNone DEF Init, BInit, NumbersInv, OrderInv, Sorted, Precedes
<1> QED  BY <1>1, <1>2, <1>3, <1>4 DEF Inv

LEMMA PublishInv ==
  ASSUME Inv, NEW p \in Producers, Publish(p)
  PROVE  Inv'
<1> USE DEF Publish
<1>1. TypeOK'
  BY DEF Inv, TypeOK, BTypeOK, bufferVars
<1>2. TurnsInv' /\ BatchInv' /\ AcceptedIsSomewhere' /\ EndInv'
  BY DEF Inv, TurnsInv, BatchInv, AcceptedIsSomewhere, EndInv, Elements, bufferVars
<1>3. NumbersInv'
  <2>1. count \in [Producers -> Nat] /\ ppc \in [Producers -> {"idle", "put"}]
    BY DEF Inv, TypeOK
  <2>2. \A q \in Producers : ppc'[q] = "put" => count'[q] \in Nat \ {0}
    BY <2>1 DEF Inv, NumbersInv
  <2>3. ASSUME NEW x \in Elements(queue) \cup Elements(buffer) \cup Elements(sent)
        PROVE  x[2] <= count'[x[1]] /\ (ppc'[x[1]] = "put" => x[2] < count'[x[1]])
    <3>1. x[1] \in Producers /\ x[2] \in Nat
      BY Lists, ItemNumbers DEF Inv
    <3>2. x[2] <= count[x[1]] /\ (ppc[x[1]] = "put" => x[2] < count[x[1]])
      BY DEF Inv, NumbersInv
    <3> QED  BY <2>1, <3>1, <3>2
  <2> QED  BY <2>2, <2>3 DEF NumbersInv, Elements, bufferVars
<1>4. OrderInv'
  BY DEF Inv, OrderInv, Sorted, Precedes, Older, Unsent, bufferVars
<1> QED  BY <1>1, <1>2, <1>3, <1>4 DEF Inv

LEMMA PutInv ==
  ASSUME Inv, NEW p \in Producers, Put(p)
  PROVE  Inv'
<1> USE DEF Put
<1> DEFINE x == <<p, count[p]>>
<1>1. x \in Items /\ x[1] = p /\ x[2] = count[p]
  BY DEF Inv, TypeOK, NumbersInv, Items
<1>2. /\ queue' \in Seq(Items) /\ Len(queue') = Len(queue) + 1
      /\ Elements(queue') = Elements(queue) \cup {x}
      /\ DOMAIN queue' = 1..Len(queue) + 1
      /\ \A i \in 1..Len(queue) : queue'[i] = queue[i]
      /\ queue'[Len(queue) + 1] = x
  <2>1. queue \in Seq(Items) /\ queue' = Append(queue, x)
    BY Lists DEF Inv
  <2> HIDE DEF x
  <2> QED  BY <1>1, <2>1, ElementsOfAppend
<1> HIDE DEF x
<1>3. accepted' \subseteq accepted \cup {x} /\ (stop => accepted' = accepted)
  BY DEF x
<1>4. TypeOK'
  BY <1>1, <1>2, <1>3, Lists DEF Inv, TypeOK, BTypeOK, bufferVars
<1>5. TurnsInv'
  BY DEF Inv, TurnsInv, bufferVars
<1>11. BatchInv'
  BY DEF Inv, BatchInv, bufferVars
<1>6. AcceptedIsSomewhere'
  BY <1>2, <1>3 DEF Inv, AcceptedIsSomewhere, bufferVars
<1>7. EndInv'
  BY <1>3 DEF Inv, EndInv, bufferVars
<1>8. \A y \in Elements(queue) \cup Elements(buffer) \cup Elements(sent) : Older(y, x)
  BY <1>1 DEF Inv, NumbersInv, Older
<1>9. NumbersInv'
  <2>1. ppc \in [Producers -> {"idle", "put"}] /\ count \in [Producers -> Nat] /\ count' = count
    BY DEF Inv, TypeOK
  <2>2. \A q \in Producers : ppc'[q] = "put" => ppc[q] = "put" /\ q # p
    BY <2>1
  <2>3. ASSUME NEW y \in Elements(queue) \cup Elements(buffer) \cup Elements(sent)
        PROVE  y[2] <= count[y[1]] /\ (ppc'[y[1]] = "put" => y[2] < count[y[1]])
    <3>1. y[1] \in Producers
      BY Lists, ItemNumbers DEF Inv
    <3> QED  BY <2>2, <3>1 DEF Inv, NumbersInv
  <2>4. x[2] <= count[x[1]] /\ ppc'[x[1]] # "put"
    BY <1>1, <2>1, <2>2
  <2>5. Elements(queue') \cup Elements(buffer) \cup Elements(sent)
          = Elements(queue) \cup Elements(buffer) \cup Elements(sent) \cup {x}
    BY <1>2
  <2>6. \A y \in Elements(queue') \cup Elements(buffer) \cup Elements(sent) :
          y[2] <= count[y[1]] /\ (ppc'[y[1]] = "put" => y[2] < count[y[1]])
    BY <2>3, <2>4, <2>5
  <2>7. buffer' = buffer /\ sent' = sent
    BY DEF bufferVars
  <2>8. \A q \in Producers : ppc'[q] = "put" => count[q] \in Nat \ {0}
    BY <2>2 DEF Inv, NumbersInv
  <2> QED  BY <2>1, <2>6, <2>7, <2>8 DEF NumbersInv
<1>10. OrderInv'
  <2> SUFFICES ASSUME failures = 0, closes <= 1
               PROVE  /\ Sorted(sent) /\ Sorted(buffer) /\ Sorted(queue')
                      /\ Precedes(sent, queue') /\ Precedes(buffer, queue')
                      /\ \A i \in DOMAIN sent, j \in DOMAIN buffer :
                           j >= Unsent => Older(sent[i], buffer[j])
    BY DEF OrderInv, Unsent, Sorted, Precedes, Older, bufferVars
  <2>1. /\ Sorted(sent) /\ Sorted(buffer) /\ Sorted(queue)
        /\ Precedes(sent, queue) /\ Precedes(buffer, queue)
        /\ \A i \in DOMAIN sent, j \in DOMAIN buffer : j >= Unsent => Older(sent[i], buffer[j])
    BY DEF Inv, OrderInv
  <2>2. Len(queue) \in Nat /\ DOMAIN queue = 1..Len(queue)
    BY Lists DEF Inv
  <2>3. ASSUME NEW j \in DOMAIN queue'
        PROVE  (j \in DOMAIN queue /\ queue'[j] = queue[j]) \/ (j = Len(queue) + 1 /\ queue'[j] = x)
    BY <1>2, <2>2
  <2>4. Precedes(sent, queue') /\ Precedes(buffer, queue')
    BY <1>8, <2>1, <2>3, Lists DEF Precedes, Inv
  <2>5. Sorted(queue')
    <3> SUFFICES ASSUME NEW i \in DOMAIN queue', NEW j \in DOMAIN queue', i < j
                 PROVE  Older(queue'[i], queue'[j])
      BY DEF Sorted
    <3>1. i \in DOMAIN queue /\ queue'[i] = queue[i]
      BY <1>2, <2>2
    <3>2. CASE j \in DOMAIN queue
      BY <2>1, <2>2, <2>3, <3>1, <3>2 DEF Sorted
    <3>3. CASE queue'[j] = x
      BY <1>8, <3>1, <3>3, Lists DEF Inv
    <3> QED  BY <2>3, <3>2, <3>3
  <2> QED  BY <2>1, <2>4, <2>5
<1> QED  BY <1>4, <1>5, <1>6, <1>7, <1>9, <1>10, <1>11 DEF Inv

\* What the other threads do with their stages alone keeps the lists as they are.
LEMMA ListsKeep ==
  ASSUME Inv, UNCHANGED <<buffer, sent, queue, count, ppc>>
  PROVE  NumbersInv'
BY DEF Inv, NumbersInv

LEMMA WorkLoopInv ==
  ASSUME Inv, WorkLoop \/ GetEmpty \/ Published
  PROVE  Inv'
<1>1. /\ UNCHANGED <<bufferVars, waitForQueue, queue, stop, ppc, count, accepted, cpc, closes>>
      /\ wpc' \in {"loop", "get", "ended"} /\ wpc # "ended"
      /\ wpc = "publish" => bpc[Worker] = "idle"
  BY DEF WorkLoop, GetEmpty, Published
<1>2. TypeOK' /\ NumbersInv'
  BY <1>1, ListsKeep DEF Inv, TypeOK, BTypeOK, bufferVars
<1>3. TurnsInv'
  BY <1>1 DEF Inv, TurnsInv, bufferVars
<1>4. BatchInv' /\ AcceptedIsSomewhere'
  BY <1>1 DEF Inv, BatchInv, AcceptedIsSomewhere, bufferVars
<1>5. EndInv'
  <2> SUFFICES ASSUME failures = 0
               PROVE  /\ raised = {}
                      /\ wpc' = "ended" => stop
                      /\ wpc' = "ended" /\ waitForQueue =>
                           accepted \subseteq Elements(buffer) \cup Elements(sent)
                      /\ (cpc = "wrapped" /\ bpc[Closer] = "idle") \/ cpc = "closed" =>
                           Elements(buffer) \subseteq Elements(sent)
    BY <1>1 DEF EndInv, bufferVars
  <2>1. /\ raised = {}
        /\ (cpc = "wrapped" /\ bpc[Closer] = "idle") \/ cpc = "closed" =>
             Elements(buffer) \subseteq Elements(sent)
    BY DEF Inv, EndInv
  <2>2. CASE wpc' = "ended"
    <3>1. WorkLoop /\ stop /\ (waitForQueue => queue = <<>>)
      BY <2>1, <2>2 DEF WorkLoop, GetEmpty, Published
    <3>2. waitForQueue => accepted \subseteq Elements(buffer) \cup Elements(sent)
      BY <3>1, ElementsOfNone DEF Inv, AcceptedIsSomewhere
    <3> QED  BY <2>1, <3>1, <3>2
  <2> QED  BY <2>1, <2>2
<1>6. OrderInv'
  BY <1>1 DEF Inv, OrderInv, Unsent, Sorted, Precedes, bufferVars
<1> QED  BY <1>2, <1>3, <1>4, <1>5, <1>6 DEF Inv

LEMMA CloseStagesInv ==
  ASSUME Inv, Close \/ Closed
  PROVE  Inv'
<1>1. /\ UNCHANGED <<bufferVars, waitForQueue, queue, wpc, ppc, count, accepted>>
      /\ stop => stop'
      /\ cpc' \in {"join", "failed", "closed"}
  BY DEF Close, Closed
<1>2. TypeOK' /\ NumbersInv'
  <2>1. closes' \in 0..MaxCloses /\ stop' \in BOOLEAN
    <3>1. closes \in 0..MaxCloses /\ stop \in BOOLEAN
      BY DEF Inv, TypeOK
    <3>2. CASE Close
      BY <3>1, <3>2 DEF Close
    <3>3. CASE Closed
      BY <3>1, <3>3 DEF Closed
    <3> QED  BY <3>2, <3>3
  <2> QED  BY <1>1, <2>1, ListsKeep DEF Inv, TypeOK, BTypeOK, bufferVars
<1>3. TurnsInv'
  <2>1. closes \in Nat
    BY DEF Inv, TypeOK
  <2>2. CASE Close
    BY <1>1, <2>1, <2>2 DEF Inv, TurnsInv, Close, bufferVars
  <2>3. CASE Closed
    BY <1>1, <2>3 DEF Inv, TurnsInv, Closed, bufferVars
  <2> QED  BY <2>2, <2>3
<1>4. BatchInv' /\ AcceptedIsSomewhere'
  BY <1>1 DEF Inv, BatchInv, AcceptedIsSomewhere, bufferVars
<1>5. EndInv'
  <2>1. CASE Close
    BY <1>1, <2>1 DEF Inv, EndInv, Close, bufferVars
  <2>2. CASE Closed
    BY <1>1, <2>2 DEF Inv, EndInv, Closed, bufferVars
  <2> QED  BY <2>1, <2>2
<1>6. OrderInv'
  <2>1. closes \in Nat
    BY DEF Inv, TypeOK
  <2>2. CASE Close
    <3>1. closes' <= 1 => closes = 0 /\ cpc = "open"
      BY <2>1, <2>2 DEF Inv, TurnsInv, Close
    <3>2. closes' <= 1 => Unsent' = Unsent /\ closes <= 1
      BY <1>1, <2>2, <3>1 DEF Unsent, Close, bufferVars
    <3> QED  BY <1>1, <3>2 DEF Inv, OrderInv, Sorted, Precedes, bufferVars
  <2>3. CASE Closed
    <3>1. Unsent' = Unsent
      BY <1>1, <2>3 DEF Unsent, Closed, bufferVars
    <3> QED  BY <1>1, <2>3, <3>1 DEF Inv, OrderInv, Closed, Sorted, Precedes, bufferVars
  <2> QED  BY <2>2, <2>3
<1> QED  BY <1>2, <1>3, <1>4, <1>5, <1>6 DEF Inv

\* The worker appends to the buffer while nobody is in the wrapped publisher.
LEMMA GetInv ==
  ASSUME Inv, Get
  PROVE  Inv'
<1> DEFINE x == Head(queue)
<1>1. /\ wpc = "get" /\ queue # <<>> /\ queue' = Tail(queue) /\ wpc' = "publish"
      /\ bpc[Worker] = "idle" /\ buffer' = Append(buffer, x)
      /\ bpc' = [bpc EXCEPT ![Worker] = "test"]
      /\ raised' = raised \ {Worker}
      /\ UNCHANGED <<sent, shut, failures, bidx, waitForQueue, stop, ppc, count, accepted, cpc, closes>>
  BY DEF Get, BAppend
<1>2. /\ x \in Items /\ x = queue[1] /\ 1 \in DOMAIN queue
      /\ queue' \in Seq(Items) /\ Len(queue') = Len(queue) - 1
      /\ Elements(queue) = {x} \cup Elements(queue')
      /\ \A i \in DOMAIN queue' : i + 1 \in DOMAIN queue /\ queue'[i] = queue[i + 1]
      /\ DOMAIN queue' = 1..Len(queue) - 1
  BY <1>1, Lists, ElementsOfTail DEF Inv
<1> HIDE DEF x
<1>3. /\ buffer' \in Seq(Items) /\ Len(buffer') = Len(buffer) + 1
      /\ Elements(buffer') = Elements(buffer) \cup {x}
      /\ DOMAIN buffer' = 1..Len(buffer) + 1
      /\ \A i \in 1..Len(buffer) : buffer'[i] = buffer[i]
      /\ buffer'[Len(buffer) + 1] = x
  <2>1. buffer \in Seq(Items) /\ buffer' = Append(buffer, x)
    BY <1>1, Lists DEF Inv
  <2> QED  BY <1>2, <2>1, ElementsOfAppend
<1>4. /\ bpc \in [Callers -> {"idle", "test", "flush", "clear", "close", "shut"}]
      /\ bpc'[Worker] = "test" /\ bpc'[Closer] = bpc[Closer]
      /\ cpc \in {"open", "join"} /\ bpc[Closer] = "idle"
  BY <1>1 DEF Inv, TypeOK, BTypeOK, TurnsInv
<1>5. TypeOK'
  <2>1. BTypeOK(Items)'
    BY <1>1, <1>3, <1>4 DEF Inv, TypeOK, BTypeOK
  <2> QED  BY <1>1, <1>2, <2>1, Lists DEF Inv, TypeOK
<1>6. TurnsInv'
  BY <1>1, <1>4 DEF Inv, TurnsInv
<1>7. BatchInv'
  BY <1>1, <1>4 DEF BatchInv
<1>8. AcceptedIsSomewhere'
  BY <1>1, <1>2, <1>3 DEF Inv, AcceptedIsSomewhere
<1>9. EndInv'
  BY <1>1, <1>4 DEF Inv, EndInv
<1>10. NumbersInv'
  <2>1. Elements(queue') \cup Elements(buffer') \cup Elements(sent)
          = Elements(queue) \cup Elements(buffer) \cup Elements(sent)
    BY <1>2, <1>3
  <2> QED  BY <1>1, <2>1 DEF Inv, NumbersInv
<1>11. OrderInv'
  <2> SUFFICES ASSUME failures = 0, closes <= 1
               PROVE  /\ Sorted(sent) /\ Sorted(buffer') /\ Sorted(queue')
                      /\ Precedes(sent, queue') /\ Precedes(buffer', queue')
                      /\ \A i \in DOMAIN sent, j \in DOMAIN buffer' : Older(sent[i], buffer'[j])
    BY <1>1 DEF OrderInv
  <2>1. Unsent = 1
    BY <1>1, <1>4 DEF Unsent
  <2>2. /\ Sorted(sent) /\ Sorted(buffer) /\ Sorted(queue)
        /\ Precedes(sent, queue) /\ Precedes(buffer, queue)
        /\ \A i \in DOMAIN sent, j \in DOMAIN buffer : j >= Unsent => Older(sent[i], buffer[j])
    BY DEF Inv, OrderInv
  <2>3. /\ Len(buffer) \in Nat /\ DOMAIN buffer = 1..Len(buffer)
        /\ Len(queue) \in Nat /\ DOMAIN queue = 1..Len(queue)
    BY Lists DEF Inv
  <2>4. ASSUME NEW j \in DOMAIN buffer'
        PROVE  (j \in DOMAIN buffer /\ buffer'[j] = buffer[j]) \/ (j = Len(buffer) + 1 /\ buffer'[j] = queue[1])
    BY <1>2, <1>3, <2>3
  <2>5. Precedes(sent, queue')
    BY <1>2, <2>2 DEF Precedes
  <2>6. \A i \in DOMAIN sent, j \in DOMAIN buffer' : Older(sent[i], buffer'[j])
    <3> SUFFICES ASSUME NEW i \in DOMAIN sent, NEW j \in DOMAIN buffer'
                 PROVE  Older(sent[i], buffer'[j])
      OBVIOUS
    <3>1. CASE j \in DOMAIN buffer /\ buffer'[j] = buffer[j]
      BY <2>1, <2>2, <2>3, <3>1
    <3>2. CASE buffer'[j] = queue[1]
      BY <1>2, <2>2, <3>2 DEF Precedes
    <3> QED  BY <2>4, <3>1, <3>2
  <2>7. Sorted(queue')
    <3> SUFFICES ASSUME NEW i \in DOMAIN queue', NEW j \in DOMAIN queue', i < j
                 PROVE  Older(queue'[i], queue'[j])
      BY DEF Sorted
    <3>1. /\ i + 1 \in DOMAIN queue /\ queue'[i] = queue[i + 1]
          /\ j + 1 \in DOMAIN queue /\ queue'[j] = queue[j + 1]
          /\ i + 1 < j + 1
      BY <1>2, <2>3
    <3> QED  BY <2>2, <3>1 DEF Sorted
  <2>8. Precedes(buffer', queue')
    <3> SUFFICES ASSUME NEW i \in DOMAIN buffer', NEW j \in DOMAIN queue'
                 PROVE  Older(buffer'[i], queue'[j])
      BY DEF Precedes
    <3>1. j + 1 \in DOMAIN queue /\ queue'[j] = queue[j + 1] /\ 1 < j + 1
      BY <1>2, <2>3
    <3>2. CASE i \in DOMAIN buffer /\ buffer'[i] = buffer[i]
      BY <2>2, <3>1, <3>2 DEF Precedes
    <3>3. CASE buffer'[i] = queue[1]
      BY <1>2, <2>2, <3>1, <3>3 DEF Sorted
    <3> QED  BY <2>4, <3>2, <3>3
  <2>9. Sorted(buffer')
    <3> SUFFICES ASSUME NEW i \in DOMAIN buffer', NEW j \in DOMAIN buffer', i < j
                 PROVE  Older(buffer'[i], buffer'[j])
      BY DEF Sorted
    <3>1. i \in DOMAIN buffer /\ buffer'[i] = buffer[i]
      BY <1>3, <2>3
    <3>2. CASE j \in DOMAIN buffer /\ buffer'[j] = buffer[j]
      BY <2>2, <3>1, <3>2 DEF Sorted
    <3>3. CASE buffer'[j] = queue[1]
      BY <1>2, <2>2, <3>1, <3>3 DEF Precedes
    <3> QED  BY <2>4, <3>2, <3>3
  <2> QED  BY <2>2, <2>5, <2>6, <2>7, <2>8, <2>9
<1> QED  BY <1>5, <1>6, <1>7, <1>8, <1>9, <1>10, <1>11 DEF Inv

LEMMA JoinInv ==
  ASSUME Inv, Join
  PROVE  Inv'
<1>1. /\ cpc = "join" /\ cpc' = "wrapped" /\ wpc = "ended"
      /\ bpc[Closer] = "idle"
      /\ bpc' = [bpc EXCEPT ![Closer] = "close"]
      /\ bidx' = [bidx EXCEPT ![Closer] = 1]
      /\ raised' = raised \ {Closer}
      /\ UNCHANGED <<buffer, sent, shut, failures, waitForQueue, queue, stop, wpc, ppc, count, accepted, closes>>
  BY DEF Join, BClose
<1>2. /\ bpc \in [Callers -> {"idle", "test", "flush", "clear", "close", "shut"}]
      /\ bidx \in [Callers -> Nat \ {0}]
  BY DEF Inv, TypeOK, BTypeOK
<1>3. /\ bpc'[Closer] = "close" /\ bidx'[Closer] = 1
      /\ bpc'[Worker] = "idle" /\ bpc[Worker] = "idle"
  BY <1>1, <1>2 DEF Inv, TurnsInv
<1>4. TypeOK' /\ NumbersInv'
  <2>1. BTypeOK(Items)'
    BY <1>1, <1>2 DEF Inv, TypeOK, BTypeOK
  <2> QED  BY <1>1, <2>1, ListsKeep DEF Inv, TypeOK
<1>5. TurnsInv'
  BY <1>1, <1>3 DEF Inv, TurnsInv
<1>6. BatchInv'
  <2>1. Len(buffer) \in Nat /\ DOMAIN buffer = 1..Len(buffer)
    BY Lists DEF Inv
  <2> QED  BY <1>1, <1>3, <2>1 DEF BatchInv
<1>7. AcceptedIsSomewhere' /\ EndInv'
  BY <1>1, <1>3 DEF Inv, AcceptedIsSomewhere, EndInv
<1>8. OrderInv'
  <2>1. Unsent' = 1 /\ Unsent = 1
    BY <1>1, <1>3 DEF Unsent
  <2> QED  BY <1>1, <2>1 DEF Inv, OrderInv
<1> QED  BY <1>4, <1>5, <1>6, <1>7, <1>8 DEF Inv

\* Who is in the wrapped publisher is there alone, and knows what is left to send.
LEMMA Alone ==
  ASSUME Inv, NEW p \in Callers, bpc[p] # "idle"
  PROVE  /\ bpc \in [Callers -> {"idle", "test", "flush", "clear", "close", "shut"}]
         /\ bidx \in [Callers -> Nat \ {0}]
         /\ \A q \in Callers : q # p => bpc[q] = "idle"
         /\ p = Worker => bpc[p] \in {"test", "flush", "clear"} /\ cpc \in {"open", "join"}
         /\ p = Closer => bpc[p] \in {"close", "shut"} /\ cpc = "wrapped"
         /\ Unsent = IF bpc[p] \in {"flush", "close"} THEN bidx[p]
                     ELSE IF bpc[p] = "test" THEN 1 ELSE Len(buffer) + 1
<1>1. /\ bpc \in [Callers -> {"idle", "test", "flush", "clear", "close", "shut"}]
      /\ bidx \in [Callers -> Nat \ {0}]
      /\ cpc \in {"open", "join", "wrapped", "closed", "failed"}
  BY DEF Inv, TypeOK, BTypeOK
<1>2. CASE p = Worker
  BY <1>1, <1>2 DEF Inv, TurnsInv, Unsent
<1>3. CASE p = Closer
  BY <1>1, <1>3 DEF Inv, TurnsInv, Unsent
<1> QED  BY <1>2, <1>3

LEMMA TestInv ==
  ASSUME Inv, NEW p \in Callers, BTest(p), UNCHANGED queueVars
  PROVE  Inv'
<1>1. /\ bpc[p] = "test"
      /\ UNCHANGED <<buffer, sent, shut, failures, raised, waitForQueue, queue, stop, wpc, ppc,
                     count, accepted, cpc, closes>>
      /\ \/ bpc' = [bpc EXCEPT ![p] = "flush"] /\ bidx' = [bidx EXCEPT ![p] = 1]
         \/ bpc' = [bpc EXCEPT ![p] = "idle"] /\ bidx' = bidx
  BY DEF BTest, queueVars
<1>2. /\ bpc \in [Callers -> {"idle", "test", "flush", "clear", "close", "shut"}]
      /\ bidx \in [Callers -> Nat \ {0}]
      /\ p = Worker /\ cpc \in {"open", "join"} /\ bpc[Closer] = "idle" /\ Unsent = 1
  BY <1>1, Alone
<1>3. bpc'[Closer] = "idle" /\ (bpc'[Worker] = "idle" \/ (bpc'[Worker] = "flush" /\ bidx'[Worker] = 1))
  BY <1>1, <1>2
<1>4. TypeOK' /\ NumbersInv'
  <2>1. BTypeOK(Items)'
    BY <1>1, <1>2 DEF Inv, TypeOK, BTypeOK
  <2> QED  BY <1>1, <2>1, ListsKeep DEF Inv, TypeOK
<1>5. TurnsInv'
  BY <1>1, <1>2, <1>3 DEF Inv, TurnsInv
<1>6. BatchInv'
  <2>1. Len(buffer) \in Nat /\ DOMAIN buffer = 1..Len(buffer)
    BY Lists DEF Inv
  <2> QED  BY <1>1, <1>3, <2>1 DEF BatchInv
<1>7. AcceptedIsSomewhere' /\ EndInv'
  BY <1>1, <1>2 DEF Inv, AcceptedIsSomewhere, EndInv
<1>8. OrderInv'
  <2>1. Unsent' = 1
    BY <1>1, <1>2, <1>3 DEF Unsent
  <2> QED  BY <1>1, <1>2, <2>1 DEF Inv, OrderInv
<1> QED  BY <1>4, <1>5, <1>6, <1>7, <1>8 DEF Inv

\* One item of the batch is sent.
LEMMA SendInv ==
  ASSUME Inv, NEW p \in Callers, bpc[p] \in {"flush", "close"}, bidx[p] <= Len(buffer),
         sent' = Append(sent, buffer[bidx[p]]),
         bidx' = [bidx EXCEPT ![p] = @ + 1],
         UNCHANGED <<buffer, shut, failures, bpc, raised, queueVars>>
  PROVE  Inv'
<1> DEFINE k == bidx[p]
           x == buffer[k]
<1>1. /\ bpc \in [Callers -> {"idle", "test", "flush", "clear", "close", "shut"}]
      /\ bidx \in [Callers -> Nat \ {0}]
      /\ \A q \in Callers : q # p => bpc[q] = "idle"
      /\ p = Worker => bpc[p] = "flush" /\ cpc \in {"open", "join"}
      /\ p = Closer => bpc[p] = "close" /\ cpc = "wrapped"
      /\ Unsent = k
  BY Alone
<1>2. k \in DOMAIN buffer /\ x \in Items /\ x \in Elements(buffer) /\ k \in Nat
  BY <1>1, Lists DEF Inv
<1> HIDE DEF x
<1>3. /\ sent' \in Seq(Items) /\ Len(sent') = Len(sent) + 1
      /\ Elements(sent') = Elements(sent) \cup {x}
      /\ DOMAIN sent' = 1..Len(sent) + 1
      /\ \A i \in 1..Len(sent) : sent'[i] = sent[i]
      /\ sent'[Len(sent) + 1] = x
  <2>1. sent \in Seq(Items) /\ sent' = Append(sent, x)
    BY Lists DEF Inv, x
  <2> QED  BY <1>2, <2>1, ElementsOfAppend
<1>4. UNCHANGED <<waitForQueue, queue, stop, wpc, ppc, count, accepted, cpc, closes>>
  BY DEF queueVars
<1>5. TypeOK'
  <2>1. BTypeOK(Items)'
    BY <1>1, <1>3 DEF Inv, TypeOK, BTypeOK
  <2> QED  BY <1>4, <2>1 DEF Inv, TypeOK
<1>6. TurnsInv'
  BY <1>4 DEF Inv, TurnsInv
<1>7. BatchInv'
  <2>1. bidx'[p] = k + 1 /\ bpc'[p] \in {"flush", "close"}
    BY <1>1
  <2>2. ASSUME NEW i \in DOMAIN buffer, i < k + 1  PROVE buffer[i] \in Elements(sent')
    <3>1. CASE i < k
      BY <1>3, <3>1 DEF Inv, BatchInv
    <3>2. CASE i = k
      BY <1>3, <3>2 DEF x
    <3> QED  BY <1>2, <2>2, <3>1, <3>2, Lists DEF Inv
  <2>3. \A q \in Callers : q # p => bpc'[q] = "idle"
    BY <1>1
  <2> HIDE DEF k
  <2> QED  BY <2>1, <2>2, <2>3 DEF BatchInv
<1>8. AcceptedIsSomewhere' /\ EndInv'
  BY <1>1, <1>3, <1>4 DEF Inv, AcceptedIsSomewhere, EndInv
<1>9. NumbersInv'
  <2>1. Elements(queue) \cup Elements(buffer) \cup Elements(sent')
          = Elements(queue) \cup Elements(buffer) \cup Elements(sent)
    BY <1>2, <1>3
  <2>2. Elements(queue') = Elements(queue) /\ Elements(buffer') = Elements(buffer)
    BY <1>4
  <2> QED  BY <1>4, <2>1, <2>2 DEF Inv, NumbersInv
<1>10. OrderInv'
  <2> SUFFICES ASSUME failures = 0, closes <= 1
               PROVE  /\ Sorted(sent') /\ Sorted(buffer) /\ Sorted(queue)
                      /\ Precedes(sent', queue) /\ Precedes(buffer, queue)
                      /\ \A i \in DOMAIN sent', j \in DOMAIN buffer :
                           j >= Unsent' => Older(sent'[i], buffer[j])
    BY <1>4 DEF OrderInv
  <2>1. Unsent' = k + 1
    BY <1>1, <1>4 DEF Unsent
  <2>2. /\ Sorted(sent) /\ Sorted(buffer) /\ Sorted(queue)
        /\ Precedes(sent, queue) /\ Precedes(buffer, queue)
        /\ \A i \in DOMAIN sent, j \in DOMAIN buffer : j >= k => Older(sent[i], buffer[j])
    BY <1>1 DEF Inv, OrderInv
  <2>3. /\ Len(sent) \in Nat /\ DOMAIN sent = 1..Len(sent)
        /\ Len(buffer) \in Nat /\ DOMAIN buffer = 1..Len(buffer)
    BY Lists DEF Inv
  <2> HIDE DEF k
  <2>4. ASSUME NEW i \in DOMAIN sent'
        PROVE  (i \in DOMAIN sent /\ sent'[i] = sent[i]) \/ (i = Len(sent) + 1 /\ sent'[i] = buffer[k])
    BY <1>3, <2>3 DEF x
  <2>5. Precedes(sent', queue)
    <3> SUFFICES ASSUME NEW i \in DOMAIN sent', NEW j \in DOMAIN queue
                 PROVE  Older(sent'[i], queue[j])
      BY DEF Precedes
    <3> QED  BY <1>2, <2>2, <2>4 DEF Precedes
  <2>6. Sorted(sent')
    <3> SUFFICES ASSUME NEW i \in DOMAIN sent', NEW j \in DOMAIN sent', i < j
                 PROVE  Older(sent'[i], sent'[j])
      BY DEF Sorted
    <3>1. i \in DOMAIN sent /\ sent'[i] = sent[i]
      BY <1>3, <2>3
    <3>2. CASE j \in DOMAIN sent /\ sent'[j] = sent[j]
      BY <2>2, <3>1, <3>2 DEF Sorted
    <3>3. CASE sent'[j] = buffer[k]
      BY <1>2, <2>2, <3>1, <3>3
    <3> QED  BY <2>4, <3>2, <3>3
  <2>7. ASSUME NEW i \in DOMAIN sent', NEW j \in DOMAIN buffer, j >= k + 1
        PROVE  Older(sent'[i], buffer[j])
    <3>1. k < j /\ j >= k
      BY <1>2, <2>3, <2>7
    <3>2. CASE i \in DOMAIN sent /\ sent'[i] = sent[i]
      BY <2>2, <3>1, <3>2
    <3>3. CASE sent'[i] = buffer[k]
      BY <1>2, <2>2, <3>1, <3>3 DEF Sorted
    <3> QED  BY <2>4, <3>2, <3>3
  <2> QED  BY <2>1, <2>2, <2>5, <2>6, <2>7
<1> QED  BY <1>5, <1>6, <1>7, <1>8, <1>9, <1>10 DEF Inv

\* The batch is sent.
LEMMA SentInv ==
  ASSUME Inv, NEW p \in Callers, bpc[p] \in {"flush", "close"}, ~(bidx[p] <= Len(buffer)),
         bpc' = [bpc EXCEPT ![p] = IF bpc[p] = "flush" THEN "clear" ELSE "shut"],
         UNCHANGED <<buffer, sent, shut, failures, bidx, raised, queueVars>>
  PROVE  Inv'
<1>1. /\ bpc \in [Callers -> {"idle", "test", "flush", "clear", "close", "shut"}]
      /\ bidx \in [Callers -> Nat \ {0}]
      /\ \A q \in Callers : q # p => bpc[q] = "idle"
      /\ p = Worker => bpc[p] = "flush" /\ cpc \in {"open", "join"}
      /\ p = Closer => bpc[p] = "close" /\ cpc = "wrapped"
      /\ Unsent = bidx[p]
  BY Alone
<1>2. UNCHANGED <<waitForQueue, queue, stop, wpc, ppc, count, accepted, cpc, closes>>
  BY DEF queueVars
<1>3. Len(buffer) \in Nat /\ DOMAIN buffer = 1..Len(buffer)
  BY Lists DEF Inv
<1>4. Elements(buffer) \subseteq Elements(sent)
  <2>1. \A i \in DOMAIN buffer : i < bidx[p]
    BY <1>1, <1>3
  <2>2. \A i \in DOMAIN buffer : buffer[i] \in Elements(sent)
    BY <2>1 DEF Inv, BatchInv
  <2> QED  BY <2>2 DEF Elements
<1>5. TypeOK' /\ NumbersInv'
  <2>1. BTypeOK(Items)'
    BY <1>1 DEF Inv, TypeOK, BTypeOK
  <2> QED  BY <1>2, <2>1, ListsKeep DEF Inv, TypeOK
<1>6. TurnsInv'
  BY <1>1, <1>2 DEF Inv, TurnsInv
<1>7. BatchInv'
  BY <1>1, <1>4 DEF BatchInv
<1>8. AcceptedIsSomewhere' /\ EndInv'
  BY <1>1, <1>2, <1>4 DEF Inv, AcceptedIsSomewhere, EndInv
<1>9. OrderInv'
  <2>1. Unsent' = Len(buffer) + 1
    BY <1>1, <1>2 DEF Unsent
  <2>2. \A j \in DOMAIN buffer : ~(j >= Len(buffer) + 1)
    BY <1>3
  <2> QED  BY <1>2, <2>1, <2>2 DEF Inv, OrderInv
<1> QED  BY <1>5, <1>6, <1>7, <1>8, <1>9 DEF Inv

\* The wrapped publisher raises: from here on only AcceptedIsSomewhere is promised.
LEMMA RaiseInv ==
  ASSUME Inv, NEW p \in Callers, bpc[p] \in {"flush", "close"},
         failures < MaxFailures, failures' = failures + 1,
         bpc' = [bpc EXCEPT ![p] = "idle"], raised' = raised \cup {p},
         UNCHANGED <<buffer, sent, shut, bidx, queueVars>>
  PROVE  Inv'
<1>1. /\ bpc \in [Callers -> {"idle", "test", "flush", "clear", "close", "shut"}]
      /\ \A q \in Callers : q # p => bpc[q] = "idle"
  BY Alone
<1>2. UNCHANGED <<waitForQueue, queue, stop, wpc, ppc, count, accepted, cpc, closes>>
  BY DEF queueVars
<1>3. failures \in 0..MaxFailures /\ failures' \in 0..MaxFailures /\ failures' # 0
  BY DEF Inv, TypeOK, BTypeOK
<1>4. TypeOK' /\ NumbersInv'
  <2>1. BTypeOK(Items)'
    BY <1>1, <1>3 DEF Inv, TypeOK, BTypeOK
  <2> QED  BY <1>2, <2>1, ListsKeep DEF Inv, TypeOK
<1>5. TurnsInv' /\ BatchInv'
  BY <1>1, <1>2 DEF Inv, TurnsInv, BatchInv
<1>6. AcceptedIsSomewhere' /\ EndInv' /\ OrderInv'
  BY <1>2, <1>3 DEF Inv, AcceptedIsSomewhere, EndInv, OrderInv
<1> QED  BY <1>4, <1>5, <1>6 DEF Inv

\* What was sent is cleared from the buffer, and nothing else.
LEMMA ClearInv ==
  ASSUME Inv, NEW p \in Callers, BClear(p), UNCHANGED queueVars
  PROVE  Inv'
<1>1. /\ bpc[p] = "clear" /\ buffer' = <<>> /\ bpc' = [bpc EXCEPT ![p] = "idle"]
      /\ UNCHANGED <<sent, shut, failures, bidx, raised, waitForQueue, queue, stop, wpc, ppc,
                     count, accepted, cpc, closes>>
  BY DEF BClear, queueVars
<1>2. /\ bpc \in [Callers -> {"idle", "test", "flush", "clear", "close", "shut"}]
      /\ p = Worker /\ cpc \in {"open", "join"} /\ bpc[Closer] = "idle"
  BY <1>1, Alone
<1>3. Elements(buffer) \subseteq Elements(sent) /\ Elements(buffer') = {} /\ DOMAIN buffer' = {}
  BY <1>1, ElementsOfNone DEF Inv, BatchInv
<1>4. TypeOK'
  <2>1. BTypeOK(Items)'
    BY <1>1, <1>2 DEF Inv, TypeOK, BTypeOK
  <2> QED  BY <1>1, <2>1 DEF Inv, TypeOK
<1>5. TurnsInv' /\ BatchInv'
  BY <1>1, <1>2 DEF Inv, TurnsInv, BatchInv
<1>6. AcceptedIsSomewhere' /\ EndInv' /\ NumbersInv'
  BY <1>1, <1>2, <1>3 DEF Inv, AcceptedIsSomewhere, EndInv, NumbersInv
<1>7. OrderInv'
  BY <1>1, <1>3 DEF Inv, OrderInv, Sorted, Precedes
<1> QED  BY <1>4, <1>5, <1>6, <1>7 DEF Inv

LEMMA ShutInv ==
  ASSUME Inv, NEW p \in Callers, BShut(p), UNCHANGED queueVars
  PROVE  Inv'
<1>1. /\ bpc[p] = "shut" /\ shut' = shut + 1 /\ bpc' = [bpc EXCEPT ![p] = "idle"]
      /\ UNCHANGED <<buffer, sent, failures, bidx, raised, waitForQueue, queue, stop, wpc, ppc,
                     count, accepted, cpc, closes>>
  BY DEF BShut, queueVars
<1>2. /\ bpc \in [Callers -> {"idle", "test", "flush", "clear", "close", "shut"}]
      /\ p = Closer /\ cpc = "wrapped" /\ bpc[Worker] = "idle" /\ Unsent = Len(buffer) + 1
  BY <1>1, Alone
<1>3. Elements(buffer) \subseteq Elements(sent)
  BY <1>1 DEF Inv, BatchInv
<1>4. TypeOK' /\ NumbersInv'
  <2>1. BTypeOK(Items)'
    BY <1>1, <1>2 DEF Inv, TypeOK, BTypeOK
  <2> QED  BY <1>1, <2>1, ListsKeep DEF Inv, TypeOK
<1>5. TurnsInv' /\ BatchInv'
  BY <1>1, <1>2 DEF Inv, TurnsInv, BatchInv
<1>6. AcceptedIsSomewhere' /\ EndInv'
  BY <1>1, <1>3 DEF Inv, AcceptedIsSomewhere, EndInv
<1>7. OrderInv'
  <2>1. Unsent' = Len(buffer) + 1
    BY <1>1, <1>2 DEF Unsent
  <2> QED  BY <1>1, <1>2, <2>1 DEF Inv, OrderInv
<1> QED  BY <1>4, <1>5, <1>6, <1>7 DEF Inv

LEMMA WrappedInv ==
  ASSUME Inv, NEW p \in Callers, WrappedStep(p)
  PROVE  Inv'
<1>1. BStep(p) /\ UNCHANGED queueVars
  BY DEF WrappedStep
<1>2. ASSUME NEW at, NEW next, <<at, next>> \in {<<"flush", "clear">>, <<"close", "shut">>},
             BSend(p, at, next)
      PROVE  Inv'
  <2>1. /\ bpc[p] = at /\ bpc[p] \in {"flush", "close"}
        /\ next = IF bpc[p] = "flush" THEN "clear" ELSE "shut"
    BY <1>2 DEF BSend
  <2>2. bidx[p] \in Nat /\ Len(buffer) \in Nat
    BY Lists DEF Inv, TypeOK, BTypeOK
  <2>3. CASE bidx[p] > Len(buffer)
    <3>1. /\ bpc' = [bpc EXCEPT ![p] = next]
          /\ UNCHANGED <<buffer, sent, shut, failures, bidx, raised>>
      BY <1>2, <2>3 DEF BSend
    <3>2. /\ ~(bidx[p] <= Len(buffer))
          /\ bpc' = [bpc EXCEPT ![p] = IF bpc[p] = "flush" THEN "clear" ELSE "shut"]
          /\ UNCHANGED <<buffer, sent, shut, failures, bidx, raised, queueVars>>
      BY <1>1, <2>1, <2>2, <2>3, <3>1
    <3> QED  BY <2>1, <3>2, SentInv
  <2>4. CASE ~(bidx[p] > Len(buffer))
    <3>1. \/ /\ sent' = Append(sent, buffer[bidx[p]])
             /\ bidx' = [bidx EXCEPT ![p] = @ + 1]
             /\ UNCHANGED <<buffer, shut, failures, bpc, raised>>
          \/ /\ failures < MaxFailures /\ failures' = failures + 1
             /\ bpc' = [bpc EXCEPT ![p] = "idle"] /\ raised' = raised \cup {p}
             /\ UNCHANGED <<buffer, sent, shut, bidx>>
      BY <1>2, <2>4 DEF BSend
    <3>2. bidx[p] <= Len(buffer)
      BY <2>2, <2>4
    <3> QED  BY <1>1, <2>1, <3>1, <3>2, SendInv, RaiseInv
  <2> QED  BY <2>3, <2>4
<1>3. CASE BSend(p, "flush", "clear") \/ BSend(p, "close", "shut")
  BY <1>2, <1>3
<1> QED  BY <1>1, <1>3, TestInv, ClearInv, ShutInv DEF BStep

LEMMA InductiveInv == Inv /\ [Next]_vars => Inv'
<1> SUFFICES ASSUME Inv, [Next]_vars  PROVE Inv'
  OBVIOUS
<1>1. ASSUME NEW p \in Producers, Publish(p) \/ Put(p)  PROVE Inv'
  BY <1>1, PublishInv, PutInv
<1>2. CASE WorkLoop \/ Get \/ GetEmpty \/ Published
  BY <1>2, WorkLoopInv, GetInv
<1>3. CASE Close \/ Join \/ Closed
  BY <1>3, CloseStagesInv, JoinInv
<1>4. ASSUME NEW p \in Callers, WrappedStep(p)  PROVE Inv'
  BY <1>4, WrappedInv
<1>5. CASE UNCHANGED vars
  <2>1. UNCHANGED <<buffer, sent, shut, failures, bpc, bidx, raised, waitForQueue, queue, stop, wpc,
                    ppc, count, accepted, cpc, closes>>
    BY <1>5 DEF vars, bufferVars, queueVars
  <2>2. TypeOK' /\ TurnsInv' /\ BatchInv'
    BY <2>1 DEF Inv, TypeOK, BTypeOK, TurnsInv, BatchInv
  <2>3. AcceptedIsSomewhere' /\ EndInv' /\ NumbersInv' /\ OrderInv'
    BY <2>1 DEF Inv, AcceptedIsSomewhere, EndInv, NumbersInv, OrderInv, Unsent
  <2> QED  BY <2>2, <2>3 DEF Inv
<1> QED  BY <1>1, <1>2, <1>3, <1>4, <1>5 DEF Next

LEMMA InvHolds == Spec => []Inv
BY InitInv, InductiveInv, PTL DEF Spec

----------------------------------------------------------------------------
(* The theorems *)

\* Every variable has its type, and the queue never outgrows max_queue_size.
THEOREM TypeCorrect == Spec => []TypeOK
BY InvHolds, PTL DEF Inv

\* An item that publish() has accepted before close() is queued, buffered or sent: no
\* interleaving of producers, worker and close(), and no exception, loses one.
THEOREM NothingAcceptedIsLost == Spec => []AcceptedIsSomewhere
BY InvHolds, PTL DEF Inv

\* With wait_for_queue, what was accepted before close() has reached the wrapped publisher
\* when close() returns, unless that publisher has raised.
THEOREM CloseSendsWhatWasAccepted == Spec => []CloseSendsAccepted
<1>1. Inv => CloseSendsAccepted
  <2> SUFFICES ASSUME Inv, cpc = "closed", waitForQueue, failures = 0
               PROVE  accepted \subseteq Elements(sent)
    BY DEF CloseSendsAccepted
  <2>1. wpc = "ended"
    BY DEF Inv, TurnsInv
  <2> QED  BY <2>1 DEF Inv, EndInv
<1> QED  BY <1>1, InvHolds, PTL

\* The wrapped publisher gets the items of a producer in the order of its publish() calls,
\* each once, until it raises or close() is called again.
THEOREM SentInOrder == Spec => []SentOnceInOrder
<1>1. Inv => SentOnceInOrder
  <2> SUFFICES ASSUME Inv, failures = 0, closes <= 1
               PROVE  \A i, j \in DOMAIN sent :
                        (i < j /\ sent[i][1] = sent[j][1]) => sent[i][2] < sent[j][2]
    BY DEF SentOnceInOrder
  <2> QED  BY DEF Inv, OrderInv, Sorted, Older
<1> QED  BY <1>1, InvHolds, PTL
=============================================================================
