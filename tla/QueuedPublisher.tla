-------------------------- MODULE QueuedPublisher --------------------------
(***************************************************************************)
(* instro.lib.publishers.publisher: a QueuedPublisher around a             *)
(* BasicBufferedPublisher.  Producers put items on a bounded queue, one    *)
(* worker thread takes them off and publishes them to the wrapped          *)
(* publisher, and close() stops the worker, joins it and closes the        *)
(* wrapped publisher.  Item <<p, n>> is the n-th one of producer p.        *)
(***************************************************************************)
EXTENDS BufferedPublisher

CONSTANTS
  Producers,      \* threads that call publish()
  Worker, Closer, \* the worker thread; the thread that calls close()
  MaxQueueSize,   \* max_queue_size
  MaxItems,       \* bound: items of one producer
  MaxCloses       \* bound: calls of close()

ASSUME QueueAssumption == MaxQueueSize \in Nat \ {0}
ASSUME CallersAssumption == Callers = {Worker, Closer} /\ Worker # Closer
ASSUME CountsAssumption == MaxItems \in Nat /\ MaxCloses \in Nat

VARIABLES
  waitForQueue,  \* self._wait_for_queue
  queue,         \* self._queue
  stop,          \* self._stop_event
  wpc,           \* where the worker is
  ppc,           \* where each producer is
  count,         \* publish() calls each producer has begun
  accepted,      \* history: items queued by a publish() that returned before any close()
  cpc,           \* where the closing thread is
  closes         \* calls of close() so far

queueVars == <<waitForQueue, queue, stop, wpc, ppc, count, accepted, cpc, closes>>
vars == <<bufferVars, queueVars>>

Items == Producers \X (1..MaxItems)

Init ==
  /\ BInit
  /\ waitForQueue \in BOOLEAN
  /\ queue = <<>>
  /\ stop = FALSE
  /\ wpc = "loop"
  /\ ppc = [p \in Producers |-> "idle"]
  /\ count = [p \in Producers |-> 0]
  /\ accepted = {}
  /\ cpc = "open"
  /\ closes = 0

----------------------------------------------------------------------------
(* Producers *)

\* publish(): a set stop event drops the item.
Publish(p) ==
  /\ ppc[p] = "idle"
  /\ count[p] < MaxItems
  /\ count' = [count EXCEPT ![p] = @ + 1]
  /\ ppc' = [ppc EXCEPT ![p] = IF stop THEN "idle" ELSE "put"]
  /\ UNCHANGED <<bufferVars, waitForQueue, queue, stop, wpc, accepted, cpc, closes>>

\* queue.put() blocks while the queue is full; the stop event is not looked at again.
Put(p) ==
  /\ ppc[p] = "put"
  /\ Len(queue) < MaxQueueSize
  /\ queue' = Append(queue, <<p, count[p]>>)
  /\ accepted' = IF stop THEN accepted ELSE accepted \cup {<<p, count[p]>>}
  /\ ppc' = [ppc EXCEPT ![p] = "idle"]
  /\ UNCHANGED <<bufferVars, waitForQueue, stop, wpc, count, cpc, closes>>

----------------------------------------------------------------------------
(* The worker thread *)

\* Two bugs of the usual kind: what is queued is forgotten on close, or the stop event is.
WorkLoopNoDrain ==
  /\ wpc = "loop"
  /\ wpc' = IF ~stop THEN "get" ELSE "ended"
  /\ UNCHANGED <<bufferVars, waitForQueue, queue, stop, ppc, count, accepted, cpc, closes>>

WorkLoopForever ==
  /\ wpc = "loop"
  /\ wpc' = "get"
  /\ UNCHANGED <<bufferVars, waitForQueue, queue, stop, ppc, count, accepted, cpc, closes>>

\* while not stop or (wait_for_queue and not queue.empty()).
WorkLoop ==
  /\ wpc = "loop"
  /\ wpc' = IF ~stop \/ (waitForQueue /\ queue # <<>>) THEN "get" ELSE "ended"
  /\ UNCHANGED <<bufferVars, waitForQueue, queue, stop, ppc, count, accepted, cpc, closes>>

\* queue.get(timeout=0.1) gives an item, which goes to the wrapped publisher.
Get ==
  /\ wpc = "get"
  /\ queue # <<>>
  /\ queue' = Tail(queue)
  /\ BAppend(Worker, Head(queue))
  /\ wpc' = "publish"
  /\ UNCHANGED <<waitForQueue, stop, ppc, count, accepted, cpc, closes>>

\* queue.Empty.
GetEmpty ==
  /\ wpc = "get"
  /\ queue = <<>>
  /\ wpc' = "loop"
  /\ UNCHANGED <<bufferVars, waitForQueue, queue, stop, ppc, count, accepted, cpc, closes>>

\* A bug of the usual kind: the worker waits for a failed publish() to succeed.
PublishedOrStuck ==
  /\ wpc = "publish"
  /\ bpc[Worker] = "idle"
  /\ Worker \notin raised
  /\ wpc' = "loop"
  /\ UNCHANGED <<bufferVars, waitForQueue, queue, stop, ppc, count, accepted, cpc, closes>>

\* The wrapped publish() has returned, or its exception ends the thread.
Published ==
  /\ wpc = "publish"
  /\ bpc[Worker] = "idle"
  /\ wpc' = IF Worker \in raised THEN "ended" ELSE "loop"
  /\ UNCHANGED <<bufferVars, waitForQueue, queue, stop, ppc, count, accepted, cpc, closes>>

----------------------------------------------------------------------------
(* close() *)

Close ==
  /\ cpc \in {"open", "closed", "failed"}
  /\ closes < MaxCloses
  /\ closes' = closes + 1
  /\ stop' = TRUE
  /\ cpc' = "join"
  /\ UNCHANGED <<bufferVars, waitForQueue, queue, wpc, ppc, count, accepted>>

\* thread.join(), then the wrapped publisher's close().
Join ==
  /\ cpc = "join"
  /\ wpc = "ended"
  /\ BClose(Closer)
  /\ cpc' = "wrapped"
  /\ UNCHANGED <<waitForQueue, queue, stop, wpc, ppc, count, accepted, closes>>

Closed ==
  /\ cpc = "wrapped"
  /\ bpc[Closer] = "idle"
  /\ cpc' = IF Closer \in raised THEN "failed" ELSE "closed"
  /\ UNCHANGED <<bufferVars, waitForQueue, queue, stop, wpc, ppc, count, accepted, closes>>

----------------------------------------------------------------------------
WrappedStep(p) == BStep(p) /\ UNCHANGED queueVars

WorkerStep == WorkLoop \/ Get \/ GetEmpty \/ Published \/ WrappedStep(Worker)
CloserStep == Join \/ Closed \/ WrappedStep(Closer)

Next ==
  \/ \E p \in Producers : Publish(p) \/ Put(p)
  \/ WorkLoop \/ Get \/ GetEmpty \/ Published
  \/ Close \/ Join \/ Closed
  \/ \E p \in Callers : WrappedStep(p)

\* Threads that can run do run; nobody has to publish or to call close().
Fairness ==
  /\ WF_vars(WorkerStep)
  /\ WF_vars(CloserStep)
  /\ \A p \in Producers : WF_vars(Put(p))

Spec == Init /\ [][Next]_vars /\ Fairness

----------------------------------------------------------------------------
(* Properties *)

\* Every variable has its type, and the queue its limit: for the reader, and proved.
TypeOK ==
  /\ BTypeOK(Items)
  /\ waitForQueue \in BOOLEAN
  /\ queue \in Seq(Items)
  /\ Len(queue) <= MaxQueueSize
  /\ stop \in BOOLEAN
  /\ wpc \in {"loop", "get", "publish", "ended"}
  /\ ppc \in [Producers -> {"idle", "put"}]
  /\ count \in [Producers -> 0..MaxItems]
  /\ accepted \subseteq Items
  /\ cpc \in {"open", "join", "wrapped", "closed", "failed"}
  /\ closes \in 0..MaxCloses

\* An item that publish() has accepted before close() is never dropped on the way: it is
\* queued, in the wrapped publisher's buffer, or sent, also after the wrapped publisher
\* has raised and the worker has died of it.
AcceptedIsSomewhere ==
  accepted \subseteq Elements(queue) \cup Elements(buffer) \cup Elements(sent)

\* With wait_for_queue, close() returns only when every item accepted before it has
\* reached the wrapped publisher, unless that publisher has raised.
CloseSendsAccepted ==
  cpc = "closed" /\ waitForQueue /\ failures = 0 => accepted \subseteq Elements(sent)

\* Until the wrapped publisher raises or close() is called again, it gets the items of a
\* producer in the order in which they were published, each once.
SentOnceInOrder ==
  failures = 0 /\ closes <= 1 =>
    \A i, j \in DOMAIN sent : (i < j /\ sent[i][1] = sent[j][1]) => sent[i][2] < sent[j][2]

\* close() returns, or raises what the wrapped publisher raised, dead worker or not.
CloseReturns == cpc = "join" ~> cpc \in {"closed", "failed"}

\* A full queue holds a producer up only as long as the worker lives to empty it.
PutReturns == \A p \in Producers : ppc[p] = "put" ~> (ppc[p] = "idle" \/ wpc = "ended")
=============================================================================
