---------------------------- MODULE SharedBuffer ----------------------------
(***************************************************************************)
(* One BasicBufferedPublisher given to an instrument directly: the daemon  *)
(* thread and a thread that calls the instrument's methods both publish to *)
(* it.  Item <<p, n>> is the n-th one of caller p.                         *)
(***************************************************************************)
EXTENDS BufferedPublisher

CONSTANT MaxItems   \* bound: items of one caller

VARIABLE count      \* how many publish() calls each caller has begun

vars == <<bufferVars, count>>

Init == BInit /\ count = [p \in Callers |-> 0]

Publish(p) ==
  /\ count[p] < MaxItems
  /\ BAppend(p, <<p, count[p] + 1>>)
  /\ count' = [count EXCEPT ![p] = @ + 1]

Next == \E p \in Callers : Publish(p) \/ (BStep(p) /\ UNCHANGED count)

Spec == Init /\ [][Next]_vars

\* "The buffer is automatically flushed when it reaches capacity or when close() is
\* called, ensuring no data is lost": what a returned publish() was given is in the
\* buffer or was sent.
NoDataLost ==
  \A p \in Callers : bpc[p] = "idle" =>
    \A n \in 1..count[p] : <<p, n>> \in Elements(buffer) \cup Elements(sent)
=============================================================================
