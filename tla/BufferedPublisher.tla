------------------------- MODULE BufferedPublisher -------------------------
(***************************************************************************)
(* instro.lib.publishers.publisher: BasicBufferedPublisher.  Callers       *)
(* append to one list; the one that fills it sends every item of the list  *)
(* to the wrapped publisher, one after the other, and clears it.  There is *)
(* no lock: each action is what a caller does up to the next point at      *)
(* which another caller's step can matter.  An item is any value the       *)
(* callers tell apart.                                                     *)
(***************************************************************************)
EXTENDS Naturals, Sequences, FiniteSets

CONSTANTS
  Callers,      \* threads that call publish() or close()
  BufferSize,   \* buffer_size
  MaxFailures   \* bound: how often the wrapped publisher raises

ASSUME BufferSizeAssumption == BufferSize \in Nat \ {0}
ASSUME MaxFailuresAssumption == MaxFailures \in Nat

VARIABLES
  buffer,     \* self.buffer
  sent,       \* what the wrapped publisher has been given, in order
  shut,       \* how often the wrapped publisher was closed
  failures,   \* how often it raised
  bpc,        \* where each caller is
  bidx,       \* its position in publish_batch()'s loop
  raised      \* callers whose last call raised

bufferVars == <<buffer, sent, shut, failures, bpc, bidx, raised>>

BInit ==
  /\ buffer = <<>>
  /\ sent = <<>>
  /\ shut = 0
  /\ failures = 0
  /\ bpc = [p \in Callers |-> "idle"]
  /\ bidx = [p \in Callers |-> 1]
  /\ raised = {}

\* publish(): append the item.
BAppend(p, item) ==
  /\ bpc[p] = "idle"
  /\ buffer' = Append(buffer, item)
  /\ bpc' = [bpc EXCEPT ![p] = "test"]
  /\ raised' = raised \ {p}
  /\ UNCHANGED <<sent, shut, failures, bidx>>

\* publish(): is the buffer full?
BTest(p) ==
  /\ bpc[p] = "test"
  /\ IF Len(buffer) >= BufferSize
     THEN bpc' = [bpc EXCEPT ![p] = "flush"] /\ bidx' = [bidx EXCEPT ![p] = 1]
     ELSE bpc' = [bpc EXCEPT ![p] = "idle"] /\ UNCHANGED bidx
  /\ UNCHANGED <<buffer, sent, shut, failures, raised>>

\* A bug of the usual kind: the buffer is cleared whether or not the batch was sent.
BSendOrDrop(p, at, next) ==
  /\ bpc[p] = at
  /\ IF bidx[p] > Len(buffer)
     THEN /\ bpc' = [bpc EXCEPT ![p] = next]
          /\ UNCHANGED <<buffer, sent, failures, bidx, raised>>
     ELSE \/ /\ sent' = Append(sent, buffer[bidx[p]])
             /\ bidx' = [bidx EXCEPT ![p] = @ + 1]
             /\ UNCHANGED <<buffer, bpc, failures, raised>>
          \/ /\ failures < MaxFailures
             /\ failures' = failures + 1
             /\ buffer' = <<>>
             /\ bpc' = [bpc EXCEPT ![p] = "idle"]
             /\ raised' = raised \cup {p}
             /\ UNCHANGED <<sent, bidx>>
  /\ UNCHANGED shut

\* publish_batch(), of publish() (at = "flush", then "clear") or of close()
\* (at = "close", then "shut"): one round of its loop.  The list iterator stops at the
\* length the list has by then.  An exception leaves the buffer as it is.
BSend(p, at, next) ==
  /\ bpc[p] = at
  /\ IF bidx[p] > Len(buffer)
     THEN /\ bpc' = [bpc EXCEPT ![p] = next]
          /\ UNCHANGED <<sent, failures, bidx, raised>>
     ELSE \/ /\ sent' = Append(sent, buffer[bidx[p]])
             /\ bidx' = [bidx EXCEPT ![p] = @ + 1]
             /\ UNCHANGED <<bpc, failures, raised>>
          \/ /\ failures < MaxFailures
             /\ failures' = failures + 1
             /\ bpc' = [bpc EXCEPT ![p] = "idle"]
             /\ raised' = raised \cup {p}
             /\ UNCHANGED <<sent, bidx>>
  /\ UNCHANGED <<buffer, shut>>

\* A bug of the usual kind: the batch is sent and kept.
BKeep(p) ==
  /\ bpc[p] = "clear"
  /\ bpc' = [bpc EXCEPT ![p] = "idle"]
  /\ UNCHANGED <<buffer, sent, shut, failures, bidx, raised>>

\* publish(): buffer.clear().
BClear(p) ==
  /\ bpc[p] = "clear"
  /\ buffer' = <<>>
  /\ bpc' = [bpc EXCEPT ![p] = "idle"]
  /\ UNCHANGED <<sent, shut, failures, bidx, raised>>

\* close(): publish_batch() without clear(), then close the wrapped publisher.
BClose(p) ==
  /\ bpc[p] = "idle"
  /\ bpc' = [bpc EXCEPT ![p] = "close"]
  /\ bidx' = [bidx EXCEPT ![p] = 1]
  /\ raised' = raised \ {p}
  /\ UNCHANGED <<buffer, sent, shut, failures>>

BShut(p) ==
  /\ bpc[p] = "shut"
  /\ shut' = shut + 1
  /\ bpc' = [bpc EXCEPT ![p] = "idle"]
  /\ UNCHANGED <<buffer, sent, failures, bidx, raised>>

\* What caller p does of itself once it is inside publish() or close().
BStep(p) ==
  BTest(p) \/ BSend(p, "flush", "clear") \/ BSend(p, "close", "shut") \/ BClear(p) \/ BShut(p)

Elements(list) == {list[i] : i \in DOMAIN list}

BTypeOK(Item) ==
  /\ buffer \in Seq(Item)
  /\ sent \in Seq(Item)
  /\ shut \in Nat
  /\ failures \in 0..MaxFailures
  /\ bpc \in [Callers -> {"idle", "test", "flush", "clear", "close", "shut"}]
  /\ bidx \in [Callers -> Nat \ {0}]
  /\ raised \subseteq Callers
=============================================================================
