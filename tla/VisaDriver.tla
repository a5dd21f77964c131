---------------------------- MODULE VisaDriver ----------------------------
(***************************************************************************)
(* The transport of the SCPI instruments (src/instro/lib/transports/       *)
(* visa.py) and the vocabulary in which the drivers that own one are        *)
(* described.  A driver's method is the sequence of steps it takes: writes  *)
(* and queries, each under the transport's reentrant lock, and assignments  *)
(* of what the driver remembers.  A step that holds keeps the lock for the  *)
(* next one: both stand in one "with self._visa.lock()".                    *)
(*                                                                         *)
(* A setting or a reading is a pair <<name, channel>>; channel 0 is the one *)
(* the instrument has selected.                                            *)
(***************************************************************************)
EXTENDS Integers, Sequences

CONSTANTS
    None,       \* Python's None; also: nobody
    Threads     \* the threads that share the instrument

VARIABLES
    session,    \* VisaDriver._inst is not None
    line,       \* replies that arrived after their query had given up
    holder      \* the thread that holds VisaDriver._lock between two steps

visaVars == <<session, line, holder>>

Step(do, at, to) == <<[do |-> do, at |-> at, to |-> to, hold |-> FALSE]>>

Put(setting, value) == Step("put", setting, value)

Ask(reading) == Step("ask", reading, 0)

(* SYST:ERR?, ALLEv? or CMR? and EXR?, and the exception when there is one. *)
Check == Step("check", <<"error", 0>>, 0)

(* An assignment to an attribute of the driver or of the instrument.       *)
Note(attribute, value) == Step("note", attribute, value)

(* An exception before anything is sent.                                   *)
Refuse == Step("raise", <<"none", 0>>, 0)

(* As Locked, with the lock let go between two steps.                      *)
NotLocked(steps) == steps

(* The steps of one "with self._visa.lock()".                              *)
Locked(steps) == [i \in DOMAIN steps |-> [steps[i] EXCEPT !.hold = i < Len(steps)]]

VisaInit == session = FALSE /\ line = <<>> /\ holder = None

(* The lock is free for t, and stays with t if the step holds it; the        *)
(* "with" of a step that raises lets it go.                                 *)
Transport(t, step) == holder \in {None, t} /\ holder' = IF step.hold THEN t ELSE None
TransportRaises(t) == holder \in {None, t} /\ holder' = None

(* open(): idempotent; a resource that cannot be opened or configured      *)
(* leaves no session behind.  A new session starts with an empty buffer.   *)
Open(opened) ==
    /\ session' = (session \/ opened)
    /\ line' = IF session THEN line ELSE <<>>

(* close(): idempotent, and the session is gone even when closing raises.  *)
Close == session' = FALSE /\ UNCHANGED line

(* query(): the oldest reply not yet read is the one that is read.         *)
Replied(reply) == Head(Append(line, reply))
Query(reply) == session /\ line' = Tail(Append(line, reply)) /\ UNCHANGED session

(* query() gave up: its reply is read by a later query, if it ever comes.  *)
QueryTimesOut(reply) ==
    session /\ line' \in {line, Append(line, reply)} /\ UNCHANGED session

(* clear(): drops what was not read.                                       *)
Clear == line' = <<>> /\ UNCHANGED session

(* Best-effort read of whatever is there (Siglent's trailing terminator).   *)
Drain == line' = (IF line = <<>> THEN line ELSE Tail(line)) /\ UNCHANGED session
=============================================================================
