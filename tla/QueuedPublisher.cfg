\* Two producers fill a queue of one while the worker flushes batches of two, the wrapped
\* publisher raises once, and close() is called twice.
CONSTANTS
  Producers = {p1, p2}
  Worker = worker
  Closer = closer
  Callers = {worker, closer}
  BufferSize = 2
  MaxQueueSize = 1
  MaxItems = 2
  MaxFailures = 1
  MaxCloses = 2
SPECIFICATION Spec
\* Once every call is made the system rests.
CHECK_DEADLOCK FALSE
INVARIANTS
  AcceptedIsSomewhere
  CloseSendsAccepted
  SentOnceInOrder
PROPERTIES
  CloseReturns
  PutReturns
