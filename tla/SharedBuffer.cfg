\* The daemon thread and a user thread publish to one buffer of two items.
CONSTANTS
  Callers = {daemon, user}
  BufferSize = 2
  MaxFailures = 0
  MaxItems = 2
SPECIFICATION Spec
CHECK_DEADLOCK FALSE
INVARIANT NoDataLost
