\* One monitored node, whose queue of one overflows, and one the server refused to
\* monitor; four instants are enough for a notification to be overtaken and dropped.
CONSTANTS
  Nodes = {n1, n2}
  Monitored = {n1}
  QueueSize = 1
  MaxClock = 4
SPECIFICATION Spec
\* A stopped session rests.
CHECK_DEADLOCK FALSE
INVARIANTS
  NoReadAfterDisconnect
PROPERTIES
  OvertakenOnlyAfterFlush
  PolledValueSurvives
  ChangesAreReported
