SPECIFICATION Spec
CONSTANTS
  Channels = {1, 2}
  MaxTime = 10
  ShortTime = 4
  Multiplier = 2
  Width = 3
  Buffers = {1, 2}
  QueueBound = 1
  Vendors = {"mcc", "ni", "labjack", "keysight"}
  PerChannel = 2
  Sessions = 2
  Pins = {0, 1}
  LineSessions = 2
INVARIANTS
  PublishedUnderItsChannel
  StampsFollowSamples
  StopEndsAcquisition
  LinesAreTheirOwn
PROPERTIES
  SamplesContiguous
  StopReturns
CHECK_DEADLOCK FALSE
