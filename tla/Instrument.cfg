\* Two daemons one after the other, with a start that finds the first one running, dead
\* or stopped, and one reader in get_channel() throughout.
CONSTANTS
  Readers = {r1}
  MaxStarts = 3
SPECIFICATION Spec
INVARIANTS
  TypeOK
  OneDaemon
  QuietAfterStop
  StopFindsItsBuffer
  OldSamplesUnreachable
  NoBufferLeak
PROPERTIES
  StopReturns
  StopReleasesReaders
