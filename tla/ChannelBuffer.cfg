\* One reader and two channels that appear together or apart; a ring of three slots takes
\* batches that fit, wrap and overrun it, before and after close().
CONSTANTS
  Channels = {c1, c2}
  Readers = {r1}
  MaxLen = 3
  Lengths = {1, 2}
  MaxBatch = 3
  MaxProduced = 4
SPECIFICATION Spec
PROPERTIES
  NewSamplesAreNew
  ImplementsWindow
  CloseWakesReaders
