\* A reader that waits for the buffer to fill while another thread calls close().
CONSTANTS
  Channels = {c1, c2}
  Readers = {r1}
  MaxLen = 3
  Lengths = {1, 2}
  MaxBatch = 3
  MaxProduced = 4
SPECIFICATION Spec
INVARIANT OnlyDocumentedErrors
