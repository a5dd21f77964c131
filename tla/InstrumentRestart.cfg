\* A daemon that died of a publisher's exception, close(), and a second start().
CONSTANTS
  Readers = {r1}
  MaxStarts = 2
SPECIFICATION Spec
INVARIANT StartBuildsFreshBuffer
