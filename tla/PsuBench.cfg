\* One channel, which the panel may also remove and add, and two threads.
CONSTANTS
  MaxId = 1
  VoltageMax = 4
  CurrentMax = 2
  Resistance = 1
  Probe = 1
  Threads = {user, daemon}
  Levels = {0, 2, 4, 6}
  VoltageLimits = {4}
  CurrentLimits = {2}
  Resistances = {0, 1}
  Emfs = {0, 4}
  MaxErrors = 1
SPECIFICATION Spec
INVARIANTS
  TypeOK
  ProtectionHolds
  LevelsInOrder
  TripIsNotSilent
PROPERTY OkMeansApplied
