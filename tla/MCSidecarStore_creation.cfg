SPECIFICATION Spec
CONSTANTS
  first = first
  second = second
  command = command
  u1 = u1
  u2 = u2
  u3 = u3
  NoOne = NoOne
  Unknown = Unknown
  Savers = {first, second}
  Removers = {}
  Updates = {u1, u2}
  InitialGeneration = 0
  RetryLimit = 1
  MaxMishaps = 0
INVARIANTS
  AcknowledgedSurvive
CHECK_DEADLOCK FALSE
