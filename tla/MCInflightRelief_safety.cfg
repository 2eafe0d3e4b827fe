SPECIFICATION Spec
CONSTANTS
  r1 = r1
  r2 = r2
  r3 = r3
  main = main
  second = second
  NoProfile = NoProfile
  NoRevision = NoRevision
  Requests = {r1, r2, r3}
  Profiles = {main, second}
  Weight <- MCWeight
  HardLimit = 2
  Owner <- ThirdBound
  InitialReady = {main, second}
  MaxChanges = 1
  MaxRetries = 0
  Deadlined = {}
INVARIANTS
  NeverFalselyExhausted
  NoLostRelease
CHECK_DEADLOCK FALSE
