SPECIFICATION FairSpec
CONSTANTS
  r1 = r1
  r2 = r2
  r3 = r3
  main = main
  second = second
  NoProfile = NoProfile
  NoRevision = NoRevision
  Requests = {r1, r2, r3}
  Profiles = {main}
  Weight <- MCWeight
  HardLimit = 2
  Owner <- ThirdBound
  InitialReady = {main}
  MaxChanges = 0
  MaxRetries = 1
  Deadlined = {r2}
INVARIANTS
  InflightExact
PROPERTIES
  EveryRequestServed
CHECK_DEADLOCK FALSE
