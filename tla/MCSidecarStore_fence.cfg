SPECIFICATION FairSpec
CONSTANTS
  first = first
  second = second
  command = command
  u1 = u1
  u2 = u2
  u3 = u3
  NoOne = NoOne
  Unknown = Unknown
  Savers = {first, second}
  Removers = {command}
  Updates = {u1, u2, u3}
  InitialGeneration = 1
  RetryLimit = 1
  MaxMishaps = 1
INVARIANTS
  AcknowledgedSurvive
  BackupNotNewer
PROPERTY
  SavesEnd
CHECK_DEADLOCK FALSE
