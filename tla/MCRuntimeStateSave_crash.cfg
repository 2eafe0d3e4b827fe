SPECIFICATION Spec
CONSTANTS
  turn = turn
  reply = reply
  usage = usage
  cli = cli
  prune = prune
  NoJob = NoJob
  NoOne = NoOne
  Mutations = {turn, reply, usage}
  Kind <- MCKind
  Probes = {usage}
  Others = {prune}
  OtherSection <- MCOtherSection
  Debounce = 2
  RetryLimit = 1
  MaxFaults = 0
  MaxCrashes = 1
INVARIANTS
  BindingsBehindContinuations
  DeadlinesKept
  CoalescedSectionsPersisted
  LatestPersisted
  JournaledPersisted
CHECK_DEADLOCK FALSE
