SPECIFICATION FairSpec
CONSTANTS
  turn = turn
  reply = reply
  usage = usage
  cli = cli
  prune = prune
  NoJob = NoJob
  NoOne = NoOne
  Mutations = {turn, usage}
  Kind <- MCKind
  Probes = {usage}
  Others = {cli, prune}
  OtherSection <- MCOtherSection
  Debounce = 1
  RetryLimit = 1
  MaxFaults = 1
  MaxCrashes = 0
PROPERTIES
  NothingOnDiskIsLost
  SavesNeverBlockMutations
  QueuesDrain
CHECK_DEADLOCK FALSE
