SPECIFICATION FairSpec
CONSTANTS
  r1 = r1
  r2 = r2
  r3 = r3
  responses = responses
  standard = standard
  NoOne = NoOne
  Requests <- MCRequests
  Writers = {w1}
  Lanes <- MCLanes
  LaneOf <- MCLaneOf
  Priority = {r3}
  Ownable = {r1}
  Deadlined = {r2}
  ActiveLimit = 2
  LaneLimit <- TightLanes
  MaxRevision = 1
INVARIANTS
  CountersExact
  ActiveWithinLimit
  SleepsOnCurrentOwnership
  NoLostWakeup
PROPERTIES
  GrantsWithinLimits
  EveryRequestSettles
CHECK_DEADLOCK FALSE
