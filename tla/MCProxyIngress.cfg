SPECIFICATION FairSpec
CONSTANTS
  w1 = w1
  w2 = w2
  w3 = w3
  w4 = w4
  c1 = c1
  websocket = websocket
  standard = standard
  Nobody = Nobody
  Requests <- MCRequests
  Admin = {c1}
  Deadlined = {w1}
  Lanes = {websocket, standard}
  LaneOf <- MCLaneOf
  Reaped = {websocket}
  Acceptors = {a1}
  Takers = {s1, s2}
  ServedBy <- MCServedBy
  Capacity = 2
INVARIANTS
  TypeOK
  NoSleepBesideWork
PROPERTIES
  NoOvertaking
  EveryRequestAnswered
  ProxyStops
  ExpiredNeedNoWorker
CHECK_DEADLOCK FALSE
