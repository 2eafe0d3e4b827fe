SPECIFICATION Spec
CONSTANTS
  Proxies = {p1, p2}
  Commands = {c1}
  Requests = {r1, r2}
  Profiles = {a, b}
  NoProfile = NoProfile
  Conflict = Conflict
  MaxTime = 2
SYMMETRY Symmetric
CHECK_DEADLOCK FALSE
INVARIANTS
  RotationPrevails
PROPERTIES
  OwnerMovesOnlyAcrossRelease
  ReleasesFence
