SPECIFICATION Spec
CONSTANTS
  l1 = l1
  l2 = l2
  l3 = l3
  None = None
  Launchers = {l1, l2, l3}
  Foreign = {l3}
  Version <- MCVersion
  Mortal = {l1}
  Fragile = {l2}
INVARIANTS
  ArtifactsAgree
  AwaitedBrokerIsRegistered
  StopsOnlyOnUnseen
PROPERTIES
  LiveRegistrationStands
  ReplacesOnlyUnused
CHECK_DEADLOCK FALSE
