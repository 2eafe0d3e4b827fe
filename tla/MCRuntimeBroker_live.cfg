SPECIFICATION FairSpec
CONSTANTS
  l1 = l1
  l2 = l2
  l3 = l3
  None = None
  Launchers = {l1, l2}
  Foreign = {}
  Version <- MCVersion
  Mortal = {l1}
  Fragile = {l2}
PROPERTIES
  EnsuresEnd
  BrokersEnd
CHECK_DEADLOCK FALSE
