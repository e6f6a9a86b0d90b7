SPECIFICATION FairSpec
CONSTANTS
  Ids = {p1}
  Redundant = {p1}
  MaxDeletions = 3
  MaxVersion = 2
  MaxFlips = 2
  MaxFaults = 1
INVARIANTS
  TypeOK
  DeletionsThreefold
  ShutdownWithdraws
PROPERTIES
  RemoteConverges
  ImplementsDirectory
CHECK_DEADLOCK FALSE
