SPECIFICATION Spec
CONSTANTS
  Ids = {0, 1}
  Clients = {c1}
  Detached = {n1}
  Main = main
  MaxVersion = 5
  MaxNow = 3
INVARIANTS
  TypeOK
  VersionBelowCounter
  IncreasingBetweenRestarts
