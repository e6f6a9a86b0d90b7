SPECIFICATION FairSpec
CONSTANTS
  Tasks = {c1, c2}
  None = None
  MaxVersion = 2
  MaxFaults = 1
  MaxTime = 3
INVARIANT
  TypeOK
PROPERTIES
  
  SinkFollows
CHECK_DEADLOCK FALSE
