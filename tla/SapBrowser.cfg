SPECIFICATION Spec
CONSTANTS
  SapInterval = 2
  MinGap = 2
  MaxGap = 4
  CheckInterval = 3
  Multiplier = 4
  MaxEchoes = 1
  MaxNow = 34
INVARIANTS
  TypeOK
  RemovedAfterSilence

  
