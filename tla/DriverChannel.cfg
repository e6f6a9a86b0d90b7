SPECIFICATION Spec
CONSTANTS
  Threads = {t1, t2}
  Ids = {get, set}
  DataIds = {get}
  Nobody = nobody
  MaxCommands = 4
  MaxTimeouts = 1
  MaxLost = 1
INVARIANTS
  TypeOK
  LagBounded
  CodeFaithful
