SPECIFICATION FairSpec
CONSTANTS
  Sessions = {s1}
  Worker = Worker
  Receivers = {1}
  Senders = {}
  Conditions <- MCConditions
  Start <- Good
  Dual = TRUE
  Asked = {2}
  MaxChanges = 2
  MaxRequests = 2
INVARIANTS
  TypeOK
  CountersCover
PROPERTY
  Informed
CHECK_DEADLOCK FALSE
