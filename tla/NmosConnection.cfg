SPECIFICATION FairSpec
CONSTANTS
  Clients = {c1, c2}
  Peers = {p, q}
  None = None
  Worker = Worker
  Direct = Direct
  MaxPatches = 2
  MaxDirect = 2
INVARIANTS
  TypeOK
  SubscriptionTruthful
  ModeOwned
PROPERTY
  ScheduledApplied
CHECK_DEADLOCK FALSE
