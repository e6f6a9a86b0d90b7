SPECIFICATION FairSpec
CONSTANTS
  Clients = {c1, c2}
  Worker = Worker
  Sources = {1}
  Sinks = {1}
  Alsa = {0, 1}
  Actions <- MCActions
  Uuids <- MCUuids
  First <- MCFirst
  Maps <- MCMaps
  MaxPosts = 2
  MaxChanges = 1
INVARIANTS
  TypeOK
  LocksExclusive
  AppliedTruly
PROPERTY
  AcceptedFires
CHECK_DEADLOCK FALSE
