SPECIFICATION Spec
CONSTANTS
  SourceIds = {p1, p2}
  SinkIds = {k1}
  short = short
  long = long
  Names = {short, long}
  Trunc <- MCTrunc
  mc = mc
  uc = uc
  Addrs = {mc, uc}
  Destinations <- MCDestinations
  McastAddrs = {mc}
  Handles = {h1, h2}
  SecConfigured = TRUE
  MaxFaults = 1
  Nil = Nil
SYMMETRY Symmetry
INVARIANTS
  TypeOK
  NameIndexSound
  StreamsTracked
  GroupMembership
