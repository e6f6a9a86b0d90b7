SPECIFICATION FairSpec
CONSTANTS
  Sources = {1}
  Sinks = {2}
  Configured = {1}
  MaxUpsets = 3
INVARIANTS
  TypeOK
  TablesFollow
  RegistryCurrent
PROPERTIES
  NodeRefreshed
CHECK_DEADLOCK FALSE
