SPECIFICATION FairSpec
CONSTANTS
  Ids <- MCIds
  Self <- MCSelf
  Nets <- MCNets
  NoNet = "0"
  INF = 100
  Databases <- MCDatabases
  Histories <- MCHistories
INVARIANTS
  TypeOK
  PathsFeasible
  SettledExact
  NextHopLeads
  RoutesShortest
  KernelRemembered
  KernelCurrent
PROPERTIES
  UpdateTerminates
CHECK_DEADLOCK FALSE
