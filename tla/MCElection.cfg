SPECIFICATION FairSpec
CONSTANTS
  Routers = {1, 2, 3}
  Lans <- MCLans
INVARIANTS
  TypeOK
  ElectedIsKnown
  StateTellsRole
  OneDesignatedRouter
PROPERTIES
  NotPreempted
  AgreementReached
CHECK_DEADLOCK FALSE
