SPECIFICATION Spec
CONSTANTS
  Routers = {1, 2}
  Lans <- MCPairs
INVARIANTS
  BackupCandidateExists
CHECK_DEADLOCK FALSE
