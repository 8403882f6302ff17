SPECIFICATION FairSpec
CONSTANTS
  r1 = r1
  r2 = r2
  Runs = {r1, r2}
  VmName <- SameForAll
  Disk <- SameForAll
  Output <- SameForAll
  KeepFailed = {}
  CleanupMayFail = {r1, r2}
  Nobody = Nobody
INVARIANTS
  DomainKeepsItsDisk
  OutcomeIsTrue
PROPERTIES
  
  RunsEnd
CHECK_DEADLOCK FALSE
