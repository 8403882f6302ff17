SPECIFICATION FairSpec
CONSTANTS
  j1 = j1
  j2 = j2
  Jobs = {j1, j2}
  VmName <- MCVmName
  ImageId <- MCImageId
  KeepFailed = {j2}
  NoJob = NoJob
  MaxRestarts = 2
  MaxDbErrors = 2
INVARIANTS
  ReservationExclusive
  WaitingFindsNothing
  InstallKeepsItsResources
  NothingStranded
PROPERTIES
  UncertainResourcesKept
  SucceededIsInstalled
  
  ImplementsLifecycle
  AcceptedJobsEnd
