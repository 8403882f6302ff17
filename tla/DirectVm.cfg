SPECIFICATION FairSpec
CONSTANTS
  Clients = {c1, c2}
  Pids = {p1, p2, p3}
  Nobody = Nobody
  NoPid = NoPid
  Sandboxed = TRUE
INVARIANTS
  OneOfEach
  AnsweredByOwn
PROPERTIES
  TrackedUntilDead
  ForeignUntouched
  RemovedIsStopped
  CommandsEnd
