SPECIFICATION FairSpec
CONSTANTS
  Cli = {c1}
  Handlers = {h1}
  MaxVms = 2
  Isos = {i1}
  Uploads = {u1}
  Empty = Empty
  NoTray = NoTray
  NoFile = NoFile
  NoDef = NoDef
INVARIANTS
  
  TraysAgree
  
PROPERTIES
  PublishedOrGone
  LockReleased
