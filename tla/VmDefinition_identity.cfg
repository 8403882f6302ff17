SPECIFICATION Spec
CONSTANTS
  DiskIds = {a, b}
  TrayIds = {c}
  NicIds = {m, n}
  Paths = {p, q}
  NoId = NoId
  Foreign = Foreign
  Keep = Keep
  Remove = Remove
  None = None
  NoCpu = NoCpu
  DefaultMachine = DefaultMachine
  NoInterfaces = NoInterfaces
  Primary = Primary
  NoTarget = NoTarget
  NoList = NoList
  NoFile = NoFile
  GivenMac = GivenMac
  Existing = FALSE
  Focuses = {"devices"}
  MaxEntries = 2
  MaxTarget = 1
PROPERTIES
  StableIdentity
VIEW MCView
SYMMETRY Symmetry
