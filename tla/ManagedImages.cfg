SPECIFICATION Spec
CONSTANTS
  Handlers = {h1, h2}
  Images = {i1, i2, i3}
  Vms = {v1, v2}
  NoImage = NoImage
  NoVm = NoVm
  MaxDisks = 2
  PathsAhead = FALSE
  AttachDuringInstall = FALSE
INVARIANTS
  OneVmPerImage
  
  
SYMMETRY Symmetry
