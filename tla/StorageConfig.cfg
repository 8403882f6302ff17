SPECIFICATION Spec
CONSTANTS
  Commands = {c1, c2}
  Backends = {b1}
  Targets <- MCTargets
  Parts <- MCParts
  BaseName <- MCBaseName
  MaxSuffix = 4
  Absent = Absent
  Torn = Torn
SYMMETRY MCSymmetry
INVARIANTS
  ConfigWhole
  NothingForgotten
