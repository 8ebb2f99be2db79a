SPECIFICATION Spec
CONSTANTS
  raw = raw
  kab = kab
  raw1 = raw1
  raw2 = raw2
  kab1 = kab1
  kab2 = kab2
  Raw = {raw}
  Kab = {kab}
  Files <- MCFiles
  Lengths = {1, 2}
  Torn = Torn
  HashTrees = {raw2, kab1}
  Loops = {loop1, loop2, loop3, loop4}
  NONE = NONE
  Empty = Empty
  MaxChanges = 1
  MaxRewrites = 1
  MaxFaults = 2
SYMMETRY MCSymmetry
INVARIANTS
  Presents
  NoLeak
  SweepsAll
