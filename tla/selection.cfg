SPECIFICATION Spec
CONSTANTS
  e1 = e1
  e2 = e2
  r1 = r1
  r2 = r2
  Exts = {e1, e2}
  Runtimes = {r1, r2}
  Threads = {t1, t2}
  Defaults <- MCDefaults
  None = None
  Torn = Torn
  MaxChanges = 3
SYMMETRY MCSymmetry
INVARIANTS TypeOK OverridesWhole
PROPERTIES MergedAsTold
