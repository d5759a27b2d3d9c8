SPECIFICATION Spec
CONSTANTS
  i1 = i1
  i2 = i2
  Items = {i1}
  Procs = {p1}
  Tasks = {t1, t2}
  Scopes = {}
  Global = global
  ScopesOf <- MCScopesOf
  MaxConcurrent = 2
  Overstay = {"waiting"}
  PatchFrom = {}
  PatchTo = {"in_review", "scheduled"}
  FlagReadsFail = FALSE
  MaxArms = 2
  MaxRestarts = 0
  None = None
SYMMETRY TaskSymmetry
INVARIANTS
  OneDispatchPerItem
