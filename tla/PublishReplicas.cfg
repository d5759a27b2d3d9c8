SPECIFICATION Spec
CONSTANTS
  i1 = i1
  i2 = i2
  Items = {i1}
  Procs = {p1, p2}
  Tasks = {t1, t2}
  Scopes = {brand}
  Global = global
  ScopesOf <- MCScopesOf
  MaxConcurrent = 1
  Overstay = {"waiting", "dispatching"}
  PatchFrom = {"publishing", "failed"}
  PatchTo = {"scheduled"}
  FlagReadsFail = TRUE
  MaxArms = 2
  MaxRestarts = 0
  None = None
SYMMETRY ProcTaskSymmetry
INVARIANTS
  PostsWithinArms
  PublishedWasPosted
PROPERTIES
  ImplementsLedger
