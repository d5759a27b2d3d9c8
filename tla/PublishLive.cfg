SPECIFICATION FairSpec
CONSTANTS
  i1 = i1
  i2 = i2
  Items = {i1}
  Procs = {p1}
  Tasks = {t1, t2}
  Scopes = {brand}
  Global = global
  ScopesOf <- MCScopesOf
  MaxConcurrent = 1
  Overstay = {"waiting", "dispatching"}
  PatchFrom = {}
  PatchTo = {"in_review", "scheduled"}
  FlagReadsFail = FALSE
  MaxArms = 2
  MaxRestarts = 1
  None = None
INVARIANTS
  LeakBounded
PROPERTIES
  PublishingLeaves
  DueIsServed
