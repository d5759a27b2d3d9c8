SPECIFICATION ReviewSpec
CONSTANTS
  Requests = {r1, r2}
  Jobs = {j1}
  OneRequest = {r1}
  TwoJobs = {j1, j2}
  Ops = {"decide", "patch", "put", "create", "publish"}
  Clicks <- UIClicks
  Puts <- AnyToReview
  IsReel = FALSE
  Duplicates = TRUE
  Faults = {"worker", "late", "api"}
  MaxFaults = 1
  MaxEditions = 2
  MaxApprovals = 2
INVARIANTS
  NothingAutoPublishes
  PostIsOpen
  ReelApprovalIsCurrent
PROPERTIES
  PostStaysDecided
  PostLeavesWork
  PostIsServed
CHECK_DEADLOCK FALSE
