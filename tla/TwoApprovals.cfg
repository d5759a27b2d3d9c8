SPECIFICATION Spec
CONSTANTS
  Requests = {r1, r2}
  Jobs = {j1, j2}
  Ops = {"patch", "decide"}
  Clicks <- UIClicks
  Puts = {}
  IsReel = FALSE
  Duplicates = FALSE
  Faults = {}
  MaxFaults = 0
  MaxEditions = 2
  MaxApprovals = 5
INVARIANT OneOpenApproval
CHECK_DEADLOCK FALSE
