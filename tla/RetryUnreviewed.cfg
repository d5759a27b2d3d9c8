SPECIFICATION Spec
CONSTANTS
  Requests = {r1}
  Jobs = {j1}
  Ops = {"decide", "regen", "render", "publish"}
  Clicks <- UIClicks
  Puts = {}
  IsReel = TRUE
  Duplicates = FALSE
  Faults = {}
  MaxFaults = 0
  MaxEditions = 3
  MaxApprovals = 4
CONSTRAINT OneActor
INVARIANT RetryPassedReview
CHECK_DEADLOCK FALSE
