SPECIFICATION FairSpec
CONSTANTS
  Workers = {w1}
  Workflows <- BothWorkflows
  MaxRuns = 2
  MaxMsgs = 3
  MaxRounds = 2
  Drains = {w1}
  Faults = {"crash", "stall", "cancel", "pause", "probe", "unregistered"}
  MaxFaults = 1
  None = None
PROPERTIES
  RunLeavesRunning
CHECK_DEADLOCK FALSE
