SPECIFICATION Spec
CONSTANTS
  Workers = {w1, w2}
  Workflows <- BothWorkflows
  MaxRuns = 2
  MaxMsgs = 3
  MaxRounds = 1
  Drains = {w1}
  Faults = {"crash", "stall", "cancel", "pause", "probe"}
  MaxFaults = 1
  None = None
INVARIANTS
  OneExecutor
PROPERTIES
  TerminalStays
  LiveRunIsNotFailed
  OwnRunNeverBlocks
CHECK_DEADLOCK FALSE
