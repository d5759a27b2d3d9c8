SPECIFICATION Spec
CONSTANTS
  RunSlots = {1, 2}
  Requests = {"update", "morning", "generate", "planning", "research", "strategy",
              "content", "product"}
  MaxRequests = 2
  MaxDeaths = 1
  Items = {1, 2}
  Reels = {2}
  Planned = {2}
  Workers = {w1, w2}
  Slots = {1, 2, 3, 4, 5}
  MaxDeliver = 2
  BatchLimit = 1
  TopUpLimit = 2
  Triggers = {"content", "generate", "item", "topup"}
  MaxTriggers = 1
  Faults = {"fail", "raise", "timeout", "reject", "crash"}
  MaxFaults = 1
  Free = Free
INVARIANTS
  BatchIsCarried
  GeneratedOnce
PROPERTIES
  ActivationEnds
  ActiveHasStrategy
  BatchIsServed
CHECK_DEADLOCK FALSE
