\* Two chat turns of two customers in one conversation about an order above the
\* threshold, and a manager.
CONSTANTS
  None = None
  ReturnWindowDays = 0
  VipReturnWindowDays = 1
  ManagerApprovalThreshold = 1
  TicksPerDay = 1
  turn1 = turn1
  turn2 = turn2
  manager1 = manager1
  Orders = {"big"}
  CustomerIds = {"cust-1", "cust-2"}
  Conversations = {"conv-1"}
  Turns = {turn1, turn2}
  Managers = {manager1}
  MaxClock = 0
  MaxRequests = 1
  SeedOrder <- MCSeedOrder
  CustomerTier <- MCCustomerTier
  Reasons = {}
  MaxSteps = 1
  MaxRetries = 0
  MaxCalls = 1
  TurnVerdicts <- MCTurnVerdicts
SYMMETRY MCSymmetry
SPECIFICATION ChatSpec
INVARIANT ChatTypeOK
INVARIANT BackstopCoversSoleOrder
PROPERTY CaseNamesCustomer
\* every session may be over, with the clock and the requests at their bounds
CHECK_DEADLOCK FALSE
