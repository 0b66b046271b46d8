\* One chat turn and two orders.
CONSTANTS
  None = None
  ReturnWindowDays = 0
  VipReturnWindowDays = 1
  ManagerApprovalThreshold = 1
  TicksPerDay = 1
  turn1 = turn1
  Orders = {"small", "big"}
  CustomerIds = {"cust-1"}
  Conversations = {"conv-1"}
  Turns = {turn1}
  Managers = {}
  MaxClock = 0
  MaxRequests = 3
  SeedOrder <- MCSeedOrder
  CustomerTier <- MCCustomerTier
  Reasons = {"damaged"}
  MaxSteps = 2
  MaxRetries = 0
  MaxCalls = 1
  TurnVerdicts <- MCTurnVerdicts
SPECIFICATION ChatSpec
INVARIANT EscalatedOrderHasTicket
\* every session may be over, with the clock and the requests at their bounds
CHECK_DEADLOCK FALSE
