\* One chat turn after another in one conversation, of two customers and about an order
\* of the first that may be refunded until the clock ticks; a step and a retry may be
\* used up, and every turn ends.
CONSTANTS
  None = None
  ReturnWindowDays = 0
  VipReturnWindowDays = 1
  ManagerApprovalThreshold = 1
  TicksPerDay = 1
  turn1 = turn1
  Orders = {"small"}
  CustomerIds = {"cust-1", "cust-2"}
  Conversations = {"conv-1"}
  Turns = {turn1}
  Managers = {}
  MaxClock = 1
  MaxRequests = 2
  SeedOrder <- MCSeedOrder
  CustomerTier <- MCCustomerTier
  Reasons = {"damaged"}
  MaxSteps = 2
  MaxRetries = 1
  MaxCalls = 2
  TurnVerdicts <- MCTurnVerdicts
SPECIFICATION FairChatSpec
PROPERTY CaseNamesCustomer
PROPERTY TurnTerminates
PROPERTY RefundServiceSpec
\* every session may be over, with the clock and the requests at their bounds
CHECK_DEADLOCK FALSE
