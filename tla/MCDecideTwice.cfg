\* Two managers resolving one ticket at one time.
CONSTANTS
  None = None
  ReturnWindowDays = 0
  VipReturnWindowDays = 1
  ManagerApprovalThreshold = 1
  TicksPerDay = 1
  turn1 = turn1
  manager1 = manager1
  manager2 = manager2
  Orders = {"big"}
  CustomerIds = {"cust-1"}
  Conversations = {"conv-1"}
  Turns = {turn1}
  Managers = {manager1, manager2}
  MaxClock = 1
  MaxRequests = 2
  SeedOrder <- MCSeedOrder
  CustomerTier <- MCCustomerTier
  TurnVerdicts = {"escalate"}
SYMMETRY MCSymmetry
SPECIFICATION Spec
INVARIANT PayoutHasApproval
\* every session may be over, with the clock and the requests at their bounds
CHECK_DEADLOCK FALSE
