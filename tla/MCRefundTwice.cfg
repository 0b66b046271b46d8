\* Two chat turns at one time about one order.
CONSTANTS
  None = None
  ReturnWindowDays = 0
  VipReturnWindowDays = 1
  ManagerApprovalThreshold = 1
  TicksPerDay = 1
  turn1 = turn1
  turn2 = turn2
  Orders = {"small"}
  CustomerIds = {"cust-1"}
  Conversations = {"conv-1"}
  Turns = {turn1, turn2}
  Managers = {}
  MaxClock = 1
  MaxRequests = 2
  SeedOrder <- MCSeedOrder
  CustomerTier <- MCCustomerTier
  TurnVerdicts = {"approve"}
SYMMETRY MCSymmetry
SPECIFICATION Spec
INVARIANT AtMostOnePayout
\* every session may be over, with the clock and the requests at their bounds
CHECK_DEADLOCK FALSE
