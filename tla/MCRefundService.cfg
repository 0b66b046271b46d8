\* Two chat turns and a manager, all about one order; the second customer owns
\* nothing, and asking on its behalf makes the rows of the first collectable.
CONSTANTS
  None = None
  ReturnWindowDays = 0
  VipReturnWindowDays = 1
  ManagerApprovalThreshold = 1
  TicksPerDay = 1
  turn1 = turn1
  turn2 = turn2
  manager1 = manager1
  Orders = {"small"}
  CustomerIds = {"cust-1", "cust-2"}
  Conversations = {"conv-1"}
  Turns = {turn1, turn2}
  Managers = {manager1}
  MaxClock = 1
  MaxRequests = 2
  SeedOrder <- MCSeedOrder
  CustomerTier <- MCCustomerTier
  TurnVerdicts = {None, "escalate"}
SYMMETRY MCSymmetry
SPECIFICATION Spec
INVARIANT TypeOK
INVARIANT LedgerMatchesOrders
INVARIANT AgentPaysOnlyWithinPolicy
INVARIANT TurnNeverPaysTwice
INVARIANT AnswersOnlyHarden
INVARIANT DoublePayNeedsOverlap
INVARIANT DuplicateTicketNeedsOverlap
INVARIANT TicketMatchesRequest
INVARIANT PayoutHasApproval
PROPERTY RecordsOnlyMoveForward
\* every session may be over, with the clock and the requests at their bounds
CHECK_DEADLOCK FALSE
