\* The shipped policy (30 / 45 days, 50000 rupees) with half-day ticks, long
\* enough for both windows to close.
CONSTANTS
  None = None
  ReturnWindowDays = 30
  VipReturnWindowDays = 45
  ManagerApprovalThreshold = 5000000
  TicksPerDay = 2
  MaxNow = 98
  CustomerIds = {"cust-1", "cust-2"}
  OrderRows <- MCOrderRows
  CustomerRows <- MCCustomerRows
SPECIFICATION Spec
INVARIANT TypeOK
INVARIANT VerdictMatchesPolicy
INVARIANT VipNeverWorse
INVARIANT ReasonsAreTrue
\* the clock is bounded
CHECK_DEADLOCK FALSE
