SPECIFICATION AdminSpec
CONSTANTS
  Cases = {c1, c2}
  Tracers = {t1}
  Streams = {page}
  Page = page
  Fetches = {f1, f2}
  Requests = {r1, r2}
  MaxRuns = 1
  MaxStepNo = 4
  MaxJobs = 4
  None = None
INVARIANTS AdminTypeOK DurableTraceIsWhole SettledPageIsCurrent DurableStepsAreSeen SeenStepsBecomeDurable
CHECK_DEADLOCK FALSE
