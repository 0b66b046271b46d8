SPECIFICATION AdminSpec
CONSTANTS
  Cases = {c1}
  Tracers = {t1}
  Streams = {page}
  Page = page
  Fetches = {f1}
  Requests = {}
  MaxRuns = 2
  MaxStepNo = 4
  MaxJobs = 3
  None = None
INVARIANT ResultIsPairedWithItsCall
CHECK_DEADLOCK FALSE
