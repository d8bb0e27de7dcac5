SPECIFICATION Spec
CONSTANTS
  None = None
  Callers = {c1}
  Workers = {w1}
  Run = {r1}
  KeepDays = 2
  MaxDay = 2
  MaxSeq = 4
  MaxRequests = 2
  MaxCrashes = 1
  MaxFailedWrites = 0
CHECK_DEADLOCK FALSE
INVARIANTS CompletedRunsSurvive
