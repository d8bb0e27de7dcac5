SPECIFICATION PromptSpec
CONSTANTS
  None = None
  Callers = {c1}
  Workers = {w1}
  Run = {r1}
  KeepDays = 2
  MaxDay = 3
  MaxSeq = 4
  MaxRequests = 4
  MaxCrashes = 2
  MaxFailedWrites = 0
CHECK_DEADLOCK FALSE
INVARIANTS InFlightHasJob InFlightKeepsPdf ReviewHasCache ShownSeqIsSaved
PROPERTIES  DeletedStaysDeleted RunsSettle
