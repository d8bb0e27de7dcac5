SPECIFICATION FairSpec
CONSTANTS
  None = None
  Callers = {c1, c2}
  Workers = {w1, w2}
  Run = {r1}
  KeepDays = 2
  MaxDay = 2
  MaxSeq = 4
  MaxRequests = 2
  MaxCrashes = 1
  MaxFailedWrites = 1
CHECK_DEADLOCK FALSE
INVARIANTS TypeOK InFlightHasJob
PROPERTIES EverythingEnds
