SPECIFICATION PatientSpec
CONSTANTS
  None = None
  Callers = {c1}
  Workers = {w1, w2}
  Run = {r1, r2}
  KeepDays = 2
  MaxDay = 1
  MaxSeq = 4
  MaxRequests = 3
  MaxCrashes = 0
  MaxFailedWrites = 1
CHECK_DEADLOCK FALSE
SYMMETRY RunSymmetry
INVARIANTS SeqUnique
