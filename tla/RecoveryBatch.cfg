SPECIFICATION FairSpec
CONSTANTS
  g1 = g1
  g2 = g2
  h = h
  a = a
  b = b
  p1 = p1
  p2 = p2
  r1 = r1
  r2 = r2
  Guia = {g1, g2, h}
  Id = {a, b}
  IdOf <- MCIdOf
  PassedOver = {b}
  Registro = {r1, r2}
  RegistroOf <- MCRegistroOf
  Page = {p1, p2}
  CachedPages = {p2}
  Discarded = Discarded
  NoBatch = NoBatch
  MaxConcurrency = 1
  MaxRequests = 2
  MaxFailedWrites = 1
CHECK_DEADLOCK FALSE
INVARIANTS TypeOK PageClaimedOnce CountersAddUp SlotsAddUp OneDiscardedBatch
PROPERTIES DoneIsFinal EveryBatchSettles
