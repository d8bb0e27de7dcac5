SPECIFICATION Spec
CONSTANTS
  g1 = g1
  g2 = g2
  p1 = p1
  p2 = p2
  r1 = r1
  r2 = r2
  sec = sec
  f1 = f1
  f2 = f2
  m1 = m1
  m2 = m2
  Guia = {g1, g2}
  Registro = {r1, r2, sec}
  SectionId = {sec}
  Fecha = {f1, f2}
  Material = {m1, m2}
  None = None
  NoActor = NoActor
  SunatFecha = f2
  CachedGuias <- MCLateLines
  PageRegistro <- MCPageRegistro
  RecoveredLines <- MCRecoveredLines
  Threads = {t1, t2}
  Tasks = {c1}
  Page = {p1}
  Edits <- ConcurrentEdits
  MaxRequests = 3
  MaxCrashes = 0
  MaxFailedWrites = 0
SYMMETRY ThreadSymmetry
CHECK_DEADLOCK FALSE
INVARIANTS NothingListedAgain DroppedPageIsRecorded SidecarIsPrefix
