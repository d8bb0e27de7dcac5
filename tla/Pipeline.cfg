SPECIFICATION Spec
CONSTANTS
  None = None
  guiaA = guiaA
  guiaB = guiaB
  uA = uA
  uB = uB
  uC = uC
  uD = uD
  r1 = r1
  r2 = r2
  s1 = s1
  Url = {uA, uB, uC, uD}
  Unreadable = Unreadable
  SectionIds = {s1}
  Attributes <- MCAttributes
  Parsed <- MCParsed
  Inferred <- MCInferred
  Documents <- MCDocuments
  SunatAnswers <- MCSunatAnswers
  Readings <- MCReadings
  Today = 20260301
  Concurrency = 3
  MaxVisionCalls = 2
  MaxFailures = 1
CHECK_DEADLOCK FALSE
INVARIANTS TypeOK PagesAccounted BlocksAreRuns VisionWithinCap DatesAreLatest MaterialConserved UnflaggedRowsAreSure StoredIsShown
