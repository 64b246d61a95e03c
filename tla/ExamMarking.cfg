\* Two students who submit, two teachers, papers with subjective questions, one crash.
SPECIFICATION FairSpec
CONSTANTS
  s1 = s1
  s2 = s2
  r1 = r1
  r2 = r2
  Student = {s1, s2}
  Request = {r1, r2}
  By <- MCBy
  Marker = {t1, t2}
  Papers <- MCPapers
  Modes = {"00", "10"}
  MaxRetry = 1
  MaxCrash = 1
INVARIANTS
  MarkedIsComplete
  Watched
PROPERTIES
  NotReopened
  MarkingFinishes
CHECK_DEADLOCK FALSE
