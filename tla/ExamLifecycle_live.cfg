\* Two workers: the sessions of a published exam end.
SPECIFICATION FairSpec
CONSTANTS
  Exam = exam
  a1 = a1
  a2 = a2
  b1 = b1
  Session = {a1, a2}
  Initial = {a1, a2}
  Starts <- MCStarts
  Ends <- MCEnds
  Caller = {c1}
  Worker = {w1, w2}
  Kinds = {"publish", "void"}
  MaxTime = 3
  MaxCrash = 1
  MayFail = {}
PROPERTIES
  SessionEnds
CHECK_DEADLOCK FALSE
