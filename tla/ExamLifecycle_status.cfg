\* Publish and void against the timers of two sessions.
SPECIFICATION Spec
CONSTANTS
  Exam = exam
  a1 = a1
  a2 = a2
  b1 = b1
  Session = {a1, a2}
  Initial = {a1, a2}
  Starts <- MCStarts
  Ends <- MCEnds
  Caller = {c1, c2}
  Worker = {w1, w2}
  Kinds = {"publish", "void"}
  MaxTime = 3
  MaxCrash = 1
  MayFail = {}
SYMMETRY Symmetry
INVARIANTS
  Scheduled
PROPERTIES
  RunningStays
CHECK_DEADLOCK FALSE
