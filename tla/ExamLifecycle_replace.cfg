\* Every request, PUT and DELETE included; b1 is the session a PUT inserts.
SPECIFICATION Spec
CONSTANTS
  Exam = exam
  a1 = a1
  a2 = a2
  b1 = b1
  Session = {a1, b1}
  Initial = {a1}
  Starts <- MCStarts
  Ends <- MCEnds
  Caller = {c1, c2, c3}
  Worker = {w1, w2}
  Kinds = {"put", "publish", "void", "delete"}
  MaxTime = 2
  MaxCrash = 0
  MayFail = {c1, c2, c3, w1, w2}
SYMMETRY Symmetry
INVARIANTS
  Consistent
PROPERTIES
  SessionForward
  DeletedForGood
  ImplementsStatus
CHECK_DEADLOCK FALSE
