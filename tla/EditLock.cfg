\* Two users, two exams and a question; a lapse in the middle of a request.
SPECIFICATION FairSpec
CONSTANTS
  c1 = c1
  c2 = c2
  u1 = u1
  u2 = u2
  Client = {c1, c2}
  User = {u1, u2}
  UserOf <- MCApart
  Exam = {e1, e2}
  Text = {t1}
  Kinds = {"edit", "save", "delete", "publish", "void"}
  EditLease = 2
  OpLease = 1
  MaxAsk = 3
INVARIANTS
  LeaseHolds
PROPERTIES
  StatusLawful
  LockFreed
CHECK_DEADLOCK FALSE
