\* One administrator's requests, one worker, one restart.
SPECIFICATION FairSpec
CONSTANTS
  Caller = {c1}
  Worker = {w1}
  Kinds = {"edit", "release", "void", "delete"}
  Deadlines <- MCDeadlines
  MaxTime = 3
  MaxRequests = 3
  MaxCrash = 1
INVARIANTS
  Scheduled
PROPERTIES
  VoidIsFinal
  Closes
CHECK_DEADLOCK FALSE
