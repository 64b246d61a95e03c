\* Two callers, one worker, one session and a queue that may fill up.
SPECIFICATION FairSpec
CONSTANTS
  Exam = {e1}
  Session = {s1}
  ExamOf <- MCExamOf
  Caller = {boot, user}
  Worker = {w1}
  SlowHandlers = TRUE
  QueueCap = 2
  MaxRequests = 4
INVARIANTS
  MapTracksLive
PROPERTIES
  ImplementsService
  EveryEventHandled
  HandlersReturn
CHECK_DEADLOCK FALSE
