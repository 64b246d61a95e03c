\* A student with two requests at a time, an invigilator and the end handler.
SPECIFICATION FairSpec
CONSTANTS
  Student = {s1}
  Handler = {h1, h2}
  Opens = 1
  Closes = 3
  LatestEntry = 2
  EarliestHandIn = 2
  NextOpens = 5
  Day = 5
  Duration = 2
  Extensions <- MCExtensions
  Marks <- MCMarks
  Answer = {x, y}
  MaxTime = 4
  MaxPatch = 2
PROPERTIES
  GrantFits
  BeginsOnce
  EntryRespected
  HandInSeals
  NotCutShort
  SessionEnds
CHECK_DEADLOCK FALSE
