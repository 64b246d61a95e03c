\* Two requests at a time, two students, two plans.
SPECIFICATION FairSpec
CONSTANTS
  pa = pa
  pb = pb
  sa = sa
  sb = sb
  Caller = {c1, c2}
  Plan = {pa, pb}
  Student = {sa, sb}
  MaxNumber <- MCMaxNumber
  FirstRows <- MCFirstRows
  FirstLinked = {{pb}}
  Conns = 3
  Kinds = {"register", "import", "review", "move", "void", "practice"}
  Sent = {"02", "06", "08"}
  Ending = {pa}
  MaxRequests = 2
PROPERTIES
  ApprovedKept
  MovedKeepsPlace
  RequestsReturn
CHECK_DEADLOCK FALSE
