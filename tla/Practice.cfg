\* Two windows, two teachers, an attempt with two collections or two with one.
SPECIFICATION PracticeSpec
CONSTANTS
  Window = {w1, w2}
  Teacher = {t1, t2}
  Attempt = {a1, a2}
  Wrong = {x1, x2}
  Text = {right, wrong}
  Right = right
  Blank = wrong
  Limits = {0}
  MaxSubs = 3
  MaxOps = 2
SYMMETRY Symmetry
INVARIANTS
  OneWriter
PROPERTIES
  MarkedAsHandedIn
  VoidStays
CHECK_DEADLOCK FALSE
