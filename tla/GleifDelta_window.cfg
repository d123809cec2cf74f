CONSTANTS
  a = a
  b = b
  ab = ab
  Lei = {a, b}
  Rel = {ab}
  Parent <- MCParent
  Child <- MCChild
  Window <- HalfDayWindow
  MaxGap <- HalfDayMaxGap
  MaxChanges = 2
  MaxRun = 2
  MaxEvents = 0
SPECIFICATION Spec
INVARIANTS NothingMissed
CHECK_DEADLOCK FALSE
