CONSTANTS
  a = a
  b = b
  ab = ab
  Lei = {a, b}
  Rel = {ab}
  Parent <- MCParent
  Child <- MCChild
  Window <- DailyWindow
  MaxGap <- DailyMaxGap
  MaxChanges = 2
  MaxRun = 2
  MaxEvents = 1
SPECIFICATION FairSpec
INVARIANTS NothingMissed
PROPERTIES CatchesUp
CHECK_DEADLOCK FALSE
