CONSTANTS
  Slot = {1, 2, 3}
  LastDay = 3
  Writer = {"gleif"}
  Says <- MCSays
  GleifSays = "sameday"
  MaxStatements = 5
  MaxCrashes = 0
  Overlap = FALSE
SPECIFICATION Spec
INVARIANTS UltimateStartRestored
CHECK_DEADLOCK FALSE
