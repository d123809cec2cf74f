CONSTANTS
  Pair <- Short
  MaxHops = 6
  MaxWrites = 5
  MaxPasses = 2
  MaxFaults = 0
SPECIFICATION Spec
INVARIANTS NothingHidden
CHECK_DEADLOCK FALSE
