CONSTANTS
  Sightings <- Spellings
  Variants = {{"tm", "tom m"}}
  MaxWrites = 3
  MaxScans = 1
  MaxTold = 1
  Beside = FALSE
SPECIFICATION Spec
INVARIANTS KeptApart
CHECK_DEADLOCK FALSE
