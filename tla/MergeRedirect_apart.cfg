CONSTANTS
  lei = lei
  sec = sec
  wd = wd
  uuid = uuid
  f1 = f1
  r1 = r1
  w1 = w1
  Id = {lei, sec, uuid}
  Rank <- MCRank
  Uuid = 3
  Fact = {f1}
  Ref = {r1}
  Worker = {w1}
  NoId = NoId
  MaxHops = 5
  MaxFaults = 0
  Overlap = FALSE
SPECIFICATION Spec
INVARIANTS KeptSeparate
CHECK_DEADLOCK FALSE
