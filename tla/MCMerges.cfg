CONSTANTS
  lei = lei
  sec = sec
  wd = wd
  uuid = uuid
  f1 = f1
  r1 = r1
  w1 = w1
  Id = {lei, sec, uuid}
  Rank <- MCRank
  Uuid = 3
  Fact = {f1}
  Ref = {r1}
  Worker = {w1}
  NoId = NoId
  MaxHops = 5
  MaxFaults = 2
  Overlap = FALSE
  PairId = {"lei", "sec", "wd", "uuid"}
  PairRank <- FourRanks
  PairUuid = 3
  PairRef = {"r1"}
  PairWorker = {"w1", "w2"}
  PairHops = 5
  PersonSightings <- Namesakes
  PersonVariants = {{"tm", "tom m"}}
  PersonWrites = 4
  PersonScans = 2
  PersonTold = 1
SPECIFICATION SuiteSpec
INVARIANTS   IdsFollow PairFollows
PROPERTIES FoldsOneHuman
CHECK_DEADLOCK FALSE
