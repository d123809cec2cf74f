CONSTANTS
  Slot = {1, 2, 3, 4}
  LastDay = 3
  Writer = {"sec", "psc", "gleif", "wikidata"}
  Says <- MCSays
  GleifSays = "direct"
  MaxStatements = 5
  MaxCrashes = 1
  Overlap = FALSE
  SeatsStated <- Appointments
  SeatsDeaths = {5, 8}
  SeatsCalls = 4
  PairSlots = {1, 2, 3, 4}
  PairDays = 3
  PairRecords <- PairSays
  PairStatements = 7
  ListFiler = "F"
  ListSubs = {"a", "b"}
  ListExhibits <- Exhibits
  ListDeals <- Purchases
  ListRelated <- KnownPairs
  ListYears = 3
  ListQuarters = 1
  ListGleifs = 1
  ListCrashes = 1
  ListBeside = FALSE
SPECIFICATION SuiteSpec
INVARIANTS OneActiveUnlessReopened  GleifPairStands
    ListStands  TreeRead
PROPERTIES HigherAnswerKept
CHECK_DEADLOCK FALSE
