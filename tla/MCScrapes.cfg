CONSTANTS
  rec1 = rec1
  rec2 = rec2
  rec3 = rec3
  pair1 = pair1
  pair2 = pair2
  Rec = {rec1, rec2, rec3}
  Pair = {pair1, pair2}
  PairOf <- MCPairOf
  FirstFiles <- MCFirst
  MaxDay = 3
  MaxMoves = 2
  Scopes = {"full", "subset"}
  ChurnPct = 40
  ChurnCeiling = 70
  MaxFaults = 1
  QuarterFilers = {"h1", "h2"}
  QuarterPresent = {"h1"}
  QuarterSpelled = {"h1"}
  QuarterAgree = 1
  QuarterLimit = 1
  QuarterTime = 5
  QuarterRuns = 3
  QuarterFaults = 0
  StakeSizes = {3, 8, 9}
  StakeLine = 5
  StakeWrites = 4
  StakeRuns = 2
  StakeDays = 2
  FlagPairs <- Chain
  FlagHops = 6
  FlagWrites = 4
  FlagPasses = 2
  FlagFaults = 1
SPECIFICATION SuiteSpec
INVARIANTS GraphMirrorsSnapshot TodayShown HiddenIsSaidElsewhere
PROPERTIES MirrorSpec ConfirmedStands
CHECK_DEADLOCK FALSE
