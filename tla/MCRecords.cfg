CONSTANTS
  p1 = p1
  p2 = p2
  p3 = p3
  Proc = {p1, p2, p3}
  NoRow = NoRow
  StaleAge = 3
  MaxFaults = 2
  IdGleif <- Records
  IdFilers <- Filers
  IdRenames <- Renamed
  IdConfirms <- Confirmed
  IdStates <- FiledBy
  IdItems <- Statements
  IdUnnumbered <- NoNumber
  IdExtends <- Longer
  IdCalls = 5
  IdUnread = 1
  RepFilings = 3
  RepDays = 2
  RepPasses = 3
  RepOpened = 9
  RepUnread = 0
  RepBeside = FALSE
  RepInsiders = {"sub"}
  LogStarts = 3
  LogImports = {1}
  LogTime = 2
  LogFaults = 1
  LogRuns = 2
  LogLimit = 2
  LogStale = 1
  LogWindow = 1
  LogEvery = 1
  DeskCompany <- Houses
  DeskHolding <- Held
  DeskStakes = {10, 20}
  DeskModerator = {"m"}
  DeskReports = 1
  DeskDraws = 2
  DeskMoves = 1
  DeskCalls = 2
SPECIFICATION SuiteSpec
INVARIANTS ExclusiveUnlessRaced RowNamesImporter LogStands OneLegalEntity
   ReportsStand BoardStands GroupsStand HistoryStands  TwinsFold
PROPERTIES AbandonedLockRecovered ItemGoesToItsEntity 
CHECK_DEADLOCK FALSE
