CONSTANTS
  r1 = r1
  p1 = p1
  r2 = r2
  Req = {r1, r2}
  Proc = {p1}
  ProcOf <- MCProcOf
  Depth = {1, 2}
  Cooldown = 1
  TTL = 1
  Answers <- MCAnswers
  SecAnswers = {"partial", "raised"}
  WikidataAnswers = {"here", "elsewhere", "nothing"}
  MayBePerson = FALSE
  MaxFaults = 0
SPECIFICATION SuiteSpec
INVARIANTS DepthReached LostSourceMarked  
   TreeStands
PROPERTIES VisitsAskAgain SourcesRest
CHECK_DEADLOCK FALSE
