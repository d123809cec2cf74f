CONSTANTS
  r1 = r1
  p1 = p1
  Req = {r1}
  Proc = {p1}
  ProcOf <- MCProcOf
  Depth = {1, 2}
  Cooldown = 1
  TTL = 1
  Answers <- MCAnswers
  SecAnswers = {"partial", "nothing", "raised"}
  WikidataAnswers = {"here", "elsewhere", "nothing"}
  MayBePerson = FALSE
  MaxFaults = 0
SPECIFICATION Spec
INVARIANTS LostSourceRetried
CHECK_DEADLOCK FALSE
