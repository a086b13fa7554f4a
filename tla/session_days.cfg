CONSTANTS
  c1 = c1
  c2 = c2
  None = None
  Loop = Loop
  Call = {c1, c2}
  WorkTool = {}
  ToolCost <- NoCost
  Limit = 1
  Reserve = 0
  Tokens = {}
  MaxSessions = 3
  MaxWork = 0
  MaxCrashes = 1
SPECIFICATION Spec
CHECK_DEADLOCK FALSE
SYMMETRY Callers
PROPERTY BriefingTellsDayBefore
