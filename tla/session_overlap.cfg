CONSTANTS
  c1 = c1
  c2 = c2
  None = None
  Loop = Loop
  Call = {c1, c2}
  WorkTool <- MCWorkTool
  ToolCost <- MCToolCost
  Limit = 4
  Reserve = 2
  Tokens = {1}
  MaxSessions = 1
  MaxWork = 3
  MaxCrashes = 1
SPECIFICATION FairSpec
CHECK_DEADLOCK FALSE
INVARIANT ReserveIsKept
INVARIANT WorkIsAccounted
INVARIANT HandoverMeansCompleted
PROPERTY AbandonedSessionEnds
