CONSTANTS
  c1 = c1
  p1 = p1
  p2 = p2
  Page = {p1, p2}
  MaxItems = 2
  Called = {"work", "end_session"}
  Call = {c1}
  MaxRuns = 2
  IdleRunLimit = 1
  WindDownRunLimit = 2
  MaxSessions = 2
  MaxFaults = 1
SPECIFICATION MCSpec
CHECK_DEADLOCK FALSE
INVARIANTS FormsFit SentAsAnswered
PROPERTIES NotCutOff WorkStopsAtReserve LoopEnds PagesAreAnswered
