CONSTANTS
  h1 = h1
  Loop = Loop
  Handler = {h1}
  Wedged = FALSE
  MaxSessions = 2
  MaxKept = 1
  MaxFaults = 1
SPECIFICATION FairSpec
CHECK_DEADLOCK FALSE
PROPERTY KeptUntilTaken
PROPERTY WokenIsStarted
PROPERTY OfflineIsShown
PROPERTY DecisionsAreEvaluated
