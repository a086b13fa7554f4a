CONSTANTS
  Thread = {t1}
  Version = {v1}
  Credential = {c1}
  None = None
  Sections <- UsedSections
  MaxCalls = 2
  MaxMoves = 1
  MaxLosses = 1
SPECIFICATION FairSpec
INVARIANT OwnActIsShown
PROPERTY DashboardIsTrue JudgmentsAreMade
CHECK_DEADLOCK FALSE
