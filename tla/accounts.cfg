CONSTANTS
  None = None
  GitHub = GitHub
  System = System
  Identity = {g1, g2}
  Shell = g1
  Attempt = {1, 2}
  Handler = {1, 2}
  Deeds = {"claim", "complete", "interrupt"}
  Limit = 2
  Roles = FALSE
  FirstAlone = TRUE
  MaxProjects = 2
  Budgets <- MCBudgets
SPECIFICATION Spec
INVARIANT FeedTellsActs
PROPERTY IdentityKeepsItsAccount LoginSucceeds
CHECK_DEADLOCK FALSE
