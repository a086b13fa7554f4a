CONSTANTS
  h1 = h1
  h2 = h2
  t1 = t1
  t2 = t2
  human = human
  agent = agent
  Thread = {t1, t2}
  Type <- MCType
  Participant = {human, agent}
  Human = {human}
  PathSet <- MCPathSet
  Handler = {h1, h2}
  MaxClaims = 2
  MaxEvents = 2
SPECIFICATION ClaimsSpec
CHECK_DEADLOCK FALSE
INVARIANTS OverlapIsTold
PROPERTIES ClaimsOutlive
SYMMETRY Handlers
