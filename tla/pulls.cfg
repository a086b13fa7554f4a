CONSTANTS
  p1 = p1
  r1 = r1
  r2 = r2
  t1 = t1
  t2 = t2
  h1 = h1
  h2 = h2
  None = None
  Pr = {p1}
  Repo = {r1, r2}
  Thread = {t1, t2}
  Handler = {h1, h2}
  MaxChanges = 2
  MaxSettings = 2
  MaxFaults = 1
SPECIFICATION FairSpec
CHECK_DEADLOCK FALSE
PROPERTIES ShownInTheEnd
