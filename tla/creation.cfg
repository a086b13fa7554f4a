CONSTANTS
  owner = owner
  member = member
  i1 = i1
  h1 = h1
  h2 = h2
  None = None
  Participant = {owner, member}
  Owner = owner
  Issue = {i1}
  Handler = {h1, h2}
  Apart = TRUE
  MaxThreads = 2
  MaxDeliveries = 3
  MaxFaults = 1
SPECIFICATION Spec
CHECK_DEADLOCK FALSE
SYMMETRY Handlers
INVARIANTS SetupBeforeWork AmendedByAnother OneThreadPerIssue RedirectIsTruthful
