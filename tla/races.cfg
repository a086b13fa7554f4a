CONSTANTS
  po = po
  to = to
  helper = helper
  p1 = p1
  p2 = p2
  h1 = h1
  h2 = h2
  None = None
  Loop = Loop
  ThreadOwner = to
  ProjectOwner = po
  Participant <- Owners
  Agent <- MCAgent
  Proposal <- MCProposal
  Author <- MCAuthor
  Handler = {h1, h2}
  Configs <- Declared
  SilenceWindow = 1
  NoObjectionWindow = 1
  Windows = {1}
  MaxTime = 0
  MaxAgreements = 1
SPECIFICATION Spec
CHECK_DEADLOCK FALSE
INVARIANTS  DecisionIsRecorded AdoptedByRightfulDeclaration
PROPERTIES AdoptionFollowsItsRule FollowsLifecycle
SYMMETRY Handlers
