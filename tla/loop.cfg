CONSTANTS
  po = po
  to = to
  helper = helper
  p1 = p1
  p2 = p2
  h1 = h1
  h2 = h2
  None = None
  Loop = Loop
  ThreadOwner = to
  ProjectOwner = po
  Participant <- MCParticipant
  Agent <- MCAgent
  Proposal <- OneProposal
  Author <- MCAuthor
  Handler = {h1}
  Configs <- Watched
  SilenceWindow = 1
  NoObjectionWindow = 1
  Windows = {1, 2}
  MaxTime = 1
  MaxAgreements = 2
SPECIFICATION FairSpec
CHECK_DEADLOCK FALSE
INVARIANTS  AwaitingHasDeadline OneAgreement
PROPERTIES DueThreadMovesOn AdoptionFollowsItsRule

