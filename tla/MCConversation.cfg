SPECIFICATION FairSpec
CONSTANTS
  c1 = c1
  c2 = c2
  h1 = h1
  h2 = h2
  NoClient = NoClient
  None = None
  Clients <- TwoClients
  Handlers <- TwoHandlers
  MaxTexts = 2
INVARIANTS
  TypeOK
  AnswersKeepTheirClient
  SaidOnceOnRecord
  RepliesGoWhereMeant
  ClosingsAreToldOnce
PROPERTIES
  OnlyTheAdminAnswers
  ClosingIsTold
CHECK_DEADLOCK FALSE
