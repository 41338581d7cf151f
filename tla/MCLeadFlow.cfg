CONSTANTS
  Clients = {c1}
  WebClient = web
  Products = {p1, p2}
  Handlers = {h1}
  MaxQuantity = 1
  MaxLeads = 2
  AdminTargets = {"new", "closed"}
  NoProduct = NoProduct
  NoSession = NoSession
  Home = Home
SPECIFICATION Spec
SYMMETRY Symmetry
INVARIANT TypeOK
INVARIANT OneOpenLead
INVARIANT LeadsAreActionable
INVARIANT DraftsAreTheirClients
PROPERTY WantedDraftSurvives
PROPERTY ImplementsSlots
