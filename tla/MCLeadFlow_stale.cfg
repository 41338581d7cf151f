CONSTANTS
  Clients = {c1}
  WebClient = web
  Products = {p1}
  Handlers = {h1}
  MaxQuantity = 1
  MaxLeads = 1
  AdminTargets = {"closed"}
  NoProduct = NoProduct
  NoSession = NoSession
  Home = Home
SPECIFICATION Spec
SYMMETRY Symmetry
INVARIANT DraftIsWanted
