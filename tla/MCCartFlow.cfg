CONSTANTS
  Clients = {c1}
  Products = {p1, p2}
  Handlers = {h1}
  MaxQuantity = 2
  MaxEntered = 2
  MaxLeads = 2
  NoSession = NoSession
  Home = Home
  LeadDraft = LeadDraft
  None = None
SPECIFICATION Spec
INVARIANT TypeOK
INVARIANT CartLeadsAreWhole
INVARIANT LinesWereEntered
INVARIANT CartHoldsEntries
PROPERTY FlowsStayApart
SYMMETRY Symmetry
