SPECIFICATION Spec
CONSTANTS
  Clients = {c1, c2}
  Handlers = {h1, h2}
  Presses = {k1, k2}
  None = None
  MaxOrders = 2
  c1 = c1
  c2 = c2
  h1 = h1
  h2 = h2
  k1 = k1
  k2 = k2
SYMMETRY Symmetry
INVARIANTS
  TypeOK
  AskedIsSo
PROPERTIES
  BlockedOrderNothing
