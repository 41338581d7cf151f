CONSTANTS
  Visitors = {v1, v2}
  Products = {p1}
  NoProduct = NoProduct
  MaxQuantity = 2
  Entries = {2, 3}
  MaxPosts = 2
  Window = 2
  MaxLeads = 1
  MaxRestarts = 1
SPECIFICATION Spec
SYMMETRY Symmetry
INVARIANT TypeOK
INVARIANT TokenIsOwn
INVARIANT WindowHolds
