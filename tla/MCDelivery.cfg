SPECIFICATION FairDelivery
CONSTANTS
  c1 = c1
  c2 = c2
  b1 = b1
  Clients <- TwoClients
  Broadcasts <- OneBroadcast
  Attempts = 2
  MaxStalls = 1
INVARIANTS
  DeliveryTypeOK
  RepeatsAreMishaps
  ReportIsTrue
PROPERTIES
  BroadcastsEnd
CHECK_DEADLOCK FALSE
