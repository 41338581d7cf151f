CONSTANTS
  Clients = {c1}
  Blocked = {}
  Runs = {r1}
  Overlap = TRUE
  MaxEpisodes = 2
  MaxMishaps = 0
SPECIFICATION FairSpec
PROPERTY DraftIsBroughtUp
CHECK_DEADLOCK FALSE
