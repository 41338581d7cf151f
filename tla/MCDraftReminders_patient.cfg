CONSTANTS
  Clients = {c1, b1}
  Blocked = {b1}
  Runs = {r1}
  Overlap = FALSE
  MaxEpisodes = 2
  MaxMishaps = 1
SPECIFICATION FairSpec
INVARIANT TypeOK
INVARIANT TellingIsAccountedFor
PROPERTY DraftIsBroughtUp
CHECK_DEADLOCK FALSE
