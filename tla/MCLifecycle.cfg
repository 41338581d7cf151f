CONSTANTS
  Processes = {p1, p2}
  Leads = {l1, l2}
  Prefixes = {0, 3}
SPECIFICATION FairSpec
INVARIANT TypeOK
INVARIANT MigratedOnce
INVARIANT DbFailuresAreExplained
PROPERTY ExitsAreClean
PROPERTY NothingHangs
CHECK_DEADLOCK FALSE
