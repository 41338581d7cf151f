CONSTANTS
  Clients = {c1}
  SlaRuns = {s1}
  FollowUpRuns = {f1}
  AdminTargets = {"closed"}
  Limit = 1
  MaxLeads = 1
  MaxSnoozes = 2
  MaxMishaps = 0
SPECIFICATION FairSpec
PROPERTY EverySnoozeIsFollowedUp
