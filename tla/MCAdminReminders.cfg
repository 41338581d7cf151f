CONSTANTS
  Clients = {c1}
  SlaRuns = {s1}
  FollowUpRuns = {f1}
  AdminTargets = {"closed"}
  Limit = 1
  MaxLeads = 2
  MaxSnoozes = 1
  MaxMishaps = 1
SPECIFICATION FairSpec
INVARIANT TypeOK
INVARIANT MarkedWasTold
INVARIANT RepeatsAreMishaps
PROPERTY LeadsAreBroughtUp
