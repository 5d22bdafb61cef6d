SPECIFICATION Spec
CONSTANTS
  ann = ann
  bob = bob
  r1 = r1
  r2 = r2
  None = None
  Email = {ann}
  Slot = {r1, r2}
  AccessTTL = 2
  RefreshTTL = 3
  MaxTime = 3
  MaxRequests = 4
  MaxFailures = 1
INVARIANTS
  HeldTokensHaveRows
  AnsweredOnce
  JarIsOneSession
PROPERTY OverSessionsIssueNothing
\* the requests may be used up
CHECK_DEADLOCK FALSE
