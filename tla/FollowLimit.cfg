SPECIFICATION Spec
CONSTANTS
  a = a
  b = b
  c = c
  d = d
  small = small
  large = large
  free = free
  r1 = r1
  r2 = r2
  r3 = r3
  NoPlan = NoPlan
  Unlimited = Unlimited
  Domain = {a, b, c, d}
  KnownDomain = {a}
  Slot = {r1, r2}
  Plan = {small, large}
  Limit <- MCLimit
  MaxRequests = 4
  MaxChanges = 1
INVARIANTS
  OvershootBounded
PROPERTY LapsedPlanAdmitsNothing
\* the requests may be used up
CHECK_DEADLOCK FALSE
