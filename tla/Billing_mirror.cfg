SPECIFICATION Safety
CONSTANTS
  a = a
  b = b
  ann = ann
  bob = bob
  basic = basic
  extra = extra
  foreign = foreign
  h1 = h1
  h2 = h2
  NoCustomer = NoCustomer
  NoRow = NoRow
  Request = {a}
  User = {ann}
  Handler = {h1, h2}
  Plan = {basic}
  OtherPrice = {foreign}
  Status = {"active", "canceled"}
  MaxEvents = 3
  MaxAborts = 0
INVARIANT StripeIsMirrored
\* nobody has to check out, and the events may be used up
CHECK_DEADLOCK FALSE
