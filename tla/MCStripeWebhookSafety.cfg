\* One user, up to two checkouts, deliveries in any order and twice at a time,
\* one failed await, one GET.
CONSTANTS
  None = None
  u1 = u1
  d1 = d1
  d2 = d2
  g1 = g1
  sold = sold
  yearly = yearly
  legacy = legacy
  User = {u1}
  Delivery = {d1, d2}
  Get = {g1}
  SoldPrice = {sold}
  LegacyPrice = {legacy}
  MaxCustomers = 2
  MaxEvents = 4
  MaxFailures = 1
  MaxGets = 1
  OldSubscriber = None
SYMMETRY SlotSymmetry
SPECIFICATION Spec
INVARIANTS
  TypeOK
  AppliedAtMostOnce
  InboxTellsTheTruth
  InOrderAgrees
PROPERTIES
  GetHeals
CHECK_DEADLOCK FALSE
