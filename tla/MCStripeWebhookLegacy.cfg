\* A subscriber on a price no longer sold.
CONSTANTS
  None = None
  u1 = u1
  d1 = d1
  d2 = d2
  g1 = g1
  sold = sold
  yearly = yearly
  legacy = legacy
  User = {u1}
  Delivery = {d1, d2}
  Get = {g1}
  SoldPrice = {sold}
  LegacyPrice = {legacy}
  MaxCustomers = 1
  MaxEvents = 2
  MaxFailures = 0
  MaxGets = 0
  OldSubscriber = u1
SPECIFICATION Spec
INVARIANTS
  LegacyKeepsTier
CHECK_DEADLOCK FALSE
