\* A crash between storing an event and applying it.
CONSTANTS
  None = None
  u1 = u1
  d1 = d1
  d2 = d2
  g1 = g1
  sold = sold
  yearly = yearly
  legacy = legacy
  User = {u1}
  Delivery = {d1, d2}
  Get = {g1}
  SoldPrice = {sold}
  LegacyPrice = {legacy}
  MaxCustomers = 1
  MaxEvents = 2
  MaxFailures = 1
  MaxGets = 0
  OldSubscriber = None
SPECIFICATION Spec
PROPERTIES
  DuplicateWasProcessed
CHECK_DEADLOCK FALSE
