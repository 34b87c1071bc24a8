\* A checkout and a change of it, delivered in any order, with one failed await.
CONSTANTS
  None = None
  u1 = u1
  d1 = d1
  d2 = d2
  g1 = g1
  sold = sold
  yearly = yearly
  legacy = legacy
  User = {u1}
  Delivery = {d1, d2}
  Get = {g1}
  SoldPrice = {sold}
  LegacyPrice = {legacy}
  MaxCustomers = 1
  MaxEvents = 3
  MaxFailures = 1
  MaxGets = 0
  OldSubscriber = None
SPECIFICATION FairSpec
PROPERTIES
  EventsAcknowledged
  RefinesInbox
CHECK_DEADLOCK FALSE
