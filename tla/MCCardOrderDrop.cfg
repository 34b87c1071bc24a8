\* One request is enough for a drop that misses its slot.
CONSTANTS
  None = None
  Gone = Gone
  NoKey = NoKey
  c1 = c1
  c2 = c2
  c3 = c3
  c4 = c4
  c5 = c5
  l1 = l1
  l2 = l2
  r1 = r1
  r2 = r2
  Letters = 26
  Card = {c1, c2, c3, c4, c5}
  List = {l1, l2}
  Request = {r1, r2}
  SeedCards <- MCSeedCards
  ForeignKeys <- MCForeignKeys
  BulkSize = 2
  MaxRequests = 1
  MaxFailures = 1
SPECIFICATION Spec
CHECK_DEADLOCK FALSE
PROPERTIES
  DropLands
