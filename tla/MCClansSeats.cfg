\* Seat quantities at Stripe under overlapping requests and the reconcile job.
CONSTANTS
  None = None
  Gone = Gone
  o1 = o1
  u2 = u2
  u3 = u3
  u4 = u4
  p1 = p1
  t1 = t1
  m1 = m1
  m2 = m2
  m3 = m3
  m4 = m4
  m5 = m5
  i1 = i1
  i2 = i2
  r1 = r1
  r2 = r2
  job1 = job1
  monthly = monthly
  yearly = yearly
  flat = flat
  overage = overage
  Owner = {o1}
  Proc = {r1, r2, job1}
  Job = job1
  Request = {r1, r2}
  PerSeatPrice = {monthly, yearly}
  OtherPrice = {flat, overage}
  Clan <- MCClan
  Member <- MCMember
  Personal <- MCPersonal
  User <- SeatsUser
  FreeOwner = {}
  Inv = {i1}
  SeedClans <- SeatsSeedClans
  SeedMembers <- SeatsSeedMembers
  SeedInvites <- SeatsSeedInvites
  SeedPlans <- SeatsPlans
  Caller = {o1}
  InviteRole = {"admin"}
  Cap = 2
  MaxRequests = 2
  MaxPlanChanges = 1
  Ops = {"create", "delete", "accept", "remove"}
SPECIFICATION FairSpec
INVARIANTS
  QuiescentBilled
PROPERTIES
  FlatPriceUntouched
  SeatsConverge
