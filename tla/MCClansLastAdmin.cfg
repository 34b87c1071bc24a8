\* The last-admin guard under two overlapping requests, on the free plan.
CONSTANTS
  None = None
  Gone = Gone
  o1 = o1
  u2 = u2
  u3 = u3
  u4 = u4
  p1 = p1
  t1 = t1
  m1 = m1
  m2 = m2
  m3 = m3
  m4 = m4
  m5 = m5
  i1 = i1
  i2 = i2
  r1 = r1
  r2 = r2
  job1 = job1
  monthly = monthly
  yearly = yearly
  flat = flat
  overage = overage
  Owner = {o1}
  Proc = {r1, r2, job1}
  Job = job1
  Request = {r1, r2}
  PerSeatPrice = {monthly, yearly}
  OtherPrice = {flat, overage}
  Clan <- MCClan
  Member <- MCMember
  Personal <- MCPersonal
  User <- RolesUser
  FreeOwner = {o1}
  Inv = {i1, i2}
  SeedClans <- RolesSeedClans
  SeedMembers <- RolesSeedMembers
  SeedInvites <- RolesSeedInvites
  SeedPlans <- RolesPlans
  Caller = {o1, u2}
  InviteRole = {"admin", "reader"}
  Cap = 3
  MaxRequests = 2
  MaxPlanChanges = 0
  Ops = {"patch", "remove"}
SPECIFICATION Spec
CHECK_DEADLOCK FALSE
PROPERTIES
  LastAdminKept
