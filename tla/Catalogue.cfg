SPECIFICATION Spec
CONSTANTS
  None = None
  o1 = o1
  o2 = o2
  l1 = l1
  l2 = l2
  s1 = s1
  s2 = s2
  d1 = d1
  d2 = d2
  i1 = i1
  n1 = n1
  n2 = n2
  Orgs = {o1, o2}
  Locs = {l1, l2}
  Subs = {s1, s2}
  Devs = {d1, d2}
  Idents = {i1}
  Names = {n1, n2}
  Slots = {1, 2}
  Bodies <- MCBodies
  SeedLocs <- MCSeedLocs
  SeedSubs <- MCSeedSubs
  SeedDevices <- MCSeedDevices
  MaxRequests = 3
  MaxFaults = 1
INVARIANTS
  SameOrganization
  PatchAnswers
  OverviewSums
CHECK_DEADLOCK FALSE
