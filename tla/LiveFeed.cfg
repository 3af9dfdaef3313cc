SPECIFICATION FairSpec
CONSTANTS
  d1 = d1
  d2 = d2
  m1 = m1
  m2 = m2
  m3 = m3
  c1 = c1
  c2 = c2
  orgA = orgA
  orgB = orgB
  None = None
  Devices = {d1}
  Msgs = {m1, m2}
  Clients = {c1}
  Orgs = {orgA, orgB}
  OrgOf <- DevicesOfA
  DevOf <- AllOfD1
INVARIANTS
  TypeOK
  TenantsSeparate
  NoGap
  TilesAgree
  GhostOnlyByRace
PROPERTIES
  ConnectionsSettle
CHECK_DEADLOCK FALSE
