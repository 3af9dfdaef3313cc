SPECIFICATION Spec
CONSTANTS
  u1 = u1
  u2 = u2
  mail = mail
  org = org
  Ids = {u1, u2}
  Emails = {mail}
  Orgs = {org}
  EmailOf <- MCEmailOf
  OrgOf <- MCOrgOf
  Rights <- MCRights
  Needs = {"admin", "export"}
  Slots = {1}
  Conns = {1}
  MaxTokens = 1
  MaxFaults = 1
INVARIANTS
  ActsOnHeldRights
PROPERTIES
  RevokedSessionsEnd
