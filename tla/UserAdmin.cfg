SPECIFICATION Spec
CONSTANTS
  Users = {u1, u2, u3, u4}
  Seeded = {u1, u2}
  Requesters = {u3, u4}
  Slots = {s1, s2}
  UserLimit = 2
SYMMETRY Alike
INVARIANTS
  TypeOK
  OvershootBounded
PROPERTY LastAdminGoesByRace
CHECK_DEADLOCK FALSE
