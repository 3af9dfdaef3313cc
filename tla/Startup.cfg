SPECIFICATION Spec
CONSTANTS
  old = old
  new1 = new1
  new2 = new2
  Servers = {old, new1, new2}
  Last = 3
  Known <- MCKnown
  MaxFaults = 1
INVARIANTS
  TypeOK
  AppliedOnce
  ServesMigrated
PROPERTIES
  StartupEnds
  HearsAgain
