SPECIFICATION FairSpec
CONSTANTS
  r1 = r1
  r2 = r2
  r3 = r3
  k1 = k1
  k2 = k2
  Records = {r1, r2, r3}
  Parts = {k1, k2}
  PartOf <- TwoPartitions
  Loop = Loop
  Main = Main
  FlushRows = 2
  MaxRows = 2
  MaxFailures = 1
PROPERTIES
  ImplementsLog
  ShutdownCompletes
