SPECIFICATION FairClientSpec
CONSTANTS
  MaxSockets = 4
  MaxAttempt = 5
  MaxHides = 2
  MaxDrops = 2
INVARIANTS
  OneMorePerHide
PROPERTIES
  Reconnects
  QuietWhenAway
