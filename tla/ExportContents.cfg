SPECIFICATION Spec
CONSTANTS
  o1 = o1
  o2 = o2
  d1 = d1
  dot = dot
  f1 = f1
  f2 = f2
  f3 = f3
  f4 = f4
  Orgs = {o1, o2}
  Devices = {d1, dot}
  Owner <- OwnerNow
  PathForm <- Forms
  Files = {f1, f2, f3, f4}
  Batch <- Archive
  Hour = 4
  Micro = 2
  Times = {1, 3, 4, 7}
  DeviceChoices <- AnyOrD1
  MaxRange = 5
  MaxFaults = 1
  MaxCrashes = 1
INVARIANTS
  TypeOK
  ExportSound
  ExportComplete
  FailsOnlyForTemp
