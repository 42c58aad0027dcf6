\* An agent and its replacement in the zone; a cordon, late renewals and a failed call.
CONSTANTS
  o1 = o1
  o2 = o2
  f1 = f1
  t1 = t1
  t2 = t2
  None = None
  Agents = {o1, o2}
  Own = {o1, o2}
  Tables = {t1}
  MaxCrashes = 0
  MaxStops = 0
  MaxCordons = 1
  MaxStalls = 1
  MaxFaults = 1
SPECIFICATION FairSpec
INVARIANT StandDownFlagged
PROPERTY ServingKeepsLease
PROPERTY UsesLock
PROPERTY OwnZoneServed
PROPERTY OnlyLateClaims
PROPERTY StoodDownStaysOut
