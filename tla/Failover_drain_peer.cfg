\* The agent's node drains: does a peer take over?
CONSTANTS
  o1 = o1
  o2 = o2
  f1 = f1
  t1 = t1
  t2 = t2
  None = None
  Agents = {o1, f1}
  Own = {o1}
  Tables = {t1}
  MaxCrashes = 0
  MaxStops = 0
  MaxCordons = 1
  MaxStalls = 0
  MaxFaults = 0
SPECIFICATION FairSpec
PROPERTY DrainHandover
