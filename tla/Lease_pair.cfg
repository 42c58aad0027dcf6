\* An agent of the zone and a stand-in, one goroutine each.
CONSTANTS
  o1 = o1
  o2 = o2
  f = f
  home = home
  far = far
  l1 = l1
  l2 = l2
  l3 = l3
  None = None
  Agents <- Pair
  Callers <- Pair
  AgentOf <- PairOf
  AZs <- Zones
  HomeAZ <- PairZones
  AZ = home
  Dur = 1
  Attempts = 3
SPECIFICATION FairSpec
PROPERTY NeverStolen
PROPERTY ImplementsLock
PROPERTY DeadHolderReplaced
