\* The lease loop and the reconcile loop of o1, and a rival o2 in its zone.
CONSTANTS
  o1 = o1
  o2 = o2
  f = f
  home = home
  far = far
  l1 = l1
  l2 = l2
  l3 = l3
  None = None
  Agents <- AllAgents
  Callers <- TwoLoops
  AgentOf <- TwoLoopsOf
  AZs <- Zones
  HomeAZ <- ZoneOf
  AZ = home
  Dur = 1
  Attempts = 3
SPECIFICATION Spec
INVARIANT TypeOK
INVARIANT SnapshotSound
PROPERTY OnlyHolderReleases
SYMMETRY LoopSymmetry
