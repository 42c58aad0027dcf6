\* Two agents, one of which has taken over the zone of the other before, the
\* loop and one browser.
CONSTANTS
  a1 = a1
  a2 = a2
  za = za
  zb = zb
  b1 = b1
  Agents = {a1, a2}
  Zones = {za, zb}
  Rank <- ByName
  ZoneOf <- AgentZones
  Past <- TakenBefore
  Browsers <- OneBrowser
  Callers <- LoopAndOne
  MaxEvents = 2
SPECIFICATION FairSpec
INVARIANT FailoversHappened
INVARIANT CountersBacked
INVARIANT GoneForgotten
PROPERTY DashboardSettles
