\* One table, two NAT gateways, two disturbances of any kind.
CONSTANTS
  t1 = t1
  n1 = n1
  n2 = n2
  Me = Me
  Other = Other
  None = None
  Tables = {t1}
  Nats = {n1, n2}
  NearNats = {n1, n2}
  MaxEvents = 2
SPECIFICATION FairSpec
INVARIANT TypeOK
INVARIANT OwnedPointed
INVARIANT OwnedRestorable
PROPERTY TargetKept
PROPERTY ServedStays
PROPERTY BooksFollowLease
PROPERTY FallbackFound
