\* A table that outgrows the packet a new load balancer needs, and what becomes
\* of closed clients under the engine's fairness.
SPECIFICATION FairServiceSpec
CONSTANTS
  e1 = e1
  e2 = e2
  e3 = e3
  Entity <- MCEntity3
  NoEntity = NoEntity
  Realm <- MCOneRealm
  Types <- MCGlobalOnly
  HalfBuffer = 0
  FlushTime = 1
  FullLimit = 1
  MaxRequests = 0
INVARIANT ServiceInv
PROPERTY ClosedAreDestroyed
