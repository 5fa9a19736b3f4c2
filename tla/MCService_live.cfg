\* What becomes of notices under the engine's fairness.
SPECIFICATION FairServiceSpec
CONSTANTS
  e1 = e1
  e2 = e2
  e3 = e3
  Entity <- MCEntity3
  NoEntity = NoEntity
  Realm <- MCOneRealm
  Types <- MCGlobalOnly
  HalfBuffer = 0
  FlushTime = 2
  FullLimit = 3
  MaxRequests = 0
PROPERTIES DeadServersForgotten ServersBecomeKnown
