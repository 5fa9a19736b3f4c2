\* Lookups between registrations and drops: who is asked, for whom, and what fails.
SPECIFICATION LookupSpec
CONSTANTS
  e1 = e1
  e2 = e2
  e3 = e3
  Entity <- MCEntity2
  NoEntity = NoEntity
  Realm <- MCOneRealm
  Types <- MCGlobalAndRealm
  HalfBuffer = 0
  FlushTime = 1
  FullLimit = 3
  MaxRequests = 3
INVARIANTS RegistryAccessSafe LookupFaultsExplained AnswersFindTheAsker
SYMMETRY Symmetry
