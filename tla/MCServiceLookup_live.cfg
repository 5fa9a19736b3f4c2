\* The whole way of a question under fairness of engine and load balancers.
SPECIFICATION FairLookupSpec
CONSTANTS
  e1 = e1
  e2 = e2
  e3 = e3
  Entity <- MCEntity2
  NoEntity = NoEntity
  Realm <- MCOneRealm
  Types <- MCGlobalAndRealm
  HalfBuffer = 1
  FlushTime = 2
  FullLimit = 2
  MaxRequests = 1
PROPERTIES QuestionsArrive AskersAreAnswered
