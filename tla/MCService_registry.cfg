\* Registrations, drops and notices, realms included.
SPECIFICATION ServiceSpec
CONSTANTS
  e1 = e1
  e2 = e2
  e3 = e3
  Entity <- MCEntity3
  NoEntity = NoEntity
  Realm <- MCRealms
  Types <- MCGlobalAndRealm
  HalfBuffer = 1
  FlushTime = 2
  FullLimit = 3
  MaxRequests = 0
INVARIANTS ServiceTypeOK RegistryAccessSafe TableMatchesRegistry ReplicaConverges
PROPERTIES NeverServedAgain KeepsDirectory
SYMMETRY Symmetry
