\* "Wrap index around if needed" stops being true once a server was removed.
SPECIFICATION HSpec
CONSTANTS
  s1 = s1
  s2 = s2
  s3 = s3
  Entity <- MCEntity3
  Realm <- MCOneRealm
  Types <- MCGlobal
  Watched = "LOADBALANCE"
  NoServer = NoServer
INVARIANT CursorInRange
