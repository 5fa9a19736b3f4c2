\* Lookups by realm next to lookups in a global list that is handed out in turn.
SPECIFICATION HSpec
CONSTANTS
  s1 = s1
  s2 = s2
  s3 = s3
  Entity <- MCEntity3
  Realm <- MCRealms
  Types <- MCMixed
  Watched = "CHAT"
  NoServer = NoServer
INVARIANTS LBTypeOK LookupSafe
PROPERTY FairRotation
SYMMETRY Symmetry3
