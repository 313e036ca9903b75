CONSTANTS
  Call = {k1, k2}
  Hook = {"cleanup"}
  Client = {c1, c2}
  None = None
SPECIFICATION MongoSpec
INVARIANTS
  NoClientLost
