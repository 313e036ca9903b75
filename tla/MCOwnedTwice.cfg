CONSTANTS
  Call = {k1, k2}
  Hook = {"cleanup"}
  Client = {c1, c2}
  NoClient = NoClient
  MysqlPool = 2
SPECIFICATION OwnedSpec
INVARIANTS
  ConstructsOnce
