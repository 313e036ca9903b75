CONSTANTS
  Call = {k1, k2, k3}
  Hook = {"cleanup"}
  Client = {c1, c2, c3}
  NoClient = NoClient
  MysqlPool = 2
SPECIFICATION OwnedFairSpec
INVARIANTS
  OneOwnedClient
  SuppliedIsShared
  ClosedLast
PROPERTIES
  NoInheritedFailure
  AbortedCheckFails
  EveryCallEnds
