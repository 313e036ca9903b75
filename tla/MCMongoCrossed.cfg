CONSTANTS
  Call = {k1}
  Hook = {"cleanup"}
  Client = {c1}
  None = None
SPECIFICATION MongoSpec
INVARIANTS
  DisposesItsClients
ACTION_CONSTRAINTS
  JobsFirst
  ClosesBeforeDisposal
