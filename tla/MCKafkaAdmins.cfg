CONSTANTS
  Call = {k1, k2, k3}
  Hook = {"cleanup"}
  Admin = {a1, a2}
  NoAdmin = NoAdmin
SPECIFICATION KafkaFairSpec
INVARIANTS
  OneAdmin
  DisposalTellsRest
PROPERTIES
  EveryCheckEnds
