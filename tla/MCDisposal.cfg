CONSTANTS
  Call = {k1, k2, k3}
  Hook = {"original", "cleanup"}
SPECIFICATION DisposalFairSpec
INVARIANTS
  CleanupComplete
PROPERTIES
  DisposeEnds
  DisposalImplementsLifecycle
