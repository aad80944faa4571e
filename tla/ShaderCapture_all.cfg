SPECIFICATION Spec
CONSTANTS
  Stages <- TwoStages
  Programs = {p1, p2}
  Codes = {c1, c2}
  Rejected = {c2}
  None = None
  MaxAttempts = 2
  MaxCache = 1
  MaxOutcomes = 2
  MaxBuffers = 3
  MaxRewrites = 1
  MaxProofs = 1
INVARIANTS Accounted PinnedIsDelivered CacheIsFaithful CostBounded
