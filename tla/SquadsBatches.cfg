\* The README on batches and proposals.
SPECIFICATION Spec
CONSTANTS
  Bump = 255
  KeyBytes = {0, 1, 2, 3}
  EXTENSIONS <- MCExtensions
  BatchSize = 2
  MaxClaims = 2
  MaxProposals = 1
INVARIANTS
  EveryBatchIsProposed
CHECK_DEADLOCK FALSE
