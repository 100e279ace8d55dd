\* Two extensions of any variant, every environment, up to two transactions for each.
SPECIFICATION Spec
CONSTANTS
  Bump = 255
  KeyBytes = {0, 1, 2, 3}
  EXTENSIONS <- MCExtensions
  BatchSize = 2
  MaxClaims = 2
  MaxProposals = 1
INVARIANTS
  EveryExtensionIsReported
  LinkedTransactionEnded
  PayerSigns
  GlobalIsDecoded
PROPERTIES
  RunEnds
CHECK_DEADLOCK FALSE
