\* Any lag of the database, any race of the index feed or of a transfer with a run.
SPECIFICATION Spec
CONSTANTS
  e1 = e1
  e2 = e2
  other = other
  Earners = {e1, e2}
  Other = other
  IndexSteps <- MCIndexSteps
  Principal = 2
  BatchSize = 2
  Gaps = {1}
  Unit = 4
  MaxRuns = 2
  MaxTransfers = 1
SYMMETRY MCEarnerSymmetry
INVARIANT
  Collateralised
PROPERTIES
  ClaimsPayAccrued
CHECK_DEADLOCK FALSE
