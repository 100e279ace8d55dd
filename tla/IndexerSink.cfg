\* A sink stopped between rows and blocks, restarted under either hash, and repaired.
SPECIFICATION Spec
CONSTANTS
  h1 = h1
  h2 = h2
  Hashes = {h1, h2}
  MaxSlot = 4
  MaxTxns = 2
  MaxStops = 2
INVARIANTS
  GapsAreAtRepairs
PROPERTIES
  SinkCatchesUp
