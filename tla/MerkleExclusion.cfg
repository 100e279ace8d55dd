\* The SDK's exclusion proofs before the program's verifier.
SPECIFICATION Spec
CONSTANTS
  Keys <- MCKeys
  Lists <- MCLists
  Text <- MCText
  MaxHashes = 0
INVARIANTS
  ExclusionAccepted
CHECK_DEADLOCK FALSE
