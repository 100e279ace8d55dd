\* Every list of at most seven keys, one of them twice, and updates of its object in any order.
SPECIFICATION Spec
CONSTANTS
  Keys <- MCKeys
  Lists <- MCLists
  Text <- MCText
  MaxHashes = 9
INVARIANTS
  InclusionAccepted
  InclusionIsExact
  ExclusionIsExact
  ExclusionAcceptedBelowLargest
  VerifiersAgree
PROPERTIES
  UpdatesKeepLikeNew
CHECK_DEADLOCK FALSE
