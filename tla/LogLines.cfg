\* Every call tree and every log of a small transaction, cut anywhere or not at all.
SPECIFICATION Spec
CONSTANTS
  Programs = {earn, system, ed25519}
  PROGRAMS_WITHOUT_LOGGING = {ed25519}
  SYSTEM_PROGRAMS = {system}
  MaxCalls = 3
  MaxDepth = 3
  MaxInner = 2
INVARIANTS
  NeverPanics
  LogsAreOwn
  TreeIsCallTree
  EventsAreStored
CHECK_DEADLOCK FALSE
