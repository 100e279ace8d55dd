\* The README on stale cross-chain updates.
SPECIFICATION HubSpec
CONSTANTS
  u1 = u1
  p1 = p1
  x = x
  none = none
  a1 = a1
  ataP1 = ataP1
  ataX = ataX
  Accounts = {a1, ataP1, ataX}
  Users = {u1}
  Portals = {p1}
  ExtSwap = x
  DefaultKey = none
  Ata <- MCAta
  MaxSupply = 0
  Indices = {1, 2, 3}
  Roots = {}
  IndexScale = 1
  Testing = FALSE
  Migrate = FALSE
  OldGlobals = {}
  Inexact = {}
  OldSupply = 0
  EarnerLists <- MCEarnerLists
  MaxIndex = 3
  MaxMessages = 3
PROPERTIES
  StaleRootIsIgnored
