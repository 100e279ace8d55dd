\* Index updates from the portal or the admin, in any order and any number of times,
\* after a migration at every index and supply the new mint may start from.
SPECIFICATION Spec
CONSTANTS
  u1 = u1
  u2 = u2
  p1 = p1
  p2 = p2
  x = x
  none = none
  a1 = a1
  a2 = a2
  ataP1 = ataP1
  ataP2 = ataP2
  ataX = ataX
  ExtSwap = x
  DefaultKey = none
  OldGlobals <- MCOldGlobals
  Inexact = {5}
  IndexScale = 2
  Accounts = {a1, ataP1, ataX}
  Users = {u1}
  Portals = {p1}
  Ata <- MCAtaOne
  MaxSupply = 3
  Indices = {2, 3, 5}
  Roots <- MCIndexRoots
  Testing = TRUE
  Migrate = TRUE
  OldSupply = 4
INVARIANTS
  MultiplierIsNewestSeen
  RootIsNewestUnlessOvertaken
  EventsAreMultiplierHistory
PROPERTIES
  MultiplierNeverDecreases
  MigrationIsBacked
  ImplementsIndexFeed
