\* Token accounts under proofs, removals, recoveries, upgrades and direct token calls.
SPECIFICATION Spec
CONSTANTS
  u1 = u1
  u2 = u2
  p1 = p1
  p2 = p2
  x = x
  none = none
  a1 = a1
  a2 = a2
  ataP1 = ataP1
  ataP2 = ataP2
  ataX = ataX
  ExtSwap = x
  DefaultKey = none
  OldGlobals = {}
  Inexact = {}
  IndexScale = 2
  Accounts = {a1, a2, ataP1, ataP2, ataX}
  Users = {u1}
  Portals = {p1, p2}
  Ata <- MCAta
  MaxSupply = 2
  Indices = {1}
  Roots <- MCRoots
  Testing = FALSE
  Migrate = FALSE
  OldSupply = 0
SYMMETRY MCAccountSymmetry
INVARIANTS
  TypeOK
  CustodyAccountsUsable
  ProvenOwnerIsFixed
PROPERTIES
  OnlyNonEarnersAreFrozen
  RecoveryKeepsSourceFrozen
