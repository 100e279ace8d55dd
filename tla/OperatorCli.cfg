\* The operator's commands while lists, roots and indices change.
SPECIFICATION FairCliSpec
CONSTANTS
  e1 = e1
  p1 = p1
  x = x
  none = none
  ataP1 = ataP1
  ataX = ataX
  ataE1 = ataE1
  payer = payer
  vault = vault
  owner = owner
  token_authority = token_authority
  earn_global = earn_global
  NoKey = NoKey
  Accounts = {ataE1, ataP1, ataX}
  Users = {payer, vault, e1}
  Portals = {p1}
  ExtSwap = x
  DefaultKey = none
  Ata <- MCAta
  EarnerAta <- MCEarnerAta
  MaxSupply = 0
  Indices = {1, 2}
  Roots = {}
  IndexScale = 1
  Testing = FALSE
  Migrate = FALSE
  OldGlobals = {}
  Inexact = {}
  OldSupply = 0
  EarnerLists <- MCEarnerLists
  MaxIndex = 2
  MaxMessages = 2
  MaxPrinted = 2
INVARIANTS
  MintIsHandedOver
PROPERTIES
  ListedEarnerIsAdded
