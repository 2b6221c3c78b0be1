SPECIFICATION Spec
CONSTANTS
  seller = seller
  ann = ann
  bob = bob
  h1 = h1
  h2 = h2
  Handlers <- MCHandlers
  NoHandler = unlocked
  Users <- MCUsers
  Seller <- seller
  NoUser = nobody
  Amounts = {4, 5, 8}
  Prices = {1, 5}
  Reserves = {0}
  Inc = 3
  EndsAt = 1
  MaxTime = 2
SYMMETRY MCSymmetry
INVARIANTS
  TypeOK
  NoStaleDecision
  HolderPricedOutRivals
  SecondPrice
  NeverAboveOwnMax
PROPERTIES
  IncrementRespected
  ClosedLedgerFrozen
  ImplementsProxyAuction
