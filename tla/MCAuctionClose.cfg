SPECIFICATION CloseSpec
CONSTANTS
  seller = seller
  ann = ann
  bob = bob
  h1 = h1
  c1 = c1
  c2 = c2
  Handlers <- MCHandlers
  NoHandler = unlocked
  Users <- MCUsers
  Seller <- seller
  NoUser = nobody
  Amounts = {3, 5}
  Prices = {1}
  Reserves = {2}
  Inc = 2
  EndsAt = 1
  MaxTime = 1
  Closers <- MCClosers
  MaxMessages = 1
  Attempts = 2
  MaxCrashes = 1
SYMMETRY MCSymmetry
INVARIANTS
  CloseTypeOK
  OrdersAreBids
  OnTimeBidsCount
PROPERTIES
  KeepsBiddingSpec
