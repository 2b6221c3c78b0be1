SPECIFICATION CloseSpec
CONSTANTS
  seller = seller
  ann = ann
  bob = bob
  h1 = h1
  c1 = c1
  c2 = c2
  Handlers <- MCHandlers
  NoHandler = unlocked
  Users <- MCUsers
  Seller <- seller
  NoUser = nobody
  Amounts = {1, 3}
  Prices = {1}
  Reserves = {2}
  Inc = 2
  EndsAt = 1
  MaxTime = 2
  Closers <- MCClosers
  MaxMessages = 1
  Attempts = 1
  MaxCrashes = 1
INVARIANTS
  AtMostOneOrder
