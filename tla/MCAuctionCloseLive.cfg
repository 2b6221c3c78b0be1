SPECIFICATION FairCloseSpec
CONSTANTS
  seller = seller
  ann = ann
  bob = bob
  h1 = h1
  c1 = c1
  c2 = c2
  Handlers <- MCHandlers
  NoHandler = unlocked
  Users <- MCOneBidder
  Seller <- seller
  NoUser = nobody
  Amounts = {3}
  Prices = {1}
  Reserves = {0}
  Inc = 2
  EndsAt = 1
  MaxTime = 1
  Closers <- MCClosers
  MaxMessages = 1
  Attempts = 1
  MaxCrashes = 1
PROPERTIES
  ExpiredIsClosed
