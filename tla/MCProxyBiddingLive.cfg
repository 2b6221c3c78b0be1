SPECIFICATION FairSpec
CONSTANTS
  seller = seller
  ann = ann
  bob = bob
  h1 = h1
  h2 = h2
  Handlers <- MCHandlers
  NoHandler = unlocked
  Users <- MCUsers
  Seller <- seller
  NoUser = nobody
  Amounts = {1, 3}
  Prices = {1}
  Reserves = {0}
  Inc = 2
  EndsAt = 1
  MaxTime = 2
PROPERTIES
  EveryBidAnswered
