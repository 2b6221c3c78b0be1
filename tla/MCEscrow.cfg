SPECIFICATION EscrowSpec
CONSTANTS
  ann = ann
  h1 = h1
  h2 = h2
  Buyers <- MCBuyers
  Handlers <- MCHandlers
  MaxOrders = 1
  MaxTxns = 1
  MaxShips = 2
  MaxFaults = 1
INVARIANTS
  EscrowTypeOK
  FundsBacked
  SuccessIsPaid
  OneReleasePerShipment
PROPERTIES
  PaidIsEscrowed
  ShippedIsDelivered
CHECK_DEADLOCK FALSE
