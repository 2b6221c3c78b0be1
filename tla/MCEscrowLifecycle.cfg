SPECIFICATION EscrowSpec
CONSTANTS
  ann = ann
  h1 = h1
  h2 = h2
  Buyers <- MCBuyers
  Handlers <- MCHandlers
  MaxOrders = 1
  MaxTxns = 2
  MaxShips = 2
  MaxFaults = 1
PROPERTIES
  ForwardOnly
CHECK_DEADLOCK FALSE
