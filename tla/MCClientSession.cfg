SPECIFICATION SessionSpec
CONSTANTS
  ann = ann
  bob = bob
  nobody = nobody
  conv1 = conv1
  conv2 = conv2
  item = item
  Users <- MCUsers
  Nobody = nobody
  Convs = {conv1, conv2}
  Listings = {item}
  MaxLinks = 2
  MaxUnread = 2
  MaxCalls = 2
  MaxToasts = 1
INVARIANTS
  SessionTypeOK
  UnreadAddsUp
  RightAccount
PROPERTIES
  NoSpuriousSignOut
  StaysConnected
CHECK_DEADLOCK FALSE
