SPECIFICATION ConversationSpec
CONSTANTS
  chat1 = chat1
  chat2 = chat2
  sock1 = sock1
  sock2 = sock2
  null = null
  Convs <- MCConvs
  Sockets <- MCSockets
  Nothing = null
  MaxVisits = 3
  MaxMessages = 1
SYMMETRY MCSymmetry
INVARIANTS
  PageTypeOK
  SaidInThisThread
  NoSocketLeftBehind
  SpinnersAwaited
CHECK_DEADLOCK FALSE
