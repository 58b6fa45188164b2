SPECIFICATION Spec
CONSTANTS
  a = a
  b = b
  c = c
  NoTx = NoTx
  TxOrder <- mcThree
  Outs <- mcOutsChange
  Spends <- mcSpendsChange
  Sent <- mcSentB
  MaxReorg = 4
  MaxDepth = 3
  AnchorOffset = 0
  ExpiryDelta = 1
  MaxHeight = 4
  MaxReorgs = 1
  Monitor = FALSE
  LateMempool = FALSE
  Restarts = FALSE
CHECK_DEADLOCK FALSE
INVARIANTS
  NothingLost
  SpendsSeen
  ChangeMarked
  SpendsReal
  FundsAccounted
PROPERTIES
  SpentStaysSpent
