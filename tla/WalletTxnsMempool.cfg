SPECIFICATION FairSpec
CONSTANTS
  a = a
  b = b
  c = c
  NoTx = NoTx
  TxOrder <- mcTwo
  Outs <- mcOutsS
  Spends <- mcSpendsS
  Sent <- mcSentB
  MaxReorg = 2
  MaxDepth = 0
  AnchorOffset = 0
  ExpiryDelta = 1
  MaxHeight = 5
  MaxReorgs = 0
  Monitor = TRUE
  LateMempool = FALSE
  Restarts = FALSE
CHECK_DEADLOCK FALSE
INVARIANTS
  NothingLost
  SpendersKept
  WitnessCurrent
  SpendsSeen
  PendingSpendsMarked
PROPERTIES
  SyncEnds
