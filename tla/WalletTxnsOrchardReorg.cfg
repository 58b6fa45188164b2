SPECIFICATION Spec
CONSTANTS
  a = a
  b = b
  c = c
  NoTx = NoTx
  TxOrder <- mcTwo
  Outs <- mcOutsO
  Spends <- mcSpendsO
  Sent <- mcNone
  MaxReorg = 3
  MaxDepth = 1
  AnchorOffset = 0
  ExpiryDelta = 1
  MaxHeight = 4
  MaxReorgs = 1
  Monitor = FALSE
  LateMempool = FALSE
  Restarts = FALSE
CHECK_DEADLOCK FALSE
INVARIANTS
  SpendersKept
