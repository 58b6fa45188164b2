SPECIFICATION Spec
CONSTANTS
  a = a
  b = b
  c = c
  NoTx = NoTx
  TxOrder <- mcTwo
  Outs <- mcOutsSO
  Spends <- mcSpendsSO
  Sent <- mcNone
  MaxReorg = 3
  MaxDepth = 2
  AnchorOffset = 0
  ExpiryDelta = 1
  MaxHeight = 7
  MaxReorgs = 1
  Monitor = FALSE
  LateMempool = FALSE
  Restarts = TRUE
CHECK_DEADLOCK FALSE
INVARIANTS
  UnspentKeepsWitness
  SpendsSeen
