SPECIFICATION Spec
CONSTANTS
  Block <- mcBlock
  Height <- mcHeight
  Prev <- mcPrev
  Chains <- mcAllBranches
  Txid <- mcTxid
  TxIn <- mcTxIn
  Orchard = {}
  Birthday = 2
  Batch = 4
  Step = 2
  Flush = 2
  ChanCap = 2
  Trial = 2
  MaxReorg = 4
  ServerMovesDuringSync = FALSE
  NetworkFaults = FALSE
  RescanDuringSync = FALSE
PROPERTY
  InvalidateRemovesItsOwn
