SPECIFICATION Spec
CONSTANTS
  Block <- mcBlock
  Height <- mcHeight
  Prev <- mcPrev
  Chains <- mcTwoBranches
  Txid <- mcOneTx
  TxIn <- mcOneTxIn
  Orchard = {}
  Birthday = 3
  Batch = 2
  Step = 2
  Flush = 2
  ChanCap = 2
  Trial = 2
  MaxReorg = 4
  ServerMovesDuringSync = TRUE
  NetworkFaults = TRUE
  RescanDuringSync = TRUE
INVARIANTS
  TypeOK
  HandshakeAgrees
PROPERTIES
  ReorgLoopEnds
