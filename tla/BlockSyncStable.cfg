SPECIFICATION Spec
CONSTANTS
  Block <- mcBlock
  Height <- mcHeight
  Prev <- mcPrev
  Chains <- mcAllBranches
  Txid <- mcTxid
  TxIn <- mcTxIn
  Orchard <- mcOrchard
  Birthday = 2
  Batch = 2
  Step = 2
  Flush = 2
  ChanCap = 2
  Trial = 10
  MaxReorg = 4
  ServerMovesDuringSync = FALSE
  NetworkFaults = FALSE
  RescanDuringSync = FALSE
INVARIANTS
  SyncInv
  WalletLinked
PROPERTIES
  SyncMissesNothing
  SyncKeepsNoOrphans
  SyncReachesTip
  FollowsChain
  SyncEnds
