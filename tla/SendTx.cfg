SPECIFICATION Spec
CONSTANTS
  Coin <- mcCoin
  Utxos <- mcUtxos
  Value <- mcValue
  CoinHeight <- mcCoinHeight
  Watched <- mcWatched
  Senders = {s1, s2}
  Amounts = {1, 6, 30}
  Fee = 1
  MaxMoney = 20
  AnchorOffset = 1
  Heights = {0, 2, 3, 4}
  MaxSends = 2
CHECK_DEADLOCK FALSE
INVARIANTS
  SelectionRight
  SpendableIsSpendable
  SpendsOnce
  SentIsMarked
PROPERTY
  SendEnds
