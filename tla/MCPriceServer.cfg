SPECIFICATION Spec
CONSTANTS
  btc = btc
  eth = eth
  scam = scam
  bitcoin = bitcoin
  ethereum = ethereum
  t1 = t1
  t2 = t2
  NoTime = NoTime
  NoLeg = NoLeg
  NoFiat = NoFiat
  Symbols <- MCSymbols
  CoinOf <- MCCoinOf
  Times <- MCTimes
  Batches <- MCBatches
INVARIANTS
  TypeOK
  EachLegItsOwnPrice
  UnknownSymbolsReported
  BadBatchIsNotPriced
CHECK_DEADLOCK FALSE
