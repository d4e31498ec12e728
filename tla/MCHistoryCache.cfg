SPECIFICATION FairSpec
CONSTANTS
  a1 = a1  a2 = a2  t1 = t1  t2 = t2
  Txs <- MCTxs
  NoTx = NoTx
  Addrs <- TwoAddrs
  Ledger <- TwoLedgers
  PageSize = 1
  MaxCrashes = 1
  MaxFails = 1
INVARIANT AnswersAreExact
PROPERTIES HistoryOnlyGrows HistoryCompletes SignalEndsWorker
