SPECIFICATION Spec
CONSTANTS
  a1 = a1  a2 = a2  other = other  prevHash = prevHash  otherHash = otherHash
  n1 = n1  n2 = n2  n3 = n3  old = old
  Cores <- TwoCores
  Txs <- MCTxs
  Transactions <- MCTransactions
  Probed <- MCProbed
  SignTxLimit = 3
  MaxTxs = 5
  MaxRanges = 2
  MaxNumber = 4
  Base = 9
  Bytes16 = 2
  Bytes32 = 3
  Bytes64 = 4
  Slow = 3
  Unreachable = 4
  Slack = 3
INVARIANTS CountsDistinctCores TransactionIsReadBack NearestUpToDate
CHECK_DEADLOCK FALSE
