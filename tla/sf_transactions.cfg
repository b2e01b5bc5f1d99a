SPECIFICATION Spec
CONSTANTS
  t1 = t1
  t2 = t2
  c1 = c1
  c2 = c2
  Clients = {c1, c2}
  Tokens = {t1, t2}
  Kinds <- SmallKinds
  MaxTransactions = 3
  MaxTimeouts = 1
INVARIANT TransactionsSafe
PROPERTY SyncSeen ClientReturns
CHECK_DEADLOCK FALSE
