SPECIFICATION DpFairSpec
CONSTANTS
  d1 = d1
  w1 = w1
  w2 = w2
  NoWorker = NoWorker
  Deliveries = {d1}
  Workers = {w1, w2}
  MaxAttempts = 2
  Lease = 2
  Timeout = 1
  BackoffBase = 1
  BackoffMax = 3
  Batch = 1
  MaxFaults = 2
  Contacts = {1, 2}
  Copies = {1}
  Loans = {1, 2}
  CopyOf <- OneCopy
  Txs = {w1, w2}
  Rank <- TablesFirst
  MaxRank = 12
  NULL = NULL
PROPERTIES
  EventuallySettled
