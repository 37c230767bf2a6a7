SPECIFICATION Spec
CONSTANTS
  c1 = c1
  c2 = c2
  i1 = i1
  i2 = i2
  Clients = {c1, c2}
  Intents = {i1, i2}
  Amounts = {1, 2}
  Attestations = {3}
  MaxOpen = 1
  MaxRetries = 1
  TTL = 1
  MaxRows = 3
  LastIssue = 0
  MaxCrashes = 0
SYMMETRY Symmetry
CHECK_DEADLOCK FALSE
INVARIANTS TypeOK CommittedBacksReservations RowAccounting OpenLimitHolds FreshSnapshotIsExact BalanceGuardNeverSkips
PROPERTY BooksAreEnvelopes
