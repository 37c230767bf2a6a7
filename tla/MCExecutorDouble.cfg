SPECIFICATION Spec
CONSTANTS
  o1 = o1  o2 = o2  p1 = p1  p2 = p2  w1 = w1  w2 = w2  q1 = q1
  Orders = {o1}
  Permits = {p1}
  PermitOf <- OnePermit
  Workers = {w1}
  Processes = {q1}
  ProcessOf <- OneProcess
  Size = 2
  PermitTTL = 1
  LeaseTTL = 0
  AdapterReports = TRUE
  CancelStateStored = FALSE
  MaxSubmits = 1
  MaxTime = 0
  MaxFailures = 1
INVARIANT FillsConsumedOnce
CHECK_DEADLOCK FALSE
