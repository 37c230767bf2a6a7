SPECIFICATION GuardSpec
CONSTANTS
  Universe = 2
  MaxPermits = 2
  MaxSelected = 1
  LossCap = 1
  Losses = {0, 1}
  MaxFailures = 2
  MaxHalts = 1
  MaxResets = 1
  MaxChanges = 1
  MaxCrashes = 1
INVARIANTS
  OrdersObeyOperators
PROPERTIES
  BreachStaysLatched
  WatcherFollowsRow
CHECK_DEADLOCK FALSE
