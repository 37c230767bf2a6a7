SPECIFICATION BookSpec
CONSTANTS
  NumOrders = 2
  NumMarkets = 2
  MarketOf <- OwnMarket
  Size = 2
  CapitalCap = 3
  Window = 1
  MaxStops = 1
  MaxReadFailures = 1
INVARIANTS
  CapRespected
  FillCountedOnce

  
CHECK_DEADLOCK FALSE
