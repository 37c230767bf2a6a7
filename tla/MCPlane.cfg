SPECIFICATION PlaneSpec
CONSTANTS
  Events = {1, 2, 3}
  Topic <- PlaneTopic
  EventAmount = 1
  CheckpointRow = TRUE
  MaxSequence = 3
  MaxRebuilds = 1
  Forecasts <- PlaneForecasts
  Quotes <- PlaneQuotes
  Qualities <- PlaneQualities
  Exposures <- PlaneExposures
  MinEdge = 300
  Capital = 1000
  Bankroll = 1000
  MicroCap = 1000
  Available = 300
  HardCash = 500
  OrderPct = 2000
  MarketPct = 3000
  PortfolioPct = 10000
  Intents = {"i1", "i2"}
  MaxFaults = 2
  EvidenceMarkets = {"m1", "m2"}
  Grants = {1, 2}
  Ticks = {"t1", "t2"}
  MinClusters = 1
  MinDays = 1
  MaxDays = 1
  MaxTickFailures = 1
  Resolutions <- PlaneResolutions
  MinSamples = 2
  Limit = 4
  MaxResolutions = 3
  Askers = {"agent", "cli"}
  DeskMarkets = {"m1"}
  MaxTokens = 3
  MaxDeskFaults = 1
  PaperMarkets <- PlanePaperMarkets
  PaperForecasts <- PlanePaperForecasts
  PaperSizes = {1, 100}
  FeeBps <- PlaneFeeBps
  FillFraction = 50
  Receipts = {"r1", "r2"}
  Assets = {"usdc", "other"}
  PaidAsset = "usdc"
  Rewards <- PlaneRewards
  MaxDeliveries = 5
  Levels = {"p1"}
  BaseLevel = "p0"
  Rules = {"v1"}
  MaxReconnectAttempts = 2
  MaxWire = 2
  MaxCalls = 2
  MaxPending = 2
  Owner = "owner"
  Guest = "guest"
  Sayings <- PlaneSayings
  PageSize = 2
  PerMinute = 2
  MaxPairings = 1
  MaxSayings = 3
  MaxDeaths = 1
  MaxGrants = 1
  Procs = {"service", "manual"}
  Service = "service"
  MaxStarts = 4
  Minted <- PlaneMinted
  Own = "own"
  Others = {}
  Numbers <- PlaneNumbers
  CodexReady = TRUE
  DefaultCap = 3
  DefaultBps = 5000
  VaultSet = TRUE
  MaxEdits = 1
  MaxChanges = 1
  MaxBackups = 2
  MaxRestores = 1
  MaxUpdates = 1
  WalletKeys = {"k0", "k1"}
  VenueAddresses = {"acct"}
  OldRaw = "k0"
  CapAnswers = {1, 5}
  BpsAnswers = {0, 5000}
  StandardCap = 2000
  StandardBps = 500
  MaxSessions = 2
  Minute = 2
  PerMinuteCap = 2
  DigestInterval = 1
  GateWords = {"ALLOW", "BLOCK"}
  MaxClock = 3
  MaxSteps = 2
  Listings <- PlaneListings
  Touches <- PlaneTouches
  MinVolume = 2
  MaxMarkets = 1
  MaxSpread = 1
  MinDepth = 1
  MaxChurn = 2
  TopOfList = 2
  Wallets <- PlaneWallets
  Lookback = 1
  MaxTrades = 2
  MaxTime = 3
  MaxSyncs = 2
  Entries = {"e1"}
  Sells = {"s1"}
  Held = 2
  MaxReceipts = 1
  Spenders = {"exchange", "other"}
  Required = "exchange"
  MaxAttempts = 3
  Options = 12
  PerPage = 5
  MenuDigits = {0, 1, 2}
  MaxBuffer = 100
  Fills = {1, 2}
INVARIANTS
  PlaneTypeOK
  ReadersLoseNothing
  
  
  AdmittedOnEvidence
  LoginSurvives
  EvaluationIsSound
  SpendableOnlyConfirmed
  
  OneTrader
  
  SetupIsTrue
  
  ScoutingIsSound
  EmergencyHolds
  OneWalletApproved
PROPERTIES
  ImplementsLog
  
  ResolutionsAreCounted
CHECK_DEADLOCK FALSE
