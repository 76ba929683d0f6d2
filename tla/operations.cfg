CONSTANTS
  Tasks = {t1, t2}
  ChainNonces = {2, 3, 4}
  MaxNonce = 6
  MaxIssued = 5
  Serial = TRUE
  n1 = n1
  n2 = n2
  Names = {n1, n2}
  l1 = l1
  Loaders = {l1, l2}
  Versions <- TwoMinors
  MaxPrevious = 1
  MaxSwaps = 2
  NoModule = NoModule
  RequiredVars = {"RPC_ENDPOINT", "PRIVATE_KEY"}
  SecretVars = {"PRIVATE_KEY"}
  RpcVars = {"RPC_ENDPOINT"}
  CriticalPaths = {"docker-compose.yml"}
  MaxEdits = 1
  w1 = w1
  w2 = w2
  Pools = {w1, w2}
  Opportunities <- SampleOpportunities
  MaxLoan = 3
  MaxGas = 2
  PoolLimit = 4
  MaxLoss = 3
  MultisigAbove = 2
  Losses = {1, 2}
  LoanQueue = 2
  MaxVerdicts = 3
  MaxRealised = 2
  MaxLoans = 4
  Requests <- SampleRequests
  Modes = {20, 50, 100}
  Growths = {10, 12}
  MaxTradeSize = 50
  MinProfit = 1
  TradeQueue = 2
  MaxTrades = 4
  MaxSettings = 1
  Holders = {v1, v2}
  SecretKeys = {"PRIVATE_KEY", "API_KEY"}
  SecretValues = {"d", "v"}
  Dotenv <- SampleDotenv
  NoValue = NoValue
  MaxVaults = 2
  MaxSets = 2
  Askers = {q1, q2, q3}
  ProviderNames = {"groq", "local"}
  BuiltIn = {"groq"}
  ShardOf <- OneShard
  Configs = {"old", "new"}
  Workers = 2
  Unregistered = Unregistered
  Addresses = {a1}
  RateLimit = 2
  RateWindow = 2
  Visits = {b1, b2}
  ScanTTL = 1
  Reports <- SampleReports
  Keys = {"riskMode", "autoExecute"}
  SettingValues = {"on"}
  Preset = "off"
  NoEntry = NoEntry
  NoScan = NoScan
  NoVisit = NoVisit
  Offline = Offline
  NoSettings = NoSettings
  TornFile = TornFile
  MaxClock = 5
SPECIFICATION OperationsSpec
INVARIANTS
  NonceSound
  RegistrySound
  CopilotSound
  FlashLoansSound
  TradesSound
  VaultSound
  ProvidersSound
  DashboardSound
PROPERTY OnlyFullWrites
CHECK_DEADLOCK FALSE
