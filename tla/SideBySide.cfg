SPECIFICATION SpecSides
CONSTANTS
  Starts <- MCStarts
  Steps <- MCSteps
  MaxCount = 163840
  Infinity = 5
  IntMod = 16
  ByteMod = 4
  CompatTable = 1
  ImportTables = {2, 6}
  Routes <- MCRoutes
  Addresses <- MCAddresses
  Links <- MCLinks
  Rules <- MCRules
  RuleArguments <- MCRuleArguments
  Junk = Junk
  Indices <- MCIndices
  Others <- MCOthers
  MaxBridges = 2
  MaxChanges = 4
  MaxFaults = 2
  Frequencies <- MCFrequencies
  HwAddrs <- MCHwAddrs
  IntMax = 2147483647
  Args <- MCArgs
  TooBig = TooBig
  NsecPerSec = 10
  Sub = 4
  None = None
  Initial <- MCInitial
  MaxWords = 2
  Dests = {1}
  Hops = {a, b, c, d}
  NoHop = NoHop
  Metrics <- MCMetrics
  NoMetric <- MCNoMetric
  U16 = 4
  MaxRtes = 3
  Networks <- MCNetworks
  Zero = "0"
  Mapped = "FFFF"
  TagMod = 128
  PlenMod = 256
  PoolSize = 2
  MaxGiven = 4
  MaxLines = 2
  MaxPrinted = 2
  Settings <- MCSettings
  Ifs <- MCIfs
  SysctlValues = {0, 1}
  MaxIfs = 1
  MaxSetups = 3
  MaxFailures = 2
INVARIANTS
  CompareIsOrder MinusIsDistance
  RightRoutes RouteAsIs LocalAddress RuleRoundTrip
  SteadyAnswer ChannelOfFrequency EuiIsIdentity OptionsTakeEffect
  Findable MainTakesImprovements HookIsCurrent KeptWhileRoom
  StoreTypeOK IndexIsStable PrintsWhatWasInserted
  SetupTypeOK Enforced GivenBack NoLeak
CHECK_DEADLOCK FALSE
