SPECIFICATION SpecParts
CONSTANTS
  Starts <- MCStarts
  Steps <- MCSteps
  MaxCount = 163840
  Infinity = 5
  IntMod = 16
  ByteMod = 4
  CompatTable = 1
  ImportTables = {2, 6}
  Routes <- MCRoutes
  Addresses <- MCAddresses
  Links <- MCLinks
  Rules <- MCRules
  RuleArguments <- MCRuleArguments
  Junk = Junk
  Indices <- MCIndices
  Others <- MCOthers
  MaxBridges = 2
  MaxChanges = 4
  MaxFaults = 2
  Frequencies <- MCFrequencies
  HwAddrs <- MCHwAddrs
  IntMax = 2147483647
  Args <- MCArgs
  TooBig = TooBig
  NsecPerSec = 10
  Sub = 4
  None = None
  Initial <- MCInitial
  MaxWords = 2
INVARIANT IntervalIsAsked
CHECK_DEADLOCK FALSE
