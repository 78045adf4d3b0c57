SPECIFICATION Spec
CONSTANTS
  Prios <- MCPrios
  Srcs <- MCSrcs
  Tables <- MCTables
  V4 <- MCV4
  BadPlen <- MCBadPlen
  ByteMod <- MCByteMod
  Foreign <- MCForeign
  Arguments <- MCArguments
  MaxCalls = 4
  MaxFaults = 1
INVARIANTS SourceStaysCovered SwapComplete
CHECK_DEADLOCK FALSE
