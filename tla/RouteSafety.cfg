SPECIFICATION Spec
CONSTANTS
  V4 <- MCV4
  Defaults <- MCDefaults
  HasSubtrees = TRUE
  Infinity = 9
  TableMod = 256
  AnySrc = "any"
  ForeignRoutes <- MCForeignRoutes
  Arguments <- MCArguments
  MaxCalls = 3
  MaxFaults = 2
INVARIANTS ForeignRoutesUntouched NoUnreachableDefault ModifyInstalls ModifyReplaces ExistsIsTrue
CHECK_DEADLOCK FALSE
