SPECIFICATION SpecSetup
CONSTANTS
  Settings <- MCSettings
  Ifs <- MCIfs
  SysctlValues = {0, 1}
  MaxIfs = 1
  MaxSetups = 3
  MaxFailures = 2
INVARIANT RpFilterDisabled
CHECK_DEADLOCK FALSE
