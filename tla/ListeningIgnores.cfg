SPECIFICATION Spec
CONSTANTS
  Routes6 <- MCRoutes6
  Routes4 <- MCRoutes4
  Pid = 1
  OtherPorts <- MCOtherPorts
  Elsewhere = 9
  QueueSize = 2
  MaxChanges = 3
  MaxCalls = 2
  MaxFaults = 2
INVARIANT NoNewsIgnored
CHECK_DEADLOCK FALSE
