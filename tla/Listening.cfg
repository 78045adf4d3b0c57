SPECIFICATION FairSpec
CONSTANTS
  Routes6 <- MCRoutes6
  Routes4 <- MCRoutes4
  Pid = 1
  OtherPorts <- MCOtherPorts
  Elsewhere = 9
  QueueSize = 2
  MaxChanges = 3
  MaxCalls = 2
  MaxFaults = 2
INVARIANTS TypeOK PollsListener NoMissedChange
PROPERTIES CallsReturn NewsHeard
CHECK_DEADLOCK FALSE
