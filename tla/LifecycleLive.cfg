\* Every run ends, one mild disturbance allowed.
SPECIFICATION FairSpec
CONSTANTS
  e1 = e1  e2 = e2  s1 = s1   h1 = h1  h2 = h2
  None = None
  Execs <- MCExecs
  Stops <- MCStops
  Hosts <- MCHosts
  HostOf <- MCTwoHosts
  MaxRuns = 1
  Steps = 1
  MaxConcurrent = 2
  RedisUp = TRUE
  Faults <- MildFaults
  MaxFaults = 1
PROPERTIES RunsTerminate
\* Every request has been answered and no other arrives.
CHECK_DEADLOCK FALSE
