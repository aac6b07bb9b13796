\* Two executing requests and a stop of one experiment, any one disturbance.
SPECIFICATION Spec
CONSTANTS
  e1 = e1  e2 = e2  s1 = s1   h1 = h1  h2 = h2
  None = None
  Execs <- MCExecs
  Stops <- MCStops
  Hosts <- MCHosts
  HostOf <- MCTwoHosts
  MaxRuns = 2
  Steps = 1
  MaxConcurrent = 2
  RedisUp = TRUE
  Faults <- AllFaults
  MaxFaults = 1
INVARIANTS TypeOK CancelFuncLive OrphanNeedsFault
\* Every request has been answered and no other arrives.
CHECK_DEADLOCK FALSE
