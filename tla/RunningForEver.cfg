\* An experiment stays 'running' after its last run.
SPECIFICATION Spec
CONSTANTS
  e1 = e1  e2 = e2  s1 = s1   h1 = h1  h2 = h2
  None = None
  Execs <- MCExecs
  Stops <- MCStops
  Hosts <- MCHosts
  HostOf <- MCOneHost
  MaxRuns = 2
  Steps = 1
  MaxConcurrent = 2
  RedisUp = TRUE
  Faults <- NoFaults
  MaxFaults = 0
SYMMETRY Symmetry
INVARIANTS RunningExperimentHasRun
\* Every request has been answered and no other arrives.
CHECK_DEADLOCK FALSE
