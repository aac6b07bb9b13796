\* Two executing requests of two-step runs against a stop, with a Redis that fails twice.
SPECIFICATION Spec
CONSTANTS
  e1 = e1  e2 = e2  s1 = s1   h1 = h1  h2 = h2
  None = None
  Execs <- MCExecs
  Stops <- MCStops
  Hosts <- MCHosts
  HostOf <- MCOneHost
  MaxRuns = 1
  Steps = 2
  MaxConcurrent = 2
  RedisUp = TRUE
  Faults <- RedisFaults
  MaxFaults = 2
SYMMETRY Symmetry
INVARIANTS VerdictEarned StopIsFinal OneLateAttack
\* Every request has been answered and no other arrives.
CHECK_DEADLOCK FALSE
