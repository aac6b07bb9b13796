\* Two workers and two submissions of a run, any one disturbance but expiry.
SPECIFICATION Spec
CONSTANTS
  Runs = {r1}
  Workers = {w1, w2}
  Clients = {c1, c2}
  ChanCap = 1
  MaxRetries = 1
  Resends = 1
  Faults <- MCNoExpiry
  MaxFaults = 1
  MaxBoots = 2
  None = None
SYMMETRY MCSymmetry
INVARIANTS TypeOK RedisKeepsIt BoundedExecutions GivenUpEarned
\* Every submission is dealt with, or the process is down for good.
CHECK_DEADLOCK FALSE
