\* One worker, two submissions, a channel for one run, any one disturbance.
SPECIFICATION FairSpec
CONSTANTS
  Runs = {r1}
  Workers = {w1}
  Clients = {c1, c2}
  ChanCap = 1
  MaxRetries = 1
  Resends = 1
  Faults <- MCAllFaults
  MaxFaults = 1
  MaxBoots = 2
  None = None
PROPERTY Served
\* Every submission is dealt with, or the process is down for good.
CHECK_DEADLOCK FALSE
