\* Two replicas, two calls at a time, two runs and two priorities; the
\* smallest scale, and clocks up to the reference time.
SPECIFICATION Spec
CONSTANTS
  h1 = h1
  h2 = h2
  c1 = c1
  c2 = c2
  None = None
  Runs <- MCRuns
  Priorities <- MCPriorities
  Hosts <- MCHosts
  Calls <- MCCalls
  Scale = 2
  MaxTs = 1
  MaxTime = 1
SYMMETRY Symmetric
INVARIANT TypeOK
PROPERTIES IsPriorityQueue NoOvertaking
