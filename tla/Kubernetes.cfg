\* Two clusters, three clients, two steps, two faults, one restart.
SPECIFICATION Spec
CONSTANTS
  a1 = a1  a2 = a2  o1 = o1  o2 = o2  h1 = h1  d1 = d1  x1 = x1  x2 = x2  t1 = t1  new = new
  Ids = {1, 2}
  Sites = {1, 2}
  Nowhere = 0
  MaxClients = 3
  Adds = {a1, a2}
  Opens = {o1}
  Healths = {h1}
  Removes = {d1}
  Execs = {x1, x2}
  Runs = {x1, x2}
  Stops = {t1}
  Callers = {a1, a2, o1, h1, x1, x2}
  StopOf <- MCStopOf
  NSteps = 2
  Mixes <- MCMixes
  Established <- MCEstablished
  Faulty <- MCFaulty
  Varied <- MCVaried
  MaxFaults = 2
  Deploys = {new}
  MaxRestarts = 1
  Questions <- MCQuestions
  Label <- MCLabel
  NoQuestion = NoQuestion
INVARIANTS
  TypeOK ReachableOpen NothingLeft PodsBounded RunKeepsCluster VerdictRight
PROPERTIES
  OneClientForAll VerificationEnds
\* Every request has been answered.
CHECK_DEADLOCK FALSE
