\* Two runs or executions of two steps, pages of two alerts, three requests to the limiter.
SPECIFICATION Spec
CONSTANTS
  r1 = r1  r2 = r2  t1 = t1  t2 = t2  q1 = q1  e1 = e1  e2 = e2
  i1 = i1  f1 = f1  f2 = f2  g1 = g1  o1 = o1  s1 = s1  s2 = s2
  Validators = {r1, r2}
  Senders = {r1, r2}
  Testers = {t1, t2}
  Readers = {q1}
  ReaderRun = r1
  Alerts <- MCAlerts
  Expected <- MCExpected
  Within <- MCWithin
  Limit = 2
  MaxPages = 2
  MaxRetries = 1
  MaxSiemFaults = 2
  RetryCount = 2
  MaxNoteFaults = 2
  Executors = {e1, e2}
  NTemplates = 2
  MaxRedisFaults = 2
  Calls = {1, 2, 3, 4, 5}
  Quota = 2
  Window = 2
  Grace = 1
  MaxSkew = 1
  MaxClock = 4
  MaxOutages = 1
  Accounts = {u1, u2}
  Known = {u1}
  SignIns = {i1}
  Refreshes = {f1, f2}
  Queries = {g1}
  SignOuts = {o1}
  Signups = {s1, s2}
  Expiry = 1
  RefreshExpiry = 2
  MaxTime = 3
  MaxTokens = 6
  MaxAuthFaults = 1
  None = None
  Mixes <- MCMixes
INVARIANTS
  TypeOK DetectionEarned NothingMissed EveryChannelTried WindowBound RefusedAfterEnd
PROPERTIES
  RunSettles ProgressForward
\* Every run is over and every request answered.
CHECK_DEADLOCK FALSE
