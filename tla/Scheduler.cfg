\* Two experiments, three templates of which the system owns two, two replicas
\* that are started twice in all, and one set of requests at a time.
SPECIFICATION Spec
CONSTANTS
  tc = tc  tu = tu  td = td  c1 = c1  c2 = c2  u1 = u1  d1 = d1  g1 = g1
  l1 = l1  e1 = e1  f1 = f1  f2 = f2  r1 = r1  o1 = o1  k1 = k1
  h1 = h1  h2 = h2
  custom = custom  other = other  module = module  seeded = seeded  bare = bare
  None = None
  Gone = Gone
  Tmpls = {1, 2, 3}
  SystemTmpls = {1, 2}
  Slugs <- MCSlugs
  Modules = {module, bare}
  SeedSlug <- MCSeedSlug
  MaxExps = 2
  MaxRuns = 1
  Column <- MCColumn
  PageSize = 2
  Bodies <- MCBodies
  TmplCreates = {tc}
  TmplUpdates = {tu}
  TmplDeletes = {td}
  Creates = {c1, c2}
  Updates = {u1}
  Deletes = {d1}
  Gets = {g1}
  Lists = {l1}
  Users = {e1}
  Fires = {f1, f2}
  Taking <- MCTaking
  Replicas = {h1, h2}
  MaxPerPoll = 2
  Recurs = {r1}
  Onces = {o1}
  Cancels = {k1}
  MaxBoots = 2
INVARIANTS
  TypeOK
  CustomNeverShadowsModule StepsComplete AnswerWhole DraftHasNoRuns
  PagingComplete OneEntryPerJob StopDrainsCron
PROPERTIES
  StopReturns
\* Every request has been answered and no replica is started again.
CHECK_DEADLOCK FALSE
