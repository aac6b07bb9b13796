# A TLA+ model of the backend

The backend executes security experiments on Kubernetes clusters: a user (or a
schedule, or a background worker) starts an experiment, the engine runs its
attack templates one after the other in pods it creates, asks a SIEM whether
the attacks were noticed, and records in PostgreSQL how the run ended. The user
may stop it at any moment. This directory models the parts of that in which
several actors write the same state or a service may fail half-way, checks them
with TLC on small instances and proves the main results with TLAPS for instances
of any size.

Paths below are relative to `src/backend/internal/` unless they say otherwise.

## 1. Inventory

| Component | State it keeps | Operations | Talks to |
|---|---|---|---|
| Engine (`experiment/engine.go`) | `cancelFuncs` (a `sync.Map` from run to cancel function, per process); rows of `experiment_runs`; stop keys and progress lists in Redis | `ExecuteExperiment`, `StopExperiment`, `executeStep`, `findOrCreateRun`, progress | database, Redis, Kubernetes, SIEM |
| Execute and stop handlers (`experiment/handlers.go`) | `experiments.status`, rows of `experiment_runs` | `ExecuteExperiment`, `StopExperiment`, `CancelStaleRunsHandler`, create, update, delete, logs, reports | the engine, inside the HTTP request |
| Worker pool (`worker/pool.go`) | `jobCh`, `stopCh`, `started`, `activeCount` | `Start`, `Stop`, `Submit`, the worker loop | queue, processor |
| Processor (`worker/processor.go`) | retry counters in Redis, with a TTL of 24 h | `Process`, `ProcessWithRetry` | engine, database, Redis |
| Queue (`experiment/queue.go`) | one sorted set in Redis, with a TTL of 72 h | `Enqueue`, `Dequeue`, `Remove`, `Position`, `Peek`, `ListWithScores`, `Clear` | Redis |
| Experiment handlers (`experiment/handlers.go`) | `experiments`, `experiment_templates`, `experiment_runs` | create, update, delete or archive, get, list, logs | database, Redis |
| Attack catalogue (`attack/handlers.go`, the modules of `attack/`) | `attack_templates`; the registry of built-in modules | create, update, delete, get and list templates | database |
| Scheduler (`experiment/scheduler.go`) | `cronJobs`, the cron runner, `experiments.schedule_cron`, schedule keys in Redis | schedule, cancel, poll every 10 s, `Start`, `Stop` | engine, database, Redis |
| Client manager (`kubernetes/client.go`) | `clients` (a `sync.Map`), `defaultClient` | register, get, remove, health check, close all | clusters |
| Cluster handlers (`kubernetes/handlers.go`) | rows of `clusters` | add (and verify in a goroutine), open, health, delete | client manager, database |
| Step resources (`kubernetes/namespace_manager.go`, `pod_controller.go`) | namespaces, quotas and pods of an experiment | create, wait, exec, clean up | Kubernetes |
| Network policies (`kubernetes/network_policy.go`) | policies of a namespace | create, delete, is traffic allowed | Kubernetes |
| SIEM connectors (`siem/`) | one connector per process, with Splunk's session | connect, query, retry, test | Elasticsearch, Splunk, a mock |
| SIEM validation (`siem/validator.go`) | rows of `siem_validations` | page, match, score | a connector, database |
| Notification (`notification/service.go`) | attempts of each channel | send, retry | mail, Slack, a webhook |
| Rate limiter (`middleware/middleware.go`) | a counter for each user and window, in Redis or in the process | per request | Redis |
| Authentication (`auth/`, `AuthMiddleware`) | `users`; keys of revoked tokens in Redis | login, refresh, logout, register, the check of a token | database, Redis |
| Reports (`experiment/report.go`) | rows of `reports` | generate | database |
| Process (`../cmd/backend/main.go`) | — | start-up, shutdown, the mode without Redis | everything |
| Frontend (`../../frontend/src/`) | WebSocket connection, Redux store | reconnect, optimistic updates | the API |

What is hard about this system:

* **Nothing is transactional.** Every decision about a run (is one active, how
  many are, what number comes next, is it still running) is one SQL statement and
  the write that depends on it another, with other requests in between. The
  engine's UPDATEs have no condition on the status they replace.
* **Several ways to stop, none complete.** A stop cancels the context of at most
  one executor and only on the replica that serves the stop, sets a Redis key that
  executors poll, writes the run's row, and writes the experiment's row. The
  deployment has two replicas (`deploy/kubernetes/backend-deployment.yaml:25`).
* **Execution inside a request.** A run dies with the connection of the client
  that started it, and the write that should say so uses the dead context.
* **Two placements.** `Submit` puts a run both into Redis and into a channel.
* **Objects that requests share.** One map of cluster clients, one SIEM connector
  with one session, one namespace for all runs of an experiment, one Redis value
  for all steps of a run: each is read, judged and used in separate steps.
* **Services that fail half-way.** Retries after lost answers, cleanup with a
  context that has ended, rollbacks that fail themselves.
* **Restarts.** The channel, the cancel functions, the runs in the hands of
  workers and the executions are gone with the process; rows, queue, stop keys
  and retry counters stay.

`PROJECT.json` lists the hazards, each at its line, with the properties that are
about it.

## 2. Modules

| Module | Models | Checked by | Proved in |
|---|---|---|---|
| `RunLifecycle` | handlers and engine: the life of the runs of one experiment | `MCRunLifecycle` with `LifecycleFaults`, `LifecycleStops`, `LifecycleLive`, `StopAfterCompletion`, `RunningForEver` | `RunLifecycleProofs` |
| `WorkerPool` | pool and processor, start and shutdown of the process | `MCWorkerPool` with `PoolSafety`, `PoolLive` | `WorkerPoolProofs` |
| `PriorityQueue` | what the queue promises (abstract) | through the refinement | — |
| `ExperimentQueue` | the sorted set; implements `PriorityQueue` | `MCExperimentQueue` with `ExperimentQueue` | `ExperimentQueueProofs` |
| `Paging` | a COUNT and a page with LIMIT and OFFSET | within the next | — |
| `AttackTemplates` | the catalogue of templates and built-in modules | within the next | within the next |
| `ExperimentRecords` (extends both) | the rows of experiments, steps and runs under their handlers | within the next | within the next |
| `Scheduler` (extends it) | schedulers with cron runners and polls over these rows | `MCScheduler` with `Scheduler`, `ScheduleHonoured` | `SchedulerProofs` |
| `ClientCache` | operations of the client manager | within `Kubernetes` | within `KubernetesProofs` |
| `Clusters` (extends it) | the rows of clusters, their handlers, the search for a cluster | within `Kubernetes` | within `KubernetesProofs` |
| `StepResources` | namespaces and pods of the runs of one experiment | within `Kubernetes` | `StepResourcesProofs` |
| `NetworkPolicies` | the verdict on traffic | within `Kubernetes` | within `KubernetesProofs` |
| `Kubernetes` | composes the three | `MCKubernetes` with `Kubernetes` | `KubernetesProofs` |
| `SiemValidation` | likeness, severity and score, as operators | within `Services` | — |
| `SiemConnector` | the three connectors, behind one interface | within `Services` | — |
| `Notifications` | senders and channels | within `Services` | within `ServicesProofs` |
| `Detection` (extends these) | what a run makes of the alerts it causes | within `Services` | — |
| `Progress` | statuses and percentage in Redis, and the logs | within `Services` | within `ServicesProofs` |
| `RateLimit` | the two counters of the limiter | within `Services` | `RateLimitProofs` |
| `Sessions` | accounts, tokens and their revocation | within `Services` | within `ServicesProofs` |
| `Services` | composes `Detection`, `Progress`, `RateLimit` and `Sessions` | `MCServices` with `Services` | `ServicesProofs` |

A comment that starts with *Slip* marks a variant of the definition after it with
a plausible mistake. No specification uses the slips; substituted for that
definition, each one makes a property fail, which is how we know that the
property depends on the code being what it is.

### RunLifecycle

One action is one access to something shared: a statement, a Redis command or an
operation on the `sync.Map`. A process is a request; its `pc` (`spc` for a stop)
names the next access.

| State | Code |
|---|---|
| `status`, `runNo` | `experiment_runs.status`, `.run_number`; a row's index is the order of `created_at`, `"none"` is a row not inserted |
| `expStatus` | `experiments.status`, with its CHECK constraint (migration 011): an UPDATE to `'completed'` or `'failed'` is rejected and the error only logged |
| `stopKey` | the keys `experiment:stop:{run}` |
| `cancelFn` | `Engine.cancelFuncs` of each replica |
| `ctxDone`, `reqDone` | the engine's derived context and the request's own context are cancelled |
| `runOf`, `runStatus` | the in-memory `run`; `runStatus` stays what it was when loaded until the verdict, which matters because the handler writes it to the experiment |
| `okSteps`, `badSteps` | `successfulSteps`, `failedSteps` |
| `late`, `hit`, `rowCancelled` | histories: attacks since the stop key was set, whom a stop reached, whether it wrote the row |

`Begin … Activate` is `Handler.ExecuteExperiment` up to the engine call;
`GiveUp … Return` is `Engine.ExecuteExperiment` with the body of `executeStep`
reduced to its checks for a stop (`Arm`, `Validate`), the attack it launches and
whether it fails; `Respond` is the handler after the engine. `Lookup` is the
handler of a stop; `CancelContext`, `EngineSignal`, `CancelRow` are
`Engine.StopExperiment`, which is called only for a run read as `running`;
`GuardedCancel`, `Signal`, `MarkStopped` are the handler again. `EngineUpdate` is
the engine's unconditional UPDATE: it fails exactly when the executor's context
is cancelled. The environment expires stale runs, expires stop keys, closes
connections and crashes replicas.

The scheduler and the worker pool also call the engine, without the handler's
admission. Their executions are those of an executor that starts at `find`; they
are not separate processes here.

### WorkerPool

`Accept`, `Enqueue`, `Push` are `Submit`; `CheckStop`, `TakeFromChannel`,
`ChannelEmpty`, `Dequeue`, `QueueEmpty`, `Idle` are the worker loop and
`nextJob`; `Skip … OutOfTime` are `ProcessWithRetry` and `Process`. The engine is
what its caller sees of it: `EngineStarts` adopts the row if it is still active
(otherwise the engine inserts another run), `EngineReturns` leaves it with any
result `RunLifecycle` allows, and it has an error only before it has a run
(`AttemptFails`). Every UPDATE of `processor.go` fails, because it sets a column
the table lacks; so no action of the processor writes the row. `Boot`,
`StopPool`, `Exit`, `Crash` are `main`; `Boot` gives the process a Redis client
only if Redis answers its ping, and without one the first worker that looks into
the queue ends the process (`Panic`). A Redis command may fail without effect,
be executed and lose its reply, or be repeated by the client library, which is
configured with three retries (`EnqueueAgain`, `DequeueFails`). `owed` is the set
of runs that were accepted and not dealt with since, `disturbed` the runs that a
fault has taken out of Redis or out of a worker's hands.

One replica is modelled; another one would be more workers on the same sorted
set. In the present code nothing calls `Submit` or `Enqueue` except tests: the
module is about the pool's interface; `Panic` is what already happens.

### ExperimentQueue and PriorityQueue

`score` is the sorted set, `Score` the packing of priority and time into one
number. `PriorityQueue` has entries with a priority and an arrival instead and
lets `Dequeue` take any entry that no other goes before. The refinement mapping
`Decoded` takes a score apart with `\div` and `%`, as `ListWithScores` does.
`reply` is the run the last call returned, so that a run that is taken out of turn
cannot pass for one that is removed.
Two runs enqueued in one millisecond with one priority are not ordered by the
abstract queue: Redis orders equal scores by member, so the order of arrival is
lost, although the comment (`experiment/queue.go:22`) speaks of a guarantee. The
scores are exact integers here, as they are in a float64 up to priority 900.

### Records and the scheduler

`AttackTemplates`, `ExperimentRecords` and `Scheduler` extend one another; an
action is one SQL statement, one transaction, one Redis command or what happens
under `cronMu`. A request has a place (`pc`, `tpc`, `calls`) and what it has read
(`exp`, `asked`, `target`).

* The catalogue has two sources, the table and the registry of modules built into
  the program. A request checks that a slug is free in both with one statement and
  writes with another; the table's UNIQUE is what catches two requests, and nothing
  would catch a slug that only the registry has.
* `CreateExperiment` looks its templates up one at a time in a transaction, and
  `DeleteTemplateHandler` counts references before it deletes: the foreign key of
  `experiment_templates` decides who wins. `DeleteExperiment` removes a draft's
  steps and row, or archives, after reading the status. An update is written if
  the status read was a draft's, whatever it has become since.
* A listing client asks for page after page of what two statements, a COUNT and a
  SELECT, return.
* A replica's scheduler has the map `cronJobs` (`jobs`), the runner's entries
  (`entries`), the executions in flight (`fire`), and a `phase`: it loads the
  expressions in the table when it starts and has registered a part of them when
  a request arrives; `Stop` closes the poll's channel, then waits for the jobs
  with `cronMu` held (`PollExits`, `JobsEnd`). Clocks are abstracted: an entry may
  fire and an experiment with an expression may be due whenever its turn comes.
* The scheduler passes `uuid.Nil` as the user who triggers an execution, and the
  column references `users`. Its INSERT always fails. It can only adopt a run that
  a user's request inserted, which it then executes a second time beside that
  request; `OnlyAdopts` states it. One-time schedules are a key in Redis that
  nothing reads again.

### Kubernetes

`ClientCache` has the operations of `ClientManager` for any caller. A lookup is
two steps (load the entry; ask whether the client it holds is closed, and if so
delete whatever entry there is now), registration and removal are one each, since
the mutex orders them, and `CloseAll` closes all clients before it deletes the
entries. `Clusters` has the rows and lets the handlers, the goroutine that verifies
a new cluster, and executions call these operations between their statements;
whether an API server answers is free at each call. `StepResources` is
`executeStep` without what it measures: the namespace with its quota and limit
range (and the rollback of a half-made one), the pod, its record, the wait, the
attack, the deletions that the template's policy or the experiment's switch asks
for, and the final cleanup; a call with a cancelled context fails, and so may
`MaxFaults` others. `Kubernetes` composes them: the run takes its steps with the
client it was given even when the manager has dropped it, a stop cleans up with
the client of the run's own cluster, which need not be the cluster it executes
on. `NetworkPolicies` answers a question about traffic from a set of policies as
`ValidateEgress` and `ValidateIngress` do, and states beside it, as `Allowed`, what
Kubernetes does.

### Services

A behaviour of `Services` is one of `Mixes`: who takes part, with which provider,
alerts, channels and numbers of faults. Between parts there is no state in
common but the context of a run, so the mixes give each part its own scenes.

* `SiemConnector` is one request of a connector at a time, with its retries. Splunk
  has a session that all callers use (`token`), which a 401 clears and a new login
  sets, and search jobs that are polled for as long as the context lasts. The
  mock and Elasticsearch differ in offset, order and limit as the code does.
* `Detection` asks page after page, matches the alerts it was given with
  `SiemValidation`'s operators, keeps a row for each expected alert, and writes
  rows and summary at the end. `Storable` has the CHECK of the table, which
  admits neither `detected` nor `missed`: the rows of a run are refused.
* `Notifications` goes through e-mail, Slack and the webhook, in this order, with
  `RetryCount` attempts for each. An attempt reaches the other side or not, and
  its answer may be lost. An asynchronous sender has two minutes.
* `Progress` reads, changes and writes one Redis value for all steps of a run, with
  commands that fail unseen. `RateLimit` has the counter of a window in Redis
  (`INCR`, then `EXPIRE`) and that of one process. In `Sessions` a request
  verifies its token, which takes no command, then looks for the token's key.
  `late`, `barred` and `excused` are histories: what was true of its token and
  account when it came, and whether Redis failed it.

## 3. What the runs show

| Run | Instance | Result |
|---|---|---|
| `lifecycle_faults` | two executions on two replicas, one stop, two rows, one step, any one disturbance; 1.5 M states | `TypeOK`; `CancelFuncLive`: an entry of `cancelFuncs` belongs to a request still executing that run; `OrphanNeedsFault`: an active run always has an executor or a stop that will write its row, unless there was a crash or a closed connection |
| `lifecycle_stops` | two executions of a two-step run, two stops, one replica; 2.0 M states | `VerdictEarned`; `StopIsFinal`: once a stop reached the only executor and wrote the row, the row stays cancelled; `OneLateAttack`: a set stop key lets each executor launch at most the attack it had been cleared for |
| `lifecycle_live` | as the first, one row, expiry and timeouts only, fair | `RunsTerminate` |
| `queue` | three runs, three priorities, five instants, scale 5 | `TypeOK`; `IsPriorityQueue`: the refinement; `NoOvertaking`: a run falls back only behind a run that is more urgent, or was enqueued in the same millisecond, or because it was enqueued again |
| `pool_safety` | two workers, two submissions, a channel for one run, one retry, two lives of the process, any one disturbance but expiry (a life without Redis among them); 3.3 M states | `TypeOK`; `RedisKeepsIt`; `BoundedExecutions`: two executions a submission and one for each repeated command; `GivenUpEarned` |
| `pool_live` | one worker, two submissions, any one disturbance, fair; 0.9 M states | `Served` |
| `scheduler` | two experiments, three templates, one run, two replicas, twelve sets of three to five requests; 0.2 M states | `TypeOK`; `CustomNeverShadowsModule`; `StepsComplete`: no request leaves a part of an experiment's steps; `AnswerWhole`: nor does an answer show one; `DraftHasNoRuns`: what a hard deletion takes had no runs; `PagingComplete`: pages over a table at rest are all of it, once; `OneEntryPerJob`: schedule, cancel and the loading at start leave one entry for each job; `StopDrainsCron`, `StopReturns`: a stop waits for the runner's executions, and ends |
| `kubernetes` | two clusters, three clients, two runs of two steps, one stop, one fault, one restart, eleven sets of actors; questions to two policies | `TypeOK`; `ReachableOpen`: the manager leads to no closed client, except while `CloseAll` is at work; `OneClientForAll`: registrations that meet share a client; `RunKeepsCluster`: no deletion takes the row of a cluster with a run of its own; `NothingLeft`, `PodsBounded`: cleanup is complete and pods are bounded, with the exceptions they name; `VerdictRight`: the verdict is Kubernetes' own for addresses and blocks; `VerificationEnds` |
| `services` | at most two validating runs, two testers, one reader, two steps, pages of two alerts, two faults; every set of channels; two executions in Redis; three requests to each limiter; five requests with tokens; 0.3 M states | `TypeOK`; `DetectionEarned`: no run is credited with another's alert or one too mild; `NothingMissed`: an alert that was there in time is found whatever arrives or fails; `EveryChannelTried`; `WindowBound`; `RefusedAfterEnd`; `ProgressForward`; `RunSettles` |
| `stop_after_completion` | violation | a stop cancels a run that has completed: `updateRunCancelled` has no condition on the status, contrary to the handler's comment |
| `running_for_ever` | violation | an execution stopped before its first step writes the `running` it had loaded to the experiment, which then refuses every execution though no run is active |
| `scheduled_never_runs` | violation, fair | an experiment with a schedule never gets a run while a scheduler is up, because its INSERT names a user that does not exist |

**Further disagreements** that the modules have as the code has them, without a
run of their own: concurrent requests exceed the concurrency limit, since active
runs are counted in one statement and the run inserted in another
(`experiment/handlers.go:914`); a run that exhausts its retries stays pending,
because the UPDATE names `updated_at`, which the table lacks
(`worker/processor.go:318`); without Redis the first dequeue takes the process down
(`../cmd/backend/main.go:160`); a deletion of a cluster that has past runs drops the
client and then fails on the foreign key, so the cluster looks connected and its
executions are dry runs (`kubernetes/handlers.go:606`); a rule with ports and no
addresses counts as one that lets everything pass, and namespace peers never match
(`kubernetes/network_policy.go:839`); a second step is credited with the alerts of
the first, because the time range asked for is the run's (`siem/validator.go:254`);
no row of a validation is stored; what a notification says of a run is the status
before the verdict (`experiment/engine.go:425`). The comment of the limiter speaks
of a sliding window; both forms count in fixed windows.

**Bounds.** Two executions and one or two stops are enough for every pairwise race
of the lifecycle: two executors of one run, two runs, a stop against either, two
stops against each other. A second row separates "adopts the run" from "inserts
another"; two steps separate the checks at the start of a step from those inside
it. One disturbance at a time keeps the graphs small; the theorems have no such
bound. `MaxBoots = 2` is what a restart needs, a channel for one run and two
submissions fill it, one retry separates the first from the last attempt. The
pool is instantiated with one run: two submissions of the same run contain the
double placement, and different runs interact only through places in the channel.
The queue's `Scale` is `MaxTs + 1`, the smallest value the assumption allows, and
its clock runs up to `MaxTs`, so that both boundaries of the time component occur.

The last three passing runs take their actors in sets (`Taking`, `Mixes`): each set
meets in every order, and two actors that share no state are not in one. A page of
two rows over up to three is filled, exceeded and left; three clients are a first,
its replacement and another cluster's; two steps let a cleanup of one meet the
creation of the next; alerts of three severities, with a type whose name contains
another's, reach every branch of the score; a quota of one and three requests pass
the limit in one window and meet the next; lifetimes of one and two ticks and a
clock of three let both kinds of token expire before and after each command.

**Deadlock** is checked for the queue. In the others the system may stop: every
request is answered and no other arrives, or the process is started no more.

**Fairness.** In `RunLifecycle` a request need not arrive (the first action of a
process is outside the fairness), but net/http runs an accepted handler to its
end, and every external call in it has a deadline: weak fairness of each request's
step. In `WorkerPool`, goroutines run (weak fairness of each worker, and of
`Panic`), the 30 s of a shutdown end (`Exit`), and Kubernetes restarts the container
(`Boot`). In `Scheduler`, an execution that was fired goes on and returns, because
the scheduler gives it 30 minutes (its steps, `FireReturns`), `Stop` goes on
(`PollExits`, `JobsEnd`), and the ticker ticks (`PollOnce`). In `Clusters`, the
goroutine that verifies goes on, and so does `CloseAll`. In `Services`, a
validating run goes on (its next step, or `CutShort`: the failure of a poll under a
context that has ended), and its context ends (`ContextEnds`: 30 minutes, from the
pool or the scheduler); a search job need never be done. Fairness is never assumed of users, of expiry,
of alerts or of faults.

## 4. What is proved

All proofs start from the assumptions on constants that the modules name
(`ConstantsAssumption`, `PoolAssumption`, `QueueAssumption` and so on) and hold for
every number of requests, runs, steps, replicas, workers, clusters, clients,
retries, alerts, pages and faults. Where a property counts, what is counted must be
finite: the built-in modules and the templates (`TemplatesAssumption`), and the
expected alerts of a step (`DetectionAssumption`). `SiemAssumption` keeps validating
runs, tests of a connection and readers of alerts apart: they are different requests.

* `RunLifecycleProofs`. `TypeInv` is `TypeOK` and "a stop past its lookup has a
  run" (without it the UPDATEs of a stop could not be typed). `CancelFuncLive` is
  inductive with it. `VerdictEarned` follows from `ExecInv`, which ties what an
  executor remembers (counts, verdict) to where it is. `StopIsFinal` needs that the
  executor a stop has hit has a cancelled context for good, and that a sole
  executor stays sole while the row is cancelled, because only an active run is
  adopted. `OneLateAttack` needs that an executor past its check has launched none
  since the key was set. `OrphanNeedsFault` is inductive together with `TypeInv`,
  `CancelFuncLive` and `ExecInv`: the cancel function that a stop finds belongs to
  an executor of its own run, so the executor it silences is replaced by the stop
  itself.
* `WorkerPoolProofs`. `HolderInv` says that a worker holds a run exactly while it
  is busy with it and that no worker survives its process; `CountInv` that retry
  counter and attempts never exceed the failures counted. `TypeOK`, `GivenUpEarned`
  and `RedisKeepsIt` follow. `BoundedExecutions` is not inductive: a run that is
  queued may still be started. `TicketInv` counts with the starts the tickets that
  may become one: the run's place in Redis' queue, its places in the channel, the
  callers about to put it there, and the workers that carry it to the engine. A
  submission makes two; a worker takes one over and keeps it through its retries
  until the engine starts; only a command that Redis executed twice makes one from
  nothing.
* `ExperimentQueueProofs`. `Encoding` and `Lexicographic` are arithmetic: division
  by the scale recovers the priority and the order of scores is the lexicographic
  one. `HeadIsFirst` applies them to the run that `ZPOPMAX` takes, and
  `SortedSetIsPriorityQueue` is the refinement. For `NobodyJumpsTheQueue`, a run
  falls back only if the set of those ahead of it gets a new member (`FallsBehind`,
  where the queue must be finite, `FiniteQueue`); what leaves the queue adds none,
  and an arrival adds only itself, which is ahead by its score alone.
* `SchedulerProofs`. `SchedInv` has a part for each thing: `RunnerInv` (the entries
  of a runner), `RunsInv` (every run belongs to a user's request that drives it and
  to an experiment past its draft, which gives `DraftHasNoRuns` and
  `ScheduledOnlyAdopts`), `SlugInv` (a request about to write has not asked for a
  module's slug), and `StepsInv` (steps are none or all, and an answer is about an
  experiment whose steps no longer change). `PagesAreComplete` needs `ListInv`: a
  client on its way has seen the rows whose rank is before its page. A page is an
  interval of ranks, so its length follows from that of an interval, and no
  induction over the pages is needed.
* `StepResourcesProofs` and `KubernetesProofs`. `PodInv` is four facts: `PlacedInv`
  (where there is a pod, a run has been), `BoundInv` (who is alone in a namespace
  still makes it, without pods, or it has its limits), `LeftInv` (a run's pods are
  in its list but for the one about to be recorded, and in its last cleanup among
  those to do). `KubInv` adds `CacheInv`, `ActorInv` and `RunInv`: a live execution
  has a row, which keeps the row of its cluster by the foreign key.
  `ClientsAreShared` is an action property that follows from `CacheInv`.
  `VerdictsAgree` is about the operators alone: for blocks, each step of the
  controller's loop says what `Passes` says. `KubTyped` has the types that the other
  invariants leave out.
* `RateLimitProofs` and `ServicesProofs`. `RateInv`: requests counted in one window
  have different numbers, because a key lives beyond the last request it may count
  (`LongLived`); in one process, what was let in since the counter began is at
  most the quota, and so is what was let in before (`LocalCounts`), hence the two.
  `NotesInv`: a channel has its result if it comes before the one a sender is at.
  `ProgressInv`: the list of a run that one execution works on fits the template
  the execution is at, and so does the copy it is about to write (`Tidy`). `SessionsInv`: a key ends with its
  token, so a request that came with a revoked one and has an answer in time is
  refused. `DetectionInv` joins four: `SiemInv` (two positions hold two alerts),
  `RunsInv` (shapes), `EarnedInv` (what a validation was given, the SIEM has of its
  run, and still has when it is reported) and `ReadInv`, from which a row that
  says missed was not written too early: `FewRead` for a single page, `InOrderRead`
  for the pages of the mock, where each alert the run had is behind the offset and
  in what was got, or still to come. Pages are sets of positions, told apart by how
  many come before (`Nth`), so they are counted and not folded. `TypeOK` of the
  whole also states bounds, which have invariants of their own: a channel's attempts
  are used up before the next is tried (`NotesBounds`), each run in Redis was begun
  by an execution of its own (`ProgressBounds`), each request counts itself once
  (`RateBounds`), and a token is not used beyond the last tick (`SessionsBounds`).
  `ServicesInv` joins the invariants.

Only model-checked: liveness (`RunsTerminate`, `Served`, `StopReturns`,
`VerificationEnds`, `RunSettles`), which is out of the prover's reach. Every
invariant and every action property of a passing run is a theorem; so is the
refinement of the priority queue. The three runs that expect a violation are
counterexamples, for which there is nothing to prove.

## 5. Not modelled, and what is left

Not modelled at all: the frontend with its WebSocket client, store, pages and
components (the server has no WebSocket end point for it, and the store only
repeats answers); reports (`GenerateReport` passes the driver a slice it cannot
encode, so no row is ever inserted); configuration, logging and profiling; the
commands that the attack modules build, which are strings; the sliding limiter of
`middleware/security.go`, which only tests use. Of the modelled components, the
wording of messages, contents of results and evidence, permissions, the readings of
the resource monitor, status reports, and the simulation the handler falls back to
without an engine are left out.

Left for later:

1. Executions by scheduler and pool as processes of `RunLifecycle`; two replicas in
   `WorkerPool`.
2. `RunLifecycle` as an implementation of an abstract run (pending, running, ended
   once), restricted to one executor.
3. The WebSocket client of the frontend: reconnection and subscriptions.
