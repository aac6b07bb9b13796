---------------------------- MODULE SchedulerProofs ----------------------------
(* What Scheduler promises for any number of experiments, requests,        *)
(* executions and replicas: of the cron runner of each replica, of the     *)
(* runs the scheduler drives, and of experiments that are deleted.         *)
EXTENDS Scheduler, FiniteSetTheorems, TLAPS

-----------------------------------------------------------------------------
(* The cron runner of a replica.                                           *)

\* What OneEntryPerJob and StopDrainsCron need of the types.  In a replica that
\* is stopped the entries are gone while cronJobs is left, until it exits.
CallTypes ==
  /\ calls \in [Ops -> {"idle", "update", "redis", "row", "register", "remove", "done"}]
  /\ callOf \in [Ops -> (Exps \X Replicas) \cup {None}]
  /\ \A o \in Ops : calls[o] \notin {"idle", "done"} => callOf[o] \in Exps \X Replicas

RunnerTypes ==
  /\ phase \in [Replicas -> Phase]
  /\ loading \in [Replicas -> SUBSET Exps]
  /\ jobs \in [Replicas -> SUBSET Exps]
  /\ entries \in [Replicas -> [Exps -> Nat]]
  /\ CallTypes
  /\ fire \in [Fires -> ({"cron", "poll"} \X Replicas) \cup {None}]

RunnerInv == RunnerTypes /\ OneEntryPerJob /\ StopDrainsCron

runnerVars == <<phase, loading, jobs, entries, calls, callOf, fire>>

\* No replica has a runner or a schedule yet.
LEMMA RunnerInit == Init => RunnerInv
  <1> SUFFICES ASSUME Init PROVE RunnerInv
    OBVIOUS
  <1>1. RunnerTypes
    BY DEF Init, RunnerTypes, CallTypes, Phase
  <1>2. OneEntryPerJob
    BY DEF Init, OneEntryPerJob
  <1>3. StopDrainsCron
    BY DEF Init, StopDrainsCron
  <1>4. QED
    BY <1>1, <1>2, <1>3 DEF RunnerInv

\* Registering any set of experiments leaves one entry for each of cronJobs.
LEMMA RegisterKeeps ==
  ASSUME RunnerInv, NEW h \in Replicas, phase[h] # "stopped",
         NEW X \in SUBSET Exps, RegisterJobs(h, X)
  PROVE  /\ jobs' \in [Replicas -> SUBSET Exps]
         /\ entries' \in [Replicas -> [Exps -> Nat]]
         /\ \A k \in Replicas : phase[k] # "stopped" =>
              \A x \in Exps : entries'[k][x] = IF x \in jobs'[k] THEN 1 ELSE 0
  <1>1. jobs' \in [Replicas -> SUBSET Exps]
    BY DEF RunnerInv, RunnerTypes, RegisterJobs
  <1>2. entries' \in [Replicas -> [Exps -> Nat]]
    BY DEF RunnerInv, RunnerTypes, RegisterJobs
  <1>3. ASSUME NEW k \in Replicas, phase[k] # "stopped", NEW x \in Exps
        PROVE  entries'[k][x] = IF x \in jobs'[k] THEN 1 ELSE 0
    <2>1. CASE k = h
      BY <1>3, <2>1 DEF RunnerInv, RunnerTypes, OneEntryPerJob, RegisterJobs
    <2>2. CASE k # h
      BY <1>3, <2>2 DEF RunnerInv, RunnerTypes, OneEntryPerJob, RegisterJobs
    <2>3. QED
      BY <2>1, <2>2
  <1>4. QED
    BY <1>1, <1>2, <1>3

\* RunnerInv is about the variables of the runner only.
LEMMA RunnerStutter == RunnerInv /\ UNCHANGED runnerVars => RunnerInv'
  <1> SUFFICES ASSUME RunnerInv, UNCHANGED runnerVars PROVE RunnerInv'
    OBVIOUS
  <1>1. RunnerTypes'
    BY DEF RunnerInv, RunnerTypes, CallTypes, runnerVars, Phase, Exps, Ops
  <1>2. OneEntryPerJob'
    BY DEF RunnerInv, OneEntryPerJob, runnerVars, Exps
  <1>3. StopDrainsCron'
    BY DEF RunnerInv, StopDrainsCron, FiredBy, runnerVars
  <1>4. QED
    BY <1>1, <1>2, <1>3 DEF RunnerInv

\* A step of a call that leaves the runners alone.
LEMMA RunnerCalls ==
  ASSUME RunnerInv, UNCHANGED <<phase, loading, jobs, entries, fire>>, CallTypes'
  PROVE  RunnerInv'
  <1>1. RunnerTypes' /\ OneEntryPerJob'
    BY DEF RunnerInv, RunnerTypes, OneEntryPerJob, Exps
  <1>2. StopDrainsCron'
    BY DEF RunnerInv, StopDrainsCron, FiredBy
  <1>3. QED
    BY <1>1, <1>2 DEF RunnerInv

\* A step of one replica that changes its phase and perhaps its entries.
LEMMA RunnerPhase ==
  ASSUME RunnerInv, NEW h \in Replicas, NEW p \in Phase,
         phase' = [phase EXCEPT ![h] = p],
         loading' \in [Replicas -> SUBSET Exps],
         phase[h] # "stopped",
         UNCHANGED <<calls, callOf, fire>>,
         \/ p # "stopped" /\ UNCHANGED <<jobs, entries>>
         \/ p # "stopped" /\ \E X \in SUBSET Exps : RegisterJobs(h, X)
         \/ /\ p = "stopped" /\ FiredBy(h, "cron") = {}
            /\ jobs' = jobs
            /\ entries' = [entries EXCEPT ![h] = [x \in Exps |-> 0]]
  PROVE  RunnerInv'
  <1>1. RunnerTypes'
    <2>1. phase' \in [Replicas -> Phase]
      BY DEF RunnerInv, RunnerTypes
    <2>2. jobs' \in [Replicas -> SUBSET Exps] /\ entries' \in [Replicas -> [Exps -> Nat]]
      <3>1. CASE UNCHANGED <<jobs, entries>>
        BY <3>1 DEF RunnerInv, RunnerTypes
      <3>2. CASE \E X \in SUBSET Exps : RegisterJobs(h, X)
        BY <3>2, RegisterKeeps
      <3>3. CASE jobs' = jobs /\ entries' = [entries EXCEPT ![h] = [x \in Exps |-> 0]]
        BY <3>3 DEF RunnerInv, RunnerTypes
      <3>4. QED
        BY <3>1, <3>2, <3>3
    <2>3. QED
      BY <2>1, <2>2 DEF RunnerInv, RunnerTypes, CallTypes, Ops, Exps
  <1>2. OneEntryPerJob'
    <2> SUFFICES ASSUME NEW k \in Replicas, phase'[k] # "stopped", NEW x \in Exps
                 PROVE  entries'[k][x] = IF x \in jobs'[k] THEN 1 ELSE 0
      BY DEF OneEntryPerJob, Exps
    <2>1. phase[k] # "stopped"
      BY DEF RunnerInv, RunnerTypes
    <2>2. CASE UNCHANGED <<jobs, entries>>
      BY <2>1, <2>2 DEF RunnerInv, OneEntryPerJob
    <2>3. CASE \E X \in SUBSET Exps : RegisterJobs(h, X)
      BY <2>1, <2>3, RegisterKeeps
    <2>4. CASE /\ p = "stopped" /\ jobs' = jobs
               /\ entries' = [entries EXCEPT ![h] = [y \in Exps |-> 0]]
      <3>1. k # h
        BY <2>4 DEF RunnerInv, RunnerTypes
      <3>2. QED
        BY <2>1, <2>4, <3>1 DEF RunnerInv, RunnerTypes, OneEntryPerJob
    <2>5. QED
      BY <2>2, <2>3, <2>4
  <1>3. StopDrainsCron'
    <2> SUFFICES ASSUME NEW k \in Replicas, phase'[k] = "stopped"
                 PROVE  FiredBy(k, "cron")' = {}
      BY DEF StopDrainsCron
    <2>1. CASE k = h
      BY <2>1 DEF RunnerInv, RunnerTypes, FiredBy
    <2>2. CASE k # h
      BY <2>2 DEF RunnerInv, RunnerTypes, StopDrainsCron, FiredBy
    <2>3. QED
      BY <2>1, <2>2
  <1>4. QED
    BY <1>1, <1>2, <1>3 DEF RunnerInv

\* A caller that leaves keeps the runner of its replica in order.
LEMMA RunnerExit ==
  ASSUME RunnerInv, NEW h \in Replicas, Exit(h)
  PROVE  RunnerInv'
  <1>1. RunnerTypes'
    BY DEF RunnerInv, RunnerTypes, CallTypes, Exit, Phase, Ops, Exps
  <1>2. OneEntryPerJob'
    <2> SUFFICES ASSUME NEW k \in Replicas, phase'[k] # "stopped", NEW x \in Exps
                 PROVE  entries'[k][x] = IF x \in jobs'[k] THEN 1 ELSE 0
      BY DEF OneEntryPerJob, Exps
    <2>1. CASE k = h
      BY <2>1 DEF RunnerInv, RunnerTypes, Exit
    <2>2. CASE k # h
      BY <2>2 DEF RunnerInv, RunnerTypes, OneEntryPerJob, Exit
    <2>3. QED
      BY <2>1, <2>2
  <1>3. StopDrainsCron'
    <2> SUFFICES ASSUME NEW k \in Replicas, phase'[k] = "stopped",
                        NEW f \in Fires, fire'[f] = <<"cron", k>>
                 PROVE  FALSE
      BY DEF StopDrainsCron, FiredBy
    <2>1. phase[k] = "stopped"
      BY DEF RunnerInv, RunnerTypes, Exit
    <2>2. fire[f] = <<"cron", k>>
      <3>1. <<"cron", k>> # None
        BY SchedulerAssumption
      <3>2. fire'[f] = None \/ fire'[f] = fire[f]
        BY DEF Exit
      <3>3. QED
        BY <3>1, <3>2
    <2>3. QED
      BY <2>1, <2>2 DEF RunnerInv, StopDrainsCron, FiredBy
  <1>4. QED
    BY <1>1, <1>2, <1>3 DEF RunnerInv

\* A step that only registers, or removes one entry with its job, in a replica
\* that is not stopped.
LEMMA RunnerEntries ==
  ASSUME RunnerInv, UNCHANGED <<phase, loading, fire>>, CallTypes',
         NEW h \in Replicas, phase[h] # "stopped",
         \/ \E X \in SUBSET Exps : RegisterJobs(h, X)
         \/ \E x \in jobs[h] : /\ jobs' = [jobs EXCEPT ![h] = @ \ {x}]
                              /\ entries' = [entries EXCEPT ![h][x] = @ - 1]
  PROVE  RunnerInv'
  <1>1. CASE \E X \in SUBSET Exps : RegisterJobs(h, X)
    <2>1. RunnerTypes' /\ OneEntryPerJob'
      BY <1>1, RegisterKeeps DEF RunnerInv, RunnerTypes, OneEntryPerJob, Exps, Ops
    <2>2. QED
      BY <2>1 DEF RunnerInv, StopDrainsCron, FiredBy
  <1>2. ASSUME NEW x \in jobs[h],
               jobs' = [jobs EXCEPT ![h] = @ \ {x}],
               entries' = [entries EXCEPT ![h][x] = @ - 1]
        PROVE  RunnerInv'
    <2>1. x \in Exps /\ entries[h] \in [Exps -> Nat] /\ entries[h][x] = 1
      BY <1>2 DEF RunnerInv, RunnerTypes, OneEntryPerJob
    <2>2. entries' = [entries EXCEPT ![h] = [entries[h] EXCEPT ![x] = 0]]
      BY <1>2, <2>1 DEF RunnerInv, RunnerTypes
    <2>3. RunnerTypes'
      BY <1>2, <2>1, <2>2 DEF RunnerInv, RunnerTypes, Exps, Ops
    <2>4. OneEntryPerJob'
      <3> SUFFICES ASSUME NEW k \in Replicas, phase[k] # "stopped", NEW y \in Exps
                   PROVE  entries'[k][y] = IF y \in jobs'[k] THEN 1 ELSE 0
        BY DEF OneEntryPerJob, Exps
      <3>1. CASE k = h
        BY <1>2, <2>1, <2>2, <3>1 DEF RunnerInv, RunnerTypes, OneEntryPerJob
      <3>2. CASE k # h
        BY <1>2, <2>2, <3>2 DEF RunnerInv, RunnerTypes, OneEntryPerJob
      <3>3. QED
        BY <3>1, <3>2
    <2>5. StopDrainsCron'
      BY DEF RunnerInv, StopDrainsCron, FiredBy
    <2>6. QED
      BY <2>3, <2>4, <2>5 DEF RunnerInv
  <1>3. QED
    BY <1>1, <1>2

\* Executions begin in the name of a replica that still runs, or return.
LEMMA RunnerFires ==
  ASSUME RunnerInv, UNCHANGED <<phase, loading, jobs, entries, calls, callOf>>,
         fire' \in [Fires -> ({"cron", "poll"} \X Replicas) \cup {None}],
         \A f \in Fires, h \in Replicas :
           fire'[f] = <<"cron", h>> => fire[f] = fire'[f] \/ phase[h] # "stopped"
  PROVE  RunnerInv'
  <1>1. RunnerTypes' /\ OneEntryPerJob'
    BY DEF RunnerInv, RunnerTypes, CallTypes, OneEntryPerJob, Exps, Ops
  <1>2. StopDrainsCron'
    BY DEF RunnerInv, StopDrainsCron, FiredBy
  <1>3. QED
    BY <1>1, <1>2 DEF RunnerInv

\* Schedules are those of experiments.
CronOfExps == cron \subseteq Exps

\* Only experiments come to have a recurring schedule.
LEMMA CronNext == CronOfExps /\ [Next]_vars => CronOfExps'
  <1> SUFFICES ASSUME CronOfExps, [Next]_vars PROVE cron' \subseteq Exps
    BY DEF CronOfExps, Exps
  <1>1. CASE UNCHANGED cron
    BY <1>1 DEF CronOfExps
  <1>2. ASSUME NEW p \in Requests, RecordStep(p) PROVE cron' \subseteq Exps
    <2>1. CASE CreateCommit(p)
      BY <2>1 DEF CreateCommit, First, CronOfExps, expTables
    <2>2. CASE UpdateWrite(p)
      BY <2>2 DEF UpdateWrite, ExpRows, CronOfExps
    <2>3. CASE DeleteRow(p)
      BY <2>3 DEF DeleteRow, CronOfExps, expTables
    <2>4. CASE UNCHANGED cron
      BY <2>4 DEF CronOfExps
    <2>5. QED
      BY <1>2, <2>1, <2>2, <2>3, <2>4
      DEF RecordStep, CreateBegin, CreateLookup, UpdateRead, DeleteRead,
          DeleteSteps, DeleteArchives, GetRow, GetSteps, GetRuns, ListBegin,
          ListCount, ListPage, Activate, LoadExperiment, FindActiveRun,
          InsertRun, StartRun, FinishRun, expTables, callVars
  <1>3. ASSUME NEW o \in Ops, RecurUpdate(o) \/ CancelRow(o) PROVE cron' \subseteq Exps
    BY <1>3 DEF RecurUpdate, CancelRow, ExpRows, CronOfExps
  <1>4. ASSUME NEW p \in TmplRequests, TemplateStep(p), UNCHANGED recordVars
        PROVE  cron' \subseteq Exps
    BY <1>1, <1>4 DEF recordVars
  <1>5. ASSUME NEW h \in Replicas, ReplicaStep(h) PROVE cron' \subseteq Exps
    BY <1>1, <1>5
    DEF ReplicaStep, Start, LoadJobs, Stop, PollExits, JobsEnd, Exit, CronFires,
        PollOnce, records, recordVars, expTables, unfired
  <1>6. ASSUME NEW f \in Fires, FireReturns(f) PROVE cron' \subseteq Exps
    BY <1>1, <1>6 DEF FireReturns, expTables
  <1>7. ASSUME NEW o \in Ops, OpStep(o) PROVE cron' \subseteq Exps
    BY <1>1, <1>3, <1>7
    DEF OpStep, LookUp, ScheduleKey, RecurRegister, CancelKey, CancelRemove,
        records, recordVars
  <1>8. ASSUME NEW x \in Exps, KeyExpires(x) PROVE cron' \subseteq Exps
    BY <1>1, <1>8 DEF KeyExpires, records, recordVars
  <1>9. QED
    BY <1>1, <1>2, <1>4, <1>5, <1>6, <1>7, <1>8 DEF Next, vars, recordVars

\* Every step keeps the runner in order.
LEMMA RunnerNext == RunnerInv /\ CronOfExps /\ [Next]_vars => RunnerInv'
  <1> SUFFICES ASSUME RunnerInv, CronOfExps, [Next]_vars PROVE RunnerInv'
    OBVIOUS
  <1>1. ASSUME NEW h \in Replicas, Start(h) PROVE RunnerInv'
    <2>1. /\ phase' = [phase EXCEPT ![h] = "load"] /\ phase[h] # "stopped"
          /\ UNCHANGED <<calls, callOf, fire, jobs, entries>>
      BY <1>1 DEF Start
    <2>2. Scheduled \in SUBSET Exps
      BY DEF Scheduled, CronOfExps
    <2>3. loading' \in [Replicas -> SUBSET Exps]
      BY <1>1, <2>2 DEF Start, RunnerInv, RunnerTypes
    <2>4. QED
      BY <2>1, <2>3, RunnerPhase DEF Phase
  <1>2. ASSUME NEW h \in Replicas, LoadJobs(h) PROVE RunnerInv'
    <2>1. loading[h] \in SUBSET Exps /\ loading' \in [Replicas -> SUBSET Exps]
      BY <1>2 DEF LoadJobs, RunnerInv, RunnerTypes
    <2>2. QED
      BY <1>2, <2>1, RunnerPhase DEF LoadJobs, Phase
  <1>3. ASSUME NEW h \in Replicas, Stop(h) PROVE RunnerInv'
    BY <1>3, RunnerPhase DEF Stop, Phase, RunnerInv, RunnerTypes
  <1>4. ASSUME NEW h \in Replicas, PollExits(h) PROVE RunnerInv'
    BY <1>4, RunnerPhase DEF PollExits, Phase, RunnerInv, RunnerTypes
  <1>5. ASSUME NEW h \in Replicas, JobsEnd(h) PROVE RunnerInv'
    BY <1>5, RunnerPhase DEF JobsEnd, Phase, RunnerInv, RunnerTypes
  <1>6. ASSUME NEW h \in Replicas, CronFires(h) PROVE RunnerInv'
    BY <1>6, RunnerFires DEF CronFires, unfired, RunnerInv, RunnerTypes
  <1>7. ASSUME NEW h \in Replicas, PollOnce(h) PROVE RunnerInv'
    <2>1. PICK X : PollStarts(h, X)
      BY <1>7 DEF PollOnce
    <2>2. PICK F \in SUBSET Fires :
            fire' = [f \in Fires |-> IF f \in F THEN <<"poll", h>> ELSE fire[f]]
      BY <2>1 DEF PollStarts
    <2>3. fire' \in [Fires -> ({"cron", "poll"} \X Replicas) \cup {None}]
      BY <2>2 DEF RunnerInv, RunnerTypes
    <2>4. ASSUME NEW f \in Fires, NEW k \in Replicas, fire'[f] = <<"cron", k>>
          PROVE  fire[f] = fire'[f]
      BY <2>2, <2>4
    <2>5. UNCHANGED <<phase, loading, jobs, entries, calls, callOf>>
      BY <1>7 DEF PollOnce, unfired
    <2>6. QED
      BY <2>3, <2>4, <2>5, RunnerFires
  <1>8. ASSUME NEW f \in Fires, FireReturns(f) PROVE RunnerInv'
    <2>1. fire' = [fire EXCEPT ![f] = None]
          /\ UNCHANGED <<phase, loading, jobs, entries, calls, callOf>>
      BY <1>8 DEF FireReturns
    <2>2. \A h \in Replicas : None # <<"cron", h>>
      BY SchedulerAssumption
    <2>3. QED
      BY <2>1, <2>2, RunnerFires DEF RunnerInv, RunnerTypes
  <1>9. ASSUME NEW o \in Ops, OpStep(o) PROVE RunnerInv'
    <2>1. CASE LookUp(o) \/ CancelKey(o)
      <3>1. PICK x \in Exps, h \in Replicas : callOf' = [callOf EXCEPT ![o] = <<x, h>>]
        BY <2>1 DEF LookUp, CancelKey, OnReplica, ExpRows
      <3>2. PICK c \in {"update", "redis", "row"} : calls' = [calls EXCEPT ![o] = c]
        BY <2>1 DEF LookUp, CancelKey, CallGoto
      <3>3. CallTypes'
        BY <3>1, <3>2 DEF RunnerInv, RunnerTypes, CallTypes, Ops, Exps
      <3>4. UNCHANGED <<phase, loading, jobs, entries, fire>>
        BY <2>1 DEF LookUp, CancelKey
      <3>5. QED
        BY <3>3, <3>4, RunnerCalls
    <2>2. CASE RecurUpdate(o) \/ ScheduleKey(o) \/ CancelRow(o)
      <3>1. PICK c \in {"redis", "register", "remove", "done"} :
              calls' = [calls EXCEPT ![o] = c]
        BY <2>2 DEF RecurUpdate, ScheduleKey, CancelRow, CallGoto
      <3>2. calls[o] \in {"update", "redis", "row"}
        BY <2>2 DEF RecurUpdate, ScheduleKey, CancelRow, CallGoto
      <3>3. UNCHANGED <<phase, loading, jobs, entries, callOf, fire>>
        BY <2>2 DEF RecurUpdate, ScheduleKey, CancelRow
      <3>4. CallTypes'
        BY <3>1, <3>2, <3>3 DEF RunnerInv, RunnerTypes, CallTypes, Ops, Exps
      <3>5. QED
        BY <3>3, <3>4, RunnerCalls
    <2>3. CASE RecurRegister(o) \/ CancelRemove(o)
      <3>1. /\ calls[o] \in {"register", "remove"}
            /\ calls' = [calls EXCEPT ![o] = "done"]
            /\ UNCHANGED <<phase, loading, callOf, fire>>
        BY <2>3 DEF RecurRegister, CancelRemove, CallGoto
      <3>2. CallTypes'
        BY <3>1 DEF RunnerInv, RunnerTypes, CallTypes, Ops, Exps
      <3>3. PICK x \in Exps, h \in Replicas : callOf[o] = <<x, h>>
        BY <3>1 DEF RunnerInv, RunnerTypes, CallTypes
      <3>4. CASE UNCHANGED <<jobs, entries>>
        BY <3>1, <3>2, <3>4, RunnerCalls
      <3>5. CASE ~ UNCHANGED <<jobs, entries>>
        <4>1. \/ Running(h) /\ RegisterJobs(h, {x})
              \/ /\ Running(h) /\ x \in jobs[h]
                 /\ jobs' = [jobs EXCEPT ![h] = @ \ {x}]
                 /\ entries' = [entries EXCEPT ![h][x] = @ - 1]
          BY <2>3, <3>3, <3>5 DEF RecurRegister, CancelRemove
        <4>2. phase[h] # "stopped" /\ {x} \in SUBSET Exps
          BY <4>1 DEF Running
        <4>3. QED
          BY <3>1, <3>2, <4>1, <4>2, RunnerEntries
      <3>6. QED
        BY <3>4, <3>5
    <2>4. QED
      BY <1>9, <2>1, <2>2, <2>3 DEF OpStep
  <1>10. CASE \E x \in Exps : KeyExpires(x)
    BY <1>10, RunnerStutter DEF KeyExpires, runnerVars
  <1>11. CASE UNCHANGED schedVars
    BY <1>11, RunnerStutter DEF schedVars, runnerVars
  <1>12. QED
    BY <1>1, <1>2, <1>3, <1>4, <1>5, <1>6, <1>7, <1>8, <1>9, <1>10, <1>11,
       RunnerExit
    DEF Next, ReplicaStep, vars

-----------------------------------------------------------------------------
(* The runs: who has inserted them, and of which experiments.              *)

Fresh == {"none", "draft"}
Asking == {"load", "find", "insert"}

RunTypes ==
  /\ expSt \in [Exps -> ExpStatus \cup Absent]
  /\ runExp \in [RunIds -> Exps \cup {None}]
  /\ runSt \in [RunIds -> RunStatus \cup Absent]
  /\ pc \in [Requests -> PC]
  /\ exp \in [Requests -> Exps \cup {None}]
  /\ run \in [Calls -> RunIds \cup {None}]

\* Experiment x has been activated, or a request that executes it could not.
Begun(x) == expSt[x] \notin Fresh \/ \E u \in Users \cap failed : exp[u] = x

\* Each run there is or was belongs to a user's request, which drives it, and to
\* an experiment that has begun; no user has a run before it asks.
RunsInv ==
  /\ RunTypes
  /\ \A r \in RunIds : runSt[r] # "none" =>
       runExp[r] \in Exps /\ Begun(runExp[r]) /\ \E u \in Users : run[u] = r
  /\ \A c \in Calls : run[c] # None => runSt[run[c]] # "none"
  /\ \A u \in Users : pc[u] = "idle" => run[u] = None /\ u \notin failed
  /\ \A u \in Users : pc[u] \in Asking =>
       run[u] = None /\ exp[u] \in Exps /\ Begun(exp[u])

\* There are no runs yet.
LEMMA RunsInit == Init => RunsInv
  <1> SUFFICES ASSUME Init PROVE RunsInv
    OBVIOUS
  <1>1. RunTypes
    BY DEF Init, RecordsInit, RunTypes, PC, ExpStatus, Absent, RunStatus
  <1>2. QED
    BY <1>1 DEF Init, RecordsInit, RunsInv, Asking, Calls, Requests

\* What a step keeps that inserts no run, adopts none and activates nothing.
LEMMA RunsKept ==
  ASSUME RunsInv, RunTypes', UNCHANGED runExp,
         \A r \in RunIds : runSt'[r] = "none" <=> runSt[r] = "none",
         \A c \in Calls : run'[c] = run[c] \/ (c \in Fires /\ run'[c] = None),
         \A x \in Exps : expSt'[x] \in Fresh => expSt[x] \in Fresh,
         \A u \in Users : /\ exp'[u] = exp[u]
                          /\ u \in failed' <=> u \in failed
                          /\ pc'[u] = "idle" => pc[u] = "idle"
                          /\ pc'[u] \in Asking => pc[u] \in Asking
  PROVE  RunsInv'
  <1>1. \A u \in Users : run'[u] = run[u]
    BY RecordsAssumption DEF Calls
  <1>0. \A x \in Exps : Begun(x) => Begun(x)'
    BY DEF Begun, Exps
  <1>2. ASSUME NEW r \in RunIds, runSt'[r] # "none"
        PROVE  runExp'[r] \in Exps /\ Begun(runExp[r])' /\ \E u \in Users : run'[u] = r
    <2>1. runExp[r] \in Exps /\ Begun(runExp[r]) /\ \E u \in Users : run[u] = r
      BY <1>2 DEF RunsInv
    <2>2. \E u \in Users : run'[u] = r
      BY <1>1, <2>1
    <2>3. PICK x \in Exps : x = runExp[r] /\ x = runExp'[r]
      BY <2>1
    <2>4. Begun(x)'
      BY <1>0, <2>1, <2>3
    <2>5. QED
      BY <2>2, <2>3, <2>4 DEF Begun
  <1>3. ASSUME NEW c \in Calls, run'[c] # None
        PROVE  runSt'[run'[c]] # "none"
    <2>1. run'[c] = run[c] /\ run[c] \in RunIds
      BY <1>3 DEF RunsInv, RunTypes
    <2>2. QED
      BY <1>3, <2>1 DEF RunsInv
  <1>4. ASSUME NEW u \in Users
        PROVE  /\ pc'[u] = "idle" => run'[u] = None /\ u \notin failed'
               /\ pc'[u] \in Asking =>
                    run'[u] = None /\ exp'[u] \in Exps /\ Begun(exp[u])'
    <2>1. pc'[u] = "idle" => run'[u] = None /\ u \notin failed'
      BY <1>1 DEF RunsInv
    <2>2. ASSUME pc'[u] \in Asking
          PROVE  run'[u] = None /\ exp'[u] \in Exps /\ Begun(exp[u])'
      <3>1. run[u] = None /\ exp[u] \in Exps /\ Begun(exp[u])
        BY <2>2 DEF RunsInv
      <3>2. PICK x \in Exps : x = exp[u] /\ x = exp'[u]
        BY <3>1
      <3>3. Begun(x)'
        BY <1>0, <3>1, <3>2
      <3>4. QED
        BY <1>1, <3>1, <3>2, <3>3 DEF Begun
    <2>3. QED
      BY <2>1, <2>2
  <1>5. QED
    BY <1>2, <1>3, <1>4 DEF RunsInv, Exps, RunIds, Calls, Asking

\* Users and firings are calls, and calls are requests.
LEMMA Domains == /\ Users \subseteq Calls /\ Fires \subseteq Calls /\ Calls \subseteq Requests
                 /\ \A r \in RunIds : r # None
                 /\ None \notin Exps
  <1>1. RunIds \subseteq Nat /\ Exps \subseteq Nat
    BY DEF RunIds, Exps
  <1>2. QED
    BY <1>1, TemplatesAssumption DEF Calls, Requests

\* A request records its own failures only.
LEMMA FailedBy ==
  ASSUME NEW p \in Requests, RecordStep(p)
  PROVE  /\ failed' = failed \/ failed' = failed \cup {p}
         /\ p \in Calls /\ ~Activate(p) => failed' = failed
  <1>1. CASE DeleteSteps(p) \/ DeleteRow(p)
    BY <1>1, RecordsAssumption DEF DeleteSteps, DeleteRow, Calls
  <1>2. CASE GetSteps(p)
    BY <1>2, RecordsAssumption DEF GetSteps, Calls
  <1>3. CASE Activate(p)
    BY <1>3 DEF Activate
  <1>4. CASE UNCHANGED failed
    BY <1>4
  <1>5. QED
    BY <1>1, <1>2, <1>3, <1>4
    DEF RecordStep, CreateBegin, CreateLookup, CreateCommit, UpdateRead,
        UpdateWrite, DeleteRead, DeleteArchives, GetRow, GetRuns, ListBegin,
        ListCount, ListPage, LoadExperiment, FindActiveRun, InsertRun, StartRun,
        FinishRun, requestVars, callVars

\* The requests that are no executions.
LEMMA RunsRequest ==
  ASSUME RunsInv, NEW p \in Requests, RecordStep(p), p \notin Calls
  PROVE  RunsInv'
  <1>1. UNCHANGED <<runExp, run>>
    BY DEF RecordStep, CreateBegin, CreateLookup, CreateCommit, UpdateRead,
           UpdateWrite, DeleteRead, DeleteSteps, DeleteRow, DeleteArchives,
           GetRow, GetSteps, GetRuns, ListBegin, ListCount, ListPage, Activate,
           LoadExperiment, FindActiveRun, InsertRun, StartRun, FinishRun,
           runTable, Calls
  <1>2. PICK c \in PC : pc' = [pc EXCEPT ![p] = c]
    BY DEF RecordStep, CreateBegin, CreateLookup, CreateCommit, UpdateRead,
           UpdateWrite, DeleteRead, DeleteSteps, DeleteRow, DeleteArchives,
           GetRow, GetSteps, GetRuns, ListBegin, ListCount, ListPage, Activate,
           LoadExperiment, FindActiveRun, InsertRun, StartRun, FinishRun, Goto,
           PC, Calls
  <1>3. exp' = exp \/ \E x \in Exps \cup {None} : exp' = [exp EXCEPT ![p] = x]
    BY DEF RecordStep, CreateBegin, CreateLookup, CreateCommit, UpdateRead,
           UpdateWrite, DeleteRead, DeleteSteps, DeleteRow, DeleteArchives,
           GetRow, GetSteps, GetRuns, ListBegin, ListCount, ListPage, Activate,
           LoadExperiment, FindActiveRun, InsertRun, StartRun, FinishRun, First,
           Calls
  <1>4. /\ runSt' \in [RunIds -> RunStatus \cup Absent]
        /\ \A r \in RunIds : runSt'[r] = "none" <=> runSt[r] = "none"
    <2>1. CASE DeleteRow(p)
      BY <2>1 DEF DeleteRow, RunsOf, RunRows, RunsInv, RunTypes, RunStatus, Absent
    <2>2. CASE UNCHANGED runSt
      BY <2>2 DEF RunsInv, RunTypes
    <2>3. QED
      BY <2>1, <2>2
      DEF RecordStep, CreateBegin, CreateLookup, CreateCommit, UpdateRead,
          UpdateWrite, DeleteRead, DeleteSteps, DeleteArchives, GetRow,
          GetSteps, GetRuns, ListBegin, ListCount, ListPage, Activate,
          LoadExperiment, FindActiveRun, InsertRun, StartRun, FinishRun,
          runTable, Calls
  <1>5. /\ expSt' \in [Exps -> ExpStatus \cup Absent]
        /\ \A x \in Exps : expSt'[x] \in Fresh => expSt[x] \in Fresh
    <2>1. CASE CreateCommit(p)
      BY <2>1
      DEF CreateCommit, First, RunsInv, RunTypes, ExpStatus, Absent, Fresh,
          expTables
    <2>2. CASE DeleteRow(p) \/ DeleteArchives(p)
      BY <2>2
      DEF DeleteRow, DeleteArchives, RunsInv, RunTypes, ExpStatus, Absent, Fresh,
          expTables
    <2>3. CASE UNCHANGED expSt
      BY <2>3 DEF RunsInv, RunTypes
    <2>4. QED
      BY <2>1, <2>2, <2>3
      DEF RecordStep, CreateBegin, CreateLookup, UpdateRead, UpdateWrite,
          DeleteRead, DeleteSteps, GetRow, GetSteps, GetRuns, ListBegin,
          ListCount, ListPage, Activate, LoadExperiment, FindActiveRun,
          InsertRun, StartRun, FinishRun, expTables, Calls
  <1>6. /\ pc' \in [Requests -> PC] /\ exp' \in [Requests -> Exps \cup {None}]
        /\ \A u \in Users : pc'[u] = pc[u] /\ exp'[u] = exp[u]
        /\ \A u \in Users : u \in failed' <=> u \in failed
    BY <1>2, <1>3, Domains, FailedBy DEF RunsInv, RunTypes
  <1>7. RunTypes'
    BY <1>1, <1>4, <1>5, <1>6 DEF RunsInv, RunTypes, Exps, RunIds, Calls, Requests
  <1>8. \A u \in Users : /\ exp'[u] = exp[u]
                         /\ u \in failed' <=> u \in failed
                         /\ pc'[u] = "idle" => pc[u] = "idle"
                         /\ pc'[u] \in Asking => pc[u] \in Asking
    BY <1>6
  <1>9. \A q \in Calls : run'[q] = run[q] \/ (q \in Fires /\ run'[q] = None)
    BY <1>1
  <1>10. QED
    BY <1>1, <1>4, <1>5, <1>7, <1>8, <1>9, RunsKept

\* The executions.
LEMMA RunsCall ==
  ASSUME RunsInv, NEW p \in Calls, RecordStep(p)
  PROVE  RunsInv'
  <1>1. p \in Requests /\ p \notin Creates \cup Updates \cup Deletes \cup Gets \cup Lists
    BY RecordsAssumption, Domains DEF Calls
  <1>0. ~Activate(p) => failed' = failed
    BY <1>1, FailedBy
  <1>2. CASE Activate(p)
    <2>1. PICK x \in ExpRows :
            /\ exp' = [exp EXCEPT ![p] = x]
            /\ pc' = [pc EXCEPT ![p] = IF expSt[x] = "running" THEN "done" ELSE "load"]
            /\ \/ /\ expSt' = [expSt EXCEPT ![x] = IF @ = "running" THEN @ ELSE "active"]
                  /\ failed' = failed
               \/ failed' = failed \cup {p} /\ expSt' = expSt
      BY <1>2 DEF Activate, Goto
    <2>2. /\ x \in Exps /\ p \in Users /\ pc[p] = "idle"
          /\ UNCHANGED <<runExp, runSt, run>>
      BY <1>2, <2>1 DEF Activate, Goto, ExpRows, runTable
    <2>3. expSt' \in [Exps -> ExpStatus \cup Absent]
      BY <2>1, <2>2 DEF RunsInv, RunTypes, ExpStatus
    <2>4. RunTypes'
      BY <1>1, <2>1, <2>2, <2>3 DEF RunsInv, RunTypes, PC, Exps, RunIds, Calls, Requests
    <2>5. \A y \in Exps : expSt'[y] \in Fresh => expSt[y] \in Fresh
      BY <2>1, <2>2 DEF RunsInv, RunTypes, Fresh
    <2>6. /\ p \notin failed /\ exp'[p] = x /\ run[p] = None
          /\ \A u \in Users : u # p => exp'[u] = exp[u] /\ pc'[u] = pc[u]
      BY <1>1, <2>1, <2>2, Domains DEF RunsInv, RunTypes
    <2>7. \A y \in Exps : Begun(y) => Begun(y)'
      <3> SUFFICES ASSUME NEW y \in Exps, Begun(y) PROVE Begun(y)'
        OBVIOUS
      <3>1. CASE expSt[y] \notin Fresh
        BY <2>5, <3>1 DEF Begun
      <3>2. ASSUME NEW u \in Users \cap failed, exp[u] = y PROVE Begun(y)'
        <4>1. u # p /\ u \in failed'
          BY <2>1, <2>6, <3>2
        <4>2. QED
          BY <2>6, <3>2, <4>1 DEF Begun
      <3>3. QED
        BY <3>1, <3>2 DEF Begun
    <2>8. Begun(x)'
      <3>1. CASE p \in failed'
        BY <2>2, <2>6, <3>1 DEF Begun
      <3>2. CASE p \notin failed'
        <4>1. expSt'[x] \notin Fresh
          BY <2>1, <2>2, <3>2 DEF RunsInv, RunTypes, Fresh
        <4>2. QED
          BY <4>1 DEF Begun
      <3>3. QED
        BY <3>1, <3>2
    <2>9. ASSUME NEW r \in RunIds, runSt'[r] # "none"
          PROVE  runExp'[r] \in Exps /\ Begun(runExp[r])' /\ \E u \in Users : run'[u] = r
      <3>1. runExp[r] \in Exps /\ Begun(runExp[r]) /\ \E u \in Users : run[u] = r
        BY <2>2, <2>9 DEF RunsInv
      <3>2. PICK y \in Exps : y = runExp[r] /\ y = runExp'[r]
        BY <2>2, <3>1
      <3>3. Begun(y)'
        BY <2>7, <3>1, <3>2
      <3>4. QED
        BY <2>2, <3>1, <3>2, <3>3 DEF Begun
    <2>10. ASSUME NEW u \in Users
           PROVE  /\ pc'[u] = "idle" => run'[u] = None /\ u \notin failed'
                  /\ pc'[u] \in Asking =>
                       run'[u] = None /\ exp'[u] \in Exps /\ Begun(exp[u])'
      <3>1. CASE u = p
        <4>1. pc'[p] # "idle"
          BY <1>1, <2>1 DEF RunsInv, RunTypes
        <4>2. Begun(exp[p])'
          BY <2>6, <2>8 DEF Begun
        <4>3. QED
          BY <2>2, <2>6, <3>1, <4>1, <4>2
      <3>2. CASE u # p
        <4>1. pc'[u] = "idle" => run'[u] = None /\ u \notin failed'
          BY <2>1, <2>2, <2>6, <3>2 DEF RunsInv
        <4>2. ASSUME pc'[u] \in Asking
              PROVE  run'[u] = None /\ exp'[u] \in Exps /\ Begun(exp[u])'
          <5>1. run[u] = None /\ exp[u] \in Exps /\ Begun(exp[u])
            BY <2>6, <3>2, <4>2 DEF RunsInv
          <5>2. PICK y \in Exps : y = exp[u] /\ y = exp'[u]
            BY <2>6, <3>2, <5>1
          <5>3. Begun(y)'
            BY <2>7, <5>1, <5>2
          <5>4. QED
            BY <2>2, <5>1, <5>2, <5>3 DEF Begun
        <4>3. QED
          BY <4>1, <4>2
      <3>3. QED
        BY <3>1, <3>2
    <2>11. \A c \in Calls : run'[c] # None => runSt'[run'[c]] # "none"
      BY <2>2 DEF RunsInv
    <2>12. QED
      BY <2>4, <2>9, <2>10, <2>11 DEF RunsInv, RunIds, Calls, Asking
  <1>3. CASE LoadExperiment(p)
    <2>0. failed' = failed
      BY <1>3 DEF LoadExperiment, callVars, requestVars
    <2>1. PICK c \in {"find", "done"} : pc' = [pc EXCEPT ![p] = c]
      BY <1>3 DEF LoadExperiment, Goto
    <2>2. pc[p] = "load" /\ UNCHANGED <<expSt, runExp, runSt, exp, run>>
      BY <1>3 DEF LoadExperiment, Goto, callVars, expTables, runTable
    <2>3. RunTypes'
      BY <1>1, <2>1, <2>2 DEF RunsInv, RunTypes, PC, Exps, RunIds, Calls, Requests
    <2>4. QED
      BY <1>1, <2>1, <2>2, <2>3, <2>0, RunsKept, Domains DEF RunsInv, RunTypes, Asking
  <1>4. CASE StartRun(p) \/ FinishRun(p)
    <2>0. failed' = failed
      BY <1>4 DEF StartRun, FinishRun, callVars, requestVars
    <2>1. PICK c \in {"drive", "done"} : pc' = [pc EXCEPT ![p] = c]
      BY <1>4 DEF StartRun, FinishRun, Goto
    <2>2. UNCHANGED <<expSt, runExp, exp, run>>
      BY <1>4 DEF StartRun, FinishRun, callVars, expTables
    <2>3. PICK st \in {"running", "completed", "failed"} :
            runSt' = [runSt EXCEPT ![run[p]] = IF @ \in Absent THEN @ ELSE st]
      BY <1>4 DEF StartRun, FinishRun, SetRun
    <2>4. /\ runSt' \in [RunIds -> RunStatus \cup Absent]
          /\ \A r \in RunIds : runSt'[r] = "none" <=> runSt[r] = "none"
      BY <2>3 DEF RunsInv, RunTypes, RunStatus, Absent
    <2>5. RunTypes'
      BY <1>1, <2>1, <2>2, <2>4
      DEF RunsInv, RunTypes, PC, Exps, RunIds, Calls, Requests
    <2>6. QED
      BY <1>1, <2>1, <2>2, <2>4, <2>5, <2>0, RunsKept, Domains
      DEF RunsInv, RunTypes, Asking
  <1>5. CASE FindActiveRun(p)
    <2>0. failed' = failed
      BY <1>5 DEF FindActiveRun, callVars, requestVars
    <2>1. /\ pc[p] = "find" /\ UNCHANGED <<expSt, runExp, runSt, exp>>
          /\ \/ /\ pc' = [pc EXCEPT ![p] = "insert"] /\ run' = run
             \/ /\ pc' = [pc EXCEPT ![p] = "start"]
                /\ \E r \in RunIds : /\ runSt[r] \notin Absent
                                     /\ run' = [run EXCEPT ![p] = r]
      BY <1>5
      DEF FindActiveRun, Goto, callVars, expTables, runTable, Newest,
          ActiveRunsOf, RunsOf, RunRows
    <2>2. CASE run' = run
      <3>1. pc' \in [Requests -> PC]
        BY <2>1 DEF RunsInv, RunTypes, PC
      <3>2. RunTypes'
        BY <2>1, <2>2, <3>1 DEF RunsInv, RunTypes, Exps, RunIds, Calls, Requests
      <3>3. QED
        BY <1>1, <2>1, <2>2, <3>2, <2>0, RunsKept, Domains DEF RunsInv, RunTypes, Asking
    <2>3. ASSUME NEW r \in RunIds, runSt[r] \notin Absent, run' = [run EXCEPT ![p] = r],
                 pc' = [pc EXCEPT ![p] = "start"]
          PROVE  RunsInv'
      <3>1. RunTypes'
        BY <1>1, <2>1, <2>3
        DEF RunsInv, RunTypes, PC, Exps, RunIds, Calls, Requests
      <3>0. \A x \in Exps : Begun(x) => Begun(x)'
        BY <2>0, <2>1 DEF Begun
      <3>2. ASSUME NEW q \in RunIds, runSt'[q] # "none"
            PROVE  runExp'[q] \in Exps /\ Begun(runExp[q])' /\ \E u \in Users : run'[u] = q
        <4>0. /\ runSt[q] # "none" /\ runExp[q] \in Exps /\ Begun(runExp[q])
              /\ runExp'[q] = runExp[q]
          BY <2>1, <3>2 DEF RunsInv
        <4>1. PICK u \in Users : run[u] = q
          BY <4>0 DEF RunsInv
        <4>2. u # p
          BY <2>1, <4>1, Domains DEF RunsInv, Asking
        <4>3. run'[u] = q
          BY <2>3, <4>1, <4>2, Domains DEF RunsInv, RunTypes
        <4>4. Begun(runExp[q])'
          BY <2>0, <2>1, <4>0 DEF Begun
        <4>5. QED
          BY <4>0, <4>3, <4>4
      <3>3. ASSUME NEW c \in Calls, run'[c] # None
            PROVE  runSt'[run'[c]] # "none"
        BY <2>1, <2>3, <3>3 DEF RunsInv, RunTypes, Absent
      <3>4. ASSUME NEW u \in Users
            PROVE  /\ pc'[u] = "idle" => run'[u] = None /\ u \notin failed'
                   /\ pc'[u] \in Asking =>
                        run'[u] = None /\ exp'[u] \in Exps /\ Begun(exp[u])'
        <4>1. CASE u = p
          BY <1>1, <2>3, <4>1 DEF RunsInv, RunTypes, Asking
        <4>2. CASE u # p
          <5>1. pc'[u] = pc[u] /\ run'[u] = run[u] /\ exp'[u] = exp[u]
            BY <1>1, <2>1, <2>3, <4>2, Domains DEF RunsInv, RunTypes
          <5>2. pc[u] \in Asking => Begun(exp[u])'
            BY <2>0, <2>1 DEF RunsInv, Begun
          <5>3. QED
            BY <2>0, <5>1, <5>2 DEF RunsInv
        <4>3. QED
          BY <4>1, <4>2
      <3>5. QED
        BY <3>1, <3>2, <3>3, <3>4 DEF RunsInv, Exps, RunIds, Calls, Asking
    <2>4. QED
      BY <2>1, <2>2, <2>3
  <1>6. CASE InsertRun(p)
    <2>0. failed' = failed
      BY <1>6 DEF InsertRun, callVars, requestVars
    <2>1. pc[p] = "insert" /\ UNCHANGED <<expSt, exp>>
      BY <1>6 DEF InsertRun, Goto, callVars, expTables
    <2>2. CASE pc' = [pc EXCEPT ![p] = "done"] /\ UNCHANGED <<runExp, runSt, run>>
      <3>1. RunTypes'
        BY <1>1, <2>1, <2>2
        DEF RunsInv, RunTypes, PC, Exps, RunIds, Calls, Requests
      <3>2. QED
        BY <1>1, <2>1, <2>2, <3>1, <2>0, RunsKept, Domains DEF RunsInv, RunTypes, Asking
    <2>3. ASSUME p \in Users, NEW r \in RunIds, runSt[r] = "none",
                 pc' = [pc EXCEPT ![p] = "start"],
                 runExp' = [runExp EXCEPT ![r] = exp[p]],
                 runSt' = [runSt EXCEPT ![r] = "pending"],
                 run' = [run EXCEPT ![p] = r]
          PROVE  RunsInv'
      <3>1. exp[p] \in Exps /\ Begun(exp[p]) /\ run[p] = None
        BY <2>1, <2>3 DEF RunsInv, Asking
      <3>2. RunTypes'
        BY <1>1, <2>1, <2>3, <3>1
        DEF RunsInv, RunTypes, PC, RunStatus, Exps, RunIds, Calls, Requests
      <3>3. ASSUME NEW q \in RunIds, runSt'[q] # "none"
            PROVE  runExp'[q] \in Exps /\ Begun(runExp[q])' /\ \E u \in Users : run'[u] = q
        <4>1. CASE q = r
          <5>1. runExp'[q] = exp[p] /\ run'[p] = q
            BY <1>1, <2>3, <4>1 DEF RunsInv, RunTypes
          <5>2. Begun(runExp[q])'
            BY <2>0, <2>1, <3>1, <5>1 DEF Begun
          <5>3. QED
            BY <2>3, <3>1, <5>1, <5>2
        <4>2. CASE q # r
          <5>1. runSt[q] # "none" /\ runExp'[q] = runExp[q]
            BY <2>3, <3>3, <4>2 DEF RunsInv, RunTypes
          <5>2. PICK u \in Users : run[u] = q
            BY <5>1 DEF RunsInv
          <5>3. u # p
            BY <3>1, <5>2, Domains
          <5>4. run'[u] = q
            BY <2>3, <5>2, <5>3, Domains DEF RunsInv, RunTypes
          <5>5. Begun(runExp[q])'
            BY <2>0, <2>1, <5>1 DEF RunsInv, Begun
          <5>6. QED
            BY <5>1, <5>4, <5>5 DEF RunsInv
        <4>3. QED
          BY <4>1, <4>2
      <3>4. ASSUME NEW c \in Calls, run'[c] # None
            PROVE  runSt'[run'[c]] # "none"
        <4>1. CASE c = p
          BY <2>3, <4>1 DEF RunsInv, RunTypes
        <4>2. CASE c # p
          BY <2>3, <3>4, <4>2 DEF RunsInv, RunTypes
        <4>3. QED
          BY <4>1, <4>2
      <3>5. ASSUME NEW u \in Users
            PROVE  /\ pc'[u] = "idle" => run'[u] = None /\ u \notin failed'
                   /\ pc'[u] \in Asking =>
                        run'[u] = None /\ exp'[u] \in Exps /\ Begun(exp[u])'
        <4>1. CASE u = p
          BY <1>1, <2>3, <4>1 DEF RunsInv, RunTypes, Asking
        <4>2. CASE u # p
          <5>1. pc'[u] = pc[u] /\ run'[u] = run[u] /\ exp'[u] = exp[u]
            BY <1>1, <2>1, <2>3, <4>2, Domains DEF RunsInv, RunTypes
          <5>2. pc[u] \in Asking => Begun(exp[u])'
            BY <2>0, <2>1 DEF RunsInv, Begun
          <5>3. QED
            BY <2>0, <5>1, <5>2 DEF RunsInv
        <4>3. QED
          BY <4>1, <4>2
      <3>6. QED
        BY <3>2, <3>3, <3>4, <3>5 DEF RunsInv, Exps, RunIds, Calls, Asking
    <2>4. QED
      BY <1>6, <2>2, <2>3 DEF InsertRun, Goto, First, runTable
  <1>7. QED
    BY <1>1, <1>2, <1>3, <1>4, <1>5, <1>6
    DEF RecordStep, CreateBegin, CreateLookup, CreateCommit, UpdateRead,
        UpdateWrite, DeleteRead, DeleteSteps, DeleteRow, DeleteArchives, GetRow,
        GetSteps, GetRuns, ListBegin, ListCount, ListPage

\* Executions of the scheduler begin, return, or are cut off with their replica.
LEMMA RunsFires ==
  ASSUME RunsInv, UNCHANGED <<expSt, runExp, runSt, failed>>,
         run' \in [Calls -> RunIds \cup {None}],
         \A c \in Calls : run'[c] = run[c] \/ (c \in Fires /\ run'[c] = None),
         pc' \in [Requests -> PC], exp' \in [Requests -> Exps \cup {None}],
         \A q \in Requests : q \notin Fires => pc'[q] = pc[q] /\ exp'[q] = exp[q]
  PROVE  RunsInv'
  <1>1. RunTypes'
    BY DEF RunsInv, RunTypes, Exps, RunIds, Calls, Requests
  <1>2. \A u \in Users : u \in Requests /\ u \notin Fires
    BY RecordsAssumption, Domains
  <1>3. QED
    BY <1>1, <1>2, RunsKept

\* Every step leaves runs with those that insert them.
LEMMA RunsNext == RunsInv /\ RunnerInv /\ CronOfExps /\ [Next]_vars => RunsInv'
  <1> SUFFICES ASSUME RunsInv, RunnerInv, CronOfExps, [Next]_vars PROVE RunsInv'
    OBVIOUS
  <1>1. CASE UNCHANGED <<expSt, runExp, runSt, pc, exp, run, failed>>
    <2>1. RunTypes'
      BY <1>1 DEF RunsInv, RunTypes, Exps, RunIds, Calls, Requests
    <2>2. QED
      BY <1>1, <2>1, RunsKept
  <1>2. ASSUME NEW p \in Requests, RecordStep(p) PROVE RunsInv'
    BY <1>2, RunsRequest, RunsCall
  <1>3. ASSUME NEW h \in Replicas, CronFires(h) PROVE RunsInv'
    <2>1. PICK f \in Fires, x \in Exps :
            pc' = [pc EXCEPT ![f] = "load"] /\ exp' = [exp EXCEPT ![f] = x]
      BY <1>3 DEF CronFires, Goto
    <2>2. UNCHANGED <<expSt, runExp, runSt, run, failed>>
      BY <1>3 DEF CronFires, unfired, expTables, runTable, requestVars
    <2>3. /\ pc' \in [Requests -> PC] /\ exp' \in [Requests -> Exps \cup {None}]
          /\ \A q \in Requests : q \notin Fires => pc'[q] = pc[q] /\ exp'[q] = exp[q]
      BY <2>1, Domains DEF RunsInv, RunTypes, PC
    <2>4. run' \in [Calls -> RunIds \cup {None}] /\ \A c \in Calls : run'[c] = run[c]
      BY <2>2 DEF RunsInv, RunTypes
    <2>5. QED
      BY <2>2, <2>3, <2>4, RunsFires
  <1>4. ASSUME NEW h \in Replicas, PollOnce(h) PROVE RunsInv'
    <2>1. PICK X \in SUBSET Exps : PollStarts(h, X)
      BY <1>4 DEF PollOnce, Scheduled, CronOfExps
    <2>2. PICK F \in SUBSET Fires : \E m \in [F -> X] :
            /\ pc' = [q \in Requests |-> IF q \in F THEN "load" ELSE pc[q]]
            /\ exp' = [q \in Requests |-> IF q \in F THEN m[q] ELSE exp[q]]
      BY <2>1 DEF PollStarts
    <2>3. PICK m \in [F -> X] :
            /\ pc' = [q \in Requests |-> IF q \in F THEN "load" ELSE pc[q]]
            /\ exp' = [q \in Requests |-> IF q \in F THEN m[q] ELSE exp[q]]
      BY <2>2
    <2>4. UNCHANGED <<expSt, runExp, runSt, run, failed>>
      BY <1>4 DEF PollOnce, unfired, expTables, runTable, requestVars
    <2>5. /\ pc' \in [Requests -> PC] /\ exp' \in [Requests -> Exps \cup {None}]
          /\ \A q \in Requests : q \notin Fires => pc'[q] = pc[q] /\ exp'[q] = exp[q]
      BY <2>3 DEF RunsInv, RunTypes, PC
    <2>6. run' \in [Calls -> RunIds \cup {None}] /\ \A c \in Calls : run'[c] = run[c]
      BY <2>4 DEF RunsInv, RunTypes
    <2>7. QED
      BY <2>4, <2>5, <2>6, RunsFires
  <1>5. ASSUME NEW f \in Fires, FireReturns(f) PROVE RunsInv'
    <2>1. /\ pc' = [pc EXCEPT ![f] = "idle"] /\ exp' = [exp EXCEPT ![f] = None]
          /\ run' = [run EXCEPT ![f] = None] /\ UNCHANGED <<expSt, runExp, runSt, failed>>
      BY <1>5 DEF FireReturns, Goto, expTables, runTable, requestVars
    <2>2. /\ pc' \in [Requests -> PC] /\ exp' \in [Requests -> Exps \cup {None}]
          /\ \A q \in Requests : q \notin Fires => pc'[q] = pc[q] /\ exp'[q] = exp[q]
      BY <2>1, Domains DEF RunsInv, RunTypes, PC
    <2>3. /\ run' \in [Calls -> RunIds \cup {None}]
          /\ \A c \in Calls : run'[c] = run[c] \/ (c \in Fires /\ run'[c] = None)
      BY <2>1, Domains DEF RunsInv, RunTypes
    <2>4. QED
      BY <2>1, <2>2, <2>3, RunsFires
  <1>6. ASSUME NEW h \in Replicas, Exit(h) PROVE RunsInv'
    <2> DEFINE cut == FiredBy(h, "cron") \cup FiredBy(h, "poll")
    <2>1. /\ pc' = [q \in Requests |-> IF q \in cut THEN "idle" ELSE pc[q]]
          /\ exp' = [q \in Requests |-> IF q \in cut THEN None ELSE exp[q]]
          /\ run' = [q \in Calls |-> IF q \in cut THEN None ELSE run[q]]
          /\ UNCHANGED <<expSt, runExp, runSt, failed>>
      BY <1>6 DEF Exit, expTables, runTable, requestVars
    <2>2. cut \subseteq Fires
      BY DEF FiredBy
    <2> HIDE DEF cut
    <2>3. /\ pc' \in [Requests -> PC] /\ exp' \in [Requests -> Exps \cup {None}]
          /\ \A q \in Requests : q \notin Fires => pc'[q] = pc[q] /\ exp'[q] = exp[q]
      BY <2>1, <2>2 DEF RunsInv, RunTypes, PC
    <2>4. /\ run' \in [Calls -> RunIds \cup {None}]
          /\ \A c \in Calls : run'[c] = run[c] \/ (c \in Fires /\ run'[c] = None)
      BY <2>1, <2>2 DEF RunsInv, RunTypes
    <2>5. QED
      BY <2>1, <2>3, <2>4, RunsFires
  <1>7. ASSUME NEW o \in Ops, RecurUpdate(o) PROVE RunsInv'
    <2>1. UNCHANGED <<runExp, runSt, pc, exp, run, failed>>
      BY <1>7 DEF RecurUpdate, runTable, requestVars
    <2>2. /\ expSt' \in [Exps -> ExpStatus \cup Absent]
          /\ \A x \in Exps : expSt'[x] \in Fresh => expSt[x] \in Fresh
      BY <1>7 DEF RecurUpdate, RunsInv, RunTypes, ExpStatus, Absent, Fresh
    <2>3. RunTypes'
      BY <2>1, <2>2 DEF RunsInv, RunTypes, Exps, RunIds, Calls, Requests
    <2>4. QED
      BY <2>1, <2>2, <2>3, RunsKept
  <1>8. ASSUME NEW h \in Replicas, ReplicaStep(h) PROVE RunsInv'
    BY <1>1, <1>3, <1>4, <1>6, <1>8
    DEF ReplicaStep, Start, LoadJobs, Stop, PollExits, JobsEnd, records,
        recordVars
  <1>9. ASSUME NEW o \in Ops, OpStep(o) PROVE RunsInv'
    BY <1>1, <1>7, <1>9
    DEF OpStep, LookUp, ScheduleKey, RecurRegister, CancelKey, CancelRow,
        CancelRemove, records, recordVars, runTable, requestVars
  <1>10. ASSUME NEW x \in Exps, KeyExpires(x) PROVE RunsInv'
    BY <1>1, <1>10 DEF KeyExpires, records, recordVars
  <1>11. CASE UNCHANGED recordVars
    BY <1>1, <1>11 DEF recordVars
  <1>12. QED
    BY <1>2, <1>5, <1>8, <1>9, <1>10, <1>11 DEF Next, vars

-----------------------------------------------------------------------------
(* The catalogue: the slugs of the templates.                              *)

\* A request that is about to write has not asked for the slug of a module.
SlugInv ==
  /\ slug \in [Tmpls -> Slugs \cup {None, Gone}]
  /\ tpc \in [TmplRequests -> {"idle", "check", "refs", "write", "done"}]
  /\ target \in [TmplRequests -> Tmpls \cup {None}]
  /\ newSlug \in [TmplRequests -> Slugs \cup {None}]
  /\ \A p \in TmplCreates \cup TmplUpdates :
       tpc[p] = "write" => newSlug[p] \notin Modules
  /\ \A p \in TmplCreates : tpc[p] = "write" => newSlug[p] # None
  /\ CustomNeverShadowsModule

\* The modules start with their own slugs.
LEMMA SlugInit == Init => SlugInv
  <1> SUFFICES ASSUME Init PROVE SlugInv
    OBVIOUS
  <1>1. /\ slug = [t \in Tmpls |-> IF t \in SystemTmpls THEN SeedSlug[t] ELSE None]
        /\ tpc = [p \in TmplRequests |-> "idle"]
        /\ target = [p \in TmplRequests |-> None]
        /\ newSlug = [p \in TmplRequests |-> None]
    BY DEF Init, RecordsInit, TemplatesInit
  <1>2. slug \in [Tmpls -> Slugs \cup {None, Gone}] /\ CustomNeverShadowsModule
    BY <1>1, TemplatesAssumption DEF CustomNeverShadowsModule, Stored
  <1>3. QED
    BY <1>1, <1>2 DEF SlugInv, TmplRequests

\* No request for a template gives a custom one the slug of a module.
LEMMA SlugTemplate ==
  ASSUME SlugInv, NEW p \in TmplRequests, TemplateStep(p)
  PROVE  SlugInv'
  <1> USE TemplatesAssumption DEF TmplGoto, TmplReply
  <1>1. CASE CreateTemplateCheck(p)
    <2>1. PICK s \in Slugs :
            /\ newSlug' = [newSlug EXCEPT ![p] = s]
            /\ tpc' = [tpc EXCEPT ![p] = IF SlugTaken(s, None) \/ s \in Modules
                                           THEN "done" ELSE "write"]
      BY <1>1 DEF CreateTemplateCheck
    <2>2. UNCHANGED <<slug, target>>
      BY <1>1 DEF CreateTemplateCheck
    <2>3. s # None
      OBVIOUS
    <2>4. /\ tpc' \in [TmplRequests -> {"idle", "check", "refs", "write", "done"}]
          /\ newSlug' \in [TmplRequests -> Slugs \cup {None}]
      BY <2>1 DEF SlugInv
    <2>5. /\ tpc'[p] = "write" => newSlug'[p] = s /\ s \notin Modules
          /\ \A q \in TmplRequests :
               q # p => tpc'[q] = tpc[q] /\ newSlug'[q] = newSlug[q]
      BY <2>1 DEF SlugInv
    <2>6. CustomNeverShadowsModule'
      BY <2>2 DEF SlugInv, CustomNeverShadowsModule, Stored
    <2>7. QED
      BY <2>2, <2>3, <2>4, <2>5, <2>6 DEF SlugInv, TmplRequests
  <1>2. CASE CreateTemplateInsert(p)
    BY <1>2
    DEF CreateTemplateInsert, SlugInv, CustomNeverShadowsModule, Stored,
        TmplRequests, FreeTmpls
  <1>3. CASE LoadTemplate(p)
    BY <1>3
    DEF LoadTemplate, SlugInv, CustomNeverShadowsModule, Stored, TmplRequests
  <1>4. CASE UpdateTemplateCheck(p)
    BY <1>4
    DEF UpdateTemplateCheck, SlugInv, CustomNeverShadowsModule, Stored,
        TmplRequests
  <1>5. CASE UpdateTemplateWrite(p)
    BY <1>5
    DEF UpdateTemplateWrite, SlugInv, CustomNeverShadowsModule, Stored,
        TmplRequests
  <1>6. CASE DeleteTemplateRefs(p)
    BY <1>6
    DEF DeleteTemplateRefs, SlugInv, CustomNeverShadowsModule, Stored,
        TmplRequests
  <1>7. CASE DeleteTemplateWrite(p)
    BY <1>7
    DEF DeleteTemplateWrite, SlugInv, CustomNeverShadowsModule, Stored,
        TmplRequests
  <1>8. QED
    BY <1>1, <1>2, <1>3, <1>4, <1>5, <1>6, <1>7 DEF TemplateStep

\* No other step touches the table of templates.
LEMMA SlugNext == SlugInv /\ [Next]_vars => SlugInv'
  <1> SUFFICES ASSUME SlugInv, [Next]_vars PROVE SlugInv'
    OBVIOUS
  <1>1. CASE UNCHANGED tmplVars
    BY <1>1 DEF tmplVars, SlugInv, CustomNeverShadowsModule, Stored, TmplRequests
  <1>2. ASSUME NEW h \in Replicas, ReplicaStep(h) PROVE SlugInv'
    BY <1>1, <1>2
    DEF ReplicaStep, Start, LoadJobs, Stop, PollExits, JobsEnd, Exit, CronFires,
        PollOnce, unfired
  <1>3. ASSUME NEW f \in Fires, FireReturns(f) PROVE SlugInv'
    BY <1>1, <1>3 DEF FireReturns
  <1>4. ASSUME NEW o \in Ops, OpStep(o) PROVE SlugInv'
    BY <1>1, <1>4
    DEF OpStep, LookUp, RecurUpdate, ScheduleKey, RecurRegister, CancelKey,
        CancelRow, CancelRemove
  <1>5. ASSUME NEW x \in Exps, KeyExpires(x) PROVE SlugInv'
    BY <1>1, <1>5 DEF KeyExpires
  <1>6. QED
    BY <1>1, <1>2, <1>3, <1>4, <1>5, SlugTemplate DEF Next, vars

-----------------------------------------------------------------------------
(* The steps of the experiments, and the answers of GetExperiment.         *)

StepTypes ==
  /\ expSt \in [Exps -> ExpStatus \cup Absent]
  /\ pc \in [Requests -> PC]
  /\ exp \in [Requests -> Exps \cup {None}]
  /\ steps \in [Exps -> SUBSET Tmpls]
  /\ wanted \in [Exps -> SUBSET Tmpls]
  /\ asked \in [Creates -> SUBSET Tmpls]
  /\ answer \in [Gets -> SUBSET Tmpls]

\* The steps of an experiment that is stored, whole or taken by a deletion.
StepsOf(x) == \/ steps[x] = wanted[x] /\ steps[x] \subseteq Stored
              \/ steps[x] = {} /\ Stripped(x)

\* Why an answer about experiment x shows no steps.
WithoutSteps(g, x) == g \in failed \/ expSt[x] = "gone" \/ Stripped(x)

\* GetExperiment is about an experiment that had been created when it was looked
\* up, so what was asked for does not change any more.
AnswerOf(g) ==
  /\ pc[g] \in {"idle", "templates"} => answer[g] = {}
  /\ pc[g] = "templates" => exp[g] # None
  /\ exp[g] # None /\ pc[g] # "idle" => expSt[exp[g]] # "none"
  /\ pc[g] \in {"runs", "done"} /\ exp[g] # None =>
       \/ answer[g] = wanted[exp[g]]
       \/ answer[g] = {} /\ WithoutSteps(g, exp[g])

StepsInv ==
  /\ StepTypes
  /\ \A x \in Exps : expSt[x] \notin Absent => StepsOf(x)
  /\ \A x \in Exps : steps[x] = {} \/ (steps[x] = wanted[x] /\ expSt[x] # "none")
  /\ \A g \in Gets : AnswerOf(g)

\* No experiment is stored yet.
LEMMA StepsInit == Init => StepsInv
  <1> SUFFICES ASSUME Init PROVE StepsInv
    OBVIOUS
  <1>1. StepTypes
    BY DEF Init, RecordsInit, TemplatesInit, StepTypes, PC, ExpStatus, Absent
  <1>2. \A x \in Exps : expSt[x] = "none" /\ steps[x] = {}
    BY DEF Init, RecordsInit, TemplatesInit
  <1>3. \A g \in Gets : pc[g] = "idle" /\ answer[g] = {}
    BY DEF Init, RecordsInit, Requests
  <1>4. QED
    BY <1>1, <1>2, <1>3 DEF StepsInv, AnswerOf, Absent

\* What a step does to deletions: one that has taken the steps remains so, until
\* the row is gone.
DeletionsStay ==
  \A x \in Exps : /\ expSt[x] = "gone" => expSt'[x] = "gone"
                  /\ Stripped(x) => Stripped(x)' \/ expSt'[x] = "gone"

\* A step that changes no steps, brings no experiment into the tables, takes no
\* template away that is in use, and leaves deletions as they are.
LEMMA StepsStay ==
  ASSUME StepsInv, UNCHANGED <<steps, wanted>>, DeletionsStay,
         \A x \in Exps : /\ expSt'[x] \notin Absent => expSt[x] \notin Absent
                         /\ expSt[x] # "none" => expSt'[x] # "none"
                         /\ steps[x] \subseteq Stored => steps[x] \subseteq Stored'
  PROVE  /\ \A x \in Exps : expSt'[x] \notin Absent => StepsOf(x)'
         /\ \A x \in Exps : steps'[x] = {} \/ (steps'[x] = wanted'[x] /\ expSt'[x] # "none")
  <1>1. ASSUME NEW x \in Exps, expSt'[x] \notin Absent PROVE StepsOf(x)'
    <2>1. expSt[x] \notin Absent /\ StepsOf(x)
      BY <1>1 DEF StepsInv
    <2>2. CASE steps[x] = wanted[x] /\ steps[x] \subseteq Stored
      BY <2>2 DEF StepsOf
    <2>3. CASE steps[x] = {} /\ Stripped(x)
      <3>1. Stripped(x)'
        BY <1>1, <2>3 DEF DeletionsStay, Absent
      <3>2. QED
        BY <2>3, <3>1 DEF StepsOf
    <2>4. QED
      BY <2>1, <2>2, <2>3 DEF StepsOf
  <1>2. QED
    BY <1>1 DEF StepsInv

\* An answer that has been given stands.
LEMMA AnswerStays ==
  ASSUME StepsInv, DeletionsStay, NEW g \in Gets,
         pc'[g] = pc[g], exp'[g] = exp[g], answer'[g] = answer[g],
         g \in failed => g \in failed',
         \A x \in Exps : expSt[x] # "none" =>
           expSt'[x] # "none" /\ wanted'[x] = wanted[x]
  PROVE  AnswerOf(g)'
  <1>1. AnswerOf(g) /\ exp[g] \in Exps \cup {None}
    BY DEF StepsInv, StepTypes, Requests
  <1>2. CASE exp[g] = None
    BY <1>1, <1>2 DEF AnswerOf
  <1>3. CASE exp[g] # None
    <2>1. PICK x \in Exps : x = exp[g] /\ x = exp'[g]
      BY <1>1, <1>3
    <2>2. CASE pc[g] = "idle"
      BY <1>1, <2>2 DEF AnswerOf
    <2>3. CASE pc[g] # "idle"
      <3>1. expSt[x] # "none" /\ expSt'[x] # "none" /\ wanted'[x] = wanted[x]
        BY <1>1, <1>3, <2>1, <2>3 DEF AnswerOf
      <3>2. WithoutSteps(g, x) => WithoutSteps(g, x)'
        BY DEF WithoutSteps, DeletionsStay
      <3>3. WithoutSteps(g, exp[g]) <=> WithoutSteps(g, x)
        BY <2>1
      <3>4. WithoutSteps(g, x)' => WithoutSteps(g, exp[g])'
        BY <2>1 DEF WithoutSteps, Stripped
      <3>5. QED
        BY <1>1, <1>3, <2>1, <3>1, <3>2, <3>3, <3>4 DEF AnswerOf
    <2>4. QED
      BY <2>2, <2>3
  <1>4. QED
    BY <1>2, <1>3

\* Deletions that a step does not touch.
LEMMA OtherDeletions ==
  ASSUME \A x \in Exps : expSt[x] = "gone" => expSt'[x] = "gone",
         failed \subseteq failed',
         \A d \in Deletes : pc[d] = "row" \/ d \in failed =>
           /\ exp'[d] = exp[d]
           /\ \/ pc'[d] = "row" \/ d \in failed'
              \/ exp[d] \in Exps => expSt'[exp[d]] = "gone"
  PROVE  DeletionsStay
  <1>1. ASSUME NEW x \in Exps, Stripped(x) PROVE Stripped(x)' \/ expSt'[x] = "gone"
    <2>1. PICK d \in Deletes : exp[d] = x /\ (pc[d] = "row" \/ d \in failed)
      BY <1>1 DEF Stripped
    <2>2. exp'[d] = x /\ (pc'[d] = "row" \/ d \in failed' \/ expSt'[x] = "gone")
      BY <2>1
    <2>3. QED
      BY <2>2 DEF Stripped
  <1>2. QED
    BY <1>1 DEF DeletionsStay

\* The steps that leave steps, answers and the requests that delete and read alone.
LEMMA StepsAside ==
  ASSUME StepsInv, UNCHANGED <<steps, wanted, answer>>, failed \subseteq failed',
         expSt' \in [Exps -> ExpStatus \cup Absent],
         \A x \in Exps : /\ expSt'[x] \notin Absent => expSt[x] \notin Absent
                         /\ expSt[x] # "none" => expSt'[x] # "none"
                         /\ expSt[x] = "gone" => expSt'[x] = "gone"
                         /\ steps[x] \subseteq Stored => steps[x] \subseteq Stored',
         asked' \in [Creates -> SUBSET Tmpls],
         pc' \in [Requests -> PC], exp' \in [Requests -> Exps \cup {None}],
         \A q \in Deletes \cup Gets : pc'[q] = pc[q] /\ exp'[q] = exp[q]
  PROVE  StepsInv'
  <1>1. StepTypes'
    BY DEF StepsInv, StepTypes, Exps, Requests, Calls
  <1>2. DeletionsStay
    BY OtherDeletions
  <1>3. \A g \in Gets : AnswerOf(g)'
    BY <1>2, AnswerStays
  <1>4. QED
    BY <1>1, <1>2, <1>3, StepsStay DEF StepsInv, Exps

\* The foreign key: a template that some step refers to is not deleted.
LEMMA StepsTemplate ==
  ASSUME StepsInv, SlugInv, NEW p \in TmplRequests, TemplateStep(p), UNCHANGED recordVars
  PROVE  StepsInv'
  <1>1. UNCHANGED <<steps, wanted, answer, expSt, pc, exp, asked, failed>>
    BY DEF TemplateStep, CreateTemplateCheck, CreateTemplateInsert,
           LoadTemplate, UpdateTemplateCheck, UpdateTemplateWrite,
           DeleteTemplateRefs, DeleteTemplateWrite, recordVars
  <1>2. ASSUME NEW x \in Exps, NEW t \in steps[x], t \in Stored PROVE t \in Stored'
    <2>1. t \in Tmpls /\ slug[t] \notin {None, Gone}
      BY <1>2 DEF Stored
    <2>2. CASE UNCHANGED slug
      BY <2>1, <2>2 DEF Stored
    <2>3. CASE CreateTemplateInsert(p)
      BY <2>1, <2>2, <2>3 DEF CreateTemplateInsert, FreeTmpls, Stored, SlugInv
    <2>4. CASE UpdateTemplateWrite(p)
      <3>1. CASE t = target[p]
        <4>1. slug'[t] = slug[t] \/ (slug'[t] = newSlug[p] /\ newSlug[p] # None)
          BY <2>1, <2>4, <3>1 DEF UpdateTemplateWrite, SlugInv
        <4>2. slug'[t] \notin {None, Gone}
          BY <2>1, <2>4, <4>1, TemplatesAssumption DEF SlugInv, TmplRequests
        <4>3. QED
          BY <2>1, <4>2 DEF Stored
      <3>2. CASE t # target[p]
        BY <2>1, <2>2, <2>4, <3>2 DEF UpdateTemplateWrite, Stored, SlugInv
      <3>3. QED
        BY <3>1, <3>2
    <2>5. CASE DeleteTemplateWrite(p)
      <3>1. CASE Referenced(target[p])
        BY <2>2, <2>5, <3>1 DEF DeleteTemplateWrite
      <3>2. CASE ~ Referenced(target[p])
        <4>1. t # target[p]
          BY <1>2, <3>2 DEF Referenced
        <4>2. slug' = [slug EXCEPT ![target[p]] = Gone]
          BY <2>5, <3>2 DEF DeleteTemplateWrite
        <4>3. slug'[t] = slug[t]
          BY <2>1, <4>1, <4>2 DEF SlugInv
        <4>4. QED
          BY <2>1, <4>3 DEF Stored
      <3>3. QED
        BY <3>1, <3>2
    <2>6. QED
      BY <2>2, <2>3, <2>4, <2>5
      DEF TemplateStep, CreateTemplateCheck, LoadTemplate, UpdateTemplateCheck,
          DeleteTemplateRefs
  <1>3. ASSUME NEW x \in Exps PROVE steps[x] \subseteq Stored => steps[x] \subseteq Stored'
    BY <1>2
  <1>4. QED
    BY <1>1, <1>3, StepsAside DEF StepsInv, StepTypes

\* A deletion that has not begun has met no error.
DeletesIdle == /\ failed \subseteq Requests
               /\ \A d \in Deletes : pc[d] = "idle" => d \notin failed

\* The requests on experiments and the executions.
LEMMA StepsRecord ==
  ASSUME StepsInv, RunsInv, DeletesIdle, NEW p \in Requests, RecordStep(p), UNCHANGED tmplVars
  PROVE  StepsInv'
  <1>1. /\ Stored' = Stored
        /\ p \in Deletes => p \notin Creates \cup Updates \cup Gets \cup Lists \cup Calls
        /\ p \in Gets => p \notin Creates \cup Updates \cup Deletes \cup Lists \cup Calls
    BY RecordsAssumption DEF tmplVars, Stored, Calls
  <1>2. CASE CreateCommit(p)
    <2>1. /\ p \in Creates /\ pc' = [pc EXCEPT ![p] = "done"]
          /\ UNCHANGED <<asked, answer, failed>>
      BY <1>2 DEF CreateCommit, Goto
    <2>2. pc' \in [Requests -> PC] /\ \A q \in Deletes \cup Gets : pc'[q] = pc[q]
      BY <1>1, <2>1 DEF StepsInv, StepTypes, PC, Requests
    <2>3. CASE UNCHANGED <<expTables, wanted, exp>>
      BY <1>1, <2>1, <2>2, <2>3, StepsAside DEF StepsInv, StepTypes, expTables
    <2>4. ASSUME NEW x \in Exps, expSt[x] = "none", asked[p] \subseteq Stored,
                 expSt' = [expSt EXCEPT ![x] = "draft"],
                 steps' = [steps EXCEPT ![x] = asked[p]],
                 wanted' = [wanted EXCEPT ![x] = asked[p]],
                 exp' = [exp EXCEPT ![p] = x]
          PROVE  StepsInv'
      <3>1. exp' \in [Requests -> Exps \cup {None}]
            /\ \A q \in Deletes \cup Gets : exp'[q] = exp[q]
        BY <1>1, <2>1, <2>4 DEF StepsInv, StepTypes, Requests
      <3>2. StepTypes'
        BY <2>1, <2>2, <2>4, <3>1
        DEF StepsInv, StepTypes, ExpStatus, Exps, Requests, Calls
      <3>3. \A y \in Exps : /\ expSt[y] = "gone" => expSt'[y] = "gone"
                            /\ expSt[y] # "none" => /\ expSt'[y] # "none"
                                                    /\ wanted'[y] = wanted[y]
        BY <2>4 DEF StepsInv, StepTypes
      <3>4. DeletionsStay
        BY <2>1, <2>2, <3>1, <3>3, OtherDeletions
      <3>5. ASSUME NEW y \in Exps, expSt'[y] \notin Absent PROVE StepsOf(y)'
        <4>1. CASE y = x
          BY <1>1, <2>4, <4>1 DEF StepsInv, StepTypes, StepsOf
        <4>2. CASE y # x
          <5>1. expSt'[y] = expSt[y] /\ steps'[y] = steps[y] /\ wanted'[y] = wanted[y]
            BY <2>4, <4>2 DEF StepsInv, StepTypes
          <5>2. StepsOf(y) /\ (Stripped(y) => Stripped(y)')
            BY <3>4, <3>5, <5>1 DEF StepsInv, DeletionsStay, Absent
          <5>3. QED
            BY <1>1, <5>1, <5>2 DEF StepsOf
        <4>3. QED
          BY <4>1, <4>2
      <3>6. ASSUME NEW y \in Exps
            PROVE  steps'[y] = {} \/ (steps'[y] = wanted'[y] /\ expSt'[y] # "none")
        BY <2>4 DEF StepsInv, StepTypes
      <3>7. ASSUME NEW g \in Gets PROVE AnswerOf(g)'
        BY <2>1, <2>2, <3>1, <3>3, <3>4, AnswerStays
      <3>8. QED
        BY <3>2, <3>5, <3>6, <3>7 DEF StepsInv, Exps
    <2>5. QED
      BY <1>2, <2>3, <2>4 DEF CreateCommit, First
  <1>3. CASE DeleteRead(p)
    <2>1. PICK x \in Exps, c \in {"done", "steps", "archive"} :
            exp' = [exp EXCEPT ![p] = x] /\ pc' = [pc EXCEPT ![p] = c]
      BY <1>3 DEF DeleteRead, Goto
    <2>2. /\ p \in Deletes /\ pc[p] = "idle" /\ p \notin failed
          /\ UNCHANGED <<steps, wanted, answer, asked, expSt, failed>>
      BY <1>3 DEF DeletesIdle, DeleteRead, Goto, expTables, requestVars
    <2>3. StepTypes'
      BY <2>1, <2>2 DEF StepsInv, StepTypes, PC, Exps, Requests, Calls
    <2>4. ASSUME NEW d \in Deletes, pc[d] = "row" \/ d \in failed
          PROVE  pc'[d] = pc[d] /\ exp'[d] = exp[d]
      BY <2>1, <2>2, <2>4 DEF StepsInv, StepTypes, Requests
    <2>5. ASSUME NEW g \in Gets PROVE pc'[g] = pc[g] /\ exp'[g] = exp[g]
      BY <1>1, <2>1, <2>2 DEF StepsInv, StepTypes, Requests
    <2>6. DeletionsStay
      BY <2>2, <2>4, OtherDeletions
    <2>7. \A g \in Gets : AnswerOf(g)'
      BY <2>2, <2>5, <2>6, AnswerStays
    <2>8. QED
      BY <1>1, <2>2, <2>3, <2>6, <2>7, StepsStay DEF StepsInv, Exps
  <1>4. CASE DeleteSteps(p) \/ DeleteRow(p)
    <2>1. /\ p \in Deletes /\ pc[p] \in {"steps", "row"}
          /\ \E c \in {"row", "done"} : pc' = [pc EXCEPT ![p] = c]
          /\ UNCHANGED <<wanted, answer, asked, exp>>
          /\ failed \subseteq failed'
          /\ \/ /\ steps' = [steps EXCEPT ![exp[p]] = {}]
                /\ \/ expSt' = expSt /\ (pc'[p] = "row" \/ p \in failed')
                   \/ expSt' = [expSt EXCEPT ![exp[p]] = "gone"]
             \/ /\ steps' = steps /\ expSt' = expSt
                /\ p \in failed'
      BY <1>4 DEF DeleteSteps, DeleteRow, Goto, restOfRequest, expTables, StepsInv,
                  StepTypes, Requests
    <2>2. exp[p] \in Exps \cup {None} /\ None \notin Exps
      BY <2>1, Domains DEF StepsInv, StepTypes, Requests
    <2>3. StepTypes'
      BY <2>1 DEF StepsInv, StepTypes, PC, Absent, Exps, Requests, Calls
    <2>4. \A y \in Exps : /\ expSt'[y] = expSt[y] \/ (y = exp[p] /\ expSt'[y] = "gone")
                          /\ steps'[y] = steps[y] \/ (y = exp[p] /\ steps'[y] = {})
      BY <2>1 DEF StepsInv, StepTypes
    <2>5. ASSUME NEW d \in Deletes, pc[d] = "row" \/ d \in failed
          PROVE  /\ exp'[d] = exp[d]
                 /\ \/ pc'[d] = "row" \/ d \in failed'
                    \/ exp[d] \in Exps => expSt'[exp[d]] = "gone"
      BY <2>1, <2>5 DEF StepsInv, StepTypes, Requests
    <2>6. DeletionsStay
      BY <2>1, <2>4, <2>5, OtherDeletions
    <2>7. ASSUME NEW y \in Exps, expSt'[y] \notin Absent PROVE StepsOf(y)'
      <3>1. expSt'[y] = expSt[y] /\ StepsOf(y) /\ (Stripped(y) => Stripped(y)')
        BY <2>4, <2>6, <2>7 DEF StepsInv, DeletionsStay, Absent
      <3>2. CASE steps'[y] = steps[y]
        BY <1>1, <2>1, <3>1, <3>2 DEF StepsOf
      <3>3. CASE steps'[y] # steps[y]
        <4>1. y = exp[p] /\ steps'[y] = {}
          BY <2>4, <3>3
        <4>2. pc'[p] = "row" \/ p \in failed'
          BY <2>1, <2>7, <3>3, <4>1 DEF StepsInv, StepTypes, Absent
        <4>3. Stripped(y)'
          BY <2>1, <4>1, <4>2 DEF Stripped
        <4>4. QED
          BY <4>1, <4>3 DEF StepsOf
      <3>4. QED
        BY <3>2, <3>3
    <2>8. ASSUME NEW y \in Exps
          PROVE  steps'[y] = {} \/ (steps'[y] = wanted'[y] /\ expSt'[y] # "none")
      BY <2>1, <2>4 DEF StepsInv
    <2>9. ASSUME NEW g \in Gets PROVE AnswerOf(g)'
      <3>1. pc'[g] = pc[g]
        BY <1>1, <2>1 DEF StepsInv, StepTypes, Requests
      <3>2. QED
        BY <2>1, <2>4, <2>6, <3>1, AnswerStays
    <2>10. QED
      BY <2>3, <2>7, <2>8, <2>9 DEF StepsInv, Exps
  <1>5. CASE DeleteArchives(p)
    <2>1. /\ p \in Deletes /\ pc[p] = "archive" /\ pc' = [pc EXCEPT ![p] = "done"]
          /\ expSt' = [expSt EXCEPT ![exp[p]] = IF @ \in Absent THEN @ ELSE "archived"]
          /\ UNCHANGED <<steps, wanted, answer, asked, exp, failed>>
      BY <1>5 DEF DeleteArchives, Goto, requestVars
    <2>2. /\ expSt' \in [Exps -> ExpStatus \cup Absent]
          /\ \A x \in Exps : /\ expSt'[x] \notin Absent => expSt[x] \notin Absent
                             /\ expSt[x] # "none" => expSt'[x] # "none"
                             /\ expSt[x] = "gone" => expSt'[x] = "gone"
      BY <2>1 DEF StepsInv, StepTypes, ExpStatus, Absent
    <2>3. StepTypes'
      BY <2>1, <2>2 DEF StepsInv, StepTypes, PC, Exps, Requests, Calls
    <2>4. ASSUME NEW d \in Deletes, pc[d] = "row" \/ d \in failed
          PROVE  pc'[d] = "row" \/ d \in failed'
      BY <2>1, <2>4 DEF StepsInv, StepTypes, Requests
    <2>5. \A g \in Gets : pc'[g] = pc[g]
      BY <1>1, <2>1 DEF StepsInv, StepTypes, Requests
    <2>6. DeletionsStay
      BY <2>1, <2>2, <2>4, OtherDeletions
    <2>7. \A g \in Gets : AnswerOf(g)'
      BY <2>1, <2>2, <2>5, <2>6, AnswerStays
    <2>8. QED
      BY <1>1, <2>1, <2>2, <2>3, <2>6, <2>7, StepsStay DEF StepsInv, Exps
  <1>6. CASE GetRow(p) \/ GetSteps(p) \/ GetRuns(p)
    <2>1. /\ p \in Gets /\ UNCHANGED <<steps, wanted, asked, expSt>>
          /\ failed \subseteq failed'
          /\ \E c \in {"templates", "runs", "done"} : pc' = [pc EXCEPT ![p] = c]
          /\ \E x \in Exps \cup {None} : exp' = [exp EXCEPT ![p] = x]
          /\ \E T \in SUBSET Tmpls : answer' = [answer EXCEPT ![p] = T]
      <3>1. CASE GetRow(p)
        <4>1. PICK x \in Exps :
                /\ exp' = [exp EXCEPT ![p] = IF x \in ExpRows THEN x ELSE None]
                /\ pc' = [pc EXCEPT ![p] = IF x \in ExpRows THEN "templates" ELSE "done"]
          BY <3>1 DEF GetRow, Goto
        <4>2. /\ \E c \in {"templates", "runs", "done"} : pc' = [pc EXCEPT ![p] = c]
              /\ \E y \in Exps \cup {None} : exp' = [exp EXCEPT ![p] = y]
          BY <4>1
        <4>3. p \in Gets /\ answer' = answer
          BY <3>1 DEF GetRow, requestVars
        <4>4. answer' = [answer EXCEPT ![p] = answer[p]] /\ answer[p] \in SUBSET Tmpls
          BY <4>3 DEF StepsInv, StepTypes
        <4>5. QED
          BY <3>1, <4>2, <4>3, <4>4 DEF GetRow, expTables, requestVars
      <3>2. CASE GetSteps(p)
        <4>1. p \in Gets /\ exp[p] \in Exps /\ steps[exp[p]] \in SUBSET Tmpls
          BY <3>2 DEF GetSteps, Goto, StepsInv, StepTypes, AnswerOf, Requests
        <4>2. \E T \in SUBSET Tmpls : answer' = [answer EXCEPT ![p] = T]
          BY <3>2, <4>1 DEF GetSteps, StepsInv, StepTypes
        <4>3. exp' = [exp EXCEPT ![p] = exp[p]]
          BY <3>2 DEF GetSteps, StepsInv, StepTypes, Requests
        <4>4. QED
          BY <3>2, <4>1, <4>2, <4>3 DEF GetSteps, Goto, expTables
      <3>3. CASE GetRuns(p)
        <4>1. p \in Gets /\ p \in Requests /\ UNCHANGED <<exp, answer>>
          BY <3>3 DEF GetRuns, requestVars, Requests
        <4>2. /\ exp' = [exp EXCEPT ![p] = exp[p]] /\ exp[p] \in Exps \cup {None}
              /\ answer' = [answer EXCEPT ![p] = answer[p]] /\ answer[p] \in SUBSET Tmpls
          BY <4>1 DEF StepsInv, StepTypes
        <4>3. QED
          BY <3>3, <4>1, <4>2 DEF GetRuns, Goto, expTables, requestVars
      <3>4. QED
        BY <1>6, <3>1, <3>2, <3>3
    <2>2. StepTypes'
      BY <2>1 DEF StepsInv, StepTypes, PC, Exps, Requests, Calls
    <2>3. \A d \in Deletes : pc'[d] = pc[d] /\ exp'[d] = exp[d]
      BY <1>1, <2>1 DEF StepsInv, StepTypes, Requests
    <2>4. DeletionsStay
      BY <2>1, <2>3, OtherDeletions
    <2>5. ASSUME NEW g \in Gets, g # p PROVE AnswerOf(g)'
      <3>1. pc'[g] = pc[g] /\ exp'[g] = exp[g] /\ answer'[g] = answer[g]
        BY <2>1, <2>5 DEF StepsInv, StepTypes, Requests
      <3>2. QED
        BY <2>1, <2>4, <3>1, AnswerStays
    <2>6. AnswerOf(p)'
      <3>0. AnswerOf(p) /\ p \in Gets /\ p \in Requests
        BY <2>1 DEF StepsInv, Requests
      <3>1. CASE GetRow(p)
        <4>1. PICK x \in Exps :
                /\ exp' = [exp EXCEPT ![p] = IF x \in ExpRows THEN x ELSE None]
                /\ pc[p] = "idle" /\ answer' = answer
                /\ pc' = [pc EXCEPT ![p] = IF x \in ExpRows THEN "templates" ELSE "done"]
          BY <3>1 DEF GetRow, Goto, requestVars
        <4>2. CASE x \in ExpRows
          <5>1. exp'[p] = x /\ pc'[p] = "templates" /\ answer'[p] = {} /\ expSt'[x] # "none"
            BY <2>1, <3>0, <4>1, <4>2 DEF StepsInv, StepTypes, AnswerOf, ExpRows, Absent
          <5>2. QED
            BY <5>1, Domains DEF AnswerOf
        <4>3. CASE x \notin ExpRows
          <5>1. exp'[p] = None /\ pc'[p] = "done"
            BY <3>0, <4>1, <4>3 DEF StepsInv, StepTypes
          <5>2. QED
            BY <5>1 DEF AnswerOf
        <4>4. QED
          BY <4>2, <4>3
      <3>2. CASE GetSteps(p)
        <4>1. /\ pc[p] = "templates" /\ pc'[p] = "runs" /\ exp'[p] = exp[p]
              /\ \/ answer'[p] = steps[exp[p]]
                 \/ answer'[p] = answer[p] /\ p \in failed'
          BY <3>0, <3>2 DEF GetSteps, Goto, StepsInv, StepTypes
        <4>2. PICK x \in Exps : x = exp[p] /\ x = exp'[p]
          BY <3>0, <4>1 DEF StepsInv, StepTypes, AnswerOf
        <4>3. expSt[x] # "none" /\ expSt'[x] = expSt[x] /\ wanted'[x] = wanted[x]
              /\ answer[p] = {}
          BY <2>1, <3>0, <4>1, <4>2 DEF AnswerOf
        <4>4. answer'[p] = wanted'[x] \/ (answer'[p] = {} /\ WithoutSteps(p, x)')
          <5>1. CASE answer'[p] = answer[p] /\ p \in failed'
            BY <4>3, <5>1 DEF WithoutSteps
          <5>2. CASE answer'[p] = steps[x]
            <6>1. CASE expSt[x] = "gone"
              BY <4>3, <5>2, <6>1 DEF StepsInv, WithoutSteps
            <6>2. CASE expSt[x] # "gone"
              <7>1. StepsOf(x)
                BY <4>3, <6>2 DEF StepsInv, Absent
              <7>2. Stripped(x) => Stripped(x)'
                BY <2>1, <2>4, <4>3, <6>2 DEF DeletionsStay
              <7>3. QED
                BY <4>3, <5>2, <7>1, <7>2 DEF StepsOf, WithoutSteps
            <6>3. QED
              BY <6>1, <6>2
          <5>3. QED
            BY <4>1, <4>2, <5>1, <5>2
        <4>5. WithoutSteps(p, x)' => WithoutSteps(p, exp[p])'
          BY <4>2 DEF WithoutSteps, Stripped
        <4>6. QED
          BY <4>1, <4>2, <4>3, <4>4, <4>5, Domains DEF AnswerOf
      <3>3. CASE GetRuns(p)
        <4>1. /\ pc[p] = "runs" /\ pc'[p] = "done" /\ exp'[p] = exp[p]
              /\ answer'[p] = answer[p] /\ failed' = failed
          BY <3>0, <3>3 DEF GetRuns, Goto, requestVars, StepsInv, StepTypes
        <4>2. CASE exp[p] = None
          BY <4>1, <4>2 DEF AnswerOf
        <4>3. CASE exp[p] # None
          <5>1. PICK x \in Exps : x = exp[p] /\ x = exp'[p]
            BY <3>0, <4>1, <4>3 DEF StepsInv, StepTypes
          <5>2. WithoutSteps(p, x) => WithoutSteps(p, x)'
            BY <2>4, <4>1 DEF WithoutSteps, DeletionsStay
          <5>3. WithoutSteps(p, exp[p]) <=> WithoutSteps(p, x)
            BY <5>1
          <5>4. WithoutSteps(p, x)' => WithoutSteps(p, exp[p])'
            BY <5>1 DEF WithoutSteps, Stripped
          <5>5. QED
            BY <2>1, <3>0, <4>1, <4>3, <5>1, <5>2, <5>3, <5>4 DEF AnswerOf
        <4>4. QED
          BY <4>2, <4>3
      <3>4. QED
        BY <1>6, <3>1, <3>2, <3>3
    <2>7. \A g \in Gets : AnswerOf(g)'
      BY <2>5, <2>6
    <2>8. QED
      BY <1>1, <2>1, <2>2, <2>4, <2>7, StepsStay DEF StepsInv, Exps
  <1>7. CASE Activate(p)
    <2>1. PICK x \in ExpRows, c \in {"done", "load"} :
            /\ exp' = [exp EXCEPT ![p] = x] /\ pc' = [pc EXCEPT ![p] = c]
            /\ \/ expSt' = [expSt EXCEPT ![x] = IF @ = "running" THEN @ ELSE "active"]
               \/ expSt' = expSt
      BY <1>7 DEF Activate, Goto
    <2>2. p \in Users /\ UNCHANGED <<steps, wanted, answer, asked>> /\ failed \subseteq failed'
      BY <1>7 DEF Activate, restOfRequest
    <2>3. /\ expSt' \in [Exps -> ExpStatus \cup Absent]
          /\ \A y \in Exps : /\ expSt'[y] \notin Absent => expSt[y] \notin Absent
                             /\ expSt[y] # "none" => expSt'[y] # "none"
                             /\ expSt[y] = "gone" => expSt'[y] = "gone"
      BY <2>1 DEF StepsInv, StepTypes, ExpStatus, Absent, ExpRows
    <2>4. /\ pc' \in [Requests -> PC] /\ exp' \in [Requests -> Exps \cup {None}]
          /\ \A q \in Deletes \cup Gets : pc'[q] = pc[q] /\ exp'[q] = exp[q]
      BY <1>1, <2>1, <2>2, Domains DEF StepsInv, StepTypes, PC, Requests, ExpRows
    <2>5. asked' \in [Creates -> SUBSET Tmpls]
      BY <2>2 DEF StepsInv, StepTypes
    <2>6. QED
      BY <1>1, <2>2, <2>3, <2>4, <2>5, StepsAside
  <1>8. CASE \/ CreateBegin(p) \/ CreateLookup(p) \/ UpdateRead(p) \/ UpdateWrite(p)
              \/ ListBegin(p) \/ ListCount(p) \/ ListPage(p) \/ LoadExperiment(p)
              \/ FindActiveRun(p) \/ InsertRun(p) \/ StartRun(p) \/ FinishRun(p)
    <2>1. /\ p \in Creates \cup Updates \cup Lists \cup Calls
          /\ UNCHANGED <<steps, wanted, answer, expSt, failed>>
      BY <1>8
      DEF CreateBegin, CreateLookup, UpdateRead, UpdateWrite, ListBegin,
          ListCount, ListPage, LoadExperiment, FindActiveRun, InsertRun,
          StartRun, FinishRun, expTables, callVars, requestVars
    <2>2. PICK c \in PC : pc' = [pc EXCEPT ![p] = c]
      BY <1>8
      DEF CreateBegin, CreateLookup, UpdateRead, UpdateWrite, ListBegin,
          ListCount, ListPage, LoadExperiment, FindActiveRun, InsertRun,
          StartRun, FinishRun, Goto, PC
    <2>3. exp' = exp \/ \E x \in Exps : exp' = [exp EXCEPT ![p] = x]
      BY <1>8
      DEF CreateBegin, CreateLookup, UpdateRead, UpdateWrite, ListBegin,
          ListCount, ListPage, LoadExperiment, FindActiveRun, InsertRun,
          StartRun, FinishRun
    <2>4. asked' \in [Creates -> SUBSET Tmpls]
      <3>1. CASE CreateBegin(p)
        BY <3>1, RecordsAssumption DEF CreateBegin, StepsInv, StepTypes
      <3>2. CASE UNCHANGED asked
        BY <3>2 DEF StepsInv, StepTypes
      <3>3. QED
        BY <1>8, <3>1, <3>2
        DEF CreateLookup, UpdateRead, UpdateWrite, ListBegin, ListCount,
            ListPage, LoadExperiment, FindActiveRun, InsertRun, StartRun,
            FinishRun, callVars, requestVars
    <2>5. /\ pc' \in [Requests -> PC] /\ exp' \in [Requests -> Exps \cup {None}]
          /\ \A q \in Deletes \cup Gets : pc'[q] = pc[q] /\ exp'[q] = exp[q]
      BY <1>1, <2>1, <2>2, <2>3 DEF StepsInv, StepTypes, Requests
    <2>6. QED
      BY <1>1, <2>1, <2>4, <2>5, StepsAside DEF StepsInv, StepTypes
  <1>9. QED
    BY <1>2, <1>3, <1>4, <1>5, <1>6, <1>7, <1>8 DEF RecordStep

\* Every step leaves the stored steps whole.
LEMMA StepsNext ==
  StepsInv /\ DeletesIdle /\ SlugInv /\ RunsInv /\ RunnerInv /\ CronOfExps /\ [Next]_vars
    => StepsInv'
  <1> SUFFICES ASSUME StepsInv, DeletesIdle, SlugInv, RunsInv, RunnerInv, CronOfExps,
                      [Next]_vars
               PROVE  StepsInv'
    OBVIOUS
  <1>1. ASSUME UNCHANGED <<steps, wanted, answer, asked, tmplVars, expSt, failed>>,
               pc' \in [Requests -> PC], exp' \in [Requests -> Exps \cup {None}],
               \A q \in Requests : q \notin Fires => pc'[q] = pc[q] /\ exp'[q] = exp[q]
        PROVE  StepsInv'
    <2>1. Stored' = Stored
      BY <1>1 DEF Stored, tmplVars
    <2>2. \A q \in Deletes \cup Gets : pc'[q] = pc[q] /\ exp'[q] = exp[q]
      BY <1>1, RecordsAssumption DEF Requests
    <2>3. QED
      BY <1>1, <2>1, <2>2, StepsAside DEF StepsInv, StepTypes
  <1>2. CASE UNCHANGED <<steps, wanted, answer, asked, tmplVars, expSt, failed, pc,
                       exp>>
    BY <1>1, <1>2 DEF StepsInv, StepTypes
  <1>3. ASSUME NEW h \in Replicas, CronFires(h) PROVE StepsInv'
    <2>1. PICK f \in Fires, x \in Exps :
            pc' = [pc EXCEPT ![f] = "load"] /\ exp' = [exp EXCEPT ![f] = x]
      BY <1>3 DEF CronFires, Goto
    <2>2. UNCHANGED <<steps, wanted, answer, asked, tmplVars, expSt, failed>>
      BY <1>3 DEF CronFires, unfired, expTables, requestVars
    <2>3. QED
      BY <1>1, <2>1, <2>2, Domains DEF StepsInv, StepTypes, PC
  <1>4. ASSUME NEW h \in Replicas, PollOnce(h) PROVE StepsInv'
    <2>1. PICK X \in SUBSET Exps : PollStarts(h, X)
      BY <1>4 DEF PollOnce, Scheduled, CronOfExps
    <2>2. PICK F \in SUBSET Fires : \E m \in [F -> X] :
            /\ pc' = [q \in Requests |-> IF q \in F THEN "load" ELSE pc[q]]
            /\ exp' = [q \in Requests |-> IF q \in F THEN m[q] ELSE exp[q]]
      BY <2>1 DEF PollStarts
    <2>3. PICK m \in [F -> X] :
            /\ pc' = [q \in Requests |-> IF q \in F THEN "load" ELSE pc[q]]
            /\ exp' = [q \in Requests |-> IF q \in F THEN m[q] ELSE exp[q]]
      BY <2>2
    <2>4. UNCHANGED <<steps, wanted, answer, asked, tmplVars, expSt, failed>>
      BY <1>4 DEF PollOnce, unfired, expTables, requestVars
    <2>5. QED
      BY <1>1, <2>3, <2>4 DEF StepsInv, StepTypes, PC
  <1>5. ASSUME NEW f \in Fires, FireReturns(f) PROVE StepsInv'
    <2>1. /\ pc' = [pc EXCEPT ![f] = "idle"] /\ exp' = [exp EXCEPT ![f] = None]
          /\ UNCHANGED <<steps, wanted, answer, asked, tmplVars, expSt, failed>>
      BY <1>5 DEF FireReturns, Goto, expTables, requestVars
    <2>2. QED
      BY <1>1, <2>1, Domains DEF StepsInv, StepTypes, PC
  <1>6. ASSUME NEW h \in Replicas, Exit(h) PROVE StepsInv'
    <2> DEFINE cut == FiredBy(h, "cron") \cup FiredBy(h, "poll")
    <2>1. /\ pc' = [q \in Requests |-> IF q \in cut THEN "idle" ELSE pc[q]]
          /\ exp' = [q \in Requests |-> IF q \in cut THEN None ELSE exp[q]]
          /\ UNCHANGED <<steps, wanted, answer, asked, tmplVars, expSt, failed>>
      BY <1>6 DEF Exit, expTables, requestVars
    <2>2. cut \subseteq Fires
      BY DEF FiredBy
    <2> HIDE DEF cut
    <2>3. QED
      BY <1>1, <2>1, <2>2 DEF StepsInv, StepTypes, PC
  <1>7. ASSUME NEW o \in Ops, RecurUpdate(o) PROVE StepsInv'
    <2>1. UNCHANGED <<steps, wanted, answer, asked, tmplVars, failed, pc, exp>>
      BY <1>7 DEF RecurUpdate, requestVars
    <2>2. /\ expSt' \in [Exps -> ExpStatus \cup Absent]
          /\ \A x \in Exps : /\ expSt'[x] \notin Absent => expSt[x] \notin Absent
                             /\ expSt[x] # "none" => expSt'[x] # "none"
                             /\ expSt[x] = "gone" => expSt'[x] = "gone"
      BY <1>7 DEF RecurUpdate, StepsInv, StepTypes, ExpStatus, Absent, ExpRows
    <2>3. Stored' = Stored
      BY <2>1 DEF Stored, tmplVars
    <2>4. QED
      BY <2>1, <2>2, <2>3, StepsAside DEF StepsInv, StepTypes
  <1>8. ASSUME NEW h \in Replicas, ReplicaStep(h) PROVE StepsInv'
    BY <1>2, <1>3, <1>4, <1>6, <1>8
    DEF ReplicaStep, Start, LoadJobs, Stop, PollExits, JobsEnd, records,
        recordVars
  <1>9. ASSUME NEW o \in Ops, OpStep(o) PROVE StepsInv'
    BY <1>2, <1>7, <1>9
    DEF OpStep, LookUp, ScheduleKey, RecurRegister, CancelKey, CancelRow,
        CancelRemove, records, recordVars, requestVars
  <1>10. ASSUME NEW x \in Exps, KeyExpires(x) PROVE StepsInv'
    BY <1>2, <1>10 DEF KeyExpires, records, recordVars
  <1>11. CASE UNCHANGED vars
    BY <1>2, <1>11 DEF vars, recordVars
  <1>12. QED
    BY <1>5, <1>8, <1>9, <1>10, <1>11, StepsRecord, StepsTemplate DEF Next

-----------------------------------------------------------------------------
(* The clients that list a table page by page.                             *)

\* The variables no other part speaks of.
RestTypes ==
  /\ active \subseteq Tmpls
  /\ todo \in [Creates -> SUBSET Tmpls]
  /\ list \in [Lists -> ListState]
  /\ taking \in Taking
  /\ key \in [Exps -> {"none", "cron", "once"}]
  /\ boots \in Nat
  /\ DeletesIdle

\* The rows that sort unlike any other, and where they come among S.
Single(S) == {r \in S : \A q \in S : q[1] = r[1] => q = r}
Position(r, S) == Cardinality({q \in S : q[1] < r[1]})

\* Nothing came from elsewhere, and no such row twice.
Sound(c) ==
  /\ c.seen \subseteq c.base
  /\ \A r \in Single(c.base) : r \notin c.twice /\ ~(r \in c.seen /\ r \in c.unread)

Met(c, r) == r \in c.seen \/ r \in c.unread

OnItsWay(c) ==
  /\ IsFiniteSet(c.base)
  /\ c.page # 0
  /\ Sound(c)
  /\ \A r \in Single(c.base) :
       Met(c, r) <=> Position(r, c.base) < (c.page - 1) * PageSize

\* As long as the table has stayed as it was, a client has met those of these rows
\* that belong to the pages behind it; when it is done these are all.
ListInvOf(l) ==
  /\ list[l].by \in SortedBy(list[l].table)
  /\ pc[l] \notin {"count", "page", "done"} => list[l].base = {} /\ list[l].seen = {}
  /\ list[l].still = "yes" =>
       /\ pc[l] \in {"count", "page"} => OnItsWay(list[l])
       /\ pc[l] = "page" => list[l].total = Cardinality(list[l].base)
       /\ pc[l] = "done" => /\ Sound(list[l])
                            /\ \A r \in Single(list[l].base) : Met(list[l], r)

ListInv == \A l \in Lists : ListInvOf(l)

\* A row comes after fewer rows than there are.
LEMMA PositionBound ==
  ASSUME NEW S \in SUBSET (Nat \X Nat), IsFiniteSet(S), NEW r \in S
  PROVE  Position(r, S) \in Nat /\ Position(r, S) < Cardinality(S)
  <1> DEFINE less == {q \in S : q[1] < r[1]}
  <1>1. less \in SUBSET (S \ {r})
    <2>1. ASSUME NEW q \in S, q[1] < r[1] PROVE q # r
      <3>1. r[1] \in Nat
        OBVIOUS
      <3>2. QED
        BY <2>1, <3>1
    <2>2. QED
      BY <2>1
  <1> HIDE DEF less
  <1>2. IsFiniteSet(S \ {r}) /\ Cardinality(S \ {r}) = Cardinality(S) - 1
    BY FS_RemoveElement
  <1>3. IsFiniteSet(less) /\ Cardinality(less) <= Cardinality(S \ {r})
    BY <1>1, <1>2, FS_Subset
  <1>4. Cardinality(S) \in Nat /\ Cardinality(less) \in Nat
    BY <1>3, FS_CardinalityType
  <1>5. Cardinality(less) < Cardinality(S)
    BY <1>2, <1>3, <1>4
  <1>6. QED
    BY <1>4, <1>5 DEF less, Position

\* In whatever order the database puts the rows that tie, one that ties with no
\* other is where it always is.
LEMMA SinglesStay ==
  ASSUME NEW S \in SUBSET (Nat \X Nat), IsFiniteSet(S), NEW r \in Single(S),
         NEW tie \in TieBreaks(S)
  PROVE  Rank(r, S, tie) = Position(r, S)
  <1>1. ASSUME NEW q \in S PROVE Before(q, r, tie) <=> q[1] < r[1]
    <2>1. r \in S /\ (q[1] = r[1] => q = r)
      BY DEF Single
    <2>2. Cardinality(S) \in Nat /\ tie[r] \in 1..Cardinality(S)
      BY <2>1, FS_CardinalityType DEF TieBreaks
    <2>3. ~(tie[r] < tie[r])
      BY <2>2
    <2>4. QED
      BY <2>1, <2>3 DEF Before
  <1>2. {q \in S : Before(q, r, tie)} = {q \in S : q[1] < r[1]}
    BY <1>1
  <1>3. QED
    BY <1>2 DEF Rank, Position

\* The pages counted from a total hold that many rows.
LEMMA EnoughPages ==
  ASSUME NEW n \in Nat, NEW total \in Nat, n <= total,
         NEW size \in Nat \ {0}, NEW page \in Nat, page # 0,
         ~(page < TotalPages(total, size))
  PROVE  n <= page * size
  <1>1. page * size \in Nat
    OBVIOUS
  <1>2. CASE total = 0
    BY <1>1, <1>2
  <1>3. CASE total # 0
    <2> DEFINE q == (total + size - 1) \div size
    <2>1. q \in Nat /\ total + size - 1 < q * size + size
      OBVIOUS
    <2>2. q <= page
      BY <1>3, <2>1 DEF TotalPages
    <2> HIDE DEF q
    <2>3. q * size <= page * size /\ q * size \in Nat
      BY <2>1, <2>2
    <2>4. QED
      BY <1>1, <2>1, <2>3
  <1>4. QED
    BY <1>2, <1>3

\* A page begins where the one before it ended.
LEMMA PageHolds ==
  ASSUME NEW S \in SUBSET (Nat \X Nat), IsFiniteSet(S), NEW k \in Nat \ {0},
         NEW tie \in TieBreaks(S), NEW r \in Single(S)
  PROVE  /\ r \in PageOf(S, tie, k, PageSize) =>
              ~(Position(r, S) < (k - 1) * PageSize)
         /\ Position(r, S) < k * PageSize <=>
              \/ Position(r, S) < (k - 1) * PageSize
              \/ r \in PageOf(S, tie, k, PageSize)
  <1> DEFINE a == (k - 1) * PageSize
             b == k * PageSize
             n == Position(r, S)
  <1>1. a \in Nat /\ b \in Nat /\ a <= b
    BY RecordsAssumption
  <1>2. r \in S /\ n \in Nat
    <2>1. r \in S
      BY DEF Single
    <2>2. QED
      BY <2>1, PositionBound
  <1>3. r \in PageOf(S, tie, k, PageSize) <=> n >= a /\ n < b
    BY <1>2, SinglesStay DEF PageOf
  <1> HIDE DEF a, b, n
  <1>4. /\ r \in PageOf(S, tie, k, PageSize) => ~(n < a)
        /\ n < b <=> n < a \/ r \in PageOf(S, tie, k, PageSize)
    BY <1>1, <1>2, <1>3
  <1>5. QED
    BY <1>4 DEF a, b, n

\* Every table is a finite set of rows.
LEMMA RowsFinite ==
  ASSUME RunTypes, NEW table \in Tables, NEW by \in SortedBy(table)
  PROVE  /\ Rows(table, by) \in SUBSET (Nat \X Nat)
         /\ IsFiniteSet(Rows(table, by)) /\ Cardinality(Rows(table, by)) \in Nat
  <1>1. IsFiniteSet(1..MaxExps) /\ IsFiniteSet(1..MaxRuns)
    BY TemplatesAssumption, RecordsAssumption, FS_Interval
  <1>2. /\ Numbers("experiments") \in SUBSET (1..MaxExps)
        /\ Numbers("templates") \in SUBSET Tmpls
        /\ Numbers("runs") \in SUBSET (1..MaxRuns)
    BY DEF Numbers, ExpRows, Exps, Stored, RunsOf, RunRows, RunIds
  <1>3. IsFiniteSet(Numbers(table)) /\ Numbers(table) \subseteq Exps \cup Tmpls \cup RunIds
    BY <1>1, <1>2, TemplatesAssumption, FS_Subset DEF Tables, Exps, RunIds
  <1>4. ASSUME NEW i \in Numbers(table) PROVE SortKey(by, i) \in Nat /\ i \in Nat
    <2>1. i \in Nat
      <3>1. Exps \subseteq Nat /\ Tmpls \subseteq Nat /\ RunIds \subseteq Nat
        BY TemplatesAssumption DEF Exps, RunIds
      <3>2. QED
        BY <1>3, <3>1
    <2>2. CASE by = "status"
      <3>1. table = "experiments"
        BY <2>2 DEF SortedBy, Tables
      <3>2. expSt[i] \in ExpStatus
        BY <3>1 DEF Numbers, ExpRows, RunTypes, Absent
      <3>3. StatusOrder[expSt[i]] \in Nat
        BY <3>2 DEF StatusOrder, ExpStatus
      <3>4. QED
        BY <2>1, <2>2, <3>3 DEF SortKey
    <2>3. CASE by # "status"
      <3>1. by \in Columns
        BY <2>3 DEF SortedBy, Tables, Columns
      <3>2. Column[by][i] \in Nat
        BY <1>3, <3>1, RecordsAssumption
      <3>3. QED
        BY <2>1, <2>3, <3>2 DEF SortKey
    <2>4. QED
      BY <2>2, <2>3
  <1>5. Rows(table, by) \in SUBSET (Nat \X Nat)
    BY <1>4 DEF Rows
  <1>6. IsFiniteSet(Rows(table, by))
    <2> DEFINE f == [i \in Numbers(table) |-> <<SortKey(by, i), i>>]
    <2>1. f \in Surjection(Numbers(table), Rows(table, by))
      BY DEF Surjection, Rows
    <2>2. QED
      BY <1>3, <2>1, FS_Surjection
  <1>7. QED
    BY <1>5, <1>6, FS_CardinalityType

\* Nobody has begun to list.
LEMMA ListInit == Init => RestTypes /\ ListInv
  <1> SUFFICES ASSUME Init PROVE RestTypes /\ ListInv
    OBVIOUS
  <1>1. NewList("experiments", "created_at") \in ListState
    BY DEF NewList, ListState, Tables, SortColumns, Columns
  <1>2. /\ list = [p \in Lists |-> NewList("experiments", "created_at")]
        /\ \A l \in Lists : pc[l] = "idle"
    BY DEF Init, RecordsInit, Requests
  <1>3. DeletesIdle
    BY DEF Init, RecordsInit, DeletesIdle
  <1>4. RestTypes
    BY <1>1, <1>2, <1>3, TemplatesAssumption
    DEF RestTypes, Init, RecordsInit, TemplatesInit
  <1>5. ListInv
    BY <1>2 DEF ListInv, ListInvOf, NewList, SortedBy
  <1>6. QED
    BY <1>4, <1>5

\* A step that leaves the listing clients alone, though it may be a request that
\* begins or ends.
LEMMA ListsAside ==
  ASSUME ListInv, list' = list,
         \A l \in Lists : \/ pc'[l] = pc[l]
                          \/ /\ pc[l] \notin {"count", "page", "done"}
                             /\ pc'[l] \notin {"count", "page"}
  PROVE  ListInv'
  <1> SUFFICES ASSUME NEW l \in Lists PROVE ListInvOf(l)'
    BY DEF ListInv
  <1>1. ListInvOf(l)
    BY DEF ListInv
  <1>2. CASE pc'[l] = pc[l]
    BY <1>1, <1>2
    DEF ListInvOf, OnItsWay, Sound, Single, Met, Position, SortedBy
  <1>3. CASE /\ pc[l] \notin {"count", "page", "done"}
             /\ pc'[l] \notin {"count", "page"}
    <2>1. list'[l].base = {} /\ list'[l].seen = {}
      BY <1>1, <1>3 DEF ListInvOf
    <2>2. QED
      BY <1>1, <1>3, <2>1 DEF ListInvOf, Sound, Single, Met, SortedBy
  <1>4. QED
    BY <1>2, <1>3

\* A step of a client says nothing of the others.
LEMMA ListChanges ==
  ASSUME RunTypes, RestTypes, ListInv, NEW l \in Lists,
         NEW st \in ListState, list' = [list EXCEPT ![l] = st],
         NEW to \in PC, pc' = [pc EXCEPT ![l] = to],
         (list'[l] = st /\ pc'[l] = to) => ListInvOf(l)'
  PROVE  list' \in [Lists -> ListState] /\ ListInv'
  <1>1. /\ l \in Requests /\ pc \in [Requests -> PC] /\ list \in [Lists -> ListState]
    BY DEF RunTypes, RestTypes, Requests
  <1>2. list' \in [Lists -> ListState] /\ ListInvOf(l)'
    BY <1>1
  <1>3. ASSUME NEW k \in Lists, k # l PROVE ListInvOf(k)'
    <2>1. list'[k] = list[k] /\ pc'[k] = pc[k] /\ ListInvOf(k)
      BY <1>1, <1>3 DEF ListInv, Requests
    <2>2. QED
      BY <2>1 DEF ListInvOf, OnItsWay, Sound, Single, Met, Position, SortedBy
  <1>4. QED
    BY <1>2, <1>3 DEF ListInv

\* The client begins with the rows there are.
LEMMA ListsBegin ==
  ASSUME RunTypes, RestTypes, ListInv, NEW l \in Lists, ListBegin(l)
  PROVE  list' \in [Lists -> ListState] /\ ListInv'
  <1>0. PICK t \in Tables : \E by \in SortedBy(t) :
          list' = [list EXCEPT ![l] = [NewList(t, by) EXCEPT !.base = Rows(t, by)]]
    BY DEF ListBegin
  <1>1. PICK by \in SortedBy(t) :
          list' = [list EXCEPT ![l] = [NewList(t, by) EXCEPT !.base = Rows(t, by)]]
    BY <1>0
  <1>2. PICK st : st = [table |-> t, by |-> by, page |-> 1, total |-> 0, seen |-> {},
                        base |-> Rows(t, by), still |-> "yes", unread |-> {},
                        twice |-> {}]
    OBVIOUS
  <1>3. /\ Rows(t, by) \in SUBSET (Nat \X Nat) /\ IsFiniteSet(Rows(t, by))
    BY RowsFinite
  <1>4. list' = [list EXCEPT ![l] = st]
    <2>1. [NewList(t, by) EXCEPT !.base = Rows(t, by)] = st
      BY <1>2 DEF NewList
    <2>2. QED
      BY <1>1, <2>1
  <1>5. by \in SortColumns
    BY DEF SortedBy, Tables, SortColumns, Columns
  <1>6. st \in ListState
    BY <1>2, <1>3, <1>5 DEF ListState
  <1>7. pc' = [pc EXCEPT ![l] = "count"] /\ "count" \in PC
    BY DEF ListBegin, Goto, PC
  <1>8. OnItsWay(st)
    <2>1. ASSUME NEW r \in Single(st.base)
          PROVE  ~(Position(r, st.base) < (st.page - 1) * PageSize)
      <3>1. r \in Rows(t, by) /\ st.base = Rows(t, by) /\ st.page = 1
        BY <1>2, <2>1 DEF Single
      <3>2. Position(r, st.base) \in Nat
        BY <1>3, <3>1, PositionBound
      <3>3. (st.page - 1) * PageSize = 0
        BY <3>1, RecordsAssumption
      <3>4. QED
        BY <3>2, <3>3
    <2>2. st.seen = {} /\ st.unread = {} /\ st.twice = {} /\ st.page # 0
      BY <1>2
    <2>3. IsFiniteSet(st.base)
      BY <1>2, <1>3
    <2>4. QED
      BY <2>1, <2>2, <2>3 DEF OnItsWay, Sound, Met
  <1>9. st.by \in SortedBy(st.table)
    BY <1>2
  <1>10. (list'[l] = st /\ pc'[l] = "count") => ListInvOf(l)'
    BY <1>8, <1>9 DEF ListInvOf, OnItsWay, Sound, Single, Met, Position, SortedBy
  <1>11. QED
    BY <1>4, <1>6, <1>7, <1>10, ListChanges

\* The count is that of the rows.
LEMMA ListsCount ==
  ASSUME RunTypes, RestTypes, ListInv, NEW l \in Lists, ListCount(l)
  PROVE  list' \in [Lists -> ListState] /\ ListInv'
  <1>0. PICK c \in ListState : c = list[l]
    BY DEF RestTypes
  <1>1. PICK rows : rows = Rows(c.table, c.by)
    OBVIOUS
  <1>2. PICK still \in {"yes", "no"} :
          /\ still = Still(c)
          /\ still = "yes" => c.still = "yes" /\ rows = c.base
    BY <1>1 DEF Still
  <1>3. ListInvOf(l) /\ c.by \in SortedBy(c.table) /\ c.table \in Tables
    BY <1>0 DEF ListInv, ListInvOf, ListState
  <1>4. Cardinality(rows) \in Nat
    BY <1>1, <1>3, RowsFinite
  <1>5. PICK st : st = [c EXCEPT !.total = Cardinality(rows), !.still = still]
    OBVIOUS
  <1>6. st \in ListState
    BY <1>4, <1>5 DEF ListState
  <1>7. /\ st.still = still /\ st.total = Cardinality(rows)
        /\ st.page = c.page /\ st.base = c.base /\ st.seen = c.seen
        /\ st.unread = c.unread /\ st.twice = c.twice
        /\ st.by = c.by /\ st.table = c.table
    BY <1>5 DEF ListState
  <1>8. pc[l] = "count" /\ pc' = [pc EXCEPT ![l] = "page"] /\ "page" \in PC
    BY DEF ListCount, Goto, PC
  <1>9. list' = [list EXCEPT ![l] = st]
    <2>1. list' = [list EXCEPT ![l].total = Cardinality(Rows(list[l].table, list[l].by)),
                               ![l].still = Still(list[l])]
      BY DEF ListCount
    <2>2. list' = [list EXCEPT ![l].total = Cardinality(rows), ![l].still = still]
      BY <1>0, <1>1, <1>2, <2>1
    <2>3. QED
      BY <1>0, <1>5, <2>2 DEF RestTypes
  <1>10. st.still = "yes" => OnItsWay(st) /\ st.total = Cardinality(st.base)
    <2>1. st.still = "yes" => OnItsWay(c) /\ rows = c.base
      BY <1>0, <1>2, <1>3, <1>7, <1>8 DEF ListInvOf
    <2>2. QED
      BY <1>7, <2>1 DEF OnItsWay, Sound, Single, Met, Position
  <1>11. (list'[l] = st /\ pc'[l] = "page") => ListInvOf(l)'
    BY <1>3, <1>7, <1>10
    DEF ListInvOf, OnItsWay, Sound, Single, Met, Position, SortedBy
  <1>12. QED
    BY <1>6, <1>8, <1>9, <1>11, ListChanges

\* A page adds to the rows met those that follow them, up to all.
LEMMA ListsPage ==
  ASSUME RunTypes, RestTypes, ListInv, NEW l \in Lists, ListPage(l)
  PROVE  list' \in [Lists -> ListState] /\ ListInv'
  <1>0. PICK c \in ListState : c = list[l]
    BY DEF RestTypes
  <1>1. PICK rows : rows = Rows(c.table, c.by)
    OBVIOUS
  <1>2. PICK still \in {"yes", "no"} :
          /\ still = Still(c)
          /\ still = "yes" => c.still = "yes" /\ rows = c.base
    BY <1>1 DEF Still
  <1>3. /\ ListInvOf(l) /\ c.by \in SortedBy(c.table) /\ c.table \in Tables
        /\ PageSize \in Nat \ {0}
    BY <1>0, RecordsAssumption DEF ListInv, ListInvOf, ListState
  <1>4. rows \in SUBSET (Nat \X Nat) /\ IsFiniteSet(rows)
    BY <1>1, <1>3, RowsFinite
  <1> DEFINE Fills(d, S, t) == IF d.table = "experiments" THEN {{}}
                               ELSE SUBSET PageOf(S, t, PageAsked(d.page), PageSize)
             Shows(d, S, t, b) ==
               LET shown == PageOf(S, t, PageAsked(d.page), PageSize) \ b
               IN  /\ Goto(l, "page", IF d.page < TotalPages(Listed(d, shown), PageSize)
                                        THEN "count" ELSE "done")
                   /\ list' = [list EXCEPT ![l].page = @ + 1,
                                           ![l].seen = @ \cup shown,
                                           ![l].unread = @ \cup b,
                                           ![l].twice = @ \cup (d.seen \cap shown),
                                           ![l].still = Still(d)]
  <1>5. PICK tie \in TieBreaks(rows), bad \in SUBSET rows :
          /\ bad \in SUBSET PageOf(rows, tie, PageAsked(c.page), PageSize)
          /\ Shows(c, rows, tie, bad)
    <2>1. \E t \in TieBreaks(Rows(list[l].table, list[l].by)) :
            \E b \in Fills(list[l], Rows(list[l].table, list[l].by), t) :
              Shows(list[l], Rows(list[l].table, list[l].by), t, b)
      BY DEF ListPage
    <2> HIDE DEF Fills, Shows
    <2>2. PICK t \in TieBreaks(rows) : \E b \in Fills(c, rows, t) : Shows(c, rows, t, b)
      BY <1>0, <1>1, <2>1
    <2>3. PICK b \in Fills(c, rows, t) : Shows(c, rows, t, b)
      BY <2>2
    <2>4. b \in SUBSET PageOf(rows, t, PageAsked(c.page), PageSize)
      BY <2>3 DEF Fills
    <2>5. b \in SUBSET rows
      BY <2>4 DEF PageOf
    <2>6. QED
      BY <2>3, <2>4, <2>5
  <1>6. PICK page : page = PageOf(rows, tie, PageAsked(c.page), PageSize)
    OBVIOUS
  <1>7. PICK items : items = page \ bad
    OBVIOUS
  <1>8. PICK to \in {"count", "done"} :
          to = IF c.page < TotalPages(Listed(c, items), PageSize) THEN "count" ELSE "done"
    OBVIOUS
  <1>9. PICK st : st = [c EXCEPT !.page = @ + 1, !.seen = @ \cup items,
                                 !.unread = @ \cup bad,
                                 !.twice = @ \cup (c.seen \cap items),
                                 !.still = still]
    OBVIOUS
  <1>10. pc[l] = "page" /\ pc' = [pc EXCEPT ![l] = to] /\ to \in PC
    BY <1>5, <1>6, <1>7, <1>8 DEF Goto, PC
  <1>11. list' = [list EXCEPT ![l] = st]
    <2>1. list' = [list EXCEPT ![l].page = @ + 1, ![l].seen = @ \cup items,
                               ![l].unread = @ \cup bad,
                               ![l].twice = @ \cup (c.seen \cap items),
                               ![l].still = still]
      BY <1>2, <1>5, <1>6, <1>7
    <2>2. QED
      BY <1>0, <1>9, <2>1 DEF RestTypes
  <1>12. /\ page \subseteq rows /\ bad \subseteq page /\ items \subseteq rows
         /\ items \in SUBSET (Nat \X Nat) /\ bad \in SUBSET (Nat \X Nat)
    BY <1>4, <1>5, <1>6, <1>7 DEF PageOf
  <1>13. st \in ListState
    <2>1. /\ c.page + 1 \in Nat /\ c.seen \cup items \in SUBSET (Nat \X Nat)
          /\ c.unread \cup bad \in SUBSET (Nat \X Nat)
          /\ c.twice \cup (c.seen \cap items) \in SUBSET (Nat \X Nat)
      BY <1>0, <1>12 DEF ListState
    <2>2. ASSUME NEW pg \in Nat, NEW sn \in SUBSET (Nat \X Nat),
                 NEW un \in SUBSET (Nat \X Nat), NEW tw \in SUBSET (Nat \X Nat)
          PROVE  [c EXCEPT !.page = pg, !.seen = sn, !.unread = un, !.twice = tw,
                           !.still = still] \in ListState
      BY <1>0, <1>2 DEF ListState
    <2>3. QED
      BY <1>9, <2>1, <2>2
  <1>14. /\ st.still = still /\ st.page = c.page + 1 /\ st.base = c.base
         /\ st.seen = c.seen \cup items /\ st.unread = c.unread \cup bad
         /\ st.twice = c.twice \cup (c.seen \cap items)
         /\ st.by = c.by /\ st.table = c.table
    BY <1>0, <1>9 DEF ListState
  <1>15. c.total \in Nat /\ Listed(c, items) \in Nat /\ c.total <= Listed(c, items)
    <2>1. ModulesBeside({r[2] : r \in items}) \in SUBSET Modules
      BY DEF ModulesBeside
    <2>2. Cardinality(ModulesBeside({r[2] : r \in items})) \in Nat
      BY <2>1, TemplatesAssumption, FS_Subset, FS_CardinalityType
    <2>3. QED
      BY <1>0, <2>2 DEF Listed, ListState
  <1>16. ASSUME st.still = "yes"
         PROVE  /\ OnItsWay(st)
                /\ to = "done" => \A r \in Single(st.base) : Met(st, r)
    <2>1. /\ OnItsWay(c) /\ c.total = Cardinality(c.base) /\ rows = c.base
          /\ c.page \in Nat \ {0}
      BY <1>0, <1>2, <1>3, <1>10, <1>14, <1>16 DEF ListInvOf, OnItsWay, ListState
    <2>2. page = PageOf(c.base, tie, c.page, PageSize)
      BY <1>6, <2>1 DEF PageAsked
    <2>3. (st.page - 1) * PageSize = c.page * PageSize
      BY <1>14, <2>1
    <2>4. ASSUME NEW r \in Single(c.base)
          PROVE  /\ r \in page => ~Met(c, r)
                 /\ Position(r, c.base) < c.page * PageSize <=> Met(c, r) \/ r \in page
      BY <1>4, <1>5, <2>1, <2>2, PageHolds DEF OnItsWay
    <2>5. Sound(st)
      <3>1. st.seen \subseteq st.base
        BY <1>12, <1>14, <2>1 DEF OnItsWay, Sound
      <3>2. ASSUME NEW r \in Single(c.base)
            PROVE  r \notin st.twice /\ ~(r \in st.seen /\ r \in st.unread)
        <4>1. r \notin c.twice /\ ~(r \in c.seen /\ r \in c.unread)
          BY <2>1 DEF OnItsWay, Sound
        <4>2. r \in items \/ r \in bad => r \notin c.seen /\ r \notin c.unread
          BY <1>7, <1>12, <2>4 DEF Met
        <4>3. ~(r \in items /\ r \in bad)
          BY <1>7
        <4>4. QED
          BY <1>14, <4>1, <4>2, <4>3
      <3>3. QED
        BY <1>14, <3>1, <3>2 DEF Sound
    <2>6. ASSUME NEW r \in Single(c.base)
          PROVE  Met(st, r) <=> Position(r, c.base) < c.page * PageSize
      <3>1. r \in items \/ r \in bad <=> r \in page
        BY <1>7, <1>12
      <3>2. Met(st, r) <=> Met(c, r) \/ r \in page
        BY <1>14, <3>1 DEF Met
      <3>3. QED
        BY <2>4, <3>2
    <2>7. OnItsWay(st)
      <3>1. IsFiniteSet(st.base) /\ st.page # 0
        BY <1>14, <2>1 DEF OnItsWay
      <3>2. QED
        BY <1>14, <2>3, <2>5, <2>6, <3>1 DEF OnItsWay
    <2>8. ASSUME to = "done", NEW r \in Single(c.base) PROVE Met(st, r)
      <3>1. Cardinality(c.base) \in Nat /\ c.base \in SUBSET (Nat \X Nat)
        BY <1>4, <2>1, FS_CardinalityType
      <3>2. Cardinality(c.base) <= c.page * PageSize
        <4>1. ~(c.page < TotalPages(Listed(c, items), PageSize))
          BY <1>8, <2>8
        <4>2. Cardinality(c.base) <= Listed(c, items)
          BY <1>15, <2>1
        <4>3. QED
          BY <1>3, <1>15, <2>1, <3>1, <4>1, <4>2, EnoughPages
      <3>3. r \in c.base
        BY <2>8 DEF Single
      <3>4. Position(r, c.base) \in Nat /\ Position(r, c.base) < Cardinality(c.base)
        BY <1>4, <2>1, <3>3, PositionBound
      <3>5. c.page * PageSize \in Nat
        BY <1>3, <2>1
      <3>6. QED
        BY <2>6, <3>1, <3>2, <3>4, <3>5
    <2>9. QED
      BY <1>14, <2>7, <2>8
  <1>17. (list'[l] = st /\ pc'[l] = to) => ListInvOf(l)'
    <2>1. st.by \in SortedBy(st.table)
      BY <1>3, <1>14
    <2>2. st.still = "yes" => Sound(st)
      BY <1>16 DEF OnItsWay
    <2>3. QED
      BY <1>8, <1>16, <2>1, <2>2
      DEF ListInvOf, OnItsWay, Sound, Single, Met, Position, SortedBy
  <1>18. QED
    BY <1>10, <1>11, <1>13, <1>17, ListChanges

\* Another request is not listing, before its step and after.
LEMMA OtherRequests ==
  ASSUME RunTypes, NEW p \in Requests, RecordStep(p),
         ~ListBegin(p), ~ListCount(p), ~ListPage(p)
  PROVE  /\ list' = list /\ taking' = taking
         /\ \A l \in Lists : \/ pc'[l] = pc[l]
                             \/ /\ pc[l] \notin {"count", "page", "done"}
                                /\ pc'[l] \notin {"count", "page"}
  <1>1. list' = list /\ taking' = taking
    BY DEF RecordStep, CreateBegin, CreateLookup, CreateCommit, UpdateRead,
           UpdateWrite, DeleteRead, DeleteSteps, DeleteRow, DeleteArchives,
           GetRow, GetSteps, GetRuns, Activate, LoadExperiment, FindActiveRun,
           InsertRun, StartRun, FinishRun, requestVars, restOfRequest, callVars
  <1>2. \E from \in PC \ {"count", "page", "done"}, to \in PC \ {"count", "page"} :
          Goto(p, from, to)
    <2>1. CASE CreateBegin(p) \/ CreateLookup(p) \/ CreateCommit(p)
      BY <2>1 DEF CreateBegin, CreateLookup, CreateCommit, PC
    <2>2. CASE UpdateRead(p) \/ UpdateWrite(p) \/ DeleteRead(p) \/ DeleteSteps(p)
      BY <2>2 DEF UpdateRead, UpdateWrite, DeleteRead, DeleteSteps, PC
    <2>3. CASE DeleteRow(p) \/ DeleteArchives(p) \/ GetRow(p) \/ GetSteps(p) \/ GetRuns(p)
      BY <2>3 DEF DeleteRow, DeleteArchives, GetRow, GetSteps, GetRuns, PC
    <2>4. CASE Activate(p) \/ LoadExperiment(p) \/ FindActiveRun(p)
      BY <2>4 DEF Activate, LoadExperiment, FindActiveRun, PC
    <2>5. CASE InsertRun(p) \/ StartRun(p) \/ FinishRun(p)
      BY <2>5 DEF InsertRun, StartRun, FinishRun, PC
    <2>6. QED
      BY <2>1, <2>2, <2>3, <2>4, <2>5 DEF RecordStep
  <1>3. PICK from \in PC \ {"count", "page", "done"}, to \in PC \ {"count", "page"} :
          pc[p] = from /\ pc' = [pc EXCEPT ![p] = to]
    BY <1>2 DEF Goto
  <1>4. \A l \in Lists : l \in Requests
    BY DEF Requests
  <1>5. QED
    BY <1>1, <1>3, <1>4 DEF RunTypes

\* A deletion that fails has begun.
LEMMA DeletesBegin ==
  ASSUME RunTypes, DeletesIdle, NEW p \in Requests, RecordStep(p)
  PROVE  DeletesIdle'
  <1>1. \E from \in PC, to \in PC \ {"idle"} : Goto(p, from, to)
    <2>1. CASE CreateBegin(p) \/ CreateLookup(p) \/ CreateCommit(p)
      BY <2>1 DEF CreateBegin, CreateLookup, CreateCommit, PC
    <2>2. CASE UpdateRead(p) \/ UpdateWrite(p) \/ DeleteRead(p) \/ DeleteSteps(p)
      BY <2>2 DEF UpdateRead, UpdateWrite, DeleteRead, DeleteSteps, PC
    <2>3. CASE DeleteRow(p) \/ DeleteArchives(p) \/ GetRow(p) \/ GetSteps(p) \/ GetRuns(p)
      BY <2>3 DEF DeleteRow, DeleteArchives, GetRow, GetSteps, GetRuns, PC
    <2>4. CASE ListBegin(p) \/ ListCount(p) \/ ListPage(p)
      BY <2>4 DEF ListBegin, ListCount, ListPage, PC
    <2>5. CASE Activate(p) \/ LoadExperiment(p) \/ FindActiveRun(p)
      BY <2>5 DEF Activate, LoadExperiment, FindActiveRun, PC
    <2>6. CASE InsertRun(p) \/ StartRun(p) \/ FinishRun(p)
      BY <2>6 DEF InsertRun, StartRun, FinishRun, PC
    <2>7. QED
      BY <2>1, <2>2, <2>3, <2>4, <2>5, <2>6 DEF RecordStep
  <1>2. PICK to \in PC \ {"idle"} : pc' = [pc EXCEPT ![p] = to]
    BY <1>1 DEF Goto
  <1>3. Deletes \subseteq Requests
    BY DEF Requests
  <1>4. QED
    BY <1>2, <1>3, FailedBy DEF RunTypes, DeletesIdle, Requests, Calls

\* A request and the variables no other part speaks of.
LEMMA RestRequest ==
  ASSUME RunTypes, RestTypes, ListInv, NEW p \in Requests, RecordStep(p),
         UNCHANGED <<tmplVars, schedVars>>
  PROVE  RestTypes' /\ ListInv'
  <1>1. UNCHANGED <<active, key, boots>>
    BY DEF tmplVars, schedVars
  <1>2. todo' \in [Creates -> SUBSET Tmpls]
    <2>1. CASE CreateBegin(p)
      <3>1. PICK T \in Bodies : todo' = [todo EXCEPT ![p] = T]
        BY <2>1 DEF CreateBegin
      <3>2. QED
        BY <3>1, RecordsAssumption DEF RestTypes
    <2>2. CASE CreateLookup(p)
      BY <2>2 DEF CreateLookup, RestTypes
    <2>3. CASE UNCHANGED todo
      BY <2>3 DEF RestTypes
    <2>4. QED
      BY <2>1, <2>2, <2>3
      DEF RecordStep, CreateCommit, UpdateRead, UpdateWrite, DeleteRead,
          DeleteSteps, DeleteRow, DeleteArchives, GetRow, GetSteps, GetRuns,
          ListBegin, ListCount, ListPage, Activate, LoadExperiment,
          FindActiveRun, InsertRun, StartRun, FinishRun, requestVars,
          restOfRequest, callVars
  <1>3. /\ list' \in [Lists -> ListState] /\ taking' = taking /\ ListInv'
    <2>1. CASE ListBegin(p) \/ ListCount(p) \/ ListPage(p)
      <3>1. p \in Lists /\ taking' = taking
        BY <2>1 DEF ListBegin, ListCount, ListPage
      <3>2. QED
        BY <2>1, <3>1, ListsBegin, ListsCount, ListsPage
    <2>2. CASE ~(ListBegin(p) \/ ListCount(p) \/ ListPage(p))
      BY <2>2, OtherRequests, ListsAside DEF RestTypes
    <2>3. QED
      BY <2>1, <2>2
  <1>4. DeletesIdle'
    BY DeletesBegin DEF RestTypes
  <1>5. QED
    BY <1>1, <1>2, <1>3, <1>4 DEF RestTypes, Exps

\* An execution of the scheduler is no listing client and no deletion.
LEMMA FiresAside ==
  ASSUME RestTypes, ListInv, UNCHANGED <<active, todo, list, failed, taking>>,
         key' \in [Exps -> {"none", "cron", "once"}], boots' \in Nat,
         \A q \in Requests : q \notin Fires => pc'[q] = pc[q]
  PROVE  RestTypes' /\ ListInv'
  <1>1. \A l \in Lists : l \in Requests /\ l \notin Fires
    BY RecordsAssumption DEF Requests
  <1>2. ListInv'
    BY <1>1, ListsAside
  <1>3. DeletesIdle'
    BY RecordsAssumption DEF RestTypes, DeletesIdle, Requests, Calls
  <1>4. QED
    BY <1>2, <1>3 DEF RestTypes, Exps

\* Every step.
LEMMA RestNext ==
  RunnerInv /\ CronOfExps /\ RunsInv /\ RestTypes /\ ListInv /\ [Next]_vars
    => RestTypes' /\ ListInv'
  <1> SUFFICES ASSUME RunnerInv, CronOfExps, RunsInv, RestTypes, ListInv, [Next]_vars
               PROVE  RestTypes' /\ ListInv'
    OBVIOUS
  <1>0. /\ key \in [Exps -> {"none", "cron", "once"}] /\ boots \in Nat
        /\ pc \in [Requests -> PC] /\ Fires \subseteq Requests
    BY Domains DEF RestTypes, RunsInv, RunTypes
  <1>1. ASSUME UNCHANGED <<active, todo, list, failed, taking, pc, boots>>,
               key' \in [Exps -> {"none", "cron", "once"}]
        PROVE  RestTypes' /\ ListInv'
    BY <1>0, <1>1, FiresAside
  <1>2. ASSUME NEW p \in TmplRequests, TemplateStep(p),
               UNCHANGED <<recordVars, schedVars>>
        PROVE  RestTypes' /\ ListInv'
    <2>1. active' \subseteq Tmpls
      BY <1>2
      DEF TemplateStep, CreateTemplateCheck, CreateTemplateInsert, LoadTemplate,
          UpdateTemplateCheck, UpdateTemplateWrite, DeleteTemplateRefs,
          DeleteTemplateWrite, FreeTmpls, Stored, RestTypes
    <2>2. ListInv' /\ UNCHANGED <<todo, list, failed, taking, pc, key, boots>>
      BY <1>2, ListsAside DEF recordVars, schedVars
    <2>3. QED
      BY <2>1, <2>2 DEF RestTypes, DeletesIdle, Exps
  <1>3. ASSUME NEW h \in Replicas, Start(h) PROVE RestTypes' /\ ListInv'
    <2>1. boots' \in Nat /\ UNCHANGED <<active, todo, list, failed, taking, pc, key>>
      BY <1>0, <1>3 DEF Start, records, recordVars, tmplVars
    <2>2. QED
      BY <1>0, <2>1, FiresAside
  <1>4. ASSUME NEW h \in Replicas, LoadJobs(h) \/ Stop(h) \/ PollExits(h) \/ JobsEnd(h)
        PROVE  RestTypes' /\ ListInv'
    BY <1>0, <1>1, <1>4
    DEF LoadJobs, Stop, PollExits, JobsEnd, records, recordVars, tmplVars
  <1>5. ASSUME NEW h \in Replicas, Exit(h) PROVE RestTypes' /\ ListInv'
    <2>1. UNCHANGED <<active, todo, list, failed, taking, key, boots>>
      BY <1>5 DEF Exit, requestVars, tmplVars
    <2>2. \A q \in Requests : q \notin Fires => pc'[q] = pc[q]
      BY <1>5 DEF Exit, FiredBy
    <2>3. QED
      BY <1>0, <2>1, <2>2, FiresAside
  <1>6. ASSUME NEW h \in Replicas, CronFires(h) PROVE RestTypes' /\ ListInv'
    <2>1. PICK f \in Fires : pc' = [pc EXCEPT ![f] = "load"]
      BY <1>6 DEF CronFires, Goto
    <2>2. UNCHANGED <<active, todo, list, failed, taking, key, boots>>
      BY <1>6 DEF CronFires, unfired, requestVars, tmplVars
    <2>3. QED
      BY <1>0, <2>1, <2>2, FiresAside
  <1>7. ASSUME NEW h \in Replicas, PollOnce(h) PROVE RestTypes' /\ ListInv'
    <2>1. PICK F \in SUBSET Fires :
            pc' = [q \in Requests |-> IF q \in F THEN "load" ELSE pc[q]]
      BY <1>7 DEF PollOnce, PollStarts
    <2>2. UNCHANGED <<active, todo, list, failed, taking, key, boots>>
      BY <1>7 DEF PollOnce, unfired, requestVars, tmplVars
    <2>3. QED
      BY <1>0, <2>1, <2>2, FiresAside
  <1>8. ASSUME NEW f \in Fires, FireReturns(f) PROVE RestTypes' /\ ListInv'
    <2>1. /\ pc' = [pc EXCEPT ![f] = "idle"]
          /\ key' \in {key, [key EXCEPT ![exp[f]] = "cron"]}
      BY <1>8 DEF FireReturns, Goto
    <2>2. UNCHANGED <<active, todo, list, failed, taking, boots>>
      BY <1>8 DEF FireReturns, requestVars, tmplVars
    <2>3. key' \in [Exps -> {"none", "cron", "once"}]
      BY <1>0, <2>1
    <2>4. QED
      BY <1>0, <2>1, <2>2, <2>3, FiresAside
  <1>9. ASSUME NEW o \in Ops, OpStep(o) PROVE RestTypes' /\ ListInv'
    <2>1. UNCHANGED <<active, todo, list, failed, taking, pc, boots>>
      BY <1>9
      DEF OpStep, LookUp, RecurUpdate, ScheduleKey, RecurRegister, CancelKey,
          CancelRow, CancelRemove, records, recordVars, requestVars, tmplVars
    <2>2. key' \in [Exps -> {"none", "cron", "once"}]
      <3>1. CASE ScheduleKey(o)
        BY <1>0, <3>1 DEF ScheduleKey
      <3>2. CASE CancelKey(o)
        BY <1>0, <3>2 DEF CancelKey
      <3>3. CASE UNCHANGED key
        BY <1>0, <3>3
      <3>4. QED
        BY <1>9, <3>1, <3>2, <3>3
        DEF OpStep, LookUp, RecurUpdate, RecurRegister, CancelRow, CancelRemove
    <2>3. QED
      BY <1>1, <2>1, <2>2
  <1>10. ASSUME NEW x \in Exps, KeyExpires(x) PROVE RestTypes' /\ ListInv'
    <2>1. /\ UNCHANGED <<active, todo, list, failed, taking, pc, boots>>
          /\ key' \in [Exps -> {"none", "cron", "once"}]
      BY <1>0, <1>10 DEF KeyExpires, records, recordVars, tmplVars
    <2>2. QED
      BY <1>1, <2>1
  <1>11. CASE UNCHANGED vars
    BY <1>0, <1>1, <1>11 DEF vars, recordVars, tmplVars, schedVars
  <1>12. QED
    BY <1>2, <1>3, <1>4, <1>5, <1>6, <1>7, <1>8, <1>9, <1>10, <1>11, RestRequest
    DEF Next, ReplicaStep, RunsInv

-----------------------------------------------------------------------------
(* The theorems.                                                           *)

SchedInv == /\ RunnerInv /\ CronOfExps /\ RunsInv /\ SlugInv /\ StepsInv
            /\ RestTypes /\ ListInv

\* All parts together are inductive.
LEMMA SchedulerInvariant == Spec => []SchedInv
  <1>1. Init => SchedInv
    BY RunnerInit, RunsInit, SlugInit, StepsInit, ListInit
    DEF SchedInv, Init, RecordsInit, CronOfExps
  <1>2. SchedInv /\ [Next]_vars => SchedInv'
    BY RunnerNext, CronNext, RunsNext, SlugNext, StepsNext, RestNext
    DEF SchedInv, RestTypes
  <1>3. QED
    BY <1>1, <1>2, PTL DEF Spec

\* However schedules are registered, loaded and cancelled, on any number of
\* replicas, a runner never has a second entry for an experiment, nor one that
\* cronJobs does not know and CancelSchedule could not remove.
THEOREM OneEntry == Spec => []OneEntryPerJob
  <1>1. SchedInv => OneEntryPerJob
    BY DEF SchedInv, RunnerInv
  <1>2. QED
    BY <1>1, SchedulerInvariant, PTL

\* When Stop of a scheduler has returned, no execution its cron runner started
\* is left.
THEOREM Drained == Spec => []StopDrainsCron
  <1>1. SchedInv => StopDrainsCron
    BY DEF SchedInv, RunnerInv
  <1>2. QED
    BY <1>1, SchedulerInvariant, PTL

\* A run that the scheduler drives was inserted by the request of a user.
THEOREM OnlyAdopts == Spec => []ScheduledOnlyAdopts
  <1>1. SchedInv => ScheduledOnlyAdopts
    <2> SUFFICES ASSUME RunsInv, NEW f \in Fires, run[f] # None
                 PROVE  \E u \in Users : run[u] = run[f]
      BY DEF SchedInv, ScheduledOnlyAdopts
    <2>1. run[f] \in RunIds /\ runSt[run[f]] # "none"
      BY Domains DEF RunsInv, RunTypes
    <2>2. QED
      BY <2>1 DEF RunsInv
  <1>2. QED
    BY <1>1, SchedulerInvariant, PTL

\* An experiment that is a draft has no runs, so a hard DELETE takes none away,
\* whatever executions, updates and deletions do in between; but for a run asked
\* for by a request that could not make the experiment active.
THEOREM DraftsHaveNoRuns == Spec => []DraftHasNoRuns
  <1>1. SchedInv => DraftHasNoRuns
    <2> SUFFICES ASSUME RunsInv, NEW x \in Exps, expSt[x] = "draft", NEW r \in RunsOf(x)
                 PROVE  \E u \in Users \cap failed : exp[u] = x
      BY DEF SchedInv, DraftHasNoRuns
    <2>1. r \in RunIds /\ runSt[r] # "none" /\ runExp[r] = x
      BY DEF RunsOf, RunRows, Absent
    <2>2. Begun(x)
      BY <2>1 DEF RunsInv
    <2>3. QED
      BY <2>2 DEF Begun, Fresh
  <1>2. QED
    BY <1>1, SchedulerInvariant, PTL

\* No template written through the handlers takes the slug of a module.
THEOREM ModulesKeepTheirSlugs == Spec => []CustomNeverShadowsModule
  <1>1. SchedInv => CustomNeverShadowsModule
    BY DEF SchedInv, SlugInv
  <1>2. QED
    BY <1>1, SchedulerInvariant, PTL

\* An experiment keeps all the steps it was created with, on templates that are
\* there, or loses all to a deletion that is half-way or has failed half-way.
THEOREM StepsStayComplete == Spec => []StepsComplete
  <1>1. SchedInv => StepsComplete
    BY DEF SchedInv, StepsInv, StepsOf, StepsComplete, ExpRows
  <1>2. QED
    BY <1>1, SchedulerInvariant, PTL

\* GetExperiment answers with all the steps, or with none: when its own query
\* failed or a deletion of the experiment had taken them.
THEOREM AnswersAreWhole == Spec => []AnswerWhole
  <1>1. SchedInv => AnswerWhole
    BY DEF SchedInv, StepsInv, AnswerOf, WithoutSteps, AnswerWhole
  <1>2. QED
    BY <1>1, SchedulerInvariant, PTL

\* Every variable of the tables, the catalogue and the scheduler keeps its type.
THEOREM TypesKept == Spec => []TypeOK
  <1>1. SchedInv => TypeOK
    <2> SUFFICES ASSUME SchedInv PROVE TypeOK
      OBVIOUS
    <2>1. TemplatesTypeOK
      BY DEF SchedInv, SlugInv, StepsInv, StepTypes, RestTypes, TemplatesTypeOK
    <2>2. RecordsTypeOK
      BY <2>1
      DEF SchedInv, CronOfExps, RunsInv, RunTypes, StepsInv, StepTypes, RestTypes,
          DeletesIdle, RecordsTypeOK
    <2>3. QED
      BY <2>2 DEF SchedInv, RunnerInv, RunnerTypes, CallTypes, RestTypes, TypeOK
  <1>2. QED
    BY <1>1, SchedulerInvariant, PTL

\* A client that follows total_pages over a table nobody changes meanwhile has met
\* every row that ties with no other exactly once, whatever the page size, the
\* table, the column it is sorted by and the order in which rows that tie come.
THEOREM PagesAreComplete == Spec => []PagingComplete
  <1>1. SchedInv => PagingComplete
    BY DEF SchedInv, ListInv, ListInvOf, Sound, Single, Met, PagingComplete
  <1>2. QED
    BY <1>1, SchedulerInvariant, PTL

=============================================================================
