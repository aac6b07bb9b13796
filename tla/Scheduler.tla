------------------------------- MODULE Scheduler -------------------------------
(***************************************************************************)
(* The scheduler of each replica (experiment/scheduler.go) over the tables *)
(* of ExperimentRecords and the schedule keys in Redis.                    *)
(*                                                                         *)
(* A replica fires an experiment in two ways: by the entry of its own cron *)
(* runner and by its polling loop, which reads the table.  Clocks are      *)
(* abstracted: any entry may fire and any experiment with a schedule may   *)
(* be due at any time.                                                     *)
(***************************************************************************)
EXTENDS ExperimentRecords

CONSTANTS
  Replicas,      (* processes of the backend on one database                *)
  MaxPerPoll,    (* WithMaxConcurrent: executions started by one poll       *)
  Recurs, Onces, Cancels,  (* calls of the scheduler's operations, which no *)
                 (* route of the program makes                              *)
  MaxBoots       (* BOUND: how often a replica may be started                *)

ASSUME SchedulerAssumption ==
  /\ MaxPerPoll \in Nat \ {0}
  /\ MaxBoots \in Nat
  /\ None \notin {"cron", "poll"} \X Replicas

VARIABLES
  phase,     (* of each replica's scheduler                                  *)
  loading,   (* what loadExistingCronSchedules has read                      *)
  jobs,      (* the experiments in cronJobs                                  *)
  entries,   (* how many entries each experiment has in cronRunner           *)
  key,       (* experiment:schedule:{id}: "cron", "once" or "none"           *)
  calls,     (* where each call of an operation is                           *)
  callOf,    (* the experiment and the replica of the call                   *)
  fire,      (* executions in flight: by the cron runner or by the poll of   *)
             (* which replica                                                *)
  boots      (* starts so far                                                *)

schedVars == <<phase, loading, jobs, entries, key, calls, callOf, fire, boots>>
vars == <<recordVars, steps, tmplVars, schedVars>>

Ops == Recurs \cup Onces \cup Cancels

\* "down", starting up, running, Stop waiting for the polling loop, Stop holding
\* cronMu while the jobs end, stopped.
Phase == {"down", "load", "up", "unpoll", "drain", "stopped"}

TypeOK ==
  /\ RecordsTypeOK
  /\ phase \in [Replicas -> Phase]
  /\ loading \in [Replicas -> SUBSET Exps]
  /\ jobs \in [Replicas -> SUBSET Exps]
  /\ entries \in [Replicas -> [Exps -> Nat]]
  /\ key \in [Exps -> {"none", "cron", "once"}]
  /\ calls \in [Ops -> {"idle", "update", "redis", "row", "register", "remove", "done"}]
  /\ callOf \in [Ops -> (Exps \X Replicas) \cup {None}]
  /\ fire \in [Fires -> ({"cron", "poll"} \X Replicas) \cup {None}]
  /\ boots \in Nat

Init ==
  /\ RecordsInit
  /\ phase = [h \in Replicas |-> "down"]
  /\ loading = [h \in Replicas |-> {}]
  /\ jobs = [h \in Replicas |-> {}]
  /\ entries = [h \in Replicas |-> [x \in Exps |-> 0]]
  /\ key = [x \in Exps |-> "none"]
  /\ calls = [o \in Ops |-> "idle"]
  /\ callOf = [o \in Ops |-> None]
  /\ fire = [f \in Fires |-> None]
  /\ boots = 0

records == <<recordVars, steps>>

CallGoto(o, from, to) == /\ o \in taking
                         /\ calls[o] = from
                         /\ calls' = [calls EXCEPT ![o] = to]

\* What every SELECT of the scheduler matches.
Scheduled == {x \in cron : expSt[x] \in {"active", "draft"}}

\* The runner exists until Stop has waited for its jobs.
Running(h) == phase[h] \in {"load", "up", "unpoll", "drain"}
\* Stop holds the mutex while it waits.
MutexFree(h) == phase[h] # "drain"

-----------------------------------------------------------------------------
(* Start, Stop and the end of the process.                                 *)

\* Start: the runner runs; the schedules are read before cronMu is taken.
Start(h) ==
  /\ phase[h] = "down"
  /\ boots < MaxBoots
  /\ boots' = boots + 1
  /\ phase' = [phase EXCEPT ![h] = "load"]
  /\ loading' = [loading EXCEPT ![h] = Scheduled]
  /\ UNCHANGED <<records, tmplVars, jobs, entries, key, calls, callOf, fire>>

\* Slip: the entry of an earlier registration stays in the runner.
RegisterBeside(h, X) ==
  /\ jobs' = [jobs EXCEPT ![h] = @ \cup X]
  /\ entries' = [entries EXCEPT ![h] =
       [x \in Exps |-> IF x \in X THEN @[x] + 1 ELSE @[x]]]

\* registerCronJob: an existing entry is removed from the runner first.
RegisterJobs(h, X) ==
  /\ jobs' = [jobs EXCEPT ![h] = @ \cup X]
  /\ entries' = [entries EXCEPT ![h] =
       [x \in Exps |-> IF x \in X \ jobs[h] THEN @[x] + 1 ELSE @[x]]]

\* loadExistingCronSchedules under cronMu; then the polling loop starts.
LoadJobs(h) ==
  /\ phase[h] = "load"
  /\ phase' = [phase EXCEPT ![h] = "up"]
  /\ loading' = [loading EXCEPT ![h] = {}]
  /\ RegisterJobs(h, loading[h])
  /\ UNCHANGED <<records, tmplVars, key, calls, callOf, fire, boots>>

\* close(stopCh)
Stop(h) ==
  /\ phase[h] = "up"
  /\ phase' = [phase EXCEPT ![h] = "unpoll"]
  /\ UNCHANGED <<records, tmplVars, loading, jobs, entries, key, calls, callOf, fire,
                 boots>>

\* Slip: the loop leaves only when nothing is due any more.
PollExitsWhenIdle(h) ==
  /\ phase[h] = "unpoll"
  /\ Scheduled = {}
  /\ phase' = [phase EXCEPT ![h] = "drain"]
  /\ UNCHANGED <<records, tmplVars, loading, jobs, entries, key, calls, callOf, fire,
                 boots>>

\* The loop has returned; cronMu is taken and cronRunner.Stop called.
PollExits(h) ==
  /\ phase[h] = "unpoll"
  /\ phase' = [phase EXCEPT ![h] = "drain"]
  /\ UNCHANGED <<records, tmplVars, loading, jobs, entries, key, calls, callOf, fire,
                 boots>>

FiredBy(h, kind) == {f \in Fires : fire[f] = <<kind, h>>}

\* Slip: the context that Stop of the runner returns is not waited for.
DoNotWait(h) ==
  /\ phase[h] = "drain"
  /\ phase' = [phase EXCEPT ![h] = "stopped"]
  /\ entries' = [entries EXCEPT ![h] = [x \in Exps |-> 0]]
  /\ UNCHANGED <<records, tmplVars, loading, jobs, key, calls, callOf, fire, boots>>

\* The jobs have ended and cronRunner is nil; cronJobs is left as it is.
JobsEnd(h) ==
  /\ phase[h] = "drain"
  /\ FiredBy(h, "cron") = {}
  /\ phase' = [phase EXCEPT ![h] = "stopped"]
  /\ entries' = [entries EXCEPT ![h] = [x \in Exps |-> 0]]
  /\ UNCHANGED <<records, tmplVars, loading, jobs, key, calls, callOf, fire, boots>>

\* The process ends, after Stop or by a crash.  Its executions end where they are.
Exit(h) ==
  /\ phase[h] # "down"
  /\ phase' = [phase EXCEPT ![h] = "down"]
  /\ loading' = [loading EXCEPT ![h] = {}]
  /\ jobs' = [jobs EXCEPT ![h] = {}]
  /\ entries' = [entries EXCEPT ![h] = [x \in Exps |-> 0]]
  /\ LET cut == FiredBy(h, "cron") \cup FiredBy(h, "poll")
     IN /\ fire' = [f \in Fires |-> IF f \in cut THEN None ELSE fire[f]]
        /\ pc' = [p \in Requests |-> IF p \in cut THEN "idle" ELSE pc[p]]
        /\ exp' = [p \in Requests |-> IF p \in cut THEN None ELSE exp[p]]
        /\ run' = [p \in Calls |-> IF p \in cut THEN None ELSE run[p]]
  /\ calls' = [o \in Ops |-> IF callOf[o] # None /\ callOf[o][2] = h
                              THEN "done" ELSE calls[o]]
  /\ UNCHANGED <<expTables, runTable, requestVars, tmplVars, key, callOf, boots>>

-----------------------------------------------------------------------------
(* Executions.                                                             *)

unfired == <<expTables, runTable, requestVars, run, tmplVars, phase, loading,
             jobs, entries, key, calls, callOf, boots>>

\* An entry of the runner fires, whatever the row says by now.
CronFires(h) ==
  /\ phase[h] \in {"load", "up", "unpoll"}
  /\ \E f \in Fires, x \in Exps :
       /\ entries[h][x] > 0
       /\ Goto(f, "idle", "load")
       /\ exp' = [exp EXCEPT ![f] = x]
       /\ fire' = [fire EXCEPT ![f] = <<"cron", h>>]
  /\ UNCHANGED unfired

\* A poll of h starts one execution for each member of X.
PollStarts(h, X) ==
  \E F \in SUBSET {f \in Fires \cap taking : pc[f] = "idle"} :
    \E m \in [F -> X] :
      /\ Cardinality(F) = Cardinality(X)
      /\ \A f, g \in F : m[f] = m[g] => f = g
      /\ pc' = [p \in Requests |-> IF p \in F THEN "load" ELSE pc[p]]
      /\ exp' = [p \in Requests |-> IF p \in F THEN m[p] ELSE exp[p]]
      /\ fire' = [f \in Fires |-> IF f \in F THEN <<"poll", h>> ELSE fire[f]]

\* GetPendingSchedules: the keys in Redis and the rows, without duplicates.
Pending == {x \in Exps : key[x] # "none"} \cup Scheduled

\* pollOnce: of the experiments that are due, in no order, the first few.  A
\* ticker that is ready may still win against the closed stopCh.
PollOnce(h) ==
  /\ phase[h] \in {"up", "unpoll"}
  /\ \E X \in SUBSET Scheduled \ {{}} :
       Cardinality(X) <= MaxPerPoll /\ PollStarts(h, X)
  /\ UNCHANGED unfired

\* The execution has returned.  After a polled one rescheduleRecurring writes
\* the key, with the context of a poll that is over: the write may fail.
FireReturns(f) ==
  /\ fire[f] # None
  /\ Goto(f, "done", "idle")
  /\ fire' = [fire EXCEPT ![f] = None]
  /\ key' \in IF fire[f][1] = "poll" THEN {key, [key EXCEPT ![exp[f]] = "cron"]}
                                     ELSE {key}
  /\ exp' = [exp EXCEPT ![f] = None]
  /\ run' = [run EXCEPT ![f] = None]
  /\ UNCHANGED <<expTables, runTable, requestVars, tmplVars, phase, loading, jobs,
                 entries, calls, callOf, boots>>

-----------------------------------------------------------------------------
(* ScheduleRecurringExperiment, ScheduleExperiment, CancelSchedule.        *)

OnReplica(o, x) == \E h \in Replicas : /\ phase[h] # "down"
                                       /\ callOf' = [callOf EXCEPT ![o] = <<x, h>>]

\* SELECT name FROM experiments
LookUp(o) ==
  /\ o \in Recurs \cup Onces
  /\ \E x \in ExpRows : OnReplica(o, x)
  /\ CallGoto(o, "idle", IF o \in Recurs THEN "update" ELSE "redis")
  /\ UNCHANGED <<records, tmplVars, phase, loading, jobs, entries, key, fire, boots>>

\* The status becomes 'active' whatever it was.
RecurUpdate(o) ==
  /\ o \in Recurs
  /\ CallGoto(o, "update", "redis")
  /\ LET x == callOf[o][1]
     IN IF x \in ExpRows
          THEN /\ expSt' = [expSt EXCEPT ![x] = "active"]
               /\ cron' = cron \cup {x}
          ELSE UNCHANGED <<expSt, cron>>
  /\ UNCHANGED <<steps, runTable, pc, exp, requestVars, run, tmplVars, phase,
                 loading, jobs, entries, key, callOf, fire, boots>>

\* The SET; an error is only logged.
ScheduleKey(o) ==
  /\ o \in Recurs \cup Onces
  /\ CallGoto(o, "redis", IF o \in Recurs THEN "register" ELSE "done")
  /\ key' \in {key, [key EXCEPT ![callOf[o][1]] =
                    IF o \in Recurs THEN "cron" ELSE "once"]}
  /\ UNCHANGED <<records, tmplVars, phase, loading, jobs, entries, callOf, fire,
                 boots>>

RecurRegister(o) ==
  /\ o \in Recurs
  /\ CallGoto(o, "register", "done")
  /\ LET h == callOf[o][2]
     IN /\ MutexFree(h)
        /\ IF Running(h) THEN RegisterJobs(h, {callOf[o][1]})
                         ELSE UNCHANGED <<jobs, entries>>
  /\ UNCHANGED <<records, tmplVars, phase, loading, key, callOf, fire, boots>>

CancelKey(o) ==
  /\ o \in Cancels
  /\ \E x \in Exps : /\ OnReplica(o, x)
                     /\ key' \in {key, [key EXCEPT ![x] = "none"]}
  /\ CallGoto(o, "idle", "row")
  /\ UNCHANGED <<records, tmplVars, phase, loading, jobs, entries, fire, boots>>

CancelRow(o) ==
  /\ o \in Cancels
  /\ CallGoto(o, "row", "remove")
  /\ cron' = cron \ {callOf[o][1]}
  /\ UNCHANGED <<expSt, steps, runTable, pc, exp, requestVars, run, tmplVars, phase,
                 loading, jobs, entries, key, callOf, fire, boots>>

\* Only the entry of this replica.
CancelRemove(o) ==
  /\ o \in Cancels
  /\ CallGoto(o, "remove", "done")
  /\ LET x == callOf[o][1]
         h == callOf[o][2]
     IN /\ MutexFree(h)
        /\ IF Running(h) /\ x \in jobs[h]
             THEN /\ jobs' = [jobs EXCEPT ![h] = @ \ {x}]
                  /\ entries' = [entries EXCEPT ![h][x] = @ - 1]
             ELSE UNCHANGED <<jobs, entries>>
  /\ UNCHANGED <<records, tmplVars, phase, loading, key, callOf, fire, boots>>

\* The time to live of a key in Redis.
KeyExpires(x) ==
  /\ key[x] # "none"
  /\ key' = [key EXCEPT ![x] = "none"]
  /\ UNCHANGED <<records, tmplVars, phase, loading, jobs, entries, calls, callOf,
                 fire, boots>>

-----------------------------------------------------------------------------
ReplicaStep(h) ==
  \/ Start(h) \/ LoadJobs(h) \/ Stop(h) \/ PollExits(h) \/ JobsEnd(h) \/ Exit(h)
  \/ CronFires(h) \/ PollOnce(h)

OpStep(o) ==
  \/ LookUp(o) \/ RecurUpdate(o) \/ ScheduleKey(o) \/ RecurRegister(o)
  \/ CancelKey(o) \/ CancelRow(o) \/ CancelRemove(o)

Next ==
  \/ \E p \in Requests : RecordStep(p) /\ UNCHANGED <<tmplVars, schedVars>>
  \/ \E p \in TmplRequests \cap taking :
       TemplateStep(p) /\ UNCHANGED <<recordVars, schedVars>>
  \/ \E h \in Replicas \cap taking : ReplicaStep(h)
  \/ \E f \in Fires : FireReturns(f)
  \/ \E o \in Ops : OpStep(o)
  \/ \E x \in Exps : KeyExpires(x)

\* An execution that has driven a run sends its notifications before it returns;
\* a mail server may keep it for ever, for smtp.Dial has no deadline.
Mailing(f) == fire[f] # None /\ pc[f] = "done" /\ run[f] # None

\* An execution that has begun goes on: the scheduler gives it thirty minutes,
\* and with them its context ends.  Unless it is mailing it returns.  The ticker of
\* the polling loop ticks for ever, and Stop goes on as well.
Fairness ==
  /\ \A f \in Fires :
       /\ WF_vars(RecordStep(f) /\ UNCHANGED <<tmplVars, schedVars>>)
       /\ WF_vars(FireReturns(f) /\ ~Mailing(f))
  /\ \A h \in Replicas :
       /\ WF_vars(PollExits(h) \/ JobsEnd(h))
       /\ WF_vars(PollOnce(h))

Spec == Init /\ [][Next]_vars /\ Fairness

-----------------------------------------------------------------------------
(* Properties.                                                             *)

\* However schedules are registered, cancelled and loaded at the same time, the
\* runner of a replica has exactly one entry for each experiment in cronJobs and
\* none for another: no entry is left that CancelSchedule could not remove.
OneEntryPerJob ==
  \A h \in Replicas : phase[h] # "stopped" =>
    \A x \in Exps : entries[h][x] = IF x \in jobs[h] THEN 1 ELSE 0

\* When Stop has returned, no execution started by the cron runner is left; one
\* that a poll started may be.
StopDrainsCron ==
  \A h \in Replicas : phase[h] = "stopped" => FiredBy(h, "cron") = {}

\* A run the scheduler drives was inserted by the request of a user, so there the
\* scheduler is a second executor: its own INSERT never succeeds.
ScheduledOnlyAdopts ==
  \A f \in Fires : run[f] # None => \E u \in Users : run[u] = run[f]

\* Stop returns, whatever is being executed, unless an execution is kept for ever
\* by the mail server.
StopReturns ==
  \A h \in Replicas :
    \/ phase[h] \in {"unpoll", "drain"} ~> phase[h] \in {"stopped", "down"}
    \/ \E f \in Fires : <>[]Mailing(f)

\* What the package says of the scheduler: an experiment with a schedule, while a
\* scheduler is running, is executed, and so gets a run.  It does not hold.
ScheduleHonoured ==
  \A x \in Exps :
    x \in Scheduled /\ (\E h \in Replicas : phase[h] = "up")
      ~> \/ RunsOf(x) # {}
         \/ x \notin Scheduled
         \/ \A h \in Replicas : phase[h] # "up"
=============================================================================
