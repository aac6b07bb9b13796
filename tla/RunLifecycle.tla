----------------------------- MODULE RunLifecycle -----------------------------
(***************************************************************************)
(* The life of the runs of ONE experiment, from the HTTP request that      *)
(* executes it to the row that records how it ended.                       *)
(*                                                                         *)
(* Processes: the requests that execute the experiment (each one drives    *)
(* Handler.ExecuteExperiment and, inside it, Engine.ExecuteExperiment) and *)
(* the requests that stop it (Handler.StopExperiment and, inside it,       *)
(* Engine.StopExperiment).  They share the rows of experiment_runs, the    *)
(* row of experiments, the stop keys in Redis and, on one replica of the   *)
(* backend, the engine's sync.Map of cancel functions.  One action is one  *)
(* access to something shared.                                             *)
(*                                                                         *)
(* Time is abstracted: a run may at any moment be older than the pod       *)
(* timeout.  The step body is reduced to its checks for a stop, the attack *)
(* it launches and whether it fails.                                       *)
(***************************************************************************)
EXTENDS Naturals, FiniteSets

CONSTANTS
  Execs,          (* requests POST /experiments/:id/execute                 *)
  Stops,          (* requests POST /experiments/:id/stop                    *)
  Hosts,          (* replicas of the backend                                *)
  HostOf,         (* the replica that serves each request                   *)
  MaxRuns,        (* BOUND: rows the run table may hold; the code has none  *)
  Steps,          (* enabled templates of the experiment                    *)
  MaxConcurrent,  (* cfg.Kubernetes.MaxConcurrent                           *)
  RedisUp,        (* FALSE: main.go found no Redis and set rdb to nil       *)
  Faults,         (* the disturbances that may occur, a subset of FaultKind *)
  MaxFaults,      (* BOUND: how many of them in one behaviour               *)
  None            (* no process, no run                                     *)

\* A replica ends, a client goes, a key expires, runs are found stale, a stop
\* runs out of time, a statement fails, a Redis command fails.
FaultKind == {"crash", "disconnect", "keyExpiry", "stale", "stopTimeout",
              "postgres", "redis"}

ASSUME ConstantsAssumption ==
  /\ MaxRuns \in Nat
  /\ Steps \in Nat \ {0}
  /\ MaxConcurrent \in Nat \ {0}
  /\ RedisUp \in BOOLEAN
  /\ Faults \subseteq FaultKind
  /\ MaxFaults \in Nat
  /\ Execs \cap Stops = {}
  /\ \A p \in Execs \cup Stops : HostOf[p] \in Hosts
  /\ None \notin Execs \cup Stops
  /\ None \notin Nat

-----------------------------------------------------------------------------
(* Statuses.                                                               *)

RunIds == 1..MaxRuns    \* in the order of created_at

\* No code path writes 'queued', so the queries that name it match nothing more.
Active   == {"pending", "running"}
Terminal == {"completed", "failed", "cancelled", "timed_out"}

\* The CHECK constraint on experiments.status.
ExperimentStatus == {"draft", "active", "running", "stopped", "archived"}

-----------------------------------------------------------------------------
VARIABLES
  (* PostgreSQL *)
  status,     (* experiment_runs.status, "none" for a row not yet inserted  *)
  runNo,      (* experiment_runs.run_number                                 *)
  expStatus,  (* experiments.status                                         *)
  (* Redis *)
  stopKey,    (* the runs r with experiment:stop:{r} = "1"                  *)
  (* Engine *)
  cancelFn,   (* Engine.cancelFuncs of each replica: whose cancel function  *)
              (* a run has there                                            *)
  ctxDone,    (* executors whose derived context is cancelled               *)
  reqDone,    (* requests whose own context is cancelled                    *)
  (* the requests that execute *)
  pc,         (* where each one is                                          *)
  expSeen,    (* experiments.status as it read it                           *)
  runOf,      (* the run it executes                                        *)
  runStatus,  (* run.Status of its in-memory copy of that run               *)
  nextNo,     (* the run number it computed                                 *)
  live,       (* it found a cluster client; FALSE is the dry-run mode       *)
  okSteps,    (* successfulSteps                                            *)
  badSteps,   (* failedSteps                                                *)
  late,       (* HISTORY: attacks it launched since its run's stop key      *)
              (* was last set                                               *)
  missed,     (* HISTORY: how often, since then, it asked for the key and   *)
              (* Redis failed                                               *)
  (* the requests that stop *)
  spc,        (* where each one is                                          *)
  stopRun,    (* the run it found active                                    *)
  hit,        (* HISTORY: the executor whose context it cancelled           *)
  rowCancelled, (* HISTORY: its engine call has cancelled the run's row     *)
  marred,     (* HISTORY: the runs with a statement that failed             *)
  faults      (* disturbances so far                                        *)

dbVars      == <<status, runNo, expStatus>>
ctxVars     == <<cancelFn, ctxDone, reqDone>>
shared      == <<dbVars, stopKey, ctxVars>>
handlerVars == <<expSeen, nextNo>>
runVars     == <<runOf, runStatus>>
stepVars    == <<live, okSteps, badSteps, late, missed>>
local       == <<handlerVars, runVars, stepVars>>
execVars    == <<pc, local>>
stopVars    == <<spc, stopRun, hit, rowCancelled>>
troubleVars == <<marred, faults>>
others      == <<stopVars, troubleVars>>
vars        == <<shared, execVars, others>>

ExecPC == {"idle", "expire", "count", "activate", "find", "number", "insert",
           "register", "precheck", "abort", "start", "step", "deploy", "arm",
           "attack", "validate", "siem", "complete", "return", "respond", "done",
           "lost"}
StopPC == {"idle", "hit", "key", "row", "guard", "signal", "stopped", "done",
           "lost"}

(* The type of every variable.  The experiment's status in particular      *)
(* always satisfies the table's CHECK constraint.                          *)
TypeOK ==
  /\ status \in [RunIds -> Active \cup Terminal \cup {"none"}]
  /\ runNo \in [RunIds -> Nat]
  /\ expStatus \in ExperimentStatus
  /\ stopKey \subseteq RunIds
  /\ cancelFn \in [Hosts -> [RunIds -> Execs \cup {None}]]
  /\ ctxDone \subseteq Execs
  /\ reqDone \subseteq Execs \cup Stops
  /\ pc \in [Execs -> ExecPC]
  /\ expSeen \in [Execs -> ExperimentStatus \cup {"none"}]
  /\ runOf \in [Execs -> RunIds \cup {None}]
  /\ runStatus \in [Execs -> Active \cup {"none", "completed", "failed"}]
  /\ nextNo \in [Execs -> Nat]
  /\ live \in [Execs -> BOOLEAN]
  /\ okSteps \in [Execs -> Nat]
  /\ badSteps \in [Execs -> Nat]
  /\ late \in [Execs -> Nat]
  /\ missed \in [Execs -> Nat]
  /\ spc \in [Stops -> StopPC]
  /\ stopRun \in [Stops -> RunIds \cup {None}]
  /\ hit \in [Stops -> Execs \cup {None}]
  /\ rowCancelled \in [Stops -> BOOLEAN]
  /\ marred \subseteq RunIds
  /\ faults \in Nat

Init ==
  /\ status = [r \in RunIds |-> "none"]
  /\ runNo = [r \in RunIds |-> 0]
  /\ expStatus = "draft"
  /\ stopKey = {}
  /\ cancelFn = [h \in Hosts |-> [r \in RunIds |-> None]]
  /\ ctxDone = {}
  /\ reqDone = {}
  /\ pc = [e \in Execs |-> "idle"]
  /\ expSeen = [e \in Execs |-> "none"]
  /\ runOf = [e \in Execs |-> None]
  /\ runStatus = [e \in Execs |-> "none"]
  /\ nextNo = [e \in Execs |-> 0]
  /\ live = [e \in Execs |-> FALSE]
  /\ okSteps = [e \in Execs |-> 0]
  /\ badSteps = [e \in Execs |-> 0]
  /\ late = [e \in Execs |-> 0]
  /\ missed = [e \in Execs |-> 0]
  /\ spc = [s \in Stops |-> "idle"]
  /\ stopRun = [s \in Stops |-> None]
  /\ hit = [s \in Stops |-> None]
  /\ rowCancelled = [s \in Stops |-> FALSE]
  /\ marred = {}
  /\ faults = 0

-----------------------------------------------------------------------------
(* Helpers.                                                                *)

Goto(e, from, to) == pc[e] = from /\ pc' = [pc EXCEPT ![e] = to]

StopGoto(s, from, to) == spc[s] = from /\ spc' = [spc EXCEPT ![s] = to]

Fault(kind) ==
  /\ kind \in Faults
  /\ faults < MaxFaults
  /\ faults' = faults + 1

ActiveRuns == {r \in RunIds : status[r] \in Active}

\* ORDER BY created_at DESC LIMIT 1
Latest == {r \in ActiveRuns : \A q \in ActiveRuns : q <= r}

CtxOK(e) == e \notin ctxDone
ReqOK(p) == p \notin reqDone

\* A statement about run r fails, although the context it runs under is alive.
StatementFails(r) ==
  /\ Fault("postgres")
  /\ marred' = marred \cup {r}

KeySet(e) == CtxOK(e) /\ runOf[e] \in stopKey

\* Slip: the stop is written as "1" but compared with something else.
NothingRead(e) == UNCHANGED <<missed, faults>>

\* isStopRequested answers no.  Any error of the GET is such an answer: Redis
\* fails, the context is cancelled, or there is no client at all.
NoStopRead(e) ==
  \/ ~(RedisUp /\ KeySet(e)) /\ UNCHANGED <<missed, faults>>
  \/ /\ RedisUp /\ KeySet(e)
     /\ Fault("redis")
     /\ missed' = [missed EXCEPT ![e] = @ + 1]

\* isStopRequested answers yes.
StopRead(e) == RedisUp /\ KeySet(e) /\ UNCHANGED <<missed, faults>>

SetStatus(r, st) == status' = [status EXCEPT ![r] = st]

\* Slip: results are written with a context that a stop does not cancel.
UpdateInBackground(e, st) ==
  SetStatus(runOf[e], st) /\ UNCHANGED troubleVars

\* The UPDATEs of the engine have no condition on the status they replace.
\* Their errors are logged or ignored, and the execution goes on.
EngineUpdate(e, st) ==
  \/ CtxOK(e) /\ SetStatus(runOf[e], st) /\ UNCHANGED troubleVars
  \/ CtxOK(e) /\ StatementFails(runOf[e]) /\ UNCHANGED status
  \/ ~CtxOK(e) /\ UNCHANGED <<status, troubleVars>>

\* Slip: the status is written to a table without the constraint.
SetAnyStatus(st) == expStatus' = st

\* An UPDATE that violates the CHECK constraint fails, and is only logged.
SetExpStatus(st) ==
  expStatus' = IF st \in ExperimentStatus THEN st ELSE expStatus

\* The UPDATEs of experiments.status, whose errors are only logged too.
UpdateExperiment(p, st) ==
  \/ ReqOK(p) /\ SetExpStatus(st) /\ UNCHANGED faults
  \/ ReqOK(p) /\ Fault("postgres") /\ UNCHANGED expStatus
  \/ ~ReqOK(p) /\ UNCHANGED <<expStatus, faults>>

CurrentStep(e) == okSteps[e] + badSteps[e]
AfterStep(e) == IF CurrentStep(e) + 1 = Steps THEN "complete" ELSE "step"

\* Slip: one failed step fails the run.
VerdictOfAnyFailure(e) == IF badSteps[e] > 0 THEN "failed" ELSE "completed"

\* failed only if every step failed
Verdict(e) == IF badSteps[e] = Steps THEN "failed" ELSE "completed"

-----------------------------------------------------------------------------
(* Handler.ExecuteExperiment, before the engine.                           *)

\* Reads experiments.status and refuses an experiment that is 'running'.
Begin(e) ==
  /\ ReqOK(e)
  /\ expSeen' = [expSeen EXCEPT ![e] = expStatus]
  /\ Goto(e, "idle", IF expStatus = "running" THEN "done" ELSE "expire")
  /\ UNCHANGED <<shared, nextNo, runVars, stepVars, others>>

\* Runs older than the pod timeout, or on a cluster no longer connected, expire.
ExpireStale(e) ==
  /\ Goto(e, "expire", "count")
  /\ \/ UNCHANGED <<status, faults>>
     \/ /\ ReqOK(e)
        /\ Fault("stale")
        /\ \E S \in (SUBSET ActiveRuns) \ {{}} :
             status' = [r \in RunIds |-> IF r \in S THEN "timed_out" ELSE status[r]]
  /\ UNCHANGED <<runNo, expStatus, stopKey, ctxVars, local, stopVars, marred>>

\* A COUNT that fails lets the request through.
Admits(e) == ReqOK(e) => Cardinality(ActiveRuns) < MaxConcurrent

CountActive(e) ==
  /\ \/ Goto(e, "count", IF Admits(e) THEN "activate" ELSE "done") /\ UNCHANGED faults
     \/ Goto(e, "count", "activate") /\ ~Admits(e) /\ Fault("postgres")
  /\ UNCHANGED <<shared, local, stopVars, marred>>

\* The last use of the status it read, which is forgotten here.
Activate(e) ==
  /\ Goto(e, "activate", "find")
  /\ IF expSeen[e] # "active" THEN UpdateExperiment(e, "active")
                             ELSE UNCHANGED <<expStatus, faults>>
  /\ expSeen' = [expSeen EXCEPT ![e] = "none"]
  /\ UNCHANGED <<status, runNo, stopKey, ctxVars, nextNo, runVars, stepVars,
                 stopVars, marred>>

-----------------------------------------------------------------------------
(* Engine.ExecuteExperiment.                                               *)

\* An error (always one if the context is cancelled) ends the request before
\* it has a run: no template is enabled, a query fails, there is no cluster.
GiveUp(e) ==
  /\ pc[e] \in {"find", "number", "insert"}
  /\ pc' = [pc EXCEPT ![e] = "done"]
  /\ ctxDone' = ctxDone \cup {e}
  /\ UNCHANGED <<dbVars, stopKey, cancelFn, reqDone, local, others>>

\* findActiveRun: the most recent active run is adopted, whoever executes it.
FindRun(e) ==
  /\ CtxOK(e)
  /\ \/ ActiveRuns = {} /\ Goto(e, "find", "number") /\ UNCHANGED runVars
     \/ \E r \in Latest :
          /\ Goto(e, "find", "register")
          /\ runOf' = [runOf EXCEPT ![e] = r]
          /\ runStatus' = [runStatus EXCEPT ![e] = status[r]]
  /\ UNCHANGED <<shared, handlerVars, stepVars, others>>

\* SELECT MAX(run_number), before and apart from the INSERT that uses it; 1 if
\* it fails.
NextRunNumber(e) ==
  /\ CtxOK(e)
  /\ Goto(e, "number", "insert")
  /\ \/ /\ \E n \in {runNo[r] : r \in RunIds} \cup {0} :
             /\ \A r \in RunIds : runNo[r] <= n
             /\ nextNo' = [nextNo EXCEPT ![e] = n + 1]
        /\ UNCHANGED faults
     \/ Fault("postgres") /\ nextNo' = [nextNo EXCEPT ![e] = 1]
  /\ UNCHANGED <<shared, expSeen, runVars, stepVars, stopVars, marred>>

\* The rows not inserted yet; the next one is the first of them.
FreshRuns == {r \in RunIds : status[r] = "none"}

NewRow(e, r) ==
  /\ r \in FreshRuns
  /\ \A q \in FreshRuns : r <= q
  /\ SetStatus(r, "pending")
  /\ runNo' = [runNo EXCEPT ![r] = nextNo[e]]
  /\ nextNo' = [nextNo EXCEPT ![e] = 0]

InsertRun(e) ==
  /\ CtxOK(e)
  /\ Goto(e, "insert", "register")
  /\ \E r \in FreshRuns :
       /\ NewRow(e, r)
       /\ runOf' = [runOf EXCEPT ![e] = r]
       /\ runStatus' = [runStatus EXCEPT ![e] = "pending"]
  /\ UNCHANGED <<expStatus, stopKey, ctxVars, expSeen, stepVars, others>>

\* The row is there, but the answer is an error: the request ends without it.
InsertUnanswered(e) ==
  /\ CtxOK(e)
  /\ Goto(e, "insert", "done")
  /\ \E r \in FreshRuns : NewRow(e, r) /\ StatementFails(r)
  /\ ctxDone' = ctxDone \cup {e}
  /\ UNCHANGED <<expStatus, stopKey, cancelFn, reqDone, expSeen, runVars, stepVars,
                 stopVars>>

\* sync.Map.Store: the cancel function of another executor is overwritten.
Register(e) ==
  /\ Goto(e, "register", "precheck")
  /\ cancelFn' = [cancelFn EXCEPT ![HostOf[e]][runOf[e]] = e]
  /\ UNCHANGED <<dbVars, stopKey, ctxDone, reqDone, local, others>>

PreCheck(e) ==
  /\ \/ StopRead(e) /\ Goto(e, "precheck", "abort")
     \/ NoStopRead(e) /\ Goto(e, "precheck", "start")
  /\ UNCHANGED <<shared, handlerVars, runVars, live, okSteps, badSteps, late,
                 stopVars, marred>>

\* Slip: the early return leaves the row to somebody else.
AbortSilently(e) ==
  /\ Goto(e, "abort", "return")
  /\ UNCHANGED <<shared, local, others>>

\* Returns the run with the status it was loaded with, not 'cancelled'.
Abort(e) ==
  /\ Goto(e, "abort", "return")
  /\ EngineUpdate(e, "cancelled")
  /\ UNCHANGED <<runNo, expStatus, stopKey, ctxVars, local, stopVars>>

MarkStarted(e) ==
  /\ Goto(e, "start", "step")
  /\ EngineUpdate(e, "running")
  /\ live' \in {[live EXCEPT ![e] = b] : b \in BOOLEAN}
  /\ UNCHANGED <<runNo, expStatus, stopKey, ctxVars, handlerVars, runVars,
                 okSteps, badSteps, late, missed, stopVars>>

StepBegin(e) ==
  /\ \/ StopRead(e) /\ Goto(e, "step", "abort")
     \/ NoStopRead(e) /\ Goto(e, "step", "deploy")
  /\ UNCHANGED <<shared, handlerVars, runVars, live, okSteps, badSteps, late,
                 stopVars, marred>>

\* The step returns an error; the next one is attempted all the same.
StepFails(e) ==
  /\ \/ pc[e] = "deploy"
     \/ pc[e] \in {"arm", "validate"} /\ (~CtxOK(e) \/ StopRead(e))
  /\ badSteps' = [badSteps EXCEPT ![e] = @ + 1]
  /\ pc' = [pc EXCEPT ![e] = AfterStep(e)]
  /\ UNCHANGED <<shared, handlerVars, runVars, live, okSteps, late, missed, others>>

\* Template loaded; if live, namespace and pod created and the pod ready.  The
\* stop check between the two only moves the failure of a stopped step earlier.
Deploy(e) ==
  /\ CtxOK(e)
  /\ Goto(e, "deploy", IF live[e] THEN "arm" ELSE "validate")
  /\ UNCHANGED <<shared, local, others>>

\* The checks a step makes between two of its operations.
Arm(e) ==
  /\ CtxOK(e) /\ NoStopRead(e)
  /\ Goto(e, "arm", "attack")
  /\ UNCHANGED <<shared, handlerVars, runVars, live, okSteps, badSteps, late,
                 stopVars, marred>>

Validate(e) ==
  /\ CtxOK(e) /\ NoStopRead(e)
  /\ Goto(e, "validate", "siem")
  /\ UNCHANGED <<shared, handlerVars, runVars, live, okSteps, badSteps, late,
                 stopVars, marred>>

\* An attack that fails, or whose context is cancelled, is only logged.
Attack(e) ==
  /\ Goto(e, "attack", "validate")
  /\ late' = IF KeySet(e) THEN [late EXCEPT ![e] = @ + 1] ELSE late
  /\ UNCHANGED <<shared, handlerVars, runVars, live, okSteps, badSteps, missed,
                 others>>

\* The result of the SIEM validation does not decide whether the step failed.
Detect(e) ==
  /\ Goto(e, "siem", AfterStep(e))
  /\ okSteps' = [okSteps EXCEPT ![e] = @ + 1]
  /\ UNCHANGED <<shared, handlerVars, runVars, live, badSteps, late, missed, others>>

Complete(e) ==
  /\ Goto(e, "complete", "return")
  /\ EngineUpdate(e, Verdict(e))
  /\ runStatus' = [runStatus EXCEPT ![e] = Verdict(e)]
  /\ UNCHANGED <<runNo, expStatus, stopKey, ctxVars, handlerVars, runOf,
                 stepVars, stopVars>>

\* Slip: the deferred Delete is missing.
LeaveRegistered(e) == UNCHANGED cancelFn

\* The deferred functions: deletes the run's entry, whosever it is.
Deregister(e) == cancelFn' = [cancelFn EXCEPT ![HostOf[e]][runOf[e]] = None]

Return(e) ==
  /\ Goto(e, "return", "respond")
  /\ Deregister(e)
  /\ ctxDone' = ctxDone \cup {e}
  /\ UNCHANGED <<dbVars, stopKey, reqDone, local, others>>

\* The rest of the handler.  run.Status is never 'cancelled' here, so the
\* translation of 'cancelled' to 'stopped' has nothing to translate.
Respond(e) ==
  /\ Goto(e, "respond", "done")
  /\ UpdateExperiment(e, runStatus[e])
  /\ UNCHANGED <<status, runNo, stopKey, ctxVars, local, stopVars, marred>>

-----------------------------------------------------------------------------
(* Handler.StopExperiment and, for a run read as running, Engine.StopExperiment. *)

\* CASE WHEN status IN ('running','active') THEN 'stopped' ELSE status END
StopIfBusy == IF expStatus \in {"running", "active"} THEN "stopped" ELSE expStatus

Lookup(s) ==
  /\ ReqOK(s)
  /\ \/ /\ ActiveRuns = {}
        /\ StopGoto(s, "idle", "done")
        /\ UpdateExperiment(s, StopIfBusy)
        /\ UNCHANGED stopRun
     \/ \E r \in Latest :
          /\ StopGoto(s, "idle", IF status[r] = "running" THEN "hit" ELSE "guard")
          /\ stopRun' = [stopRun EXCEPT ![s] = r]
          /\ UNCHANGED <<expStatus, faults>>
  /\ UNCHANGED <<status, runNo, stopKey, ctxVars, execVars, hit, rowCancelled,
                 marred>>

\* LoadAndDelete and cancel(): at most one executor of the run is reached, and
\* none if the run executes on another replica.
CancelContext(s) ==
  LET e == cancelFn[HostOf[s]][stopRun[s]] IN
  /\ StopGoto(s, "hit", "key")
  /\ ctxDone' = IF e = None THEN ctxDone ELSE ctxDone \cup {e}
  /\ cancelFn' = [cancelFn EXCEPT ![HostOf[s]][stopRun[s]] = None]
  /\ hit' = [hit EXCEPT ![s] = e]
  /\ UNCHANGED <<dbVars, stopKey, reqDone, execVars, stopRun, rowCancelled,
                 troubleVars>>

\* A SET that fails is only logged.
SetStopKey(s) ==
  LET sent == RedisUp /\ ReqOK(s) IN
  \/ sent /\ stopKey' = stopKey \cup {stopRun[s]} /\ UNCHANGED faults
  \/ sent /\ Fault("redis") /\ UNCHANGED stopKey
  \/ ~sent /\ UNCHANGED <<stopKey, faults>>

EngineSignal(s) ==
  /\ StopGoto(s, "key", "row")
  /\ SetStopKey(s)
  /\ UNCHANGED <<dbVars, ctxVars, execVars, stopRun, hit, rowCancelled, marred>>

\* updateRunCancelled, whatever the row's status is by now.  When it fails, the
\* handler goes on.
CancelRow(s) ==
  /\ StopGoto(s, "row", "guard")
  /\ \/ /\ ReqOK(s)
        /\ SetStatus(stopRun[s], "cancelled")
        /\ rowCancelled' = [rowCancelled EXCEPT ![s] = TRUE]
        /\ UNCHANGED troubleVars
     \/ ReqOK(s) /\ StatementFails(stopRun[s]) /\ UNCHANGED <<status, rowCancelled>>
     \/ ~ReqOK(s) /\ UNCHANGED <<status, rowCancelled, troubleVars>>
  /\ UNCHANGED <<runNo, expStatus, stopKey, ctxVars, execVars, stopRun, hit>>

\* The engine call outlives its 30 s: its UPDATE fails, the handler goes on.
StopTimesOut(s) ==
  /\ Fault("stopTimeout")
  /\ StopGoto(s, "row", "guard")
  /\ UNCHANGED <<shared, execVars, stopRun, hit, rowCancelled, marred>>

\* Slip: only a run that has not started can be cancelled here.
OnlyPending == {r \in RunIds : status[r] = "pending"}

\* status IN ('running', 'pending', 'queued')
Cancellable == ActiveRuns

\* UPDATE ... WHERE id = $4 AND status IN ('running', 'pending', 'queued').  An
\* error ends the request, also when the row has been written.
GuardedCancel(s) ==
  LET r == stopRun[s] IN
  /\ \/ /\ ~ReqOK(s)
        /\ StopGoto(s, "guard", "done")
        /\ UNCHANGED <<status, expStatus, troubleVars>>
     \/ /\ ReqOK(s) /\ StatementFails(r)
        /\ StopGoto(s, "guard", "done")
        /\ UNCHANGED status \/ (r \in Cancellable /\ SetStatus(r, "cancelled"))
        /\ UNCHANGED expStatus
     \/ /\ ReqOK(s) /\ r \in Cancellable
        /\ StopGoto(s, "guard", "signal")
        /\ SetStatus(r, "cancelled")
        /\ UNCHANGED <<expStatus, troubleVars>>
     \/ /\ ReqOK(s) /\ r \notin Cancellable
        /\ StopGoto(s, "guard", "done")
        /\ UpdateExperiment(s, StopIfBusy)
        /\ UNCHANGED <<status, marred>>
  /\ UNCHANGED <<runNo, stopKey, ctxVars, execVars, stopRun, hit, rowCancelled>>

Signal(s) ==
  /\ StopGoto(s, "signal", "stopped")
  /\ SetStopKey(s)
  /\ UNCHANGED <<dbVars, ctxVars, execVars, stopRun, hit, rowCancelled, marred>>

MarkStopped(s) ==
  /\ StopGoto(s, "stopped", "done")
  /\ UpdateExperiment(s, "stopped")
  /\ UNCHANGED <<status, runNo, stopKey, ctxVars, execVars, stopRun, hit,
                 rowCancelled, marred>>

-----------------------------------------------------------------------------
(* Everything else that touches this state.                                *)

\* POST /experiments/stale-runs/cancel: rows only, no executor is told.
CancelStaleRuns ==
  /\ Fault("stale")
  /\ \E S \in (SUBSET ActiveRuns) \ {{}} :
       status' = [r \in RunIds |-> IF r \in S THEN "cancelled" ELSE status[r]]
  /\ UNCHANGED <<runNo, expStatus, stopKey, ctxVars, execVars, stopVars, marred>>

\* The stop key's TTL of 10 or 30 minutes runs out.
KeyExpires(r) ==
  /\ Fault("keyExpiry")
  /\ r \in stopKey
  /\ stopKey' = stopKey \ {r}
  /\ late' = [e \in Execs |-> IF runOf[e] = r THEN 0 ELSE late[e]]
  /\ missed' = [e \in Execs |-> IF runOf[e] = r THEN 0 ELSE missed[e]]
  /\ UNCHANGED <<dbVars, ctxVars, pc, handlerVars, runVars, live, okSteps,
                 badSteps, stopVars, marred>>

\* The client closes its connection, which cancels the request's context.
Disconnect(p) ==
  /\ Fault("disconnect")
  /\ p \in Execs => pc[p] \notin {"idle", "done", "lost"}
  /\ p \in Stops => spc[p] \notin {"idle", "done", "lost"}
  /\ ReqOK(p)
  /\ reqDone' = reqDone \cup {p}
  /\ ctxDone' = IF p \in Execs THEN ctxDone \cup {p} ELSE ctxDone
  /\ UNCHANGED <<dbVars, stopKey, cancelFn, execVars, stopVars, marred>>

\* A replica dies and is restarted: nothing at start-up looks at old runs.
Crash(h) ==
  /\ Fault("crash")
  /\ pc' = [e \in Execs |-> IF HostOf[e] = h /\ pc[e] \notin {"idle", "done"}
                            THEN "lost" ELSE pc[e]]
  /\ spc' = [s \in Stops |-> IF HostOf[s] = h /\ spc[s] \notin {"idle", "done"}
                             THEN "lost" ELSE spc[s]]
  /\ cancelFn' = [cancelFn EXCEPT ![h] = [r \in RunIds |-> None]]
  /\ UNCHANGED <<dbVars, stopKey, ctxDone, reqDone, local, stopRun, hit,
                 rowCancelled, marred>>

-----------------------------------------------------------------------------
ExecStep(e) ==
  \/ Begin(e) \/ ExpireStale(e) \/ CountActive(e) \/ Activate(e)
  \/ GiveUp(e) \/ FindRun(e) \/ NextRunNumber(e)
  \/ InsertRun(e) \/ InsertUnanswered(e)
  \/ Register(e) \/ PreCheck(e) \/ Abort(e) \/ MarkStarted(e)
  \/ StepBegin(e) \/ StepFails(e) \/ Deploy(e) \/ Arm(e) \/ Attack(e)
  \/ Validate(e) \/ Detect(e) \/ Complete(e) \/ Return(e) \/ Respond(e)

StopStep(s) ==
  \/ Lookup(s) \/ CancelContext(s) \/ EngineSignal(s) \/ CancelRow(s)
  \/ StopTimesOut(s) \/ GuardedCancel(s) \/ Signal(s) \/ MarkStopped(s)

Environment ==
  \/ CancelStaleRuns
  \/ \E r \in RunIds : KeyExpires(r)
  \/ \E p \in Execs \cup Stops : Disconnect(p)
  \/ \E h \in Hosts : Crash(h)

Next ==
  \/ \E e \in Execs : ExecStep(e)
  \/ \E s \in Stops : StopStep(s)
  \/ Environment

Spec == Init /\ [][Next]_vars

\* An executor in a call that has no deadline of its own: the command in the
\* pod, the search of the SIEM.  Only the end of its context brings it back.
Held(e) == pc[e] \in {"attack", "siem"} /\ CtxOK(e)

\* net/http runs every accepted request to its end, requests need not arrive.
\* PostgreSQL, Redis and the API of Kubernetes answer or fail in bounded time;
\* nothing is assumed of a held executor, nor of the mail server that one at
\* "return" may still be talking to.
Fairness ==
  /\ \A e \in Execs : WF_vars(ExecStep(e) /\ pc[e] \notin {"idle", "return"} /\ ~Held(e))
  /\ \A s \in Stops : WF_vars(StopStep(s) /\ spc[s] # "idle")

FairSpec == Spec /\ Fairness

-----------------------------------------------------------------------------
(* Properties.                                                             *)

Registered == {"precheck", "abort", "start", "step", "deploy", "arm", "attack",
               "validate", "siem", "complete", "return"}

(* No cancel function outlives its executor: an entry of cancelFuncs always *)
(* belongs to a request that is still executing that very run.  (The        *)
(* deferred Delete must cover every return of ExecuteExperiment.)           *)
CancelFuncLive ==
  \A h \in Hosts, r \in RunIds :
    LET e == cancelFn[h][r] IN
    e # None => HostOf[e] = h /\ pc[e] \in Registered /\ runOf[e] = r

Executors(r) == {e \in Execs : runOf[e] = r}

(* A verdict is earned: a run is 'completed' or 'failed' only if one of its *)
(* executors attempted every step and counted at least one success, or none.*)
VerdictEarned ==
  \A r \in RunIds :
    /\ status[r] = "completed" =>
         \E e \in Executors(r) : CurrentStep(e) = Steps /\ okSteps[e] > 0
    /\ status[r] = "failed" =>
         \E e \in Executors(r) : CurrentStep(e) = Steps /\ okSteps[e] = 0

(* A stop that reached the only executor of a run is final: once            *)
(* Engine.StopExperiment has cancelled that executor's context and the row, *)
(* no later write of the executor, of another stop or of the expiry of      *)
(* stale runs makes the run anything but 'cancelled' again.                 *)
StopIsFinal ==
  \A s \in Stops :
    /\ rowCancelled[s]
    /\ hit[s] # None
    /\ Executors(stopRun[s]) = {hit[s]}
    => status[stopRun[s]] = "cancelled"

(* While a run's stop key is set, each of its executors launches the one    *)
(* attack it had already been cleared for, and not another unless Redis     *)
(* fails it twice more: both checks on the way to an attack must miss the   *)
(* key.                                                                     *)
OneLateAttack == \A e \in Execs : 2 * late[e] <= missed[e] + 2

Working == {"register"} \cup (Registered \ {"return"})
Stopping == {"key", "row", "guard"}

InTrouble(r) ==
  \/ r \in marred
  \/ \E e \in Executors(r) : pc[e] = "lost" \/ e \in reqDone
  \/ \E s \in Stops : stopRun[s] = r /\ (spc[s] = "lost" \/ s \in reqDone)

(* A run is left pending or running with nobody to end it only after a      *)
(* crash, a closed connection or a failed statement about it: otherwise an  *)
(* executor whose context is alive, or the stop that cancelled its context, *)
(* will still write the row.                                                *)
(* (Runs that miss this are what the expiry of stale runs is for.)          *)
OrphanNeedsFault ==
  \A r \in ActiveRuns :
    \/ \E e \in Executors(r) : pc[e] \in Working /\ CtxOK(e)
    \/ \E s \in Stops : stopRun[s] = r /\ spc[s] \in Stopping
    \/ InTrouble(r)

(* Without crashes, closed connections and failed statements every run      *)
(* ends, unless one of its executors is held for ever by a pod or a SIEM:   *)
(* nothing gives an execution that a request started a deadline.            *)
RunsTerminate ==
  \A r \in RunIds :
    \/ status[r] \in Active ~> status[r] \in Terminal
    \/ \E e \in Execs : <>[](Held(e) /\ runOf[e] = r)

(* What comments and docs of the repository say, and the code does not do.  *)

(* handlers.go, StopExperiment: "Match against the current status to avoid  *)
(* race conditions with concurrent updates (e.g., the run might have just   *)
(* completed)": a stop never overwrites a run that has completed.           *)
CompletedIsFinal ==
  [][\A r \in RunIds : status[r] = "completed" => status'[r] # "cancelled"]_vars

(* handlers.go, ExecuteExperiment: "Experiment is currently running. Stop   *)
(* it first, or wait for it to complete." is said of an experiment some run *)
(* of which is active or whose request is still being served.               *)
RunningExperimentHasRun ==
  expStatus = "running" =>
    \/ ActiveRuns # {}
    \/ \E e \in Execs : pc[e] \notin {"idle", "done", "lost"}
=============================================================================
