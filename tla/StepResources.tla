---------------------------- MODULE StepResources ----------------------------
(***************************************************************************)
(* What the runs of one experiment create in their clusters and who takes  *)
(* it away: Engine.executeStep and cleanupAllSteps, StopExperiment's       *)
(* cleanup, and the operations of NamespaceManager and PodController they  *)
(* call.                                                                   *)
(*                                                                         *)
(* The namespace is named after the experiment, so its runs and their      *)
(* steps share it.  A deleted namespace stays, "ending", until Kubernetes  *)
(* has emptied it; nothing can be created in it meanwhile.  One action is  *)
(* one call of the API, of the database or of Redis; a call may fail,      *)
(* before it has taken effect or after, when only its answer is lost.  A   *)
(* call made with a cancelled context is not sent and fails.               *)
(***************************************************************************)
EXTENDS Naturals, FiniteSets

CONSTANTS
  Runs,        (* runs of the experiment that execute                        *)
  Stops,       (* calls of StopExperiment                                    *)
  StopOf,      (* the run each of them stops                                 *)
  Sites,       (* clusters                                                   *)
  Nowhere,     (* no cluster                                                 *)
  NSteps,      (* steps of the experiment                                    *)
  MaxFaults    (* BOUND: API and database calls that fail by themselves      *)

ASSUME StepResourcesAssumption ==
  /\ NSteps \in Nat \ {0}
  /\ MaxFaults \in Nat
  /\ \A t \in Stops : StopOf[t] \in Runs
  /\ Stops \cap Runs = {}

Steps == 1..NSteps
Pods  == Runs \X Steps

VARIABLES
  space,     (* of each site: the phase of the experiment's namespace        *)
  limits,    (* of each site: what bounds the namespace                      *)
  pods,      (* attacker pods, on the site of their run                      *)
  podRows,   (* rows of attack_pods                                          *)
  stopKey,   (* runs with experiment:stop:{run} in Redis                     *)
  cancelled, (* runs whose context is cancelled                              *)
  place,     (* where each run and stop is                                   *)
  step,      (* the step a run is at                                         *)
  home, site,(* the run's cluster_id and the cluster it executes on          *)
  todo,      (* the pods a run or a stop is about to delete                  *)
  after,     (* where it goes when they are gone                             *)
  listed,    (* the pods in the run's allAttackPods                          *)
  immediate, autoCleanup,  (* the template's policy, the experiment's switch *)
  troubled,  (* HISTORY: runs one of whose deletions did not succeed         *)
  halfmade,  (* HISTORY: sites whose namespace was left without the quota    *)
             (* and the range it should have                                 *)
  missed,    (* HISTORY: stops that did not cancel, load or delete           *)
  faults     (* calls that may still fail by themselves                      *)

apiVars     == <<space, limits, pods>>
signalVars  == <<podRows, stopKey, cancelled>>
choiceVars  == <<home, site, immediate, autoCleanup>>
historyVars == <<troubled, halfmade, missed>>
workVars    == <<todo, after, listed>>
stepVars    == <<apiVars, signalVars, place, step, workVars, choiceVars,
                 historyVars, faults>>

Limit == {"quota", "range"}
RunPlace == {"idle", "begin", "exists", "create", "quota", "range", "rollback",
             "deploy", "undeploy", "record", "ready", "attack", "pod", "space",
             "next", "over", "lost"}
StopPlace == {"idle", "signal", "load", "pod", "space", "over", "lost"}

StepsTypeOK ==
  /\ space \in [Sites -> {"absent", "active", "ending"}]
  /\ limits \in [Sites -> SUBSET Limit]
  /\ pods \subseteq Pods
  /\ podRows \subseteq Pods
  /\ stopKey \subseteq Runs
  /\ cancelled \subseteq Runs
  /\ place \in [Runs \cup Stops -> RunPlace \cup StopPlace]
  /\ step \in [Runs -> 0..NSteps]
  /\ home \in [Runs -> Sites \cup {Nowhere}]
  /\ site \in [Runs -> Sites \cup {Nowhere}]
  /\ todo \in [Runs \cup Stops -> SUBSET Pods]
  /\ after \in [Runs \cup Stops -> RunPlace \cup StopPlace]
  /\ listed \in [Runs -> SUBSET Steps]
  /\ immediate \in BOOLEAN /\ autoCleanup \in BOOLEAN
  /\ troubled \subseteq Runs
  /\ halfmade \subseteq Sites
  /\ missed \subseteq Stops
  /\ faults \in 0..MaxFaults

StepsInit ==
  /\ space = [s \in Sites |-> "absent"]
  /\ limits = [s \in Sites |-> {}]
  /\ pods = {} /\ podRows = {} /\ stopKey = {} /\ cancelled = {}
  /\ place = [r \in Runs \cup Stops |-> "idle"]
  /\ step = [r \in Runs |-> 0]
  /\ home = [r \in Runs |-> Nowhere] /\ site = [r \in Runs |-> Nowhere]
  /\ todo = [r \in Runs \cup Stops |-> {}]
  /\ after = [r \in Runs \cup Stops |-> "over"]
  /\ listed = [r \in Runs |-> {}]
  /\ immediate \in BOOLEAN /\ autoCleanup \in BOOLEAN
  /\ troubled = {} /\ halfmade = {} /\ missed = {}
  /\ faults \in 0..MaxFaults

-----------------------------------------------------------------------------
(* A call is answered; or is not made, because its context is cancelled,   *)
(* or fails by itself; or takes effect and its answer is lost.             *)

Ctx(r) == r \in Runs /\ r \in cancelled
Works(r) == ~Ctx(r) /\ UNCHANGED faults
Lost(r) == ~Ctx(r) /\ faults > 0 /\ faults' = faults - 1
Breaks(r) == \/ Ctx(r) /\ UNCHANGED faults
             \/ Lost(r)

Goes(r, from, to) ==
  /\ place[r] = from
  /\ place' = [place EXCEPT ![r] = to]

\* isStopRequested: any error of Redis reads as no stop, that of a cancelled
\* context among them.
StopSeen(r) == r \in stopKey /\ Works(r)
NoStopSeen(r) == \/ r \notin stopKey /\ UNCHANGED faults
                 \/ r \in stopKey /\ Breaks(r)

\* The checks inside a step ask the context first.
MustStop(r) == \/ Ctx(r) /\ UNCHANGED faults
               \/ StopSeen(r)
MayGoOn(r) == ~Ctx(r) /\ NoStopSeen(r)

Mine(r) == <<r, step[r]>>

\* Delete the pods in D with their namespaces, then go on at p.
Clean(r, from, D, p) ==
  /\ Goes(r, from, IF D = {} THEN p ELSE "pod")
  /\ todo' = [todo EXCEPT ![r] = D]
  /\ after' = [after EXCEPT ![r] = p]

-----------------------------------------------------------------------------
(* The namespace of a step: CreateExperimentNamespace.                     *)

\* The loop of ExecuteExperiment: a stop ends it, after a cleanup.
Begin(r) ==
  /\ \/ /\ step[r] < NSteps /\ NoStopSeen(r)
        /\ Goes(r, "begin", "exists")
        /\ step' = [step EXCEPT ![r] = @ + 1]
        /\ UNCHANGED <<todo, after>>
     \/ /\ step[r] < NSteps /\ StopSeen(r)
        /\ Clean(r, "begin", {r} \X listed[r], "over")
        /\ UNCHANGED step
     \/ /\ step[r] = NSteps
        /\ Clean(r, "begin", IF autoCleanup THEN {r} \X listed[r] ELSE {}, "over")
        /\ UNCHANGED <<step, faults>>
  /\ UNCHANGED <<apiVars, signalVars, listed, choiceVars, historyVars>>

\* A run of cluster h starts to execute on cluster s.
Start(r, h, s) ==
  /\ Goes(r, "idle", "begin")
  /\ home' = [home EXCEPT ![r] = h]
  /\ site' = [site EXCEPT ![r] = s]
  /\ UNCHANGED <<apiVars, signalVars, step, workVars, immediate, autoCleanup,
                 historyVars, faults>>

\* NamespaceExists: a namespace that is ending exists.
Exists(r) ==
  /\ \/ Goes(r, "exists", "create") /\ Works(r) /\ space[site[r]] = "absent"
     \/ Goes(r, "exists", "deploy") /\ Works(r) /\ space[site[r]] # "absent"
     \/ Goes(r, "exists", "next") /\ Breaks(r)
  /\ UNCHANGED <<apiVars, signalVars, step, workVars, choiceVars, historyVars>>

\* IsAlreadyExists counts as success, without the quota and the range.  An error
\* is taken to mean that there is no namespace.
Create(r) ==
  /\ \/ /\ Goes(r, "create", "quota")
        /\ Works(r) /\ space[site[r]] = "absent"
        /\ space' = [space EXCEPT ![site[r]] = "active"]
        /\ UNCHANGED halfmade
     \/ /\ Goes(r, "create", "deploy")
        /\ Works(r) /\ space[site[r]] # "absent"
        /\ UNCHANGED <<space, halfmade>>
     \/ Goes(r, "create", "next") /\ Breaks(r) /\ UNCHANGED <<space, halfmade>>
     \/ /\ Goes(r, "create", "next")
        /\ Lost(r) /\ space[site[r]] = "absent"
        /\ space' = [space EXCEPT ![site[r]] = "active"]
        /\ halfmade' = halfmade \cup {site[r]}
  /\ UNCHANGED <<limits, pods, signalVars, step, workVars, choiceVars, troubled,
                 missed>>

\* createResourceQuota, createLimitRange
Bound(r, l, next) ==
  /\ \/ /\ Goes(r, l, next)
        /\ Works(r) /\ space[site[r]] = "active"
        /\ limits' = [limits EXCEPT ![site[r]] = @ \cup {l}]
     \/ /\ Goes(r, l, "rollback")
        /\ \/ Works(r) /\ space[site[r]] # "active"
           \/ Breaks(r)
        /\ UNCHANGED limits
     \/ /\ Goes(r, l, "rollback")
        /\ Lost(r) /\ space[site[r]] = "active"
        /\ limits' = [limits EXCEPT ![site[r]] = @ \cup {l}]
  /\ UNCHANGED <<space, pods, signalVars, step, workVars, choiceVars, historyVars>>

Quota(r) == Bound(r, "quota", "range")
Range(r) == Bound(r, "range", "deploy")

\* NamespaceManager.DeleteNamespace: not found is success.
EndSpace(s) == space' = [space EXCEPT ![s] = IF @ = "active" THEN "ending" ELSE @]

\* Slip: the namespace stays when it could not be bounded.
KeepUnbounded(r) ==
  /\ Works(r)
  /\ Goes(r, "rollback", "next")
  /\ UNCHANGED <<apiVars, signalVars, step, workVars, choiceVars, historyVars>>

\* The namespace is deleted again when its quota or range cannot be made.
Rollback(r) ==
  /\ Goes(r, "rollback", "next")
  /\ \/ Works(r) /\ EndSpace(site[r]) /\ UNCHANGED halfmade
     \/ Breaks(r) /\ halfmade' = halfmade \cup {site[r]} /\ UNCHANGED space
     \/ Lost(r) /\ EndSpace(site[r]) /\ UNCHANGED halfmade
  /\ UNCHANGED <<limits, pods, signalVars, step, workVars, choiceVars, troubled,
                 missed>>

-----------------------------------------------------------------------------
(* The pod of a step.                                                      *)

\* CreateAttackerPod: Kubernetes takes no pod into a namespace that is ending.  A
\* pod whose creation returned an error may be there all the same.
Deploy(r) ==
  /\ \/ /\ Goes(r, "deploy", "record")
        /\ Works(r) /\ space[site[r]] = "active"
        /\ pods' = pods \cup {Mine(r)}
     \/ /\ Goes(r, "deploy", "undeploy")
        /\ \/ Works(r) /\ space[site[r]] # "active"
           \/ Breaks(r)
        /\ UNCHANGED pods
     \/ /\ Goes(r, "deploy", "undeploy")
        /\ Lost(r) /\ space[site[r]] = "active"
        /\ pods' = pods \cup {Mine(r)}
  /\ UNCHANGED <<space, limits, signalVars, step, workVars, choiceVars, historyVars>>

\* The namespace goes, whoever else is in it.
Undeploy(r) ==
  /\ Goes(r, "undeploy", "next")
  /\ \/ Works(r) /\ EndSpace(site[r]) /\ UNCHANGED troubled
     \/ Breaks(r) /\ troubled' = troubled \cup {r} /\ UNCHANGED space
     \/ Lost(r) /\ EndSpace(site[r]) /\ UNCHANGED troubled
  /\ UNCHANGED <<limits, pods, signalVars, step, workVars, choiceVars, halfmade,
                 missed>>

\* Slip: a pod without a row is not appended to the step's pods.
ListOnlyRecorded(r) ==
  /\ Goes(r, "record", "ready")
  /\ \/ /\ Works(r) /\ podRows' = podRows \cup {Mine(r)}
        /\ listed' = [listed EXCEPT ![r] = @ \cup {step[r]}]
     \/ Breaks(r) /\ UNCHANGED <<podRows, listed>>
  /\ UNCHANGED <<apiVars, stopKey, cancelled, step, todo, after, choiceVars,
                 historyVars>>

\* createAttackPodRecord; the pod is appended even when the INSERT fails.
Record(r) ==
  /\ Goes(r, "record", "ready")
  /\ \/ (Works(r) \/ Lost(r)) /\ podRows' = podRows \cup {Mine(r)}
     \/ Breaks(r) /\ UNCHANGED podRows
  /\ listed' = [listed EXCEPT ![r] = @ \cup {step[r]}]
  /\ UNCHANGED <<apiVars, stopKey, cancelled, step, todo, after, choiceVars,
                 historyVars>>

\* The check for a stop, then WaitForPodReady, which ends by its timeout too.
Ready(r) ==
  /\ \/ /\ MustStop(r) \/ MayGoOn(r)
        /\ Clean(r, "ready", {Mine(r)}, "next")
     \/ /\ MayGoOn(r) /\ Mine(r) \in pods
        /\ Goes(r, "ready", "attack")
        /\ UNCHANGED <<todo, after>>
  /\ UNCHANGED <<apiVars, signalVars, step, listed, choiceVars, historyVars>>

\* The check for a stop, executeAttack and the logs, whose failures are only
\* reported, and the immediate cleanup.
Attack(r) ==
  /\ \/ MustStop(r) /\ Clean(r, "attack", {Mine(r)}, "next")
     \/ MayGoOn(r) /\ Clean(r, "attack", IF immediate THEN {Mine(r)} ELSE {}, "next")
  /\ UNCHANGED <<apiVars, signalVars, step, listed, choiceVars, historyVars>>

\* executeStep has returned.
StepReturns(r) ==
  /\ Goes(r, "next", "begin")
  /\ UNCHANGED <<apiVars, signalVars, step, workVars, choiceVars, historyVars, faults>>

-----------------------------------------------------------------------------
(* Deletions: ForceDeletePod, then DeleteNamespace, pod by pod.            *)

\* A run deletes on the cluster it executes on, a stop on the run's own.
Scene(r) == IF r \in Runs THEN site[r] ELSE home[StopOf[r]]
First(D) == CHOOSE d \in D : \A e \in D : d[2] <= e[2]
Owner(r) == IF r \in Runs THEN r ELSE StopOf[r]
Without(d, s) == IF site[d[1]] = s THEN pods \ {d} ELSE pods

DeletePod(r) ==
  LET d == First(todo[r]) IN
  /\ Goes(r, "pod", "space")
  /\ \/ /\ Works(r)
        /\ pods' = Without(d, Scene(r))
        /\ UNCHANGED <<troubled, missed>>
     \/ /\ Lost(r)
        /\ pods' = Without(d, Scene(r))
        /\ UNCHANGED <<troubled, missed>>
     \/ /\ Breaks(r)
        /\ troubled' = troubled \cup {Owner(r)}
        /\ missed' = missed \cup ({r} \cap Stops)
        /\ UNCHANGED pods
  /\ UNCHANGED <<space, limits, signalVars, step, workVars, choiceVars, halfmade>>

DeleteSpace(r) ==
  LET d == First(todo[r]) IN
  /\ Goes(r, "space", IF todo[r] = {d} THEN after[r] ELSE "pod")
  /\ todo' = [todo EXCEPT ![r] = @ \ {d}]
  /\ \/ (Works(r) \/ Lost(r)) /\ EndSpace(Scene(r))
     \/ Breaks(r) /\ UNCHANGED space
  /\ UNCHANGED <<limits, pods, signalVars, step, after, listed, choiceVars, historyVars>>

\* Kubernetes has emptied the namespace.
SpaceEnds(s) ==
  /\ space[s] = "ending"
  /\ space' = [space EXCEPT ![s] = "absent"]
  /\ limits' = [limits EXCEPT ![s] = {}]
  /\ pods' = {d \in pods : site[d[1]] # s}
  /\ halfmade' = halfmade \ {s}
  /\ UNCHANGED <<signalVars, place, step, workVars, choiceVars, troubled, missed, faults>>

-----------------------------------------------------------------------------
(* StopExperiment                                                          *)

\* The cancel function, if the run executes on this replica, ...
StopCancels(t) ==
  /\ place[StopOf[t]] \notin {"idle", "over"}
  /\ Goes(t, "idle", "signal")
  /\ \/ cancelled' = cancelled \cup {StopOf[t]} /\ UNCHANGED missed
     \/ cancelled' = cancelled /\ missed' = missed \cup {t}
  /\ UNCHANGED <<apiVars, podRows, stopKey, step, workVars, choiceVars, troubled,
                 halfmade, faults>>

\* ... the stop key, ...
StopSignals(t) ==
  /\ Goes(t, "signal", "load")
  /\ \/ (Works(t) \/ Lost(t)) /\ stopKey' = stopKey \cup {StopOf[t]}
     \/ Breaks(t) /\ stopKey' = stopKey
  /\ UNCHANGED <<apiVars, podRows, cancelled, step, workVars, choiceVars, historyVars>>

\* ... and the pods that have a row, if there is a client to delete them with.
StopLoads(t, client) ==
  /\ \/ /\ Clean(t, "load", {d \in podRows : d[1] = StopOf[t]}, "over")
        /\ client /\ Works(t)
        /\ UNCHANGED missed
     \/ /\ Clean(t, "load", {}, "over")
        /\ (~client /\ Works(t)) \/ Breaks(t)
        /\ missed' = missed \cup {t}
  /\ UNCHANGED <<apiVars, signalVars, step, listed, choiceVars, troubled, halfmade>>

RunGoes(r) == \/ Begin(r) \/ Exists(r) \/ Create(r) \/ Quota(r) \/ Range(r)
              \/ Rollback(r) \/ Deploy(r) \/ Undeploy(r) \/ Record(r) \/ Ready(r)
              \/ Attack(r) \/ StepReturns(r)

Deletes(r) == DeletePod(r) \/ DeleteSpace(r)

\* The process ends.
StepsLost ==
  /\ place' = [r \in Runs \cup Stops |->
                 IF place[r] \in {"idle", "over"} THEN place[r] ELSE "lost"]
  /\ UNCHANGED <<apiVars, signalVars, step, workVars, choiceVars, historyVars, faults>>

-----------------------------------------------------------------------------
(* A run that is over has left no pod of its own, if the experiment's      *)
(* cleanup is on, its context was not cancelled and no deletion of it      *)
(* failed: each pod created is in the list the last cleanup goes through,  *)
(* or goes with its namespace, also one whose creation seemed to fail.     *)
(* The deletions of a run whose context is cancelled all fail; there the   *)
(* stop that cancelled it, unless it met an error itself, has deleted      *)
(* every pod that has a row, whatever the run did at the same time.        *)
(* engine.go:341-346, 420-422, 450-540, 1477-1503                          *)
NothingLeft ==
  /\ \A r \in Runs \ (cancelled \cup troubled) :
       place[r] = "over" /\ autoCleanup =>
         \A d \in pods : d[1] = r => space[site[r]] = "ending"
  /\ \A t \in Stops \ missed :
       place[t] = "over" /\ home[StopOf[t]] = site[StopOf[t]] =>
         \A d \in pods \cap podRows : d[1] # StopOf[t]

(* In a namespace that one run alone has used, every pod is bounded by the *)
(* quota and the limit range, unless the namespace was left half-made: its *)
(* creation seemed to fail, or it could not be deleted again.  The next    *)
(* step takes it as it is.  namespace_manager.go:126-135, 160-190          *)
PodsBounded ==
  \A d \in pods :
    \/ limits[site[d[1]]] = Limit
    \/ site[d[1]] \in halfmade
    \/ \E r \in Runs \ {d[1]} : place[r] # "idle" /\ site[r] = site[d[1]]
=============================================================================
