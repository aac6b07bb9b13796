------------------------------ MODULE Kubernetes ------------------------------
(***************************************************************************)
(* The Kubernetes side of one process: an execution finds its cluster and  *)
(* client in Clusters and then takes its steps there in StepResources; a   *)
(* stop deletes with the client the manager has for the run's own cluster; *)
(* the handlers go on registering, checking and deleting clusters.         *)
(***************************************************************************)
EXTENDS Clusters, StepResources, NetworkPolicies

CONSTANTS
  Faulty,   (* BOUND: the mixes in which calls fail by themselves            *)
  Varied    (* BOUND: the mixes with every combination of cleanup policies   *)

ASSUME KubernetesAssumption ==
  /\ Runs = Execs
  /\ Sites = Ids
  /\ Mixes \subseteq SUBSET (Actors \cup Stops \cup Deploys)

vars == <<clusterVars, stepVars, policyVars>>

TypeOK == ClustersTypeOK /\ StepsTypeOK /\ PoliciesTypeOK

\* A question about policies is asked alone.
Init ==
  /\ ClustersInit
  /\ StepsInit
  /\ faults = (IF mix \in Faulty THEN MaxFaults ELSE 0)
  /\ mix \notin Varied => immediate /\ ~autoCleanup
  /\ question \in (IF mix = {} THEN Questions ELSE {NoQuestion})
  /\ verdict = "none"

-----------------------------------------------------------------------------
(* The run of an execution                                                 *)

\* The steps are executed with the client that was found, whatever happens to
\* it in the manager; without one they need nothing from a cluster.
Launch(r) ==
  /\ at[r] = "run" /\ mode[r] = "live"
  /\ Start(r, target[r], of[seen[r]])
  /\ UNCHANGED clusterVars

Finish(r) ==
  /\ mode[r] = "dry" \/ place[r] = "over"
  /\ RunEnds(r)
  /\ UNCHANGED stepVars

\* StopExperiment cleans up with GetClient(run.ClusterID).
HasClient(r) == cache[target[r]] # Nil /\ cache[target[r]] \notin closed

Stopping(t) ==
  /\ t \in mix
  /\ \/ StopCancels(t) \/ StopSignals(t) \/ StopLoads(t, HasClient(StopOf[t]))
     \/ Deletes(t)
  /\ UNCHANGED clusterVars

Next ==
  /\ mix # {}
  /\ \/ /\ \/ \E p \in Adds : Add(p)
           \/ \E p \in Opens \cup Healths : Open(p)
           \/ \E p \in Lookers : LooksUp(p)
           \/ \E p \in Removes : Deletion(p)
           \/ \E x \in Execs : FindsCluster(x)
           \/ Shutdown \/ ShutdownDrops
        /\ UNCHANGED stepVars
     \/ Restart /\ StepsLost
     \/ \E r \in Runs : Launch(r) \/ Finish(r)
     \/ /\ \/ \E r \in Runs : RunGoes(r) \/ Deletes(r)
           \/ \E s \in Sites : SpaceEnds(s)
        /\ UNCHANGED clusterVars
     \/ \E t \in Stops : Stopping(t)
  /\ UNCHANGED policyVars

Asked == Answer /\ UNCHANGED <<clusterVars, stepVars>>

Spec == Init /\ [][Next \/ Asked]_vars /\ ClustersFairness

-----------------------------------------------------------------------------
(* A new cluster does not stay pending: when its verification is over, and *)
(* it is over some day, the row says 'connected' or 'error' or is deleted. *)
(* Only the end of the process, or an UPDATE that failed, leaves it as it  *)
(* was.  handlers.go:417-497                                               *)
VerificationEnds ==
  \A p \in Adds : at[p] \notin {"idle", "done", "lost"} ~>
    \/ at[p] = "lost"
    \/ at[p] = "done" /\ (row[target[p]] # "pending" \/ target[p] \in unsaved)

(* A cluster keeps its row while a run of its own is at work on it: the    *)
(* deletion counts the running runs before, but only the foreign key of    *)
(* experiment_runs stops one that came in between, or a handler whose      *)
(* count failed.  handlers.go:606-668                                      *)
RunKeepsCluster ==
  \A r \in Runs : place[r] \notin {"idle", "over", "lost"} /\ site[r] = home[r]
    => row[site[r]] \in {"pending", "connected", "error"}
=============================================================================
