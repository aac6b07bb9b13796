------------------------------- MODULE Clusters -------------------------------
(***************************************************************************)
(* The registered clusters: their rows, the handlers that register, use,   *)
(* check and delete them (kubernetes/handlers.go), the goroutine that      *)
(* verifies a new one, and the executions that look for a cluster to run   *)
(* on (experiment/handlers.go, experiment/engine.go).                      *)
(*                                                                         *)
(* One organisation.  Whether the API server of a cluster answers is free  *)
(* at each call.  The handlers' reads of namespaces, policies and nodes    *)
(* change nothing and are part of the step that answers.                   *)
(***************************************************************************)
EXTENDS ClientCache

CONSTANTS
  Adds,         (* POST /clusters, with its verifyClusterConnection          *)
  Opens,        (* requests that need a client: details, namespaces,         *)
                (* network policies, ValidateRBACPermissions                 *)
  Healths,      (* GET /clusters/:id/health                                  *)
  Removes,      (* DELETE /clusters/:id                                      *)
  Execs,        (* executions of experiments                                 *)
  Mixes,        (* BOUND: the sets of these that occur together              *)
  Established,  (* of each mix: so many clusters are connected at the start  *)
  Deploys,      (* the process is replaced                                   *)
  MaxRestarts   (* BOUND: restarts of the process                            *)

Lookers == Adds \cup Opens \cup Healths \cup Execs
Actors  == Lookers \cup Removes

ASSUME ClustersAssumption ==
  /\ Callers = Lookers
  /\ Execs \cap (Adds \cup Opens \cup Healths \cup Removes) = {}
  /\ \A M \in Mixes : Established[M] \in 0..MaxClients /\ 1..Established[M] \subseteq Ids
  /\ MaxRestarts \in Nat

VARIABLES
  row,       (* kubernetes_clusters.status; "none" before the INSERT, "gone" *)
             (* after the DELETE                                             *)
  at,        (* where each actor is                                          *)
  target,    (* the cluster it is about, 0 if not known yet                  *)
  runRow,    (* the row in experiment_runs of each execution                 *)
  mode,      (* how it executes: "live" or "dry", "none" until then          *)
  unsaved,   (* HISTORY: clusters for which an UPDATE of the status failed   *)
  restarts,  (* so far                                                       *)
  mix        (* the actors of this behaviour                                 *)

rowVars     == <<row, runRow, unsaved>>
clusterVars == <<cacheVars, row, at, target, runRow, mode, unsaved, restarts, mix>>

RowStatus == {"none", "pending", "connected", "error", "gone"}
Present   == {c \in Ids : row[c] \notin {"none", "gone"}}
Connected == {c \in Ids : row[c] = "connected"}

Where == {"idle", "resolve", "insert", "look", "settle", "fetch", "again",
          "resettle", "lock", "probe", "refuse", "drop", "accept", "check",
          "any", "anyload", "run", "remove", "delete", "done", "lost"}

ClustersTypeOK ==
  /\ CacheTypeOK
  /\ row \in [Ids -> RowStatus]
  /\ at \in [Actors -> Where]
  /\ target \in [Actors -> Ids \cup {0}]
  /\ runRow \in [Execs -> {"none", "running", "over"}]
  /\ mode \in [Execs -> {"none", "live", "dry"}]
  /\ unsaved \subseteq Ids
  /\ restarts \in Nat
  /\ mix \in Mixes

ClustersInit ==
  /\ mix \in Mixes
  /\ CacheInit(Established[mix])
  /\ row = [c \in Ids |-> IF c <= Established[mix] THEN "connected" ELSE "none"]
  /\ at = [p \in Actors |-> "idle"]
  /\ target = [p \in Actors |-> 0]
  /\ runRow = [x \in Execs |-> "none"]
  /\ mode = [x \in Execs |-> "none"]
  /\ unsaved = {}
  /\ restarts = 0

Goto(p, from, to) ==
  /\ p \in mix
  /\ at[p] = from
  /\ at' = [at EXCEPT ![p] = to]
  /\ UNCHANGED <<restarts, mix>>

\* updateClusterStatusInDB: an UPDATE that matches no row does nothing.
SetStatus(c, s) == row' = [row EXCEPT ![c] = IF c \in Present THEN s ELSE @]

\* The UPDATE, or its failure, which is only logged.
TryStatus(c, s) == \/ SetStatus(c, s) /\ UNCHANGED unsaved
                   \/ unsaved' = unsaved \cup {c} /\ UNCHANGED row

\* Rows are inserted in the order of their ids.
Unused == {c \in Ids : row[c] = "none"}
Insert(c, s) ==
  /\ c \in Unused /\ \A d \in Unused : c <= d
  /\ row' = [row EXCEPT ![c] = s]

-----------------------------------------------------------------------------
(* POST /clusters: the row, then the goroutine that verifies it.           *)

Add(p) ==
  /\ Goto(p, "idle", "again")
  /\ \E c \in Ids : Insert(c, "pending") /\ target' = [target EXCEPT ![p] = c]
  /\ UNCHANGED <<cacheVars, runRow, mode, unsaved>>

-----------------------------------------------------------------------------
(* getOrCreateClient, and verifyClusterConnection from "again" on.         *)

\* Details and health load the row first; the others go straight to the map.
Open(p) ==
  /\ Goto(p, "idle", "look")
  /\ \E c \in Present : target' = [target EXCEPT ![p] = c]
  /\ UNCHANGED <<cacheVars, rowVars, mode>>

Look(p) ==
  /\ Goto(p, "look", "settle")
  /\ Load(p, target[p])
  /\ UNCHANGED <<rowVars, target, mode>>

\* With a client: the answer, or for /health one more check of it.
Served(p) == IF p \in Healths THEN "check" ELSE "done"

Found(p) ==
  /\ p \notin Execs /\ Hit(p)
  /\ Goto(p, "settle", Served(p))
  /\ Settle(p, target[p])
  /\ UNCHANGED <<rowVars, target, mode>>

Missed(p) ==
  /\ p \notin Execs /\ ~Hit(p)
  /\ Goto(p, "settle", "fetch")
  /\ Settle(p, target[p])
  /\ UNCHANGED <<rowVars, target, mode>>

\* fetchClusterFromDB
Fetch(p) ==
  /\ \/ target[p] \in Present /\ Goto(p, "fetch", "again")
     \/ Goto(p, "fetch", "done")      \* not found, or the query fails
  /\ UNCHANGED <<cacheVars, rowVars, target, mode>>

\* RegisterClusterFromConfig looks without the lock ...
LookAgain(p) ==
  /\ Goto(p, "again", "resettle")
  /\ Load(p, target[p])
  /\ UNCHANGED <<rowVars, target, mode>>

FoundAgain(p) ==
  /\ Goto(p, "resettle", IF Hit(p) THEN "probe" ELSE "lock")
  /\ Settle(p, target[p])
  /\ UNCHANGED <<rowVars, target, mode>>

\* ... and once more with it.
Registers(p) ==
  /\ Goto(p, "lock", "probe")
  /\ Register(p, target[p])
  /\ UNCHANGED <<rowVars, target, mode>>

\* Slip: a cluster that no client can be made for is only logged.
CannotRegisterQuietly(p) ==
  /\ Goto(p, "lock", "done")
  /\ RegisterFails(p, target[p])
  /\ UNCHANGED <<rowVars, target, mode>>

CannotRegister(p) ==
  /\ Goto(p, "lock", "done")
  /\ RegisterFails(p, target[p])
  /\ TryStatus(target[p], "error")
  /\ UNCHANGED <<target, runRow, mode>>

\* HealthCheck: a closed client fails, an open one may.
Probe(p) ==
  /\ \/ Goto(p, "probe", "refuse")
     \/ seen[p] \notin closed /\ Goto(p, "probe", "accept")
  /\ UNCHANGED <<cacheVars, rowVars, target, mode>>

\* Slip: a status that kubernetes_clusters does not know.
RefuseAsDisconnected(p) ==
  /\ Goto(p, "refuse", "drop")
  /\ SetStatus(target[p], "disconnected")
  /\ UNCHANGED <<cacheVars, target, runRow, mode, unsaved>>

Refuse(p) ==
  /\ Goto(p, "refuse", "drop")
  /\ TryStatus(target[p], "error")
  /\ UNCHANGED <<cacheVars, target, runRow, mode>>

\* The removal names the cluster, not the client that failed.
Drop(p) ==
  /\ Goto(p, "drop", "done")
  /\ Remove(target[p])
  /\ UNCHANGED <<seen, rowVars, target, mode>>

Accept(p) ==
  /\ Goto(p, "accept", Served(p))
  /\ TryStatus(target[p], "connected")
  /\ UNCHANGED <<cacheVars, target, runRow, mode>>

\* GetClusterHealthHandler's own check: the status is set, the client stays.
Check(p) ==
  /\ Goto(p, "check", "done")
  /\ \/ TryStatus(target[p], "error")
     \/ seen[p] \notin closed /\ TryStatus(target[p], "connected")
  /\ UNCHANGED <<cacheVars, target, runRow, mode>>

-----------------------------------------------------------------------------
(* DELETE /clusters/:id                                                    *)

RunsOn(c) == {x \in Execs : runRow[x] # "none" /\ target[x] = c}

\* The running runs are counted; when that fails the handler goes on.
Remover(p) ==
  /\ \E c \in Ids : /\ row[c] # "none"
                    /\ target' = [target EXCEPT ![p] = c]
                    /\ \/ Goto(p, "idle", "remove")
                       \/ /\ \E x \in RunsOn(c) : runRow[x] = "running"
                          /\ Goto(p, "idle", "done")
  /\ UNCHANGED <<cacheVars, rowVars, mode>>

RemoveFromCache(p) ==
  /\ Goto(p, "remove", "delete")
  /\ Remove(target[p])
  /\ UNCHANGED <<seen, rowVars, target, mode>>

\* Slip: the runs of the cluster would not keep the row.
DeleteRowAnyway(p) ==
  /\ Goto(p, "delete", "done")
  /\ row' = [row EXCEPT ![target[p]] = "gone"]
  /\ UNCHANGED <<cacheVars, target, runRow, mode, unsaved>>

\* The runs of a cluster keep its row: cluster_id ... ON DELETE RESTRICT.
DeleteRow(p) ==
  /\ Goto(p, "delete", "done")
  /\ row' = [row EXCEPT ![target[p]] = IF RunsOn(target[p]) = {} THEN "gone" ELSE @]
  /\ UNCHANGED <<cacheVars, target, runRow, mode, unsaved>>

-----------------------------------------------------------------------------
(* Executions                                                              *)

\* resolveExecutionClusterID: the cluster the request names, unchecked, or the
\* oldest connected one, or a placeholder that is connected by decree.
Resolve(x) ==
  /\ Goto(x, "idle", "insert")
  /\ \/ \E c \in Ids : /\ row[c] # "none"
                       /\ target' = [target EXCEPT ![x] = c]
                       /\ row' = row
     \/ \E c \in Connected : /\ \A d \in Connected : c <= d
                             /\ target' = [target EXCEPT ![x] = c]
                             /\ row' = row
     \/ /\ Connected = {}
        /\ \E c \in Ids : /\ Insert(c, "connected")
                          /\ target' = [target EXCEPT ![x] = c]
  /\ UNCHANGED <<cacheVars, runRow, mode, unsaved>>

\* The run's row needs its cluster's.
InsertRun(x) ==
  /\ \/ /\ target[x] \in Present
        /\ Goto(x, "insert", "look")
        /\ runRow' = [runRow EXCEPT ![x] = "running"]
     \/ /\ target[x] \notin Present
        /\ Goto(x, "insert", "done")
        /\ UNCHANGED runRow
  /\ UNCHANGED <<cacheVars, row, target, mode, unsaved>>

Executes(x, from, m) ==
  /\ Goto(x, from, "run")
  /\ mode' = [mode EXCEPT ![x] = m]

\* GetClient for the run's cluster; no client is made for an execution.
Settles(x) ==
  /\ \/ Hit(x) /\ Executes(x, "settle", "live")
     \/ ~Hit(x) /\ Goto(x, "settle", "any") /\ UNCHANGED mode
  /\ Settle(x, target[x])
  /\ UNCHANGED <<rowVars, target>>

\* findAnyConnectedCluster: any one of the connected rows, if it has a client.
AnyCluster(x) ==
  \/ /\ \E c \in Connected : Load(x, c)
     /\ Goto(x, "any", "anyload")
     /\ UNCHANGED <<rowVars, target, mode>>
  \/ /\ Connected = {}
     /\ Executes(x, "any", "dry")
     /\ UNCHANGED <<cacheVars, rowVars, target>>

SettlesForAny(x) ==
  /\ Executes(x, "anyload", IF Hit(x) THEN "live" ELSE "dry")
  /\ \E c \in Ids : (seen[x] # Nil => c = of[seen[x]]) /\ Settle(x, c)
  /\ UNCHANGED <<rowVars, target>>

RunEnds(x) ==
  /\ Goto(x, "run", "done")
  /\ runRow' = [runRow EXCEPT ![x] = "over"]
  /\ UNCHANGED <<cacheVars, row, target, mode, unsaved>>

-----------------------------------------------------------------------------
(* The end of the process                                                  *)

Shutdown ==
  /\ restarts < MaxRestarts /\ mix \cap Deploys # {}
  /\ CloseClients
  /\ UNCHANGED <<rowVars, at, target, mode, restarts, mix>>

ShutdownDrops ==
  /\ DropClients
  /\ UNCHANGED <<rowVars, at, target, mode, restarts, mix>>

\* A crash, or the end of a shutdown: what was in flight is lost.
Restart ==
  /\ restarts < MaxRestarts /\ mix \cap Deploys # {}
  /\ restarts' = restarts + 1
  /\ ForgetClients
  /\ at' = [p \in Actors |-> IF at[p] \in {"idle", "done"} THEN at[p] ELSE "lost"]
  /\ UNCHANGED <<rowVars, target, mode, mix>>

LooksUp(p) == \/ Look(p) \/ Found(p) \/ Missed(p) \/ Fetch(p)
              \/ LookAgain(p) \/ FoundAgain(p) \/ Registers(p)
              \/ CannotRegister(p) \/ Probe(p) \/ Refuse(p) \/ Drop(p)
              \/ Accept(p) \/ Check(p)

Deletion(p) == Remover(p) \/ RemoveFromCache(p) \/ DeleteRow(p)

FindsCluster(x) == \/ Resolve(x) \/ InsertRun(x) \/ Settles(x) \/ AnyCluster(x)
                   \/ SettlesForAny(x)

\* The goroutine and the handlers go on; CloseAll comes to its end.
ClustersFairness ==
  /\ \A p \in Adds : WF_clusterVars(LooksUp(p))
  /\ WF_clusterVars(ShutdownDrops)
=============================================================================
