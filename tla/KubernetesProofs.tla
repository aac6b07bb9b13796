--------------------------- MODULE KubernetesProofs ---------------------------
(***************************************************************************)
(* Theorems of Kubernetes for every set of clusters, requests and runs:    *)
(* reachable clients are open, a cluster has one client for all, a run     *)
(* keeps its cluster, a run that cleans up leaves no pod, pods are         *)
(* bounded, and a verdict on address blocks is Kubernetes' own.            *)
(*                                                                         *)
(* KubInv is inductive.  Of the clients it says whose they are; of the     *)
(* executions that those at work have a run, and the run its cluster's     *)
(* row; PodInv (StepResourcesProofs) is about what they create there.      *)
(***************************************************************************)
EXTENDS Kubernetes, StepResourcesProofs

(* A cached client is its cluster's; whatever is the default, closed or    *)
(* held by a caller has been made; what the manager leads to is open.      *)
CacheInv ==
  /\ cache \in [Ids -> Clients \cup {Nil}]
  /\ default \in Clients \cup {Nil}
  /\ closed \subseteq Clients
  /\ of \in [Clients -> Ids \cup {0}]
  /\ seen \in [Callers -> Clients \cup {Nil}]
  /\ \A c \in Ids : cache[c] # Nil => of[cache[c]] = c
  /\ default # Nil => of[default] # 0
  /\ \A k \in closed : of[k] # 0
  /\ \A p \in Callers : seen[p] # Nil => of[seen[p]] # 0
  /\ ReachableOpen

(* Whoever is at work knows its cluster.                                   *)
ActorInv ==
  /\ row \in [Ids -> RowStatus]
  /\ at \in [Actors -> Where]
  /\ target \in [Actors -> Ids \cup {0}]
  /\ runRow \in [Execs -> {"none", "running", "over"}]
  /\ mode \in [Execs -> {"none", "live", "dry"}]
  /\ \A p \in Actors : at[p] \notin {"idle", "done", "lost"} => target[p] \in Ids

Held == {"pending", "connected", "error"}

(* An execution that looks for a client has its run's row, which needs the *)
(* row of the cluster; one that is live holds a client.                    *)
RunInv ==
  /\ \A x \in Execs : at[x] \notin {"idle", "insert", "done", "lost"} => runRow[x] # "none"
  /\ \A x \in Execs : runRow[x] # "none" =>
       at[x] # "idle" /\ target[x] \in Ids /\ row[target[x]] \in Held
  /\ \A x \in Execs : at[x] = "run" /\ mode[x] = "live" => seen[x] # Nil
  /\ \A x \in Runs : place[x] # "idle" => runRow[x] # "none" /\ home[x] = target[x]

VerdictInv ==
  /\ question \in Questions \cup {NoQuestion}
  /\ question = NoQuestion => verdict = "none"
  /\ verdict # "none" => verdict = Validate(question)

KubInv == CacheInv /\ ActorInv /\ RunInv /\ PodInv

-----------------------------------------------------------------------------
(* The manager.                                                            *)

\* Everything a step may do to it.
CacheStep ==
  \/ UNCHANGED cacheVars
  \/ \E p \in Callers, c \in Ids : \/ Load(p, c) \/ Settle(p, c)
                                   \/ Register(p, c) \/ RegisterFails(p, c)
  \/ \E c \in Ids : Remove(c) /\ UNCHANGED seen
  \/ CloseClients \/ DropClients \/ ForgetClients

(* None of it makes a closed client reachable: a new client is no closed   *)
(* one and in no one's hands, and who removes a client clears its cluster. *)
LEMMA CacheKept ==
  ASSUME CacheInv, CacheStep
  PROVE  CacheInv'
<1> USE ClientCacheAssumption DEF CacheInv, ReachableOpen, Clients, Nil, ClientCacheAssumption
<1>0. 0 \notin Clients /\ 0 \notin Ids
  OBVIOUS
<1>1. CASE UNCHANGED cacheVars
  BY <1>1 DEF cacheVars
<1>2. ASSUME NEW p \in Callers, NEW c \in Ids, Load(p, c) PROVE CacheInv'
  BY <1>2 DEF Load
<1>3. ASSUME NEW p \in Callers, NEW c \in Ids, Settle(p, c) PROVE CacheInv'
  BY <1>3 DEF Settle
<1>4. ASSUME NEW p \in Callers, NEW c \in Ids, Register(p, c) PROVE CacheInv'
  <2>1. CASE UNCHANGED <<cache, default, of>>
    BY <1>4, <2>1 DEF Register, Store
  <2>2. CASE Store(p, c)
    <3>1. PICK k \in Fresh :
            /\ cache' = [cache EXCEPT ![c] = k]
            /\ of' = [of EXCEPT ![k] = c]
            /\ seen' = [seen EXCEPT ![p] = k]
            /\ default' = IF default = Nil THEN k ELSE default
      BY <2>2 DEF Store
    <3>2. k \in Clients /\ of[k] = 0 /\ k \notin closed /\ k # Nil /\ c # 0
      BY <3>1 DEF Fresh
    <3>3. closed' = closed /\ closing' = closing /\ closing # "closed"
      BY <1>4 DEF Register, MutexFree
    <3>4. /\ cache' \in [Ids -> Clients \cup {Nil}]
          /\ default' \in Clients \cup {Nil}
          /\ of' \in [Clients -> Ids \cup {0}]
          /\ seen' \in [Callers -> Clients \cup {Nil}]
      BY <3>1, <3>2
    <3>5. /\ \A d \in Ids : cache'[d] # Nil => of'[cache'[d]] = d
          /\ default' # Nil => of'[default'] # 0
          /\ \A j \in closed : of'[j] # 0
          /\ \A q \in Callers : seen'[q] # Nil => of'[seen'[q]] # 0
      BY <3>1, <3>2
    <3>6. (\A d \in Ids : cache'[d] \notin closed) /\ default' \notin closed
      BY <3>1, <3>2, <3>3
    <3> QED BY <3>3, <3>4, <3>5, <3>6
  <2> QED BY <1>4, <2>1, <2>2 DEF Register
<1>5. ASSUME NEW p \in Callers, NEW c \in Ids, RegisterFails(p, c) PROVE CacheInv'
  BY <1>5 DEF RegisterFails
<1>6. ASSUME NEW c \in Ids, Remove(c), UNCHANGED seen PROVE CacheInv'
  <2> USE <1>0, <1>6 DEF Remove, MutexFree
  <2>1. closed' \subseteq Clients /\ \A k \in closed' : of[k] # 0
    OBVIOUS
  <2>2. /\ \A d \in Ids : cache'[d] \notin closed'
        /\ default' \notin closed'
    OBVIOUS
  <2> QED BY <2>1, <2>2
<1>7. CASE CloseClients
  <2> USE <1>0, <1>7 DEF CloseClients
  <2>1. \A k \in closed' : k \in Clients /\ of[k] # 0
    OBVIOUS
  <2> QED BY <2>1
<1>8. CASE DropClients
  BY <1>0, <1>8 DEF DropClients
<1>9. CASE ForgetClients
  BY <1>0, <1>9 DEF ForgetClients
<1> QED BY <1>1, <1>2, <1>3, <1>4, <1>5, <1>6, <1>7, <1>8, <1>9 DEF CacheStep

(* An open client is only replaced by none.                                *)
LEMMA CacheSettled ==
  ASSUME CacheInv, CacheStep, NEW c \in Ids,
         cache[c] # Nil, cache[c] \notin closed, cache'[c] # cache[c]
  PROVE  cache'[c] = Nil
<1> USE DEF CacheInv
<1>1. ASSUME NEW p \in Callers, NEW d \in Ids, Register(p, d) PROVE cache'[c] = Nil
  BY <1>1 DEF Register, Store
<1> QED BY <1>1
        DEF CacheStep, cacheVars, Load, Settle, RegisterFails, Remove,
            CloseClients, DropClients, ForgetClients
-----------------------------------------------------------------------------
(* The requests and executions.                                            *)

USE DEF Goto, rowVars, Present, Lookers, Actors, stepVars, choiceVars

\* What a step of Clusters keeps besides the manager.
KeepsActors == CacheStep /\ ActorInv' /\ RunInv'

\* A step of a request, or of an execution that looks for a client.
LEMMA RunKept ==
  ASSUME KubInv, UNCHANGED <<runRow, mode, target, seen, place, home>>,
         \A c \in Ids : row[c] \in Held => row'[c] \in Held,
         \A x \in Execs : \/ at'[x] = at[x]
                         \/ /\ at[x] \notin {"idle", "insert", "done", "lost"}
                            /\ at'[x] \notin {"idle", "run"}
  PROVE  RunInv'
  BY DEF KubInv, RunInv

(* Lookups, registrations and health checks.                               *)
LEMMA LooksUpKept ==
  ASSUME KubInv, NEW q \in Lookers, LooksUp(q), UNCHANGED stepVars
  PROVE  KeepsActors
<1> USE ClustersAssumption, KubernetesAssumption
    DEF KubInv, KeepsActors, ClustersAssumption, KubernetesAssumption
<1>1. ASSUME NEW p \in Lookers, Look(p) PROVE KeepsActors
  <2>1. CacheStep
    BY <1>1 DEF ActorInv, CacheStep, cacheVars, Look, Load
  <2>2. ActorInv'
    BY <1>1 DEF ActorInv, Where, RowStatus, Look, Load
  <2>3. RunInv'
    BY <1>1 DEF ActorInv, CacheInv, RunInv, Held, RowStatus, Look, Load
  <2> QED BY <2>1, <2>2, <2>3
<1>2. ASSUME NEW p \in Lookers, Found(p) PROVE KeepsActors
  <2>1. CacheStep
    BY <1>2 DEF ActorInv, CacheStep, cacheVars, Found, Settle, Served, Hit
  <2>2. ActorInv'
    BY <1>2 DEF ActorInv, Where, RowStatus, Found, Settle, Served, Hit
  <2>3. RunInv'
    BY <1>2
    DEF ActorInv, CacheInv, RunInv, Held, RowStatus, Found, Settle, Served, Hit
  <2> QED BY <2>1, <2>2, <2>3
<1>3. ASSUME NEW p \in Lookers, Missed(p) PROVE KeepsActors
  <2>1. CacheStep
    BY <1>3 DEF ActorInv, CacheStep, cacheVars, Missed, Settle, Hit
  <2>2. ActorInv'
    BY <1>3 DEF ActorInv, Where, RowStatus, Missed, Settle, Hit
  <2>3. RunInv'
    BY <1>3 DEF ActorInv, CacheInv, RunInv, Held, RowStatus, Missed, Settle, Hit
  <2> QED BY <2>1, <2>2, <2>3
<1>4. ASSUME NEW p \in Lookers, Fetch(p) PROVE KeepsActors
  <2>1. CacheStep
    BY <1>4 DEF ActorInv, CacheStep, cacheVars, Fetch
  <2>2. ActorInv'
    BY <1>4 DEF ActorInv, Where, RowStatus, Fetch
  <2>3. /\ UNCHANGED <<runRow, mode, target, seen, place, home>>
        /\ \A c \in Ids : row[c] \in Held => row'[c] \in Held
        /\ \A x \in Execs : \/ at'[x] = at[x]
                           \/ /\ at[x] \notin {"idle", "insert", "done", "lost"}
                              /\ at'[x] \notin {"idle", "run"}
    BY <1>4 DEF ActorInv, Held, RowStatus, cacheVars, Fetch
  <2>4. RunInv'
    BY <2>3, RunKept
  <2> QED BY <2>1, <2>2, <2>4
<1>5. ASSUME NEW p \in Lookers, LookAgain(p) PROVE KeepsActors
  <2>1. CacheStep
    BY <1>5 DEF ActorInv, CacheStep, cacheVars, LookAgain, Load
  <2>2. ActorInv'
    BY <1>5 DEF ActorInv, Where, RowStatus, LookAgain, Load
  <2>3. RunInv'
    BY <1>5 DEF ActorInv, CacheInv, RunInv, Held, RowStatus, LookAgain, Load
  <2> QED BY <2>1, <2>2, <2>3
<1>6. ASSUME NEW p \in Lookers, FoundAgain(p) PROVE KeepsActors
  <2>1. CacheStep
    BY <1>6 DEF ActorInv, CacheStep, cacheVars, FoundAgain, Settle, Hit
  <2>2. ActorInv'
    BY <1>6 DEF ActorInv, Where, RowStatus, FoundAgain, Settle, Hit
  <2>3. RunInv'
    BY <1>6
    DEF ActorInv, CacheInv, RunInv, Held, RowStatus, FoundAgain, Settle, Hit
  <2> QED BY <2>1, <2>2, <2>3
<1>7. ASSUME NEW p \in Lookers, Registers(p) PROVE KeepsActors
  <2>1. CacheStep
    BY <1>7 DEF ActorInv, CacheStep, cacheVars, Registers, Register, Store
  <2>2. ActorInv'
    BY <1>7 DEF ActorInv, Where, RowStatus, Registers, Register, Store
  <2>3. RunInv'
    BY <1>7
    DEF ActorInv, CacheInv, RunInv, Held, RowStatus, Registers, Register, Store
  <2> QED BY <2>1, <2>2, <2>3
<1>8. ASSUME NEW p \in Lookers, CannotRegister(p) PROVE KeepsActors
  <2>1. CacheStep
    BY <1>8
    DEF ActorInv, CacheStep, cacheVars, CannotRegister, RegisterFails,
        SetStatus, TryStatus
  <2>2. ActorInv'
    BY <1>8
    DEF ActorInv, Where, RowStatus, CannotRegister, RegisterFails, SetStatus,
        TryStatus
  <2>3. RunInv'
    BY <1>8
    DEF ActorInv, CacheInv, RunInv, Held, RowStatus, CannotRegister,
        RegisterFails, SetStatus, TryStatus
  <2> QED BY <2>1, <2>2, <2>3
<1>9. ASSUME NEW p \in Lookers, Probe(p) PROVE KeepsActors
  <2>1. CacheStep
    BY <1>9 DEF ActorInv, CacheStep, cacheVars, Probe
  <2>2. ActorInv'
    BY <1>9 DEF ActorInv, Where, RowStatus, Probe
  <2>3. /\ UNCHANGED <<runRow, mode, target, seen, place, home>>
        /\ \A c \in Ids : row[c] \in Held => row'[c] \in Held
        /\ \A x \in Execs : \/ at'[x] = at[x]
                           \/ /\ at[x] \notin {"idle", "insert", "done", "lost"}
                              /\ at'[x] \notin {"idle", "run"}
    BY <1>9 DEF ActorInv, Held, RowStatus, cacheVars, Probe
  <2>4. RunInv'
    BY <2>3, RunKept
  <2> QED BY <2>1, <2>2, <2>4
<1>10. ASSUME NEW p \in Lookers, Refuse(p) PROVE KeepsActors
  <2>1. CacheStep
    BY <1>10 DEF ActorInv, CacheStep, cacheVars, Refuse, SetStatus, TryStatus
  <2>2. ActorInv'
    BY <1>10 DEF ActorInv, Where, RowStatus, Refuse, SetStatus, TryStatus
  <2>3. /\ UNCHANGED <<runRow, mode, target, seen, place, home>>
        /\ \A c \in Ids : row[c] \in Held => row'[c] \in Held
        /\ \A x \in Execs : \/ at'[x] = at[x]
                           \/ /\ at[x] \notin {"idle", "insert", "done", "lost"}
                              /\ at'[x] \notin {"idle", "run"}
    BY <1>10
    DEF ActorInv, Held, RowStatus, cacheVars, Refuse, SetStatus, TryStatus
  <2>4. RunInv'
    BY <2>3, RunKept
  <2> QED BY <2>1, <2>2, <2>4
<1>11. ASSUME NEW p \in Lookers, Drop(p) PROVE KeepsActors
  <2>1. CacheStep
    BY <1>11 DEF ActorInv, CacheStep, cacheVars, Drop, Remove
  <2>2. ActorInv'
    BY <1>11 DEF ActorInv, Where, RowStatus, Drop, Remove
  <2>3. /\ UNCHANGED <<runRow, mode, target, seen, place, home>>
        /\ \A c \in Ids : row[c] \in Held => row'[c] \in Held
        /\ \A x \in Execs : \/ at'[x] = at[x]
                           \/ /\ at[x] \notin {"idle", "insert", "done", "lost"}
                              /\ at'[x] \notin {"idle", "run"}
    BY <1>11 DEF ActorInv, Held, RowStatus, cacheVars, Drop, Remove
  <2>4. RunInv'
    BY <2>3, RunKept
  <2> QED BY <2>1, <2>2, <2>4
<1>12. ASSUME NEW p \in Lookers, Accept(p) PROVE KeepsActors
  <2>1. CacheStep
    BY <1>12
    DEF ActorInv, CacheStep, cacheVars, Accept, Served, SetStatus, TryStatus
  <2>2. ActorInv'
    BY <1>12 DEF ActorInv, Where, RowStatus, Accept, Served, SetStatus, TryStatus
  <2>3. /\ UNCHANGED <<runRow, mode, target, seen, place, home>>
        /\ \A c \in Ids : row[c] \in Held => row'[c] \in Held
        /\ \A x \in Execs : \/ at'[x] = at[x]
                           \/ /\ at[x] \notin {"idle", "insert", "done", "lost"}
                              /\ at'[x] \notin {"idle", "run"}
    BY <1>12
    DEF ActorInv, Held, RowStatus, cacheVars, Accept, Served, SetStatus,
        TryStatus
  <2>4. RunInv'
    BY <2>3, RunKept
  <2> QED BY <2>1, <2>2, <2>4
<1>13. ASSUME NEW p \in Lookers, Check(p) PROVE KeepsActors
  <2>1. CacheStep
    BY <1>13 DEF ActorInv, CacheStep, cacheVars, Check, SetStatus, TryStatus
  <2>2. ActorInv'
    BY <1>13 DEF ActorInv, Where, RowStatus, Check, SetStatus, TryStatus
  <2>3. /\ UNCHANGED <<runRow, mode, target, seen, place, home>>
        /\ \A c \in Ids : row[c] \in Held => row'[c] \in Held
        /\ \A x \in Execs : \/ at'[x] = at[x]
                           \/ /\ at[x] \notin {"idle", "insert", "done", "lost"}
                              /\ at'[x] \notin {"idle", "run"}
    BY <1>13 DEF ActorInv, Held, RowStatus, cacheVars, Check, SetStatus, TryStatus
  <2>4. RunInv'
    BY <2>3, RunKept
  <2> QED BY <2>1, <2>2, <2>4
<1> QED BY <1>1, <1>2, <1>3, <1>4, <1>5, <1>6, <1>7, <1>8, <1>9, <1>10, <1>11,
           <1>12, <1>13 DEF LooksUp

(* A new cluster, a request for one, and a deletion, which leaves the row  *)
(* of a cluster that has runs.                                             *)
LEMMA RequestKept ==
  ASSUME KubInv, \/ \E q \in Adds : Add(q)
                 \/ \E q \in Opens \cup Healths : Open(q)
                 \/ \E q \in Removes : Deletion(q), UNCHANGED stepVars
  PROVE  KeepsActors
<1> USE ClustersAssumption, KubernetesAssumption
    DEF KubInv, KeepsActors, ClustersAssumption, KubernetesAssumption
<1>1. ASSUME NEW p \in Adds, Add(p) PROVE KeepsActors
  <2>1. CacheStep
    BY <1>1 DEF ActorInv, CacheStep, cacheVars, Add, Insert, Unused
  <2>2. ActorInv'
    BY <1>1 DEF ActorInv, Where, RowStatus, Add, Insert, Unused
  <2>3. RunInv'
    BY <1>1
    DEF ActorInv, CacheInv, RunInv, Held, RowStatus, cacheVars, Add, Insert,
        Unused
  <2> QED BY <2>1, <2>2, <2>3
<1>2. ASSUME NEW p \in Opens \cup Healths, Open(p) PROVE KeepsActors
  <2>1. CacheStep
    BY <1>2 DEF ActorInv, CacheStep, cacheVars, Open
  <2>2. ActorInv'
    BY <1>2 DEF ActorInv, Where, RowStatus, Open
  <2>3. RunInv'
    BY <1>2 DEF ActorInv, CacheInv, RunInv, Held, RowStatus, cacheVars, Open
  <2> QED BY <2>1, <2>2, <2>3
<1>3. ASSUME NEW p \in Removes, Remover(p) PROVE KeepsActors
  <2>1. CacheStep
    BY <1>3 DEF ActorInv, CacheStep, cacheVars, Remover
  <2>2. ActorInv'
    BY <1>3 DEF ActorInv, Where, RowStatus, Remover
  <2>3. RunInv'
    BY <1>3 DEF ActorInv, CacheInv, RunInv, Held, RowStatus, cacheVars, Remover
  <2> QED BY <2>1, <2>2, <2>3
<1>4. ASSUME NEW p \in Removes, RemoveFromCache(p) PROVE KeepsActors
  <2>1. CacheStep
    BY <1>4 DEF ActorInv, CacheStep, cacheVars, RemoveFromCache, Remove
  <2>2. ActorInv'
    BY <1>4 DEF ActorInv, Where, RowStatus, RemoveFromCache, Remove
  <2>3. RunInv'
    BY <1>4
    DEF ActorInv, CacheInv, RunInv, Held, RowStatus, cacheVars, RemoveFromCache,
        Remove
  <2> QED BY <2>1, <2>2, <2>3
<1>5. ASSUME NEW p \in Removes, DeleteRow(p) PROVE KeepsActors
  <2>1. CacheStep
    BY <1>5 DEF ActorInv, CacheStep, cacheVars, DeleteRow, RunsOn
  <2>2. ActorInv'
    BY <1>5 DEF ActorInv, Where, RowStatus, DeleteRow, RunsOn
  <2>3. RunInv'
    BY <1>5
    DEF ActorInv, CacheInv, RunInv, Held, RowStatus, cacheVars, DeleteRow,
        RunsOn
  <2> QED BY <2>1, <2>2, <2>3
<1> QED BY <1>1, <1>2, <1>3, <1>4, <1>5 DEF Deletion

(* An execution finds its cluster and its client.                          *)
LEMMA FindsClusterKept ==
  ASSUME KubInv, NEW y \in Execs, FindsCluster(y), UNCHANGED stepVars
  PROVE  KeepsActors
<1> USE ClustersAssumption, KubernetesAssumption
    DEF KubInv, KeepsActors, ClustersAssumption, KubernetesAssumption
<1>1. ASSUME NEW p \in Execs, Resolve(p) PROVE KeepsActors
  <2>1. CacheStep
    BY <1>1 DEF ActorInv, CacheStep, cacheVars, Resolve, Insert, Unused, Connected
  <2>2. ActorInv'
    BY <1>1 DEF ActorInv, Where, RowStatus, Resolve, Insert, Unused, Connected
  <2>3. RunInv'
    BY <1>1
    DEF ActorInv, CacheInv, RunInv, Held, RowStatus, cacheVars, Resolve, Insert,
        Unused, Connected
  <2> QED BY <2>1, <2>2, <2>3
<1>2. ASSUME NEW p \in Execs, InsertRun(p) PROVE KeepsActors
  <2>1. CacheStep
    BY <1>2 DEF ActorInv, CacheStep, cacheVars, InsertRun
  <2>2. ActorInv'
    BY <1>2 DEF ActorInv, Where, RowStatus, InsertRun
  <2>3. RunInv'
    BY <1>2 DEF ActorInv, CacheInv, RunInv, Held, RowStatus, cacheVars, InsertRun
  <2> QED BY <2>1, <2>2, <2>3
<1>3. ASSUME NEW p \in Execs, Settles(p) PROVE KeepsActors
  <2>1. CacheStep
    BY <1>3 DEF ActorInv, CacheStep, cacheVars, Settles, Settle, Hit, Executes
  <2>2. ActorInv'
    BY <1>3 DEF ActorInv, Where, RowStatus, Settles, Settle, Hit, Executes
  <2>3. RunInv'
    BY <1>3
    DEF ActorInv, CacheInv, RunInv, Held, RowStatus, cacheVars, Settles, Settle,
        Hit, Executes
  <2> QED BY <2>1, <2>2, <2>3
<1>4. ASSUME NEW p \in Execs, AnyCluster(p) PROVE KeepsActors
  <2>1. CacheStep
    BY <1>4
    DEF ActorInv, CacheStep, cacheVars, AnyCluster, Load, Connected, Executes
  <2>2. ActorInv'
    BY <1>4 DEF ActorInv, Where, RowStatus, AnyCluster, Load, Connected, Executes
  <2>3. RunInv'
    BY <1>4
    DEF ActorInv, CacheInv, RunInv, Held, RowStatus, cacheVars, AnyCluster,
        Load, Connected, Executes
  <2> QED BY <2>1, <2>2, <2>3
<1>5. ASSUME NEW p \in Execs, SettlesForAny(p) PROVE KeepsActors
  <2>1. CacheStep
    BY <1>5
    DEF ActorInv, CacheStep, cacheVars, SettlesForAny, Settle, Hit, Executes
  <2>2. ActorInv'
    BY <1>5 DEF ActorInv, Where, RowStatus, SettlesForAny, Settle, Hit, Executes
  <2>3. RunInv'
    BY <1>5
    DEF ActorInv, CacheInv, RunInv, Held, RowStatus, cacheVars, SettlesForAny,
        Settle, Hit, Executes
  <2> QED BY <2>1, <2>2, <2>3
<1> QED BY <1>1, <1>2, <1>3, <1>4, <1>5 DEF FindsCluster

(* The end of the process, and of a run.                                   *)
LEMMA ShutdownKept ==
  ASSUME KubInv, Shutdown \/ ShutdownDrops \/ \E y \in Execs : RunEnds(y), UNCHANGED stepVars
  PROVE  KeepsActors
<1> USE ClustersAssumption, KubernetesAssumption
    DEF KubInv, KeepsActors, ClustersAssumption, KubernetesAssumption
<1>1. CASE Shutdown
  <2>1. CacheStep
    BY <1>1 DEF ActorInv, CacheStep, cacheVars, Shutdown, CloseClients
  <2>2. ActorInv'
    BY <1>1 DEF ActorInv, Where, RowStatus, Shutdown, CloseClients
  <2>3. RunInv'
    BY <1>1
    DEF ActorInv, CacheInv, RunInv, Held, RowStatus, cacheVars, Shutdown,
        CloseClients
  <2> QED BY <2>1, <2>2, <2>3
<1>2. CASE ShutdownDrops
  <2>1. CacheStep
    BY <1>2 DEF ActorInv, CacheStep, cacheVars, ShutdownDrops, DropClients
  <2>2. ActorInv'
    BY <1>2 DEF ActorInv, Where, RowStatus, ShutdownDrops, DropClients
  <2>3. RunInv'
    BY <1>2
    DEF ActorInv, CacheInv, RunInv, Held, RowStatus, cacheVars, ShutdownDrops,
        DropClients
  <2> QED BY <2>1, <2>2, <2>3
<1>3. ASSUME NEW p \in Execs, RunEnds(p) PROVE KeepsActors
  <2>1. CacheStep
    BY <1>3 DEF ActorInv, CacheStep, cacheVars, RunEnds
  <2>2. ActorInv'
    BY <1>3 DEF ActorInv, Where, RowStatus, RunEnds
  <2>3. RunInv'
    BY <1>3 DEF ActorInv, CacheInv, RunInv, Held, RowStatus, cacheVars, RunEnds
  <2> QED BY <2>1, <2>2, <2>3
<1> QED BY <1>1, <1>2, <1>3

(* A restart loses whatever was at work, of both parts.                    *)
LEMMA RestartKept ==
  ASSUME KubInv, Restart, StepsLost
  PROVE  KeepsActors
<1> USE ClustersAssumption, KubernetesAssumption
    DEF KubInv, KeepsActors, ClustersAssumption, KubernetesAssumption
<1>1. CacheStep
  BY DEF CacheStep, Restart
<1>2. ActorInv'
  BY DEF ActorInv, Where, Restart
<1>3. RunInv'
  BY DEF ActorInv, RunInv, Restart, StepsLost
<1> QED BY <1>1, <1>2, <1>3

-----------------------------------------------------------------------------
(* The whole specification.                                                *)

\* At the start there are rows, and no clients.
LEMMA KubInit ==
  ASSUME Init
  PROVE  KubInv
<1> USE ClientCacheAssumption, ClustersAssumption, KubernetesAssumption
    DEF ClientCacheAssumption, ClustersAssumption, KubernetesAssumption, Init
<1>1. CacheInv
  <2> DEFINE n == Established[mix]
  <2>1. n \in 0..MaxClients /\ 1..n \subseteq Ids /\ CacheInit(n)
    BY DEF ClustersInit
  <2> HIDE DEF n
  <2>2. \A c \in Ids : c <= n => c \in Clients /\ of[c] = c /\ c # Nil
    BY <2>1 DEF CacheInit, Clients, Nil
  <2>3. default \in {0, 1} /\ (default # Nil => 1 \in Clients /\ of[1] = 1)
    BY <2>1 DEF CacheInit, Clients, Nil
  <2>4. /\ cache \in [Ids -> Clients \cup {Nil}]
        /\ \A c \in Ids : cache[c] # Nil => of[cache[c]] = c
    BY <2>1, <2>2 DEF CacheInit
  <2>5. of \in [Clients -> Ids \cup {0}]
    BY <2>1 DEF CacheInit, Clients
  <2>6. /\ closed = {} /\ seen \in [Callers -> Clients \cup {Nil}]
        /\ \A p \in Callers : seen[p] = Nil
    BY <2>1 DEF CacheInit
  <2> QED BY <2>3, <2>4, <2>5, <2>6 DEF CacheInv, ReachableOpen, Nil
<1>2. ActorInv
  BY DEF ActorInv, ClustersInit, RowStatus, Where
<1>3. RunInv
  BY DEF RunInv, ClustersInit, StepsInit
<1> QED BY <1>1, <1>2, <1>3, PodInvInit DEF KubInv

\* What a step is for the parts.
LEMMA NextCases ==
  ASSUME Next
  PROVE  \/ /\ \/ \E p \in Adds : Add(p)
               \/ \E p \in Opens \cup Healths : Open(p)
               \/ \E p \in Removes : Deletion(p)
            /\ UNCHANGED stepVars
         \/ (\E p \in Lookers : LooksUp(p)) /\ UNCHANGED stepVars
         \/ (\E x \in Execs : FindsCluster(x)) /\ UNCHANGED stepVars
         \/ /\ Shutdown \/ ShutdownDrops \/ \E x \in Execs : RunEnds(x)
            /\ UNCHANGED stepVars
         \/ Restart /\ StepsLost
         \/ \E r \in Runs : Launch(r)
         \/ PodStep /\ UNCHANGED clusterVars
<1>1. ASSUME NEW t \in Stops, Stopping(t) PROVE PodStep /\ UNCHANGED clusterVars
  <2>1. HasClient(StopOf[t]) \in BOOLEAN
    BY DEF HasClient
  <2> QED BY <1>1, <2>1 DEF Stopping, PodStep
<1>2. ASSUME NEW r \in Runs, Finish(r)
      PROVE  (\E x \in Execs : RunEnds(x)) /\ UNCHANGED stepVars
  BY <1>2, KubernetesAssumption DEF Finish, KubernetesAssumption
<1> QED BY <1>1, <1>2 DEF Next, PodStep

(* A live execution comes to the cluster of the client it holds.           *)
LEMMA LaunchKept ==
  ASSUME KubInv, NEW r \in Runs, Launch(r)
  PROVE  KeepsActors /\ PodInv'
<1> USE KubernetesAssumption, ClustersAssumption
    DEF KubernetesAssumption, ClustersAssumption, KubInv, Launch, clusterVars, cacheVars
<1>1. r \in Callers /\ seen[r] # Nil /\ of[seen[r]] \in Sites
  BY DEF RunInv, CacheInv
<1>2. PodInv'
  BY <1>1, PodStartKept
<1>3. CacheStep /\ ActorInv'
  BY DEF CacheStep, ActorInv
<1>4. RunInv'
  <2>1. /\ place' = [place EXCEPT ![r] = "begin"]
        /\ home' = [home EXCEPT ![r] = target[r]]
    BY DEF Start, Goes
  <2>2. place \in [Runs \cup Stops -> RunPlace \cup StopPlace] /\ DOMAIN home = Runs
    BY DEF PodInv, RunPart, ShapeInv
  <2> QED BY <2>1, <2>2 DEF RunInv
<1> QED BY <1>2, <1>3, <1>4 DEF KeepsActors

\* Every step keeps KubInv.
LEMMA KubStep ==
  ASSUME KubInv, Next
  PROVE  CacheStep /\ KubInv'
<1> SUFFICES KeepsActors /\ PodInv'
  BY CacheKept DEF KubInv, KeepsActors
<1>1. ASSUME UNCHANGED stepVars PROVE PodInv'
  BY <1>1, PodInvStays DEF KubInv
<1>2. ASSUME PodStep, UNCHANGED clusterVars PROVE KeepsActors /\ PodInv'
  <2>1. PodInv' /\ home' = home /\ SameIdle
    BY <1>2, PodStepKept, PodStepStays DEF KubInv, PodInv
  <2>2. CacheStep /\ ActorInv' /\ RunInv'
    BY <1>2, <2>1, KubernetesAssumption
    DEF KubInv, CacheStep, ActorInv, RunInv, SameIdle, clusterVars, cacheVars,
        KubernetesAssumption
  <2> QED BY <2>1, <2>2 DEF KeepsActors
<1>3. ASSUME Restart, StepsLost PROVE PodInv'
  BY <1>3, PodsLostKept DEF KubInv
<1> QED BY <1>1, <1>2, <1>3, NextCases, RequestKept, LooksUpKept,
           FindsClusterKept, ShutdownKept, RestartKept, LaunchKept

\* KubInv is about the variables only.
LEMMA KubStays ==
  ASSUME KubInv, UNCHANGED <<clusterVars, stepVars>>
  PROVE  CacheStep /\ KubInv'
<1>1. CacheStep /\ CacheInv'
  BY CacheKept DEF KubInv, CacheStep, clusterVars
<1>2. ActorInv' /\ RunInv'
  BY DEF KubInv, ActorInv, RunInv, clusterVars, cacheVars
<1> QED BY <1>1, <1>2, PodInvStays DEF KubInv

\* KubInv is inductive.
LEMMA KubInvariant == Spec => []KubInv
<1>1. ASSUME KubInv, [Next \/ Asked]_vars PROVE KubInv'
  BY <1>1, KubStep, KubStays DEF Asked, vars
<1> QED BY <1>1, KubInit, PTL DEF Spec

(* Whatever registrations, lookups, failed health checks, deletions and    *)
(* restarts have met, a client that the manager leads to is open, unless   *)
(* CloseAll is at work.                                                    *)
THEOREM NoClosedClientIsReached == Spec => []ReachableOpen
<1>1. KubInv => ReachableOpen
  BY DEF KubInv, CacheInv
<1> QED BY <1>1, KubInvariant, PTL

(* The map never goes from one open client of a cluster to another.        *)
THEOREM ClientsAreShared == Spec => OneClientForAll
<1>1. ASSUME KubInv, [Next \/ Asked]_vars
      PROVE  [\A c \in Ids : cache[c] # Nil /\ cache[c] \notin closed /\ cache'[c] # cache[c]
                => cache'[c] = Nil]_cacheVars
  <2>1. CacheStep
    BY <1>1, KubStep, KubStays DEF Asked, vars
  <2> QED BY <1>1, <2>1, CacheSettled DEF KubInv
<1> QED BY <1>1, KubInvariant, PTL DEF Spec, OneClientForAll

(* A run at work on its own cluster has that cluster's row.                *)
THEOREM RunsKeepTheirCluster == Spec => []RunKeepsCluster
<1>1. KubInv => RunKeepsCluster
  BY KubernetesAssumption
  DEF KubInv, RunInv, Held, RunKeepsCluster, KubernetesAssumption
<1> QED BY <1>1, KubInvariant, PTL

(* The last cleanup leaves no pod of its run.                              *)
THEOREM NoPodIsLeft == Spec => []NothingLeft
<1>1. KubInv => NothingLeft
  BY PodInvSuffices DEF KubInv
<1> QED BY <1>1, KubInvariant, PTL

(* Pods in a namespace that one run alone has used are bounded.            *)
THEOREM PodsAreBounded == Spec => []PodsBounded
<1>1. KubInv => PodsBounded
  BY PodInvSuffices DEF KubInv
<1> QED BY <1>1, KubInvariant, PTL

-----------------------------------------------------------------------------
(* Types.                                                                  *)

\* What KubInv leaves open of TypeOK.
KubTyped ==
  /\ StepsTyped
  /\ closing \in {"no", "closed", "yes"}
  /\ unsaved \subseteq Ids
  /\ restarts \in Nat
  /\ mix \in Mixes

\* The actors are chosen once, and only a restart counts.
LEMMA MixStays ==
  ASSUME Next
  PROVE  mix' = mix /\ restarts' \in {restarts, restarts + 1}
<1>1. ASSUME NEW p, Add(p) \/ Open(p) \/ Deletion(p) PROVE UNCHANGED <<mix, restarts>>
  BY <1>1 DEF Add, Open, Deletion, Remover, RemoveFromCache, DeleteRow
<1>2. ASSUME NEW p, LooksUp(p) PROVE UNCHANGED <<mix, restarts>>
  BY <1>2
  DEF LooksUp, Look, Found, Missed, Fetch, LookAgain, FoundAgain, Registers,
      CannotRegister, Probe, Refuse, Drop, Accept, Check
<1>3. ASSUME NEW x, FindsCluster(x) \/ RunEnds(x) PROVE UNCHANGED <<mix, restarts>>
  BY <1>3
  DEF FindsCluster, Resolve, InsertRun, Settles, AnyCluster, SettlesForAny,
      Executes, RunEnds
<1>4. CASE Shutdown \/ ShutdownDrops
  BY <1>4 DEF Shutdown, ShutdownDrops
<1>5. CASE Restart
  BY <1>5 DEF Restart
<1>6. ASSUME NEW r \in Runs, Launch(r) PROVE UNCHANGED <<mix, restarts>>
  BY <1>6 DEF Launch, clusterVars
<1> QED BY <1>1, <1>2, <1>3, <1>4, <1>5, <1>6, NextCases DEF clusterVars

\* A status that is not saved is that of the cluster an actor is about.
LEMMA UnsavedTyped ==
  ASSUME KubInv, unsaved \subseteq Ids, Next
  PROVE  unsaved' \subseteq Ids
<1>1. ASSUME NEW p \in Lookers, LooksUp(p) PROVE unsaved' \subseteq Ids
  <2>1. at[p] \notin {"idle", "done", "lost"} => target[p] \in Ids
    BY DEF KubInv, ActorInv
  <2> QED BY <1>1, <2>1
          DEF LooksUp, Look, Found, Missed, Fetch, LookAgain, FoundAgain, Registers,
              CannotRegister, Probe, Refuse, Drop, Accept, Check, TryStatus, Goto
<1>2. ASSUME NEW p, Add(p) \/ Open(p) \/ Deletion(p) PROVE unsaved' = unsaved
  BY <1>2 DEF Add, Open, Deletion, Remover, RemoveFromCache, DeleteRow
<1>3. ASSUME NEW x, FindsCluster(x) \/ RunEnds(x) PROVE unsaved' = unsaved
  BY <1>3
  DEF FindsCluster, Resolve, InsertRun, Settles, AnyCluster, SettlesForAny, RunEnds
<1>4. CASE Shutdown \/ ShutdownDrops \/ Restart
  BY <1>4 DEF Shutdown, ShutdownDrops, Restart
<1>5. ASSUME NEW r \in Runs, Launch(r) PROVE unsaved' = unsaved
  BY <1>5 DEF Launch, clusterVars
<1> QED BY <1>1, <1>2, <1>3, <1>4, <1>5, NextCases DEF clusterVars

\* Every step keeps KubTyped.
LEMMA KubTypedStep ==
  ASSUME KubInv, KubTyped, Next
  PROVE  KubTyped'
<1> USE DEF KubTyped
<1>1. closing' \in {"no", "closed", "yes"}
  <2>1. CacheStep
    BY KubStep
  <2> QED BY <2>1
          DEF CacheStep, cacheVars, Load, Settle, Register, RegisterFails, Remove,
              CloseClients, DropClients, ForgetClients
<1>2. restarts' \in Nat /\ mix' \in Mixes /\ unsaved' \subseteq Ids
  BY MixStays, UnsavedTyped
<1>3. StepsTyped'
  <2>1. ASSUME NEW r \in Runs, Launch(r) PROVE StepsTyped'
    <3>1. target[r] \in Sites /\ of[seen[r]] \in Sites
      BY <2>1, KubernetesAssumption, ClustersAssumption
      DEF KubernetesAssumption, ClustersAssumption, KubInv, ActorInv, RunInv,
          CacheInv, Launch
    <3> QED BY <2>1, <3>1, StartTyped DEF Launch
  <2>2. CASE UNCHANGED stepVars
    BY <2>2, StepsTypedStays
  <2> QED BY <2>1, <2>2, NextCases, StepsTypedStep, StepsLostTyped DEF KubInv
<1> QED BY <1>1, <1>2, <1>3

(* Every variable keeps its type: among others, a run starts on clusters   *)
(* that exist, and a deletion in progress is of pods of the experiment.    *)
THEOREM TypesKept == Spec => []TypeOK
<1>1. ASSUME Init PROVE KubTyped
  BY <1>1, StepsTypedInit DEF Init, KubTyped, ClustersInit, CacheInit
<1>2. ASSUME KubInv, KubTyped, [Next \/ Asked]_vars PROVE KubTyped'
  <2>1. CASE UNCHANGED <<clusterVars, stepVars>>
    BY <1>2, <2>1, StepsTypedStays DEF KubTyped, clusterVars, cacheVars
  <2> QED BY <1>2, <2>1, KubTypedStep DEF Asked, vars
<1>3. ASSUME Init PROVE PoliciesTypeOK
  BY <1>3 DEF Init, PoliciesTypeOK
<1>4. ASSUME PoliciesTypeOK, [Next \/ Asked]_vars PROVE PoliciesTypeOK'
  BY <1>4 DEF PoliciesTypeOK, Next, Asked, Answer, Validate, vars, policyVars
<1>5. KubInv /\ KubTyped /\ PoliciesTypeOK => TypeOK
  BY DEF KubInv, KubTyped, StepsTyped, CacheInv, ActorInv, TypeOK, ClustersTypeOK,
         CacheTypeOK
<1> QED BY <1>1, <1>2, <1>3, <1>4, <1>5, KubInvariant, PTL DEF Spec

-----------------------------------------------------------------------------
(* Network policies.                                                       *)

\* A block matches an address as Kubernetes says.
LEMMA BlockMatches ==
  ASSUME NEW q, q.ip # "", NEW peer, PlainPeer(peer, q)
  PROVE  PeerMatches(PeerInfo(peer), q) <=> Admits(peer, q)
<1>1. /\ PeerInfo(peer).block = peer.block /\ PeerInfo(peer).except = peer.except
      /\ PeerInfo(peer).namespace = "" /\ PeerInfo(peer).pods = {}
  BY DEF PeerInfo, PlainPeer
<1>2. \A cidr \in peer.block \cup peer.except : CidrContains(cidr, q.ip) <=> q.ip \in cidr.ips
  BY DEF PlainPeer, CidrContains
<1>3. ~SelectorMatches(PeerInfo(peer), q)
  BY <1>1 DEF SelectorMatches
<1> QED BY <1>1, <1>2, <1>3 DEF PeerMatches, InBlock, Admits

\* Of the natural numbers only 0 is at most 0.
LEMMA NothingBelowZero == \A n \in Nat : n <= 0 => n = 0
  OBVIOUS

\* So does a number and a protocol.
LEMMA PortMatchesNumber ==
  ASSUME NEW q, q.port # 0, q.protocol # "",
         NEW port, ~port.named, port.end = 0, port.protocol # "", q.port \in Nat,
         port.number \in Nat
  PROVE  PortMatches(PortInfo(port), q) <=> Covers(port, q)
<1>1. PortInfo(port).number = port.number /\ PortInfo(port).protocol = port.protocol
  BY DEF PortInfo
<1>2. q.port <= 0 => q.port = 0
  BY NothingBelowZero
<1>3. Covers(port, q) <=> port.protocol = q.protocol /\ port.number \in {0, q.port}
  BY <1>2 DEF Covers
<1> QED BY <1>1, <1>3 DEF PortMatches

\* And so does a rule.
LEMMA RuleMatches ==
  ASSUME NEW q, q.ip # "", q.way \in {"in", "out"},
         q.way = "out" => q.port \in Nat \ {0} /\ q.protocol # "",
         NEW rule, PlainRule(rule, q), \A port \in rule.ports : port.number \in Nat
  PROVE  Allows(rule, q) <=> Passes(rule, q)
<1> DEFINE info == RuleInfo(rule)
<1>1. /\ info.peers = {PeerInfo(peer) : peer \in rule.peers}
      /\ info.ports = {PortInfo(port) : port \in rule.ports}
      /\ info.allowAll <=> rule.peers = {}
  BY DEF RuleInfo
<1>2. \A peer \in rule.peers : PeerMatches(PeerInfo(peer), q) <=> Admits(peer, q)
  BY BlockMatches DEF PlainRule
<1>3. CASE q.way = "out"
  <2>1. \A port \in rule.ports : PortMatches(PortInfo(port), q) <=> Covers(port, q)
    BY <1>3, PortMatchesNumber DEF PlainRule
  <2>2. rule.peers = {} => rule.ports = {}
    BY <1>3 DEF PlainRule
  <2>3. Allows(rule, q) <=> EgressAllows(info, q)
    BY <1>3 DEF Allows
  <2> HIDE DEF info
  <2>4. EgressAllows(info, q) <=>
          \/ rule.peers = {}
          \/ \E peer \in rule.peers :
               Admits(peer, q) /\ (rule.ports = {} \/ \E port \in rule.ports : Covers(port, q))
    <3>1. info.ports = {} <=> rule.ports = {}
      BY <1>1
    <3>2. (\E port \in info.ports : PortMatches(port, q))
            <=> \E port \in rule.ports : Covers(port, q)
      BY <1>1, <2>1
    <3>3. (\E peer \in info.peers : PeerMatches(peer, q))
            <=> \E peer \in rule.peers : Admits(peer, q)
      BY <1>1, <1>2
    <3> QED BY <1>1, <3>1, <3>2, <3>3 DEF EgressAllows
  <2> QED BY <1>3, <2>2, <2>3, <2>4 DEF Passes
<1>4. CASE q.way = "in"
  <2>1. Allows(rule, q) <=> IngressAllows(info, q)
    BY <1>4 DEF Allows
  <2> HIDE DEF info
  <2> QED BY <1>1, <1>2, <1>4, <2>1 DEF IngressAllows, Passes
<1> QED BY <1>3, <1>4

(* To a plain question about an address, what the controller answers is    *)
(* what Kubernetes does.                                                   *)
THEOREM VerdictsAgree == Spec => []VerdictRight
<1>1. ASSUME Init PROVE VerdictInv
  BY <1>1 DEF Init, VerdictInv
<1>2. ASSUME VerdictInv, [Next \/ Asked]_vars PROVE VerdictInv'
  BY <1>2 DEF VerdictInv, Next, Asked, Answer, vars, policyVars
<1>3. ASSUME VerdictInv PROVE VerdictRight
  <2> SUFFICES ASSUME verdict # "none", Plain(question)
               PROVE  verdict = "allowed" <=> Allowed(question)
    BY DEF VerdictRight
  <2>1. question \in Questions /\ verdict = Validate(question)
    BY <1>3 DEF VerdictInv
  <2>2. Selecting(question) = Governing(question)
    BY DEF Selecting, Plain
  <2>3. \A p \in Governing(question) : \A rule \in p.rules :
          Allows(rule, question) <=> Passes(rule, question)
    BY <2>1, RuleMatches, NetworkPoliciesAssumption
    DEF Governing, Plain, NetworkPoliciesAssumption
  <2> QED BY <2>1, <2>2, <2>3 DEF Validate, Allowed
<1> QED BY <1>1, <1>2, <1>3, PTL DEF Spec
===============================================================================
