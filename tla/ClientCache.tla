----------------------------- MODULE ClientCache -----------------------------
(***************************************************************************)
(* kubernetes.ClientManager: the clients of the clusters one process is    *)
(* connected to.  The sync.Map is read without a lock; the mutex only      *)
(* orders registrations and removals, so each of these is one step and a   *)
(* lookup is two: it loads an entry, and later asks whether the client it  *)
(* has loaded is closed.                                                   *)
(*                                                                         *)
(* The operators here are the operations of the manager for a caller p;    *)
(* Clusters lets its requests call them.                                   *)
(***************************************************************************)
EXTENDS Naturals, FiniteSets

CONSTANTS
  Ids,          (* rows kubernetes_clusters may hold, in the order of        *)
                (* created_at                                                *)
  Callers,      (* whoever looks a client up                                 *)
  MaxClients    (* BOUND: clients made in one behaviour                      *)

ASSUME ClientCacheAssumption ==
  /\ Ids \subseteq Nat \ {0}
  /\ MaxClients \in Nat

Clients == 1..MaxClients
Nil     == 0              \* no client

VARIABLES
  cache,     (* ClientManager.clients: the client of a cluster, or Nil       *)
  default,   (* ClientManager.defaultClient                                  *)
  closed,    (* ClusterClient.closed: the clients that were closed           *)
  of,        (* ClusterClient.clusterID, 0 for a client not made yet         *)
  seen,      (* the client a caller holds                                    *)
  closing    (* CloseAll: "no", "closed" between closing and deleting, "yes" *)

cacheVars == <<cache, default, closed, of, seen, closing>>

CacheTypeOK ==
  /\ cache \in [Ids -> Clients \cup {Nil}]
  /\ default \in Clients \cup {Nil}
  /\ closed \subseteq Clients
  /\ of \in [Clients -> Ids \cup {0}]
  /\ seen \in [Callers -> Clients \cup {Nil}]
  /\ closing \in {"no", "closed", "yes"}

\* A manager that has a client for each of the clusters 1..n.
CacheInit(n) ==
  /\ cache = [c \in Ids |-> IF c <= n THEN c ELSE Nil]
  /\ default = IF n = 0 THEN Nil ELSE 1
  /\ closed = {}
  /\ of = [k \in Clients |-> IF k <= n THEN k ELSE 0]
  /\ seen = [p \in Callers |-> Nil]
  /\ closing = "no"

-----------------------------------------------------------------------------
(* Lookups take no lock.                                                   *)

\* GetClient, first half: clients.Load.
Load(p, c) ==
  /\ seen' = [seen EXCEPT ![p] = cache[c]]
  /\ UNCHANGED <<cache, default, closed, of, closing>>

Hit(p) == seen[p] # Nil /\ seen[p] \notin closed

\* GetClient, second half: a closed client is deleted from the map, by its key.
Settle(p, c) ==
  /\ cache' = [cache EXCEPT ![c] = IF seen[p] \in closed THEN Nil ELSE @]
  /\ seen' = [seen EXCEPT ![p] = IF @ \in closed THEN Nil ELSE @]
  /\ UNCHANGED <<default, closed, of, closing>>

-----------------------------------------------------------------------------
(* Registrations and removals hold the mutex.                              *)

MutexFree == closing # "closed"

Fresh == {k \in Clients : of[k] = 0}

\* A new client is stored; the first one becomes the default.
Store(p, c) ==
  \E k \in Fresh :
    /\ \A j \in Fresh : k <= j
    /\ cache' = [cache EXCEPT ![c] = k]
    /\ of' = [of EXCEPT ![k] = c]
    /\ seen' = [seen EXCEPT ![p] = k]
    /\ default' = IF default = Nil THEN k ELSE default

\* Slip: the second look at the map, under the mutex, is left out.
RegisterUnchecked(p, c) ==
  /\ MutexFree
  /\ Store(p, c)
  /\ UNCHANGED <<closed, closing>>

\* RegisterClusterFromConfig under the mutex: an open client is returned as it
\* is, otherwise a new one is stored.
Register(p, c) ==
  /\ MutexFree
  /\ \/ /\ cache[c] # Nil /\ cache[c] \notin closed
        /\ seen' = [seen EXCEPT ![p] = cache[c]]
        /\ UNCHANGED <<cache, default, of>>
     \/ /\ cache[c] = Nil \/ cache[c] \in closed
        /\ Store(p, c)
  /\ UNCHANGED <<closed, closing>>

\* The same, when no client can be made of the stored certificates.
RegisterFails(p, c) ==
  /\ MutexFree
  /\ cache[c] = Nil \/ cache[c] \in closed
  /\ cache' = [cache EXCEPT ![c] = Nil]
  /\ seen' = [seen EXCEPT ![p] = Nil]
  /\ UNCHANGED <<default, closed, of, closing>>

\* Slip: the client is closed but its entry stays.
RemoveKeepingEntry(c) ==
  /\ MutexFree
  /\ closed' = closed \cup ({cache[c]} \ {Nil})
  /\ default' = IF default # Nil /\ of[default] = c THEN Nil ELSE default
  /\ UNCHANGED <<cache, of, closing>>

\* RemoveCluster: the entry goes first, then the client is closed; a default of
\* that cluster is cleared, whichever client of it that is.
Remove(c) ==
  /\ MutexFree
  /\ cache' = [cache EXCEPT ![c] = Nil]
  /\ closed' = closed \cup ({cache[c]} \ {Nil})
  /\ default' = IF cache[c] # Nil /\ default # Nil /\ of[default] = c
                THEN Nil ELSE default
  /\ UNCHANGED <<of, closing>>

\* CloseAll closes each client before it deletes the entry.
CloseClients ==
  /\ closing = "no"
  /\ closing' = "closed"
  /\ closed' = closed \cup ({cache[c] : c \in Ids} \ {Nil})
  /\ UNCHANGED <<cache, default, of, seen>>

DropClients ==
  /\ closing = "closed"
  /\ closing' = "yes"
  /\ cache' = [c \in Ids |-> Nil]
  /\ default' = Nil
  /\ UNCHANGED <<closed, of, seen>>

\* A new process starts with an empty manager.
ForgetClients ==
  /\ cache' = [c \in Ids |-> Nil]
  /\ default' = Nil
  /\ closing' = "no"
  /\ seen' = [p \in Callers |-> Nil]
  /\ UNCHANGED <<closed, of>>

-----------------------------------------------------------------------------
(* A client that can be reached through the manager, by its cluster or as  *)
(* the default, is open, except while CloseAll is at work: whatever        *)
(* lookups, registrations, removals and failed health checks have met.     *)
(* client.go:314-611                                                       *)
ReachableOpen ==
  closing # "closed" =>
    /\ \A c \in Ids : cache[c] \notin closed
    /\ default \notin closed

(* The map never goes from one open client of a cluster to another: those  *)
(* who register a cluster at the same time end up with the same client     *)
(* (the second look under the mutex, client.go:432-437).                   *)
OneClientForAll ==
  [][\A c \in Ids :
       cache[c] # Nil /\ cache[c] \notin closed /\ cache'[c] # cache[c]
         => cache'[c] = Nil]_cacheVars
=============================================================================
