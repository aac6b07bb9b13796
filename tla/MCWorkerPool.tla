---------------------------- MODULE MCWorkerPool ----------------------------
(***************************************************************************)
(* Small instances of WorkerPool for TLC.                                  *)
(***************************************************************************)
EXTENDS WorkerPool, TLC

(* Sets of disturbances. *)
MCNoFaults  == {}
MCNoRedis   == {"noRedis"}
MCNoExpiry  == {"crash", "redis", "slowStop", "noRedis"}
MCAllFaults == FaultKind

(* Runs, workers and callers are interchangeable; not under liveness.      *)
MCSymmetry == Permutations(Runs) \cup Permutations(Workers) \cup Permutations(Clients)
=============================================================================
