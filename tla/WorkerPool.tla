------------------------------ MODULE WorkerPool ------------------------------
(***************************************************************************)
(* The worker pool and its processor: how a run that is submitted for      *)
(* background execution travels through the Redis queue and the in-memory  *)
(* channel to a worker, is executed, retried, finished or given up, and    *)
(* what shutdowns and crashes of the process leave behind.                 *)
(*                                                                         *)
(* The order in which the Redis queue hands out runs is the subject of     *)
(* ExperimentQueue; here the queue is a set.  The engine is reduced to     *)
(* what its caller sees: it fails before it has a run, or it executes one  *)
(* and returns (RunLifecycle is the engine in detail).                     *)
(***************************************************************************)
EXTENDS Naturals, Sequences, FiniteSets

CONSTANTS
  Runs,        (* rows of experiment_runs, each of its own experiment        *)
  Workers,     (* worker goroutines                                          *)
  Clients,     (* calls of Submit                                            *)
  ChanCap,     (* capacity of jobCh; NewPool takes twice the workers         *)
  MaxRetries,  (* the pool asks for 3                                        *)
  Resends,     (* redis.Options.MaxRetries: how often the client may send a  *)
               (* command once more, 3                                       *)
  Faults,      (* the disturbances that may occur, a subset of FaultKind     *)
  MaxFaults,   (* BOUND: how many of them in one behaviour                   *)
  MaxBoots,    (* BOUND: how often the process is started                    *)
  None         (* no run                                                     *)

FaultKind == {"crash", "redis", "slowStop", "keyLoss", "noRedis"}

ASSUME PoolAssumption ==
  /\ ChanCap \in Nat \ {0}
  /\ MaxRetries \in Nat
  /\ Resends \in Nat
  /\ Faults \subseteq FaultKind
  /\ MaxFaults \in Nat
  /\ MaxBoots \in Nat
  /\ None \notin Runs

Active   == {"pending", "running"}
Terminal == {"completed", "failed", "cancelled", "timed_out"}

VARIABLES
  row,        (* experiment_runs.status                                      *)
  queue,      (* members of the sorted set experiment:priority_queue         *)
  retries,    (* experiment:worker:retries:{run}                             *)
  proc,       (* the process: "down", "up", "stopping" or "panicked"         *)
  boots,      (* how often it was started                                    *)
  rdb,        (* its Redis: "client", or "nil" if main's Ping failed          *)
  jobCh,      (* Pool.jobCh                                                  *)
  wpc,        (* where each worker is                                        *)
  job,        (* the run it works on                                         *)
  attempt,    (* its attempt at that run, from 0                             *)
  adopted,    (* the engine executes that very run, not a new one            *)
  cpc,        (* where each call of Submit is                                *)
  sub,        (* the run it submits                                          *)
  owed,       (* HISTORY: runs submitted and not finished since              *)
  disturbed,  (* HISTORY: runs whose Redis copy, or holder, a fault took     *)
  submits,    (* HISTORY: how often a run was submitted                      *)
  starts,     (* HISTORY: how often the engine executed for a run            *)
  failures,   (* HISTORY: failed attempts at a run                           *)
  recounts,   (* HISTORY: how often Redis counted one of them once more      *)
  gaveUp,     (* HISTORY: runs given up after too many failures              *)
  faults      (* disturbances so far                                         *)

redisVars   == <<queue, retries>>
procVars    == <<proc, boots, rdb>>
workerVars  == <<wpc, job, attempt, adopted>>
clientVars  == <<cpc, sub>>
historyVars == <<owed, disturbed, submits, starts, failures, recounts, gaveUp>>
vars == <<row, redisVars, procVars, jobCh, workerVars, clientVars, historyVars,
          faults>>

WorkerPC == {"off", "top", "channel", "redis", "wait", "load", "call", "exec",
             "recheck", "exited"}
ClientPC == {"idle", "enqueue", "push", "done", "lost"}

(* The type of every variable; in particular the channel is never longer   *)
(* than its capacity and a worker's attempts never exceed the retries.     *)
TypeOK ==
  /\ row \in [Runs -> Active \cup Terminal]
  /\ queue \subseteq Runs
  /\ retries \in [Runs -> Nat]
  /\ proc \in {"down", "up", "stopping", "panicked"}
  /\ boots \in 0..MaxBoots
  /\ rdb \in {"client", "nil"}
  /\ jobCh \in Seq(Runs) /\ Len(jobCh) <= ChanCap
  /\ wpc \in [Workers -> WorkerPC]
  /\ job \in [Workers -> Runs \cup {None}]
  /\ attempt \in [Workers -> 0..MaxRetries]
  /\ adopted \in [Workers -> BOOLEAN]
  /\ cpc \in [Clients -> ClientPC]
  /\ sub \in [Clients -> Runs \cup {None}]
  /\ owed \subseteq Runs
  /\ disturbed \subseteq Runs
  /\ submits \in [Runs -> Nat]
  /\ starts \in [Runs -> Nat]
  /\ failures \in [Runs -> Nat]
  /\ recounts \in [Runs -> Nat]
  /\ gaveUp \subseteq Runs
  /\ faults \in 0..MaxFaults

Init ==
  /\ row = [r \in Runs |-> "pending"]
  /\ queue = {}
  /\ retries = [r \in Runs |-> 0]
  /\ proc = "down"
  /\ boots = 0
  /\ rdb = "nil"
  /\ jobCh = <<>>
  /\ wpc = [w \in Workers |-> "off"]
  /\ job = [w \in Workers |-> None]
  /\ attempt = [w \in Workers |-> 0]
  /\ adopted = [w \in Workers |-> FALSE]
  /\ cpc = [c \in Clients |-> "idle"]
  /\ sub = [c \in Clients |-> None]
  /\ owed = {}
  /\ disturbed = {}
  /\ submits = [r \in Runs |-> 0]
  /\ starts = [r \in Runs |-> 0]
  /\ failures = [r \in Runs |-> 0]
  /\ recounts = [r \in Runs |-> 0]
  /\ gaveUp = {}
  /\ faults = 0

-----------------------------------------------------------------------------
(* Helpers.                                                                *)

Goto(w, from, to) == wpc[w] = from /\ wpc' = [wpc EXCEPT ![w] = to]

\* A step of a worker that changes nothing else.
Move(w, from, to) ==
  /\ Goto(w, from, to)
  /\ UNCHANGED <<row, redisVars, procVars, jobCh, job, attempt, adopted,
                 clientVars, historyVars, faults>>

ClientGoto(c, from, to) == cpc[c] = from /\ cpc' = [cpc EXCEPT ![c] = to]

Fault(kind) ==
  /\ kind \in Faults
  /\ faults < MaxFaults
  /\ faults' = faults + 1

Running == proc \in {"up", "stopping"}

\* The runs that workers hold.
Held == {job[w] : w \in Workers} \ {None}

\* INCR, whose error is ignored, and which Redis executes more than once if the
\* client does not get the answer and sends it again.
CountFailure(r) ==
  \/ /\ retries' = [retries EXCEPT ![r] = @ + 1]
     /\ UNCHANGED <<recounts, faults>>
  \/ /\ UNCHANGED <<retries, recounts>>
     /\ Fault("redis")
  \/ \E n \in 1..Resends :
       /\ retries' = [retries EXCEPT ![r] = @ + 1 + n]
       /\ recounts' = [recounts EXCEPT ![r] = @ + n]
       /\ Fault("redis")

\* DEL, whose error is ignored.
ClearCount(r) ==
  \/ retries' = [retries EXCEPT ![r] = 0] /\ UNCHANGED faults
  \/ UNCHANGED retries /\ Fault("redis")

-----------------------------------------------------------------------------
(* The process.                                                            *)

\* main: a new pool, started at once, with a Redis client if Redis answers.
\* Redis has kept what it had.
Boot ==
  /\ proc \in {"down", "panicked"}
  /\ boots < MaxBoots
  /\ proc' = "up"
  /\ boots' = boots + 1
  /\ \/ rdb' = "client" /\ UNCHANGED faults
     \/ rdb' = "nil" /\ Fault("noRedis")
  /\ wpc' = [w \in Workers |-> "top"]
  /\ UNCHANGED <<row, redisVars, jobCh, job, attempt, adopted, clientVars,
                 historyVars>>

\* Pool.Stop closes stopCh, and holds startMu while it waits.
StopPool ==
  /\ proc = "up"
  /\ proc' = "stopping"
  /\ UNCHANGED <<row, redisVars, boots, rdb, jobCh, workerVars, clientVars,
                 historyVars, faults>>

\* Everything in the memory of the process goes with it.
Ends(how) ==
  /\ Running
  /\ proc' = how
  /\ rdb' = "nil"
  /\ jobCh' = <<>>
  /\ wpc' = [w \in Workers |-> "off"]
  /\ job' = [w \in Workers |-> None]
  /\ attempt' = [w \in Workers |-> 0]
  /\ adopted' = [w \in Workers |-> FALSE]
  /\ cpc' = [c \in Clients |-> IF cpc[c] \in {"enqueue", "push"} THEN "lost"
                               ELSE cpc[c]]
  /\ disturbed' = disturbed \cup Held
  /\ UNCHANGED <<row, redisVars, boots, sub, owed, submits, starts, failures,
                 recounts, gaveUp>>

\* Stop returns, when the workers have left or after 30 s, and main with it.
Exit ==
  /\ proc = "stopping"
  /\ \/ (\A w \in Workers : wpc[w] = "exited") /\ UNCHANGED faults
     \/ (\E w \in Workers : wpc[w] # "exited") /\ Fault("slowStop")
  /\ Ends("down")

Crash == Fault("crash") /\ Ends("down")

\* A call on the nil Redis client, in a goroutine that nothing recovers.
Panic ==
  /\ rdb = "nil"
  /\ (\E w \in Workers : wpc[w] = "redis") \/ (\E c \in Clients : cpc[c] = "enqueue")
  /\ Ends("panicked")
  /\ UNCHANGED faults

-----------------------------------------------------------------------------
(* Pool.Submit.                                                            *)

\* While Stop holds startMu the caller waits, and is refused afterwards.
Accept(c, r) ==
  /\ proc = "up"
  /\ ClientGoto(c, "idle", "enqueue")
  /\ sub' = [sub EXCEPT ![c] = r]
  /\ UNCHANGED <<row, redisVars, procVars, jobCh, workerVars, historyVars, faults>>

\* Queue.Enqueue; its error is only logged, and may hide a success.
Enqueue(c) ==
  /\ rdb = "client" /\ Running
  /\ ClientGoto(c, "enqueue", "push")
  /\ owed' = owed \cup {sub[c]}
  /\ submits' = [submits EXCEPT ![sub[c]] = @ + 1]
  /\ \/ /\ queue' = queue \cup {sub[c]}
        /\ disturbed' = disturbed \ {sub[c]}
        /\ UNCHANGED faults
     \/ /\ Fault("redis")
        /\ queue' \in {queue, queue \cup {sub[c]}}
        /\ disturbed' = disturbed \cup {sub[c]}
  /\ UNCHANGED <<row, retries, procVars, jobCh, workerVars, sub, starts,
                 failures, recounts, gaveUp>>

\* The reply to ZADD is lost and the client library sends it once more.
EnqueueAgain(c) ==
  /\ rdb = "client" /\ Running
  /\ cpc[c] = "enqueue"
  /\ Fault("redis")
  /\ queue' = queue \cup {sub[c]}
  /\ UNCHANGED <<row, retries, procVars, jobCh, workerVars, clientVars, historyVars>>

\* A full channel is not waited for; the caller is told nothing either way.
Push(c) ==
  /\ Running
  /\ ClientGoto(c, "push", "done")
  /\ jobCh' = IF Len(jobCh) < ChanCap THEN Append(jobCh, sub[c]) ELSE jobCh
  /\ UNCHANGED <<row, redisVars, procVars, workerVars, sub, historyVars, faults>>

-----------------------------------------------------------------------------
(* Pool.worker.                                                            *)

CheckStop(w) == Move(w, "top", IF proc = "stopping" THEN "exited" ELSE "channel")

Take(w, r) ==
  /\ wpc' = [wpc EXCEPT ![w] = "load"]
  /\ job' = [job EXCEPT ![w] = r]

\* nextJob tries the channel first, and again after Redis.
TakeFromChannel(w) ==
  /\ wpc[w] \in {"channel", "wait"}
  /\ jobCh # <<>>
  /\ Take(w, Head(jobCh))
  /\ jobCh' = Tail(jobCh)
  /\ UNCHANGED <<row, redisVars, procVars, attempt, adopted, clientVars,
                 historyVars, faults>>

\* Slip: waits on the channel without a look at Redis.
SkipRedis(w) == jobCh = <<>> /\ Move(w, "channel", "wait")

ChannelEmpty(w) == jobCh = <<>> /\ Move(w, "channel", "redis")

\* Slip: ZREVRANGE instead, as in Queue.Peek.
DequeueByPeek(w) ==
  /\ rdb = "client"
  /\ wpc[w] = "redis"
  /\ \E r \in queue : Take(w, r)
  /\ UNCHANGED <<row, redisVars, procVars, jobCh, attempt, adopted, clientVars,
                 historyVars, faults>>

\* ZPOPMAX: from here on the run is in the worker's memory alone.
Dequeue(w) ==
  /\ rdb = "client"
  /\ wpc[w] = "redis"
  /\ \E r \in queue : queue' = queue \ {r} /\ Take(w, r)
  /\ UNCHANGED <<row, retries, procVars, jobCh, attempt, adopted, clientVars,
                 historyVars, faults>>

QueueEmpty(w) == rdb = "client" /\ queue = {} /\ Move(w, "redis", "wait")

\* The command fails, or Redis executes it and the reply is lost.
DequeueFails(w) ==
  /\ rdb = "client"
  /\ Goto(w, "redis", "top")
  /\ Fault("redis")
  /\ \E S \in {{}} \cup {{r} : r \in queue} :
       queue' = queue \ S /\ disturbed' = disturbed \cup S
  /\ UNCHANGED <<row, retries, procVars, jobCh, job, attempt, adopted,
                 clientVars, owed, submits, starts, failures,
                 recounts, gaveUp>>

\* Nothing came in time.
Idle(w) == Move(w, "wait", "top")

-----------------------------------------------------------------------------
(* Processor.ProcessWithRetry and Processor.Process.                       *)

Finish(w) ==
  /\ wpc' = [wpc EXCEPT ![w] = "top"]
  /\ job' = [job EXCEPT ![w] = None]
  /\ attempt' = [attempt EXCEPT ![w] = 0]
  /\ adopted' = [adopted EXCEPT ![w] = FALSE]
  /\ owed' = owed \ {job[w]}
  /\ UNCHANGED <<queue, procVars, jobCh, clientVars, disturbed, submits, starts,
                 failures, recounts>>

\* A run that timed out is not skipped.
Skipped == {"completed", "failed", "cancelled"}

Skip(w) ==
  /\ wpc[w] = "load"
  /\ row[job[w]] \in Skipped
  /\ Finish(w)
  /\ UNCHANGED <<row, retries, gaveUp, faults>>

\* The UPDATE that should mark a pending run as running always fails.
Load(w) ==
  /\ wpc[w] = "load"
  /\ row[job[w]] \notin Skipped
  /\ Move(w, "load", "call")

\* The engine executes the experiment of the run: it adopts the run if that is
\* still active and inserts another one if it is not.
EngineStarts(w) ==
  /\ Goto(w, "call", "exec")
  /\ starts' = [starts EXCEPT ![job[w]] = @ + 1]
  /\ adopted' = [adopted EXCEPT ![w] = row[job[w]] \in Active]
  /\ row' = IF row[job[w]] \in Active THEN [row EXCEPT ![job[w]] = "running"]
            ELSE row
  /\ UNCHANGED <<redisVars, procVars, jobCh, job, attempt, clientVars, owed,
                 disturbed, submits, failures, recounts, gaveUp, faults>>

\* What the row may be when the engine is done with it.
Outcomes(w) ==
  IF adopted[w] THEN {"completed", "failed", "cancelled", row[job[w]]}
  ELSE {row[job[w]]}

EngineReturns(w) ==
  /\ wpc[w] = "exec"
  /\ \E st \in Outcomes(w) : row' = [row EXCEPT ![job[w]] = st]
  /\ ClearCount(job[w])
  /\ Finish(w)
  /\ UNCHANGED gaveUp

\* The row cannot be loaded, or the engine has an error before it has a run.
\* The UPDATE that should mark the run as failed always fails.
AttemptFails(w) ==
  /\ \/ wpc[w] = "load" /\ UNCHANGED <<retries, recounts, faults>>
     \/ wpc[w] = "call" /\ CountFailure(job[w])
  /\ wpc' = [wpc EXCEPT ![w] = "recheck"]
  /\ failures' = [failures EXCEPT ![job[w]] = @ + 1]
  /\ UNCHANGED <<row, queue, procVars, jobCh, job, attempt, adopted, clientVars,
                 owed, disturbed, submits, starts, gaveUp>>

\* Cancelled meanwhile: no more attempts.
NoLongerWanted(w) ==
  /\ wpc[w] = "recheck"
  /\ row[job[w]] = "cancelled"
  /\ Finish(w)
  /\ UNCHANGED <<row, retries, gaveUp, faults>>

\* Slips: one retry too few, one too many.
ExhaustedEarly(w) == retries[job[w]] >= MaxRetries \/ attempt[w] = MaxRetries
ExhaustedLate(w)  == retries[job[w]] > MaxRetries \/ attempt[w] > MaxRetries

\* The counter is shared by all attempts at the run, by any worker, for 24 h.
Exhausted(w) == retries[job[w]] > MaxRetries \/ attempt[w] = MaxRetries

\* The UPDATE that should mark the run as failed always fails.
GiveUp(w) ==
  /\ wpc[w] = "recheck"
  /\ Exhausted(w)
  /\ gaveUp' = gaveUp \cup {job[w]}
  /\ Finish(w)
  /\ UNCHANGED <<row, retries, faults>>

\* Slip: a worker that is told to stop drops the run it retries.
RetryUnlessStopped(w) ==
  /\ Goto(w, "recheck", IF proc = "stopping" THEN "exited" ELSE "load")
  /\ ~Exhausted(w)
  /\ job' = [job EXCEPT ![w] = IF proc = "stopping" THEN None ELSE @]
  /\ attempt' = [attempt EXCEPT ![w] = IF proc = "stopping" THEN 0 ELSE @ + 1]
  /\ UNCHANGED <<row, redisVars, procVars, jobCh, adopted, clientVars,
                 historyVars, faults>>

\* A counter that cannot be read counts as 0; a row that cannot be read is not
\* cancelled.
Retry(w) ==
  /\ Goto(w, "recheck", "load")
  /\ \/ ~Exhausted(w) /\ UNCHANGED faults
     \/ attempt[w] < MaxRetries /\ Exhausted(w) /\ Fault("redis")
  /\ attempt' = [attempt EXCEPT ![w] = @ + 1]
  /\ UNCHANGED <<row, redisVars, procVars, jobCh, job, adopted, clientVars,
                 historyVars>>

\* The 30 minutes that processing may take are over before the next attempt.
OutOfTime(w) ==
  /\ wpc[w] = "load" /\ attempt[w] > 0
  /\ Finish(w)
  /\ UNCHANGED <<row, retries, gaveUp, faults>>

-----------------------------------------------------------------------------
(* The surroundings.                                                       *)

\* A user stops the run, or it is found stale, through the API.
Settle(r, st) ==
  /\ row[r] \in Active
  /\ st \in {"cancelled", "timed_out"}
  /\ row' = [row EXCEPT ![r] = st]
  /\ UNCHANGED <<redisVars, procVars, jobCh, workerVars, clientVars, historyVars,
                 faults>>

\* The queue lives for 72 h after the last Enqueue.
QueueExpires ==
  /\ queue # {}
  /\ Fault("keyLoss")
  /\ queue' = {}
  /\ disturbed' = disturbed \cup queue
  /\ UNCHANGED <<row, retries, procVars, jobCh, workerVars, clientVars, owed,
                 submits, starts, failures,
                 recounts, gaveUp>>

\* A retry counter lives for 24 h after the last increment.
CounterExpires(r) ==
  /\ retries[r] > 0
  /\ Fault("keyLoss")
  /\ retries' = [retries EXCEPT ![r] = 0]
  /\ UNCHANGED <<row, queue, procVars, jobCh, workerVars, clientVars, historyVars>>

-----------------------------------------------------------------------------
Submit(c) == (\E r \in Runs : Accept(c, r)) \/ Enqueue(c) \/ EnqueueAgain(c) \/ Push(c)

NextJob(w) ==
  TakeFromChannel(w) \/ ChannelEmpty(w) \/ Dequeue(w) \/ QueueEmpty(w)
  \/ DequeueFails(w) \/ Idle(w)

Process(w) ==
  Skip(w) \/ Load(w) \/ EngineStarts(w) \/ EngineReturns(w) \/ AttemptFails(w)
  \/ NoLongerWanted(w) \/ GiveUp(w) \/ Retry(w) \/ OutOfTime(w)

Worker(w) == CheckStop(w) \/ NextJob(w) \/ Process(w)

Next ==
  \/ Boot \/ StopPool \/ Exit \/ Crash \/ Panic
  \/ \E c \in Clients : Submit(c)
  \/ \E w \in Workers : Worker(w)
  \/ \E r \in Runs, st \in {"cancelled", "timed_out"} : Settle(r, st)
  \/ QueueExpires
  \/ \E r \in Runs : CounterExpires(r)

Spec == Init /\ [][Next]_vars

(* Goroutines run, into a panic too; the container is started again when    *)
(* it has ended, and the 30 s of a shutdown end.  No caller must submit.    *)
Fairness ==
  /\ WF_vars(Boot)
  /\ WF_vars(Exit)
  /\ WF_vars(Panic)
  /\ \A w \in Workers : WF_vars(Worker(w))

FairSpec == Spec /\ Fairness

-----------------------------------------------------------------------------
(* Properties.                                                             *)

(* A run that was accepted is never in the memory of a process alone: until *)
(* some worker has dealt with it, it is in the Redis queue or in the hands  *)
(* of a worker, also across graceful shutdowns, which forget the channel.   *)
(* The exceptions are the runs a fault has touched: a failed Redis command, *)
(* an expired queue, or the end of the process while a worker held the run. *)
RedisKeepsIt == owed \ disturbed \subseteq queue \cup Held

(* One submission, placed in Redis and in the channel, makes the engine     *)
(* execute at most twice, whatever is retried, restarted or lost; only a    *)
(* command that Redis executed twice adds to that.                          *)
BoundedExecutions == \A r \in Runs : starts[r] <= 2 * submits[r] + faults

(* A run is given up for its failures only when one attempt and MaxRetries  *)
(* retries have failed, counted over all workers and all restarts, where a  *)
(* failure counts once more for each time the client sent its INCR again    *)
(* although Redis had executed it.                                          *)
GivenUpEarned == \A r \in gaveUp : failures[r] + recounts[r] > MaxRetries

(* A run that was accepted is dealt with in the end, also when the process  *)
(* is shut down and started again in between, unless a fault touches it.    *)
OutOfBoots == proc # "up" /\ boots = MaxBoots   (* BOUND *)

Served == \A r \in Runs : (r \in owed) ~> (r \notin owed \ disturbed \/ OutOfBoots)
=============================================================================
