--------------------------- MODULE WorkerPoolProofs ---------------------------
(***************************************************************************)
(* What holds of WorkerPool for every number of workers, callers, runs,    *)
(* retries, restarts and disturbances.                                     *)
(***************************************************************************)
EXTENDS WorkerPool, FiniteSetTheorems, SequenceTheorems, TLAPS

Busy == {"load", "call", "exec", "recheck"}

\* A worker holds a run exactly while it is busy with it, no worker is left of
\* a process that has ended, and a call of Submit has a run to place.
HolderInv ==
  /\ proc \in {"down", "panicked"} => \A w \in Workers : wpc[w] = "off"
  /\ \A w \in Workers :
       /\ wpc[w] \in Busy => job[w] \in Runs
       /\ wpc[w] \notin Busy => job[w] = None /\ attempt[w] = 0
  /\ \A c \in Clients : cpc[c] \in {"enqueue", "push"} => sub[c] \in Runs

TypeInv == TypeOK /\ HolderInv

\* Whatever counts attempts counts failures, Redis some of them more than once.
CountInv ==
  /\ \A r \in Runs : retries[r] <= failures[r] + recounts[r]
  /\ \A w \in Workers :
       /\ wpc[w] \in Busy => attempt[w] <= failures[job[w]]
       /\ wpc[w] = "recheck" => attempt[w] < failures[job[w]]

\* Every place a run has is a ticket for one execution at most: the queue, a slot
\* of the channel, a caller about to push, a worker that has not started it yet.
InQueue(r)  == IF r \in queue THEN 1 ELSE 0
Slots(r)    == {i \in 1..Len(jobCh) : jobCh[i] = r}
Pushers(r)  == {c \in Clients : cpc[c] = "push" /\ sub[c] = r}
Carriers(r) == {w \in Workers : wpc[w] \in {"load", "call", "recheck"} /\ job[w] = r}

Tickets(r) ==
  InQueue(r) + Cardinality(Slots(r)) + Cardinality(Pushers(r)) + Cardinality(Carriers(r))

\* What a submission may still cause is part of what it may cause.
TicketInv ==
  \A r \in Runs :
    /\ IsFiniteSet(Pushers(r)) /\ IsFiniteSet(Carriers(r))
    /\ starts[r] + Tickets(r) <= 2 * submits[r] + faults

-----------------------------------------------------------------------------
(* One step.                                                               *)

\* What a failed attempt does to the counter, it does at most once more than the
\* history of repeated counts tells.
LEMMA Counting ==
  ASSUME TypeInv, NEW w \in Workers, AttemptFails(w)
  PROVE  \E k, n \in Nat :
           /\ retries' = [retries EXCEPT ![job[w]] = retries[job[w]] + k]
           /\ recounts' = [recounts EXCEPT ![job[w]] = recounts[job[w]] + n]
           /\ k <= n + 1
<1>1. /\ job[w] \in Runs
      /\ retries \in [Runs -> Nat] /\ recounts \in [Runs -> Nat]
  BY DEF AttemptFails, TypeInv, TypeOK, HolderInv, Busy
<1>0. PICK r \in Runs : r = job[w]
  BY <1>1
<1>2. retries[r] \in Nat /\ recounts[r] \in Nat
  BY <1>1
<1>3. CASE UNCHANGED <<retries, recounts>>
  <2>1. /\ retries' = [retries EXCEPT ![r] = retries[r] + 0]
        /\ recounts' = [recounts EXCEPT ![r] = recounts[r] + 0]
    BY <1>1, <1>2, <1>3
  <2>2. 0 \in Nat /\ 0 <= 0 + 1
    OBVIOUS
  <2> WITNESS 0 \in Nat, 0 \in Nat
  <2> QED BY <1>0, <2>1, <2>2
<1>4. CASE retries' = [retries EXCEPT ![r] = @ + 1] /\ UNCHANGED recounts
  <2>1. /\ retries' = [retries EXCEPT ![r] = retries[r] + 1]
        /\ recounts' = [recounts EXCEPT ![r] = recounts[r] + 0]
    BY <1>1, <1>2, <1>4
  <2>2. 1 \in Nat /\ 0 \in Nat /\ 1 <= 0 + 1
    OBVIOUS
  <2> WITNESS 1 \in Nat, 0 \in Nat
  <2> QED BY <1>0, <2>1, <2>2
<1>5. ASSUME NEW n \in 1..Resends,
             retries' = [retries EXCEPT ![r] = @ + 1 + n],
             recounts' = [recounts EXCEPT ![r] = @ + n]
      PROVE  \E k, m \in Nat :
               /\ retries' = [retries EXCEPT ![job[w]] = retries[job[w]] + k]
               /\ recounts' = [recounts EXCEPT ![job[w]] = recounts[job[w]] + m]
               /\ k <= m + 1
  <2>1. n \in Nat /\ n + 1 \in Nat /\ retries[r] + 1 + n = retries[r] + (n + 1)
    BY <1>2, PoolAssumption
  <2>2. /\ retries' = [retries EXCEPT ![r] = retries[r] + (n + 1)]
        /\ recounts' = [recounts EXCEPT ![r] = recounts[r] + n]
    BY <1>5, <2>1
  <2>3. n + 1 <= n + 1
    BY <2>1
  <2> WITNESS n + 1 \in Nat, n \in Nat
  <2> QED BY <1>0, <2>2, <2>3
<1> QED BY <1>0, <1>3, <1>4, <1>5 DEF AttemptFails, CountFailure

(* Every step keeps the types, and what workers and callers hold.         *)
LEMMA TypeStep ==
  ASSUME TypeInv, [Next]_vars
  PROVE  TypeInv'
<1> USE PoolAssumption DEF redisVars, procVars, workerVars, clientVars,
       historyVars, TypeInv, TypeOK, HolderInv, Busy, WorkerPC, ClientPC,
       Active, Terminal
<1>1. CASE Boot
  <2>1. wpc' \in [Workers -> WorkerPC]
    BY <1>1 DEF Boot, Fault
  <2>2. job' \in [Workers -> Runs \cup {None}]
    BY <1>1 DEF Boot, Fault
  <2>3. attempt' \in [Workers -> 0..MaxRetries]
    BY <1>1 DEF Boot, Fault
  <2>4. adopted' \in [Workers -> BOOLEAN]
    BY <1>1 DEF Boot, Fault
  <2>5. row' \in [Runs -> Active \cup Terminal]
    BY <1>1 DEF Boot, Fault
  <2>6. queue' \subseteq Runs /\ retries' \in [Runs -> Nat]
    BY <1>1 DEF Boot, Fault
  <2>7. failures' \in [Runs -> Nat] /\ recounts' \in [Runs -> Nat]
    BY <1>1 DEF Boot, Fault
  <2>8. disturbed' \subseteq Runs /\ gaveUp' \subseteq Runs
    BY <1>1 DEF Boot, Fault
  <2>9. faults' \in 0..MaxFaults
    BY <1>1 DEF Boot, Fault
  <2>10. \A v \in Workers :
          /\ wpc'[v] \in Busy => job'[v] \in Runs
          /\ wpc'[v] \notin Busy => job'[v] = None /\ attempt'[v] = 0
    BY <1>1 DEF Boot, Fault
  <2> QED BY <1>1, <2>1, <2>2, <2>3, <2>4, <2>5, <2>6, <2>7, <2>8, <2>9, <2>10
         DEF Boot, Fault
<1>2. CASE StopPool
  BY <1>2 DEF StopPool
<1>30. ASSUME NEW how \in {"down", "panicked"}, Ends(how), faults' \in 0..MaxFaults
       PROVE  TypeInv'
  <2>1. Held \subseteq Runs
    BY DEF Held
  <2>2. disturbed' \subseteq Runs
    BY <1>30, <2>1 DEF Ends
  <2>3. jobCh' \in Seq(Runs) /\ Len(jobCh') <= ChanCap
    BY <1>30, EmptySeq DEF Ends
  <2>4. cpc' \in [Clients -> ClientPC]
        /\ \A c \in Clients : cpc'[c] \in {"enqueue", "push"} => sub'[c] \in Runs
    BY <1>30 DEF Ends
  <2>5. /\ wpc' = [w \in Workers |-> "off"] /\ job' = [w \in Workers |-> None]
        /\ attempt' = [w \in Workers |-> 0] /\ adopted' = [w \in Workers |-> FALSE]
    BY <1>30 DEF Ends
  <2> QED BY <1>30, <2>2, <2>3, <2>4, <2>5 DEF Ends
<1>3. CASE Exit
  <2>1. faults' \in 0..MaxFaults
    BY <1>3 DEF Exit, Fault
  <2>2. Ends("down")
    BY <1>3 DEF Exit
  <2> QED BY <1>30, <2>1, <2>2
<1>4. CASE Crash
  <2>1. faults' \in 0..MaxFaults
    BY <1>4 DEF Crash, Fault
  <2>2. Ends("down")
    BY <1>4 DEF Crash
  <2> QED BY <1>30, <2>1, <2>2
<1>5. CASE Panic
  <2>1. faults' \in 0..MaxFaults
    BY <1>5 DEF Panic
  <2>2. Ends("panicked")
    BY <1>5 DEF Panic
  <2> QED BY <1>30, <2>1, <2>2
<1>6. ASSUME NEW c \in Clients, NEW r \in Runs, Accept(c, r) PROVE TypeInv'
  BY <1>6 DEF Accept, ClientGoto
<1>7. ASSUME NEW c \in Clients, Enqueue(c) PROVE TypeInv'
  <2>1. sub[c] \in Runs
    BY <1>7 DEF Enqueue, ClientGoto
  <2>2. queue' \subseteq Runs /\ disturbed' \subseteq Runs /\ owed' \subseteq Runs
    BY <1>7, <2>1 DEF Enqueue, ClientGoto, Running, Fault
  <2>3. submits' \in [Runs -> Nat]
    BY <1>7, <2>1 DEF Enqueue, ClientGoto, Running, Fault
  <2>4. cpc' \in [Clients -> ClientPC]
    BY <1>7, <2>1 DEF Enqueue, ClientGoto, Running, Fault
  <2>5. faults' \in 0..MaxFaults
    BY <1>7, <2>1 DEF Enqueue, ClientGoto, Running, Fault
  <2>6. \A d \in Clients : cpc'[d] \in {"enqueue", "push"} => sub'[d] \in Runs
    BY <1>7, <2>1 DEF Enqueue, ClientGoto, Running, Fault
  <2> QED BY <1>7, <2>1, <2>2, <2>3, <2>4, <2>5, <2>6 DEF Enqueue, ClientGoto,
         Running, Fault
<1>8. ASSUME NEW c \in Clients, EnqueueAgain(c) PROVE TypeInv'
  <2>1. sub[c] \in Runs
    BY <1>8 DEF EnqueueAgain
  <2>2. queue' \subseteq Runs /\ faults' \in 0..MaxFaults
    BY <1>8, <2>1 DEF EnqueueAgain, Fault
  <2> QED BY <1>8, <2>2 DEF EnqueueAgain
<1>9. ASSUME NEW c \in Clients, Push(c) PROVE TypeInv'
  <2>1. sub[c] \in Runs
    BY <1>9 DEF Push, ClientGoto
  <2>2. jobCh' \in Seq(Runs) /\ Len(jobCh') <= ChanCap
    BY <1>9, <2>1, AppendProperties, LenProperties DEF Push, ClientGoto, Running
  <2>3. cpc' \in [Clients -> ClientPC]
    BY <1>9, <2>1 DEF Push, ClientGoto, Running
  <2>4. \A d \in Clients : cpc'[d] \in {"enqueue", "push"} => sub'[d] \in Runs
    BY <1>9, <2>1 DEF Push, ClientGoto, Running
  <2>5. \A v \in Workers :
          /\ wpc'[v] \in Busy => job'[v] \in Runs
          /\ wpc'[v] \notin Busy => job'[v] = None /\ attempt'[v] = 0
    BY <1>9, <2>1 DEF Push, ClientGoto, Running
  <2> QED BY <1>9, <2>1, <2>2, <2>3, <2>4, <2>5 DEF Push, ClientGoto, Running
<1>10. ASSUME NEW w \in Workers, CheckStop(w) PROVE TypeInv'
  BY <1>10 DEF CheckStop, Move, Goto
<1>11. ASSUME NEW w \in Workers, TakeFromChannel(w) PROVE TypeInv'
  <2>1. Head(jobCh) \in Runs /\ Tail(jobCh) \in Seq(Runs)
        /\ Len(Tail(jobCh)) <= ChanCap
    BY <1>11, HeadTailProperties, LenProperties DEF TakeFromChannel
  <2>2. jobCh' \in Seq(Runs) /\ Len(jobCh') <= ChanCap
    BY <1>11, <2>1 DEF TakeFromChannel, Take
  <2>3. wpc' \in [Workers -> WorkerPC]
    BY <1>11, <2>1 DEF TakeFromChannel, Take
  <2>4. job' \in [Workers -> Runs \cup {None}]
    BY <1>11, <2>1 DEF TakeFromChannel, Take
  <2>5. \A v \in Workers :
          /\ wpc'[v] \in Busy => job'[v] \in Runs
          /\ wpc'[v] \notin Busy => job'[v] = None /\ attempt'[v] = 0
    BY <1>11, <2>1 DEF TakeFromChannel, Take
  <2> QED BY <1>11, <2>1, <2>2, <2>3, <2>4, <2>5 DEF TakeFromChannel, Take
<1>12. ASSUME NEW w \in Workers, ChannelEmpty(w) PROVE TypeInv'
  BY <1>12 DEF ChannelEmpty, Move, Goto
<1>13. ASSUME NEW w \in Workers, Dequeue(w) PROVE TypeInv'
  <2>1. wpc' \in [Workers -> WorkerPC]
    BY <1>13 DEF Dequeue, Take
  <2>2. job' \in [Workers -> Runs \cup {None}]
    BY <1>13 DEF Dequeue, Take
  <2>3. attempt' \in [Workers -> 0..MaxRetries]
    BY <1>13 DEF Dequeue, Take
  <2>4. adopted' \in [Workers -> BOOLEAN]
    BY <1>13 DEF Dequeue, Take
  <2>5. row' \in [Runs -> Active \cup Terminal]
    BY <1>13 DEF Dequeue, Take
  <2>6. queue' \subseteq Runs /\ retries' \in [Runs -> Nat]
    BY <1>13 DEF Dequeue, Take
  <2>7. failures' \in [Runs -> Nat] /\ recounts' \in [Runs -> Nat]
    BY <1>13 DEF Dequeue, Take
  <2>8. disturbed' \subseteq Runs /\ gaveUp' \subseteq Runs
    BY <1>13 DEF Dequeue, Take
  <2>9. faults' \in 0..MaxFaults
    BY <1>13 DEF Dequeue, Take
  <2>10. \A v \in Workers :
          /\ wpc'[v] \in Busy => job'[v] \in Runs
          /\ wpc'[v] \notin Busy => job'[v] = None /\ attempt'[v] = 0
    BY <1>13 DEF Dequeue, Take
  <2> QED BY <1>13, <2>1, <2>2, <2>3, <2>4, <2>5, <2>6, <2>7, <2>8, <2>9, <2>10
         DEF Dequeue, Take
<1>14. ASSUME NEW w \in Workers, QueueEmpty(w) PROVE TypeInv'
  BY <1>14 DEF QueueEmpty, Move, Goto
<1>15. ASSUME NEW w \in Workers, DequeueFails(w) PROVE TypeInv'
  <2>1. wpc' \in [Workers -> WorkerPC]
    BY <1>15 DEF DequeueFails, Goto, Fault
  <2>2. job' \in [Workers -> Runs \cup {None}]
    BY <1>15 DEF DequeueFails, Goto, Fault
  <2>3. attempt' \in [Workers -> 0..MaxRetries]
    BY <1>15 DEF DequeueFails, Goto, Fault
  <2>4. adopted' \in [Workers -> BOOLEAN]
    BY <1>15 DEF DequeueFails, Goto, Fault
  <2>5. row' \in [Runs -> Active \cup Terminal]
    BY <1>15 DEF DequeueFails, Goto, Fault
  <2>6. queue' \subseteq Runs /\ retries' \in [Runs -> Nat]
    BY <1>15 DEF DequeueFails, Goto, Fault
  <2>7. failures' \in [Runs -> Nat] /\ recounts' \in [Runs -> Nat]
    BY <1>15 DEF DequeueFails, Goto, Fault
  <2>8. disturbed' \subseteq Runs /\ gaveUp' \subseteq Runs
    BY <1>15 DEF DequeueFails, Goto, Fault
  <2>9. faults' \in 0..MaxFaults
    BY <1>15 DEF DequeueFails, Goto, Fault
  <2>10. \A v \in Workers :
          /\ wpc'[v] \in Busy => job'[v] \in Runs
          /\ wpc'[v] \notin Busy => job'[v] = None /\ attempt'[v] = 0
    BY <1>15 DEF DequeueFails, Goto, Fault
  <2> QED BY <1>15, <2>1, <2>2, <2>3, <2>4, <2>5, <2>6, <2>7, <2>8, <2>9, <2>10
         DEF DequeueFails, Goto, Fault
<1>16. ASSUME NEW w \in Workers, Idle(w) PROVE TypeInv'
  BY <1>16 DEF Idle, Move, Goto
<1>17. ASSUME NEW w \in Workers, Skip(w) PROVE TypeInv'
  BY SMTT(30), <1>17 DEF Skip, Finish
<1>18. ASSUME NEW w \in Workers, Load(w) PROVE TypeInv'
  BY <1>18 DEF Load, Move, Goto
<1>19. ASSUME NEW w \in Workers, EngineStarts(w) PROVE TypeInv'
  <2>1. job[w] \in Runs /\ wpc[w] = "call" /\ wpc' = [wpc EXCEPT ![w] = "exec"]
    BY <1>19 DEF EngineStarts, Goto
  <2>2. starts' \in [Runs -> Nat] /\ adopted' \in [Workers -> BOOLEAN]
    BY <1>19, <2>1 DEF EngineStarts
  <2>3. row' \in [Runs -> Active \cup Terminal]
    BY <1>19, <2>1 DEF EngineStarts
  <2>4. \A v \in Workers : wpc'[v] \in Busy <=> wpc[v] \in Busy
    BY <2>1
  <2>5. wpc' \in [Workers -> WorkerPC]
    BY <2>1
  <2>6. \A v \in Workers : wpc[v] # "off" => proc \notin {"down", "panicked"}
    OBVIOUS
  <2> HIDE DEF Busy, WorkerPC
  <2> QED BY <1>19, <2>1, <2>2, <2>3, <2>4, <2>5, <2>6 DEF EngineStarts
<1>20. ASSUME NEW w \in Workers, EngineReturns(w) PROVE TypeInv'
  <2>1. wpc' \in [Workers -> WorkerPC]
    BY <1>20 DEF EngineReturns, Outcomes, ClearCount, Fault, Finish
  <2>2. job' \in [Workers -> Runs \cup {None}]
    BY <1>20 DEF EngineReturns, Outcomes, ClearCount, Fault, Finish
  <2>3. attempt' \in [Workers -> 0..MaxRetries]
    BY <1>20 DEF EngineReturns, Outcomes, ClearCount, Fault, Finish
  <2>4. adopted' \in [Workers -> BOOLEAN]
    BY <1>20 DEF EngineReturns, Outcomes, ClearCount, Fault, Finish
  <2>5. row' \in [Runs -> Active \cup Terminal]
    <3>1. job[w] \in Runs /\ row[job[w]] \in Active \cup Terminal
      BY <1>20 DEF EngineReturns
    <3>2. PICK st \in Outcomes(w) : row' = [row EXCEPT ![job[w]] = st]
      BY <1>20 DEF EngineReturns
    <3>3. st \in Active \cup Terminal
      BY <3>1, <3>2 DEF Outcomes
    <3> QED BY <3>2, <3>3
  <2>6. queue' \subseteq Runs /\ retries' \in [Runs -> Nat]
    <3>1. queue' = queue
      BY <1>20 DEF EngineReturns, Finish
    <3>2. \/ retries' = [retries EXCEPT ![job[w]] = 0]
          \/ retries' = retries
      BY <1>20 DEF EngineReturns, ClearCount
    <3>3. retries \in [Runs -> Nat]
      OBVIOUS
    <3>4. retries' \in [Runs -> Nat]
      BY ONLY <3>2, <3>3
    <3> QED BY <3>1, <3>4
  <2>7. failures' \in [Runs -> Nat] /\ recounts' \in [Runs -> Nat]
    BY <1>20 DEF EngineReturns, Outcomes, ClearCount, Fault, Finish
  <2>8. disturbed' \subseteq Runs /\ gaveUp' \subseteq Runs
    BY <1>20 DEF EngineReturns, Outcomes, ClearCount, Fault, Finish
  <2>9. faults' \in 0..MaxFaults
    BY <1>20 DEF EngineReturns, Outcomes, ClearCount, Fault, Finish
  <2>10. \A v \in Workers :
          /\ wpc'[v] \in Busy => job'[v] \in Runs
          /\ wpc'[v] \notin Busy => job'[v] = None /\ attempt'[v] = 0
    BY <1>20 DEF EngineReturns, Outcomes, ClearCount, Fault, Finish
  <2> QED BY <1>20, <2>1, <2>2, <2>3, <2>4, <2>5, <2>6, <2>7, <2>8, <2>9, <2>10
         DEF EngineReturns, Outcomes, ClearCount, Fault, Finish
<1>21. ASSUME NEW w \in Workers, AttemptFails(w) PROVE TypeInv'
  <2>1. wpc' \in [Workers -> WorkerPC]
    BY <1>21 DEF AttemptFails, CountFailure, Fault
  <2>2. job' \in [Workers -> Runs \cup {None}]
    BY <1>21 DEF AttemptFails, CountFailure, Fault
  <2>3. attempt' \in [Workers -> 0..MaxRetries]
    BY <1>21 DEF AttemptFails, CountFailure, Fault
  <2>4. adopted' \in [Workers -> BOOLEAN]
    BY <1>21 DEF AttemptFails, CountFailure, Fault
  <2>5. row' \in [Runs -> Active \cup Terminal]
    BY <1>21 DEF AttemptFails, CountFailure, Fault
  <2>6. queue' \subseteq Runs /\ retries' \in [Runs -> Nat]
    <3>1. job[w] \in Runs
      BY <1>21 DEF AttemptFails
    <3>2. PICK k \in Nat : retries' = [retries EXCEPT ![job[w]] = retries[job[w]] + k]
      BY <1>21, Counting
    <3>3. retries' \in [Runs -> Nat]
      BY <3>1, <3>2
    <3>4. queue' = queue
      BY <1>21 DEF AttemptFails
    <3> QED BY <3>3, <3>4
  <2>7. failures' \in [Runs -> Nat] /\ recounts' \in [Runs -> Nat]
    <3>1. job[w] \in Runs /\ failures' = [failures EXCEPT ![job[w]] = @ + 1]
      BY <1>21 DEF AttemptFails
    <3>2. PICK n \in Nat : recounts' = [recounts EXCEPT ![job[w]] = recounts[job[w]] + n]
      BY <1>21, Counting
    <3>3. failures \in [Runs -> Nat] /\ recounts \in [Runs -> Nat]
      OBVIOUS
    <3> QED BY ONLY <3>1, <3>2, <3>3
  <2>8. disturbed' \subseteq Runs /\ gaveUp' \subseteq Runs
    BY <1>21 DEF AttemptFails, CountFailure, Fault
  <2>9. faults' \in 0..MaxFaults
    BY <1>21 DEF AttemptFails, CountFailure, Fault
  <2>10. \A v \in Workers :
          /\ wpc'[v] \in Busy => job'[v] \in Runs
          /\ wpc'[v] \notin Busy => job'[v] = None /\ attempt'[v] = 0
    BY <1>21 DEF AttemptFails, CountFailure, Fault
  <2> QED BY <1>21, <2>1, <2>2, <2>3, <2>4, <2>5, <2>6, <2>7, <2>8, <2>9, <2>10
         DEF AttemptFails, CountFailure, Fault
<1>22. ASSUME NEW w \in Workers, NoLongerWanted(w) PROVE TypeInv'
  <2>1. wpc' \in [Workers -> WorkerPC]
    BY <1>22 DEF NoLongerWanted, Finish
  <2>2. job' \in [Workers -> Runs \cup {None}]
    BY <1>22 DEF NoLongerWanted, Finish
  <2>3. attempt' \in [Workers -> 0..MaxRetries]
    BY <1>22 DEF NoLongerWanted, Finish
  <2>4. adopted' \in [Workers -> BOOLEAN]
    BY <1>22 DEF NoLongerWanted, Finish
  <2>5. row' \in [Runs -> Active \cup Terminal]
    BY <1>22 DEF NoLongerWanted, Finish
  <2>6. queue' \subseteq Runs /\ retries' \in [Runs -> Nat]
    BY <1>22 DEF NoLongerWanted, Finish
  <2>7. failures' \in [Runs -> Nat] /\ recounts' \in [Runs -> Nat]
    BY <1>22 DEF NoLongerWanted, Finish
  <2>8. disturbed' \subseteq Runs /\ gaveUp' \subseteq Runs
    BY <1>22 DEF NoLongerWanted, Finish
  <2>9. faults' \in 0..MaxFaults
    BY <1>22 DEF NoLongerWanted, Finish
  <2>10. \A v \in Workers :
          /\ wpc'[v] \in Busy => job'[v] \in Runs
          /\ wpc'[v] \notin Busy => job'[v] = None /\ attempt'[v] = 0
    BY <1>22 DEF NoLongerWanted, Finish
  <2> QED BY <1>22, <2>1, <2>2, <2>3, <2>4, <2>5, <2>6, <2>7, <2>8, <2>9, <2>10
         DEF NoLongerWanted, Finish
<1>23. ASSUME NEW w \in Workers, GiveUp(w) PROVE TypeInv'
  <2>1. wpc' \in [Workers -> WorkerPC]
    BY <1>23 DEF GiveUp, Finish
  <2>2. job' \in [Workers -> Runs \cup {None}]
    BY <1>23 DEF GiveUp, Finish
  <2>3. attempt' \in [Workers -> 0..MaxRetries]
    BY <1>23 DEF GiveUp, Finish
  <2>4. adopted' \in [Workers -> BOOLEAN]
    BY <1>23 DEF GiveUp, Finish
  <2>5. row' \in [Runs -> Active \cup Terminal]
    BY <1>23 DEF GiveUp, Finish
  <2>6. queue' \subseteq Runs /\ retries' \in [Runs -> Nat]
    BY <1>23 DEF GiveUp, Finish
  <2>7. failures' \in [Runs -> Nat] /\ recounts' \in [Runs -> Nat]
    BY <1>23 DEF GiveUp, Finish
  <2>8. disturbed' \subseteq Runs /\ gaveUp' \subseteq Runs
    BY <1>23 DEF GiveUp, Finish
  <2>9. faults' \in 0..MaxFaults
    BY <1>23 DEF GiveUp, Finish
  <2>10. \A v \in Workers :
          /\ wpc'[v] \in Busy => job'[v] \in Runs
          /\ wpc'[v] \notin Busy => job'[v] = None /\ attempt'[v] = 0
    BY <1>23 DEF GiveUp, Finish
  <2> QED BY <1>23, <2>1, <2>2, <2>3, <2>4, <2>5, <2>6, <2>7, <2>8, <2>9, <2>10
         DEF GiveUp, Finish
<1>24. ASSUME NEW w \in Workers, Retry(w) PROVE TypeInv'
  <2>1. wpc' \in [Workers -> WorkerPC]
    BY <1>24 DEF Retry, Goto, Exhausted, Fault
  <2>2. job' \in [Workers -> Runs \cup {None}]
    BY <1>24 DEF Retry, Goto, Exhausted, Fault
  <2>3. attempt' \in [Workers -> 0..MaxRetries]
    <3>1. attempt[w] \in 0..MaxRetries /\ attempt[w] # MaxRetries
      BY <1>24 DEF Retry, Exhausted
    <3>2. attempt[w] + 1 \in 0..MaxRetries
      BY <3>1
    <3>3. attempt' = [attempt EXCEPT ![w] = attempt[w] + 1]
      BY <1>24 DEF Retry
    <3> QED BY <3>2, <3>3
  <2>4. adopted' \in [Workers -> BOOLEAN]
    BY <1>24 DEF Retry, Goto, Exhausted, Fault
  <2>5. row' \in [Runs -> Active \cup Terminal]
    BY <1>24 DEF Retry, Goto, Exhausted, Fault
  <2>6. queue' \subseteq Runs /\ retries' \in [Runs -> Nat]
    BY <1>24 DEF Retry, Goto, Exhausted, Fault
  <2>7. failures' \in [Runs -> Nat] /\ recounts' \in [Runs -> Nat]
    BY <1>24 DEF Retry, Goto, Exhausted, Fault
  <2>8. disturbed' \subseteq Runs /\ gaveUp' \subseteq Runs
    BY <1>24 DEF Retry, Goto, Exhausted, Fault
  <2>9. faults' \in 0..MaxFaults
    BY <1>24 DEF Retry, Goto, Exhausted, Fault
  <2>10. \A v \in Workers :
          /\ wpc'[v] \in Busy => job'[v] \in Runs
          /\ wpc'[v] \notin Busy => job'[v] = None /\ attempt'[v] = 0
    BY <1>24 DEF Retry, Goto, Exhausted, Fault
  <2> QED BY <1>24, <2>1, <2>2, <2>3, <2>4, <2>5, <2>6, <2>7, <2>8, <2>9, <2>10
         DEF Retry, Goto, Exhausted, Fault
<1>25. ASSUME NEW w \in Workers, OutOfTime(w) PROVE TypeInv'
  <2>1. wpc' \in [Workers -> WorkerPC]
    BY <1>25 DEF OutOfTime, Finish
  <2>2. job' \in [Workers -> Runs \cup {None}]
    BY <1>25 DEF OutOfTime, Finish
  <2>3. attempt' \in [Workers -> 0..MaxRetries]
    BY <1>25 DEF OutOfTime, Finish
  <2>4. adopted' \in [Workers -> BOOLEAN]
    BY <1>25 DEF OutOfTime, Finish
  <2>5. row' \in [Runs -> Active \cup Terminal]
    BY <1>25 DEF OutOfTime, Finish
  <2>6. queue' \subseteq Runs /\ retries' \in [Runs -> Nat]
    BY <1>25 DEF OutOfTime, Finish
  <2>7. failures' \in [Runs -> Nat] /\ recounts' \in [Runs -> Nat]
    BY <1>25 DEF OutOfTime, Finish
  <2>8. disturbed' \subseteq Runs /\ gaveUp' \subseteq Runs
    BY <1>25 DEF OutOfTime, Finish
  <2>9. faults' \in 0..MaxFaults
    BY <1>25 DEF OutOfTime, Finish
  <2>10. \A v \in Workers :
          /\ wpc'[v] \in Busy => job'[v] \in Runs
          /\ wpc'[v] \notin Busy => job'[v] = None /\ attempt'[v] = 0
    BY <1>25 DEF OutOfTime, Finish
  <2> QED BY <1>25, <2>1, <2>2, <2>3, <2>4, <2>5, <2>6, <2>7, <2>8, <2>9, <2>10
         DEF OutOfTime, Finish
<1>26. ASSUME NEW r \in Runs, NEW st \in {"cancelled", "timed_out"}, Settle(r, st) PROVE TypeInv'
  BY <1>26 DEF Settle
<1>27. CASE QueueExpires
  BY <1>27 DEF QueueExpires, Fault
<1>28. ASSUME NEW r \in Runs, CounterExpires(r) PROVE TypeInv'
  <2>1. retries' \in [Runs -> Nat] /\ faults' \in 0..MaxFaults
    BY <1>28 DEF CounterExpires, Fault
  <2> QED BY <1>28, <2>1 DEF CounterExpires
<1>29. CASE UNCHANGED vars
  BY <1>29 DEF vars
<1> HIDE DEF TypeInv, TypeOK, HolderInv, Busy, WorkerPC, ClientPC, Active,
       Terminal
<1> QED
  BY <1>1, <1>2, <1>3, <1>4, <1>5, <1>6, <1>7, <1>8, <1>9, <1>10, <1>11,
     <1>12, <1>13, <1>14, <1>15, <1>16, <1>17, <1>18, <1>19, <1>20, <1>21,
     <1>22, <1>23, <1>24, <1>25, <1>26, <1>27, <1>28, <1>29
     DEF Next, Submit, Worker, NextJob, Process

\* A step that fails no attempt leaves a worker no more attempts than it had.
CountsNoMore(v) ==
  \/ wpc'[v] \notin Busy
  \/ attempt'[v] = 0 /\ wpc'[v] # "recheck" /\ job'[v] \in Runs
  \/ /\ wpc[v] \in Busy /\ job'[v] = job[v] /\ attempt'[v] = attempt[v]
     /\ wpc'[v] = wpc[v] \/ wpc'[v] # "recheck"

LEMMA CountKept ==
  ASSUME TypeInv, CountInv, UNCHANGED <<failures, recounts>>,
         \A r \in Runs : retries'[r] = retries[r] \/ retries'[r] = 0,
         \A v \in Workers : CountsNoMore(v)
  PROVE  CountInv'
<1>1. failures \in [Runs -> Nat] /\ recounts \in [Runs -> Nat]
  BY DEF TypeInv, TypeOK
<1>2. \A r \in Runs : retries'[r] <= failures'[r] + recounts'[r]
  BY <1>1 DEF CountInv
<1>3. ASSUME NEW v \in Workers
      PROVE  /\ wpc'[v] \in Busy => attempt'[v] <= failures'[job'[v]]
             /\ wpc'[v] = "recheck" => attempt'[v] < failures'[job'[v]]
  <2>1. wpc[v] \in Busy => job[v] \in Runs
    BY DEF TypeInv, HolderInv
  <2>2. "recheck" \in Busy
    BY DEF Busy
  <2> QED BY <1>1, <2>1, <2>2 DEF CountsNoMore, CountInv
<1> QED BY <1>2, <1>3 DEF CountInv

(* Every step keeps the counts of attempts below the counts of failures.  *)
LEMMA CountStep ==
  ASSUME TypeInv, CountInv, [Next]_vars
  PROVE  CountInv'
<1>0. /\ retries \in [Runs -> Nat] /\ failures \in [Runs -> Nat]
      /\ recounts \in [Runs -> Nat] /\ wpc \in [Workers -> WorkerPC]
      /\ job \in [Workers -> Runs \cup {None}] /\ attempt \in [Workers -> Nat]
      /\ \A w \in Workers : wpc[w] \in Busy => job[w] \in Runs
      /\ \A w \in Workers : wpc[w] \notin Busy => attempt[w] = 0
  BY PoolAssumption DEF TypeInv, TypeOK, HolderInv
<1>1. CASE UNCHANGED <<wpc, job, attempt, failures, recounts, retries>>
  BY <1>1 DEF CountInv
<1>2. ASSUME NEW to, wpc' = [w \in Workers |-> to], to \in {"off", "top"},
             UNCHANGED <<retries, failures, recounts>>
      PROVE  CountInv'
  <2>1. \A v \in Workers : CountsNoMore(v)
    BY <1>2 DEF CountsNoMore, Busy
  <2> QED BY <1>2, <2>1, CountKept
<1>3. ASSUME NEW w \in Workers, NEW from, NEW to, Move(w, from, to),
             to \notin Busy \/ (from \in Busy /\ to # "recheck")
      PROVE  CountInv'
  <2>1. /\ wpc[w] = from /\ wpc' = [wpc EXCEPT ![w] = to]
        /\ UNCHANGED <<job, attempt, retries, failures, recounts>>
    BY <1>3 DEF Move, Goto, redisVars, historyVars
  <2>2. \A v \in Workers : CountsNoMore(v)
    BY <1>0, <1>3, <2>1 DEF CountsNoMore
  <2> QED BY <2>1, <2>2, CountKept
<1>4. ASSUME NEW w \in Workers, NEW r \in Runs, Take(w, r), wpc[w] \notin Busy,
             UNCHANGED <<attempt, retries, failures, recounts>>
      PROVE  CountInv'
  <2>1. \A v \in Workers : CountsNoMore(v)
    BY <1>0, <1>4 DEF Take, CountsNoMore
  <2> QED BY <1>4, <2>1, CountKept
<1>5. ASSUME NEW w \in Workers, Finish(w),
             \A r \in Runs : retries'[r] = retries[r] \/ retries'[r] = 0
      PROVE  CountInv'
  <2>1. \A v \in Workers : CountsNoMore(v)
    BY <1>0, <1>5 DEF Finish, CountsNoMore, Busy
  <2> QED BY <1>5, <2>1, CountKept DEF Finish
<1>6. ASSUME NEW w \in Workers, EngineStarts(w) PROVE CountInv'
  <2>1. /\ wpc[w] = "call" /\ wpc' = [wpc EXCEPT ![w] = "exec"]
        /\ UNCHANGED <<job, attempt, retries, failures, recounts>>
    BY <1>6 DEF EngineStarts, Goto, redisVars
  <2>2. \A v \in Workers : CountsNoMore(v)
    BY <1>0, <2>1 DEF CountsNoMore, Busy
  <2> QED BY <2>1, <2>2, CountKept
<1>7. ASSUME NEW w \in Workers, AttemptFails(w) PROVE CountInv'
  <2>1. /\ wpc[w] \in Busy /\ wpc' = [wpc EXCEPT ![w] = "recheck"]
        /\ failures' = [failures EXCEPT ![job[w]] = @ + 1]
        /\ UNCHANGED <<job, attempt>>
    BY <1>7 DEF AttemptFails, Busy
  <2>2. PICK k, n \in Nat :
          /\ retries' = [retries EXCEPT ![job[w]] = retries[job[w]] + k]
          /\ recounts' = [recounts EXCEPT ![job[w]] = recounts[job[w]] + n]
          /\ k <= n + 1
    BY <1>7, Counting
  <2>3. \A r \in Runs : retries'[r] <= failures'[r] + recounts'[r]
    BY <1>0, <2>1, <2>2 DEF CountInv
  <2>4. ASSUME NEW v \in Workers
        PROVE  /\ wpc'[v] \in Busy => attempt'[v] <= failures'[job'[v]]
               /\ wpc'[v] = "recheck" => attempt'[v] < failures'[job'[v]]
    <3>1. \A r \in Runs : failures'[r] \in Nat /\ failures[r] <= failures'[r]
      BY <1>0, <2>1
    <3>2. CASE v = w
      <4>1. attempt[w] <= failures[job[w]] /\ failures'[job[w]] = failures[job[w]] + 1
        BY <1>0, <2>1 DEF CountInv
      <4> QED BY <1>0, <2>1, <3>2, <4>1
    <3>3. CASE v # w
      <4>1. wpc'[v] = wpc[v]
        BY <2>1, <3>3
      <4>2. wpc[v] \in Busy => job[v] \in Runs /\ failures[job[v]] \in Nat
        BY <1>0
      <4>3. "recheck" \in Busy
        BY DEF Busy
      <4> QED BY <1>0, <2>1, <3>1, <4>1, <4>2, <4>3 DEF CountInv
    <3> QED BY <3>2, <3>3
  <2> QED BY <2>3, <2>4 DEF CountInv
<1>8. ASSUME NEW w \in Workers, Retry(w) PROVE CountInv'
  <2>1. /\ wpc[w] = "recheck" /\ wpc' = [wpc EXCEPT ![w] = "load"]
        /\ attempt' = [attempt EXCEPT ![w] = @ + 1]
        /\ UNCHANGED <<job, retries, failures, recounts>>
    BY <1>8 DEF Retry, Goto, redisVars, historyVars
  <2>2. job[w] \in Runs /\ attempt[w] + 1 <= failures[job[w]]
    BY <1>0, <2>1 DEF CountInv, Busy
  <2> QED BY <1>0, <2>1, <2>2 DEF CountInv, Busy
<1>9. ASSUME NEW r \in Runs, CounterExpires(r) PROVE CountInv'
  <2>1. /\ retries' = [retries EXCEPT ![r] = 0]
        /\ UNCHANGED <<wpc, job, attempt, failures, recounts>>
    BY <1>9 DEF CounterExpires, workerVars, historyVars
  <2>2. \A q \in Runs : retries'[q] = retries[q] \/ retries'[q] = 0
    BY <1>0, <2>1
  <2>3. \A v \in Workers : CountsNoMore(v)
    BY <2>1 DEF CountsNoMore
  <2> QED BY <2>1, <2>2, <2>3, CountKept
<1>10. CASE Boot
  BY <1>2, <1>10 DEF Boot, redisVars, historyVars
<1>11. CASE Exit \/ Crash \/ Panic
  BY <1>2, <1>11 DEF Exit, Crash, Panic, Ends, redisVars
<1>12. CASE StopPool \/ QueueExpires \/ UNCHANGED vars
            \/ \E r \in Runs, st \in {"cancelled", "timed_out"} : Settle(r, st)
  BY <1>1, <1>12 DEF StopPool, QueueExpires, Settle, vars, redisVars, workerVars, historyVars
<1>13. ASSUME NEW c \in Clients, Submit(c) PROVE CountInv'
  BY <1>1, <1>13 DEF Submit, Accept, Enqueue, EnqueueAgain, Push, redisVars, workerVars,
                     historyVars
<1>14. ASSUME NEW w \in Workers,
              CheckStop(w) \/ ChannelEmpty(w) \/ QueueEmpty(w) \/ Idle(w) \/ Load(w)
       PROVE  CountInv'
  <2>1. /\ {"exited", "channel", "redis", "wait", "top"} \cap Busy = {}
        /\ "load" \in Busy /\ "call" # "recheck"
    BY DEF Busy
  <2> QED BY <1>3, <1>14, <2>1 DEF CheckStop, ChannelEmpty, QueueEmpty, Idle, Load
<1>15. ASSUME NEW w \in Workers, TakeFromChannel(w) PROVE CountInv'
  <2>1. jobCh[1] \in Runs /\ Head(jobCh) = jobCh[1]
    BY <1>15, HeadTailProperties, LenProperties DEF TakeFromChannel, TypeInv, TypeOK
  <2> QED BY <1>4, <1>15, <2>1 DEF TakeFromChannel, Busy, redisVars, historyVars
<1>16. ASSUME NEW w \in Workers, Dequeue(w) PROVE CountInv'
  <2>1. PICK r \in queue : Take(w, r)
    BY <1>16 DEF Dequeue
  <2>2. r \in Runs
    BY DEF TypeInv, TypeOK
  <2> QED BY <1>4, <1>16, <2>1, <2>2 DEF Dequeue, Busy, historyVars
<1>17. ASSUME NEW w \in Workers, DequeueFails(w) PROVE CountInv'
  <2>1. /\ wpc[w] = "redis" /\ wpc' = [wpc EXCEPT ![w] = "top"]
        /\ UNCHANGED <<job, attempt, retries, failures, recounts>>
    BY <1>17 DEF DequeueFails, Goto
  <2>2. \A v \in Workers : CountsNoMore(v)
    BY <1>0, <2>1 DEF CountsNoMore, Busy
  <2> QED BY <2>1, <2>2, CountKept
<1>18. ASSUME NEW w \in Workers,
              Skip(w) \/ NoLongerWanted(w) \/ GiveUp(w) \/ OutOfTime(w)
       PROVE  CountInv'
  BY <1>5, <1>18 DEF Skip, NoLongerWanted, GiveUp, OutOfTime
<1>19. ASSUME NEW w \in Workers, EngineReturns(w) PROVE CountInv'
  <2>1. \A r \in Runs : retries'[r] = retries[r] \/ retries'[r] = 0
    BY <1>0, <1>19 DEF EngineReturns, ClearCount
  <2> QED BY <1>5, <1>19, <2>1 DEF EngineReturns
<1> QED
  BY <1>6, <1>7, <1>8, <1>9, <1>10, <1>11, <1>12, <1>13, <1>14, <1>15, <1>16, <1>17,
     <1>18, <1>19 DEF Next, Worker, NextJob, Process

(* No step gives a run up too early.                                      *)
LEMMA GivenUpStep ==
  ASSUME TypeInv, CountInv, GivenUpEarned, [Next]_vars
  PROVE  GivenUpEarned'
<1>0. /\ failures \in [Runs -> Nat] /\ recounts \in [Runs -> Nat] /\ gaveUp \subseteq Runs
      /\ \A w \in Workers : wpc[w] \in Busy => job[w] \in Runs
  BY DEF TypeInv, TypeOK, HolderInv
<1>1. CASE UNCHANGED <<gaveUp, failures, recounts>>
  BY <1>1 DEF GivenUpEarned
<1>2. ASSUME NEW w \in Workers, AttemptFails(w) PROVE GivenUpEarned'
  <2>1. PICK n \in Nat : recounts' = [recounts EXCEPT ![job[w]] = recounts[job[w]] + n]
    BY <1>2, Counting
  <2>2. gaveUp' = gaveUp /\ failures' = [failures EXCEPT ![job[w]] = @ + 1]
    BY <1>2 DEF AttemptFails
  <2>3. \A r \in Runs : failures'[r] + recounts'[r] >= failures[r] + recounts[r]
    BY <1>0, <2>1, <2>2
  <2>4. MaxRetries \in Nat /\ \A r \in Runs : failures[r] + recounts[r] \in Nat
    BY <1>0, PoolAssumption
  <2>5. \A r \in Runs : failures'[r] + recounts'[r] \in Nat
    BY <1>0, <2>1, <2>2
  <2> QED BY <1>0, <2>2, <2>3, <2>4, <2>5 DEF GivenUpEarned
<1>3. ASSUME NEW w \in Workers, GiveUp(w) PROVE GivenUpEarned'
  <2>1. /\ job[w] \in Runs /\ attempt[w] < failures[job[w]]
        /\ retries[job[w]] <= failures[job[w]] + recounts[job[w]]
    BY <1>0, <1>3 DEF GiveUp, CountInv, Busy
  <2>2. /\ retries[job[w]] \in Nat /\ attempt[w] \in Nat /\ MaxRetries \in Nat
        /\ failures[job[w]] \in Nat /\ recounts[job[w]] \in Nat
    BY <1>0, <2>1, PoolAssumption DEF TypeInv, TypeOK
  <2>3. failures[job[w]] + recounts[job[w]] > MaxRetries
    BY <1>3, <2>1, <2>2 DEF GiveUp, Exhausted
  <2>4. gaveUp' = gaveUp \cup {job[w]} /\ UNCHANGED <<failures, recounts>>
    BY <1>3 DEF GiveUp, Finish
  <2> QED BY <2>3, <2>4 DEF GivenUpEarned
<1>4. CASE Boot \/ StopPool \/ Exit \/ Crash \/ Panic \/ QueueExpires \/ UNCHANGED vars
           \/ (\E r \in Runs, st \in {"cancelled", "timed_out"} : Settle(r, st))
           \/ (\E r \in Runs : CounterExpires(r))
  BY <1>1, <1>4 DEF Boot, StopPool, Exit, Crash, Panic, Ends, QueueExpires, Settle,
                    CounterExpires, historyVars, vars
<1>5. ASSUME NEW c \in Clients, Submit(c) PROVE GivenUpEarned'
  BY <1>1, <1>5 DEF Submit, Accept, Enqueue, EnqueueAgain, Push, historyVars
<1>6. ASSUME NEW w \in Workers, CheckStop(w) \/ NextJob(w) \/ Load(w) \/ Retry(w)
                                \/ EngineStarts(w)
      PROVE  GivenUpEarned'
  BY <1>1, <1>6 DEF CheckStop, NextJob, Load, Retry, EngineStarts, Move, TakeFromChannel,
                    ChannelEmpty, Dequeue, QueueEmpty, DequeueFails, Idle, historyVars
<1>7. ASSUME NEW w \in Workers, Skip(w) \/ NoLongerWanted(w) \/ OutOfTime(w)
                                \/ EngineReturns(w)
      PROVE  GivenUpEarned'
  BY <1>1, <1>7 DEF Skip, NoLongerWanted, OutOfTime, EngineReturns, Finish
<1> QED BY <1>2, <1>3, <1>4, <1>5, <1>6, <1>7 DEF Next, Worker, Process

(* No step loses an accepted run that no fault touches.                   *)
LEMMA KeptStep ==
  ASSUME TypeInv, RedisKeepsIt, [Next]_vars
  PROVE  RedisKeepsIt'
<1> USE PoolAssumption DEF redisVars, procVars, workerVars, clientVars,
       historyVars, RedisKeepsIt, Held, TypeInv, TypeOK, HolderInv, Busy
<1>1. CASE Boot
  BY <1>1 DEF Boot, Fault
<1>2. CASE StopPool
  BY <1>2 DEF StopPool
<1>3. CASE Exit
  BY <1>3 DEF Exit, Ends, Running, Held, Fault
<1>4. CASE Crash
  BY <1>4 DEF Crash, Ends, Running, Held, Fault
<1>5. CASE Panic
  BY <1>5 DEF Panic, Ends, Running, Held
<1>6. ASSUME NEW c \in Clients, NEW r \in Runs, Accept(c, r) PROVE RedisKeepsIt'
  BY <1>6 DEF Accept, ClientGoto
<1>7. ASSUME NEW c \in Clients, Enqueue(c) PROVE RedisKeepsIt'
  BY SMTT(30), <1>7 DEF Enqueue, ClientGoto, Running, Fault
<1>8. ASSUME NEW c \in Clients, EnqueueAgain(c) PROVE RedisKeepsIt'
  BY <1>8 DEF EnqueueAgain, Running, Fault
<1>9. ASSUME NEW c \in Clients, Push(c) PROVE RedisKeepsIt'
  BY <1>9 DEF Push, ClientGoto, Running
<1>10. ASSUME NEW w \in Workers, CheckStop(w) PROVE RedisKeepsIt'
  BY <1>10 DEF CheckStop, Move, Goto
<1>11. ASSUME NEW w \in Workers, TakeFromChannel(w) PROVE RedisKeepsIt'
  <2>1. job[w] = None /\ None \notin Runs
    BY <1>11 DEF TakeFromChannel
  <2>2. \A v \in Workers : job[v] # None => job'[v] = job[v]
    BY <1>11, <2>1 DEF TakeFromChannel, Take
  <2>3. ASSUME NEW x \in Held PROVE x \in Held'
    <3>1. PICK v \in Workers : job[v] = x /\ x # None
      OBVIOUS
    <3> QED BY <2>2, <3>1
  <2> HIDE DEF Held
  <2> QED BY <1>11, <2>3 DEF TakeFromChannel
<1>12. ASSUME NEW w \in Workers, ChannelEmpty(w) PROVE RedisKeepsIt'
  BY <1>12 DEF ChannelEmpty, Move, Goto
<1>13. ASSUME NEW w \in Workers, Dequeue(w) PROVE RedisKeepsIt'
  <2>1. job[w] = None /\ None \notin Runs
    BY <1>13 DEF Dequeue
  <2>2. PICK r \in queue : queue' = queue \ {r} /\ Take(w, r)
    BY <1>13 DEF Dequeue
  <2>3. job'[w] = r /\ r # None
    BY <2>1, <2>2 DEF Take
  <2>4. \A v \in Workers : job[v] # None => job'[v] = job[v]
    BY <2>1, <2>2 DEF Take
  <2>5. Held \subseteq Held'
    BY ONLY <2>4 DEF Held
  <2>6. r \in Held'
    BY <2>3
  <2> HIDE DEF Held
  <2> QED BY <1>13, <2>2, <2>5, <2>6 DEF Dequeue
<1>14. ASSUME NEW w \in Workers, QueueEmpty(w) PROVE RedisKeepsIt'
  BY <1>14 DEF QueueEmpty, Move, Goto
<1>15. ASSUME NEW w \in Workers, DequeueFails(w) PROVE RedisKeepsIt'
  BY <1>15 DEF DequeueFails, Goto, Fault
<1>16. ASSUME NEW w \in Workers, Idle(w) PROVE RedisKeepsIt'
  BY <1>16 DEF Idle, Move, Goto
<1>17. ASSUME NEW w \in Workers, Skip(w) PROVE RedisKeepsIt'
  BY <1>17 DEF Skip, Finish
<1>18. ASSUME NEW w \in Workers, Load(w) PROVE RedisKeepsIt'
  BY <1>18 DEF Load, Move, Goto
<1>19. ASSUME NEW w \in Workers, EngineStarts(w) PROVE RedisKeepsIt'
  BY <1>19 DEF EngineStarts, Goto
<1>20. ASSUME NEW w \in Workers, EngineReturns(w) PROVE RedisKeepsIt'
  BY <1>20 DEF EngineReturns, Outcomes, ClearCount, Fault, Finish
<1>21. ASSUME NEW w \in Workers, AttemptFails(w) PROVE RedisKeepsIt'
  BY <1>21 DEF AttemptFails, CountFailure, Fault
<1>22. ASSUME NEW w \in Workers, NoLongerWanted(w) PROVE RedisKeepsIt'
  BY <1>22 DEF NoLongerWanted, Finish
<1>23. ASSUME NEW w \in Workers, GiveUp(w) PROVE RedisKeepsIt'
  BY <1>23 DEF GiveUp, Finish
<1>24. ASSUME NEW w \in Workers, Retry(w) PROVE RedisKeepsIt'
  BY <1>24 DEF Retry, Goto, Exhausted, Fault
<1>25. ASSUME NEW w \in Workers, OutOfTime(w) PROVE RedisKeepsIt'
  BY <1>25 DEF OutOfTime, Finish
<1>26. ASSUME NEW r \in Runs, NEW st \in {"cancelled", "timed_out"}, Settle(r, st) PROVE RedisKeepsIt'
  BY <1>26 DEF Settle
<1>27. CASE QueueExpires
  BY <1>27 DEF QueueExpires, Fault
<1>28. ASSUME NEW r \in Runs, CounterExpires(r) PROVE RedisKeepsIt'
  BY <1>28 DEF CounterExpires, Fault
<1>29. CASE UNCHANGED vars
  BY <1>29 DEF vars
<1> HIDE DEF RedisKeepsIt, Held, TypeInv, TypeOK, HolderInv, Busy
<1> QED
  BY <1>1, <1>2, <1>3, <1>4, <1>5, <1>6, <1>7, <1>8, <1>9, <1>10, <1>11,
     <1>12, <1>13, <1>14, <1>15, <1>16, <1>17, <1>18, <1>19, <1>20, <1>21,
     <1>22, <1>23, <1>24, <1>25, <1>26, <1>27, <1>28, <1>29
     DEF Next, Submit, Worker, NextJob, Process

-----------------------------------------------------------------------------
(* Tickets.                                                                *)

\* The tickets of a run are counted.
LEMMA TicketTypes ==
  ASSUME TypeInv, TicketInv, NEW r \in Runs
  PROVE  /\ InQueue(r) \in {0, 1}
         /\ IsFiniteSet(Slots(r)) /\ Cardinality(Slots(r)) \in Nat
         /\ IsFiniteSet(Pushers(r)) /\ Cardinality(Pushers(r)) \in Nat
         /\ IsFiniteSet(Carriers(r)) /\ Cardinality(Carriers(r)) \in Nat
         /\ starts[r] \in Nat /\ submits[r] \in Nat /\ faults \in Nat
<1>1. IsFiniteSet(1..Len(jobCh)) /\ Slots(r) \in SUBSET (1..Len(jobCh))
  BY FS_Interval, LenProperties DEF TypeInv, TypeOK, Slots
<1>2. IsFiniteSet(Slots(r))
  BY <1>1, FS_Subset
<1>3. IsFiniteSet(Pushers(r)) /\ IsFiniteSet(Carriers(r))
  BY DEF TicketInv
<1>4. starts[r] \in Nat /\ submits[r] \in Nat /\ faults \in Nat
  BY PoolAssumption DEF PoolAssumption, TypeInv, TypeOK
<1> QED BY <1>2, <1>3, <1>4, FS_CardinalityType DEF InQueue

\* What a step may do to the tickets of a run without harm.
Kept(r) ==
  /\ queue' \cap {r} \subseteq queue
  /\ Slots(r)' \subseteq Slots(r)
  /\ Pushers(r)' \subseteq Pushers(r)
  /\ Carriers(r)' \subseteq Carriers(r)
  /\ starts'[r] = starts[r] /\ submits'[r] = submits[r]
  /\ faults' \in Nat /\ faults' >= faults

TicketInvOf(r) ==
  /\ IsFiniteSet(Pushers(r)) /\ IsFiniteSet(Carriers(r))
  /\ starts[r] + Tickets(r) <= 2 * submits[r] + faults

LEMMA TicketsKept ==
  ASSUME TypeInv, TicketInv, NEW r \in Runs, Kept(r)
  PROVE  TicketInvOf(r)'
<1>1. /\ InQueue(r) \in {0, 1}
      /\ IsFiniteSet(Slots(r)) /\ Cardinality(Slots(r)) \in Nat
      /\ IsFiniteSet(Pushers(r)) /\ Cardinality(Pushers(r)) \in Nat
      /\ IsFiniteSet(Carriers(r)) /\ Cardinality(Carriers(r)) \in Nat
      /\ starts[r] \in Nat /\ submits[r] \in Nat /\ faults \in Nat
  BY TicketTypes
<1>2. IsFiniteSet(Slots(r)') /\ Cardinality(Slots(r)') <= Cardinality(Slots(r))
  BY <1>1, FS_Subset DEF Kept
<1>3. IsFiniteSet(Pushers(r)') /\ Cardinality(Pushers(r)') <= Cardinality(Pushers(r))
  BY <1>1, FS_Subset DEF Kept
<1>4. IsFiniteSet(Carriers(r)') /\ Cardinality(Carriers(r)') <= Cardinality(Carriers(r))
  BY <1>1, FS_Subset DEF Kept
<1>5. InQueue(r)' \in {0, 1} /\ InQueue(r)' <= InQueue(r)
  BY DEF Kept, InQueue
<1>6. /\ Cardinality(Slots(r)') \in Nat
      /\ Cardinality(Pushers(r)') \in Nat
      /\ Cardinality(Carriers(r)') \in Nat
  BY <1>2, <1>3, <1>4, FS_CardinalityType
<1>7. starts[r] + Tickets(r) <= 2 * submits[r] + faults
  BY DEF TicketInv
<1>8. starts'[r] = starts[r] /\ submits'[r] = submits[r] /\ faults' \in Nat /\ faults' >= faults
  BY DEF Kept
<1> HIDE DEF Slots, Pushers, Carriers, InQueue
<1>9. starts'[r] + Tickets(r)' <= 2 * submits'[r] + faults'
  BY <1>1, <1>2, <1>3, <1>4, <1>5, <1>6, <1>7, <1>8 DEF Tickets
<1> QED BY <1>3, <1>4, <1>9 DEF TicketInvOf

\* A submission adds two tickets at most: a place in Redis and a push to come.
LEMMA EnqueueTickets ==
  ASSUME TypeInv, TicketInv, NEW c \in Clients, Enqueue(c), NEW r \in Runs
  PROVE  TicketInvOf(r)'
<1> USE DEF Enqueue, ClientGoto, Running
<1>1. /\ faults' \in Nat /\ faults' >= faults
      /\ sub[c] \in Runs /\ cpc[c] = "enqueue"
      /\ UNCHANGED <<jobCh, wpc, job, starts, sub>>
      /\ queue' \subseteq queue \cup {sub[c]}
  <2>1. faults' \in Nat /\ faults' >= faults
    BY DEF Fault, TypeInv, TypeOK
  <2>2. sub[c] \in Runs /\ cpc[c] = "enqueue"
    BY DEF TypeInv, HolderInv
  <2> QED BY <2>1, <2>2 DEF workerVars
<1>2. Slots(r)' = Slots(r) /\ Carriers(r)' = Carriers(r)
  BY <1>1 DEF Slots, Carriers
<1>3. cpc' = [cpc EXCEPT ![c] = "push"] /\ cpc \in [Clients -> ClientPC]
      /\ submits' = [submits EXCEPT ![sub[c]] = @ + 1] /\ submits \in [Runs -> Nat]
  BY DEF TypeInv, TypeOK
<1>4. CASE sub[c] # r
  <2>1. Pushers(r)' = Pushers(r)
    BY <1>1, <1>3, <1>4 DEF Pushers
  <2>2. Kept(r)
    BY <1>1, <1>2, <1>3, <1>4, <2>1 DEF Kept
  <2> QED BY <2>2, TicketsKept
<1>5. CASE sub[c] = r
  <2>1. Pushers(r)' = Pushers(r) \cup {c} /\ c \notin Pushers(r)
    BY <1>1, <1>3, <1>5 DEF Pushers
  <2>2. /\ InQueue(r) \in {0, 1}
        /\ IsFiniteSet(Slots(r)) /\ Cardinality(Slots(r)) \in Nat
        /\ IsFiniteSet(Pushers(r)) /\ Cardinality(Pushers(r)) \in Nat
        /\ IsFiniteSet(Carriers(r)) /\ Cardinality(Carriers(r)) \in Nat
        /\ starts[r] \in Nat /\ submits[r] \in Nat /\ faults \in Nat
    BY TicketTypes
  <2>3. IsFiniteSet(Pushers(r)') /\ Cardinality(Pushers(r)') = Cardinality(Pushers(r)) + 1
    BY <2>1, <2>2, FS_AddElement
  <2>4. submits'[r] = submits[r] + 1 /\ starts'[r] = starts[r] /\ InQueue(r)' \in {0, 1}
    BY <1>1, <1>3, <1>5 DEF InQueue
  <2>5. starts[r] + Tickets(r) <= 2 * submits[r] + faults
    BY DEF TicketInv
  <2> HIDE DEF Enqueue
  <2>6. starts'[r] + Tickets(r)' <= 2 * submits'[r] + faults'
    BY <1>1, <1>2, <2>2, <2>3, <2>4, <2>5 DEF Tickets
  <2> QED BY <1>2, <2>2, <2>3, <2>6 DEF TicketInvOf
<1> QED BY <1>4, <1>5

\* A ZADD that is sent twice is one place, and one disturbance, more.
LEMMA EnqueueAgainTickets ==
  ASSUME TypeInv, TicketInv, NEW c \in Clients, EnqueueAgain(c), NEW r \in Runs
  PROVE  TicketInvOf(r)'
<1>1. /\ faults' = faults + 1
      /\ UNCHANGED <<jobCh, wpc, job, starts, sub, cpc, submits>>
      /\ queue' = queue \cup {sub[c]}
  BY DEF EnqueueAgain, Fault, workerVars, clientVars, historyVars
<1>2. Slots(r)' = Slots(r) /\ Carriers(r)' = Carriers(r) /\ Pushers(r)' = Pushers(r)
  BY <1>1 DEF Slots, Carriers, Pushers
<1>3. /\ InQueue(r) \in {0, 1}
      /\ Cardinality(Slots(r)) \in Nat
      /\ IsFiniteSet(Pushers(r)) /\ Cardinality(Pushers(r)) \in Nat
      /\ IsFiniteSet(Carriers(r)) /\ Cardinality(Carriers(r)) \in Nat
      /\ starts[r] \in Nat /\ submits[r] \in Nat /\ faults \in Nat
  BY TicketTypes
<1>4. InQueue(r)' \in {0, 1}
  BY DEF InQueue
<1>5. starts[r] + Tickets(r) <= 2 * submits[r] + faults
  BY DEF TicketInv
<1>6. starts'[r] + Tickets(r)' <= 2 * submits'[r] + faults'
  BY <1>1, <1>2, <1>3, <1>4, <1>5 DEF Tickets
<1> QED BY <1>2, <1>3, <1>6 DEF TicketInvOf

\* What a caller pushes was its ticket before.
LEMMA PushTickets ==
  ASSUME TypeInv, TicketInv, NEW c \in Clients, Push(c), NEW r \in Runs
  PROVE  TicketInvOf(r)'
<1>1. /\ cpc[c] = "push" /\ cpc' = [cpc EXCEPT ![c] = "done"]
      /\ cpc \in [Clients -> ClientPC] /\ sub[c] \in Runs
      /\ UNCHANGED <<queue, wpc, job, starts, sub, submits, faults>>
      /\ jobCh \in Seq(Runs) /\ Len(jobCh) \in Nat
      /\ jobCh' = jobCh \/ jobCh' = Append(jobCh, sub[c])
  BY LenProperties
     DEF Push, ClientGoto, redisVars, workerVars, historyVars, TypeInv, TypeOK, HolderInv
<1>2. Carriers(r)' = Carriers(r) /\ InQueue(r)' = InQueue(r)
  BY <1>1 DEF Carriers, InQueue
<1>3. Pushers(r)' = IF sub[c] = r THEN Pushers(r) \ {c} ELSE Pushers(r)
  BY <1>1 DEF Pushers
<1>4. faults \in Nat
  BY PoolAssumption DEF PoolAssumption, TypeInv, TypeOK
<1>5. CASE jobCh' = jobCh \/ sub[c] # r
  <2>1. Slots(r)' = Slots(r)
    <3>1. CASE jobCh' = jobCh
      BY <3>1 DEF Slots
    <3>2. CASE jobCh' = Append(jobCh, sub[c]) /\ sub[c] # r
      <4>1. /\ Len(jobCh') = Len(jobCh) + 1
            /\ \A i \in 1..Len(jobCh) : jobCh'[i] = jobCh[i]
            /\ jobCh'[Len(jobCh) + 1] # r
        BY <1>1, <3>2, AppendProperties
      <4> QED BY <1>1, <4>1 DEF Slots
    <3> QED BY <1>1, <1>5, <3>1, <3>2
  <2>2. Kept(r)
    BY <1>1, <1>2, <1>3, <1>4, <2>1 DEF Kept
  <2> QED BY <2>2, TicketsKept
<1>6. CASE jobCh' = Append(jobCh, sub[c]) /\ sub[c] = r
  <2> DEFINE n == Len(jobCh) + 1
  <2>1. /\ Len(jobCh') = n
        /\ \A i \in 1..Len(jobCh) : jobCh'[i] = jobCh[i]
        /\ jobCh'[n] = r
    BY <1>1, <1>6, AppendProperties
  <2>2. Slots(r)' = Slots(r) \cup {n} /\ n \notin Slots(r)
    BY <1>1, <2>1 DEF Slots
  <2>3. /\ InQueue(r) \in {0, 1}
        /\ IsFiniteSet(Slots(r)) /\ Cardinality(Slots(r)) \in Nat
        /\ IsFiniteSet(Pushers(r)) /\ Cardinality(Pushers(r)) \in Nat
        /\ IsFiniteSet(Carriers(r)) /\ Cardinality(Carriers(r)) \in Nat
        /\ starts[r] \in Nat /\ submits[r] \in Nat
    BY TicketTypes
  <2>4. Cardinality(Slots(r)') = Cardinality(Slots(r)) + 1
    BY <2>2, <2>3, FS_AddElement
  <2>5. Pushers(r)' = Pushers(r) \ {c} /\ c \in Pushers(r)
    BY <1>1, <1>3, <1>6 DEF Pushers
  <2>6. IsFiniteSet(Pushers(r)') /\ Cardinality(Pushers(r)') = Cardinality(Pushers(r)) - 1
    BY <2>3, <2>5, FS_RemoveElement
  <2>7. starts[r] + Tickets(r) <= 2 * submits[r] + faults
    BY DEF TicketInv
  <2>8. starts'[r] = starts[r] /\ submits'[r] = submits[r] /\ faults' = faults
    BY <1>1
  <2>9. starts'[r] + Tickets(r)' <= 2 * submits'[r] + faults'
    BY <1>2, <1>4, <2>3, <2>4, <2>6, <2>7, <2>8 DEF Tickets
  <2> QED BY <1>2, <2>3, <2>6, <2>9 DEF TicketInvOf
<1> QED BY <1>1, <1>5, <1>6

\* A worker that takes a run is its carrier, and was no carrier before.
LEMMA TakenUp ==
  ASSUME TypeInv, NEW w \in Workers, NEW q \in Runs, Take(w, q),
         wpc[w] \in {"channel", "wait", "redis"}, NEW r \in Runs
  PROVE  /\ w \notin Carriers(r)
         /\ Carriers(r)' = IF q = r THEN Carriers(r) \cup {w} ELSE Carriers(r)
BY DEF TypeInv, TypeOK, Take, Carriers

\* The head of the channel leaves its slot for a worker; the other slots move up.
LEMMA TakeTickets ==
  ASSUME TypeInv, TicketInv, NEW w \in Workers, TakeFromChannel(w), NEW r \in Runs
  PROVE  TicketInvOf(r)'
<1> DEFINE q == Head(jobCh)
           m == Len(jobCh)
<1>1. /\ q \in Runs /\ q = jobCh[1] /\ m \in Nat \ {0}
      /\ jobCh' = Tail(jobCh) /\ Len(jobCh') = m - 1
      /\ \A i \in 1..m - 1 : jobCh'[i] = jobCh[i + 1]
      /\ Take(w, q) /\ wpc[w] \in {"channel", "wait", "redis"}
      /\ UNCHANGED <<queue, cpc, sub, starts, submits, faults>>
  BY HeadTailProperties, LenProperties
     DEF TakeFromChannel, TypeInv, TypeOK, redisVars, clientVars, historyVars
<1> HIDE DEF q, m
<1>2. /\ w \notin Carriers(r)
      /\ Carriers(r)' = IF q = r THEN Carriers(r) \cup {w} ELSE Carriers(r)
  BY <1>1, TakenUp
<1>3. Pushers(r)' = Pushers(r) /\ InQueue(r)' = InQueue(r)
  BY <1>1 DEF Pushers, InQueue
<1>4. /\ InQueue(r) \in {0, 1}
      /\ IsFiniteSet(Slots(r)) /\ Cardinality(Slots(r)) \in Nat
      /\ IsFiniteSet(Pushers(r)) /\ Cardinality(Pushers(r)) \in Nat
      /\ IsFiniteSet(Carriers(r)) /\ Cardinality(Carriers(r)) \in Nat
      /\ starts[r] \in Nat /\ submits[r] \in Nat /\ faults \in Nat
  BY TicketTypes
<1>5. 1 \in Slots(r) <=> q = r
  BY <1>1 DEF Slots, m
<1>6. Cardinality(Slots(r)') = Cardinality(Slots(r) \ {1})
  <2> DEFINE f == [i \in Slots(r)' |-> i + 1]
  <2>1. Slots(r)' = {i \in 1..m - 1 : jobCh[i + 1] = r}
    BY <1>1 DEF Slots
  <2>2. Slots(r) \ {1} = {i \in 2..m : jobCh[i] = r}
    BY <1>1 DEF Slots, m
  <2>3. f \in Bijection(Slots(r)', Slots(r) \ {1})
    <3>1. \A i \in Slots(r)' : f[i] \in Slots(r) \ {1}
      BY <1>1, <2>1, <2>2
    <3>2. \A i, j \in Slots(r)' : f[i] = f[j] => i = j
      BY <1>1, <2>1
    <3>3. ASSUME NEW j \in Slots(r) \ {1} PROVE \E i \in Slots(r)' : f[i] = j
      <4>1. j - 1 \in Slots(r)' /\ f[j - 1] = j
        BY <1>1, <2>1, <2>2
      <4> QED BY <4>1
    <3> QED BY <3>1, <3>2, <3>3 DEF Bijection, Injection, Surjection, IsInjective
  <2>4. IsFiniteSet(Slots(r) \ {1})
    BY <1>4, FS_RemoveElement
  <2>5. IsFiniteSet(Slots(r)')
    <3>1. Slots(r)' \in SUBSET (1..m - 1) /\ IsFiniteSet(1..m - 1)
      BY <1>1, <2>1, FS_Interval
    <3> QED BY <3>1, FS_Subset
  <2> QED BY <2>3, <2>5, FS_Bijection DEF ExistsBijection
<1>7. Cardinality(Slots(r)') = IF q = r THEN Cardinality(Slots(r)) - 1 ELSE Cardinality(Slots(r))
  BY <1>4, <1>5, <1>6, FS_RemoveElement
<1>8. IsFiniteSet(Carriers(r)') /\ Cardinality(Carriers(r)')
        = IF q = r THEN Cardinality(Carriers(r)) + 1 ELSE Cardinality(Carriers(r))
  BY <1>2, <1>4, FS_AddElement, SMTT(30)
<1>9. starts[r] + Tickets(r) <= 2 * submits[r] + faults
  BY DEF TicketInv
<1>10. starts'[r] = starts[r] /\ submits'[r] = submits[r] /\ faults' = faults
  BY <1>1
<1>11. starts'[r] + Tickets(r)' <= 2 * submits'[r] + faults'
  BY <1>3, <1>4, <1>7, <1>8, <1>9, <1>10 DEF Tickets
<1> QED BY <1>3, <1>4, <1>8, <1>11 DEF TicketInvOf

\* ZPOPMAX takes the run from the queue to the worker.
LEMMA DequeueTickets ==
  ASSUME TypeInv, TicketInv, NEW w \in Workers, Dequeue(w), NEW r \in Runs
  PROVE  TicketInvOf(r)'
<1>1. PICK q \in queue : queue' = queue \ {q} /\ Take(w, q)
  BY DEF Dequeue
<1>2. /\ q \in Runs /\ wpc[w] \in {"channel", "wait", "redis"}
      /\ UNCHANGED <<jobCh, cpc, sub, starts, submits, faults>>
  BY DEF Dequeue, TypeInv, TypeOK, clientVars, historyVars
<1>3. /\ w \notin Carriers(r)
      /\ Carriers(r)' = IF q = r THEN Carriers(r) \cup {w} ELSE Carriers(r)
  BY <1>1, <1>2, TakenUp
<1>4. Pushers(r)' = Pushers(r) /\ Slots(r)' = Slots(r)
  BY <1>2 DEF Pushers, Slots
<1>5. /\ IsFiniteSet(Pushers(r)) /\ Cardinality(Pushers(r)) \in Nat
      /\ Cardinality(Slots(r)) \in Nat
      /\ IsFiniteSet(Carriers(r)) /\ Cardinality(Carriers(r)) \in Nat
      /\ starts[r] \in Nat /\ submits[r] \in Nat /\ faults \in Nat
  BY TicketTypes
<1>6. IsFiniteSet(Carriers(r)') /\ Cardinality(Carriers(r)')
        = IF q = r THEN Cardinality(Carriers(r)) + 1 ELSE Cardinality(Carriers(r))
  <2>1. CASE q = r
    <3>1. Carriers(r)' = Carriers(r) \cup {w} /\ w \notin Carriers(r)
      BY <1>3, <2>1
    <3>2. /\ IsFiniteSet(Carriers(r) \cup {w})
          /\ Cardinality(Carriers(r) \cup {w}) = Cardinality(Carriers(r)) + 1
      <4>1. IsFiniteSet(Carriers(r)) /\ w \notin Carriers(r)
        BY <1>5, <3>1
      <4> QED BY <4>1, FS_AddElement
    <3> QED BY <2>1, <3>1, <3>2
  <2>2. CASE q # r
    BY <1>3, <1>5, <2>2
  <2> QED BY <2>1, <2>2
<1>7. InQueue(r) \in {0, 1} /\ InQueue(r)' = IF q = r THEN InQueue(r) - 1 ELSE InQueue(r)
  BY <1>1 DEF InQueue
<1>8. starts[r] + Tickets(r) <= 2 * submits[r] + faults
  BY DEF TicketInv
<1>9. starts'[r] + Tickets(r)' <= 2 * submits'[r] + faults'
  BY <1>2, <1>4, <1>5, <1>6, <1>7, <1>8 DEF Tickets
<1> QED BY <1>4, <1>5, <1>6, <1>9 DEF TicketInvOf

\* The engine starts once for the ticket that its worker was.
LEMMA StartTickets ==
  ASSUME TypeInv, TicketInv, NEW w \in Workers, EngineStarts(w), NEW r \in Runs
  PROVE  TicketInvOf(r)'
<1>1. /\ wpc[w] = "call" /\ wpc' = [wpc EXCEPT ![w] = "exec"] /\ wpc \in [Workers -> WorkerPC]
      /\ job[w] \in Runs /\ starts' = [starts EXCEPT ![job[w]] = @ + 1]
      /\ starts \in [Runs -> Nat]
      /\ UNCHANGED <<queue, jobCh, job, cpc, sub, submits, faults>>
  BY DEF EngineStarts, Goto, TypeInv, TypeOK, HolderInv, Busy, redisVars, clientVars
<1>2. /\ Pushers(r)' = Pushers(r) /\ Slots(r)' = Slots(r) /\ InQueue(r)' = InQueue(r)
      /\ Carriers(r)' = Carriers(r) \ {w}
      /\ w \in Carriers(r) <=> job[w] = r
  BY <1>1 DEF Pushers, Slots, InQueue, Carriers
<1>3. /\ InQueue(r) \in {0, 1}
      /\ Cardinality(Slots(r)) \in Nat
      /\ IsFiniteSet(Pushers(r)) /\ Cardinality(Pushers(r)) \in Nat
      /\ IsFiniteSet(Carriers(r)) /\ Cardinality(Carriers(r)) \in Nat
      /\ starts[r] \in Nat /\ submits[r] \in Nat /\ faults \in Nat
  BY TicketTypes
<1>4. IsFiniteSet(Carriers(r)') /\ Cardinality(Carriers(r)')
        = IF job[w] = r THEN Cardinality(Carriers(r)) - 1 ELSE Cardinality(Carriers(r))
  BY <1>2, <1>3, FS_RemoveElement
<1>5. starts'[r] = IF job[w] = r THEN starts[r] + 1 ELSE starts[r]
  BY <1>1
<1>6. starts[r] + Tickets(r) <= 2 * submits[r] + faults
  BY DEF TicketInv
<1>7. starts'[r] + Tickets(r)' <= 2 * submits'[r] + faults'
  BY <1>1, <1>2, <1>3, <1>4, <1>5, <1>6 DEF Tickets
<1> QED BY <1>2, <1>3, <1>4, <1>7 DEF TicketInvOf

\* Every step leaves no run more tickets than it may have.
LEMMA TicketStep ==
  ASSUME TypeInv, TicketInv, [Next]_vars
  PROVE  TicketInv'
<1> USE PoolAssumption DEF redisVars, procVars, workerVars, clientVars, historyVars
<1>0. faults \in Nat
  BY DEF TypeInv, TypeOK
<1> SUFFICES ASSUME NEW r \in Runs PROVE TicketInvOf(r)'
  BY DEF TicketInv, TicketInvOf
<1> SUFFICES \/ Kept(r)
             \/ \E c \in Clients : Enqueue(c) \/ EnqueueAgain(c) \/ Push(c)
             \/ \E w \in Workers : TakeFromChannel(w) \/ Dequeue(w) \/ EngineStarts(w)
  BY TicketsKept, EnqueueTickets, EnqueueAgainTickets, PushTickets, TakeTickets,
     DequeueTickets, StartTickets
<1> USE <1>0 DEF Kept, Slots, Pushers, Carriers
<1>1. CASE Boot
  BY <1>1 DEF Boot, Fault
<1>2. CASE StopPool \/ UNCHANGED vars
  BY <1>2 DEF StopPool, vars
<1>3. CASE Exit \/ Crash \/ Panic
  <2>1. faults' = faults \/ faults' = faults + 1
    BY <1>3 DEF Exit, Crash, Panic, Fault
  <2>2. \E how \in {"down", "panicked"} : Ends(how)
    BY <1>3 DEF Exit, Crash, Panic
  <2> QED BY <2>1, <2>2 DEF Ends
<1>4. ASSUME NEW c \in Clients, NEW q \in Runs, Accept(c, q) PROVE Kept(r)
  BY <1>4 DEF Accept, ClientGoto, TypeInv, TypeOK
<1>5. ASSUME NEW w \in Workers, Move(w, "top", "exited") \/ Move(w, "top", "channel")
                \/ Move(w, "channel", "redis") \/ Move(w, "redis", "wait")
                \/ Move(w, "wait", "top") \/ Move(w, "load", "call")
      PROVE Kept(r)
  <2>1. PICK to \in WorkerPC : wpc' = [wpc EXCEPT ![w] = to] /\ (to \in {"load", "call", "recheck"} => wpc[w] = "load")
    BY <1>5 DEF Move, Goto, WorkerPC
  <2>2. UNCHANGED <<queue, jobCh, job, cpc, sub, starts, submits, faults>>
    BY <1>5 DEF Move, redisVars, clientVars, historyVars
  <2>3. wpc \in [Workers -> WorkerPC]
    BY DEF TypeInv, TypeOK
  <2> QED BY <2>1, <2>2, <2>3
<1>6. ASSUME NEW w \in Workers, DequeueFails(w) PROVE Kept(r)
  BY <1>6, SMTT(30) DEF DequeueFails, Goto, Fault, TypeInv, TypeOK
<1>7. ASSUME NEW w \in Workers, Finish(w), faults' = faults \/ faults' = faults + 1
      PROVE Kept(r)
  BY <1>7 DEF Finish, TypeInv, TypeOK
<1>8. ASSUME NEW w \in Workers,
             Skip(w) \/ EngineReturns(w) \/ NoLongerWanted(w) \/ GiveUp(w) \/ OutOfTime(w)
      PROVE Kept(r)
  BY <1>7, <1>8 DEF Skip, EngineReturns, ClearCount, Fault, NoLongerWanted, GiveUp, OutOfTime
<1>9. ASSUME NEW w \in Workers, AttemptFails(w) PROVE Kept(r)
  BY <1>9 DEF AttemptFails, CountFailure, Fault, TypeInv, TypeOK
<1>10. ASSUME NEW w \in Workers, Retry(w) PROVE Kept(r)
  BY <1>10 DEF Retry, Goto, Fault, TypeInv, TypeOK
<1>11. ASSUME NEW w \in Workers,
              CheckStop(w) \/ ChannelEmpty(w) \/ QueueEmpty(w) \/ Idle(w) \/ Load(w)
       PROVE Kept(r)
  BY <1>5, <1>11 DEF CheckStop, ChannelEmpty, QueueEmpty, Idle, Load
<1>12. CASE QueueExpires \/ \E q \in Runs : CounterExpires(q)
  BY <1>12 DEF QueueExpires, CounterExpires, Fault
<1>13. CASE \E q \in Runs, st \in {"cancelled", "timed_out"} : Settle(q, st)
  BY <1>13 DEF Settle
<1> HIDE DEF Kept
<1> QED BY <1>1, <1>2, <1>3, <1>4, <1>6, <1>8, <1>9, <1>10, <1>11, <1>12, <1>13
        DEF Next, Submit, Worker, NextJob, Process

\* At the start there are no tickets.
LEMMA TicketInit == Init => TicketInv
<1> SUFFICES ASSUME Init, NEW r \in Runs PROVE TicketInvOf(r)
  BY DEF TicketInv, TicketInvOf
<1>1. Slots(r) = {} /\ Pushers(r) = {} /\ Carriers(r) = {} /\ InQueue(r) = 0
  BY DEF Init, Slots, Pushers, Carriers, InQueue
<1>2. starts[r] = 0 /\ submits[r] = 0 /\ faults = 0
  BY DEF Init
<1> QED BY <1>1, <1>2, FS_EmptySet DEF TicketInvOf, Tickets

(* All of it holds initially.                                             *)
LEMMA InitInv == Init => TypeInv /\ CountInv /\ GivenUpEarned /\ RedisKeepsIt
  BY PoolAssumption, EmptySeq DEF Init, TypeInv, TypeOK, HolderInv, Busy,
     WorkerPC, ClientPC, Active,
     Terminal, CountInv, GivenUpEarned, RedisKeepsIt
-----------------------------------------------------------------------------
(* Every variable keeps its type; the channel never holds more than its    *)
(* capacity and no worker makes more attempts than it has retries and one. *)
THEOREM TypeCorrect == Spec => []TypeOK
<1>1. Init => TypeInv
  BY InitInv
<1>2. TypeInv /\ [Next]_vars => TypeInv'
  BY TypeStep
<1>3. TypeInv => TypeOK
  BY DEF TypeInv
<1> QED BY <1>1, <1>2, <1>3, PTL DEF Spec

(* A run is given up only after MaxRetries + 1 failures, whatever workers   *)
(* and restarts they are spread over.                                      *)
THEOREM GivingUpIsEarned == Spec => []GivenUpEarned
<1>1. Init => TypeInv /\ CountInv /\ GivenUpEarned
  BY InitInv
<1>2. TypeInv /\ CountInv /\ GivenUpEarned /\ [Next]_vars
        => TypeInv' /\ CountInv' /\ GivenUpEarned'
  BY TypeStep, CountStep, GivenUpStep
<1> QED BY <1>1, <1>2, PTL DEF Spec

(* An accepted run that no fault touched is in Redis or in the hands of a   *)
(* worker, through every shutdown and start of the process.                *)
THEOREM AcceptedIsKept == Spec => []RedisKeepsIt
<1>1. Init => TypeInv /\ RedisKeepsIt
  BY InitInv
<1>2. TypeInv /\ RedisKeepsIt /\ [Next]_vars => TypeInv' /\ RedisKeepsIt'
  BY TypeStep, KeptStep
<1> QED BY <1>1, <1>2, PTL DEF Spec

(* A submission makes the engine execute a run at most twice: each place it *)
(* is put in is a ticket for one execution, and only a command that Redis   *)
(* executes twice adds another.                                             *)
THEOREM ExecutionsAreBounded == Spec => []BoundedExecutions
<1>1. Init => TypeInv /\ TicketInv
  BY InitInv, TicketInit
<1>2. TypeInv /\ TicketInv /\ [Next]_vars => TypeInv' /\ TicketInv'
  BY TypeStep, TicketStep
<1>3. TypeInv /\ TicketInv => BoundedExecutions
  <2> SUFFICES ASSUME TypeInv, TicketInv, NEW r \in Runs
               PROVE  starts[r] <= 2 * submits[r] + faults
    BY DEF BoundedExecutions
  <2> QED BY TicketTypes DEF TicketInv, Tickets
<1> QED BY <1>1, <1>2, <1>3, PTL DEF Spec
=============================================================================
