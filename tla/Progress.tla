------------------------------- MODULE Progress -------------------------------
(***************************************************************************)
(* What an execution tells of its progress, and what the logs of an        *)
(* experiment show of it.  Redis keeps, for each run, the list of its      *)
(* steps with their statuses, as one value that the engine reads, changes  *)
(* and writes back, and a percentage.  A command of Redis may fail, and    *)
(* does once the context of the execution has ended; errors are ignored.   *)
(***************************************************************************)
EXTENDS Naturals, FiniteSets

CONSTANTS
  Executors,       (* executions of one experiment                           *)
  NTemplates,      (* its templates                                          *)
  MaxRedisFaults   (* BOUND: commands that fail, keys that expire, stops     *)

ASSUME ProgressAssumption ==
  /\ IsFiniteSet(Executors)
  /\ NTemplates \in Nat \ {0} /\ MaxRedisFaults \in Nat

RunNumbers == 1..Cardinality(Executors)
Templates == 1..NTemplates
Absent == <<>>
Statuses == {"pending", "running", "completed", "failed", "cancelled"}

VARIABLES
  newest,      (* the last run_number of experiment_runs                     *)
  works,       (* the run each execution works on; 0 before                  *)
  stage,       (* where it is                                                *)
  item,        (* the template it is at                                      *)
  writes,      (* the status it is about to write                            *)
  copy,        (* the list it has read                                       *)
  cut,         (* executions whose context has ended                         *)
  lists,       (* experiment:steps:{run}                                     *)
  percent,     (* experiment:progress:{run}; 0 without one                   *)
  logs,        (* the steps the last answer of GetExperimentLogs showed      *)
  redisFaults

progressVars == <<newest, works, stage, item, writes, copy, cut, lists, percent,
                  logs, redisFaults>>

List == [Templates -> Statuses]

ProgressTypeOK ==
  /\ newest \in 0..Cardinality(Executors)
  /\ works \in [Executors -> 0..Cardinality(Executors)]
  /\ stage \in [Executors -> {"idle", "publish", "item", "get", "set", "work", "end"}]
  /\ item \in [Executors -> 1..NTemplates + 1]
  /\ writes \in [Executors -> Statuses]
  /\ copy \in [Executors -> List \cup {Absent}]
  /\ cut \subseteq Executors
  /\ lists \in [RunNumbers -> List \cup {Absent}]
  /\ percent \in [RunNumbers -> 0..100]
  /\ logs \in List \cup {Absent}
  /\ redisFaults \in 0..MaxRedisFaults

ProgressInit ==
  /\ newest = 0
  /\ works = [e \in Executors |-> 0]
  /\ stage = [e \in Executors |-> "idle"]
  /\ item = [e \in Executors |-> 1]
  /\ writes = [e \in Executors |-> "pending"]
  /\ copy = [e \in Executors |-> Absent]
  /\ cut = {}
  /\ lists = [r \in RunNumbers |-> Absent]
  /\ percent = [r \in RunNumbers |-> 0]
  /\ logs = Absent

Proceeds(e, from, to) ==
  /\ stage[e] = from
  /\ stage' = [stage EXCEPT ![e] = to]

Answered(e) == e \notin cut /\ UNCHANGED redisFaults
Unanswered(e) ==
  \/ e \in cut /\ UNCHANGED redisFaults
  \/ e \notin cut /\ redisFaults > 0 /\ redisFaults' = redisFaults - 1

\* findOrCreateRun: the newest run while nobody has ended it, or a new one.
FindRun(e) ==
  /\ Proceeds(e, "idle", "publish")
  /\ \/ /\ newest > 0
        /\ \A f \in Executors : works[f] = newest => stage[f] # "end"
        /\ works' = [works EXCEPT ![e] = newest]
        /\ UNCHANGED newest
     \/ /\ \A f \in Executors : works[f] # 0 => works[f] < newest \/ stage[f] = "end"
        /\ newest' = newest + 1
        /\ works' = [works EXCEPT ![e] = newest + 1]
  /\ UNCHANGED <<item, writes, copy, cut, lists, percent, logs, redisFaults>>

\* publishStepStatuses
Publish(e) ==
  /\ Proceeds(e, "publish", "item")
  /\ \/ /\ Answered(e)
        /\ lists' = [lists EXCEPT ![works[e]] = [i \in Templates |-> "pending"]]
     \/ Unanswered(e) /\ UNCHANGED lists
  /\ UNCHANGED <<newest, works, item, writes, copy, cut, percent, logs>>

\* The next template, or the end: updateProgress.
NextItem(e) ==
  LET done == item[e] > NTemplates
      share == IF done THEN 100 ELSE ((item[e] - 1) * 100) \div NTemplates
  IN /\ Proceeds(e, "item", IF done THEN "end" ELSE "get")
     /\ \/ Answered(e) /\ percent' = [percent EXCEPT ![works[e]] = share]
        \/ Unanswered(e) /\ UNCHANGED percent
     /\ writes' = IF done THEN writes ELSE [writes EXCEPT ![e] = "running"]
     /\ UNCHANGED <<newest, works, item, copy, cut, lists, logs>>

\* Where an execution goes when it has written the status of its template.
AfterWrite(e) ==
  CASE writes[e] = "running"   -> "work"
    [] writes[e] = "cancelled" -> "end"
    [] OTHER                   -> "item"

Written(e, from) ==
  /\ Proceeds(e, from, AfterWrite(e))
  /\ item' = IF AfterWrite(e) = "item" THEN [item EXCEPT ![e] = @ + 1] ELSE item

\* Slip: the list is read once and kept.
GetOnce(e) ==
  /\ \/ /\ Proceeds(e, "get", "set") /\ Answered(e)
        /\ lists[works[e]] # Absent
        /\ copy' = IF copy[e] = Absent THEN [copy EXCEPT ![e] = lists[works[e]]] ELSE copy
        /\ UNCHANGED item
     \/ /\ Written(e, "get") /\ UNCHANGED copy
        /\ \/ lists[works[e]] = Absent /\ Answered(e)
           \/ Unanswered(e)
  /\ UNCHANGED <<newest, works, writes, cut, lists, percent, logs>>

\* updateStepStatus: GET, which finds no list after its 24 hours, ...
Get(e) ==
  /\ \/ /\ Proceeds(e, "get", "set") /\ Answered(e)
        /\ lists[works[e]] # Absent
        /\ copy' = [copy EXCEPT ![e] = lists[works[e]]]
        /\ UNCHANGED item
     \/ /\ Written(e, "get") /\ UNCHANGED copy
        /\ \/ lists[works[e]] = Absent /\ Answered(e)
           \/ Unanswered(e)
  /\ UNCHANGED <<newest, works, writes, cut, lists, percent, logs>>

\* ... and SET of the whole list.
Set(e) ==
  /\ Written(e, "set")
  /\ \/ /\ Answered(e)
        /\ lists' = [lists EXCEPT ![works[e]] = [copy[e] EXCEPT ![item[e]] = writes[e]]]
     \/ Unanswered(e) /\ UNCHANGED lists
  /\ UNCHANGED <<newest, works, writes, copy, cut, percent, logs>>

\* The stop key is seen, or executeStep returns.
Works(e) ==
  /\ Proceeds(e, "work", "get")
  /\ \E s \in {"completed", "failed", "cancelled"} :
       /\ s = "cancelled" => e \notin cut
       /\ writes' = [writes EXCEPT ![e] = s]
  /\ UNCHANGED <<newest, works, item, copy, cut, lists, percent, logs, redisFaults>>

\* StopExperiment, or the end of the 30 minutes.
Cut(e) ==
  /\ stage[e] \notin {"idle", "end"} /\ e \notin cut
  /\ redisFaults > 0 /\ redisFaults' = redisFaults - 1
  /\ cut' = cut \cup {e}
  /\ UNCHANGED <<newest, works, stage, item, writes, copy, lists, percent, logs>>

ListExpires(r) ==
  /\ lists[r] # Absent /\ redisFaults > 0
  /\ redisFaults' = redisFaults - 1
  /\ lists' = [lists EXCEPT ![r] = Absent]
  /\ UNCHANGED <<newest, works, stage, item, writes, copy, cut, percent, logs>>

\* GetExperimentLogs: the list of the newest run, with the pods and the runs of
\* the experiment, which other modules have.
Logs ==
  /\ newest > 0
  /\ logs' = lists[newest]
  /\ UNCHANGED <<newest, works, stage, item, writes, copy, cut, lists, percent, redisFaults>>

ProgressNext(E) ==
  \/ \E e \in E : FindRun(e) \/ Publish(e) \/ NextItem(e) \/ Get(e) \/ Set(e) \/ Works(e) \/ Cut(e)
  \/ \E r \in RunNumbers : ListExpires(r)

-----------------------------------------------------------------------------
Rank == [pending |-> 0, running |-> 1, completed |-> 2, failed |-> 2, cancelled |-> 2]

Alone(r) == Cardinality({e \in Executors : works[e] = r}) = 1

Forward(r) ==
  /\ percent[r] <= percent'[r]
  /\ lists[r] # Absent /\ lists'[r] # Absent =>
       \A i \in Templates : \/ lists'[r][i] = lists[r][i]
                            \/ Rank[lists[r][i]] < Rank[lists'[r][i]]

(* As long as one execution works on a run, what Redis tells of it only    *)
(* moves forward, whichever commands fail and whenever the execution is    *)
(* cut short: no step returns to an earlier status or changes its last     *)
(* one, and the percentage does not fall.  Two executions of one run undo  *)
(* each other's updates.  engine.go:1311-1366                              *)
ProgressForward == [][\A r \in RunNumbers : Alone(r)' => Forward(r)]_progressVars
=============================================================================
