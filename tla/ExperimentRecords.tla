--------------------------- MODULE ExperimentRecords ---------------------------
(***************************************************************************)
(* The rows of experiments, experiment_templates and experiment_runs under *)
(* the requests that create, change, read, delete and list experiments     *)
(* (experiment/handlers.go), and under the executions that add runs.       *)
(*                                                                         *)
(* An action is one statement sent to the database, or one transaction.  A *)
(* statement that fails is a step of its own where the request goes on all *)
(* the same or has done a part of its work; elsewhere it ends the request. *)
(* The executions are those of RunLifecycle with the steps that do not     *)
(* touch these tables left out.                                            *)
(***************************************************************************)
EXTENDS AttackTemplates, Paging

CONSTANTS
  MaxRuns,      (* BOUND: rows experiment_runs may hold                      *)
  PageSize,     (* page_size of the listing clients                          *)
  Column,       (* what each column that a list is sorted by holds: a number *)
                (* for each row, which rows may share                        *)
  Bodies,       (* the sets of templates asked for in a CreateExperiment     *)
  Creates, Updates, Deletes, Gets, Lists,  (* the requests                   *)
  Users,        (* requests that execute an experiment                       *)
  Fires,        (* BOUND: executions the scheduler has in flight (Scheduler) *)
  Taking        (* the sets of requests and replicas that may meet           *)

RunIds == 1..MaxRuns
Columns == {"created_at", "name", "updated_at", "template name", "run created_at"}

ASSUME RecordsAssumption ==
  /\ MaxRuns \in Nat
  /\ PageSize \in Nat \ {0}
  /\ Column \in [Columns -> [Exps \cup Tmpls \cup RunIds -> Nat]]
  /\ \A T \in Bodies : T # {} /\ T \subseteq Tmpls
  /\ Users \cap Fires = {}
  /\ (Users \cup Fires) \cap (Creates \cup Updates \cup Deletes \cup Gets \cup Lists) = {}
  /\ Deletes \cap (Creates \cup Updates \cup Gets \cup Lists) = {}
  /\ Gets \cap (Creates \cup Updates \cup Lists) = {}

Calls == Users \cup Fires
Tables == {"experiments", "templates", "runs"}
SortColumns == Columns \cup {"status"}
ExpStatus == {"draft", "active", "running", "stopped", "archived"}
RunStatus == {"pending", "running", "completed", "failed"}
Absent == {"none", "gone"}

VARIABLES
  expSt,     (* experiments.status, "none" before and "gone" after the row   *)
  cron,      (* the experiments whose schedule_cron is not NULL              *)
  runExp,    (* experiment_runs.experiment_id                                *)
  runSt,     (* experiment_runs.status                                       *)
  pc,        (* where each request is                                        *)
  exp,       (* the experiment it is about                                   *)
  todo,      (* CreateExperiment: templates it has still to look up          *)
  asked,     (* the templates the request wants; per experiment in `wanted`  *)
  wanted,    (* HISTORY: the templates each stored experiment was created with *)
  answer,    (* GetExperiment: the templates in its answer                   *)
  run,       (* the run an execution drives                                  *)
  list,      (* a listing client: what it has learnt so far                  *)
  failed,    (* HISTORY: the requests one of whose statements has failed     *)
  taking     (* the requests and replicas there are in this behaviour        *)

recordVars == <<expSt, cron, runExp, runSt, pc, exp, todo, asked, wanted,
                answer, run, list, failed, taking>>

Requests == Creates \cup Updates \cup Deletes \cup Gets \cup Lists \cup Calls

\* What a listing client knows, and HISTORY: the rows the table had when it set
\* out and whether it has them still, those an answer left out as unreadable,
\* and those received twice.  A row is the value it is sorted by and its number.
ListState == [table : Tables, by : SortColumns, page : Nat, total : Nat,
              seen : SUBSET (Nat \X Nat), base : SUBSET (Nat \X Nat),
              still : {"yes", "no"}, unread : SUBSET (Nat \X Nat),
              twice : SUBSET (Nat \X Nat)]

PC == {"idle", "lookup", "commit", "write", "steps", "row", "archive",
       "templates", "runs", "count", "page", "activate", "load", "find",
       "insert", "start", "drive", "done"}

RecordsTypeOK ==
  /\ TemplatesTypeOK
  /\ expSt \in [Exps -> ExpStatus \cup Absent]
  /\ cron \subseteq Exps
  /\ runExp \in [RunIds -> Exps \cup {None}]
  /\ runSt \in [RunIds -> RunStatus \cup Absent]
  /\ pc \in [Requests -> PC]
  /\ exp \in [Requests -> Exps \cup {None}]
  /\ todo \in [Creates -> SUBSET Tmpls]
  /\ asked \in [Creates -> SUBSET Tmpls]
  /\ wanted \in [Exps -> SUBSET Tmpls]
  /\ answer \in [Gets -> SUBSET Tmpls]
  /\ run \in [Calls -> RunIds \cup {None}]
  /\ list \in [Lists -> ListState]
  /\ failed \subseteq Requests
  /\ taking \in Taking

NewList(table, by) ==
  [table |-> table, by |-> by, page |-> 1, total |-> 0, seen |-> {}, base |-> {},
   still |-> "yes", unread |-> {}, twice |-> {}]

RecordsInit ==
  /\ TemplatesInit
  /\ taking \in Taking
  /\ expSt = [x \in Exps |-> "none"]
  /\ cron = {}
  /\ runExp = [r \in RunIds |-> None]
  /\ runSt = [r \in RunIds |-> "none"]
  /\ pc = [p \in Requests |-> "idle"]
  /\ exp = [p \in Requests |-> None]
  /\ todo = [p \in Creates |-> {}]
  /\ asked = [p \in Creates |-> {}]
  /\ wanted = [x \in Exps |-> {}]
  /\ answer = [p \in Gets |-> {}]
  /\ run = [p \in Calls |-> None]
  /\ list = [p \in Lists |-> NewList("experiments", "created_at")]
  /\ failed = {}

Goto(p, from, to) == /\ p \in taking
                     /\ pc[p] = from
                     /\ pc' = [pc EXCEPT ![p] = to]

ExpRows == {x \in Exps : expSt[x] \notin Absent}
RunRows == {r \in RunIds : runSt[r] \notin Absent}
RunsOf(x) == {r \in RunRows : runExp[r] = x}
ActiveRunsOf(x) == {r \in RunsOf(x) : runSt[r] \in {"pending", "running"}}
First(S) == {i \in S : \A j \in S : i <= j}
Newest(S) == {i \in S : \A j \in S : j <= i}

requestVars == <<todo, asked, wanted, answer, list, failed, taking>>
expTables == <<expSt, cron, steps>>
runTable == <<runExp, runSt>>

-----------------------------------------------------------------------------
(* CreateExperiment.                                                       *)

\* A body with at least one template; schedule_cron comes with it or not.
CreateBegin(p) ==
  /\ p \in Creates
  /\ Goto(p, "idle", "lookup")
  /\ \E T \in Bodies :
       /\ asked' = [asked EXCEPT ![p] = T]
       /\ todo' = [todo EXCEPT ![p] = T]
  /\ UNCHANGED <<expTables, runTable, exp, wanted, answer, run, list, failed, taking>>

\* One lookup for each template, by id or by slug; an unknown or inactive one
\* ends the request.
CreateLookup(p) ==
  /\ p \in Creates
  /\ \E t \in todo[p] :
       /\ todo' = [todo EXCEPT ![p] = @ \ {t}]
       /\ Goto(p, "lookup", IF t \notin Stored \cap active THEN "done"
                            ELSE IF todo[p] = {t} THEN "commit" ELSE "lookup")
  /\ UNCHANGED <<expTables, runTable, exp, asked, wanted, answer, run, list,
                 failed, taking>>

\* Slip: a step that cannot be inserted is skipped, the rest is committed.
CommitWhatFits(p) ==
  /\ p \in Creates
  /\ Goto(p, "commit", "done")
  /\ \E x \in First({y \in Exps : expSt[y] = "none"}) :
       /\ expSt' = [expSt EXCEPT ![x] = "draft"]
       /\ steps' = [steps EXCEPT ![x] = asked[p] \cap Stored]
       /\ wanted' = [wanted EXCEPT ![x] = asked[p]]
       /\ exp' = [exp EXCEPT ![p] = x]
       /\ cron' \in {cron, cron \cup {x}}
  /\ UNCHANGED <<runTable, todo, asked, answer, run, list, failed, taking>>

\* The transaction: the experiment and all its steps.  A step whose template
\* was deleted since its lookup violates the foreign key and rolls back all.
CreateCommit(p) ==
  /\ p \in Creates
  /\ Goto(p, "commit", "done")
  /\ IF asked[p] \subseteq Stored
       THEN \E x \in First({y \in Exps : expSt[y] = "none"}) :
              /\ expSt' = [expSt EXCEPT ![x] = "draft"]
              /\ steps' = [steps EXCEPT ![x] = asked[p]]
              /\ wanted' = [wanted EXCEPT ![x] = asked[p]]
              /\ exp' = [exp EXCEPT ![p] = x]
              /\ cron' \in {cron, cron \cup {x}}
       ELSE UNCHANGED <<expTables, wanted, exp>>
  /\ UNCHANGED <<runTable, todo, asked, answer, run, list, failed, taking>>

-----------------------------------------------------------------------------
(* UpdateExperiment, DeleteExperiment, GetExperiment: what a request reads *)
(* of the row decides what it writes later.                                *)

UpdateRead(p) ==
  /\ p \in Updates
  /\ \E x \in Exps :
       /\ exp' = [exp EXCEPT ![p] = x]
       /\ Goto(p, "idle", IF expSt[x] = "draft" THEN "write" ELSE "done")
  /\ UNCHANGED <<expTables, runTable, requestVars, run>>

\* WHERE id AND organization_id: whatever the status has become.  The body
\* names a schedule or clears the one there was; the scheduler is not told.
UpdateWrite(p) ==
  /\ p \in Updates
  /\ Goto(p, "write", "done")
  /\ cron' \in IF exp[p] \in ExpRows
               THEN {cron \cup {exp[p]}, cron \ {exp[p]}} ELSE {cron}
  /\ UNCHANGED <<expSt, steps, runTable, exp, requestVars, run>>

\* One SELECT for the status and for a run that is 'running'.
DeleteRead(p) ==
  /\ p \in Deletes
  /\ \E x \in Exps :
       /\ exp' = [exp EXCEPT ![p] = x]
       /\ Goto(p, "idle",
               IF x \notin ExpRows \/ \E r \in RunsOf(x) : runSt[r] = "running"
                 THEN "done"
               ELSE IF expSt[x] = "draft" THEN "steps" ELSE "archive")
  /\ UNCHANGED <<expTables, runTable, requestVars, run>>

restOfRequest == <<todo, asked, wanted, answer, list, taking>>

\* An error ends the request, whether the steps are gone by then or not.
DeleteSteps(p) ==
  /\ p \in Deletes
  /\ \/ /\ Goto(p, "steps", "row")
        /\ steps' = [steps EXCEPT ![exp[p]] = {}]
        /\ UNCHANGED failed
     \/ /\ Goto(p, "steps", "done")
        /\ steps' \in {steps, [steps EXCEPT ![exp[p]] = {}]}
        /\ failed' = failed \cup {p}
  /\ UNCHANGED <<expSt, cron, runTable, exp, restOfRequest, run>>

\* The row, and by cascade its steps and runs.  The two DELETEs are in no
\* transaction: when this one fails the draft remains, without its steps.
DeleteRow(p) ==
  /\ p \in Deletes
  /\ Goto(p, "row", "done")
  /\ \/ /\ expSt' = [expSt EXCEPT ![exp[p]] = "gone"]
        /\ steps' = [steps EXCEPT ![exp[p]] = {}]
        /\ cron' = cron \ {exp[p]}
        /\ runSt' = [r \in RunIds |->
                       IF r \in RunsOf(exp[p]) THEN "gone" ELSE runSt[r]]
        /\ UNCHANGED failed
     \/ /\ failed' = failed \cup {p}
        /\ UNCHANGED <<expTables, runSt>>
  /\ UNCHANGED <<runExp, exp, restOfRequest, run>>

\* Slip: a status the table does not know.
ArchiveAsDeleted(p) ==
  /\ p \in Deletes
  /\ Goto(p, "archive", "done")
  /\ expSt' = [expSt EXCEPT ![exp[p]] = IF @ \in Absent THEN @ ELSE "deleted"]
  /\ UNCHANGED <<cron, steps, runTable, exp, requestVars, run>>

DeleteArchives(p) ==
  /\ p \in Deletes
  /\ Goto(p, "archive", "done")
  /\ expSt' = [expSt EXCEPT ![exp[p]] = IF @ \in Absent THEN @ ELSE "archived"]
  /\ UNCHANGED <<cron, steps, runTable, exp, requestVars, run>>

GetRow(p) ==
  /\ p \in Gets
  /\ \E x \in Exps :
       /\ exp' = [exp EXCEPT ![p] = IF x \in ExpRows THEN x ELSE None]
       /\ Goto(p, "idle", IF x \in ExpRows THEN "templates" ELSE "done")
  /\ UNCHANGED <<expTables, runTable, requestVars, run>>

\* Slip: a row that cannot be scanned is left out, as in the lists.
GetReadableSteps(p) ==
  /\ p \in Gets
  /\ Goto(p, "templates", "runs")
  /\ \E T \in SUBSET steps[exp[p]] : answer' = [answer EXCEPT ![p] = T]
  /\ UNCHANGED <<expTables, runTable, exp, todo, asked, wanted, run, list,
                 failed, taking>>

\* If the query fails, or a row of it, the experiment is answered without steps.
GetSteps(p) ==
  /\ p \in Gets
  /\ Goto(p, "templates", "runs")
  /\ \/ /\ answer' = [answer EXCEPT ![p] = steps[exp[p]]]
        /\ UNCHANGED failed
     \/ /\ failed' = failed \cup {p}
        /\ UNCHANGED answer
  /\ UNCHANGED <<expTables, runTable, exp, todo, asked, wanted, run, list, taking>>

\* The five most recent runs complete the answer; no property is about them.
GetRuns(p) ==
  /\ p \in Gets
  /\ Goto(p, "runs", "done")
  /\ UNCHANGED <<expTables, runTable, exp, requestVars, run>>

-----------------------------------------------------------------------------
(* ListExperiments, ListTemplatesHandler and GetExperimentRuns, under a    *)
(* client that asks for page after page up to the total_pages of the last  *)
(* answer.  Each answer is made of two statements.                         *)

\* The columns the ORDER BY of each list may name: sort_by for experiments.
SortedBy(table) ==
  CASE table = "experiments" -> {"created_at", "updated_at", "name", "status"}
    [] table = "templates"   -> {"template name"}
    [] table = "runs"        -> {"run created_at"}

StatusOrder == [active |-> 1, archived |-> 2, draft |-> 3, running |-> 4, stopped |-> 5]

\* What row i holds in a column.  A descending order is one of other numbers;
\* nothing is known of updated_at, which moves with every UPDATE, so there all
\* rows may hold the same.
SortKey(by, i) == IF by = "status" THEN StatusOrder[expSt[i]] ELSE Column[by][i]

Numbers(table) ==
  CASE table = "experiments" -> ExpRows
    [] table = "templates"   -> Stored \cap active
    [] table = "runs"        -> RunsOf(1)

Rows(table, by) == {<<SortKey(by, i), i>> : i \in Numbers(table)}

\* The client sets out for one of the tables.
ListBegin(l) ==
  /\ l \in Lists
  /\ Goto(l, "idle", "count")
  /\ \E table \in Tables : \E by \in SortedBy(table) :
       list' = [list EXCEPT ![l] =
                 [NewList(table, by) EXCEPT !.base = Rows(table, by)]]
  /\ UNCHANGED <<expTables, runTable, exp, todo, asked, wanted, answer, run,
                 failed, taking>>

Still(c) == IF c.still = "yes" /\ Rows(c.table, c.by) = c.base THEN "yes" ELSE "no"

ListCount(l) ==
  /\ l \in Lists
  /\ Goto(l, "count", "page")
  /\ list' = [list EXCEPT ![l].total = Cardinality(Rows(list[l].table, list[l].by)),
                          ![l].still = Still(list[l])]
  /\ UNCHANGED <<expTables, runTable, exp, todo, asked, wanted, answer, run,
                 failed, taking>>

\* The modules listed beside the rows of a page of templates count too.
Listed(c, items) ==
  c.total + IF c.table = "templates"
              THEN Cardinality(ModulesBeside({r[2] : r \in items})) ELSE 0

\* No ORDER BY has a tie-breaker: rows with the same value come in any order,
\* another one with each query.  A row of templates or of runs that cannot be
\* scanned is left out; one of experiments fails the request, which is repeated.
ListPage(l) ==
  /\ l \in Lists
  /\ LET c == list[l]
         rows == Rows(c.table, c.by)
     IN \E tie \in TieBreaks(rows) :
          \E bad \in IF c.table = "experiments" THEN {{}}
                      ELSE SUBSET PageOf(rows, tie, PageAsked(c.page), PageSize) :
            LET items == PageOf(rows, tie, PageAsked(c.page), PageSize) \ bad
            IN /\ Goto(l, "page",
                       IF c.page < TotalPages(Listed(c, items), PageSize)
                         THEN "count" ELSE "done")
               /\ list' = [list EXCEPT ![l].page = @ + 1,
                                       ![l].seen = @ \cup items,
                                       ![l].unread = @ \cup bad,
                                       ![l].twice = @ \cup (c.seen \cap items),
                                       ![l].still = Still(c)]
  /\ UNCHANGED <<expTables, runTable, exp, todo, asked, wanted, answer, run,
                 failed, taking>>

-----------------------------------------------------------------------------
(* Executions.  A user's request goes through Handler.ExecuteExperiment,   *)
(* an execution of the scheduler calls the engine at once, with no user.   *)

callVars == <<requestVars, expTables>>

\* Slip: a draft is executed without being made active.
ActivateOnlyStopped(p) ==
  /\ p \in Users
  /\ \E x \in ExpRows :
       /\ exp' = [exp EXCEPT ![p] = x]
       /\ Goto(p, "idle", IF expSt[x] = "running" THEN "done" ELSE "load")
       /\ expSt' = [expSt EXCEPT ![x] = IF @ = "stopped" THEN "active" ELSE @]
  /\ UNCHANGED <<cron, steps, runTable, requestVars, run>>

\* The status is read and made 'active' in two statements; what happens between
\* them is the subject of RunLifecycle.  When the UPDATE fails the execution goes
\* on all the same.
Activate(p) ==
  /\ p \in Users
  /\ \E x \in ExpRows :
       /\ exp' = [exp EXCEPT ![p] = x]
       /\ Goto(p, "idle", IF expSt[x] = "running" THEN "done" ELSE "load")
       /\ \/ /\ expSt' = [expSt EXCEPT ![x] = IF @ = "running" THEN @ ELSE "active"]
             /\ UNCHANGED failed
          \/ /\ expSt[x] \notin {"running", "active"}
             /\ failed' = failed \cup {p}
             /\ UNCHANGED expSt
  /\ UNCHANGED <<cron, steps, runTable, restOfRequest, run>>

\* loadExperiment, loadExperimentTemplates: no row or no step is an error.
\* The status of the experiment is not looked at.
LoadExperiment(p) ==
  /\ p \in Calls
  /\ Goto(p, "load", IF exp[p] \in ExpRows /\ steps[exp[p]] # {}
                       THEN "find" ELSE "done")
  /\ UNCHANGED <<callVars, runTable, exp, run>>

\* findActiveRun: the newest active run is adopted.
FindActiveRun(p) ==
  /\ p \in Calls
  /\ LET found == Newest(ActiveRunsOf(exp[p]))
     IN /\ Goto(p, "find", IF found = {} THEN "insert" ELSE "start")
        /\ run' \in IF found = {} THEN {run}
                    ELSE {[run EXCEPT ![p] = r] : r \in found}
  /\ UNCHANGED <<callVars, runTable, exp>>

\* Slip: the run of an active experiment is inserted in the name of its creator.
InsertForCreator(p) ==
  /\ p \in Calls
  /\ IF exp[p] \in ExpRows /\ (p \in Users \/ expSt[exp[p]] = "active")
       THEN \E r \in First({q \in RunIds : runSt[q] = "none"}) :
              /\ Goto(p, "insert", "start")
              /\ runExp' = [runExp EXCEPT ![r] = exp[p]]
              /\ runSt' = [runSt EXCEPT ![r] = "pending"]
              /\ run' = [run EXCEPT ![p] = r]
       ELSE Goto(p, "insert", "done") /\ UNCHANGED <<runTable, run>>
  /\ UNCHANGED <<callVars, exp>>

\* triggered_by REFERENCES users: the uuid.Nil of the scheduler is no user, so
\* its INSERT fails, as does one for an experiment that is gone.
InsertRun(p) ==
  /\ p \in Calls
  /\ IF p \in Users /\ exp[p] \in ExpRows
       THEN \E r \in First({q \in RunIds : runSt[q] = "none"}) :
              /\ Goto(p, "insert", "start")
              /\ runExp' = [runExp EXCEPT ![r] = exp[p]]
              /\ runSt' = [runSt EXCEPT ![r] = "pending"]
              /\ run' = [run EXCEPT ![p] = r]
       ELSE Goto(p, "insert", "done") /\ UNCHANGED <<runTable, run>>
  /\ UNCHANGED <<callVars, exp>>

SetRun(r, st) == runSt' = [runSt EXCEPT ![r] = IF @ \in Absent THEN @ ELSE st]

StartRun(p) ==
  /\ p \in Calls
  /\ Goto(p, "start", "drive")
  /\ SetRun(run[p], "running")
  /\ UNCHANGED <<callVars, runExp, exp, run>>

\* Every step of the experiment, and the verdict.
FinishRun(p) ==
  /\ p \in Calls
  /\ Goto(p, "drive", "done")
  /\ \E st \in {"completed", "failed"} : SetRun(run[p], st)
  /\ UNCHANGED <<callVars, runExp, exp, run>>

RecordStep(p) ==
  \/ CreateBegin(p) \/ CreateLookup(p) \/ CreateCommit(p)
  \/ UpdateRead(p) \/ UpdateWrite(p)
  \/ DeleteRead(p) \/ DeleteSteps(p) \/ DeleteRow(p) \/ DeleteArchives(p)
  \/ GetRow(p) \/ GetSteps(p) \/ GetRuns(p)
  \/ ListBegin(p) \/ ListCount(p) \/ ListPage(p)
  \/ Activate(p)
  \/ LoadExperiment(p) \/ FindActiveRun(p) \/ InsertRun(p)
  \/ StartRun(p) \/ FinishRun(p)

-----------------------------------------------------------------------------
(* Properties.                                                             *)

\* A deletion of x that has taken its steps and will take the row next, or that
\* has ended with an error.
Stripped(x) ==
  \E d \in Deletes : exp[d] = x /\ (pc[d] = "row" \/ d \in failed)

\* An experiment has all the steps it was created with, each on a template that
\* is still there, or none at all, and none only by a deletion that is half-way or
\* has failed half-way: neither a CreateExperiment that fails nor a concurrent
\* DeleteTemplateHandler leaves a part.
StepsComplete ==
  \A x \in ExpRows :
    \/ steps[x] = wanted[x] /\ steps[x] \subseteq Stored
    \/ steps[x] = {} /\ Stripped(x)

\* The answer of GetExperiment, put together from several statements, never
\* shows a part of the steps: all of them, or none, and none only if its own query
\* failed or a deletion of the experiment has taken them.
AnswerWhole ==
  \A g \in Gets :
    pc[g] \in {"runs", "done"} /\ exp[g] # None =>
      \/ answer[g] = wanted[exp[g]]
      \/ /\ answer[g] = {}
         /\ g \in failed \/ expSt[exp[g]] = "gone" \/ Stripped(exp[g])

\* An experiment that is still a draft has no runs, so the cascade of a hard
\* DELETE takes no run away.  The exception is the one the code accepts: a run was
\* asked for by a request whose UPDATE of the status failed.
DraftHasNoRuns ==
  \A x \in Exps :
    expSt[x] = "draft" /\ RunsOf(x) # {} => \E u \in Users \cap failed : exp[u] = x

\* A client that follows total_pages over a table nobody changes meanwhile has
\* received every row that sorts unlike any other exactly once, unless it could
\* not be read, and nothing that is not in the table.  Of rows that tie, some may
\* come twice and others never.
PagingComplete ==
  \A l \in Lists :
    pc[l] = "done" /\ list[l].still = "yes" =>
      LET c == list[l]
          single == {r \in c.base : \A q \in c.base : q[1] = r[1] => q = r}
      IN /\ single \subseteq c.seen \cup c.unread
         /\ single \cap (c.twice \cup (c.seen \cap c.unread)) = {}
         /\ c.seen \subseteq c.base
=============================================================================
