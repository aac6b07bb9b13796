-------------------------- MODULE RunLifecycleProofs --------------------------
(* What RunLifecycle promises for any number of requests, runs and steps,  *)
(* any concurrency limit, any disturbances, and with or without Redis.     *)
EXTENDS RunLifecycle, TLAPS

-----------------------------------------------------------------------------
(* Types.                                                                  *)

\* A stop that has looked up a run holds on to it.
StopHasRun ==
  \A s \in Stops :
    spc[s] \in {"hit", "key", "row", "guard", "signal", "stopped"} =>
      stopRun[s] \in RunIds

\* So does an executor that has adopted or inserted one.
ExecHasRun ==
  \A e \in Execs :
    pc[e] \in Registered \cup {"register", "respond"} => runOf[e] \in RunIds

TypeInv == TypeOK /\ StopHasRun /\ ExecHasRun

LEMMA TypeInvInit == Init => TypeInv
  BY ConstantsAssumption
  DEF Init, TypeInv, TypeOK, StopHasRun, ExecHasRun, Registered, RunIds, Active,
      Terminal, ExperimentStatus, ExecPC, StopPC

\* What a question for the stop key, a statement of an executor and one about
\* the experiment may write.
LEMMA ReadTypes ==
  ASSUME TypeInv, NEW e \in Execs, StopRead(e) \/ NoStopRead(e)
  PROVE  missed' \in [Execs -> Nat] /\ faults' \in Nat
  BY DEF TypeInv, TypeOK, StopRead, NoStopRead, Fault

LEMMA UpdateTypes ==
  ASSUME TypeInv, NEW e \in Execs, pc[e] \in Registered,
         NEW st \in Active \cup Terminal, EngineUpdate(e, st)
  PROVE  /\ status' \in [RunIds -> Active \cup Terminal \cup {"none"}]
         /\ marred' \subseteq RunIds
         /\ faults' \in Nat
  <1>1. /\ runOf[e] \in RunIds
        /\ status \in [RunIds -> Active \cup Terminal \cup {"none"}]
        /\ marred \subseteq RunIds
        /\ faults \in Nat
    BY DEF TypeInv, TypeOK, ExecHasRun
  <1>2. QED
    BY <1>1 DEF EngineUpdate, StatementFails, Fault, SetStatus, troubleVars

LEMMA ExperimentTypes ==
  ASSUME TypeInv, NEW p, NEW st, UpdateExperiment(p, st)
  PROVE  expStatus' \in ExperimentStatus /\ faults' \in Nat
  BY DEF TypeInv, TypeOK, UpdateExperiment, SetExpStatus, Fault

LEMMA KeyTypes ==
  ASSUME TypeInv, NEW s \in Stops, stopRun[s] \in RunIds, SetStopKey(s)
  PROVE  stopKey' \subseteq RunIds /\ faults' \in Nat
  <1>1. stopKey' = stopKey \cup {stopRun[s]} \/ stopKey' = stopKey
    BY DEF SetStopKey
  <1>2. faults' = faults + 1 \/ faults' = faults
    BY DEF SetStopKey, Fault
  <1>3. QED
    BY <1>1, <1>2 DEF TypeInv, TypeOK

LEMMA NewRowTypes ==
  ASSUME TypeInv, NEW e \in Execs, NEW r \in RunIds, NewRow(e, r)
  PROVE  /\ status' \in [RunIds -> Active \cup Terminal \cup {"none"}]
         /\ runNo' \in [RunIds -> Nat]
         /\ nextNo' \in [Execs -> Nat]
  BY DEF TypeInv, TypeOK, NewRow, SetStatus, Active

LEMMA ExecHasRunNext == TypeInv /\ [Next]_vars => ExecHasRun'
  <1> SUFFICES ASSUME TypeInv, [Next]_vars PROVE ExecHasRun'
    OBVIOUS
  <1>0. /\ pc \in [Execs -> ExecPC]
        /\ runOf \in [Execs -> RunIds \cup {None}]
        /\ ExecHasRun
    BY DEF TypeInv, TypeOK
  <1> USE <1>0
      DEF ExecHasRun, Registered, Goto, shared, dbVars, ctxVars, local,
          handlerVars, runVars, stepVars, execVars, stopVars, troubleVars, others,
          vars
  <1>1. ASSUME NEW e \in Execs,
               \/ Begin(e) \/ ExpireStale(e) \/ CountActive(e) \/ Activate(e)
               \/ GiveUp(e) \/ NextRunNumber(e) \/ InsertUnanswered(e)
        PROVE  ExecHasRun'
    BY <1>1 DEF Begin, ExpireStale, CountActive, Activate, GiveUp, NextRunNumber,
                InsertUnanswered
  <1>2. ASSUME NEW e \in Execs, FindRun(e) PROVE ExecHasRun'
    BY <1>2 DEF FindRun, Latest, ActiveRuns
  <1>3. ASSUME NEW e \in Execs, InsertRun(e) PROVE ExecHasRun'
    BY <1>3 DEF InsertRun, FreshRuns
  <1>4. ASSUME NEW e \in Execs,
               \/ Register(e) \/ PreCheck(e) \/ Abort(e) \/ MarkStarted(e)
               \/ StepBegin(e) \/ Return(e) \/ Respond(e)
        PROVE  ExecHasRun'
    BY <1>4 DEF Register, PreCheck, Abort, MarkStarted, StepBegin, Return, Respond
  <1>5. ASSUME NEW e \in Execs,
               \/ StepFails(e) \/ Deploy(e) \/ Arm(e) \/ Attack(e)
               \/ Validate(e) \/ Detect(e) \/ Complete(e)
        PROVE  ExecHasRun'
    BY <1>5 DEF StepFails, Deploy, Arm, Attack, Validate, Detect, Complete, AfterStep
  <1>6. ASSUME NEW s \in Stops, StopStep(s) PROVE ExecHasRun'
    BY <1>6 DEF StopStep, Lookup, CancelContext, EngineSignal, CancelRow,
                StopTimesOut, GuardedCancel, Signal, MarkStopped
  <1>7. CASE Environment
    BY <1>7 DEF Environment, CancelStaleRuns, KeyExpires, Disconnect, Crash
  <1>8. CASE UNCHANGED vars
    BY <1>8
  <1>9. QED
    BY <1>1, <1>2, <1>3, <1>4, <1>5, <1>6, <1>7, <1>8 DEF Next, ExecStep

LEMMA TypeInvNext == TypeInv /\ [Next]_vars => TypeInv'
  <1> SUFFICES ASSUME TypeInv, [Next]_vars PROVE TypeInv'
    OBVIOUS
  <1>0. TypeOK /\ StopHasRun
    BY DEF TypeInv
  <1> DEFINE I == TypeOK /\ StopHasRun
  <1> USE <1>0, ConstantsAssumption
      DEF TypeOK, StopHasRun, RunIds, Active, Terminal,
          ExperimentStatus, ExecPC, StopPC, Goto, StopGoto, Fault,
          shared, dbVars, ctxVars, local, handlerVars, runVars, stepVars,
          execVars, stopVars, troubleVars, others, vars
  <1>1. ASSUME NEW e \in Execs, Begin(e) PROVE I'
    BY <1>1 DEF Begin
  <1>2. ASSUME NEW e \in Execs, ExpireStale(e) PROVE I'
    <2>1. status' \in [RunIds -> Active \cup Terminal \cup {"none"}]
      BY <1>2 DEF ExpireStale
    <2>2. pc' \in [Execs -> ExecPC] /\ faults' \in Nat
      BY <1>2 DEF ExpireStale
    <2>3. UNCHANGED <<runNo, expStatus, stopKey, ctxVars, local, stopVars, marred>>
      BY <1>2 DEF ExpireStale
    <2>4. QED
      BY <2>1, <2>2, <2>3
  <1>3. ASSUME NEW e \in Execs, CountActive(e) PROVE I'
    <2>1. pc' \in [Execs -> ExecPC]
      <3>1. PICK to \in {"activate", "done"} : pc' = [pc EXCEPT ![e] = to]
        BY <1>3 DEF CountActive
      <3>2. QED
        BY <3>1
    <2>2. faults' \in Nat
      BY <1>3 DEF CountActive
    <2>3. UNCHANGED <<shared, local, stopVars, marred>>
      BY <1>3 DEF CountActive
    <2>4. QED
      BY <2>1, <2>2, <2>3
  <1>4. ASSUME NEW e \in Execs, Activate(e) PROVE I'
    <2>1. expStatus' \in ExperimentStatus /\ faults' \in Nat
      BY <1>4, ExperimentTypes DEF Activate
    <2>2. pc' \in [Execs -> ExecPC] /\ expSeen' \in [Execs -> ExperimentStatus \cup {"none"}]
      BY <1>4 DEF Activate
    <2>3. UNCHANGED <<status, runNo, stopKey, ctxVars, nextNo, runVars, stepVars,
                      stopVars, marred>>
      BY <1>4 DEF Activate
    <2>4. QED
      BY <2>1, <2>2, <2>3
  <1>5. ASSUME NEW e \in Execs, GiveUp(e) PROVE I'
    BY <1>5 DEF GiveUp
  <1>6. ASSUME NEW e \in Execs, FindRun(e) PROVE I'
    <2>1. /\ runOf' \in [Execs -> RunIds \cup {None}]
          /\ runStatus' \in [Execs -> Active \cup {"none", "completed", "failed"}]
      <3>1. CASE UNCHANGED runVars
        BY <3>1
      <3>2. ASSUME NEW r \in RunIds, status[r] \in Active,
                   runOf' = [runOf EXCEPT ![e] = r],
                   runStatus' = [runStatus EXCEPT ![e] = status[r]]
            PROVE  <2>1!1 /\ <2>1!2
        BY <3>2
      <3>3. QED
        BY <1>6, <3>1, <3>2 DEF FindRun, Latest, ActiveRuns
    <2>2. pc' \in [Execs -> ExecPC]
      BY ZenonT(30), <1>6 DEF FindRun
    <2>3. UNCHANGED <<shared, handlerVars, stepVars, others>>
      BY <1>6 DEF FindRun
    <2>4. QED
      BY <2>1, <2>2, <2>3
  <1>7. ASSUME NEW e \in Execs, NextRunNumber(e) PROVE I'
    <2>1. /\ nextNo' \in [Execs -> Nat]
          /\ faults' \in Nat
      <3>1. CASE Fault("postgres") /\ nextNo' = [nextNo EXCEPT ![e] = 1]
        BY <3>1
      <3>2. ASSUME NEW n \in {runNo[r] : r \in RunIds} \cup {0},
                   nextNo' = [nextNo EXCEPT ![e] = n + 1], UNCHANGED faults
            PROVE  <2>1!1 /\ <2>1!2
        BY <3>2
      <3>3. QED
        BY <1>7, <3>1, <3>2 DEF NextRunNumber
    <2>2. pc' \in [Execs -> ExecPC]
      BY <1>7 DEF NextRunNumber
    <2>3. UNCHANGED <<shared, expSeen, runVars, stepVars, stopVars, marred>>
      BY <1>7 DEF NextRunNumber
    <2>4. QED
      BY <2>1, <2>2, <2>3
  <1>8. ASSUME NEW e \in Execs, InsertRun(e) PROVE I'
    <2>1. PICK r \in RunIds :
            /\ NewRow(e, r)
            /\ runOf' = [runOf EXCEPT ![e] = r]
            /\ runStatus' = [runStatus EXCEPT ![e] = "pending"]
      BY <1>8 DEF InsertRun, FreshRuns
    <2>2. /\ runOf' \in [Execs -> RunIds \cup {None}]
          /\ runStatus' \in [Execs -> Active \cup {"none", "completed", "failed"}]
      BY <2>1
    <2>3. /\ pc' \in [Execs -> ExecPC]
          /\ UNCHANGED <<expStatus, stopKey, ctxVars, expSeen, stepVars, others>>
      BY <1>8 DEF InsertRun
    <2>4. QED
      BY <2>1, <2>2, <2>3, NewRowTypes
  <1>8a. ASSUME NEW e \in Execs, InsertUnanswered(e) PROVE I'
    <2>1. PICK r \in RunIds : NewRow(e, r) /\ StatementFails(r)
      BY <1>8a DEF InsertUnanswered, FreshRuns
    <2>2. marred' \subseteq RunIds /\ faults' \in Nat
      BY <2>1 DEF StatementFails
    <2>3. /\ pc' \in [Execs -> ExecPC]
          /\ ctxDone' \subseteq Execs
          /\ UNCHANGED <<expStatus, stopKey, cancelFn, reqDone, expSeen, runVars,
                         stepVars, stopVars>>
      BY <1>8a DEF InsertUnanswered
    <2>4. QED
      BY <2>1, <2>2, <2>3, NewRowTypes
  <1>9. ASSUME NEW e \in Execs, Register(e) PROVE I'
    BY <1>9 DEF Register
  <1>10. ASSUME NEW e \in Execs, PreCheck(e) PROVE I'
    <2>1. pc' \in [Execs -> ExecPC]
      <3>1. PICK to \in {"abort", "start"} : pc' = [pc EXCEPT ![e] = to]
        BY <1>10 DEF PreCheck
      <3>2. QED
        BY <3>1
    <2>2. missed' \in [Execs -> Nat] /\ faults' \in Nat
      BY <1>10, ReadTypes DEF PreCheck
    <2>3. UNCHANGED <<shared, handlerVars, runVars, live, okSteps, badSteps, late,
                      stopVars, marred>>
      BY <1>10 DEF PreCheck
    <2>4. QED
      BY <2>1, <2>2, <2>3
  <1>11. ASSUME NEW e \in Execs, Abort(e) PROVE I'
    <2>1. EngineUpdate(e, "cancelled") /\ pc[e] \in Registered
      BY <1>11 DEF Abort, Registered
    <2>2. /\ pc' \in [Execs -> ExecPC]
          /\ UNCHANGED <<runNo, expStatus, stopKey, ctxVars, local, stopVars>>
      BY <1>11 DEF Abort
    <2>3. QED
      BY <2>1, <2>2, UpdateTypes
  <1>12. ASSUME NEW e \in Execs, MarkStarted(e) PROVE I'
    <2>1. EngineUpdate(e, "running") /\ pc[e] \in Registered
      BY <1>12 DEF MarkStarted, Registered
    <2>2. pc' \in [Execs -> ExecPC] /\ live' \in [Execs -> BOOLEAN]
      <3>1. PICK b \in BOOLEAN : live' = [live EXCEPT ![e] = b]
        BY <1>12 DEF MarkStarted
      <3>2. QED
        BY <1>12, <3>1 DEF MarkStarted
    <2>3. UNCHANGED <<runNo, expStatus, stopKey, ctxVars, handlerVars, runVars,
                      okSteps, badSteps, late, missed, stopVars>>
      BY <1>12 DEF MarkStarted
    <2>4. QED
      BY <2>1, <2>2, <2>3, UpdateTypes
  <1>13. ASSUME NEW e \in Execs, StepBegin(e) PROVE I'
    <2>1. pc' \in [Execs -> ExecPC]
      BY <1>13 DEF StepBegin
    <2>2. missed' \in [Execs -> Nat] /\ faults' \in Nat
      BY <1>13, ReadTypes DEF StepBegin
    <2>3. UNCHANGED <<shared, handlerVars, runVars, live, okSteps, badSteps, late,
                      stopVars, marred>>
      BY <1>13 DEF StepBegin
    <2>4. QED
      BY <2>1, <2>2, <2>3
  <1>14. ASSUME NEW e \in Execs, StepFails(e) PROVE I'
    <2>1. pc' \in [Execs -> ExecPC] /\ badSteps' \in [Execs -> Nat]
      BY <1>14 DEF StepFails, AfterStep
    <2>2. UNCHANGED <<shared, handlerVars, runVars, live, okSteps, late, missed,
                      others>>
      BY <1>14 DEF StepFails
    <2>3. QED
      BY <2>1, <2>2
  <1>15. ASSUME NEW e \in Execs, Deploy(e) PROVE I'
    BY <1>15 DEF Deploy
  <1>16. ASSUME NEW e \in Execs, Arm(e) PROVE I'
    <2>1. pc' \in [Execs -> ExecPC]
      BY <1>16 DEF Arm
    <2>2. missed' \in [Execs -> Nat] /\ faults' \in Nat
      BY <1>16, ReadTypes DEF Arm
    <2>3. UNCHANGED <<shared, handlerVars, runVars, live, okSteps, badSteps, late,
                      stopVars, marred>>
      BY <1>16 DEF Arm
    <2>4. QED
      BY <2>1, <2>2, <2>3
  <1>17. ASSUME NEW e \in Execs, Attack(e) PROVE I'
    <2>1. pc' \in [Execs -> ExecPC] /\ late' \in [Execs -> Nat]
      BY <1>17 DEF Attack
    <2>2. UNCHANGED <<shared, handlerVars, runVars, live, okSteps, badSteps, missed,
                      others>>
      BY <1>17 DEF Attack
    <2>3. QED
      BY <2>1, <2>2
  <1>18. ASSUME NEW e \in Execs, Validate(e) PROVE I'
    <2>1. pc' \in [Execs -> ExecPC]
      BY <1>18 DEF Validate
    <2>2. missed' \in [Execs -> Nat] /\ faults' \in Nat
      BY <1>18, ReadTypes DEF Validate
    <2>3. UNCHANGED <<shared, handlerVars, runVars, live, okSteps, badSteps, late,
                      stopVars, marred>>
      BY <1>18 DEF Validate
    <2>4. QED
      BY <2>1, <2>2, <2>3
  <1>18a. ASSUME NEW e \in Execs, Detect(e) PROVE I'
    <2>1. pc' \in [Execs -> ExecPC] /\ okSteps' \in [Execs -> Nat]
      BY <1>18a DEF Detect, AfterStep
    <2>2. UNCHANGED <<shared, handlerVars, runVars, live, badSteps, late, missed,
                      others>>
      BY <1>18a DEF Detect
    <2>3. QED
      BY <2>1, <2>2
  <1>19. ASSUME NEW e \in Execs, Complete(e) PROVE I'
    <2>1. EngineUpdate(e, Verdict(e)) /\ pc[e] \in Registered
      BY <1>19 DEF Complete, Registered
    <2>2. Verdict(e) \in {"completed", "failed"}
      BY DEF Verdict
    <2>3. /\ pc' \in [Execs -> ExecPC]
          /\ runStatus' \in [Execs -> Active \cup {"none", "completed", "failed"}]
      BY <1>19, <2>2 DEF Complete
    <2>4. UNCHANGED <<runNo, expStatus, stopKey, ctxVars, handlerVars, runOf,
                      stepVars, stopVars>>
      BY <1>19 DEF Complete
    <2>5. QED
      BY <2>1, <2>2, <2>3, <2>4, UpdateTypes
  <1>20. ASSUME NEW e \in Execs, Return(e) PROVE I'
    BY <1>20 DEF Return, Deregister
  <1>21. ASSUME NEW e \in Execs, Respond(e) PROVE I'
    <2>1. expStatus' \in ExperimentStatus /\ faults' \in Nat
      BY <1>21, ExperimentTypes DEF Respond
    <2>2. /\ pc' \in [Execs -> ExecPC]
          /\ UNCHANGED <<status, runNo, stopKey, ctxVars, local, stopVars, marred>>
      BY <1>21 DEF Respond
    <2>3. QED
      BY <2>1, <2>2
  <1>22. ASSUME NEW s \in Stops, Lookup(s) PROVE I'
    <2>1. /\ spc' \in [Stops -> StopPC]
          /\ stopRun' \in [Stops -> RunIds \cup {None}]
          /\ StopHasRun'
      <3>1. CASE StopGoto(s, "idle", "done") /\ UNCHANGED stopRun
        BY <3>1
      <3>2. ASSUME NEW r \in RunIds,
                   stopRun' = [stopRun EXCEPT ![s] = r],
                   NEW p \in {"hit", "guard"}, StopGoto(s, "idle", p)
            PROVE  <2>1!1 /\ <2>1!2 /\ <2>1!3
        BY <3>2
      <3>3. QED
        BY <1>22, <3>1, <3>2 DEF Lookup, Latest, ActiveRuns
    <2>2. expStatus' \in ExperimentStatus /\ faults' \in Nat
      BY <1>22, ExperimentTypes DEF Lookup
    <2>3. UNCHANGED <<status, runNo, stopKey, ctxVars, execVars, hit,
                      rowCancelled, marred>>
      BY <1>22 DEF Lookup
    <2>4. QED
      BY <2>1, <2>2, <2>3
  <1>23. ASSUME NEW s \in Stops, CancelContext(s) PROVE I'
    <2> DEFINE x == cancelFn[HostOf[s]][stopRun[s]]
    <2>0. HostOf[s] \in Hosts /\ stopRun[s] \in RunIds
      BY <1>23 DEF CancelContext
    <2>1. x \in Execs \cup {None}
      BY <2>0
    <2>2. ctxDone' \subseteq Execs /\ hit' \in [Stops -> Execs \cup {None}]
      <3>1. /\ ctxDone' = IF x = None THEN ctxDone ELSE ctxDone \cup {x}
            /\ hit' = [hit EXCEPT ![s] = x]
        BY <1>23 DEF CancelContext
      <3> HIDE DEF x
      <3>2. QED
        BY <2>1, <3>1
    <2>3. cancelFn' \in [Hosts -> [RunIds -> Execs \cup {None}]]
      BY <1>23 DEF CancelContext
    <2>4. spc' \in [Stops -> StopPC] /\ StopHasRun'
      BY <1>23 DEF CancelContext
    <2>5. UNCHANGED <<dbVars, stopKey, reqDone, execVars, stopRun, rowCancelled,
                      troubleVars>>
      BY <1>23 DEF CancelContext
    <2>6. QED
      BY <2>2, <2>3, <2>4, <2>5
  <1>24. ASSUME NEW s \in Stops, EngineSignal(s) PROVE I'
    <2>1. spc' \in [Stops -> StopPC] /\ StopHasRun'
      BY <1>24 DEF EngineSignal
    <2>2. stopRun[s] \in RunIds
      BY <1>24 DEF EngineSignal
    <2>3. stopKey' \subseteq RunIds /\ faults' \in Nat
      BY <1>24, <2>2, KeyTypes DEF EngineSignal
    <2>4. UNCHANGED <<dbVars, ctxVars, execVars, stopRun, hit, rowCancelled, marred>>
      BY <1>24 DEF EngineSignal
    <2>5. QED
      BY <2>1, <2>3, <2>4
  <1>25. ASSUME NEW s \in Stops, CancelRow(s) PROVE I'
    <2>1. spc' \in [Stops -> StopPC] /\ StopHasRun'
      BY <1>25 DEF CancelRow
    <2>2. stopRun[s] \in RunIds
      BY <1>25 DEF CancelRow
    <2>3. status' \in [RunIds -> Active \cup Terminal \cup {"none"}]
      BY <1>25, <2>2 DEF CancelRow, SetStatus
    <2>4. /\ rowCancelled' \in [Stops -> BOOLEAN]
          /\ marred' \subseteq RunIds
          /\ faults' \in Nat
      <3>1. marred' = marred \/ marred' = marred \cup {stopRun[s]}
        BY <1>25 DEF CancelRow, StatementFails
      <3>2. faults' = faults \/ faults' = faults + 1
        BY <1>25 DEF CancelRow, StatementFails
      <3>3. \/ rowCancelled' = rowCancelled
            \/ rowCancelled' = [rowCancelled EXCEPT ![s] = TRUE]
        BY <1>25 DEF CancelRow
      <3>4. marred' \subseteq RunIds
        BY <2>2, <3>1
      <3>5. rowCancelled' \in [Stops -> BOOLEAN]
        BY <3>3
      <3>6. QED
        BY <3>2, <3>4, <3>5
    <2>5. UNCHANGED <<runNo, expStatus, stopKey, ctxVars, execVars, stopRun, hit>>
      BY <1>25 DEF CancelRow
    <2>6. QED
      BY <2>1, <2>3, <2>4, <2>5
  <1>26. ASSUME NEW s \in Stops, StopTimesOut(s) PROVE I'
    <2>1. spc' \in [Stops -> StopPC] /\ faults' \in Nat /\ StopHasRun'
      BY <1>26 DEF StopTimesOut
    <2>2. UNCHANGED <<shared, execVars, stopRun, hit, rowCancelled, marred>>
      BY <1>26 DEF StopTimesOut
    <2>3. QED
      BY <2>1, <2>2
  <1>27. ASSUME NEW s \in Stops, GuardedCancel(s) PROVE I'
    <2>1. spc' \in [Stops -> StopPC] /\ StopHasRun'
      BY <1>27 DEF GuardedCancel
    <2>2. stopRun[s] \in RunIds
      BY <1>27 DEF GuardedCancel
    <2>3. status' \in [RunIds -> Active \cup Terminal \cup {"none"}]
      BY <1>27, <2>2 DEF GuardedCancel, SetStatus
    <2>4. expStatus' \in ExperimentStatus
      BY <1>27, ExperimentTypes DEF GuardedCancel
    <2>5. marred' \subseteq RunIds /\ faults' \in Nat
      <3>1. marred' = marred \/ marred' = marred \cup {stopRun[s]}
        BY <1>27 DEF GuardedCancel, StatementFails
      <3>2. faults' = faults \/ faults' = faults + 1
        BY <1>27 DEF GuardedCancel, StatementFails, UpdateExperiment
      <3>3. QED
        BY <2>2, <3>1, <3>2
    <2>6. UNCHANGED <<runNo, stopKey, ctxVars, execVars, stopRun, hit, rowCancelled>>
      BY <1>27 DEF GuardedCancel
    <2>7. QED
      BY <2>1, <2>3, <2>4, <2>5, <2>6
  <1>28. ASSUME NEW s \in Stops, Signal(s) PROVE I'
    <2>1. spc' \in [Stops -> StopPC] /\ StopHasRun'
      BY <1>28 DEF Signal
    <2>2. stopRun[s] \in RunIds
      BY <1>28 DEF Signal
    <2>3. stopKey' \subseteq RunIds /\ faults' \in Nat
      BY <1>28, <2>2, KeyTypes DEF Signal
    <2>4. UNCHANGED <<dbVars, ctxVars, execVars, stopRun, hit, rowCancelled, marred>>
      BY <1>28 DEF Signal
    <2>5. QED
      BY <2>1, <2>3, <2>4
  <1>29. ASSUME NEW s \in Stops, MarkStopped(s) PROVE I'
    <2>1. expStatus' \in ExperimentStatus /\ faults' \in Nat
      BY <1>29, ExperimentTypes DEF MarkStopped
    <2>2. spc' \in [Stops -> StopPC] /\ StopHasRun'
      BY <1>29 DEF MarkStopped
    <2>3. UNCHANGED <<status, runNo, stopKey, ctxVars, execVars, stopRun, hit,
                      rowCancelled, marred>>
      BY <1>29 DEF MarkStopped
    <2>4. QED
      BY <2>1, <2>2, <2>3
  <1>30. ASSUME CancelStaleRuns PROVE I'
    <2>1. status' \in [RunIds -> Active \cup Terminal \cup {"none"}]
      BY <1>30 DEF CancelStaleRuns
    <2>2. faults' \in Nat
      BY <1>30 DEF CancelStaleRuns
    <2>3. UNCHANGED <<runNo, expStatus, stopKey, ctxVars, execVars, stopVars, marred>>
      BY <1>30 DEF CancelStaleRuns
    <2>4. QED
      BY <2>1, <2>2, <2>3
  <1>31. ASSUME NEW r \in RunIds, KeyExpires(r) PROVE I'
    <2>1. late' \in [Execs -> Nat]
      BY <1>31 DEF KeyExpires
    <2>2. missed' \in [Execs -> Nat]
      BY <1>31 DEF KeyExpires
    <2>3. stopKey' \subseteq RunIds
      BY <1>31 DEF KeyExpires
    <2>4. faults' \in Nat
      BY <1>31 DEF KeyExpires
    <2>5. UNCHANGED <<dbVars, ctxVars, pc, handlerVars, runVars, live, okSteps,
                      badSteps, stopVars, marred>>
      BY <1>31 DEF KeyExpires
    <2>6. QED
      BY <2>1, <2>2, <2>3, <2>4, <2>5
  <1>32. ASSUME NEW p \in Execs \cup Stops, Disconnect(p) PROVE I'
    <2>1. /\ reqDone' \subseteq Execs \cup Stops
          /\ ctxDone' \subseteq Execs
          /\ faults' \in Nat
      BY <1>32 DEF Disconnect
    <2>2. UNCHANGED <<dbVars, stopKey, cancelFn, execVars, stopVars, marred>>
      BY <1>32 DEF Disconnect
    <2>3. QED
      BY <2>1, <2>2
  <1>33. ASSUME NEW h \in Hosts, Crash(h) PROVE I'
    <2>1. pc' \in [Execs -> ExecPC]
      BY <1>33 DEF Crash
    <2>2. spc' \in [Stops -> StopPC] /\ StopHasRun'
      BY <1>33 DEF Crash
    <2>3. cancelFn' \in [Hosts -> [RunIds -> Execs \cup {None}]]
      BY <1>33 DEF Crash
    <2>4. faults' \in Nat
      BY <1>33 DEF Crash
    <2>5. UNCHANGED <<dbVars, stopKey, ctxDone, reqDone, local, stopRun, hit,
                      rowCancelled, marred>>
      BY <1>33 DEF Crash
    <2>6. QED
      BY <2>1, <2>2, <2>3, <2>4, <2>5
  <1>34. ASSUME UNCHANGED vars PROVE I'
    BY <1>34
  <1>35. I'
    BY <1>1, <1>2, <1>3, <1>4, <1>5, <1>6, <1>7, <1>8, <1>8a, <1>9, <1>10,
       <1>11, <1>12, <1>13, <1>14, <1>15, <1>16, <1>17, <1>18, <1>18a, <1>19,
       <1>20, <1>21,
       <1>22, <1>23, <1>24, <1>25, <1>26, <1>27, <1>28, <1>29, <1>30, <1>31,
       <1>32, <1>33, <1>34
    DEF Next, ExecStep, StopStep, Environment
  <1> HIDE DEF TypeOK, StopHasRun, vars
  <1>36. QED
    BY <1>35, ExecHasRunNext DEF TypeInv

(* Every variable keeps its type in every behaviour; in particular no      *)
(* write of a handler makes experiments.status one its CHECK rejects.      *)
THEOREM TypeCorrect == Spec => []TypeOK
  <1>1. Spec => []TypeInv
    BY TypeInvInit, TypeInvNext, PTL DEF Spec
  <1>2. TypeInv => TypeOK
    BY DEF TypeInv
  <1>3. QED
    BY <1>1, <1>2, PTL

LEMMA TypeInvHolds == Spec => []TypeInv
  BY TypeInvInit, TypeInvNext, PTL DEF Spec

-----------------------------------------------------------------------------
(* Cancel functions.                                                       *)

\* Most steps move one executor from one registered place to another.
LEMMA CancelFuncKept ==
  ASSUME TypeInv, CancelFuncLive, UNCHANGED <<cancelFn, runOf>>,
         \A x \in Execs : pc[x] \in Registered => pc'[x] \in Registered
  PROVE  CancelFuncLive'
  <1>1. cancelFn \in [Hosts -> [RunIds -> Execs \cup {None}]]
    BY DEF TypeInv, TypeOK
  <1>2. QED
    BY <1>1 DEF CancelFuncLive

LEMMA CancelFuncNext ==
  TypeInv /\ CancelFuncLive /\ [Next]_vars => CancelFuncLive'
  <1> SUFFICES ASSUME TypeInv, CancelFuncLive, [Next]_vars
               PROVE  CancelFuncLive'
    OBVIOUS
  <1>0. /\ cancelFn \in [Hosts -> [RunIds -> Execs \cup {None}]]
        /\ pc \in [Execs -> ExecPC]
        /\ runOf \in [Execs -> RunIds \cup {None}]
        /\ None \notin Execs
    BY ConstantsAssumption DEF TypeInv, TypeOK
  <1> DEFINE Stays == \A x \in Execs : pc[x] \in Registered => pc'[x] \in Registered
             Keeps == UNCHANGED <<cancelFn, runOf>>
  <1> USE DEF Goto, shared, dbVars, ctxVars, local, handlerVars, runVars, stepVars,
              execVars, stopVars, troubleVars, others, vars
  <1>1. Stays /\ Keeps => CancelFuncLive'
    BY CancelFuncKept
  \* An executor that is not registered has no entry.
  <1>2. ASSUME NEW e \in Execs, pc[e] \notin Registered, UNCHANGED cancelFn,
               \A x \in Execs \ {e} : pc'[x] = pc[x] /\ runOf'[x] = runOf[x]
        PROVE  CancelFuncLive'
    <2>1. \A h \in Hosts, r \in RunIds :
            cancelFn[h][r] # None => cancelFn[h][r] \in Execs \ {e}
      BY <1>0, <1>2 DEF CancelFuncLive
    <2>2. QED
      BY <1>2, <2>1 DEF CancelFuncLive
  <1>3. ASSUME NEW e \in Execs,
               \/ Begin(e) \/ ExpireStale(e) \/ CountActive(e) \/ Activate(e)
               \/ GiveUp(e) \/ FindRun(e) \/ NextRunNumber(e) \/ InsertRun(e)
               \/ InsertUnanswered(e) \/ Respond(e)
        PROVE  CancelFuncLive'
    <2>1. pc[e] \notin Registered /\ UNCHANGED cancelFn
      BY <1>3 DEF Begin, ExpireStale, CountActive, Activate, GiveUp, FindRun,
                  NextRunNumber, InsertRun, InsertUnanswered, Respond, Registered
    <2>2. \A x \in Execs \ {e} : pc'[x] = pc[x] /\ runOf'[x] = runOf[x]
      BY <1>0, <1>3
      DEF Begin, ExpireStale, CountActive, Activate, GiveUp, FindRun, Latest,
          NextRunNumber, InsertRun, InsertUnanswered, Respond
    <2>3. QED
      BY <1>2, <2>1, <2>2
  <1>4. ASSUME NEW e \in Execs, Register(e) PROVE CancelFuncLive'
    <2>1. /\ cancelFn' = [cancelFn EXCEPT ![HostOf[e]][runOf[e]] = e]
          /\ pc' = [pc EXCEPT ![e] = "precheck"]
          /\ UNCHANGED runOf
      BY <1>4 DEF Register
    <2>2. pc'[e] \in Registered /\ Stays
      BY <1>0, <2>1 DEF Registered
    <2>3. ASSUME NEW h \in Hosts, NEW r \in RunIds
          PROVE  \/ cancelFn'[h][r] = cancelFn[h][r]
                 \/ cancelFn'[h][r] = e /\ h = HostOf[e] /\ r = runOf[e]
      BY <1>0, <2>1
    <2>4. QED
      BY <1>0, <2>1, <2>2, <2>3 DEF CancelFuncLive
  <1>5. ASSUME NEW e \in Execs,
               PreCheck(e) \/ Abort(e) \/ MarkStarted(e) \/ StepBegin(e)
        PROVE  CancelFuncLive'
    <2>1. Stays
      BY <1>0, <1>5 DEF PreCheck, Abort, MarkStarted, StepBegin, Registered
    <2>2. Keeps
      BY <1>5 DEF PreCheck, Abort, MarkStarted, StepBegin
    <2>3. QED
      BY <1>1, <2>1, <2>2
  <1>6. ASSUME NEW e \in Execs,
               \/ StepFails(e) \/ Deploy(e) \/ Arm(e) \/ Attack(e)
               \/ Validate(e) \/ Detect(e) \/ Complete(e)
        PROVE  CancelFuncLive'
    <2>1. /\ pc'[e] \in Registered
          /\ \A x \in Execs \ {e} : pc'[x] = pc[x]
      BY <1>0, <1>6 DEF StepFails, Deploy, Arm, Attack, Validate, Detect, Complete,
                        AfterStep, Registered
    <2>2. Keeps
      BY <1>6 DEF StepFails, Deploy, Arm, Attack, Validate, Detect, Complete
    <2>3. QED
      BY <1>1, <2>1, <2>2
  <1>7. ASSUME NEW e \in Execs, Return(e) PROVE CancelFuncLive'
    <2>1. /\ pc' = [pc EXCEPT ![e] = "respond"]
          /\ cancelFn' = [cancelFn EXCEPT ![HostOf[e]][runOf[e]] = None]
          /\ runOf' = runOf
      BY <1>7 DEF Return, Deregister
    <2>2. ASSUME NEW h \in Hosts, NEW r \in RunIds, cancelFn'[h][r] # None
          PROVE  cancelFn'[h][r] = cancelFn[h][r] /\ cancelFn[h][r] # e
      <3>1. cancelFn'[h][r] = cancelFn[h][r]
        BY <1>0, <2>1, <2>2
      <3>2. cancelFn[h][r] # e
        <4>1. SUFFICES ASSUME cancelFn[h][r] = e PROVE FALSE
          OBVIOUS
        <4>2. HostOf[e] = h /\ runOf[e] = r
          BY <1>0, <4>1 DEF CancelFuncLive
        <4>3. cancelFn'[h][r] = None
          BY <1>0, <2>1, <4>2
        <4>4. QED
          BY <2>2, <4>3
      <3>3. QED
        BY <3>1, <3>2
    <2>3. \A x \in Execs \ {e} : pc'[x] = pc[x]
      BY <1>0, <2>1
    <2>4. QED
      BY <1>0, <2>1, <2>2, <2>3 DEF CancelFuncLive
  <1>8. ASSUME NEW s \in Stops, CancelContext(s) PROVE CancelFuncLive'
    <2>1. \A h \in Hosts, r \in RunIds :
            cancelFn'[h][r] # None => cancelFn'[h][r] = cancelFn[h][r]
      BY <1>0, <1>8 DEF CancelContext
    <2>2. UNCHANGED <<pc, runOf>>
      BY <1>8 DEF CancelContext
    <2>3. QED
      BY <2>1, <2>2 DEF CancelFuncLive
  <1>9. ASSUME NEW s \in Stops,
               \/ Lookup(s) \/ EngineSignal(s) \/ CancelRow(s) \/ StopTimesOut(s)
               \/ GuardedCancel(s) \/ Signal(s) \/ MarkStopped(s)
        PROVE  CancelFuncLive'
    BY <1>1, <1>9 DEF Lookup, EngineSignal, CancelRow, StopTimesOut, GuardedCancel,
                      Signal, MarkStopped
  <1>10. CASE CancelStaleRuns \/ \E r \in RunIds : KeyExpires(r)
    BY <1>1, <1>10 DEF CancelStaleRuns, KeyExpires
  <1>11. CASE \E p \in Execs \cup Stops : Disconnect(p)
    BY <1>1, <1>11 DEF Disconnect
  <1>12. ASSUME NEW h \in Hosts, Crash(h) PROVE CancelFuncLive'
    <2>1. \A g \in Hosts, r \in RunIds :
            cancelFn'[g][r] # None => g # h /\ cancelFn'[g][r] = cancelFn[g][r]
      BY <1>0, <1>12 DEF Crash
    <2>2. \A x \in Execs : HostOf[x] # h => pc'[x] = pc[x]
      BY <1>12 DEF Crash
    <2>3. UNCHANGED runOf
      BY <1>12 DEF Crash
    <2>4. QED
      BY <1>0, <2>1, <2>2, <2>3 DEF CancelFuncLive
  <1>13. CASE UNCHANGED vars
    BY <1>1, <1>13
  <1>14. QED
    BY <1>3, <1>4, <1>5, <1>6, <1>7, <1>8, <1>9, <1>10, <1>11, <1>12, <1>13
    DEF Next, ExecStep, StopStep, Environment

(* No entry of cancelFuncs outlives the request that registered it: every   *)
(* return of Engine.ExecuteExperiment runs the deferred Delete.             *)
THEOREM CancelFuncsCorrect == Spec => []CancelFuncLive
  <1>1. Init => CancelFuncLive
    BY DEF Init, CancelFuncLive
  <1>2. QED
    BY <1>1, TypeInvHolds, CancelFuncNext, PTL DEF Spec

-----------------------------------------------------------------------------
(* Bookkeeping of the two kinds of request.                                *)

BeforeRun == {"idle", "expire", "count", "activate", "find", "number", "insert"}
BeforeSteps == BeforeRun \cup {"register", "precheck", "start"}
InSteps == {"step", "deploy", "arm", "attack", "validate", "siem"}

\* An executor has no run before it adopts or inserts one; its counters say
\* how far through the steps it is; a closed connection cancels its context.
ExecInv ==
  \A e \in Execs :
    /\ pc[e] \in BeforeRun => runOf[e] = None
    /\ pc[e] \in BeforeSteps => okSteps[e] = 0 /\ badSteps[e] = 0
    /\ pc[e] \in InSteps => okSteps[e] + badSteps[e] < Steps
    /\ pc[e] = "complete" => okSteps[e] + badSteps[e] = Steps
    /\ e \in reqDone => e \in ctxDone

\* The executor a stop has hit was executing the stop's run, and its context
\* stays cancelled.
StopInv ==
  \A s \in Stops :
    /\ spc[s] \in {"idle", "hit"} => hit[s] = None
    /\ spc[s] \in {"idle", "hit", "key", "row"} => ~rowCancelled[s]
    /\ hit[s] # None =>
         /\ stopRun[s] \in RunIds
         /\ hit[s] \in ctxDone
         /\ pc[hit[s]] \notin BeforeRun
         /\ runOf[hit[s]] = stopRun[s]

\* Between two late attacks an executor asks twice for the stop key: how many
\* of its questions Redis has failed is told by where it is, unless its context
\* is cancelled.
LateInv ==
  /\ stopKey # {} => RedisUp
  /\ \A e \in Execs :
       /\ 2 * late[e] <= missed[e] + 2
       /\ runOf[e] \notin stopKey => late[e] = 0 /\ missed[e] = 0
       /\ CtxOK(e) /\ pc[e] \in {"deploy", "arm"} => 2 * late[e] <= missed[e] + 1
       /\ CtxOK(e) /\ pc[e] = "attack" => 2 * late[e] <= missed[e]

LEMMA ExecInvNext == TypeInv /\ ExecInv /\ [Next]_vars => ExecInv'
  <1> SUFFICES ASSUME TypeInv, ExecInv, [Next]_vars PROVE ExecInv'
    OBVIOUS
  <1>0. /\ pc \in [Execs -> ExecPC]
        /\ runOf \in [Execs -> RunIds \cup {None}]
        /\ okSteps \in [Execs -> Nat]
        /\ badSteps \in [Execs -> Nat]
        /\ Steps \in Nat \ {0}
        /\ Execs \cap Stops = {}
    BY ConstantsAssumption DEF TypeInv, TypeOK
  <1> USE <1>0
      DEF ExecInv, BeforeRun, BeforeSteps, InSteps, ExecPC, CtxOK, ReqOK, Goto,
          shared, dbVars, ctxVars, local, handlerVars, runVars, stepVars, execVars,
          stopVars, troubleVars, others, vars
  <1>1. ASSUME NEW e \in Execs, Begin(e) PROVE ExecInv'
    BY <1>1 DEF Begin
  <1>2. ASSUME NEW e \in Execs, ExpireStale(e) PROVE ExecInv'
    BY <1>2 DEF ExpireStale
  <1>3. ASSUME NEW e \in Execs, CountActive(e) PROVE ExecInv'
    BY <1>3 DEF CountActive
  <1>4. ASSUME NEW e \in Execs, Activate(e) PROVE ExecInv'
    BY <1>4 DEF Activate
  <1>5. ASSUME NEW e \in Execs, GiveUp(e) PROVE ExecInv'
    BY <1>5 DEF GiveUp
  <1>6. ASSUME NEW e \in Execs, FindRun(e) PROVE ExecInv'
    BY <1>6 DEF FindRun
  <1>7. ASSUME NEW e \in Execs, NextRunNumber(e) PROVE ExecInv'
    BY <1>7 DEF NextRunNumber
  <1>8. ASSUME NEW e \in Execs, InsertRun(e) PROVE ExecInv'
    BY <1>8 DEF InsertRun, NewRow, SetStatus
  <1>8a. ASSUME NEW e \in Execs, InsertUnanswered(e) PROVE ExecInv'
    BY <1>8a DEF InsertUnanswered, NewRow, FreshRuns, SetStatus, StatementFails, Fault
  <1>9. ASSUME NEW e \in Execs, Register(e) PROVE ExecInv'
    BY <1>9 DEF Register
  <1>10. ASSUME NEW e \in Execs, PreCheck(e) PROVE ExecInv'
    BY <1>10 DEF PreCheck, StopRead, NoStopRead
  <1>11. ASSUME NEW e \in Execs, Abort(e) PROVE ExecInv'
    BY <1>11 DEF Abort
  <1>12. ASSUME NEW e \in Execs, MarkStarted(e) PROVE ExecInv'
    BY <1>12 DEF MarkStarted
  <1>13. ASSUME NEW e \in Execs, StepBegin(e) PROVE ExecInv'
    BY <1>13 DEF StepBegin, StopRead, NoStopRead
  <1>14. ASSUME NEW e \in Execs, StepFails(e) PROVE ExecInv'
    BY <1>14 DEF StepFails, CurrentStep, AfterStep
  <1>15. ASSUME NEW e \in Execs, Deploy(e) PROVE ExecInv'
    BY <1>15 DEF Deploy
  <1>16. ASSUME NEW e \in Execs, Arm(e) PROVE ExecInv'
    BY <1>16 DEF Arm, StopRead, NoStopRead
  <1>17. ASSUME NEW e \in Execs, Attack(e) PROVE ExecInv'
    BY <1>17 DEF Attack
  <1>18. ASSUME NEW e \in Execs, Validate(e) PROVE ExecInv'
    BY <1>18 DEF Validate, StopRead, NoStopRead
  <1>18a. ASSUME NEW e \in Execs, Detect(e) PROVE ExecInv'
    BY <1>18a DEF Detect, CurrentStep, AfterStep
  <1>19. ASSUME NEW e \in Execs, Complete(e) PROVE ExecInv'
    BY <1>19 DEF Complete
  <1>20. ASSUME NEW e \in Execs, Return(e) PROVE ExecInv'
    BY <1>20 DEF Return
  <1>21. ASSUME NEW e \in Execs, Respond(e) PROVE ExecInv'
    BY <1>21 DEF Respond
  <1>22. ASSUME NEW s \in Stops, Lookup(s) PROVE ExecInv'
    BY <1>22 DEF Lookup
  <1>23. ASSUME NEW s \in Stops, CancelContext(s) PROVE ExecInv'
    BY <1>23 DEF CancelContext
  <1>24. ASSUME NEW s \in Stops, EngineSignal(s) PROVE ExecInv'
    BY <1>24 DEF EngineSignal
  <1>25. ASSUME NEW s \in Stops, CancelRow(s) PROVE ExecInv'
    BY <1>25 DEF CancelRow
  <1>26. ASSUME NEW s \in Stops, StopTimesOut(s) PROVE ExecInv'
    BY <1>26 DEF StopTimesOut
  <1>27. ASSUME NEW s \in Stops, GuardedCancel(s) PROVE ExecInv'
    BY <1>27 DEF GuardedCancel
  <1>28. ASSUME NEW s \in Stops, Signal(s) PROVE ExecInv'
    BY <1>28 DEF Signal
  <1>29. ASSUME NEW s \in Stops, MarkStopped(s) PROVE ExecInv'
    BY <1>29 DEF MarkStopped
  <1>30. ASSUME CancelStaleRuns PROVE ExecInv'
    BY <1>30 DEF CancelStaleRuns
  <1>31. ASSUME NEW r \in RunIds, KeyExpires(r) PROVE ExecInv'
    BY <1>31 DEF KeyExpires
  <1>32. ASSUME NEW p \in Execs \cup Stops, Disconnect(p) PROVE ExecInv'
    BY <1>32 DEF Disconnect
  <1>33. ASSUME NEW h \in Hosts, Crash(h) PROVE ExecInv'
    BY <1>33 DEF Crash
  <1>34. CASE UNCHANGED vars
    BY <1>34
  <1>35. QED
    BY <1>1, <1>2, <1>3, <1>4, <1>5, <1>6, <1>7, <1>8, <1>8a, <1>9, <1>10,
       <1>11, <1>12, <1>13, <1>14, <1>15, <1>16, <1>17, <1>18, <1>18a, <1>19,
       <1>20, <1>21,
       <1>22, <1>23, <1>24, <1>25, <1>26, <1>27, <1>28, <1>29, <1>30, <1>31,
       <1>32, <1>33, <1>34
    DEF Next, ExecStep, StopStep, Environment

LEMMA ExecInvHolds == Spec => []ExecInv
  <1>1. Init => ExecInv
    BY DEF Init, ExecInv, BeforeRun, BeforeSteps, InSteps
  <1>2. QED
    BY <1>1, TypeInvHolds, ExecInvNext, PTL DEF Spec

\* Whom a stop cancels.
LEMMA CancelTarget ==
  ASSUME TypeInv, CancelFuncLive, NEW s \in Stops, spc[s] = "hit",
         cancelFn[HostOf[s]][stopRun[s]] # None
  PROVE  /\ stopRun[s] \in RunIds
         /\ cancelFn[HostOf[s]][stopRun[s]] \in Execs
         /\ pc[cancelFn[HostOf[s]][stopRun[s]]] \in Registered
         /\ runOf[cancelFn[HostOf[s]][stopRun[s]]] = stopRun[s]
  BY ConstantsAssumption
  DEF TypeInv, TypeOK, StopHasRun, CancelFuncLive

LEMMA StopInvNext ==
  TypeInv /\ CancelFuncLive /\ ExecInv /\ StopInv /\ [Next]_vars => StopInv'
  <1> SUFFICES ASSUME TypeInv, CancelFuncLive, ExecInv, StopInv, [Next]_vars
               PROVE  StopInv'
    OBVIOUS
  <1>0. /\ pc \in [Execs -> ExecPC]
        /\ runOf \in [Execs -> RunIds \cup {None}]
        /\ spc \in [Stops -> StopPC]
        /\ stopRun \in [Stops -> RunIds \cup {None}]
        /\ hit \in [Stops -> Execs \cup {None}]
        /\ rowCancelled \in [Stops -> BOOLEAN]
    BY DEF TypeInv, TypeOK
  <1> USE <1>0
      DEF StopInv, BeforeRun, CtxOK, ReqOK, Goto, StopGoto,
          shared, dbVars, ctxVars, local, handlerVars, runVars, stepVars, execVars,
          stopVars, troubleVars, others, vars
  <1>1. ASSUME NEW e \in Execs, Begin(e) PROVE StopInv'
    BY <1>1 DEF Begin
  <1>2. ASSUME NEW e \in Execs, ExpireStale(e) PROVE StopInv'
    BY <1>2 DEF ExpireStale
  <1>3. ASSUME NEW e \in Execs, CountActive(e) PROVE StopInv'
    BY <1>3 DEF CountActive
  <1>4. ASSUME NEW e \in Execs, Activate(e) PROVE StopInv'
    BY <1>4 DEF Activate
  <1>5. ASSUME NEW e \in Execs, GiveUp(e) PROVE StopInv'
    BY <1>5 DEF GiveUp
  <1>6. ASSUME NEW e \in Execs, FindRun(e) PROVE StopInv'
    BY <1>6 DEF FindRun
  <1>7. ASSUME NEW e \in Execs, NextRunNumber(e) PROVE StopInv'
    BY <1>7 DEF NextRunNumber
  <1>8. ASSUME NEW e \in Execs, InsertRun(e) PROVE StopInv'
    BY <1>8 DEF InsertRun, NewRow, SetStatus
  <1>8a. ASSUME NEW e \in Execs, InsertUnanswered(e) PROVE StopInv'
    BY <1>8a DEF InsertUnanswered, NewRow, FreshRuns, SetStatus, StatementFails, Fault
  <1>9. ASSUME NEW e \in Execs, Register(e) PROVE StopInv'
    BY <1>9 DEF Register
  <1>10. ASSUME NEW e \in Execs, PreCheck(e) PROVE StopInv'
    BY <1>10 DEF PreCheck, StopRead, NoStopRead
  <1>11. ASSUME NEW e \in Execs, Abort(e) PROVE StopInv'
    BY <1>11 DEF Abort
  <1>12. ASSUME NEW e \in Execs, MarkStarted(e) PROVE StopInv'
    BY <1>12 DEF MarkStarted
  <1>13. ASSUME NEW e \in Execs, StepBegin(e) PROVE StopInv'
    BY <1>13 DEF StepBegin, StopRead, NoStopRead
  <1>14. ASSUME NEW e \in Execs, StepFails(e) PROVE StopInv'
    BY <1>14 DEF StepFails, AfterStep
  <1>15. ASSUME NEW e \in Execs, Deploy(e) PROVE StopInv'
    BY <1>15 DEF Deploy
  <1>16. ASSUME NEW e \in Execs, Arm(e) PROVE StopInv'
    BY <1>16 DEF Arm, StopRead, NoStopRead
  <1>17. ASSUME NEW e \in Execs, Attack(e) PROVE StopInv'
    BY <1>17 DEF Attack
  <1>18. ASSUME NEW e \in Execs, Validate(e) PROVE StopInv'
    BY <1>18 DEF Validate, StopRead, NoStopRead
  <1>18a. ASSUME NEW e \in Execs, Detect(e) PROVE StopInv'
    BY <1>18a DEF Detect, CurrentStep, AfterStep
  <1>19. ASSUME NEW e \in Execs, Complete(e) PROVE StopInv'
    BY <1>19 DEF Complete
  <1>20. ASSUME NEW e \in Execs, Return(e) PROVE StopInv'
    BY <1>20 DEF Return
  <1>21. ASSUME NEW e \in Execs, Respond(e) PROVE StopInv'
    BY <1>21 DEF Respond
  <1>22. ASSUME NEW s \in Stops, Lookup(s) PROVE StopInv'
    BY <1>22 DEF Lookup
  <1>23. ASSUME NEW s \in Stops, CancelContext(s) PROVE StopInv'
    <2>1. stopRun[s] \in RunIds
      BY <1>23 DEF CancelContext, TypeInv, StopHasRun
    <2>2. QED
      BY ZenonT(30), <1>23, <2>1, CancelTarget DEF CancelContext, Registered
  <1>24. ASSUME NEW s \in Stops, EngineSignal(s) PROVE StopInv'
    BY <1>24 DEF EngineSignal
  <1>25. ASSUME NEW s \in Stops, CancelRow(s) PROVE StopInv'
    BY <1>25 DEF CancelRow
  <1>26. ASSUME NEW s \in Stops, StopTimesOut(s) PROVE StopInv'
    BY <1>26 DEF StopTimesOut
  <1>27. ASSUME NEW s \in Stops, GuardedCancel(s) PROVE StopInv'
    BY <1>27 DEF GuardedCancel
  <1>28. ASSUME NEW s \in Stops, Signal(s) PROVE StopInv'
    BY <1>28 DEF Signal
  <1>29. ASSUME NEW s \in Stops, MarkStopped(s) PROVE StopInv'
    BY <1>29 DEF MarkStopped
  <1>30. ASSUME CancelStaleRuns PROVE StopInv'
    BY <1>30 DEF CancelStaleRuns
  <1>31. ASSUME NEW r \in RunIds, KeyExpires(r) PROVE StopInv'
    BY <1>31 DEF KeyExpires
  <1>32. ASSUME NEW p \in Execs \cup Stops, Disconnect(p) PROVE StopInv'
    BY <1>32 DEF Disconnect
  <1>33. ASSUME NEW h \in Hosts, Crash(h) PROVE StopInv'
    BY <1>33 DEF Crash
  <1>34. CASE UNCHANGED vars
    BY <1>34
  <1>35. QED
    BY <1>1, <1>2, <1>3, <1>4, <1>5, <1>6, <1>7, <1>8, <1>8a, <1>9, <1>10,
       <1>11, <1>12, <1>13, <1>14, <1>15, <1>16, <1>17, <1>18, <1>18a, <1>19,
       <1>20, <1>21,
       <1>22, <1>23, <1>24, <1>25, <1>26, <1>27, <1>28, <1>29, <1>30, <1>31,
       <1>32, <1>33, <1>34
    DEF Next, ExecStep, StopStep, Environment

LEMMA StopInvHolds == Spec => []StopInv
  <1>1. Init => StopInv
    BY DEF Init, StopInv
  <1>2. QED
    BY <1>1, TypeInvHolds, CancelFuncsCorrect, ExecInvHolds, StopInvNext, PTL
    DEF Spec

-----------------------------------------------------------------------------
(* Safety.                                                                 *)

LEMMA VerdictEarnedNext ==
  TypeInv /\ ExecInv /\ VerdictEarned /\ [Next]_vars => VerdictEarned'
  <1> SUFFICES ASSUME TypeInv, ExecInv, VerdictEarned, [Next]_vars
               PROVE  VerdictEarned'
    OBVIOUS
  <1>0. /\ status \in [RunIds -> Active \cup Terminal \cup {"none"}]
        /\ pc \in [Execs -> ExecPC]
        /\ runOf \in [Execs -> RunIds \cup {None}]
        /\ okSteps \in [Execs -> Nat]
        /\ badSteps \in [Execs -> Nat]
        /\ Steps \in Nat \ {0}
        /\ None \notin RunIds
    BY ConstantsAssumption DEF TypeInv, TypeOK, RunIds
  <1> USE <1>0
      DEF VerdictEarned, Executors, CurrentStep, ExecInv, BeforeRun,
          BeforeSteps, InSteps, CtxOK, ReqOK, Goto,
          shared, dbVars, ctxVars, local, handlerVars, runVars, stepVars, execVars,
          stopVars, troubleVars, others, vars
  <1>1. ASSUME NEW e \in Execs, Begin(e) PROVE VerdictEarned'
    BY <1>1 DEF Begin
  <1>2. ASSUME NEW e \in Execs, ExpireStale(e) PROVE VerdictEarned'
    BY <1>2 DEF ExpireStale
  <1>3. ASSUME NEW e \in Execs, CountActive(e) PROVE VerdictEarned'
    BY <1>3 DEF CountActive
  <1>4. ASSUME NEW e \in Execs, Activate(e) PROVE VerdictEarned'
    BY <1>4 DEF Activate
  <1>5. ASSUME NEW e \in Execs, GiveUp(e) PROVE VerdictEarned'
    BY <1>5 DEF GiveUp
  <1>6. ASSUME NEW e \in Execs, FindRun(e) PROVE VerdictEarned'
    BY <1>6 DEF FindRun, Latest, ActiveRuns
  <1>7. ASSUME NEW e \in Execs, NextRunNumber(e) PROVE VerdictEarned'
    BY <1>7 DEF NextRunNumber
  <1>8. ASSUME NEW e \in Execs, InsertRun(e) PROVE VerdictEarned'
    BY <1>8 DEF InsertRun, NewRow, FreshRuns, SetStatus
  <1>8a. ASSUME NEW e \in Execs, InsertUnanswered(e) PROVE VerdictEarned'
    BY <1>8a DEF InsertUnanswered, NewRow, FreshRuns, SetStatus, StatementFails, Fault
  <1>9. ASSUME NEW e \in Execs, Register(e) PROVE VerdictEarned'
    BY <1>9 DEF Register
  <1>10. ASSUME NEW e \in Execs, PreCheck(e) PROVE VerdictEarned'
    BY <1>10 DEF PreCheck, StopRead, NoStopRead
  <1>11. ASSUME NEW e \in Execs, Abort(e) PROVE VerdictEarned'
    BY <1>11 DEF Abort, EngineUpdate, StatementFails, SetStatus
  <1>12. ASSUME NEW e \in Execs, MarkStarted(e) PROVE VerdictEarned'
    BY <1>12 DEF MarkStarted, EngineUpdate, StatementFails, SetStatus
  <1>13. ASSUME NEW e \in Execs, StepBegin(e) PROVE VerdictEarned'
    BY <1>13 DEF StepBegin, StopRead, NoStopRead
  <1>14. ASSUME NEW e \in Execs, StepFails(e) PROVE VerdictEarned'
    BY <1>14 DEF StepFails, AfterStep
  <1>15. ASSUME NEW e \in Execs, Deploy(e) PROVE VerdictEarned'
    BY <1>15 DEF Deploy
  <1>16. ASSUME NEW e \in Execs, Arm(e) PROVE VerdictEarned'
    BY <1>16 DEF Arm, StopRead, NoStopRead
  <1>17. ASSUME NEW e \in Execs, Attack(e) PROVE VerdictEarned'
    BY <1>17 DEF Attack
  <1>18. ASSUME NEW e \in Execs, Validate(e) PROVE VerdictEarned'
    BY <1>18 DEF Validate, StopRead, NoStopRead
  <1>18a. ASSUME NEW e \in Execs, Detect(e) PROVE VerdictEarned'
    <2>1. \A x \in Execs : runOf[x] \in RunIds /\ CurrentStep(x) = Steps =>
            x # e /\ okSteps'[x] = okSteps[x] /\ badSteps'[x] = badSteps[x]
      BY <1>18a DEF Detect
    <2>2. UNCHANGED <<status, runOf>>
      BY <1>18a DEF Detect
    <2>3. QED
      BY <2>1, <2>2
  <1>19. ASSUME NEW e \in Execs, Complete(e) PROVE VerdictEarned'
    <2>1. UNCHANGED <<runOf, okSteps, badSteps>>
      BY <1>19 DEF Complete
    <2>2. \/ UNCHANGED status
          \/ status' = [status EXCEPT ![runOf[e]] = Verdict(e)]
      BY <1>19 DEF Complete, EngineUpdate, SetStatus
    <2>3. CurrentStep(e) = Steps /\ okSteps[e] \in Nat /\ badSteps[e] \in Nat
      BY <1>19 DEF Complete
    <2>4. /\ Verdict(e) = "completed" => okSteps[e] > 0
          /\ Verdict(e) = "failed" => okSteps[e] = 0
      BY <2>3 DEF Verdict
    <2>5. QED
      BY <2>1, <2>2, <2>3, <2>4
  <1>20. ASSUME NEW e \in Execs, Return(e) PROVE VerdictEarned'
    BY <1>20 DEF Return, Deregister
  <1>21. ASSUME NEW e \in Execs, Respond(e) PROVE VerdictEarned'
    BY <1>21 DEF Respond
  <1>22. ASSUME NEW s \in Stops, Lookup(s) PROVE VerdictEarned'
    BY <1>22 DEF Lookup
  <1>23. ASSUME NEW s \in Stops, CancelContext(s) PROVE VerdictEarned'
    BY <1>23 DEF CancelContext
  <1>24. ASSUME NEW s \in Stops, EngineSignal(s) PROVE VerdictEarned'
    BY <1>24 DEF EngineSignal
  <1>25. ASSUME NEW s \in Stops, CancelRow(s) PROVE VerdictEarned'
    BY <1>25 DEF CancelRow, SetStatus
  <1>26. ASSUME NEW s \in Stops, StopTimesOut(s) PROVE VerdictEarned'
    BY <1>26 DEF StopTimesOut
  <1>27. ASSUME NEW s \in Stops, GuardedCancel(s) PROVE VerdictEarned'
    BY <1>27 DEF GuardedCancel, SetStatus
  <1>28. ASSUME NEW s \in Stops, Signal(s) PROVE VerdictEarned'
    BY <1>28 DEF Signal
  <1>29. ASSUME NEW s \in Stops, MarkStopped(s) PROVE VerdictEarned'
    BY <1>29 DEF MarkStopped
  <1>30. ASSUME CancelStaleRuns PROVE VerdictEarned'
    BY <1>30 DEF CancelStaleRuns, ActiveRuns
  <1>31. ASSUME NEW r \in RunIds, KeyExpires(r) PROVE VerdictEarned'
    BY <1>31 DEF KeyExpires
  <1>32. ASSUME NEW p \in Execs \cup Stops, Disconnect(p) PROVE VerdictEarned'
    BY <1>32 DEF Disconnect
  <1>33. ASSUME NEW h \in Hosts, Crash(h) PROVE VerdictEarned'
    BY <1>33 DEF Crash
  <1>34. CASE UNCHANGED vars
    BY <1>34
  <1>35. QED
    BY <1>1, <1>2, <1>3, <1>4, <1>5, <1>6, <1>7, <1>8, <1>8a, <1>9, <1>10,
       <1>11, <1>12, <1>13, <1>14, <1>15, <1>16, <1>17, <1>18, <1>18a, <1>19,
       <1>20, <1>21,
       <1>22, <1>23, <1>24, <1>25, <1>26, <1>27, <1>28, <1>29, <1>30, <1>31,
       <1>32, <1>33, <1>34
    DEF Next, ExecStep, StopStep, Environment

(* A run is recorded as completed, or as failed, only by an executor that   *)
(* went through every one of its steps and counted a success, or none.      *)
THEOREM VerdictsCorrect == Spec => []VerdictEarned
  <1>1. Init => VerdictEarned
    BY DEF Init, VerdictEarned
  <1>2. QED
    BY <1>1, TypeInvHolds, ExecInvHolds, VerdictEarnedNext, PTL DEF Spec

\* StopIsFinal, with the executors of the run spelt out.
SoleExecutorStopped ==
  \A s \in Stops :
    /\ rowCancelled[s]
    /\ hit[s] # None
    /\ \A x \in Execs : runOf[x] = stopRun[s] => x = hit[s]
    => status[stopRun[s]] = "cancelled"

LEMMA SoleExecutorNext ==
  /\ TypeInv /\ ExecInv /\ StopInv /\ SoleExecutorStopped /\ [Next]_vars
  => SoleExecutorStopped'
  <1> SUFFICES ASSUME TypeInv, ExecInv, StopInv, SoleExecutorStopped, [Next]_vars
               PROVE  SoleExecutorStopped'
    OBVIOUS
  <1>0. /\ status \in [RunIds -> Active \cup Terminal \cup {"none"}]
        /\ pc \in [Execs -> ExecPC]
        /\ runOf \in [Execs -> RunIds \cup {None}]
        /\ spc \in [Stops -> StopPC]
        /\ stopRun \in [Stops -> RunIds \cup {None}]
        /\ hit \in [Stops -> Execs \cup {None}]
        /\ rowCancelled \in [Stops -> BOOLEAN]
        /\ None \notin RunIds
    BY ConstantsAssumption DEF TypeInv, TypeOK, RunIds
  <1> USE <1>0
      DEF SoleExecutorStopped, ExecInv, StopInv, BeforeRun, CtxOK, ReqOK,
          Goto, StopGoto, Active,
          shared, dbVars, ctxVars, local, handlerVars, runVars, stepVars, execVars,
          stopVars, troubleVars, others, vars
  <1>1. ASSUME NEW e \in Execs, Begin(e) PROVE SoleExecutorStopped'
    BY <1>1 DEF Begin
  <1>2. ASSUME NEW e \in Execs, ExpireStale(e) PROVE SoleExecutorStopped'
    BY <1>2 DEF ExpireStale, ActiveRuns
  <1>3. ASSUME NEW e \in Execs, CountActive(e) PROVE SoleExecutorStopped'
    BY <1>3 DEF CountActive
  <1>4. ASSUME NEW e \in Execs, Activate(e) PROVE SoleExecutorStopped'
    BY <1>4 DEF Activate
  <1>5. ASSUME NEW e \in Execs, GiveUp(e) PROVE SoleExecutorStopped'
    BY <1>5 DEF GiveUp
  <1>6. ASSUME NEW e \in Execs, FindRun(e) PROVE SoleExecutorStopped'
    BY <1>6 DEF FindRun, Latest, ActiveRuns
  <1>7. ASSUME NEW e \in Execs, NextRunNumber(e) PROVE SoleExecutorStopped'
    BY <1>7 DEF NextRunNumber
  <1>8. ASSUME NEW e \in Execs, InsertRun(e) PROVE SoleExecutorStopped'
    BY <1>8 DEF InsertRun, NewRow, FreshRuns, SetStatus
  <1>8a. ASSUME NEW e \in Execs, InsertUnanswered(e) PROVE SoleExecutorStopped'
    BY <1>8a DEF InsertUnanswered, NewRow, FreshRuns, SetStatus, StatementFails, Fault
  <1>9. ASSUME NEW e \in Execs, Register(e) PROVE SoleExecutorStopped'
    BY <1>9 DEF Register
  <1>10. ASSUME NEW e \in Execs, PreCheck(e) PROVE SoleExecutorStopped'
    BY <1>10 DEF PreCheck, StopRead, NoStopRead
  <1>11. ASSUME NEW e \in Execs, Abort(e) PROVE SoleExecutorStopped'
    BY <1>11 DEF Abort, EngineUpdate, StatementFails, SetStatus
  <1>12. ASSUME NEW e \in Execs, MarkStarted(e) PROVE SoleExecutorStopped'
    BY <1>12 DEF MarkStarted, EngineUpdate, StatementFails, SetStatus
  <1>13. ASSUME NEW e \in Execs, StepBegin(e) PROVE SoleExecutorStopped'
    BY <1>13 DEF StepBegin, StopRead, NoStopRead
  <1>14. ASSUME NEW e \in Execs, StepFails(e) PROVE SoleExecutorStopped'
    BY <1>14 DEF StepFails, AfterStep
  <1>15. ASSUME NEW e \in Execs, Deploy(e) PROVE SoleExecutorStopped'
    BY <1>15 DEF Deploy
  <1>16. ASSUME NEW e \in Execs, Arm(e) PROVE SoleExecutorStopped'
    BY <1>16 DEF Arm, StopRead, NoStopRead
  <1>17. ASSUME NEW e \in Execs, Attack(e) PROVE SoleExecutorStopped'
    BY <1>17 DEF Attack
  <1>18. ASSUME NEW e \in Execs, Validate(e) PROVE SoleExecutorStopped'
    BY <1>18 DEF Validate, StopRead, NoStopRead
  <1>18a. ASSUME NEW e \in Execs, Detect(e) PROVE SoleExecutorStopped'
    BY <1>18a DEF Detect, CurrentStep, AfterStep
  <1>19. ASSUME NEW e \in Execs, Complete(e) PROVE SoleExecutorStopped'
    BY <1>19 DEF Complete, EngineUpdate, StatementFails, SetStatus, Verdict
  <1>20. ASSUME NEW e \in Execs, Return(e) PROVE SoleExecutorStopped'
    BY <1>20 DEF Return, Deregister
  <1>21. ASSUME NEW e \in Execs, Respond(e) PROVE SoleExecutorStopped'
    BY <1>21 DEF Respond
  <1>22. ASSUME NEW s \in Stops, Lookup(s) PROVE SoleExecutorStopped'
    BY <1>22 DEF Lookup, Latest, ActiveRuns
  <1>23. ASSUME NEW s \in Stops, CancelContext(s) PROVE SoleExecutorStopped'
    BY <1>23 DEF CancelContext
  <1>24. ASSUME NEW s \in Stops, EngineSignal(s) PROVE SoleExecutorStopped'
    BY <1>24 DEF EngineSignal
  <1>25. ASSUME NEW s \in Stops, CancelRow(s) PROVE SoleExecutorStopped'
    BY <1>25 DEF CancelRow, SetStatus
  <1>26. ASSUME NEW s \in Stops, StopTimesOut(s) PROVE SoleExecutorStopped'
    BY <1>26 DEF StopTimesOut
  <1>27. ASSUME NEW s \in Stops, GuardedCancel(s) PROVE SoleExecutorStopped'
    BY <1>27 DEF GuardedCancel, SetStatus
  <1>28. ASSUME NEW s \in Stops, Signal(s) PROVE SoleExecutorStopped'
    BY <1>28 DEF Signal
  <1>29. ASSUME NEW s \in Stops, MarkStopped(s) PROVE SoleExecutorStopped'
    BY <1>29 DEF MarkStopped
  <1>30. ASSUME CancelStaleRuns PROVE SoleExecutorStopped'
    BY <1>30 DEF CancelStaleRuns, ActiveRuns
  <1>31. ASSUME NEW r \in RunIds, KeyExpires(r) PROVE SoleExecutorStopped'
    BY <1>31 DEF KeyExpires
  <1>32. ASSUME NEW p \in Execs \cup Stops, Disconnect(p) PROVE SoleExecutorStopped'
    BY <1>32 DEF Disconnect
  <1>33. ASSUME NEW h \in Hosts, Crash(h) PROVE SoleExecutorStopped'
    BY <1>33 DEF Crash
  <1>34. CASE UNCHANGED vars
    BY <1>34
  <1>35. QED
    BY <1>1, <1>2, <1>3, <1>4, <1>5, <1>6, <1>7, <1>8, <1>8a, <1>9, <1>10,
       <1>11, <1>12, <1>13, <1>14, <1>15, <1>16, <1>17, <1>18, <1>18a, <1>19,
       <1>20, <1>21,
       <1>22, <1>23, <1>24, <1>25, <1>26, <1>27, <1>28, <1>29, <1>30, <1>31,
       <1>32, <1>33, <1>34
    DEF Next, ExecStep, StopStep, Environment

(* A stop that has reached the only executor of a run and cancelled the     *)
(* run's row stays in force: the row is 'cancelled' from then on.           *)
THEOREM StopsAreFinal == Spec => []StopIsFinal
  <1>1. Init => SoleExecutorStopped
    BY DEF Init, SoleExecutorStopped
  <1>2. SoleExecutorStopped => StopIsFinal
    BY DEF SoleExecutorStopped, StopIsFinal, Executors
  <1>3. QED
    BY <1>1, <1>2, TypeInvHolds, ExecInvHolds, StopInvHolds, SoleExecutorNext,
       PTL
    DEF Spec

LEMMA LateInvNext == TypeInv /\ ExecInv /\ LateInv /\ [Next]_vars => LateInv'
  <1> SUFFICES ASSUME TypeInv, ExecInv, LateInv, [Next]_vars PROVE LateInv'
    OBVIOUS
  <1>0. /\ pc \in [Execs -> ExecPC]
        /\ runOf \in [Execs -> RunIds \cup {None}]
        /\ late \in [Execs -> Nat]
        /\ missed \in [Execs -> Nat]
        /\ stopKey \subseteq RunIds
        /\ None \notin RunIds
    BY ConstantsAssumption DEF TypeInv, TypeOK, RunIds
  <1> USE <1>0
      DEF LateInv, BeforeRun, CtxOK, ReqOK, Goto, KeySet,
          shared, dbVars, ctxVars, local, handlerVars, runVars, stepVars, execVars,
          stopVars, troubleVars, others, vars
  <1>1. ASSUME NEW e \in Execs, Begin(e) PROVE LateInv'
    BY <1>1 DEF Begin
  <1>2. ASSUME NEW e \in Execs, ExpireStale(e) PROVE LateInv'
    BY <1>2 DEF ExpireStale
  <1>3. ASSUME NEW e \in Execs, CountActive(e) PROVE LateInv'
    BY <1>3 DEF CountActive
  <1>4. ASSUME NEW e \in Execs, Activate(e) PROVE LateInv'
    BY <1>4 DEF Activate
  <1>5. ASSUME NEW e \in Execs, GiveUp(e) PROVE LateInv'
    BY <1>5 DEF GiveUp
  <1>6. ASSUME NEW e \in Execs, FindRun(e) PROVE LateInv'
    <2>1. \/ UNCHANGED runVars
          \/ \E r \in RunIds : runOf' = [runOf EXCEPT ![e] = r]
      BY <1>6 DEF FindRun, Latest, ActiveRuns
    <2>2. /\ pc[e] \in BeforeRun
          /\ pc' = [pc EXCEPT ![e] = pc'[e]] /\ pc'[e] \in {"number", "register"}
          /\ UNCHANGED <<stopKey, ctxDone, late, missed>>
      BY <1>6 DEF FindRun
    <2>3. late[e] = 0 /\ missed[e] = 0
      BY <2>2 DEF ExecInv
    <2>4. QED
      BY <2>1, <2>2, <2>3
  <1>7. ASSUME NEW e \in Execs, NextRunNumber(e) PROVE LateInv'
    BY <1>7 DEF NextRunNumber
  <1>8. ASSUME NEW e \in Execs, InsertRun(e) PROVE LateInv'
    <2>1. \E r \in RunIds : runOf' = [runOf EXCEPT ![e] = r]
      BY <1>8 DEF InsertRun, FreshRuns
    <2>2. /\ pc[e] \in BeforeRun
          /\ pc' = [pc EXCEPT ![e] = pc'[e]] /\ pc'[e] \in {"number", "register"}
          /\ UNCHANGED <<stopKey, ctxDone, late, missed>>
      BY <1>8 DEF InsertRun
    <2>3. late[e] = 0 /\ missed[e] = 0
      BY <2>2 DEF ExecInv
    <2>4. QED
      BY <2>1, <2>2, <2>3
  <1>8a. ASSUME NEW e \in Execs, InsertUnanswered(e) PROVE LateInv'
    BY <1>8a DEF InsertUnanswered, NewRow, FreshRuns, SetStatus, StatementFails, Fault
  <1>9. ASSUME NEW e \in Execs, Register(e) PROVE LateInv'
    BY <1>9 DEF Register
  <1>10. ASSUME NEW e \in Execs, PreCheck(e) PROVE LateInv'
    <2>1. /\ pc[e] = "precheck"
          /\ pc' = [pc EXCEPT ![e] = pc'[e]] /\ pc'[e] \in {"abort", "start"}
          /\ UNCHANGED <<stopKey, ctxDone, late, runOf>>
      BY <1>10 DEF PreCheck
    <2>2. \/ UNCHANGED missed /\ ~KeySet(e)
          \/ UNCHANGED missed /\ pc'[e] = "abort"
          \/ KeySet(e) /\ missed' = [missed EXCEPT ![e] = @ + 1]
      BY <1>10 DEF PreCheck, StopRead, NoStopRead
    <2>3. QED
      BY <2>1, <2>2
  <1>11. ASSUME NEW e \in Execs, Abort(e) PROVE LateInv'
    BY <1>11 DEF Abort
  <1>12. ASSUME NEW e \in Execs, MarkStarted(e) PROVE LateInv'
    BY <1>12 DEF MarkStarted
  <1>13. ASSUME NEW e \in Execs, StepBegin(e) PROVE LateInv'
    BY <1>13 DEF StepBegin, StopRead, NoStopRead
  <1>14. ASSUME NEW e \in Execs, StepFails(e) PROVE LateInv'
    BY <1>14 DEF StepFails, AfterStep
  <1>15. ASSUME NEW e \in Execs, Deploy(e) PROVE LateInv'
    BY <1>15 DEF Deploy
  <1>16. ASSUME NEW e \in Execs, Arm(e) PROVE LateInv'
    <2>1. /\ pc[e] = "arm"
          /\ pc' = [pc EXCEPT ![e] = pc'[e]] /\ pc'[e] = "attack"
          /\ UNCHANGED <<stopKey, ctxDone, late, runOf>>
      BY <1>16 DEF Arm
    <2>2. \/ UNCHANGED missed /\ ~KeySet(e)
          \/ KeySet(e) /\ missed' = [missed EXCEPT ![e] = @ + 1]
      BY <1>16 DEF Arm, StopRead, NoStopRead
    <2>3. /\ 2 * late[e] <= missed'[e]
          /\ runOf[e] \notin stopKey => late[e] = 0 /\ missed'[e] = 0
      <3>1. CASE UNCHANGED missed /\ ~KeySet(e)
        BY <1>16, <2>1, <3>1 DEF Arm
      <3>2. CASE KeySet(e) /\ missed' = [missed EXCEPT ![e] = @ + 1]
        BY <2>1, <3>2
      <3>3. QED
        BY <2>2, <3>1, <3>2
    <2>4. \A x \in Execs \ {e} : pc'[x] = pc[x] /\ missed'[x] = missed[x]
      BY <2>1, <2>2
    <2>5. missed'[e] \in Nat
      BY <2>2
    <2>6. 2 * late[e] <= missed'[e] + 2
      BY <2>3, <2>5
    <2>7. ASSUME NEW x \in Execs
          PROVE  /\ 2 * late'[x] <= missed'[x] + 2
                 /\ runOf'[x] \notin stopKey' => late'[x] = 0 /\ missed'[x] = 0
                 /\ x \notin ctxDone' /\ pc'[x] \in {"deploy", "arm"}
                      => 2 * late'[x] <= missed'[x] + 1
                 /\ x \notin ctxDone' /\ pc'[x] = "attack"
                      => 2 * late'[x] <= missed'[x]
      <3>1. CASE x = e
        BY <2>1, <2>3, <2>6, <3>1
      <3>2. CASE x # e
        BY <2>1, <2>4, <3>2
      <3>3. QED
        BY <3>1, <3>2
    <2>8. QED
      BY <2>1, <2>7
  <1>17. ASSUME NEW e \in Execs, Attack(e) PROVE LateInv'
    BY <1>17 DEF Attack
  <1>18. ASSUME NEW e \in Execs, Validate(e) PROVE LateInv'
    <2>1. /\ pc[e] = "validate"
          /\ pc' = [pc EXCEPT ![e] = pc'[e]] /\ pc'[e] = "siem"
          /\ UNCHANGED <<stopKey, ctxDone, late, runOf>>
      BY <1>18 DEF Validate
    <2>2. \/ UNCHANGED missed /\ ~KeySet(e)
          \/ KeySet(e) /\ missed' = [missed EXCEPT ![e] = @ + 1]
      BY <1>18 DEF Validate, StopRead, NoStopRead
    <2>3. /\ 2 * late[e] <= missed'[e] + 2
          /\ runOf[e] \notin stopKey => late[e] = 0 /\ missed'[e] = 0
      <3>1. CASE UNCHANGED missed /\ ~KeySet(e)
        BY <1>18, <2>1, <3>1 DEF Validate
      <3>2. CASE KeySet(e) /\ missed' = [missed EXCEPT ![e] = @ + 1]
        BY <2>1, <3>2
      <3>3. QED
        BY <2>2, <3>1, <3>2
    <2>4. \A x \in Execs \ {e} : pc'[x] = pc[x] /\ missed'[x] = missed[x]
      BY <2>1, <2>2
    <2>5. missed'[e] \in Nat
      BY <2>2
    <2>6. QED
      BY <2>1, <2>3, <2>4, <2>5
  <1>18a. ASSUME NEW e \in Execs, Detect(e) PROVE LateInv'
    BY <1>18a DEF Detect, CurrentStep, AfterStep
  <1>19. ASSUME NEW e \in Execs, Complete(e) PROVE LateInv'
    BY <1>19 DEF Complete
  <1>20. ASSUME NEW e \in Execs, Return(e) PROVE LateInv'
    BY <1>20 DEF Return
  <1>21. ASSUME NEW e \in Execs, Respond(e) PROVE LateInv'
    BY <1>21 DEF Respond
  <1>22. ASSUME NEW s \in Stops, Lookup(s) PROVE LateInv'
    BY <1>22 DEF Lookup
  <1>23. ASSUME NEW s \in Stops, CancelContext(s) PROVE LateInv'
    BY <1>23 DEF CancelContext
  <1>24. ASSUME NEW s \in Stops, EngineSignal(s) PROVE LateInv'
    BY <1>24 DEF EngineSignal, SetStopKey
  <1>25. ASSUME NEW s \in Stops, CancelRow(s) PROVE LateInv'
    BY <1>25 DEF CancelRow
  <1>26. ASSUME NEW s \in Stops, StopTimesOut(s) PROVE LateInv'
    BY <1>26 DEF StopTimesOut
  <1>27. ASSUME NEW s \in Stops, GuardedCancel(s) PROVE LateInv'
    BY <1>27 DEF GuardedCancel
  <1>28. ASSUME NEW s \in Stops, Signal(s) PROVE LateInv'
    BY <1>28 DEF Signal, SetStopKey
  <1>29. ASSUME NEW s \in Stops, MarkStopped(s) PROVE LateInv'
    BY <1>29 DEF MarkStopped
  <1>30. ASSUME CancelStaleRuns PROVE LateInv'
    BY <1>30 DEF CancelStaleRuns
  <1>31. ASSUME NEW r \in RunIds, KeyExpires(r) PROVE LateInv'
    BY <1>31 DEF KeyExpires
  <1>32. ASSUME NEW p \in Execs \cup Stops, Disconnect(p) PROVE LateInv'
    BY <1>32 DEF Disconnect
  <1>33. ASSUME NEW h \in Hosts, Crash(h) PROVE LateInv'
    BY <1>33 DEF Crash
  <1>34. CASE UNCHANGED vars
    BY <1>34
  <1>35. QED
    BY <1>1, <1>2, <1>3, <1>4, <1>5, <1>6, <1>7, <1>8, <1>8a, <1>9, <1>10,
       <1>11, <1>12, <1>13, <1>14, <1>15, <1>16, <1>17, <1>18, <1>18a, <1>19,
       <1>20, <1>21,
       <1>22, <1>23, <1>24, <1>25, <1>26, <1>27, <1>28, <1>29, <1>30, <1>31,
       <1>32, <1>33, <1>34
    DEF Next, ExecStep, StopStep, Environment

(* The stop key stops a run within a step: while it is set, an executor of   *)
(* the run launches the attack it had just been cleared for and then one     *)
(* more for every two failures of Redis to hand it the key, however many     *)
(* executors, stops and steps there are.                                     *)
THEOREM LateAttacksBounded == Spec => []OneLateAttack
  <1>1. Init => LateInv
    BY DEF Init, LateInv
  <1>2. LateInv => OneLateAttack
    BY DEF LateInv, OneLateAttack
  <1>3. QED
    BY <1>1, <1>2, TypeInvHolds, ExecInvHolds, LateInvNext, PTL DEF Spec

LEMMA OrphanNext ==
  /\ TypeInv /\ CancelFuncLive /\ ExecInv /\ OrphanNeedsFault /\ [Next]_vars
  => OrphanNeedsFault'
  <1> SUFFICES ASSUME TypeInv, CancelFuncLive, ExecInv, OrphanNeedsFault,
                      [Next]_vars
               PROVE  OrphanNeedsFault'
    OBVIOUS
  <1>0. /\ status \in [RunIds -> Active \cup Terminal \cup {"none"}]
        /\ pc \in [Execs -> ExecPC]
        /\ runOf \in [Execs -> RunIds \cup {None}]
        /\ spc \in [Stops -> StopPC]
        /\ stopRun \in [Stops -> RunIds \cup {None}]
        /\ None \notin RunIds
        /\ Execs \cap Stops = {}
    BY ConstantsAssumption DEF TypeInv, TypeOK, RunIds
  <1> USE <1>0
      DEF OrphanNeedsFault, InTrouble, Executors, Working, Registered, Stopping,
          ActiveRuns, Active, ExecInv, BeforeRun, CtxOK, ReqOK, Goto, StopGoto,
          shared, dbVars, ctxVars, local, handlerVars, runVars, stepVars, execVars,
          stopVars, troubleVars, others, vars
  <1>1. ASSUME NEW e \in Execs, Begin(e) PROVE OrphanNeedsFault'
    BY <1>1 DEF Begin
  <1>2. ASSUME NEW e \in Execs, ExpireStale(e) PROVE OrphanNeedsFault'
    BY <1>2 DEF ExpireStale
  <1>3. ASSUME NEW e \in Execs, CountActive(e) PROVE OrphanNeedsFault'
    BY <1>3 DEF CountActive
  <1>4. ASSUME NEW e \in Execs, Activate(e) PROVE OrphanNeedsFault'
    BY <1>4 DEF Activate
  <1>5. ASSUME NEW e \in Execs, GiveUp(e) PROVE OrphanNeedsFault'
    BY <1>5 DEF GiveUp
  <1>6. ASSUME NEW e \in Execs, FindRun(e) PROVE OrphanNeedsFault'
    BY <1>6 DEF FindRun, Latest
  <1>7. ASSUME NEW e \in Execs, NextRunNumber(e) PROVE OrphanNeedsFault'
    BY <1>7 DEF NextRunNumber
  <1>8. ASSUME NEW e \in Execs, InsertRun(e) PROVE OrphanNeedsFault'
    BY <1>8 DEF InsertRun, NewRow, FreshRuns, SetStatus
  <1>8a. ASSUME NEW e \in Execs, InsertUnanswered(e) PROVE OrphanNeedsFault'
    BY <1>8a DEF InsertUnanswered, NewRow, FreshRuns, SetStatus, StatementFails, Fault
  <1>9. ASSUME NEW e \in Execs, Register(e) PROVE OrphanNeedsFault'
    BY <1>9 DEF Register
  <1>10. ASSUME NEW e \in Execs, PreCheck(e) PROVE OrphanNeedsFault'
    BY <1>10 DEF PreCheck, StopRead, NoStopRead
  <1>11. ASSUME NEW e \in Execs, Abort(e) PROVE OrphanNeedsFault'
    BY <1>11 DEF Abort, EngineUpdate, StatementFails, SetStatus
  <1>12. ASSUME NEW e \in Execs, MarkStarted(e) PROVE OrphanNeedsFault'
    BY <1>12 DEF MarkStarted, EngineUpdate, StatementFails, SetStatus
  <1>13. ASSUME NEW e \in Execs, StepBegin(e) PROVE OrphanNeedsFault'
    BY <1>13 DEF StepBegin, StopRead, NoStopRead
  <1>14. ASSUME NEW e \in Execs, StepFails(e) PROVE OrphanNeedsFault'
    BY <1>14 DEF StepFails, AfterStep
  <1>15. ASSUME NEW e \in Execs, Deploy(e) PROVE OrphanNeedsFault'
    BY <1>15 DEF Deploy
  <1>16. ASSUME NEW e \in Execs, Arm(e) PROVE OrphanNeedsFault'
    BY <1>16 DEF Arm, StopRead, NoStopRead
  <1>17. ASSUME NEW e \in Execs, Attack(e) PROVE OrphanNeedsFault'
    BY <1>17 DEF Attack
  <1>18. ASSUME NEW e \in Execs, Validate(e) PROVE OrphanNeedsFault'
    BY <1>18 DEF Validate, StopRead, NoStopRead
  <1>18a. ASSUME NEW e \in Execs, Detect(e) PROVE OrphanNeedsFault'
    BY <1>18a DEF Detect, CurrentStep, AfterStep
  <1>19. ASSUME NEW e \in Execs, Complete(e) PROVE OrphanNeedsFault'
    BY <1>19 DEF Complete, EngineUpdate, StatementFails, SetStatus, Verdict
  <1>20. ASSUME NEW e \in Execs, Return(e) PROVE OrphanNeedsFault'
    BY <1>20 DEF Return, Deregister
  <1>21. ASSUME NEW e \in Execs, Respond(e) PROVE OrphanNeedsFault'
    BY <1>21 DEF Respond
  <1>22. ASSUME NEW s \in Stops, Lookup(s) PROVE OrphanNeedsFault'
    BY <1>22 DEF Lookup, Latest
  <1>23. ASSUME NEW s \in Stops, CancelContext(s) PROVE OrphanNeedsFault'
    <2> DEFINE x == cancelFn[HostOf[s]][stopRun[s]]
    <2>1. ctxDone' = ctxDone \/ (ctxDone' = ctxDone \cup {x} /\ runOf[x] = stopRun[s])
      BY <1>23, CancelTarget DEF CancelContext
    <2>2. /\ UNCHANGED <<status, reqDone, pc, runOf, stopRun, marred>>
          /\ spc[s] = "hit" /\ spc' = [spc EXCEPT ![s] = "key"]
      BY <1>23 DEF CancelContext
    <2> HIDE DEF x
    <2>3. QED
      BY <2>1, <2>2
  <1>24. ASSUME NEW s \in Stops, EngineSignal(s) PROVE OrphanNeedsFault'
    BY <1>24 DEF EngineSignal
  <1>25. ASSUME NEW s \in Stops, CancelRow(s) PROVE OrphanNeedsFault'
    <2>1. \/ status' = [status EXCEPT ![stopRun[s]] = "cancelled"] /\ UNCHANGED marred
          \/ UNCHANGED status /\ marred' = marred \cup {stopRun[s]}
          \/ UNCHANGED <<status, marred>> /\ s \in reqDone
      BY <1>25 DEF CancelRow, SetStatus, StatementFails
    <2>2. /\ UNCHANGED <<reqDone, ctxDone, pc, runOf, stopRun>>
          /\ spc[s] = "row" /\ spc' = [spc EXCEPT ![s] = "guard"]
      BY <1>25 DEF CancelRow
    <2>3. QED
      BY SMTT(30), <2>1, <2>2
  <1>26. ASSUME NEW s \in Stops, StopTimesOut(s) PROVE OrphanNeedsFault'
    BY <1>26 DEF StopTimesOut
  <1>27. ASSUME NEW s \in Stops, GuardedCancel(s) PROVE OrphanNeedsFault'
    <2>1. \/ s \in reqDone /\ UNCHANGED <<status, marred>>
          \/ /\ marred' = marred \cup {stopRun[s]}
             /\ UNCHANGED status \/ status' = [status EXCEPT ![stopRun[s]] = "cancelled"]
          \/ status' = [status EXCEPT ![stopRun[s]] = "cancelled"] /\ UNCHANGED marred
          \/ stopRun[s] \notin ActiveRuns /\ UNCHANGED <<status, marred>>
      BY <1>27 DEF GuardedCancel, SetStatus, StatementFails, Cancellable
    <2>2. /\ UNCHANGED <<reqDone, ctxDone, pc, runOf, stopRun>>
          /\ \A q \in Stops \ {s} : spc'[q] = spc[q]
          /\ spc'[s] # "lost"
      BY <1>27 DEF GuardedCancel
    <2>3. spc[s] = "guard"
      BY <1>27 DEF GuardedCancel
    <2>4. QED
      BY SMTT(30), <2>1, <2>2, <2>3
  <1>28. ASSUME NEW s \in Stops, Signal(s) PROVE OrphanNeedsFault'
    BY <1>28 DEF Signal
  <1>29. ASSUME NEW s \in Stops, MarkStopped(s) PROVE OrphanNeedsFault'
    BY <1>29 DEF MarkStopped
  <1>30. ASSUME CancelStaleRuns PROVE OrphanNeedsFault'
    BY <1>30 DEF CancelStaleRuns
  <1>31. ASSUME NEW r \in RunIds, KeyExpires(r) PROVE OrphanNeedsFault'
    BY <1>31 DEF KeyExpires
  <1>32. ASSUME NEW p \in Execs \cup Stops, Disconnect(p) PROVE OrphanNeedsFault'
    BY <1>32 DEF Disconnect
  <1>33. ASSUME NEW h \in Hosts, Crash(h) PROVE OrphanNeedsFault'
    BY <1>33 DEF Crash
  <1>34. CASE UNCHANGED vars
    BY <1>34
  <1>35. QED
    BY <1>1, <1>2, <1>3, <1>4, <1>5, <1>6, <1>7, <1>8, <1>8a, <1>9, <1>10,
       <1>11, <1>12, <1>13, <1>14, <1>15, <1>16, <1>17, <1>18, <1>18a, <1>19,
       <1>20, <1>21,
       <1>22, <1>23, <1>24, <1>25, <1>26, <1>27, <1>28, <1>29, <1>30, <1>31,
       <1>32, <1>33, <1>34
    DEF Next, ExecStep, StopStep, Environment

(* Without a crash, a closed connection or a failed statement about the run *)
(* none is left active with nobody to end it: the hand-over from a          *)
(* cancelled executor to the stop that cancelled it loses no run.           *)
THEOREM OrphansNeedFaults == Spec => []OrphanNeedsFault
  <1>1. Init => OrphanNeedsFault
    BY DEF Init, OrphanNeedsFault, ActiveRuns, Active
  <1>2. QED
    BY <1>1, TypeInvHolds, CancelFuncsCorrect, ExecInvHolds, OrphanNext, PTL
    DEF Spec

=============================================================================
