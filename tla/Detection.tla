------------------------------- MODULE Detection -------------------------------
(***************************************************************************)
(* What a run that executes makes of the alerts it causes: the validation  *)
(* of each of its steps, the rows and the summary the engine writes at the *)
(* end, and the notification.  The attacks themselves are StepResources'.  *)
(***************************************************************************)
EXTENDS SiemConnector, SiemValidation, Notifications

CONSTANTS
  Expected,   (* of each step: the set of alerts it expects                  *)
  MaxPages    (* pages a validation reads, 10                                *)

NSteps == Len(Expected)

ASSUME DetectionAssumption ==
  /\ Senders = Validators
  /\ MaxPages \in Nat \ {0}
  /\ NSteps \in Nat /\ \A s \in 1..NSteps : IsFiniteSet(Expected[s])

VARIABLES
  step,      (* the step each run is at                                      *)
  got,       (* the alerts its validation has been given                     *)
  before,    (* HISTORY: its alerts in the SIEM when the validation asked    *)
  rows,      (* the SIEMValidation records of its steps                      *)
  stored,    (* those in the table siem_validations                          *)
  summary    (* the result_summary of its row                                *)

runVars == <<step, got, before, rows, stored, summary>>

NoSummary == [expected |-> 0, received |-> 0, score |-> 0]

DetectionTypeOK ==
  /\ SiemTypeOK /\ NotesTypeOK
  /\ step \in [Validators -> 1..NSteps + 1]
  /\ got \in [Validators -> SUBSET Alerts]
  /\ before \in [Validators -> SUBSET Alerts]
  /\ \A r \in Validators : \A w \in rows[r] :
       w.status \in {"detected", "missed"} /\ w.expected \in Expected[w.step]
  /\ stored \in [Validators -> SUBSET UNION {rows[r] : r \in Validators}]
  /\ \A r \in Validators : summary[r].score \in 0..Whole

DetectionInit ==
  /\ SiemInit /\ NotesInit
  /\ step = [r \in Validators |-> 1]
  /\ got = [r \in Validators |-> {}]
  /\ before = [r \in Validators |-> {}]
  /\ rows = [r \in Validators |-> {}]
  /\ stored = [r \in Validators |-> {}]
  /\ summary = [r \in Validators |-> NoSummary]

siemRest == <<provider, held, token, tries, ended, siemFaults>>

\* What the SIEM has of a run.
HeldOf(r) == {held[i] : i \in {j \in DOMAIN held : held[j].run = r}}

-----------------------------------------------------------------------------
(* A step of a run                                                         *)

\* A stop cancels the run's context; 30 minutes end it, if it has a deadline.
ContextEnds(r) ==
  /\ place[r] # "over" /\ (place[r] # "idle" \/ step[r] > 1)
  /\ ~Ended(r) /\ ended' = ended \cup {r}
  /\ expired' = IF enabled = "sync" THEN expired \cup {r} ELSE expired
  /\ UNCHANGED <<provider, held, token, place, tries, offset, answer, siemFaults, runVars>>
  /\ UNCHANGED <<enabled, configured, channel, tried, sent, outcome, noteFaults>>

\* executeStep comes to the validation: a step fails before it when the context
\* has ended, and one with no expected alerts has none.
Execute(r) ==
  /\ place[r] = "idle" /\ step[r] <= NSteps
  /\ IF Ended(r) \/ Expected[step[r]] = {}
     THEN /\ step' = [step EXCEPT ![r] = @ + 1]
          /\ UNCHANGED place
     ELSE /\ place' = [place EXCEPT ![r] = "wait"]
          /\ UNCHANGED step
  /\ UNCHANGED <<siemRest, offset, answer, got, before, rows, stored, summary, noteVars>>

\* The stop of another replica is a key in Redis, asked for at the beginning of
\* a step, where it ends the run, and before a validation, where it ends the
\* step; an ended context cannot ask.
SeesStop(r) ==
  /\ place[r] = "idle" /\ step[r] <= NSteps /\ ~Ended(r)
  /\ \/ /\ place' = [place EXCEPT ![r] = "over"]
        /\ UNCHANGED step
     \/ /\ step[r] = NSteps
        /\ step' = [step EXCEPT ![r] = @ + 1]
        /\ UNCHANGED place
  /\ UNCHANGED <<siemRest, offset, answer, got, before, rows, stored, summary, noteVars>>

\* The propagation delay, after which the window is fixed.
Propagated(r) ==
  /\ Move(r, "wait", IF Ended(r) THEN "failed" ELSE "ask")
  /\ offset' = [offset EXCEPT ![r] = 0]
  /\ got' = [got EXCEPT ![r] = {}]
  /\ before' = [before EXCEPT ![r] = HeldOf(r)]
  /\ UNCHANGED <<siemRest, answer, step, rows, stored, summary, noteVars>>

\* Slip: the tenth page is the first.
OnlyPage(r) == Cardinality(answer[r]) < Limit \/ offset[r] + Limit >= Limit

\* querySIEMAlerts ends after a page that is not full, and after the tenth.
LastPage(r) == Cardinality(answer[r]) < Limit \/ offset[r] + Limit >= Limit * MaxPages

ReadOn(r) ==
  /\ ~LastPage(r)
  /\ Move(r, "answered", "ask")
  /\ got' = [got EXCEPT ![r] = @ \cup answer[r]]
  /\ offset' = [offset EXCEPT ![r] = @ + Limit]
  /\ UNCHANGED <<siemRest, answer, step, before, rows, stored, summary, noteVars>>

Row(r, e) == [step |-> step[r], expected |-> e,
              status |-> Detects(e, got[r] \cup answer[r]),
              before |-> before[r]]

\* The last page: every expected alert gets its row, the step is over.
Judge(r) ==
  /\ LastPage(r)
  /\ Move(r, "answered", "idle")
  /\ rows' = [rows EXCEPT ![r] = @ \cup {Row(r, e) : e \in Expected[step[r]]}]
  /\ step' = [step EXCEPT ![r] = @ + 1]
  /\ got' = [got EXCEPT ![r] = {}]
  /\ answer' = [answer EXCEPT ![r] = {}]
  /\ UNCHANGED <<siemRest, offset, before, stored, summary, noteVars>>

\* A validation that fails is logged, and the step goes without rows.
NotJudged(r) ==
  /\ Move(r, "failed", "idle")
  /\ step' = [step EXCEPT ![r] = @ + 1]
  /\ got' = [got EXCEPT ![r] = {}]
  /\ answer' = [answer EXCEPT ![r] = {}]
  /\ UNCHANGED <<siemRest, offset, before, rows, stored, summary, noteVars>>

-----------------------------------------------------------------------------
(* The end of a run                                                        *)

\* chk_siem_validation_status
Storable(w) == w.status \in {"pending", "validated", "failed", "timeout"}

Detected(r) == {w \in rows[r] : w.status = "detected"}

\* calculateOverallScore and buildResultSummary; without rows the score is 0.
Summary(r) ==
  LET n == Cardinality(rows[r])
      m == Cardinality(Detected(r))
  IN [expected |-> n, received |-> m, score |-> IF n = 0 THEN 0 ELSE Score(m, n)]

\* The results are written with the run's context, row by row.
Complete(r) ==
  /\ place[r] = "idle" /\ step[r] > NSteps
  /\ place' = [place EXCEPT ![r] = "notify"]
  /\ summary' = IF Ended(r) THEN summary ELSE [summary EXCEPT ![r] = Summary(r)]
  /\ stored' = IF Ended(r) THEN stored
               ELSE [stored EXCEPT ![r] = {w \in rows[r] : Storable(w)}]
  /\ UNCHANGED <<siemRest, offset, answer, step, got, before, rows, noteVars>>

\* sendNotifications; a sender of its own when the sending is asynchronous.
Notify(r) ==
  /\ Move(r, "notify", IF enabled = "sync" THEN "sending" ELSE "over")
  /\ StartSending(r)
  /\ UNCHANGED <<siemRest, offset, answer, runVars>>

Sends(r) ==
  /\ Attempt(r)
  /\ UNCHANGED <<siemVars, runVars>>

SenderExpires(r) ==
  /\ enabled = "async" /\ Sending(r)
  /\ Expire(r)
  /\ UNCHANGED <<siemVars, runVars>>

Return(r) ==
  /\ channel[r] = Done
  /\ Move(r, "sending", "over")
  /\ UNCHANGED <<siemRest, offset, answer, runVars, noteVars>>

-----------------------------------------------------------------------------
(* The SIEM handlers                                                       *)

\* The reader names an offset.
Reads(c) ==
  \/ /\ Move(c, "idle", "ask")
     /\ offset' \in {[offset EXCEPT ![c] = n] : n \in {0, Limit}}
     /\ UNCHANGED <<siemRest, answer, runVars, noteVars>>
  \/ Requests(c) /\ UNCHANGED <<runVars, noteVars>>

Tests(c) ==
  \/ /\ Move(c, "idle", "connect")
     /\ UNCHANGED <<siemRest, offset, answer, runVars, noteVars>>
  \/ (Connect(c) \/ Check(c) \/ Login(c) \/ Retry(c)) /\ UNCHANGED <<runVars, noteVars>>

TheSiem ==
  /\ SessionEnds \/ \E a \in Alerts : Arrives(a)
  /\ UNCHANGED <<runVars, noteVars>>

-----------------------------------------------------------------------------
(* A run settles.  Nothing makes a search job of the SIEM finish; the      *)
(* client's timeout ends a request, and the context, if it ends, the       *)
(* polling.                                                                *)

CutShort(r) == Ended(r) /\ PollFails(r) /\ UNCHANGED <<runVars, noteVars>>

Advances(r) ==
  \/ Execute(r) \/ Propagated(r) \/ ReadOn(r) \/ Judge(r) \/ NotJudged(r)
  \/ Complete(r) \/ Notify(r) \/ Sends(r) \/ Return(r)
  \/ (Ask(r) \/ Send(r) \/ Fetch(r) \/ Retry(r)) /\ UNCHANGED <<runVars, noteVars>>

Validates(r) ==
  \/ Advances(r) \/ SeesStop(r)
  \/ (JobDone(r) \/ PollFails(r)) /\ UNCHANGED <<runVars, noteVars>>

-----------------------------------------------------------------------------
(* Properties                                                              *)

(* An expected alert is reported as detected only if the SIEM has an alert *)
(* of this run, of a type that matches and of the severity asked for:      *)
(* ValidateDetection must not credit a run with the alerts of another, or  *)
(* with one too mild.  (A step may be credited with an alert of another    *)
(* step: the query does not tell them apart.)                              *)
DetectionEarned ==
  \A r \in Validators : \A w \in Detected(r) :
    \E a \in HeldOf(r) : Likeness(w.expected, a) > 0 /\ Severe(w.expected, a)

\* All the alerts a validation of r could be given fit in what it reads.
AllRead(r) ==
  \/ Cardinality(HeldOf(r)) < Limit
  \/ provider = "mock" /\ Cardinality(HeldOf(r)) <= Limit * MaxPages

(* An alert of the very type expected and of the severity asked for, in    *)
(* the SIEM before the validation asked, is not missed: whatever arrives   *)
(* while the pages are read, whoever else uses the connector, and however  *)
(* the requests fail and are repeated, as long as the alerts fit in the    *)
(* pages that are read (one page when the SIEM does not keep an order).    *)
NothingMissed ==
  \A r \in Validators : AllRead(r) =>
    \A w \in rows[r] : w.status = "missed" =>
      ~ \E a \in w.before : a.type = w.expected.type /\ Severe(w.expected, a)
=============================================================================
