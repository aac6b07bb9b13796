---------------------------- MODULE SiemConnector ----------------------------
(***************************************************************************)
(* The SIEM connectors, mock, Elasticsearch and Splunk, behind the one     *)
(* interface their callers share: runs that validate, requests that test   *)
(* the connection, requests that read alerts.  One action is one HTTP      *)
(* request with its answer, or one wait.  The SIEM keeps the alerts it has *)
(* in the order they arrived; it may fail, forget a session, and take any  *)
(* time for a Splunk search job.                                           *)
(***************************************************************************)
EXTENDS Naturals, Sequences, FiniteSets, FiniteSetsExt

CONSTANTS
  Validators,  (* runs that validate                                         *)
  Testers,     (* POST /siem/test-connection                                 *)
  Readers,     (* GET and POST /siem/alerts                                  *)
  Alerts,      (* alerts that may arrive: [id, run, type, severity]          *)
  ReaderRun,   (* the run whose alerts the readers ask for                   *)
  Limit,       (* alerts of a page                                           *)
  MaxRetries,  (* retries of a request                                       *)
  MaxSiemFaults (* BOUND: requests that fail and sessions that end           *)

ASSUME SiemAssumption ==
  /\ Limit \in Nat \ {0} /\ MaxRetries \in Nat /\ MaxSiemFaults \in Nat
  /\ Validators \cap (Testers \cup Readers) = {} /\ Testers \cap Readers = {}

Callers == Validators \cup Testers \cup Readers

VARIABLES
  provider,   (* the connector configured                                    *)
  held,       (* the alerts of the SIEM, in order                            *)
  token,      (* SplunkSIEM.sessionToken                                     *)
  place,      (* where each caller is                                        *)
  tries,      (* failed attempts of its request                              *)
  offset,     (* alerts it has been given                                    *)
  answer,     (* the last page it was given                                  *)
  ended,      (* runs whose context is cancelled or past its deadline        *)
  siemFaults  (* failures that may still happen                              *)

siemVars == <<provider, held, token, place, tries, offset, answer, ended, siemFaults>>

Provider == {"mock", "elasticsearch", "splunk"}
Waiting == {"connect", "check", "login", "ask", "send", "retry", "poll", "fetch"}
OwnPlace == {"idle", "wait", "answered", "failed", "notify", "sending", "over"}

SiemTypeOK ==
  /\ provider \in Provider
  /\ held \in Seq(Alerts)
  /\ token \in {"none", "live", "stale"}
  /\ place \in [Callers -> Waiting \cup OwnPlace]
  /\ tries \in [Callers -> 0..MaxRetries]
  /\ offset \in [Callers -> Nat]
  /\ answer \in [Callers -> SUBSET Alerts]
  /\ ended \subseteq Validators
  /\ siemFaults \in 0..MaxSiemFaults

\* main makes the connector and never calls Connect.
SiemInit ==
  /\ held = <<>> /\ token = "none"
  /\ place = [c \in Callers |-> "idle"]
  /\ tries = [c \in Callers |-> 0]
  /\ offset = [c \in Callers |-> 0]
  /\ answer = [c \in Callers |-> {}]
  /\ ended = {}

-----------------------------------------------------------------------------
(* The SIEM                                                                *)

Arrives(a) ==
  /\ \A i \in DOMAIN held : held[i] # a
  /\ held' = Append(held, a)
  /\ UNCHANGED <<provider, token, place, tries, offset, answer, ended, siemFaults>>

SessionEnds ==
  /\ provider = "splunk" /\ token = "live" /\ siemFaults > 0
  /\ token' = "stale" /\ siemFaults' = siemFaults - 1
  /\ UNCHANGED <<provider, held, place, tries, offset, answer, ended>>

\* Slip: the query does not name the run.
OfAnyRun(c) == DOMAIN held

\* The filters of buildSearchQuery: where the run's alerts of its time range are.
OfRun(c) ==
  LET run == IF c \in Validators THEN c ELSE ReaderRun
  IN {i \in DOMAIN held : held[i].run = run}

\* Which of the positions in P the i is, from 1, and the alerts that are there.
Nth(i, P)   == Cardinality({j \in P : j <= i})
AlertsAt(P) == {held[i] : i \in P}

\* A page.  The mock SIEM skips the offset; Elasticsearch skips it in the order
\* of its choice, no sort being asked for; a Splunk job is told the size only
\* and gives the newest events.
Pages(c) ==
  LET P == OfRun(c)
      n == Cardinality(P)
      from == offset[c]
      size == IF n <= from THEN 0 ELSE IF n - from < Limit THEN n - from ELSE Limit
  IN CASE provider = "mock" ->
            {AlertsAt({i \in P : from < Nth(i, P) /\ Nth(i, P) <= from + Limit})}
       [] provider = "elasticsearch" -> kSubset(size, AlertsAt(P))
       [] provider = "splunk" -> {AlertsAt({i \in P : n < Nth(i, P) + Limit})}

-----------------------------------------------------------------------------
(* Requests.  With a session that has ended Splunk refuses them; without   *)
(* one the API key is sent, which it takes.                                *)

Ended(c) == c \in ended
Refused  == provider = "splunk" /\ token = "stale"
Answers(c) == ~Ended(c) /\ ~Refused /\ UNCHANGED siemFaults
Breaks(c) ==
  \/ Ended(c) \/ Refused
  \/ siemFaults > 0
FaultSpent(c) ==
  siemFaults' = IF Ended(c) \/ Refused THEN siemFaults ELSE siemFaults - 1

Move(c, from, to) ==
  /\ place[c] = from
  /\ place' = [place EXCEPT ![c] = to]

\* Slip: one attempt more than maxRetries + 1.
GivesUpLate(c) == Ended(c) \/ tries[c] > MaxRetries

\* withRetry gives up on the last attempt, and when the context has ended.
GivesUp(c) == Ended(c) \/ tries[c] = MaxRetries

\* An attempt fails.
Fails(c, from) ==
  /\ Breaks(c) /\ FaultSpent(c)
  /\ Move(c, from, IF GivesUp(c) THEN "failed" ELSE "retry")
  /\ tries' = IF GivesUp(c) THEN tries ELSE [tries EXCEPT ![c] = @ + 1]
  /\ UNCHANGED <<provider, held, token, offset, answer, ended>>

\* The wait between two attempts.
Retry(c) ==
  /\ Move(c, "retry", IF Ended(c) THEN "failed"
                      ELSE IF c \in Testers THEN "connect" ELSE "send")
  /\ UNCHANGED <<provider, held, token, tries, offset, answer, ended, siemFaults>>

\* QueryAlerts: Splunk needs a session.  It is asked for before any attempt.
Ask(c) ==
  /\ Move(c, "ask", IF provider = "splunk" /\ token = "none" THEN "failed" ELSE "send")
  /\ tries' = [tries EXCEPT ![c] = 0]
  /\ UNCHANGED <<provider, held, token, offset, answer, ended, siemFaults>>

\* The search, or Splunk's search job.
Send(c) ==
  \/ /\ provider # "splunk"
     /\ Move(c, "send", "answered") /\ Answers(c)
     /\ \E p \in Pages(c) : answer' = [answer EXCEPT ![c] = p]
     /\ UNCHANGED <<provider, held, token, tries, offset, ended>>
  \/ /\ provider = "splunk"
     /\ Move(c, "send", "poll") /\ Answers(c)
     /\ UNCHANGED <<provider, held, token, tries, offset, answer, ended>>
  \/ Fails(c, "send")

JobDone(c) ==
  /\ Move(c, "poll", "fetch") /\ Answers(c)
  /\ \E p \in Pages(c) : answer' = [answer EXCEPT ![c] = p]
  /\ UNCHANGED <<provider, held, token, tries, offset, ended>>

\* Slip: only the answer ends the polling.
PollOnly(c) ==
  /\ ~Ended(c) /\ Fails(c, "poll")

\* waitForSearchJob fails with its job, with a request, or with the context.
PollFails(c) == Fails(c, "poll")

Fetch(c) ==
  \/ /\ Move(c, "fetch", "answered") /\ Answers(c)
     /\ UNCHANGED <<provider, held, token, tries, offset, answer, ended>>
  \/ Fails(c, "fetch")

-----------------------------------------------------------------------------
(* Connect, for Splunk: the session there is, is checked, and a new one    *)
(* opened when the check fails, for whatever reason.                       *)

Connect(c) ==
  \/ /\ provider = "splunk"
     /\ Move(c, "connect", IF token = "none" THEN "login" ELSE "check")
     /\ UNCHANGED <<provider, held, token, tries, offset, answer, ended, siemFaults>>
  \/ /\ provider # "splunk"
     /\ Move(c, "connect", "over") /\ Answers(c)
     /\ UNCHANGED <<provider, held, token, tries, offset, answer, ended>>
  \/ provider # "splunk" /\ Fails(c, "connect")

Check(c) ==
  \/ /\ Move(c, "check", "over") /\ Answers(c)
     /\ UNCHANGED <<provider, held, token, tries, offset, answer, ended>>
  \/ /\ Move(c, "check", "login")
     /\ Breaks(c) /\ FaultSpent(c)
     /\ token' = "none"
     /\ UNCHANGED <<provider, held, tries, offset, answer, ended>>

\* The login is sent without the old token.
Login(c) ==
  \/ /\ Move(c, "login", "over")
     /\ token' = "live"
     /\ UNCHANGED <<provider, held, tries, offset, answer, ended, siemFaults>>
  \/ /\ siemFaults > 0 /\ siemFaults' = siemFaults - 1
     /\ Move(c, "login", IF GivesUp(c) THEN "failed" ELSE "retry")
     /\ tries' = IF GivesUp(c) THEN tries ELSE [tries EXCEPT ![c] = @ + 1]
     /\ UNCHANGED <<provider, held, token, offset, answer, ended>>

Requests(c) ==
  \/ Ask(c) \/ Send(c) \/ JobDone(c) \/ PollFails(c) \/ Fetch(c) \/ Retry(c)
=============================================================================
