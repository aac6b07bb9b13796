------------------------------- MODULE Services -------------------------------
(***************************************************************************)
(* What one process asks of other services: the SIEM, by the runs it       *)
(* executes and by its handlers, over one connector; the mail server,      *)
(* Slack and the webhook, when a run ends; Redis, for the progress of an   *)
(* execution and for tokens that have ended; and the counters of the rate  *)
(* limiter.  A behaviour is one of Mixes: who takes part, with which       *)
(* configuration, alerts and faults.                                       *)
(***************************************************************************)
EXTENDS Detection, Progress, RateLimit, Sessions

CONSTANT Mixes   (* BOUND: records as in MixOK *)

MixOK(m) ==
  /\ m.callers \subseteq Callers /\ m.timed \subseteq Validators
  /\ m.provider \in Provider
  /\ m.alerts \subseteq Alerts
  /\ m.enabled \in {"off", "sync", "async"} /\ m.configured \subseteq Channels
  /\ m.siemFaults \in 0..MaxSiemFaults /\ m.noteFaults \in 0..MaxNoteFaults
  /\ m.executors \subseteq Executors /\ m.redisFaults \in 0..MaxRedisFaults
  /\ m.limiter \in {"none", "redis", "local"} 
  /\ m.calls \subseteq Calls /\ m.outages \in 0..MaxOutages
  /\ m.sessions \subseteq AuthCalls /\ m.blacklist \in BOOLEAN /\ m.authFaults \in 0..MaxAuthFaults

ASSUME ServicesAssumption == \A m \in Mixes : MixOK(m)

VARIABLE mix

vars == <<siemVars, runVars, noteVars, progressVars, rateVars, authVars, mix>>

TypeOK == DetectionTypeOK /\ ProgressTypeOK /\ RateTypeOK /\ SessionsTypeOK

Init ==
  /\ mix \in Mixes
  /\ provider = mix.provider /\ siemFaults = mix.siemFaults
  /\ enabled = mix.enabled /\ configured = mix.configured /\ noteFaults = mix.noteFaults
  /\ redisFaults = mix.redisFaults /\ limiter = mix.limiter /\ outages = mix.outages
  /\ DetectionInit
  /\ ProgressInit
  /\ RateInit
  /\ blacklist = mix.blacklist /\ authFaults = mix.authFaults
  /\ SessionsInit

Detecting ==
  /\ \/ \E r \in mix.callers \cap Validators : Validates(r) \/ ContextEnds(r) \/ SenderExpires(r)
     \/ \E c \in mix.callers \cap Testers : Tests(c)
     \/ \E c \in mix.callers \cap Readers : Reads(c)
     \/ SessionEnds /\ UNCHANGED <<runVars, noteVars>>
     \/ \E a \in mix.alerts : Arrives(a) /\ UNCHANGED <<runVars, noteVars>>
  /\ UNCHANGED <<progressVars, rateVars, authVars, mix>>

Progressing ==
  /\ \/ ProgressNext(mix.executors)
     \/ mix.callers \cap Readers # {} /\ Logs
  /\ UNCHANGED <<siemVars, runVars, noteVars, rateVars, authVars, mix>>

Limiting ==
  /\ limiter # "none" /\ RateNext(mix.calls)
  /\ UNCHANGED <<siemVars, runVars, noteVars, progressVars, authVars, mix>>

Authenticating ==
  /\ mix.sessions # {}
  /\ \/ \E q \in mix.sessions : SessionStep(q)
     \/ \E u \in Accounts : Disable(u)
     \/ TimePasses
  /\ UNCHANGED <<siemVars, runVars, noteVars, progressVars, rateVars, mix>>

Next == Detecting \/ Progressing \/ Limiting \/ Authenticating

rest == <<progressVars, rateVars, authVars, mix>>

\* What nothing bounds: the search job of a run whose context has no deadline,
\* and the mail server, which is spoken to without one.
KeptWaiting(r) ==
  \/ place[r] = "poll" /\ ~Ended(r) /\ r \notin mix.timed
  \/ Sending(r) /\ channel[r] = Email

\* The pool and the scheduler give a run 30 minutes, a request gives it none.
Fairness ==
  \A r \in Validators :
    /\ WF_vars(r \in mix.callers /\ ~KeptWaiting(r) /\ (Advances(r) \/ CutShort(r)) /\ UNCHANGED rest)
    /\ WF_vars(r \in mix.callers \cap mix.timed /\ ContextEnds(r) /\ UNCHANGED rest)

Spec == Init /\ [][Next]_vars /\ Fairness

-----------------------------------------------------------------------------
(* A run that validates comes to its end, and with it the sender of its    *)
(* notification, unless it waits for ever for a search job without a       *)
(* deadline, or for a mail server: retries are counted, a context that     *)
(* ends cuts the polling short, and a failing SIEM or channel never keeps  *)
(* a run from its end, nor a sender (started as the run ends) from its     *)
(* last channel.                                                           *)
RunSettles ==
  \A r \in Validators :
    \/ <>[]KeptWaiting(r)
    \/ place[r] = "wait" \/ Sending(r) ~> place[r] = "over" /\ ~Sending(r)
=============================================================================
