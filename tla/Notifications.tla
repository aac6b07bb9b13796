---------------------------- MODULE Notifications ----------------------------
(***************************************************************************)
(* The notification service: one sender for each run that ends, through    *)
(* the channels that are configured, in order, each with its own attempts. *)
(* An attempt reaches the other side or not, and its answer may be lost.   *)
(***************************************************************************)
EXTENDS Naturals, FiniteSets

CONSTANTS
  Senders,        (* runs whose end is announced                             *)
  RetryCount,     (* attempts of a channel                                   *)
  MaxNoteFaults   (* BOUND: attempts that go wrong                           *)

ASSUME NotificationsAssumption ==
  /\ RetryCount \in Nat \ {0} /\ MaxNoteFaults \in Nat

Channels == 1..3   (* email, Slack, the webhook *)
Email == 1
Done  == 4         (* after the last channel; 0 is before the first *)

VARIABLES
  enabled,    (* "off", or how SendNotification sends: "sync", "async"       *)
  configured, (* the channels with a configuration                           *)
  channel,    (* where each sender is                                        *)
  tried,      (* the attempts of each sender on each channel                 *)
  sent,       (* what the other side of each channel received                *)
  outcome,    (* NotificationResult.Success of each channel                  *)
  expired,    (* senders whose context has ended                             *)
  noteFaults  (* attempts that may still go wrong                            *)

noteVars == <<enabled, configured, channel, tried, sent, outcome, expired, noteFaults>>

NotesTypeOK ==
  /\ enabled \in {"off", "sync", "async"}
  /\ configured \subseteq Channels
  /\ channel \in [Senders -> 0..Done]
  /\ tried \in [Senders -> [Channels -> 0..RetryCount]]
  /\ sent \in [Senders -> [Channels -> 0..RetryCount]]
  /\ outcome \in [Senders -> [Channels -> {"none", "success", "failure"}]]
  /\ expired \subseteq Senders
  /\ noteFaults \in 0..MaxNoteFaults

NotesInit ==
  /\ channel = [r \in Senders |-> 0]
  /\ tried = [r \in Senders |-> [c \in Channels |-> 0]]
  /\ sent = [r \in Senders |-> [c \in Channels |-> 0]]
  /\ outcome = [r \in Senders |-> [c \in Channels |-> "none"]]
  /\ expired = {}

\* The first configured channel after c.
After(c) ==
  LET rest == {d \in configured : d > c}
  IN IF rest = {} THEN Done ELSE CHOOSE d \in rest : \A e \in rest : d <= e

\* SendNotification
StartSending(r) ==
  /\ channel[r] = 0
  /\ channel' = [channel EXCEPT ![r] = IF enabled = "off" THEN Done ELSE After(0)]
  /\ UNCHANGED <<enabled, configured, tried, sent, outcome, expired, noteFaults>>

Sending(r) == channel[r] \in Channels

Ends(r, c, o) ==
  /\ outcome' = [outcome EXCEPT ![r][c] = o]
  /\ channel' = [channel EXCEPT ![r] = After(c)]

\* Slip: a channel that fails is the last that is tried.
GoesOn(r, c) ==
  IF tried'[r][c] = RetryCount
  THEN /\ outcome' = [outcome EXCEPT ![r][c] = "failure"]
       /\ channel' = [channel EXCEPT ![r] = Done]
  ELSE UNCHANGED <<outcome, channel>>

\* The next attempt, or the result of the channel and the next one.
TryAgain(r, c) ==
  IF tried'[r][c] = RetryCount THEN Ends(r, c, "failure") ELSE UNCHANGED <<outcome, channel>>

\* Slack and the webhook send with the context, which may have ended; the mail
\* connection knows none.
CutOff(r, c) == c # Email /\ r \in expired

\* sendEmail, sendSlack, sendWebhook: one attempt.
Attempt(r) ==
  LET c == channel[r]
  IN /\ Sending(r)
     /\ tried' = [tried EXCEPT ![r][c] = @ + 1]
     /\ \/ /\ ~CutOff(r, c)
           /\ sent' = [sent EXCEPT ![r][c] = @ + 1]
           /\ Ends(r, c, "success")
           /\ UNCHANGED noteFaults
        \/ /\ ~CutOff(r, c) /\ noteFaults > 0
           /\ noteFaults' = noteFaults - 1
           /\ sent' \in {sent, [sent EXCEPT ![r][c] = @ + 1]}
           /\ TryAgain(r, c)
        \/ /\ CutOff(r, c)
           /\ UNCHANGED <<sent, noteFaults>>
           /\ TryAgain(r, c)
     /\ UNCHANGED <<enabled, configured, expired>>

\* The two minutes of an asynchronous sender, or the end of the run's context.
Expire(r) ==
  /\ r \notin expired
  /\ expired' = expired \cup {r}
  /\ UNCHANGED <<enabled, configured, channel, tried, sent, outcome, noteFaults>>

(* Every channel configured gets its message, or uses up its attempts;     *)
(* none gets more messages than attempts, and a success is one that the    *)
(* other side has: sendSync and its three channels.                        *)
EveryChannelTried ==
  \A r \in Senders, c \in Channels :
    /\ sent[r][c] <= tried[r][c]
    /\ outcome[r][c] = "success" => sent[r][c] > 0
    /\ outcome[r][c] = "failure" => tried[r][c] = RetryCount
    /\ channel[r] = Done /\ c \in configured /\ enabled # "off" => outcome[r][c] # "none"
=============================================================================
