---------------------------- MODULE PriorityQueue ----------------------------
(***************************************************************************)
(* What the experiment queue promises: runs leave it by priority, and      *)
(* within a priority in the order of the arrival each caller states, in    *)
(* milliseconds.  Callers need not agree on what time it is.               *)
(***************************************************************************)
EXTENDS Naturals

CONSTANTS
  Runs,        (* the runs that may be queued              *)
  Priorities,  (* the priorities they may be queued with   *)
  Times,       (* the arrivals a caller may state          *)
  Nil          (* no run                                   *)

VARIABLES
  entries,     (* for every queued run its priority and its arrival        *)
  reply        (* the run that the last operation returned                 *)

vars == <<entries, reply>>

Queued == DOMAIN entries

\* Entry d goes before entry e whatever else is in the queue.
Before(d, e) ==
  \/ d.priority > e.priority
  \/ d.priority = e.priority /\ d.arrival < e.arrival

Without(S) == [q \in Queued \ S |-> entries[q]]

Init ==
  /\ entries = [r \in {} |-> [priority |-> 0, arrival |-> 0]]
  /\ reply = Nil

\* A run that is queued already moves to its new place.
Enqueue(r, p, t) ==
  /\ entries' = [q \in Queued \cup {r} |->
                   IF q = r THEN [priority |-> p, arrival |-> t] ELSE entries[q]]
  /\ reply' = Nil

\* No run has come.
Fail == reply' = Nil /\ UNCHANGED entries

\* No other run goes before r.
First(r) == r \in Queued /\ \A q \in Queued : ~Before(entries[q], entries[r])

\* Returns a first run, or none if there is none.
Returns(r) == reply' = r /\ (First(r) \/ (Queued = {} /\ r = Nil))

Dequeue == \E r \in Runs \cup {Nil} : Returns(r) /\ entries' = Without({r})

Peek == (\E r \in Runs \cup {Nil} : Returns(r)) /\ UNCHANGED entries

Remove(r) == entries' = Without({r}) /\ reply' = Nil

Clear == entries' = Without(Queued) /\ reply' = Nil

Next ==
  \/ \E r \in Runs, p \in Priorities, t \in Times : Enqueue(r, p, t)
  \/ Fail
  \/ Dequeue
  \/ Peek
  \/ \E r \in Runs : Remove(r)
  \/ Clear

Spec == Init /\ [][Next]_vars
=============================================================================
