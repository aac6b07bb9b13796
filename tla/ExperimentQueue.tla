--------------------------- MODULE ExperimentQueue ---------------------------
(***************************************************************************)
(* The experiment queue of internal/experiment/queue.go: a sorted set in   *)
(* Redis whose scores encode a priority and an enqueue time in one number. *)
(* Redis executes one command at a time, so every other operation is one   *)
(* step, whichever worker or replica calls it.  Enqueue is two: it reads   *)
(* the clock of its replica, then sends the ZADD, which the client repeats *)
(* when the answer is lost.  The history variables tell which calls had    *)
(* ended before another one began.                                         *)
(***************************************************************************)
EXTENDS Naturals, FiniteSets

CONSTANTS
  Runs,        (* run ids, numbers, because Redis orders equal scores by member *)
  Priorities,  (* 0 is the lowest                                            *)
  Hosts,       (* replicas of the backend, each with a clock of its own      *)
  Calls,       (* BOUND: how many calls of Enqueue overlap                   *)
  Scale,       (* priorityScale: 10^13                                       *)
  MaxTs,       (* maxTimestampMilli: the year 2100                           *)
  MaxTime,     (* BOUND: where the clocks stop                               *)
  None         (* no call, no replica                                        *)

Times == 0..MaxTime

\* What a call of Enqueue is about to add.
Entry == [run : Runs, priority : Priorities, stamp : Times, host : Hosts \cup {None}]

(* The scale exceeds every time component.                                 *)
ASSUME QueueAssumption ==
  /\ Runs \subseteq Nat \ {0}
  /\ Priorities \subseteq Nat
  /\ Scale \in Nat /\ MaxTs \in Nat /\ MaxTime \in Nat
  /\ MaxTime <= MaxTs
  /\ MaxTs < Scale
  /\ None \notin Hosts
  /\ None \notin Entry

VARIABLES
  clock,       (* time.Now().UnixMilli() at each replica *)
  score,       (* the sorted set: a score for every member *)
  call,        (* the calls of Enqueue that have read the clock *)
  reply,       (* the run that the last call returned *)
  origin,      (* HISTORY: whose clock a member carries; None once that     *)
               (* clock has been set back                                   *)
  earlier      (* HISTORY: the members that a call of the same replica had  *)
               (* put where they are before this call read the clock        *)

history == <<origin, earlier>>
vars == <<clock, score, call, reply, history>>

\* uuid.Nil: no run.
Nil == 0

Queued == DOMAIN score

\* Slip: the time is not inverted.
ScoreNotInverted(p, t) == p * Scale + t

\* compositeScore.
Score(p, t) == p * Scale + (MaxTs - t)

(* The clocks show times; members and replies are runs, and scores numbers  *)
(* that encode a priority and a time.                                       *)
TypeOK ==
  /\ clock \in [Hosts -> Times]
  /\ Queued \subseteq Runs
  /\ \A r \in Queued : \E p \in Priorities, t \in Times : score[r] = Score(p, t)
  /\ call \in [Calls -> Entry \cup {None}]
  /\ reply \in Runs \cup {Nil}
  /\ origin \in [Runs -> Hosts \cup {None}]
  /\ earlier \in [Calls -> SUBSET Runs]

Init ==
  /\ clock = [h \in Hosts |-> 0]
  /\ score = [r \in {} |-> 0]
  /\ call = [c \in Calls |-> None]
  /\ reply = Nil
  /\ origin = [r \in Runs |-> None]
  /\ earlier = [c \in Calls |-> {}]

-----------------------------------------------------------------------------
\* The order in which Redis keeps the members, the greatest first.
Ahead(q, r) == score[q] > score[r] \/ (score[q] = score[r] /\ q > r)

\* ZREVRANK: how many members are ahead.
Position(r) == Cardinality({q \in Queued : Ahead(q, r)})

\* Slip: the other end, as ZPOPMIN would take it.
Last(r) == r \in Queued /\ \A q \in Queued \ {r} : Ahead(q, r)

\* ZREVRANGE 0 0 and ZPOPMAX 1.
Head(r) == r \in Queued /\ \A q \in Queued \ {r} : Ahead(r, q)

\* ListWithScores recovers the priority from the score.
PriorityOf(s) == s \div Scale

Without(S) == [q \in Queued \ S |-> score[q]]

\* What the history says of the members of S is over.
Forget(S) ==
  /\ origin' = [q \in Runs |-> IF q \in S THEN None ELSE origin[q]]
  /\ earlier' = [c \in Calls |-> earlier[c] \ S]

-----------------------------------------------------------------------------
Tick(h) ==
  /\ clock[h] < MaxTime
  /\ clock' = [clock EXCEPT ![h] = @ + 1]
  /\ UNCHANGED <<score, call, reply, history>>

\* The wall clock of a replica is corrected.
SetBack(h) ==
  /\ \E t \in Times : t < clock[h] /\ clock' = [clock EXCEPT ![h] = t]
  /\ call' = [c \in Calls |-> IF call[c] # None /\ call[c].host = h
                              THEN [call[c] EXCEPT !.host = None] ELSE call[c]]
  /\ origin' = [r \in Runs |-> IF origin[r] = h THEN None ELSE origin[r]]
  /\ UNCHANGED <<score, reply, earlier>>

\* Enqueue, up to the score: compositeScore(priority, time.Now()).
ReadClock(c, h, r, p) ==
  /\ call[c] = None
  /\ call' = [call EXCEPT ![c] = [run |-> r, priority |-> p, stamp |-> clock[h],
                                  host |-> h]]
  /\ earlier' = [earlier EXCEPT ![c] = {q \in Queued : origin[q] = h}]
  /\ UNCHANGED <<clock, score, reply, origin>>

\* Slip: ZINCRBY instead of ZADD.
AddUp(e) ==
  score' = [q \in Queued \cup {e.run} |->
              IF q # e.run THEN score[q]
              ELSE Score(e.priority, e.stamp) + IF q \in Queued THEN score[q] ELSE 0]

\* ZADD overwrites the score of a member.
Add(e) ==
  score' = [q \in Queued \cup {e.run} |->
              IF q = e.run THEN Score(e.priority, e.stamp) ELSE score[q]]

\* A ZADD takes effect; the call ends, or goes on if the answer is lost.
Enqueue(c) ==
  LET e == call[c] IN
  /\ e # None
  /\ Add(e)
  /\ call' \in {call, [call EXCEPT ![c] = None]}
  /\ origin' = [origin EXCEPT ![e.run] = e.host]
  /\ earlier' = [d \in Calls |-> IF call'[d] = None THEN {} ELSE earlier[d] \ {e.run}]
  /\ reply' = Nil
  /\ UNCHANGED clock

\* The call returns an error.
EnqueueFails(c) ==
  /\ call[c] # None
  /\ call' = [call EXCEPT ![c] = None]
  /\ reply' = Nil
  /\ earlier' = [earlier EXCEPT ![c] = {}]
  /\ UNCHANGED <<clock, score, origin>>

\* ZPOPMAX.
Dequeue ==
  /\ \/ \E r \in Queued :
          Head(r) /\ score' = Without({r}) /\ reply' = r /\ Forget({r})
     \/ Queued = {} /\ reply' = Nil /\ UNCHANGED <<score, history>>
  /\ UNCHANGED <<clock, call>>

\* ZREVRANGE 0 0.
Peek ==
  /\ \/ \E r \in Queued : Head(r) /\ reply' = r
     \/ Queued = {} /\ reply' = Nil
  /\ UNCHANGED <<clock, score, call, history>>

\* ZREM.
Remove(r) ==
  /\ score' = Without({r})
  /\ reply' = Nil
  /\ Forget({r})
  /\ UNCHANGED <<clock, call>>

\* DEL, by Clear or because the key has lived for 72 h after an Enqueue.
Clear ==
  /\ score' = Without(Queued)
  /\ reply' = Nil
  /\ Forget(Runs)
  /\ UNCHANGED <<clock, call>>

Next ==
  \/ \E h \in Hosts : Tick(h) \/ SetBack(h)
  \/ \E c \in Calls, h \in Hosts, r \in Runs, p \in Priorities : ReadClock(c, h, r, p)
  \/ \E c \in Calls : Enqueue(c) \/ EnqueueFails(c)
  \/ Dequeue
  \/ Peek
  \/ \E r \in Runs : Remove(r)
  \/ Clear

Spec == Init /\ [][Next]_vars

-----------------------------------------------------------------------------
(* Properties.                                                             *)

(* The queue is a priority queue: what the scores encode can be read back,  *)
(* and the run that Dequeue or Peek returns is one that no other precedes   *)
(* by priority and then by the time its caller read.                        *)
Decoded == [r \in Queued |-> [priority |-> PriorityOf(score[r]),
                              arrival  |-> MaxTs - (score[r] % Scale)]]

Promise == INSTANCE PriorityQueue WITH entries <- Decoded

IsPriorityQueue == Promise!Spec

(* Of two calls through one replica the later does not overtake: a run      *)
(* falls back only when it is enqueued again, or behind a run of higher     *)
(* priority, one of the same millisecond, or one whose caller read the      *)
(* clock of another replica, read it before this run was in its place, or   *)
(* read one that has been set back since.  (That a later run overtakes in   *)
(* those cases is how far "FIFO within a priority level" goes here.)        *)
FallsBack(r) == r \in Queued /\ r \in Queued' /\ Position(r)' > Position(r)

MayOvertake(c, r) ==
  LET q == call[c].run IN
  /\ q \in DOMAIN score' /\ (q \in Queued => score'[q] # score[q])
  /\ \/ q = r
     \/ PriorityOf(score'[q]) > PriorityOf(score[r])
     \/ score'[q] = score[r]
     \/ r \notin earlier[c]

NoOvertaking ==
  [][\A r \in Runs : FallsBack(r) =>
       \E c \in Calls : call[c] # None /\ MayOvertake(c, r)]_vars

=============================================================================
