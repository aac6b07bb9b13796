------------------------------- MODULE RateLimit -------------------------------
(***************************************************************************)
(* The limit on the requests of one user, in the two forms the             *)
(* middleware has: a counter in Redis that all replicas share, with a key  *)
(* for each window of the clock, and the counter of one process, whose     *)
(* window begins with a request.                                           *)
(*                                                                         *)
(* Time is a clock of ticks.  A request reads the clock of its replica,    *)
(* which no other need agree with, and is counted by what it read; nothing *)
(* bounds its way to the counter.                                          *)
(***************************************************************************)
EXTENDS Naturals, FiniteSets

CONSTANTS
  Calls,      (* requests of the user                                        *)
  Quota,      (* those a window allows, RateLimit.Requests                   *)
  Window,     (* ticks of a window                                           *)
  Grace,      (* what EXPIRE adds to it, a second                            *)
  MaxSkew,    (* BOUND: how far the clock of a replica is off                *)
  MaxClock,   (* BOUND                                                       *)
  MaxOutages  (* BOUND: commands to Redis whose answer does not come         *)

ASSUME RateLimitAssumption ==
  /\ Quota \in Nat \ {0} /\ Window \in Nat \ {0} /\ Grace \in Nat
  /\ IsFiniteSet(Calls)
  /\ MaxSkew \in Nat /\ MaxClock \in Nat /\ MaxOutages \in Nat

Buckets == 0..(MaxClock \div Window)

VARIABLES
  limiter,   (* which of the two, if any                                     *)
  clock,
  stand,     (* where each request is                                        *)
  stamp,     (* the time it read                                             *)
  count,     (* the keys in Redis                                            *)
  dies,      (* when each expires; 0 is never                                *)
  astray,    (* HISTORY: the INCRs of each key that came at another time     *)
  local,     (* the rateBucket of the process: its count, 0 without one      *)
  until,     (* and its expiresAt                                            *)
  outages    (* commands that may still fail                                 *)

keyVars   == <<count, dies, astray>>
localVars == <<local, until>>
rateVars  == <<limiter, clock, stand, stamp, keyVars, localVars, outages>>

MaxCount == Cardinality(Calls) + MaxOutages

RateTypeOK ==
  /\ limiter \in {"none", "redis", "local"}
  /\ clock \in 0..MaxClock
  /\ stand \in [Calls -> {"idle", "counting", "expire", "in", "out", "open"}]
  /\ stamp \in [Calls -> 0..MaxClock]
  /\ count \in [Buckets -> 0..MaxCount] /\ astray \in [Buckets -> 0..MaxCount]
  /\ dies \in [Buckets -> 0..(MaxClock + Window + Grace)]
  /\ local \in 0..Cardinality(Calls) /\ until \in 0..(MaxClock + Window)
  /\ outages \in 0..MaxOutages

RateInit ==
  /\ clock = 0
  /\ stand = [q \in Calls |-> "idle"] /\ stamp = [q \in Calls |-> 0]
  /\ count = [b \in Buckets |-> 0] /\ dies = [b \in Buckets |-> 0]
  /\ astray = [b \in Buckets |-> 0]
  /\ local = 0 /\ until = 0

Tick ==
  /\ clock < MaxClock
  /\ clock' = clock + 1
  /\ UNCHANGED <<limiter, stand, stamp, keyVars, localVars, outages>>

Stands(q, from, to) ==
  /\ stand[q] = from
  /\ stand' = [stand EXCEPT ![q] = to]

-----------------------------------------------------------------------------
(* checkRedisRateLimit                                                     *)

\* The replica reads its clock: the name of the key.
Arrive(q) ==
  /\ limiter = "redis"
  /\ Stands(q, "idle", "counting")
  /\ \E t \in 0..MaxClock :
       /\ t <= clock + MaxSkew /\ clock <= t + MaxSkew
       /\ stamp' = [stamp EXCEPT ![q] = t]
  /\ UNCHANGED <<limiter, clock, keyVars, localVars, outages>>

Bucket(q) == stamp[q] \div Window
Gone(b) == dies[b] > 0 /\ clock >= dies[b]

Verdict(n) == IF n <= Quota THEN "in" ELSE "out"

\* The window of a key, and the second for which the key is kept after it.
Timely(b) == b * Window <= clock /\ clock < b * Window + Window + Grace

\* INCR; a key that has expired starts again, without an expiry.
Number(b) == IF Gone(b) THEN 1 ELSE count[b] + 1

Count(b) ==
  /\ count' = [count EXCEPT ![b] = Number(b)]
  /\ dies' = IF Number(b) = 1 THEN [dies EXCEPT ![b] = 0] ELSE dies
  /\ astray' = IF Timely(b) THEN astray ELSE [astray EXCEPT ![b] = @ + 1]

Incr(q) ==
  LET n == Number(Bucket(q))
  IN /\ Stands(q, "counting", IF n = 1 THEN "expire" ELSE Verdict(n))
     /\ Count(Bucket(q))
     /\ UNCHANGED <<limiter, clock, stamp, localVars, outages>>

Outage ==
  /\ outages > 0
  /\ outages' = outages - 1

\* Without an answer the command, which may have counted, is sent again by the
\* client; after the last time the request is let in.
FailOpen(q) ==
  /\ Outage
  /\ stand[q] = "counting" /\ stand' \in {stand, [stand EXCEPT ![q] = "open"]}
  /\ Count(Bucket(q)) \/ UNCHANGED keyVars
  /\ UNCHANGED <<limiter, clock, stamp, localVars>>

\* Slip: the key lives for a window, without the second more.
Lives == Window

Lifetime == Window + Grace

\* EXPIRE, of a key that is there.
Keep(b) ==
  /\ dies' = IF Gone(b) THEN dies ELSE [dies EXCEPT ![b] = clock + Lifetime]
  /\ UNCHANGED <<count, astray>>

\* It is sent by the request that made the key; its failure is logged only.
SetExpiry(q) ==
  /\ \/ /\ Stands(q, "expire", Verdict(1))
        /\ Keep(Bucket(q))
        /\ UNCHANGED outages
     \/ /\ Outage
        /\ stand[q] = "expire" /\ stand' \in {stand, [stand EXCEPT ![q] = Verdict(1)]}
        /\ Keep(Bucket(q)) \/ UNCHANGED keyVars
  /\ UNCHANGED <<limiter, clock, stamp, localVars>>

-----------------------------------------------------------------------------
(* localRateLimiter: everything under its lock, by the clock of the        *)
(* process                                                                 *)

Allow(q) ==
  LET fresh == local = 0 \/ clock > until
  IN /\ limiter = "local"
     /\ Stands(q, "idle", IF fresh THEN "in" ELSE Verdict(local + 1))
     /\ stamp' = [stamp EXCEPT ![q] = clock]
     /\ local' = IF fresh THEN 1 ELSE local + 1
     /\ until' = IF fresh THEN clock + Window ELSE until
     /\ UNCHANGED <<limiter, clock, keyVars, outages>>

Sweep ==
  /\ limiter = "local" /\ local > 0 /\ clock > until
  /\ local' = 0
  /\ UNCHANGED <<limiter, clock, stand, stamp, until, keyVars, outages>>

-----------------------------------------------------------------------------
RateNext(some) ==
  \/ Tick \/ Sweep
  \/ \E q \in some : Arrive(q) \/ Incr(q) \/ SetExpiry(q) \/ FailOpen(q) \/ Allow(q)

-----------------------------------------------------------------------------
Admitted(first, last) == {q \in Calls : stand[q] = "in" /\ stamp[q] \in first..last}

(* In Redis, of the requests that their replicas place in one window, no   *)
(* more than the limit are let in, by all replicas together, and as many   *)
(* again for each INCR that came before the window or more than the second *)
(* after it (a clock that is off, a command that waited: such an INCR      *)
(* finds the key expired, or makes one that expires too soon); those Redis *)
(* did not answer for are not counted.  A process by itself, counting from *)
(* its first request, lets in less than twice the limit in a window that   *)
(* begins at any time.  (No limit holds for a window of Redis that begins  *)
(* at any time but this one twice: the keys are those of fixed windows.)   *)
WindowBound ==
  /\ limiter = "redis" =>
       \A b \in Buckets :
         Cardinality(Admitted(b * Window, b * Window + Window - 1)) <= Quota * (1 + astray[b])
  /\ limiter = "local" =>
       \A t \in 0..MaxClock : Cardinality(Admitted(t, t + Window - 1)) <= 2 * Quota - 1
=============================================================================
