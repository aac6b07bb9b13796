---------------------------- MODULE RateLimitProofs ----------------------------
(***************************************************************************)
(* WindowBound for every limit, window, grace and number of requests.      *)
(*                                                                         *)
(* In Redis, the requests that one life of a key lets in are within the    *)
(* limit.  Of the INCRs that begin a life of the key of a window, one at   *)
(* most comes in the window and its second: the next life begins only when *)
(* the expiry has passed that the first set.  So there is one life more    *)
(* than INCRs astray, at most.  In a process, a window of the limiter ends *)
(* before the next begins, so an interval of the length of a window meets  *)
(* two of them at most, and of the earlier not its first request.          *)
(*                                                                         *)
(* The counters stay within the number of requests and of commands that    *)
(* were repeated.                                                          *)
(***************************************************************************)
EXTENDS RateLimit, FiniteSetTheorems, TLAPS

USE RateLimitAssumption DEF RateLimitAssumption

RateShape ==
  /\ limiter \in {"none", "redis", "local"}
  /\ clock \in 0..MaxClock
  /\ stand \in [Calls -> {"idle", "counting", "expire", "in", "out", "open"}]
  /\ stamp \in [Calls -> 0..MaxClock]
  /\ count \in [Buckets -> Nat]
  /\ dies \in [Buckets -> Nat]
  /\ astray \in [Buckets -> Nat]
  /\ local \in Nat
  /\ until \in Nat
  /\ limiter = "local" =>
       \A q \in Calls : stand[q] \in {"idle", "in", "out"} /\ stamp[q] <= clock

-----------------------------------------------------------------------------
(* The windows of the clock.                                               *)

\* The window that a time is in.
LEMMA WindowOf ==
  ASSUME NEW s \in Nat
  PROVE  /\ s \div Window \in Nat
         /\ (s \div Window) * Window <= s
         /\ s < (s \div Window) * Window + Window
  OBVIOUS

\* A time is in one window only.
LEMMA OneWindow ==
  ASSUME NEW s \in Nat, NEW b \in Nat, b * Window <= s, s < b * Window + Window
  PROVE  s \div Window = b
  OBVIOUS

\* A later time is in no earlier window.
LEMMA LaterWindow ==
  ASSUME NEW s \in Nat, NEW u \in Nat, s <= u
  PROVE  s \div Window <= u \div Window
  OBVIOUS

\* The window of a time before the end of the clock is a bucket.
LEMMA BucketTypes ==
  ASSUME RateShape, NEW q \in Calls
  PROVE  /\ Bucket(q) \in Buckets
         /\ Bucket(q) * Window <= stamp[q]
         /\ stamp[q] < Bucket(q) * Window + Window
<1>1. stamp[q] \in Nat /\ stamp[q] <= MaxClock
  BY DEF RateShape
<1> QED BY <1>1, WindowOf, LaterWindow DEF Bucket, Buckets

-----------------------------------------------------------------------------
(* The counter in Redis.                                                   *)

\* The requests that the counter of a window has let in or will.
LetIn(b) == {q \in Calls : stand[q] \in {"expire", "in"} /\ Bucket(q) = b}

\* What its life has let in, at most.
Used(b) == IF count[b] < Quota THEN count[b] ELSE Quota

\* A key that a timely INCR may find expired: its life began before the window.
Short(b) ==
  \/ clock < b * Window
  \/ dies[b] # 0 /\ dies[b] < b * Window + Window + Grace

\* One life more than INCRs astray; none more when the present life is short.
KeyInv(b) ==
  /\ count[b] = 0 => LetIn(b) = {} /\ dies[b] = 0
  /\ Cardinality(LetIn(b)) <= Quota * astray[b] + Used(b)
  /\ count[b] > 0 /\ Short(b) =>
       Cardinality(LetIn(b)) + Quota <= Quota * astray[b] + Used(b)

RedisInv == limiter = "redis" => \A b \in Buckets : KeyInv(b)

\* What is granted is finite.
LEMMA GrantedFinite ==
  ASSUME NEW b
  PROVE  IsFiniteSet(LetIn(b)) /\ Cardinality(LetIn(b)) \in Nat
<1>1. LetIn(b) \subseteq Calls
  BY DEF LetIn
<1> QED BY <1>1, FS_Subset, FS_CardinalityType

\* The numbers of the bound before and after an INCR: k is the limit, p what
\* the lives that went astray allow, c the counter, g what is granted.
LEMMA Numbers ==
  ASSUME NEW k \in Nat \ {0}, NEW p \in Nat, NEW c \in Nat, NEW g \in Nat, NEW h \in Nat,
         NEW gone \in BOOLEAN, NEW timely \in BOOLEAN,
         NEW short \in BOOLEAN, NEW early \in BOOLEAN,
         NEW n \in Nat, n = IF gone THEN 1 ELSE c + 1,
         NEW q \in Nat, q = IF timely THEN p ELSE p + k,
         NEW u \in Nat, u = IF c < k THEN c ELSE k,
         NEW v \in Nat, v = IF n < k THEN n ELSE k,
         c = 0 => g = 0 /\ ~gone,
         g <= p + u, c > 0 /\ short => g + k <= p + u,
         gone /\ timely => short,
         early => (~timely /\ (c > 0 => short)) \/ (~gone /\ short /\ c > 0),
         h <= IF n <= k THEN g + 1 ELSE g
  PROVE  h <= q + v /\ (early => h + k <= q + v)
<1>1. CASE gone
  <2>1. n = 1 /\ v = 1 /\ h <= g + 1 /\ c > 0 /\ u <= k
    BY <1>1
  <2>2. CASE timely
    BY <1>1, <2>1, <2>2
  <2>3. CASE ~timely
    BY <1>1, <2>1, <2>3
  <2> QED BY <2>2, <2>3
<1>2. CASE ~gone
  <2>1. n = c + 1 /\ p <= q
    BY <1>2
  <2>2. CASE n <= k
    <3>1. v = n /\ u = c /\ h <= g + 1
      BY <2>1, <2>2
    <3>2. CASE c > 0
      BY <2>1, <3>1, <3>2, <1>2
    <3>3. CASE c = 0
      BY <2>1, <3>1, <3>3, <1>2
    <3> QED BY <3>2, <3>3
  <2>3. CASE ~(n <= k)
    BY <1>2, <2>1, <2>3
  <2> QED BY <2>2, <2>3
<1> QED BY <1>1, <1>2

\* An INCR of a key keeps its bound.
LEMMA CountKept ==
  ASSUME RateShape, NEW b \in Buckets, KeyInv(b), Count(b), clock' = clock,
         NEW h \in Nat,
         h <= IF Number(b) <= Quota THEN Cardinality(LetIn(b)) + 1 ELSE Cardinality(LetIn(b))
  PROVE  /\ count'[b] > 0
         /\ h <= Quota * astray'[b] + Used(b)'
         /\ Short(b)' => h + Quota <= Quota * astray'[b] + Used(b)'
<1> DEFINE g == Cardinality(LetIn(b))
           p == Quota * astray[b]
           w == b * Window
<1>0. b \in Nat /\ w \in Nat
  BY DEF Buckets
<1>1. /\ clock \in Nat /\ count[b] \in Nat /\ dies[b] \in Nat /\ astray[b] \in Nat
      /\ b \in Nat /\ w \in Nat
  BY <1>0 DEF RateShape
<1>2. g \in Nat
  BY GrantedFinite
<1>3. /\ count'[b] = Number(b)
      /\ dies'[b] = IF Number(b) = 1 THEN 0 ELSE dies[b]
      /\ astray'[b] = IF Timely(b) THEN astray[b] ELSE astray[b] + 1
  BY DEF Count, RateShape
<1>4. Number(b) \in Nat /\ Number(b) > 0
  BY <1>1 DEF Number
<1>5. p \in Nat /\ Quota * astray'[b] = IF Timely(b) THEN p ELSE p + Quota
  BY <1>1, <1>3
<1>6. Used(b) \in Nat /\ Used(b)' = IF Number(b) < Quota THEN Number(b) ELSE Quota
  BY <1>1, <1>3, <1>4 DEF Used
<1>7. count[b] = 0 => g = 0 /\ ~Gone(b)
  <2>1. count[b] = 0 => LetIn(b) = {} /\ dies[b] = 0
    BY DEF KeyInv
  <2>2. LetIn(b) = {} => g = 0
    BY FS_EmptySet
  <2>3. dies[b] = 0 => ~Gone(b)
    BY DEF Gone
  <2> QED BY <2>1, <2>2, <2>3
<1>8. Gone(b) /\ Timely(b) => Short(b)
  <2> SUFFICES ASSUME Gone(b), Timely(b) PROVE Short(b)
    OBVIOUS
  <2>1. dies[b] # 0 /\ clock >= dies[b] /\ clock < w + Window + Grace
    BY <1>1 DEF Gone, Timely
  <2>2. dies[b] < w + Window + Grace
    BY <1>1, <2>1
  <2> QED BY <2>1, <2>2 DEF Short
<1>9. Short(b)' => \/ ~Timely(b) /\ (count[b] > 0 => Short(b))
                   \/ ~Gone(b) /\ Short(b) /\ count[b] > 0
  <2>1. CASE clock < b * Window
    BY <1>1, <2>1 DEF Short, Timely
  <2>2. CASE ~(clock < b * Window)
    <3>1. Short(b)' => dies'[b] # 0 /\ dies'[b] < b * Window + Window + Grace
      BY <2>2 DEF Short
    <3>2. dies'[b] # 0 => dies'[b] = dies[b] /\ Number(b) # 1
      BY <1>3
    <3>3. Number(b) # 1 => ~Gone(b) /\ count[b] > 0
      BY <1>1 DEF Number
    <3> QED BY <3>1, <3>2, <3>3 DEF Short
  <2> QED BY <2>1, <2>2
<1>10. /\ g <= p + Used(b) /\ (count[b] > 0 /\ Short(b) => g + Quota <= p + Used(b))
       /\ Used(b) = IF count[b] < Quota THEN count[b] ELSE Quota
       /\ Number(b) = IF Gone(b) THEN 1 ELSE count[b] + 1
  BY DEF KeyInv, Used, Number
<1>11. /\ Gone(b) \in BOOLEAN /\ Timely(b) \in BOOLEAN
       /\ Short(b) \in BOOLEAN /\ Short(b)' \in BOOLEAN
  BY DEF Gone, Timely, Short
<1>12. Used(b)' \in Nat /\ Quota * astray'[b] \in Nat
  BY <1>4, <1>5, <1>6
<1> HIDE DEF g, p, w
<1> QED
  <2> DEFINE q == Quota * astray'[b]
             v == Used(b)'
             early == Short(b)'
  <2>1. q \in Nat /\ v \in Nat /\ early \in BOOLEAN
    BY <1>11, <1>12
  <2>2. /\ q = IF Timely(b) THEN p ELSE p + Quota
        /\ v = IF Number(b) < Quota THEN Number(b) ELSE Quota
        /\ h <= IF Number(b) <= Quota THEN g + 1 ELSE g
    BY <1>5, <1>6 DEF g
  <2>3. early => \/ ~Timely(b) /\ (count[b] > 0 => Short(b))
                 \/ ~Gone(b) /\ Short(b) /\ count[b] > 0
    BY <1>9
  <2> HIDE DEF q, v, early
  <2>4. h <= q + v /\ (early => h + Quota <= q + v)
    BY <1>1, <1>2, <1>4, <1>5, <1>6, <1>7, <1>8, <1>10, <1>11, <2>1, <2>2, <2>3, Numbers
  <2> QED BY <1>3, <1>4, <2>4 DEF q, v, early

\* The bound of a key is about what is known of it.
LEMMA KeyStays ==
  ASSUME RateShape, NEW b \in Buckets, KeyInv(b),
         clock' \in Nat, clock <= clock', LetIn(b)' = LetIn(b),
         count'[b] = count[b], dies'[b] = dies[b], astray'[b] = astray[b]
  PROVE  KeyInv(b)'
<1>1. clock \in Nat /\ b * Window \in Nat
  BY DEF RateShape, Buckets
<1>2. Short(b)' => Short(b)
  BY <1>1 DEF Short
<1> QED BY <1>2 DEF KeyInv, Used

\* INCR lets one request more in, if it does.
LEMMA IncrKept ==
  ASSUME RateShape, limiter = "redis", RedisInv, NEW q \in Calls, Incr(q)
  PROVE  RedisInv'
<1> DEFINE b == Bucket(q)
           n == Number(b)
<1>1. /\ stand[q] = "counting"
      /\ stand' = [stand EXCEPT ![q] = IF n = 1 THEN "expire" ELSE Verdict(n)]
      /\ Count(b)
      /\ limiter' = limiter /\ stamp' = stamp /\ clock' = clock
  BY DEF Incr, Stands
<1>2. b \in Buckets /\ \A p \in Calls : Bucket(p)' = Bucket(p)
  BY <1>1, BucketTypes DEF Bucket
<1>3. \A c \in Buckets \ {b} : KeyInv(c)'
  <2> TAKE c \in Buckets \ {b}
  <2>1. /\ LetIn(c)' = LetIn(c)
    BY <1>1, <1>2 DEF LetIn, RateShape
  <2>2. count'[c] = count[c] /\ dies'[c] = dies[c] /\ astray'[c] = astray[c]
    BY <1>1, <1>2 DEF Count, RateShape
  <2>3. KeyInv(c) /\ clock' \in Nat /\ clock <= clock'
    BY <1>1 DEF RedisInv, RateShape
  <2> QED BY <2>1, <2>2, <2>3, KeyStays
<1>4. ASSUME NEW c \in Buckets, c = b PROVE KeyInv(c)'
  <2> DEFINE g == Cardinality(LetIn(c))
  <2>0. KeyInv(c) /\ Count(c)
    BY <1>1, <1>4 DEF RedisInv
  <2>1. LetIn(c)' \subseteq LetIn(c) \cup {q} /\ q \notin LetIn(c)
    BY <1>1, <1>2 DEF LetIn, RateShape
  <2>2. ~(Number(c) <= Quota) => LetIn(c)' = LetIn(c)
    <3>1. ~(n <= Quota) => n # 1
      OBVIOUS
    <3> QED BY <1>1, <1>2, <1>4, <3>1 DEF LetIn, RateShape, Verdict
  <2>3. /\ Cardinality(LetIn(c)') \in Nat
        /\ Cardinality(LetIn(c)') <= g + 1
    <3>1. /\ IsFiniteSet(LetIn(c) \cup {q})
          /\ Cardinality(LetIn(c) \cup {q}) = g + 1
      BY <2>1, GrantedFinite, FS_AddElement
    <3> QED BY <2>1, <3>1, FS_Subset, FS_CardinalityType
  <2>4. Cardinality(LetIn(c)') <= IF Number(c) <= Quota THEN g + 1 ELSE g
    BY <2>2, <2>3
  <2>5. /\ count'[c] > 0
        /\ Cardinality(LetIn(c)') <= Quota * astray'[c] + Used(c)'
        /\ Short(c)' => Cardinality(LetIn(c)') + Quota <= Quota * astray'[c] + Used(c)'
    BY <1>1, <2>0, <2>3, <2>4, CountKept
  <2> QED BY <2>5 DEF KeyInv
<1>5. \A c \in Buckets : KeyInv(c)'
  BY <1>3, <1>4
<1> QED BY <1>1, <1>5 DEF RedisInv

\* An INCR without an answer lets nothing in that is counted.
LEMMA FailOpenKept ==
  ASSUME RateShape, limiter = "redis", RedisInv, NEW q \in Calls, FailOpen(q)
  PROVE  RedisInv'
<1> DEFINE b == Bucket(q)
<1>1. /\ stand[q] = "counting" /\ stand' \in {stand, [stand EXCEPT ![q] = "open"]}
      /\ Count(b) \/ UNCHANGED keyVars
      /\ UNCHANGED <<limiter, clock, stamp>>
  BY DEF FailOpen
<1>2. b \in Buckets /\ \A p \in Calls : Bucket(p)' = Bucket(p)
  BY <1>1, BucketTypes DEF Bucket
<1>3. \A c \in Buckets : LetIn(c)' = LetIn(c)
  BY <1>1, <1>2 DEF LetIn, RateShape
<1>4. clock' \in Nat /\ clock <= clock'
  BY <1>1 DEF RateShape
<1>5. \A c \in Buckets : c = b \/ KeyInv(c)'
  <2> SUFFICES ASSUME NEW c \in Buckets \ {b} PROVE KeyInv(c)'
    OBVIOUS
  <2>1. count'[c] = count[c] /\ dies'[c] = dies[c] /\ astray'[c] = astray[c]
    BY <1>1, <1>2 DEF Count, RateShape, keyVars
  <2> QED BY <1>3, <1>4, <2>1, KeyStays DEF RedisInv
<1>6. ASSUME NEW c \in Buckets, c = b PROVE KeyInv(c)'
  <2>0. KeyInv(c) /\ (Count(c) \/ UNCHANGED keyVars)
    BY <1>1, <1>6 DEF RedisInv
  <2>1. CASE UNCHANGED keyVars
    <3>1. count'[c] = count[c] /\ dies'[c] = dies[c] /\ astray'[c] = astray[c]
      BY <2>1 DEF keyVars
    <3> QED BY <1>3, <1>4, <2>0, <3>1, KeyStays
  <2>2. CASE Count(c)
    <3>1. /\ Cardinality(LetIn(c)) \in Nat
          /\ Cardinality(LetIn(c)) <=
              IF Number(c) <= Quota THEN Cardinality(LetIn(c)) + 1 ELSE Cardinality(LetIn(c))
      BY GrantedFinite
    <3>2. /\ count'[c] > 0
          /\ Cardinality(LetIn(c)) <= Quota * astray'[c] + Used(c)'
          /\ Short(c)' => Cardinality(LetIn(c)) + Quota <= Quota * astray'[c] + Used(c)'
      BY <1>1, <2>0, <2>2, <3>1, CountKept
    <3>3. LetIn(c)' = LetIn(c)
      BY <1>3
    <3> QED BY <3>2, <3>3 DEF KeyInv
  <2> QED BY <2>0, <2>1, <2>2
<1>7. \A c \in Buckets : KeyInv(c)'
  BY <1>5, <1>6
<1> QED BY <1>1, <1>7 DEF RedisInv

\* The expiry that is set is not short, unless the key was.
LEMMA SetExpiryKept ==
  ASSUME RateShape, limiter = "redis", RedisInv, NEW q \in Calls, SetExpiry(q)
  PROVE  RedisInv'
<1> DEFINE b == Bucket(q)
<1>1. /\ stand[q] = "expire" /\ stand' \in {stand, [stand EXCEPT ![q] = Verdict(1)]}
      /\ Keep(b) \/ UNCHANGED keyVars
      /\ UNCHANGED <<limiter, clock, stamp>>
  BY DEF SetExpiry, Stands
<1>2. b \in Buckets /\ \A p \in Calls : Bucket(p)' = Bucket(p)
  BY <1>1, BucketTypes DEF Bucket
<1>3. Verdict(1) = "in"
  BY DEF Verdict
<1>4. \A c \in Buckets : LetIn(c)' = LetIn(c)
  BY <1>1, <1>2, <1>3 DEF LetIn, RateShape
<1>5. clock' \in Nat /\ clock <= clock' /\ clock \in Nat
  BY <1>1 DEF RateShape
<1>6. /\ count' = count /\ astray' = astray
      /\ dies' = dies \/ dies' = [dies EXCEPT ![b] = clock + Lifetime]
  BY <1>1 DEF Keep, keyVars
<1>7. ASSUME NEW c \in Buckets PROVE KeyInv(c)'
  <2>0. KeyInv(c)
    BY DEF RedisInv
  <2>1. CASE dies'[c] = dies[c]
    BY <1>4, <1>5, <1>6, <2>0, <2>1, KeyStays
  <2>2. CASE dies'[c] # dies[c]
    <3>1. c = b /\ dies'[c] = clock + Lifetime
      BY <1>2, <1>6, <2>2 DEF RateShape
    <3>2. q \in LetIn(c) /\ count[c] # 0
      BY <1>1, <2>0, <3>1 DEF LetIn, KeyInv
    <3>3. Short(c)' => Short(c)
      <4>1. c * Window \in Nat
        BY DEF Buckets
      <4>2. Short(c)' => clock < c * Window
        BY <1>1, <1>5, <3>1, <4>1 DEF Short, Lifetime
      <4> QED BY <4>2 DEF Short
    <3> QED BY <1>4, <1>6, <2>0, <3>2, <3>3 DEF KeyInv, Used
  <2> QED BY <2>1, <2>2
<1> QED BY <1>7 DEF RedisInv

\* The requests let in are among those granted.
LEMMA RedisBound ==
  ASSUME RateShape, RedisInv, limiter = "redis", NEW b \in Buckets
  PROVE  Cardinality(Admitted(b * Window, b * Window + Window - 1)) <= Quota * (1 + astray[b])
<1> DEFINE A == Admitted(b * Window, b * Window + Window - 1)
<1>0. b \in Nat /\ b * Window \in Nat
  BY DEF Buckets
<1>1. b \in Nat /\ b * Window \in Nat /\ astray[b] \in Nat /\ KeyInv(b)
  BY <1>0 DEF RedisInv, RateShape
<1>2. A \subseteq LetIn(b)
  <2> SUFFICES ASSUME NEW q \in A PROVE q \in LetIn(b)
    OBVIOUS
  <2>1. /\ q \in Calls /\ stand[q] = "in" /\ stamp[q] \in Nat
        /\ b * Window <= stamp[q] /\ stamp[q] < b * Window + Window
    BY <1>1 DEF Admitted, RateShape
  <2>2. Bucket(q) = b
    BY <1>1, <2>1, OneWindow DEF Bucket
  <2> QED BY <2>1, <2>2 DEF LetIn
<1>3. /\ Cardinality(A) <= Cardinality(LetIn(b))
      /\ Cardinality(A) \in Nat /\ Cardinality(LetIn(b)) \in Nat
  BY <1>2, GrantedFinite, FS_Subset, FS_CardinalityType
<1>4. Cardinality(LetIn(b)) <= Quota * astray[b] + Used(b) /\ Used(b) \in Nat /\ Used(b) <= Quota
  BY <1>1 DEF KeyInv, Used, RateShape
<1>5. Quota * astray[b] \in Nat /\ Quota * (1 + astray[b]) = Quota * astray[b] + Quota
  BY <1>1
<1> HIDE DEF A
<1> QED BY <1>3, <1>4, <1>5 DEF A

-----------------------------------------------------------------------------
(* The counter of a process.                                               *)

Let == {q \in Calls : stand[q] = "in"}

\* Those let in since the limiter's window began, at until - Window, before
\* it but not before t, and in the interval that begins at t.
Present    == {q \in Let : stamp[q] + Window >= until}
Earlier(t) == {q \in Let : t <= stamp[q] /\ stamp[q] + Window < until}
During(t)  == {q \in Let : t <= stamp[q] /\ stamp[q] < t + Window}

LocalShape ==
  /\ until = 0 => Let = {} /\ local = 0
  /\ until > 0 => until <= clock + Window /\ Window <= until
  /\ local = 0 => until = 0 \/ until < clock
  /\ \A q \in Let : stamp[q] <= until
  /\ until > 0 => \E q \in Let : stamp[q] + Window = until

LocalCounts ==
  /\ Cardinality(Present) <= Quota
  /\ local > 0 => Cardinality(Present) <= local
  /\ \A t \in Nat : until < t + 2 * Window => Cardinality(Earlier(t)) <= Quota - 1
  /\ \A t \in Nat : Cardinality(During(t)) <= 2 * Quota - 1

LocalInv == limiter = "local" => LocalShape /\ LocalCounts

\* What is let in is finite.
LEMMA Finite ==
  /\ IsFiniteSet(Let) /\ IsFiniteSet(Present)
  /\ \A t \in Nat : IsFiniteSet(Earlier(t)) /\ IsFiniteSet(During(t))
<1>1. IsFiniteSet(Let)
  BY FS_Subset DEF Let
<1>2. \A S \in SUBSET Let : IsFiniteSet(S)
  BY <1>1, FS_Subset
<1> QED BY <1>1, <1>2 DEF Present, Earlier, During

\* A part of what is let in is no more.
LEMMA Fewer ==
  ASSUME NEW T, IsFiniteSet(T), NEW S \in SUBSET T, NEW n \in Nat, Cardinality(T) <= n
  PROVE  Cardinality(S) <= n
<1>1. Cardinality(S) <= Cardinality(T) /\ IsFiniteSet(S)
  BY FS_Subset
<1> QED BY <1>1, FS_CardinalityType

\* Two parts together are no more than both.
LEMMA Together ==
  ASSUME NEW S, IsFiniteSet(S), NEW T, IsFiniteSet(T), NEW m \in Nat, NEW n \in Nat,
         Cardinality(S) <= m, Cardinality(T) <= n
  PROVE  IsFiniteSet(S \cup T) /\ Cardinality(S \cup T) <= m + n
<1>1. /\ IsFiniteSet(S \cup T) /\ IsFiniteSet(S \cap T)
      /\ Cardinality(S \cup T) = Cardinality(S) + Cardinality(T) - Cardinality(S \cap T)
  BY FS_Union, FS_Intersection
<1> QED BY <1>1, FS_CardinalityType

\* One request more is one more at most.
LEMMA OneMore ==
  ASSUME NEW S, IsFiniteSet(S), NEW x, NEW n \in Nat, Cardinality(S) <= n
  PROVE  IsFiniteSet(S \cup {x}) /\ Cardinality(S \cup {x}) <= n + 1
<1>1. Cardinality(S) \in Nat
  BY FS_CardinalityType
<1>2. /\ IsFiniteSet(S \cup {x})
      /\ Cardinality(S \cup {x}) = IF x \in S THEN Cardinality(S) ELSE Cardinality(S) + 1
  BY FS_AddElement
<1> QED BY <1>1, <1>2

\* Without one of its members a set is one less.
LEMMA OneLess ==
  ASSUME NEW S, IsFiniteSet(S), NEW x \in S, NEW n \in Nat, Cardinality(S) <= n,
         NEW T \in SUBSET (S \ {x})
  PROVE  IsFiniteSet(T) /\ Cardinality(T) <= n - 1
<1>1. IsFiniteSet(S \ {x}) /\ Cardinality(S \ {x}) = Cardinality(S) - 1
  BY FS_RemoveElement
<1>2. Cardinality(T) <= Cardinality(S \ {x}) /\ IsFiniteSet(T)
  BY <1>1, FS_Subset
<1> QED BY <1>1, <1>2, FS_CardinalityType

\* The counter of a process counts what its window has let in.
LEMMA AllowKept ==
  ASSUME RateShape, LocalInv, NEW q \in Calls, Allow(q)
  PROVE  LocalInv'
<1> DEFINE fresh == local = 0 \/ clock > until
<1>1. /\ limiter = "local" /\ LocalShape /\ LocalCounts
      /\ stand[q] = "idle" /\ clock \in Nat /\ local \in Nat /\ until \in Nat
      /\ \A p \in Calls : stamp[p] \in Nat
      /\ \A p \in Let : p \in Calls /\ stamp[p] \in Nat /\ stamp[p] <= clock /\ p # q
  BY DEF LocalInv, Allow, Stands, RateShape, Let
<1>2. /\ clock' = clock /\ stamp'[q] = clock
      /\ \A p \in Calls \ {q} : stamp'[p] = stamp[p] /\ stand'[p] = stand[p]
      /\ stand'[q] = IF fresh THEN "in" ELSE Verdict(local + 1)
      /\ local' = IF fresh THEN 1 ELSE local + 1
      /\ until' = IF fresh THEN clock + Window ELSE until
  BY DEF Allow, Stands, RateShape
<1>3. CASE fresh
  <2>1. /\ Let' = Let \cup {q} /\ until' = clock + Window /\ local' = 1
        /\ \A p \in Let : stamp[p] < clock
    BY <1>1, <1>2, <1>3 DEF Let, LocalShape
  <2>2. LocalShape'
    <3>1. q \in Let' /\ stamp'[q] + Window = until'
      BY <1>2, <2>1
    <3> QED BY <1>1, <1>2, <2>1, <3>1 DEF LocalShape
  <2>3. Present' = {q}
    BY <1>1, <1>2, <2>1 DEF Present, Let
  <2>4. Cardinality(Present') <= 1 /\ 1 <= Quota /\ IsFiniteSet(Present')
    <3>1. Cardinality({q}) = 1 /\ IsFiniteSet({q})
      BY FS_Singleton
    <3> QED BY <2>3, <3>1
  <2>5. ASSUME NEW t \in Nat, until' < t + 2 * Window
        PROVE  IsFiniteSet(Earlier(t)') /\ Cardinality(Earlier(t)') <= Quota - 1
    <3>1. Earlier(t)' \subseteq Present
      <4> SUFFICES ASSUME NEW p \in Earlier(t)' PROVE p \in Present
        OBVIOUS
      <4>1. p \in Let /\ t <= stamp[p] /\ stamp[p] < clock
        BY <1>1, <1>2, <2>1 DEF Earlier, Let
      <4>2. clock < t + Window /\ (until = 0 \/ until < clock)
        BY <1>1, <1>3, <2>1, <2>5 DEF LocalShape
      <4> QED BY <1>1, <4>1, <4>2 DEF Present
    <3>2. CASE until = 0
      <4>1. Earlier(t)' = {}
        BY <1>1, <3>1, <3>2 DEF LocalShape, Present
      <4> QED BY <4>1, FS_EmptySet
    <3>3. CASE until > 0
      <4>1. PICK p \in Let : stamp[p] + Window = until
        BY <1>1, <3>3 DEF LocalShape
      <4>2. p \in Present /\ stamp'[p] = stamp[p]
        BY <1>1, <1>2, <4>1 DEF Present
      <4>3. clock < t + Window /\ until < clock
        BY <1>1, <1>3, <2>1, <2>5, <3>3 DEF LocalShape
      <4>4. p \notin Earlier(t)'
        BY <1>1, <4>1, <4>2, <4>3 DEF Earlier
      <4>5. Earlier(t)' \in SUBSET (Present \ {p})
        BY <3>1, <4>4
      <4> QED BY <1>1, <4>2, <4>5, Finite, OneLess DEF LocalCounts
    <3> QED BY <1>1, <3>2, <3>3
  <2>6. ASSUME NEW t \in Nat PROVE Cardinality(During(t)') <= 2 * Quota - 1
    <3>1. CASE clock < t + Window
      <4>1. until' < t + 2 * Window
        BY <1>1, <2>1, <3>1
      <4>2. During(t)' \subseteq Earlier(t)' \cup Present'
        BY <1>1, <1>2, <2>1, <3>1 DEF During, Earlier, Present, Let
      <4>3. /\ IsFiniteSet(Earlier(t)' \cup Present')
            /\ Cardinality(Earlier(t)' \cup Present') <= Quota - 1 + 1
        <5>1. Quota - 1 \in Nat /\ 1 \in Nat
          OBVIOUS
        <5> QED BY <2>4, <2>5, <4>1, <5>1, Together
      <4>4. Cardinality(During(t)') <= Quota
        BY <4>2, <4>3, Fewer
      <4>5. IsFiniteSet(During(t)')
        BY <4>2, <4>3, FS_Subset
      <4>6. Cardinality(During(t)') \in Nat
        BY <4>5, FS_CardinalityType
      <4> QED BY <4>4, <4>6
    <3>2. CASE t + Window <= clock
      <4>1. During(t)' = During(t)
        BY <1>1, <1>2, <2>1, <3>2 DEF During, Let
      <4> QED BY <1>1, <4>1 DEF LocalCounts
    <3> QED BY <1>1, <3>1, <3>2
  <2>7. Cardinality(Present') <= Quota
    BY <2>4, FS_CardinalityType
  <2> QED BY <2>1, <2>2, <2>4, <2>5, <2>6, <2>7 DEF LocalInv, LocalCounts
<1>4. CASE ~fresh /\ local + 1 <= Quota
  <2>1. /\ Let' = Let \cup {q} /\ until' = until /\ local' = local + 1
        /\ until > 0 /\ clock <= until /\ local > 0 /\ until <= clock + Window
    BY <1>1, <1>2, <1>4 DEF Let, LocalShape, Verdict
  <2>2. LocalShape'
    <3>1. \A p \in Let' : stamp'[p] <= until
      BY <1>1, <1>2, <2>1 DEF LocalShape
    <3>2. until <= clock + Window /\ Window <= until
      BY <1>1, <2>1 DEF LocalShape
    <3>3. \E p \in Let' : stamp'[p] + Window = until'
      BY <1>1, <1>2, <2>1 DEF LocalShape
    <3> QED BY <1>1, <1>2, <2>1, <3>1, <3>2, <3>3 DEF LocalShape
  <2>3. Present' = Present \cup {q}
    BY <1>1, <1>2, <2>1 DEF Present, Let
  <2>4. Cardinality(Present') <= local + 1 /\ IsFiniteSet(Present')
    BY <1>1, <2>1, <2>3, Finite, OneMore DEF LocalCounts
  <2>5. Cardinality(Present') <= Quota /\ Cardinality(Present') \in Nat
    BY <1>1, <1>4, <2>4, FS_CardinalityType
  <2>6. ASSUME NEW t \in Nat PROVE Earlier(t)' = Earlier(t)
    BY <1>1, <1>2, <2>1 DEF Earlier, Let
  <2>7. ASSUME NEW t \in Nat PROVE Cardinality(During(t)') <= 2 * Quota - 1
    <3>1. CASE until < t + 2 * Window
      <4>1. During(t)' \subseteq Earlier(t) \cup Present'
        BY <1>1, <1>2, <2>1, <2>6 DEF During, Earlier, Present, Let
      <4>2. IsFiniteSet(Earlier(t)) /\ Cardinality(Earlier(t)) <= Quota - 1
        BY <1>1, <3>1, Finite DEF LocalCounts
      <4>3. /\ IsFiniteSet(Earlier(t) \cup Present')
            /\ Cardinality(Earlier(t) \cup Present') <= (Quota - 1) + Quota
        <5>1. Quota - 1 \in Nat /\ Quota \in Nat
          OBVIOUS
        <5> QED BY <2>4, <2>5, <4>2, <5>1, Together
      <4>4. Cardinality(During(t)') <= (Quota - 1) + Quota
        BY <4>1, <4>3, Fewer
      <4> QED BY <4>4
    <3>2. CASE t + 2 * Window <= until
      <4>1. t + Window <= clock
        BY <1>1, <2>1, <3>2
      <4>2. During(t)' = During(t)
        BY <1>1, <1>2, <2>1, <4>1 DEF During, Let
      <4> QED BY <1>1, <4>2 DEF LocalCounts
    <3> QED BY <1>1, <3>1, <3>2
  <2> QED BY <1>1, <2>1, <2>2, <2>4, <2>5, <2>6, <2>7 DEF LocalInv, LocalCounts
<1>5. CASE ~fresh /\ ~(local + 1 <= Quota)
  <2>1. /\ Let' = Let /\ until' = until /\ local' = local + 1
        /\ \A p \in Let : stamp'[p] = stamp[p]
    BY <1>1, <1>2, <1>5 DEF Let, Verdict
  <2>2. /\ Present' = Present
        /\ \A t \in Nat : Earlier(t)' = Earlier(t) /\ During(t)' = During(t)
    BY <2>1 DEF Present, Earlier, During
  <2>3. Cardinality(Present) <= local + 1
    BY <1>1, Finite, FS_CardinalityType, <1>5 DEF LocalCounts
  <2>4. LocalShape'
    BY <1>1, <1>2, <2>1 DEF LocalShape
  <2> QED BY <1>1, <2>1, <2>2, <2>3, <2>4 DEF LocalInv, LocalCounts
<1> QED BY <1>3, <1>4, <1>5
\* An interval as long as a window meets two windows at most.
LEMMA LocalBound ==
  ASSUME RateShape, LocalInv, limiter = "local", NEW t \in 0..MaxClock
  PROVE  Cardinality(Admitted(t, t + Window - 1)) <= 2 * Quota - 1
<1>1. Admitted(t, t + Window - 1) = During(t)
  BY DEF Admitted, During, Let, RateShape
<1> QED BY <1>1 DEF LocalInv, LocalCounts

-----------------------------------------------------------------------------
(* All steps.                                                              *)

RateInv == RateShape /\ RedisInv /\ LocalInv

\* Every step keeps the types.
LEMMA ShapeKept ==
  ASSUME RateShape, NEW some \in SUBSET Calls, RateNext(some)
  PROVE  RateShape'
<1> USE DEF RateShape, Stands, localVars
<1>1. CASE Tick
  BY <1>1 DEF Tick, keyVars
<1>2. CASE Sweep
  BY <1>2 DEF Sweep, keyVars
<1>3. ASSUME NEW q \in Calls, Arrive(q) PROVE RateShape'
  BY <1>3 DEF Arrive, keyVars
<1>4. ASSUME NEW q \in Calls, Count(Bucket(q))
      PROVE  /\ count' \in [Buckets -> Nat] /\ dies' \in [Buckets -> Nat]
             /\ astray' \in [Buckets -> Nat] /\ Number(Bucket(q)) \in Nat
  <2>1. Bucket(q) \in Buckets
    BY BucketTypes
  <2>2. Number(Bucket(q)) \in Nat
    BY <2>1 DEF Number
  <2>3. 0 \in Nat /\ \A b \in Buckets : astray[b] + 1 \in Nat
    OBVIOUS
  <2> QED BY <1>4, <2>1, <2>2, <2>3 DEF Count
<1>5. ASSUME NEW q \in Calls, Incr(q) PROVE RateShape'
  <2>1. /\ stand[q] = "counting" /\ Count(Bucket(q))
        /\ UNCHANGED <<limiter, clock, stamp, local, until>>
        /\ stand' \in [Calls -> {"idle", "counting", "expire", "in", "out", "open"}]
    BY <1>5 DEF Incr, Verdict
  <2>2. limiter # "local"
    BY <2>1
  <2> QED BY <1>4, <2>1, <2>2
<1>6. ASSUME NEW q \in Calls, SetExpiry(q) PROVE RateShape'
  <2>1. /\ stand[q] = "expire" /\ (Keep(Bucket(q)) \/ UNCHANGED keyVars)
        /\ UNCHANGED <<limiter, clock, stamp, local, until>>
        /\ stand' \in [Calls -> {"idle", "counting", "expire", "in", "out", "open"}]
    BY <1>6 DEF SetExpiry, Verdict
  <2>2. dies' \in [Buckets -> Nat] /\ count' = count /\ astray' = astray
    <3>1. clock + Lifetime \in Nat
      BY DEF Lifetime
    <3> QED BY <2>1, <3>1 DEF Keep, keyVars
  <2>3. limiter # "local"
    BY <2>1
  <2> QED BY <2>1, <2>2, <2>3
<1>7. ASSUME NEW q \in Calls, FailOpen(q) PROVE RateShape'
  <2>1. /\ stand[q] = "counting" /\ (Count(Bucket(q)) \/ UNCHANGED keyVars)
        /\ UNCHANGED <<limiter, clock, stamp, local, until>>
        /\ stand' \in [Calls -> {"idle", "counting", "expire", "in", "out", "open"}]
    BY <1>7 DEF FailOpen
  <2>2. /\ count' \in [Buckets -> Nat] /\ dies' \in [Buckets -> Nat]
        /\ astray' \in [Buckets -> Nat]
    BY <1>4, <2>1 DEF keyVars
  <2>3. limiter # "local"
    BY <2>1
  <2> QED BY <2>1, <2>2, <2>3
<1>8. ASSUME NEW q \in Calls, Allow(q) PROVE RateShape'
  BY <1>8 DEF Allow, Verdict, keyVars
<1> QED BY <1>1, <1>2, <1>3, <1>5, <1>6, <1>7, <1>8 DEF RateNext

\* Steps that leave the keys and what is granted leave their bounds.
LEMMA RedisStays ==
  ASSUME RateShape, RedisInv, UNCHANGED <<limiter, keyVars>>,
         clock' \in Nat, clock <= clock',
         \A b \in Buckets : LetIn(b)' = LetIn(b)
  PROVE  RedisInv'
<1>1. ASSUME limiter = "redis", NEW b \in Buckets PROVE KeyInv(b)'
  BY <1>1, KeyStays DEF RedisInv, keyVars
<1> QED BY <1>1 DEF RedisInv

\* Every step keeps RateInv.
LEMMA RateKept ==
  ASSUME RateInv, NEW some \in SUBSET Calls, RateNext(some)
  PROVE  RateInv'
<1> USE DEF RateInv, Stands, localVars
<1>1. RateShape'
  BY ShapeKept
<1>2. CASE Tick
  <2>1. RedisInv'
    <3>1. /\ UNCHANGED <<limiter, keyVars, stand, stamp>>
          /\ clock' \in Nat /\ clock <= clock'
      BY <1>2 DEF Tick, RateShape
    <3> QED BY <3>1, RedisStays DEF LetIn, Bucket
  <2>2. LocalInv'
    BY <1>2 DEF Tick, RateShape, LocalInv, LocalShape, LocalCounts, Let, Present, Earlier, During
  <2> QED BY <1>1, <2>1, <2>2
<1>3. CASE Sweep
  <2>1. RedisInv'
    BY <1>3 DEF Sweep, RedisInv
  <2>2. LocalInv'
    BY <1>3 DEF Sweep, RateShape, LocalInv, LocalShape, LocalCounts, Let, Present, Earlier, During
  <2> QED BY <1>1, <2>1, <2>2
<1>4. ASSUME NEW q \in Calls, Arrive(q) PROVE RateInv'
  <2>1. RedisInv'
    <3>1. /\ UNCHANGED <<limiter, keyVars, clock>>
          /\ stand[q] = "idle" /\ stand' = [stand EXCEPT ![q] = "counting"]
          /\ \A p \in Calls \ {q} : stamp'[p] = stamp[p]
      BY <1>4 DEF Arrive, RateShape
    <3>2. clock' \in Nat /\ clock <= clock'
      BY <3>1 DEF RateShape
    <3>3. \A p \in Calls : stand'[p] \in {"expire", "in"} =>
                             p # q /\ stand'[p] = stand[p] /\ Bucket(p)' = Bucket(p)
      BY <3>1 DEF RateShape, Bucket
    <3>4. \A p \in Calls : stand[p] \in {"expire", "in"} =>
                             p # q /\ stand'[p] = stand[p] /\ Bucket(p)' = Bucket(p)
      BY <3>1 DEF RateShape, Bucket
    <3>5. \A b \in Buckets : LetIn(b)' = LetIn(b)
      BY <3>3, <3>4 DEF LetIn
    <3> QED BY <3>1, <3>2, <3>3, <3>5, RedisStays
  <2>2. LocalInv'
    BY <1>4 DEF Arrive, LocalInv
  <2> QED BY <1>1, <2>1, <2>2
<1>5. ASSUME NEW q \in Calls, Incr(q) \/ SetExpiry(q) \/ FailOpen(q) PROVE RateInv'
  <2>0. limiter' = limiter /\ stand[q] \in {"counting", "expire"}
    BY <1>5 DEF Incr, FailOpen, SetExpiry
  <2>1. RedisInv'
    <3>1. CASE limiter = "redis"
      BY <1>5, <3>1, IncrKept, SetExpiryKept, FailOpenKept
    <3>2. CASE limiter # "redis"
      BY <2>0, <3>2 DEF RedisInv
    <3> QED BY <3>1, <3>2
  <2>2. LocalInv'
    BY <2>0 DEF RateShape, LocalInv
  <2> QED BY <1>1, <2>1, <2>2
<1>6. ASSUME NEW q \in Calls, Allow(q) PROVE RateInv'
  <2>1. RedisInv'
    BY <1>6 DEF Allow, RedisInv
  <2> QED BY <1>1, <1>6, <2>1, AllowKept
<1> QED BY <1>2, <1>3, <1>4, <1>5, <1>6 DEF RateNext

\* RateInv is about the variables of the limiter only.
LEMMA RateStays ==
  ASSUME RateInv, UNCHANGED rateVars
  PROVE  RateInv'
<1> USE DEF RateInv, rateVars, keyVars, localVars
<1>1. RateShape'
  BY DEF RateShape
<1>2. RedisInv'
  <2>1. clock' \in Nat /\ clock <= clock'
    BY DEF RateShape
  <2> QED BY <2>1, RedisStays DEF LetIn, Bucket
<1>3. LocalInv'
  BY DEF LocalInv, LocalShape, LocalCounts, Let, Present, Earlier, During
<1> QED BY <1>1, <1>2, <1>3

\* RateInv implies the bound.
LEMMA RateInvSuffices ==
  ASSUME RateInv
  PROVE  WindowBound
  BY RedisBound, LocalBound DEF RateInv, WindowBound

\* There are no requests at the start.
LEMMA RateInvInit ==
  ASSUME RateInit, limiter \in {"none", "redis", "local"}
  PROVE  RateInv
<1>1. RateShape
  BY DEF RateInit, RateShape
<1>2. RedisInv
  <2> SUFFICES ASSUME NEW b \in Buckets PROVE KeyInv(b)
    BY DEF RateInit, RedisInv
  <2>1. LetIn(b) = {} /\ count[b] = 0 /\ dies[b] = 0 /\ astray[b] = 0
    BY DEF RateInit, LetIn
  <2>2. Cardinality(LetIn(b)) = 0 /\ Used(b) = 0 /\ Quota * astray[b] = 0
    BY <2>1, FS_EmptySet DEF Used
  <2> QED BY <2>1, <2>2 DEF KeyInv
<1>3. Let = {}
  BY DEF RateInit, Let
<1>4. /\ Cardinality(Present) = 0
      /\ \A t \in Nat : Cardinality(Earlier(t)) = 0 /\ Cardinality(During(t)) = 0
  <2>1. Present = {} /\ \A t \in Nat : Earlier(t) = {} /\ During(t) = {}
    BY <1>3 DEF Present, Earlier, During
  <2> QED BY <2>1, FS_EmptySet
<1>5. LocalInv
  BY <1>3, <1>4 DEF RateInit, LocalInv, LocalShape, LocalCounts
<1> QED BY <1>1, <1>2, <1>5 DEF RateInv
-----------------------------------------------------------------------------
(* How far the counters go.                                                *)

\* The requests that a counter may have counted.
Counters == {q \in Calls : stand[q] \notin {"idle", "counting"}}

\* Each INCR is of one of them, or of a command without an answer; nothing
\* expires later than the last tick allows.
RateBounds ==
  /\ \A b \in Buckets : count[b] + outages <= Cardinality(Counters) + MaxOutages
  /\ \A b \in Buckets : astray[b] + outages <= Cardinality(Counters) + MaxOutages
  /\ local <= Cardinality(Counters)
  /\ \A b \in Buckets : dies[b] <= MaxClock + Window + Grace
  /\ until <= MaxClock + Window
  /\ outages \in 0..MaxOutages

\* They are some of the requests.
LEMMA CountersAreCalls ==
  /\ Cardinality(Counters) \in Nat /\ Cardinality(Calls) \in Nat
  /\ Cardinality(Counters) <= Cardinality(Calls)
  BY FS_Subset, FS_CardinalityType DEF Counters

\* A request that comes to its counter is one more.
LEMMA OneCounted ==
  ASSUME RateShape, NEW q \in Calls, stand[q] \in {"idle", "counting"},
         NEW to \in {"expire", "in", "out", "open"}, stand' = [stand EXCEPT ![q] = to]
  PROVE  /\ Cardinality(Counters') = Cardinality(Counters) + 1
         /\ Cardinality(Counters') \in Nat /\ Cardinality(Counters') <= Cardinality(Calls)
<1>1. Counters' = Counters \cup {q}
  BY DEF Counters, RateShape
<1>2. q \notin Counters /\ IsFiniteSet(Counters)
  BY FS_Subset DEF Counters
<1>3. Cardinality(Counters') = Cardinality(Counters) + 1
  BY <1>1, <1>2, FS_AddElement
<1>4. Counters' \subseteq Calls
  BY DEF Counters
<1> QED BY <1>3, <1>4, FS_Subset, FS_CardinalityType

\* Any other step leaves them as they are.
LEMMA SameCounted ==
  ASSUME RateShape, NEW q \in Calls, NEW to,
         \/ stand[q] = "idle" /\ to = "counting"
         \/ stand[q] = "expire" /\ to \in {"in", "out"},
         stand' = [stand EXCEPT ![q] = to]
  PROVE  Counters' = Counters
  BY DEF Counters, RateShape

\* A step that counts at most once, and pays for it.
LEMMA PaidFor ==
  ASSUME RateShape, RateBounds, NEW n \in Nat, n = Cardinality(Counters)', n <= Cardinality(Calls),
         n + outages = Cardinality(Counters) + outages' + 1,
         outages' \in 0..MaxOutages, n >= Cardinality(Counters),
         NEW b \in Buckets, Count(b) \/ UNCHANGED keyVars,
         UNCHANGED <<local, until>>
  PROVE  RateBounds'
<1> DEFINE m == Cardinality(Counters)
<1>1. m \in Nat /\ outages \in 0..MaxOutages /\ Cardinality(Calls) \in Nat
  BY CountersAreCalls DEF RateBounds
<1>2. /\ Number(b) \in Nat /\ Number(b) + outages <= m + MaxOutages + 1
      /\ astray[b] + 1 + outages <= m + MaxOutages + 1
  <2>1. /\ count[b] \in Nat /\ astray[b] \in Nat /\ count[b] + outages <= m + MaxOutages
        /\ astray[b] + outages <= m + MaxOutages
    BY DEF RateShape, RateBounds
  <2> HIDE DEF m
  <2> QED BY <1>1, <2>1 DEF Number
<1>3. \A c \in Buckets : /\ count'[c] \in {count[c], Number(b)} /\ (c # b => count'[c] = count[c])
                         /\ astray'[c] \in {astray[c], astray[b] + 1} /\ (c # b => astray'[c] = astray[c])
                         /\ dies'[c] \in {0, dies[c]}
  BY DEF Count, RateShape, keyVars
<1>4. \A c \in Buckets : /\ count[c] \in Nat /\ count[c] + outages <= m + MaxOutages
                         /\ astray[c] \in Nat /\ astray[c] + outages <= m + MaxOutages
                         /\ dies[c] \in Nat /\ dies[c] <= MaxClock + Window + Grace
  BY DEF RateShape, RateBounds
<1>5. local <= m /\ local \in Nat /\ until <= MaxClock + Window
  BY DEF RateShape, RateBounds
<1>7. \A c \in Buckets : count'[c] + outages' <= n + MaxOutages /\ astray'[c] + outages' <= n + MaxOutages
  <2> TAKE c \in Buckets
  <2>1. count'[c] \in Nat /\ count'[c] + outages <= m + MaxOutages + 1
    <3> HIDE DEF m
    <3> QED BY <1>1, <1>2, <1>3, <1>4
  <2>2. astray'[c] \in Nat /\ astray'[c] + outages <= m + MaxOutages + 1
    <3>1. astray[b] \in Nat
      BY <1>4
    <3> HIDE DEF m
    <3> QED BY <1>1, <1>2, <1>3, <1>4, <3>1
  <2> QED BY <1>1, <2>1, <2>2
<1>8. local' <= n /\ until' <= MaxClock + Window
  BY <1>1, <1>5
<1>9. \A c \in Buckets : dies'[c] <= MaxClock + Window + Grace
  BY <1>3, <1>4
<1> QED BY <1>7, <1>8, <1>9 DEF RateBounds

\* Every step of the limiter keeps the bounds.
LEMMA RateBoundsKept ==
  ASSUME RateShape, RateBounds, NEW some \in SUBSET Calls, RateNext(some)
  PROVE  RateBounds'
<1> DEFINE n == Cardinality(Counters)
<1>1. /\ n \in Nat /\ Cardinality(Calls) \in Nat /\ n <= Cardinality(Calls)
      /\ clock \in 0..MaxClock /\ outages \in 0..MaxOutages
  BY CountersAreCalls DEF RateShape, RateBounds
<1>2. CASE Tick
  BY <1>2 DEF Tick, keyVars, localVars, RateBounds, Counters
<1>3. CASE Sweep
  <2>1. Cardinality(Counters') = n
    BY <1>3 DEF Sweep, Counters
  <2> QED BY <1>1, <1>3, <2>1 DEF Sweep, keyVars, RateBounds
<1>4. ASSUME NEW q \in Calls, Arrive(q) PROVE RateBounds'
  <2>1. Counters' = Counters
    BY <1>4, SameCounted DEF Arrive, Stands
  <2> QED BY <1>4, <2>1 DEF Arrive, keyVars, localVars, RateBounds
<1>5. ASSUME NEW q \in Calls, Incr(q) PROVE RateBounds'
  <2>1. PICK to \in {"expire", "in", "out", "open"} : Stands(q, "counting", to)
    BY <1>5 DEF Incr, Verdict
  <2>2. Bucket(q) \in Buckets
    BY BucketTypes
  <2>3. /\ Cardinality(Counters') = n + 1 /\ Cardinality(Counters') \in Nat
        /\ Cardinality(Counters') <= Cardinality(Calls)
    BY <2>1, OneCounted DEF Stands
  <2>4. Count(Bucket(q)) /\ UNCHANGED <<local, until, outages>>
    BY <1>5 DEF Incr, localVars
  <2>5. Cardinality(Counters)' = n + 1
    BY <2>3
  <2> HIDE DEF n
  <2>6. (n + 1) + outages = n + outages' + 1 /\ n + 1 >= n /\ n + 1 \in Nat /\ outages' \in 0..MaxOutages
    BY <1>1, <2>4
  <2> QED BY <2>2, <2>3, <2>4, <2>5, <2>6, PaidFor DEF n
<1>6. ASSUME NEW q \in Calls, FailOpen(q) PROVE RateBounds'
  <2>1. /\ UNCHANGED <<local, until>> /\ stand[q] = "counting"
        /\ stand' \in {stand, [stand EXCEPT ![q] = "open"]}
        /\ outages' = outages - 1 /\ outages > 0
        /\ Count(Bucket(q)) \/ UNCHANGED keyVars
    BY <1>6 DEF FailOpen, Outage, localVars
  <2>2. outages' \in 0..MaxOutages
    BY <1>1, <2>1
  <2>3. Bucket(q) \in Buckets
    BY BucketTypes
  <2>4. CASE stand' = stand
    <3>1. Cardinality(Counters)' = n
      BY <2>4 DEF Counters
    <3>2. n + outages = n + outages' + 1 /\ n >= n
      <4> HIDE DEF n
      <4> QED BY <1>1, <2>1
    <3> HIDE DEF n
    <3> QED BY <1>1, <2>1, <2>2, <2>3, <3>1, <3>2, PaidFor DEF n
  <2>5. CASE stand' = [stand EXCEPT ![q] = "open"]
    <3>1. /\ Cardinality(Counters') = n + 1 /\ Cardinality(Counters') \in Nat
          /\ Cardinality(Counters') <= Cardinality(Calls)
      BY <2>1, <2>5, OneCounted
    <3>2. /\ \A b \in Buckets : /\ count'[b] \in Nat /\ count'[b] <= count[b] + 1
                                /\ astray'[b] \in Nat /\ astray'[b] <= astray[b] + 1
                                /\ dies'[b] <= MaxClock + Window + Grace
      <4>1. \A b \in Buckets : /\ count[b] \in Nat /\ astray[b] \in Nat /\ dies[b] \in Nat
                               /\ dies[b] <= MaxClock + Window + Grace
        BY DEF RateShape, RateBounds
      <4>2. Number(Bucket(q)) \in Nat /\ Number(Bucket(q)) <= count[Bucket(q)] + 1
        BY <2>3, <4>1 DEF Number
      <4> QED BY <2>1, <2>3, <4>1, <4>2 DEF Count, RateShape, keyVars
    <3>3. \A b \in Buckets : /\ count[b] \in Nat /\ count[b] + outages <= n + MaxOutages
                             /\ astray[b] \in Nat /\ astray[b] + outages <= n + MaxOutages
      BY DEF RateShape, RateBounds
    <3>4. local <= n /\ local \in Nat /\ until <= MaxClock + Window
      BY DEF RateShape, RateBounds
    <3>5. local' <= n + 1 /\ until' <= MaxClock + Window
      <4> HIDE DEF n
      <4> QED BY <1>1, <2>1, <3>4
    <3>6. \A b \in Buckets : /\ count'[b] + outages' <= n + 1 + MaxOutages
                             /\ astray'[b] + outages' <= n + 1 + MaxOutages
      <4> HIDE DEF n
      <4> QED BY <1>1, <2>1, <3>2, <3>3
    <3>7. Cardinality(Counters)' = n + 1
      BY <3>1
    <3> HIDE DEF n
    <3> QED BY <2>1, <2>2, <3>2, <3>4, <3>5, <3>6, <3>7 DEF RateBounds
  <2> QED BY <2>1, <2>4, <2>5
<1>7. ASSUME NEW q \in Calls, SetExpiry(q) PROVE RateBounds'
  <2>1. /\ UNCHANGED <<local, until>>
        /\ Keep(Bucket(q)) \/ UNCHANGED keyVars
        /\ outages' \in {outages, outages - 1} /\ outages' \in 0..MaxOutages
    BY <1>1, <1>7 DEF SetExpiry, Outage, localVars
  <2>2. Counters' = Counters
    <3>1. /\ stand[q] = "expire" /\ Verdict(1) \in {"in", "out"}
          /\ stand' = stand \/ stand' = [stand EXCEPT ![q] = Verdict(1)]
      BY <1>7 DEF SetExpiry, Stands, Verdict
    <3> QED BY <3>1, SameCounted DEF Counters
  <2>3. clock + Lifetime <= MaxClock + Window + Grace
    BY <1>1 DEF Lifetime
  <2>4. count' = count /\ astray' = astray /\ \A b \in Buckets : dies'[b] <= MaxClock + Window + Grace
    BY <2>1, <2>3 DEF Keep, keyVars, RateShape, RateBounds
  <2>5. \A b \in Buckets : /\ count[b] \in Nat /\ count[b] + outages <= n + MaxOutages
                           /\ astray[b] \in Nat /\ astray[b] + outages <= n + MaxOutages
    BY DEF RateShape, RateBounds
  <2>6. \A b \in Buckets : /\ count'[b] + outages' <= n + MaxOutages
                           /\ astray'[b] + outages' <= n + MaxOutages
    <3> HIDE DEF n
    <3> QED BY <1>1, <2>1, <2>4, <2>5
  <2>7. local <= n /\ until <= MaxClock + Window
    BY DEF RateBounds
  <2>8. Cardinality(Counters)' = n
    BY <2>2
  <2> HIDE DEF n
  <2> QED BY <2>1, <2>4, <2>6, <2>7, <2>8 DEF RateBounds
<1>8. ASSUME NEW q \in Calls, Allow(q) PROVE RateBounds'
  <2>1. PICK to \in {"expire", "in", "out", "open"} : Stands(q, "idle", to)
    BY <1>8 DEF Allow, Verdict
  <2>2. Cardinality(Counters)' = n + 1
    BY <2>1, OneCounted DEF Stands
  <2>3. local' \in {1, local + 1} /\ until' \in {until, clock + Window} /\ UNCHANGED <<keyVars, outages>>
    BY <1>8 DEF Allow
  <2>4. local <= n /\ local \in Nat /\ until <= MaxClock + Window
    BY DEF RateShape, RateBounds
  <2>5. local' <= n + 1 /\ until' <= MaxClock + Window
    <3> HIDE DEF n
    <3> QED BY <1>1, <2>3, <2>4
  <2>6. \A b \in Buckets : count[b] + outages <= n + 1 + MaxOutages /\ astray[b] + outages <= n + 1 + MaxOutages
    <3>1. \A b \in Buckets : /\ count[b] \in Nat /\ count[b] + outages <= n + MaxOutages
                             /\ astray[b] \in Nat /\ astray[b] + outages <= n + MaxOutages
      BY DEF RateShape, RateBounds
    <3> HIDE DEF n
    <3> QED BY <1>1, <3>1
  <2> HIDE DEF n
  <2> QED BY <2>2, <2>3, <2>5, <2>6 DEF keyVars, RateBounds
<1> QED BY <1>2, <1>3, <1>4, <1>5, <1>6, <1>7, <1>8 DEF RateNext

\* They are about the limiter only, and nothing is counted at the start.
LEMMA RateBoundsStay ==
  ASSUME RateBounds, UNCHANGED rateVars
  PROVE  RateBounds'
  BY DEF RateBounds, Counters, rateVars, keyVars, localVars

\* No request has been counted at the start.
LEMMA RateBoundsInit ==
  ASSUME RateInit, outages \in 0..MaxOutages
  PROVE  RateBounds
<1>1. Cardinality(Counters) \in Nat /\ Cardinality(Calls) \in Nat
  BY CountersAreCalls
<1> QED BY <1>1 DEF RateInit, RateBounds, MaxCount

\* The types follow.
LEMMA RateTypes ==
  ASSUME RateShape, RateBounds
  PROVE  RateTypeOK
<1>1. /\ Cardinality(Counters) \in Nat /\ Cardinality(Calls) \in Nat
      /\ Cardinality(Counters) <= Cardinality(Calls) /\ outages \in 0..MaxOutages
  BY CountersAreCalls DEF RateBounds
<1>2. \A b \in Buckets : count[b] \in 0..MaxCount /\ astray[b] \in 0..MaxCount
  BY <1>1 DEF RateShape, RateBounds, MaxCount
<1>3. \A b \in Buckets : dies[b] \in 0..(MaxClock + Window + Grace)
  BY DEF RateShape, RateBounds
<1>4. local \in 0..Cardinality(Calls) /\ until \in 0..(MaxClock + Window)
  BY <1>1 DEF RateShape, RateBounds
<1> QED BY <1>1, <1>2, <1>3, <1>4 DEF RateShape, RateTypeOK
================================================================================
