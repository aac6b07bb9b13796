------------------------ MODULE ExperimentQueueProofs ------------------------
(***************************************************************************)
(* The sorted set implements the priority queue, whatever the runs, the    *)
(* priorities and the scale are.                                           *)
(***************************************************************************)
EXTENDS ExperimentQueue, FiniteSetTheorems, TLAPS

(* A score can be taken apart: the scale leaves room for every time.       *)
LEMMA Encoding ==
  ASSUME NEW p \in Nat, NEW x \in Nat, NEW s \in Nat, x < s
  PROVE  /\ (p * s + x) \div s = p
         /\ (p * s + x) % s = x
  OBVIOUS

(* Comparing scores is comparing priorities, then times.                   *)
LEMMA Lexicographic ==
  ASSUME NEW p \in Nat, NEW x \in Nat, NEW q \in Nat, NEW y \in Nat,
         NEW s \in Nat, x < s,
         p * s + x >= q * s + y
  PROVE  p > q \/ (p = q /\ x >= y)
  OBVIOUS

-----------------------------------------------------------------------------
(* What one operation does to the type invariant.                          *)
LEMMA TypeInit == Init => TypeOK
  BY QueueAssumption DEF Init, TypeOK, Queued, Times

(* Taking members out leaves the scores of the others.                     *)
LEMMA TypeWithout ==
  ASSUME TypeOK, NEW S, score' = Without(S), UNCHANGED <<clock, call>>,
         reply' \in Runs \cup {Nil}, Forget(S) \/ UNCHANGED history
  PROVE  TypeOK'
<1>1. /\ origin' \in [Runs -> Hosts \cup {None}]
      /\ earlier' \in [Calls -> SUBSET Runs]
  BY DEF TypeOK, Forget, history
<1>2. /\ Queued' \subseteq Runs
      /\ \A r \in Queued' : \E p \in Priorities, t \in Times : score'[r] = Score(p, t)
  BY DEF TypeOK, Without, Queued
<1> QED BY <1>1, <1>2 DEF TypeOK

LEMMA TypeStep == TypeOK /\ [Next]_vars => TypeOK'
<1> SUFFICES ASSUME TypeOK, [Next]_vars PROVE TypeOK'
  OBVIOUS
<1>0. TypeOK /\ None \notin Entry
  BY QueueAssumption
<1>1. ASSUME NEW h \in Hosts, Tick(h) PROVE TypeOK'
  <2>1. clock' \in [Hosts -> Times]
    BY <1>0, <1>1, QueueAssumption DEF TypeOK, Tick, Times
  <2>2. UNCHANGED <<score, call, reply, origin, earlier>>
    BY <1>1 DEF Tick, history
  <2> QED BY <1>0, <2>1, <2>2 DEF TypeOK, Queued
<1>2. ASSUME NEW h \in Hosts, SetBack(h) PROVE TypeOK'
  <2>1. clock' \in [Hosts -> Times]
    BY <1>0, <1>2 DEF TypeOK, SetBack
  <2>2. call' \in [Calls -> Entry \cup {None}]
    BY <1>0, <1>2 DEF TypeOK, SetBack, Entry
  <2>3. origin' \in [Runs -> Hosts \cup {None}]
    BY <1>0, <1>2 DEF TypeOK, SetBack
  <2>4. UNCHANGED <<score, reply, earlier>>
    BY <1>2 DEF SetBack
  <2> QED BY <1>0, <2>1, <2>2, <2>3, <2>4 DEF TypeOK, Queued
<1>3. ASSUME NEW c \in Calls, NEW h \in Hosts, NEW r \in Runs, NEW p \in Priorities,
             ReadClock(c, h, r, p)
      PROVE  TypeOK'
  <2>1. [run |-> r, priority |-> p, stamp |-> clock[h], host |-> h] \in Entry
    BY <1>0 DEF TypeOK, Entry
  <2>2. call' \in [Calls -> Entry \cup {None}] /\ earlier' \in [Calls -> SUBSET Runs]
    BY <1>0, <1>3, <2>1 DEF TypeOK, ReadClock
  <2>3. UNCHANGED <<clock, score, reply, origin>>
    BY <1>3 DEF ReadClock
  <2> QED BY <1>0, <2>2, <2>3 DEF TypeOK, Queued
<1>4. ASSUME NEW c \in Calls, Enqueue(c) PROVE TypeOK'
  <2> DEFINE e == call[c]
  <2>1. e \in Entry /\ Add(e) /\ reply' = Nil /\ UNCHANGED clock
    BY <1>0, <1>4 DEF TypeOK, Enqueue
  <2>2. /\ call' \in [Calls -> Entry \cup {None}]
        /\ origin' \in [Runs -> Hosts \cup {None}]
        /\ earlier' \in [Calls -> SUBSET Runs]
    BY <1>0, <1>4, <2>1 DEF TypeOK, Enqueue, Entry
  <2>3. Queued' = Queued \cup {e.run} /\ e.run \in Runs
    BY <2>1 DEF Add, Queued, Entry
  <2>4. ASSUME NEW q \in Queued'
        PROVE  \E p \in Priorities, t \in Times : score'[q] = Score(p, t)
    <3>1. CASE q = e.run
      BY <2>1, <2>3, <3>1 DEF Add, Entry
    <3>2. CASE q # e.run
      BY <1>0, <2>1, <2>3, <3>2 DEF Add, TypeOK
    <3> QED BY <3>1, <3>2
  <2> QED BY <1>0, <2>1, <2>2, <2>3, <2>4 DEF TypeOK
<1>5. ASSUME NEW c \in Calls, EnqueueFails(c) PROVE TypeOK'
  BY <1>0, <1>5 DEF EnqueueFails, TypeOK, Queued
<1>6. CASE Dequeue
  <2>1. CASE Queued = {} /\ reply' = Nil /\ UNCHANGED <<score, history>>
    BY <1>0, <1>6, <2>1 DEF Dequeue, TypeOK, Queued, history
  <2>2. ASSUME NEW r \in Queued, score' = Without({r}), reply' = r, Forget({r})
        PROVE  TypeOK'
    BY <1>0, <1>6, <2>2, TypeWithout DEF Dequeue, TypeOK
  <2> QED BY <1>6, <2>1, <2>2 DEF Dequeue
<1>7. CASE Peek
  BY <1>0, <1>7 DEF Peek, TypeOK, Queued, history
<1>8. CASE (\E r \in Runs : Remove(r)) \/ Clear
  <2>1. UNCHANGED <<clock, call>> /\ reply' = Nil
    BY <1>8 DEF Remove, Clear
  <2>2. ASSUME NEW r \in Runs, Remove(r) PROVE TypeOK'
    BY <1>0, <2>1, <2>2, TypeWithout DEF Remove
  <2>3. CASE Clear
    <3>1. score' = Without(Runs) /\ Forget(Runs)
      BY <1>0, <2>3 DEF Clear, Without, TypeOK
    <3> QED BY <1>0, <2>1, <3>1, TypeWithout
  <2> QED BY <1>8, <2>2, <2>3
<1>9. CASE UNCHANGED vars
  BY <1>0, <1>9 DEF vars, history, TypeOK, Queued
<1> QED BY <1>1, <1>2, <1>3, <1>4, <1>5, <1>6, <1>7, <1>8, <1>9 DEF Next

(* Every score in the sorted set encodes a priority and a time, whatever    *)
(* the calls of Enqueue overlap with and whichever clock they read.         *)
THEOREM TypeCorrect == Spec => []TypeOK
<1> QED BY TypeInit, TypeStep, PTL DEF Spec

-----------------------------------------------------------------------------
\* What a call is about to add.
LEMMA EntryTypes ==
  ASSUME NEW e \in Entry
  PROVE  /\ e.run \in Runs /\ e.priority \in Priorities /\ e.stamp \in Times
         /\ e.priority \in Nat /\ e.stamp \in 0..MaxTs
<1>1. e.run \in Runs /\ e.priority \in Priorities /\ e.stamp \in Times
  BY DEF Entry
<1>2. e.priority \in Nat
  BY <1>1, QueueAssumption
<1>3. \A t \in Times : t \in 0..MaxTs
  BY QueueAssumption DEF Times
<1> QED BY <1>1, <1>2, <1>3

LEMMA ScoreIsNat ==
  ASSUME NEW p \in Priorities, NEW t \in Times
  PROVE  Score(p, t) \in Nat
<1>1. p \in Nat /\ Scale \in Nat
  BY QueueAssumption
<1>2. MaxTs - t \in Nat
  BY QueueAssumption DEF Times
<1>3. p * Scale \in Nat
  BY <1>1
<1> QED BY <1>2, <1>3 DEF Score

(* What the scores stand for.                                              *)
LEMMA Decoding ==
  ASSUME NEW p \in Nat, NEW t \in 0..MaxTs
  PROVE  /\ PriorityOf(Score(p, t)) = p
         /\ MaxTs - (Score(p, t) % Scale) = t
<1>1. MaxTs - t \in Nat /\ MaxTs - t < Scale
  BY QueueAssumption
<1>2. Score(p, t) \div Scale = p /\ Score(p, t) % Scale = MaxTs - t
  BY <1>1, Encoding, QueueAssumption DEF Score
<1> QED BY <1>2, QueueAssumption DEF PriorityOf

LEMMA DecodedEntry ==
  ASSUME TypeOK, NEW r \in Queued
  PROVE  \E p \in Priorities, t \in Times :
           /\ score[r] = Score(p, t)
           /\ Decoded[r] = [priority |-> p, arrival |-> t]
<1>1. PICK p \in Priorities, t \in Times : score[r] = Score(p, t)
  BY DEF TypeOK
<1>2. p \in Nat /\ t \in 0..MaxTs
  BY QueueAssumption DEF Times
<1>3. PriorityOf(score[r]) = p /\ MaxTs - (score[r] % Scale) = t
  BY <1>1, <1>2, Decoding
<1> QED BY <1>1, <1>3 DEF Decoded

(* The run that Redis takes is one that no other goes before.              *)
LEMMA HeadIsFirst ==
  ASSUME TypeOK, NEW r \in Queued, Head(r), NEW q \in Queued
  PROVE  ~Promise!Before(Decoded[q], Decoded[r])
<1>1. PICK p \in Priorities, t \in Times :
        score[r] = Score(p, t) /\ Decoded[r] = [priority |-> p, arrival |-> t]
  BY DecodedEntry
<1>2. PICK pp \in Priorities, tt \in Times :
        score[q] = Score(pp, tt) /\ Decoded[q] = [priority |-> pp, arrival |-> tt]
  BY DecodedEntry
<1>3. /\ p \in Nat /\ pp \in Nat /\ t \in Nat /\ tt \in Nat
      /\ MaxTs - t \in Nat /\ MaxTs - t < Scale
      /\ MaxTs - tt \in Nat /\ MaxTs - tt < Scale
      /\ Scale \in Nat
  BY QueueAssumption DEF Times
<1>4. score[r] \in Nat /\ score[q] \in Nat
  BY <1>1, <1>2, <1>3 DEF Score
<1>5. score[r] >= score[q]
  BY <1>4 DEF Head, Ahead
<1>6. p > pp \/ (p = pp /\ MaxTs - t >= MaxTs - tt)
  BY <1>1, <1>2, <1>3, <1>5, Lexicographic DEF Score
<1>7. ~(pp > p) /\ ~(pp = p /\ tt < t)
  BY <1>3, <1>6, QueueAssumption
<1> QED BY <1>1, <1>2, <1>7 DEF Promise!Before

(* It is therefore one that the abstract queue may return.                 *)
LEMMA HeadReturned ==
  ASSUME TypeOK, NEW r \in Queued, Head(r), reply' = r
  PROVE  r \in Runs /\ Promise!Returns(r)
<1>1. Promise!Queued = Queued
  BY DEF Promise!Queued, Decoded, Queued
<1>2. \A q \in Queued : ~Promise!Before(Decoded[q], Decoded[r])
  BY HeadIsFirst
<1>3. Promise!First(r)
  BY <1>1, <1>2 DEF Promise!First
<1> QED BY <1>3 DEF Promise!Returns, TypeOK

-----------------------------------------------------------------------------
(* Removing members removes their entries.                                 *)
LEMMA WithoutDecoded ==
  ASSUME NEW S, score' = Without(S)
  PROVE  Decoded' = Promise!Without(S) /\ Promise!Queued = Queued
BY DEF Without, Promise!Without, Decoded, Promise!Queued, Queued

LEMMA RefinementStep ==
  ASSUME TypeOK, [Next]_vars
  PROVE  [Promise!Next]_(Promise!vars)
<1>0. Promise!Queued = Queued
  BY DEF Promise!Queued, Decoded, Queued
<1>1. ASSUME UNCHANGED <<score, reply>> PROVE UNCHANGED Promise!vars
  BY <1>1 DEF Promise!vars, Decoded, Queued
<1>2. ASSUME NEW c \in Calls, Enqueue(c)
      PROVE  \E r \in Runs, p \in Priorities, t \in Times : Promise!Enqueue(r, p, t)
  <2> DEFINE e == call[c]
  <2>1. e \in Entry /\ Add(e) /\ reply' = Nil
    BY <1>2, QueueAssumption DEF TypeOK, Enqueue
  <2>2. /\ e.run \in Runs /\ e.priority \in Priorities /\ e.stamp \in Times
        /\ e.priority \in Nat /\ e.stamp \in 0..MaxTs
    BY <2>1, EntryTypes
  <2> HIDE DEF e
  <2>3. /\ PriorityOf(Score(e.priority, e.stamp)) = e.priority
        /\ MaxTs - (Score(e.priority, e.stamp) % Scale) = e.stamp
    BY <2>2, Decoding
  <2>4. Decoded' = [q \in Queued \cup {e.run} |->
                      IF q = e.run THEN [priority |-> e.priority, arrival |-> e.stamp]
                                   ELSE Decoded[q]]
    BY <2>1, <2>3 DEF Add, Decoded, Queued, PriorityOf
  <2> QED BY <1>0, <2>1, <2>2, <2>4 DEF Promise!Enqueue
<1>3. CASE Dequeue
  <2>1. ASSUME NEW r \in Queued, Head(r), score' = Without({r}), reply' = r
        PROVE  Promise!Dequeue
    <3>1. r \in Runs /\ Promise!Returns(r)
      BY <1>0, <2>1, HeadReturned
    <3>2. Decoded' = Promise!Without({r})
      BY <2>1, WithoutDecoded
    <3> QED BY <1>3, <3>1, <3>2 DEF Dequeue, Promise!Dequeue
  <2>2. CASE Queued = {} /\ reply' = Nil /\ UNCHANGED score
    <3>1. Promise!Returns(Nil)
      BY <1>0, <2>2 DEF Promise!Returns
    <3>2. Decoded' = Promise!Without({Nil})
      BY <2>2 DEF Decoded, Promise!Without, Promise!Queued, Queued
    <3> QED BY <1>3, <3>1, <3>2 DEF Dequeue, Promise!Dequeue, Promise!Next
  <2> QED BY <1>3, <2>1, <2>2 DEF Dequeue, Promise!Next
<1>4. ASSUME NEW r \in Runs, Remove(r) PROVE Promise!Remove(r)
  BY <1>4, WithoutDecoded DEF Remove, Promise!Remove
<1>5. CASE Clear
  <2>1. Decoded' = Promise!Without(Queued)
    BY <1>5, WithoutDecoded DEF Clear
  <2> QED BY <1>0, <1>5, <2>1 DEF Clear, Promise!Clear, Promise!Next
<1>6. CASE Peek
  <2>1. ASSUME NEW r \in Queued, Head(r), reply' = r PROVE Promise!Peek
    <3>1. r \in Runs /\ Promise!Returns(r)
      BY <1>0, <2>1, HeadReturned
    <3> QED BY <1>6, <3>1 DEF Peek, Promise!Peek, Decoded, Queued
  <2>2. CASE Queued = {} /\ reply' = Nil
    <3>1. Promise!Returns(Nil)
      BY <1>0, <2>2 DEF Promise!Returns
    <3> QED BY <1>6, <3>1 DEF Peek, Promise!Peek, Promise!Next, Decoded, Queued
  <2> QED BY <1>6, <2>1, <2>2 DEF Peek, Promise!Next
<1>7. ASSUME NEW c \in Calls, EnqueueFails(c) PROVE Promise!Fail
  BY <1>7 DEF EnqueueFails, Promise!Fail, Decoded, Queued
<1>8. CASE \E h \in Hosts : Tick(h) \/ SetBack(h)
  BY <1>1, <1>8 DEF Tick, SetBack
<1>9. CASE \E c \in Calls, h \in Hosts, r \in Runs, p \in Priorities :
             ReadClock(c, h, r, p)
  BY <1>1, <1>9 DEF ReadClock
<1>10. CASE UNCHANGED vars
  BY <1>1, <1>10 DEF vars
<1> QED BY <1>2, <1>3, <1>4, <1>5, <1>6, <1>7, <1>8, <1>9, <1>10
        DEF Next, Promise!Next

LEMMA RefinementInit == Init => Promise!Init
<1> SUFFICES ASSUME Init PROVE Promise!Init
  OBVIOUS
<1>1. Queued = {}
  BY DEF Init, Queued
<1>2. reply = Nil
  BY DEF Init
<1> QED BY <1>1, <1>2 DEF Promise!Init, Decoded

(* The sorted set is a priority queue that is first in, first out within a  *)
(* priority by the times its callers read, for any scale that exceeds them. *)
THEOREM SortedSetIsPriorityQueue == Spec => IsPriorityQueue
<1> QED BY TypeCorrect, RefinementInit, RefinementStep, PTL
        DEF Spec, IsPriorityQueue, Promise!Spec

-----------------------------------------------------------------------------
(* The members ahead of a run: Position counts them, so there must be       *)
(* finitely many.                                                           *)
Leaders(r) == {q \in Queued : Ahead(q, r)}

FiniteQueue == IsFiniteSet(Queued)

LEMMA FiniteInit == Init => FiniteQueue
  BY FS_EmptySet DEF Init, FiniteQueue, Queued

LEMMA FiniteStep == FiniteQueue /\ [Next]_vars => FiniteQueue'
<1> SUFFICES ASSUME FiniteQueue, [Next]_vars PROVE FiniteQueue'
  OBVIOUS
<1>1. ASSUME NEW c \in Calls, Enqueue(c) PROVE FiniteQueue'
  <2>1. Queued' = Queued \cup {call[c].run}
    BY <1>1 DEF Enqueue, Add, Queued
  <2> QED BY <2>1, FS_AddElement DEF FiniteQueue
<1>2. ASSUME NEW S, score' = Without(S) PROVE FiniteQueue'
  <2>1. Queued' = Queued \ S
    BY <1>2 DEF Without, Queued
  <2>2. Queued' \in SUBSET Queued
    BY <2>1
  <2> QED BY <2>2, FS_Subset DEF FiniteQueue
<1>3. CASE UNCHANGED score
  BY <1>3 DEF FiniteQueue, Queued
<1> QED BY <1>1, <1>2, <1>3 DEF Next, Tick, SetBack, ReadClock, EnqueueFails, Dequeue,
                                Peek, Remove, Clear, vars

(* A run falls back only if somebody is ahead of it who was not.            *)
LEMMA FallsBehind ==
  ASSUME FiniteQueue, NEW r \in Runs, FallsBack(r)
  PROVE  ~(Leaders(r)' \subseteq Leaders(r))
<1>1. SUFFICES ASSUME Leaders(r)' \in SUBSET Leaders(r) PROVE FALSE
  OBVIOUS
<1>2. IsFiniteSet(Leaders(r))
  <2>1. Leaders(r) \in SUBSET Queued
    BY DEF Leaders
  <2> QED BY <2>1, FS_Subset DEF FiniteQueue
<1>3. /\ Cardinality(Leaders(r)') <= Cardinality(Leaders(r))
      /\ Cardinality(Leaders(r)') \in Nat /\ Cardinality(Leaders(r)) \in Nat
  BY <1>1, <1>2, FS_Subset, FS_CardinalityType
<1>4. Position(r)' = Cardinality(Leaders(r)') /\ Position(r) = Cardinality(Leaders(r))
  BY DEF Position, Leaders
<1> QED BY <1>3, <1>4 DEF FallsBack

(* Leaving the queue moves nobody back.                                     *)
LEMMA NobodyFallsBackForLess ==
  ASSUME FiniteQueue, NEW S, score' = Without(S), NEW r \in Runs
  PROVE  ~FallsBack(r)
<1>1. Queued' = Queued \ S /\ \A q \in Queued' : score'[q] = score[q]
  BY DEF Without, Queued
<1>2. r \in Queued' => Leaders(r)' \subseteq Leaders(r)
  BY <1>1 DEF Leaders, Ahead
<1> QED BY <1>2, FallsBehind DEF FallsBack

\* The time a member's score carries.
TimeOf(r) == MaxTs - (score[r] % Scale)

\* A time read from a clock that has not been set back since has passed, and
\* what was in its place before a call read the clock carries no later time.
StampInv ==
  /\ \A r \in Queued : origin[r] \in Hosts => TimeOf(r) <= clock[origin[r]]
  /\ \A c \in Calls : call[c] # None =>
       /\ call[c].host \in Hosts => call[c].stamp <= clock[call[c].host]
       /\ \A r \in earlier[c] \cap Queued : TimeOf(r) <= call[c].stamp

LEMMA StampStep == TypeOK /\ StampInv /\ [Next]_vars => StampInv'
<1> SUFFICES ASSUME TypeOK, StampInv, [Next]_vars PROVE StampInv'
  OBVIOUS
<1>0. /\ clock \in [Hosts -> Nat]
      /\ call \in [Calls -> Entry \cup {None}]
      /\ origin \in [Runs -> Hosts \cup {None}]
      /\ earlier \in [Calls -> SUBSET Runs]
      /\ Queued \subseteq Runs
      /\ None \notin Hosts /\ None \notin Entry
      /\ \A r \in Queued : TimeOf(r) \in Nat
  <2>1. \A r \in Queued : TimeOf(r) \in Nat
    <3>1. ASSUME NEW r \in Queued PROVE TimeOf(r) \in Nat
      <4>1. PICK p \in Priorities, t \in Times :
              Decoded[r] = [priority |-> p, arrival |-> t]
        BY <3>1, DecodedEntry
      <4>2. TimeOf(r) = t
        BY <3>1, <4>1 DEF TimeOf, Decoded
      <4> QED BY <4>2 DEF Times
    <3> QED BY <3>1
  <2> QED BY <2>1, QueueAssumption DEF TypeOK, Times
<1>1. ASSUME NEW h \in Hosts, Tick(h) PROVE StampInv'
  <2>1. /\ \A g \in Hosts : clock[g] <= clock'[g] /\ clock'[g] \in Nat
        /\ UNCHANGED <<score, call, origin, earlier>>
    BY <1>0, <1>1 DEF Tick, history
  <2>2. \A c \in Calls : call[c] # None => call[c].stamp \in Nat
    BY <1>0 DEF Entry, Times
  <2>3. \A r \in Queued : origin[r] \in Hosts => TimeOf(r) <= clock'[origin[r]]
    BY <1>0, <2>1 DEF StampInv
  <2>4. \A c \in Calls : call[c] # None /\ call[c].host \in Hosts =>
          call[c].stamp <= clock'[call[c].host]
    BY <1>0, <2>1, <2>2 DEF StampInv
  <2> QED BY <2>1, <2>3, <2>4 DEF StampInv, TimeOf, Queued
<1>2. ASSUME NEW h \in Hosts, SetBack(h) PROVE StampInv'
  <2>1. /\ \A g \in Hosts \ {h} : clock'[g] = clock[g]
        /\ UNCHANGED <<score, earlier>>
    BY <1>0, <1>2 DEF SetBack
  <2>2. \A r \in Runs : origin'[r] \in Hosts => origin'[r] = origin[r] /\ origin[r] # h
    BY <1>0, <1>2 DEF SetBack
  <2>3. ASSUME NEW c \in Calls, call'[c] # None
        PROVE  /\ call[c] # None /\ call'[c].stamp = call[c].stamp
               /\ call'[c].host \in Hosts =>
                    call'[c].host = call[c].host /\ call[c].host # h
    BY <1>0, <1>2, <2>3 DEF SetBack, Entry
  <2> QED BY <1>0, <2>1, <2>2, <2>3 DEF StampInv, TimeOf, Queued
<1>3. ASSUME NEW c \in Calls, NEW h \in Hosts, NEW r \in Runs, NEW p \in Priorities,
             ReadClock(c, h, r, p)
      PROVE  StampInv'
  <2>1. /\ call'[c].stamp = clock[h] /\ call'[c].host = h
        /\ earlier'[c] = {q \in Queued : origin[q] = h}
        /\ \A d \in Calls \ {c} : call'[d] = call[d] /\ earlier'[d] = earlier[d]
        /\ UNCHANGED <<clock, score, origin>>
    BY <1>0, <1>3 DEF ReadClock
  <2>2. \A q \in earlier'[c] : TimeOf(q) <= call'[c].stamp
    BY <2>1 DEF StampInv
  <2>3. clock[h] \in Nat
    BY <1>0
  <2> QED BY <2>1, <2>2, <2>3 DEF StampInv, TimeOf, Queued
<1>4. ASSUME NEW c \in Calls, Enqueue(c) PROVE StampInv'
  <2>0. PICK e \in Entry : e = call[c]
    BY <1>0, <1>4 DEF Enqueue
  <2>1. e # None /\ Add(e) /\ UNCHANGED clock
    BY <1>0, <1>4, <2>0 DEF Enqueue
  <2>2. /\ e.run \in Runs /\ e.priority \in Nat /\ e.stamp \in 0..MaxTs
    BY EntryTypes
  <2>3. MaxTs - (Score(e.priority, e.stamp) % Scale) = e.stamp
    BY <2>2, Decoding
  <2>4. /\ Queued' = Queued \cup {e.run}
        /\ TimeOf(e.run)' = e.stamp
        /\ \A q \in Queued \ {e.run} : TimeOf(q)' = TimeOf(q)
    <3>1. /\ Queued' = Queued \cup {e.run}
          /\ score'[e.run] = Score(e.priority, e.stamp)
          /\ \A q \in Queued \ {e.run} : score'[q] = score[q]
      BY <2>1 DEF Add, Queued
    <3> QED BY <2>3, <3>1 DEF TimeOf
  <2>5. /\ origin' = [origin EXCEPT ![e.run] = e.host]
        /\ \A d \in Calls : call'[d] # None =>
             call'[d] = call[d] /\ earlier'[d] = earlier[d] \ {e.run}
    BY <1>0, <1>4, <2>0 DEF Enqueue
  <2>6. \A q \in Queued' : origin'[q] \in Hosts => TimeOf(q)' <= clock[origin'[q]]
    <3>1. ASSUME NEW q \in Queued', origin'[q] \in Hosts
          PROVE  TimeOf(q)' <= clock[origin'[q]]
      <4>1. CASE q = e.run
        BY <1>0, <2>0, <2>1, <2>2, <2>4, <2>5, <3>1, <4>1 DEF StampInv
      <4>2. CASE q # e.run
        <5>1. q \in Queued /\ origin'[q] = origin[q] /\ TimeOf(q)' = TimeOf(q)
          BY <1>0, <2>4, <2>5, <3>1, <4>2
        <5> QED BY <3>1, <5>1 DEF StampInv
      <4> QED BY <4>1, <4>2
    <3> QED BY <3>1
  <2>7. ASSUME NEW d \in Calls, call'[d] # None, NEW q \in earlier'[d], q \in Queued'
        PROVE  TimeOf(q)' <= call'[d].stamp
    <3>1. call'[d] = call[d] /\ q \in earlier[d] /\ q # e.run
      BY <2>5, <2>7
    <3>2. q \in Queued /\ TimeOf(q)' = TimeOf(q)
      BY <2>4, <2>7, <3>1
    <3> QED BY <2>7, <3>1, <3>2 DEF StampInv
  <2> QED BY <2>1, <2>5, <2>6, <2>7 DEF StampInv
<1>5. ASSUME NEW c \in Calls, EnqueueFails(c) PROVE StampInv'
  <2>1. /\ \A d \in Calls : call'[d] # None =>
             call'[d] = call[d] /\ earlier'[d] = earlier[d]
        /\ UNCHANGED <<clock, score, origin>>
    BY <1>0, <1>5 DEF EnqueueFails
  <2> QED BY <2>1 DEF StampInv, TimeOf, Queued
<1>6. ASSUME NEW S, score' = Without(S), Forget(S) \/ UNCHANGED history,
             UNCHANGED <<clock, call>>
      PROVE  StampInv'
  <2>1. /\ Queued' = Queued \ S
        /\ \A q \in Queued' : TimeOf(q)' = TimeOf(q)
    BY <1>6 DEF Without, TimeOf, Queued
  <2>2. /\ \A q \in Runs : origin'[q] \in Hosts => origin'[q] = origin[q]
        /\ \A d \in Calls : earlier'[d] \subseteq earlier[d]
    BY <1>0, <1>6 DEF Forget, history
  <2> QED BY <1>0, <1>6, <2>1, <2>2 DEF StampInv
<1>7. CASE UNCHANGED <<clock, score, call, origin, earlier>>
  BY <1>7 DEF StampInv, TimeOf, Queued
<1>8. CASE Dequeue
  BY <1>6, <1>7, <1>8 DEF Dequeue, history
<1>9. CASE Peek \/ UNCHANGED vars
  BY <1>7, <1>9 DEF Peek, vars, history
<1>10. ASSUME NEW r \in Runs, Remove(r) PROVE StampInv'
  BY <1>6, <1>10 DEF Remove
<1>11. CASE Clear
  <2>1. score' = Without(Runs) /\ Forget(Runs) /\ UNCHANGED <<clock, call>>
    BY <1>0, <1>11 DEF Clear, Without
  <2> QED BY <1>6, <2>1
<1> QED BY <1>1, <1>2, <1>3, <1>4, <1>5, <1>8, <1>9, <1>10, <1>11 DEF Next

(* A run that carries a later time gets ahead only by its priority, or      *)
(* because its time is the same.                                            *)
LEMMA LaterRun ==
  ASSUME TypeOK, NEW r \in Queued, NEW p \in Priorities, NEW u \in Times,
         TimeOf(r) <= u, Score(p, u) >= score[r]
  PROVE  \/ PriorityOf(Score(p, u)) > PriorityOf(score[r])
         \/ Score(p, u) = score[r]
<1>1. PICK pr \in Priorities, t \in Times : score[r] = Score(pr, t)
  BY DEF TypeOK
<1>2. /\ p \in Nat /\ pr \in Nat /\ t \in 0..MaxTs /\ u \in 0..MaxTs
      /\ MaxTs - u \in Nat /\ MaxTs - u < Scale
      /\ MaxTs - t \in Nat /\ MaxTs - t < Scale
      /\ Scale \in Nat
  BY QueueAssumption DEF Times
<1>3. t <= u
  BY <1>1, <1>2, Decoding DEF TimeOf
<1>4. p > pr \/ (p = pr /\ MaxTs - u >= MaxTs - t)
  BY <1>1, <1>2, Lexicographic DEF Score
<1>5. PriorityOf(Score(p, u)) = p /\ PriorityOf(score[r]) = pr
  BY <1>1, <1>2, Decoding
<1>6. p = pr /\ MaxTs - u >= MaxTs - t => u = t
  BY <1>2, <1>3, QueueAssumption
<1> QED BY <1>1, <1>4, <1>5, <1>6

(* An arrival puts only the arriving run ahead of another.                  *)
LEMMA ArrivalOvertakes ==
  ASSUME TypeOK, FiniteQueue, StampInv, NEW c \in Calls, Enqueue(c),
         NEW r \in Runs, FallsBack(r)
  PROVE  call[c] # None /\ MayOvertake(c, r)
<1> DEFINE e == call[c]
           q == e.run
<1>0. /\ e # None /\ Add(e)
      /\ e.run \in Runs /\ e.priority \in Priorities /\ e.stamp \in Times
  BY QueueAssumption DEF Enqueue, TypeOK, Entry
<1>1. /\ Queued' = Queued \cup {q}
      /\ score'[q] = Score(e.priority, e.stamp)
      /\ \A x \in Queued : x # q => score'[x] = score[x]
  BY <1>0 DEF Add, Queued
<1>2. q \in Queued => score'[q] # score[q]
  <2>1. SUFFICES ASSUME q \in Queued, score[q] = score'[q] PROVE FALSE
    OBVIOUS
  <2>2. Queued' = Queued /\ \A x \in Queued : score'[x] = score[x]
    BY <1>1, <2>1
  <2>3. Leaders(r)' = Leaders(r)
    BY <2>2 DEF Leaders, Ahead, FallsBack
  <2> QED BY <2>3, FallsBehind
<1>3. ASSUME q # r, r \in earlier[c]
      PROVE  PriorityOf(score'[q]) > PriorityOf(score[r]) \/ score'[q] = score[r]
  <2>1. r \in Queued /\ r \in Queued' /\ score'[r] = score[r]
    BY <1>1, <1>3 DEF FallsBack
  <2>2. PICK x \in Leaders(r)' : x \notin Leaders(r)
    BY FallsBehind
  <2>3. x = q
    BY <1>1, <2>1, <2>2 DEF Leaders, Ahead
  <2>4. score'[q] > score[r] \/ score'[q] = score[r]
    BY <2>1, <2>2, <2>3 DEF Leaders, Ahead
  <2>5. Score(e.priority, e.stamp) \in Nat /\ score[r] \in Nat
    <3>1. PICK pr \in Priorities, t \in Times : score[r] = Score(pr, t)
      BY <2>1 DEF TypeOK
    <3> QED BY <1>0, <3>1, ScoreIsNat
  <2>6. TimeOf(r) <= e.stamp
    BY <1>0, <1>3, <2>1 DEF StampInv
  <2> HIDE DEF e
  <2> QED BY <1>0, <1>1, <2>1, <2>4, <2>5, <2>6, LaterRun
<1> QED BY <1>0, <1>1, <1>2, <1>3 DEF MayOvertake, Queued

LEMMA NoOvertakingStep ==
  ASSUME TypeOK, FiniteQueue, StampInv, [Next]_vars, NEW r \in Runs, FallsBack(r)
  PROVE  \E c \in Calls : call[c] # None /\ MayOvertake(c, r)
<1>1. CASE UNCHANGED score
  <2>1. Leaders(r)' = Leaders(r)
    BY <1>1 DEF Leaders, Ahead, Queued
  <2> QED BY <2>1, FallsBehind
<1>2. ASSUME NEW c \in Calls, Enqueue(c)
      PROVE  \E d \in Calls : call[d] # None /\ MayOvertake(d, r)
  BY <1>2, ArrivalOvertakes
<1>3. ASSUME NEW S PROVE score' # Without(S)
  BY <1>3, NobodyFallsBackForLess
<1> QED BY <1>1, <1>2, <1>3 DEF Next, Tick, SetBack, ReadClock, EnqueueFails, Dequeue,
                                Peek, Remove, Clear, vars

(* Nobody jumps the queue: a run falls back when it is enqueued again, or   *)
(* behind one of higher priority or of the same millisecond; otherwise only *)
(* behind one whose caller read another clock, or read it before this run   *)
(* was in its place.  However many callers and replicas there are, of two   *)
(* calls through one replica the one that begins last does not overtake.    *)
THEOREM NobodyJumpsTheQueue == Spec => NoOvertaking
<1>1. TypeOK /\ FiniteQueue /\ StampInv /\ [Next]_vars
        => [\A r \in Runs : FallsBack(r) =>
              \E c \in Calls : call[c] # None /\ MayOvertake(c, r)]_vars
  BY NoOvertakingStep
<1>2. Init => StampInv
  BY DEF Init, StampInv, Queued
<1> QED BY <1>1, <1>2, TypeCorrect, FiniteInit, FiniteStep, StampStep, PTL
        DEF Spec, NoOvertaking
=============================================================================
