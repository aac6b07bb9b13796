----------------------------- MODULE ServicesProofs -----------------------------
(***************************************************************************)
(* Theorems of Services for any number of runs, executions, alerts and     *)
(* requests: what the notification service, the progress of an execution,  *)
(* tokens, the limiter and the validation of alerts promise, and the types *)
(* of them all.                                                            *)
(***************************************************************************)
EXTENDS Services, RateLimitProofs

-----------------------------------------------------------------------------
(* Notifications.                                                          *)

\* A channel before the one a sender is at has its result, the others none.
NotesInv ==
  /\ enabled \in {"off", "sync", "async"}
  /\ configured \subseteq Channels
  /\ channel \in [Senders -> 0..Done]
  /\ tried \in [Senders -> [Channels -> Nat]]
  /\ sent \in [Senders -> [Channels -> Nat]]
  /\ outcome \in [Senders -> [Channels -> {"none", "success", "failure"}]]
  /\ \A r \in Senders, c \in Channels :
       /\ sent[r][c] <= tried[r][c]
       /\ outcome[r][c] = "success" => sent[r][c] > 0
       /\ outcome[r][c] = "failure" => tried[r][c] = RetryCount
       /\ outcome[r][c] # "none" => c < channel[r]
       /\ c \in configured /\ c < channel[r] /\ enabled # "off" => outcome[r][c] # "none"

\* After goes to the next channel that is configured, and skips none.
LEMMA AfterSkipsNone ==
  ASSUME configured \subseteq Channels, NEW c \in 0..3
  PROVE  /\ After(c) \in (c + 1)..Done
         /\ \A d \in configured : d > c => d >= After(c)
<1> DEFINE later == {d \in configured : d > c}
<1>1. CASE later = {}
  BY <1>1 DEF After, Done, Channels
<1>2. CASE later # {}
  <2>1. \E d \in later : \A e \in later : d <= e
    <3>1. \A d \in later : d = 1 \/ d = 2 \/ d = 3
      BY DEF Channels
    <3>2. CASE 1 \in later
      BY <3>1, <3>2
    <3>3. CASE 1 \notin later /\ 2 \in later
      BY <3>1, <3>3
    <3>4. CASE 1 \notin later /\ 2 \notin later
      BY <1>2, <3>1, <3>4
    <3> QED BY <3>2, <3>3, <3>4
  <2>2. After(c) = CHOOSE d \in later : \A e \in later : d <= e
    BY <1>2 DEF After
  <2>3. After(c) \in later /\ \A e \in later : After(c) <= e
    BY <2>1, <2>2
  <2>4. After(c) \in 1..3 /\ After(c) > c
    BY <2>3 DEF Channels
  <2>5. \A d \in configured : d > c => d >= After(c)
    BY <2>3, <2>4 DEF Channels
  <2> QED BY <2>4, <2>5 DEF Done
<1> QED BY <1>1, <1>2

\* The first channel is the first that is configured.
LEMMA StartSendingKept ==
  ASSUME NotesInv, NEW r \in Senders, StartSending(r)
  PROVE  NotesInv'
<1>1. /\ channel[r] = 0
      /\ channel' = [channel EXCEPT ![r] = IF enabled = "off" THEN Done ELSE After(0)]
      /\ UNCHANGED <<enabled, configured, tried, sent, outcome>>
  BY DEF StartSending
<1>2. After(0) \in 1..Done /\ \A d \in configured : d > 0 => d >= After(0)
  BY AfterSkipsNone DEF NotesInv
<1> QED BY <1>1, <1>2 DEF NotesInv, Channels, Done

\* A channel that is left has its result, and the next has none.
LEMMA AttemptKept ==
  ASSUME NotesInv, NEW r \in Senders, Attempt(r)
  PROVE  NotesInv'
<1> DEFINE c == channel[r]
<1>1. /\ c \in Channels
      /\ tried' = [tried EXCEPT ![r][c] = @ + 1]
      /\ sent' = sent \/ sent' = [sent EXCEPT ![r][c] = @ + 1]
      /\ UNCHANGED <<enabled, configured>>
  BY DEF Attempt, Sending
<1>2. After(c) \in (c + 1)..Done /\ \A d \in configured : d > c => d >= After(c)
  BY <1>1, AfterSkipsNone DEF NotesInv, Channels
<1>3. \/ UNCHANGED <<outcome, channel>>
      \/ \E o \in {"success", "failure"} :
           /\ outcome' = [outcome EXCEPT ![r][c] = o]
           /\ channel' = [channel EXCEPT ![r] = After(c)]
           /\ o = "success" => sent' = [sent EXCEPT ![r][c] = @ + 1]
           /\ o = "failure" => tried'[r][c] = RetryCount
  BY DEF Attempt, Ends, TryAgain
<1>4. /\ tried' \in [Senders -> [Channels -> Nat]]
      /\ sent' \in [Senders -> [Channels -> Nat]]
      /\ \A q \in Senders, d \in Channels :
           /\ sent'[q][d] <= tried'[q][d]
           /\ sent'[q][d] >= sent[q][d]
           /\ (q # r \/ d # c) => tried'[q][d] = tried[q][d]
  <2>1. tried[r] \in [Channels -> Nat] /\ sent[r] \in [Channels -> Nat]
    BY DEF NotesInv
  <2>2. /\ [tried[r] EXCEPT ![c] = @ + 1] \in [Channels -> Nat]
        /\ [sent[r] EXCEPT ![c] = @ + 1] \in [Channels -> Nat]
    BY <1>1, <2>1
  <2>3. /\ tried' \in [Senders -> [Channels -> Nat]]
        /\ sent' \in [Senders -> [Channels -> Nat]]
    <3>1. tried' \in [Senders -> [Channels -> Nat]]
      BY <1>1, <2>2 DEF NotesInv
    <3>2. sent' \in [Senders -> [Channels -> Nat]]
      BY <1>1, <2>2 DEF NotesInv
    <3> QED BY <3>1, <3>2
  <2>4. ASSUME NEW q \in Senders, NEW d \in Channels
        PROVE  /\ tried'[q][d] = IF q = r /\ d = c THEN tried[q][d] + 1 ELSE tried[q][d]
               /\ \/ sent'[q][d] = sent[q][d]
                  \/ q = r /\ d = c /\ sent'[q][d] = sent[q][d] + 1
               /\ tried[q][d] \in Nat /\ sent[q][d] \in Nat /\ sent[q][d] <= tried[q][d]
    BY <1>1, <2>1, <2>2 DEF NotesInv
  <2> QED BY <2>3, <2>4
<1>5. CASE UNCHANGED <<outcome, channel>>
  BY <1>1, <1>4, <1>5 DEF NotesInv
<1>6. ASSUME NEW o \in {"success", "failure"},
             outcome' = [outcome EXCEPT ![r][c] = o],
             channel' = [channel EXCEPT ![r] = After(c)],
             o = "success" => sent' = [sent EXCEPT ![r][c] = @ + 1],
             o = "failure" => tried'[r][c] = RetryCount
      PROVE  NotesInv'
  <2>0. outcome[r] \in [Channels -> {"none", "success", "failure"}] /\ After(c) \in 0..Done
    BY <1>1, <1>2 DEF NotesInv, Channels, Done
  <2>1. /\ outcome' \in [Senders -> [Channels -> {"none", "success", "failure"}]]
        /\ channel' \in [Senders -> 0..Done]
    BY <1>1, <1>6, <2>0 DEF NotesInv
  <2>2. /\ outcome'[r][c] = o
        /\ \A q \in Senders, d \in Channels : (q # r \/ d # c) => outcome'[q][d] = outcome[q][d]
        /\ \A q \in Senders : channel'[q] = IF q = r THEN After(c) ELSE channel[q]
        /\ o = "success" => sent'[r][c] > 0
    BY <1>1, <1>6 DEF NotesInv
  <2>3. ASSUME NEW q \in Senders, NEW d \in Channels
        PROVE  /\ outcome'[q][d] = "success" => sent'[q][d] > 0
               /\ outcome'[q][d] = "failure" => tried'[q][d] = RetryCount
    BY <1>4, <1>6, <2>2 DEF NotesInv
  <2>4. ASSUME NEW q \in Senders, NEW d \in Channels
        PROVE  /\ outcome'[q][d] # "none" => d < channel'[q]
               /\ d \in configured /\ d < channel'[q] /\ enabled # "off"
                    => outcome'[q][d] # "none"
    <3> USE DEF Channels, Done
    <3>1. CASE q # r
      BY <1>1, <2>2, <3>1 DEF NotesInv
    <3>2. CASE q = r /\ d = c
      BY <1>1, <1>2, <1>6, <2>2, <3>2
    <3>3. CASE q = r /\ d # c
      <4>1. outcome'[q][d] = outcome[q][d] /\ channel'[q] = After(c) /\ c = channel[q]
        BY <2>2, <3>3
      <4>2. d \in configured /\ d < After(c) => d < c
        BY <1>1, <1>2, <3>3
      <4>3. d < c => d < After(c)
        BY <1>1, <1>2
      <4> QED BY <1>1, <4>1, <4>2, <4>3 DEF NotesInv
    <3> QED BY <3>1, <3>2, <3>3
  <2> QED BY <1>1, <1>4, <2>1, <2>3, <2>4 DEF NotesInv
<1> QED BY <1>3, <1>5, <1>6

\* A sender uses up the attempts of a channel before it goes on to the next.
NotesBounds ==
  /\ \A r \in Senders, c \in Channels :
       /\ tried[r][c] <= RetryCount
       /\ c > channel[r] => tried[r][c] = 0
       /\ c = channel[r] => tried[r][c] < RetryCount
  /\ expired \subseteq Senders
  /\ noteFaults \in 0..MaxNoteFaults

\* The first channel has had no attempt.
LEMMA StartSendingBounded ==
  ASSUME NotesInv, NotesBounds, NEW r \in Senders, StartSending(r)
  PROVE  NotesBounds'
<1>1. PICK first \in 1..Done : channel' = [channel EXCEPT ![r] = first] /\ channel[r] = 0
  <2> DEFINE first == IF enabled = "off" THEN Done ELSE After(0)
  <2>1. first \in 1..Done
    BY AfterSkipsNone DEF NotesInv, Done
  <2>2. channel' = [channel EXCEPT ![r] = first] /\ channel[r] = 0
    BY DEF StartSending
  <2> HIDE DEF first
  <2> QED BY <2>1, <2>2
<1>2. UNCHANGED <<tried, expired, noteFaults>>
  BY DEF StartSending
<1>3. ASSUME NEW q \in Senders, NEW c \in Channels
      PROVE  /\ c > channel'[q] => tried[q][c] = 0
             /\ c = channel'[q] => tried[q][c] < RetryCount
  <2>1. CASE q = r
    <3>1. tried[q][c] = 0 /\ 0 < RetryCount
      BY <1>1, <2>1, NotificationsAssumption
      DEF NotesInv, NotesBounds, Channels, NotificationsAssumption
    <3> QED BY <3>1
  <2>2. CASE q # r
    BY <1>1, <2>2 DEF NotesInv, NotesBounds
  <2> QED BY <2>1, <2>2
<1> QED BY <1>2, <1>3 DEF NotesBounds

\* One attempt more, of those there still are.
LEMMA AttemptBounded ==
  ASSUME NotesInv, NotesBounds, NEW r \in Senders, Attempt(r)
  PROVE  NotesBounds'
<1> DEFINE c == channel[r]
<1>1. c \in Channels /\ tried' = [tried EXCEPT ![r][c] = @ + 1] /\ UNCHANGED expired
  BY DEF Attempt, Sending
<1>2. After(c) \in (c + 1)..Done
  BY <1>1, AfterSkipsNone DEF NotesInv, Channels
<1>3. \/ channel' = [channel EXCEPT ![r] = After(c)]
      \/ channel' = channel /\ tried'[r][c] # RetryCount
  BY DEF Attempt, Ends, TryAgain
<1>4. noteFaults' \in 0..MaxNoteFaults
  BY NotificationsAssumption DEF Attempt, NotesBounds, NotificationsAssumption
<1>5. ASSUME NEW q \in Senders, NEW d \in Channels
      PROVE  /\ tried[q][d] \in Nat /\ channel[q] \in 0..Done
             /\ tried'[q][d] = IF q = r /\ d = c THEN tried[q][d] + 1 ELSE tried[q][d]
  <2>1. tried[r] \in [Channels -> Nat] /\ tried[q] \in [Channels -> Nat]
    BY DEF NotesInv
  <2> QED BY <1>1, <2>1 DEF NotesInv
<1>6. RetryCount \in Nat
  BY NotificationsAssumption DEF NotificationsAssumption
<1>7. ASSUME NEW q \in Senders, NEW d \in Channels
      PROVE  /\ tried'[q][d] <= RetryCount
             /\ d > channel'[q] => tried'[q][d] = 0
             /\ d = channel'[q] => tried'[q][d] < RetryCount
  <2>1. /\ tried[q][d] <= RetryCount
        /\ d > channel[q] => tried[q][d] = 0
        /\ d = channel[q] => tried[q][d] < RetryCount
    BY DEF NotesBounds
  <2>2. CASE q # r
    <3>1. channel'[q] = channel[q]
      BY <1>3, <2>2 DEF NotesInv
    <3> QED BY <1>5, <2>1, <2>2, <3>1
  <2>3. CASE q = r /\ channel' = channel /\ tried'[r][c] # RetryCount
    <3>1. c \in Nat /\ d \in Nat /\ tried[q][d] \in Nat
      BY <1>1, <1>5 DEF Channels
    <3>2. channel'[q] = c /\ (d = c => tried'[q][d] = tried[q][d] + 1)
      BY <1>5, <2>3
    <3>3. d # c => tried'[q][d] = tried[q][d]
      BY <1>5
    <3> HIDE DEF c
    <3> QED BY <1>6, <2>1, <2>3, <3>1, <3>2, <3>3
  <2>4. CASE q = r /\ channel' = [channel EXCEPT ![r] = After(c)]
    <3>1. channel'[q] = After(c)
      BY <2>4 DEF NotesInv
    <3>2. c \in Nat /\ c > 0 /\ c <= 3 /\ After(c) \in Nat /\ After(c) > c /\ d \in 1..3
      BY <1>1, <1>2 DEF Channels, Done
    <3>3. d = c => tried[q][d] < RetryCount
      BY <2>1, <2>4
    <3>4. d > c => tried[q][d] = 0
      BY <2>1, <2>4
    <3>5. 0 < RetryCount
      BY NotificationsAssumption DEF NotificationsAssumption
    <3> HIDE DEF c
    <3> QED BY <1>5, <1>6, <2>1, <2>4, <3>1, <3>2, <3>3, <3>4, <3>5
  <2> QED BY <1>3, <2>2, <2>3, <2>4
<1> QED BY <1>1, <1>4, <1>7 DEF NotesBounds

\* A sender whose time is over counts nothing.
LEMMA ExpiryBounded ==
  ASSUME NotesBounds, UNCHANGED <<channel, tried, noteFaults>>, expired' \subseteq Senders
  PROVE  NotesBounds'
  BY DEF NotesBounds
-----------------------------------------------------------------------------
(* Progress.                                                               *)

Only(e) == \A f \in Executors : works[f] = works[e] => f = e

Share(i) == IF i > NTemplates THEN 100 ELSE ((i - 1) * 100) \div NTemplates

\* The templates after the one e is at are pending, and that one has not had
\* the status that e is about to write, nor its last one.
Fits(l, at, st, w) ==
  \A i \in Templates :
    /\ i > at => l[i] = "pending"
    /\ i = at /\ (st = "item" \/ (st \in {"get", "set"} /\ w = "running"))
         => l[i] = "pending"
    /\ i = at /\ (st = "work" \/ (st \in {"get", "set"} /\ w # "running"))
         => l[i] \in {"pending", "running"}

\* What an execution that is alone on its run finds in Redis.
Tidy(e) ==
  LET r == works[e] IN
  /\ stage[e] = "publish" => lists[r] = Absent /\ percent[r] = 0
  /\ stage[e] \notin {"publish", "end"} => percent[r] <= Share(item[e])
  /\ lists[r] # Absent => Fits(lists[r], item[e], stage[e], writes[e])
  /\ stage[e] = "set" => /\ Fits(copy[e], item[e], stage[e], writes[e])
                         /\ lists[r] = copy[e] \/ lists[r] = Absent

ProgressShape ==
  /\ newest \in Nat
  /\ works \in [Executors -> Nat]
  /\ stage \in [Executors -> {"idle", "publish", "item", "get", "set", "work", "end"}]
  /\ item \in [Executors -> Nat]
  /\ writes \in [Executors -> Statuses]
  /\ DOMAIN copy = Executors
  /\ lists \in [RunNumbers -> List \cup {Absent}]
  /\ percent \in [RunNumbers -> Nat]
  /\ \A e \in Executors :
       /\ works[e] <= newest /\ (works[e] = 0 <=> stage[e] = "idle")
       /\ item[e] >= 1
       /\ stage[e] \in {"idle", "publish"} => item[e] = 1
       /\ stage[e] \in {"get", "set", "work"} => item[e] <= NTemplates
       /\ stage[e] \in {"get", "set"} => writes[e] # "pending"
       /\ stage[e] = "set" /\ works[e] \in RunNumbers => copy[e] \in List
  /\ newest > 0 => \E e \in Executors : works[e] = newest
  /\ \A r \in RunNumbers : r > newest => lists[r] = Absent /\ percent[r] = 0

ProgressInv ==
  ProgressShape /\ \A e \in Executors : works[e] \in RunNumbers /\ Only(e) => Tidy(e)

\* What a step does for an execution that is alone when it is done.
Goodness(e) == works'[e] \in RunNumbers /\ Only(e)' => Tidy(e)' /\ Forward(works'[e])

\* A later template is no smaller share of the whole.
LEMMA ShareGrows ==
  ASSUME NEW i \in Nat, i >= 1, i <= NTemplates
  PROVE  /\ Share(i) \in Nat /\ Share(i) <= Share(i + 1) /\ Share(i) <= 100
         /\ Share(i + 1) \in Nat
<1> USE ProgressAssumption DEF ProgressAssumption, Share
<1>1. /\ ((i - 1) * 100) \div NTemplates \in Nat
      /\ ((i - 1) * 100) \div NTemplates <= 100
  OBVIOUS
<1>2. ((i - 1) * 100) \div NTemplates <= (i * 100) \div NTemplates
  OBVIOUS
<1>3. (i * 100) \div NTemplates \in Nat
  OBVIOUS
<1> QED BY <1>1, <1>2, <1>3

\* The ranks of the statuses.
LEMMA RankOf ==
  /\ Rank["pending"] = 0 /\ Rank["running"] = 1
  /\ Rank["completed"] = 2 /\ Rank["failed"] = 2 /\ Rank["cancelled"] = 2
  BY DEF Rank

\* The executions that do not take the step.
LEMMA OthersGood ==
  ASSUME ProgressInv, NEW e \in Executors, NEW f \in Executors \ {e},
         \A g \in Executors \ {e} : works'[g] = works[g],
         works'[e] = works[e] \/ works[e] = 0,
         stage'[f] = stage[f], item'[f] = item[f], writes'[f] = writes[f], copy'[f] = copy[f],
         \A r \in RunNumbers : r # works'[e] => lists'[r] = lists[r] /\ percent'[r] = percent[r]
  PROVE  Goodness(f)
<1> SUFFICES ASSUME works'[f] \in RunNumbers, Only(f)'
    PROVE  Tidy(f)' /\ Forward(works'[f])
  BY DEF Goodness
<1>1. works'[f] = works[f] /\ works'[e] # works[f] /\ works[f] \in RunNumbers
  BY DEF Only
<1>2. Only(f)
  BY <1>1 DEF Only, RunNumbers
<1>3. lists'[works[f]] = lists[works[f]] /\ percent'[works[f]] = percent[works[f]]
  BY <1>1
<1>4. Tidy(f)
  BY <1>1, <1>2 DEF ProgressInv
<1> QED BY <1>1, <1>3, <1>4 DEF Tidy, Fits, Forward, ProgressInv, ProgressShape

\* A step of one execution keeps the invariant when it is good for itself.
LEMMA OneGood ==
  ASSUME ProgressInv, ProgressShape', NEW e \in Executors, Goodness(e),
         \A f \in Executors \ {e} :
           /\ works'[f] = works[f] /\ stage'[f] = stage[f] /\ item'[f] = item[f]
           /\ writes'[f] = writes[f] /\ copy'[f] = copy[f],
         works'[e] = works[e] \/ works[e] = 0,
         \A r \in RunNumbers : r # works'[e] => lists'[r] = lists[r] /\ percent'[r] = percent[r]
  PROVE  ProgressInv' /\ \A f \in Executors : Goodness(f)
<1>1. \A f \in Executors : Goodness(f)
  <2> SUFFICES ASSUME NEW f \in Executors \ {e} PROVE Goodness(f)
    OBVIOUS
  <2> QED BY OthersGood
<1>2. \A f \in Executors : works'[f] \in RunNumbers /\ Only(f)' => Tidy(f)'
  BY <1>1 DEF Goodness
<1> QED BY <1>1, <1>2 DEF ProgressInv

\* A run that is joined has two executions, and a new one has nothing in Redis.
LEMMA FindRunGood ==
  ASSUME ProgressInv, NEW e \in Executors, FindRun(e)
  PROVE  ProgressInv' /\ \A f \in Executors : Goodness(f)
<1>1. /\ stage[e] = "idle" /\ stage' = [stage EXCEPT ![e] = "publish"]
      /\ UNCHANGED <<item, writes, copy, lists, percent>>
      /\ works[e] = 0 /\ item[e] = 1
  BY DEF FindRun, Proceeds, ProgressInv, ProgressShape
<1>2. CASE newest > 0 /\ works' = [works EXCEPT ![e] = newest] /\ UNCHANGED newest
  <2>1. ProgressShape'
    BY <1>1, <1>2 DEF ProgressInv, ProgressShape
  <2>2. \E f \in Executors : works[f] = newest /\ f # e
    BY <1>1, <1>2 DEF ProgressInv, ProgressShape
  <2>3. ~Only(e)'
    BY <1>2, <2>2 DEF Only, ProgressInv, ProgressShape
  <2>4. Goodness(e)
    BY <2>3 DEF Goodness
  <2> QED BY <1>1, <1>2, <2>1, <2>4, OneGood DEF ProgressInv, ProgressShape
<1>3. CASE newest' = newest + 1 /\ works' = [works EXCEPT ![e] = newest + 1]
  <2>1. ProgressShape'
    <3>1. \E f \in Executors : works'[f] = newest'
      BY <1>3 DEF ProgressInv, ProgressShape
    <3>2. works' \in [Executors -> Nat] /\ newest' \in Nat
      BY <1>3 DEF ProgressInv, ProgressShape
    <3>3. \A f \in Executors : works'[f] <= newest' /\ (works'[f] = 0 <=> stage'[f] = "idle")
      BY <1>1, <1>3 DEF ProgressInv, ProgressShape
    <3>4. \A q \in RunNumbers : q > newest' => lists'[q] = Absent /\ percent'[q] = 0
      BY <1>1, <1>3 DEF ProgressInv, ProgressShape, RunNumbers
    <3>5. stage' \in [Executors -> {"idle", "publish", "item", "get", "set", "work", "end"}]
      BY <1>1 DEF ProgressInv, ProgressShape
    <3>6. \A f \in Executors :
            /\ stage'[f] \in {"idle", "publish"} => item'[f] = 1
            /\ stage'[f] \in {"get", "set", "work"} => item'[f] <= NTemplates
            /\ stage'[f] \in {"get", "set"} => writes'[f] # "pending"
            /\ stage'[f] = "set" /\ works'[f] \in RunNumbers => copy'[f] \in List
      BY <1>1, <1>3 DEF ProgressInv, ProgressShape
    <3> QED BY <1>1, <3>1, <3>2, <3>3, <3>4, <3>5, <3>6
            DEF ProgressInv, ProgressShape
  <2>2. works'[e] \in RunNumbers => lists'[works'[e]] = Absent /\ percent'[works'[e]] = 0
    BY <1>1, <1>3 DEF ProgressInv, ProgressShape
  <2>3. works'[e] \in RunNumbers => Tidy(e)' /\ Forward(works'[e])
    BY <1>1, <2>1, <2>2 DEF Tidy, Forward, ProgressInv, ProgressShape
  <2>4. Goodness(e)
    BY <2>3 DEF Goodness
  <2> QED BY <1>1, <1>3, <2>1, <2>4, OneGood DEF ProgressInv, ProgressShape
<1> QED BY <1>2, <1>3 DEF FindRun

\* A new list is all pending.
LEMMA PublishGood ==
  ASSUME ProgressInv, NEW e \in Executors, Publish(e)
  PROVE  ProgressInv' /\ \A f \in Executors : Goodness(f)
<1> DEFINE r == works[e]
<1>1. /\ stage[e] = "publish" /\ stage' = [stage EXCEPT ![e] = "item"]
      /\ UNCHANGED <<newest, works, item, writes, copy, percent>>
      /\ item[e] = 1 /\ works[e] # 0
  BY DEF Publish, Proceeds, ProgressInv, ProgressShape
<1>2. \/ lists' = [lists EXCEPT ![r] = [i \in Templates |-> "pending"]]
      \/ lists' = lists
  BY DEF Publish
<1>3. [i \in Templates |-> "pending"] \in List
  BY DEF List, Statuses
<1>4. ProgressShape'
  BY <1>1, <1>2, <1>3 DEF ProgressInv, ProgressShape
<1>5. Goodness(e)
  <2> SUFFICES ASSUME r \in RunNumbers, Only(e) PROVE Tidy(e)' /\ Forward(r)
    BY <1>1 DEF Goodness, Only
  <2>1. lists[r] = Absent /\ percent[r] = 0
    BY <1>1 DEF ProgressInv, Tidy
  <2>2. lists'[r] # Absent => lists'[r] = [i \in Templates |-> "pending"]
    BY <1>2, <2>1 DEF ProgressInv, ProgressShape
  <2>3. lists'[r] # Absent => Fits(lists'[r], item'[e], stage'[e], writes'[e])
    BY <1>1, <2>2 DEF Fits, ProgressInv, ProgressShape
  <2>4. Share(1) = 0
    BY ProgressAssumption DEF Share, ProgressAssumption
  <2> QED BY <1>1, <2>1, <2>3, <2>4 DEF Tidy, Forward, ProgressInv, ProgressShape
<1> QED BY <1>1, <1>2, <1>4, <1>5, OneGood DEF ProgressInv, ProgressShape

\* The percentage of the next template is no smaller.
LEMMA NextItemGood ==
  ASSUME ProgressInv, NEW e \in Executors, NextItem(e)
  PROVE  ProgressInv' /\ \A f \in Executors : Goodness(f)
<1> DEFINE r == works[e]
           done == item[e] > NTemplates
<1>1. /\ stage[e] = "item"
      /\ stage' = [stage EXCEPT ![e] = IF done THEN "end" ELSE "get"]
      /\ UNCHANGED <<newest, works, item, copy, lists>>
      /\ writes' = IF done THEN writes ELSE [writes EXCEPT ![e] = "running"]
      /\ percent' = percent \/ percent' = [percent EXCEPT ![r] = Share(item[e])]
  BY DEF NextItem, Proceeds, Share
<1>2. item[e] \in Nat /\ item[e] >= 1 /\ works[e] # 0 /\ NTemplates \in Nat
  BY <1>1, ProgressAssumption DEF ProgressInv, ProgressShape, ProgressAssumption
<1>3. Share(item[e]) \in Nat
  <2>1. CASE done
    BY <2>1 DEF Share
  <2>2. CASE ~done
    BY <1>2, <2>2, ShareGrows
  <2> QED BY <2>1, <2>2
<1>4. ProgressShape'
  <2>1. percent' \in [RunNumbers -> Nat] /\ writes' \in [Executors -> Statuses]
    BY <1>1, <1>3 DEF ProgressInv, ProgressShape, Statuses
  <2>2. stage' \in [Executors -> {"idle", "publish", "item", "get", "set", "work", "end"}]
    BY <1>1 DEF ProgressInv, ProgressShape
  <2>3. \A q \in RunNumbers : q > newest => percent'[q] = 0
    BY <1>1, <1>2 DEF ProgressInv, ProgressShape
  <2>4. \A f \in Executors :
          /\ works[f] <= newest /\ (works[f] = 0 <=> stage'[f] = "idle")
          /\ stage'[f] \in {"idle", "publish"} => item[f] = 1
          /\ stage'[f] \in {"get", "set", "work"} => item[f] <= NTemplates
          /\ stage'[f] \in {"get", "set"} => writes'[f] # "pending"
          /\ stage'[f] = "set" /\ works[f] \in RunNumbers => copy[f] \in List
    BY <1>1, <1>2 DEF ProgressInv, ProgressShape
  <2> QED BY <1>1, <2>1, <2>2, <2>3, <2>4 DEF ProgressInv, ProgressShape
<1>5. Goodness(e)
  <2> SUFFICES ASSUME r \in RunNumbers, Only(e) PROVE Tidy(e)' /\ Forward(r)
    BY <1>1 DEF Goodness, Only
  <2>1. /\ percent[r] <= Share(item[e])
        /\ lists[r] # Absent => Fits(lists[r], item[e], stage[e], writes[e])
    BY <1>1 DEF ProgressInv, Tidy
  <2>2. percent[r] <= percent'[r] /\ percent'[r] <= Share(item[e])
    BY <1>1, <1>3, <2>1 DEF ProgressInv, ProgressShape
  <2>3. lists'[r] # Absent => Fits(lists'[r], item'[e], stage'[e], writes'[e])
    BY <1>1, <1>2, <2>1 DEF Fits, ProgressInv, ProgressShape, Templates
  <2> QED BY <1>1, <2>2, <2>3 DEF Tidy, Forward, ProgressInv, ProgressShape, Share
<1> QED BY <1>1, <1>4, <1>5, OneGood DEF ProgressInv, ProgressShape

\* What e writes into a list that fits it.
LEMMA WrittenGood ==
  ASSUME ProgressInv, NEW e \in Executors, works[e] \in RunNumbers, Only(e), Tidy(e),
         NEW from \in {"get", "set"}, Written(e, from),
         works' = works, writes' = writes, NEW l, l \in List,
         Fits(l, item[e], stage[e], writes[e])
  PROVE  /\ Fits([l EXCEPT ![item[e]] = writes[e]], item'[e], stage'[e], writes'[e])
         /\ Fits(l, item'[e], stage'[e], writes'[e])
         /\ percent[works[e]] <= Share(item[e])'
         /\ stage'[e] \in {"work", "end", "item"}
         /\ \A i \in Templates : \/ [l EXCEPT ![item[e]] = writes[e]][i] = l[i]
                                 \/ Rank[l[i]] < Rank[[l EXCEPT ![item[e]] = writes[e]][i]]
<1> DEFINE m == [l EXCEPT ![item[e]] = writes[e]]
<1>1. /\ stage[e] = from /\ stage' = [stage EXCEPT ![e] = AfterWrite(e)]
      /\ item' = IF AfterWrite(e) = "item" THEN [item EXCEPT ![e] = @ + 1] ELSE item
  BY DEF Written, Proceeds
<1>2. /\ AfterWrite(e) \in {"work", "end", "item"}
      /\ AfterWrite(e) = "work" <=> writes[e] = "running"
      /\ stage'[e] = AfterWrite(e)
      /\ item'[e] = IF AfterWrite(e) = "item" THEN item[e] + 1 ELSE item[e]
  BY <1>1 DEF AfterWrite, ProgressInv, ProgressShape
<1>3. /\ item[e] \in Nat /\ item[e] >= 1 /\ item[e] <= NTemplates /\ item[e] \in Templates
      /\ writes[e] \in Statuses \ {"pending"} /\ NTemplates \in Nat
  BY <1>1, ProgressAssumption
  DEF ProgressInv, ProgressShape, ProgressAssumption, Templates
<1>4. /\ m[item[e]] = writes[e]
      /\ \A i \in Templates : i # item[e] => m[i] = l[i]
  BY <1>3 DEF List
<1>5. /\ \A i \in Templates : i > item[e] => l[i] = "pending"
      /\ writes[e] = "running" => l[item[e]] = "pending"
      /\ writes[e] # "running" => l[item[e]] \in {"pending", "running"}
  BY <1>1, <1>3 DEF Fits
<1>6. Fits(m, item'[e], stage'[e], writes'[e]) /\ Fits(l, item'[e], stage'[e], writes'[e])
  <2>2. \A i \in Templates : i \in Nat /\ (i > item[e] + 1 => i > item[e])
    BY <1>3 DEF Templates
  <2>3. \A i \in Templates :
          /\ i > item'[e] => m[i] = "pending" /\ l[i] = "pending"
          /\ i = item'[e] /\ stage'[e] = "item" => m[i] = "pending" /\ l[i] = "pending"
          /\ i = item'[e] /\ stage'[e] = "work" =>
               m[i] \in {"pending", "running"} /\ l[i] \in {"pending", "running"}
    BY <1>2, <1>3, <1>4, <1>5, <2>2
  <2> QED BY <1>2, <2>3 DEF Fits
<1>7. percent[works[e]] <= Share(item'[e])
  <2>1. /\ percent[works[e]] <= Share(item[e]) /\ percent[works[e]] \in Nat
        /\ Share(item[e]) \in Nat /\ Share(item[e] + 1) \in Nat
        /\ Share(item[e]) <= Share(item[e] + 1)
    BY <1>1, <1>3, ShareGrows DEF Tidy, ProgressInv, ProgressShape
  <2> QED BY <1>2, <2>1
<1>8. Rank[l[item[e]]] < Rank[m[item[e]]]
  BY <1>4, <1>5, <1>3, RankOf DEF Statuses
<1> QED BY <1>2, <1>3, <1>4, <1>6, <1>7, <1>8 DEF Share

\* The shape of what one execution writes, whatever the list is.
LEMMA WrittenShape ==
  ASSUME ProgressInv, NEW e \in Executors, NEW from \in {"get", "set"}, Written(e, from),
         UNCHANGED <<newest, works, writes, copy, percent>>,
         lists' = lists \/ (\E m \in List : lists' = [lists EXCEPT ![works[e]] = m])
  PROVE  ProgressShape'
<1>1. /\ stage[e] = from /\ stage' = [stage EXCEPT ![e] = AfterWrite(e)]
      /\ item' = IF AfterWrite(e) = "item" THEN [item EXCEPT ![e] = @ + 1] ELSE item
      /\ AfterWrite(e) \in {"work", "end", "item"}
  BY DEF Written, Proceeds, AfterWrite
<1>2. works[e] # 0 /\ works[e] <= newest /\ item[e] <= NTemplates
  BY <1>1 DEF ProgressInv, ProgressShape
<1>3. /\ item' \in [Executors -> Nat]
      /\ stage' \in [Executors -> {"idle", "publish", "item", "get", "set", "work", "end"}]
  BY <1>1 DEF ProgressInv, ProgressShape
<1>4. lists' \in [RunNumbers -> List \cup {Absent}]
  BY DEF ProgressInv, ProgressShape
<1>5. \A q \in RunNumbers : q > newest => lists'[q] = Absent
  <2>1. ASSUME NEW q \in RunNumbers, q > newest PROVE q # works[e]
    BY <1>2, <2>1 DEF ProgressInv, ProgressShape, RunNumbers
  <2> QED BY <2>1 DEF ProgressInv, ProgressShape
<1>6. \A f \in Executors :
        /\ works[f] = 0 <=> stage'[f] = "idle"
        /\ item'[f] >= 1
        /\ stage'[f] \in {"idle", "publish"} => item'[f] = 1
        /\ stage'[f] \in {"get", "set", "work"} => item'[f] <= NTemplates
        /\ stage'[f] \in {"get", "set"} => stage[f] = stage'[f]
  BY <1>1, <1>2 DEF ProgressInv, ProgressShape
<1> QED BY <1>3, <1>4, <1>5, <1>6 DEF ProgressInv, ProgressShape

\* What is read fits, and is what Redis has.
LEMMA GetGood ==
  ASSUME ProgressInv, NEW e \in Executors, Get(e)
  PROVE  ProgressInv' /\ \A f \in Executors : Goodness(f)
<1> DEFINE r == works[e]
<1>1. UNCHANGED <<newest, works, writes, lists, percent>>
  BY DEF Get
<1>2. CASE /\ Proceeds(e, "get", "set")
           /\ lists[r] # Absent
           /\ copy' = [copy EXCEPT ![e] = lists[r]]
           /\ UNCHANGED item
  <2>1. stage[e] = "get" /\ stage' = [stage EXCEPT ![e] = "set"] /\ works[e] # 0
    BY <1>2 DEF Proceeds, ProgressInv, ProgressShape
  <2>2. copy'[e] = lists[r] /\ \A f \in Executors \ {e} : copy'[f] = copy[f]
    BY <1>2 DEF ProgressInv, ProgressShape
  <2>3. ProgressShape'
    <3>1. stage' \in [Executors -> {"idle", "publish", "item", "get", "set", "work", "end"}]
      BY <2>1 DEF ProgressInv, ProgressShape
    <3>2. r \in RunNumbers => copy'[e] \in List
      BY <1>2, <2>2 DEF ProgressInv, ProgressShape
    <3>3. \A f \in Executors :
            /\ works[f] = 0 <=> stage'[f] = "idle"
            /\ stage'[f] \in {"idle", "publish"} => item[f] = 1
            /\ stage'[f] \in {"get", "set", "work"} => item[f] <= NTemplates
            /\ stage'[f] \in {"get", "set"} => writes[f] # "pending"
            /\ stage'[f] = "set" /\ works[f] \in RunNumbers => copy'[f] \in List
      BY <2>1, <2>2, <3>2 DEF ProgressInv, ProgressShape
    <3>4. DOMAIN copy' = Executors
      BY <1>2 DEF ProgressInv, ProgressShape
    <3> QED BY <1>1, <1>2, <3>1, <3>3, <3>4 DEF ProgressInv, ProgressShape
  <2>4. Goodness(e)
    <3> SUFFICES ASSUME r \in RunNumbers, Only(e) PROVE Tidy(e)' /\ Forward(r)
      BY <1>1 DEF Goodness, Only
    <3>1. percent[r] <= Share(item[e]) /\ Fits(lists[r], item[e], stage[e], writes[e])
      BY <1>2, <2>1 DEF ProgressInv, Tidy
    <3>2. Fits(lists'[r], item'[e], stage'[e], writes'[e])
      BY <1>1, <1>2, <2>1, <3>1 DEF Fits, ProgressInv, ProgressShape
    <3> QED BY <1>1, <1>2, <2>1, <2>2, <3>1, <3>2
            DEF Tidy, Forward, ProgressInv, ProgressShape, Share
  <2> QED BY <1>1, <1>2, <2>1, <2>2, <2>3, <2>4, OneGood
          DEF ProgressInv, ProgressShape
<1>3. CASE Written(e, "get") /\ UNCHANGED copy
  <2>1. ProgressShape'
    BY <1>1, <1>3, WrittenShape
  <2>2. Goodness(e)
    <3> SUFFICES ASSUME r \in RunNumbers, Only(e) PROVE Tidy(e)' /\ Forward(r)
      BY <1>1 DEF Goodness, Only
    <3>1. Tidy(e)
      BY DEF ProgressInv
    <3>2. CASE lists[r] = Absent
      <4>1. /\ [i \in Templates |-> "pending"] \in List
          /\ Fits([i \in Templates |-> "pending"], item[e], stage[e], writes[e])
        BY DEF List, Statuses, Fits
      <4>2. percent[r] <= Share(item[e])' /\ stage'[e] \in {"work", "end", "item"}
        BY <1>1, <1>3, <3>1, <4>1, WrittenGood
      <4> QED BY <1>1, <3>2, <4>2 DEF Tidy, Forward, ProgressInv, ProgressShape
    <3>3. CASE lists[r] # Absent
      <4>1. lists[r] \in List /\ Fits(lists[r], item[e], stage[e], writes[e])
        BY <3>1, <3>3 DEF Tidy, ProgressInv, ProgressShape
      <4>2. /\ Fits(lists'[r], item'[e], stage'[e], writes'[e]) /\ percent[r] <= Share(item[e])'
            /\ stage'[e] \in {"work", "end", "item"}
        BY <1>1, <1>3, <3>1, <4>1, WrittenGood
      <4> QED BY <1>1, <4>2 DEF Tidy, Forward, ProgressInv, ProgressShape
    <3> QED BY <3>2, <3>3
  <2> QED BY <1>1, <1>3, <2>1, <2>2, OneGood
          DEF Written, Proceeds, ProgressInv, ProgressShape
<1> QED BY <1>2, <1>3 DEF Get

\* What is written back differs from the list in the one status.
LEMMA SetGood ==
  ASSUME ProgressInv, NEW e \in Executors, Set(e)
  PROVE  ProgressInv' /\ \A f \in Executors : Goodness(f)
<1> DEFINE r == works[e]
           m == [copy[e] EXCEPT ![item[e]] = writes[e]]
<1>1. /\ UNCHANGED <<newest, works, writes, copy, percent>>
      /\ Written(e, "set") /\ stage[e] = "set"
      /\ lists' = lists \/ lists' = [lists EXCEPT ![r] = m]
  BY DEF Set, Written, Proceeds
<1>2. r \in RunNumbers => copy[e] \in List /\ m \in List
  BY <1>1 DEF ProgressInv, ProgressShape, List
<1>3. lists' = lists \/ (\E l \in List : lists' = [lists EXCEPT ![r] = l])
  <2>1. CASE r \in RunNumbers
    BY <1>1, <1>2, <2>1
  <2>2. CASE r \notin RunNumbers
    BY <1>1, <2>2 DEF ProgressInv, ProgressShape
  <2> QED BY <2>1, <2>2
<1>4. ProgressShape'
  BY <1>1, <1>3, WrittenShape
<1>5. Goodness(e)
  <2> SUFFICES ASSUME r \in RunNumbers, Only(e) PROVE Tidy(e)' /\ Forward(r)
    BY <1>1 DEF Goodness, Only
  <2>1. Tidy(e) /\ Fits(copy[e], item[e], stage[e], writes[e]) /\ copy[e] \in List
    BY <1>1, <1>2 DEF ProgressInv, Tidy
  <2>2. /\ Fits(m, item'[e], stage'[e], writes'[e])
        /\ Fits(copy[e], item'[e], stage'[e], writes'[e])
        /\ percent[r] <= Share(item[e])'
        /\ stage'[e] \in {"work", "end", "item"}
        /\ \A i \in Templates : m[i] = copy[e][i] \/ Rank[copy[e][i]] < Rank[m[i]]
    BY <1>1, <2>1, WrittenGood
  <2>3. lists[r] = copy[e] \/ lists[r] = Absent
    BY <1>1, <2>1 DEF Tidy
  <2>4. lists'[r] = lists[r] \/ lists'[r] = m
    BY <1>1 DEF ProgressInv, ProgressShape
  <2>5. lists'[r] # Absent => Fits(lists'[r], item'[e], stage'[e], writes'[e])
    BY <1>1, <2>2, <2>3, <2>4 DEF Fits
  <2>6. Forward(r)
    <3>1. percent[r] <= percent'[r]
      BY <1>1 DEF ProgressInv, ProgressShape
    <3>2. lists[r] # Absent => \/ lists'[r] = lists[r]
                               \/ lists[r] = copy[e] /\ lists'[r] = m
      BY <2>3, <2>4
    <3>3. lists[r] = copy[e] /\ lists'[r] = m =>
            \A i \in Templates : \/ lists'[r][i] = lists[r][i]
                                 \/ Rank[lists[r][i]] < Rank[lists'[r][i]]
      BY <2>2
    <3> QED BY <3>1, <3>2, <3>3 DEF Forward
  <2> QED BY <1>1, <2>2, <2>5, <2>6 DEF Tidy, Fits
<1> QED BY <1>1, <1>3, <1>4, <1>5, OneGood
        DEF Written, Proceeds, ProgressInv, ProgressShape

\* A template has its last status once.
LEMMA WorksGood ==
  ASSUME ProgressInv, NEW e \in Executors, Works(e)
  PROVE  ProgressInv' /\ \A f \in Executors : Goodness(f)
<1> DEFINE r == works[e]
<1> PICK s \in {"completed", "failed", "cancelled"} : writes' = [writes EXCEPT ![e] = s]
  BY DEF Works
<1>1. /\ stage[e] = "work" /\ stage' = [stage EXCEPT ![e] = "get"]
      /\ UNCHANGED <<newest, works, item, copy, lists, percent>>
      /\ works[e] # 0
  BY DEF Works, Proceeds, ProgressInv, ProgressShape
<1>4. ProgressShape'
  <2>1. writes' \in [Executors -> Statuses]
    BY DEF ProgressInv, ProgressShape, Statuses
  <2> QED BY <1>1, <2>1 DEF ProgressInv, ProgressShape
<1>5. Goodness(e)
  <2> SUFFICES ASSUME r \in RunNumbers, Only(e) PROVE Tidy(e)' /\ Forward(r)
    BY <1>1 DEF Goodness, Only
  <2>1. /\ percent[r] <= Share(item[e])
        /\ lists[r] # Absent => Fits(lists[r], item[e], stage[e], writes[e])
    BY <1>1 DEF ProgressInv, Tidy
  <2>2. lists'[r] # Absent => Fits(lists'[r], item'[e], stage'[e], writes'[e])
    BY <1>1, <2>1 DEF Fits, ProgressInv, ProgressShape
  <2> QED BY <1>1, <2>1, <2>2 DEF Tidy, Forward, ProgressInv, ProgressShape, Share
<1> QED BY <1>1, <1>4, <1>5, OneGood DEF ProgressInv, ProgressShape

\* A list that is gone fits everyone.
LEMMA ListExpiresGood ==
  ASSUME ProgressInv, NEW q \in RunNumbers, ListExpires(q)
  PROVE  ProgressInv' /\ \A f \in Executors : Goodness(f)
<1>1. /\ lists' = [lists EXCEPT ![q] = Absent]
      /\ UNCHANGED <<newest, works, stage, item, writes, copy, percent>>
  BY DEF ListExpires
<1>2. ProgressShape'
  BY <1>1 DEF ProgressInv, ProgressShape
<1>3. ASSUME NEW f \in Executors PROVE Goodness(f)
  <2> DEFINE r == works[f]
  <2> SUFFICES ASSUME r \in RunNumbers, Only(f) PROVE Tidy(f)' /\ Forward(r)
    BY <1>1 DEF Goodness, Only
  <2>1. lists'[r] = lists[r] \/ lists'[r] = Absent
    BY <1>1 DEF ProgressInv, ProgressShape
  <2>2. Tidy(f)
    BY DEF ProgressInv
  <2> QED BY <1>1, <2>1, <2>2
          DEF Tidy, Forward, ProgressInv, ProgressShape, Share, Fits
<1> QED BY <1>1, <1>2, <1>3 DEF ProgressInv, Goodness

\* The invariant is about what the executions and Redis have.
LEMMA ProgressRests ==
  ASSUME ProgressInv, UNCHANGED <<newest, works, stage, item, writes, copy, lists, percent>>
  PROVE  ProgressInv' /\ \A f \in Executors : Goodness(f)
<1>1. ProgressInv'
  BY DEF ProgressInv, ProgressShape, Only, Tidy, Fits, Share
<1>2. \A f \in Executors : works[f] \in RunNumbers => Forward(works[f])
  BY DEF Forward, ProgressInv, ProgressShape
<1> QED BY <1>1, <1>2 DEF Goodness, ProgressInv


\* The run of an execution that is alone.
LEMMA AloneIsOne ==
  ASSUME NEW r \in RunNumbers, Alone(r)'
  PROVE  \E e \in Executors : works'[e] = r /\ Only(e)'
<1> DEFINE S == {e \in Executors : works'[e] = r}
<1>1. IsFiniteSet(S) /\ Cardinality(S) = 1
  BY FS_Subset, ProgressAssumption DEF Alone, ProgressAssumption
<1>2. PICK e : S = {e}
  BY <1>1, FS_Singleton
<1> QED BY <1>2 DEF Only

\* Every step of an execution keeps the invariant, and moves what Redis tells
\* of a run that has one execution forward.
LEMMA ProgressKept ==
  ASSUME ProgressInv, NEW E \in SUBSET Executors, ProgressNext(E) \/ Logs \/ UNCHANGED progressVars
  PROVE  ProgressInv' /\ \A f \in Executors : Goodness(f)
<1>1. CASE \E e \in E : \/ FindRun(e) \/ Publish(e) \/ NextItem(e) \/ Get(e) \/ Set(e) \/ Works(e)
                       \/ Cut(e)
  <2> PICK e \in E : \/ FindRun(e) \/ Publish(e) \/ NextItem(e) \/ Get(e) \/ Set(e) \/ Works(e)
                     \/ Cut(e)
    BY <1>1
  <2>1. CASE Cut(e)
    BY <2>1, ProgressRests DEF Cut
  <2> QED BY <2>1, FindRunGood, PublishGood, NextItemGood, GetGood, SetGood,
             WorksGood
<1>2. CASE \E r \in RunNumbers : ListExpires(r)
  BY <1>2, ListExpiresGood
<1>3. CASE Logs
  BY <1>3, ProgressRests DEF Logs
<1>4. CASE UNCHANGED progressVars
  BY <1>4, ProgressRests DEF progressVars
<1> QED BY <1>1, <1>2, <1>3, <1>4 DEF ProgressNext

\* Every run that there is was begun by an execution of its own.
ProgressBounds ==
  /\ \A n \in 1..newest : \E e \in Executors : works[e] = n
  /\ \A e \in Executors : item[e] <= NTemplates + 1
  /\ \A r \in RunNumbers : percent[r] <= 100
  /\ copy \in [Executors -> List \cup {Absent}]
  /\ cut \subseteq Executors
  /\ logs \in List \cup {Absent}
  /\ redisFaults \in 0..MaxRedisFaults

\* There are no more runs than executions.
LEMMA RunsAreFew ==
  ASSUME ProgressShape, ProgressBounds
  PROVE  /\ Cardinality(Executors) \in Nat /\ newest \in 0..Cardinality(Executors)
         /\ \A e \in Executors : works[e] # 0 => works[e] \in RunNumbers
<1> DEFINE W == {e \in Executors : works[e] \in 1..newest}
           f == [e \in W |-> works[e]]
<1>1. newest \in Nat /\ IsFiniteSet(Executors) /\ Cardinality(Executors) \in Nat
  BY ProgressAssumption, FS_CardinalityType DEF ProgressAssumption, ProgressShape
<1>2. IsFiniteSet(W) /\ Cardinality(W) \in Nat /\ Cardinality(W) <= Cardinality(Executors)
  BY <1>1, FS_Subset, FS_CardinalityType
<1>3. f \in Surjection(W, 1..newest)
  <2>1. f \in [W -> 1..newest]
    OBVIOUS
  <2>2. \A n \in 1..newest : \E e \in W : f[e] = n
    BY DEF ProgressBounds
  <2> HIDE DEF f
  <2> QED BY <2>1, <2>2 DEF Surjection
<1>4. Cardinality(1..newest) = newest
  BY <1>1, FS_Interval
<1>5. newest <= Cardinality(W)
  <2> HIDE DEF f, W
  <2> QED BY <1>2, <1>3, <1>4, FS_Surjection
<1>6. newest <= Cardinality(Executors)
  <2> HIDE DEF W
  <2> QED BY <1>1, <1>2, <1>5
<1>7. \A e \in Executors : works[e] \in Nat /\ works[e] <= newest
  BY DEF ProgressShape
<1> QED BY <1>1, <1>6, <1>7 DEF RunNumbers

\* Nothing is written but lists, and percentages up to a hundred.
LEMMA ProgressBoundsKept ==
  ASSUME ProgressInv, ProgressBounds, NEW E \in SUBSET Executors,
         ProgressNext(E) \/ Logs \/ UNCHANGED progressVars
  PROVE  ProgressBounds'
<1>1. ProgressShape /\ NTemplates \in Nat /\ NTemplates > 0 /\ MaxRedisFaults \in Nat
  BY ProgressAssumption DEF ProgressAssumption, ProgressInv
<1>2. /\ newest \in 0..Cardinality(Executors) /\ Cardinality(Executors) \in Nat
      /\ \A e \in Executors : works[e] # 0 => works[e] \in RunNumbers
  BY <1>1, RunsAreFew
<1>3. ASSUME NEW e \in Executors, Answered(e) \/ Unanswered(e)
      PROVE  redisFaults' \in 0..MaxRedisFaults
  BY <1>1, <1>3 DEF Answered, Unanswered, ProgressBounds
<1>4. ASSUME NEW e \in Executors, NEW from \in {"get", "set"}, Written(e, from)
      PROVE  \A f \in Executors : item'[f] <= NTemplates + 1
  <2>1. item[e] \in Nat /\ item[e] <= NTemplates
    BY <1>4 DEF Written, Proceeds, ProgressInv, ProgressShape
  <2> QED BY <1>1, <1>4, <2>1 DEF Written, ProgressBounds, ProgressShape
<1>5. ASSUME NEW e \in Executors, FindRun(e) PROVE ProgressBounds'
  <2>1. works[e] = 0 /\ e \in DOMAIN works
    BY <1>1, <1>5 DEF FindRun, Proceeds, ProgressShape
  <2>2. ASSUME NEW n \in 1..newest PROVE \E f \in Executors : works'[f] = n
    <3>1. PICK f \in Executors : works[f] = n
      BY DEF ProgressBounds
    <3>2. f # e
      BY <2>1, <3>1
    <3> QED BY <1>1, <1>5, <3>1, <3>2 DEF FindRun, ProgressShape
  <2>3. newest' = newest \/ (newest' = newest + 1 /\ works'[e] = newest + 1)
    <3>1. \/ newest' = newest
          \/ newest' = newest + 1 /\ works' = [works EXCEPT ![e] = newest + 1]
      BY <1>5 DEF FindRun
    <3> QED BY <2>1, <3>1
  <2>4. \A n \in 1..newest' : \E f \in Executors : works'[f] = n
    <3>1. \A n \in 1..newest' : n \in 1..newest \/ (n = newest + 1 /\ works'[e] = n)
      BY <1>2, <2>3
    <3> QED BY <2>2, <3>1
  <2> QED BY <1>5, <2>4 DEF FindRun, ProgressBounds
<1>6. ASSUME NEW e \in Executors, Publish(e) PROVE ProgressBounds'
  <2>1. redisFaults' \in 0..MaxRedisFaults
    BY <1>3, <1>6 DEF Publish
  <2> QED BY <1>6, <2>1 DEF Publish, ProgressBounds
<1>7. ASSUME NEW e \in Executors, NextItem(e) PROVE ProgressBounds'
  <2> DEFINE share == IF item[e] > NTemplates THEN 100 ELSE ((item[e] - 1) * 100) \div NTemplates
  <2>1. redisFaults' \in 0..MaxRedisFaults
    BY <1>3, <1>7 DEF NextItem
  <2>2. share <= 100
    <3>1. item[e] \in Nat /\ item[e] >= 1
      BY <1>1 DEF ProgressShape
    <3>2. item[e] <= NTemplates => Share(item[e]) <= 100
      BY <3>1, ShareGrows
    <3> QED BY <1>1, <3>1, <3>2 DEF Share
  <2>3. percent' = percent \/ percent' = [percent EXCEPT ![works[e]] = share]
    BY <1>7 DEF NextItem
  <2> HIDE DEF share
  <2>4. \A r \in RunNumbers : percent'[r] <= 100
    BY <1>1, <2>2, <2>3 DEF ProgressBounds, ProgressShape
  <2> QED BY <1>7, <2>1, <2>4 DEF NextItem, ProgressBounds
<1>8. ASSUME NEW e \in Executors, Get(e) PROVE ProgressBounds'
  <2>1. redisFaults' \in 0..MaxRedisFaults
    BY <1>3, <1>8 DEF Get
  <2>2. \A f \in Executors : item'[f] <= NTemplates + 1
    <3>1. CASE item' = item
      BY <3>1 DEF ProgressBounds
    <3>2. CASE Written(e, "get")
      BY <1>4, <3>2
    <3> QED BY <1>8, <3>1, <3>2 DEF Get
  <2>3. copy' \in [Executors -> List \cup {Absent}]
    <3>1. CASE copy' = copy
      BY <3>1 DEF ProgressBounds
    <3>2. CASE stage[e] = "get" /\ copy' = [copy EXCEPT ![e] = lists[works[e]]]
      <4>1. works[e] \in RunNumbers
        BY <1>1, <1>2, <3>2 DEF ProgressShape
      <4>2. lists[works[e]] \in List \cup {Absent}
        BY <1>1, <4>1 DEF ProgressShape
      <4> QED BY <3>2, <4>2 DEF ProgressBounds
    <3> QED BY <1>8, <3>1, <3>2 DEF Get, Proceeds
  <2> QED BY <1>8, <2>1, <2>2, <2>3 DEF Get, ProgressBounds
<1>9. ASSUME NEW e \in Executors, Set(e) PROVE ProgressBounds'
  <2>1. redisFaults' \in 0..MaxRedisFaults
    BY <1>3, <1>9 DEF Set
  <2>2. \A f \in Executors : item'[f] <= NTemplates + 1
    BY <1>4, <1>9 DEF Set
  <2> QED BY <1>9, <2>1, <2>2 DEF Set, ProgressBounds
<1>10. ASSUME NEW e \in Executors, Works(e) \/ Cut(e) PROVE ProgressBounds'
  BY <1>1, <1>10 DEF Works, Cut, ProgressBounds
<1>11. ASSUME NEW r \in RunNumbers, ListExpires(r) PROVE ProgressBounds'
  BY <1>1, <1>11 DEF ListExpires, ProgressBounds
<1>12. CASE Logs
  <2>1. newest \in RunNumbers
    BY <1>2, <1>12 DEF Logs, RunNumbers
  <2>2. logs' \in List \cup {Absent}
    BY <1>1, <1>12, <2>1 DEF Logs, ProgressShape
  <2> QED BY <1>12, <2>2 DEF Logs, ProgressBounds
<1>13. CASE UNCHANGED progressVars
  BY <1>13 DEF progressVars, ProgressBounds
<1> QED BY <1>5, <1>6, <1>7, <1>8, <1>9, <1>10, <1>11, <1>12, <1>13 DEF ProgressNext
-----------------------------------------------------------------------------
(* Tokens.                                                                 *)

\* Tokens are numbered as they are issued; a key ends with its token.
TokensInv ==
  /\ IsFiniteSet(tokens) /\ Cardinality(tokens) <= MaxTokens
  /\ time \in Nat
  /\ \A t \in tokens : t.id \in 1..Cardinality(tokens) /\ t.user \in Accounts /\ t.expires \in Nat
  /\ \A t, u \in tokens : t.id = u.id => t = u
  /\ revoked \in [TokenIds -> Nat]
  /\ \A t \in tokens : revoked[t.id] \in {0, t.expires}
  /\ \A i \in TokenIds : revoked[i] > 0 => blacklist /\ i <= Cardinality(tokens)

\* Where a request is that came with what has ended.
CallsInv ==
  /\ account \in [Accounts -> {"none", "active", "disabled"}]
  /\ phase \in [AuthCalls -> Phases]
  /\ shown \in [AuthCalls -> tokens \cup {None}]
  /\ subject \in [AuthCalls -> Accounts \cup {None}]
  /\ result \in [AuthCalls -> {"none", "served", "refused", "failed"}]
  /\ \A q \in AuthCalls :
       /\ phase[q] \in {"check", "active", "revoke"} => shown[q] \in tokens
       /\ phase[q] \in {"check", "active", "issue", "revoke"} => subject[q] \in Accounts
       /\ phase[q] = "idle" => q \notin late \cup barred /\ result[q] = "none"
       /\ phase[q] = "active" => q \in Refreshes
       /\ phase[q] \in {"name", "insert"} => q \in Signups
       /\ q \in late \ excused =>
            /\ phase[q] \in {"check", "done"} /\ result[q] # "served"
            /\ shown[q] \in tokens /\ revoked[shown[q].id] > 0
       /\ q \in barred \cap Refreshes =>
            /\ phase[q] \in {"check", "active", "done"} /\ result[q] # "served"
            /\ subject[q] \in Accounts /\ account[subject[q]] = "disabled"

SessionsInv == TokensInv /\ CallsInv

\* No request, token or key yet.
LEMMA SessionsStart == SessionsInit => SessionsInv
<1> SUFFICES ASSUME SessionsInit PROVE SessionsInv
  OBVIOUS
<1>1. IsFiniteSet(tokens) /\ Cardinality(tokens) = 0
  BY FS_EmptySet DEF SessionsInit
<1>2. TokensInv
  BY <1>1, SessionsAssumption DEF TokensInv, SessionsInit, SessionsAssumption, TokenIds
<1>3. CallsInv
  BY DEF CallsInv, SessionsInit, Phases
<1> QED BY <1>2, <1>3 DEF SessionsInv

\* Two more tokens, with the next two numbers.
LEMMA TwoMoreTokens ==
  ASSUME TokensInv, NEW x, NEW y, Cardinality(tokens) + 2 <= MaxTokens,
         x.id = Cardinality(tokens) + 1, y.id = Cardinality(tokens) + 2,
         x.user \in Accounts, y.user \in Accounts, x.expires \in Nat, y.expires \in Nat,
         tokens' = tokens \cup {x, y}, UNCHANGED <<revoked, blacklist, time>>
  PROVE  TokensInv'
<1> DEFINE n == Cardinality(tokens)
<1>1. n \in Nat
  BY FS_CardinalityType DEF TokensInv
<1>2. x \notin tokens /\ y \notin tokens /\ x # y
  BY <1>1 DEF TokensInv
<1>3. IsFiniteSet(tokens \cup {x}) /\ Cardinality(tokens \cup {x}) = n + 1
  BY <1>2, FS_AddElement DEF TokensInv
<1>4. IsFiniteSet((tokens \cup {x}) \cup {y}) /\ Cardinality((tokens \cup {x}) \cup {y}) = (n + 1) + 1
  BY <1>2, <1>3, FS_AddElement
<1>5. tokens' = (tokens \cup {x}) \cup {y}
  OBVIOUS
<1>6. IsFiniteSet(tokens') /\ Cardinality(tokens') = n + 2
  <2>1. (n + 1) + 1 = n + 2
    BY <1>1
  <2> QED BY <1>4, <1>5, <2>1
<1>7. \A t \in tokens : t.id \in 1..n
  BY DEF TokensInv
<1>8. MaxTokens \in Nat
  BY SessionsAssumption DEF SessionsAssumption
<1>9. \A t \in tokens' : t.id \in 1..(n + 2) /\ t.user \in Accounts /\ t.expires \in Nat
  BY <1>1, <1>7 DEF TokensInv
<1>10. \A t, u \in tokens' : t.id = u.id => t = u
  <2>1. \A t \in tokens : t.id # x.id /\ t.id # y.id
    BY <1>1, <1>7
  <2>2. x.id # y.id
    BY <1>1
  <2>3. \A t, u \in tokens : t.id = u.id => t = u
    BY DEF TokensInv
  <2> HIDE DEF n
  <2> QED BY <1>5, <2>1, <2>2, <2>3
<1>11. revoked[n + 1] = 0 /\ revoked[n + 2] = 0
  <2>1. n + 1 \in TokenIds /\ n + 2 \in TokenIds
    BY <1>1, <1>8 DEF TokenIds
  <2>2. \A i \in TokenIds : revoked[i] \in Nat /\ (revoked[i] > 0 => i <= n)
    BY DEF TokensInv
  <2> HIDE DEF n
  <2> QED BY <1>1, <2>1, <2>2
<1>12. \A t \in tokens' : revoked'[t.id] \in {0, t.expires}
  BY <1>11 DEF TokensInv
<1>13. \A i \in TokenIds : revoked'[i] > 0 => blacklist' /\ i <= n + 2
  BY <1>1, <1>8 DEF TokensInv, TokenIds
<1> QED BY <1>6, <1>9, <1>10, <1>12, <1>13 DEF TokensInv

\* Tokens and keys are untouched by all requests but these two.
LEMMA TokensStay ==
  ASSUME TokensInv, UNCHANGED <<tokens, revoked, blacklist>>, time' = time \/ time' = time + 1
  PROVE  TokensInv'
BY DEF TokensInv

\* The sets a request belongs to.
LEMMA WhoIsWho ==
  /\ \A q \in SignIns : q \notin Refreshes /\ q \notin Guarded
  /\ \A q \in Refreshes : q \notin Guarded /\ q \notin SignOuts /\ q \notin Signups
  /\ Guarded = Queries \cup SignOuts \cup Signups
  /\ AuthCalls = SignIns \cup Refreshes \cup Guarded
BY SessionsAssumption DEF SessionsAssumption, Guarded, AuthCalls

\* One lemma for each step of a request.
LEMMA SignInKept ==
  ASSUME SessionsInv, NEW q \in SignIns, SignIn(q)
  PROVE  SessionsInv'
<1>1. TokensInv'
  BY TokensStay DEF SignIn, authTables, SessionsInv
<1>2. CallsInv'
  BY WhoIsWho DEF SignIn, authTables, authHistory, SessionsInv, CallsInv, MovesOn, Replies, Phases
<1> QED BY <1>1, <1>2 DEF SessionsInv

\* New tokens leave those shown where they are.
LEMMA IssueKept ==
  ASSUME SessionsInv, NEW q \in AuthCalls, Issue(q)
  PROVE  SessionsInv'
<1> DEFINE n == Cardinality(tokens)
           New(i, k, life) == [id |-> n + i, kind |-> k, user |-> subject[q], expires |-> time + life]
           a == New(1, "access", Expiry)
           b == New(2, "refresh", RefreshExpiry)
<1>1. phase[q] = "issue" /\ subject[q] \in Accounts
  BY DEF Issue, Replies, SessionsInv, CallsInv
<1>2. TokensInv'
  <2>1. CASE UNCHANGED tokens
    BY <2>1, TokensStay DEF Issue, SessionsInv
  <2>2. CASE n + 2 <= MaxTokens /\ tokens' = tokens \cup {a, b}
    <3>1. time + Expiry \in Nat /\ time + RefreshExpiry \in Nat
      BY SessionsAssumption DEF SessionsAssumption, SessionsInv, TokensInv
    <3>2. /\ a.id = n + 1 /\ b.id = n + 2 /\ a.user \in Accounts /\ b.user \in Accounts
          /\ a.expires \in Nat /\ b.expires \in Nat
      BY <1>1, <3>1
    <3>3. UNCHANGED <<revoked, blacklist, time>>
      BY DEF Issue
    <3> HIDE DEF a, b
    <3> QED BY <2>2, <3>2, <3>3, TwoMoreTokens DEF SessionsInv
  <2> QED BY <2>1, <2>2 DEF Issue
<1>3. tokens \subseteq tokens'
  BY DEF Issue
<1>4. CallsInv'
  BY <1>1, <1>3 DEF Issue, authHistory, SessionsInv, CallsInv, Replies, Phases
<1> QED BY <1>2, <1>4 DEF SessionsInv

\* A token that has ended is noted as it comes.
LEMMA PresentsKept ==
  ASSUME SessionsInv, NEW q \in AuthCalls, Presents(q)
  PROVE  SessionsInv'
<1>1. TokensInv'
  BY TokensStay DEF Presents, authTables, SessionsInv
<1>2. PICK t \in tokens :
        /\ shown' = [shown EXCEPT ![q] = t]
        /\ subject' = [subject EXCEPT ![q] = t.user]
        /\ IF Valid(t) /\ t.kind = KindFor(q)
           THEN MovesOn(q, "idle", "check") ELSE Replies(q, "idle", "refused")
        /\ late' = IF revoked[t.id] > 0 THEN late \cup {q} ELSE late
        /\ barred' = IF account[t.user] = "disabled" THEN barred \cup {q} ELSE barred
  BY DEF Presents
<1>3. t.user \in Accounts
  BY DEF SessionsInv, TokensInv
<1>4. phase[q] = "idle" /\ q \notin late \cup barred
  BY <1>2 DEF MovesOn, Replies, SessionsInv, CallsInv
<1>5. UNCHANGED <<account, tokens, revoked, blacklist, excused>>
  BY DEF Presents, authTables
<1>6. CASE Valid(t) /\ t.kind = KindFor(q)
  <2>1. MovesOn(q, "idle", "check")
    BY <1>2, <1>6
  <2>2. result[q] # "served"
    BY <1>4 DEF SessionsInv, CallsInv
  <2>3. CallsInv'
    BY <1>2, <1>3, <1>4, <1>5, <2>1, <2>2 DEF SessionsInv, CallsInv, MovesOn, Phases
  <2> QED BY <1>1, <2>3 DEF SessionsInv
<1>7. CASE ~(Valid(t) /\ t.kind = KindFor(q))
  <2>1. Replies(q, "idle", "refused")
    BY <1>2, <1>7
  <2>2. CallsInv'
    BY <1>2, <1>3, <1>4, <1>5, <2>1 DEF SessionsInv, CallsInv, Replies, Phases
  <2> QED BY <1>1, <2>2 DEF SessionsInv
<1> QED BY <1>6, <1>7

\* The key is there for as long as the token is valid.
LEMMA CheckKeyKept ==
  ASSUME SessionsInv, NEW q \in AuthCalls, CheckKey(q)
  PROVE  SessionsInv'
<1>1. TokensInv'
  BY TokensStay DEF CheckKey, authTables, SessionsInv
<1>2. /\ phase[q] = "check" /\ shown[q] \in tokens
      /\ UNCHANGED <<account, tokens, revoked, blacklist, time, shown, subject, late, barred>>
  BY DEF CheckKey, SessionsInv, CallsInv, authTables
<1>3. ASSUME Accepted(q)
      PROVE  \/ q \in Refreshes /\ MovesOn(q, "check", "active")
             \/ q \in SignOuts /\ q \notin Refreshes /\ MovesOn(q, "check", "revoke")
             \/ q \in Signups /\ q \notin Refreshes /\ MovesOn(q, "check", "name")
             \/ q \notin Refreshes /\ Replies(q, "check", "served")
  BY <1>3, WhoIsWho DEF Accepted
<1>4. excused \subseteq excused'
  BY DEF CheckKey
<1>5. ASSUME q \in late, q \notin excused'
      PROVE  Replies(q, "check", "refused")
  <2>1. q \notin excused /\ revoked[shown[q].id] > 0
    BY <1>2, <1>4, <1>5 DEF SessionsInv, CallsInv
  <2>2. shown[q].id \in TokenIds
    <3>1. Cardinality(tokens) \in Nat /\ MaxTokens \in Nat /\ Cardinality(tokens) <= MaxTokens
      BY FS_CardinalityType, SessionsAssumption DEF SessionsInv, TokensInv, SessionsAssumption
    <3>2. shown[q].id \in 1..Cardinality(tokens)
      BY <1>2 DEF SessionsInv, TokensInv
    <3> QED BY <3>1, <3>2 DEF TokenIds
  <2>3. blacklist /\ revoked[shown[q].id] = shown[q].expires
    BY <1>2, <2>1, <2>2 DEF SessionsInv, TokensInv
  <2>4. Listed(shown[q]) = Valid(shown[q])
    BY <2>3 DEF Listed, Valid
  <2> QED BY <1>5, <2>3, <2>4 DEF CheckKey
<1>6. \/ q \in Refreshes /\ MovesOn(q, "check", "active")
      \/ q \in SignOuts /\ q \notin Refreshes /\ MovesOn(q, "check", "revoke")
      \/ q \in Signups /\ q \notin Refreshes /\ MovesOn(q, "check", "name")
      \/ q \notin Refreshes /\ Replies(q, "check", "served")
      \/ Replies(q, "check", "refused") \/ Replies(q, "check", "failed")
  BY <1>3 DEF CheckKey
<1>7. CASE q \in late /\ q \notin excused'
  <2>1. Replies(q, "check", "refused")
    BY <1>5, <1>7
  <2>2. CallsInv'
    BY <1>2, <1>4, <2>1 DEF SessionsInv, CallsInv, Replies, Phases
  <2> QED BY <1>1, <2>2 DEF SessionsInv
<1>8. CASE ~(q \in late /\ q \notin excused')
  <2>1. CASE Replies(q, "check", "refused") \/ Replies(q, "check", "failed")
    <3>1. CallsInv'
      BY <1>2, <1>4, <1>8, <2>1 DEF SessionsInv, CallsInv, Replies, Phases
    <3> QED BY <1>1, <3>1 DEF SessionsInv
  <2>2. CASE q \in Refreshes /\ MovesOn(q, "check", "active")
    <3>1. CallsInv'
      BY <1>2, <1>4, <1>8, <2>2 DEF SessionsInv, CallsInv, MovesOn, Phases
    <3> QED BY <1>1, <3>1 DEF SessionsInv
  <2>3. CASE \/ q \in SignOuts /\ q \notin Refreshes /\ MovesOn(q, "check", "revoke")
             \/ q \in Signups /\ q \notin Refreshes /\ MovesOn(q, "check", "name")
    <3>1. CallsInv'
      BY <1>2, <1>4, <1>8, <2>3 DEF SessionsInv, CallsInv, MovesOn, Phases
    <3> QED BY <1>1, <3>1 DEF SessionsInv
  <2>4. CASE q \notin Refreshes /\ Replies(q, "check", "served")
    <3>1. CallsInv'
      BY <1>2, <1>4, <1>8, <2>4 DEF SessionsInv, CallsInv, Replies, Phases
    <3> QED BY <1>1, <3>1 DEF SessionsInv
  <2> QED BY <1>6, <2>1, <2>2, <2>3, <2>4
<1> QED BY <1>7, <1>8

\* An account that is disabled stays so, and is seen.
LEMMA IsActiveKept ==
  ASSUME SessionsInv, NEW q \in AuthCalls, IsActive(q)
  PROVE  SessionsInv'
<1>1. TokensInv'
  BY TokensStay DEF IsActive, authTables, SessionsInv
<1>2. UNCHANGED <<account, tokens, revoked, blacklist, time, shown, subject, late, barred, excused>>
  BY DEF IsActive, authTables, authHistory
<1>3. CASE account[subject[q]] = "active" /\ MovesOn(q, "active", "revoke")
  <2>1. CallsInv'
    BY <1>2, <1>3 DEF SessionsInv, CallsInv, MovesOn, Phases
  <2> QED BY <1>1, <2>1 DEF SessionsInv
<1>4. CASE Replies(q, "active", "refused") \/ Replies(q, "active", "failed")
  <2>1. CallsInv'
    BY <1>2, <1>4 DEF SessionsInv, CallsInv, Replies, Phases
  <2> QED BY <1>1, <2>1 DEF SessionsInv
<1> QED BY <1>3, <1>4 DEF IsActive

\* A key is only written for a token that is still valid.
LEMMA RevokeKept ==
  ASSUME SessionsInv, NEW q \in AuthCalls, Revoke(q)
  PROVE  SessionsInv'
<1> DEFINE t == shown[q]
<1>1. phase[q] = "revoke" /\ t \in tokens
  BY DEF Revoke, SessionsInv, CallsInv
<1>2. UNCHANGED <<account, tokens, blacklist, time, shown, subject, late, barred, excused>>
  BY DEF Revoke, authHistory
<1>3. \/ UNCHANGED revoked
      \/ blacklist /\ time < t.expires /\ revoked' = [revoked EXCEPT ![t.id] = t.expires]
  BY DEF Revoke, Valid
<1>4. /\ t.id \in TokenIds /\ t.id <= Cardinality(tokens) /\ t.expires \in Nat /\ time \in Nat
  <2>1. Cardinality(tokens) \in Nat /\ MaxTokens \in Nat /\ Cardinality(tokens) <= MaxTokens
    BY FS_CardinalityType, SessionsAssumption DEF SessionsInv, TokensInv, SessionsAssumption
  <2> QED BY <1>1, <2>1 DEF SessionsInv, TokensInv, TokenIds
<1>5. TokensInv'
  <2>1. CASE UNCHANGED revoked
    BY <1>2, <2>1, TokensStay DEF SessionsInv
  <2>2. CASE blacklist /\ time < t.expires /\ revoked' = [revoked EXCEPT ![t.id] = t.expires]
    <3>1. revoked' \in [TokenIds -> Nat]
      BY <1>4, <2>2 DEF SessionsInv, TokensInv
    <3>2. \A u \in tokens' : revoked'[u.id] \in {0, u.expires}
      <4> SUFFICES ASSUME NEW u \in tokens PROVE revoked'[u.id] \in {0, u.expires}
        BY <1>2
      <4>1. CASE u.id = t.id
        BY <1>1, <1>4, <2>2, <4>1 DEF SessionsInv, TokensInv
      <4>2. CASE u.id # t.id
        BY <1>4, <2>2, <4>2 DEF SessionsInv, TokensInv
      <4> QED BY <4>1, <4>2
    <3>3. \A i \in TokenIds : revoked'[i] > 0 => blacklist' /\ i <= Cardinality(tokens')
      BY <1>2, <1>4, <2>2 DEF SessionsInv, TokensInv
    <3> QED BY <1>2, <3>1, <3>2, <3>3 DEF SessionsInv, TokensInv
  <2> QED BY <1>3, <2>1, <2>2
<1>6. \A i \in TokenIds : revoked[i] > 0 => revoked'[i] > 0
  BY <1>3, <1>4 DEF SessionsInv, TokensInv
<1>7. \A u \in tokens : u.id \in TokenIds
  <2>1. Cardinality(tokens) \in Nat /\ MaxTokens \in Nat /\ Cardinality(tokens) <= MaxTokens
    BY FS_CardinalityType, SessionsAssumption DEF SessionsInv, TokensInv, SessionsAssumption
  <2> QED BY <2>1 DEF SessionsInv, TokensInv, TokenIds
<1>8. \/ q \in Refreshes /\ MovesOn(q, "revoke", "issue")
      \/ q \notin Refreshes /\ Replies(q, "revoke", "served")
  BY DEF Revoke
<1>9. CallsInv'
  <2>1. CASE q \in Refreshes /\ MovesOn(q, "revoke", "issue")
    BY <1>1, <1>2, <1>6, <1>7, <2>1 DEF SessionsInv, CallsInv, MovesOn, Phases
  <2>2. CASE q \notin Refreshes /\ Replies(q, "revoke", "served")
    BY <1>1, <1>2, <1>6, <1>7, <2>2 DEF SessionsInv, CallsInv, Replies, Phases
  <2> QED BY <1>8, <2>1, <2>2
<1> QED BY <1>5, <1>9 DEF SessionsInv

\* Only a request for a new account changes its subject.
LEMMA NameFreeKept ==
  ASSUME SessionsInv, NEW q \in AuthCalls, NameFree(q)
  PROVE  SessionsInv'
<1>1. TokensInv'
  BY TokensStay DEF NameFree, authTables, SessionsInv
<1>2. phase[q] = "name"
  BY DEF NameFree, MovesOn, Replies
<1>3. UNCHANGED <<account, tokens, revoked, blacklist, time, shown, late, barred, excused>>
  BY DEF NameFree, authTables, authHistory
<1>4. PICK u \in Accounts : subject' = [subject EXCEPT ![q] = u]
  BY DEF NameFree
<1>5. MovesOn(q, "name", "insert") \/ Replies(q, "name", "refused") \/ Replies(q, "name", "failed")
  BY DEF NameFree
<1>6. CallsInv'
  <2>1. CASE MovesOn(q, "name", "insert")
    BY <1>2, <1>3, <1>4, <2>1, WhoIsWho DEF SessionsInv, CallsInv, MovesOn, Phases
  <2>2. CASE Replies(q, "name", "refused") \/ Replies(q, "name", "failed")
    BY <1>2, <1>3, <1>4, <2>2, WhoIsWho DEF SessionsInv, CallsInv, Replies, Phases
  <2> QED BY <1>5, <2>1, <2>2
<1> QED BY <1>1, <1>6 DEF SessionsInv

\* A new account is not one that is disabled.
LEMMA InsertAccountKept ==
  ASSUME SessionsInv, NEW q \in AuthCalls, InsertAccount(q)
  PROVE  SessionsInv'
<1>1. TokensInv'
  BY TokensStay DEF InsertAccount, SessionsInv
<1>2. UNCHANGED <<tokens, revoked, blacklist, time, shown, subject, late, barred, excused>>
  BY DEF InsertAccount, authHistory
<1>3. CASE Replies(q, "insert", "failed") /\ UNCHANGED account
  <2>1. CallsInv'
    BY <1>2, <1>3, WhoIsWho DEF SessionsInv, CallsInv, Replies, Phases
  <2> QED BY <1>1, <2>1 DEF SessionsInv
<1>4. CASE /\ account[subject[q]] = "none" /\ Replies(q, "insert", "served")
           /\ account' = [account EXCEPT ![subject[q]] = "active"]
  <2>1. q \in Signups
    BY <1>4 DEF SessionsInv, CallsInv, Replies
  <2>2. account' \in [Accounts -> {"none", "active", "disabled"}]
    BY <1>4 DEF SessionsInv, CallsInv
  <2>3. \A u \in Accounts : account[u] = "disabled" => account'[u] = "disabled"
    BY <1>4 DEF SessionsInv, CallsInv
  <2>4. Replies(q, "insert", "served") /\ q \notin Refreshes
    BY <1>4, <2>1, WhoIsWho
  <2>5. CallsInv'
    BY <1>2, <2>2, <2>3, <2>4 DEF SessionsInv, CallsInv, Replies, Phases
  <2> QED BY <1>1, <2>5 DEF SessionsInv
<1> QED BY <1>3, <1>4 DEF InsertAccount

\* Between requests accounts are disabled, and time passes.
LEMMA SurroundingsKept ==
  ASSUME SessionsInv, (\E u \in Accounts : Disable(u)) \/ TimePasses \/ UNCHANGED authVars
  PROVE  SessionsInv'
<1>1. TokensInv'
  BY TokensStay DEF Disable, TimePasses, authVars, authTables, SessionsInv
<1>2. CASE TimePasses \/ UNCHANGED authVars
  <2>1. CallsInv'
    BY <1>2 DEF TimePasses, authVars, authTables, authHistory, SessionsInv, CallsInv
  <2> QED BY <1>1, <2>1 DEF SessionsInv
<1>3. ASSUME NEW u \in Accounts, Disable(u)
      PROVE  CallsInv'
  BY <1>3 DEF Disable, authTables, authHistory, SessionsInv, CallsInv
<1> QED BY <1>1, <1>2, <1>3 DEF SessionsInv

\* Every step of the tokens and accounts.
LEMMA SessionsKept ==
  ASSUME SessionsInv,
         \/ \E q \in AuthCalls : SessionStep(q)
         \/ (\E u \in Accounts : Disable(u)) \/ TimePasses \/ UNCHANGED authVars
  PROVE  SessionsInv'
<1>1. ASSUME NEW q \in AuthCalls, SessionStep(q)
      PROVE  SessionsInv'
  BY <1>1, SignInKept, IssueKept, PresentsKept, CheckKeyKept, IsActiveKept, RevokeKept,
     NameFreeKept, InsertAccountKept DEF SessionStep
<1> QED BY <1>1, SurroundingsKept

\* The invariant is strong enough.
LEMMA SessionsSuffice == SessionsInv => RefusedAfterEnd
BY DEF SessionsInv, CallsInv, RefusedAfterEnd

\* The last tick at which a token can end.
LastTick == MaxTime + Expiry + RefreshExpiry

\* Tokens and keys end by the last tick.
SessionsBounds ==
  /\ \A t \in tokens : t \in Tokens /\ t.expires <= LastTick
  /\ \A i \in TokenIds : revoked[i] <= LastTick
  /\ time <= MaxTime
  /\ late \cup barred \cup excused \subseteq AuthCalls
  /\ authFaults \in 0..MaxAuthFaults

\* Only two steps write a token or a key.
LEMMA SessionsBoundsKept ==
  ASSUME SessionsInv, SessionsBounds,
         \/ \E q \in AuthCalls : SessionStep(q)
         \/ (\E u \in Accounts : Disable(u)) \/ TimePasses \/ UNCHANGED authVars
  PROVE  SessionsBounds'
<1>1. /\ MaxTime \in Nat /\ Expiry \in Nat /\ RefreshExpiry \in Nat /\ MaxTokens \in Nat
      /\ MaxAuthFaults \in Nat
  BY SessionsAssumption DEF SessionsAssumption
<1>2. time \in Nat /\ IsFiniteSet(tokens) /\ Cardinality(tokens) \in Nat
  BY FS_CardinalityType DEF SessionsInv, TokensInv
<1>3. ASSUME Granted \/ Denied PROVE authFaults' \in 0..MaxAuthFaults
  BY <1>1, <1>3 DEF Granted, Denied, SessionsBounds
<1>4. ASSUME UNCHANGED <<tokens, revoked, time>>, late' \cup barred' \cup excused' \subseteq AuthCalls,
             Granted \/ Denied
      PROVE  SessionsBounds'
  BY <1>3, <1>4 DEF SessionsBounds
<1>5. late \cup barred \cup excused \subseteq AuthCalls
  BY DEF SessionsBounds
<1>6. ASSUME NEW q \in AuthCalls, SignIn(q) \/ IsActive(q) \/ NameFree(q) PROVE SessionsBounds'
  <2>1. Granted \/ Denied
    BY <1>6 DEF SignIn, IsActive, NameFree
  <2>2. UNCHANGED <<tokens, revoked, time, late, barred, excused>>
    BY <1>6 DEF SignIn, IsActive, NameFree, authTables, authHistory
  <2> QED BY <1>4, <1>5, <2>1, <2>2
<1>7. ASSUME NEW q \in AuthCalls, Presents(q) PROVE SessionsBounds'
  <2>1. UNCHANGED <<tokens, revoked, time, excused, authFaults>>
    BY <1>7 DEF Presents, authTables
  <2>2. late' \subseteq late \cup {q} /\ barred' \subseteq barred \cup {q}
    BY <1>7 DEF Presents
  <2> QED BY <2>1, <2>2 DEF SessionsBounds
<1>8. ASSUME NEW q \in AuthCalls, CheckKey(q) PROVE SessionsBounds'
  <2>1. UNCHANGED <<tokens, revoked, time, late, barred>>
    BY <1>8 DEF CheckKey, authTables
  <2>2. excused' \subseteq excused \cup {q} /\ (Granted \/ Denied)
    BY <1>8 DEF CheckKey
  <2> QED BY <1>4, <1>5, <2>1, <2>2
<1>9. ASSUME NEW q \in AuthCalls, InsertAccount(q) PROVE SessionsBounds'
  <2>1. Granted \/ Denied
    BY <1>9 DEF InsertAccount
  <2>2. UNCHANGED <<tokens, revoked, time, late, barred, excused>>
    BY <1>9 DEF InsertAccount, authHistory
  <2> QED BY <1>4, <1>5, <2>1, <2>2
<1>10. ASSUME NEW q \in AuthCalls, Issue(q) PROVE SessionsBounds'
  <2> DEFINE n == Cardinality(tokens)
             x == [id |-> n + 1, kind |-> "access", user |-> subject[q], expires |-> time + Expiry]
             y == [id |-> n + 2, kind |-> "refresh", user |-> subject[q],
                   expires |-> time + RefreshExpiry]
  <2>1. /\ UNCHANGED <<revoked, time, late, barred, excused>> /\ (Granted \/ Denied)
        /\ \/ UNCHANGED tokens
           \/ n + 2 <= MaxTokens /\ tokens' = tokens \cup {x, y}
    BY <1>10 DEF Issue, authHistory
  <2>2. CASE UNCHANGED tokens
    BY <1>4, <1>5, <2>1, <2>2
  <2>3. CASE n + 2 <= MaxTokens /\ tokens' = tokens \cup {x, y}
    <3>1. phase[q] = "issue"
      BY <1>10 DEF Issue, Replies
    <3>2. subject[q] \in Accounts
      BY <3>1 DEF SessionsInv, CallsInv
    <3>3. n + 1 \in TokenIds /\ n + 2 \in TokenIds
      BY <1>1, <1>2, <2>3 DEF TokenIds
    <3>4. time + Expiry \in Nat /\ time + RefreshExpiry \in Nat
      BY <1>1, <1>2
    <3>5. time + Expiry <= LastTick /\ time + RefreshExpiry <= LastTick
      BY <1>1, <1>2 DEF LastTick, SessionsBounds
    <3>6. x \in Tokens /\ y \in Tokens
      BY <3>2, <3>3, <3>4 DEF Tokens
    <3>7. x.expires <= LastTick /\ y.expires <= LastTick
      BY <3>5
    <3> HIDE DEF x, y
    <3>8. \A t \in tokens' : t \in Tokens /\ t.expires <= LastTick
      BY <2>3, <3>6, <3>7 DEF SessionsBounds
    <3> QED BY <1>3, <2>1, <3>8 DEF SessionsBounds
  <2> QED BY <2>1, <2>2, <2>3
<1>11. ASSUME NEW q \in AuthCalls, Revoke(q) PROVE SessionsBounds'
  <2> DEFINE t == shown[q]
  <2>1. /\ UNCHANGED <<tokens, time, late, barred, excused>> /\ (Granted \/ Denied)
        /\ phase[q] = "revoke"
        /\ UNCHANGED revoked \/ revoked' = [revoked EXCEPT ![t.id] = t.expires]
    BY <1>11 DEF Revoke, authHistory
  <2>2. t \in tokens
    BY <2>1 DEF SessionsInv, CallsInv
  <2>3. t.expires <= LastTick
    BY <2>2 DEF SessionsBounds
  <2>4. \A i \in TokenIds : revoked'[i] <= LastTick
    BY <2>1, <2>3 DEF SessionsBounds, SessionsInv, TokensInv
  <2> QED BY <1>3, <2>1, <2>4 DEF SessionsBounds
<1>12. ASSUME NEW u \in Accounts, Disable(u) PROVE SessionsBounds'
  BY <1>12 DEF Disable, authHistory, SessionsBounds
<1>13. CASE TimePasses
  BY <1>1, <1>2, <1>13 DEF TimePasses, authTables, authHistory, SessionsBounds
<1>14. CASE UNCHANGED authVars
  BY <1>14 DEF authVars, authTables, authHistory, SessionsBounds
<1> QED BY <1>6, <1>7, <1>8, <1>9, <1>10, <1>11, <1>12, <1>13, <1>14 DEF SessionStep
-----------------------------------------------------------------------------
(* What a validation is given.                                             *)

\* A validation is at its query, from the first request to the last answer.
Reading == {"ask", "send", "retry", "poll", "fetch", "answered"}

\* The alerts are different ones, and only tests of the connection connect.
SiemInv ==
  /\ SiemTypeOK
  /\ \A i, j \in DOMAIN held : held[i] = held[j] => i = j
  /\ \A r \in Validators : place[r] \notin {"connect", "check", "login"}

\* Where a run is in its steps, and the shape of what it has written.
RunsInv ==
  /\ step \in [Validators -> 1..NSteps + 1]
  /\ \A r \in Validators : place[r] \in Reading \cup {"wait", "failed"} => step[r] <= NSteps
  /\ got \in [Validators -> SUBSET Alerts] /\ before \in [Validators -> SUBSET Alerts]
  /\ DOMAIN rows = Validators
  /\ \A r \in Validators : IsFiniteSet(rows[r]) /\ \A w \in rows[r] :
       /\ w.status \in {"detected", "missed"}
       /\ w.step \in 1..NSteps /\ w.expected \in Expected[w.step]
  /\ stored \in [Validators -> SUBSET UNION {rows[r] : r \in Validators}]
  /\ DOMAIN summary = Validators /\ \A r \in Validators : summary[r].score \in 0..Whole

\* Whatever a validation has, the SIEM has of its run; what was detected is so.
EarnedInv ==
  \A r \in Validators :
    /\ before[r] \cup got[r] \cup answer[r] \subseteq HeldOf(r)
    /\ \A w \in Detected(r) :
         \E a \in HeldOf(r) : Likeness(w.expected, a) > 0 /\ Severe(w.expected, a)

\* While all that a run has fits in less than a page, the first page is it.
FewRead(r) ==
  Cardinality(HeldOf(r)) < Limit /\ place[r] \in Reading =>
    offset[r] = 0 /\ (place[r] \in {"fetch", "answered"} => before[r] \subseteq answer[r])

\* The mock SIEM's pages are read in order; one that is not full is the last.
InOrderRead(r) ==
  provider = "mock" /\ place[r] \in Reading =>
    \A i \in OfRun(r) : held[i] \in before[r] =>
      /\ Nth(i, OfRun(r)) <= offset[r] => held[i] \in got[r]
      /\ place[r] \in {"fetch", "answered"} =>
           /\ Nth(i, OfRun(r)) <= offset[r] + Limit => held[i] \in got[r] \cup answer[r]
           /\ Cardinality(answer[r]) < Limit => Nth(i, OfRun(r)) <= offset[r] + Limit

\* A row that says missed was not read too early, nor too little.
ReadInv ==
  /\ \A r \in Validators : FewRead(r) /\ InOrderRead(r)
  /\ NothingMissed

\* The alerts at some positions are as many.
LEMMA AsManyAlerts ==
  ASSUME SiemInv, NEW P \in SUBSET DOMAIN held
  PROVE  /\ IsFiniteSet(P) /\ IsFiniteSet(AlertsAt(P))
         /\ Cardinality(AlertsAt(P)) = Cardinality(P)
         /\ Cardinality(P) \in Nat
<1>1. IsFiniteSet(P)
  <2>1. Len(held) \in Nat /\ DOMAIN held = 1..Len(held)
    BY DEF SiemInv, SiemTypeOK
  <2>2. IsFiniteSet(1..Len(held))
    BY <2>1, FS_Interval
  <2> QED BY <2>1, <2>2, FS_Subset
<1>2. ExistsBijection(P, AlertsAt(P))
  <2> DEFINE f == [i \in P |-> held[i]]
  <2>1. /\ f \in [P -> AlertsAt(P)]
        /\ \A a \in AlertsAt(P) : \E i \in P : f[i] = a
    BY DEF AlertsAt
  <2>2. \A i, j \in P : f[i] = f[j] => i = j
    BY DEF SiemInv
  <2> HIDE DEF f
  <2> QED BY <2>1, <2>2 DEF Bijection, Injection, Surjection, IsInjective, ExistsBijection
<1> QED BY <1>1, <1>2, FS_Bijection, FS_CardinalityType

\* The positions of a run, and what is there.
LEMMA RunPositions ==
  ASSUME SiemInv, NEW r \in Validators
  PROVE  /\ OfRun(r) \in SUBSET DOMAIN held
         /\ HeldOf(r) = AlertsAt(OfRun(r))
         /\ IsFiniteSet(OfRun(r)) /\ IsFiniteSet(HeldOf(r))
         /\ Cardinality(HeldOf(r)) = Cardinality(OfRun(r))
         /\ Cardinality(OfRun(r)) \in Nat
<1>1. OfRun(r) \in SUBSET DOMAIN held /\ HeldOf(r) = AlertsAt(OfRun(r))
  BY DEF OfRun, HeldOf, AlertsAt
<1> QED BY <1>1, AsManyAlerts

\* Nth counts the positions of P from 1 to the last.
LEMMA NthCounts ==
  ASSUME NEW P \in SUBSET Nat, IsFiniteSet(P)
  PROVE  /\ Cardinality(P) \in Nat
         /\ \A i \in P : Nth(i, P) \in 1..Cardinality(P)
         /\ [i \in P |-> Nth(i, P)] \in Bijection(P, 1..Cardinality(P))
<1> DEFINE n == Cardinality(P)
           f == [i \in P |-> Nth(i, P)]
<1>1. n \in Nat
  BY FS_CardinalityType
<1>2. \A i \in Nat : /\ IsFiniteSet({j \in P : j <= i})
                     /\ Nth(i, P) \in Nat /\ Nth(i, P) <= n
  BY FS_Subset, FS_CardinalityType DEF Nth
<1>3. \A i \in P : Nth(i, P) # 0
  <2> SUFFICES ASSUME NEW i \in P PROVE Nth(i, P) # 0
    OBVIOUS
  <2>1. i \in {j \in P : j <= i}
    OBVIOUS
  <2>2. {j \in P : j <= i} # {}
    BY <2>1
  <2> QED BY <1>2, <2>2, FS_EmptySet DEF Nth
<1>4. ASSUME NEW i \in P PROVE Nth(i, P) \in 1..n
  <2>1. Nth(i, P) \in Nat /\ Nth(i, P) <= n /\ Nth(i, P) # 0
    BY <1>2, <1>3
  <2> HIDE DEF n
  <2> QED BY <1>1, <2>1
<1>5. ASSUME NEW i \in P, NEW k \in P, i < k PROVE Nth(i, P) # Nth(k, P)
  <2>1. {j \in P : j <= i} \in SUBSET {j \in P : j <= k}
    <3>1. i \in Nat /\ k \in Nat /\ \A j \in P : j \in Nat
      OBVIOUS
    <3>2. \A j \in P : j <= i => j <= k
      BY <1>5, <3>1
    <3> QED BY <3>2
  <2>2. k \in {j \in P : j <= k} /\ k \notin {j \in P : j <= i}
    BY <1>5
  <2>3. {j \in P : j <= i} # {j \in P : j <= k}
    BY <2>2
  <2> QED BY <1>2, <2>1, <2>3, FS_Subset DEF Nth
<1>6. f \in Injection(P, 1..n)
  <2>1. f \in [P -> 1..n]
    BY <1>4
  <2>2. ASSUME NEW i \in P, NEW k \in P, f[i] = f[k] PROVE i = k
    <3>1. Nth(i, P) = Nth(k, P)
      BY <2>2
    <3>2. i \in Nat /\ k \in Nat /\ ~(i < k) /\ ~(k < i)
      BY <1>5, <3>1
    <3> QED BY <3>2
  <2> HIDE DEF f
  <2> QED BY <2>1, <2>2 DEF Injection, IsInjective
<1>7. IsFiniteSet(1..n) /\ Cardinality(1..n) = n
  BY <1>1, FS_Interval
<1>8. f \in Surjection(P, 1..n)
  <2> HIDE DEF f
  <2> QED BY <1>6, <1>7, FS_Injection
<1> QED BY <1>1, <1>4, <1>6, <1>8 DEF Bijection

\* A page that is followed by a position is full.
LEMMA PageIsFull ==
  ASSUME NEW P \in SUBSET Nat, IsFiniteSet(P), NEW from \in Nat, NEW k \in P,
         Nth(k, P) > from + Limit
  PROVE  Cardinality({i \in P : from < Nth(i, P) /\ Nth(i, P) <= from + Limit}) = Limit
<1> DEFINE R == {i \in P : from < Nth(i, P) /\ Nth(i, P) <= from + Limit}
           S == (from + 1)..(from + Limit)
           f == [i \in P |-> Nth(i, P)]
           g == [i \in R |-> Nth(i, P)]
<1>1. Limit \in Nat /\ Limit > 0
  BY SiemAssumption DEF SiemAssumption
<1>2. /\ Cardinality(P) \in Nat
      /\ \A i \in P : Nth(i, P) \in 1..Cardinality(P)
      /\ f \in Bijection(P, 1..Cardinality(P))
  BY NthCounts
<1>3. S \subseteq 1..Cardinality(P)
  BY <1>1, <1>2
<1>4. \A i \in R : Nth(i, P) \in S
  BY <1>1, <1>2
<1>5. \A i, j \in P : f[i] = f[j] => i = j
  BY <1>2 DEF Bijection, Injection, IsInjective
<1>6. g \in Injection(R, S)
  <2>1. g \in [R -> S]
    BY <1>4
  <2>2. \A i, j \in R : g[i] = g[j] => i = j
    BY <1>5
  <2> QED BY <2>1, <2>2 DEF Injection, IsInjective
<1>7. ASSUME NEW s \in S PROVE \E i \in R : g[i] = s
  <2>1. PICK i \in P : f[i] = s
    BY <1>2, <1>3 DEF Bijection, Surjection
  <2>2. Nth(i, P) = s /\ from < s /\ s <= from + Limit
    BY <1>1, <2>1
  <2> QED BY <2>2
<1>8. ExistsBijection(R, S)
  BY <1>6, <1>7 DEF Bijection, Surjection, Injection, IsInjective, ExistsBijection
<1>9. IsFiniteSet(R)
  BY FS_Subset
<1>10. Cardinality(S) = Limit
  BY <1>1, FS_Interval
<1> QED BY <1>8, <1>9, <1>10, FS_Bijection

\* What a page has of a run's alerts.
LEMMA PageGives ==
  ASSUME SiemInv, NEW r \in Validators, NEW p \in Pages(r)
  PROVE  /\ p \subseteq HeldOf(r)
         /\ Cardinality(HeldOf(r)) < Limit /\ offset[r] = 0 => p = HeldOf(r)
         /\ provider = "mock" => \A i \in OfRun(r) :
              /\ offset[r] < Nth(i, OfRun(r)) /\ Nth(i, OfRun(r)) <= offset[r] + Limit
                   => held[i] \in p
              /\ Cardinality(p) < Limit => Nth(i, OfRun(r)) <= offset[r] + Limit
<1> DEFINE P == OfRun(r)
           n == Cardinality(P)
           from == offset[r]
           R == {i \in P : from < Nth(i, P) /\ Nth(i, P) <= from + Limit}
<1>1. /\ P \in SUBSET DOMAIN held /\ HeldOf(r) = AlertsAt(P)
      /\ IsFiniteSet(P) /\ IsFiniteSet(HeldOf(r)) /\ Cardinality(HeldOf(r)) = n /\ n \in Nat
  BY RunPositions
<1>2. P \in SUBSET Nat /\ from \in Nat /\ Limit \in Nat /\ Limit > 0
  BY <1>1, SiemAssumption DEF SiemInv, SiemTypeOK, SiemAssumption, Callers
<1>3. \A i \in P : Nth(i, P) \in 1..n
  BY <1>1, <1>2, NthCounts
<1>4. CASE provider = "mock"
  <2>1. p = AlertsAt(R)
    BY <1>4 DEF Pages
  <2>2. ASSUME n < Limit, from = 0 PROVE R = P
    <3>1. ASSUME NEW i \in P PROVE from < Nth(i, P) /\ Nth(i, P) <= from + Limit
      <4>1. Nth(i, P) \in 1..n
        BY <1>3
      <4> HIDE DEF n, from, P
      <4> QED BY <1>1, <1>2, <2>2, <4>1
    <3> QED BY <3>1
  <2>3. \A i \in P : from < Nth(i, P) /\ Nth(i, P) <= from + Limit => held[i] \in p
    BY <2>1 DEF AlertsAt
  <2>4. ASSUME Cardinality(p) < Limit, NEW i \in P, ~(Nth(i, P) <= from + Limit)
        PROVE  FALSE
    <3>1. Nth(i, P) > from + Limit
      BY <1>2, <1>3, <2>4
    <3>2. Cardinality(R) = Limit
      BY <1>1, <1>2, <3>1, PageIsFull
    <3>3. R \in SUBSET DOMAIN held
      BY <1>1
    <3>4. Cardinality(AlertsAt(R)) = Cardinality(R)
      BY <3>3, AsManyAlerts
    <3> QED BY <1>2, <2>1, <2>4, <3>2, <3>4
  <2> QED BY <1>1, <2>1, <2>2, <2>3, <2>4 DEF AlertsAt
<1>5. CASE provider = "elasticsearch"
  <2> DEFINE size == IF n <= from THEN 0 ELSE IF n - from < Limit THEN n - from ELSE Limit
  <2>1. p \in kSubset(size, AlertsAt(P))
    BY <1>5 DEF Pages
  <2>2. p \subseteq AlertsAt(P) /\ Cardinality(p) = size
    BY <2>1 DEF kSubset
  <2>3. ASSUME n < Limit, from = 0 PROVE p = HeldOf(r)
    <3>1. size = n
      BY <1>1, <1>2, <2>3
    <3>2. Cardinality(p) = Cardinality(HeldOf(r))
      BY <1>1, <2>2, <3>1
    <3> QED BY <1>1, <2>2, <3>2, FS_Subset
  <2> QED BY <1>1, <1>5, <2>2, <2>3
<1>6. CASE provider = "splunk"
  <2>1. p = AlertsAt({i \in P : n < Nth(i, P) + Limit})
    BY <1>6 DEF Pages
  <2>2. ASSUME n < Limit PROVE {i \in P : n < Nth(i, P) + Limit} = P
    BY <1>1, <1>2, <1>3, <2>2
  <2> QED BY <1>1, <1>6, <2>1, <2>2 DEF AlertsAt
<1> QED BY <1>4, <1>5, <1>6 DEF SiemInv, SiemTypeOK, Provider

\* Who moves goes where one can be; only tests of the connection connect.
LEMMA MoveTyped ==
  ASSUME SiemInv, NEW c \in Callers, NEW from, NEW to \in Waiting \cup OwnPlace,
         Move(c, from, to), c \in Validators => to \notin {"connect", "check", "login"}
  PROVE  /\ place' \in [Callers -> Waiting \cup OwnPlace]
         /\ \A r \in Validators : place'[r] \notin {"connect", "check", "login"}
  BY DEF SiemInv, SiemTypeOK, Move, Callers

\* A failure is counted for the SIEM and for the caller.
LEMMA FailsTyped ==
  ASSUME SiemInv, NEW c \in Callers, NEW from, Fails(c, from)
  PROVE  SiemInv'
<1>1. siemFaults' \in 0..MaxSiemFaults
  BY SiemAssumption DEF SiemInv, SiemTypeOK, SiemAssumption, Fails, Breaks, FaultSpent
<1>2. tries' \in [Callers -> 0..MaxRetries]
  BY SiemAssumption DEF SiemInv, SiemTypeOK, SiemAssumption, Fails, GivesUp
<1>3. PICK to \in {"failed", "retry"} : Move(c, from, to)
  BY DEF Fails
<1>4. /\ place' \in [Callers -> Waiting \cup OwnPlace]
      /\ \A r \in Validators : place'[r] \notin {"connect", "check", "login"}
  BY <1>3, MoveTyped DEF Waiting, OwnPlace
<1> QED BY <1>1, <1>2, <1>4 DEF SiemInv, SiemTypeOK, Fails

\* A page is of alerts there are.
LEMMA PagesTyped ==
  ASSUME SiemInv, NEW c \in Callers, NEW p \in Pages(c)
  PROVE  p \in SUBSET Alerts
<1>1. \A P \in SUBSET DOMAIN held : AlertsAt(P) \subseteq Alerts
  BY DEF SiemInv, SiemTypeOK, AlertsAt
<1>2. OfRun(c) \in SUBSET DOMAIN held
  BY DEF OfRun
<1>3. \E P \in SUBSET DOMAIN held : p \subseteq AlertsAt(P)
  <2>1. CASE provider = "mock"
    <3>1. p = AlertsAt({i \in OfRun(c) : /\ offset[c] < Nth(i, OfRun(c))
                                        /\ Nth(i, OfRun(c)) <= offset[c] + Limit})
      BY <2>1 DEF Pages
    <3> QED BY <1>2, <3>1
  <2>2. CASE provider = "elasticsearch"
    BY <1>2, <2>2 DEF Pages, kSubset
  <2>3. CASE provider = "splunk"
    <3>1. p = AlertsAt({i \in OfRun(c) : Cardinality(OfRun(c)) < Nth(i, OfRun(c)) + Limit})
      BY <2>3 DEF Pages
    <3> QED BY <1>2, <3>1
  <2> QED BY <2>1, <2>2, <2>3 DEF SiemInv, SiemTypeOK, Provider
<1> QED BY <1>1, <1>3

\* A request of a caller.
LEMMA RequestsTyped ==
  ASSUME SiemInv, NEW c \in Callers, Requests(c)
  PROVE  SiemInv'
<1> DEFINE Placed == /\ place' \in [Callers -> Waiting \cup OwnPlace]
                     /\ \A r \in Validators : place'[r] \notin {"connect", "check", "login"}
<1>1. CASE Ask(c)
  <2>1. PICK to \in {"failed", "send"} : Move(c, "ask", to)
    BY <1>1 DEF Ask
  <2>2. Placed
    BY <2>1, MoveTyped DEF Waiting, OwnPlace
  <2>3. tries' \in [Callers -> 0..MaxRetries]
    BY <1>1, SiemAssumption DEF Ask, SiemInv, SiemTypeOK, SiemAssumption
  <2> QED BY <1>1, <2>2, <2>3 DEF Ask, SiemInv, SiemTypeOK
<1>2. ASSUME NEW from, NEW to \in {"answered", "fetch"}, Move(c, from, to), Answers(c),
             \E p \in Pages(c) : answer' = [answer EXCEPT ![c] = p],
             UNCHANGED <<provider, held, token, tries, offset, ended>>
      PROVE  SiemInv'
  <2>1. Placed
    BY <1>2, MoveTyped DEF Waiting, OwnPlace
  <2>2. answer' \in [Callers -> SUBSET Alerts]
    BY <1>2, PagesTyped DEF SiemInv, SiemTypeOK
  <2> QED BY <1>2, <2>1, <2>2 DEF Answers, SiemInv, SiemTypeOK
<1>3. ASSUME NEW from, NEW to \in {"answered", "poll"}, Move(c, from, to), Answers(c),
             UNCHANGED <<provider, held, token, tries, offset, answer, ended>>
      PROVE  SiemInv'
  <2>1. Placed
    BY <1>3, MoveTyped DEF Waiting, OwnPlace
  <2> QED BY <1>3, <2>1 DEF Answers, SiemInv, SiemTypeOK
<1>4. CASE Send(c)
  BY <1>2, <1>3, <1>4, FailsTyped DEF Send
<1>5. CASE JobDone(c)
  BY <1>2, <1>5 DEF JobDone
<1>6. CASE PollFails(c)
  BY <1>6, FailsTyped DEF PollFails
<1>7. CASE Fetch(c)
  BY <1>3, <1>7, FailsTyped DEF Fetch
<1>8. CASE Retry(c)
  <2>1. PICK to \in {"failed", "connect", "send"} :
          Move(c, "retry", to) /\ (to = "connect" => c \in Testers)
    BY <1>8 DEF Retry
  <2>2. c \in Validators => to \notin {"connect", "check", "login"}
    BY <2>1, SiemAssumption DEF SiemAssumption
  <2>3. Placed
    BY <2>1, <2>2, MoveTyped DEF Waiting, OwnPlace
  <2> QED BY <1>8, <2>3 DEF Retry, SiemInv, SiemTypeOK
<1> QED BY <1>1, <1>4, <1>5, <1>6, <1>7, <1>8 DEF Requests

\* A test of the connection.
LEMMA TestsTyped ==
  ASSUME SiemInv, NEW c \in Testers, Tests(c)
  PROVE  SiemInv'
<1> DEFINE Placed == /\ place' \in [Callers -> Waiting \cup OwnPlace]
                     /\ \A r \in Validators : place'[r] \notin {"connect", "check", "login"}
<1>1. c \in Callers /\ c \notin Validators
  BY SiemAssumption DEF SiemAssumption, Callers
<1>2. ASSUME NEW from, NEW to \in Waiting \cup OwnPlace, Move(c, from, to) PROVE Placed
  BY <1>1, <1>2, MoveTyped
<1>3. ASSUME Breaks(c), FaultSpent(c) PROVE siemFaults' \in 0..MaxSiemFaults
  BY <1>3, SiemAssumption DEF SiemInv, SiemTypeOK, SiemAssumption, Breaks, FaultSpent
<1>4. CASE Move(c, "idle", "connect") /\ UNCHANGED <<siemRest, offset, answer>>
  <2>1. Placed
    BY <1>2, <1>4 DEF Waiting
  <2> QED BY <1>4, <2>1 DEF siemRest, SiemInv, SiemTypeOK
<1>5. CASE Connect(c)
  <2>1. CASE Fails(c, "connect")
    BY <1>1, <2>1, FailsTyped
  <2>2. CASE ~Fails(c, "connect")
    <3>1. PICK to \in {"login", "check", "over"} : Move(c, "connect", to)
      BY <1>5, <2>2 DEF Connect
    <3>2. Placed
      BY <1>2, <3>1 DEF Waiting, OwnPlace
    <3> QED BY <1>5, <2>2, <3>2 DEF Connect, Answers, SiemInv, SiemTypeOK
  <2> QED BY <2>1, <2>2
<1>6. CASE Check(c)
  <2>1. PICK to \in {"login", "over"} : Move(c, "check", to)
    BY <1>6 DEF Check
  <2>2. Placed
    BY <1>2, <2>1 DEF Waiting, OwnPlace
  <2>3. siemFaults' \in 0..MaxSiemFaults
    BY <1>3, <1>6 DEF Check, Answers, SiemInv, SiemTypeOK
  <2> QED BY <1>6, <2>2, <2>3 DEF Check, SiemInv, SiemTypeOK
<1>7. CASE Login(c)
  <2>1. PICK to \in {"over", "failed", "retry"} : Move(c, "login", to)
    BY <1>7 DEF Login
  <2>2. Placed
    BY <1>2, <2>1 DEF Waiting, OwnPlace
  <2>3. siemFaults' \in 0..MaxSiemFaults /\ tries' \in [Callers -> 0..MaxRetries]
    BY <1>7, SiemAssumption, SMTT(30) DEF Login, GivesUp, SiemInv, SiemTypeOK, SiemAssumption
  <2> QED BY <1>7, <2>2, <2>3 DEF Login, SiemInv, SiemTypeOK
<1>8. CASE Retry(c)
  BY <1>1, <1>8, RequestsTyped DEF Requests
<1> QED BY <1>4, <1>5, <1>6, <1>7, <1>8 DEF Tests

\* A step of a run.
LEMMA ValidatesTyped ==
  ASSUME SiemInv, NEW r \in Validators, Validates(r)
  PROVE  SiemInv'
<1> DEFINE Placed == /\ place' \in [Callers -> Waiting \cup OwnPlace]
                     /\ \A q \in Validators : place'[q] \notin {"connect", "check", "login"}
<1>1. r \in Callers
  BY DEF Callers
<1>2. CASE Requests(r)
  BY <1>1, <1>2, RequestsTyped
<1>3. CASE UNCHANGED siemVars
  BY <1>3 DEF siemVars, SiemInv, SiemTypeOK
<1>4. ASSUME \/ UNCHANGED place
             \/ \E from, to \in {"idle", "wait", "failed", "ask", "answered", "notify",
                                 "sending", "over"} : Move(r, from, to),
             UNCHANGED siemRest,
             offset' = offset \/ \E n \in Nat : offset' = [offset EXCEPT ![r] = n],
             answer' = answer \/ answer' = [answer EXCEPT ![r] = {}]
      PROVE  SiemInv'
  <2>1. Placed
    <3>1. CASE UNCHANGED place
      BY <3>1 DEF SiemInv, SiemTypeOK
    <3>2. ASSUME NEW from, NEW to \in {"idle", "wait", "failed", "ask", "answered",
                                       "notify", "sending", "over"}, Move(r, from, to)
          PROVE  Placed
      BY <1>1, <3>2, MoveTyped DEF Waiting, OwnPlace
    <3> QED BY <1>4, <3>1, <3>2
  <2>2. offset' \in [Callers -> Nat] /\ answer' \in [Callers -> SUBSET Alerts]
    BY <1>4 DEF SiemInv, SiemTypeOK
  <2> QED BY <1>4, <2>1, <2>2 DEF siemRest, SiemInv, SiemTypeOK
<1>5. CASE Execute(r) \/ SeesStop(r) \/ Complete(r) \/ Notify(r) \/ Return(r)
  BY <1>4, <1>5 DEF Execute, SeesStop, Complete, Notify, Return, Move
<1>6. CASE Propagated(r)
  BY <1>4, <1>6 DEF Propagated
<1>7. CASE ReadOn(r)
  <2>1. offset[r] + Limit \in Nat
    BY <1>1, SiemAssumption DEF SiemInv, SiemTypeOK, SiemAssumption
  <2> QED BY <1>4, <1>7, <2>1 DEF ReadOn
<1>8. CASE Judge(r) \/ NotJudged(r)
  BY <1>4, <1>8 DEF Judge, NotJudged
<1> QED BY <1>2, <1>3, <1>5, <1>6, <1>7, <1>8
        DEF Validates, Advances, Requests, Sends

\* Every step of the services.
LEMMA SiemKept ==
  ASSUME SiemInv, mix \in Mixes, [Next]_vars
  PROVE  SiemInv'
<1>1. CASE UNCHANGED siemVars
  BY <1>1 DEF siemVars, SiemInv, SiemTypeOK
<1>2. ASSUME NEW r \in Validators, ContextEnds(r) PROVE SiemInv'
  BY <1>2 DEF ContextEnds, SiemInv, SiemTypeOK
<1>3. ASSUME NEW c \in Readers, Reads(c) PROVE SiemInv'
  <2>1. c \in Callers /\ c \notin Validators
    BY SiemAssumption DEF SiemAssumption, Callers
  <2>2. CASE Requests(c)
    BY <2>1, <2>2, RequestsTyped
  <2>3. CASE /\ Move(c, "idle", "ask")
             /\ offset' \in {[offset EXCEPT ![c] = n] : n \in {0, Limit}}
             /\ UNCHANGED <<siemRest, answer>>
    <3>1. /\ place' \in [Callers -> Waiting \cup OwnPlace]
          /\ \A q \in Validators : place'[q] \notin {"connect", "check", "login"}
      BY <2>1, <2>3, MoveTyped DEF Waiting
    <3>2. PICK n \in {0, Limit} : offset' = [offset EXCEPT ![c] = n]
      BY <2>3
    <3>3. offset' \in [Callers -> Nat]
      <4>1. n \in Nat
        BY SiemAssumption DEF SiemAssumption
      <4>2. offset \in [Callers -> Nat]
        BY DEF SiemInv, SiemTypeOK
      <4> QED BY <3>2, <4>1, <4>2
    <3> QED BY <2>3, <3>1, <3>3 DEF siemRest, SiemInv, SiemTypeOK
  <2> QED BY <1>3, <2>2, <2>3 DEF Reads
<1>4. CASE SessionEnds
  BY <1>4, SiemAssumption DEF SessionEnds, SiemInv, SiemTypeOK, SiemAssumption
<1>5. ASSUME NEW a \in Alerts, Arrives(a) PROVE SiemInv'
  <2>1. held \in Seq(Alerts) /\ held' = Append(held, a) /\ \A i \in DOMAIN held : held[i] # a
    BY <1>5 DEF Arrives, SiemInv, SiemTypeOK
  <2>2. held' \in Seq(Alerts)
    BY <2>1
  <2>3. \A i, j \in DOMAIN held' : held'[i] = held'[j] => i = j
    <3>1. /\ DOMAIN held' = DOMAIN held \cup {Len(held) + 1}
          /\ held'[Len(held) + 1] = a
          /\ \A i \in DOMAIN held : held'[i] = held[i]
      BY <2>1
    <3> QED BY <2>1, <3>1 DEF SiemInv
  <2> QED BY <1>5, <2>2, <2>3 DEF Arrives, SiemInv, SiemTypeOK
<1>6. CASE Progressing \/ Limiting \/ Authenticating \/ UNCHANGED vars
  BY <1>1, <1>6 DEF Progressing, Limiting, Authenticating, vars
<1>7. CASE Detecting
  <2>1. mix.alerts \subseteq Alerts
    BY ServicesAssumption DEF ServicesAssumption, MixOK
  <2> QED BY <1>1, <1>2, <1>3, <1>4, <1>5, <1>7, <2>1, ValidatesTyped, TestsTyped
          DEF Detecting, SenderExpires
<1> QED BY <1>6, <1>7 DEF Next

\* A step of a run's validation, for what it has: nothing of it changes, except
\* where it is, ...
Aside(r) ==
  /\ offset'[r] = offset[r] /\ answer'[r] = answer[r] /\ got'[r] = got[r]
  /\ before'[r] = before[r] /\ rows'[r] = rows[r]
  /\ \/ place'[r] = place[r] \/ place'[r] \notin Reading
     \/ place[r] \in Reading /\ place'[r] \in {"send", "retry", "poll"}
     \/ place[r] = "fetch" /\ place'[r] = "answered"

\* ... or it is given a page.
Given(r) ==
  /\ offset'[r] = offset[r] /\ got'[r] = got[r]
  /\ before'[r] = before[r] /\ rows'[r] = rows[r]
  /\ place[r] \in {"send", "poll"} /\ place'[r] \in {"fetch", "answered"}
  /\ answer'[r] \in Pages(r)

\* The requests of a run.
LEMMA RequestsMoves ==
  ASSUME SiemInv, NEW r \in Validators, Requests(r), UNCHANGED runVars
  PROVE  Aside(r) \/ Given(r)
<1> USE DEF runVars
<1>1. r \in Callers /\ r \notin Testers /\ Callers = DOMAIN place /\ Callers = DOMAIN answer
  BY SiemAssumption DEF SiemAssumption, Callers, SiemInv, SiemTypeOK
<1>2. ASSUME NEW from \in Reading, Fails(r, from) PROVE Aside(r)
  BY <1>1, <1>2 DEF Fails, Move, Aside, Reading
<1>3. CASE Ask(r)
  BY <1>1, <1>3 DEF Ask, Move, Aside, Reading
<1>4. ASSUME NEW from \in {"send", "poll"}, NEW to \in {"fetch", "answered"},
             Move(r, from, to), UNCHANGED offset,
             \E p \in Pages(r) : answer' = [answer EXCEPT ![r] = p]
      PROVE  Given(r)
  BY <1>1, <1>4 DEF Given, Move
<1>5. CASE Send(r)
  <2>1. CASE Move(r, "send", "poll") /\ UNCHANGED <<offset, answer>>
    BY <1>1, <2>1 DEF Move, Aside, Reading
  <2> QED BY <1>2, <1>4, <1>5, <2>1 DEF Send, Reading
<1>6. CASE JobDone(r)
  BY <1>4, <1>6 DEF JobDone
<1>7. CASE PollFails(r)
  BY <1>2, <1>7 DEF PollFails, Reading
<1>8. CASE Fetch(r)
  <2>1. CASE Move(r, "fetch", "answered") /\ UNCHANGED <<offset, answer>>
    BY <1>1, <2>1 DEF Move, Aside, Reading
  <2> QED BY <1>2, <1>8, <2>1 DEF Fetch, Reading
<1>9. CASE Retry(r)
  BY <1>1, <1>9 DEF Retry, Move, Aside, Reading
<1> QED BY <1>3, <1>5, <1>6, <1>7, <1>8, <1>9 DEF Requests

\* Every step, for a run: alerts arrive, or nothing does.
LEMMA RunMoves ==
  ASSUME SiemInv, RunsInv, mix \in Mixes, [Next]_vars, NEW r \in Validators
  PROVE  /\ provider' = provider
         /\ \/ (\E a \in Alerts : Arrives(a)) /\ UNCHANGED runVars
            \/ /\ held' = held
               /\ \/ Aside(r) \/ Given(r) \/ Propagated(r) \/ ReadOn(r) \/ Judge(r)
                  \/ NotJudged(r)
<1>0. /\ r \in Callers /\ Callers = DOMAIN place /\ Callers = DOMAIN offset
      /\ Callers = DOMAIN answer
      /\ r \in DOMAIN got /\ r \in DOMAIN before /\ r \in DOMAIN rows
  <2>1. r \in DOMAIN got /\ r \in DOMAIN before /\ r \in DOMAIN rows
    BY DEF RunsInv
  <2> QED BY <2>1 DEF Callers, SiemInv, SiemTypeOK
<1>1. ASSUME UNCHANGED <<offset, answer, got, before, rows>>, UNCHANGED place
      PROVE  Aside(r)
  BY <1>1 DEF Aside
<1>2. ASSUME NEW q \in Validators, Validates(q)
      PROVE  /\ provider' = provider /\ held' = held
             /\ \/ Aside(r) \/ Given(r) \/ Propagated(r) \/ ReadOn(r) \/ Judge(r)
                \/ NotJudged(r)
  <2>1. CASE UNCHANGED <<siemVars, runVars>>
    BY <1>1, <2>1 DEF siemVars, runVars
  <2>2. CASE Execute(q) \/ SeesStop(q) \/ Complete(q) \/ Notify(q) \/ Return(q)
    <3>1. /\ UNCHANGED <<provider, held, offset, answer, got, before, rows>>
          /\ UNCHANGED place \/ \E to \in {"wait", "over", "notify", "sending"} :
                                  place' = [place EXCEPT ![q] = to]
      BY <2>2
      DEF Execute, SeesStop, Complete, Notify, Return, Move, siemRest, runVars
    <3> QED BY <1>0, <3>1 DEF Aside, Reading
  <2>3. CASE Requests(q) /\ UNCHANGED runVars
    <3>1. provider' = provider /\ held' = held
      BY <2>3
      DEF Requests, Ask, Send, JobDone, PollFails, Fetch, Retry, Fails
    <3>2. CASE q = r
      BY <2>3, <3>1, <3>2, RequestsMoves
    <3>3. CASE q # r
      <4>1. /\ UNCHANGED <<got, before, rows>> /\ offset' = offset
            /\ answer'[r] = answer[r] /\ place'[r] = place[r]
        BY <1>0, <2>3, <3>3
        DEF runVars, Requests, Ask, Send, JobDone, PollFails, Fetch, Retry, Fails, Move
      <4> QED BY <3>1, <4>1 DEF Aside
    <3> QED BY <3>2, <3>3
  <2>4. CASE Propagated(q) \/ ReadOn(q) \/ Judge(q) \/ NotJudged(q)
    <3>1. provider' = provider /\ held' = held
      BY <2>4 DEF Propagated, ReadOn, Judge, NotJudged, siemRest
    <3>2. CASE q # r
      <4>1. /\ offset'[r] = offset[r] /\ answer'[r] = answer[r] /\ got'[r] = got[r]
            /\ before'[r] = before[r] /\ rows'[r] = rows[r] /\ place'[r] = place[r]
        BY <1>0, <2>4, <3>2 DEF Propagated, ReadOn, Judge, NotJudged, Move
      <4> QED BY <3>1, <4>1 DEF Aside
    <3> QED BY <2>4, <3>1, <3>2
  <2> QED BY <1>2, <2>1, <2>2, <2>3, <2>4
          DEF Validates, Advances, Requests, Sends
<1>3. ASSUME NEW c \in Testers \cup Readers, Tests(c) \/ Reads(c)
      PROVE  provider' = provider /\ held' = held /\ Aside(r)
  <2>1. c # r
    BY SiemAssumption DEF SiemAssumption
  <2>2. UNCHANGED <<provider, held, runVars>>
    BY <1>3
    DEF Tests, Reads, Requests, Ask, Send, JobDone, PollFails, Fetch, Retry, Fails,
        Connect, Check, Login, siemRest
  <2>3. /\ offset'[r] = offset[r] /\ answer'[r] = answer[r] /\ place'[r] = place[r]
    BY <1>0, <1>3, <2>1
    DEF Tests, Reads, Requests, Ask, Send, JobDone, PollFails, Fetch, Retry, Fails,
        Connect, Check, Login, Move, siemRest
  <2> QED BY <2>2, <2>3 DEF Aside, runVars
<1>4. ASSUME NEW q \in Validators, ContextEnds(q) \/ SenderExpires(q)
      PROVE  provider' = provider /\ held' = held /\ Aside(r)
  BY <1>4 DEF ContextEnds, SenderExpires, Aside, siemVars, runVars
<1>5. CASE SessionEnds /\ UNCHANGED runVars
  BY <1>5 DEF SessionEnds, Aside, runVars
<1>6. CASE Progressing \/ Limiting \/ Authenticating \/ UNCHANGED vars
  <2>1. UNCHANGED <<siemVars, runVars>>
    BY <1>6 DEF Progressing, Limiting, Authenticating, vars
  <2> QED BY <1>1, <2>1 DEF siemVars, runVars
<1>7. ASSUME NEW a \in mix.alerts, Arrives(a), UNCHANGED runVars
      PROVE  /\ provider' = provider
             /\ (\E b \in Alerts : Arrives(b)) /\ UNCHANGED runVars
  <2>1. a \in Alerts
    BY ServicesAssumption DEF ServicesAssumption, MixOK
  <2> QED BY <1>7, <2>1 DEF Arrives
<1>8. CASE Detecting
  BY <1>2, <1>3, <1>4, <1>5, <1>7, <1>8 DEF Detecting
<1> QED BY <1>6, <1>8 DEF Next

\* An alert more: positions keep their count, and what was there stays.
LEMMA ArrivalKeeps ==
  ASSUME SiemInv, NEW a \in Alerts, Arrives(a), NEW r \in Validators
  PROVE  /\ OfRun(r) \subseteq OfRun(r)' /\ HeldOf(r) \subseteq HeldOf(r)'
         /\ \A i \in OfRun(r)' : held'[i] \in HeldOf(r) =>
              /\ i \in OfRun(r) /\ held'[i] = held[i]
              /\ Nth(i, OfRun(r)') = Nth(i, OfRun(r))
<1> DEFINE P == OfRun(r)
<1>1. /\ held \in Seq(Alerts) /\ held' = Append(held, a) /\ Len(held) \in Nat
      /\ DOMAIN held = 1..Len(held) /\ \A i \in DOMAIN held : held[i] # a
  BY DEF Arrives, SiemInv, SiemTypeOK
<1>2. /\ DOMAIN held' = DOMAIN held \cup {Len(held) + 1}
      /\ held'[Len(held) + 1] = a
      /\ \A i \in DOMAIN held : held'[i] = held[i]
  BY <1>1
<1>3. P \subseteq P' /\ P' \subseteq P \cup {Len(held) + 1} /\ P \subseteq DOMAIN held
  BY <1>2 DEF OfRun
<1>4. HeldOf(r) \subseteq HeldOf(r)'
  BY <1>2 DEF HeldOf
<1>5. ASSUME NEW i \in P PROVE Nth(i, P') = Nth(i, P)
  <2>1. \A j \in P' : j <= i => j \in P
    BY <1>1, <1>3, <1>5
  <2>2. {j \in P' : j <= i} = {j \in P : j <= i}
    BY <1>3, <2>1
  <2> QED BY <2>2 DEF Nth
<1>6. ASSUME NEW i \in P', held'[i] \in HeldOf(r) PROVE i \in P /\ held'[i] = held[i]
  <2>1. held'[i] # a
    BY <1>1, <1>6 DEF HeldOf
  <2> QED BY <1>2, <1>3, <1>6, <2>1
<1> QED BY <1>3, <1>4, <1>5, <1>6

\* What the SIEM has of a run only grows.
LEMMA HeldGrows ==
  ASSUME SiemInv, NEW r \in Validators,
         held' = held \/ \E a \in Alerts : Arrives(a)
  PROVE  /\ HeldOf(r) \subseteq HeldOf(r)'
         /\ Cardinality(HeldOf(r)) \in Nat /\ Cardinality(HeldOf(r)') \in Nat
         /\ Cardinality(HeldOf(r)) <= Cardinality(HeldOf(r)')
<1>1. HeldOf(r) \subseteq HeldOf(r)'
  BY ArrivalKeeps DEF HeldOf
<1>2. IsFiniteSet(HeldOf(r)) /\ Cardinality(HeldOf(r)) \in Nat
  BY RunPositions
<1>3. IsFiniteSet(HeldOf(r)')
  <2>1. CASE held' = held
    BY <1>2, <2>1 DEF HeldOf
  <2>2. ASSUME NEW a \in Alerts, Arrives(a) PROVE IsFiniteSet(HeldOf(r)')
    <3>1. \A i \in DOMAIN held' : held'[i] = a \/ (i \in DOMAIN held /\ held'[i] = held[i])
      BY <2>2 DEF Arrives, SiemInv, SiemTypeOK
    <3>2. HeldOf(r)' \subseteq HeldOf(r) \cup {a}
      BY <3>1 DEF HeldOf
    <3>3. IsFiniteSet(HeldOf(r) \cup {a})
      BY <1>2, FS_AddElement
    <3> QED BY <3>2, <3>3, FS_Subset
  <2> QED BY <2>1, <2>2
<1> QED BY <1>1, <1>2, <1>3, FS_Subset, FS_CardinalityType

\* A part of a whole, in hundredths of a percent.
LEMMA ScoreIsAShare ==
  ASSUME NEW m \in Nat, NEW n \in Nat, m <= n
  PROVE  Score(m, n) \in 0..Whole
<1>1. Whole \in Nat
  BY DEF Whole
<1>2. CASE n = 0
  BY <1>1, <1>2 DEF Score
<1>3. CASE n # 0
  <2> DEFINE q == (Whole * m) \div n
  <2>1. /\ Whole * m \in Nat /\ Whole * n \in Nat /\ q \in Nat
        /\ q * n <= Whole * m
    <3> HIDE DEF Whole
    <3> QED BY <1>1, <1>3
  <2>2. Whole * m <= Whole * n
    <3> HIDE DEF Whole
    <3> QED BY <1>1
  <2>3. q <= Whole
    <3>1. ASSUME NEW x \in Nat, NEW y \in Nat, y >= x + 1 PROVE y * n > x * n
      BY <1>3, <3>1
    <3>2. CASE q > Whole
      <4>1. q * n > Whole * n
        BY <1>1, <2>1, <3>1, <3>2
      <4> HIDE DEF q
      <4> QED BY <2>1, <2>2, <4>1
    <3> QED BY <1>1, <2>1, <3>2
  <2> QED BY <1>1, <1>3, <2>1, <2>3 DEF Score
<1> QED BY <1>2, <1>3

\* The rows of a step are finitely many.
LEMMA FewRows ==
  ASSUME NEW r, NEW E, IsFiniteSet(E)
  PROVE  IsFiniteSet({Row(r, e) : e \in E})
<1> DEFINE f == [e \in E |-> Row(r, e)]
<1>1. f \in Surjection(E, {Row(r, e) : e \in E})
  BY DEF Surjection
<1> HIDE DEF f
<1> QED BY <1>1, FS_Surjection

\* What runs are at, and have written, changes with their own steps only.
LEMMA RunsKept ==
  ASSUME SiemInv, RunsInv, mix \in Mixes, [Next]_vars
  PROVE  RunsInv'
<1> DEFINE Validating == Reading \cup {"wait", "failed"}
           At == /\ step \in [Validators -> 1..NSteps + 1]
                 /\ \A r \in Validators : place[r] \in Validating => step[r] <= NSteps
           Gets == got \in [Validators -> SUBSET Alerts] /\ before \in [Validators -> SUBSET Alerts]
           All == UNION {rows[r] : r \in Validators}
           Has == /\ Gets
                  /\ DOMAIN rows = Validators
                  /\ \A r \in Validators : IsFiniteSet(rows[r]) /\ \A w \in rows[r] :
                       /\ w.status \in {"detected", "missed"}
                       /\ w.step \in 1..NSteps /\ w.expected \in Expected[w.step]
                  /\ stored \in [Validators -> SUBSET All]
                  /\ DOMAIN summary = Validators
                  /\ \A r \in Validators : summary[r].score \in 0..Whole
<1> HIDE DEF At, Has, Gets, All
<1>0. At /\ Has
  BY DEF At, Has, Gets, All, RunsInv
<1>1. At' /\ Has' => RunsInv'
  BY DEF At, Has, Gets, All, RunsInv
<1>2. ASSUME UNCHANGED runVars PROVE Has'
  BY <1>0, <1>2 DEF runVars, Has, Gets, All
<1>3. ASSUME UNCHANGED runVars, \A r \in Validators : place'[r] = place[r] PROVE At'
  BY <1>0, <1>3 DEF runVars, At
<1>4. NSteps \in Nat /\ \A s \in 1..NSteps : IsFiniteSet(Expected[s])
  BY DetectionAssumption DEF DetectionAssumption
<1>5. ASSUME NEW q \in Validators, NEW from, NEW to, Move(q, from, to), UNCHANGED step,
             to \in Validating => from \in Validating \/ step[q] <= NSteps
      PROVE  At'
  BY <1>0, <1>5 DEF At, Move
<1>6. ASSUME NEW q \in Validators, step[q] <= NSteps, step' = [step EXCEPT ![q] = @ + 1],
             (place' = place /\ place[q] = "idle") \/ place' = [place EXCEPT ![q] = "idle"]
      PROVE  At'
  <2>1. "idle" \notin Validating
    BY DEF Reading
  <2>2. /\ step \in [Validators -> 1..NSteps + 1]
        /\ \A r \in Validators : place[r] \in Validating => step[r] <= NSteps
    BY <1>0 DEF At
  <2>3. step' \in [Validators -> 1..NSteps + 1]
    BY <1>4, <1>6, <2>2
  <2>4. Validators \subseteq DOMAIN place
    BY DEF SiemInv, SiemTypeOK, Callers
  <2> HIDE DEF Validating
  <2>5. \A r \in Validators : place'[r] \in Validating => r # q /\ place'[r] = place[r]
    BY <1>6, <2>1, <2>4
  <2> QED BY <1>6, <2>2, <2>3, <2>5 DEF At
<1>7. ASSUME UNCHANGED <<rows, stored, summary>>, Gets' PROVE Has'
  BY <1>0, <1>7 DEF Has, All
<1>8. /\ UNCHANGED <<got, before>> => Gets'
      /\ \A q \in Validators : got' = [got EXCEPT ![q] = {}] /\ UNCHANGED before => Gets'
  BY <1>0 DEF Has, Gets
<1>9. ASSUME NEW q \in Validators, Requests(q), UNCHANGED runVars PROVE At'
  <2>1. ASSUME NEW from \in Reading, NEW to, Move(q, from, to) PROVE At'
    BY <1>5, <1>9, <2>1 DEF runVars
  <2> QED BY <1>9, <2>1
          DEF Requests, Ask, Send, JobDone, PollFails, Fetch, Retry, Fails, Reading
<1>10. ASSUME NEW q \in Validators, Validates(q) PROVE At' /\ Has'
  <2>1. CASE UNCHANGED <<siemVars, runVars>>
    BY <1>2, <1>3, <2>1 DEF siemVars
  <2>2. CASE Requests(q) /\ UNCHANGED runVars
    BY <1>2, <1>9, <2>2
  <2>3. CASE Execute(q)
    <3>1. Has'
      BY <1>2, <1>7, <1>8, <2>3 DEF Execute
    <3>2. CASE step' = [step EXCEPT ![q] = @ + 1] /\ UNCHANGED place
      BY <1>6, <2>3, <3>1, <3>2 DEF Execute
    <3>3. CASE place' = [place EXCEPT ![q] = "wait"] /\ UNCHANGED step
      BY <1>5, <2>3, <3>1, <3>3 DEF Execute, Move
    <3> QED BY <2>3, <3>2, <3>3 DEF Execute
  <2>4. CASE SeesStop(q)
    <3>1. Has'
      BY <1>7, <1>8, <2>4 DEF SeesStop
    <3>2. CASE step' = [step EXCEPT ![q] = @ + 1] /\ UNCHANGED place
      BY <1>6, <2>4, <3>1, <3>2 DEF SeesStop
    <3>3. CASE place' = [place EXCEPT ![q] = "over"] /\ UNCHANGED step
      BY <1>5, <2>4, <3>1, <3>3 DEF SeesStop, Move
    <3> QED BY <2>4, <3>2, <3>3 DEF SeesStop
  <2>5. CASE Propagated(q)
    <3>1. Has'
      <4>1. HeldOf(q) \subseteq Alerts
        BY DEF HeldOf, SiemInv, SiemTypeOK
      <4>2. Gets'
        BY <1>0, <2>5, <4>1 DEF Propagated, Has, Gets
      <4> QED BY <1>7, <2>5, <4>2 DEF Propagated
    <3>2. PICK to : Move(q, "wait", to) /\ UNCHANGED step
      BY <2>5 DEF Propagated
    <3> QED BY <1>5, <3>1, <3>2
  <2>6. CASE ReadOn(q)
    <3>1. Has'
      <4>1. answer[q] \subseteq Alerts
        BY DEF SiemInv, SiemTypeOK, Callers
      <4>2. Gets'
        BY <1>0, <2>6, <4>1 DEF ReadOn, Has, Gets
      <4> QED BY <1>7, <2>6, <4>2 DEF ReadOn
    <3> QED BY <1>5, <2>6, <3>1 DEF ReadOn, Reading
  <2>7. CASE NotJudged(q)
    <3>1. Has'
      BY <1>7, <1>8, <2>7 DEF NotJudged
    <3>2. step[q] <= NSteps
      BY <1>0, <2>7 DEF At, NotJudged, Move
    <3> QED BY <1>6, <2>7, <3>1, <3>2 DEF NotJudged, Move
  <2>8. CASE Judge(q)
    <3>1. step[q] <= NSteps /\ step[q] \in 1..NSteps
      BY <1>0, <1>4, <2>8 DEF At, Judge, Move, Reading
    <3>2. At'
      BY <1>6, <2>8, <3>1 DEF Judge, Move
    <3> DEFINE new == {Row(q, e) : e \in Expected[step[q]]}
    <3>3. rows' = [rows EXCEPT ![q] = @ \cup new] /\ UNCHANGED <<stored, summary>>
      BY <2>8 DEF Judge
    <3>4. Gets'
      BY <1>8, <2>8 DEF Judge
    <3>5. IsFiniteSet(new)
      BY <1>4, <3>1, FewRows
    <3>6. ASSUME NEW w \in new
          PROVE  /\ w.status \in {"detected", "missed"}
                 /\ w.step \in 1..NSteps /\ w.expected \in Expected[w.step]
      BY <3>1 DEF Row, Detects
    <3> HIDE DEF new
    <3>7. \A r \in Validators : IsFiniteSet(rows'[r])
      BY <1>0, <3>3, <3>5, FS_Union DEF Has
    <3>8. ASSUME NEW r \in Validators, NEW w \in rows'[r]
          PROVE  /\ w.status \in {"detected", "missed"}
                 /\ w.step \in 1..NSteps /\ w.expected \in Expected[w.step]
      BY <1>0, <3>3, <3>6 DEF Has
    <3>9. DOMAIN rows' = Validators /\ stored' \in [Validators -> SUBSET All']
      <4>1. DOMAIN rows' = Validators /\ \A r \in Validators : rows[r] \subseteq rows'[r]
        BY <1>0, <3>3 DEF Has
      <4>2. All \subseteq All'
        BY <4>1 DEF All
      <4> QED BY <1>0, <3>3, <4>1, <4>2 DEF Has
    <3>10. Has'
      BY <1>0, <3>3, <3>4, <3>7, <3>8, <3>9 DEF Has
    <3> QED BY <3>2, <3>10
  <2>9. CASE Complete(q)
    <3>1. At'
      <4>1. "notify" \notin Validating
        BY DEF Reading
      <4> QED BY <1>5, <2>9, <4>1 DEF Complete, Move
    <3>2. Summary(q).score \in 0..Whole
      <4>1. Detected(q) \subseteq rows[q] /\ IsFiniteSet(rows[q])
        BY <1>0 DEF Detected, Has
      <4>2. /\ Cardinality(Detected(q)) \in Nat /\ Cardinality(rows[q]) \in Nat
            /\ Cardinality(Detected(q)) <= Cardinality(rows[q])
        BY <4>1, FS_Subset, FS_CardinalityType
      <4>3. Score(Cardinality(Detected(q)), Cardinality(rows[q])) \in 0..Whole
        BY <4>2, ScoreIsAShare
      <4>4. 0 \in 0..Whole
        BY DEF Whole
      <4> QED BY <4>3, <4>4 DEF Summary
    <3>3. summary' = summary \/ summary' = [summary EXCEPT ![q] = Summary(q)]
      BY <2>9 DEF Complete
    <3>4. DOMAIN summary' = Validators /\ \A r \in Validators : summary'[r].score \in 0..Whole
      BY <1>0, <3>2, <3>3 DEF Has
    <3>5. stored' \in [Validators -> SUBSET All]
      <4> DEFINE new == {w \in rows[q] : Storable(w)}
      <4>1. new \in SUBSET All
        BY DEF All
      <4>2. stored' = stored \/ stored' = [stored EXCEPT ![q] = new]
        BY <2>9 DEF Complete
      <4> HIDE DEF new
      <4> QED BY <1>0, <4>1, <4>2 DEF Has
    <3>6. UNCHANGED <<got, before, rows>>
      BY <2>9 DEF Complete
    <3>7. Has'
      BY <1>0, <3>4, <3>5, <3>6 DEF Has, Gets, All
    <3> QED BY <3>1, <3>7
  <2>10. CASE Notify(q) \/ Return(q)
    <3>1. PICK from, to : Move(q, from, to) /\ to \notin Validating /\ UNCHANGED runVars
      BY <2>10 DEF Notify, Return, Reading
    <3> QED BY <1>2, <1>5, <3>1 DEF runVars
  <2> QED BY <1>10, <2>1, <2>2, <2>3, <2>4, <2>5, <2>6, <2>7, <2>8, <2>9, <2>10
          DEF Validates, Advances, Requests, Sends
<1>11. ASSUME NEW c \in Testers \cup Readers, Tests(c) \/ Reads(c)
       PROVE  UNCHANGED runVars /\ \A r \in Validators : place'[r] = place[r]
  <2>1. c \notin Validators
    BY SiemAssumption DEF SiemAssumption
  <2>2. UNCHANGED runVars
    BY <1>11 DEF Tests, Reads
  <2>3. UNCHANGED place \/ \E to : place' = [place EXCEPT ![c] = to]
    BY <1>11
    DEF Tests, Reads, Requests, Ask, Send, JobDone, PollFails, Fetch, Retry, Fails,
        Connect, Check, Login, Move
  <2>4. \A r \in Validators : r \in DOMAIN place
    BY DEF SiemInv, SiemTypeOK, Callers
  <2> QED BY <2>1, <2>2, <2>3, <2>4
<1>12. ASSUME UNCHANGED runVars, UNCHANGED place PROVE At' /\ Has'
  BY <1>2, <1>3, <1>12
<1>13. CASE Detecting
  <2>1. ASSUME NEW q \in Validators, ContextEnds(q) \/ SenderExpires(q) PROVE At' /\ Has'
    BY <1>12, <2>1 DEF ContextEnds, SenderExpires, siemVars
  <2>2. CASE SessionEnds /\ UNCHANGED runVars
    BY <1>1, <1>12, <2>2 DEF SessionEnds
  <2>3. CASE (\E a \in mix.alerts : Arrives(a)) /\ UNCHANGED runVars
    <3>1. UNCHANGED place
      BY <2>3 DEF Arrives
    <3> QED BY <1>1, <1>12, <2>3, <3>1
  <2>4. ASSUME NEW c \in Testers \cup Readers, Tests(c) \/ Reads(c) PROVE At' /\ Has'
    BY <1>2, <1>3, <1>11, <2>4
  <2> QED BY <1>1, <1>10, <1>13, <2>1, <2>2, <2>3, <2>4 DEF Detecting
<1>14. CASE Progressing \/ Limiting \/ Authenticating \/ UNCHANGED vars
  <2>1. UNCHANGED runVars /\ UNCHANGED place
    BY <1>14 DEF Progressing, Limiting, Authenticating, siemVars, vars
  <2> QED BY <1>1, <1>12, <2>1
<1> QED BY <1>13, <1>14 DEF Next

\* What is reported as detected was received, and matches.
LEMMA DetectedMatches ==
  ASSUME NEW e, NEW R, Detects(e, R) = "detected"
  PROVE  \E a \in R : Likeness(e, a) > 0 /\ Severe(e, a)
<1>1. PICK a \in Best(e, R) : Severe(e, a)
  BY DEF Detects
<1>2. a \in R /\ MatchScore(e, a) > 0
  BY DEF Best
<1>3. Likeness(e, a) \in {0, 60, 100}
  BY DEF Likeness
<1>4. Likeness(e, a) = 0 => MatchScore(e, a) = 0
  BY DEF MatchScore
<1> QED BY <1>1, <1>2, <1>3, <1>4

\* An alert of the very type and severe enough is among the best.
LEMMA ExactIsDetected ==
  ASSUME NEW e, NEW R, NEW a \in R, a.type = e.type, Severe(e, a)
  PROVE  Detects(e, R) = "detected"
<1>1. \A b \in R : Likeness(e, b) \in {0, 60, 100}
  BY DEF Likeness
<1>2. Likeness(e, a) = 100
  BY DEF Likeness
<1>3. CASE e.severity > 0
  <2>1. MatchScore(e, a) = 110
    BY <1>2, <1>3 DEF MatchScore
  <2>2. \A b \in R : MatchScore(e, b) <= 110
    <3> SUFFICES ASSUME NEW b \in R PROVE MatchScore(e, b) <= 110
      OBVIOUS
    <3>1. MatchScore(e, b) \in {Likeness(e, b), Likeness(e, b) + 10}
      BY DEF MatchScore
    <3> QED BY <1>1, <3>1
  <2> QED BY <2>1, <2>2 DEF Detects, Best
<1>4. CASE ~(e.severity > 0)
  <2>1. \A b \in R : MatchScore(e, b) = Likeness(e, b)
    BY <1>4 DEF MatchScore
  <2>2. \A b \in R : MatchScore(e, b) <= 100
    BY <1>1, <2>1
  <2> QED BY <1>2, <2>1, <2>2 DEF Detects, Best
<1> QED BY <1>3, <1>4

\* Every step keeps what runs are credited with.
LEMMA EarnedKept ==
  ASSUME SiemInv, RunsInv, EarnedInv, mix \in Mixes, [Next]_vars
  PROVE  EarnedInv'
<1> SUFFICES ASSUME NEW r \in Validators
             PROVE  /\ before'[r] \cup got'[r] \cup answer'[r] \subseteq HeldOf(r)'
                    /\ \A w \in rows'[r] : w.status = "detected" =>
                         \E a \in HeldOf(r)' : Likeness(w.expected, a) > 0 /\ Severe(w.expected, a)
  BY DEF EarnedInv, Detected
<1>1. /\ before[r] \cup got[r] \cup answer[r] \subseteq HeldOf(r)
      /\ \A w \in rows[r] : w.status = "detected" =>
           \E a \in HeldOf(r) : Likeness(w.expected, a) > 0 /\ Severe(w.expected, a)
  BY DEF EarnedInv, Detected
<1>2. /\ r \in DOMAIN answer /\ r \in DOMAIN got /\ r \in DOMAIN before /\ r \in DOMAIN rows
  <2>1. r \in DOMAIN got /\ r \in DOMAIN before /\ r \in DOMAIN rows
    BY DEF RunsInv
  <2> QED BY <2>1 DEF SiemInv, SiemTypeOK, Callers
<1>3. ASSUME NEW a \in Alerts, Arrives(a), UNCHANGED runVars
      PROVE  HeldOf(r) \subseteq HeldOf(r)' /\ UNCHANGED <<before, got, answer, rows>>
  BY <1>3, ArrivalKeeps DEF Arrives, runVars
<1>4. held' = held => HeldOf(r)' = HeldOf(r)
  BY DEF HeldOf
<1>5. CASE held' = held /\ Given(r)
  <2>1. answer'[r] \subseteq HeldOf(r)
    BY <1>5, PageGives DEF Given
  <2> QED BY <1>1, <1>4, <1>5, <2>1 DEF Given
<1>6. CASE held' = held /\ Judge(r)
  <2>1. /\ got'[r] = {} /\ answer'[r] = {} /\ before'[r] = before[r]
        /\ rows'[r] = rows[r] \cup {Row(r, e) : e \in Expected[step[r]]}
    BY <1>2, <1>6 DEF Judge
  <2>2. ASSUME NEW e, Row(r, e).status = "detected"
        PROVE  \E a \in HeldOf(r) : Likeness(e, a) > 0 /\ Severe(e, a)
    <3>1. Detects(e, got[r] \cup answer[r]) = "detected"
      BY <2>2 DEF Row
    <3> QED BY <1>1, <3>1, DetectedMatches
  <2>3. \A e : Row(r, e).expected = e
    BY DEF Row
  <2> QED BY <1>1, <1>4, <1>6, <2>1, <2>2, <2>3
<1>7. CASE held' = held /\ Propagated(r)
  <2>1. /\ got'[r] = {} /\ answer'[r] = answer[r] /\ before'[r] = HeldOf(r)
        /\ rows'[r] = rows[r]
    BY <1>2, <1>7 DEF Propagated
  <2> QED BY <1>1, <1>4, <1>7, <2>1
<1>8. CASE held' = held /\ (ReadOn(r) \/ NotJudged(r))
  <2>1. /\ got'[r] \cup answer'[r] \subseteq got[r] \cup answer[r] /\ before'[r] = before[r]
        /\ rows'[r] = rows[r]
    BY <1>2, <1>8 DEF ReadOn, NotJudged
  <2> QED BY <1>1, <1>4, <1>8, <2>1
<1>9. CASE held' = held /\ Aside(r)
  BY <1>1, <1>4, <1>9 DEF Aside
<1>10. CASE \E a \in Alerts : Arrives(a) /\ UNCHANGED runVars
  BY <1>1, <1>3, <1>10
<1> QED BY <1>5, <1>6, <1>7, <1>8, <1>9, <1>10, RunMoves

\* While a run's alerts fit in less than a page, it has them all.
LEMMA FewReadKept ==
  ASSUME SiemInv, RunsInv, EarnedInv, NEW r \in Validators, FewRead(r),
         mix \in Mixes, [Next]_vars
  PROVE  FewRead(r)'
<1> SUFFICES ASSUME Cardinality(HeldOf(r)') < Limit, place'[r] \in Reading
             PROVE  /\ offset'[r] = 0
                    /\ place'[r] \in {"fetch", "answered"} => before'[r] \subseteq answer'[r]
  BY DEF FewRead
<1>1. /\ r \in DOMAIN place /\ r \in DOMAIN offset /\ Limit \in Nat
      /\ "wait" \notin Reading /\ "idle" \notin Reading /\ "failed" \notin Reading
  BY SiemAssumption DEF SiemInv, SiemTypeOK, Callers, SiemAssumption, Reading
<1>2. Cardinality(HeldOf(r)) < Limit
  <2>1. held' = held \/ \E a \in Alerts : Arrives(a)
    BY RunMoves
  <2>2. /\ Cardinality(HeldOf(r)) \in Nat /\ Cardinality(HeldOf(r)') \in Nat
        /\ Cardinality(HeldOf(r)) <= Cardinality(HeldOf(r)')
    BY <2>1, HeldGrows
  <2> QED BY <1>1, <2>2
<1>3. place[r] \in Reading =>
        offset[r] = 0 /\ (place[r] \in {"fetch", "answered"} => before[r] \subseteq answer[r])
  BY <1>2 DEF FewRead
<1>4. CASE UNCHANGED runVars /\ \E a \in Alerts : Arrives(a)
  BY <1>3, <1>4 DEF Arrives, runVars
<1>5. CASE Aside(r)
  BY <1>3, <1>5 DEF Aside, Reading
<1>6. CASE Given(r)
  <2>1. offset[r] = 0
    BY <1>3, <1>6 DEF Given, Reading
  <2>2. answer'[r] = HeldOf(r)
    BY <1>2, <1>6, <2>1, PageGives DEF Given
  <2> QED BY <1>6, <2>1, <2>2 DEF Given, EarnedInv
<1>7. CASE Propagated(r)
  BY <1>1, <1>7 DEF Propagated, Move
<1>8. CASE ReadOn(r)
  <2>1. answer[r] \subseteq HeldOf(r) /\ ~(Cardinality(answer[r]) < Limit)
    BY <1>8 DEF EarnedInv, ReadOn, LastPage
  <2>2. IsFiniteSet(HeldOf(r)) /\ Cardinality(HeldOf(r)) \in Nat
    BY RunPositions
  <2>3. Cardinality(answer[r]) \in Nat /\ Cardinality(answer[r]) <= Cardinality(HeldOf(r))
    BY <2>1, <2>2, FS_Subset, FS_CardinalityType
  <2> QED BY <1>1, <1>2, <2>1, <2>2, <2>3
<1>9. CASE Judge(r) \/ NotJudged(r)
  BY <1>1, <1>9 DEF Judge, NotJudged, Move
<1> QED BY <1>4, <1>5, <1>6, <1>7, <1>8, <1>9, RunMoves

\* What was there before the query is read in order from the mock SIEM.
LEMMA InOrderReadKept ==
  ASSUME SiemInv, RunsInv, EarnedInv, NEW r \in Validators, InOrderRead(r),
         mix \in Mixes, [Next]_vars
  PROVE  InOrderRead(r)'
<1> DEFINE P == OfRun(r)
<1> SUFFICES ASSUME provider' = "mock", place'[r] \in Reading,
                    NEW i \in P', held'[i] \in before'[r]
             PROVE  /\ Nth(i, P') <= offset'[r] => held'[i] \in got'[r]
                    /\ place'[r] \in {"fetch", "answered"} =>
                         /\ Nth(i, P') <= offset'[r] + Limit => held'[i] \in got'[r] \cup answer'[r]
                         /\ Cardinality(answer'[r]) < Limit => Nth(i, P') <= offset'[r] + Limit
  BY DEF InOrderRead
<1>1. /\ r \in DOMAIN place /\ r \in DOMAIN offset /\ r \in DOMAIN got /\ r \in DOMAIN before
      /\ r \in DOMAIN answer
      /\ "wait" \notin Reading /\ "idle" \notin Reading /\ "failed" \notin Reading
      /\ offset[r] \in Nat /\ Limit \in Nat /\ provider = "mock"
  <2>1. r \in DOMAIN got /\ r \in DOMAIN before
    BY DEF RunsInv
  <2>2. provider' = provider
    BY RunMoves
  <2> QED BY <2>1, <2>2, SiemAssumption DEF SiemInv, SiemTypeOK, Callers, SiemAssumption, Reading
<1>2. ASSUME NEW j \in P, held[j] \in before[r], place[r] \in Reading
      PROVE  /\ Nth(j, P) <= offset[r] => held[j] \in got[r]
             /\ place[r] \in {"fetch", "answered"} =>
                  /\ Nth(j, P) <= offset[r] + Limit => held[j] \in got[r] \cup answer[r]
                  /\ Cardinality(answer[r]) < Limit => Nth(j, P) <= offset[r] + Limit
  BY <1>1, <1>2 DEF InOrderRead
<1>3. held' = held => P' = P
  BY DEF OfRun
<1>4. \A j \in P : Nth(j, P) \in Nat /\ Nth(j, P) >= 1
  <2>1. P \in SUBSET Nat /\ IsFiniteSet(P)
    BY RunPositions DEF SiemInv, SiemTypeOK
  <2>2. /\ Cardinality(P) \in Nat
        /\ \A j \in P : Nth(j, P) \in 1..Cardinality(P)
    BY <2>1, NthCounts
  <2> QED BY <2>2
<1>5. CASE UNCHANGED runVars /\ \E a \in Alerts : Arrives(a)
  <2>1. UNCHANGED <<place, offset, answer, got, before>>
    BY <1>5 DEF Arrives, runVars
  <2>2. held'[i] \in HeldOf(r)
    BY <2>1 DEF EarnedInv
  <2>3. i \in P /\ held'[i] = held[i] /\ Nth(i, P') = Nth(i, P)
    BY <1>5, <2>2, ArrivalKeeps
  <2> QED BY <1>2, <2>1, <2>3
<1>6. CASE held' = held /\ Aside(r)
  <2>1. i \in P /\ held[i] \in before[r] /\ P' = P
    BY <1>3, <1>6 DEF Aside
  <2>2. /\ place[r] \in Reading
        /\ place'[r] \in {"fetch", "answered"} => place[r] \in {"fetch", "answered"}
    BY <1>6 DEF Aside, Reading
  <2> HIDE DEF P
  <2> QED BY <1>2, <1>6, <2>1, <2>2 DEF Aside
<1>7. CASE held' = held /\ Given(r)
  <2>1. i \in P /\ held[i] \in before[r] /\ P' = P /\ place[r] \in Reading
    BY <1>3, <1>7 DEF Given, Reading
  <2>2. /\ offset[r] < Nth(i, P) /\ Nth(i, P) <= offset[r] + Limit => held[i] \in answer'[r]
        /\ Cardinality(answer'[r]) < Limit => Nth(i, P) <= offset[r] + Limit
    BY <1>1, <1>7, <2>1, PageGives DEF Given
  <2>3. Nth(i, P) <= offset[r] => held[i] \in got[r]
    BY <1>2, <2>1
  <2>4. Nth(i, P) \in Nat
    BY <1>4, <2>1
  <2> HIDE DEF P
  <2> QED BY <1>1, <1>7, <2>1, <2>2, <2>3, <2>4 DEF Given
<1>8. CASE held' = held /\ Propagated(r)
  <2>1. place'[r] = "ask" /\ offset'[r] = 0 /\ i \in P /\ P' = P
    BY <1>1, <1>3, <1>8 DEF Propagated, Move
  <2>2. Nth(i, P) \in Nat /\ Nth(i, P) >= 1
    BY <1>4, <2>1
  <2> HIDE DEF P
  <2> QED BY <2>1, <2>2
<1>9. CASE held' = held /\ ReadOn(r)
  <2>1. /\ place[r] = "answered" /\ place'[r] = "ask" /\ offset'[r] = offset[r] + Limit
        /\ got'[r] = got[r] \cup answer[r] /\ before'[r] = before[r]
        /\ i \in P /\ P' = P
    BY <1>1, <1>3, <1>9 DEF ReadOn, Move
  <2>2. Nth(i, P) <= offset[r] + Limit => held[i] \in got[r] \cup answer[r]
    BY <1>2, <1>9, <2>1 DEF Reading
  <2> HIDE DEF P
  <2> QED BY <1>9, <2>1, <2>2
<1>10. CASE Judge(r) \/ NotJudged(r)
  BY <1>1, <1>10 DEF Judge, NotJudged, Move
<1> QED BY <1>5, <1>6, <1>7, <1>8, <1>9, <1>10, RunMoves

\* At its last page a validation has what was there, if all of it could be read.
LEMMA LastPageHasAll ==
  ASSUME SiemInv, EarnedInv, NEW r \in Validators, FewRead(r), InOrderRead(r),
         place[r] = "answered", LastPage(r), AllRead(r)
  PROVE  before[r] \subseteq got[r] \cup answer[r]
<1>1. place[r] \in Reading
  BY DEF Reading
<1>2. CASE Cardinality(HeldOf(r)) < Limit
  BY <1>1, <1>2 DEF FewRead
<1>3. CASE provider = "mock" /\ Cardinality(HeldOf(r)) <= Limit * MaxPages
  <2> DEFINE P == OfRun(r)
             most == Limit * MaxPages
  <2> SUFFICES ASSUME NEW a \in before[r] PROVE a \in got[r] \cup answer[r]
    OBVIOUS
  <2>1. PICK i \in P : held[i] = a
    <3>1. a \in HeldOf(r)
      BY DEF EarnedInv
    <3> QED BY <3>1, RunPositions DEF AlertsAt
  <2>2. /\ Nth(i, P) <= offset[r] + Limit => held[i] \in got[r] \cup answer[r]
        /\ Cardinality(answer[r]) < Limit => Nth(i, P) <= offset[r] + Limit
    BY <1>1, <1>3, <2>1 DEF InOrderRead
  <2>3. Cardinality(answer[r]) < Limit \/ offset[r] + Limit >= most
    BY DEF LastPage
  <2>4. Nth(i, P) \in Nat /\ Nth(i, P) <= most
    <3>1. P \in SUBSET Nat /\ IsFiniteSet(P) /\ Cardinality(P) = Cardinality(HeldOf(r))
      BY RunPositions DEF SiemInv, SiemTypeOK
    <3>2. Cardinality(P) \in Nat /\ Nth(i, P) \in 1..Cardinality(P)
      BY <2>1, <3>1, NthCounts
    <3>3. Cardinality(P) <= most /\ most \in Nat
      BY <1>3, <3>1, SiemAssumption, DetectionAssumption DEF SiemAssumption, DetectionAssumption
    <3> HIDE DEF P, most
    <3> QED BY <3>2, <3>3
  <2>5. most \in Nat /\ offset[r] \in Nat /\ Limit \in Nat
    BY SiemAssumption, DetectionAssumption
    DEF SiemAssumption, DetectionAssumption, SiemInv, SiemTypeOK, Callers
  <2> HIDE DEF P, most
  <2> QED BY <2>1, <2>2, <2>3, <2>4, <2>5
<1> QED BY <1>2, <1>3 DEF AllRead

\* A row that says missed is not about an alert that was there.
LEMMA MissedKept ==
  ASSUME SiemInv, RunsInv, EarnedInv, ReadInv, mix \in Mixes, [Next]_vars
  PROVE  NothingMissed'
<1> DEFINE There(w) == \E a \in w.before : a.type = w.expected.type /\ Severe(w.expected, a)
<1> SUFFICES ASSUME NEW r \in Validators, AllRead(r)', NEW w \in rows'[r],
                    w.status = "missed", There(w)
             PROVE  FALSE
  BY DEF NothingMissed
<1>1. held' = held \/ \E a \in Alerts : Arrives(a)
  BY RunMoves
<1>2. AllRead(r)
  <2> DEFINE most == Limit * MaxPages
             h == Cardinality(HeldOf(r))
  <2>1. /\ h \in Nat /\ Cardinality(HeldOf(r)') \in Nat /\ h <= Cardinality(HeldOf(r)')
        /\ Limit \in Nat /\ most \in Nat /\ provider' = provider
    BY <1>1, HeldGrows, RunMoves, SiemAssumption, DetectionAssumption
    DEF SiemAssumption, DetectionAssumption
  <2>2. \/ Cardinality(HeldOf(r)') < Limit
        \/ provider' = "mock" /\ Cardinality(HeldOf(r)') <= most
    BY DEF AllRead
  <2>3. h < Limit \/ (provider = "mock" /\ h <= most)
    <3> HIDE DEF most, h
    <3> QED BY <2>1, <2>2
  <2> QED BY <2>3 DEF AllRead
<1>3. w \notin rows[r]
  BY <1>2 DEF ReadInv, NothingMissed
<1>4. r \in DOMAIN rows
  BY DEF RunsInv
<1>5. Judge(r)
  BY <1>3, <1>4, RunMoves
  DEF Aside, Given, Propagated, ReadOn, NotJudged, runVars
<1>6. PICK e \in Expected[step[r]] : w = Row(r, e)
  BY <1>3, <1>4, <1>5 DEF Judge
<1>7. before[r] \subseteq got[r] \cup answer[r]
  BY <1>2, <1>5, LastPageHasAll DEF ReadInv, Judge, Move
<1>8. PICK a \in before[r] : a.type = e.type /\ Severe(e, a)
  BY <1>6 DEF Row
<1>9. Detects(e, got[r] \cup answer[r]) = "detected"
  BY <1>7, <1>8, ExactIsDetected
<1> QED BY <1>6, <1>9 DEF Row

\* What validations keep.
DetectionInv == SiemInv /\ RunsInv /\ EarnedInv /\ ReadInv

\* Nothing has been asked, read or written.
LEMMA DetectionStart ==
  ASSUME DetectionInit, provider \in Provider, siemFaults \in 0..MaxSiemFaults
  PROVE  DetectionInv
<1>1. /\ held = <<>> /\ token = "none" /\ place = [c \in Callers |-> "idle"]
      /\ tries = [c \in Callers |-> 0] /\ offset = [c \in Callers |-> 0]
      /\ answer = [c \in Callers |-> {}] /\ ended = {}
      /\ step = [r \in Validators |-> 1] /\ got = [r \in Validators |-> {}]
      /\ before = [r \in Validators |-> {}] /\ rows = [r \in Validators |-> {}]
      /\ stored = [r \in Validators |-> {}] /\ summary = [r \in Validators |-> NoSummary]
  BY DEF DetectionInit, SiemInit
<1>2. Validators \subseteq Callers
  BY DEF Callers
<1>3. SiemInv
  <2>1. held \in Seq(Alerts) /\ DOMAIN held = {}
    BY <1>1
  <2>2. MaxRetries \in Nat
    BY SiemAssumption DEF SiemAssumption
  <2> QED BY <1>1, <1>2, <2>1, <2>2 DEF SiemInv, SiemTypeOK, OwnPlace
<1>4. RunsInv
  <2>1. NSteps \in Nat /\ 0 \in 0..Whole
    BY DetectionAssumption DEF DetectionAssumption, Whole
  <2>2. IsFiniteSet({})
    BY FS_EmptySet
  <2> QED BY <1>1, <1>2, <2>1, <2>2 DEF RunsInv, Reading, NoSummary
<1>5. EarnedInv
  BY <1>1, <1>2 DEF EarnedInv, Detected
<1>6. ReadInv
  BY <1>1, <1>2 DEF ReadInv, FewRead, InOrderRead, Reading, NothingMissed
<1> QED BY <1>3, <1>4, <1>5, <1>6 DEF DetectionInv

\* Every step keeps it.
LEMMA DetectionKept ==
  ASSUME DetectionInv, mix \in Mixes, [Next]_vars
  PROVE  DetectionInv'
<1>1. SiemInv' /\ RunsInv' /\ EarnedInv'
  BY SiemKept, RunsKept, EarnedKept DEF DetectionInv
<1>2. \A r \in Validators : FewRead(r)' /\ InOrderRead(r)'
  BY FewReadKept, InOrderReadKept DEF DetectionInv, ReadInv
<1>3. NothingMissed'
  BY MissedKept DEF DetectionInv
<1> QED BY <1>1, <1>2, <1>3 DEF DetectionInv, ReadInv
-----------------------------------------------------------------------------
(* The services together.                                                  *)

ServicesInv ==
  NotesInv /\ ProgressInv /\ RateInv /\ SessionsInv /\ DetectionInv /\ mix \in Mixes

\* Whichever mix it is, nothing has been sent, written or counted.
LEMMA ServicesInit == Init => ServicesInv
<1> SUFFICES ASSUME Init PROVE ServicesInv
  OBVIOUS
<1>1. MixOK(mix) /\ mix \in Mixes
  BY ServicesAssumption DEF Init, ServicesAssumption
<1>2. NotesInv
  <2>1. /\ enabled \in {"off", "sync", "async"} /\ configured \subseteq Channels
        /\ channel = [r \in Senders |-> 0]
        /\ tried = [r \in Senders |-> [c \in Channels |-> 0]]
        /\ sent = [r \in Senders |-> [c \in Channels |-> 0]]
        /\ outcome = [r \in Senders |-> [c \in Channels |-> "none"]]
    BY <1>1 DEF Init, MixOK, DetectionInit, NotesInit
  <2> QED BY <2>1 DEF NotesInv, Channels, Done
<1>3. ProgressInv
  <2>1. /\ newest = 0 /\ works = [e \in Executors |-> 0]
        /\ stage = [e \in Executors |-> "idle"] /\ item = [e \in Executors |-> 1]
        /\ writes = [e \in Executors |-> "pending"] /\ copy = [e \in Executors |-> Absent]
        /\ lists = [r \in RunNumbers |-> Absent] /\ percent = [r \in RunNumbers |-> 0]
    BY DEF Init, ProgressInit
  <2>2. ProgressShape
    BY <2>1 DEF ProgressShape, Statuses
  <2>3. \A e \in Executors : works[e] \notin RunNumbers
    BY <2>1 DEF RunNumbers
  <2> QED BY <2>2, <2>3 DEF ProgressInv
<1>4. RateInv
  BY <1>1, RateInvInit DEF Init, MixOK
<1>5. SessionsInv
  BY SessionsStart DEF Init
<1>6. DetectionInv
  BY <1>1, DetectionStart DEF Init, MixOK
<1> QED BY <1>1, <1>2, <1>3, <1>4, <1>5, <1>6 DEF ServicesInv

\* Only a run that ends, and its sender, touch what is told of its end.
LEMMA NotesKept ==
  ASSUME NotesInv, [Next]_vars
  PROVE  NotesInv'
<1> DEFINE same == UNCHANGED <<enabled, configured, channel, tried, sent, outcome>>
<1>1. ASSUME NEW r \in Validators, Validates(r)
      PROVE  StartSending(r) \/ Attempt(r) \/ same
  BY <1>1
  DEF Validates, Advances, Execute, Propagated, ReadOn, Judge, NotJudged,
      Complete, Notify, Sends, Return, SeesStop, noteVars
<1>2. ASSUME NEW r \in Validators, ContextEnds(r) \/ SenderExpires(r)
      PROVE  same
  BY <1>2 DEF ContextEnds, SenderExpires, Expire
<1>3. ASSUME NEW c, Tests(c) \/ Reads(c)
      PROVE  same
  BY <1>3 DEF Tests, Reads, noteVars
<1>4. \/ \E r \in Validators : StartSending(r) \/ Attempt(r)
      \/ same
  <2>1. CASE Detecting
    BY <1>1, <1>2, <1>3, <2>1 DEF Detecting, noteVars
  <2>2. CASE Progressing \/ Limiting \/ Authenticating \/ UNCHANGED vars
    BY <2>2 DEF Progressing, Limiting, Authenticating, noteVars, vars
  <2> QED BY <2>1, <2>2 DEF Next
<1>5. CASE same
  BY <1>5 DEF NotesInv
<1> QED BY <1>4, <1>5, StartSendingKept, AttemptKept, DetectionAssumption
        DEF DetectionAssumption

\* Every step keeps the parts.
LEMMA ServicesStep ==
  ASSUME ServicesInv, [Next]_vars
  PROVE  ServicesInv' /\ \A e \in Executors : Goodness(e)
<1>0. PICK E : E \subseteq Executors /\ E = mix.executors
  BY ServicesAssumption DEF ServicesInv, ServicesAssumption, MixOK
<1>1. NotesInv'
  BY NotesKept DEF ServicesInv
<1>2. ProgressInv' /\ \A e \in Executors : Goodness(e)
  <2>1. \/ ProgressNext(E) \/ Logs \/ UNCHANGED progressVars
    BY <1>0 DEF Next, Detecting, Progressing, Limiting, Authenticating, vars
  <2> QED BY <1>0, <2>1, ProgressKept DEF ServicesInv
<1>3. RateInv'
  <2>0. mix.calls \in SUBSET Calls
    BY ServicesAssumption DEF ServicesInv, ServicesAssumption, MixOK
  <2>1. RateNext(mix.calls) \/ UNCHANGED rateVars
    BY DEF Next, Detecting, Progressing, Limiting, Authenticating, vars
  <2> QED BY <2>0, <2>1, RateKept, RateStays DEF ServicesInv
<1>4. mix' \in Mixes
  BY DEF Next, Detecting, Progressing, Limiting, Authenticating, vars, ServicesInv
<1>5. SessionsInv'
  <2>1. \/ \E q \in AuthCalls : SessionStep(q)
        \/ (\E u \in Accounts : Disable(u)) \/ TimePasses \/ UNCHANGED authVars
    BY ServicesAssumption
    DEF ServicesAssumption, MixOK, ServicesInv,
        Next, Detecting, Progressing, Limiting, Authenticating, vars
  <2> QED BY <2>1, SessionsKept DEF ServicesInv
<1>6. DetectionInv'
  BY DetectionKept DEF ServicesInv
<1> QED BY <1>1, <1>2, <1>3, <1>4, <1>5, <1>6 DEF ServicesInv

\* The parts are inductive.
LEMMA ServicesInvariant == Spec => []ServicesInv
<1>1. ServicesInv /\ [Next]_vars => ServicesInv'
  BY ServicesStep
<1> QED BY ServicesInit, <1>1, PTL DEF Spec
-----------------------------------------------------------------------------
(* What the services promise.                                              *)

(* In every behaviour of any number of runs, every channel configured gets *)
(* its message or uses up its attempts before a sender is done: sendSync.  *)
THEOREM NoChannelIsSkipped == Spec => []EveryChannelTried
<1>1. NotesInv => EveryChannelTried
  BY DEF NotesInv, EveryChannelTried, Channels, Done
<1> QED BY ServicesInvariant, <1>1, PTL DEF ServicesInv

(* With any number of executions, templates and faults of Redis: what      *)
(* Redis tells of a run that one execution works on only moves forward.    *)
THEOREM ProgressMovesForward == Spec => ProgressForward
<1> DEFINE A == \A r \in RunNumbers : Alone(r)' => Forward(r)
<1>1. ServicesInv /\ [Next]_vars => A
  <2> SUFFICES ASSUME ServicesInv, [Next]_vars, NEW r \in RunNumbers, Alone(r)'
      PROVE  Forward(r)
    OBVIOUS
  <2>1. PICK e \in Executors : works'[e] = r /\ Only(e)'
    BY AloneIsOne
  <2> QED BY <2>1, ServicesStep DEF Goodness
<1>2. ServicesInv /\ [Next]_vars => [A]_progressVars
  BY <1>1
<1> QED BY ServicesInvariant, <1>2, PTL DEF Spec, ProgressForward

(* For any number of requests, any quota and any window: of the requests   *)
(* placed in one window of the clock Redis lets in no more than the quota  *)
(* and once more for each INCR that comes at another time, however the     *)
(* clocks of the replicas differ and however long a command is on its way; *)
(* and one process lets in less than twice the quota in any window.        *)
THEOREM QuotaHolds == Spec => []WindowBound
<1>1. ServicesInv => WindowBound
  BY RateInvSuffices DEF ServicesInv
<1> QED BY ServicesInvariant, <1>1, PTL

(* For any number of requests, accounts and tokens, any lifetimes and any  *)
(* faults of Redis: a token that was revoked before a request comes with   *)
(* it does not serve that request, unless Redis does not answer or the     *)
(* token expires meanwhile, and none of a disabled account is exchanged.   *)
THEOREM EndedTokensAreRefused == Spec => []RefusedAfterEnd
<1>1. ServicesInv => RefusedAfterEnd
  BY SessionsSuffice DEF ServicesInv
<1> QED BY ServicesInvariant, <1>1, PTL
(* For any number of runs, steps, pages, alerts and requests, and whatever *)
(* the SIEM does: an expected alert is reported as detected only if the    *)
(* SIEM has an alert of this run that matches and is severe enough.        *)
THEOREM DetectionIsEarned == Spec => []DetectionEarned
<1>1. DetectionInv => DetectionEarned
  BY DEF DetectionInv, EarnedInv, DetectionEarned
<1> QED BY ServicesInvariant, <1>1, PTL DEF ServicesInv

(* An alert of the type and severity expected that was in the SIEM before  *)
(* the validation asked is not missed, as long as the alerts of the run    *)
(* fit in what is read: for any page size and number of pages, whatever    *)
(* arrives meanwhile and however requests fail and are repeated.           *)
THEOREM NothingIsMissed == Spec => []NothingMissed
<1>1. DetectionInv => NothingMissed
  BY DEF DetectionInv, ReadInv
<1> QED BY ServicesInvariant, <1>1, PTL DEF ServicesInv
-----------------------------------------------------------------------------
(* Types.                                                                  *)

ServicesBounds == NotesBounds /\ ProgressBounds /\ RateBounds /\ SessionsBounds

\* At the start nothing has been counted.
LEMMA BoundsStart == Init => ServicesBounds
<1> SUFFICES ASSUME Init PROVE ServicesBounds
  OBVIOUS
<1>1. MixOK(mix)
  BY ServicesAssumption DEF Init, ServicesAssumption
<1>2. NotesBounds
  <2>1. /\ channel = [r \in Senders |-> 0] /\ expired = {} /\ noteFaults \in 0..MaxNoteFaults
        /\ tried = [r \in Senders |-> [c \in Channels |-> 0]]
    BY <1>1 DEF Init, MixOK, DetectionInit, NotesInit
  <2> QED BY <2>1, NotificationsAssumption
          DEF NotesBounds, Channels, NotificationsAssumption
<1>3. ProgressBounds
  <2>1. /\ newest = 0 /\ item = [e \in Executors |-> 1] /\ copy = [e \in Executors |-> Absent]
        /\ cut = {} /\ percent = [r \in RunNumbers |-> 0] /\ logs = Absent
        /\ redisFaults \in 0..MaxRedisFaults
    BY <1>1 DEF Init, MixOK, ProgressInit
  <2> QED BY <2>1, ProgressAssumption DEF ProgressBounds, ProgressAssumption
<1>4. RateBounds
  BY <1>1, RateBoundsInit DEF Init, MixOK
<1>5. SessionsBounds
  <2>1. /\ tokens = {} /\ revoked = [i \in TokenIds |-> 0] /\ time = 0
        /\ late = {} /\ barred = {} /\ excused = {} /\ authFaults \in 0..MaxAuthFaults
    BY <1>1 DEF Init, MixOK, SessionsInit
  <2> QED BY <2>1, SessionsAssumption DEF SessionsBounds, LastTick, SessionsAssumption
<1> QED BY <1>2, <1>3, <1>4, <1>5 DEF ServicesBounds

\* A context that ends may end a sender's.
LEMMA NotesBoundsKept ==
  ASSUME NotesInv, NotesBounds, [Next]_vars
  PROVE  NotesBounds'
<1> DEFINE Still == UNCHANGED <<channel, tried, noteFaults>> /\ expired' \subseteq Senders
<1>0. Senders = Validators /\ expired \subseteq Senders
  BY DetectionAssumption DEF DetectionAssumption, NotesBounds
<1>1. ASSUME NEW r \in Validators, Validates(r)
      PROVE  StartSending(r) \/ Attempt(r) \/ Still
  BY <1>0, <1>1
  DEF Validates, Advances, Execute, Propagated, ReadOn, Judge, NotJudged,
      Complete, Notify, Sends, Return, SeesStop, noteVars
<1>2. ASSUME NEW r \in Validators, ContextEnds(r) \/ SenderExpires(r)
      PROVE  Still
  BY <1>0, <1>2 DEF ContextEnds, SenderExpires, Expire
<1>3. ASSUME NEW c, Tests(c) \/ Reads(c)
      PROVE  Still
  BY <1>0, <1>3 DEF Tests, Reads, noteVars
<1>4. \/ \E r \in Validators : StartSending(r) \/ Attempt(r)
      \/ Still
  <2>1. CASE Detecting
    BY <1>0, <1>1, <1>2, <1>3, <2>1 DEF Detecting, noteVars
  <2>2. CASE Progressing \/ Limiting \/ Authenticating \/ UNCHANGED vars
    BY <1>0, <2>2 DEF Progressing, Limiting, Authenticating, noteVars, vars
  <2> QED BY <2>1, <2>2 DEF Next
<1> QED BY <1>0, <1>4, StartSendingBounded, AttemptBounded, ExpiryBounded

\* Every step keeps the bounds.
LEMMA BoundsKept ==
  ASSUME ServicesInv, ServicesBounds, [Next]_vars
  PROVE  ServicesBounds'
<1>0. PICK E : E \subseteq Executors /\ E = mix.executors
  BY ServicesAssumption DEF ServicesInv, ServicesAssumption, MixOK
<1>1. NotesBounds'
  BY NotesBoundsKept DEF ServicesInv, ServicesBounds
<1>2. ProgressBounds'
  <2>1. \/ ProgressNext(E) \/ Logs \/ UNCHANGED progressVars
    BY <1>0 DEF Next, Detecting, Progressing, Limiting, Authenticating, vars
  <2> QED BY <1>0, <2>1, ProgressBoundsKept DEF ServicesInv, ServicesBounds
<1>3. RateBounds'
  <2>0. mix.calls \in SUBSET Calls
    BY ServicesAssumption DEF ServicesInv, ServicesAssumption, MixOK
  <2>1. RateNext(mix.calls) \/ UNCHANGED rateVars
    BY DEF Next, Detecting, Progressing, Limiting, Authenticating, vars
  <2> QED BY <2>0, <2>1, RateBoundsKept, RateBoundsStay DEF ServicesInv, ServicesBounds, RateInv
<1>4. SessionsBounds'
  <2>1. \/ \E q \in AuthCalls : SessionStep(q)
        \/ (\E u \in Accounts : Disable(u)) \/ TimePasses \/ UNCHANGED authVars
    BY ServicesAssumption
    DEF ServicesAssumption, MixOK, ServicesInv,
        Next, Detecting, Progressing, Limiting, Authenticating, vars
  <2> QED BY <2>1, SessionsBoundsKept DEF ServicesInv, ServicesBounds
<1> QED BY <1>1, <1>2, <1>3, <1>4 DEF ServicesBounds

\* The types are what the parts and their bounds say.
LEMMA ServicesTypes ==
  ASSUME ServicesInv, ServicesBounds
  PROVE  TypeOK
<1>1. NotesTypeOK
  <2>1. ASSUME NEW r \in Senders, NEW c \in Channels
        PROVE  tried[r][c] \in 0..RetryCount /\ sent[r][c] \in 0..RetryCount
    <3>1. /\ tried[r][c] \in Nat /\ sent[r][c] \in Nat
          /\ sent[r][c] <= tried[r][c] /\ tried[r][c] <= RetryCount
      BY DEF ServicesInv, ServicesBounds, NotesInv, NotesBounds
    <3> QED BY <3>1, NotificationsAssumption DEF NotificationsAssumption
  <2>2. /\ tried \in [Senders -> [Channels -> Nat]]
        /\ sent \in [Senders -> [Channels -> Nat]]
    BY DEF ServicesInv, NotesInv
  <2>3. tried \in [Senders -> [Channels -> 0..RetryCount]]
    BY <2>1, <2>2
  <2>4. sent \in [Senders -> [Channels -> 0..RetryCount]]
    BY <2>1, <2>2
  <2> QED BY <2>3, <2>4 DEF ServicesInv, ServicesBounds, NotesInv, NotesBounds, NotesTypeOK
<1>2. ProgressTypeOK
  <2>1. ProgressShape /\ ProgressBounds
    BY DEF ServicesInv, ServicesBounds, ProgressInv
  <2>2. /\ Cardinality(Executors) \in Nat /\ newest \in 0..Cardinality(Executors)
        /\ \A e \in Executors : works[e] # 0 => works[e] \in RunNumbers
    BY <2>1, RunsAreFew
  <2>3. works \in [Executors -> 0..Cardinality(Executors)]
    <3>1. \A e \in Executors : works[e] \in 0..Cardinality(Executors)
      BY <2>2 DEF RunNumbers
    <3> QED BY <2>1, <3>1 DEF ProgressShape
  <2>4. item \in [Executors -> 1..NTemplates + 1]
    BY <2>1, ProgressAssumption DEF ProgressShape, ProgressBounds, ProgressAssumption
  <2>5. percent \in [RunNumbers -> 0..100]
    BY <2>1 DEF ProgressShape, ProgressBounds
  <2> QED BY <2>1, <2>2, <2>3, <2>4, <2>5 DEF ProgressShape, ProgressBounds, ProgressTypeOK
<1>3. RateTypeOK
  BY RateTypes DEF ServicesInv, ServicesBounds, RateInv
<1>4. SessionsTypeOK
  <2>1. TokensInv /\ CallsInv /\ SessionsBounds /\ LastTick \in Nat
    BY SessionsAssumption
    DEF ServicesInv, ServicesBounds, SessionsInv, LastTick, SessionsAssumption
  <2>2. revoked \in [TokenIds -> 0..LastTick]
    BY <2>1 DEF TokensInv, SessionsBounds
  <2>3. time \in 0..MaxTime
    BY <2>1, SessionsAssumption DEF TokensInv, SessionsBounds, SessionsAssumption
  <2> QED BY <2>1, <2>2, <2>3
          DEF TokensInv, CallsInv, SessionsBounds, SessionsTypeOK, LastTick
<1>5. DetectionTypeOK
  <2>1. SiemInv /\ RunsInv
    BY DEF ServicesInv, DetectionInv
  <2> QED BY <1>1, <2>1 DEF SiemInv, RunsInv, DetectionTypeOK
<1> QED BY <1>2, <1>3, <1>4, <1>5 DEF TypeOK

(* Every variable of the services keeps its type, for any number of runs,  *)
(* executions, requests, alerts and faults: no channel is tried more often *)
(* than its attempts, there are no more runs than executions, and no       *)
(* counter goes beyond the requests there are.                             *)
THEOREM TypesKept == Spec => []TypeOK
<1>1. ServicesInv /\ ServicesBounds /\ [Next]_vars => ServicesBounds'
  BY BoundsKept
<1>2. ServicesInv /\ ServicesBounds => TypeOK
  BY ServicesTypes
<1> QED BY ServicesInvariant, BoundsStart, <1>1, <1>2, PTL DEF Spec
=================================================================================
