------------------------- MODULE StepResourcesProofs -------------------------
(***************************************************************************)
(* Lemmas for the pods and namespaces of StepResources: every action       *)
(* keeps PodInv, from which NothingLeft and PodsBounded follow.            *)
(* KubernetesProofs makes theorems of the whole specification of them.     *)
(***************************************************************************)
EXTENDS StepResources, TLAPS

USE DEF Steps

(* What the other parts need of the types.                                 *)
ShapeInv ==
  /\ space \in [Sites -> {"absent", "active", "ending"}]
  /\ limits \in [Sites -> SUBSET Limit]
  /\ pods \subseteq Runs \X Nat
  /\ podRows \subseteq Runs \X Nat
  /\ place \in [Runs \cup Stops -> RunPlace \cup StopPlace]
  /\ step \in [Runs -> Nat]
  /\ todo \in [Runs \cup Stops -> SUBSET (Runs \X Nat)]
  /\ after \in [Runs \cup Stops -> {"over", "next"}]
  /\ listed \in [Runs -> SUBSET Nat]
  /\ DOMAIN site = Runs /\ DOMAIN home = Runs

(* Where there is something, a run has been: a run that has started is on  *)
(* a cluster, its pods are in a namespace that exists, and a namespace     *)
(* exists only where a run has started.                                    *)
PlacedInv ==
  /\ \A r \in Runs : place[r] # "idle" => site[r] \in Sites
  /\ \A d \in pods : place[d[1]] # "idle" /\ space[site[d[1]]] # "absent"
  /\ \A s \in Sites : space[s] # "absent" =>
       \E r \in Runs : place[r] # "idle" /\ site[r] = s

Making == {"quota", "range", "rollback"}

Alone(r) ==
  /\ place[r] # "idle"
  /\ \A q \in Runs \ {r} : place[q] = "idle" \/ site[q] # site[r]

(* A run that is alone on its cluster either still makes its namespace, in *)
(* which there is no pod then, or the namespace has its limits.            *)
BoundInv ==
  \A r \in Runs : Alone(r) /\ site[r] \notin halfmade =>
    /\ space[site[r]] = "active" =>
         limits[site[r]] = Limit \/ place[r] \in Making \cup {"lost"}
    /\ space[site[r]] = "active" /\ place[r] = "range" => "quota" \in limits[site[r]]
    /\ place[r] \in Making => \A d \in pods : site[d[1]] # site[r]
    /\ \A d \in pods : site[d[1]] = site[r] => limits[site[r]] = Limit

(* The pods of a run that goes on are in its list, but for the one about   *)
(* to be recorded, or undone because its creation seemed to fail; during   *)
(* its last cleanup they are among those to do.  A namespace that is       *)
(* ending takes them all with it.                                          *)
Left(r) ==
  r \notin cancelled \cup troubled =>
    \A d \in pods : d[1] = r /\ space[site[r]] # "ending" =>
      /\ \/ d[2] \in listed[r]
         \/ place[r] \in {"record", "undeploy"} /\ d[2] = step[r]
         \/ place[r] = "lost"
      /\ place[r] = "pod" /\ after[r] = "over" => d \in todo[r]
      /\ place[r] = "space" /\ after[r] = "over" => d \in todo[r] \ {First(todo[r])}
      /\ ~(place[r] = "over" /\ autoCleanup)

LeftInv == \A r \in Runs : Left(r)

(* The run of a stop that has missed nothing so far is cancelled, and gets *)
(* no pod and no row any more: once the stop has loaded the rows, the pods *)
(* that have one are among those it has still to delete.                   *)
Stopped(t) ==
  t \notin missed /\ place[t] \notin {"idle", "lost"} =>
    /\ StopOf[t] \in cancelled /\ place[StopOf[t]] # "idle"
    /\ home[StopOf[t]] = site[StopOf[t]] =>
         \A d \in pods \cap podRows : d[1] = StopOf[t] =>
           /\ place[t] = "pod" => d \in todo[t]
           /\ place[t] = "space" => d \in todo[t] \ {First(todo[t])}
           /\ place[t] # "over"

StopInv == \A t \in Stops : Stopped(t)

RunPart == ShapeInv /\ PlacedInv /\ BoundInv /\ LeftInv
PodInv  == RunPart /\ StopInv

-----------------------------------------------------------------------------
(* What keeps each part.                                                   *)

\* No place becomes or stops to be "idle".
SameIdle == \A q \in Runs : place'[q] = "idle" <=> place[q] = "idle"

\* Runs keep their place when nothing they are in is taken away.
LEMMA PlacedKept ==
  ASSUME ShapeInv, PlacedInv, SameIdle, site' = site, pods' \subseteq pods,
         \A s \in Sites : space'[s] = "absent" <=> space[s] = "absent"
  PROVE  PlacedInv'
  BY DEF ShapeInv, PlacedInv, SameIdle

\* A run that makes a namespace goes on with it, or is lost.
SameMaking ==
  \A q \in Runs : \/ place'[q] = place[q]
                  \/ place'[q] = "lost"
                  \/ /\ place[q] \notin Making \cup {"lost"}
                     /\ place'[q] \notin Making

\* The limits stay when no namespace comes into use, and runs go on.
LEMMA BoundKept ==
  ASSUME ShapeInv, PlacedInv, BoundInv, SameIdle, SameMaking,
         site' = site, limits' = limits, pods' \subseteq pods,
         halfmade \subseteq halfmade',
         \A s \in Sites : space'[s] = "active" => space[s] = "active"
  PROVE  BoundInv'
<1> SUFFICES ASSUME NEW r \in Runs, Alone(r)', site[r] \notin halfmade'
    PROVE  /\ space'[site[r]] = "active" =>
                limits[site[r]] = Limit \/ place'[r] \in Making \cup {"lost"}
           /\ space'[site[r]] = "active" /\ place'[r] = "range" => "quota" \in limits[site[r]]
           /\ place'[r] \in Making => \A d \in pods' : site[d[1]] # site[r]
           /\ \A d \in pods' : site[d[1]] = site[r] => limits[site[r]] = Limit
  BY DEF BoundInv
<1>1. Alone(r) /\ site[r] \notin halfmade /\ site[r] \in Sites
  BY DEF Alone, SameIdle, PlacedInv
<1>2. /\ space[site[r]] = "active" =>
           limits[site[r]] = Limit \/ place[r] \in Making \cup {"lost"}
      /\ space[site[r]] = "active" /\ place[r] = "range" => "quota" \in limits[site[r]]
      /\ place[r] \in Making => \A d \in pods : site[d[1]] # site[r]
      /\ \A d \in pods : site[d[1]] = site[r] => limits[site[r]] = Limit
  BY <1>1 DEF BoundInv
<1> QED BY <1>1, <1>2 DEF SameMaking, Making

\* The runs other than r, whoever r is.
LEMMA LeftKept ==
  ASSUME ShapeInv, PlacedInv, LeftInv, pods' \subseteq pods, cancelled \subseteq cancelled',
         troubled \subseteq troubled', autoCleanup' = autoCleanup, site' = site,
         \A s \in Sites : space[s] = "ending" => space'[s] = "ending",
         NEW q \in Runs, place'[q] = place[q] \/ place'[q] = "lost",
         todo'[q] = todo[q], after'[q] = after[q], listed'[q] = listed[q],
         step'[q] = step[q]
  PROVE  Left(q)'
<1>1. \A d \in pods : d[1] = q /\ space'[site[q]] # "ending" => space[site[q]] # "ending"
  BY DEF PlacedInv
<1> QED BY <1>1 DEF ShapeInv, LeftInv, Left, First
-----------------------------------------------------------------------------
(* The steps that leave namespaces, limits and pods as they are, or take   *)
(* something away from them.                                               *)

\* How a call moves its caller, and what it leaves alone.
USE DEF apiVars, signalVars, choiceVars, historyVars, workVars,
        Goes, Clean, Works, Lost, Breaks, Ctx, Mine

(* The loop starts a step or goes to the last cleanup, whose pods are all  *)
(* those of the list.                                                      *)
LEMMA BeginKept ==
  ASSUME RunPart, NEW r \in Runs, Begin(r)
  PROVE  RunPart'
<1> USE DEF RunPart
<1>1. ShapeInv'
  BY DEF ShapeInv, RunPlace, StopPlace, Begin, StopSeen
<1>2. /\ SameIdle /\ SameMaking /\ site' = site /\ limits' = limits /\ pods' = pods
      /\ halfmade' = halfmade /\ cancelled' = cancelled /\ troubled' = troubled
      /\ autoCleanup' = autoCleanup
      /\ \A s \in Sites : /\ space'[s] = "absent" <=> space[s] = "absent"
                          /\ space'[s] = "active" => space[s] = "active"
                          /\ space[s] = "ending" => space'[s] = "ending"
  BY DEF SameIdle, SameMaking, Making, ShapeInv, Begin, StopSeen
<1>3. PlacedInv' /\ BoundInv'
  BY <1>2, PlacedKept, BoundKept
<1>4. ASSUME NEW q \in Runs \ {r} PROVE Left(q)'
  <2>1. /\ place'[q] = place[q] /\ todo'[q] = todo[q] /\ after'[q] = after[q]
        /\ listed'[q] = listed[q] /\ step'[q] = step[q]
    BY DEF ShapeInv, Begin, StopSeen
  <2> QED BY <1>2, <2>1, LeftKept
<1>5. Left(r)'
  BY <1>2 DEF LeftInv, Left, ShapeInv, PlacedInv, Begin, StopSeen
<1> QED BY <1>1, <1>3, <1>4, <1>5 DEF LeftInv

(* Nothing is created by asking.                                           *)
LEMMA ExistsKept ==
  ASSUME RunPart, NEW r \in Runs, Exists(r)
  PROVE  RunPart'
<1> USE DEF RunPart
<1>1. ShapeInv'
  BY DEF ShapeInv, RunPlace, StopPlace, Exists
<1>2. /\ SameIdle /\ SameMaking /\ site' = site /\ limits' = limits /\ pods' = pods
      /\ halfmade' = halfmade /\ cancelled' = cancelled /\ troubled' = troubled
      /\ autoCleanup' = autoCleanup
      /\ \A s \in Sites : /\ space'[s] = "absent" <=> space[s] = "absent"
                          /\ space'[s] = "active" => space[s] = "active"
                          /\ space[s] = "ending" => space'[s] = "ending"
  BY DEF SameIdle, SameMaking, Making, ShapeInv, Exists
<1>3. PlacedInv' /\ BoundInv'
  BY <1>2, PlacedKept, BoundKept
<1>4. ASSUME NEW q \in Runs \ {r} PROVE Left(q)'
  <2>1. /\ place'[q] = place[q] /\ todo'[q] = todo[q] /\ after'[q] = after[q]
        /\ listed'[q] = listed[q] /\ step'[q] = step[q]
    BY DEF ShapeInv, Exists
  <2> QED BY <1>2, <2>1, LeftKept
<1>5. Left(r)'
  BY <1>2 DEF LeftInv, Left, ShapeInv, PlacedInv, Exists
<1> QED BY <1>1, <1>3, <1>4, <1>5 DEF LeftInv

(* A namespace that is ending still exists.                                *)
LEMMA UndeployKept ==
  ASSUME RunPart, NEW r \in Runs, Undeploy(r)
  PROVE  RunPart'
<1> USE DEF RunPart
<1>1. ShapeInv'
  BY DEF ShapeInv, RunPlace, StopPlace, Undeploy, EndSpace
<1>0. UNCHANGED space \/ EndSpace(site[r])
  BY DEF Undeploy
<1>2. /\ SameIdle /\ SameMaking /\ site' = site /\ limits' = limits /\ pods' = pods
      /\ halfmade' = halfmade /\ cancelled' = cancelled /\ troubled \subseteq troubled'
      /\ autoCleanup' = autoCleanup
      /\ \A s \in Sites : /\ space'[s] = "absent" <=> space[s] = "absent"
                          /\ space'[s] = "active" => space[s] = "active"
                          /\ space[s] = "ending" => space'[s] = "ending"
  BY <1>0 DEF SameIdle, SameMaking, Making, ShapeInv, Undeploy, EndSpace
<1>3. PlacedInv' /\ BoundInv'
  BY <1>2, PlacedKept, BoundKept
<1>4. ASSUME NEW q \in Runs \ {r} PROVE Left(q)'
  <2>1. /\ place'[q] = place[q] /\ todo'[q] = todo[q] /\ after'[q] = after[q]
        /\ listed'[q] = listed[q] /\ step'[q] = step[q]
    BY DEF ShapeInv, Undeploy, EndSpace
  <2> QED BY <1>2, <2>1, LeftKept
<1>5. Left(r)'
  BY <1>2 DEF LeftInv, Left, ShapeInv, PlacedInv, Undeploy, EndSpace
<1> QED BY <1>1, <1>3, <1>4, <1>5 DEF LeftInv

(* The pod of the step comes into the list, with its row or without.       *)
LEMMA RecordKept ==
  ASSUME RunPart, NEW r \in Runs, Record(r)
  PROVE  RunPart'
<1> USE DEF RunPart
<1>1. ShapeInv'
  BY DEF ShapeInv, RunPlace, StopPlace, Record
<1>2. /\ SameIdle /\ SameMaking /\ site' = site /\ limits' = limits /\ pods' = pods
      /\ halfmade' = halfmade /\ cancelled' = cancelled /\ troubled' = troubled
      /\ autoCleanup' = autoCleanup
      /\ \A s \in Sites : /\ space'[s] = "absent" <=> space[s] = "absent"
                          /\ space'[s] = "active" => space[s] = "active"
                          /\ space[s] = "ending" => space'[s] = "ending"
  BY DEF SameIdle, SameMaking, Making, ShapeInv, Record
<1>3. PlacedInv' /\ BoundInv'
  BY <1>2, PlacedKept, BoundKept
<1>4. ASSUME NEW q \in Runs \ {r} PROVE Left(q)'
  <2>1. /\ place'[q] = place[q] /\ todo'[q] = todo[q] /\ after'[q] = after[q]
        /\ listed'[q] = listed[q] /\ step'[q] = step[q]
    BY DEF ShapeInv, Record
  <2> QED BY <1>2, <2>1, LeftKept
<1>5. Left(r)'
  BY <1>2 DEF LeftInv, Left, ShapeInv, PlacedInv, Record
<1> QED BY <1>1, <1>3, <1>4, <1>5 DEF LeftInv

(* A pod that is not ready, or no longer wanted, is taken away.            *)
LEMMA ReadyKept ==
  ASSUME RunPart, NEW r \in Runs, Ready(r)
  PROVE  RunPart'
<1> USE DEF RunPart
<1>1. ShapeInv'
  BY DEF ShapeInv, RunPlace, StopPlace, Ready, MustStop
<1>2. /\ SameIdle /\ SameMaking /\ site' = site /\ limits' = limits /\ pods' = pods
      /\ halfmade' = halfmade /\ cancelled' = cancelled /\ troubled' = troubled
      /\ autoCleanup' = autoCleanup
      /\ \A s \in Sites : /\ space'[s] = "absent" <=> space[s] = "absent"
                          /\ space'[s] = "active" => space[s] = "active"
                          /\ space[s] = "ending" => space'[s] = "ending"
  BY DEF SameIdle, SameMaking, Making, ShapeInv, Ready, MustStop
<1>3. PlacedInv' /\ BoundInv'
  BY <1>2, PlacedKept, BoundKept
<1>4. ASSUME NEW q \in Runs \ {r} PROVE Left(q)'
  <2>1. /\ place'[q] = place[q] /\ todo'[q] = todo[q] /\ after'[q] = after[q]
        /\ listed'[q] = listed[q] /\ step'[q] = step[q]
    BY DEF ShapeInv, Ready, MustStop
  <2> QED BY <1>2, <2>1, LeftKept
<1>5. Left(r)'
  BY <1>2 DEF LeftInv, Left, ShapeInv, PlacedInv, Ready, MustStop
<1> QED BY <1>1, <1>3, <1>4, <1>5 DEF LeftInv

(* So is one whose attack is over, if the policy says so.                  *)
LEMMA AttackKept ==
  ASSUME RunPart, NEW r \in Runs, Attack(r)
  PROVE  RunPart'
<1> USE DEF RunPart
<1>1. ShapeInv'
  BY DEF ShapeInv, RunPlace, StopPlace, Attack, MustStop
<1>2. /\ SameIdle /\ SameMaking /\ site' = site /\ limits' = limits /\ pods' = pods
      /\ halfmade' = halfmade /\ cancelled' = cancelled /\ troubled' = troubled
      /\ autoCleanup' = autoCleanup
      /\ \A s \in Sites : /\ space'[s] = "absent" <=> space[s] = "absent"
                          /\ space'[s] = "active" => space[s] = "active"
                          /\ space[s] = "ending" => space'[s] = "ending"
  BY DEF SameIdle, SameMaking, Making, ShapeInv, Attack, MustStop
<1>3. PlacedInv' /\ BoundInv'
  BY <1>2, PlacedKept, BoundKept
<1>4. ASSUME NEW q \in Runs \ {r} PROVE Left(q)'
  <2>1. /\ place'[q] = place[q] /\ todo'[q] = todo[q] /\ after'[q] = after[q]
        /\ listed'[q] = listed[q] /\ step'[q] = step[q]
    BY DEF ShapeInv, Attack, MustStop
  <2> QED BY <1>2, <2>1, LeftKept
<1>5. Left(r)'
  BY <1>2 DEF LeftInv, Left, ShapeInv, PlacedInv, Attack, MustStop
<1> QED BY <1>1, <1>3, <1>4, <1>5 DEF LeftInv

(* The next turn of the loop.                                              *)
LEMMA StepReturnsKept ==
  ASSUME RunPart, NEW r \in Runs, StepReturns(r)
  PROVE  RunPart'
<1> USE DEF RunPart
<1>1. ShapeInv'
  BY DEF ShapeInv, RunPlace, StopPlace, StepReturns
<1>2. /\ SameIdle /\ SameMaking /\ site' = site /\ limits' = limits /\ pods' = pods
      /\ halfmade' = halfmade /\ cancelled' = cancelled /\ troubled' = troubled
      /\ autoCleanup' = autoCleanup
      /\ \A s \in Sites : /\ space'[s] = "absent" <=> space[s] = "absent"
                          /\ space'[s] = "active" => space[s] = "active"
                          /\ space[s] = "ending" => space'[s] = "ending"
  BY DEF SameIdle, SameMaking, Making, ShapeInv, StepReturns
<1>3. PlacedInv' /\ BoundInv'
  BY <1>2, PlacedKept, BoundKept
<1>4. ASSUME NEW q \in Runs \ {r} PROVE Left(q)'
  <2>1. /\ place'[q] = place[q] /\ todo'[q] = todo[q] /\ after'[q] = after[q]
        /\ listed'[q] = listed[q] /\ step'[q] = step[q]
    BY DEF ShapeInv, StepReturns
  <2> QED BY <1>2, <2>1, LeftKept
<1>5. Left(r)'
  BY <1>2 DEF LeftInv, Left, ShapeInv, PlacedInv, StepReturns
<1> QED BY <1>1, <1>3, <1>4, <1>5 DEF LeftInv

(* A pod less: the first of those there are to delete, or an error that is *)
(* remembered.                                                             *)
LEMMA DeletePodKept ==
  ASSUME RunPart, NEW r \in Runs \cup Stops, DeletePod(r)
  PROVE  RunPart'
<1> USE DEF RunPart
<1>1. ShapeInv'
  BY DEF ShapeInv, RunPlace, StopPlace, DeletePod, Without, Scene, Owner
<1>2. /\ SameIdle /\ SameMaking /\ site' = site /\ limits' = limits
      /\ pods' \subseteq pods /\ halfmade' = halfmade /\ cancelled' = cancelled
      /\ troubled \subseteq troubled' /\ autoCleanup' = autoCleanup
      /\ \A s \in Sites : /\ space'[s] = "absent" <=> space[s] = "absent"
                          /\ space'[s] = "active" => space[s] = "active"
                          /\ space[s] = "ending" => space'[s] = "ending"
  BY DEF SameIdle, SameMaking, Making, ShapeInv, DeletePod, Without, Scene, Owner
<1>3. PlacedInv' /\ BoundInv'
  BY <1>2, PlacedKept, BoundKept
<1>4. ASSUME NEW q \in Runs \ {r} PROVE Left(q)'
  <2>1. /\ place'[q] = place[q] /\ todo'[q] = todo[q] /\ after'[q] = after[q]
        /\ listed'[q] = listed[q] /\ step'[q] = step[q]
    BY DEF ShapeInv, DeletePod, Without, Scene, Owner
  <2> QED BY <1>2, <2>1, LeftKept
<1>5. ASSUME r \in Runs PROVE Left(r)'
  BY <1>2, <1>5 DEF LeftInv, Left, ShapeInv, PlacedInv, DeletePod, Without, Scene, Owner
<1> QED BY <1>1, <1>3, <1>4, <1>5 DEF LeftInv

(* The namespace ends; the pod is not to do any more, and with the last of *)
(* them the cleanup is over.                                               *)
LEMMA DeleteSpaceKept ==
  ASSUME RunPart, NEW r \in Runs \cup Stops, DeleteSpace(r)
  PROVE  RunPart'
<1> USE DEF RunPart
<1>1. ShapeInv'
  BY DEF ShapeInv, RunPlace, StopPlace, DeleteSpace, Scene, EndSpace
<1>2. /\ SameIdle /\ SameMaking /\ site' = site /\ limits' = limits
      /\ pods' \subseteq pods /\ halfmade' = halfmade /\ cancelled' = cancelled
      /\ troubled \subseteq troubled' /\ autoCleanup' = autoCleanup
      /\ \A s \in Sites : /\ space'[s] = "absent" <=> space[s] = "absent"
                          /\ space'[s] = "active" => space[s] = "active"
                          /\ space[s] = "ending" => space'[s] = "ending"
  BY DEF SameIdle, SameMaking, Making, ShapeInv, DeleteSpace, Scene, EndSpace
<1>3. PlacedInv' /\ BoundInv'
  BY <1>2, PlacedKept, BoundKept
<1>4. ASSUME NEW q \in Runs \ {r} PROVE Left(q)'
  <2>1. /\ place'[q] = place[q] /\ todo'[q] = todo[q] /\ after'[q] = after[q]
        /\ listed'[q] = listed[q] /\ step'[q] = step[q]
    BY DEF ShapeInv, DeleteSpace, Scene, EndSpace
  <2> QED BY <1>2, <2>1, LeftKept
<1>5. ASSUME r \in Runs PROVE Left(r)'
  BY <1>2, <1>5 DEF LeftInv, Left, ShapeInv, PlacedInv, DeleteSpace, Scene, EndSpace
<1> QED BY <1>1, <1>3, <1>4, <1>5 DEF LeftInv

(* A cancelled run promises nothing any more.                              *)
LEMMA StopCancelsKept ==
  ASSUME RunPart, NEW t \in Stops, StopCancels(t)
  PROVE  RunPart'
<1> USE StepResourcesAssumption DEF RunPart, StepResourcesAssumption
<1>1. ShapeInv'
  BY DEF ShapeInv, RunPlace, StopPlace, StopCancels
<1>2. /\ SameIdle /\ SameMaking /\ site' = site /\ limits' = limits /\ pods' = pods
      /\ space' = space /\ halfmade' = halfmade /\ cancelled \subseteq cancelled'
      /\ troubled' = troubled /\ autoCleanup' = autoCleanup
  BY DEF SameIdle, SameMaking, Making, ShapeInv, StopCancels
<1>3. PlacedInv' /\ BoundInv'
  BY <1>2, PlacedKept, BoundKept
<1>4. ASSUME NEW q \in Runs PROVE Left(q)'
  <2>1. /\ place'[q] = place[q] /\ todo'[q] = todo[q] /\ after'[q] = after[q]
        /\ listed'[q] = listed[q] /\ step'[q] = step[q]
    BY DEF ShapeInv, StopCancels
  <2> QED BY <1>2, <2>1, LeftKept
<1> QED BY <1>1, <1>3, <1>4 DEF LeftInv

(* The stop key is not read here.                                          *)
LEMMA StopSignalsKept ==
  ASSUME RunPart, NEW t \in Stops, StopSignals(t)
  PROVE  RunPart'
<1> USE StepResourcesAssumption DEF RunPart, StepResourcesAssumption
<1>1. ShapeInv'
  BY DEF ShapeInv, RunPlace, StopPlace, StopSignals
<1>2. /\ SameIdle /\ SameMaking /\ site' = site /\ limits' = limits /\ pods' = pods
      /\ space' = space /\ halfmade' = halfmade /\ cancelled \subseteq cancelled'
      /\ troubled' = troubled /\ autoCleanup' = autoCleanup
  BY DEF SameIdle, SameMaking, Making, ShapeInv, StopSignals
<1>3. PlacedInv' /\ BoundInv'
  BY <1>2, PlacedKept, BoundKept
<1>4. ASSUME NEW q \in Runs PROVE Left(q)'
  <2>1. /\ place'[q] = place[q] /\ todo'[q] = todo[q] /\ after'[q] = after[q]
        /\ listed'[q] = listed[q] /\ step'[q] = step[q]
    BY DEF ShapeInv, StopSignals
  <2> QED BY <1>2, <2>1, LeftKept
<1> QED BY <1>1, <1>3, <1>4 DEF LeftInv

(* A stop has a list of its own.                                           *)
LEMMA StopLoadsKept ==
  ASSUME RunPart, NEW t \in Stops, NEW client, StopLoads(t, client)
  PROVE  RunPart'
<1> USE StepResourcesAssumption DEF RunPart, StepResourcesAssumption
<1>1. ShapeInv'
  BY DEF ShapeInv, RunPlace, StopPlace, StopLoads
<1>2. /\ SameIdle /\ SameMaking /\ site' = site /\ limits' = limits /\ pods' = pods
      /\ space' = space /\ halfmade' = halfmade /\ cancelled \subseteq cancelled'
      /\ troubled' = troubled /\ autoCleanup' = autoCleanup
  BY DEF SameIdle, SameMaking, Making, ShapeInv, StopLoads
<1>3. PlacedInv' /\ BoundInv'
  BY <1>2, PlacedKept, BoundKept
<1>4. ASSUME NEW q \in Runs PROVE Left(q)'
  <2>1. /\ place'[q] = place[q] /\ todo'[q] = todo[q] /\ after'[q] = after[q]
        /\ listed'[q] = listed[q] /\ step'[q] = step[q]
    BY DEF ShapeInv, StopLoads
  <2> QED BY <1>2, <2>1, LeftKept
<1> QED BY <1>1, <1>3, <1>4 DEF LeftInv

(* What is lost stays as it is.                                            *)
LEMMA StepsLostKept ==
  ASSUME RunPart, StepsLost
  PROVE  RunPart'
<1> USE StepResourcesAssumption DEF RunPart, StepResourcesAssumption
<1>1. ShapeInv'
  BY DEF ShapeInv, RunPlace, StopPlace, StepsLost
<1>2. /\ SameIdle /\ SameMaking /\ site' = site /\ limits' = limits /\ pods' = pods
      /\ space' = space /\ halfmade' = halfmade /\ cancelled' = cancelled
      /\ troubled' = troubled /\ autoCleanup' = autoCleanup
  BY DEF SameIdle, SameMaking, Making, ShapeInv, StepsLost
<1>3. PlacedInv' /\ BoundInv'
  BY <1>2, PlacedKept, BoundKept
<1>4. ASSUME NEW q \in Runs PROVE Left(q)'
  <2>1. /\ place'[q] = place[q] \/ place'[q] = "lost"
        /\ todo'[q] = todo[q] /\ after'[q] = after[q]
        /\ listed'[q] = listed[q] /\ step'[q] = step[q]
    BY DEF StepsLost
  <2> QED BY <1>2, <2>1, LeftKept
<1> QED BY <1>1, <1>3, <1>4 DEF LeftInv

-----------------------------------------------------------------------------
(* The steps that make something, and the end of a namespace.              *)

(* A new namespace has no pods, and no limits yet.                         *)
LEMMA CreateKept ==
  ASSUME RunPart, NEW r \in Runs, Create(r)
  PROVE  RunPart'
<1> USE DEF RunPart
<1>1. ShapeInv'
  BY DEF ShapeInv, RunPlace, StopPlace, Create
<1>2. PlacedInv'
  BY DEF ShapeInv, PlacedInv, Create
<1>3. BoundInv'
  BY DEF ShapeInv, PlacedInv, BoundInv, Alone, Making, Create
<1>4. ASSUME NEW q \in Runs PROVE Left(q)'
  BY DEF LeftInv, Left, ShapeInv, PlacedInv, First, Create
<1> QED BY <1>1, <1>2, <1>3, <1>4 DEF LeftInv

(* The quota.                                                              *)
LEMMA QuotaKept ==
  ASSUME RunPart, NEW r \in Runs, Quota(r)
  PROVE  RunPart'
<1> USE DEF RunPart
<1>1. ShapeInv'
  BY DEF ShapeInv, RunPlace, StopPlace, Quota, Bound, Limit
<1>2. PlacedInv'
  BY DEF ShapeInv, PlacedInv, Quota, Bound
<1>3. BoundInv'
  BY DEF ShapeInv, PlacedInv, BoundInv, Alone, Making, Quota, Bound, Limit
<1>4. ASSUME NEW q \in Runs PROVE Left(q)'
  BY DEF LeftInv, Left, ShapeInv, PlacedInv, First, Quota, Bound
<1> QED BY <1>1, <1>2, <1>3, <1>4 DEF LeftInv

(* The limit range: the namespace has its limits now.                      *)
LEMMA RangeKept ==
  ASSUME RunPart, NEW r \in Runs, Range(r)
  PROVE  RunPart'
<1> USE DEF RunPart
<1>1. ShapeInv'
  BY DEF ShapeInv, RunPlace, StopPlace, Range, Bound, Limit
<1>2. PlacedInv'
  BY DEF ShapeInv, PlacedInv, Range, Bound
<1>3. BoundInv'
  BY DEF ShapeInv, PlacedInv, BoundInv, Alone, Making, Range, Bound, Limit
<1>4. ASSUME NEW q \in Runs PROVE Left(q)'
  BY DEF LeftInv, Left, ShapeInv, PlacedInv, First, Range, Bound
<1> QED BY <1>1, <1>2, <1>3, <1>4 DEF LeftInv

(* A half-made namespace ends, or its cluster is remembered.               *)
LEMMA RollbackKept ==
  ASSUME RunPart, NEW r \in Runs, Rollback(r)
  PROVE  RunPart'
<1> USE DEF RunPart
<1>1. ShapeInv'
  BY DEF ShapeInv, RunPlace, StopPlace, Rollback, EndSpace
<1>2. PlacedInv'
  BY DEF ShapeInv, PlacedInv, Rollback, EndSpace
<1>3. BoundInv'
  BY DEF ShapeInv, PlacedInv, BoundInv, Alone, Making, Rollback, EndSpace
<1>4. ASSUME NEW q \in Runs PROVE Left(q)'
  BY DEF LeftInv, Left, ShapeInv, PlacedInv, First, Rollback, EndSpace
<1> QED BY <1>1, <1>2, <1>3, <1>4 DEF LeftInv

(* A pod comes into a namespace that is active, with its limits.           *)
LEMMA DeployKept ==
  ASSUME RunPart, NEW r \in Runs, Deploy(r)
  PROVE  RunPart'
<1> USE DEF RunPart
<1>1. ShapeInv'
  BY DEF ShapeInv, RunPlace, StopPlace, Deploy
<1>2. PlacedInv'
  BY DEF ShapeInv, PlacedInv, Deploy
<1>3. BoundInv'
  BY DEF ShapeInv, PlacedInv, BoundInv, Alone, Making, Deploy
<1>4. ASSUME NEW q \in Runs PROVE Left(q)'
  BY DEF LeftInv, Left, ShapeInv, PlacedInv, First, Deploy
<1> QED BY <1>1, <1>2, <1>3, <1>4 DEF LeftInv

(* The namespace is gone with its pods and its limits.                     *)
LEMMA SpaceEndsKept ==
  ASSUME RunPart, NEW s \in Sites, SpaceEnds(s)
  PROVE  RunPart'
<1> USE DEF RunPart
<1>1. ShapeInv'
  BY DEF ShapeInv, RunPlace, StopPlace, SpaceEnds
<1>2. PlacedInv'
  BY DEF ShapeInv, PlacedInv, SpaceEnds
<1>3. BoundInv'
  BY DEF ShapeInv, PlacedInv, BoundInv, Alone, Making, SpaceEnds
<1>4. ASSUME NEW q \in Runs PROVE Left(q)'
  BY DEF LeftInv, Left, ShapeInv, PlacedInv, First, SpaceEnds
<1> QED BY <1>1, <1>2, <1>3, <1>4 DEF LeftInv

(* A run comes to a cluster, where others may be.                          *)
LEMMA StartKept ==
  ASSUME RunPart, NEW r \in Runs, NEW h, NEW s \in Sites, Start(r, h, s)
  PROVE  RunPart'
<1> USE DEF RunPart
<1>1. ShapeInv'
  BY DEF ShapeInv, RunPlace, StopPlace, Start
<1>2. PlacedInv'
  BY DEF ShapeInv, PlacedInv, Start
<1>3. BoundInv'
  BY DEF ShapeInv, PlacedInv, BoundInv, Alone, Making, Start
<1>4. ASSUME NEW q \in Runs PROVE Left(q)'
  BY DEF LeftInv, Left, ShapeInv, PlacedInv, First, Start
<1> QED BY <1>1, <1>2, <1>3, <1>4 DEF LeftInv

-----------------------------------------------------------------------------
(* Before any run there is nothing.                                        *)
LEMMA PodInvInit ==
  ASSUME StepsInit
  PROVE  PodInv
<1> USE DEF StepsInit, RunPlace, StopPlace
<1>1. ShapeInv
  BY DEF ShapeInv
<1>2. PlacedInv /\ BoundInv /\ LeftInv
  BY DEF PlacedInv, BoundInv, Alone, LeftInv, Left
<1>3. StopInv
  BY DEF StopInv, Stopped
<1> QED BY <1>1, <1>2, <1>3 DEF PodInv, RunPart

(* What the invariant says of a run that is over, and of a pod in the      *)
(* namespace of a run that is alone.                                       *)
LEMMA PodInvSuffices ==
  ASSUME PodInv
  PROVE  NothingLeft /\ PodsBounded
<1> USE DEF PodInv, RunPart
<1>1. NothingLeft
  <2>1. ASSUME NEW r \in Runs \ (cancelled \cup troubled), place[r] = "over", autoCleanup,
               NEW d \in pods, d[1] = r
        PROVE  space[site[r]] = "ending"
    BY <2>1 DEF LeftInv, Left
  <2>2. ASSUME NEW t \in Stops \ missed, place[t] = "over",
               home[StopOf[t]] = site[StopOf[t]], NEW d \in pods \cap podRows
        PROVE  d[1] # StopOf[t]
    BY <2>2 DEF StopInv, Stopped
  <2> QED BY <2>1, <2>2 DEF NothingLeft
<1>2. ASSUME NEW d \in pods
      PROVE  \/ limits[site[d[1]]] = Limit
             \/ site[d[1]] \in halfmade
             \/ \E r \in Runs \ {d[1]} : place[r] # "idle" /\ site[r] = site[d[1]]
  <2>1. d[1] \in Runs /\ place[d[1]] # "idle"
    BY DEF PodInv, ShapeInv, PlacedInv
  <2>2. CASE Alone(d[1])
    BY <2>1, <2>2 DEF PodInv, BoundInv
  <2>3. CASE ~Alone(d[1])
    BY <2>1, <2>3 DEF Alone
  <2> QED BY <2>2, <2>3
<1> QED BY <1>1, <1>2 DEF PodsBounded

-----------------------------------------------------------------------------
(* All of them.                                                            *)
PodStep ==
  \/ \E r \in Runs : RunGoes(r)
  \/ \E r \in Runs \cup Stops : Deletes(r)
  \/ \E s \in Sites : SpaceEnds(s)
  \/ \E t \in Stops : \/ StopCancels(t) \/ StopSignals(t)
                      \/ \E client \in BOOLEAN : StopLoads(t, client)

\* Every step keeps what is said of the runs.
LEMMA RunPartKept ==
  ASSUME RunPart, PodStep
  PROVE  RunPart'
<1>1. ASSUME NEW r \in Runs, RunGoes(r) PROVE RunPart'
  BY <1>1, BeginKept, ExistsKept, CreateKept, QuotaKept, RangeKept,
     RollbackKept, DeployKept, UndeployKept, RecordKept, ReadyKept, AttackKept,
     StepReturnsKept
  DEF RunGoes
<1>2. ASSUME NEW r \in Runs \cup Stops, Deletes(r) PROVE RunPart'
  BY <1>2, DeletePodKept, DeleteSpaceKept DEF Deletes
<1> QED BY <1>1, <1>2, SpaceEndsKept, StopCancelsKept, StopSignalsKept,
           StopLoadsKept
        DEF PodStep

\* A run stays on its cluster.
LEMMA PodStepStays ==
  ASSUME RunPart, PodStep
  PROVE  UNCHANGED <<home, site>> /\ SameIdle
<1> USE DEF RunPart, ShapeInv, SameIdle
<1>1. ASSUME NEW r \in Runs, RunGoes(r) PROVE UNCHANGED <<home, site>> /\ SameIdle
  BY <1>1
  DEF RunGoes, Begin, Exists, Create, Quota, Range, Bound, Rollback, Deploy,
      Undeploy, Record, Ready, Attack, StepReturns
<1>2. ASSUME NEW r \in Runs \cup Stops, Deletes(r) PROVE UNCHANGED <<home, site>> /\ SameIdle
  BY <1>2 DEF Deletes, DeletePod, DeleteSpace
<1>3. ASSUME NEW s \in Sites, SpaceEnds(s) PROVE UNCHANGED <<home, site>> /\ SameIdle
  BY <1>3 DEF SpaceEnds
<1>4. ASSUME NEW t \in Stops, NEW client \in BOOLEAN,
             StopCancels(t) \/ StopSignals(t) \/ StopLoads(t, client)
      PROVE  UNCHANGED <<home, site>> /\ SameIdle
  BY <1>4, StepResourcesAssumption
  DEF StepResourcesAssumption, StopCancels, StopSignals, StopLoads
<1> QED BY <1>1, <1>2, <1>3, <1>4 DEF PodStep

\* What a step does not bring about: a pod with a row, of a run that is cancelled.
NoneAnew(t) ==
  \A d \in pods' \cap podRows' :
    d[1] = StopOf[t] /\ StopOf[t] \in cancelled => d \in pods \cap podRows

\* A stop that the step is not of.
LEMMA StoppedKept ==
  ASSUME RunPart, NEW t \in Stops, Stopped(t), UNCHANGED <<home, site>>, SameIdle,
         cancelled \subseteq cancelled', missed \subseteq missed', NoneAnew(t),
         place'[t] = place[t] \/ place'[t] = "lost", todo'[t] = todo[t]
  PROVE  Stopped(t)'
<1>1. StopOf[t] \in Runs
  BY StepResourcesAssumption DEF StepResourcesAssumption
<1> QED BY <1>1 DEF Stopped, First, SameIdle, NoneAnew

\* A run deploys and records with a context that is not cancelled.
LEMMA RunGoesKeepsStops ==
  ASSUME PodInv, NEW r \in Runs, RunGoes(r)
  PROVE  StopInv'
<1> SUFFICES ASSUME NEW t \in Stops PROVE Stopped(t)'
  BY DEF StopInv
<1>1. t # r /\ r \in Runs \cup Stops /\ t \in Runs \cup Stops
  BY StepResourcesAssumption DEF StepResourcesAssumption
<1>2. UNCHANGED <<home, site>> /\ SameIdle
  BY PodStepStays DEF PodStep, PodInv
<1>3. cancelled' = cancelled /\ missed' = missed
  BY DEF RunGoes, Begin, Exists, Create, Quota, Range, Bound, Rollback, Deploy,
         Undeploy, Record, Ready, Attack, StepReturns
<1>4. place'[t] = place[t] /\ todo'[t] = todo[t]
  BY <1>1
  DEF PodInv, RunPart, ShapeInv, RunGoes, Begin, Exists, Create, Quota, Range, Bound,
      Rollback, Deploy, Undeploy, Record, Ready, Attack, StepReturns
<1>5. NoneAnew(t)
  <2>1. CASE Deploy(r)
    BY <2>1 DEF NoneAnew, Deploy
  <2>2. CASE Record(r)
    BY <2>2 DEF NoneAnew, Record
  <2>3. CASE ~Deploy(r) /\ ~Record(r)
    BY <2>3
    DEF NoneAnew, RunGoes, Begin, Exists, Create, Quota, Range, Bound, Rollback,
        Undeploy, Ready, Attack, StepReturns
  <2> QED BY <2>1, <2>2, <2>3
<1> QED BY <1>2, <1>3, <1>4, <1>5, StoppedKept DEF PodInv, StopInv

\* A stop deletes the pods it has loaded one by one.
LEMMA DeletesKeepStops ==
  ASSUME PodInv, NEW r \in Runs \cup Stops, Deletes(r)
  PROVE  StopInv'
<1> SUFFICES ASSUME NEW t \in Stops PROVE Stopped(t)'
  BY DEF StopInv
<1>0. Stopped(t) /\ t \notin Runs /\ StopOf[t] \in Runs
  BY StepResourcesAssumption DEF StepResourcesAssumption, PodInv, StopInv
<1>1. /\ place \in [Runs \cup Stops -> RunPlace \cup StopPlace]
      /\ todo \in [Runs \cup Stops -> SUBSET (Runs \X Nat)]
      /\ after \in [Runs \cup Stops -> {"over", "next"}]
  BY DEF PodInv, RunPart, ShapeInv
<1>2. UNCHANGED <<home, site>> /\ SameIdle
  BY PodStepStays DEF PodStep, PodInv
<1>3. /\ cancelled' = cancelled /\ missed \subseteq missed' /\ podRows' = podRows
      /\ pods' \subseteq pods
  BY DEF Deletes, DeletePod, DeleteSpace, Without
<1>4. CASE t # r
  <2>1. place'[t] = place[t] /\ todo'[t] = todo[t]
    BY <1>1, <1>4 DEF Deletes, DeletePod, DeleteSpace
  <2>2. NoneAnew(t)
    BY <1>3 DEF NoneAnew
  <2> QED BY <1>0, <1>2, <1>3, <2>1, <2>2, StoppedKept DEF PodInv
<1>5. CASE t = r /\ DeletePod(r)
  <2>1. /\ place[t] = "pod" /\ place'[t] = "space" /\ todo' = todo
        /\ pods' = Without(First(todo[t]), Scene(t)) \/ t \in missed'
    BY <1>1, <1>5 DEF DeletePod
  <2>2. ASSUME t \notin missed', home[StopOf[t]] = site[StopOf[t]],
               NEW d \in pods' \cap podRows, d[1] = StopOf[t]
        PROVE  d \in todo[t] \ {First(todo[t])}
    <3>1. d \in todo[t]
      BY <1>0, <1>3, <2>1, <2>2 DEF Stopped
    <3>2. d # First(todo[t])
      BY <1>0, <2>1, <2>2 DEF Without, Scene
    <3> QED BY <3>1, <3>2
  <2>3. t \notin missed' => StopOf[t] \in cancelled' /\ place'[StopOf[t]] # "idle"
    BY <1>0, <1>2, <1>3, <2>1 DEF Stopped, SameIdle
  <2>4. First(todo[t])' = First(todo[t])
    BY <2>1 DEF First
  <2> QED BY <1>2, <1>3, <2>1, <2>2, <2>3, <2>4 DEF Stopped
<1>6. CASE t = r /\ DeleteSpace(r)
  <2> DEFINE d0 == First(todo[t])
  <2>1. /\ place[t] = "space" /\ todo'[t] = todo[t] \ {d0} /\ pods' = pods
        /\ place'[t] = IF todo[t] = {d0} THEN after[t] ELSE "pod"
        /\ missed' = missed
    BY <1>1, <1>6 DEF DeleteSpace
  <2>2. place'[t] \in {"over", "next", "pod"}
    BY <1>1, <2>1
  <2>3. ASSUME t \notin missed, home[StopOf[t]] = site[StopOf[t]],
               NEW d \in pods \cap podRows, d[1] = StopOf[t]
        PROVE  d \in todo[t] \ {d0}
    BY <1>0, <2>1, <2>3 DEF Stopped
  <2>4. t \notin missed => StopOf[t] \in cancelled' /\ place'[StopOf[t]] # "idle"
    BY <1>0, <1>2, <1>3, <2>1 DEF Stopped, SameIdle
  <2> HIDE DEF d0
  <2> QED BY <1>2, <1>3, <2>1, <2>2, <2>3, <2>4 DEF Stopped
<1> QED BY <1>4, <1>5, <1>6 DEF Deletes

\* A stop comes to its end without a list, or loads one of all the rows there are.
LEMMA StopsKeepStops ==
  ASSUME PodInv, NEW u \in Stops, NEW client \in BOOLEAN,
         StopCancels(u) \/ StopSignals(u) \/ StopLoads(u, client)
  PROVE  StopInv'
<1> SUFFICES ASSUME NEW t \in Stops PROVE Stopped(t)'
  BY DEF StopInv
<1>0. Stopped(t) /\ t \notin Runs /\ StopOf[t] \in Runs
  BY StepResourcesAssumption DEF StepResourcesAssumption, PodInv, StopInv
<1>1. /\ place \in [Runs \cup Stops -> RunPlace \cup StopPlace]
      /\ todo \in [Runs \cup Stops -> SUBSET (Runs \X Nat)]
  BY DEF PodInv, RunPart, ShapeInv
<1>2. UNCHANGED <<home, site>> /\ SameIdle
  BY PodStepStays DEF PodStep, PodInv
<1>3. /\ cancelled \subseteq cancelled' /\ missed \subseteq missed' /\ podRows' = podRows
      /\ pods' = pods
  BY DEF StopCancels, StopSignals, StopLoads
<1>4. CASE t # u
  <2>1. place'[t] = place[t] /\ todo'[t] = todo[t]
    BY <1>1, <1>4 DEF StopCancels, StopSignals, StopLoads
  <2>2. NoneAnew(t)
    BY <1>3 DEF NoneAnew
  <2> QED BY <1>0, <1>2, <1>3, <2>1, <2>2, StoppedKept DEF PodInv
<1>5. CASE t = u /\ StopCancels(u)
  <2>1. /\ place[StopOf[t]] # "idle" /\ place'[t] = "signal"
        /\ StopOf[t] \in cancelled' \/ t \in missed'
    BY <1>1, <1>5 DEF StopCancels
  <2>2. place'[StopOf[t]] # "idle"
    BY <1>0, <1>2, <2>1 DEF SameIdle
  <2> QED BY <2>1, <2>2 DEF Stopped
<1>6. CASE t = u /\ StopSignals(u)
  <2>1. place[t] = "signal" /\ place'[t] = "load"
    BY <1>1, <1>6 DEF StopSignals
  <2>2. t \notin missed' => StopOf[t] \in cancelled' /\ place'[StopOf[t]] # "idle"
    BY <1>0, <1>2, <1>3, <2>1 DEF Stopped, SameIdle
  <2> QED BY <2>1, <2>2 DEF Stopped
<1>7. CASE t = u /\ StopLoads(u, client)
  <2>1. place[t] = "load"
    BY <1>7 DEF StopLoads
  <2>2. t \notin missed' => StopOf[t] \in cancelled' /\ place'[StopOf[t]] # "idle"
    BY <1>0, <1>2, <1>3, <2>1 DEF Stopped, SameIdle
  <2>3. CASE t \notin missed'
    <3> DEFINE D == {d \in podRows : d[1] = StopOf[t]}
    <3>1. todo'[t] = D /\ place'[t] = IF D = {} THEN "over" ELSE "pod"
      BY <1>1, <1>7, <2>3 DEF StopLoads
    <3>2. \A d \in pods' \cap podRows' : d[1] = StopOf[t] => d \in D
      BY <1>3
    <3> HIDE DEF D
    <3> QED BY <1>2, <2>2, <2>3, <3>1, <3>2 DEF Stopped
  <2> QED BY <2>3 DEF Stopped
<1> QED BY <1>4, <1>5, <1>6, <1>7

\* Every step keeps PodInv.
LEMMA PodStepKept ==
  ASSUME PodInv, PodStep
  PROVE  PodInv'
<1>1. RunPart'
  BY RunPartKept DEF PodInv
<1>2. ASSUME NEW s \in Sites, SpaceEnds(s) PROVE StopInv'
  <2> SUFFICES ASSUME NEW t \in Stops PROVE Stopped(t)'
    BY DEF StopInv
  <2>1. UNCHANGED <<home, site>> /\ SameIdle
    BY <1>2, PodStepStays DEF PodStep, PodInv
  <2> QED BY <1>2, <2>1, StoppedKept DEF PodInv, StopInv, SpaceEnds, NoneAnew
<1> QED BY <1>1, <1>2, RunGoesKeepsStops, DeletesKeepStops, StopsKeepStops
        DEF PodStep, PodInv

\* A run that starts has not been stopped.
LEMMA PodStartKept ==
  ASSUME PodInv, NEW r \in Runs, NEW h, NEW s \in Sites, Start(r, h, s)
  PROVE  PodInv'
<1>1. RunPart'
  BY StartKept DEF PodInv
<1>2. ASSUME NEW t \in Stops PROVE Stopped(t)'
  <2>1. t # r /\ StopOf[t] \in Runs
    BY StepResourcesAssumption DEF StepResourcesAssumption
  <2>2. /\ place' = [place EXCEPT ![r] = "begin"] /\ place[r] = "idle"
        /\ home' = [home EXCEPT ![r] = h] /\ site' = [site EXCEPT ![r] = s]
        /\ UNCHANGED <<pods, podRows, cancelled, missed, todo>>
    BY DEF Start
  <2>3. place \in [Runs \cup Stops -> RunPlace \cup StopPlace] /\ DOMAIN home = Runs
        /\ DOMAIN site = Runs
    BY DEF PodInv, RunPart, ShapeInv
  <2>4. place'[t] = place[t] /\ Stopped(t)
    BY <2>1, <2>2, <2>3 DEF PodInv, StopInv
  <2>5. CASE StopOf[t] = r
    BY <2>2, <2>4, <2>5 DEF Stopped
  <2>6. CASE StopOf[t] # r
    <3>1. /\ home'[StopOf[t]] = home[StopOf[t]] /\ site'[StopOf[t]] = site[StopOf[t]]
          /\ place'[StopOf[t]] = place[StopOf[t]]
      BY <2>1, <2>2, <2>3, <2>6
    <3> QED BY <2>2, <2>4, <3>1 DEF Stopped, First
  <2> QED BY <2>5, <2>6
<1> QED BY <1>1, <1>2 DEF PodInv, StopInv

\* A lost stop has promised nothing.
LEMMA PodsLostKept ==
  ASSUME PodInv, StepsLost
  PROVE  PodInv'
<1>1. RunPart'
  BY StepsLostKept DEF PodInv
<1>2. ASSUME NEW t \in Stops PROVE Stopped(t)'
  <2>1. /\ place'[t] = place[t] \/ place'[t] = "lost"
        /\ UNCHANGED <<home, site, pods, podRows, cancelled, missed, todo>>
    BY DEF StepsLost
  <2>2. SameIdle
    BY DEF StepsLost, SameIdle
  <2> QED BY <2>1, <2>2, StoppedKept DEF PodInv, StopInv, NoneAnew
<1> QED BY <1>1, <1>2 DEF PodInv, StopInv

\* PodInv is about the variables of StepResources only.
LEMMA PodInvStays ==
  ASSUME PodInv, UNCHANGED stepVars
  PROVE  PodInv'
<1>1. RunPart'
  BY DEF PodInv, RunPart, ShapeInv, PlacedInv, BoundInv, Alone, LeftInv, Left, First,
         stepVars
<1>2. StopInv'
  BY DEF PodInv, StopInv, Stopped, First, stepVars
<1> QED BY <1>1, <1>2 DEF PodInv

-----------------------------------------------------------------------------
(* The types of the whole.                                                 *)

\* A run that is inside a step has counted it, so its pod is that of a step.
InStep == {"exists", "create", "quota", "range", "rollback", "deploy", "undeploy",
           "record", "ready", "attack"}

StepsTyped == StepsTypeOK /\ \A r \in Runs : place[r] \in InStep => step[r] # 0

\* What every action of a run or a stop changes.
LEMMA GoesTyped ==
  ASSUME StepsTyped, NEW r \in Runs \cup Stops, NEW from,
         NEW to \in RunPlace \cup StopPlace, Goes(r, from, to),
         to \in InStep => from \in InStep, UNCHANGED step
  PROVE  /\ place' \in [Runs \cup Stops -> RunPlace \cup StopPlace]
         /\ \A q \in Runs : place'[q] \in InStep => step'[q] # 0
  BY DEF StepsTyped, StepsTypeOK, Goes

\* A deletion is planned of pods.
LEMMA CleanTyped ==
  ASSUME StepsTyped, NEW r \in Runs \cup Stops, NEW from, NEW D \in SUBSET Pods,
         NEW p \in {"over", "next"}, Clean(r, from, D, p), UNCHANGED step
  PROVE  /\ place' \in [Runs \cup Stops -> RunPlace \cup StopPlace]
         /\ \A q \in Runs : place'[q] \in InStep => step'[q] # 0
         /\ todo' \in [Runs \cup Stops -> SUBSET Pods]
         /\ after' \in [Runs \cup Stops -> RunPlace \cup StopPlace]
<1>1. Goes(r, from, IF D = {} THEN p ELSE "pod")
  BY DEF Clean
<1>2. (IF D = {} THEN p ELSE "pod") \in (RunPlace \cup StopPlace) \ InStep
  BY DEF RunPlace, StopPlace, InStep
<1>3. /\ todo' \in [Runs \cup Stops -> SUBSET Pods]
      /\ after' \in [Runs \cup Stops -> RunPlace \cup StopPlace]
  BY DEF Clean, StepsTyped, StepsTypeOK, RunPlace, StopPlace
<1> QED BY <1>1, <1>2, <1>3, GoesTyped

\* The pod of the step a run is in.
LEMMA MineTyped ==
  ASSUME StepsTyped, NEW r \in Runs, place[r] \in InStep
  PROVE  Mine(r) \in Pods /\ step[r] \in Steps
  BY DEF StepsTyped, StepsTypeOK, Mine, Pods

\* A call that is answered or fails leaves the number of faults in range.
LEMMA FaultsTyped ==
  ASSUME StepsTyped, NEW r,
         \/ Works(r) \/ Lost(r) \/ Breaks(r)
         \/ StopSeen(r) \/ NoStopSeen(r) \/ MustStop(r) \/ MayGoOn(r)
  PROVE  faults' \in 0..MaxFaults
<1>1. faults' = faults \/ (faults > 0 /\ faults' = faults - 1)
  BY DEF StopSeen, NoStopSeen, MustStop, MayGoOn
<1> QED BY <1>1, StepResourcesAssumption
        DEF StepsTyped, StepsTypeOK, StepResourcesAssumption

\* The actions of a run inside a step.
LEMMA RunGoesTyped ==
  ASSUME StepsTyped, PodInv, NEW r \in Runs, RunGoes(r)
  PROVE  StepsTyped'
<1> USE DEF Steps
<1>0. place[r] # "idle" => site[r] \in Sites
  BY DEF PodInv, RunPart, PlacedInv
<1>1. CASE Begin(r)
  <2>0. faults' \in 0..MaxFaults
    BY <1>1, FaultsTyped DEF Begin, StepsTyped, StepsTypeOK
  <2>1. CASE /\ step[r] < NSteps /\ Goes(r, "begin", "exists")
             /\ step' = [step EXCEPT ![r] = @ + 1] /\ UNCHANGED <<todo, after>>
    <3>1. /\ step' \in [Runs -> 0..NSteps] /\ step'[r] # 0
          /\ \A q \in Runs \ {r} : step'[q] = step[q]
      <4>1. step[r] \in 0..NSteps /\ NSteps \in Nat /\ step \in [Runs -> 0..NSteps]
        BY StepResourcesAssumption DEF StepsTyped, StepsTypeOK, StepResourcesAssumption
      <4>2. step[r] + 1 \in 0..NSteps /\ step[r] + 1 # 0
        BY <2>1, <4>1
      <4> QED BY <2>1, <4>1, <4>2
    <3>2. place' \in [Runs \cup Stops -> RunPlace \cup StopPlace]
      BY <2>1 DEF StepsTyped, StepsTypeOK, Goes, RunPlace
    <3>3. \A q \in Runs : place'[q] \in InStep => step'[q] # 0
      BY <2>1, <3>1 DEF StepsTyped, StepsTypeOK, Goes
    <3> QED BY <1>1, <2>0, <2>1, <3>1, <3>2, <3>3 DEF Begin, StepsTyped, StepsTypeOK
  <2>2. ASSUME NEW D \in SUBSET Pods, Clean(r, "begin", D, "over"), UNCHANGED step
        PROVE  StepsTyped'
    BY <1>1, <2>0, <2>2, CleanTyped DEF Begin, StepsTyped, StepsTypeOK
  <2>3. {r} \X listed[r] \in SUBSET Pods /\ {} \in SUBSET Pods
    BY DEF StepsTyped, StepsTypeOK, Pods
  <2> QED BY <1>1, <2>1, <2>2, <2>3 DEF Begin
<1>2. CASE Exists(r)
  <2>1. PICK to \in {"create", "deploy", "next"} : Goes(r, "exists", to)
    BY <1>2 DEF Exists
  <2>2. /\ place' \in [Runs \cup Stops -> RunPlace \cup StopPlace]
        /\ \A q \in Runs : place'[q] \in InStep => step'[q] # 0
    BY <1>2, <2>1, GoesTyped DEF Exists, RunPlace, InStep
  <2>3. faults' \in 0..MaxFaults
    BY <1>2, FaultsTyped DEF Exists
  <2> QED BY <1>2, <2>2, <2>3 DEF Exists, StepsTyped, StepsTypeOK
<1>3. CASE Create(r)
  <2>1. PICK to \in {"quota", "deploy", "next"} : Goes(r, "create", to)
    BY <1>3 DEF Create
  <2>2. /\ place' \in [Runs \cup Stops -> RunPlace \cup StopPlace]
        /\ \A q \in Runs : place'[q] \in InStep => step'[q] # 0
    BY <1>3, <2>1, GoesTyped DEF Create, RunPlace, InStep
  <2>3. faults' \in 0..MaxFaults
    BY <1>3, FaultsTyped DEF Create
  <2>4. /\ space' \in [Sites -> {"absent", "active", "ending"}]
        /\ halfmade' \subseteq Sites
    BY <1>0, <1>3 DEF Create, Goes, StepsTyped, StepsTypeOK
  <2> QED BY <1>3, <2>2, <2>3, <2>4 DEF Create, StepsTyped, StepsTypeOK
<1>4. ASSUME NEW l \in Limit, NEW next \in {"range", "deploy"}, Bound(r, l, next)
      PROVE  StepsTyped'
  <2>1. PICK to \in {"range", "deploy", "rollback"} : Goes(r, l, to)
    BY <1>4 DEF Bound
  <2>2. /\ place' \in [Runs \cup Stops -> RunPlace \cup StopPlace]
        /\ \A q \in Runs : place'[q] \in InStep => step'[q] # 0
    BY <1>4, <2>1, GoesTyped DEF Bound, RunPlace, InStep, Limit
  <2>3. faults' \in 0..MaxFaults
    BY <1>4, FaultsTyped DEF Bound
  <2>4. limits' \in [Sites -> SUBSET Limit]
    BY <1>4 DEF Bound, StepsTyped, StepsTypeOK
  <2> QED BY <1>4, <2>2, <2>3, <2>4 DEF Bound, StepsTyped, StepsTypeOK
<1>5. CASE Rollback(r)
  <2>1. /\ place' \in [Runs \cup Stops -> RunPlace \cup StopPlace]
        /\ \A q \in Runs : place'[q] \in InStep => step'[q] # 0
    BY <1>5, GoesTyped DEF Rollback, RunPlace, InStep
  <2>2. faults' \in 0..MaxFaults
    BY <1>5, FaultsTyped DEF Rollback
  <2>3. /\ space' \in [Sites -> {"absent", "active", "ending"}]
        /\ halfmade' \subseteq Sites
    BY <1>0, <1>5 DEF Rollback, EndSpace, Goes, StepsTyped, StepsTypeOK
  <2> QED BY <1>5, <2>1, <2>2, <2>3 DEF Rollback, StepsTyped, StepsTypeOK
<1>6. CASE Deploy(r)
  <2>1. PICK to \in {"record", "undeploy"} : Goes(r, "deploy", to)
    BY <1>6 DEF Deploy
  <2>2. /\ place' \in [Runs \cup Stops -> RunPlace \cup StopPlace]
        /\ \A q \in Runs : place'[q] \in InStep => step'[q] # 0
    BY <1>6, <2>1, GoesTyped DEF Deploy, RunPlace, InStep
  <2>3. faults' \in 0..MaxFaults
    BY <1>6, FaultsTyped DEF Deploy
  <2>4. pods' \subseteq Pods
    BY <1>6, <2>1, MineTyped DEF Deploy, Goes, InStep, StepsTyped, StepsTypeOK
  <2> QED BY <1>6, <2>2, <2>3, <2>4 DEF Deploy, StepsTyped, StepsTypeOK
<1>7. CASE Undeploy(r)
  <2>1. /\ place' \in [Runs \cup Stops -> RunPlace \cup StopPlace]
        /\ \A q \in Runs : place'[q] \in InStep => step'[q] # 0
    BY <1>7, GoesTyped DEF Undeploy, RunPlace, InStep
  <2>2. faults' \in 0..MaxFaults
    BY <1>7, FaultsTyped DEF Undeploy
  <2>3. space' \in [Sites -> {"absent", "active", "ending"}]
    BY <1>7 DEF Undeploy, EndSpace, StepsTyped, StepsTypeOK
  <2> QED BY <1>7, <2>1, <2>2, <2>3 DEF Undeploy, StepsTyped, StepsTypeOK
<1>8. CASE Record(r)
  <2>1. /\ place' \in [Runs \cup Stops -> RunPlace \cup StopPlace]
        /\ \A q \in Runs : place'[q] \in InStep => step'[q] # 0
    BY <1>8, GoesTyped DEF Record, RunPlace, InStep
  <2>2. faults' \in 0..MaxFaults
    BY <1>8, FaultsTyped DEF Record
  <2>3. Mine(r) \in Pods /\ step[r] \in Steps
    BY <1>8, MineTyped DEF Record, Goes, InStep
  <2>4. podRows' \subseteq Pods /\ listed' \in [Runs -> SUBSET Steps]
    BY <1>8, <2>3 DEF Record, StepsTyped, StepsTypeOK
  <2> QED BY <1>8, <2>1, <2>2, <2>4 DEF Record, StepsTyped, StepsTypeOK
<1>9. CASE Ready(r)
  <2>0. faults' \in 0..MaxFaults
    BY <1>9, FaultsTyped DEF Ready
  <2>1. CASE Goes(r, "ready", "attack") /\ UNCHANGED <<todo, after>>
    <3>1. /\ place' \in [Runs \cup Stops -> RunPlace \cup StopPlace]
          /\ \A q \in Runs : place'[q] \in InStep => step'[q] # 0
      BY <1>9, <2>1, GoesTyped DEF Ready, RunPlace, InStep
    <3> QED BY <1>9, <2>0, <2>1, <3>1 DEF Ready, StepsTyped, StepsTypeOK
  <2>2. CASE Clean(r, "ready", {Mine(r)}, "next")
    <3>1. {Mine(r)} \in SUBSET Pods
      BY <2>2, MineTyped DEF Clean, Goes, InStep
    <3> QED BY <1>9, <2>0, <2>2, <3>1, CleanTyped DEF Ready, StepsTyped, StepsTypeOK
  <2> QED BY <1>9, <2>1, <2>2 DEF Ready
<1>10. CASE Attack(r)
  <2>0. faults' \in 0..MaxFaults
    BY <1>10, FaultsTyped DEF Attack
  <2>1. PICK D \in {{Mine(r)}, {}} : Clean(r, "attack", D, "next")
    BY <1>10 DEF Attack
  <2>2. D \in SUBSET Pods
    BY <2>1, MineTyped DEF Clean, Goes, InStep
  <2> QED BY <1>10, <2>0, <2>1, <2>2, CleanTyped DEF Attack, StepsTyped, StepsTypeOK
<1>11. CASE StepReturns(r)
  <2>1. /\ place' \in [Runs \cup Stops -> RunPlace \cup StopPlace]
        /\ \A q \in Runs : place'[q] \in InStep => step'[q] # 0
    <3>1. Goes(r, "next", "begin") /\ UNCHANGED step
      BY <1>11 DEF StepReturns
    <3>2. "begin" \in RunPlace \ InStep
      BY DEF RunPlace, InStep
    <3> QED BY <3>1, <3>2, GoesTyped
  <2> QED BY <1>11, <2>1 DEF StepReturns, StepsTyped, StepsTypeOK
<1> QED BY <1>1, <1>2, <1>3, <1>4, <1>5, <1>6, <1>7, <1>8, <1>9, <1>10, <1>11
        DEF RunGoes, Quota, Range, Limit

\* The deletions of a run or of a stop.
LEMMA DeletesTyped ==
  ASSUME StepsTyped, PodInv, NEW r \in Runs \cup Stops, Deletes(r)
  PROVE  StepsTyped'
<1>0. /\ faults' \in 0..MaxFaults /\ Owner(r) \in Runs
      /\ after[r] \in RunPlace \cup StopPlace
  BY FaultsTyped, StepResourcesAssumption
  DEF Deletes, DeletePod, DeleteSpace, Owner, StepResourcesAssumption, StepsTyped,
      StepsTypeOK
<1>1. CASE DeletePod(r)
  <2>1. /\ place' \in [Runs \cup Stops -> RunPlace \cup StopPlace]
        /\ \A q \in Runs : place'[q] \in InStep => step'[q] # 0
    <3>1. Goes(r, "pod", "space") /\ UNCHANGED step
      BY <1>1 DEF DeletePod
    <3>2. "space" \in RunPlace \ InStep
      BY DEF RunPlace, InStep
    <3> QED BY <3>1, <3>2, GoesTyped
  <2>2. pods' \subseteq Pods /\ troubled' \subseteq Runs /\ missed' \subseteq Stops
    BY <1>0, <1>1 DEF DeletePod, Without, StepsTyped, StepsTypeOK
  <2> QED BY <1>0, <1>1, <2>1, <2>2 DEF DeletePod, StepsTyped, StepsTypeOK
<1>2. CASE DeleteSpace(r)
  <2>1. PICK to \in {after[r], "pod"} : Goes(r, "space", to)
    BY <1>2 DEF DeleteSpace
  <2>2. after[r] \notin InStep
    BY DEF PodInv, RunPart, ShapeInv, InStep
  <2>3. /\ place' \in [Runs \cup Stops -> RunPlace \cup StopPlace]
        /\ \A q \in Runs : place'[q] \in InStep => step'[q] # 0
    <3>1. UNCHANGED step
      BY <1>2 DEF DeleteSpace
    <3>2. to \in (RunPlace \cup StopPlace) \ InStep
      BY <1>0, <2>1, <2>2 DEF RunPlace, InStep
    <3> QED BY <2>1, <3>1, <3>2, GoesTyped
  <2>4. /\ todo' \in [Runs \cup Stops -> SUBSET Pods]
        /\ space' \in [Sites -> {"absent", "active", "ending"}]
    BY <1>2 DEF DeleteSpace, EndSpace, StepsTyped, StepsTypeOK
  <2> QED BY <1>0, <1>2, <2>3, <2>4 DEF DeleteSpace, StepsTyped, StepsTypeOK
<1> QED BY <1>1, <1>2 DEF Deletes

\* All of them, a start, and the end of the process.
LEMMA StepsTypedStep ==
  ASSUME StepsTyped, PodInv, PodStep
  PROVE  StepsTyped'
<1>1. ASSUME NEW s \in Sites, SpaceEnds(s) PROVE StepsTyped'
  BY <1>1 DEF SpaceEnds, StepsTyped, StepsTypeOK
<1>2. ASSUME NEW t \in Stops, StopCancels(t) PROVE StepsTyped'
  <2>1. /\ place' \in [Runs \cup Stops -> RunPlace \cup StopPlace]
        /\ \A q \in Runs : place'[q] \in InStep => step'[q] # 0
    <3>1. Goes(t, "idle", "signal") /\ UNCHANGED step
      BY <1>2 DEF StopCancels
    <3>2. "signal" \in StopPlace \ InStep
      BY DEF StopPlace, InStep
    <3> QED BY <3>1, <3>2, GoesTyped
  <2>2. cancelled' \subseteq Runs
    BY <1>2, StepResourcesAssumption
    DEF StopCancels, StepResourcesAssumption, StepsTyped, StepsTypeOK
  <2> QED BY <1>2, <2>1, <2>2 DEF StopCancels, StepsTyped, StepsTypeOK
<1>3. ASSUME NEW t \in Stops, StopSignals(t) PROVE StepsTyped'
  <2>1. /\ place' \in [Runs \cup Stops -> RunPlace \cup StopPlace]
        /\ \A q \in Runs : place'[q] \in InStep => step'[q] # 0
    <3>1. Goes(t, "signal", "load") /\ UNCHANGED step
      BY <1>3 DEF StopSignals
    <3>2. "load" \in StopPlace \ InStep
      BY DEF StopPlace, InStep
    <3> QED BY <3>1, <3>2, GoesTyped
  <2>2. stopKey' \subseteq Runs /\ faults' \in 0..MaxFaults
    BY <1>3, StepResourcesAssumption, FaultsTyped
    DEF StopSignals, StepResourcesAssumption, StepsTyped, StepsTypeOK
  <2> QED BY <1>3, <2>1, <2>2 DEF StopSignals, StepsTyped, StepsTypeOK
<1>4. ASSUME NEW t \in Stops, NEW client \in BOOLEAN, StopLoads(t, client)
      PROVE  StepsTyped'
  <2>1. PICK D \in {{d \in podRows : d[1] = StopOf[t]}, {}} : Clean(t, "load", D, "over")
    BY <1>4 DEF StopLoads
  <2>2. D \in SUBSET Pods
    BY <2>1 DEF StepsTyped, StepsTypeOK
  <2>3. faults' \in 0..MaxFaults
    BY <1>4, FaultsTyped DEF StopLoads
  <2> QED BY <1>4, <2>1, <2>2, <2>3, CleanTyped DEF StopLoads, StepsTyped, StepsTypeOK
<1> QED BY <1>1, <1>2, <1>3, <1>4, RunGoesTyped, DeletesTyped DEF PodStep

\* A run that starts has both its clusters, and is not yet inside a step.
LEMMA StartTyped ==
  ASSUME StepsTyped, NEW r \in Runs, NEW h \in Sites, NEW s \in Sites, Start(r, h, s)
  PROVE  StepsTyped'
<1>1. /\ place' \in [Runs \cup Stops -> RunPlace \cup StopPlace]
      /\ \A q \in Runs : place'[q] \in InStep => step'[q] # 0
  <2>1. Goes(r, "idle", "begin") /\ UNCHANGED step
    BY DEF Start
  <2>2. "begin" \in RunPlace \ InStep
    BY DEF RunPlace, InStep
  <2> QED BY <2>1, <2>2, GoesTyped
<1> QED BY <1>1 DEF Start, StepsTyped, StepsTypeOK

\* The process ends: nothing is inside a step any more.
LEMMA StepsLostTyped ==
  ASSUME StepsTyped, StepsLost
  PROVE  StepsTyped'
  BY DEF StepsLost, StepsTyped, StepsTypeOK, RunPlace, StopPlace, InStep

\* The handlers and the questions leave the steps alone.
LEMMA StepsTypedStays ==
  ASSUME StepsTyped, UNCHANGED stepVars
  PROVE  StepsTyped'
  BY DEF StepsTyped, StepsTypeOK, stepVars

\* Nothing has started.
LEMMA StepsTypedInit == StepsInit => StepsTyped
  BY StepResourcesAssumption
  DEF StepsInit, StepsTyped, StepsTypeOK, RunPlace, StopPlace, InStep, Limit,
      StepResourcesAssumption

=============================================================================
