---------------------------- MODULE SiemValidation ----------------------------
(***************************************************************************)
(* How siem.Validator judges alerts.  An expected alert has a type and the *)
(* least severity, an alert received has both; severities are their ranks, *)
(* 1 to 4, and 0 is the empty one.  Which names occur in which others is   *)
(* the constant Within.                                                    *)
(***************************************************************************)
EXTENDS Naturals, FiniteSets

CONSTANT Within   (* pairs of different types, the first inside the second *)

\* An exact name, or one name inside the other.
Likeness(expected, alert) ==
  IF alert.type = expected.type THEN 100
  ELSE IF \/ <<alert.type, expected.type>> \in Within
          \/ <<expected.type, alert.type>> \in Within
       THEN 60 ELSE 0

Severe(expected, alert) == alert.severity >= expected.severity

\* computeMatchScore: nothing without a type, ten more for the severity.
MatchScore(expected, alert) ==
  LET kind == Likeness(expected, alert)
  IN IF kind > 0 /\ expected.severity > 0 /\ Severe(expected, alert)
     THEN kind + 10 ELSE kind

\* The alerts of the highest score; the code takes the first it was given.
Best(expected, received) ==
  {a \in received :
     /\ MatchScore(expected, a) > 0
     /\ \A b \in received : MatchScore(expected, b) <= MatchScore(expected, a)}

\* correlateAlert and the status of its row: only the best match is asked for
\* its severity, and all of the best have it or none has.
Detects(expected, received) ==
  IF \E a \in Best(expected, received) : Severe(expected, a)
  THEN "detected" ELSE "missed"

\* In hundredths of a percent; float64 may come out one hundredth lower.
Whole == 100 * 100
Score(found, total) == IF total = 0 THEN Whole ELSE (Whole * found) \div total
=============================================================================
