---------------------------- MODULE MCRunLifecycle ----------------------------
(* Instances of RunLifecycle for TLC.                                      *)
EXTENDS RunLifecycle, TLC

CONSTANTS e1, e2, s1, h1, h2

MCExecs == {e1, e2}
MCStops == {s1}

MCHosts == {h1, h2}
\* One replica serves every request, or one of the executions is elsewhere.
MCOneHost == [p \in {e1, e2, s1} |-> h1]
MCTwoHosts == [p \in {e1, e2, s1} |-> IF p = e2 THEN h2 ELSE h1]

\* On one replica, the executions are interchangeable.
Symmetry == Permutations({e1, e2})

AllFaults == FaultKind
\* The disturbances after which a run still has somebody to end it.
MildFaults == {"keyExpiry", "stale", "stopTimeout", "redis"}
\* Redis fails now and then.
RedisFaults == {"redis"}
NoFaults == {}
=============================================================================
