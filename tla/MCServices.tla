------------------------------ MODULE MCServices ------------------------------
(* The instance of Services for TLC.  "scan" is part of the name           *)
(* "port_scan"; the first step expects a severe port_scan, the second two  *)
(* alerts.                                                                 *)
EXTENDS Services, TLC

CONSTANTS r1, r2, t1, t2, q1, e1, e2, i1, f1, f2, g1, o1, s1, s2

A(i, r, t, s) == [id |-> i, run |-> r, type |-> t, severity |-> s]
Own    == {A(1, r1, "port_scan", 2), A(2, r1, "scan", 3), A(3, r1, "port_scan", 3)}
Others == {A(4, r2, "port_scan", 3)}
MCAlerts == Own \cup Others

E(t, s) == [type |-> t, severity |-> s]
MCExpected == <<{E("port_scan", 3)}, {E("port_scan", 2), E("exfil", 1)}>>
MCWithin == {<<"scan", "port_scan">>}

M(callers, p, alerts, on, to, f, n, lim) ==
  [callers |-> callers, timed |-> {r1, r2}, provider |-> p, alerts |-> alerts, enabled |-> on,
   configured |-> to, siemFaults |-> f, noteFaults |-> n, limiter |-> lim, calls |-> {}, outages |-> 0,
   executors |-> {}, redisFaults |-> 0,
   sessions |-> {}, blacklist |-> FALSE, authFaults |-> 0]

Told(c, X, n) == [M(c, "mock", {}, "off", {}, 0, 0, "none")
                 EXCEPT !.executors = X, !.redisFaults = n]

Limited(l, Q, n) ==
  [M({}, "mock", {}, "off", {}, 0, 0, l) EXCEPT !.calls = Q, !.outages = n]

SignedIn(Q, on, n) == [M({}, "mock", {}, "off", {}, 0, 0, "none")
                      EXCEPT !.sessions = Q, !.blacklist = on, !.authFaults = n]

MCMixes ==
  {M({r1}, p, Own, "off", {}, 1, 0, "none") : p \in Provider}
  \cup {M({r1, t1}, "splunk", {A(1, r1, "port_scan", 2), A(3, r1, "port_scan", 3)}, "off", {}, 2, 0, "none")}
  \cup {M({q1, t1}, "splunk", Own, "off", {}, 2, 0, "none")}
  \cup {[M({r1, t1, t2}, "splunk", {A(3, r1, "port_scan", 3)}, "off", {}, 1, 0, "none")
          EXCEPT !.timed = {}]}
  \cup {M({q1, t1, t2}, "splunk", {}, "off", {}, 2, 0, "none")}
  \cup {M({q1}, "elasticsearch", Own, "off", {}, 2, 0, "none")}
  \cup {M({r1, t1}, "elasticsearch", {}, "off", {}, 2, 0, "none")}
  \cup {M({r1, r2}, "mock", {A(3, r1, "port_scan", 3)} \cup Others, "off", {}, 0, 0, "none")}
  \cup {M({r1}, "mock", {}, on, to, 0, 2, "none") :
          on \in {"sync", "async"}, to \in SUBSET Channels}
  \cup {Limited("redis", {1, 2, 3}, 0), Limited("redis", {1, 2}, 1), Limited("local", Calls, 0)}
  \cup {Told({q1}, {e1}, 1), Told({}, {e1, e2}, 0)}
  \cup {SignedIn(Q, TRUE, 1) : Q \in {{i1, f1, f2}, {i1, o1, g1}, {i1, s1, s2}}}
  \cup {SignedIn({i1, f1, o1}, FALSE, 0)}
=============================================================================
