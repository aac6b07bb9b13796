---------------------------- MODULE MCKubernetes ----------------------------
(* The instance of Kubernetes for TLC: two clusters, three clients, and a  *)
(* few sets of requests, each of which meets the others of its set in      *)
(* every order; and questions about up to two policies.                    *)
EXTENDS Kubernetes, TLC

CONSTANTS a1, a2, o1, o2, h1, d1, x1, x2, t1, new

Unconnected == {
  {},                  \* a question about policies
  {a1, a2, d1},        \* registrations and a deletion
  {a1, o1, h1},        \* a lookup and a health check of a new cluster
  {a1, o1, new},       \* the process is replaced meanwhile
  {a1, x1}             \* an execution on a new cluster, or a placeholder
}
OneConnected == {
  {o1, h1, d1},        \* lookups of a cluster that is deleted
  {h1, x1},            \* an execution while the cluster fails
  {x1, t1},            \* a stop
  {x1, x2},            \* two runs of one experiment
  {x1, new}            \* the process is replaced during a run
}
TwoConnected == {
  {d1, x1, t1}         \* the run executes on another cluster than its own
}
MCMixes == Unconnected \cup OneConnected \cup TwoConnected
MCEstablished == [M \in MCMixes |-> IF M \in Unconnected THEN 0 ELSE IF M \in OneConnected THEN 1 ELSE 2]

MCFaulty == {{x1, t1}, {x1, new}}

MCVaried == {M \in MCMixes : M \cap {x1, x2} # {} /\ d1 \notin M}

MCStopOf == [t \in {t1} |-> x1]

MCLabel == [n \in {"n"} |-> "kubernetes.io/metadata.name=n"]

\* 10.0.0.0/8, its first half, an address, and everything of either family.
Net  == [ips |-> {"a", "b"}, zero |-> FALSE]
Half == [ips |-> {"a"}, zero |-> FALSE]
All4 == [ips |-> {"a", "b"}, zero |-> TRUE]
All6 == [ips |-> {"c"}, zero |-> TRUE]

Block(cidr, ex) == [block |-> {cidr}, except |-> ex, namespace |-> "", pods |-> {}]
Pod(n, labels) == [block |-> {}, except |-> {}, namespace |-> n, pods |-> labels]
Port(n, e, named, proto) == [number |-> n, end |-> e, named |-> named, protocol |-> proto]

\* What an administrator may have made, ...
Peers == {Block(Net, {}), Block(Net, {Half}), Block(All4, {Half}), Block(All6, {}),
          Pod("n", {}), Pod("", {"app=x", "tier=y"})}
PortSets == {{}, {Port(80, 0, FALSE, "TCP")}, {Port(80, 90, FALSE, "UDP")},
             {Port(53, 0, TRUE, "TCP"), Port(0, 0, FALSE, "UDP")}}
RulesAsked == [peers : {{}} \cup {{p} : p \in Peers}, ports : PortSets]
PoliciesAsked == [selects : {TRUE}, types : {{"in", "out"}},
                  rules : {{}} \cup {{x} : x \in RulesAsked}]
PoliciesBesides == [selects : BOOLEAN, types : {{"in"}, {"out"}},
                    rules : {{}, {[peers |-> {Block(Half, {})}, ports |-> {}]}}]

\* ... and the tests of an experiment.
TestRules == [peers : {{Block(Net, {})}},
              ports : {{[number |-> 80, protocol |-> ""]}, {[number |-> 0, protocol |-> "UDP"]}}]
PoliciesTested == {TestPolicy(c) :
                    c \in [selects : {TRUE}, types : {{}, {"in"}}, denies : {{}, {"out"}},
                           rules : {{}} \cup {{x} : x \in TestRules}]}

Ends == {[ip |-> "a", namespace |-> "", pods |-> {}],
         [ip |-> "", namespace |-> "n", pods |-> {"app=x"}]}
MCQuestions ==
  {[policies |-> {p, q}, way |-> w, ip |-> e.ip, namespace |-> e.namespace,
    pods |-> e.pods, port |-> n, protocol |-> x] :
     p \in PoliciesAsked, q \in PoliciesBesides \cup PoliciesTested, w \in {"in", "out"},
     e \in Ends, n \in {80, 85}, x \in {"TCP", "UDP"}}
=============================================================================
