--------------------------- MODULE NetworkPolicies ---------------------------
(***************************************************************************)
(* NetworkPolicyController: would the policies of a namespace let a pod's  *)
(* traffic out to a destination, or in from a source?                      *)
(*                                                                         *)
(* A CIDR is the set of the addresses it contains, and whether it ends in  *)
(* "/0".  A policy carries the rules of the direction that is asked about; *)
(* a rule has peers and ports.  A peer has a block, with exceptions, or    *)
(* selectors.  A port has a protocol and a number, or the first of a range *)
(* of them; 0 is none.  Labels are values; a namespace selector is kept as *)
(* the text "key=value", so a peer made for the namespace n is Label[n],   *)
(* while a destination names n itself.                                     *)
(***************************************************************************)
EXTENDS Naturals, FiniteSets

CONSTANTS
  Questions,   (* BOUND: what is asked                                       *)
  Label,       (* kubernetes.io/metadata.name=n for a namespace n            *)
  NoQuestion

\* A question is about one direction, and ports are numbers.
ASSUME NetworkPoliciesAssumption ==
  \A q \in Questions :
    /\ q.way \in {"in", "out"} /\ q.port \in Nat
    /\ \A p \in q.policies : \A rule \in p.rules : \A port \in rule.ports : port.number \in Nat

VARIABLES
  question,   (* what is asked, or NoQuestion                                *)
  verdict     (* PolicyValidationResult.Allowed, "none" until it is known    *)

policyVars == <<question, verdict>>

PoliciesTypeOK ==
  /\ question = NoQuestion \/ question \in Questions
  /\ verdict \in {"none", "allowed", "blocked"}

-----------------------------------------------------------------------------
(* The policies: as they are made, and as the controller reads them back.  *)

\* buildTestPort: any protocol but the default has to be named.
TestPort(port) ==
  [number |-> port.number, end |-> 0, named |-> FALSE,
   protocol |-> IF port.protocol = "" THEN "TCP" ELSE port.protocol]

\* buildTestPeer: the exceptions of a block cannot be given.
TestPeer(peer) == [block |-> peer.block, except |-> {},
                   namespace |-> peer.namespace, pods |-> peer.pods]

\* CreateTestNetworkPolicy: what denies a direction is of its type, and a policy
\* without types gets both of them.
TestPolicy(config) ==
  [selects |-> config.selects,
   types |-> IF config.types \cup config.denies = {} THEN {"in", "out"}
                                                   ELSE config.types \cup config.denies,
   rules |-> {[peers |-> {TestPeer(p) : p \in rule.peers},
               ports |-> {TestPort(p) : p \in rule.ports}] : rule \in config.rules}]

\* convertNetworkPolicyPeer
PeerInfo(peer) ==
  [block |-> peer.block, except |-> peer.except, pods |-> peer.pods,
   namespace |-> IF peer.namespace = "" THEN "" ELSE Label[peer.namespace]]

\* convertNetworkPolicyPort: IntVal of a named port is 0; the range's end is dropped.
PortInfo(port) ==
  [number |-> IF port.named THEN 0 ELSE port.number, protocol |-> port.protocol]

\* convertNetworkPolicyToInfo: a rule without peers allows all, whatever its ports.
RuleInfo(rule) ==
  [peers |-> {PeerInfo(p) : p \in rule.peers},
   ports |-> {PortInfo(p) : p \in rule.ports},
   allowAll |-> rule.peers = {}]

-----------------------------------------------------------------------------
(* How it decides.                                                         *)

\* cidrContainsIP
CidrContains(cidr, ip) == cidr.zero \/ ip \in cidr.ips

InBlock(peer, ip) == ip # "" /\ \E cidr \in peer.block : CidrContains(cidr, ip)

\* labelSelectorsMatch: one label in common will do.
SelectorMatches(peer, end) ==
  \/ end.namespace # "" /\ peer.namespace = end.namespace
  \/ end.way = "in" /\ peer.pods \cap end.pods # {}

\* Slip: the exceptions of a block are not looked at.
PeerMatchesWhole(peer, end) == InBlock(peer, end.ip) \/ SelectorMatches(peer, end)

\* peerMatchesDestination, peerMatchesSource
PeerMatches(peer, end) ==
  \/ /\ InBlock(peer, end.ip)
     /\ \A cidr \in peer.except : ~CidrContains(cidr, end.ip)
  \/ ~InBlock(peer, end.ip) /\ SelectorMatches(peer, end)

\* portMatches: what is not given matches everything.
PortMatches(port, end) ==
  /\ port.protocol # "" /\ end.protocol # "" => port.protocol = end.protocol
  /\ port.number # 0 /\ end.port # 0 => port.number = end.port

\* evaluateEgressRules
EgressAllows(rule, end) ==
  \/ rule.allowAll
  \/ \E peer \in rule.peers :
       /\ PeerMatches(peer, end)
       /\ rule.ports = {} \/ \E port \in rule.ports : PortMatches(port, end)

\* evaluateIngressRules: only a source with an address passes a rule with ports.
IngressAllows(rule, end) ==
  \/ rule.allowAll
  \/ \E peer \in rule.peers :
       /\ PeerMatches(peer, end)
       /\ rule.ports = {} \/ end.ip # ""

Allows(rule, q) == IF q.way = "out" THEN EgressAllows(RuleInfo(rule), q)
                                   ELSE IngressAllows(RuleInfo(rule), q)

\* Every policy of the namespace that has the type, whatever pods it selects.
Governing(q) == {p \in q.policies : q.way \in p.types}

\* ValidateEgressPolicy, ValidateIngressPolicy
Validate(q) ==
  IF \/ Governing(q) = {}
     \/ \E p \in Governing(q) : \E rule \in p.rules : Allows(rule, q)
  THEN "allowed" ELSE "blocked"

Answer ==
  /\ question # NoQuestion /\ verdict = "none"
  /\ verdict' = Validate(question)
  /\ UNCHANGED question

-----------------------------------------------------------------------------
(* What Kubernetes does with an address at the other end: a direction that *)
(* a policy governs which selects the pod needs a rule of such a policy    *)
(* that lets it pass, peer and port; a rule without peers or without ports *)
(* is not restricted by them.  A source names no port: any one will do.    *)
Selecting(q) == {p \in Governing(q) : p.selects}

Admits(peer, q) == /\ \E cidr \in peer.block : q.ip \in cidr.ips
                   /\ \A cidr \in peer.except : q.ip \notin cidr.ips

Covers(port, q) ==
  /\ port.protocol = q.protocol
  /\ \/ port.number \in {0, q.port}
     \/ port.number < q.port /\ q.port <= port.end

Passes(rule, q) ==
  /\ rule.peers = {} \/ \E peer \in rule.peers : Admits(peer, q)
  /\ \/ q.way = "in"
     \/ rule.ports = {}
     \/ \E port \in rule.ports : Covers(port, q)

Allowed(q) == \/ Selecting(q) = {}
              \/ \E p \in Selecting(q) : \E rule \in p.rules : Passes(rule, q)

\* The questions on which the controller can be believed: it looks neither at what
\* pods a policy selects nor at the address' family in "/0", and the port of a rule
\* counts only if it is one number and there are peers.
PlainPeer(peer, q) ==
  /\ peer.namespace = "" /\ peer.pods = {}
  /\ \A cidr \in peer.block \cup peer.except : cidr.zero => q.ip \in cidr.ips
PlainRule(rule, q) ==
  /\ \A peer \in rule.peers : PlainPeer(peer, q)
  /\ q.way = "out" =>
       /\ rule.peers = {} => rule.ports = {}
       /\ \A port \in rule.ports : ~port.named /\ port.end = 0 /\ port.protocol # ""
Plain(q) ==
  /\ q.ip # ""
  /\ q.way = "out" => q.port # 0 /\ q.protocol # ""
  /\ \A p \in Governing(q) : p.selects /\ \A rule \in p.rules : PlainRule(rule, q)

(* To a plain question the answer is Kubernetes' own, whatever the blocks, *)
(* their exceptions, the protocols, the ports and the number of policies.  *)
(* It is not for the others: a policy that selects other pods is counted   *)
(* (against the comment at 435-439), a namespace never matches the text of *)
(* its own selector, "::/0" takes in IPv4 (963), a named port becomes      *)
(* every port (646), and of a range of ports only the first is seen.       *)
(* network_policy.go:440-555, 563-650, 740-970                             *)
VerdictRight ==
  (verdict # "none" /\ Plain(question)) => (verdict = "allowed" <=> Allowed(question))
=============================================================================
