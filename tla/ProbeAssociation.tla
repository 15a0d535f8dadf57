-------------------------- MODULE ProbeAssociation -------------------------
(***************************************************************************)
(* How the Server turns a probe's observations into gateway segments       *)
(* (internal/federation/probe_association_rules.go, and the assembly in    *)
(* store.go): candidates for the gateways without a record, and the order  *)
(* of the segments.                                                        *)
(*                                                                         *)
(* A hop's upstream host is a host name or address, its upstream cluster   *)
(* the set of the names it is composed of; both are sequences of labels.   *)
(***************************************************************************)
EXTENDS FederatedTopology, ProbeAttempts

EntriesOf(top, gateway) == {e \in top.entries : e.gateway = gateway}
CondsOf(top, gateway) == IF gateway \in DOMAIN top.nodes THEN top.nodes[gateway].conds ELSE {}
OwnedNodes(top, gateway) == {e.to : e \in {x \in ToSet(top.edges) : x.from = gateway /\ x.rel = "owns"}}

gatewayTargetMatchesAddress(top, gateway, host) ==
    \/ \E e \in EntriesOf(top, gateway) : host \in e.addresses
    \/ <<"Address", host>> \in CondsOf(top, gateway)

gatewayTargetServiceKeys(top, gateway) ==
    {<<e.cluster, e.ns, e.service>> : e \in EntriesOf(top, gateway)}
    \cup {<<ClusterOf(gateway)>> \o c[2] : c \in {x \in CondsOf(top, gateway) : x[1] = "Service"}}

(* The names a gateway is reached under: the Service of an entry by its    *)
(* DNS name and shorter forms, addresses, and the hosts of its listeners.  *)
Aliases(top, gateway) ==
    LET Service(name, ns) == {<<name, ns, "svc", "cluster", "local">>, <<name, ns, "svc">>, <<name, ns>>}
        conds == CondsOf(top, gateway) \cup UNION {CondsOf(top, id) : id \in OwnedNodes(top, gateway)}
        named == {c[2] : c \in {x \in conds : x[1] \in {"ServiceDNS", "Address", "Hostname"}}}
    IN  UNION {Service(e.service, e.ns) \cup e.addresses : e \in EntriesOf(top, gateway)}
        \cup named \cup {SubSeq(a, 1, 3) : a \in {x \in named : Len(x) = 5 /\ SubSeq(x, 3, 5) = <<"svc", "cluster", "local">>}}

(* A name below <service>.<namespace>.svc matches it, whatever the         *)
(* cluster's domain is.                                                    *)
gatewayTargetMatchesCluster(top, gateway, names) ==
    \E name \in names, alias \in Aliases(top, gateway) \ {<<>>} :
        name = alias \/ (Last(alias) = "svc" /\ IsStrictPrefix(alias, name))

(* The Services a registry named by the upstream cluster resolves to.      *)
ResolvedServices(top, names) ==
    LET registries == {id \in DOMAIN top.nodes : /\ top.nodes[id].kind = "Registry"
                                                 /\ \E c \in top.nodes[id].conds : c[1] = "Type" /\ <<top.nodes[id].name, c[2]>> \in names}
        services == {e.to : e \in {x \in ToSet(top.edges) : x.from \in registries /\ x.rel = "resolves" /\ Kind(top, x.to) = "Service"}}
    IN  {<<ClusterOf(id), top.nodes[id].ns, top.nodes[id].name>> : id \in services}

-----------------------------------------------------------------------------
(* The rules, each with the gateways one piece of evidence matches.        *)

Evidence(matches, confidence, strength) == [matches |-> matches, confidence |-> confidence, strength |-> strength]

upstreamHostRule(top, gateways, hop) ==
    Evidence({g \in gateways : hop.host # <<>> /\ gatewayTargetMatchesAddress(top, g, hop.host)}, "high", 300)

mcpBridgeRegistryRule(top, gateways, hop) ==
    Evidence({g \in gateways : gatewayTargetServiceKeys(top, g) \cap ResolvedServices(top, hop.cluster) # {}}, "medium", 200)

upstreamClusterRule(top, gateways, hop) ==
    Evidence({g \in gateways : gatewayTargetMatchesCluster(top, g, hop.cluster)}, "medium", 200)

(* Every declared gateway, whether or not its predecessor was observed.    *)
anyDeclaredRule(target, observed) == Evidence(IF target.declared THEN {target.gateway} ELSE {}, "low", 100)

declaredGatewayRule(target, observed) ==
    Evidence(IF target.declared /\ target.predecessor \in observed THEN {target.gateway} ELSE {}, "low", 100)

AllEvidence(top, targets, hops, observed) ==
    LET gateways == {t.gateway : t \in ToSet(targets)}
    IN  [i \in DOMAIN hops |-> upstreamHostRule(top, gateways, hops[i])]
        \o [i \in DOMAIN hops |-> mcpBridgeRegistryRule(top, gateways, hops[i])]
        \o [i \in DOMAIN hops |-> upstreamClusterRule(top, gateways, hops[i])]
        \o [i \in DOMAIN targets |-> declaredGatewayRule(targets[i], observed)]

(* Evidence counts for each gateway it matches.                            *)
inferEachMatch(top, targets, hops, observed) ==
    LET all == AllEvidence(top, targets, hops, observed)
        About(g) == {i \in DOMAIN all : g \in all[i].matches}
        Best(g) == CHOOSE i \in About(g) : \A j \in About(g) : all[j].strength <= all[i].strength
    IN  [g \in UNION {all[i].matches : i \in DOMAIN all} |-> all[Best(g)].confidence]

(* The strongest evidence decides, the first of equal ones; evidence that  *)
(* matches several gateways is ambiguous for all of them.                  *)
inferProbeGatewayCandidates(top, targets, hops, observed) ==
    LET all == AllEvidence(top, targets, hops, observed)
        About(g) == {i \in DOMAIN all : g \in all[i].matches}
        Best(g) == CHOOSE i \in About(g) : \A j \in About(g) : all[j].strength < all[i].strength \/ (all[j].strength = all[i].strength /\ i <= j)
    IN  [g \in UNION {all[i].matches : i \in DOMAIN all} |->
            IF Cardinality(all[Best(g)].matches) > 1 THEN "ambiguous" ELSE all[Best(g)].confidence]

-----------------------------------------------------------------------------
(* Segments.                                                               *)

(* The Agent's execution issues repeated in the segment.                   *)
segmentWithAllIssues(gateway, result) ==
    [gateway |-> gateway, hops |-> result.hops, collection |-> result.collection, issues |-> result.issues, inference |-> "",
     links |-> {}, terminals |-> {}, relation |-> "", groups |-> <<>>]

(* result is what the gateway's Agent answered, with the Agent's execution *)
(* issues, or a failure of the observation itself.                         *)
segmentFromAgent(gateway, result) ==
    [gateway |-> gateway, hops |-> result.hops, collection |-> result.collection,
     issues |-> {i \in result.issues : i.scope # "execution"}, inference |-> "",
     links |-> {}, terminals |-> {}, relation |-> "", groups |-> <<>>]

(* The observation failed: no records, an issue of the collection.         *)
failedObservation(gateway, code) ==
    segmentFromAgent(gateway, [hops |-> <<>>, collection |-> IF code = "collection-cancelled" THEN "cancelled" ELSE "read-error",
                               issues |-> {Issue("collection", code, 0)}])

ProtocolFailed(segment) == \E i \in segment.issues : i.code = "probe-protocol-unsupported"

(* The latest record first.                                                *)
LaterSegment(left, right) ==
    IF left.hops = <<>> \/ right.hops = <<>> THEN Len(left.hops) > Len(right.hops)
    ELSE left.hops[1].at > right.hops[1].at

(* Segments with records come first, by the text of the observation time   *)
(* of their first record: the strings are compared, never the times.       *)
EarlierSegment(left, right) ==
    IF left.hops = <<>> \/ right.hops = <<>> THEN Len(left.hops) > Len(right.hops)
    ELSE left.hops[1].at < right.hops[1].at

(* A stable sort of the segments by EarlierSegment.                        *)
SortSegments(segments) ==
    LET Earlier(i, j) == EarlierSegment(segments[i], segments[j]) \/ (~EarlierSegment(segments[j], segments[i]) /\ i < j)
        order == Ranked(DOMAIN segments, {p \in (DOMAIN segments) \X (DOMAIN segments) : Earlier(p[1], p[2])})
    IN  [i \in DOMAIN order |-> segments[order[i]]]

(* observations[i] is the segment of targets[i]; a gateway without records *)
(* is shown only as a candidate, or when its Agent is of another version.  *)
completeFederatedProbe(top, execution, targets, observations) ==
    LET source == execution.segments[1]
        answered == {i \in DOMAIN targets : observations[i].hops # <<>>}
        observed == {targets[i].gateway : i \in answered} \cup (IF source.hops = <<>> THEN {} ELSE {source.gateway})
        hops == Joined(<<source.hops>> \o [i \in DOMAIN targets |-> observations[i].hops])
        inferred == inferProbeGatewayCandidates(top, targets, hops, observed)
        Candidate(s) == s.hops = <<>> /\ s.gateway \in DOMAIN inferred
        Shown(s) == IF Candidate(s)
                    THEN [s EXCEPT !.inference = inferred[s.gateway], !.issues = @ \cup {Issue("inference", "gateway-evidence-missing", 0)}]
                    ELSE s
        Kept(s) == s.hops # <<>> \/ Candidate(s) \/ ProtocolFailed(s)
        kept == At(observations, {i \in DOMAIN observations : Kept(observations[i])})
        shown == [i \in DOMAIN kept |-> Shown(kept[i])]
    IN  EnrichProbe([execution EXCEPT !.segments = <<source>> \o SortSegments(shown)])
=============================================================================
