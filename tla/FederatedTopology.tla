------------------------- MODULE FederatedTopology -------------------------
(***************************************************************************)
(* The federated view the Server computes from the snapshots it holds      *)
(* (internal/federation/store.go federated, link_rules.go): the clusters'  *)
(* topologies under global IDs, the cross-cluster links discovered between *)
(* them, and the gateways a probe observes.                                *)
(***************************************************************************)
EXTENDS ClusterTopology

CONSTANTS MaxVisited,   \* 4096: nodes the walk for declared targets may visit
          MaxOwner      \* 128: nodes the search for an owning gateway may visit

globalID(cluster, id) == <<cluster>> \o id
ClusterOf(id) == Head(id)
NoGateway == <<>>

-----------------------------------------------------------------------------
(* Cross-cluster links.                                                    *)

ValuesOf(node, keys) == {c[2] : c \in {x \in node.conds : x[1] \in keys}} \ {<<>>, <<"*">>}

outboundKeys(node) ==
    IF node.kind \in {"TransitHop", "Registry", "Service"} THEN ValuesOf(node, {"Destination", "Domain", "ExternalName"}) ELSE {}

entryKeys(node) ==
    IF node.kind \in {"Gateway", "Listener", "Ingress"} THEN ValuesOf(node, {"Address", "Hostname"}) ELSE {}

EntryRank(node) == CASE node.kind = "Listener" -> 0 [] node.kind = "Gateway" -> 1 [] OTHER -> 2

edgeExists(edges, from, to) == \E i \in DOMAIN edges : edges[i].from = from /\ edges[i].to = to

(* The remote entries that match one of the outbound node's targets.       *)
EntryMatches(nodes, edges, from) ==
    {to \in DOMAIN nodes : /\ ClusterOf(to) # ClusterOf(from)
                           /\ ~edgeExists(edges, from, to)
                           /\ outboundKeys(nodes[from]) \cap entryKeys(nodes[to]) # {}}

(* Every match, whatever its rank.                                         *)
anyEntryMatches(nodes, edges, from) == EntryMatches(nodes, edges, from)

(* ... of which only those with the best rank are kept.                    *)
bestEntryMatches(nodes, edges, from) ==
    LET matches == EntryMatches(nodes, edges, from)
    IN  {to \in matches : \A other \in matches : EntryRank(nodes[to]) <= EntryRank(nodes[other])}

(* An outbound node is handled by the first rule that takes it; both rules *)
(* match the best entries and differ in the evidence they state.           *)
LinkRule(node) == IF node.kind = "Registry" THEN "higress-mcpbridge" ELSE "exact-configuration-address"

ingressSelectingRegistry(nodes, edges, registry) ==
    \E i \in DOMAIN edges : /\ edges[i].to = registry /\ edges[i].rel = "selects"
                            /\ edges[i].from \in DOMAIN nodes /\ nodes[edges[i].from].kind = "Ingress"

AmbiguousLink == "cross-cluster target is ambiguous"

(* One match is a link, several are a finding, none is left open.          *)
discoverLinks(nodes, edges) ==
    LET outbound == {id \in DOMAIN nodes : outboundKeys(nodes[id]) # {}}
        Best(id) == bestEntryMatches(nodes, edges, id)
    IN  [links |-> {[from |-> id, to |-> CHOOSE to \in Best(id) : TRUE, rel |-> "cross-cluster", rule |-> LinkRule(nodes[id]),
                     selected |-> ingressSelectingRegistry(nodes, edges, id)] :
                    id \in {x \in outbound : Cardinality(Best(x)) = 1}},
         findings |-> {[title |-> AmbiguousLink, target |-> id] : id \in {x \in outbound : Cardinality(Best(x)) > 1}}]

-----------------------------------------------------------------------------
(* federated: snapshots maps each registered cluster to its topology.  The *)
(* clusters are visited by ID and every ID becomes global.                 *)
federated(snapshots) ==
    LET clusters == Ranked(DOMAIN snapshots, {p \in (DOMAIN snapshots) \X (DOMAIN snapshots) : Place(p[1]) < Place(p[2])})
        nodes == [id \in UNION {{globalID(c, x) : x \in DOMAIN snapshots[c].nodes} : c \in DOMAIN snapshots} |->
                    snapshots[ClusterOf(id)].nodes[Tail(id)]]
        Global(c, e) == [from |-> globalID(c, e.from), to |-> globalID(c, e.to), rel |-> e.rel]
        EdgesOf(c) == [i \in DOMAIN snapshots[c].edges |-> Global(c, snapshots[c].edges[i])]
        edges == Joined([n \in DOMAIN clusters |-> EdgesOf(clusters[n])])
        links == discoverLinks(nodes, edges)
    IN  [nodes |-> nodes, edges |-> edges, links |-> links.links,
         entries |-> UNION {{[e EXCEPT !.gateway = globalID(c, @)] @@ [cluster |-> c] : e \in snapshots[c].entries} : c \in DOMAIN snapshots},
         findings |-> links.findings \cup
                      UNION {{[title |-> f.title, target |-> globalID(c, f.target)] : f \in snapshots[c].findings} : c \in DOMAIN snapshots}]

-----------------------------------------------------------------------------
(* The gateways to observe after a probe.                                  *)

Kind(top, id) == IF id \in DOMAIN top.nodes THEN top.nodes[id].kind ELSE ""

gatewayHasObservableRuntime(top, id) == Kind(top, id) = "Gateway" /\ <<"EnvoyConfig", "available">> \in top.nodes[id].conds

Predecessors(top, id) ==
    LET into == SelectSeq(top.edges, LAMBDA e : e.to = id /\ e.from \in DOMAIN top.nodes)
    IN  [i \in DOMAIN into |-> into[i].from]

AppendNew(list, seen, x) == IF x \in seen \cup ToSet(list) THEN list ELSE Append(list, x)

(* Breadth first against the edges, in the order the edges are stored: the *)
(* first gateway of the node's own cluster is its owner.                   *)
searchOwner(top, id) ==
    LET ids == DOMAIN top.nodes \cup {id}
        search[queue \in Seq(ids), visited \in SUBSET ids] ==
            LET preds == Predecessors(top, Head(queue))
                gateways == SelectSeq(preds, LAMBDA p : Kind(top, p) = "Gateway")
                new == FoldLeft(LAMBDA list, p : AppendNew(list, visited, p), <<>>, preds)
            IN  IF queue = <<>> \/ Cardinality(visited) > MaxOwner THEN NoGateway
                ELSE IF gateways # <<>> THEN Head(gateways)
                     ELSE search[Tail(queue) \o new, visited \cup ToSet(new)]
    IN  search[<<id>>, {id}]

owningGateway(top, id) == IF Kind(top, id) = "Gateway" THEN id ELSE searchOwner(top, id)

RelationOrder == <<"attaches", "cross-cluster", "discovers", "owns", "resolves", "routes", "selects">>

Forward(top, id) ==
    LET out == {[from |-> e.from, to |-> e.to, rel |-> e.rel] : e \in {x \in ToSet(top.edges) \cup top.links : x.from = id}}
        Relation(e) == CHOOSE i \in DOMAIN RelationOrder : RelationOrder[i] = e.rel
        Sooner(e, f) == Relation(e) < Relation(f) \/ (e.rel = f.rel /\ Before(e.to, f.to))
    IN  Ranked(out, {p \in out \X out : Sooner(p[1], p[2])})

Visit(walk, id) ==
    IF id \in walk.visited THEN walk
    ELSE [walk EXCEPT !.visited = @ \cup {id}, !.queue = Append(@, id)]

(* A cross-cluster edge reaches the gateway that owns its target; the      *)
(* gateway that owns its source is the predecessor.                        *)
Follow(top, walk, edge) ==
    LET gateway == IF edge.rel = "cross-cluster" THEN owningGateway(top, edge.to) ELSE NoGateway
        target == [gateway |-> gateway, declared |-> TRUE, predecessor |-> owningGateway(top, edge.from)]
        reached == IF gateway = NoGateway \/ gateway \in walk.seen THEN walk
                   ELSE Visit([walk EXCEPT !.seen = @ \cup {gateway}, !.targets = Append(@, target)], gateway)
    IN  Visit(reached, edge.to)

Begin(source) == [queue |-> <<source>>, edges |-> <<>>, visited |-> {source}, seen |-> {source}, targets |-> <<>>]

(* One edge of the node at hand is followed, or the next node is taken     *)
(* from the queue, unless too many were visited.                           *)
Advance(top, walk) ==
    IF walk.edges # <<>> THEN Follow(top, [walk EXCEPT !.edges = Tail(@)], Head(walk.edges))
    ELSE IF walk.queue = <<>> \/ Cardinality(walk.visited) > MaxVisited THEN walk
    ELSE [walk EXCEPT !.queue = Tail(@), !.edges = Forward(top, Head(walk.queue))]

(* The walk takes a node at most once and follows its edges once: it has   *)
(* ended after as many steps as there are nodes, edges and their ends.     *)
Steps(top) == 1 + Cardinality(DOMAIN top.nodes) + 2 * (Len(top.edges) + Cardinality(top.links))

Walk(top, source) ==
    LET walk[n \in Nat] == IF n = 0 THEN Begin(source) ELSE Advance(top, walk[n - 1])
    IN  walk

discoverDeclaredProbeGatewayTargets(top, source) == Walk(top, source)[Steps(top)].targets

(* The declared targets that can be observed first, then every other       *)
(* observable gateway by ID.                                               *)
WithOthers(top, source, walked) ==
    LET declared == At(walked, {i \in DOMAIN walked : gatewayHasObservableRuntime(top, walked[i].gateway)})
        others == {id \in DOMAIN top.nodes : gatewayHasObservableRuntime(top, id)}
                  \ ({source} \cup {declared[i].gateway : i \in DOMAIN declared})
        sorted == Ranked(others, {p \in others \X others : Before(p[1], p[2])})
    IN  declared \o [i \in DOMAIN sorted |-> [gateway |-> sorted[i], declared |-> FALSE, predecessor |-> NoGateway]]

discoverProbeGatewayTargets(top, source) == WithOthers(top, source, discoverDeclaredProbeGatewayTargets(top, source))
=============================================================================
