-------------------------- MODULE ClusterTopology --------------------------
(***************************************************************************)
(* What one rebuild of the Kubernetes store makes of a cluster's objects   *)
(* (internal/kube/store.go, higress.go, inference.go, envoy_runtime.go):   *)
(* the nodes, edges, findings and probe entries of the Agent's snapshot.   *)
(*                                                                         *)
(* objs is a record of the lists the informer stores return: each is a     *)
(* sequence in an arbitrary order, because a store lists a Go map.  A host *)
(* name or address is the sequence of its labels, already lower case and   *)
(* without scheme, port and trailing dot; <<>> is the empty string.        *)
(* Labels and selectors are sets.  Text that is only displayed is left     *)
(* out.  A topology node is found under its ID, a sequence of words, and   *)
(* its conditions are pairs <<key, value>>.                                *)
(***************************************************************************)
EXTENDS Selection, Integers, SequencesExt, TLC

CONSTANT Alphabet   \* every word that occurs in an ID, in alphabetical order

ASSUME AlphabetAssumption ==
    Alphabet \in Seq(ToSet(Alphabet)) /\ \A i, j \in DOMAIN Alphabet : Alphabet[i] = Alphabet[j] => i = j

(* What an ID begins or ends with, apart from namespaces and names.        *)
ASSUME WordsAssumption ==
    {"endpoint", "endpoint-picker", "gateway", "gateway-runtime", "inferencepool", "ingress", "listener",
     "mcpbridge", "pod", "registry", "route", "service", "target", "transit"} \subseteq ToSet(Alphabet)

(* The strings the code sorts by: IDs and names, compared word by word.    *)
Place(word) == CHOOSE i \in DOMAIN Alphabet : Alphabet[i] = word

Before(a, b) ==
    \/ IsStrictPrefix(a, b)
    \/ \E i \in DOMAIN a \cap DOMAIN b :
          /\ Place(a[i]) < Place(b[i])
          /\ \A j \in 1..(i - 1) : a[j] = b[j]

(* Objects of one kind, by namespace and name.                             *)
ByName(objects) ==
    Ranked(objects, {p \in objects \X objects : Before(<<p[1].ns, p[1].name>>, <<p[2].ns, p[2].name>>)})

SmallestName(objects) == CHOOSE x \in objects : \A y \in objects : ~Before(<<y.name>>, <<x.name>>)

(* What the stores hold: lists of every kind, with one object of a kind to *)
(* a namespace and name, and words in everything an ID is made of.         *)
Keyed == {"gateways", "services", "routes", "ingresses", "bridges", "deployments", "pods", "pools"}
Kinds == Keyed \cup {"classes", "slices", "grants", "ingressClasses"}

IsList(list) == list \in Seq(ToSet(list))

AreObjects(objs) ==
    LET word == ToSet(Alphabet)
    IN  /\ Kinds \subseteq DOMAIN objs /\ "runtimes" \notin DOMAIN objs
        /\ \A k \in DOMAIN objs : IsList(objs[k])
        /\ \A k \in Keyed : \A x, y \in ToSet(objs[k]) :
              x.ns \in word /\ x.name \in word /\ (x.ns = y.ns /\ x.name = y.name => x = y)
        /\ \A gw \in ToSet(objs.gateways) : IsList(gw.listeners) /\ \A l \in ToSet(gw.listeners) : l.name \in word
        /\ \A s \in ToSet(objs.slices) : IsList(s.endpoints) /\ \A e \in ToSet(s.endpoints) : e.address \in Seq(word)
        /\ \A r \in ToSet(objs.routes) : /\ IsList(r.backends) /\ IsList(r.parents)
                                         /\ \A p \in ToSet(r.parents) : /\ p.ns \in word /\ p.name \in word
                                                                         /\ p.section \in word \cup {""}
        /\ \A b \in ToSet(objs.bridges) : IsList(b.registries) /\ \A r \in ToSet(b.registries) : r.name \in word
        /\ \A i \in ToSet(objs.ingresses) : IsList(i.backends)
        /\ \A p \in ToSet(objs.pools) : p.picker \in {<<>>} \cup (word \X word)

-----------------------------------------------------------------------------
(* The growing snapshot.  Of the nodes of an ID the first is kept, as       *)
(* appendUnique does; marked are the nodes markNodeError overwrites.       *)

Node(kind, obj, status, conds) ==
    [kind |-> kind, ns |-> obj.ns, name |-> obj.name, status |-> status, conds |-> conds]

Nothing == [nodes |-> <<>>, edges |-> <<>>, findings |-> {}, marked |-> {}]

Adds(id, node) == [Nothing EXCEPT !.nodes = [x \in {id} |-> node]]
Joins(from, to, relation) == [Nothing EXCEPT !.edges = <<[from |-> from, to |-> to, rel |-> relation]>>]
Finds(title, target) == [Nothing EXCEPT !.findings = {[title |-> title, target |-> target]}]
MarkNodeError(id) == [Nothing EXCEPT !.marked = {id}]

MergeAll(parts) ==
    LET First(id) == Nth({i \in DOMAIN parts : id \in DOMAIN parts[i].nodes}, 1)
    IN  [nodes |-> [id \in UNION {DOMAIN parts[i].nodes : i \in DOMAIN parts} |-> parts[First(id)].nodes[id]],
         edges |-> Joined([i \in DOMAIN parts |-> parts[i].edges]),
         findings |-> UNION {parts[i].findings : i \in DOMAIN parts},
         marked |-> UNION {parts[i].marked : i \in DOMAIN parts}]

Merge(p, q) == MergeAll(<<p, q>>)
ForEach(Op(_), list) == MergeAll(<<Nothing>> \o [i \in DOMAIN list |-> Op(list[i])])

Named(list, ns, name) == {x \in ToSet(list) : x.ns = ns /\ x.name = name}

-----------------------------------------------------------------------------
(* Gateway runtimes: the workload and the Ready proxy Pods of a Gateway.   *)
(* A controller is its family, or any other word.                          *)

Families == <<"higress", "istio", "envoy">>
controllerFamily(controller) == IF controller \in ToSet(Families) THEN controller ELSE ""

controllersCompatible(left, right) ==
    left # "" /\ right # "" /\ (left = right \/ (controllerFamily(left) # "" /\ controllerFamily(left) = controllerFamily(right)))

GatewayID(gw) == <<"gateway", gw.ns, gw.name>>

(* pod.says: the Gateway names and the families "<family>...gateway" that  *)
(* occur in the Pod's name and labels; pod.proxies: the families whose     *)
(* proxy container it runs.                                                *)
gatewayPodScore(gw, pod, kind) ==
    IF pod.gatewayName = gw.name /\ pod.ns = gw.ns THEN 100
    ELSE IF gw.name \in pod.says THEN 70
    ELSE IF kind \in pod.says THEN 40 ELSE 0

matchingDeployments(objs, pod) ==
    {d \in ToSet(objs.deployments) : d.ns = pod.ns /\ d.selector \subseteq pod.labels}

WorkloadID(d) == <<"gateway-workload", d.ns, d.name>>

(* The family of the Gateway's class, or "".                                *)
gatewayKind(objs, gw) ==
    LET controllers == {c.controller : c \in {x \in ToSet(objs.classes) : x.name = gw.class}}
    IN  IF controllers = {} THEN "" ELSE controllerFamily(CHOOSE c \in controllers : TRUE)

(* The Pods of any namespace that score best, as they are listed.          *)
gatewayCandidates(objs, gw) ==
    LET kind == gatewayKind(objs, gw)
        Score(p) == gatewayPodScore(gw, p, kind)
        able == SelectSeq(objs.pods, LAMBDA p : p.ready /\ kind \in p.proxies /\ Score(p) > 0)
    IN  SelectSeq(able, LAMBDA p : \A q \in ToSet(able) : Score(q) <= Score(p))

(* sort.Slice by name alone: of namesakes in several namespaces the first  *)
(* listed comes first.  (Among more than twelve candidates the sort may    *)
(* put any namesake first; another listing does the same.)                 *)
FirstByName(pods) == Head(SelectSeq(pods, LAMBDA p : p.name = SmallestName(ToSet(pods)).name))

(* The set holds the Gateway's runtime, or is empty when there is none.    *)
(* The first candidate decides the namespace and the workload.             *)
resolveGatewayRuntime(objs, gw) ==
    LET kind == gatewayKind(objs, gw)
        candidates == gatewayCandidates(objs, gw)
        first == FirstByName(candidates)
        owners == matchingDeployments(objs, first)
        owner == SmallestName(owners)
    IN  IF kind = "" \/ candidates = <<>> THEN {}
        ELSE {[gateway |-> GatewayID(gw), controller |-> kind, ns |-> first.ns,
               workload |-> IF owners = {} THEN <<"pod", first.ns, first.name>> ELSE WorkloadID(owner),
               pods |-> IF owners = {} THEN ToSet(candidates) ELSE {p \in ToSet(candidates) : owner.selector \subseteq p.labels}]}

(* pod.standsAs: the families the Deployment's and the Pod's names, labels *)
(* and images read as a gateway of.                                        *)
standaloneGatewayKind(pod) ==
    LET kinds == SelectSeq(Families, LAMBDA k : k \in pod.proxies \cap pod.standsAs)
    IN  IF kinds = <<>> THEN "" ELSE Head(kinds)

(* The first listed Ready Pod of a kind decides the kind of the workload.  *)
standaloneRuntime(objs, d) ==
    LET able == SelectSeq(objs.pods, LAMBDA p : /\ p.ns = d.ns /\ p.ready
                                                /\ d.selector \subseteq p.labels
                                                /\ standaloneGatewayKind(p) # "")
        kind == standaloneGatewayKind(Head(able))
    IN  IF able = <<>> THEN {}
        ELSE {[gateway |-> <<"gateway-runtime", d.ns, d.name>>, controller |-> kind, ns |-> d.ns,
               workload |-> WorkloadID(d),
               pods |-> {p \in ToSet(able) : standaloneGatewayKind(p) = kind}]}

Runtimes(objs) ==
    LET declared == UNION {resolveGatewayRuntime(objs, gw) : gw \in ToSet(objs.gateways)}
        unclaimed == {d \in ToSet(objs.deployments) : \A r \in declared : r.workload # WorkloadID(d)}
    IN  declared \cup UNION {standaloneRuntime(objs, d) : d \in unclaimed}

-----------------------------------------------------------------------------
(* Probe entries: the usable ports of the Services that select a runtime's *)
(* Pods.  service.ports holds the ports whose protocol hint is HTTP(S).    *)

DNSName(service) == <<service.name, service.ns, "svc", "cluster", "local">>

slicesOf(objs, service) ==
    At(objs.slices, {i \in DOMAIN objs.slices : objs.slices[i].ns = service.ns /\ objs.slices[i].service = service.name})

endpointsOf(objs, service) == UNION {ToSet(s.endpoints) : s \in ToSet(slicesOf(objs, service))}

gatewayServiceAddresses(objs, service) ==
    service.addresses \cup {e.address : e \in endpointsOf(objs, service)}

EntryServices(objs, runtime) ==
    {s \in ToSet(objs.services) : /\ s.ns = runtime.ns /\ s.selector # {} /\ s.external = <<>>
                                  /\ \E p \in runtime.pods : s.selector \subseteq p.labels}

discoverGatewayProbeEntries(objs) ==
    LET Entries(r, s) == {[gateway |-> r.gateway, ns |-> s.ns, service |-> s.name, port |-> port,
                           addresses |-> gatewayServiceAddresses(objs, s)] : port \in s.ports}
    IN  UNION {UNION {Entries(r, s) : s \in EntryServices(objs, r)} : r \in objs.runtimes}

(* gatewayRuntimeConditions and addGatewayServiceMetadata.                 *)
RuntimeConditions(objs, r) ==
    {<<"EnvoyConfig", "available">>, <<"Controller", r.controller>>}
    \cup UNION {{<<"Service", <<s.ns, s.name>>>>, <<"ServiceDNS", DNSName(s)>>}
                \cup {<<"Address", a>> : a \in gatewayServiceAddresses(objs, s)} : s \in EntryServices(objs, r)}

GatewayPart(objs, gw) ==
    LET id == GatewayID(gw)
        runtime == {r \in objs.runtimes : r.gateway = id}
        Listener(l) == Merge(Adds(<<"listener", gw.ns, gw.name, l.name>>,
                                  Node("Listener", [ns |-> gw.ns, name |-> l.name], "healthy", {<<"Hostname", l.host>>})),
                             Joins(id, <<"listener", gw.ns, gw.name, l.name>>, "owns"))
    IN  Merge(Adds(id, Node("Gateway", gw, "healthy",
                            {<<"Address", a>> : a \in gw.addresses} \cup UNION {RuntimeConditions(objs, r) : r \in runtime})),
              ForEach(Listener, gw.listeners))

(* addStandaloneGatewayRuntimes: the Deployments are visited by name.      *)
StandalonePart(objs, d) ==
    LET id == <<"gateway-runtime", d.ns, d.name>>
        runtime == {r \in objs.runtimes : r.gateway = id}
    IN  IF runtime = {} THEN Nothing
        ELSE Adds(id, Node("Gateway", d, "healthy", UNION {RuntimeConditions(objs, r) : r \in runtime}))

-----------------------------------------------------------------------------
(* Services and their endpoints.                                           *)

readyEndpoints(objs, service) == {e \in endpointsOf(objs, service) : e.ready}

ServiceID(service) == <<"service", service.ns, service.name>>

appendServiceEndpoints(objs, service) ==
    LET Endpoint(e) ==
            LET id == <<"endpoint", service.ns, service.name>> \o e.address
            IN  Merge(Adds(id, Node("Endpoint", [ns |-> service.ns, name |-> e.address],
                                    IF e.ready THEN "healthy" ELSE "warning", {<<"Address", e.address>>})),
                      Joins(ServiceID(service), id, "selects"))
        Slice(s) == ForEach(Endpoint, s.endpoints)
    IN  ForEach(Slice, slicesOf(objs, service))

(* A Service as a registry or an Ingress backend (networkingService).      *)
backendService(objs, service, from, relation, title, target) ==
    LET down == readyEndpoints(objs, service) = {} /\ service.external = <<>>
        conds == IF service.external = <<>> THEN {} ELSE {<<"ExternalName", service.external>>}
    IN  MergeAll(<<IF down THEN Finds(title, target) ELSE Nothing,
                   Adds(ServiceID(service), Node("Service", service, IF down THEN "error" ELSE "healthy", conds)),
                   Joins(from, ServiceID(service), relation),
                   appendServiceEndpoints(objs, service)>>)

-----------------------------------------------------------------------------
(* HTTPRoutes: parents, grants and backends.                               *)

(* The grants read in the wrong direction.                                 *)
reversedGrants(objs) ==
    LET Pairs(g) == {f \in g.from : f.kind = "HTTPRoute"} \X g.to
    IN  UNION {{<<g.ns, p[1].ns, p[2].kind, p[2].name>> : p \in Pairs(g)} : g \in ToSet(objs.grants)}

collectGrants(objs) ==
    LET Pairs(g) == {f \in g.from : f.kind = "HTTPRoute"} \X g.to
    IN  UNION {{<<p[1].ns, g.ns, p[2].kind, p[2].name>> : p \in Pairs(g)} : g \in ToSet(objs.grants)}

(* A grant without a name covers every name ("*").                         *)
grantsAllow(grants, from, to, kind, name) ==
    <<from, to, kind, name>> \in grants \/ <<from, to, kind, "*">> \in grants

(* InferencePool: its Endpoint Picker <<ns, name>>, then the Services with a matching   *)
(* selector, or without one the selected Pods.  An empty selector is an    *)
(* error and selects nothing.                                              *)
addInferencePool(objs, pool) ==
    LET id == <<"inferencepool", pool.ns, pool.name>>
        eppID == <<"endpoint-picker">> \o pool.picker
        from == IF pool.picker = <<>> THEN id ELSE eppID
        Selects(p) == pool.selector # {} /\ p.ns = pool.ns /\ pool.selector \subseteq p.labels
        matched == At(objs.pods, {i \in DOMAIN objs.pods : Selects(objs.pods[i])})
        ready == {p \in ToSet(matched) : p.ready}
        status == IF ready = {} THEN "error" ELSE IF Cardinality(ready) < Len(matched) THEN "warning" ELSE "healthy"
        services == ByName({s \in ToSet(objs.services) : /\ pool.selector # {} /\ s.ns = pool.ns
                                                        /\ s.selector # {} /\ pool.selector \subseteq s.selector})
        Service(s) == MergeAll(<<Adds(ServiceID(s), Node("Service", s, IF endpointsOf(objs, s) = {} THEN "error" ELSE "healthy", {})),
                                 Joins(from, ServiceID(s), "selects"), appendServiceEndpoints(objs, s)>>)
        PodPart(p) == Merge(Adds(<<"pod", p.ns, p.name>>, Node("Pod", p, IF p.ready THEN "healthy" ELSE "warning", {})),
                            Joins(from, <<"pod", p.ns, p.name>>, "selects"))
    IN  MergeAll(<<Adds(id, Node("InferencePool", pool, status, {})),
                   IF pool.picker = <<>> THEN Nothing
                   ELSE Merge(Adds(eppID, Node("EndpointPicker", [ns |-> pool.picker[1], name |-> pool.picker[2]], "healthy", {})),
                              Joins(id, eppID, "discovers")),
                   IF services = <<>> THEN ForEach(PodPart, matched) ELSE ForEach(Service, services)>>)

Unauthorised == "cross-namespace reference is not authorised"

(* One backendRef of a route.                                              *)
addBackend(objs, route, ref) ==
    LET id == <<"route", route.ns, route.name>>
        pools == IF ref.kind = "InferencePool" THEN Named(objs.pools, ref.ns, ref.name) ELSE {}
        services == IF ref.kind = "Service" THEN Named(objs.services, ref.ns, ref.name) ELSE {}
        allowed == ref.ns = route.ns \/ grantsAllow(collectGrants(objs), route.ns, ref.ns, ref.kind, ref.name)
        denied == IF allowed THEN Nothing ELSE Finds(Unauthorised, id)
        Pool(pool) == LET poolID == <<"inferencepool", pool.ns, pool.name>>
                      IN  MergeAll(<<addInferencePool(objs, pool), denied,
                                     IF allowed THEN Nothing ELSE MarkNodeError(poolID), Joins(id, poolID, "routes")>>)
        Transit(s) == LET transitID == <<"transit", s.ns, s.name>>
                      IN  MergeAll(<<denied,
                                     Adds(transitID, Node("TransitHop", s, IF allowed THEN "healthy" ELSE "error",
                                                          {<<"ExternalName", s.external>>, <<"Destination", s.external>>})),
                                     Joins(id, transitID, "routes")>>)
        Backend(s) == LET down == readyEndpoints(objs, s) = {}
                      IN  MergeAll(<<denied, IF allowed /\ down THEN Finds("backend has no ready endpoint", id) ELSE Nothing,
                                     Adds(ServiceID(s), Node("Service", s, IF allowed /\ ~down THEN "healthy" ELSE "error", {})),
                                     Joins(id, ServiceID(s), "routes"), appendServiceEndpoints(objs, s)>>)
    IN  IF ref.kind \notin {"Service", "InferencePool"} THEN Finds("unsupported backend kind", id)
        ELSE IF pools \cup services = {} THEN Finds("backend does not exist", id)
        ELSE IF ref.kind = "InferencePool" THEN Pool(CHOOSE p \in pools : TRUE)
        ELSE LET s == CHOOSE x \in services : TRUE IN IF s.external # <<>> THEN Transit(s) ELSE Backend(s)

RoutePart(objs, route) ==
    LET id == <<"route", route.ns, route.name>>
        Parent(p) == IF Named(objs.gateways, p.ns, p.name) = {} THEN Finds("parent Gateway does not exist", id)
                     ELSE Joins(IF p.section = "" THEN <<"gateway", p.ns, p.name>>
                                ELSE <<"listener", p.ns, p.name, p.section>>, id, "attaches")
        Backend(ref) == addBackend(objs, route, ref)
    IN  MergeAll(<<Adds(id, Node("HTTPRoute", route, "healthy", {})),
                   ForEach(Parent, route.parents), ForEach(Backend, route.backends)>>)

-----------------------------------------------------------------------------
(* Higress: McpBridges with their registries, and Ingresses.               *)

RegistryID(bridge, registry) == <<"registry", bridge.ns, bridge.name, registry.name>>

(* A one-label domain names a Service of the bridge's namespace, a         *)
(* two-label one <service>.<namespace>, a longer one <service>.<ns>.svc... *)
serviceForRegistryDomain(objs, bridge, domain) ==
    CASE Len(domain) = 1 -> Named(objs.services, bridge.ns, domain[1])
      [] Len(domain) = 2 \/ (Len(domain) >= 3 /\ domain[3] = "svc") -> Named(objs.services, domain[2], domain[1])
      [] OTHER -> {}

RegistryPart(objs, bridge, registry) ==
    LET id == RegistryID(bridge, registry)
        targets == serviceForRegistryDomain(objs, bridge, registry.domain)
        targetID == Append(id, "target")
    IN  MergeAll(<<Adds(id, Node("Registry", [ns |-> bridge.ns, name |-> registry.name], "healthy",
                                 {<<"Type", registry.type>>, <<"Domain", registry.domain>>})),
                   Joins(<<"mcpbridge", bridge.ns, bridge.name>>, id, "discovers"),
                   IF registry.domain = <<>> THEN Nothing
                   ELSE IF targets = {}
                   THEN Merge(Adds(targetID, Node("ExternalTarget", [ns |-> bridge.ns, name |-> registry.name], "healthy",
                                                  {<<"Address", registry.domain>>})),
                              Joins(id, targetID, "resolves"))
                   ELSE backendService(objs, CHOOSE s \in targets : TRUE, id, "resolves",
                                       "registry Service has no ready endpoint", id)>>)

BridgePart(objs, bridge) ==
    LET id == <<"mcpbridge", bridge.ns, bridge.name>>
        Registry(r) == RegistryPart(objs, bridge, r)
    IN  MergeAll(<<Adds(id, Node("McpBridge", bridge, IF bridge.registries = <<>> THEN "warning" ELSE "healthy", {})),
                   IF bridge.registries = <<>> THEN Finds("McpBridge has no registry", id) ELSE Nothing,
                   ForEach(Registry, bridge.registries)>>)

IngressID(ingress) == <<"ingress", ingress.ns, ingress.name>>

isHigressIngress(ingress) == "higress" \in {ingress.class, ingress.annotation}

ingressEntryConditions(ingress) ==
    (IF ingress.class = "" THEN {} ELSE {<<"IngressClass", ingress.class>>})
    \cup {<<"Hostname", h>> : h \in ingress.hosts} \cup {<<"Address", a>> : a \in ingress.addresses}

addIngressEntryResources(ingress) ==
    IF isHigressIngress(ingress) \/ ingressEntryConditions(ingress) = {} THEN Nothing
    ELSE Adds(IngressID(ingress), Node("Ingress", ingress, "healthy", ingressEntryConditions(ingress)))

(* higress.io/destination names a registry as <<name, type>>; without it   *)
(* the only registry of the bridge is selected.  The registries are keyed  *)
(* by <<name, type>>: of two equal ones the last is kept.                  *)
SelectRegistry(ingress, bridge) ==
    LET named == {r \in ToSet(bridge.registries) : <<r.name, r.type>> = ingress.destination}
        keys == {<<r.name, r.type>> : r \in ToSet(bridge.registries)}
        Select(registries) == Joins(IngressID(ingress), RegistryID(bridge, CHOOSE r \in registries : TRUE), "selects")
    IN  IF ingress.destination # <<>>
        THEN IF named = {} THEN Finds("destination does not resolve", IngressID(ingress)) ELSE Select(named)
        ELSE IF Cardinality(keys) = 1 THEN Select(ToSet(bridge.registries)) ELSE Nothing

HigressIngressPart(objs, ingress) ==
    LET id == IngressID(ingress)
        Path(backend) ==
            LET bridges == Named(objs.bridges, ingress.ns, backend.name)
                services == Named(objs.services, ingress.ns, backend.name)
                bridge == CHOOSE b \in bridges : TRUE
            IN  IF backend.kind = "McpBridge"
                THEN IF bridges = {} THEN Finds("McpBridge does not exist", id)
                     ELSE Merge(Joins(id, <<"mcpbridge", bridge.ns, bridge.name>>, "routes"), SelectRegistry(ingress, bridge))
                ELSE IF services = {} THEN Finds("Ingress backend Service does not exist", id)
                     ELSE backendService(objs, CHOOSE s \in services : TRUE, id, "routes", "Ingress backend has no ready endpoint", id)
    IN  IF ~isHigressIngress(ingress) THEN Nothing
        ELSE Merge(Adds(id, Node("Ingress", ingress, "healthy", ingressEntryConditions(ingress))), ForEach(Path, ingress.backends))

ingressClassName(ingress) == IF ingress.class # "" THEN ingress.class ELSE ingress.annotation

(* The first match instead of the only one.                                *)
linkIngressToFirst(objs, ingress) ==
    LET owners == SelectSeq(objs.gateways, LAMBDA gw : \E r \in objs.runtimes : r.gateway = GatewayID(gw))
    IN  IF ingressClassName(ingress) = "" \/ owners = <<>> THEN Nothing
        ELSE Joins(GatewayID(Head(owners)), IngressID(ingress), "attaches")

(* An Ingress belongs to the only gateway runtime with the controller of   *)
(* its class; several are reported, none is no error.                      *)
linkIngressesToGateways(objs, ingress) ==
    LET class == ingressClassName(ingress)
        controllers == {c.controller : c \in {x \in ToSet(objs.ingressClasses) : x.name = class}}
        controller == IF controllers = {} THEN "" ELSE CHOOSE c \in controllers : TRUE
        fallback == controller = "" /\ class = "higress"
        matches == {r \in objs.runtimes : \/ controllersCompatible(controller, r.controller)
                                          \/ fallback /\ controllerFamily(r.controller) = "higress"}
    IN  IF class = "" \/ matches = {} THEN Nothing
        ELSE IF Cardinality(matches) = 1 THEN Joins((CHOOSE r \in matches : TRUE).gateway, IngressID(ingress), "attaches")
        ELSE Finds("Ingress matches several gateways", IngressID(ingress))

-----------------------------------------------------------------------------
(* rebuild: every part in the order of the code.                           *)
(* objs with the runtimes that were found in them.                         *)
Built(objs) ==
    LET Gateway(gw) == GatewayPart(objs, gw)
        Standalone(d) == StandalonePart(objs, d)
        Route(route) == RoutePart(objs, route)
        Bridge(bridge) == BridgePart(objs, bridge)
        HigressIngress(ingress) == HigressIngressPart(objs, ingress)
        Link(ingress) == linkIngressesToGateways(objs, ingress)
    IN  MergeAll(<<ForEach(Gateway, objs.gateways), ForEach(Standalone, ByName(ToSet(objs.deployments))),
                   ForEach(Route, objs.routes), ForEach(addIngressEntryResources, objs.ingresses),
                   ForEach(Bridge, objs.bridges), ForEach(HigressIngress, objs.ingresses), ForEach(Link, objs.ingresses)>>)

Snapshot(built, entries) ==
    [nodes |-> [id \in DOMAIN built.nodes |->
                   IF id \in built.marked THEN [built.nodes[id] EXCEPT !.status = "error"] ELSE built.nodes[id]],
     edges |-> built.edges, findings |-> built.findings, entries |-> entries]

SnapshotWith(objs) == Snapshot(Built(objs), discoverGatewayProbeEntries(objs))

WithRuntimes(objs) == [k \in DOMAIN objs \cup {"runtimes"} |-> IF k = "runtimes" THEN Runtimes(objs) ELSE objs[k]]

rebuild(objs) == SnapshotWith(WithRuntimes(objs))
=============================================================================
