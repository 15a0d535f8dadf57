-------------------------- MODULE MCFederatedPath --------------------------
(* Three clusters: east's Higress gateway forwards to west's Istio gateway *)
(* through an McpBridge registry, west's route leads on to south's         *)
(* standalone Envoy gateway through an ExternalName Service.               *)
EXTENDS FederatedPath

MCAlphabet ==
    <<"0", "1", "10", "2", "3", "9", "alt", "any", "bare", "bridge", "com", "data", "east", "edge", "edge-svc", "endpoint",
      "endpoint-picker", "example", "extra", "gateway", "gateway-runtime", "gw", "http", "inferencepool", "ingress",
      "ledger", "ledger-svc", "legacy", "listener", "llm", "local", "main", "mcpbridge", "model-svc", "org", "orders", "p1", "p2",
      "p3", "pay", "pay-svc", "picker", "plain", "pod", "r1", "r2", "r3", "registry", "route", "service", "shop", "south",
      "target", "transit", "west">>

IP(n) == <<"10", "0", n>>
PayHost == <<"pay", "example", "com">>
LedgerHost == <<"ledger", "example", "org">>

NoObjects == [gateways |-> <<>>, classes |-> <<>>, services |-> <<>>, slices |-> <<>>, routes |-> <<>>, grants |-> <<>>,
              ingresses |-> <<>>, bridges |-> <<>>, ingressClasses |-> <<>>, deployments |-> <<>>, pods |-> <<>>, pools |-> <<>>]

Service(ns, name, selector, external, addresses, ports) ==
    [ns |-> ns, name |-> name, selector |-> selector, external |-> external, addresses |-> addresses, ports |-> ports]
Pod(ns, name, labels, ready, proxies, says, gatewayName) ==
    [ns |-> ns, name |-> name, labels |-> labels, ready |-> ready, proxies |-> proxies, says |-> says,
     gatewayName |-> gatewayName, standsAs |-> proxies]
Ingress(name, class, annotation, hosts, destination, backends) ==
    [ns |-> "gw", name |-> name, class |-> class, annotation |-> annotation, hosts |-> hosts, addresses |-> {},
     destination |-> destination, backends |-> backends]
Slice(ns, service, address, ready) == [ns |-> ns, service |-> service, endpoints |-> <<[address |-> address, ready |-> ready]>>]
Gateway(name, class, addresses, listeners) ==
    [ns |-> "gw", name |-> name, class |-> class, addresses |-> addresses, listeners |-> listeners]

-----------------------------------------------------------------------------
East ==
    [NoObjects EXCEPT
       !.gateways = <<Gateway("edge", "hi", {}, <<>>)>>,
       !.classes = <<[name |-> "hi", controller |-> "higress"]>>,
       !.deployments = <<[ns |-> "gw", name |-> "edge", selector |-> {"edge"}]>>,
       !.pods = <<Pod("gw", "p1", {"edge"}, TRUE, {"higress"}, {"edge"}, "edge"),
                  Pod("gw", "p2", {"edge"}, FALSE, {"higress"}, {"edge"}, "edge")>>,
       !.services = <<Service("gw", "edge-svc", {"edge"}, <<>>, {IP("1")}, {80})>>,
       !.slices = <<Slice("gw", "edge-svc", IP("3"), TRUE)>>,
       !.bridges = <<[ns |-> "gw", name |-> "bridge", registries |->
                        <<[name |-> "pay", type |-> "dns", domain |-> PayHost],
                          [name |-> "local", type |-> "static", domain |-> <<"edge-svc", "gw">>]>>],
                     [ns |-> "gw", name |-> "bare", registries |-> <<>>]>>,
       !.ingresses = <<Ingress("main", "higress", "", {<<"shop", "example", "com">>}, <<"pay", "dns">>,
                               <<[kind |-> "McpBridge", name |-> "bridge"]>>),
                       Ingress("legacy", "", "higress", {}, <<>>,
                               <<[kind |-> "Service", name |-> "edge-svc"], [kind |-> "McpBridge", name |-> "bridge"],
                                 [kind |-> "McpBridge", name |-> "target"], [kind |-> "Service", name |-> "target"]>>)>>]

(* A second Higress workload: the Ingresses' class no longer singles out a *)
(* gateway; the destination annotation names no registry.                  *)
EastTwoGateways ==
    [East EXCEPT
       !.gateways = @ \o <<Gateway("extra", "hi", {}, <<>>)>>,
       !.ingressClasses = <<[name |-> "higress", controller |-> "higress"]>>,
       !.deployments = @ \o <<[ns |-> "gw", name |-> "extra", selector |-> {"extra"}]>>,
       !.pods = @ \o <<Pod("gw", "p3", {"extra"}, TRUE, {"higress"}, {"extra"}, "extra")>>,
       !.ingresses[1].destination = <<"pay", "nacos">>]

-----------------------------------------------------------------------------
Route(ns, name, section, backends) ==
    [ns |-> ns, name |-> name, parents |-> <<[ns |-> "gw", name |-> "pay", section |-> section]>>, backends |-> backends]
Ref(ns, kind, name) == [ns |-> ns, kind |-> kind, name |-> name]

West ==
    [NoObjects EXCEPT
       !.gateways = <<Gateway("pay", "is", {IP("2")}, <<[name |-> "http", host |-> PayHost], [name |-> "any", host |-> <<"*">>]>>)>>,
       !.classes = <<[name |-> "is", controller |-> "istio"]>>,
       !.deployments = <<[ns |-> "gw", name |-> "pay", selector |-> {"pay"}]>>,
       !.pods = <<Pod("gw", "p1", {"pay"}, TRUE, {"istio"}, {"pay"}, ""), Pod("gw", "p2", {"pay"}, TRUE, {"istio"}, {"pay"}, ""),
                  Pod("data", "p3", {"llm"}, TRUE, {}, {}, "")>>,
       !.services = <<Service("gw", "pay-svc", {"pay"}, <<>>, {IP("2")}, {80}),
                      Service("shop", "orders", {"orders"}, <<>>, {}, {}),
                      Service("shop", "ledger", {}, LedgerHost, {}, {})>>,
       !.slices = <<Slice("shop", "orders", IP("9"), TRUE)>>,
       !.routes = <<Route("gw", "r1", "http", <<Ref("shop", "Service", "orders"), Ref("shop", "Service", "ledger"),
                                               Ref("data", "InferencePool", "llm")>>),
                    Route("shop", "r2", "", <<Ref("shop", "Service", "orders"), Ref("shop", "Other", "orders")>>),
                    [Route("data", "r3", "", <<Ref("data", "Service", "orders"), Ref("shop", "Service", "ledger")>>)
                        EXCEPT !.parents[1].name = "extra"]>>,
       !.pools = <<[ns |-> "data", name |-> "llm", selector |-> {"llm"}, picker |-> <<"data", "picker">>]>>,
       !.grants = <<[ns |-> "shop", from |-> {[ns |-> "gw", kind |-> "HTTPRoute"]}, to |-> {[kind |-> "Service", name |-> "*"]}],
                    [ns |-> "gw", from |-> {[ns |-> "data", kind |-> "HTTPRoute"]}, to |-> {[kind |-> "Service", name |-> "ledger"]}]>>]

(* The grants move: shop no longer admits gw, data does; the model has a   *)
(* Service; orders lost its endpoint.                                      *)
WestOtherGrants ==
    [West EXCEPT
       !.services = @ \o <<Service("data", "model-svc", {"llm"}, <<>>, {}, {})>>,
       !.slices = <<Slice("shop", "orders", IP("9"), FALSE)>>,
       !.pools[1].picker = <<>>,
       !.grants = <<[ns |-> "data", from |-> {[ns |-> "gw", kind |-> "HTTPRoute"]}, to |-> {[kind |-> "InferencePool", name |-> "llm"]}],
                    [ns |-> "shop", from |-> {[ns |-> "data", kind |-> "HTTPRoute"], [ns |-> "gw", kind |-> "Other"]},
                     to |-> {[kind |-> "Service", name |-> "ledger"]}]>>]

-----------------------------------------------------------------------------
South ==
    [NoObjects EXCEPT
       !.deployments = <<[ns |-> "gw", name |-> "ledger", selector |-> {"ledger"}]>>,
       !.pods = <<Pod("gw", "p1", {"ledger"}, TRUE, {"envoy"}, {}, ""), Pod("gw", "p2", {"ledger"}, TRUE, {"envoy"}, {}, "")>>,
       !.services = <<Service("gw", "ledger-svc", {"ledger"}, <<>>, {LedgerHost}, {443})>>,
       !.ingresses = <<Ingress("plain", "nginx", "", {PayHost}, <<>>, <<>>)>>]

(* South also claims west's host and shares its address, with a gateway    *)
(* of two Pods of the same name: the listing decides its namespace and     *)
(* whether it is the gateway of the Deployment.                            *)
SouthClaimsPay ==
    [South EXCEPT
       !.gateways = <<Gateway("alt", "en", {}, <<[name |-> "http", host |-> PayHost]>>)>>,
       !.classes = <<[name |-> "en", controller |-> "envoy"]>>,
       !.pods = @ \o <<Pod("gw", "p3", {"ledger"}, TRUE, {"envoy"}, {"alt"}, ""), Pod("data", "p3", {}, TRUE, {"envoy"}, {"alt"}, "")>>,
       !.services[1].addresses = {LedgerHost, IP("2")}]

MCVersions == [c \in {"east", "west", "south"} |->
                 CASE c = "east" -> <<East, EastTwoGateways>> [] c = "west" -> <<West, WestOtherGrants>> [] OTHER -> <<South, SouthClaimsPay>>]

-----------------------------------------------------------------------------
Edge == <<"east", "gateway", "gw", "edge">>
Pay == <<"west", "gateway", "gw", "pay">>
Ledger == <<"south", "gateway-runtime", "gw", "ledger">>

(* The clocks agree, to begin with, and the line is read after every start.*)
Line(gateway, pod, pass, redirect, host, cluster) ==
    [gateway |-> gateway, pod |-> pod, pass |-> pass, start |-> 10 * pass, read |-> 50 + pass, redirect |-> redirect,
     code |-> IF redirect THEN 302 ELSE 200, host |-> host, cluster |-> cluster, probeID |-> "probe", traceID |-> "probe"]

(* The gateway's log shows another start, or none.                         *)
Logged(lines, gateway, start) ==
    [i \in DOMAIN lines |-> IF lines[i].gateway = gateway THEN [lines[i] EXCEPT !.start = start] ELSE lines[i]]

(* The texts of the reads do not follow the time.                          *)
ReadEarly(lines) == [i \in DOMAIN lines |-> [lines[i] EXCEPT !.read = 19 - i]]

ToOrders == {<<"orders", "shop", "svc", "cluster", "local">>}
ToPay(gateway, pod, pass) == Line(gateway, pod, pass, FALSE, IP("2"), {<<"pay", "dns">>})

Along == <<Line(Ledger, "p1", 3, FALSE, IP("9"), {}), Line(Pay, "p1", 2, FALSE, <<>>, {LedgerHost}),
           Line(Edge, "p1", 1, FALSE, <<>>, {PayHost})>>
Retried == <<Line(Edge, "p1", 1, TRUE, IP("9"), ToOrders), Line(Pay, "p1", 2, FALSE, <<>>, ToOrders), ToPay(Edge, "p1", 1)>>

(* Ledger's clock is behind Pay's; the logs of Edge or Ledger have no      *)
(* start_time; a line of another request has our trace.                    *)
MCPassages ==
    {Retried, ReadEarly(Logged(Retried, Edge, 0)),
     Along, Logged(Along, Ledger, 15), ReadEarly(Logged(Along, Ledger, 0)),
     <<Line(Edge, "p1", 1, TRUE, IP("9"), ToOrders), Line(Edge, "p1", 3, FALSE, IP("9"), {}), Line(Pay, "p2", 2, FALSE, IP("1"), {<<"edge-svc", "gw", "svc", "corp">>}),
       ToPay(Edge, "p1", 1)>>,
     <<[Line(Edge, "p1", 2, FALSE, IP("9"), {}) EXCEPT !.probeID = "other"], Line(Edge, "p1", 1, FALSE, IP("9"), ToOrders)>>,
     <<[Line(Edge, "p1", 2, FALSE, IP("9"), {}) EXCEPT !.probeID = ""], Line(Edge, "p1", 1, FALSE, IP("9"), ToOrders)>>}

MCBackwards == {{}, {"gateways", "services", "slices", "routes", "grants", "ingresses", "bridges", "deployments", "pods"}}
=============================================================================
