--------------------------- MODULE FederatedPath ---------------------------
(***************************************************************************)
(* From the clusters' objects to the path of a probe, end to end: Agents   *)
(* rebuild and upload their snapshots in any order and after any listing,  *)
(* the Server federates them, a probe passes gateways that each write an   *)
(* access log, and what is collected of those logs is assembled into the   *)
(* execution the user reads.                                               *)
(*                                                                         *)
(* The request's true passage is part of the state (passage), so that what *)
(* the Server claims can be compared with what happened.                   *)
(***************************************************************************)
EXTENDS ProbeAssociation

CONSTANTS Clusters,
          Versions,     \* [Clusters -> sequence of the objects a cluster may have]
          Backwards,    \* the sets of object kinds a store may list backwards
          Passages,     \* the ways a request may pass the gateways, see Line
          Flaws,        \* what may be wrong with the source gateway's log
          Failures,     \* how the observation of a gateway may fail
          Probe,        \* the probe's ID, and its trace's
          MaxChanges,   \* bound: changes of a cluster's objects
          MaxFailed     \* bound: observations that fail

(* A passage is the lines that were written while the request was on its   *)
(* way, the request's last: gateway is a global ID, a pass of a gateway is *)
(* handled by one of its Pods.  A line is                                  *)
(*   gateway, pod, pass (which of the request's passages of gateways it    *)
(*   is, in the order of their beginning), start, read, redirect, code,    *)
(*   host, cluster (where it was sent on to), probeID and traceID.         *)
(* The attempts of a pass share its start.  The pass that begins first     *)
(* ends last: the last line is the client's answer.                        *)
(*                                                                         *)
(* start is the start as the gateway logs it, a text that the code         *)
(* compares as a string: it is modelled by its rank among such texts,      *)
(* which need not follow the passes, for the clusters' clocks and formats  *)
(* differ and "05.1Z" is less than "05Z"; 0 is a log without start_time.   *)
(* read is the text of the time an Agent reads the line at.  On one        *)
(* gateway, different passes have different starts.                        *)
ASSUME PassageAssumption ==
    /\ Probe # ""
    /\ \A lines \in Passages :
        /\ lines \in Seq(ToSet(lines)) /\ lines # <<>>
        /\ \A i \in DOMAIN lines : lines[i].gateway \in Seq(ToSet(Alphabet)) /\ lines[i].pass \in Nat \ {0}
        /\ \A i \in DOMAIN lines : lines[i].start \in Nat /\ lines[i].read \in Nat
        /\ \A i, j \in DOMAIN lines :
              /\ lines[i].pass = lines[j].pass =>
                    lines[i].gateway = lines[j].gateway /\ lines[i].pod = lines[j].pod /\ lines[i].start = lines[j].start
              /\ lines[i].gateway = lines[j].gateway /\ lines[i].start = lines[j].start /\ lines[i].start # 0 =>
                    lines[i].pass = lines[j].pass
        /\ \A i \in DOMAIN lines : Last(lines).pass <= lines[i].pass
        /\ Correlation(Last(lines), Probe) # ""

ASSUME VersionsAssumption ==
    /\ Clusters \subseteq ToSet(Alphabet)
    /\ \A c \in Clusters : /\ 1 \in DOMAIN Versions[c] /\ DOMAIN Versions[c] \subseteq Nat
                           /\ \A v \in DOMAIN Versions[c] : AreObjects(Versions[c][v])

Listing(objs, backwards) == [k \in DOMAIN objs |-> IF k \in backwards THEN Reverse(objs[k]) ELSE objs[k]]

VARIABLES version,    \* [Clusters -> index into Versions]: the cluster's objects now
          sent,       \* registered cluster -> version of its last snapshot
          snapshots,  \* registered cluster -> topology (Store.snapshots)
          changes,    \* how often objects changed (bound)
          passage,    \* the lines the request wrote, in the order they were written
          probe       \* the execution and what it was computed from

vars == <<version, sent, snapshots, changes, passage, probe>>

NoProbe == [phase |-> "none"]

Init ==
    /\ version = [c \in Clusters |-> 1]
    /\ sent = <<>> /\ snapshots = <<>>
    /\ changes = 0
    /\ passage = <<>> /\ probe = NoProbe

(* The cluster's objects change.                                           *)
Change(c) ==
    /\ probe = NoProbe /\ changes < MaxChanges
    /\ \E v \in DOMAIN Versions[c] \ {version[c]} : version' = [version EXCEPT ![c] = v]
    /\ changes' = changes + 1
    /\ UNCHANGED <<sent, snapshots, passage, probe>>

Stored(c, x, of) == [d \in DOMAIN of \cup {c} |-> IF d = c THEN x ELSE of[d]]

(* An Agent's rebuild, with whatever order its stores list in, is stored.  *)
Upload(c) ==
    /\ probe = NoProbe
    /\ \E backwards \in Backwards :
          snapshots' = Stored(c, rebuild(Listing(Versions[c][version[c]], backwards)), snapshots)
    /\ sent' = Stored(c, version[c], sent)
    /\ UNCHANGED <<version, changes, passage, probe>>

-----------------------------------------------------------------------------
(* Access logs and what is collected of them.                              *)

LinesOf(lines, gateway) == {i \in DOMAIN lines : lines[i].gateway = gateway}

(* The text of a line's observation time: its start, or the time of the    *)
(* read.                                                                   *)
ObservedAt(line) == IF line.start = 0 THEN line.read ELSE line.start

(* The record read from line i.                                            *)
ParseHigressLineForProbe(lines, i) ==
    LET line == lines[i]
    IN  [id |-> <<"record", i>>, source |-> line.pod, log |-> line.pod, pod |-> line.pod,
         seq |-> Cardinality({j \in LinesOf(lines, line.gateway) : j <= i}), start |-> line.start,
         remote |-> "peer", local |-> "listener", redirect |-> line.redirect, code |-> line.code,
         correlation |-> Correlation(line, Probe), at |-> ObservedAt(line), host |-> line.host, cluster |-> line.cluster]

(* What an Agent collects of a gateway's log: the lines it found of this   *)
(* probe, by the text of their observation time.                           *)
ReadLines(lines, gateway, found) == {i \in LinesOf(lines, gateway) : i \in found /\ Correlation(lines[i], Probe) # ""}

ByTime(lines, read) ==
    LET at == [i \in read |-> ObservedAt(lines[i])]
    IN  Ranked(read, {p \in read \X read : at[p[1]] < at[p[2]] \/ (at[p[1]] = at[p[2]] /\ p[1] < p[2])})

AgentResult(lines, gateway, found, collection, issues) ==
    LET read == ReadLines(lines, gateway, found)
        order == ByTime(lines, read)
    IN  [hops |-> [n \in DOMAIN order |-> ParseHigressLineForProbe(lines, order[n])], collection |-> collection,
         issues |-> issues \cup (IF read = {} THEN {Issue("collection", "no-matching-log", 0)} ELSE {})]

(* The request starts at a probe entry of a registered gateway.            *)
CreateProbe(lines) ==
    LET source == Last(lines).gateway
        top == federated(snapshots)
    IN  /\ probe = NoProbe
        /\ \E e \in top.entries : e.gateway = source
        /\ passage' = lines
        /\ probe' = [phase |-> "sent", top |-> top, source |-> source, targets |-> discoverProbeGatewayTargets(top, source)]
        /\ UNCHANGED <<version, sent, snapshots, changes>>

SourceIssues(flaw) ==
    CASE flaw = "rotated" -> {Issue("collection", "log-source-rotated", 0)}
      [] flaw = "oversized" -> {Issue("execution", "response-limit-exceeded", 0)}
      [] OTHER -> {}

(* The source Agent answers with the response and what it found of the log.*)
SourceExecution(lines, source, found, flaw) ==
    LET result == AgentResult(lines, source, found, IF flaw = "unstable" THEN "unstable" ELSE "settled",
                              SourceIssues(flaw))
    IN  [state |-> "completed", code |-> Last(lines).code, gateway |-> source,
         segments |-> <<segmentFromAgent(source, result)>>, issues |-> {i \in result.issues : i.scope = "execution"},
         finalResponse |-> <<>>, finalUpstream |-> <<>>]

SourceAnswers(found, flaw) ==
    /\ probe.phase = "sent"
    /\ probe' = [phase |-> "answered", top |-> probe.top, source |-> probe.source, targets |-> probe.targets, found |-> found,
                 execution |-> SourceExecution(passage, probe.source, found, flaw)]
    /\ UNCHANGED <<version, sent, snapshots, changes, passage>>

(* The observation of a target, which may fail.                            *)
Observed(lines, target, found, failed, code) ==
    IF target.gateway \in failed THEN failedObservation(target.gateway, code)
    ELSE segmentFromAgent(target.gateway, AgentResult(lines, target.gateway, found, "settled", {}))

(* Every target is observed, or its observation fails, and the execution   *)
(* is assembled.                                                           *)
Complete(found, failed, code) ==
    LET observations == [i \in DOMAIN probe.targets |-> Observed(passage, probe.targets[i], found, failed, code)]
    IN  /\ probe.phase = "answered"
        /\ probe' = [phase |-> "done", top |-> probe.top, source |-> probe.source, targets |-> probe.targets,
                     found |-> probe.found \cup {i \in found : passage[i].gateway \notin failed},
                     execution |-> completeFederatedProbe(probe.top, probe.execution, probe.targets, observations)]
        /\ UNCHANGED <<version, sent, snapshots, changes, passage>>

(* The execution is final.                                                 *)
Done == probe.phase = "done" /\ UNCHANGED vars

Indices(gateways) == {i \in DOMAIN passage : passage[i].gateway \in gateways}
TargetIDs == {t.gateway : t \in ToSet(probe.targets)}

Next ==
    \/ \E c \in Clusters : Change(c) \/ Upload(c)
    \/ \E lines \in Passages : CreateProbe(lines)
    \/ /\ probe.phase = "sent"
       /\ \E found \in SUBSET Indices({probe.source}), flaw \in Flaws : SourceAnswers(found, flaw)
    \/ /\ probe.phase = "answered"
       /\ \E found \in SUBSET Indices(TargetIDs), failed \in SUBSET TargetIDs, code \in Failures :
             Cardinality(failed) <= MaxFailed /\ Complete(found, failed, code)
    \/ Done

Spec == Init /\ [][Next]_vars

-----------------------------------------------------------------------------
(* Properties.                                                             *)

Segments == IF probe.phase = "done" THEN probe.execution.segments ELSE <<>>

(* The gateways to observe are a list of other gateways than the source,   *)
(* each once (discoverProbeGatewayTargets).                                *)
TargetsListed ==
    probe # NoProbe =>
    /\ probe.targets \in Seq(ToSet(probe.targets))
    /\ \A i, j \in DOMAIN probe.targets : probe.targets[i].gateway = probe.targets[j].gateway => i = j
    /\ probe.source \notin TargetIDs

(* Issues stay with what they are about: execution issues at the top,      *)
(* issues of collection, relation and inference in a segment; every        *)
(* segment has a known relation state and confidence                       *)
(* (segmentFromAgent, EnrichProbe).                                        *)
TypeOK ==
    /\ TargetsListed
    /\ version \in [Clusters -> Nat] /\ DOMAIN sent \subseteq Clusters /\ DOMAIN snapshots = DOMAIN sent
    /\ probe.phase \in {"none", "sent", "answered", "done"}
    /\ \A i \in DOMAIN Segments :
          /\ Segments[i].relation \in {"linked", "missing-next", "unconfirmed", "ambiguous"}
          /\ Segments[i].inference \in {"", "high", "medium", "low", "ambiguous"}
          /\ \A issue \in Segments[i].issues : issue.scope \in {"collection", "relation", "inference"}

(* What a topology says, apart from the order it says it in and from the   *)
(* status of a Service, which its first referrer decides (appendUnique).   *)
Shape(topology) ==
    [nodes |-> {<<id, topology.nodes[id].kind, topology.nodes[id].conds>> : id \in DOMAIN topology.nodes},
     edges |-> ToSet(topology.edges), findings |-> topology.findings, entries |-> topology.entries]

(* The objects a listing's order decides about: a Gateway whose first      *)
(* candidate has a namesake in another namespace (resolveGatewayRuntime),  *)
(* and a Deployment whose Ready Pods read as gateways of several kinds     *)
(* (addStandaloneGatewayRuntimes).                                         *)
ListingDecides(objs) ==
    \/ \E gw \in ToSet(objs.gateways) :
          LET candidates == gatewayCandidates(objs, gw)
          IN  \E p \in ToSet(candidates) : /\ p.name = FirstByName(candidates).name
                                           /\ p.ns # FirstByName(candidates).ns
    \/ \E d \in ToSet(objs.deployments) :
          LET able == {p \in ToSet(objs.pods) : p.ns = d.ns /\ p.ready /\ d.selector \subseteq p.labels}
          IN  Cardinality({standaloneGatewayKind(p) : p \in able} \ {""}) > 1

(* Unless a listing decides, rebuilding the same objects from another one  *)
(* changes nothing in the cluster's snapshot: no node, edge, finding or    *)
(* probe entry comes or goes with the order in which a store lists its map *)
(* (rebuild).                                                              *)
RelistingIsHarmless ==
    [][\A c \in DOMAIN sent :
          sent'[c] = sent[c] => Shape(snapshots'[c]) = Shape(snapshots[c]) \/ ListingDecides(Versions[c][sent[c]])]_vars

(* A route reaches a backend of another namespace only when a              *)
(* ReferenceGrant there admits its namespace; otherwise the uploaded       *)
(* snapshot carries a finding for it, and without such a backend it        *)
(* carries none (addBackends, collectGrants, grantsAllow).                 *)
UnauthorisedIsReported ==
    probe = NoProbe =>
    \A c \in DOMAIN sent :
        LET objs == Versions[c][sent[c]]
            Granted(r, b) == \E g \in ToSet(objs.grants) :
                                /\ g.ns = b.ns
                                /\ \E f \in g.from : f.ns = r.ns /\ f.kind = "HTTPRoute"
                                /\ \E t \in g.to : t.kind = b.kind /\ t.name \in {b.name, "*"}
            Target(b) == CASE b.kind = "InferencePool" -> {<<"inferencepool", b.ns, b.name>>}
                           [] b.kind = "Service" -> {<<"service", b.ns, b.name>>, <<"transit", b.ns, b.name>>}
                           [] OTHER -> {}
        IN  \A r \in ToSet(objs.routes) :
               LET id == <<"route", r.ns, r.name>>
               IN  [title |-> Unauthorised, target |-> id] \in snapshots[c].findings
                   <=> \E b \in ToSet(r.backends), e \in ToSet(snapshots[c].edges) :
                          /\ e.from = id /\ e.to \in Target(b)
                          /\ b.ns # r.ns /\ ~Granted(r, b)

(* A cross-cluster link is never a guess: its target is the one entry of   *)
(* another cluster that carries the name the configuration points to and   *)
(* ranks best; when two entries tie there is a finding and no link         *)
(* (discoverLinks; docs/adr/0007 lines 19-20).                             *)
LinksNeverGuess ==
    probe = NoProbe =>
    LET top == federated(snapshots)
        Candidates(x) == {y \in DOMAIN top.nodes : /\ ClusterOf(y) # ClusterOf(x)
                                               /\ \E k \in outboundKeys(top.nodes[x]) : k \in entryKeys(top.nodes[y])}
        Rivals(x, y) == {z \in Candidates(x) \ {y} : EntryRank(top.nodes[z]) <= EntryRank(top.nodes[y])}
    IN  \A x \in DOMAIN top.nodes :
           /\ \A y \in Candidates(x) : Rivals(x, y) = {} <=> \E l \in top.links : l.from = x /\ l.to = y
           /\ [title |-> AmbiguousLink, target |-> x] \in top.findings
              <=> Candidates(x) # {} /\ \A y \in Candidates(x) : Rivals(x, y) # {}

(* A gateway without a record is a low-confidence candidate only next to   *)
(* an observed one: a link leads to it from a gateway with records, never  *)
(* from one that is itself missing (declaredGatewayAssociationRule;        *)
(* docs/10 line 143).                                                      *)
NoGuessBeyondAGap ==
    \A i \in DOMAIN Segments :
        Segments[i].inference = "low" =>
        \E j \in DOMAIN Segments, l \in probe.top.links :
            /\ Segments[j].hops # <<>>
            /\ Segments[j].gateway = owningGateway(probe.top, l.from)
            /\ Segments[i].gateway = owningGateway(probe.top, l.to)

(* A high-confidence candidate has an observed record that was sent to an  *)
(* address of it and of no other observed gateway: an address two gateways *)
(* share singles out neither (inferProbeGatewayCandidatesWithRules).       *)
ConfidenceIsEarned ==
    \A i \in DOMAIN Segments :
        Segments[i].inference = "high" =>
        \E j \in DOMAIN Segments : \E n \in DOMAIN Segments[j].hops :
            {g \in TargetIDs : gatewayTargetMatchesAddress(probe.top, g, Segments[j].hops[n].host)} = {Segments[i].gateway}

(* Attempts are linked only within one pass of the request, in the order   *)
(* they were made, and a pass has at most one terminal record              *)
(* (attemptGroups).                                                        *)
LinksStayInContext ==
    LET Pass(id) == passage[Last(id)].pass
    IN  \A i \in DOMAIN Segments :
           /\ \A l \in Segments[i].links : /\ Pass(l[1]) = Pass(l[2]) /\ Last(l[1]) < Last(l[2])
                                           /\ passage[Last(l[1])].redirect
           /\ \A t, u \in Segments[i].terminals : t # u => Pass(t) # Pass(u)

(* The final response is a record of the probe's own request, whatever     *)
(* else carries its trace, and the record of the answer the client got     *)
(* when all lines of the source gateway were found; the final upstream is  *)
(* set only for a request that passed no other gateway, when all lines     *)
(* were found (EnrichProbe).                                               *)
FinalIsTrue ==
    probe.phase = "done" =>
    LET e == probe.execution
        all == Indices({probe.source}) \subseteq probe.found
        own == {i \in DOMAIN passage : passage[i].probeID = Probe}
    IN  /\ e.finalResponse # <<>> => /\ ~passage[Last(e.finalResponse)].redirect /\ Last(e.finalResponse) \in own
                                     /\ all => Last(e.finalResponse) = Len(passage)
        /\ e.finalUpstream # <<>> => /\ e.finalUpstream = e.finalResponse
                                     /\ own \subseteq probe.found => \A i \in own : passage[i].gateway = probe.source

(* Analysing an analysed execution again changes nothing (EnrichProbe:     *)
(* "Analysis may be repeated").                                            *)
ReanalysisIsStable == probe.phase = "done" => EnrichProbe(probe.execution) = probe.execution

(* The source comes first, then the observed gateways by the text of their *)
(* first record, then the candidates, each gateway once: as far as the     *)
(* clocks of two gateways agree with the request's passes, the path reads  *)
(* in the order the request took (completeFederatedProbe; docs/10 line     *)
(* 142).  Where they do not, it may not.                                   *)
PathReadsInOrder ==
    LET Own(s) == {i \in Indices({s.gateway}) : Correlation(passage[i], Probe) # ""}
        First(s) == Min({passage[i].pass : i \in Own(s)})
        Whole(s) == s.hops # <<>> /\ Indices({s.gateway}) \subseteq probe.found
        Agree(s, t) == \A i \in Own(s), j \in Own(t) :
                          /\ passage[i].start # 0 /\ passage[j].start # 0
                          /\ passage[j].pass < passage[i].pass => passage[j].start < passage[i].start
    IN  \A i, j \in DOMAIN Segments : i < j =>
           /\ Segments[i].gateway # Segments[j].gateway
           /\ i > 1 /\ Segments[j].hops # <<>> => Segments[i].hops # <<>> /\ Segments[i].hops[1].at <= Segments[j].hops[1].at
           /\ Whole(Segments[i]) /\ Whole(Segments[j]) /\ (i = 1 \/ Agree(Segments[i], Segments[j])) =>
                 First(Segments[i]) < First(Segments[j])
=============================================================================
