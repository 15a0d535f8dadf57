# GateLens: a TLA+ model

GateLens shows how requests travel through the API gateways of several
Kubernetes clusters. A central **Server** holds what the clusters report; one
**Agent** per cluster reads its cluster, uploads snapshots and executes commands
the Server queues for it. The Server cannot connect to an Agent: commands travel
by long polling (`docs/adr/0008`). A browser that asks for an Envoy
configuration, or creates an active probe, makes an HTTP call that lasts until
the Agent's result is in, or a timer runs out.

## Inventory

| Component (source) | State | Operations | Talks to | What is hard |
|---|---|---|---|---|
| Command broker (`federation/store.go`) | `snapshots`, `commandQueues`, `pendingCommands`, `probes` | `EnvoyConfig`, `CreateProbe`, `executeProbeCommand`, `NextAgentCommand`, `CompleteAgentCommand`, `ReceiveSnapshot`, `GetProbe` | browser and Agent over HTTP | goroutines that meet in channels outside the lock; calls that end while their command is on its way; retried uploads; restarts |
| Command runner (`agent/agent.go`) | poll loop, observer slots, command in execution | `Run`, `SendOnce`, `runCommands`, `executeAndSendCommand` | Server | serial and concurrent execution, a bounded pool, retries, death |
| HTTP API (`api/handler.go`) | none of its own | Agent and browser endpoints | broker | requests whose client has gone |
| Probe log collection (`kube/probe_logs.go`, `kube/probe.go`) | cache of occurrences per source, issues, settle timer | `merge`, `canSettle`, `collectProbeWindow`, readers | Pod logs or a mounted file | logs that grow, rotate and truncate under the reader; late reads |
| Probe attempts (`observed/probe_attempts.go`) | none | `EnrichProbe` | result of a probe | when a connection may be called confirmed |
| Snapshot pipeline (`kube/store.go`, `kube/informers.go`, `SendOnce`, `ReceiveSnapshot`) | the published snapshot on the Agent, the received one on the Server | `rebuild`, readers, upload | informers, Server | concurrent rebuilds, reads under separate locks, delayed uploads |
| Snapshot contents (`kube/higress.go`, `kube/inference.go`, `kube/store.go`) | none | translation of Kubernetes objects | rebuild | many cases |
| Gateway runtime, Envoy cache (`kube/envoy_runtime.go`) | `envoyCache` | `EnvoyConfig`, runtime resolution | Kubernetes | a cache checked before and filled after a slow fetch |
| Links, targets, inference, assembly (`federation/`) | none | pure functions of the snapshots | broker | ambiguity rules, ordering |
| Parsers (`observed/higress_log.go`, `envoy/configdump.go`) | none | text to records | | string handling |
| Demo store, wiring, frontend | | | | |

What makes them correct:

* broker and runner: a command is executed at most once and only by its own
  cluster; one whose call has returned is not handed out; every call ends; the
  pending table holds the calls under way and no other; a stored probe tells the
  truth and its end is final;
* log collection: a re-read does not count twice, equal records are not merged,
  "settled" means complete, unchanged and in time, and the collection is bounded;
* attempts, links, inference: no relation is reported without its evidence;
* snapshots: no change of the cluster is missed, the Agent serves what its stores
  hold, every part of an upload holds at least what the stores held at the time of
  its own label, the Server ends up with what the Agent serves, and the kinds that
  `Run` waits for never go missing;
* snapshot contents: they are a function of the objects, not of the order in which
  a store lists them (but for two named choices), and a reference that no grant
  admits is reported.

`PROJECT.json` lists every component with its status, and every hazard with its
line and the properties that look at it.

## Modules

| Module | Models |
|---|---|
| `AgentCommands` | the commands: kind, cluster, probe, body size, possible results; the constants and their assumptions |
| `FederationBroker` | the Server side: calls, polls and uploads as goroutines |
| `AgentRunner` | the Agents: poll loop, tasks, observer slots, uploads |
| `CommandSystem` | both together, the HTTP exchanges between them, faults, fairness; all properties |
| `CommandRPC` | abstract: a remote call that runs at most once |
| `CommandSystemProofs` | theorems: a command is in one place and runs at most once |
| `CommandCallProofs` | theorems: answers, observations and stored probes agree with the commands; the refinement of `CommandRPC` |
| `MCCommandSystem` | instances for TLC |
| `Selection` | selecting, sorting and joining sequences by places, for the modules below |
| `ProbeLogWindow`, `MCProbeLogWindow` | one bounded collection of a probe's log records |
| `SelectionProofs`, `ProbeLogProofs` | lemmas about `Selection`; theorems about a collection |
| `KubeStore` | the Agent's informers, rebuilds and Envoy configuration cache |
| `SnapshotPipeline` | `KubeStore`, `SendOnce`, the network and `ReceiveSnapshot`; properties and fairness |
| `SnapshotPipelineProofs` | its theorems |
| `MCSnapshotPipeline` | its instances for TLC |
| `ClusterTopology` | what `rebuild` makes of a cluster's objects |
| `FederatedTopology` | the Server's federated topology, link discovery, probe targets |
| `ProbeAttempts` | `EnrichProbe`: attempts, links, terminals, final response |
| `ProbeAssociation` | candidates for gateways without records, assembly of the execution |
| `FederatedPath`, `MCFederatedPath` | the four modules above as one system, from objects to a probe's path |
| `TopologyProofs` | lemmas: what a rebuild makes of any objects, order of IDs, links, the walk for targets |
| `AnalysisProofs` | lemmas: `EnrichProbe`, attempts, evidence |
| `FederatedPathProofs` | theorems about a probe's path |

### Command channel

A command is one element of `Commands`, as `newCommandID` draws a fresh id for
each call. The goroutine that issued it is `call[c]`: `idle`, (`spawned` for an
observation), `registered` (entry in `pendingCommands`), `waiting` (on the
queue), `observing` (a probe waits for its observations), `returning` (only the
deferred delete is left), `closed`; `lost` when the Server died under it. The
result channel of a call is `chan[c]`. A `NextAgentCommand` goroutine is
`poll[h]`; its `live` flag says whether an Agent still waits for its answer, so a
goroutine can pop a command for nobody. The a-th upload of a result is
`upload[c][a]`; the Agent may give it up at any moment (`LoseResult`) while the
Server goes on with it.

One action is one section under `Store.mutex` or one channel operation, with the
local code around it. The look into `pendingCommands` and the send after it are
two actions, in polls (`PollTake`, `PollCheck`) and in uploads (`CompleteLookup`,
`CompleteSend`), since the code holds no lock across them. The three calls share
their shape, and so the actions from `Register` on; what `CreateProbe` does in
addition (the stored execution, the observations) is in `FailProbe`,
`ProbeAfter`, `Observes` and `FinishProbe`.

Data that is left out: identifiers, gateways of a snapshot (a cluster with a
snapshot has the gateway a command names; the code's other refusals change no
state), the payloads of results (a result is `valid`, `httpError`, `error` or
`malformed`), the text of errors.

Time is an order: `expired` holds the commands whose deadline has passed. A wait
timer starts after the deadline was computed and is longer than the queue wait
(85s, 70s and 21s against 45s, 30s and 12s), so a call times out only after its
command has expired; nothing else is assumed of durations.

### Probe log collection

`log[s]` is every line source `s` wrote, `start[s]` how many are gone, so that a
Pod's log loses its head and a file is truncated in place or replaced (`inode`).
A line is one unit of size; what the parser says of it is its value: a record of
this probe (with a request context, redirect or not) or `Other`. `Merge` is
`merge`: the generation of a replaced file, the identity of an occurrence (for a
Pod the how manieth equal line, for a file generation and offset), the check that
the last snapshot is a prefix, the issues. `Top`, `Check` and `Wait` are the loop
of `collectProbeWindow`; a `Tick` between `Top` and `Check` is a slow read.
`lastRead` and `lastChange` only record history for the properties. Stat and
read of the file are one instant. What a loop keeps of a slice is `At(seq, places)`
and its how manieth element `Nth(places, n)` (`Selection`): the same sequences that
a filter yields, described by the places that stay, so that they can be reasoned
about without induction over the sequence.

### Snapshot pipeline

The contents of a kind of resource are a version number that `Change` raises;
`store[k]` is what the informer of `k` holds, `notices[k]` the events its handler
has not taken. A rebuild is `builds[b]`, the versions goroutine `b` has listed so
far: `RebuildLists` lists one more store, `RebuildPublishes` is the short section
under the mutex (`store.go:332`). `b` is the goroutine of an informer, or `Main` for
the refresh at the end of `Run`; an event that comes before `ready` is closed is
dropped. A snapshot's label, its ID and `ObservedAt`, is a time that `rebuild` reads
before it lists anything (`store.go:206`). A time stands for what the stores held
then (`Held`), and `builds[b].asOf` is that of the rebuild; the published snapshot
carries its contents (`seen`), whether it has a label, and, for the properties, whether
its contents are as new as the label says (`asNew`). Of two rebuilds the later
labelled may publish first, so labels are in no order. `newest` only records history.
`available` is the one discovery of optional kinds at the start:
a kind whose discovery fails stays empty for the life of the process.

An `EnvoyConfig` call reads snapshot and cache under the lock (`AnswerFromCache`,
`BeginFetch`), asks the Pods one after the other without it and stores what it got
with the Pods' version of the snapshot it started from. Whether an entry has
expired after its 30 seconds is left open, so both happen.

`SendOnce` reads context, topology, findings and resources under four read locks;
`parts` holds the snapshots they were read from. Nothing relates the parts to each
other: a context with a later time may go with the topology of an earlier labelled
snapshot that was published after it. A context or topology without a snapshot ID
stops `SendOnce`, but a snapshot with an ID is not a full one: `Run` waits for
Services, EndpointSlices and Namespaces only (`store.go:106`), and gateways, routes
and Pods may be missing from the first uploads of a new process. `posted` is the upload it waits for; an upload it
gave up, or whose Agent died, is in `late` and may be lost or arrive at any time,
since `ReceiveSnapshot` stores whatever comes last.

### From the objects to the path of a probe

`ClusterTopology!rebuild` is one function from the lists the stores return to
nodes, edges, findings and probe entries, composed of the code's parts in the
code's order: gateways, listeners and their runtimes, routes with backends and
grants, Higress Ingresses and McpBridges, InferencePools, standalone gateways.
What each part adds is merged (`MergeAll`): edges in order, findings together, and
of the nodes of one ID the first.
A host name or address is the sequence of its labels, labels and selectors are
sets, an ID is a sequence of words that sorts like the code's string. A list is a
sequence, because some results depend on its order and a store lists a Go map.

`FederatedTopology!federated` puts the snapshots under global IDs and runs the link
rules; `discoverProbeGatewayTargets` is the choice of the gateways a probe observes,
with both walks and their limits. The declared walk is a state machine of its own:
`Begin`, `Advance` (one edge, or the next node of the queue) and `Walk`, the states
it goes through; each edge is followed at most once, so it has come to rest after
`Steps` of them. Slices that the code sorts or appends are `Ranked` and `Joined`
(`Selection`). `ProbeAttempts!EnrichProbe` and
`ProbeAssociation!completeFederatedProbe` are the analysis of records, the four
association rules and the assembly.

`FederatedPath` runs them: objects change, Agents upload in any order and with any
listing, a request passes gateways that each write lines (`passage`, the truth),
the source Agent answers with any part of its lines and one of the flaws of a
collection, every target is observed or fails, and the execution is assembled. The
properties compare what is claimed with the objects and with the true passage.
While a probe runs, nothing else changes, as it works on the topology it began
with. The waiting and the failures of the commands in between are
`CommandSystem`'s subject.

A line of a log carries its `start`, the text the gateway logs, as a rank among such
texts: the code compares `ObservedAt` as a string, the texts come from the clocks of
several clusters in several formats, and a log without `start_time` gives the time
of the read instead (`higress_log.go:167`). So the ranks need not follow the passes
of the request, which `pass` numbers; only the properties look at `pass`. (A logged
`-`, which is a time text but no start, is left out.)

Facts of the code that the model keeps and that surprise: the status of a Service
is the one its first referrer gave it (`appendUnique`), so `RelistingIsHarmless`
leaves it out; the candidate Pods of a Gateway come from all namespaces and are sorted
by name alone (`envoy_runtime.go:81-101`), so that of two namesakes the listing decides
the gateway's namespace, workload and entries; the kind of a standalone gateway is
that of its first listed Pod (`ListingDecides` names both, and `RelistingIsHarmless`
excepts them and nothing else); a node that two gateways lead to belongs to the one
whose edge is stored first (`owningGateway`); segments are in the order of their
texts, which is the request's order only where the clocks agree; optional kinds are
discovered once, at the start.

## Runs

| Run | Instance | Shows |
|---|---|---|
| `envoy_faults` | 2 Envoy reads, 1 cluster, queue of 1, 2 poll goroutines, 1 Agent death, 1 Server restart | `TypeOK`, `AtMostOnce`, `PendingIsActive`, `ReturnedNeverRuns` |
| `probe_refinement` | probe and observation in 2 clusters, 2 poll goroutines, 1 death, 1 restart | `OnePlace`, `CallsAgree`, `ImplementsRPC` |
| `probe_retries` | the same pair, all kinds of result, 2 upload attempts | `ProbeStateTrue`, `ObservationFollowsSource`, `ProbeEndIsFinal` |
| `observer_slots` | a probe with 2 observations in its own cluster, 1 slot, queue of 1 | `EveryCallReturns`, `LoopComesBack` |
| `oversized_probe` | 2 probes, one that the Agent cannot decode, 1 death, 1 restart | `EveryCallReturns` |
| `body_limit` | the same probes without faults | `ReceivedIsBegun` is violated, see below |
| `pod_logs` | 1 Pod, 4 lines, 2 rotations, read limit 3 | `TypeOK`, `NoDoubleCount`, `AllReadIsKept`, `SettledIsComplete` |
| `two_pods` | 2 Pods, 2 lines each, 1 rotation | `SettledInTime` |
| `file_log` | 1 file, 3 lines, 2 rotations or truncations, read limit 2, offset 0 or the end | `NoDoubleCount`, `AllReadIsKept`, `WindowEnds` |
| `snapshots` | 1 kind of resource (Pods) that `Run` does not wait for, 1 change, 1 fault (death or abandoned upload), 1 caller of `EnvoyConfig` | `TypeOK`, `NoMissedChange`, `LabelsAreCovered`, `ConfigMatchesItsSnapshot`, `ServerFollowsAgent` |
| `rebuild_race` | Services, which `Run` waits for, and optional Pods; 1 change, no faults | `FollowsCluster` is violated, see below |
| `federated_path` | 3 clusters (Higress, Istio, standalone Envoy) with 2 sets of objects each, 2 listings, 8 passages, 4 flaws, 2 kinds of failure, 2 changes, 1 failed observation | `UnauthorisedIsReported`, `LinksNeverGuess`, `NoGuessBeyondAGap`, `ConfidenceIsEarned`, `LinksStayInContext`, `FinalIsTrue`, `ReanalysisIsStable`, `PathReadsInOrder`, `RelistingIsHarmless`, `TypeOK` |

Why the bounds are enough. A queue of one place is full as soon as one command is
on it, one observer slot is exhausted by one observation, two poll goroutines are
enough for one whose Agent has gone and one that is served, two commands for one
that overtakes or blocks another; two upload attempts give an acknowledged, a
repeated and a given-up upload. One death and one restart fall between any two
steps of a behaviour; what a second one could do is covered by the proofs, which
have no bounds. For the log: two equal records, a redirect and a terminal record,
a rotation before and after a read, a log above and below the read limit, and a
window of several reads all occur. For the snapshots: the rebuild of `Main` and
the one of an informer overlap, a snapshot is published between any two of the
four reads, a Pod leaves while a configuration is fetched from it, an upload is
overtaken by a later one; further kinds, changes and faults are covered by the
proofs. For the path: the two sets of objects of each cluster move a grant, an
endpoint, a second gateway of the same class, a second claim on a host and a shared
address, so that links are found, refused as ambiguous and appear again, and bring a
gateway with two Pods of one name in two namespaces; the passages have a redirect, a
retry on the same gateway, a return to the first gateway, three gateways in a row, a
gateway whose clock is behind, logs without start times that are read in another
order than they were written, a line of another probe, and one of another request
that has only our trace.

Symmetry (poll goroutines, the two Envoy reads) is used only where no liveness is
checked. The collection really ends, so its runs allow deadlock; the command
system never stops (a snapshot may always be sent again), and deadlock is
checked.

**Fairness.** `FairSpec` of `CommandSystem`: the Server's goroutines and timers
proceed (weak fairness per call: they are scheduled, and Go timers fire); a task
of an Agent proceeds (its execution has a timeout, its HTTP client has one of
15s, and it gives up after its attempts); a loop takes a free slot. Nothing is
assumed of the network, of polls being made or answered, or of results
arriving. `FairSpec` of `ProbeLogWindow`: the clock runs and the goroutine is
scheduled; reads return because they run under the window's context.

`FairSpec` of `SnapshotPipeline`: the process is started again, a live process's
goroutines run, informers catch up (client-go re-lists and watches for ever),
`SendOnce` is called again, and an upload that is under way arrives or is given up.
Nothing makes the cluster change, the process die or a reader call, and a late
upload may be lost. `FederatedPath` has no liveness: its functions have no waiting.

**Findings.** `docs/10-observed-traffic-path.md` and `docs/05-frontend-design.md`
give 64 KiB as the limit of a probe's body, and `CreateProbe` admits 65536 bytes.
The Agent reads at most 64 KiB of the *whole* command, whose JSON is longer than
its body (`agent.go:190`). Such a command is cut off, refused after it left the
queue, and its call ends by the 70s timer: `body_limit` shows the dropped command,
`oversized_probe` that the call does end.

`docs/adr/0007` (line 34) says that what is shown follows the real configuration of
the gateways by itself, and `docs/05-frontend-design.md` (line 41) that the default
is the latest completed snapshot. `rebuild` lists the stores without a lock and
takes the mutex only to assign the result (`store.go:332`), and every informer calls
it from its own goroutine: one that listed before a change may publish after one
that listed it. `rebuild_race` shows a quiet cluster whose Agent serves the older
contents until some other event arrives. `NoMissedChange`, which is proved, is what
remains: the newer contents were published at some time.

## Proofs

`CommandSystemProofs` proves, for any clusters, commands, sizes, handlers and
numbers of faults that satisfy the named assumptions of `AgentCommands` and
`CommandSystem` (kinds, clusters and sources are functions of the right type;
`None` is no value; limits are positive):

* `TypeCorrect`: `Spec => []TypeOK`;
* `OnePlaceHolds`: `Spec => []OnePlace`;
* `AtMostOnceHolds`: `Spec => []AtMostOnce`;
* `PendingIsActiveHolds`: `Spec => []PendingIsActive`;
* `ReturnedNeverRunsHolds`: `Spec => ReturnedNeverRuns`.

`AtMostOnce` is not inductive: it has to be known that a command which begins has
not begun before. `OnePlace` says where a command can be: not sent, in the queue
of its cluster (once), with one poll goroutine of its cluster, with the loop of
its cluster waiting for a slot, or begun, which excludes each other; and
`executed[c]` is 1 exactly when the command has begun. Each action moves a command
from one place to the next or drops it, and there is one lemma per kind of move:
`EnqueueKeepsPlace`, `TakeKeepsPlace`, `DeliverKeepsPlace`, `DispatchKeepsPlace`,
`BeginKeepsPlace`, `LettingGoKeepsPlace` for everything that only drops. Two parts
are about calls: an observation is idle as long as its probe has no result
(`ObserversWait`), and nothing is on its way for a call that has not sent
(`NotYetSent`); without them a probe that spawns its observations could send
one that is already out. `PendingIsActive` is inductive relative to `OnePlace`,
and gives `ReturnedNeverRuns`: `PollCheck` hands out only what is pending, and
what is pending has a call under way.

`CommandCallProofs` goes on from there, under the same assumptions:

* `CallsAgreeHolds`: `Spec => []CallsAgree`;
* `ObservationFollowsSourceHolds`: `Spec => []ObservationFollowsSource`;
* `ProbeStateTrueHolds`: `Spec => []ProbeStateTrue`;
* `ProbeEndIsFinalHolds`: `Spec => ProbeEndIsFinal`;
* `Refinement`: `Spec => ImplementsRPC`, that is, `CommandRPC`'s specification
  under the mapping of `CommandSystem`.

None of these is inductive, and `OnePlace` knows nothing of answers. `CallsAgree`
says what it misses: a command has a result from the end of its execution on, and
an upload, a result channel and the outcome of a call carry that result and no
other (`ResultFollowsRun`, `UploadCarriesResult`, `ChannelCarriesResult`,
`AnswerIsResult`); an observation is a call inside the call of a probe whose
outcome is usable, and is over before that call is (`ObserversNested`); and the
stored probe follows the call of its probe, running exactly while that call has
work left (`ProbeFollowsCall`). It is inductive relative to `TypeOK` and
`OnePlace`: the channel of a call is filled by an upload of its own command, which
needs the command to have been executed, which needs it to have been sent.
An Agent's death and a Server's restart drop calls and tasks, and leave what is
left in agreement (`RestartAgrees`).

For the refinement a call's phase (`Phase`), the commands handed out (`Handed`),
`executed`, `result` and the answers given (`Answered`) are the abstract state.
`MapsNext` goes through the actions: registering opens a call, the begin of a task
hands the command over and executes it, a received result answers it, timers and
cancellation close it, and everything else (queues, polls, uploads, retries,
deaths, `Stutters`) is a step the abstraction does not see. That a command is
executed at most once in `CommandRPC` is `OnePlace`; that an answer is the
command's own is `CallsAgree`.

`ProbeLogProofs` proves, for any sources (a single one if it is a file), lines and
request contexts, positive read limit, window and interval, any settle time and any
bounds on the log, its rotations and the clock (`LineAssumption`, `SourceCount`,
`LimitAssumption`; `InfoAssumption`: no file is `None`):

* `TypeCorrect`: `Spec => []TypeOK`;
* `AccountedHolds`: `Spec => [](TypeOK /\ Accounted /\ SettledInTime)`;
* `NoDoubleCountHolds`, `AllReadIsKeptHolds`, `SettledIsCompleteHolds`,
  `SettledInTimeHolds`: the properties of those names.

`NoDoubleCount` compares numbers of equal lines, which no step preserves by
itself. The invariant `Accounted`, which the runs check too, says where each key of
the cache comes from. `KeysKept`: the cache and the last snapshot of a source hold
no key twice, the snapshot's keys are in the cache and name the lines that were
read. `OrderKept`: while no issue breaks the order, the cache is the last snapshot.
`PodPlaces`: a Pod's key is the n-th of equal lines and at least n such lines were
written. `FilePlaces`: there is an injection from a file's keys into the lines
written, and a key whose line is not yet gone has that line's offset under the
present generation: so a later read of the file makes the same key of it, and a
read of a replaced file makes new ones. `SettlingTrue` times the settling. A read
is proved in two steps, what the reader returns (`PartIsSnapshot`, `PodIsSnapshot`,
`FileIsSnapshot`, `KeysOfSnapshot`) and what `merge` makes of it (`MergeTakes`,
`ReadKeys`, `ReadPodPlaces`, `ReadFilePlaces`). `CountInjection` turns the injection
into `NoDoubleCount`. The counting of lines and the selection of records would need
induction over a sequence if they were written as filters; as sets of places they
need facts about finite sets only (`SelectionProofs`: `NthOrder`, `AtIsSeq`,
`RankedOrder`, `JoinedElements`).

`SnapshotPipelineProofs` proves, for any list of kinds without repetition, any
readers, any lists of Pods per version and any bounds (`KindsAssumption`; `None` is
no rebuild, `NoneAssumption`):

* `TypeCorrect`: `Spec => []TypeOK`;
* `EveryChangePublished`: `Spec => []NoMissedChange`;
* `UploadsCoverTheirLabels`: `Spec => []LabelsAreCovered`;
* `ServerKeepsTheCore`: `Spec => []CoreNeverForgotten`;
* `CacheLabelTrue`: `Spec => []ConfigMatchesItsSnapshot`.

The inductive invariant has five parts. `StoreInv` is the typing, with what keeps
the versions inside their set (`cluster[k] <= changes + 1`). `ChangeInv` is the
argument that no change escapes: whatever was published or listed is at most what
the store holds, and, once `ready`, a kind whose newest contents are unpublished has
an event waiting or a rebuild that *covers* it, one that has listed the store's
present version or has still to list that store. A new event makes the first true, a
rebuild that begins covers everything (and so stands for the events dropped
before), listing keeps what is covered, and publishing a covered kind makes it
published (`WatchPends`, `BeginCovers`, `ListCovers`, `PublishCovers`). `LabelInv` says
of a rebuild under way that what it has listed is no older than its label, what its
label stands for is no newer than the stores, and the kinds `Run` waits for are
there, as nothing rebuilds before `ready` (`BeginLabels`, `ListLabels`, `WatchLabels`): so
a finished rebuild publishes a snapshot of which `LabelsAreCovered` holds.
`UploadInv` carries that on: the published snapshot, the parts read of it and the
uploads are `Sound`, and an upload is of labelled snapshots only (`Whole`), because
once a third part is read the first two had an ID, and a process that has published
never goes back to the snapshot without one. `EnvoyInv` says that the Pods a fetch has left are Pods of its label.

`FederatedPathProofs` proves about a probe's path, for any clusters, objects,
listings, passages, flaws and failures that satisfy the assumptions below:

* `TypeCorrect`: `Spec => []TypeOK`;
* `ReanalysisIsStableHolds`, `LinksStayInContextHolds`,
  `FinalIsTrueHolds`, `PathReadsInOrderHolds`, `ConfidenceIsEarnedHolds`,
  `NoGuessBeyondAGapHolds`, `LinksNeverGuessHolds`, `UnauthorisedIsReportedHolds`:
  `Spec => []P` for the property `P` of that name.

What is assumed: the words of IDs are listed once each (`AlphabetAssumption`).
`PassageAssumption` says what a request leaves behind: a probe has an ID, the lines
of one pass belong to one gateway and one Pod and share their start, two passes of
one gateway do not share one, passes are numbered as they begin, the last line is the
client's answer, so it belongs to the pass that began first, and it can be told to be
the probe's. Of how the starts and the times of reads are ordered nothing is assumed. `VersionsAssumption`: a cluster has a first
set of objects, and all its sets are what the Kubernetes API admits (`AreObjects`):
lists of every kind, within a kind one object to a namespace and name, and words
of the alphabet in everything an ID is made of. `WordsAssumption`: the words IDs
begin with are in the alphabet.

Three invariants carry the proofs. `Registered`: what the Server holds of a
cluster is a topology without findings about links, and it reports the routes of the
objects it was made of (`Reports`). `Targeted`: a probe's topology
is a federated one (`IsFederated`: own edges stay within a cluster, links join its
nodes), and its targets are each once, not the source, the declared ones behind a
link (`AreTargets`); `TargetsInvariant` is what most theorems need of
it. `Assembled`: passage and source do not change while a probe runs, and what it
shows is the analysis of some part of the passage's lines (`AnsweredFrom`,
`DoneFrom`). The rest is about functions:

* the snapshot (`TopologyProofs`): a merge has exactly the edges and findings of its
  parts (`Merged`, `MergedEach`), every part but a route's says nothing of routes or
  denials (`IsPlain`, one lemma for each kind of object), a reference that resolves
  leads where it says and is reported when it is denied (`BackendRefers`,
  `RoutePartSays`), and a route's ID is no other's, so that nothing is reported of it
  but what its own part says (`BuiltIs`, `SnapshotReports`, `RebuildIs`); the order of
  a listing changes none of this (`ListingIs`);
* the topology (`TopologyProofs`): the order of IDs is strict and total
  (`BeforeOrders`); the declared walk keeps `IsWalk`, that its targets are new
  gateways which links declare, by induction over its steps (`WalkIs`,
  `DiscoveredTargets`); a link goes to a candidate exactly when nothing ranks as
  well (`BestMatch`, `LinksAreBest`), where edges within clusters never take a
  candidate away (`MatchesAreCandidates`), and no other finding has the title of an
  ambiguous link (`AmbiguitiesAreFound`);
* the analysis (`AnalysisProofs`): a second analysis finds the names it has given
  itself and the issues it has derived, and replaces each by itself
  (`AnalysedTwice`); groups are the records of one context in log order
  (`GroupsAre`, `GroupClaims`, `OneContext`), and a context is a pass of the
  request (`RecordInContext`); the strongest evidence decides, the first of equal
  ones, with high confidence only by a host and low confidence only by a declared
  target behind an observed gateway (`AllEvidenceIs`, `InferredEarned`);
* the assembly: a record shown is a line of the passage with the text of its time
  (`HopsOfSegment`); the final record is the terminal of an exact group, whose records
  all carry the probe's own ID (`ExactGroup` in `AnalysisProofs`); the outermost pass begins
  first and ends last, so the last record of the first group is the answer the client
  got (`FinalRecord`); segments are sorted by the texts of their first records, whatever
  those are (`RawOrder`), and where the texts of two gateways agree with the passes, the
  first record is of the first pass and the texts are in the order of the passes
  (`FirstPassIs`, `FirstRecord`, `TextsFollowPasses`, `OthersInOrder`).

`LinksNeverGuess` is checked by TLC while no probe runs, since nothing in it changes
otherwise; the proof shows it of the registered snapshots in every state.
`UnauthorisedIsReported` speaks of references that lead somewhere: one of a kind the
code does not support leads nowhere and has a finding of its own, even when a Service
of the same name is granted to another reference of the route.

Only model-checked: liveness (fairness and `ENABLED` are out of the prover's
reach), that is `EveryCallReturns`, `LoopComesBack`, `WindowEnds` and
`ServerFollowsAgent`; and `RelistingIsHarmless`, which compares two rebuilds of the
same objects and does not follow from what is proved of each. It is restricted as
the code requires: the status of a Service is left out, because the first referrer
decides it, and objects of which `ListingDecides` is true are excepted. Of the search
for an owning gateway, a recursive function over queues, the proofs use only that its
result is determined by the topology and the node.

## Not modelled

* The `config_dump` parser, and of the Higress log parser the JSON decoding and the
  AI-routing and ext_proc observations: string handling without state.
* The consistency label, staleness and clock skew the Server derives from the time
  of an upload, and the snapshot ID's resolution of one second: no durations are
  modelled.
* The transport and evidence texts of links and candidates, summaries and the
  resource list of a snapshot (a copy of its nodes).
* The HTTP request a probe sends, the port-forward of a fetch (its two outcomes are
  there), authorisation and CORS.
* The demo store (constant data), the wiring of the processes, and the frontend,
  which keeps only drafts of forms.
* Retry delays and back-off, which only say how soon a step follows.

## What could be added

A proof of `RelistingIsHarmless` for the objects it is stated for; a proof
that the declared walk rests after `Steps`; a split of Stat and read
in `ProbeLogWindow`; a model with durations for the queue wait, execution and upload
retries of an observation against the wait of its call.
