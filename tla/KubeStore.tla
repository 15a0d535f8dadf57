----------------------------- MODULE KubeStore -----------------------------
(***************************************************************************)
(* The Agent's view of its cluster: Store in internal/kube/store.go with   *)
(* the Envoy configuration cache of internal/kube/envoy_runtime.go.        *)
(*                                                                         *)
(* One informer per kind of resource keeps a local store and calls the     *)
(* event handler from a goroutine of its own.  Once Run has closed ready,  *)
(* the handler runs rebuild, which lists the stores one after the other    *)
(* and takes the mutex only to publish the finished snapshot: rebuilds of  *)
(* several informers overlap.                                              *)
(*                                                                         *)
(* The contents of a kind are its version, a number that a change of the   *)
(* cluster raises; version 0 is an empty store.  What rebuild makes of the *)
(* contents is the subject of ClusterTopology.  A store that rebuild lists *)
(* more than once counts as listed once, and the events of an initial list *)
(* as one event.  Whether an entry of the cache has expired is left open.  *)
(*                                                                         *)
(* The label of a snapshot, its ID and its ObservedAt, is a time.  A time  *)
(* stands for what the stores held then: contents are as new as their      *)
(* label says when they hold no less.                                      *)
(***************************************************************************)
EXTENDS Integers, Sequences, FiniteSets, SequencesExt

CONSTANTS
    ListOrder,      \* the kinds of resources, in the order rebuild lists them
    CoreKinds,      \* the kinds whose stores Run waits for
    OptionalKinds,  \* the kinds the API server may not serve
    PodKind,        \* the kind whose store holds the Pods
    PodsAt,         \* PodsAt[v]: the gateway's Pods, in order, in version v of PodKind
    Main,           \* the goroutine of Run
    Readers,        \* the goroutines that call EnvoyConfig
    None,
    MaxChanges,     \* bound: changes of the cluster
    MaxFaults       \* bound: deaths of the Agent's process, and uploads it gives up

Kinds == Range(ListOrder)
Place(k) == CHOOSE i \in DOMAIN ListOrder : ListOrder[i] = k
Versions == 0..MaxChanges + 1
Pods == UNION {Range(PodsAt[v]) : v \in Versions}

ASSUME KindsAssumption ==
    /\ ListOrder \in Seq(Kinds) /\ IsInjective(ListOrder)
    /\ CoreKinds \subseteq Kinds /\ OptionalKinds \subseteq Kinds \ CoreKinds
    /\ PodKind \in Kinds /\ Main \notin Kinds
    /\ MaxChanges \in Nat /\ MaxFaults \in Nat
    /\ PodsAt \in [Versions -> Seq(Pods)] /\ PodsAt[0] = <<>>

\* What the stores hold, in the order of the listing.
Contents == [DOMAIN ListOrder -> Versions]

\* Contents that hold everything other contents hold, or something newer.
AsNewAs(these, those) == \A i \in DOMAIN ListOrder : these[i] >= those[i]

\* A rebuild under way: the time it reads for its label, and what it has listed so far.
Builds == [asOf : Contents, seen : Seq(Versions)]

\* A rebuild that is under way is told from None.
ASSUME NoneAssumption == None \notin Builds

VARIABLES
    cluster,    \* cluster[k]: the version of kind k in the API server
    changes,    \* changes of the cluster so far
    running,    \* the Agent's process is up
    available,  \* the optional kinds that Run's discovery found
    store,      \* store[k]: the version in the informer's store
    notices,    \* notices[k]: events the handler of k has not taken yet
    ready,      \* the channel ready is closed
    builds,     \* builds[b]: the rebuild of goroutine b, or None
    snapshot,   \* the published snapshot: its label and its contents
    newest,     \* history: newest[k] is the newest version of k ever published
    cache,      \* the entry of envoyCache for the gateway, or None
    calls,      \* calls[r]: an EnvoyConfig call that is fetching, or None
    faults      \* faults so far

worldVars == <<cluster, changes>>
storeVars == <<available, store, notices, ready, builds, snapshot, newest>>
envoyVars == <<cache, calls>>
kubeVars == <<worldVars, running, storeVars, envoyVars, faults>>

\* A snapshot: whether it has a label, its contents, and (history) whether they are as
\* new as the label says.  Before the first rebuild there is one without a label.
Empty == [labelled |-> FALSE, seen |-> [i \in DOMAIN ListOrder |-> 0], asNew |-> TRUE]
Snapshots == [labelled : BOOLEAN, seen : Contents, asNew : BOOLEAN]
Configs == [pod : Pods, label : Versions]

KubeTypeOK ==
    /\ cluster \in [Kinds -> Versions] /\ changes \in 0..MaxChanges
    /\ running \in BOOLEAN /\ ready \in BOOLEAN
    /\ available \subseteq OptionalKinds
    /\ store \in [Kinds -> Versions]
    /\ notices \in [Kinds -> Nat]
    /\ \A b \in Kinds \cup {Main} :
         builds[b] # None => builds[b] \in Builds /\ Len(builds[b].seen) <= Len(ListOrder)
    /\ snapshot \in Snapshots
    /\ newest \in [Kinds -> Versions]
    /\ cache \in Configs \cup {None}
    /\ \A r \in Readers :
         calls[r] # None => calls[r].label \in Versions /\ calls[r].pods \in Seq(Pods)
    /\ faults \in 0..MaxFaults

NoVersions == [k \in Kinds |-> 0]
NoBuilds == [b \in Kinds \cup {Main} |-> None]
NoCalls == [r \in Readers |-> None]

KubeInit ==
    /\ cluster = [k \in Kinds |-> 1] /\ changes = 0
    /\ running = FALSE /\ available = {} /\ ready = FALSE
    /\ store = NoVersions /\ notices = NoVersions /\ newest = NoVersions
    /\ builds = NoBuilds
    /\ snapshot = Empty
    /\ cache = None /\ calls = NoCalls
    /\ faults = 0

-----------------------------------------------------------------------------
(* The API server and the process                                          *)

\* Somebody changes a resource of kind k.
Change(k) ==
    /\ changes < MaxChanges
    /\ changes' = changes + 1
    /\ cluster' = [cluster EXCEPT ![k] = @ + 1]
    /\ UNCHANGED <<running, storeVars, envoyVars, faults>>

\* Run asks once which optional kinds the API server has; a kind whose discovery
\* fails gets an empty store for the life of the process.
Start ==
    /\ ~running
    /\ running' = TRUE
    /\ \E found \in SUBSET OptionalKinds : available' = found
    /\ UNCHANGED <<worldVars, store, notices, ready, builds, snapshot, newest, envoyVars, faults>>

\* The process dies; its stores, snapshot and cache are gone.
Crash ==
    /\ running
    /\ faults < MaxFaults
    /\ faults' = faults + 1
    /\ running' = FALSE /\ available' = {} /\ ready' = FALSE
    /\ store' = NoVersions /\ notices' = NoVersions /\ newest' = NoVersions
    /\ builds' = NoBuilds
    /\ snapshot' = Empty
    /\ cache' = None /\ calls' = NoCalls
    /\ UNCHANGED worldVars

-----------------------------------------------------------------------------
(* Informers and rebuilds                                                  *)

\* The informer of k lists its kind, or applies the next watch event, and queues
\* an event for its handler.
ListAndWatch(k) ==
    /\ running
    /\ k \in OptionalKinds => k \in available
    /\ store[k] < cluster[k]
    /\ store' = [store EXCEPT ![k] = IF @ = 0 THEN cluster[k] ELSE @ + 1]
    /\ notices' = [notices EXCEPT ![k] = @ + 1]
    /\ UNCHANGED <<worldVars, running, available, ready, builds, snapshot, newest, envoyVars, faults>>

\* What the stores hold now.
Held == [i \in DOMAIN ListOrder |-> store[ListOrder[i]]]

\* A rebuild begins with reading the clock; it has listed nothing yet.
Begin == [asOf |-> Held, seen |-> <<>>]

\* Mutant: Run refreshes before it closes ready.
RefreshThenReady ==
    /\ running /\ ~ready
    /\ \A k \in CoreKinds : store[k] > 0
    /\ IF builds[Main] = None
         THEN builds' = [builds EXCEPT ![Main] = Begin] /\ UNCHANGED ready
         ELSE ready' = TRUE /\ UNCHANGED builds
    /\ UNCHANGED <<worldVars, running, available, store, notices, snapshot, newest, envoyVars, faults>>

\* WaitForCacheSync returns: Run closes ready and then refreshes once itself.
Synced ==
    /\ running /\ ~ready
    /\ \A k \in CoreKinds : store[k] > 0
    /\ ready' = TRUE
    /\ builds' = [builds EXCEPT ![Main] = Begin]
    /\ UNCHANGED <<worldVars, running, available, store, notices, snapshot, newest, envoyVars, faults>>

\* Mutant: the handler refreshes without an event.
RefreshUnasked(k) ==
    /\ builds[k] = None
    /\ notices' = [notices EXCEPT ![k] = @ - 1]
    /\ builds' = IF ready THEN [builds EXCEPT ![k] = Begin] ELSE builds
    /\ UNCHANGED <<worldVars, running, available, store, ready, snapshot, newest, envoyVars, faults>>

\* The handler of k takes an event: it begins a rebuild, or drops the event while
\* ready is open.
Refresh(k) ==
    /\ notices[k] > 0
    /\ builds[k] = None
    /\ notices' = [notices EXCEPT ![k] = @ - 1]
    /\ builds' = IF ready THEN [builds EXCEPT ![k] = Begin] ELSE builds
    /\ UNCHANGED <<worldVars, running, available, store, ready, snapshot, newest, envoyVars, faults>>

\* The rebuild of goroutine b lists the next store.
RebuildLists(b) ==
    /\ builds[b] # None
    /\ Len(builds[b].seen) < Len(ListOrder)
    /\ builds' = [builds EXCEPT ![b] =
                    [asOf |-> @.asOf, seen |-> Append(@.seen, store[ListOrder[Len(@.seen) + 1]])]]
    /\ UNCHANGED <<worldVars, running, available, store, notices, ready, snapshot, newest, envoyVars, faults>>

\* Mutant: the snapshot is labelled with the time at which it is published.
Relabelled(build) == [labelled |-> TRUE, seen |-> build.seen, asNew |-> AsNewAs(build.seen, Held)]

\* The snapshot that a finished rebuild publishes.
Snapshot(build) ==
    [labelled |-> TRUE, seen |-> build.seen, asNew |-> AsNewAs(build.seen, build.asOf)]

\* The rebuild of goroutine b replaces the snapshot, whatever was published since it began.
RebuildPublishes(b) ==
    /\ builds[b] # None
    /\ Len(builds[b].seen) = Len(ListOrder)
    /\ snapshot' = Snapshot(builds[b])
    /\ newest' = [k \in Kinds |->
                    LET seen == builds[b].seen[Place(k)]
                    IN  IF seen > newest[k] THEN seen ELSE newest[k]]
    /\ builds' = [builds EXCEPT ![b] = None]
    /\ UNCHANGED <<worldVars, running, available, store, notices, ready, envoyVars, faults>>

-----------------------------------------------------------------------------
(* EnvoyConfig and its cache                                               *)

\* The version of the Pods in the published snapshot, its label for the cache.
PodVersion == snapshot.seen[Place(PodKind)]

\* An entry answers, until it expires, while its Pod is in the published runtime.
CacheHit == cache # None /\ cache.pod \in Range(PodsAt[PodVersion])

\* A call reads snapshot and cache under the read lock and returns the cached
\* configuration.
AnswerFromCache(r) ==
    /\ running
    /\ calls[r] = None
    /\ CacheHit
    /\ UNCHANGED kubeVars

\* There is no entry that answers, or its 30 seconds are over: the call begins to
\* fetch from the runtime's Pods, without the lock.  It fails without a Ready Pod.
BeginFetch(r) ==
    /\ running
    /\ calls[r] = None
    /\ PodsAt[PodVersion] # <<>>
    /\ calls' = [calls EXCEPT ![r] = [label |-> PodVersion, pods |-> PodsAt[PodVersion]]]
    /\ UNCHANGED <<worldVars, running, storeVars, cache, faults>>

\* Mutant: the entry is labelled with the snapshot that is published by now.
StoresUnderNewSnapshot(r) ==
    /\ calls[r] # None
    /\ cache' = [pod |-> Head(calls[r].pods), label |-> PodVersion]
    /\ calls' = [calls EXCEPT ![r] = None]
    /\ UNCHANGED <<worldVars, running, storeVars, faults>>

\* The next Pod answers: the call stores what it read and returns it, whatever
\* another call stored meanwhile.
FetchSucceeds(r) ==
    /\ calls[r] # None
    /\ cache' = [pod |-> Head(calls[r].pods), label |-> calls[r].label]
    /\ calls' = [calls EXCEPT ![r] = None]
    /\ UNCHANGED <<worldVars, running, storeVars, faults>>

\* The next Pod does not answer: the call goes on, or returns the last error.
FetchFails(r) ==
    /\ calls[r] # None
    /\ calls' = [calls EXCEPT ![r] =
                   IF Len(@.pods) = 1 THEN None ELSE [label |-> @.label, pods |-> Tail(@.pods)]]
    /\ UNCHANGED <<worldVars, running, storeVars, cache, faults>>

=============================================================================
