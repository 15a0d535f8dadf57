----------------------- MODULE SnapshotPipelineProofs -----------------------
(***************************************************************************)
(* Theorems about SnapshotPipeline, for any kinds of resources, readers,   *)
(* Pods and bounds.                                                        *)
(***************************************************************************)
EXTENDS SnapshotPipeline, SequenceTheorems, TLAPS

Builders == Kinds \cup {Main}

\* A goroutine's rebuild, with what it has listed so far.
Listed(l) == l \in Builds /\ Len(l.seen) <= Len(ListOrder)

\* A fetch in progress, and a cached configuration: their Pods are Pods of the
\* snapshot they are labelled with.
Fetching(c) ==
    /\ c \in [label : Versions, pods : Seq(Pods)] /\ Len(c.pods) > 0
    /\ \A i \in 1..Len(c.pods) : c.pods[i] \in Range(PodsAt[c.label])
Cached(c) == c \in Configs /\ c.pod \in Range(PodsAt[c.label])

\* The types of the Agent's state, with the domains and the counters a step relies on.
ClusterInv ==
    /\ cluster \in [Kinds -> Versions] /\ changes \in 0..MaxChanges
    /\ \A k \in Kinds : cluster[k] <= changes + 1
ProcessInv ==
    /\ running \in BOOLEAN /\ ready \in BOOLEAN
    /\ available \subseteq OptionalKinds /\ faults \in 0..MaxFaults
StoresInv == store \in [Kinds -> Versions] /\ notices \in [Kinds -> Nat]
BuildsInv ==
    /\ builds = [b \in Builders |-> builds[b]]
    /\ \A b \in Builders : builds[b] # None => Listed(builds[b])
PublishedInv == snapshot \in Snapshots /\ newest \in [Kinds -> Versions]

StoreInv == ClusterInv /\ ProcessInv /\ StoresInv /\ BuildsInv /\ PublishedInv

\* The cache and the calls that fill it.
EnvoyInv ==
    /\ cache # None => Cached(cache)
    /\ calls = [r \in Readers |-> calls[r]]
    /\ \A r \in Readers : calls[r] # None => Fetching(calls[r])

\* The rebuild of b has listed the version of k that the store holds, or has still
\* to list k.
Covers(b, k) ==
    /\ builds[b] # None
    /\ Len(builds[b].seen) >= Place(k) => builds[b].seen[Place(k)] = store[k]

\* No version that was published or listed is newer than the store's, and a version
\* that was not published yet has an event waiting or a rebuild that covers it.
NewestInv == \A k \in Kinds : newest[k] <= store[k]
ListedInv ==
    \A b \in Builders : builds[b] # None =>
        \A i \in 1..Len(builds[b].seen) : builds[b].seen[i] <= store[ListOrder[i]]
PendingInv ==
    ready => \A k \in Kinds : newest[k] < store[k] =>
        notices[k] > 0 \/ \E b \in Builders : Covers(b, k)
ChangeInv == NewestInv /\ ListedInv /\ PendingInv

\* The kinds Run waits for are listed before any rebuild begins; what a rebuild lists
\* is at least as new as the time it read for its label, and a store is never older.
LabelInv ==
    /\ ready => \A k \in CoreKinds : store[k] > 0
    /\ \A b \in Builders : builds[b] # None =>
         /\ ready
         /\ \A i \in DOMAIN ListOrder : builds[b].asOf[i] <= store[ListOrder[i]]
         /\ \A i \in 1..Len(builds[b].seen) : builds[b].asOf[i] <= builds[b].seen[i]
         /\ \A k \in CoreKinds : builds[b].asOf[Place(k)] > 0

\* A snapshot that is as new as its label, with every kind Run waits for.
Sound(s) == s.labelled /\ s.asNew /\ \A k \in CoreKinds : s.seen[Place(k)] > 0

\* An upload as the Server may store it.
Whole(u) == u \in Uploads /\ \A i \in 1..4 : Sound(u[i])

\* A snapshot with a label is sound; once a part with a label was read, the others
\* have one too, and no third part is read without.
UploadInv ==
    /\ snapshot.labelled => Sound(snapshot)
    /\ parts \in Seq(Snapshots) /\ Len(parts) <= 4
    /\ \A i \in 1..Len(parts) : parts[i].labelled => Sound(parts[i]) /\ snapshot.labelled
    /\ \A i, j \in 1..Len(parts) : i < j /\ parts[i].labelled => parts[j].labelled
    /\ Len(parts) > 2 => parts[1].labelled
    /\ posted # None => Whole(posted)
    /\ \A u \in late : Whole(u)
    /\ received # None => Whole(received)

-----------------------------------------------------------------------------
(* Facts about the constants                                               *)

\* The bounds are numbers.
LEMMA Bounds == MaxChanges \in Nat /\ MaxFaults \in Nat
  BY KindsAssumption
\* The stores are listed in one order.
LEMMA Order == ListOrder \in Seq(Kinds)
  BY KindsAssumption
\* Every version of the Pods is a list.
LEMMA PodLists == PodKind \in Kinds /\ PodsAt \in [Versions -> Seq(Pods)]
  BY KindsAssumption

\* Versions are numbers, the first is 0, and one may follow while changes may.
LEMMA VersionFacts ==
  /\ Versions \subseteq Nat /\ 0 \in Versions /\ 1 \in Versions
  /\ \A v \in Nat : v <= MaxChanges + 1 => v \in Versions
  /\ \A v \in Versions : v <= MaxChanges + 1
  BY Bounds DEF Versions

\* An upload has four parts.
LEMMA FourParts == Len(Parts) = 4 /\ Uploads = [1..4 -> Snapshots]
  BY DEF Parts, Uploads

\* Place finds a kind in the listing order.
LEMMA PlaceOfKind ==
  ASSUME NEW k \in Kinds
  PROVE  Place(k) \in 1..Len(ListOrder) /\ ListOrder[Place(k)] = k
<1>1. DOMAIN ListOrder = 1..Len(ListOrder)
  BY Order
<1>2. \E i \in DOMAIN ListOrder : ListOrder[i] = k
  BY DEF Kinds, Range
<1> QED BY <1>1, <1>2 DEF Place

\* The stores listed are stores of kinds.
LEMMA ListedKind == \A i \in 1..Len(ListOrder) : ListOrder[i] \in Kinds
  BY Order

\* A rebuild is not None.
LEMMA NotNone ==
  ASSUME NEW l, Listed(l)
  PROVE  l # None
  BY NoneAssumption DEF Listed

\* A rebuild that has listed nothing yet.
LEMMA BeginListed ==
  ASSUME StoresInv
  PROVE  Listed(Begin) /\ Begin.seen = <<>> /\ Begin.asOf = Held /\ Held \in Contents
<1>1. \A i \in DOMAIN ListOrder : store[ListOrder[i]] \in Versions
  BY ListedKind, Order DEF StoresInv
<1>2. Held \in Contents
  BY <1>1 DEF Held, Contents
<1>3. <<>> \in Seq(Versions) /\ Len(<<>>) = 0 /\ Len(ListOrder) \in Nat
  BY Order
<1>4. Begin \in Builds
  BY <1>2, <1>3 DEF Begin, Builds
<1> QED BY <1>2, <1>3, <1>4 DEF Begin, Listed

\* A rebuild that lists one more store.
LEMMA ListedMore ==
  ASSUME NEW b \in Builders, StoreInv, RebuildLists(b)
  PROVE  /\ builds'[b].asOf = builds[b].asOf
         /\ builds'[b].seen = Append(builds[b].seen, store[ListOrder[Len(builds[b].seen) + 1]])
         /\ Len(builds[b].seen) + 1 \in 1..Len(ListOrder)
         /\ Listed(builds[b]) /\ Listed(builds'[b])
         /\ \A c \in Builders : c # b => builds'[c] = builds[c]
         /\ builds' = [c \in Builders |-> builds'[c]]
<1> DEFINE n == Len(builds[b].seen) + 1
           v == store[ListOrder[n]]
<1>1. Listed(builds[b]) /\ Len(builds[b].seen) < Len(ListOrder)
  BY DEF RebuildLists, BuildsInv, StoreInv
<1>2. builds[b].asOf \in Contents /\ builds[b].seen \in Seq(Versions)
  BY <1>1 DEF Listed, Builds
<1>3. n \in 1..Len(ListOrder) /\ Len(builds[b].seen) \in Nat
  BY <1>1, <1>2, Order
<1>4. v \in Versions
  BY <1>3, ListedKind DEF StoresInv, StoreInv
<1>5. builds' = [builds EXCEPT ![b] = [asOf |-> builds[b].asOf, seen |-> Append(builds[b].seen, v)]]
  BY DEF RebuildLists
<1>6. builds = [c \in Builders |-> builds[c]]
  BY DEF StoreInv, BuildsInv
<1> HIDE DEF v, n
<1>7. builds'[b] = [asOf |-> builds[b].asOf, seen |-> Append(builds[b].seen, v)]
  BY <1>5, <1>6
<1>8. Append(builds[b].seen, v) \in Seq(Versions) /\ Len(Append(builds[b].seen, v)) = n
  BY <1>2, <1>3, <1>4 DEF n
<1>9. Listed(builds'[b])
  <2>1. builds'[b] \in Builds
    BY <1>2, <1>7, <1>8 DEF Builds
  <2>2. Len(builds'[b].seen) <= Len(ListOrder)
    BY <1>3, <1>7, <1>8, Order
  <2> QED BY <2>1, <2>2 DEF Listed
<1>10. \A c \in Builders : c # b => builds'[c] = builds[c]
  BY <1>5, <1>6
<1>11. builds' = [c \in Builders |-> builds'[c]]
  BY <1>5, <1>6
<1> QED BY <1>1, <1>3, <1>7, <1>9, <1>10, <1>11 DEF v, n

-----------------------------------------------------------------------------
(* Types of the Agent's state                                              *)

\* The state the Agent starts from has its types.
LEMMA StoreInit == Init => StoreInv
<1> SUFFICES ASSUME Init PROVE StoreInv
  OBVIOUS
<1> USE VersionFacts DEF Init, KubeInit
<1>1. ClusterInv
  BY Bounds DEF ClusterInv
<1>2. ProcessInv
  <2>1. faults \in 0..MaxFaults
    BY Bounds
  <2> QED BY <2>1 DEF ProcessInv
<1>3. StoresInv
  BY DEF StoresInv, NoVersions
<1>4. BuildsInv
  BY DEF BuildsInv, NoBuilds, Builders
<1>5. PublishedInv
  BY DEF PublishedInv, Empty, Snapshots, Contents, NoVersions
<1> QED BY <1>1, <1>2, <1>3, <1>4, <1>5 DEF StoreInv

\* Every step keeps them: one step per action, and under it the part it can disturb.
LEMMA StoreStep == StoreInv /\ [Next]_vars => StoreInv'
<1> SUFFICES ASSUME StoreInv, [Next]_vars PROVE StoreInv'
  OBVIOUS
<1> USE DEF StoreInv, worldVars, storeVars, envoyVars, kubeVars, sendVars
<1>a. UNCHANGED worldVars => ClusterInv'
  BY DEF ClusterInv
<1>b. UNCHANGED <<running, ready, available, faults>> => ProcessInv'
  BY DEF ProcessInv
<1>c. UNCHANGED <<store, notices>> => StoresInv'
  BY DEF StoresInv
<1>d. UNCHANGED builds => BuildsInv'
  BY DEF BuildsInv
<1>e. UNCHANGED <<snapshot, newest>> => PublishedInv'
  BY DEF PublishedInv
<1> HIDE DEF StoreInv
<1>1. ASSUME NEW k \in Kinds, Change(k) PROVE StoreInv'
  <2>1. ClusterInv'
    <3>1. cluster[k] \in Nat /\ cluster[k] <= changes + 1 /\ changes \in Nat /\ changes < MaxChanges
      <4>1. cluster[k] \in Versions /\ cluster[k] <= changes + 1 /\ changes \in 0..MaxChanges
        BY DEF ClusterInv, StoreInv
      <4>2. changes < MaxChanges
        BY <1>1 DEF Change
      <4>3. cluster[k] \in Nat
        BY <4>1, VersionFacts
      <4>4. changes \in Nat
        BY <4>1, Bounds
      <4> QED BY <4>1, <4>2, <4>3, <4>4
    <3>2. cluster[k] + 1 \in Versions
      BY <3>1, Bounds, VersionFacts
    <3>3. cluster' \in [Kinds -> Versions]
      BY <1>1, <3>2 DEF Change, ClusterInv, StoreInv
    <3>4. changes' \in 0..MaxChanges
      BY <1>1, <3>1, Bounds DEF Change
    <3>5. ASSUME NEW j \in Kinds PROVE cluster'[j] <= changes' + 1
      <4>1. cluster[j] \in Nat /\ cluster[j] <= changes + 1
        BY VersionFacts DEF ClusterInv, StoreInv
      <4>2. cluster'[j] = cluster[j] \/ cluster'[j] = cluster[j] + 1
        BY <1>1 DEF Change, ClusterInv, StoreInv
      <4> QED BY <1>1, <3>1, <4>1, <4>2 DEF Change
    <3> QED BY <3>3, <3>4, <3>5 DEF ClusterInv
  <2> QED BY <1>1, <1>b, <1>c, <1>d, <1>e, <2>1 DEF Change, StoreInv
<1>2. ASSUME NEW k \in Kinds, ListAndWatch(k) PROVE StoreInv'
  <2>1. StoresInv'
    <3>1. store[k] \in Nat /\ cluster[k] \in Versions /\ store[k] < cluster[k]
      BY <1>2, VersionFacts DEF ListAndWatch, StoresInv, ClusterInv, StoreInv
    <3>2. store[k] + 1 \in Versions
      <4>1. cluster[k] \in Nat /\ cluster[k] <= MaxChanges + 1
        BY <3>1, VersionFacts
      <4>2. store[k] + 1 \in Nat /\ store[k] + 1 <= MaxChanges + 1
        BY <3>1, <4>1, Bounds
      <4> QED BY <4>2, VersionFacts
    <3>3. store' \in [Kinds -> Versions]
      BY <1>2, <3>1, <3>2 DEF ListAndWatch, StoresInv, StoreInv
    <3> QED BY <1>2, <3>3 DEF ListAndWatch, StoresInv, StoreInv
  <2> QED BY <1>2, <1>a, <1>b, <1>d, <1>e, <2>1 DEF ListAndWatch, StoreInv
<1>3. ASSUME NEW b \in Builders, builds' = [builds EXCEPT ![b] = Begin] PROVE BuildsInv'
  <2>1. Listed(Begin)
    BY BeginListed DEF StoreInv
  <2> QED BY <1>3, <2>1 DEF BuildsInv, StoreInv
<1>4. ASSUME NEW k \in Kinds, Refresh(k) PROVE StoreInv'
  <2>1. StoresInv'
    BY <1>4 DEF Refresh, StoresInv, StoreInv
  <2>2. BuildsInv'
    BY <1>3, <1>4, <1>d DEF Refresh, Builders
  <2> QED BY <1>4, <1>a, <1>b, <1>e, <2>1, <2>2 DEF Refresh, StoreInv
<1>5. ASSUME Start PROVE StoreInv'
  <2>1. ProcessInv'
    BY <1>5 DEF Start, ProcessInv, StoreInv
  <2> QED BY <1>5, <1>a, <1>c, <1>d, <1>e, <2>1 DEF Start, StoreInv
<1>6. ASSUME Synced PROVE StoreInv'
  <2>1. ProcessInv'
    BY <1>6 DEF Synced, ProcessInv, StoreInv
  <2>2. BuildsInv'
    BY <1>3, <1>6 DEF Synced, Builders
  <2> QED BY <1>6, <1>a, <1>c, <1>e, <2>1, <2>2 DEF Synced, StoreInv
<1>7. ASSUME NEW b \in Builders, RebuildLists(b) PROVE StoreInv'
  <2>1. BuildsInv'
    BY <1>7, ListedMore DEF BuildsInv, StoreInv
  <2> QED BY <1>7, <1>a, <1>b, <1>c, <1>e, <2>1 DEF RebuildLists, StoreInv
<1>8. ASSUME NEW b \in Builders, RebuildPublishes(b) PROVE StoreInv'
  <2>1. builds[b].seen \in Seq(Versions) /\ Len(builds[b].seen) = Len(ListOrder)
    BY <1>8 DEF RebuildPublishes, Listed, Builds, BuildsInv, StoreInv
  <2>2. builds[b].seen \in Contents
    BY <2>1, Order DEF Contents
  <2>3. snapshot' \in Snapshots
    <3>1. snapshot' = Snapshot(builds[b])
      BY <1>8 DEF RebuildPublishes
    <3>2. AsNewAs(builds[b].seen, builds[b].asOf) \in BOOLEAN
      BY DEF AsNewAs
    <3> QED BY <2>2, <3>1, <3>2 DEF Snapshot, Snapshots
  <2>4. \A k \in Kinds : builds[b].seen[Place(k)] \in Versions
    BY <2>1, PlaceOfKind
  <2>5. newest' \in [Kinds -> Versions]
    BY <1>8, <2>4 DEF RebuildPublishes, PublishedInv, StoreInv
  <2>6. PublishedInv'
    BY <2>3, <2>5 DEF PublishedInv
  <2>7. BuildsInv'
    BY <1>8 DEF RebuildPublishes, BuildsInv, StoreInv
  <2> QED BY <1>8, <1>a, <1>b, <1>c, <2>6, <2>7 DEF RebuildPublishes, StoreInv
<1>9. ASSUME UNCHANGED <<worldVars, running, storeVars>>, faults' \in 0..MaxFaults PROVE StoreInv'
  <2>1. ProcessInv'
    BY <1>9 DEF ProcessInv, StoreInv
  <2> QED BY <1>9, <1>a, <1>c, <1>d, <1>e, <2>1 DEF StoreInv
<1>10. faults \in 0..MaxFaults
  BY DEF StoreInv, ProcessInv
<1>11. ASSUME NEW r \in Readers, AnswerFromCache(r) \/ BeginFetch(r) \/ Fetch(r) PROVE StoreInv'
  BY <1>9, <1>10, <1>11 DEF AnswerFromCache, BeginFetch, Fetch, FetchSucceeds, FetchFails
<1>12. CASE ReadPart \/ SendNotReady \/ Send \/ UploadArrives
  BY <1>9, <1>10, <1>12 DEF ReadPart, SendNotReady, Send, UploadArrives
<1>13. CASE UploadTimesOut
  <2>1. faults' \in 0..MaxFaults
    BY <1>10, <1>13, Bounds DEF UploadTimesOut
  <2> QED BY <1>9, <1>13, <2>1 DEF UploadTimesOut
<1>14. CASE \E u \in late : LateArrives(u) \/ LateLost(u)
  BY <1>9, <1>10, <1>14 DEF LateArrives, LateLost
<1>15. CASE AgentDies
  <2> USE <1>15, VersionFacts DEF AgentDies, Crash
  <2>a. faults' \in 0..MaxFaults
    BY <1>10, Bounds
  <2>1. ProcessInv'
    BY <2>a DEF ProcessInv
  <2>2. StoresInv'
    BY DEF StoresInv, NoVersions
  <2>3. BuildsInv'
    BY DEF BuildsInv, NoBuilds, Builders
  <2>4. PublishedInv'
    BY DEF PublishedInv, StoreInv, Empty, Snapshots, Contents, NoVersions
  <2> QED BY <1>a, <2>1, <2>2, <2>3, <2>4 DEF StoreInv
<1>16. CASE UNCHANGED vars
  BY <1>9, <1>10, <1>16 DEF vars
<1> QED BY <1>1, <1>2, <1>4, <1>5, <1>6, <1>7, <1>8, <1>11, <1>12, <1>13, <1>14, <1>15, <1>16
       DEF Next, Kube, Rebuild, Builders

-----------------------------------------------------------------------------
(* The cache of Envoy configurations                                       *)

\* The label of a fetch is a version, and its Pods are a list.
LEMMA CurrentPods ==
  ASSUME StoreInv
  PROVE  PodVersion \in Versions /\ PodsAt[PodVersion] \in Seq(Pods)
<1>1. snapshot.seen \in [DOMAIN ListOrder -> Versions]
  BY DEF StoreInv, PublishedInv, Snapshots, Contents
<1>2. Place(PodKind) \in DOMAIN ListOrder
  BY PlaceOfKind, PodLists, Order
<1> QED BY <1>1, <1>2, PodLists DEF PodVersion

\* The entries of a list are in its range.
LEMMA InRange ==
  ASSUME NEW S, NEW s \in Seq(S), NEW i \in 1..Len(s)
  PROVE  s[i] \in Range(s)
  BY DEF Range

\* A list that has an entry, but not exactly one, has more.
LEMMA MoreThanOne ==
  ASSUME NEW n \in Nat, n > 0, n # 1
  PROVE  n > 1
  OBVIOUS

\* One more than m.
LEMMA OneMore ==
  ASSUME NEW m \in Nat, NEW n, n = m + 1
  PROVE  n > 2 => m > 2 \/ m = 2
  OBVIOUS

\* A sequence of four entries is a function on 1..4.
LEMMA FourEntries ==
  ASSUME NEW S, NEW s \in Seq(S), Len(s) = 4
  PROVE  s \in [1..4 -> S]
<1>1. s \in [1..Len(s) -> S]
  BY LenProperties
<1>2. 1..Len(s) = 1..4
  OBVIOUS
<1> QED BY <1>1, <1>2, Zenon

\* The rest of a list of Pods.
LEMMA TailOfPods ==
  ASSUME NEW s \in Seq(Pods), Len(s) > 1
  PROVE  /\ Tail(s) \in Seq(Pods) /\ Len(Tail(s)) = Len(s) - 1 /\ Len(Tail(s)) > 0
         /\ \A i \in 1..Len(Tail(s)) : Tail(s)[i] = s[i + 1] /\ i + 1 \in 1..Len(s)
<1>1. Tail(s) \in Seq(Pods) /\ Len(Tail(s)) = Len(s) - 1
  OBVIOUS
<1>2. Len(Tail(s)) > 0
  BY <1>1
<1>3. ASSUME NEW i \in 1..Len(Tail(s)) PROVE Tail(s)[i] = s[i + 1] /\ i + 1 \in 1..Len(s)
  BY <1>1
<1> QED BY <1>1, <1>2, <1>3

\* Nothing is cached at first.
LEMMA EnvoyInit == Init => EnvoyInv
  BY DEF Init, KubeInit, EnvoyInv, NoCalls

\* Only a fetch, its beginning and a crash touch the cache and the calls.
LEMMA EnvoyStep == StoreInv /\ EnvoyInv /\ [Next]_vars => EnvoyInv'
<1> SUFFICES ASSUME StoreInv, EnvoyInv, [Next]_vars PROVE EnvoyInv'
  OBVIOUS
<1> USE DEF worldVars, storeVars, envoyVars, kubeVars, sendVars
<1>1. ASSUME UNCHANGED envoyVars PROVE EnvoyInv'
  BY <1>1 DEF EnvoyInv
<1>2. ASSUME NEW r \in Readers, BeginFetch(r) PROVE EnvoyInv'
  <2> DEFINE c == [label |-> PodVersion, pods |-> PodsAt[PodVersion]]
  <2>0. Len(PodsAt[PodVersion]) > 0
    BY <1>2, CurrentPods DEF BeginFetch
  <2>1. c \in [label : Versions, pods : Seq(Pods)] /\ Len(c.pods) > 0
    BY <2>0, CurrentPods
  <2>2. \A i \in 1..Len(c.pods) : c.pods[i] \in Range(PodsAt[c.label])
    BY <2>1, InRange
  <2>3. Fetching(c)
    BY <2>1, <2>2 DEF Fetching
  <2>4. calls' = [calls EXCEPT ![r] = c] /\ cache' = cache
    BY <1>2 DEF BeginFetch
  <2> HIDE DEF c
  <2> QED BY <2>3, <2>4 DEF EnvoyInv
<1>3. ASSUME NEW r \in Readers, FetchSucceeds(r) PROVE EnvoyInv'
  <2>1. Fetching(calls[r])
    BY <1>3 DEF FetchSucceeds, EnvoyInv
  <2>2. /\ calls[r].label \in Versions /\ calls[r].pods \in Seq(Pods) /\ Len(calls[r].pods) > 0
        /\ Head(calls[r].pods) = calls[r].pods[1]
    BY <2>1 DEF Fetching
  <2>3. Head(calls[r].pods) \in Pods /\ Head(calls[r].pods) \in Range(PodsAt[calls[r].label])
    BY <2>1, <2>2 DEF Fetching
  <2>4. Cached([pod |-> Head(calls[r].pods), label |-> calls[r].label])
    BY <2>2, <2>3 DEF Cached, Configs
  <2> QED BY <1>3, <2>4 DEF FetchSucceeds, EnvoyInv
<1>4. ASSUME NEW r \in Readers, FetchFails(r) PROVE EnvoyInv'
  <2>1. Fetching(calls[r])
    BY <1>4 DEF FetchFails, EnvoyInv
  <2>2. CASE Len(calls[r].pods) = 1
    BY <1>4, <2>2 DEF FetchFails, EnvoyInv
  <2>3. CASE Len(calls[r].pods) # 1
    <3> DEFINE t == Tail(calls[r].pods)
               c == [label |-> calls[r].label, pods |-> t]
    <3>1. /\ calls[r] \in [label : Versions, pods : Seq(Pods)]
          /\ Len(calls[r].pods) > 1 /\ calls[r].pods \in Seq(Pods) /\ calls[r].label \in Versions
      <4>1. calls[r] \in [label : Versions, pods : Seq(Pods)] /\ Len(calls[r].pods) > 0
        BY <2>1 DEF Fetching
      <4>2. calls[r].pods \in Seq(Pods)
        BY <4>1
      <4>3. Len(calls[r].pods) \in Nat
        BY <4>2
      <4>4. Len(calls[r].pods) > 1
        BY <2>3, <4>1, <4>3, MoreThanOne
      <4> QED BY <4>1, <4>2, <4>4
    <3>2. /\ t \in Seq(Pods) /\ Len(t) = Len(calls[r].pods) - 1 /\ Len(t) > 0
          /\ \A i \in 1..Len(t) : t[i] = calls[r].pods[i + 1] /\ i + 1 \in 1..Len(calls[r].pods)
      BY <3>1, TailOfPods
    <3>3. calls' = [calls EXCEPT ![r] = IF Len(calls[r].pods) = 1 THEN None ELSE c]
      BY <1>4 DEF FetchFails
    <3> HIDE DEF t
    <3>4. c \in [label : Versions, pods : Seq(Pods)]
      BY <3>1, <3>2
    <3>5. \A i \in 1..Len(t) : t[i] \in Range(PodsAt[calls[r].label])
      BY <2>1, <3>2 DEF Fetching
    <3>6. Fetching(c)
      BY <3>2, <3>4, <3>5 DEF Fetching
    <3> HIDE DEF c
    <3>7. calls' = [calls EXCEPT ![r] = c]
      BY <2>3, <3>3
    <3>8. cache' = cache
      BY <1>4 DEF FetchFails
    <3> QED BY <3>6, <3>7, <3>8 DEF EnvoyInv
  <2> QED BY <2>2, <2>3
<1>5. CASE AgentDies
  BY <1>5 DEF AgentDies, Crash, EnvoyInv, NoCalls
<1>6. ASSUME NEW k \in Kinds, Change(k) \/ ListAndWatch(k) \/ Refresh(k) PROVE EnvoyInv'
  BY <1>1, <1>6 DEF Change, ListAndWatch, Refresh
<1>7. CASE Start \/ Synced
  BY <1>1, <1>7 DEF Start, Synced
<1>8. ASSUME NEW b, Rebuild(b) PROVE EnvoyInv'
  BY <1>1, <1>8 DEF Rebuild, RebuildLists, RebuildPublishes
<1>9. ASSUME NEW r, AnswerFromCache(r) PROVE EnvoyInv'
  BY <1>1, <1>9 DEF AnswerFromCache
<1>10. CASE ReadPart \/ SendNotReady \/ Send \/ UploadArrives \/ UploadTimesOut
  BY <1>1, <1>10 DEF ReadPart, SendNotReady, Send, UploadArrives, UploadTimesOut
<1>11. CASE \E u \in late : LateArrives(u) \/ LateLost(u)
  BY <1>1, <1>11 DEF LateArrives, LateLost
<1>12. CASE UNCHANGED vars
  BY <1>1, <1>12 DEF vars
<1> QED BY <1>2, <1>3, <1>4, <1>5, <1>6, <1>7, <1>8, <1>9, <1>10, <1>11, <1>12
       DEF Next, Kube, Fetch

-----------------------------------------------------------------------------
(* Labels                                                                  *)

\* The numbers the arguments compare.
LEMMA Numbers ==
  ASSUME StoreInv
  PROVE  /\ \A k \in Kinds : store[k] \in Nat /\ newest[k] \in Nat /\ notices[k] \in Nat
         /\ \A b \in Builders : builds[b] # None =>
              /\ Len(builds[b].seen) \in Nat /\ Len(builds[b].seen) <= Len(ListOrder)
              /\ \A i \in 1..Len(builds[b].seen) : builds[b].seen[i] \in Nat
              /\ \A i \in DOMAIN ListOrder : builds[b].asOf[i] \in Nat
<1>1. \A k \in Kinds : store[k] \in Nat /\ newest[k] \in Nat /\ notices[k] \in Nat
  BY VersionFacts DEF StoreInv, StoresInv, PublishedInv
<1>2. ASSUME NEW b \in Builders, builds[b] # None
      PROVE  /\ Len(builds[b].seen) \in Nat /\ Len(builds[b].seen) <= Len(ListOrder)
             /\ \A i \in 1..Len(builds[b].seen) : builds[b].seen[i] \in Nat
             /\ \A i \in DOMAIN ListOrder : builds[b].asOf[i] \in Nat
  <2>1. builds[b].seen \in Seq(Versions) /\ builds[b].asOf \in Contents
        /\ Len(builds[b].seen) <= Len(ListOrder)
    BY <1>2 DEF StoreInv, BuildsInv, Listed, Builds
  <2>2. Len(builds[b].seen) \in Nat /\ \A i \in 1..Len(builds[b].seen) : builds[b].seen[i] \in Versions
    BY <2>1
  <2> QED BY <2>1, <2>2, VersionFacts DEF Contents
<1> QED BY <1>1, <1>2

\* The places of the listing are those of its kinds.
LEMMA Places ==
  /\ \A i \in DOMAIN ListOrder : i \in 1..Len(ListOrder) /\ ListOrder[i] \in Kinds
  /\ \A k \in CoreKinds : k \in Kinds /\ Place(k) \in DOMAIN ListOrder /\ ListOrder[Place(k)] = k
<1>1. DOMAIN ListOrder = 1..Len(ListOrder)
  BY Order
<1> QED BY <1>1, ListedKind, PlaceOfKind, KindsAssumption

\* A rebuild that begins is labelled with what the stores hold: the step of Refresh and
\* Synced.
LEMMA BeginLabels ==
  ASSUME StoreInv, LabelInv, NEW b \in Builders,
         builds' = [builds EXCEPT ![b] = Begin], UNCHANGED store, ready',
         \A k \in CoreKinds : store[k] > 0
  PROVE  LabelInv'
<1>1. builds'[b] = Begin /\ \A c \in Builders : c # b => builds'[c] = builds[c]
  BY DEF StoreInv, BuildsInv
<1>2. Begin.seen = <<>> /\ Begin.asOf = Held
  BY BeginListed DEF StoreInv
<1> SUFFICES ASSUME NEW c \in Builders, builds'[c] # None
             PROVE  /\ \A i \in DOMAIN ListOrder : builds'[c].asOf[i] <= store[ListOrder[i]]
                    /\ \A i \in 1..Len(builds'[c].seen) : builds'[c].asOf[i] <= builds'[c].seen[i]
                    /\ \A k \in CoreKinds : builds'[c].asOf[Place(k)] > 0
  BY DEF LabelInv
<1>3. CASE c # b
  BY <1>1, <1>3 DEF LabelInv
<1>4. CASE c = b
  <2>1. \A i \in DOMAIN ListOrder : Held[i] = store[ListOrder[i]] /\ store[ListOrder[i]] \in Nat
    BY Numbers, Places DEF Held
  <2>2. \A i \in DOMAIN ListOrder : Held[i] <= store[ListOrder[i]]
    BY <2>1
  <2>3. \A k \in CoreKinds : Held[Place(k)] > 0
    BY <2>1, Places
  <2>4. Len(<<>>) = 0
    OBVIOUS
  <2> QED BY <1>1, <1>2, <1>4, <2>2, <2>3, <2>4
<1> QED BY <1>3, <1>4

\* A rebuild lists contents that are no older than its label: the step of RebuildLists.
LEMMA ListLabels ==
  ASSUME StoreInv, LabelInv, NEW b \in Builders, RebuildLists(b)
  PROVE  LabelInv'
<1> DEFINE n == Len(builds[b].seen) + 1
<1>1. builds[b] # None /\ UNCHANGED <<store, ready>>
  BY DEF RebuildLists
<1>2. /\ builds'[b].asOf = builds[b].asOf
      /\ builds'[b].seen = Append(builds[b].seen, store[ListOrder[n]])
      /\ n \in 1..Len(ListOrder)
      /\ \A c \in Builders : c # b => builds'[c] = builds[c]
  BY ListedMore
<1>3. builds[b].seen \in Seq(Versions) /\ Len(builds[b].seen) \in Nat
  BY ListedMore DEF Listed, Builds
<1>4. n \in DOMAIN ListOrder
  BY <1>2, Order
<1>5. builds[b].asOf[n] <= store[ListOrder[n]]
  BY <1>1, <1>4 DEF LabelInv
<1>6. /\ Len(builds'[b].seen) = n /\ builds'[b].seen[n] = store[ListOrder[n]]
      /\ \A i \in 1..Len(builds[b].seen) : builds'[b].seen[i] = builds[b].seen[i]
  <2> DEFINE v == store[ListOrder[n]]
             l == builds[b].seen
  <2>1. v \in Versions
    BY <1>2, ListedKind DEF StoreInv, StoresInv
  <2> HIDE DEF v
  <2>2. Len(Append(l, v)) = Len(l) + 1 /\ Append(l, v)[Len(l) + 1] = v
        /\ \A i \in 1..Len(l) : Append(l, v)[i] = l[i]
    BY <1>3, <2>1
  <2> QED BY <1>2, <2>2 DEF v
<1>7. ASSUME NEW i \in 1..Len(builds'[b].seen) PROVE builds'[b].asOf[i] <= builds'[b].seen[i]
  <2>1. CASE i = n
    BY <1>2, <1>5, <1>6, <2>1
  <2>2. CASE i # n
    <3>1. i \in 1..Len(builds[b].seen)
      BY <1>3, <1>6, <2>2
    <3> QED BY <1>1, <1>2, <1>6, <3>1 DEF LabelInv
  <2> QED BY <2>1, <2>2
<1> HIDE DEF n
<1>8. ASSUME NEW c \in Builders, builds'[c] # None
      PROVE  /\ ready
             /\ \A i \in DOMAIN ListOrder : builds'[c].asOf[i] <= store[ListOrder[i]]
             /\ \A i \in 1..Len(builds'[c].seen) : builds'[c].asOf[i] <= builds'[c].seen[i]
             /\ \A k \in CoreKinds : builds'[c].asOf[Place(k)] > 0
  <2>1. CASE c # b
    BY <1>2, <1>8, <2>1 DEF LabelInv
  <2>2. CASE c = b
    BY <1>1, <1>2, <1>7, <2>2 DEF LabelInv
  <2> QED BY <2>1, <2>2
<1> QED BY <1>1, <1>8 DEF LabelInv

\* A store only moves on: the step of ListAndWatch.
LEMMA WatchLabels ==
  ASSUME StoreInv, LabelInv, NEW k \in Kinds, ListAndWatch(k)
  PROVE  LabelInv'
<1>1. UNCHANGED <<ready, builds>>
  BY DEF ListAndWatch
<1>2. ASSUME NEW j \in Kinds PROVE store[j] \in Nat /\ store'[j] \in Nat /\ store[j] <= store'[j]
  <2>1. store[k] \in Nat /\ cluster[k] \in Nat /\ store[k] < cluster[k]
    BY VersionFacts DEF ListAndWatch, StoreInv, StoresInv, ClusterInv
  <2>2. store' = [store EXCEPT ![k] = IF store[k] = 0 THEN cluster[k] ELSE store[k] + 1]
    BY DEF ListAndWatch
  <2>3. store[j] \in Nat
    BY Numbers
  <2>4. store'[j] = IF j # k THEN store[j] ELSE IF store[k] = 0 THEN cluster[k] ELSE store[k] + 1
    BY <2>2 DEF StoreInv, StoresInv
  <2> QED BY <2>1, <2>3, <2>4
<1>3. \A j \in CoreKinds : ready => store'[j] > 0
  <2> SUFFICES ASSUME ready, NEW j \in CoreKinds PROVE store'[j] > 0
    OBVIOUS
  <2>1. j \in Kinds /\ store[j] > 0
    BY Places DEF LabelInv
  <2> QED BY <1>2, <2>1
<1>4. ASSUME NEW b \in Builders, builds[b] # None, NEW i \in DOMAIN ListOrder
      PROVE  builds[b].asOf[i] <= store'[ListOrder[i]]
  <2>1. ListOrder[i] \in Kinds /\ builds[b].asOf[i] \in Nat
    BY <1>4, Places, Numbers
  <2>2. builds[b].asOf[i] <= store[ListOrder[i]]
    BY <1>4 DEF LabelInv
  <2> QED BY <1>2, <2>1, <2>2
<1> QED BY <1>1, <1>3, <1>4 DEF LabelInv

\* No rebuild runs at first.
LEMMA LabelInit == Init => LabelInv
  BY DEF Init, KubeInit, LabelInv, NoBuilds, Builders

\* Every step keeps the labels behind the contents.
LEMMA LabelStep == StoreInv /\ LabelInv /\ [Next]_vars => LabelInv'
<1> SUFFICES ASSUME StoreInv, LabelInv, [Next]_vars PROVE LabelInv'
  OBVIOUS
<1> USE DEF worldVars, storeVars, envoyVars, kubeVars, sendVars
<1>1. ASSUME UNCHANGED <<store, ready, builds>> PROVE LabelInv'
  BY <1>1 DEF LabelInv
<1>2. ASSUME NEW k \in Kinds, Refresh(k) PROVE LabelInv'
  <2>1. CASE ready
    BY <1>2, <2>1, BeginLabels DEF Refresh, Builders, LabelInv
  <2>2. CASE ~ready
    BY <1>2, <2>2 DEF Refresh, LabelInv
  <2> QED BY <2>1, <2>2
<1>3. CASE Synced
  BY <1>3, BeginLabels DEF Synced, Builders
<1>4. ASSUME NEW k \in Kinds, ListAndWatch(k) PROVE LabelInv'
  BY <1>4, WatchLabels
<1>5. ASSUME NEW b \in Builders, Rebuild(b) PROVE LabelInv'
  <2>1. CASE RebuildLists(b)
    BY <2>1, ListLabels
  <2>2. CASE RebuildPublishes(b)
    <3>1. builds'[b] = None /\ \A c \in Builders : c # b => builds'[c] = builds[c]
      BY <2>2 DEF RebuildPublishes, StoreInv, BuildsInv
    <3>2. UNCHANGED <<store, ready>>
      BY <2>2 DEF RebuildPublishes
    <3> QED BY <3>1, <3>2 DEF LabelInv
  <2> QED BY <1>5, <2>1, <2>2 DEF Rebuild
<1>6. CASE AgentDies
  BY <1>6 DEF AgentDies, Crash, LabelInv, NoBuilds, Builders
<1>7. ASSUME NEW k \in Kinds, Change(k) PROVE LabelInv'
  BY <1>1, <1>7 DEF Change
<1>8. CASE Start
  BY <1>1, <1>8 DEF Start
<1>9. ASSUME NEW r, AnswerFromCache(r) \/ BeginFetch(r) \/ Fetch(r) PROVE LabelInv'
  BY <1>1, <1>9 DEF AnswerFromCache, BeginFetch, Fetch, FetchSucceeds, FetchFails
<1>10. CASE ReadPart \/ SendNotReady \/ Send \/ UploadArrives \/ UploadTimesOut
  BY <1>1, <1>10 DEF ReadPart, SendNotReady, Send, UploadArrives, UploadTimesOut
<1>11. CASE \E u \in late : LateArrives(u) \/ LateLost(u)
  BY <1>1, <1>11 DEF LateArrives, LateLost
<1>12. CASE UNCHANGED vars
  BY <1>1, <1>12 DEF vars
<1> QED BY <1>2, <1>3, <1>4, <1>5, <1>6, <1>7, <1>8, <1>9, <1>10, <1>11, <1>12
       DEF Next, Kube, Builders

-----------------------------------------------------------------------------
(* Uploads                                                                 *)

\* Nothing is read or sent at first.
LEMMA UploadInit == Init => UploadInv
  BY DEF Init, KubeInit, Empty, UploadInv

\* What a rebuild publishes is sound: the step of RebuildPublishes.
LEMMA PublishedSound ==
  ASSUME StoreInv, LabelInv, NEW b \in Builders, RebuildPublishes(b)
  PROVE  snapshot'.labelled /\ Sound(snapshot')
<1>1. builds[b] # None /\ Len(builds[b].seen) = Len(ListOrder) /\ snapshot' = Snapshot(builds[b])
  BY DEF RebuildPublishes
<1>2. \A i \in DOMAIN ListOrder : builds[b].seen[i] >= builds[b].asOf[i]
  <2> SUFFICES ASSUME NEW i \in DOMAIN ListOrder PROVE builds[b].seen[i] >= builds[b].asOf[i]
    OBVIOUS
  <2>1. i \in 1..Len(builds[b].seen)
    BY <1>1, Places
  <2>2. builds[b].seen[i] \in Nat /\ builds[b].asOf[i] \in Nat /\ builds[b].asOf[i] <= builds[b].seen[i]
    BY <1>1, <2>1, Numbers DEF LabelInv
  <2> QED BY <2>2
<1>3. ASSUME NEW k \in CoreKinds PROVE builds[b].seen[Place(k)] > 0
  <2>1. Place(k) \in DOMAIN ListOrder /\ Place(k) \in 1..Len(builds[b].seen)
    BY <1>1, Places
  <2>2. builds[b].asOf[Place(k)] > 0
    BY <1>1 DEF LabelInv
  <2>3. builds[b].seen[Place(k)] \in Nat /\ builds[b].asOf[Place(k)] \in Nat
    BY <1>1, <2>1, Numbers
  <2> QED BY <1>2, <2>1, <2>2, <2>3
<1> QED BY <1>1, <1>2, <1>3 DEF Snapshot, AsNewAs, Sound

\* A part that is read is sound if it has a label, and none is sent without one.
LEMMA UploadStep == StoreInv /\ LabelInv /\ UploadInv /\ [Next]_vars => UploadInv'
<1> SUFFICES ASSUME StoreInv, LabelInv, UploadInv, [Next]_vars PROVE UploadInv'
  OBVIOUS
<1> USE DEF worldVars, storeVars, envoyVars, kubeVars, sendVars
<1>0. snapshot \in Snapshots
  BY DEF StoreInv, PublishedInv
<1>1. ASSUME UNCHANGED <<sendVars, received, late, snapshot>> PROVE UploadInv'
  BY <1>1 DEF UploadInv
<1>2. ASSUME NEW b \in Builders, RebuildPublishes(b), UNCHANGED <<sendVars, received, late>> PROVE UploadInv'
  BY <1>2, PublishedSound DEF UploadInv
<1>3. CASE ReadPart
  <2>1. parts \in Seq(Snapshots) /\ Len(parts) < 4 /\ parts' = Append(parts, snapshot)
    BY <1>3, FourParts DEF ReadPart, UploadInv
  <2>2. parts' \in Seq(Snapshots) /\ Len(parts') = Len(parts) + 1 /\ Len(parts) \in Nat
    BY <1>0, <2>1
  <2>3. \A i \in 1..Len(parts) : parts'[i] = parts[i]
    BY <2>1
  <2>4. parts'[Len(parts')] = snapshot
    BY <2>1, <2>2
  <2>5. \A i \in 1..Len(parts') : i \in 1..Len(parts) \/ i = Len(parts')
    BY <2>2
  <2>6. ASSUME NEW i \in 1..Len(parts'), parts'[i].labelled
        PROVE  Sound(parts'[i]) /\ snapshot.labelled
    BY <2>3, <2>4, <2>5, <2>6 DEF UploadInv
  <2>7. ASSUME NEW i \in 1..Len(parts'), NEW j \in 1..Len(parts'), i < j, parts'[i].labelled
        PROVE  parts'[j].labelled
    <3>1. i \in 1..Len(parts)
      BY <2>2, <2>7
    <3>2. CASE j \in 1..Len(parts)
      BY <2>3, <2>7, <3>1, <3>2 DEF UploadInv
    <3>3. CASE j = Len(parts')
      BY <2>4, <2>6, <2>7, <3>3
    <3> QED BY <2>5, <3>2, <3>3
  <2>8. Len(parts') > 2 => parts'[1].labelled
    <3>1. CASE Len(parts) > 2
      <4>1. 1 \in 1..Len(parts)
        BY <2>2, <3>1
      <4> QED BY <2>3, <3>1, <4>1 DEF UploadInv
    <3>2. CASE Len(parts) = 2
      <4>1. parts[1].labelled
        BY <1>3, <3>2 DEF ReadPart, NotReady
      <4>2. 1 \in 1..Len(parts)
        BY <3>2
      <4> QED BY <2>3, <4>1, <4>2
    <3>3. Len(parts') > 2 => Len(parts) > 2 \/ Len(parts) = 2
      BY <2>2, OneMore
    <3> QED BY <3>1, <3>2, <3>3
  <2>9. Len(parts') <= 4
    BY <2>1, <2>2
  <2>10. UNCHANGED <<snapshot, posted, received, late>>
    BY <1>3 DEF ReadPart
  <2> QED BY <2>2, <2>6, <2>7, <2>8, <2>9, <2>10 DEF UploadInv
<1>4. CASE SendNotReady
  BY <1>4 DEF SendNotReady, UploadInv
<1>5. CASE Send
  <2>1. parts \in Seq(Snapshots) /\ Len(parts) = 4
    BY <1>5, FourParts DEF Send, UploadInv
  <2>2. parts \in [1..4 -> Snapshots]
    BY <2>1, FourEntries
  <2>3. parts[1].labelled
    BY <2>1 DEF UploadInv
  <2>4. ASSUME NEW i \in 1..4 PROVE Sound(parts[i])
    <3>1. i = 1 \/ 1 < i
      OBVIOUS
    <3>2. parts[i].labelled
      BY <2>1, <2>3, <3>1 DEF UploadInv
    <3> QED BY <2>1, <3>2 DEF UploadInv
  <2>5. Whole(parts)
    BY <2>2, <2>4, FourParts DEF Whole
  <2> QED BY <1>5, <2>5 DEF Send, UploadInv
<1>6. CASE UploadArrives
  BY <1>6 DEF UploadArrives, Receive, UploadInv
<1>7. CASE UploadTimesOut
  BY <1>7 DEF UploadTimesOut, UploadInv
<1>8. ASSUME NEW u \in late, LateArrives(u) \/ LateLost(u) PROVE UploadInv'
  BY <1>8 DEF LateArrives, LateLost, Receive, UploadInv
<1>9. CASE AgentDies
  <2>1. ~snapshot'.labelled /\ parts' = <<>> /\ posted' = None /\ received' = received
    BY <1>9 DEF AgentDies, Crash, Empty
  <2>2. \A u \in late' : Whole(u)
    BY <1>9 DEF AgentDies, UploadInv
  <2> QED BY <2>1, <2>2 DEF UploadInv
<1>10. ASSUME NEW k \in Kinds, Kube(Change(k)) \/ Kube(ListAndWatch(k)) \/ Kube(Refresh(k)) PROVE UploadInv'
  BY <1>1, <1>10 DEF Kube, Change, ListAndWatch, Refresh
<1>11. CASE Kube(Start) \/ Kube(Synced)
  BY <1>1, <1>11 DEF Kube, Start, Synced
<1>12. ASSUME NEW b \in Builders, Kube(Rebuild(b)) PROVE UploadInv'
  BY <1>1, <1>2, <1>12 DEF Kube, Rebuild, RebuildLists
<1>13. ASSUME NEW r, Kube(AnswerFromCache(r)) \/ Kube(BeginFetch(r)) \/ Kube(Fetch(r)) PROVE UploadInv'
  BY <1>1, <1>13 DEF Kube, AnswerFromCache, BeginFetch, Fetch, FetchSucceeds, FetchFails
<1>14. CASE UNCHANGED vars
  BY <1>1, <1>14 DEF vars
<1> QED BY <1>3, <1>4, <1>5, <1>6, <1>7, <1>8, <1>9, <1>10, <1>11, <1>12, <1>13, <1>14 DEF Next, Builders

-----------------------------------------------------------------------------
(* Changes of the cluster                                                  *)

\* Nothing is listed or published before the Agent starts.
LEMMA ChangeInit == Init => ChangeInv
<1> SUFFICES ASSUME Init PROVE ChangeInv
  OBVIOUS
<1> USE DEF Init, KubeInit
<1>1. NewestInv
  BY DEF NewestInv, NoVersions
<1>2. ListedInv
  BY DEF ListedInv, NoBuilds, Builders
<1>3. PendingInv
  BY DEF PendingInv
<1> QED BY <1>1, <1>2, <1>3 DEF ChangeInv

\* A rebuild that begins covers every kind, and so stands for every event that was
\* taken or dropped before: the step of Refresh and Synced.
LEMMA BeginCovers ==
  ASSUME StoreInv, ChangeInv, NEW b \in Builders,
         builds' = [builds EXCEPT ![b] = Begin], UNCHANGED <<store, newest>>
  PROVE  ChangeInv'
<1>1. NewestInv'
  BY DEF ChangeInv, NewestInv
<1>2. builds'[b] = Begin /\ \A c \in Builders : c # b => builds'[c] = builds[c]
  BY DEF StoreInv, BuildsInv
<1>a. Listed(Begin) /\ Begin.seen = <<>> /\ Len(<<>>) = 0
  BY BeginListed DEF StoreInv
<1>3. ListedInv'
  <2> SUFFICES ASSUME NEW c \in Builders, builds'[c] # None, NEW i \in 1..Len(builds'[c].seen)
               PROVE  builds'[c].seen[i] <= store'[ListOrder[i]]
    BY DEF ListedInv
  <2>1. c # b
    BY <1>2, <1>a
  <2> QED BY <1>2, <2>1 DEF ChangeInv, ListedInv
<1>4. ASSUME NEW k \in Kinds PROVE Covers(b, k)'
  <2>1. Len(<<>>) = 0 /\ Place(k) \in Nat /\ Place(k) > 0
    BY PlaceOfKind, Order
  <2>2. ~(Len(<<>>) >= Place(k))
    BY <2>1
  <2>3. Begin # None
    BY <1>a, NotNone
  <2> QED BY <1>2, <1>a, <2>2, <2>3 DEF Covers
<1> QED BY <1>1, <1>3, <1>4 DEF ChangeInv, PendingInv

\* A store that moves on leaves an event behind it: the step of ListAndWatch.
LEMMA WatchPends ==
  ASSUME StoreInv, ChangeInv, NEW k \in Kinds, ListAndWatch(k)
  PROVE  ChangeInv'
<1>1. /\ \A j \in Kinds : store[j] \in Nat /\ store'[j] \in Nat /\ store[j] <= store'[j]
      /\ \A j \in Kinds : j # k => store'[j] = store[j]
      /\ notices'[k] > 0 /\ \A j \in Kinds : j # k => notices'[j] = notices[j]
  <2>1. store[k] \in Nat /\ cluster[k] \in Nat /\ store[k] < cluster[k] /\ notices[k] \in Nat
    BY VersionFacts DEF ListAndWatch, StoreInv, StoresInv, ClusterInv
  <2>2. store' = [store EXCEPT ![k] = IF store[k] = 0 THEN cluster[k] ELSE store[k] + 1]
    BY DEF ListAndWatch
  <2>3. store'[k] \in Nat /\ store[k] <= store'[k]
    BY <2>1, <2>2 DEF StoreInv, StoresInv
  <2>4. \A j \in Kinds : j # k => store'[j] = store[j]
    BY <2>2 DEF StoreInv, StoresInv
  <2>5. notices'[k] > 0 /\ \A j \in Kinds : j # k => notices'[j] = notices[j]
    BY <2>1 DEF ListAndWatch, StoreInv, StoresInv
  <2> QED BY <2>3, <2>4, <2>5, Numbers
<1>2. UNCHANGED <<ready, builds, newest>>
  BY DEF ListAndWatch
<1>3. NewestInv'
  <2> SUFFICES ASSUME NEW j \in Kinds PROVE newest'[j] <= store'[j]
    BY DEF NewestInv
  <2>1. newest'[j] = newest[j] /\ newest[j] \in Nat /\ newest[j] <= store[j]
    BY <1>2, Numbers DEF ChangeInv, NewestInv
  <2> QED BY <1>1, <2>1
<1>4. ListedInv'
  <2> SUFFICES ASSUME NEW c \in Builders, builds[c] # None, NEW i \in 1..Len(builds[c].seen)
               PROVE  builds[c].seen[i] <= store'[ListOrder[i]]
    BY <1>2 DEF ListedInv
  <2>1. builds[c].seen[i] \in Nat /\ builds[c].seen[i] <= store[ListOrder[i]]
    BY Numbers DEF ChangeInv, ListedInv
  <2>2. ListOrder[i] \in Kinds
    <3>1. Len(builds[c].seen) \in Nat /\ Len(builds[c].seen) <= Len(ListOrder)
      BY Numbers DEF StoreInv, BuildsInv, Listed
    <3>2. i \in 1..Len(ListOrder)
      BY <3>1, Order
    <3> QED BY <3>2, ListedKind
  <2> QED BY <1>1, <2>1, <2>2
<1>5. PendingInv'
  <2> SUFFICES ASSUME ready, NEW j \in Kinds, j # k, newest[j] < store[j]
               PROVE  notices[j] > 0 \/ \E b \in Builders : Covers(b, j)'
    BY <1>1, <1>2 DEF PendingInv
  <2>1. \A b \in Builders : Covers(b, j) => Covers(b, j)'
    BY <1>1, <1>2 DEF Covers
  <2> QED BY <2>1 DEF ChangeInv, PendingInv
<1> QED BY <1>3, <1>4, <1>5 DEF ChangeInv

\* A rebuild that lists a store covers the kinds it covered: the step of RebuildLists.
LEMMA ListCovers ==
  ASSUME StoreInv, ChangeInv, NEW b \in Builders, RebuildLists(b)
  PROVE  ChangeInv'
<1> DEFINE n == Len(builds[b].seen) + 1
<1>1. builds[b] # None /\ UNCHANGED <<store, notices, ready, newest>>
  BY DEF RebuildLists
<1>2. n \in 1..Len(ListOrder) /\ builds[b].seen \in Seq(Versions) /\ Len(builds[b].seen) \in Nat
  BY ListedMore DEF Listed, Builds
<1>3. ListOrder[n] \in Kinds /\ store[ListOrder[n]] \in Versions /\ store[ListOrder[n]] \in Nat
  BY <1>2, ListedKind, Numbers DEF StoreInv, StoresInv
<1>4. /\ builds'[b].seen = Append(builds[b].seen, store[ListOrder[n]])
      /\ \A c \in Builders : c # b => builds'[c] = builds[c]
  BY ListedMore
<1>5. /\ Len(builds'[b].seen) = n /\ builds'[b].seen[n] = store[ListOrder[n]]
      /\ \A i \in 1..Len(builds[b].seen) : builds'[b].seen[i] = builds[b].seen[i]
  <2> DEFINE v == store[ListOrder[n]]
             l == builds[b].seen
  <2> HIDE DEF v
  <2>1. v \in Versions
    BY <1>3 DEF v
  <2>2. Len(Append(l, v)) = Len(l) + 1 /\ Append(l, v)[Len(l) + 1] = v
        /\ \A i \in 1..Len(l) : Append(l, v)[i] = l[i]
    BY <1>2, <2>1
  <2> QED BY <1>2, <1>4, <2>2 DEF v
<1>6. builds'[b] # None
  BY ListedMore, NotNone
<1> HIDE DEF n
<1>7. NewestInv'
  BY <1>1 DEF ChangeInv, NewestInv
<1>8. ListedInv'
  <2> SUFFICES ASSUME NEW c \in Builders, builds'[c] # None, NEW i \in 1..Len(builds'[c].seen)
               PROVE  builds'[c].seen[i] <= store[ListOrder[i]]
    BY <1>1 DEF ListedInv
  <2>1. CASE c # b
    BY <1>4, <2>1 DEF ChangeInv, ListedInv
  <2>2. CASE c = b /\ i = n
    BY <1>3, <1>5, <2>2
  <2>3. CASE c = b /\ i # n
    <3>1. i \in 1..Len(builds[b].seen)
      BY <1>2, <1>5, <2>3 DEF n
    <3> QED BY <1>1, <1>5, <2>3, <3>1 DEF ChangeInv, ListedInv
  <2> QED BY <2>1, <2>2, <2>3
<1>9. PendingInv'
  <2> SUFFICES ASSUME NEW k \in Kinds, NEW c \in Builders, Covers(c, k)
               PROVE  Covers(c, k)'
    BY <1>1 DEF ChangeInv, PendingInv
  <2>1. CASE c # b
    BY <1>1, <1>4, <2>1 DEF Covers
  <2>2. CASE c = b
    <3>1. Place(k) \in Nat /\ Place(k) >= 1 /\ ListOrder[Place(k)] = k
      BY PlaceOfKind, Order
    <3>2. CASE Place(k) = n
      BY <1>1, <1>5, <1>6, <2>2, <3>1, <3>2 DEF Covers
    <3>3. CASE Place(k) # n /\ n >= Place(k)
      <4>1. Len(builds[b].seen) >= Place(k) /\ Place(k) \in 1..Len(builds[b].seen)
        BY <1>2, <3>1, <3>3 DEF n
      <4>2. builds[b].seen[Place(k)] = store[k]
        BY <2>2, <4>1 DEF Covers
      <4> QED BY <1>1, <1>5, <1>6, <2>2, <4>1, <4>2 DEF Covers
    <3>4. CASE ~(n >= Place(k))
      BY <1>5, <1>6, <2>2, <3>4 DEF Covers
    <3> QED BY <3>2, <3>3, <3>4
  <2> QED BY <2>1, <2>2
<1> QED BY <1>7, <1>8, <1>9 DEF ChangeInv

\* A rebuild publishes the store's version of every kind it covered: the step of
\* RebuildPublishes.
LEMMA PublishCovers ==
  ASSUME StoreInv, ChangeInv, NEW b \in Builders, RebuildPublishes(b)
  PROVE  ChangeInv'
<1>1. builds[b] # None /\ Len(builds[b].seen) = Len(ListOrder) /\ UNCHANGED <<store, notices, ready>>
  BY DEF RebuildPublishes
<1>2. builds'[b] = None /\ \A c \in Builders : c # b => builds'[c] = builds[c]
  BY DEF RebuildPublishes, StoreInv, BuildsInv
<1>3. ASSUME NEW k \in Kinds
      PROVE  /\ builds[b].seen[Place(k)] \in Nat /\ newest[k] \in Nat /\ store[k] \in Nat
             /\ newest[k] <= store[k] /\ builds[b].seen[Place(k)] <= store[k]
             /\ newest'[k] = IF builds[b].seen[Place(k)] > newest[k] THEN builds[b].seen[Place(k)] ELSE newest[k]
  <2>1. Place(k) \in 1..Len(builds[b].seen) /\ ListOrder[Place(k)] = k
    BY <1>1, PlaceOfKind
  <2>2. builds[b].seen[Place(k)] \in Nat /\ newest[k] \in Nat /\ store[k] \in Nat
    BY <1>1, <2>1, Numbers
  <2>3. newest[k] <= store[k]
    BY DEF ChangeInv, NewestInv
  <2>4. builds[b].seen[Place(k)] <= store[k]
    BY <1>1, <2>1 DEF ChangeInv, ListedInv
  <2>5. newest'[k] = IF builds[b].seen[Place(k)] > newest[k] THEN builds[b].seen[Place(k)] ELSE newest[k]
    BY DEF RebuildPublishes
  <2> QED BY <2>2, <2>3, <2>4, <2>5
<1>4. NewestInv'
  BY <1>1, <1>3 DEF NewestInv
<1>5. ListedInv'
  BY <1>1, <1>2 DEF ChangeInv, ListedInv
<1>6. PendingInv'
  <2> SUFFICES ASSUME ready, NEW k \in Kinds, newest'[k] < store[k]
               PROVE  notices[k] > 0 \/ \E c \in Builders : Covers(c, k)'
    BY <1>1 DEF PendingInv
  <2>1. newest[k] < store[k] /\ builds[b].seen[Place(k)] # store[k]
    BY <1>3
  <2>2. ~Covers(b, k)
    <3>1. Len(builds[b].seen) >= Place(k)
      BY <1>1, PlaceOfKind, Order
    <3> QED BY <2>1, <3>1 DEF Covers
  <2>3. \A c \in Builders : c # b /\ Covers(c, k) => Covers(c, k)'
    BY <1>1, <1>2 DEF Covers
  <2> QED BY <2>1, <2>2, <2>3 DEF ChangeInv, PendingInv
<1> QED BY <1>4, <1>5, <1>6 DEF ChangeInv

\* Every step keeps the argument.
LEMMA ChangeStep == StoreInv /\ ChangeInv /\ [Next]_vars => ChangeInv'
<1> SUFFICES ASSUME StoreInv, ChangeInv, [Next]_vars PROVE ChangeInv'
  OBVIOUS
<1> USE DEF worldVars, storeVars, envoyVars, kubeVars, sendVars
<1>1. ASSUME UNCHANGED <<store, notices, ready, builds, newest>> PROVE ChangeInv'
  BY <1>1 DEF ChangeInv, NewestInv, ListedInv, PendingInv, Covers
<1>2. ASSUME NEW k \in Kinds, Refresh(k) PROVE ChangeInv'
  <2>1. CASE ready
    BY <1>2, <2>1, BeginCovers DEF Refresh, Builders
  <2>2. CASE ~ready
    BY <1>2, <2>2 DEF Refresh, ChangeInv, NewestInv, ListedInv, PendingInv
  <2> QED BY <2>1, <2>2
<1>3. CASE Synced
  BY <1>3, BeginCovers DEF Synced, Builders
<1>4. ASSUME NEW k \in Kinds, ListAndWatch(k) PROVE ChangeInv'
  BY <1>4, WatchPends
<1>5. ASSUME NEW b \in Builders, Rebuild(b) PROVE ChangeInv'
  BY <1>5, ListCovers, PublishCovers DEF Rebuild
<1>6. CASE AgentDies
  <2> USE <1>6 DEF AgentDies, Crash
  <2>1. NewestInv'
    BY DEF NewestInv, NoVersions
  <2>2. ListedInv'
    BY DEF ListedInv, NoBuilds, Builders
  <2>3. PendingInv'
    BY DEF PendingInv
  <2> QED BY <2>1, <2>2, <2>3 DEF ChangeInv
<1>7. ASSUME NEW k \in Kinds, Change(k) PROVE ChangeInv'
  BY <1>1, <1>7 DEF Change
<1>8. CASE Start
  BY <1>1, <1>8 DEF Start
<1>9. ASSUME NEW r, AnswerFromCache(r) \/ BeginFetch(r) \/ Fetch(r) PROVE ChangeInv'
  BY <1>1, <1>9 DEF AnswerFromCache, BeginFetch, Fetch, FetchSucceeds, FetchFails
<1>10. CASE ReadPart \/ SendNotReady \/ Send \/ UploadArrives \/ UploadTimesOut
  BY <1>1, <1>10 DEF ReadPart, SendNotReady, Send, UploadArrives, UploadTimesOut
<1>11. CASE \E u \in late : LateArrives(u) \/ LateLost(u)
  BY <1>1, <1>11 DEF LateArrives, LateLost
<1>12. CASE UNCHANGED vars
  BY <1>1, <1>12 DEF vars
<1> QED BY <1>2, <1>3, <1>4, <1>5, <1>6, <1>7, <1>8, <1>9, <1>10, <1>11, <1>12
       DEF Next, Kube, Builders

-----------------------------------------------------------------------------
(* Theorems                                                                *)

\* The five inductive invariants hold together in every behaviour.
LEMMA Invariance == Spec => [](StoreInv /\ EnvoyInv /\ LabelInv /\ UploadInv /\ ChangeInv)
<1>1. Init => StoreInv /\ EnvoyInv /\ LabelInv /\ UploadInv /\ ChangeInv
  BY StoreInit, EnvoyInit, LabelInit, UploadInit, ChangeInit
<1>2. StoreInv /\ EnvoyInv /\ LabelInv /\ UploadInv /\ ChangeInv /\ [Next]_vars
        => (StoreInv /\ EnvoyInv /\ LabelInv /\ UploadInv /\ ChangeInv)'
  BY StoreStep, EnvoyStep, LabelStep, UploadStep, ChangeStep
<1> QED BY <1>1, <1>2, PTL DEF Spec

\* The state of the store, of the cache and of the uploads has the types declared for
\* it: a rebuild lists at most the stores there are, SendOnce reads at most four parts.
THEOREM TypeCorrect == Spec => []TypeOK
<1>1. StoreInv /\ EnvoyInv /\ UploadInv => TypeOK
  <2> SUFFICES ASSUME StoreInv, EnvoyInv, UploadInv PROVE TypeOK
    OBVIOUS
  <2>1. cluster \in [Kinds -> Versions] /\ changes \in 0..MaxChanges
    BY DEF StoreInv, ClusterInv
  <2>2. /\ running \in BOOLEAN /\ ready \in BOOLEAN
        /\ available \subseteq OptionalKinds /\ faults \in 0..MaxFaults
    BY DEF StoreInv, ProcessInv
  <2>3. store \in [Kinds -> Versions] /\ notices \in [Kinds -> Nat]
    BY DEF StoreInv, StoresInv
  <2>4. \A b \in Kinds \cup {Main} :
           builds[b] # None => builds[b] \in Builds /\ Len(builds[b].seen) <= Len(ListOrder)
    BY DEF StoreInv, BuildsInv, Builders, Listed
  <2>5. snapshot \in Snapshots /\ newest \in [Kinds -> Versions]
    BY DEF StoreInv, PublishedInv
  <2>6. cache \in Configs \cup {None}
    BY DEF EnvoyInv, Cached
  <2>7. \A r \in Readers :
           calls[r] # None => calls[r].label \in Versions /\ calls[r].pods \in Seq(Pods)
    BY DEF EnvoyInv, Fetching
  <2>8. KubeTypeOK
    BY <2>1, <2>2, <2>3, <2>4, <2>5, <2>6, <2>7 DEF KubeTypeOK
  <2>9. parts \in Seq(Snapshots) /\ Len(parts) <= Len(Parts)
    BY FourParts DEF UploadInv
  <2>10. posted \in Uploads \cup {None} /\ late \subseteq Uploads /\ received \in Uploads \cup {None}
    BY DEF UploadInv, Whole
  <2> QED BY <2>8, <2>9, <2>10 DEF TypeOK
<1> QED BY <1>1, Invariance, PTL

\* No change of the cluster escapes the rebuilds, however the informers' rebuilds
\* overlap and whatever was dropped before ready: once no event waits and no rebuild
\* runs, the newest version of every store has been published.
THEOREM EveryChangePublished == Spec => []NoMissedChange
<1>1. StoreInv /\ ChangeInv => NoMissedChange
  <2> SUFFICES ASSUME StoreInv, ChangeInv, ready,
                      \A k \in Kinds : notices[k] = 0, \A b \in Builders : builds[b] = None
               PROVE  newest = store
    BY DEF NoMissedChange, Builders
  <2>1. ASSUME NEW k \in Kinds PROVE newest[k] = store[k]
    <3>1. newest[k] \in Nat /\ store[k] \in Nat /\ newest[k] <= store[k]
      BY Numbers DEF ChangeInv, NewestInv
    <3>2. ~(notices[k] > 0) /\ \A b \in Builders : ~Covers(b, k)
      BY DEF Covers
    <3>3. ~(newest[k] < store[k])
      BY <3>2 DEF ChangeInv, PendingInv
    <3> QED BY <3>1, <3>3
  <2> QED BY <2>1 DEF StoreInv, PublishedInv, StoresInv
<1> QED BY <1>1, Invariance, PTL

\* However rebuilds overlap, uploads are torn, and late ones arrive: every part of what
\* the Server has or may get carries a label, and holds at least what the Agent's stores
\* held at the time of that label.
THEOREM UploadsCoverTheirLabels == Spec => []LabelsAreCovered
<1>1. UploadInv => LabelsAreCovered
  BY FourParts DEF UploadInv, Whole, Sound, LabelsAreCovered, AllUploads
<1> QED BY <1>1, Invariance, PTL

\* No crash, restart or late upload makes the Server replace what it knows of the kinds
\* Run waits for by the empty lists of an Agent that has just started, in any part.
THEOREM ServerKeepsTheCore == Spec => []CoreNeverForgotten
<1>1. UploadInv => CoreNeverForgotten
  BY FourParts DEF UploadInv, Whole, Sound, CoreNeverForgotten, AllUploads
<1> QED BY <1>1, Invariance, PTL

\* A cached Envoy configuration is of a Pod of the snapshot it is labelled with, for
\* any number of concurrent calls and of Pods that do not answer.
THEOREM CacheLabelTrue == Spec => []ConfigMatchesItsSnapshot
<1>1. EnvoyInv => ConfigMatchesItsSnapshot
  BY DEF EnvoyInv, Cached, ConfigMatchesItsSnapshot
<1> QED BY <1>1, Invariance, PTL

=============================================================================
