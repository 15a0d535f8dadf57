-------------------------- MODULE SnapshotPipeline --------------------------
(***************************************************************************)
(* From the cluster to the Server: KubeStore, the upload loop of           *)
(* internal/agent/agent.go and ReceiveSnapshot of                          *)
(* internal/federation/store.go, for one cluster.                          *)
(*                                                                         *)
(* SendOnce reads the four parts of its upload (context, topology,         *)
(* findings, resources) under four read locks, so that a rebuild may       *)
(* publish between any two of them.  An upload may be lost, and one whose  *)
(* sender has given up after the client's 15 seconds may still arrive,     *)
(* after later ones.                                                       *)
(***************************************************************************)
EXTENDS KubeStore

VARIABLES
    parts,      \* the snapshots SendOnce has read its parts from so far
    posted,     \* the upload SendOnce waits for, or None
    late,       \* uploads nobody waits for any more
    received    \* the Server's snapshot of the cluster, or None

sendVars == <<parts, posted>>
vars == <<kubeVars, sendVars, received, late>>

\* The parts of an upload, in the order SendOnce reads them.
Parts == <<"context", "topology", "findings", "resources">>
Uploads == [1..Len(Parts) -> Snapshots]

TypeOK ==
    /\ KubeTypeOK
    /\ parts \in Seq(Snapshots) /\ Len(parts) <= Len(Parts)
    /\ posted \in Uploads \cup {None}
    /\ late \subseteq Uploads
    /\ received \in Uploads \cup {None}

Init ==
    /\ KubeInit
    /\ parts = <<>> /\ posted = None
    /\ late = {}
    /\ received = None

-----------------------------------------------------------------------------
(* SendOnce and the network                                                *)

\* The context or the topology that was read has no snapshot ID.
NotReady == Len(parts) = 2 /\ \E i \in 1..2 : ~parts[i].labelled

\* SendOnce reads the next part of the published snapshot.
ReadPart ==
    /\ running /\ posted = None
    /\ Len(parts) < Len(Parts) /\ ~NotReady
    /\ parts' = Append(parts, snapshot)
    /\ UNCHANGED <<kubeVars, posted, received, late>>

\* SendOnce returns errLocalSnapshotNotReady; Run tries again later.
SendNotReady ==
    /\ running /\ NotReady
    /\ parts' = <<>>
    /\ UNCHANGED <<kubeVars, posted, received, late>>

\* SendOnce posts what it has read.
Send ==
    /\ running /\ posted = None
    /\ Len(parts) = Len(Parts)
    /\ posted' = parts
    /\ parts' = <<>>
    /\ UNCHANGED <<kubeVars, received, late>>

\* Mutant: an upload whose resources the Server already has is taken for a duplicate.
ReceiveIfChanged(upload) ==
    received' = IF received # None /\ received[4] = upload[4] THEN received ELSE upload

\* ReceiveSnapshot replaces what the Server has of the cluster.
Receive(upload) == received' = upload

\* The upload arrives and is acknowledged; Run waits for the next interval.
UploadArrives ==
    /\ posted # None
    /\ Receive(posted)
    /\ posted' = None
    /\ UNCHANGED <<kubeVars, parts, late>>

\* SendOnce gives up an upload that is still under way.
UploadTimesOut ==
    /\ posted # None
    /\ faults < MaxFaults
    /\ faults' = faults + 1
    /\ late' = late \cup {posted}
    /\ posted' = None
    /\ UNCHANGED <<worldVars, running, storeVars, envoyVars, parts, received>>

\* An upload nobody waits for arrives.
LateArrives(upload) ==
    /\ Receive(upload)
    /\ late' = late \ {upload}
    /\ UNCHANGED <<kubeVars, sendVars>>

\* An upload nobody waits for is lost, or refused.
LateLost(upload) ==
    /\ late' = late \ {upload}
    /\ UNCHANGED <<kubeVars, sendVars, received>>

\* The Agent dies; its upload may be on its way.
AgentDies ==
    /\ Crash
    /\ parts' = <<>> /\ posted' = None
    /\ late' = IF posted = None THEN late ELSE late \cup {posted}
    /\ UNCHANGED received

-----------------------------------------------------------------------------

\* A step of the Agent's store alone.
Kube(step) == step /\ UNCHANGED <<sendVars, received, late>>

Rebuild(b) == RebuildLists(b) \/ RebuildPublishes(b)
Fetch(r) == FetchSucceeds(r) \/ FetchFails(r)

Next ==
    \/ \E k \in Kinds : Kube(Change(k)) \/ Kube(ListAndWatch(k)) \/ Kube(Refresh(k))
    \/ Kube(Start) \/ Kube(Synced)
    \/ \E b \in Kinds \cup {Main} : Kube(Rebuild(b))
    \/ \E r \in Readers : Kube(AnswerFromCache(r)) \/ Kube(BeginFetch(r)) \/ Kube(Fetch(r))
    \/ ReadPart \/ SendNotReady \/ Send
    \/ UploadArrives \/ UploadTimesOut
    \/ \E upload \in late : LateArrives(upload) \/ LateLost(upload)
    \/ AgentDies

Spec == Init /\ [][Next]_vars

\* The goroutines of a live process and the informers' connections go on, and an
\* upload that is under way arrives, is lost or is given up.  Nothing makes the
\* cluster change, the process die or a reader call.
Fairness ==
    /\ WF_vars(Kube(Start))
    /\ \A k \in Kinds : WF_vars(Kube(ListAndWatch(k))) /\ WF_vars(Kube(Refresh(k)))
    /\ WF_vars(Kube(Synced))
    /\ \A b \in Kinds \cup {Main} : WF_vars(Kube(Rebuild(b)))
    /\ WF_vars(ReadPart \/ SendNotReady \/ Send)
    /\ WF_vars(UploadArrives)
    /\ WF_vars(\E upload \in late : LateArrives(upload) \/ LateLost(upload))

FairSpec == Spec /\ Fairness

-----------------------------------------------------------------------------
(* Properties                                                              *)

\* No change of the cluster escapes: when no event waits and no rebuild runs, the
\* newest version of every store has been published, the events that were
\* dropped before ready included.
NoMissedChange ==
    (ready /\ (\A k \in Kinds : notices[k] = 0) /\ (\A b \in Kinds \cup {Main} : builds[b] = None))
        => newest = store

\* The uploads the Server has, waits for or may still get.
AllUploads == late \cup ({posted, received} \ {None})

\* Whatever changes while a rebuild lists the stores and however rebuilds overlap, every
\* part of an upload holds at least what the stores held at the time of its own label.
\* Nothing more holds across the parts: the context may be labelled with a later time
\* than the topology that was published after it.
LabelsAreCovered ==
    \A upload \in AllUploads : \A i \in DOMAIN upload : upload[i].labelled /\ upload[i].asNew

\* Whatever an Agent's death and late uploads do, no upload that the Server has or may
\* get lacks a kind Run waits for: the Services, EndpointSlices and Namespaces of a
\* cluster are never replaced by the empty lists of an Agent that has just started.
\* The other kinds may be missing from the first snapshots of a process.
CoreNeverForgotten ==
    \A upload \in AllUploads : \A i \in DOMAIN upload :
        \A k \in CoreKinds : upload[i].seen[Place(k)] > 0

\* A cached configuration names a Pod of the snapshot it is labelled with, although
\* the snapshot may have been replaced while it was fetched.
ConfigMatchesItsSnapshot == cache # None => cache.pod \in Range(PodsAt[cache.label])

\* Whatever was torn, lost or late: once the cluster is quiet the Server has, in all
\* four parts, the snapshot that the Agent serves.
ServerFollowsAgent ==
    <>[](received # None /\ \A i \in DOMAIN received : received[i] = snapshot)

\* ADR 0007: what is shown changes with the real gateway configuration by itself.
\* Once the cluster is quiet, the Agent serves what its stores hold.
FollowsCluster ==
    <>[](\A i \in DOMAIN ListOrder : snapshot.seen[i] = store[ListOrder[i]])

=============================================================================
