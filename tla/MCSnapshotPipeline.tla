------------------------- MODULE MCSnapshotPipeline -------------------------
(* Instances of SnapshotPipeline for TLC.                                  *)
EXTENDS SnapshotPipeline

CONSTANTS services, pods, p1, p2, r1

\* Pods is a kind Run does not wait for, services is one it waits for.
OnlyPods == <<pods>>
ServicesThenPods == <<services, pods>>

\* The first of the gateway's two Pods leaves.
PodLeaves ==
    [v \in 0..MaxChanges + 1 |->
        CASE v = 0 -> <<>> [] v = 1 -> <<p1, p2>> [] OTHER -> <<p2>>]

=============================================================================
