-------------------------- MODULE MCCommandSystem --------------------------
(* Instances of CommandSystem for TLC.                                     *)
EXTENDS CommandSystem, TLC

CONSTANTS k1, k2, p, q, o1, o2, e1, e2, h1, h2

\* A probe that observes two other gateways of its cluster.
FanKind == [c \in {p, o1, o2} |-> IF c = p THEN "http" ELSE "observe"]
FanCluster == [c \in {p, o1, o2} |-> k1]
FanSource == [c \in {o1, o2} |-> p]
NoBody3 == [c \in {p, o1, o2} |-> 0]

\* A probe and an observation in another cluster.
PairKind == [c \in {p, o1} |-> IF c = p THEN "http" ELSE "observe"]
PairCluster == [c \in {p, o1} |-> IF c = p THEN k1 ELSE k2]
PairSource == [c \in {o1} |-> p]
NoBody2 == [c \in {p, o1} |-> 0]

\* Two reads of Envoy configurations of one cluster.
EnvoyKind == [c \in {e1, e2} |-> "envoy"]
EnvoyCluster == [c \in {e1, e2} |-> k1]
NoSource == [c \in {} |-> p]
NoBodyE == [c \in {e1, e2} |-> 0]

\* Two probes: p with the largest body CreateProbe admits, q without one.
BodyKind == [c \in {p, q} |-> "http"]
BodyCluster == [c \in {p, q} |-> k1]
FullBody == [c \in {p, q} |-> IF c = p THEN MaxBodySize ELSE 0]

HandlerSymmetry == Permutations(Handlers)
EnvoySymmetry == Permutations(Handlers) \cup Permutations({e1, e2})

=============================================================================
