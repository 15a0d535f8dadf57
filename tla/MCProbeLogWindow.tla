-------------------------- MODULE MCProbeLogWindow --------------------------
(* Instances of ProbeLogWindow for TLC.                                    *)
EXTENDS ProbeLogWindow

CONSTANTS s1, s2, r, t, ctx

\* A request that is redirected (r) and then answered (t).
OneContext == [l \in {r, t} |-> ctx]

=============================================================================
