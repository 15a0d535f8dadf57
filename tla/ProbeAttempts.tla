--------------------------- MODULE ProbeAttempts ---------------------------
(***************************************************************************)
(* The analysis of a probe's access-log records                            *)
(* (internal/observed/probe_attempts.go): the records of a gateway segment *)
(* are split into request contexts, the attempts of a context are ordered  *)
(* and linked, and the final response is attributed to a record.           *)
(*                                                                         *)
(* A hop is a record of the access log:                                    *)
(*   id, source (runtime), log (log source), pod, seq (place in the log),  *)
(*   start, remote, local (the request's identity), redirect, code,        *)
(*   correlation, at (the text of the observation time, by its rank among  *)
(*   strings), and the upstream host and cluster.                          *)
(* The empty string, the empty sequence and 0 stand for an absent value.   *)
(***************************************************************************)
EXTENDS Integers, Selection, SequencesExt

(* Issues are told apart by scope, code and context, as AppendProbeIssue   *)
(* does; 0 is no context.                                                  *)
Issue(scope, code, context) == [scope |-> scope, code |-> code, context |-> context]

(* A line of the access log belongs to the probe by its probe ID; its      *)
(* trace ID counts only when it carries no probe ID at all.                *)
Correlation(line, probe) ==
    IF line.probeID # "" THEN IF line.probeID = probe THEN "probe-id" ELSE ""
    ELSE IF line.traceID = probe THEN "trace-id" ELSE ""

BreaksLogOrder(issue) == issue.code \in {"log-source-rotated", "log-window-truncated", "log-order-unconfirmed"}

(* Records of one runtime, whatever the request.                           *)
RuntimeKey(hop) == <<hop.source, IF hop.source = "" THEN <<hop.log, hop.pod>> ELSE <<>>>>

(* Records of one runtime with the same start time and addresses.          *)
ContextKey(hop) ==
    <<hop.source, IF hop.source = "" THEN <<hop.log, hop.pod>> ELSE <<>>, hop.start, hop.remote, hop.local>>

(* Where a request context first occurs.                                  *)
ContextPlaces(hops) == {i \in DOMAIN hops : \A j \in 1..(i - 1) : ContextKey(hops[j]) # ContextKey(hops[i])}

IdentityComplete(hop) == hop.source # "" /\ hop.start # 0 /\ hop.remote # ""

(* The log order of a context counts only within one log source, with      *)
(* distinct places and without an issue that breaks it.                    *)
Ordered(records, issues) ==
    /\ \A i \in DOMAIN records : /\ IdentityComplete(records[i]) /\ records[i].log # "" /\ records[i].seq > 0
                                 /\ records[i].log = records[1].log
    /\ \A i, j \in DOMAIN records : i # j => records[i].seq # records[j].seq
    /\ \A issue \in issues : ~BreaksLogOrder(issue)

(* One request context, in log order when ordered: its relation state,     *)
(* links, terminal and issues.                                             *)
relatedGroup(name, records, ordered, collection, issues) ==
    LET n == Len(records)
        redirects == {i \in 1..n : records[i].redirect}
        terminals == (1..n) \ redirects
        invalidOrder == ordered /\ \E i \in terminals : i < n
        ambiguous == Cardinality(terminals) > 1 \/ invalidOrder
        missing == redirects # {} /\ (terminals = {} \/ (ordered /\ n \in redirects))
        state == CASE ambiguous -> "ambiguous"
                   [] ~ambiguous /\ missing -> "missing-next"
                   [] ~ambiguous /\ ~missing /\ ordered /\ (redirects # {} \/ n = 1) -> "linked"
                   [] OTHER -> "unconfirmed"
        Relation(code, holds) == IF holds THEN {Issue("relation", code, name)} ELSE {}
    IN  [name |-> name, state |-> state, ids |-> {records[i].id : i \in 1..n},
         exact |-> \A i \in 1..n : records[i].correlation = "probe-id",
         links |-> IF ordered /\ ~ambiguous THEN {<<records[i].id, records[i + 1].id>> : i \in redirects \ {n}} ELSE {},
         terminal |-> IF /\ state = "linked" /\ Cardinality(terminals) = 1
                         /\ collection = "settled" /\ issues = {}
                      THEN records[CHOOSE i \in terminals : TRUE] .id ELSE <<>>,
         issues |-> Relation("request-identity-incomplete", ~ordered /\ \E i \in 1..n : ~IdentityComplete(records[i]))
                    \cup Relation("attempt-order-unconfirmed", ~ordered \/ (state = "unconfirmed" /\ n > 1))
                    \cup Relation("terminal-ambiguous", ambiguous)
                    \cup Relation("redirect-next-missing", state = "missing-next")]

(* sort.SliceStable by the place in the log.                               *)
InLogOrder(bucket) ==
    LET order == Ranked(DOMAIN bucket, {p \in (DOMAIN bucket) \X (DOMAIN bucket) : bucket[p[1]].seq < bucket[p[2]].seq})
    IN  [n \in DOMAIN order |-> bucket[order[n]]]

attemptGroup(name, bucket, collection, issues) ==
    IF Ordered(bucket, issues)
    THEN relatedGroup(name, InLogOrder(bucket), TRUE, collection, issues)
    ELSE relatedGroup(name, bucket, FALSE, collection, issues)

attemptGroups(hops, collection, issues) ==
    LET places == ContextPlaces(hops)
        Bucket(i) == At(hops, {j \in DOMAIN hops : ContextKey(hops[j]) = ContextKey(hops[i])})
    IN  [n \in 1..Cardinality(places) |-> attemptGroup(n, Bucket(Nth(places, n)), collection, issues)]

relationRank(state) == CASE state = "ambiguous" -> 3 [] state = "unconfirmed" -> 2 [] state = "missing-next" -> 1 [] OTHER -> 0

(* Every issue of an earlier analysis is kept.                             *)
RetainedAll(segment) == segment.issues

(* Relation issues of an earlier analysis are dropped, collection facts    *)
(* are kept.                                                               *)
Retained(segment) == {issue \in segment.issues : issue.scope # "relation"}

(* Hop IDs are made global once: a hop already under its gateway keeps its *)
(* ID, one without an ID is named by its place.                            *)
GlobalHop(gateway, hop, i) ==
    LET local == IF hop.id = <<>> THEN <<"record", i>> ELSE hop.id
    IN  [hop EXCEPT !.id = IF IsPrefix(gateway, local) THEN local ELSE gateway \o local]

(* What a segment's contexts say together: the worst relation counts.      *)
Grouped(segment, groups) ==
    LET states == {groups[i].state : i \in DOMAIN groups} \cup {"linked"}
    IN  [segment EXCEPT
           !.issues = @ \cup UNION {groups[i].issues : i \in DOMAIN groups},
           !.links = UNION {groups[i].links : i \in DOMAIN groups},
           !.terminals = {groups[i].terminal : i \in DOMAIN groups} \ {<<>>},
           !.relation = IF groups = <<>> THEN "unconfirmed"
                        ELSE CHOOSE s \in states : \A other \in states : relationRank(other) <= relationRank(s),
           !.groups = groups]

EnrichSegment(segment) ==
    LET hops == [i \in DOMAIN segment.hops |-> GlobalHop(segment.gateway, segment.hops[i], i)]
    IN  Grouped([segment EXCEPT !.hops = hops, !.issues = Retained(segment)],
                attemptGroups(hops, segment.collection, Retained(segment)))

(* The last context of the segment instead of its only one.                *)
FinalHopOfLast(execution, segment) ==
    LET group == Last(segment.groups)
        hops == {h \in ToSet(segment.hops) : h.id = group.terminal /\ h.code = execution.code}
    IN  IF \/ execution.state # "completed" \/ execution.code <= 0 \/ segment.gateway # execution.gateway
           \/ segment.groups = <<>> \/ segment.issues # {} \/ hops = {}
        THEN <<>> ELSE group.terminal

(* The record the response is attributed to, if any: the only context of   *)
(* the source gateway, without issues, correlated by probe ID throughout,  *)
(* with the response code the Agent measured.                              *)
FinalHop(execution, segment) ==
    LET group == segment.groups[1]
        hops == {h \in ToSet(segment.hops) : h.id = group.terminal /\ h.code = execution.code}
    IN  IF \/ execution.state # "completed" \/ execution.code <= 0 \/ segment.gateway # execution.gateway
           \/ Len(segment.groups) # 1 \/ segment.issues # {}
        THEN <<>>
        ELSE IF group.exact /\ hops # {} THEN group.terminal ELSE <<>>

(* The final response, and the final upstream when no other gateway is on  *)
(* the path.                                                               *)
Concluded(execution) ==
    LET finals == {FinalHop(execution, segment) : segment \in ToSet(execution.segments)} \ {<<>>}
        final == IF finals = {} THEN <<>> ELSE CHOOSE id \in finals : TRUE
    IN  [execution EXCEPT !.finalResponse = final,
                          !.finalUpstream = IF Len(execution.segments) = 1 /\ execution.issues = {} THEN final ELSE <<>>]

EnrichProbe(execution) ==
    Concluded([execution EXCEPT !.segments = [i \in DOMAIN @ |-> EnrichSegment(@[i])]])
=============================================================================
