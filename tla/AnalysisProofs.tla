--------------------------- MODULE AnalysisProofs ---------------------------
(***************************************************************************)
(* What the analysis of a probe's records yields, for any records: the     *)
(* contexts it finds, their links and terminals, the issues it adds, and   *)
(* that a second analysis changes nothing (ProbeAttempts).                 *)
(***************************************************************************)
EXTENDS ProbeAssociation, SelectionProofs

-----------------------------------------------------------------------------
(* Analysing a segment                                                     *)

\* A gateway segment: a record of exactly these fields.
IsSegment(s) ==
    s = [gateway |-> s.gateway, hops |-> s.hops, collection |-> s.collection, issues |-> s.issues,
         inference |-> s.inference, links |-> s.links, terminals |-> s.terminals,
         relation |-> s.relation, groups |-> s.groups]

GlobalHops(s) == [i \in DOMAIN s.hops |-> GlobalHop(s.gateway, s.hops[i], i)]
GroupsOf(s) == attemptGroups(GlobalHops(s), s.collection, Retained(s))
GroupIssues(groups) == UNION {groups[i].issues : i \in DOMAIN groups}
GroupLinks(groups) == UNION {groups[i].links : i \in DOMAIN groups}
GroupTerminals(groups) == {groups[i].terminal : i \in DOMAIN groups} \ {<<>>}
WorstRelation(groups) ==
    LET states == {groups[i].state : i \in DOMAIN groups} \cup {"linked"}
    IN  IF groups = <<>> THEN "unconfirmed"
        ELSE CHOOSE s \in states : \A other \in states : relationRank(other) <= relationRank(s)

\* An analysed segment, field by field.
LEMMA EnrichedFields ==
  ASSUME NEW s, IsSegment(s)
  PROVE  EnrichSegment(s) =
           [gateway |-> s.gateway, hops |-> GlobalHops(s), collection |-> s.collection,
            issues |-> Retained(s) \cup GroupIssues(GroupsOf(s)), inference |-> s.inference,
            links |-> GroupLinks(GroupsOf(s)), terminals |-> GroupTerminals(GroupsOf(s)),
            relation |-> WorstRelation(GroupsOf(s)), groups |-> GroupsOf(s)]
<1> DEFINE hops1 == GlobalHops(s)
           issues1 == Retained(s)
           groups1 == GroupsOf(s)
           links1 == GroupLinks(groups1)
           terminals1 == GroupTerminals(groups1)
           relation1 == WorstRelation(groups1)
           base == [s EXCEPT !.hops = hops1, !.issues = issues1]
           issues2 == base.issues \cup GroupIssues(groups1)
           gateway == s.gateway
           collection == s.collection
           inference == s.inference
           Segment(h, i, l, t, r, g) ==
             [gateway |-> gateway, hops |-> h, collection |-> collection, issues |-> i,
              inference |-> inference, links |-> l, terminals |-> t, relation |-> r, groups |-> g]
           s1 == [s EXCEPT !.hops = hops1]
           s2 == [s1 EXCEPT !.issues = issues1]
           s3 == [base EXCEPT !.issues = issues2]
           s4 == [s3 EXCEPT !.links = links1]
           s5 == [s4 EXCEPT !.terminals = terminals1]
           s6 == [s5 EXCEPT !.relation = relation1]
           s7 == [s6 EXCEPT !.groups = groups1]
<1>1. EnrichSegment(s) = Grouped(base, groups1)
  BY Zenon DEF EnrichSegment, GlobalHops, GroupsOf
<1>2. Grouped(base, groups1) = [base EXCEPT !.issues = issues2, !.links = links1, !.terminals = terminals1,
                                            !.relation = relation1, !.groups = groups1]
  <2> HIDE DEF base, groups1
  <2> QED BY Zenon DEF Grouped, GroupIssues, GroupLinks, GroupTerminals, WorstRelation
<1> HIDE DEF hops1, issues1, groups1, links1, terminals1, relation1
<1>3. base = s2
  OBVIOUS
<1>4. [base EXCEPT !.issues = issues2, !.links = links1, !.terminals = terminals1,
                   !.relation = relation1, !.groups = groups1] = s7
  <2> HIDE DEF base, issues2
  <2> QED OBVIOUS
<1> DEFINE hops == s.hops
           issues == s.issues
           links == s.links
           terminals == s.terminals
           relation == s.relation
           groups == s.groups
<1>5. s = Segment(hops, issues, links, terminals, relation, groups)
  BY Zenon DEF IsSegment
<1> HIDE DEF gateway, hops, collection, issues, inference, links, terminals, relation, groups
<1>6. s1 = Segment(hops1, issues, links, terminals, relation, groups)
  BY <1>5
<1> HIDE DEF s1
<1>7. s2 = Segment(hops1, issues1, links, terminals, relation, groups)
  BY <1>6
<1> HIDE DEF s2, base
<1>8. issues2 = issues1 \cup GroupIssues(groups1)
  BY <1>3, <1>7
<1> HIDE DEF issues2
<1>9. s3 = Segment(hops1, issues2, links, terminals, relation, groups)
  BY <1>3, <1>7
<1> HIDE DEF s3
<1>10. s4 = Segment(hops1, issues2, links1, terminals, relation, groups)
  BY <1>9
<1> HIDE DEF s4
<1>11. s5 = Segment(hops1, issues2, links1, terminals1, relation, groups)
  BY <1>10
<1> HIDE DEF s5
<1>12. s6 = Segment(hops1, issues2, links1, terminals1, relation1, groups)
  BY <1>11
<1> HIDE DEF s6
<1>13. s7 = Segment(hops1, issues2, links1, terminals1, relation1, groups1)
  BY <1>12
<1> HIDE DEF s7
<1> QED BY <1>1, <1>2, <1>4, <1>8, <1>13, Zenon
        DEF hops1, issues1, groups1, links1, terminals1, relation1, gateway, collection, inference

\* What a context adds to the issues is about relations.
LEMMA GroupIssuesScope ==
  ASSUME NEW hops, NEW collection, NEW issues, NEW issue \in GroupIssues(attemptGroups(hops, collection, issues))
  PROVE  issue.scope = "relation"
<1> DEFINE groups == attemptGroups(hops, collection, issues)
<1>1. \A name, records, ordered : \A i \in relatedGroup(name, records, ordered, collection, issues).issues : i.scope = "relation"
  BY DEF relatedGroup, Issue
<1>2. \A name, bucket : \A i \in attemptGroup(name, bucket, collection, issues).issues : i.scope = "relation"
  <2> SUFFICES ASSUME NEW name, NEW bucket, NEW i \in attemptGroup(name, bucket, collection, issues).issues
               PROVE  i.scope = "relation"
    OBVIOUS
  <2>1. CASE Ordered(bucket, issues)
    <3>1. attemptGroup(name, bucket, collection, issues) = relatedGroup(name, InLogOrder(bucket), TRUE, collection, issues)
      BY <2>1, Zenon DEF attemptGroup
    <3> QED BY <1>1, <3>1
  <2>2. CASE ~Ordered(bucket, issues)
    <3>1. attemptGroup(name, bucket, collection, issues) = relatedGroup(name, bucket, FALSE, collection, issues)
      BY <2>2, Zenon DEF attemptGroup
    <3> QED BY <1>1, <3>1
  <2> QED BY <2>1, <2>2
<1>3. \A n \in DOMAIN groups : \E name, bucket : groups[n] = attemptGroup(name, bucket, collection, issues)
  BY DEF attemptGroups
<1> HIDE DEF groups
<1>4. PICK n \in DOMAIN groups : issue \in groups[n].issues
  BY DEF GroupIssues, groups
<1> QED BY <1>2, <1>3, <1>4
-----------------------------------------------------------------------------
(* Hops under their gateway                                                *)

\* A record of the access log: a record of exactly these fields.
IsHop(h) ==
    h = [id |-> h.id, source |-> h.source, log |-> h.log, pod |-> h.pod, seq |-> h.seq, start |-> h.start,
         remote |-> h.remote, local |-> h.local, redirect |-> h.redirect, code |-> h.code,
         correlation |-> h.correlation, at |-> h.at, host |-> h.host, cluster |-> h.cluster]

\* The same record under another ID.
Renamed(h, id) ==
    [id |-> id, source |-> h.source, log |-> h.log, pod |-> h.pod, seq |-> h.seq, start |-> h.start,
     remote |-> h.remote, local |-> h.local, redirect |-> h.redirect, code |-> h.code,
     correlation |-> h.correlation, at |-> h.at, host |-> h.host, cluster |-> h.cluster]

\* The words IDs are made of.
Words == ToSet(Alphabet) \cup {"record"} \cup Nat

\* The ID a hop has under its gateway.
GlobalName(gateway, local) == IF IsPrefix(gateway, local) THEN local ELSE gateway \o local

\* A gateway's ID begins every ID under it, and ends none.
LEMMA GlobalNames ==
  ASSUME NEW gateway \in Seq(Words), NEW local \in Seq(Words), local # <<>>
  PROVE  LET id == GlobalName(gateway, local)
         IN  /\ id \in Seq(Words) /\ id # <<>> /\ Len(id) \in Nat /\ Len(id) > 0
             /\ Last(id) = Last(local)
             /\ IsPrefix(gateway, id)
<1> DEFINE m == Len(gateway)
           n == Len(local)
           id == gateway \o local
<1>1. m \in Nat /\ n \in Nat /\ n > 0
  BY LenProperties, EmptySeq
<1>2. CASE IsPrefix(gateway, local)
  <2>1. GlobalName(gateway, local) = local
    BY <1>2, Zenon DEF GlobalName
  <2> QED BY <1>1, <1>2, <2>1
<1>3. CASE ~IsPrefix(gateway, local)
  <2>1. GlobalName(gateway, local) = id
    BY <1>3, Zenon DEF GlobalName
  <2>2. /\ id \in Seq(Words) /\ Len(id) = m + n
        /\ \A i \in 1..m + n : id[i] = IF i <= m THEN gateway[i] ELSE local[i - m]
    BY ConcatProperties
  <2> HIDE DEF id, m, n
  <2>3. Last(id) = Last(local)
    <3>1. id[m + n] = local[n]
      BY <1>1, <2>2
    <3> QED BY <3>1, <2>2, Zenon DEF Last, n
  <2>4. IsPrefix(gateway, id)
    <3>1. m <= Len(id)
      BY <1>1, <2>2
    <3>2. /\ \A i \in 1..m : gateway[i] \in Words
          /\ \A i \in 1..m : id[i] \in Words /\ id[i] = gateway[i]
      BY <1>1, <2>2, ElementOfSeq DEF m
    <3>3. /\ SubSeq(gateway, 1, m) \in Seq(Words) /\ SubSeq(id, 1, m) \in Seq(Words)
          /\ Len(SubSeq(gateway, 1, m)) = Len(SubSeq(id, 1, m))
          /\ Len(SubSeq(gateway, 1, m)) = IF 1 <= m THEN m - 1 + 1 ELSE 0
          /\ \A i \in 1..m - 1 + 1 : SubSeq(gateway, 1, m)[i] = gateway[1 + i - 1]
          /\ \A i \in 1..m - 1 + 1 : SubSeq(id, 1, m)[i] = id[1 + i - 1]
      BY <1>1, <3>2, SubSeqProperties
    <3>4. Len(SubSeq(gateway, 1, m)) = m /\ m - 1 + 1 = m /\ \A i \in 1..m : 1 + i - 1 = i
      BY <1>1, <3>3
    <3>5. \A i \in 1..Len(SubSeq(gateway, 1, m)) : SubSeq(gateway, 1, m)[i] = SubSeq(id, 1, m)[i]
      BY <3>2, <3>3, <3>4
    <3>6. SubSeq(gateway, 1, m) = SubSeq(id, 1, m)
      BY <3>3, <3>5, SeqEqual
    <3> QED BY <3>1, <3>6, Zenon DEF IsPrefix, m
  <2>5. Len(id) \in Nat /\ Len(id) > 0 /\ id # <<>>
    BY <1>1, <2>2, EmptySeq
  <2> QED BY <2>1, <2>2, <2>3, <2>4, <2>5
<1> QED BY <1>2, <1>3

\* A hop comes under its gateway once: a second time changes nothing.
LEMMA GlobalHops1 ==
  ASSUME NEW gateway \in Seq(Words), NEW h, IsHop(h), h.id \in Seq(Words), h.id # <<>>
  PROVE  /\ \A i : GlobalHop(gateway, h, i) = Renamed(h, GlobalName(gateway, h.id))
         /\ \A i : GlobalHop(gateway, GlobalHop(gateway, h, i), i) = GlobalHop(gateway, h, i)
<1> DEFINE id == GlobalName(gateway, h.id)
           k == Renamed(h, id)
<1>1. id \in Seq(Words) /\ id # <<>> /\ IsPrefix(gateway, id)
  BY GlobalNames
<1> HIDE DEF id
<1>2. ASSUME NEW i PROVE GlobalHop(gateway, h, i) = k
  <2>1. GlobalHop(gateway, h, i) = [h EXCEPT !.id = id]
    BY Zenon DEF GlobalHop, GlobalName, id
  <2>2. [h EXCEPT !.id = id] = Renamed(h, id)
    <3> DEFINE source == h.source
               log == h.log
               pod == h.pod
               seq == h.seq
               start == h.start
               remote == h.remote
               local == h.local
               redirect == h.redirect
               code == h.code
               correlation == h.correlation
               at == h.at
               host == h.host
               cluster == h.cluster
               old == h.id
               Hop(x) == [id |-> x, source |-> source, log |-> log, pod |-> pod, seq |-> seq, start |-> start,
                          remote |-> remote, local |-> local, redirect |-> redirect, code |-> code,
                          correlation |-> correlation, at |-> at, host |-> host, cluster |-> cluster]
    <3>1. h = Hop(old) /\ Renamed(h, id) = Hop(id)
      BY Zenon DEF IsHop, Renamed
    <3> HIDE DEF source, log, pod, seq, start, remote, local, redirect, code, correlation, at, host, cluster, old
    <3>2. [Hop(old) EXCEPT !.id = id] = Hop(id)
      BY SMTT(30)
    <3> QED BY <3>1, <3>2, Zenon
  <2> QED BY <2>1, <2>2, Zenon
<1>3. k.id = id /\ [k EXCEPT !.id = id] = k
  BY DEF Renamed
<1>4. ASSUME NEW i PROVE GlobalHop(gateway, k, i) = k
  <2> HIDE DEF k
  <2>1. GlobalHop(gateway, k, i) = [k EXCEPT !.id = IF IsPrefix(gateway, id) THEN id ELSE gateway \o id]
    BY <1>1, <1>3, Zenon DEF GlobalHop
  <2>2. GlobalHop(gateway, k, i) = [k EXCEPT !.id = id]
    BY <1>1, <2>1, Zenon
  <2> QED BY <1>3, <2>2, Zenon
<1> QED BY <1>2, <1>4, Zenon DEF id

\* A segment as it comes to the analysis: its hops are records under IDs, of a
\* gateway under an ID.
Analysable(s) ==
    /\ IsSegment(s)
    /\ \A i \in DOMAIN s.hops : /\ s.gateway \in Seq(Words)
                                /\ IsHop(s.hops[i]) /\ s.hops[i].id \in Seq(Words) \ {<<>>}

\* The hops of an analysed segment: the same records, under global IDs.
LEMMA GlobalHopsOf ==
  ASSUME NEW s, Analysable(s)
  PROVE  /\ DOMAIN GlobalHops(s) = DOMAIN s.hops
         /\ \A i \in DOMAIN s.hops : GlobalHops(s)[i] = Renamed(s.hops[i], GlobalName(s.gateway, s.hops[i].id))
         /\ [i \in DOMAIN s.hops |-> GlobalHop(s.gateway, GlobalHops(s)[i], i)] = GlobalHops(s)
<1>1. \A i \in DOMAIN s.hops : GlobalHops(s)[i] = GlobalHop(s.gateway, s.hops[i], i)
  BY DEF GlobalHops
<1>2. ASSUME NEW i \in DOMAIN s.hops
      PROVE  /\ GlobalHops(s)[i] = Renamed(s.hops[i], GlobalName(s.gateway, s.hops[i].id))
             /\ GlobalHop(s.gateway, GlobalHops(s)[i], i) = GlobalHop(s.gateway, s.hops[i], i)
  <2> DEFINE h == s.hops[i]
             g == s.gateway
  <2>1. g \in Seq(Words) /\ IsHop(h) /\ h.id \in Seq(Words) /\ h.id # <<>>
    BY DEF Analysable
  <2>2. GlobalHops(s)[i] = GlobalHop(g, h, i)
    BY <1>1
  <2> HIDE DEF g, h
  <2>3. GlobalHop(g, h, i) = Renamed(h, GlobalName(g, h.id)) /\ GlobalHop(g, GlobalHop(g, h, i), i) = GlobalHop(g, h, i)
    BY <2>1, GlobalHops1
  <2> QED BY <2>2, <2>3, Zenon DEF g, h
<1>3. [i \in DOMAIN s.hops |-> GlobalHop(s.gateway, GlobalHops(s)[i], i)] =
      [i \in DOMAIN s.hops |-> GlobalHop(s.gateway, s.hops[i], i)]
  BY <1>2
<1>4. DOMAIN GlobalHops(s) = DOMAIN s.hops
  BY DEF GlobalHops
<1> QED BY <1>2, <1>3, <1>4, Zenon DEF GlobalHops

\* A second analysis of a segment finds what the first found.
LEMMA SegmentAnalysedTwice ==
  ASSUME NEW s, Analysable(s)
  PROVE  EnrichSegment(EnrichSegment(s)) = EnrichSegment(s)
<1> DEFINE t == EnrichSegment(s)
           found == GroupIssues(GroupsOf(s))
<1>1. /\ IsSegment(t) /\ t.gateway = s.gateway /\ t.hops = GlobalHops(s) /\ t.collection = s.collection
      /\ t.issues = Retained(s) \cup found /\ t.inference = s.inference
      /\ t.links = GroupLinks(GroupsOf(s)) /\ t.terminals = GroupTerminals(GroupsOf(s))
      /\ t.relation = WorstRelation(GroupsOf(s)) /\ t.groups = GroupsOf(s)
  <2>1. t = [gateway |-> s.gateway, hops |-> GlobalHops(s), collection |-> s.collection,
             issues |-> Retained(s) \cup found, inference |-> s.inference,
             links |-> GroupLinks(GroupsOf(s)), terminals |-> GroupTerminals(GroupsOf(s)),
             relation |-> WorstRelation(GroupsOf(s)), groups |-> GroupsOf(s)]
    BY EnrichedFields, Zenon DEF Analysable
  <2> HIDE DEF t, found
  <2> QED BY <2>1 DEF IsSegment
<1>2. Retained(t) = Retained(s)
  <2>1. \A i \in found : i.scope = "relation"
    BY GroupIssuesScope DEF GroupsOf
  <2> HIDE DEF t, found
  <2> QED BY <1>1, <2>1 DEF Retained
<1> HIDE DEF t
<1>3. GlobalHops(t) = GlobalHops(s)
  <2>1. GlobalHops(t) = [i \in DOMAIN GlobalHops(s) |-> GlobalHop(s.gateway, GlobalHops(s)[i], i)]
    BY <1>1, Zenon DEF GlobalHops
  <2> QED BY <2>1, GlobalHopsOf, Zenon
<1>4. GroupsOf(t) = GroupsOf(s)
  BY <1>1, <1>2, <1>3, Zenon DEF GroupsOf
<1>5. EnrichSegment(t) =
        [gateway |-> t.gateway, hops |-> GlobalHops(t), collection |-> t.collection,
         issues |-> Retained(t) \cup GroupIssues(GroupsOf(t)), inference |-> t.inference,
         links |-> GroupLinks(GroupsOf(t)), terminals |-> GroupTerminals(GroupsOf(t)),
         relation |-> WorstRelation(GroupsOf(t)), groups |-> GroupsOf(t)]
  BY <1>1, EnrichedFields, Zenon
<1>6. EnrichSegment(t) = [gateway |-> t.gateway, hops |-> t.hops, collection |-> t.collection, issues |-> t.issues,
                          inference |-> t.inference, links |-> t.links, terminals |-> t.terminals,
                          relation |-> t.relation, groups |-> t.groups]
  BY <1>1, <1>2, <1>3, <1>4, <1>5, Zenon DEF found
<1> QED BY <1>1, <1>6, Zenon DEF IsSegment, t

-----------------------------------------------------------------------------
(* Analysing an execution                                                  *)

\* An execution: a record of exactly these fields.
IsExecution(e) ==
    e = [state |-> e.state, code |-> e.code, gateway |-> e.gateway, segments |-> e.segments,
         issues |-> e.issues, finalResponse |-> e.finalResponse, finalUpstream |-> e.finalUpstream]

AnalysedSegments(e) == [i \in DOMAIN e.segments |-> EnrichSegment(e.segments[i])]

\* What an analysed execution concludes from its segments.
FinalOf(state, code, gateway, segment) ==
    IF \/ state # "completed" \/ code <= 0 \/ segment.gateway # gateway
       \/ Len(segment.groups) # 1 \/ segment.issues # {}
    THEN <<>>
    ELSE IF /\ segment.groups[1].exact
            /\ {h \in ToSet(segment.hops) : h.id = segment.groups[1].terminal /\ h.code = code} # {}
         THEN segment.groups[1].terminal ELSE <<>>
FinalsOf(state, code, gateway, segments) ==
    {FinalOf(state, code, gateway, segment) : segment \in ToSet(segments)} \ {<<>>}
Finals(e, segments) == FinalsOf(e.state, e.code, e.gateway, segments)
Final(finals) == IF finals = {} THEN <<>> ELSE CHOOSE id \in finals : TRUE

LEMMA EnrichedExecution ==
  ASSUME NEW e, IsExecution(e)
  PROVE  LET segments == AnalysedSegments(e)
             final == Final(Finals(e, segments))
         IN  EnrichProbe(e) =
               [state |-> e.state, code |-> e.code, gateway |-> e.gateway, segments |-> segments, issues |-> e.issues,
                finalResponse |-> final,
                finalUpstream |-> IF Len(segments) = 1 /\ e.issues = {} THEN final ELSE <<>>]
<1> DEFINE segments == AnalysedSegments(e)
           final == Final(Finals(e, segments))
           upstream == IF Len(segments) = 1 /\ e.issues = {} THEN final ELSE <<>>
           d == [e EXCEPT !.segments = segments]
<1>1. EnrichProbe(e) = Concluded(d)
  BY Zenon DEF EnrichProbe, AnalysedSegments
<1> HIDE DEF segments
<1>2. /\ d = [state |-> e.state, code |-> e.code, gateway |-> e.gateway, segments |-> segments,
              issues |-> e.issues, finalResponse |-> e.finalResponse, finalUpstream |-> e.finalUpstream]
      /\ d.segments = segments /\ d.issues = e.issues /\ d.state = e.state /\ d.code = e.code /\ d.gateway = e.gateway
  <2> DEFINE a == e.state
             b == e.code
             c == e.gateway
             s == e.segments
             i == e.issues
             r == e.finalResponse
             u == e.finalUpstream
  <2>1. e = [state |-> a, code |-> b, gateway |-> c, segments |-> s, issues |-> i, finalResponse |-> r, finalUpstream |-> u]
    BY Zenon DEF IsExecution
  <2> HIDE DEF a, b, c, s, i, r, u
  <2>2. d = [state |-> a, code |-> b, gateway |-> c, segments |-> segments, issues |-> i,
             finalResponse |-> r, finalUpstream |-> u]
    BY <2>1
  <2>3. d.segments = segments /\ d.issues = i /\ d.state = a /\ d.code = b /\ d.gateway = c
    BY <2>2
  <2> QED BY <2>2, <2>3, Zenon DEF a, b, c, i, r, u
<1> HIDE DEF d
<1>3. {FinalHop(d, segment) : segment \in ToSet(d.segments)} \ {<<>>} = Finals(e, segments)
  <2>1. {FinalHop(d, segment) : segment \in ToSet(d.segments)} \ {<<>>} = FinalsOf(d.state, d.code, d.gateway, d.segments)
    BY Zenon DEF FinalHop, FinalsOf, FinalOf
  <2> QED BY <1>2, <2>1, Zenon DEF Finals
<1>4. Concluded(d) = [d EXCEPT !.finalResponse = final, !.finalUpstream = upstream]
  <2>1. Concluded(d) = [d EXCEPT !.finalResponse = Final({FinalHop(d, segment) : segment \in ToSet(d.segments)} \ {<<>>}),
                                 !.finalUpstream = IF Len(d.segments) = 1 /\ d.issues = {}
                                                   THEN Final({FinalHop(d, segment) : segment \in ToSet(d.segments)} \ {<<>>})
                                                   ELSE <<>>]
    BY Zenon DEF Concluded, Final
  <2> QED BY <1>2, <1>3, <2>1, Zenon
<1> HIDE DEF final, upstream
<1>5. [d EXCEPT !.finalResponse = final, !.finalUpstream = upstream] =
        [state |-> e.state, code |-> e.code, gateway |-> e.gateway, segments |-> segments, issues |-> e.issues,
         finalResponse |-> final, finalUpstream |-> upstream]
  <2> DEFINE a == e.state
             b == e.code
             c == e.gateway
             i == e.issues
             r == e.finalResponse
             u == e.finalUpstream
             d1 == [d EXCEPT !.finalResponse = final]
             d2 == [d1 EXCEPT !.finalUpstream = upstream]
  <2>1. d = [state |-> a, code |-> b, gateway |-> c, segments |-> segments, issues |-> i, finalResponse |-> r, finalUpstream |-> u]
    BY <1>2, Zenon
  <2>2. [d EXCEPT !.finalResponse = final, !.finalUpstream = upstream] = d2
    OBVIOUS
  <2> HIDE DEF a, b, c, i, r, u
  <2>3. d1 = [state |-> a, code |-> b, gateway |-> c, segments |-> segments, issues |-> i, finalResponse |-> final, finalUpstream |-> u]
    BY <2>1
  <2> HIDE DEF d1
  <2>4. d2 = [state |-> a, code |-> b, gateway |-> c, segments |-> segments, issues |-> i, finalResponse |-> final, finalUpstream |-> upstream]
    BY <2>3
  <2> QED BY <2>2, <2>4, Zenon DEF a, b, c, i
<1> QED BY <1>1, <1>4, <1>5, Zenon DEF segments, final, upstream

\* EnrichProbe may be repeated: a second analysis of an execution changes nothing.
LEMMA AnalysedTwice ==
  ASSUME NEW e, IsExecution(e), \A i \in DOMAIN e.segments : Analysable(e.segments[i])
  PROVE  EnrichProbe(EnrichProbe(e)) = EnrichProbe(e)
<1> DEFINE d == EnrichProbe(e)
           segments == AnalysedSegments(e)
           final == Final(Finals(e, segments))
           upstream == IF Len(segments) = 1 /\ e.issues = {} THEN final ELSE <<>>
<1>1. d = [state |-> e.state, code |-> e.code, gateway |-> e.gateway, segments |-> segments, issues |-> e.issues,
           finalResponse |-> final, finalUpstream |-> upstream]
  BY EnrichedExecution
<1>2. AnalysedSegments(e) = [i \in DOMAIN e.segments |-> EnrichSegment(e.segments[i])]
  BY DEF AnalysedSegments
<1> HIDE DEF d, segments, final, upstream
<1>3. /\ IsExecution(d) /\ d.segments = segments /\ d.issues = e.issues
      /\ d.state = e.state /\ d.code = e.code /\ d.gateway = e.gateway
      /\ d.finalResponse = final /\ d.finalUpstream = upstream
  BY <1>1 DEF IsExecution
<1>4. AnalysedSegments(d) = segments
  <2>1. /\ DOMAIN segments = DOMAIN e.segments
        /\ \A i \in DOMAIN e.segments : segments[i] = EnrichSegment(e.segments[i])
        /\ segments = [i \in DOMAIN e.segments |-> segments[i]]
    BY <1>2 DEF segments
  <2>2. \A i \in DOMAIN e.segments : EnrichSegment(segments[i]) = segments[i]
    BY <2>1, SegmentAnalysedTwice
  <2>3. AnalysedSegments(d) = [i \in DOMAIN e.segments |-> EnrichSegment(segments[i])]
    BY <1>3, <2>1, Zenon DEF AnalysedSegments
  <2>4. [i \in DOMAIN e.segments |-> EnrichSegment(segments[i])] = [i \in DOMAIN e.segments |-> segments[i]]
    BY <2>2
  <2> QED BY <2>1, <2>3, <2>4, Zenon
<1>5. Finals(d, segments) = Finals(e, segments)
  BY <1>3, Zenon DEF Finals
<1>6. EnrichProbe(d) =
        [state |-> d.state, code |-> d.code, gateway |-> d.gateway, segments |-> AnalysedSegments(d), issues |-> d.issues,
         finalResponse |-> Final(Finals(d, AnalysedSegments(d))),
         finalUpstream |-> IF Len(AnalysedSegments(d)) = 1 /\ d.issues = {}
                           THEN Final(Finals(d, AnalysedSegments(d))) ELSE <<>>]
  BY <1>3, EnrichedExecution
<1> QED BY <1>1, <1>3, <1>4, <1>5, <1>6, Zenon DEF d, final, upstream

-----------------------------------------------------------------------------
(* Request contexts                                                        *)

\* The records of a context, in the order they were found.
SameContext(hops, p) == {j \in DOMAIN hops : ContextKey(hops[j]) = ContextKey(hops[p])}
ContextAt(hops, n) == SameContext(hops, Nth(ContextPlaces(hops), n))
BucketAt(hops, n) == At(hops, ContextAt(hops, n))

\* Each group is of a context of its own, of records of that context.
LEMMA GroupsAre ==
  ASSUME NEW N \in Nat, NEW hops, DOMAIN hops = 1..N, NEW collection, NEW issues
  PROVE  LET places == ContextPlaces(hops)
             groups == attemptGroups(hops, collection, issues)
         IN  /\ Cardinality(places) \in Nat /\ DOMAIN groups = 1..Cardinality(places)
             /\ groups # <<>> => Len(groups) = Cardinality(places)
             /\ \A n \in DOMAIN groups : /\ Nth(places, n) \in 1..N
                                         /\ groups[n] = attemptGroup(n, BucketAt(hops, n), collection, issues)
             /\ \A m, n \in DOMAIN groups : m # n => ContextKey(hops[Nth(places, m)]) # ContextKey(hops[Nth(places, n)])
<1> DEFINE places == ContextPlaces(hops)
           groups == attemptGroups(hops, collection, issues)
           C == Cardinality(places)
<1>1. /\ places \in SUBSET (1..N)
      /\ \A i \in places : \A j \in 1..i - 1 : ContextKey(hops[j]) # ContextKey(hops[i])
  BY Zenon DEF ContextPlaces
<1>2. groups = [n \in 1..C |-> attemptGroup(n, BucketAt(hops, n), collection, issues)]
  BY Zenon DEF attemptGroups, BucketAt, ContextAt, SameContext
<1> HIDE DEF places, groups
<1>3. places \in SUBSET Nat /\ IsFiniteSet(places) /\ C \in Nat
  <2>1. IsFiniteSet(1..N) /\ 1..N \in SUBSET Nat
    BY FS_Interval
  <2> QED BY <1>1, <2>1, FS_Subset, FS_CardinalityType
<1>4. /\ \A n \in 1..C : Nth(places, n) \in places
      /\ \A m, n \in 1..C : Nth(places, m) = Nth(places, n) => m = n
  BY <1>3, NthOrder
<1> HIDE DEF C
<1>5. ASSUME NEW m \in 1..C, NEW n \in 1..C, m # n
      PROVE  ContextKey(hops[Nth(places, m)]) # ContextKey(hops[Nth(places, n)])
  <2> DEFINE p == Nth(places, m)
             q == Nth(places, n)
  <2>1. p \in places /\ q \in places /\ p # q /\ p \in Nat /\ q \in Nat /\ p >= 1 /\ q >= 1
    <3>1. p \in 1..N /\ q \in 1..N
      BY <1>1, <1>4
    <3> QED BY <1>4, <1>5, <3>1
  <2> HIDE DEF p, q
  <2>2. p \in 1..q - 1 \/ q \in 1..p - 1
    BY <2>1
  <2>3. ContextKey(hops[p]) # ContextKey(hops[q])
    BY <1>1, <2>1, <2>2
  <2> QED BY <2>3 DEF p, q
<1>6. DOMAIN groups = 1..C /\ Len(groups) = C
  BY <1>2, <1>3
<1>7. \A n \in 1..C : Nth(places, n) \in 1..N /\ groups[n] = attemptGroup(n, BucketAt(hops, n), collection, issues)
  BY <1>1, <1>2, <1>4
<1> QED BY <1>3, <1>5, <1>6, <1>7 DEF places, groups, C

\* Records in a bucket or a segment: numbered, each with a place in the log.
Numbered(records, K) == DOMAIN records = 1..K /\ \A k \in 1..K : records[k].seq \in Nat

LEMMA BucketRecords ==
  ASSUME NEW N \in Nat, NEW hops, Numbered(hops, N), NEW n
  PROVE  /\ Cardinality(ContextAt(hops, n)) \in Nat
         /\ Numbered(BucketAt(hops, n), Cardinality(ContextAt(hops, n)))
         /\ \A k \in DOMAIN BucketAt(hops, n) : \E j \in ContextAt(hops, n) : BucketAt(hops, n)[k] = hops[j]
         /\ \A j \in ContextAt(hops, n) : \E k \in DOMAIN BucketAt(hops, n) : BucketAt(hops, n)[k] = hops[j]
<1> DEFINE S == ContextAt(hops, n)
           K == Cardinality(S)
           b == BucketAt(hops, n)
<1>1. S \in SUBSET (1..N)
  BY DEF ContextAt, SameContext, Numbered
<1>2. S \in SUBSET Nat /\ IsFiniteSet(S) /\ K \in Nat
  <2>1. IsFiniteSet(1..N) /\ 1..N \in SUBSET Nat
    BY FS_Interval
  <2> QED BY <1>1, <2>1, FS_Subset, FS_CardinalityType
<1>3. DOMAIN b = 1..K /\ \A k \in 1..K : b[k] = hops[Nth(S, k)]
  BY DEF BucketAt, At
<1> HIDE DEF S, b
<1>4. /\ \A k \in 1..K : Nth(S, k) \in S
      /\ \A j \in S : \E k \in 1..K : Nth(S, k) = j
  BY <1>2, NthOrder
<1> HIDE DEF K
<1>5. \A k \in 1..K : \E j \in S : b[k] = hops[j]
  BY <1>3, <1>4
<1>6. \A j \in S : \E k \in 1..K : b[k] = hops[j]
  BY <1>3, <1>4
<1>7. \A k \in 1..K : b[k].seq \in Nat
  BY <1>1, <1>5 DEF Numbered
<1>8. Numbered(b, K)
  BY <1>3, <1>7 DEF Numbered
<1> QED BY <1>2, <1>3, <1>5, <1>6, <1>8 DEF S, K, b

\* Records with distinct places, sorted by place.
Sorted(records, b, K) ==
    /\ DOMAIN records = 1..K /\ Len(records) = K
    /\ \A n \in 1..K : \E k \in 1..K : records[n] = b[k]
    /\ \A k \in 1..K : \E n \in 1..K : records[n] = b[k]
    /\ \A m, n \in 1..K : m < n => records[m].seq < records[n].seq

LEMMA LogOrder ==
  ASSUME NEW K \in Nat, NEW b, Numbered(b, K), \A i, j \in 1..K : i # j => b[i].seq # b[j].seq
  PROVE  Sorted(InLogOrder(b), b, K)
<1> DEFINE S == 1..K
           R == {p \in (DOMAIN b) \X (DOMAIN b) : b[p[1]].seq < b[p[2]].seq}
           order == Ranked(DOMAIN b, R)
           records == InLogOrder(b)
<1>1. DOMAIN b = S /\ \A i \in S : b[i].seq \in Nat
  BY DEF Numbered
<1>2. records = [n \in DOMAIN order |-> b[order[n]]]
  BY Zenon DEF InLogOrder
<1>3. \A i, j \in S : <<i, j>> \in R <=> b[i].seq < b[j].seq
  BY <1>1
<1>4. order = Ranked(S, R)
  BY <1>1, Zenon
<1> HIDE DEF R, order, records
<1>5. StrictOrder(S, R)
  <2>1. ASSUME NEW x \in S, NEW y \in S, NEW z \in S
        PROVE  /\ b[x].seq < b[y].seq => ~(b[y].seq < b[x].seq)
               /\ x # y => b[x].seq < b[y].seq \/ b[y].seq < b[x].seq
               /\ b[x].seq < b[y].seq /\ b[y].seq < b[z].seq => b[x].seq < b[z].seq
    <3> DEFINE u == b[x].seq
               v == b[y].seq
               w == b[z].seq
    <3>1. u \in Nat /\ v \in Nat /\ w \in Nat /\ (x # y => u # v)
      BY <1>1
    <3> HIDE DEF u, v, w
    <3>2. (u < v => ~(v < u)) /\ (u # v => u < v \/ v < u) /\ (u < v /\ v < w => u < w)
      BY <3>1
    <3> QED BY <3>1, <3>2, Zenon DEF u, v, w
  <2> QED BY <1>3, <2>1, Zenon DEF StrictOrder
<1>6. IsFiniteSet(S) /\ Cardinality(S) = K
  <2>1. IsFiniteSet(1..K) /\ Cardinality(1..K) = IF 1 > K THEN 0 ELSE K - 1 + 1
    BY FS_Interval
  <2> QED BY <2>1
<1>7. LET q == Ranked(S, R)
          M == Cardinality(S)
      IN  /\ M \in Nat /\ q \in [1..M -> S] /\ q \in Seq(S) /\ Len(q) = M /\ DOMAIN q = 1..M
          /\ \A m, n \in 1..M : q[m] = q[n] => m = n
          /\ \A x \in S : \E n \in 1..M : q[n] = x
          /\ \A m, n \in 1..M : m < n => <<q[m], q[n]>> \in R
  BY <1>5, <1>6, RankedOrder
<1>8. /\ order \in [1..K -> S] /\ DOMAIN order = 1..K
      /\ \A x \in S : \E n \in 1..K : order[n] = x
      /\ \A m, n \in 1..K : m < n => <<order[m], order[n]>> \in R
  BY <1>4, <1>6, <1>7
<1>9. records = [n \in 1..K |-> b[order[n]]]
  BY <1>2, <1>8
<1>10. DOMAIN records = 1..K /\ Len(records) = K /\ \A n \in 1..K : records[n] = b[order[n]] /\ order[n] \in 1..K
  BY <1>8, <1>9
<1>11. \A k \in 1..K : \E n \in 1..K : records[n] = b[k]
  <2> SUFFICES ASSUME NEW k \in 1..K PROVE \E n \in 1..K : records[n] = b[k]
    OBVIOUS
  <2>1. PICK n \in 1..K : order[n] = k
    BY <1>8
  <2> QED BY <1>10, <2>1
<1>12. \A m, n \in 1..K : m < n => records[m].seq < records[n].seq
  <2> SUFFICES ASSUME NEW m \in 1..K, NEW n \in 1..K, m < n PROVE records[m].seq < records[n].seq
    OBVIOUS
  <2>1. order[m] \in S /\ order[n] \in S /\ <<order[m], order[n]>> \in R
    BY <1>8, <1>10
  <2>2. b[order[m]].seq < b[order[n]].seq
    BY <1>3, <2>1
  <2> QED BY <1>10, <2>2, Zenon
<1> QED BY <1>10, <1>11, <1>12 DEF Sorted, records

\* The relation of records, part by part.
Redirects(records) == {i \in 1..Len(records) : records[i].redirect}
Terminals(records) == (1..Len(records)) \ Redirects(records)
Ambiguous(records, ordered) ==
    Cardinality(Terminals(records)) > 1 \/ (ordered /\ \E i \in Terminals(records) : i < Len(records))

IsGroup(g, records, ordered) ==
    /\ g.state \in {"ambiguous", "missing-next", "linked", "unconfirmed"}
    /\ \A l \in g.links :
          /\ ordered /\ ~Ambiguous(records, ordered)
          /\ \E i \in Redirects(records) \ {Len(records)} : l = <<records[i].id, records[i + 1].id>>
    /\ g.terminal # <<>> =>
          /\ ordered /\ ~Ambiguous(records, ordered)
          /\ \E i \in Terminals(records) : g.terminal = records[i].id

LEMMA GroupFields ==
  ASSUME NEW name, NEW records, NEW ordered, NEW collection, NEW issues
  PROVE  IsGroup(relatedGroup(name, records, ordered, collection, issues), records, ordered)
<1> DEFINE n == Len(records)
           redirects == Redirects(records)
           terminals == Terminals(records)
           ambiguous == Ambiguous(records, ordered)
           missing == redirects # {} /\ (terminals = {} \/ (ordered /\ n \in redirects))
           state == CASE ambiguous -> "ambiguous"
                      [] ~ambiguous /\ missing -> "missing-next"
                      [] ~ambiguous /\ ~missing /\ ordered /\ (redirects # {} \/ n = 1) -> "linked"
                      [] OTHER -> "unconfirmed"
           links == IF ordered /\ ~ambiguous THEN {<<records[i].id, records[i + 1].id>> : i \in redirects \ {n}} ELSE {}
           terminal == IF state = "linked" /\ Cardinality(terminals) = 1 /\ collection = "settled" /\ issues = {}
                       THEN records[CHOOSE i \in terminals : TRUE].id ELSE <<>>
           g == relatedGroup(name, records, ordered, collection, issues)
<1>1. g.state = state /\ g.links = links /\ g.terminal = terminal
  BY DEF relatedGroup, Redirects, Terminals, Ambiguous
<1> HIDE DEF g, terminals, redirects, ambiguous, missing
<1>2. state \in {"ambiguous", "missing-next", "linked", "unconfirmed"} /\ (state = "linked" => ordered /\ ~ambiguous)
  OBVIOUS
<1> HIDE DEF state
<1>3. ASSUME terminal # <<>>
      PROVE  state = "linked" /\ \E i \in terminals : terminal = records[i].id
  <2>1. state = "linked" /\ Cardinality(terminals) = 1 /\ terminal = records[CHOOSE i \in terminals : TRUE].id
    BY <1>3, Zenon
  <2>2. terminals # {}
    <3>1. Cardinality({}) = 0
      BY FS_EmptySet
    <3> QED BY <2>1, <3>1
  <2> QED BY <2>1, <2>2
<1>4. ASSUME NEW l \in links
      PROVE  ordered /\ ~ambiguous /\ \E i \in redirects \ {n} : l = <<records[i].id, records[i + 1].id>>
  BY <1>4
<1> HIDE DEF terminal, links
<1>5. IsGroup(g, records, ordered)
  BY <1>1, <1>2, <1>3, <1>4, Zenon DEF IsGroup, terminals, redirects, ambiguous
<1> QED BY <1>5 DEF g

\* What the group of a context claims is so: a link leads from a redirect to the
\* record after it, the terminal is the last record and no redirect; both only of
\* records in log order (attemptGroup).
LEMMA GroupClaims ==
  ASSUME NEW K \in Nat, NEW b, Numbered(b, K), NEW name, NEW collection, NEW issues
  PROVE  LET g == attemptGroup(name, b, collection, issues)
         IN  /\ \A l \in g.links :
                   /\ Ordered(b, issues)
                   /\ \E i, j \in 1..K : l = <<b[i].id, b[j].id>> /\ b[i].seq < b[j].seq /\ b[i].redirect
             /\ g.terminal # <<>> =>
                   /\ Ordered(b, issues)
                   /\ \E k \in 1..K : /\ g.terminal = b[k].id /\ ~b[k].redirect
                                      /\ \A j \in 1..K : b[j].seq <= b[k].seq
<1> DEFINE g == attemptGroup(name, b, collection, issues)
           records == InLogOrder(b)
<1>1. CASE Ordered(b, issues)
  <2>1. g = relatedGroup(name, records, TRUE, collection, issues)
    BY <1>1, Zenon DEF attemptGroup
  <2>2. Sorted(records, b, K)
    <3>1. \A i, j \in 1..K : i # j => b[i].seq # b[j].seq
      BY <1>1 DEF Ordered, Numbered
    <3> QED BY <3>1, LogOrder
  <2> HIDE DEF records
  <2>3. IsGroup(g, records, TRUE)
    BY <2>1, GroupFields, Zenon
  <2> HIDE DEF g
  <2>4. ASSUME NEW l \in g.links
        PROVE  \E i, j \in 1..K : l = <<b[i].id, b[j].id>> /\ b[i].seq < b[j].seq /\ b[i].redirect
    <3>1. PICK m \in Redirects(records) \ {Len(records)} : l = <<records[m].id, records[m + 1].id>>
      BY <2>3, <2>4 DEF IsGroup
    <3>2. m \in 1..K /\ m + 1 \in 1..K /\ m < m + 1 /\ records[m].redirect
      BY <2>2, <3>1 DEF Sorted, Redirects
    <3>3. PICK i \in 1..K : records[m] = b[i]
      BY <2>2, <3>2 DEF Sorted
    <3>4. PICK j \in 1..K : records[m + 1] = b[j]
      BY <2>2, <3>2 DEF Sorted
    <3>5. records[m].seq < records[m + 1].seq
      BY <2>2, <3>2 DEF Sorted
    <3> QED BY <3>1, <3>2, <3>3, <3>4, <3>5
  <2>5. ASSUME g.terminal # <<>>
        PROVE  \E k \in 1..K : /\ g.terminal = b[k].id /\ ~b[k].redirect
                               /\ \A j \in 1..K : b[j].seq <= b[k].seq
    <3>1. PICK m \in Terminals(records) : g.terminal = records[m].id
      BY <2>3, <2>5 DEF IsGroup
    <3>2. ~(m < Len(records))
      BY <2>3, <2>5, <3>1 DEF IsGroup, Ambiguous
    <3>3. m = K /\ m \in 1..K /\ ~records[m].redirect
      <4>1. Len(records) = K
        BY <2>2 DEF Sorted
      <4>2. m \in 1..K /\ ~records[m].redirect
        BY <3>1, <4>1, Zenon DEF Terminals, Redirects
      <4> QED BY <3>2, <4>1, <4>2
    <3>4. PICK k \in 1..K : records[m] = b[k]
      BY <2>2, <3>3 DEF Sorted
    <3>5. ASSUME NEW j \in 1..K PROVE b[j].seq <= b[k].seq
      <4>1. PICK n \in 1..K : records[n] = b[j]
        BY <2>2 DEF Sorted
      <4>2. n = m \/ n < m
        BY <3>3
      <4>3. CASE n = m
        <5>1. b[j].seq = b[k].seq /\ b[k].seq \in Nat
          BY <3>4, <4>1, <4>3 DEF Numbered
        <5> QED BY <5>1
      <4>4. CASE n < m
        <5>1. b[j].seq < b[k].seq
          BY <2>2, <3>3, <3>4, <4>1, <4>4 DEF Sorted
        <5>2. b[j].seq \in Nat /\ b[k].seq \in Nat
          BY DEF Numbered
        <5> QED BY <5>1, <5>2
      <4> QED BY <4>2, <4>3, <4>4
    <3> QED BY <3>1, <3>3, <3>4, <3>5
  <2> QED BY <1>1, <2>4, <2>5 DEF g
<1>2. CASE ~Ordered(b, issues)
  <2>1. g = relatedGroup(name, b, FALSE, collection, issues)
    BY <1>2, Zenon DEF attemptGroup
  <2>2. IsGroup(g, b, FALSE)
    BY <2>1, GroupFields, Zenon
  <2> HIDE DEF g
  <2>3. (\A l \in g.links : FALSE) /\ g.terminal = <<>>
    BY <2>2, Zenon DEF IsGroup
  <2> QED BY <2>3, Zenon DEF g
<1> QED BY <1>1, <1>2

\* The group of a context in log order is exact when every record carries the
\* probe's ID (attemptGroup).
LEMMA ExactGroup ==
  ASSUME NEW K \in Nat, NEW b, Numbered(b, K), NEW name, NEW collection, NEW issues, Ordered(b, issues),
         attemptGroup(name, b, collection, issues).exact
  PROVE  \A k \in 1..K : b[k].correlation = "probe-id"
<1> DEFINE records == InLogOrder(b)
<1>1. attemptGroup(name, b, collection, issues) = relatedGroup(name, records, TRUE, collection, issues)
  BY Zenon DEF attemptGroup
<1>2. Sorted(records, b, K)
  <2>1. \A i, j \in 1..K : i # j => b[i].seq # b[j].seq
    BY DEF Ordered, Numbered
  <2> QED BY <2>1, LogOrder
<1> HIDE DEF records
<1>3. relatedGroup(name, records, TRUE, collection, issues).exact
      = (\A i \in 1..Len(records) : records[i].correlation = "probe-id")
  BY DEF relatedGroup
<1>4. \A i \in 1..Len(records) : records[i].correlation = "probe-id"
  BY <1>1, <1>3, Zenon
<1>5. ASSUME NEW k \in 1..K PROVE b[k].correlation = "probe-id"
  <2>1. PICK n \in 1..K : records[n] = b[k]
    BY <1>2 DEF Sorted
  <2>2. Len(records) = K
    BY <1>2 DEF Sorted
  <2> QED BY <1>4, <2>1, <2>2
<1> QED BY <1>5

\* When there is one context, every record is of it.
LEMMA OneContext ==
  ASSUME NEW N \in Nat, NEW hops, DOMAIN hops = 1..N, Cardinality(ContextPlaces(hops)) = 1, NEW n \in 1..N
  PROVE  n \in ContextAt(hops, 1)
<1> DEFINE places == ContextPlaces(hops)
           T == {j \in 1..N : ContextKey(hops[j]) = ContextKey(hops[n])}
           m == Nth(T, 1)
<1>1. /\ places \in SUBSET (1..N)
      /\ \A i \in 1..N : (\A j \in 1..i - 1 : ContextKey(hops[j]) # ContextKey(hops[i])) => i \in places
  BY DEF ContextPlaces
<1>2. IsFiniteSet(1..N) /\ 1..N \in SUBSET Nat
  BY FS_Interval
<1>3. T \in SUBSET (1..N) /\ n \in T
  OBVIOUS
<1>4. IsFiniteSet(T) /\ T \in SUBSET Nat /\ Cardinality(T) \in Nat /\ Cardinality(T) # 0
  <2> HIDE DEF T
  <2>1. IsFiniteSet(T) /\ Cardinality(T) \in Nat
    BY <1>2, <1>3, FS_Subset, FS_CardinalityType
  <2>2. Cardinality(T) # 0
    BY <1>3, <2>1, FS_EmptySet
  <2> QED BY <1>2, <1>3, <2>1, <2>2
<1>5. m \in T /\ Cardinality({i \in T : i <= m}) = 1
  <2>1. 1 \in 1..Cardinality(T)
    BY <1>4
  <2> HIDE DEF T
  <2> QED BY <1>4, <2>1, NthExists
<1>6. \A j \in T : ~(j < m)
  <2> SUFFICES ASSUME NEW j \in T, j < m PROVE FALSE
    OBVIOUS
  <2>1. Cardinality({i \in T : i <= j}) < Cardinality({i \in T : i <= m})
    BY <1>4, <1>5, RankStrict
  <2>2. IsFiniteSet({i \in T : i <= j})
    BY <1>4, FS_Subset
  <2>3. j \in {i \in T : i <= j}
    BY <1>4
  <2>4. Cardinality({i \in T : i <= j}) \in Nat /\ Cardinality({i \in T : i <= j}) # 0
    BY <2>2, <2>3, FS_CardinalityType, FS_EmptySet
  <2> QED BY <1>5, <2>1, <2>4
<1>7. m \in places
  <2>1. m \in 1..N /\ ContextKey(hops[m]) = ContextKey(hops[n])
    BY <1>5
  <2>2. ASSUME NEW j \in 1..m - 1 PROVE ContextKey(hops[j]) # ContextKey(hops[m])
    <3>1. j \in 1..N /\ j < m
      BY <2>1
    <3> QED BY <1>6, <2>1, <3>1
  <2> HIDE DEF m, places
  <2> QED BY <1>1, <2>1, <2>2
<1>8. Nth(places, 1) = m
  <2>1. IsFiniteSet(places) /\ places \in SUBSET Nat
    BY <1>1, <1>2, FS_Subset
  <2> HIDE DEF places, m
  <2>2. \A i \in places : \E k \in 1..Cardinality(places) : Nth(places, k) = i
    BY <2>1, NthOrder
  <2>3. Cardinality(places) = 1
    BY DEF places
  <2> QED BY <1>7, <2>2, <2>3
<1>9. ContextKey(hops[m]) = ContextKey(hops[n])
  BY <1>5
<1> HIDE DEF m
<1> QED BY <1>8, <1>9 DEF ContextAt, SameContext


-----------------------------------------------------------------------------
(* Inferring the gateways without a record                                 *)

GatewaysOf(targets) == {t.gateway : t \in ToSet(targets)}

\* A declared target that an observed gateway leads to.
LedTo(targets, observed, i) == targets[i].declared /\ targets[i].predecessor \in observed

\* One piece of evidence: only a host name or address of its gateways gives it
\* high confidence, and only a link from an observed gateway low confidence.
IsEvidence(top, targets, hops, observed, e) ==
    /\ e.strength \in {100, 200, 300} /\ e.confidence \in {"high", "medium", "low"}
    /\ e.confidence = "high" =>
          \E h \in DOMAIN hops :
             e.matches = {g \in GatewaysOf(targets) : hops[h].host # <<>> /\ gatewayTargetMatchesAddress(top, g, hops[h].host)}
    /\ e.confidence = "low" =>
          e.matches = {} \/ (\E i \in DOMAIN targets : LedTo(targets, observed, i) /\ e.matches = {targets[i].gateway})

LEMMA AllEvidenceIs ==
  ASSUME NEW top, NEW targets, NEW hops, NEW observed, NEW L \in Nat, DOMAIN targets = 1..L, NEW H \in Nat, DOMAIN hops = 1..H
  PROVE  LET all == AllEvidence(top, targets, hops, observed)
         IN  /\ Len(all) \in Nat /\ DOMAIN all = 1..Len(all)
             /\ \A k \in DOMAIN all : IsEvidence(top, targets, hops, observed, all[k])
<1> DEFINE gateways == GatewaysOf(targets)
           hosts == [i \in DOMAIN hops |-> upstreamHostRule(top, gateways, hops[i])]
           registries == [i \in DOMAIN hops |-> mcpBridgeRegistryRule(top, gateways, hops[i])]
           clusters == [i \in DOMAIN hops |-> upstreamClusterRule(top, gateways, hops[i])]
           declared == [i \in DOMAIN targets |-> declaredGatewayRule(targets[i], observed)]
           X == {hosts[i] : i \in 1..H} \cup {registries[i] : i \in 1..H} \cup {clusters[i] : i \in 1..H}
                \cup {declared[i] : i \in 1..L}
           T == {e \in X : IsEvidence(top, targets, hops, observed, e)}
           all == AllEvidence(top, targets, hops, observed)
<1>1. all = ((hosts \o registries) \o clusters) \o declared
  BY Zenon DEF AllEvidence, GatewaysOf
<1> HIDE DEF gateways
<1>2. \A i \in 1..H : IsEvidence(top, targets, hops, observed, hosts[i])
  <2> SUFFICES ASSUME NEW i \in 1..H PROVE IsEvidence(top, targets, hops, observed, hosts[i])
    OBVIOUS
  <2> DEFINE m == {g \in gateways : hops[i].host # <<>> /\ gatewayTargetMatchesAddress(top, g, hops[i].host)}
  <2>1. hosts[i] = Evidence(m, "high", 300)
    BY DEF upstreamHostRule
  <2> HIDE DEF hosts
  <2>2. hosts[i].matches = m /\ hosts[i].confidence = "high" /\ hosts[i].strength = 300
    <3> HIDE DEF m
    <3> QED BY <2>1 DEF Evidence
  <2> QED BY <2>2 DEF IsEvidence, gateways
<1>3. \A i \in 1..H : IsEvidence(top, targets, hops, observed, registries[i]) /\ IsEvidence(top, targets, hops, observed, clusters[i])
  <2> SUFFICES ASSUME NEW i \in 1..H
               PROVE  IsEvidence(top, targets, hops, observed, registries[i]) /\ IsEvidence(top, targets, hops, observed, clusters[i])
    OBVIOUS
  <2>1. /\ registries[i].confidence = "medium" /\ registries[i].strength = 200
        /\ clusters[i].confidence = "medium" /\ clusters[i].strength = 200
    BY DEF mcpBridgeRegistryRule, upstreamClusterRule, Evidence
  <2> HIDE DEF registries, clusters
  <2> QED BY <2>1 DEF IsEvidence
<1>4. \A i \in 1..L : IsEvidence(top, targets, hops, observed, declared[i])
  <2> SUFFICES ASSUME NEW i \in 1..L PROVE IsEvidence(top, targets, hops, observed, declared[i])
    OBVIOUS
  <2> DEFINE led == LedTo(targets, observed, i)
  <2>1. declared[i] = Evidence(IF led THEN {targets[i].gateway} ELSE {}, "low", 100)
    BY Zenon DEF declaredGatewayRule, LedTo
  <2> HIDE DEF declared, led
  <2>2. /\ declared[i].confidence = "low" /\ declared[i].strength = 100
        /\ declared[i].matches = IF led THEN {targets[i].gateway} ELSE {}
    BY <2>1 DEF Evidence
  <2>3. declared[i].matches = {} \/ (LedTo(targets, observed, i) /\ declared[i].matches = {targets[i].gateway})
    BY <2>2 DEF led
  <2> QED BY <2>2, <2>3 DEF IsEvidence
<1>5. hosts \in Seq(T) /\ registries \in Seq(T) /\ clusters \in Seq(T) /\ declared \in Seq(T)
  <2>1. /\ \A i \in 1..H : hosts[i] \in T /\ registries[i] \in T /\ clusters[i] \in T
        /\ \A i \in 1..L : declared[i] \in T
    <3> HIDE DEF hosts, registries, clusters, declared
    <3> QED BY <1>2, <1>3, <1>4
  <2>2. /\ hosts = [i \in 1..H |-> hosts[i]] /\ registries = [i \in 1..H |-> registries[i]]
        /\ clusters = [i \in 1..H |-> clusters[i]] /\ declared = [i \in 1..L |-> declared[i]]
    OBVIOUS
  <2> HIDE DEF hosts, registries, clusters, declared, T
  <2>3. hosts \in [1..H -> T] /\ registries \in [1..H -> T] /\ clusters \in [1..H -> T] /\ declared \in [1..L -> T]
    BY <2>1, <2>2
  <2> QED BY <2>3
<1>6. all \in Seq(T)
  <2> HIDE DEF all, hosts, registries, clusters, declared, T
  <2>1. hosts \o registries \in Seq(T)
    BY <1>5, ConcatProperties
  <2>2. (hosts \o registries) \o clusters \in Seq(T)
    BY <1>5, <2>1, ConcatProperties
  <2> QED BY <1>1, <1>5, <2>2, ConcatProperties
<1>7. Len(all) \in Nat /\ DOMAIN all = 1..Len(all) /\ \A k \in DOMAIN all : all[k] \in T
  <2> HIDE DEF all, T
  <2> QED BY <1>6, LenProperties, ElementOfSeq
<1>8. \A k \in DOMAIN all : IsEvidence(top, targets, hops, observed, all[k])
  <2> HIDE DEF all, X
  <2> QED BY <1>7
<1> QED BY <1>7, <1>8 DEF gateways

\* There is a strongest evidence, the first of equal ones.
Strongest(all, S, b) ==
    \A j \in S : all[j].strength < all[b].strength \/ (all[j].strength = all[b].strength /\ b <= j)

LEMMA StrongestExists ==
  ASSUME NEW N \in Nat, NEW all, NEW S \in SUBSET (1..N), S # {}, \A k \in S : all[k].strength \in {100, 200, 300}
  PROVE  \E b \in S : Strongest(all, S, b)
<1> DEFINE With(n) == {k \in S : all[k].strength = n}
<1>1. \A n : IsFiniteSet(With(n)) /\ With(n) \in SUBSET Nat
  <2>1. IsFiniteSet(1..N)
    BY FS_Interval
  <2>2. \A n : With(n) \in SUBSET (1..N)
    OBVIOUS
  <2> HIDE DEF With
  <2>3. 1..N \in SUBSET Nat
    OBVIOUS
  <2> QED BY <2>1, <2>2, <2>3, FS_Subset
<1>2. ASSUME NEW n \in {100, 200, 300}, With(n) # {}, \A k \in S : all[k].strength <= n
      PROVE  \E b \in S : Strongest(all, S, b)
  <2> DEFINE b == Nth(With(n), 1)
  <2>1. b \in With(n) /\ \A i \in With(n) : b <= i
    <3> HIDE DEF With
    <3> QED BY <1>1, <1>2, NthFirst
  <2> HIDE DEF b
  <2>2. Strongest(all, S, b)
    BY <1>2, <2>1 DEF Strongest
  <2> QED BY <2>1, <2>2
<1>3. CASE With(300) # {}
  BY <1>2, <1>3
<1>4. CASE With(300) = {} /\ With(200) # {}
  BY <1>2, <1>4
<1>5. CASE With(300) = {} /\ With(200) = {}
  <2>1. \A k \in S : all[k].strength = 100
    BY <1>5
  <2>2. \A k \in S : all[k].strength <= 100
    <3> SUFFICES ASSUME NEW k \in S PROVE all[k].strength <= 100
      OBVIOUS
    <3> DEFINE x == all[k].strength
    <3>1. x = 100
      BY <2>1
    <3> HIDE DEF x
    <3>2. x <= 100
      BY <3>1
    <3> QED BY <3>2 DEF x
  <2>3. With(100) = S
    <3> DEFINE hundred == 100
    <3>1. \A k \in S : all[k].strength = hundred
      BY <2>1
    <3> HIDE DEF hundred
    <3>2. With(hundred) = S
      BY <3>1
    <3> QED BY <3>2 DEF hundred
  <2> HIDE DEF With
  <2> QED BY <1>2, <2>2, <2>3
<1> QED BY <1>3, <1>4, <1>5


\* An inference has a known confidence, a high one singles its gateway out by the
\* host one record was sent to, and a low one has a link from an observed gateway.
InferenceEarned(top, targets, hops, observed, inferred) ==
    \A g \in DOMAIN inferred :
       /\ inferred[g] \in {"high", "medium", "low", "ambiguous"}
       /\ inferred[g] = "high" =>
             \E h \in DOMAIN hops : {x \in GatewaysOf(targets) : gatewayTargetMatchesAddress(top, x, hops[h].host)} = {g}
       /\ inferred[g] = "low" => \E i \in DOMAIN targets : LedTo(targets, observed, i) /\ targets[i].gateway = g

LEMMA InferredEarned ==
  ASSUME NEW top, NEW targets, NEW hops, NEW observed, NEW L \in Nat, DOMAIN targets = 1..L, NEW H \in Nat, DOMAIN hops = 1..H
  PROVE  InferenceEarned(top, targets, hops, observed, inferProbeGatewayCandidates(top, targets, hops, observed))
<1> DEFINE gateways == GatewaysOf(targets)
           all == AllEvidence(top, targets, hops, observed)
           About(g) == {i \in DOMAIN all : g \in all[i].matches}
           best(g) == CHOOSE i \in About(g) : Strongest(all, About(g), i)
           Matching(h) == {x \in gateways : gatewayTargetMatchesAddress(top, x, hops[h].host)}
           inferred == inferProbeGatewayCandidates(top, targets, hops, observed)
<1>1. inferred = [g \in UNION {all[i].matches : i \in DOMAIN all} |->
                    IF Cardinality(all[best(g)].matches) > 1 THEN "ambiguous" ELSE all[best(g)].confidence]
  BY Zenon DEF inferProbeGatewayCandidates, Strongest
<1>2. /\ Len(all) \in Nat /\ DOMAIN all = 1..Len(all)
      /\ \A k \in DOMAIN all : IsEvidence(top, targets, hops, observed, all[k])
  BY AllEvidenceIs
<1>3. IsFiniteSet(gateways)
  <2> DEFINE f == [i \in 1..L |-> targets[i].gateway]
  <2>1. f \in Surjection(1..L, gateways)
    <3>1. gateways = {targets[i].gateway : i \in 1..L}
      BY DEF GatewaysOf, ToSet
    <3> HIDE DEF gateways
    <3> QED BY <3>1 DEF Surjection
  <2>2. IsFiniteSet(1..L)
    BY FS_Interval
  <2> HIDE DEF f, gateways
  <2> QED BY <2>1, <2>2, FS_Surjection
<1> HIDE DEF all, gateways, inferred
<1>4. ASSUME NEW g \in DOMAIN inferred
      PROVE  /\ inferred[g] \in {"high", "medium", "low", "ambiguous"}
             /\ inferred[g] = "high" => \E h \in DOMAIN hops : Matching(h) = {g}
             /\ inferred[g] = "low" => \E i \in DOMAIN targets : LedTo(targets, observed, i) /\ targets[i].gateway = g
  <2> DEFINE b == best(g)
             e == all[b]
  <2>1. About(g) # {}
    BY <1>1, <1>4
  <2>2. b \in About(g)
    <3> DEFINE S == About(g)
    <3>1. S \in SUBSET (1..Len(all)) /\ S # {} /\ \A k \in S : all[k].strength \in {100, 200, 300}
      BY <1>2, <2>1 DEF IsEvidence
    <3> HIDE DEF S
    <3>2. \E i \in S : Strongest(all, S, i)
      BY <1>2, <3>1, StrongestExists
    <3>3. (CHOOSE i \in S : Strongest(all, S, i)) \in S
      BY <3>2
    <3> QED BY <3>3 DEF S
  <2>3. g \in e.matches /\ IsEvidence(top, targets, hops, observed, e)
    BY <1>2, <2>2
  <2>4. inferred[g] = IF Cardinality(e.matches) > 1 THEN "ambiguous" ELSE e.confidence
    BY <1>1, <1>4, Zenon
  <2> HIDE DEF e
  <2>5. inferred[g] \in {"high", "medium", "low", "ambiguous"}
    BY <2>3, <2>4 DEF IsEvidence
  <2>6. ASSUME inferred[g] = "high" PROVE \E h \in DOMAIN hops : Matching(h) = {g}
    <3> DEFINE M == e.matches
    <3>1. e.confidence = "high" /\ ~(Cardinality(M) > 1)
      BY <2>4, <2>6
    <3>2. PICK h \in DOMAIN hops : M = {x \in gateways : hops[h].host # <<>> /\ gatewayTargetMatchesAddress(top, x, hops[h].host)}
      BY <2>3, <3>1 DEF IsEvidence, gateways
    <3>3. M = Matching(h) /\ g \in M
      BY <2>3, <3>2
    <3>4. IsFiniteSet(M)
      <4>1. M \in SUBSET gateways
        BY <3>2
      <4> QED BY <1>3, <4>1, FS_Subset
    <3> HIDE DEF M, Matching
    <3>5. M \ {g} = {}
      <4>1. Cardinality(M) \in Nat /\ IsFiniteSet(M \ {g}) /\ Cardinality(M \ {g}) = Cardinality(M) - 1
        BY <3>3, <3>4, FS_CardinalityType, FS_RemoveElement
      <4>2. Cardinality(M \ {g}) \in Nat
        BY <4>1, FS_CardinalityType
      <4>3. Cardinality(M \ {g}) = 0
        BY <3>1, <4>1, <4>2
      <4> QED BY <4>1, <4>3, FS_EmptySet
    <3>6. M = {g}
      BY <3>3, <3>5
    <3> QED BY <3>3, <3>6
  <2>7. ASSUME inferred[g] = "low" PROVE \E i \in DOMAIN targets : LedTo(targets, observed, i) /\ targets[i].gateway = g
    <3>1. e.confidence = "low" /\ e.matches # {}
      BY <2>3, <2>4, <2>7
    <3>2. PICK i \in DOMAIN targets : LedTo(targets, observed, i) /\ e.matches = {targets[i].gateway}
      BY <2>3, <3>1 DEF IsEvidence
    <3>3. targets[i].gateway = g
      BY <2>3, <3>2
    <3> QED BY <3>2, <3>3
  <2> QED BY <2>5, <2>6, <2>7
<1> QED BY <1>4, Zenon DEF InferenceEarned, inferred, gateways


\* A segment's relation is one of four, whatever its records.
LEMMA KnownRelation ==
  ASSUME NEW hops, NEW collection, NEW issues
  PROVE  WorstRelation(attemptGroups(hops, collection, issues)) \in {"linked", "missing-next", "unconfirmed", "ambiguous"}
<1> DEFINE Relations == {"linked", "missing-next", "unconfirmed", "ambiguous"}
           groups == attemptGroups(hops, collection, issues)
           states == {groups[i].state : i \in DOMAIN groups} \cup {"linked"}
           Worst(s) == \A other \in states : relationRank(other) <= relationRank(s)
<1>1. \A i \in DOMAIN groups : groups[i].state \in Relations
  <2> SUFFICES ASSUME NEW i \in DOMAIN groups PROVE groups[i].state \in Relations
    OBVIOUS
  <2>1. PICK bucket : groups[i] = attemptGroup(i, bucket, collection, issues)
    BY DEF attemptGroups
  <2>2. \A name, records, ordered : relatedGroup(name, records, ordered, collection, issues).state \in Relations
    BY GroupFields DEF IsGroup
  <2> HIDE DEF Relations
  <2>3. attemptGroup(i, bucket, collection, issues).state \in Relations
    BY <2>2, Zenon DEF attemptGroup
  <2> QED BY <2>1, <2>3, Zenon
<1>2. states \in SUBSET Relations /\ states # {}
  BY <1>1
<1>3. WorstRelation(groups) = IF groups = <<>> THEN "unconfirmed" ELSE CHOOSE s \in states : Worst(s)
  BY Zenon DEF WorstRelation
<1> HIDE DEF states
<1>4. /\ relationRank("ambiguous") = 3 /\ relationRank("unconfirmed") = 2
      /\ relationRank("missing-next") = 1 /\ relationRank("linked") = 0
  BY DEF relationRank
<1>5. \E s \in states : Worst(s)
  <2>1. CASE "ambiguous" \in states
    BY <1>2, <1>4, <2>1
  <2>2. CASE "ambiguous" \notin states /\ "unconfirmed" \in states
    BY <1>2, <1>4, <2>2
  <2>3. CASE "ambiguous" \notin states /\ "unconfirmed" \notin states /\ "missing-next" \in states
    BY <1>2, <1>4, <2>3
  <2>4. CASE "ambiguous" \notin states /\ "unconfirmed" \notin states /\ "missing-next" \notin states
    <3>1. states = {"linked"}
      BY <1>2, <2>4
    <3> DEFINE linked == "linked"
    <3> HIDE DEF linked
    <3>2. states = {linked} /\ relationRank(linked) = 0
      BY <1>4, <3>1 DEF linked
    <3>3. Worst(linked)
      BY <3>2
    <3> QED BY <3>2, <3>3
  <2> QED BY <2>1, <2>2, <2>3, <2>4
<1>6. (CHOOSE s \in states : Worst(s)) \in states
  <2> HIDE DEF Worst
  <2> QED BY <1>5
<1> QED BY <1>2, <1>3, <1>6 DEF Relations

=============================================================================
