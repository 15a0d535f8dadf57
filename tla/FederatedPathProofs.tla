------------------------ MODULE FederatedPathProofs ------------------------
(***************************************************************************)
(* Theorems about the path of a probe, for any clusters, objects, passages *)
(* and failures: what the assembled execution claims of records, contexts, *)
(* final response and confidence is true of the request's passage, and     *)
(* analysing it again changes nothing.                                     *)
(***************************************************************************)
EXTENDS FederatedPath, AnalysisProofs, TopologyProofs

-----------------------------------------------------------------------------
(* What is collected of a passage                                          *)

\* A passage of the request, as PassageAssumption has it.
IsPassage(lines) ==
    /\ lines \in Seq(ToSet(lines)) /\ lines # <<>>
    /\ \A i \in DOMAIN lines : lines[i].gateway \in Seq(ToSet(Alphabet)) /\ lines[i].pass \in Nat \ {0}
    /\ \A i \in DOMAIN lines : lines[i].start \in Nat /\ lines[i].read \in Nat
    /\ \A i, j \in DOMAIN lines :
          /\ lines[i].pass = lines[j].pass =>
                lines[i].gateway = lines[j].gateway /\ lines[i].pod = lines[j].pod /\ lines[i].start = lines[j].start
          /\ lines[i].gateway = lines[j].gateway /\ lines[i].start = lines[j].start /\ lines[i].start # 0 =>
                lines[i].pass = lines[j].pass
    /\ \A i \in DOMAIN lines : Last(lines).pass <= lines[i].pass
    /\ Correlation(Last(lines), Probe) # ""

LEMMA PassagesAre ==
  \A lines \in Passages : IsPassage(lines)
BY PassageAssumption DEF IsPassage

\* The lines of a passage are numbered.
LEMMA PassageLines ==
  ASSUME NEW lines, IsPassage(lines)
  PROVE  /\ Len(lines) \in Nat \ {0} /\ DOMAIN lines = 1..Len(lines) /\ IsFiniteSet(DOMAIN lines)
         /\ \A i \in DOMAIN lines : /\ i \in Nat /\ lines[i].pass \in Nat /\ lines[i].pass > 0
                                    /\ lines[i].start \in Nat /\ ObservedAt(lines[i]) \in Nat
<1>1. Len(lines) \in Nat /\ DOMAIN lines = 1..Len(lines) /\ Len(lines) # 0
  BY LenProperties, EmptySeq DEF IsPassage
<1>2. IsFiniteSet(1..Len(lines))
  BY <1>1, FS_Interval
<1>3. \A i \in DOMAIN lines : lines[i].pass \in Nat /\ lines[i].pass > 0
  <2>1. \A i \in DOMAIN lines : lines[i].pass \in Nat \ {0}
    BY DEF IsPassage
  <2>2. \A n : n \in Nat \ {0} => n \in Nat /\ n > 0
    OBVIOUS
  <2> QED BY <2>1, <2>2, Zenon
<1>4. \A i \in 1..Len(lines) : i \in Nat
  BY <1>1
<1>5. \A i \in DOMAIN lines : lines[i].start \in Nat /\ ObservedAt(lines[i]) \in Nat
  BY DEF IsPassage, ObservedAt
<1> QED BY <1>1, <1>2, <1>3, <1>4, <1>5

\* i's line comes before j's: by the text of its time, and by its place in the
\* log among equal texts.
EarlierLine(lines, i, j) ==
    \/ ObservedAt(lines[i]) < ObservedAt(lines[j])
    \/ ObservedAt(lines[i]) = ObservedAt(lines[j]) /\ i < j

\* An Agent reports each line it read once, by time.
LEMMA ByTimeOrder ==
  ASSUME NEW lines, IsPassage(lines), NEW read \in SUBSET DOMAIN lines
  PROVE  LET order == ByTime(lines, read)
             N == Cardinality(read)
         IN  /\ N \in Nat /\ order \in Seq(read) /\ Len(order) = N /\ DOMAIN order = 1..N
             /\ \A n \in 1..N : order[n] \in read
             /\ \A m, n \in 1..N : order[m] = order[n] => m = n
             /\ \A i \in read : \E n \in 1..N : order[n] = i
             /\ \A m, n \in 1..N : m < n => EarlierLine(lines, order[m], order[n])
<1> DEFINE at == [i \in read |-> ObservedAt(lines[i])]
           R == {p \in read \X read : at[p[1]] < at[p[2]] \/ (at[p[1]] = at[p[2]] /\ p[1] < p[2])}
           order == ByTime(lines, read)
           N == Cardinality(read)
<1>1. IsFiniteSet(read)
  BY PassageLines, FS_Subset
<1>2. \A i, j \in read : <<i, j>> \in R <=> EarlierLine(lines, i, j)
  BY DEF EarlierLine
<1>3. \A i \in read : i \in Nat /\ ObservedAt(lines[i]) \in Nat
  BY PassageLines
<1>4. order = Ranked(read, R)
  BY Zenon DEF ByTime
<1> HIDE DEF R
<1>5. StrictOrder(read, R)
  <2>1. ASSUME NEW x \in read, NEW y \in read, NEW z \in read
        PROVE  /\ EarlierLine(lines, x, y) => ~EarlierLine(lines, y, x)
               /\ x # y => EarlierLine(lines, x, y) \/ EarlierLine(lines, y, x)
               /\ EarlierLine(lines, x, y) /\ EarlierLine(lines, y, z) => EarlierLine(lines, x, z)
    <3> DEFINE a == ObservedAt(lines[x])
               b == ObservedAt(lines[y])
               c == ObservedAt(lines[z])
    <3>1. a \in Nat /\ b \in Nat /\ c \in Nat /\ x \in Nat /\ y \in Nat /\ z \in Nat
      BY <1>3
    <3>2. /\ EarlierLine(lines, x, y) <=> (a < b \/ (a = b /\ x < y))
          /\ EarlierLine(lines, y, x) <=> (b < a \/ (b = a /\ y < x))
          /\ EarlierLine(lines, y, z) <=> (b < c \/ (b = c /\ y < z))
          /\ EarlierLine(lines, x, z) <=> (a < c \/ (a = c /\ x < z))
      BY Zenon DEF EarlierLine
    <3> HIDE DEF a, b, c
    <3> QED BY <3>1, <3>2
  <2> QED BY <1>2, <2>1 DEF StrictOrder
<1>6. LET q == Ranked(read, R)
      IN  /\ N \in Nat /\ q \in [1..N -> read] /\ q \in Seq(read) /\ Len(q) = N /\ DOMAIN q = 1..N
          /\ \A m, n \in 1..N : q[m] = q[n] => m = n
          /\ \A x \in read : \E n \in 1..N : q[n] = x
          /\ \A m, n \in 1..N : m < n => <<q[m], q[n]>> \in R
  BY <1>1, <1>5, RankedOrder
<1> HIDE DEF order
<1>7. \A n \in 1..N : order[n] \in read
  BY <1>4, <1>6
<1> QED BY <1>2, <1>4, <1>6, <1>7 DEF order

\* The records an Agent reports of the lines it read.
Records(lines, read) ==
    [n \in DOMAIN ByTime(lines, read) |-> ParseHigressLineForProbe(lines, ByTime(lines, read)[n])]

\* A segment before its analysis: records of lines of its gateway that belong to
\* the probe.
Drawn(lines, s) ==
    /\ IsSegment(s)
    /\ \E read \in SUBSET LinesOf(lines, s.gateway) :
          /\ \A i \in read : Correlation(lines[i], Probe) # ""
          /\ s.hops = Records(lines, read)

LEMMA DrawnAnalysable ==
  ASSUME NEW lines, IsPassage(lines), NEW s, Drawn(lines, s)
  PROVE  /\ Analysable(s)
         /\ s.hops \in Seq(ToSet(s.hops))
         /\ \A n \in DOMAIN s.hops : s.hops[n].at \in Nat
<1>1. PICK read \in SUBSET LinesOf(lines, s.gateway) : s.hops = Records(lines, read)
  BY DEF Drawn
<1> DEFINE order == ByTime(lines, read)
           N == Cardinality(read)
           hops == s.hops
<1>2. read \in SUBSET DOMAIN lines /\ \A i \in read : lines[i].gateway = s.gateway
  BY DEF LinesOf
<1>3. N \in Nat /\ DOMAIN order = 1..N /\ \A n \in 1..N : order[n] \in read
  BY <1>2, ByTimeOrder
<1>4. DOMAIN hops = 1..N /\ \A n \in 1..N : hops[n] = ParseHigressLineForProbe(lines, order[n])
  BY <1>1, <1>3 DEF Records
<1>5. hops \in Seq(ToSet(hops))
  <2>1. hops = [n \in 1..N |-> hops[n]]
    BY <1>1, <1>3, <1>4 DEF Records
  <2> HIDE DEF hops, N
  <2>2. hops \in [1..N -> ToSet(hops)]
    BY <1>4, <2>1 DEF ToSet
  <2> QED BY <1>3, <2>2
<1>6. \A i : LET h == ParseHigressLineForProbe(lines, i) IN IsHop(h) /\ h.id = <<"record", i>> /\ h.at = ObservedAt(lines[i])
  BY DEF ParseHigressLineForProbe, IsHop
<1>7. ASSUME NEW n \in DOMAIN hops
      PROVE  /\ s.gateway \in Seq(Words) /\ IsHop(hops[n]) /\ hops[n].id \in Seq(Words) \ {<<>>}
             /\ hops[n].at \in Nat
  <2>1. order[n] \in read /\ order[n] \in DOMAIN lines /\ lines[order[n]].gateway = s.gateway
    BY <1>2, <1>3, <1>4
  <2>2. s.gateway \in Seq(ToSet(Alphabet))
    BY <2>1 DEF IsPassage
  <2>3. s.gateway \in Seq(Words)
    <3> DEFINE A == ToSet(Alphabet)
    <3>1. A \in SUBSET Words
      BY DEF Words
    <3> HIDE DEF A
    <3> QED BY <2>2, <3>1 DEF A
  <2>4. order[n] \in Nat /\ ObservedAt(lines[order[n]]) \in Nat
    BY <2>1, PassageLines
  <2>5. IsHop(hops[n]) /\ hops[n].id = <<"record", order[n]>> /\ hops[n].at = ObservedAt(lines[order[n]])
    BY <1>4, <1>6
  <2>6. <<"record", order[n]>> \in Seq(Words) /\ <<"record", order[n]>> # <<>>
    <3> HIDE DEF order
    <3>1. "record" \in Words /\ order[n] \in Words
      BY <2>4 DEF Words
    <3> QED BY <3>1
  <2> QED BY <2>3, <2>4, <2>5, <2>6
<1> QED BY <1>5, <1>7 DEF Analysable, Drawn

-----------------------------------------------------------------------------
(* Sorting the segments                                                    *)

SegmentBefore(segments, i, j) ==
    EarlierSegment(segments[i], segments[j]) \/ (~EarlierSegment(segments[j], segments[i]) /\ i < j)
SortedPlaces(segments) ==
    Ranked(DOMAIN segments, {p \in (DOMAIN segments) \X (DOMAIN segments) : SegmentBefore(segments, p[1], p[2])})

\* Sorting keeps every segment once, those with records first, by time.
LEMMA SortedSegments ==
  ASSUME NEW L \in Nat, NEW segments, DOMAIN segments = 1..L,
         \A i \in 1..L : /\ segments[i].hops \in Seq(ToSet(segments[i].hops))
                         /\ \A n \in DOMAIN segments[i].hops : segments[i].hops[n].at \in Nat
  PROVE  LET order == SortedPlaces(segments)
             sorted == SortSegments(segments)
         IN  /\ DOMAIN sorted = 1..L /\ DOMAIN order = 1..L /\ sorted = [n \in 1..L |-> segments[order[n]]]
             /\ \A n \in 1..L : order[n] \in 1..L
             /\ \A m, n \in 1..L : order[m] = order[n] => m = n
             /\ \A i \in 1..L : \E n \in 1..L : order[n] = i
             /\ \A m, n \in 1..L : m < n => SegmentBefore(segments, order[m], order[n])
<1> DEFINE S == 1..L
           R == {p \in (DOMAIN segments) \X (DOMAIN segments) : SegmentBefore(segments, p[1], p[2])}
           order == SortedPlaces(segments)
           sorted == SortSegments(segments)
<1>1. IsFiniteSet(S) /\ Cardinality(S) = L
  <2>1. IsFiniteSet(1..L) /\ Cardinality(1..L) = IF 1 > L THEN 0 ELSE L - 1 + 1
    BY FS_Interval
  <2> QED BY <2>1
<1>2. \A i, j \in S : <<i, j>> \in R <=> SegmentBefore(segments, i, j)
  OBVIOUS
<1>3. order = Ranked(S, R)
  BY Zenon DEF SortedPlaces
<1>4. sorted = [n \in DOMAIN order |-> segments[order[n]]]
  BY Zenon DEF SortSegments, SortedPlaces, SegmentBefore
<1> HIDE DEF R, order, sorted
<1>5. StrictOrder(S, R)
  <2> DEFINE has == [i \in S |-> segments[i].hops # <<>>]
             len == [i \in S |-> Len(segments[i].hops)]
             at == [i \in S |-> segments[i].hops[1].at]
  <2>1. \A i \in S : /\ has[i] <=> segments[i].hops # <<>>
                     /\ has[i] <=> len[i] > 0
                     /\ len[i] \in Nat
                     /\ has[i] => at[i] \in Nat
    <3> SUFFICES ASSUME NEW i \in S
                 PROVE  /\ segments[i].hops # <<>> <=> Len(segments[i].hops) > 0
                        /\ Len(segments[i].hops) \in Nat
                        /\ segments[i].hops # <<>> => segments[i].hops[1].at \in Nat
      OBVIOUS
    <3> DEFINE hops == segments[i].hops
    <3>1. hops \in Seq(ToSet(hops)) /\ \A n \in DOMAIN hops : hops[n].at \in Nat
      OBVIOUS
    <3> HIDE DEF hops
    <3>2. Len(hops) \in Nat /\ DOMAIN hops = 1..Len(hops) /\ (hops # <<>> <=> Len(hops) > 0)
      BY <3>1, LenProperties, EmptySeq
    <3> QED BY <3>1, <3>2 DEF hops
  <2>2. \A i, j \in S : EarlierSegment(segments[i], segments[j])
                        <=> IF ~has[i] \/ ~has[j] THEN len[i] > len[j] ELSE at[i] < at[j]
    BY DEF EarlierSegment
  <2> HIDE DEF has, len, at
  <2>3. \A i, j \in S : EarlierSegment(segments[i], segments[j])
                        <=> (has[i] /\ ~has[j]) \/ (has[i] /\ has[j] /\ at[i] < at[j])
    BY <2>1, <2>2
  <2>4. \A i, j \in S : SegmentBefore(segments, i, j)
                        <=> \/ (has[i] /\ ~has[j]) \/ (has[i] /\ has[j] /\ at[i] < at[j])
                            \/ ~((has[j] /\ ~has[i]) \/ (has[j] /\ has[i] /\ at[j] < at[i])) /\ i < j
    BY <2>3 DEF SegmentBefore
  <2>5. ASSUME NEW x \in S, NEW y \in S, NEW z \in S
        PROVE  /\ SegmentBefore(segments, x, y) => ~SegmentBefore(segments, y, x)
               /\ x # y => SegmentBefore(segments, x, y) \/ SegmentBefore(segments, y, x)
               /\ SegmentBefore(segments, x, y) /\ SegmentBefore(segments, y, z) => SegmentBefore(segments, x, z)
    <3> DEFINE Less(i, j) == \/ (has[i] /\ ~has[j]) \/ (has[i] /\ has[j] /\ at[i] < at[j])
                             \/ ~((has[j] /\ ~has[i]) \/ (has[j] /\ has[i] /\ at[j] < at[i])) /\ i < j
    <3>1. /\ x \in Nat /\ y \in Nat /\ z \in Nat
          /\ has[x] => at[x] \in Nat
          /\ has[y] => at[y] \in Nat
          /\ has[z] => at[z] \in Nat
      BY <2>1
    <3>2. /\ Less(x, y) => ~Less(y, x)
          /\ x # y => Less(x, y) \/ Less(y, x)
          /\ Less(x, y) /\ Less(y, z) => Less(x, z)
      <4> DEFINE a == has[x]
                 b == has[y]
                 c == has[z]
                 u == at[x]
                 v == at[y]
                 w == at[z]
      <4> HIDE DEF a, b, c, u, v, w
      <4> QED BY ONLY <3>1 DEF a, b, c, u, v, w
    <3>3. \A i, j \in S : SegmentBefore(segments, i, j) <=> Less(i, j)
      BY <2>4
    <3> HIDE DEF Less
    <3> QED BY <3>2, <3>3, Zenon
  <2> QED BY <1>2, <2>5 DEF StrictOrder
<1>6. LET q == Ranked(S, R)
          N == Cardinality(S)
      IN  /\ N \in Nat /\ q \in [1..N -> S] /\ q \in Seq(S) /\ Len(q) = N /\ DOMAIN q = 1..N
          /\ \A m, n \in 1..N : q[m] = q[n] => m = n
          /\ \A x \in S : \E n \in 1..N : q[n] = x
          /\ \A m, n \in 1..N : m < n => <<q[m], q[n]>> \in R
  BY <1>1, <1>5, RankedOrder
<1>7. \A n \in S : order[n] \in S
  BY <1>1, <1>3, <1>6
<1> QED BY <1>1, <1>2, <1>3, <1>4, <1>6, <1>7 DEF order, sorted

-----------------------------------------------------------------------------
(* Assembling the execution                                                *)

\* The records of all segments, the observed gateways, and what is inferred of
\* the others.
HopsOf(source, targets, observations) == Joined(<<source.hops>> \o [i \in DOMAIN targets |-> observations[i].hops])
ObservedGateways(source, targets, observations) ==
    {targets[i].gateway : i \in {j \in DOMAIN targets : observations[j].hops # <<>>}}
    \cup (IF source.hops = <<>> THEN {} ELSE {source.gateway})
Inferred(top, source, targets, observations) ==
    inferProbeGatewayCandidates(top, targets, HopsOf(source, targets, observations),
                                ObservedGateways(source, targets, observations))

\* Which observations become segments, and how.
IsCandidate(inferred, s) == s.hops = <<>> /\ s.gateway \in DOMAIN inferred
IsKept(inferred, s) == s.hops # <<>> \/ IsCandidate(inferred, s) \/ ProtocolFailed(s)
ShownAs(inferred, s) ==
    IF IsCandidate(inferred, s)
    THEN [s EXCEPT !.inference = inferred[s.gateway], !.issues = @ \cup {Issue("inference", "gateway-evidence-missing", 0)}]
    ELSE s
KeptPlaces(inferred, observations) == {i \in DOMAIN observations : IsKept(inferred, observations[i])}
ShownSegments(inferred, observations) ==
    LET kept == At(observations, KeptPlaces(inferred, observations))
    IN  [i \in DOMAIN kept |-> ShownAs(inferred, kept[i])]
RawSegments(top, source, targets, observations) ==
    <<source>> \o SortSegments(ShownSegments(Inferred(top, source, targets, observations), observations))

LEMMA Completed ==
  ASSUME NEW top, NEW execution, NEW targets, NEW observations
  PROVE  completeFederatedProbe(top, execution, targets, observations) =
           EnrichProbe([execution EXCEPT !.segments = RawSegments(top, execution.segments[1], targets, observations)])
BY Zenon DEF completeFederatedProbe, RawSegments, ShownSegments, KeptPlaces, ShownAs, IsKept, IsCandidate,
             Inferred, ObservedGateways, HopsOf

\* A candidate is the same segment with its inference and one issue more.
LEMMA ShownFields ==
  ASSUME NEW s, IsSegment(s), NEW inferred
  PROVE  LET t == ShownAs(inferred, s)
             candidate == IsCandidate(inferred, s)
         IN  /\ IsSegment(t) /\ t.gateway = s.gateway /\ t.hops = s.hops /\ t.collection = s.collection
             /\ t.inference = (IF candidate THEN inferred[s.gateway] ELSE s.inference)
             /\ t.issues = (IF candidate THEN s.issues \cup {Issue("inference", "gateway-evidence-missing", 0)} ELSE s.issues)
<1>1. CASE ~IsCandidate(inferred, s)
  <2>1. ShownAs(inferred, s) = s
    BY <1>1, Zenon DEF ShownAs
  <2> QED BY <1>1, <2>1
<1>2. CASE IsCandidate(inferred, s)
  <2> DEFINE gateway == s.gateway
             hops == s.hops
             collection == s.collection
             issues == s.issues
             inference == s.inference
             links == s.links
             terminals == s.terminals
             relation == s.relation
             groups == s.groups
             missing == Issue("inference", "gateway-evidence-missing", 0)
             new == inferred[s.gateway]
             more == s.issues \cup {missing}
             s1 == [s EXCEPT !.inference = new]
             s2 == [s1 EXCEPT !.issues = s1.issues \cup {missing}]
             Segment(f, i) ==
               [gateway |-> gateway, hops |-> hops, collection |-> collection, issues |-> i, inference |-> f,
                links |-> links, terminals |-> terminals, relation |-> relation, groups |-> groups]
  <2>1. ShownAs(inferred, s) = [s EXCEPT !.inference = new, !.issues = @ \cup {missing}]
    BY <1>2, Zenon DEF ShownAs
  <2>2. s = Segment(inference, issues) /\ more = issues \cup {missing}
    BY Zenon DEF IsSegment
  <2> HIDE DEF missing, new
  <2>3. [s EXCEPT !.inference = new, !.issues = @ \cup {missing}] = s2
    OBVIOUS
  <2> HIDE DEF gateway, hops, collection, issues, inference, links, terminals, relation, groups
  <2>4. s1 = Segment(new, issues)
    BY <2>2
  <2> HIDE DEF s1
  <2>5. s1.issues = issues
    BY <2>4
  <2>6. s2 = [s1 EXCEPT !.issues = more]
    BY <2>2, <2>5
  <2> HIDE DEF s2, more
  <2>7. s2 = Segment(new, more)
    BY <2>4, <2>6
  <2> DEFINE t == Segment(new, more)
  <2>8. /\ IsSegment(t) /\ t.gateway = gateway /\ t.hops = hops /\ t.collection = collection
        /\ t.inference = new /\ t.issues = more
    BY DEF IsSegment
  <2>9. ShownAs(inferred, s) = t
    BY <2>1, <2>3, <2>7, Zenon
  <2> HIDE DEF t
  <2> QED BY <1>2, <2>8, <2>9, Zenon DEF gateway, hops, collection, more, new, missing
<1> QED BY <1>1, <1>2

LEMMA ShownDrawn ==
  ASSUME NEW lines, NEW s, Drawn(lines, s), NEW inferred
  PROVE  Drawn(lines, ShownAs(inferred, s))
<1> DEFINE t == ShownAs(inferred, s)
<1>1. IsSegment(t) /\ t.gateway = s.gateway /\ t.hops = s.hops
  BY ShownFields DEF Drawn
<1> HIDE DEF t
<1>2. Drawn(lines, t)
  BY <1>1, Zenon DEF Drawn
<1> QED BY <1>2 DEF t

\* The segments that are assembled: the source's, then one for each observation
\* that is kept, those with records first, by time.
ArrangedBy(raw, source, L, inferred, observations, N, place) ==
    /\ place \in [1..N -> 1..L]
    /\ DOMAIN raw = 1..N + 1 /\ Len(raw) = N + 1 /\ raw[1] = source
    /\ \A n \in 1..N : /\ IsKept(inferred, observations[place[n]])
                       /\ raw[n + 1] = ShownAs(inferred, observations[place[n]])
    /\ \A m, n \in 1..N : place[m] = place[n] => m = n
    /\ \A i \in 1..L : IsKept(inferred, observations[i]) => \E n \in 1..N : place[n] = i
    /\ \A m, n \in 1..N : m < n => \/ EarlierSegment(raw[m + 1], raw[n + 1])
                                   \/ ~EarlierSegment(raw[n + 1], raw[m + 1])
Arranged(raw, source, L, inferred, observations) ==
    \E N \in Nat : \E place : ArrangedBy(raw, source, L, inferred, observations, N, place)

LEMMA RawSegmentsOf ==
  ASSUME NEW lines, IsPassage(lines), NEW top, NEW source, NEW L \in Nat, NEW targets, NEW observations,
         DOMAIN observations = 1..L, \A i \in 1..L : Drawn(lines, observations[i])
  PROVE  Arranged(RawSegments(top, source, targets, observations), source, L,
                  Inferred(top, source, targets, observations), observations)
<1> DEFINE inferred == Inferred(top, source, targets, observations)
           raw == RawSegments(top, source, targets, observations)
           K == KeptPlaces(inferred, observations)
           N == Cardinality(K)
           kept == At(observations, K)
           shown == ShownSegments(inferred, observations)
           order == SortedPlaces(shown)
           sorted == SortSegments(shown)
           place == [n \in 1..N |-> Nth(K, order[n])]
<1>1. K \in SUBSET (1..L) /\ \A i \in 1..L : i \in K <=> IsKept(inferred, observations[i])
  BY DEF KeptPlaces
<1> HIDE DEF inferred, K
<1>2. IsFiniteSet(K) /\ N \in Nat /\ K \in SUBSET Nat
  <2>1. IsFiniteSet(1..L)
    BY FS_Interval
  <2>2. IsFiniteSet(K)
    BY <1>1, <2>1, FS_Subset
  <2>3. 1..L \in SUBSET Nat
    OBVIOUS
  <2> QED BY <1>1, <2>2, <2>3, FS_CardinalityType
<1>3. DOMAIN kept = 1..N /\ \A n \in 1..N : kept[n] = observations[Nth(K, n)]
  BY DEF At
<1>4. DOMAIN shown = 1..N /\ \A n \in 1..N : shown[n] = ShownAs(inferred, observations[Nth(K, n)])
  BY <1>3 DEF ShownSegments, K
<1>5. /\ \A n \in 1..N : Nth(K, n) \in K
      /\ \A m, n \in 1..N : Nth(K, m) = Nth(K, n) => m = n
      /\ \A i \in K : \E n \in 1..N : Nth(K, n) = i
  BY <1>2, NthOrder
<1> HIDE DEF N
<1>6. \A n \in 1..N : Drawn(lines, shown[n])
  <2> SUFFICES ASSUME NEW n \in 1..N PROVE Drawn(lines, shown[n])
    OBVIOUS
  <2>1. Drawn(lines, observations[Nth(K, n)])
    BY <1>1, <1>5
  <2>2. Drawn(lines, ShownAs(inferred, observations[Nth(K, n)]))
    BY <2>1, ShownDrawn
  <2> QED BY <1>4, <2>2, Zenon
<1> HIDE DEF shown
<1>7. \A n \in 1..N : /\ shown[n].hops \in Seq(ToSet(shown[n].hops))
                      /\ \A k \in DOMAIN shown[n].hops : shown[n].hops[k].at \in Nat
  BY <1>6, DrawnAnalysable
<1>8. /\ DOMAIN sorted = 1..N /\ DOMAIN order = 1..N /\ sorted = [n \in 1..N |-> shown[order[n]]]
      /\ \A n \in 1..N : order[n] \in 1..N
      /\ \A m, n \in 1..N : order[m] = order[n] => m = n
      /\ \A i \in 1..N : \E n \in 1..N : order[n] = i
      /\ \A m, n \in 1..N : m < n => SegmentBefore(shown, order[m], order[n])
  BY <1>2, <1>4, <1>7, SortedSegments
<1>9. raw = <<source>> \o sorted
  BY Zenon DEF RawSegments, shown, inferred
<1> HIDE DEF order, sorted, raw
<1>10. /\ DOMAIN raw = 1..N + 1 /\ Len(raw) = N + 1 /\ raw[1] = source
       /\ \A n \in 1..N : raw[n + 1] = sorted[n]
  <2> DEFINE A == ToSet(sorted) \cup {source}
             one == <<source>>
  <2>1. sorted \in Seq(A) /\ Len(sorted) = N
    <3>1. sorted = [n \in 1..N |-> sorted[n]] /\ \A n \in 1..N : sorted[n] \in A
      BY <1>8 DEF ToSet
    <3> HIDE DEF A
    <3> QED BY <1>2, <3>1
  <2>2. one \in Seq(A) /\ Len(one) = 1 /\ one[1] = source
    OBVIOUS
  <2> HIDE DEF A, one
  <2>3. /\ one \o sorted \in Seq(A) /\ Len(one \o sorted) = Len(one) + Len(sorted)
        /\ \A i \in 1..Len(one) + Len(sorted) : (one \o sorted)[i] = IF i <= Len(one) THEN one[i] ELSE sorted[i - Len(one)]
    BY <2>1, <2>2, ConcatProperties
  <2>4. raw = one \o sorted
    BY <1>9 DEF one
  <2>5. raw \in Seq(A) /\ Len(raw) = 1 + N /\ \A i \in 1..1 + N : raw[i] = IF i <= 1 THEN one[i] ELSE sorted[i - 1]
    BY <2>1, <2>2, <2>3, <2>4
  <2>6. DOMAIN raw = 1..Len(raw)
    BY <2>5, LenProperties
  <2> QED BY <1>2, <2>2, <2>5, <2>6
<1>11. place \in [1..N -> 1..L] /\ \A n \in 1..N : place[n] = Nth(K, order[n])
  BY <1>1, <1>5, <1>8
<1> HIDE DEF place
<1>12. \A n \in 1..N : /\ IsKept(inferred, observations[place[n]])
                       /\ raw[n + 1] = ShownAs(inferred, observations[place[n]])
  <2> SUFFICES ASSUME NEW n \in 1..N
               PROVE  /\ IsKept(inferred, observations[place[n]])
                      /\ raw[n + 1] = ShownAs(inferred, observations[place[n]])
    OBVIOUS
  <2>1. place[n] = Nth(K, order[n]) /\ order[n] \in 1..N /\ sorted[n] = shown[order[n]]
    BY <1>8, <1>11
  <2>2. place[n] \in K /\ place[n] \in 1..L
    BY <1>1, <1>5, <2>1
  <2>3. shown[order[n]] = ShownAs(inferred, observations[place[n]])
    BY <1>4, <2>1, Zenon
  <2>4. raw[n + 1] = shown[order[n]]
    BY <1>10, <2>1, Zenon
  <2> QED BY <1>1, <2>2, <2>3, <2>4, Zenon
<1>13. \A m, n \in 1..N : place[m] = place[n] => m = n
  BY <1>5, <1>8, <1>11
<1>14. \A i \in 1..L : IsKept(inferred, observations[i]) => \E n \in 1..N : place[n] = i
  <2> SUFFICES ASSUME NEW i \in 1..L, IsKept(inferred, observations[i])
               PROVE  \E n \in 1..N : place[n] = i
    OBVIOUS
  <2>1. PICK k \in 1..N : Nth(K, k) = i
    BY <1>1, <1>5
  <2>2. PICK n \in 1..N : order[n] = k
    BY <1>8
  <2> QED BY <1>11, <2>1, <2>2
<1>15. \A m, n \in 1..N : m < n => EarlierSegment(raw[m + 1], raw[n + 1]) \/ ~EarlierSegment(raw[n + 1], raw[m + 1])
  BY <1>8, <1>10 DEF SegmentBefore
<1>16. ArrangedBy(raw, source, L, inferred, observations, N, place)
  BY <1>2, <1>10, <1>11, <1>12, <1>13, <1>14, <1>15 DEF ArrangedBy
<1>17. Arranged(raw, source, L, inferred, observations)
  BY <1>2, <1>16, Zenon DEF Arranged
<1> QED BY <1>17 DEF inferred, raw

-----------------------------------------------------------------------------
(* From a passage to the assembled execution                               *)

\* What comes of a passage: what the source Agent found of it (found0, flaw) and
\* the other gateways' observations (found1, failed, code).
Observations(lines, targets, found1, failed, code) ==
    [i \in DOMAIN targets |-> Observed(lines, targets[i], found1, failed, code)]
Raw(lines, top, source, targets, found0, flaw, found1, failed, code) ==
    RawSegments(top, SourceExecution(lines, source, found0, flaw).segments[1], targets,
                Observations(lines, targets, found1, failed, code))
Assembly(lines, top, source, targets, found0, flaw, found1, failed, code) ==
    completeFederatedProbe(top, SourceExecution(lines, source, found0, flaw), targets,
                           Observations(lines, targets, found1, failed, code))

LEMMA NoRecords ==
  ASSUME NEW lines
  PROVE  Records(lines, {}) = <<>>
<1>1. Cardinality({}) = 0
  BY FS_EmptySet
<1>2. DOMAIN ByTime(lines, {}) = 1..Cardinality({})
  BY DEF ByTime, Ranked
<1> DEFINE records == Records(lines, {})
<1>3. DOMAIN records = DOMAIN ByTime(lines, {})
  BY DEF Records
<1>4. records = [n \in DOMAIN records |-> records[n]]
  BY DEF Records
<1> HIDE DEF records
<1>5. DOMAIN records = {}
  BY <1>1, <1>2, <1>3
<1>6. records \in Seq({}) /\ Len(records) = 0
  <2>1. records \in [1..0 -> {}]
    BY <1>4, <1>5
  <2> QED BY <2>1, LenProperties
<1> QED BY <1>6, EmptySeq DEF records

\* The lines read of a gateway are lines of it that belong to the probe.
LEMMA ReadLinesAre ==
  ASSUME NEW lines, NEW gateway, NEW found
  PROVE  /\ ReadLines(lines, gateway, found) \in SUBSET LinesOf(lines, gateway)
         /\ \A i \in ReadLines(lines, gateway, found) : i \in found /\ Correlation(lines[i], Probe) # ""
BY DEF ReadLines

\* A gateway's answer as a segment.
AgentIssues(issues) == \A i \in issues : i.scope \in {"collection", "execution"}
IsAnswer(lines, s, gateway, hops) ==
    /\ Drawn(lines, s) /\ s.gateway = gateway /\ s.inference = "" /\ s.hops = hops
    /\ \A i \in s.issues : i.scope = "collection"

LEMMA AnswerSegment ==
  ASSUME NEW lines, NEW gateway, NEW found, NEW collection, NEW issues, AgentIssues(issues)
  PROVE  IsAnswer(lines, segmentFromAgent(gateway, AgentResult(lines, gateway, found, collection, issues)),
                  gateway, Records(lines, ReadLines(lines, gateway, found)))
<1> DEFINE result == AgentResult(lines, gateway, found, collection, issues)
           s == segmentFromAgent(gateway, result)
           read == ReadLines(lines, gateway, found)
<1>1. /\ result.hops = Records(lines, read)
      /\ \A i \in result.issues : i.scope \in {"collection", "execution"}
  <2>1. result = [hops |-> Records(lines, read), collection |-> collection,
                  issues |-> issues \cup (IF read = {} THEN {Issue("collection", "no-matching-log", 0)} ELSE {})]
    BY Zenon DEF AgentResult, Records
  <2>2. \A i \in (IF read = {} THEN {Issue("collection", "no-matching-log", 0)} ELSE {}) : i.scope = "collection"
    BY DEF Issue
  <2> HIDE DEF result, read
  <2> QED BY <2>1, <2>2 DEF AgentIssues
<1> HIDE DEF result
<1>2. /\ IsSegment(s) /\ s.gateway = gateway /\ s.inference = "" /\ s.hops = result.hops
      /\ s.issues = {i \in result.issues : i.scope # "execution"}
  <2> DEFINE h == result.hops
             c == result.collection
             own == {i \in result.issues : i.scope # "execution"}
             t == [gateway |-> gateway, hops |-> h, collection |-> c, issues |-> own, inference |-> "",
                   links |-> {}, terminals |-> {}, relation |-> "", groups |-> <<>>]
  <2>1. s = t
    BY Zenon DEF segmentFromAgent
  <2> HIDE DEF s, h, c, own
  <2>2. IsSegment(t) /\ t.gateway = gateway /\ t.inference = "" /\ t.hops = h /\ t.issues = own
    BY DEF IsSegment
  <2> HIDE DEF t
  <2> QED BY <2>1, <2>2, Zenon DEF h, own
<1> HIDE DEF s
<1>3. Drawn(lines, s)
  <2>1. read \in SUBSET LinesOf(lines, s.gateway) /\ \A i \in read : Correlation(lines[i], Probe) # ""
    BY <1>2, ReadLinesAre
  <2> HIDE DEF read
  <2> QED BY <1>1, <1>2, <2>1 DEF Drawn
<1>4. IsAnswer(lines, s, gateway, Records(lines, read))
  BY <1>1, <1>2, <1>3 DEF IsAnswer
<1> QED BY <1>4 DEF result, s

LEMMA SourceSegment ==
  ASSUME NEW lines, NEW source, NEW found, NEW flaw
  PROVE  LET e == SourceExecution(lines, source, found, flaw)
             s == e.segments[1]
         IN  /\ IsExecution(e) /\ e.state = "completed" /\ e.code = Last(lines).code /\ e.gateway = source
             /\ IsAnswer(lines, s, source, Records(lines, ReadLines(lines, source, found)))
<1> DEFINE collection == IF flaw = "unstable" THEN "unstable" ELSE "settled"
           result == AgentResult(lines, source, found, collection, SourceIssues(flaw))
           segment == segmentFromAgent(source, result)
           rest == {i \in result.issues : i.scope = "execution"}
           code == Last(lines).code
           e == SourceExecution(lines, source, found, flaw)
<1>1. e = [state |-> "completed", code |-> code, gateway |-> source, segments |-> <<segment>>,
           issues |-> rest, finalResponse |-> <<>>, finalUpstream |-> <<>>]
  BY Zenon DEF SourceExecution
<1>3. AgentIssues(SourceIssues(flaw))
  <2>1. /\ Issue("collection", "log-source-rotated", 0).scope = "collection"
        /\ Issue("execution", "response-limit-exceeded", 0).scope = "execution"
    BY DEF Issue
  <2> QED BY <2>1 DEF SourceIssues, AgentIssues
<1> HIDE DEF collection
<1>4. IsAnswer(lines, segment, source, Records(lines, ReadLines(lines, source, found)))
  BY <1>3, AnswerSegment, Zenon
<1> HIDE DEF segment, rest, code, e
<1>5. /\ IsExecution(e) /\ e.state = "completed" /\ e.code = code /\ e.gateway = source /\ e.segments[1] = segment
  BY <1>1 DEF IsExecution
<1> QED BY <1>4, <1>5, Zenon DEF e, code

LEMMA ObservedSegment ==
  ASSUME NEW lines, NEW target, NEW found, NEW failed, NEW code
  PROVE  IsAnswer(lines, Observed(lines, target, found, failed, code), target.gateway,
                  IF target.gateway \in failed THEN <<>> ELSE Records(lines, ReadLines(lines, target.gateway, found)))
<1> DEFINE gateway == target.gateway
           s == Observed(lines, target, found, failed, code)
<1>1. CASE gateway \in failed
  <2> DEFINE issue == Issue("collection", code, 0)
             collection == IF code = "collection-cancelled" THEN "cancelled" ELSE "read-error"
             t == segmentFromAgent(gateway, [hops |-> <<>>, collection |-> collection, issues |-> {issue}])
  <2>1. s = t
    BY <1>1, Zenon DEF Observed, failedObservation
  <2>2. issue.scope = "collection"
    BY DEF Issue
  <2> HIDE DEF gateway, issue, collection
  <2>3. IsSegment(t) /\ t.gateway = gateway /\ t.inference = "" /\ t.hops = <<>> /\ t.issues \in SUBSET {issue}
    BY DEF segmentFromAgent, IsSegment
  <2> HIDE DEF s, t
  <2>4. Drawn(lines, s)
    <3>1. s.hops = Records(lines, {})
      BY <2>1, <2>3, NoRecords
    <3>2. \A i \in {} : Correlation(lines[i], Probe) # ""
      OBVIOUS
    <3> QED BY <2>1, <2>3, <3>1, <3>2 DEF Drawn
  <2>5. IsAnswer(lines, s, gateway, <<>>)
    BY <2>1, <2>2, <2>3, <2>4 DEF IsAnswer
  <2> QED BY <1>1, <2>5, Zenon DEF s, gateway
<1>2. CASE gateway \notin failed
  <2> DEFINE t == segmentFromAgent(gateway, AgentResult(lines, gateway, found, "settled", {}))
  <2>1. s = t
    BY <1>2, Zenon DEF Observed
  <2>2. IsAnswer(lines, t, gateway, Records(lines, ReadLines(lines, gateway, found)))
    <3>1. AgentIssues({})
      BY DEF AgentIssues
    <3>2. FALSE \in BOOLEAN
      OBVIOUS
    <3> QED BY <3>1, <3>2, AnswerSegment, Zenon
  <2> HIDE DEF s, t
  <2> QED BY <1>2, <2>1, <2>2, Zenon DEF s, gateway
<1> QED BY <1>1, <1>2, Zenon

\* The segments before the analysis: the source's, then one for each observation
\* that is kept.
RawArranged(lines, top, source, L, targets, found0, flaw, found1, failed, code) ==
    LET first == SourceExecution(lines, source, found0, flaw).segments[1]
        observations == Observations(lines, targets, found1, failed, code)
    IN  Arranged(Raw(lines, top, source, targets, found0, flaw, found1, failed, code), first, L,
                 Inferred(top, first, targets, observations), observations)

LEMMA RawIsArranged ==
  ASSUME NEW lines, IsPassage(lines), NEW top, NEW source, NEW L \in Nat, NEW targets, DOMAIN targets = 1..L,
         NEW found0, NEW flaw, NEW found1, NEW failed, NEW code
  PROVE  RawArranged(lines, top, source, L, targets, found0, flaw, found1, failed, code)
<1> DEFINE raw == Raw(lines, top, source, targets, found0, flaw, found1, failed, code)
           first == SourceExecution(lines, source, found0, flaw).segments[1]
           observations == Observations(lines, targets, found1, failed, code)
           inferred == Inferred(top, first, targets, observations)
<1>1. DOMAIN observations = 1..L
  BY DEF Observations
<1>2. \A i \in 1..L : Drawn(lines, observations[i])
  <2> SUFFICES ASSUME NEW i \in 1..L PROVE Drawn(lines, observations[i])
    OBVIOUS
  <2>1. observations[i] = Observed(lines, targets[i], found1, failed, code)
    BY DEF Observations
  <2>2. Drawn(lines, Observed(lines, targets[i], found1, failed, code))
    BY ObservedSegment, Zenon DEF IsAnswer
  <2> QED BY <2>1, <2>2, Zenon
<1>3. raw = RawSegments(top, first, targets, observations)
  BY Zenon DEF Raw
<1> HIDE DEF raw, observations, first
<1>4. Arranged(raw, first, L, inferred, observations)
  BY <1>1, <1>2, <1>3, RawSegmentsOf
<1> QED BY <1>4, Zenon DEF RawArranged, raw, first, observations, inferred

\* The segments before the analysis are drawn from the passage, the source's
\* first, the others of targets.
AllDrawn(lines, first, L, targets, raw) ==
    /\ Len(raw) \in Nat \ {0} /\ DOMAIN raw = 1..Len(raw)
    /\ raw[1] = first
    /\ \A i \in DOMAIN raw : Drawn(lines, raw[i])
    /\ \A i \in DOMAIN raw : i # 1 => \E k \in 1..L : raw[i].gateway = targets[k].gateway

LEMMA RawDrawn ==
  ASSUME NEW lines, IsPassage(lines), NEW top, NEW source, NEW L \in Nat, NEW targets, DOMAIN targets = 1..L,
         NEW found0, NEW flaw, NEW found1, NEW failed, NEW code
  PROVE  AllDrawn(lines, SourceExecution(lines, source, found0, flaw).segments[1], L, targets,
                  Raw(lines, top, source, targets, found0, flaw, found1, failed, code))
<1> DEFINE raw == Raw(lines, top, source, targets, found0, flaw, found1, failed, code)
           first == SourceExecution(lines, source, found0, flaw).segments[1]
           observations == Observations(lines, targets, found1, failed, code)
           inferred == Inferred(top, first, targets, observations)
<1>1. Drawn(lines, first)
  BY SourceSegment DEF IsAnswer
<1>2. \A k \in 1..L : Drawn(lines, observations[k]) /\ observations[k].gateway = targets[k].gateway
  <2> SUFFICES ASSUME NEW k \in 1..L PROVE Drawn(lines, observations[k]) /\ observations[k].gateway = targets[k].gateway
    OBVIOUS
  <2> DEFINE s == Observed(lines, targets[k], found1, failed, code)
             gateway == targets[k].gateway
             hops == IF gateway \in failed THEN <<>> ELSE Records(lines, ReadLines(lines, gateway, found1))
  <2>1. observations[k] = s
    BY DEF Observations
  <2>2. IsAnswer(lines, s, gateway, hops)
    BY ObservedSegment, Zenon
  <2> HIDE DEF s, gateway, hops
  <2>3. Drawn(lines, s) /\ s.gateway = gateway
    BY <2>2 DEF IsAnswer
  <2> QED BY <2>1, <2>3, Zenon DEF gateway
<1>3. Arranged(raw, first, L, inferred, observations)
  BY RawIsArranged, Zenon DEF RawArranged
<1> HIDE DEF raw, observations, first, inferred
<1>4. PICK N \in Nat : \E place : ArrangedBy(raw, first, L, inferred, observations, N, place)
  BY <1>3, Zenon DEF Arranged
<1>4a. PICK place : ArrangedBy(raw, first, L, inferred, observations, N, place)
  BY <1>4, Zenon
<1>5. /\ place \in [1..N -> 1..L] /\ DOMAIN raw = 1..N + 1 /\ Len(raw) = N + 1 /\ raw[1] = first
      /\ \A n \in 1..N : raw[n + 1] = ShownAs(inferred, observations[place[n]])
  BY <1>4a, Zenon DEF ArrangedBy
<1>6. ASSUME NEW i \in 1..N + 1, i # 1
      PROVE  Drawn(lines, raw[i]) /\ \E k \in 1..L : raw[i].gateway = targets[k].gateway
  <2>1. i - 1 \in 1..N /\ i - 1 + 1 = i
    BY <1>6
  <2> DEFINE k == place[i - 1]
             s == observations[k]
  <2>2. k \in 1..L /\ raw[i] = ShownAs(inferred, s)
    BY <1>5, <2>1
  <2>3. Drawn(lines, s) /\ s.gateway = targets[k].gateway
    BY <1>2, <2>2
  <2> HIDE DEF k, s
  <2>4. Drawn(lines, ShownAs(inferred, s)) /\ ShownAs(inferred, s).gateway = s.gateway
    BY <2>3, ShownDrawn, ShownFields DEF Drawn
  <2> QED BY <2>2, <2>3, <2>4
<1>7. \A i \in 1..N + 1 : Drawn(lines, raw[i])
  BY <1>1, <1>5, <1>6
<1>8. Len(raw) \in Nat \ {0} /\ DOMAIN raw = 1..Len(raw) /\ raw[1] = first
  BY <1>5
<1>9. AllDrawn(lines, first, L, targets, raw)
  BY <1>5, <1>6, <1>7, <1>8 DEF AllDrawn
<1> QED BY <1>9 DEF raw, first

\* The assembled execution: its segments are analysed, and what is concluded is
\* concluded from them.
Analysed(raw) == [i \in DOMAIN raw |-> EnrichSegment(raw[i])]

LEMMA AssembledExecution ==
  ASSUME NEW lines, IsPassage(lines), NEW top, NEW source, NEW L \in Nat, NEW targets, DOMAIN targets = 1..L,
         NEW found0, NEW flaw, NEW found1, NEW failed, NEW code
  PROVE  LET raw == Raw(lines, top, source, targets, found0, flaw, found1, failed, code)
             execution == Assembly(lines, top, source, targets, found0, flaw, found1, failed, code)
             final == Final(FinalsOf("completed", Last(lines).code, source, Analysed(raw)))
         IN  /\ EnrichProbe(execution) = execution
             /\ execution.segments = Analysed(raw)
             /\ execution.finalResponse = final
             /\ execution.finalUpstream # <<>> => execution.finalUpstream = final /\ Len(Analysed(raw)) = 1
<1> DEFINE raw == Raw(lines, top, source, targets, found0, flaw, found1, failed, code)
           execution == Assembly(lines, top, source, targets, found0, flaw, found1, failed, code)
           reply == SourceExecution(lines, source, found0, flaw)
           segments == Analysed(raw)
           final == Final(FinalsOf("completed", Last(lines).code, source, segments))
           answer == Last(lines).code
           e == [reply EXCEPT !.segments = raw]
<1>1. execution = EnrichProbe(e)
  BY Completed, Zenon DEF Assembly, Raw
<1>2. \A i \in DOMAIN raw : Analysable(raw[i])
  <2>1. AllDrawn(lines, reply.segments[1], L, targets, raw)
    BY RawDrawn, Zenon
  <2> HIDE DEF raw, reply
  <2> QED BY <2>1, DrawnAnalysable DEF AllDrawn
<1>3. IsExecution(reply) /\ reply.state = "completed" /\ reply.code = answer /\ reply.gateway = source
  BY SourceSegment
<1> HIDE DEF raw, reply, answer, execution
<1>4. /\ IsExecution(e) /\ e.segments = raw
      /\ e.state = "completed" /\ e.code = answer /\ e.gateway = source /\ e.issues = reply.issues
  <2> DEFINE s == reply.segments
             i == reply.issues
             r == reply.finalResponse
             u == reply.finalUpstream
             t == [state |-> "completed", code |-> answer, gateway |-> source, segments |-> raw,
                   issues |-> i, finalResponse |-> r, finalUpstream |-> u]
  <2>1. reply = [state |-> "completed", code |-> answer, gateway |-> source, segments |-> s,
                issues |-> i, finalResponse |-> r, finalUpstream |-> u]
    BY <1>3, Zenon DEF IsExecution
  <2> HIDE DEF s, i, r, u
  <2>2. e = t
    BY <2>1
  <2>3. /\ IsExecution(t) /\ t.segments = raw /\ t.state = "completed" /\ t.code = answer
        /\ t.gateway = source /\ t.issues = i
    BY DEF IsExecution
  <2> HIDE DEF t, e
  <2> QED BY <2>2, <2>3, Zenon DEF i
<1> HIDE DEF e
<1>5. AnalysedSegments(e) = segments
  BY <1>4, Zenon DEF AnalysedSegments, Analysed
<1> HIDE DEF segments, final
<1>6. Finals(e, segments) = FinalsOf("completed", answer, source, segments)
  BY <1>4, Zenon DEF Finals
<1>7. execution = [state |-> e.state, code |-> e.code, gateway |-> e.gateway, segments |-> segments, issues |-> e.issues,
                   finalResponse |-> final,
                   finalUpstream |-> IF Len(segments) = 1 /\ e.issues = {} THEN final ELSE <<>>]
  <2>1. final = Final(Finals(e, segments))
    BY <1>6, Zenon DEF final, answer
  <2> QED BY <1>1, <1>4, <1>5, <2>1, EnrichedExecution
<1>8. /\ execution.segments = segments /\ execution.finalResponse = final
      /\ execution.finalUpstream # <<>> => execution.finalUpstream = final /\ Len(segments) = 1
  BY <1>7
<1>9. EnrichProbe(execution) = execution
  <2>1. \A i \in DOMAIN e.segments : Analysable(e.segments[i])
    BY <1>2, <1>4
  <2> QED BY <1>1, <1>4, <2>1, AnalysedTwice
<1> QED BY <1>8, <1>9 DEF execution, segments, final, answer, raw

\* An analysed segment: the collected records under global IDs.
LEMMA AnalysedSegment ==
  ASSUME NEW lines, IsPassage(lines), NEW s, Drawn(lines, s)
  PROVE  LET t == EnrichSegment(s)
         IN  /\ t.gateway = s.gateway /\ t.inference = s.inference /\ t.collection = s.collection
             /\ t.hops = GlobalHops(s) /\ t.groups = GroupsOf(s)
             /\ t.issues = Retained(s) \cup GroupIssues(GroupsOf(s))
             /\ t.links = GroupLinks(GroupsOf(s)) /\ t.terminals = GroupTerminals(GroupsOf(s))
             /\ t.relation = WorstRelation(GroupsOf(s))
<1>1. IsSegment(s)
  BY DEF Drawn
<1> DEFINE t == EnrichSegment(s)
           gateway == s.gateway
           hops == GlobalHops(s)
           collection == s.collection
           issues == Retained(s) \cup GroupIssues(GroupsOf(s))
           inference == s.inference
           links == GroupLinks(GroupsOf(s))
           terminals == GroupTerminals(GroupsOf(s))
           relation == WorstRelation(GroupsOf(s))
           groups == GroupsOf(s)
<1>2. t = [gateway |-> gateway, hops |-> hops, collection |-> collection, issues |-> issues, inference |-> inference,
           links |-> links, terminals |-> terminals, relation |-> relation, groups |-> groups]
  BY <1>1, EnrichedFields, Zenon
<1> HIDE DEF t, gateway, hops, collection, issues, inference, links, terminals, relation, groups
<1>3. /\ t.gateway = gateway /\ t.inference = inference /\ t.collection = collection /\ t.hops = hops
      /\ t.groups = groups /\ t.issues = issues /\ t.links = links /\ t.terminals = terminals /\ t.relation = relation
  BY <1>2
<1> QED BY <1>3, Zenon DEF t, gateway, hops, collection, issues, inference, links, terminals, relation, groups

\* The records of an analysed segment, and the lines they were read from.
HopsRead(lines, gateway, read, hops) ==
    LET order == ByTime(lines, read)
        Name(n) == GlobalName(gateway, <<"record", order[n]>>)
    IN  /\ DOMAIN hops = 1..Cardinality(read)
        /\ \A n \in DOMAIN hops :
              /\ order[n] \in read
              /\ hops[n] = Renamed(ParseHigressLineForProbe(lines, order[n]), Name(n))
              /\ Name(n) # <<>> /\ Last(Name(n)) = order[n]

LEMMA AnalysedHop ==
  ASSUME NEW lines, IsPassage(lines), NEW s, IsSegment(s), NEW read \in SUBSET LinesOf(lines, s.gateway), s.hops = Records(lines, read)
  PROVE  HopsRead(lines, s.gateway, read, GlobalHops(s))
<1> DEFINE order == ByTime(lines, read)
           hops == GlobalHops(s)
           N == Cardinality(read)
<1>1. read \in SUBSET DOMAIN lines /\ \A i \in read : lines[i].gateway = s.gateway
  BY DEF LinesOf
<1>2. N \in Nat /\ DOMAIN order = 1..N /\ \A n \in 1..N : order[n] \in read
  BY <1>1, ByTimeOrder
<1>3. DOMAIN s.hops = 1..N /\ \A n \in 1..N : s.hops[n] = ParseHigressLineForProbe(lines, order[n])
  BY <1>2 DEF Records
<1>4. DOMAIN hops = 1..N
  BY <1>3 DEF GlobalHops
<1>5. ASSUME NEW n \in 1..N
      PROVE  LET h == ParseHigressLineForProbe(lines, order[n])
             IN  /\ order[n] \in read
                 /\ hops[n] = Renamed(h, GlobalName(s.gateway, <<"record", order[n]>>))
                 /\ GlobalName(s.gateway, <<"record", order[n]>>) # <<>>
                 /\ Last(GlobalName(s.gateway, <<"record", order[n]>>)) = order[n]
  <2> DEFINE h == ParseHigressLineForProbe(lines, order[n])
             i == order[n]
             local == <<"record", i>>
             gateway == s.gateway
  <2>1. i \in read /\ i \in DOMAIN lines /\ lines[i].gateway = gateway
    BY <1>1, <1>2
  <2>2. gateway \in Seq(ToSet(Alphabet)) /\ i \in Nat
    BY <2>1, PassageLines DEF IsPassage
  <2>3. gateway \in Seq(Words)
    <3> DEFINE A == ToSet(Alphabet)
    <3>1. A \in SUBSET Words
      BY DEF Words
    <3> HIDE DEF A, gateway
    <3> QED BY <2>2, <3>1 DEF A
  <2>4. IsHop(h) /\ h.id = local
    BY DEF ParseHigressLineForProbe, IsHop
  <2>5. local \in Seq(Words) /\ local # <<>> /\ Last(local) = i
    <3> HIDE DEF i
    <3>1. "record" \in Words /\ i \in Words
      BY <2>2 DEF Words
    <3> QED BY <3>1 DEF Last
  <2>6. hops[n] = GlobalHop(gateway, h, n)
    BY <1>3 DEF GlobalHops
  <2> HIDE DEF h, i, gateway, hops
  <2>7. hops[n] = Renamed(h, GlobalName(gateway, local))
    <3>1. h.id \in Seq(Words) /\ h.id # <<>>
      BY <2>4, <2>5
    <3>2. GlobalHop(gateway, h, n) = Renamed(h, GlobalName(gateway, h.id))
      BY <2>3, <2>4, <3>1, GlobalHops1
    <3> QED BY <2>4, <2>6, <3>2, Zenon
  <2>8. GlobalName(gateway, local) # <<>> /\ Last(GlobalName(gateway, local)) = i
    BY <2>3, <2>5, GlobalNames
  <2> QED BY <2>1, <2>7, <2>8, Zenon DEF h, i, gateway, hops
<1> QED BY <1>4, <1>5 DEF HopsRead

-----------------------------------------------------------------------------
(* The probe's state and its passage                                       *)

TargetLines(lines, targets) == {i \in DOMAIN lines : lines[i].gateway \in {t.gateway : t \in ToSet(targets)}}

\* What the probe has come to, from what was found of its passage.
AnsweredFrom(lines, p, found0, flaw) ==
    /\ p.execution = SourceExecution(lines, p.source, found0, flaw)
    /\ p.found = found0
DoneFrom(lines, p, found0, flaw, found1, failed, code) ==
    /\ p.execution = Assembly(lines, p.top, p.source, p.targets, found0, flaw, found1, failed, code)
    /\ p.found = found0 \cup {i \in found1 : lines[i].gateway \notin failed}

\* The inductive invariant: the execution is what the source's answer and the
\* observations of this passage make of it.
Assembled ==
    /\ probe.phase \in {"none", "sent", "answered", "done"}
    /\ probe # NoProbe => passage \in Passages /\ probe.source = Last(passage).gateway
    /\ probe.phase = "answered" =>
          \E found0 \in SUBSET LinesOf(passage, probe.source), flaw \in Flaws : AnsweredFrom(passage, probe, found0, flaw)
    /\ probe.phase = "done" =>
          \E found0 \in SUBSET LinesOf(passage, probe.source), flaw \in Flaws :
          \E found1 \in SUBSET TargetLines(passage, probe.targets) : \E failed, code :
             DoneFrom(passage, probe, found0, flaw, found1, failed, code)

\* Assembled is an inductive invariant: nothing but the source's answer and the
\* observations decides what the execution says (SourceAnswers, Complete).
LEMMA AssembledInvariant ==
  Spec => []Assembled
<1>1. Init => Assembled
  BY DEF Init, Assembled, NoProbe
<1>2. Assembled /\ [Next]_vars => Assembled'
  <2> SUFFICES ASSUME Assembled, [Next]_vars PROVE Assembled'
    OBVIOUS
  <2>1. ASSUME UNCHANGED <<passage, probe>> PROVE Assembled'
    BY <2>1, Zenon DEF Assembled
  <2>2. ASSUME NEW c \in Clusters, Change(c) \/ Upload(c) PROVE Assembled'
    BY <2>1, <2>2 DEF Change, Upload
  <2>3. ASSUME NEW lines \in Passages, CreateProbe(lines) PROVE Assembled'
    <3>1. /\ passage' = lines /\ probe'.phase = "sent" /\ probe'.source = Last(lines).gateway
      BY <2>3 DEF CreateProbe
    <3> QED BY <3>1 DEF Assembled
  <2>4. ASSUME probe.phase = "sent", NEW found \in SUBSET Indices({probe.source}), NEW flaw \in Flaws, SourceAnswers(found, flaw)
        PROVE  Assembled'
    <3>1. /\ passage' = passage /\ probe'.phase = "answered" /\ probe'.source = probe.source
          /\ probe'.found = found /\ probe'.execution = SourceExecution(passage, probe.source, found, flaw)
      <4> DEFINE execution == SourceExecution(passage, probe.source, found, flaw)
      <4>1. /\ passage' = passage
            /\ probe' = [phase |-> "answered", top |-> probe.top, source |-> probe.source, targets |-> probe.targets,
                         found |-> found, execution |-> execution]
        BY <2>4, Zenon DEF SourceAnswers
      <4> HIDE DEF execution
      <4>2. /\ passage' = passage /\ probe'.phase = "answered" /\ probe'.source = probe.source
            /\ probe'.found = found /\ probe'.execution = execution
        BY <4>1
      <4> QED BY <4>2 DEF execution
    <3>2. found \in SUBSET LinesOf(passage, probe.source)
      BY DEF Indices, LinesOf
    <3>3. AnsweredFrom(passage', probe', found, flaw)
      BY <3>1, Zenon DEF AnsweredFrom
    <3>4. passage' \in Passages /\ probe'.source = Last(passage').gateway
      BY <2>4, <3>1 DEF Assembled, NoProbe
    <3>5. found \in SUBSET LinesOf(passage', probe'.source)
      BY <3>1, <3>2, Zenon
    <3> QED BY <3>1, <3>3, <3>4, <3>5 DEF Assembled
  <2>5. ASSUME probe.phase = "answered",
               NEW found \in SUBSET Indices(TargetIDs), NEW failed \in SUBSET TargetIDs, NEW code \in Failures,
               Complete(found, failed, code)
        PROVE  Assembled'
    <3>1. PICK found0 \in SUBSET LinesOf(passage, probe.source), flaw \in Flaws : AnsweredFrom(passage, probe, found0, flaw)
      BY <2>5 DEF Assembled
    <3> DEFINE execution == completeFederatedProbe(probe.top, probe.execution, probe.targets,
                                                   Observations(passage, probe.targets, found, failed, code))
               all == probe.found \cup {i \in found : passage[i].gateway \notin failed}
    <3>2. /\ passage' = passage
          /\ probe' = [phase |-> "done", top |-> probe.top, source |-> probe.source, targets |-> probe.targets,
                       found |-> all, execution |-> execution]
      BY <2>5, Zenon DEF Complete, Observations
    <3>3. execution = Assembly(passage, probe.top, probe.source, probe.targets, found0, flaw, found, failed, code)
      BY <3>1, Zenon DEF AnsweredFrom, Assembly
    <3>4. all = found0 \cup {i \in found : passage[i].gateway \notin failed}
      BY <3>1, Zenon DEF AnsweredFrom
    <3> HIDE DEF execution, all
    <3>5. /\ probe'.phase = "done" /\ probe'.top = probe.top /\ probe'.source = probe.source
          /\ probe'.targets = probe.targets /\ probe'.found = all /\ probe'.execution = execution
      BY <3>2
    <3>6. DoneFrom(passage', probe', found0, flaw, found, failed, code)
      BY <3>2, <3>3, <3>4, <3>5, Zenon DEF DoneFrom
    <3>7. found \in SUBSET TargetLines(passage, probe.targets)
      BY DEF Indices, TargetIDs, TargetLines
    <3>8. /\ found0 \in SUBSET LinesOf(passage', probe'.source)
          /\ found \in SUBSET TargetLines(passage', probe'.targets)
      BY <3>2, <3>5, <3>7, Zenon
    <3>9. passage' \in Passages /\ probe'.source = Last(passage').gateway
      BY <2>5, <3>2, <3>5 DEF Assembled, NoProbe
    <3> QED BY <3>5, <3>6, <3>8, <3>9 DEF Assembled
  <2>6. CASE Done
    BY <2>1, <2>6 DEF Done, vars
  <2>7. CASE UNCHANGED vars
    BY <2>1, <2>7 DEF vars
  <2> QED BY <2>2, <2>3, <2>4, <2>5, <2>6, <2>7 DEF Next
<1> QED BY <1>1, <1>2, PTL DEF Spec

\* A listing in any order holds the same objects.
LEMMA Reversed ==
  ASSUME NEW list, IsList(list)
  PROVE  IsList(Reverse(list)) /\ ToSet(Reverse(list)) = ToSet(list)
<1> DEFINE n == Len(list)
           T == ToSet(list)
           back == Reverse(list)
<1>1. n \in Nat /\ DOMAIN list = 1..n /\ \A i \in 1..n : list[i] \in T
  BY LenProperties DEF IsList, ToSet
<1>2. back = [i \in 1..n |-> list[(n - i) + 1]]
  BY DEF Reverse
<1>3. \A i \in 1..n : (n - i) + 1 \in 1..n /\ (n - ((n - i) + 1)) + 1 = i
  BY <1>1
<1> HIDE DEF back, n
<1>4. DOMAIN back = 1..n /\ \A i \in 1..n : back[i] = list[(n - i) + 1]
  BY <1>2
<1>5. back \in [1..n -> T]
  BY <1>1, <1>2, <1>3
<1>6. \A i \in 1..n : (\E k \in 1..n : back[k] = list[i]) /\ \E k \in 1..n : back[i] = list[k]
  BY <1>3, <1>4
<1>7. T = {list[i] : i \in 1..n} /\ ToSet(back) = {back[i] : i \in 1..n}
  BY <1>1, <1>4 DEF ToSet
<1> HIDE DEF T
<1>8. ToSet(back) = T
  BY <1>6, <1>7
<1>9. back \in Seq(T)
  BY <1>1, <1>5, SeqDef
<1> QED BY <1>8, <1>9 DEF IsList, T, back

LEMMA ListingIs ==
  ASSUME NEW objs, AreObjects(objs), NEW backwards
  PROVE  LET o == Listing(objs, backwards)
         IN  AreObjects(o) /\ \A k \in Kinds : ToSet(o[k]) = ToSet(objs[k])
<1> DEFINE o == Listing(objs, backwards)
<1>1. DOMAIN o = DOMAIN objs /\ \A k \in DOMAIN objs : o[k] = IF k \in backwards THEN Reverse(objs[k]) ELSE objs[k]
  BY DEF Listing
<1> HIDE DEF o
<1>2. \A k \in DOMAIN objs : IsList(objs[k])
  BY DEF AreObjects
<1>3. \A k \in DOMAIN objs : IsList(o[k]) /\ ToSet(o[k]) = ToSet(objs[k])
  BY <1>1, <1>2, Reversed
<1>4. Kinds \subseteq DOMAIN objs /\ "runtimes" \notin DOMAIN objs
  BY DEF AreObjects
<1>5. \A k \in Kinds : ToSet(o[k]) = ToSet(objs[k])
  BY <1>3, <1>4
<1>6. \A k \in Keyed : ToSet(o[k]) = ToSet(objs[k])
  BY <1>5 DEF Kinds
<1>7. /\ ToSet(o.gateways) = ToSet(objs.gateways) /\ ToSet(o.slices) = ToSet(objs.slices)
      /\ ToSet(o.routes) = ToSet(objs.routes) /\ ToSet(o.bridges) = ToSet(objs.bridges)
      /\ ToSet(o.ingresses) = ToSet(objs.ingresses) /\ ToSet(o.pools) = ToSet(objs.pools)
  BY <1>5 DEF Kinds, Keyed
<1>8. AreObjects(o)
  <2>1. Kinds \subseteq DOMAIN o /\ "runtimes" \notin DOMAIN o /\ \A k \in DOMAIN o : IsList(o[k])
    BY <1>1, <1>3, <1>4
  <2>2. \A k \in Keyed : \A x, y \in ToSet(o[k]) :
           x.ns \in ToSet(Alphabet) /\ x.name \in ToSet(Alphabet) /\ (x.ns = y.ns /\ x.name = y.name => x = y)
    BY <1>6, Zenon DEF AreObjects
  <2>3. AreObjects(objs)
    OBVIOUS
  <2> QED BY <1>7, <2>1, <2>2, <2>3, Zenon DEF AreObjects
<1> QED BY <1>5, <1>8 DEF o

\* A snapshot reports the denied references of the routes it was made of.
Reports(snapshot, objs) ==
    \A route \in ToSet(objs.routes) :
       Denial(RouteID(route)) \in snapshot.findings
       <=> \E ref \in ToSet(route.backends), e \in ToSet(snapshot.edges) :
              e.from = RouteID(route) /\ e.to \in TargetsOf(ref) /\ ~Allowed(objs, route, ref)

LEMMA RebuiltSnapshot ==
  ASSUME NEW c \in Clusters, NEW v \in DOMAIN Versions[c], NEW backwards
  PROVE  LET snapshot == rebuild(Listing(Versions[c][v], backwards))
         IN  /\ IsSnapshot(snapshot) /\ \A f \in snapshot.findings : f.title # AmbiguousLink
             /\ Reports(snapshot, Versions[c][v])
<1> DEFINE objs == Versions[c][v]
           o == Listing(objs, backwards)
           s == rebuild(o)
<1>1. AreObjects(objs)
  BY VersionsAssumption
<1> HIDE DEF objs
<1>2. AreObjects(o) /\ ToSet(o.routes) = ToSet(objs.routes) /\ ToSet(o.grants) = ToSet(objs.grants)
  <2>1. "routes" \in Kinds /\ "grants" \in Kinds
    BY DEF Kinds, Keyed
  <2>2. AreObjects(o) /\ \A k \in Kinds : ToSet(o[k]) = ToSet(objs[k])
    BY <1>1, ListingIs
  <2> HIDE DEF o
  <2> QED BY <2>1, <2>2
<1> HIDE DEF o
<1>3. /\ IsSnapshot(s) /\ \A f \in s.findings : f.title # AmbiguousLink
      /\ \A route \in ToSet(o.routes) :
            Denial(RouteID(route)) \in s.findings
            <=> \E ref \in ToSet(route.backends), e \in ToSet(s.edges) :
                   e.from = RouteID(route) /\ e.to \in TargetsOf(ref) /\ ~Allowed(o, route, ref)
  BY <1>2, RebuildIs
<1>4. \A route, ref : Allowed(o, route, ref) <=> Allowed(objs, route, ref)
  <2>1. collectGrants(o) = collectGrants(objs)
    BY <1>2, Zenon DEF collectGrants
  <2> QED BY <2>1 DEF Allowed
<1> HIDE DEF s
<1>5. Reports(s, objs)
  BY <1>2, <1>3, <1>4 DEF Reports
<1> QED BY <1>3, <1>5 DEF s, o, objs

\* What a snapshot was made of is known of every registered cluster: it is a
\* topology whose findings are the cluster's own, and they report its routes.
Registered ==
    /\ version \in [Clusters -> Nat] /\ \A c \in Clusters : version[c] \in DOMAIN Versions[c]
    /\ DOMAIN sent \subseteq Clusters /\ DOMAIN snapshots = DOMAIN sent
    /\ \A c \in DOMAIN snapshots : /\ IsSnapshot(snapshots[c])
                                   /\ \A f \in snapshots[c].findings : f.title # AmbiguousLink
                                   /\ Reports(snapshots[c], Versions[c][sent[c]])

LEMMA RegisteredInvariant ==
  Spec => []Registered
<1>1. Init => Registered
  <2> SUFFICES ASSUME Init PROVE Registered
    OBVIOUS
  <2>1. DOMAIN sent = {} /\ DOMAIN snapshots = {}
    BY DEF Init
  <2>2. version = [c \in Clusters |-> 1] /\ \A c \in Clusters : 1 \in DOMAIN Versions[c]
    BY VersionsAssumption DEF Init
  <2> QED BY <2>1, <2>2 DEF Registered
<1>2. Registered /\ [Next]_vars => Registered'
  <2> SUFFICES ASSUME Registered, [Next]_vars PROVE Registered'
    OBVIOUS
  <2>1. ASSUME UNCHANGED <<version, sent, snapshots>> PROVE Registered'
    BY <2>1 DEF Registered
  <2>2. ASSUME NEW c \in Clusters, Change(c) PROVE Registered'
    <3>1. PICK v \in DOMAIN Versions[c] \ {version[c]} : version' = [version EXCEPT ![c] = v]
      BY <2>2 DEF Change
    <3>2. v \in Nat
      BY VersionsAssumption
    <3>3. UNCHANGED <<sent, snapshots>>
      BY <2>2 DEF Change
    <3>4. version' \in [Clusters -> Nat] /\ \A d \in Clusters : version'[d] \in DOMAIN Versions[d]
      BY <3>1, <3>2 DEF Registered
    <3> QED BY <3>3, <3>4 DEF Registered
  <2>3. ASSUME NEW c \in Clusters, Upload(c) PROVE Registered'
    <3>1. \A f, x : /\ DOMAIN Stored(c, x, f) = {c} \cup DOMAIN f
                    /\ \A d \in DOMAIN f \cup {c} : Stored(c, x, f)[d] = IF d = c THEN x ELSE f[d]
      BY DEF Stored
    <3>2. PICK backwards \in Backwards : snapshots' = Stored(c, rebuild(Listing(Versions[c][version[c]], backwards)), snapshots)
      BY <2>3 DEF Upload
    <3>3. sent' = Stored(c, version[c], sent) /\ version' = version
      BY <2>3 DEF Upload
    <3> DEFINE made == rebuild(Listing(Versions[c][version[c]], backwards))
    <3>4. /\ IsSnapshot(made) /\ \A f \in made.findings : f.title # AmbiguousLink
          /\ Reports(made, Versions[c][version[c]])
      <4>1. version[c] \in DOMAIN Versions[c]
        BY DEF Registered
      <4> QED BY <4>1, RebuiltSnapshot, Zenon
    <3>10. snapshots' = Stored(c, made, snapshots)
      BY <3>2
    <3> HIDE DEF made
    <3>5. DOMAIN snapshots' = {c} \cup DOMAIN snapshots /\ DOMAIN sent' = {c} \cup DOMAIN sent
      BY <3>1, <3>2, <3>3, Zenon
    <3>6. \A d \in DOMAIN snapshots' : /\ snapshots'[d] = IF d = c THEN made ELSE snapshots[d]
                                       /\ sent'[d] = IF d = c THEN version[c] ELSE sent[d]
      <4>1. DOMAIN sent = DOMAIN snapshots
        BY DEF Registered
      <4> QED BY <3>1, <3>3, <3>5, <3>10, <4>1
    <3>7. \A d \in DOMAIN snapshots' : /\ IsSnapshot(snapshots'[d]) /\ \A f \in snapshots'[d].findings : f.title # AmbiguousLink
                                       /\ Reports(snapshots'[d], Versions[d][sent'[d]])
      <4> SUFFICES ASSUME NEW d \in DOMAIN snapshots'
                   PROVE  /\ IsSnapshot(snapshots'[d]) /\ \A f \in snapshots'[d].findings : f.title # AmbiguousLink
                          /\ Reports(snapshots'[d], Versions[d][sent'[d]])
        OBVIOUS
      <4>1. CASE d = c
        <5>1. snapshots'[d] = made /\ sent'[d] = version[c]
          BY <3>6, <4>1
        <5> QED BY <3>4, <4>1, <5>1
      <4>2. CASE d # c
        <5>1. snapshots'[d] = snapshots[d] /\ sent'[d] = sent[d] /\ d \in DOMAIN snapshots
          BY <3>5, <3>6, <4>2
        <5> QED BY <5>1 DEF Registered
      <4> QED BY <4>1, <4>2
    <3>8. DOMAIN sent' \subseteq Clusters /\ DOMAIN snapshots' = DOMAIN sent'
      BY <3>5 DEF Registered
    <3>9. version' \in [Clusters -> Nat] /\ \A d \in Clusters : version'[d] \in DOMAIN Versions[d]
      BY <3>3 DEF Registered
    <3> QED BY <3>7, <3>8, <3>9 DEF Registered
  <2>4. ASSUME NEW lines \in Passages, CreateProbe(lines) PROVE Registered'
    BY <2>1, <2>4 DEF CreateProbe
  <2>5. ASSUME NEW found, NEW flaw, SourceAnswers(found, flaw) PROVE Registered'
    BY <2>1, <2>5 DEF SourceAnswers
  <2>6. ASSUME NEW found, NEW failed, NEW code, Complete(found, failed, code) PROVE Registered'
    BY <2>1, <2>6 DEF Complete
  <2>7. CASE Done
    BY <2>1, <2>7 DEF Done, vars
  <2>8. CASE UNCHANGED vars
    BY <2>1, <2>8 DEF vars
  <2> QED BY <2>2, <2>3, <2>4, <2>5, <2>6, <2>7, <2>8 DEF Next
<1> QED BY <1>1, <1>2, PTL DEF Spec

\* The topology of registered clusters.
LEMMA RegisteredTopology ==
  ASSUME Registered
  PROVE  IsFederated(federated(snapshots))
<1>1. DOMAIN snapshots \in SUBSET ToSet(Alphabet)
  BY VersionsAssumption DEF Registered
<1>2. \A c \in DOMAIN snapshots : IsSnapshot(snapshots[c])
  BY DEF Registered
<1> QED BY <1>1, <1>2, FederatedIs

\* A probe works on such a topology, and on the targets found in it.
Targeted == probe # NoProbe => IsFederated(probe.top) /\ AreTargets(probe.top, probe.source, probe.targets)

LEMMA TargetedInvariant ==
  Spec => []Targeted
<1>1. Init => Targeted
  BY DEF Init, Targeted
<1>2. Registered /\ Targeted /\ [Next]_vars => Targeted'
  <2> SUFFICES ASSUME Registered, Targeted, [Next]_vars PROVE Targeted'
    OBVIOUS
  <2>1. ASSUME UNCHANGED probe PROVE Targeted'
    BY <2>1 DEF Targeted
  <2>2. ASSUME NEW c \in Clusters, Change(c) \/ Upload(c) PROVE Targeted'
    <3>1. probe = NoProbe /\ UNCHANGED probe
      BY <2>2 DEF Change, Upload
    <3> QED BY <2>1, <3>1
  <2>3. ASSUME NEW lines \in Passages, CreateProbe(lines) PROVE Targeted'
    <3> DEFINE top == federated(snapshots)
               source == Last(lines).gateway
               targets == discoverProbeGatewayTargets(top, source)
    <3>1. probe' = [phase |-> "sent", top |-> top, source |-> source, targets |-> targets]
      BY <2>3, Zenon DEF CreateProbe
    <3>2. IsFederated(top)
      BY RegisteredTopology
    <3> HIDE DEF top, source
    <3>3. AreTargets(top, source, targets)
      BY <3>2, DiscoveredTargets
    <3> HIDE DEF targets
    <3>4. probe'.top = top /\ probe'.source = source /\ probe'.targets = targets
      BY <3>1
    <3> QED BY <3>2, <3>3, <3>4 DEF Targeted
  <2>4. ASSUME probe.phase = "sent", NEW found, NEW flaw, SourceAnswers(found, flaw)
        PROVE  Targeted'
    <3> DEFINE execution == SourceExecution(passage, probe.source, found, flaw)
    <3>1. probe' = [phase |-> "answered", top |-> probe.top, source |-> probe.source, targets |-> probe.targets,
                    found |-> found, execution |-> execution]
      BY <2>4, Zenon DEF SourceAnswers
    <3> HIDE DEF execution
    <3>2. probe'.top = probe.top /\ probe'.source = probe.source /\ probe'.targets = probe.targets /\ probe # NoProbe
      BY <2>4, <3>1 DEF NoProbe
    <3> QED BY <3>2 DEF Targeted
  <2>5. ASSUME probe.phase = "answered", NEW found, NEW failed, NEW code, Complete(found, failed, code)
        PROVE  Targeted'
    <3> DEFINE observations == [i \in DOMAIN probe.targets |-> Observed(passage, probe.targets[i], found, failed, code)]
               execution == completeFederatedProbe(probe.top, probe.execution, probe.targets, observations)
               all == probe.found \cup {i \in found : passage[i].gateway \notin failed}
    <3>1. probe' = [phase |-> "done", top |-> probe.top, source |-> probe.source, targets |-> probe.targets,
                    found |-> all, execution |-> execution]
      BY <2>5, Zenon DEF Complete
    <3> HIDE DEF execution, all
    <3>2. probe'.top = probe.top /\ probe'.source = probe.source /\ probe'.targets = probe.targets /\ probe # NoProbe
      BY <2>5, <3>1 DEF NoProbe
    <3> QED BY <3>2 DEF Targeted
  <2>6. CASE Done
    BY <2>1, <2>6 DEF Done, vars
  <2>7. CASE UNCHANGED vars
    BY <2>1, <2>7 DEF vars
  <2> QED BY <2>2, <2>3, <2>4, <2>5, <2>6, <2>7 DEF Next
<1> QED BY <1>1, <1>2, RegisteredInvariant, PTL DEF Spec

\* The gateways to observe are a list of other gateways than the source, each
\* once.
LEMMA TargetsInvariant ==
  Spec => []TargetsListed
<1>1. Targeted => TargetsListed
  BY DEF Targeted, TargetsListed, AreTargets, TargetIDs, ToSet
<1> QED BY <1>1, TargetedInvariant, PTL

\* A list of targets is numbered.
LEMMA TargetsNumbered ==
  ASSUME TargetsListed, probe # NoProbe
  PROVE  Len(probe.targets) \in Nat /\ DOMAIN probe.targets = 1..Len(probe.targets)
BY LenProperties DEF TargetsListed

\* A done probe's segments are the analysis of segments drawn from its passage.
LEMMA DoneSegments ==
  ASSUME Assembled, TargetsListed, probe.phase = "done"
  PROVE  /\ IsPassage(passage)
         /\ \E raw : /\ probe.execution.segments = Analysed(raw) /\ Segments = Analysed(raw)
                     /\ \A i \in DOMAIN raw : Drawn(passage, raw[i])
         /\ EnrichProbe(probe.execution) = probe.execution
<1>1. IsPassage(passage) /\ probe # NoProbe
  BY PassagesAre DEF Assembled, NoProbe
<1>2. PICK found0 \in SUBSET LinesOf(passage, probe.source), flaw \in Flaws :
         \E found1 \in SUBSET TargetLines(passage, probe.targets) : \E failed, code :
            DoneFrom(passage, probe, found0, flaw, found1, failed, code)
  BY DEF Assembled
<1>3a. PICK found1 \in SUBSET TargetLines(passage, probe.targets) :
          \E failed, code : DoneFrom(passage, probe, found0, flaw, found1, failed, code)
  BY <1>2
<1>3. PICK failed, code : DoneFrom(passage, probe, found0, flaw, found1, failed, code)
  BY <1>3a
<1> DEFINE L == Len(probe.targets)
           raw == Raw(passage, probe.top, probe.source, probe.targets, found0, flaw, found1, failed, code)
           execution == Assembly(passage, probe.top, probe.source, probe.targets, found0, flaw, found1, failed, code)
<1>4. L \in Nat /\ DOMAIN probe.targets = 1..L
  BY <1>1, TargetsNumbered
<1> HIDE DEF L
<1>5. \A i \in DOMAIN raw : Drawn(passage, raw[i])
  <2>1. AllDrawn(passage, SourceExecution(passage, probe.source, found0, flaw).segments[1], L, probe.targets, raw)
    BY <1>1, <1>4, RawDrawn, Zenon
  <2> HIDE DEF raw
  <2> QED BY <2>1, Zenon DEF AllDrawn
<1>6. EnrichProbe(execution) = execution /\ execution.segments = Analysed(raw)
  BY <1>1, <1>4, AssembledExecution
<1>7. probe.execution = execution
  BY <1>3, Zenon DEF DoneFrom
<1> HIDE DEF raw, execution
<1>8. Segments = probe.execution.segments
  BY DEF Segments
<1> QED BY <1>1, <1>5, <1>6, <1>7, <1>8, Zenon

\* Analysing an analysed execution again changes nothing: IDs stay under their
\* gateway, relation issues are found anew and not twice (EnrichProbe).
THEOREM ReanalysisIsStableHolds ==
  Spec => []ReanalysisIsStable
<1>1. Assembled /\ TargetsListed => ReanalysisIsStable
  BY DoneSegments DEF ReanalysisIsStable
<1> QED BY <1>1, AssembledInvariant, TargetsInvariant, PTL

-----------------------------------------------------------------------------
(* Contexts and passes                                                     *)

\* The records of s were read from these lines.
SegmentRead(lines, s, read) ==
    /\ IsSegment(s)
    /\ read \in SUBSET LinesOf(lines, s.gateway)
    /\ \A i \in read : Correlation(lines[i], Probe) # ""
    /\ s.hops = Records(lines, read)

\* Line i's place in its gateway's log.
LogPlace(lines, i) == Cardinality({j \in LinesOf(lines, lines[i].gateway) : j <= i})

\* Hop h is the record of line i.
HopOf(lines, h, i) ==
    /\ h.id # <<>> /\ Last(h.id) = i
    /\ h.source = lines[i].pod /\ h.log = lines[i].pod /\ h.pod = lines[i].pod
    /\ h.seq = LogPlace(lines, i) /\ h.start = lines[i].start
    /\ h.remote = "peer" /\ h.local = "listener" /\ h.redirect = lines[i].redirect
    /\ h.at = ObservedAt(lines[i]) /\ h.host = lines[i].host
    /\ h.correlation = Correlation(lines[i], Probe)

\* Places in one gateway's log are ordered as its lines are.
LEMMA LogPlaces ==
  ASSUME NEW lines, IsPassage(lines), NEW gateway, NEW i \in LinesOf(lines, gateway), NEW j \in LinesOf(lines, gateway)
  PROVE  /\ LogPlace(lines, i) \in Nat
         /\ LogPlace(lines, i) < LogPlace(lines, j) <=> i < j
<1> DEFINE S == LinesOf(lines, gateway)
<1>1. S \in SUBSET (DOMAIN lines) /\ \A k \in S : lines[k].gateway = gateway
  BY DEF LinesOf
<1>2. IsFiniteSet(S) /\ S \in SUBSET Nat
  <2>1. IsFiniteSet(DOMAIN lines) /\ \A k \in DOMAIN lines : k \in Nat
    BY PassageLines
  <2> QED BY <1>1, <2>1, FS_Subset
<1>3. \A k \in S : LogPlace(lines, k) = Cardinality({m \in S : m <= k})
  BY <1>1, Zenon DEF LogPlace
<1> HIDE DEF S
<1>4. ASSUME NEW k \in S PROVE LogPlace(lines, k) \in Nat
  <2>1. IsFiniteSet({m \in S : m <= k})
    BY <1>2, FS_Subset
  <2> QED BY <1>3, <2>1, FS_CardinalityType
<1>5. ASSUME NEW x \in S, NEW y \in S, x < y PROVE LogPlace(lines, x) < LogPlace(lines, y)
  BY <1>2, <1>3, <1>5, RankStrict
<1>6. i \in S /\ j \in S
  BY DEF S
<1>7. i \in Nat /\ j \in Nat
  BY <1>2, <1>6
<1>8. CASE i = j
  BY <1>4, <1>6, <1>7, <1>8
<1>9. CASE i < j
  BY <1>4, <1>5, <1>6, <1>9
<1>10. CASE j < i
  BY <1>4, <1>5, <1>6, <1>7, <1>10
<1> QED BY <1>7, <1>8, <1>9, <1>10

\* The hops of an analysed segment are the records of the lines that were read.
LEMMA HopsOfSegment ==
  ASSUME NEW lines, IsPassage(lines), NEW s, NEW read, SegmentRead(lines, s, read)
  PROVE  /\ Cardinality(read) \in Nat /\ Numbered(GlobalHops(s), Cardinality(read))
         /\ \A n \in DOMAIN GlobalHops(s) : \E i \in read : HopOf(lines, GlobalHops(s)[n], i)
         /\ \A i \in read : \E n \in DOMAIN GlobalHops(s) : HopOf(lines, GlobalHops(s)[n], i)
<1> DEFINE hops == GlobalHops(s)
           order == ByTime(lines, read)
           N == Cardinality(read)
           gateway == s.gateway
<1>1. read \in SUBSET LinesOf(lines, gateway) /\ IsSegment(s) /\ s.hops = Records(lines, read)
  BY DEF SegmentRead
<1>2. read \in SUBSET DOMAIN lines
  BY <1>1 DEF LinesOf
<1>3. /\ N \in Nat /\ \A n \in 1..N : order[n] \in read
      /\ \A i \in read : \E n \in 1..N : order[n] = i
  BY <1>2, ByTimeOrder
<1>4. HopsRead(lines, gateway, read, hops)
  BY <1>1, AnalysedHop, Zenon
<1> HIDE DEF hops, gateway
<1>5. DOMAIN hops = 1..N
  BY <1>4, Zenon DEF HopsRead
<1>6. ASSUME NEW n \in 1..N PROVE HopOf(lines, hops[n], order[n])
  <2> DEFINE i == order[n]
             id == GlobalName(gateway, <<"record", i>>)
             h == ParseHigressLineForProbe(lines, i)
  <2>1. hops[n] = Renamed(h, id) /\ id # <<>> /\ Last(id) = i
    BY <1>4, <1>5, Zenon DEF HopsRead
  <2> DEFINE pod == lines[i].pod
             at == ObservedAt(lines[i])
             redirect == lines[i].redirect
             host == lines[i].host
             start == lines[i].start
             seq == LogPlace(lines, i)
             code == lines[i].code
             correlation == Correlation(lines[i], Probe)
             cluster == lines[i].cluster
             local == <<"record", i>>
  <2>2. h = [id |-> local, source |-> pod, log |-> pod, pod |-> pod, seq |-> seq, start |-> start, remote |-> "peer",
             local |-> "listener", redirect |-> redirect, code |-> code, correlation |-> correlation,
             at |-> at, host |-> host, cluster |-> cluster]
    BY Zenon DEF ParseHigressLineForProbe, LogPlace
  <2> HIDE DEF h, i, id, pod, at, redirect, host, start, seq, code, correlation, cluster, local
  <2>3. /\ hops[n].id = id /\ hops[n].source = pod /\ hops[n].log = pod /\ hops[n].pod = pod /\ hops[n].seq = seq
        /\ hops[n].start = start /\ hops[n].remote = "peer" /\ hops[n].local = "listener" /\ hops[n].redirect = redirect
        /\ hops[n].at = at /\ hops[n].host = host /\ hops[n].correlation = correlation
    BY <2>1, <2>2 DEF Renamed
  <2>4. HopOf(lines, hops[n], i)
    BY <2>1, <2>3, Zenon DEF HopOf, pod, at, redirect, host, start, seq, correlation
  <2> QED BY <2>4 DEF i
<1>7. \A n \in 1..N : hops[n].seq \in Nat
  <2> SUFFICES ASSUME NEW n \in 1..N PROVE hops[n].seq \in Nat
    OBVIOUS
  <2>1. hops[n].seq = LogPlace(lines, order[n])
    BY <1>6, Zenon DEF HopOf
  <2>2. order[n] \in LinesOf(lines, gateway)
    BY <1>1, <1>3
  <2> QED BY <2>1, <2>2, LogPlaces
<1>8. Numbered(hops, N)
  BY <1>5, <1>7 DEF Numbered
<1>9. \A n \in DOMAIN hops : \E i \in read : HopOf(lines, hops[n], i)
  BY <1>3, <1>5, <1>6
<1>10. \A i \in read : \E n \in DOMAIN hops : HopOf(lines, hops[n], i)
  BY <1>3, <1>5, <1>6
<1> QED BY <1>3, <1>8, <1>9, <1>10 DEF hops

\* A record in an ordered context: its line has a start, the context's.
LEMMA RecordInContext ==
  ASSUME NEW lines, IsPassage(lines), NEW s, NEW read, SegmentRead(lines, s, read),
         NEW n, n \in DOMAIN GroupsOf(s), NEW k \in DOMAIN BucketAt(GlobalHops(s), n),
         Ordered(BucketAt(GlobalHops(s), n), Retained(s))
  PROVE  \E i \in read : /\ HopOf(lines, BucketAt(GlobalHops(s), n)[k], i) /\ lines[i].start # 0
                         /\ ContextKey(BucketAt(GlobalHops(s), n)[k])
                            = ContextKey(GlobalHops(s)[Nth(ContextPlaces(GlobalHops(s)), n)])
<1> DEFINE hops == GlobalHops(s)
           b == BucketAt(hops, n)
           N == Cardinality(read)
<1>1. /\ N \in Nat /\ Numbered(hops, N)
      /\ \A m \in DOMAIN hops : \E i \in read : HopOf(lines, hops[m], i)
  BY HopsOfSegment
<1> HIDE DEF hops, N
<1>2. PICK j \in ContextAt(hops, n) : b[k] = hops[j]
  BY <1>1, BucketRecords DEF hops
<1>3. j \in DOMAIN hops /\ ContextKey(hops[j]) = ContextKey(hops[Nth(ContextPlaces(hops), n)])
  BY Zenon DEF ContextAt, SameContext
<1>4. PICK i \in read : HopOf(lines, b[k], i)
  BY <1>1, <1>2, <1>3
<1>5. IdentityComplete(b[k])
  BY DEF Ordered, hops
<1>6. lines[i].start # 0
  BY <1>4, <1>5 DEF IdentityComplete, HopOf
<1> QED BY <1>2, <1>3, <1>4, <1>6 DEF hops

\* The terminal of a context is the last of its records, and no redirect.
TerminalClaim(lines, s, read, n) ==
    LET hops == GlobalHops(s)
        b == BucketAt(hops, n)
        terminal == GroupsOf(s)[n].terminal
    IN  /\ Ordered(b, Retained(s))
        /\ \E i \in read, k \in DOMAIN b :
              /\ HopOf(lines, b[k], i) /\ Last(terminal) = i /\ ~lines[i].redirect
              /\ \A j \in DOMAIN b : b[j].seq <= b[k].seq
              /\ ContextKey(b[k]) = ContextKey(hops[Nth(ContextPlaces(hops), n)])

\* Links and terminals of an analysed segment keep to one pass of the request.
LEMMA SegmentClaims ==
  ASSUME NEW lines, IsPassage(lines), NEW s, NEW read, SegmentRead(lines, s, read)
  PROVE  /\ \A l \in GroupLinks(GroupsOf(s)) : \E i, j \in read :
               /\ Last(l[1]) = i /\ Last(l[2]) = j
               /\ lines[i].pass = lines[j].pass /\ i < j /\ lines[i].redirect
         /\ \A n \in DOMAIN GroupsOf(s) : GroupsOf(s)[n].terminal # <<>> => TerminalClaim(lines, s, read, n)
<1> DEFINE hops == GlobalHops(s)
           N == Cardinality(read)
           groups == GroupsOf(s)
           issues == Retained(s)
           B(n) == BucketAt(hops, n)
           K(n) == Cardinality(ContextAt(hops, n))
           Key(n) == ContextKey(hops[Nth(ContextPlaces(hops), n)])
<1>1. N \in Nat /\ Numbered(hops, N)
  BY HopsOfSegment
<1>2. \A n \in DOMAIN groups : groups[n] = attemptGroup(n, B(n), s.collection, issues)
  <2>1. groups = attemptGroups(hops, s.collection, issues)
    BY Zenon DEF GroupsOf
  <2> HIDE DEF groups, hops, N, issues
  <2>2. DOMAIN hops = 1..N
    BY <1>1 DEF Numbered
  <2> QED BY <1>1, <2>1, <2>2, GroupsAre
<1>3. ASSUME NEW n \in DOMAIN groups, NEW k \in DOMAIN B(n), Ordered(B(n), issues)
      PROVE  \E i \in read : HopOf(lines, B(n)[k], i) /\ lines[i].start # 0 /\ ContextKey(B(n)[k]) = Key(n)
  BY <1>3, RecordInContext
<1> HIDE DEF hops, N, groups, issues
<1>4. \A n : K(n) \in Nat /\ Numbered(B(n), K(n)) /\ DOMAIN B(n) = 1..K(n)
  BY <1>1, BucketRecords DEF Numbered
<1> HIDE DEF K, B, Key
<1>5. ASSUME NEW n \in DOMAIN groups
      PROVE  /\ \A l \in groups[n].links :
                   /\ Ordered(B(n), issues)
                   /\ \E i, j \in 1..K(n) : l = <<B(n)[i].id, B(n)[j].id>> /\ B(n)[i].seq < B(n)[j].seq /\ B(n)[i].redirect
             /\ groups[n].terminal # <<>> =>
                   /\ Ordered(B(n), issues)
                   /\ \E k \in 1..K(n) : /\ groups[n].terminal = B(n)[k].id /\ ~B(n)[k].redirect
                                         /\ \A j \in 1..K(n) : B(n)[j].seq <= B(n)[k].seq
  BY <1>2, <1>4, GroupClaims
<1>6. read \in SUBSET LinesOf(lines, s.gateway)
  BY DEF SegmentRead
<1>7. ASSUME NEW n \in DOMAIN groups, NEW l \in groups[n].links
      PROVE  \E i, j \in read : /\ Last(l[1]) = i /\ Last(l[2]) = j
                                /\ lines[i].pass = lines[j].pass /\ i < j /\ lines[i].redirect
  <2>1. Ordered(B(n), issues)
    BY <1>5
  <2>2. PICK k, m \in 1..K(n) : l = <<B(n)[k].id, B(n)[m].id>> /\ B(n)[k].seq < B(n)[m].seq /\ B(n)[k].redirect
    BY <1>5
  <2>3. PICK i \in read : HopOf(lines, B(n)[k], i) /\ lines[i].start # 0 /\ ContextKey(B(n)[k]) = Key(n)
    BY <1>3, <1>4, <2>1
  <2>4. PICK j \in read : HopOf(lines, B(n)[m], j) /\ ContextKey(B(n)[m]) = Key(n)
    BY <1>3, <1>4, <2>1
  <2>5. B(n)[k].start = B(n)[m].start
    <3>1. \A h : ContextKey(h)[3] = h.start
      BY DEF ContextKey
    <3>2. ContextKey(B(n)[k]) = ContextKey(B(n)[m])
      BY <2>3, <2>4
    <3> QED BY <3>1, <3>2, Zenon
  <2>6. lines[i].pass = lines[j].pass /\ lines[i].redirect /\ LogPlace(lines, i) < LogPlace(lines, j)
    <3>1. /\ lines[i].start = lines[j].start /\ lines[i].redirect
          /\ LogPlace(lines, i) < LogPlace(lines, j)
      BY <2>2, <2>3, <2>4, <2>5 DEF HopOf
    <3>2. i \in DOMAIN lines /\ j \in DOMAIN lines /\ lines[i].gateway = lines[j].gateway
      BY <1>6 DEF LinesOf
    <3> QED BY <2>3, <3>1, <3>2 DEF IsPassage
  <2>7. i < j
    BY <1>6, <2>6, LogPlaces
  <2>8. Last(l[1]) = i /\ Last(l[2]) = j
    <3>1. l[1] = B(n)[k].id /\ l[2] = B(n)[m].id
      BY <2>2
    <3> QED BY <2>3, <2>4, <3>1 DEF HopOf
  <2> QED BY <2>6, <2>7, <2>8
<1>8. ASSUME NEW n \in DOMAIN groups, groups[n].terminal # <<>>
      PROVE  /\ Ordered(B(n), issues)
             /\ \E i \in read, k \in DOMAIN B(n) :
                   /\ HopOf(lines, B(n)[k], i) /\ Last(groups[n].terminal) = i /\ ~lines[i].redirect
                   /\ \A j \in DOMAIN B(n) : B(n)[j].seq <= B(n)[k].seq
                   /\ ContextKey(B(n)[k]) = Key(n)
  <2>1. Ordered(B(n), issues)
    BY <1>5, <1>8
  <2>2. PICK k \in 1..K(n) : /\ groups[n].terminal = B(n)[k].id /\ ~B(n)[k].redirect
                             /\ \A j \in 1..K(n) : B(n)[j].seq <= B(n)[k].seq
    BY <1>5, <1>8
  <2>3. PICK i \in read : HopOf(lines, B(n)[k], i) /\ ContextKey(B(n)[k]) = Key(n)
    BY <1>3, <1>4, <2>1
  <2>4. Last(groups[n].terminal) = i /\ ~lines[i].redirect
    BY <2>2, <2>3 DEF HopOf
  <2> QED BY <1>4, <2>1, <2>2, <2>3, <2>4
<1>9. \A l \in GroupLinks(groups) : \E n \in DOMAIN groups : l \in groups[n].links
  BY DEF GroupLinks
<1>10. \A l \in GroupLinks(groups) : \E i, j \in read : /\ Last(l[1]) = i /\ Last(l[2]) = j
                                                        /\ lines[i].pass = lines[j].pass /\ i < j /\ lines[i].redirect
  BY <1>7, <1>9
<1>11. \A n \in DOMAIN groups : groups[n].terminal # <<>> => TerminalClaim(lines, s, read, n)
  BY <1>8, Zenon DEF TerminalClaim, hops, groups, issues, B, Key
<1> QED BY <1>10, <1>11 DEF groups

\* A pass of the request has at most one terminal record in a segment.
LEMMA OneTerminal ==
  ASSUME NEW lines, IsPassage(lines), NEW s, NEW read, SegmentRead(lines, s, read),
         NEW t \in GroupTerminals(GroupsOf(s)), NEW u \in GroupTerminals(GroupsOf(s)), t # u
  PROVE  lines[Last(t)].pass # lines[Last(u)].pass
<1> DEFINE hops == GlobalHops(s)
           groups == GroupsOf(s)
           N == Cardinality(read)
           Key(n) == ContextKey(hops[Nth(ContextPlaces(hops), n)])
<1>1. PICK m \in DOMAIN groups : t = groups[m].terminal
  BY DEF GroupTerminals
<1>2. PICK n \in DOMAIN groups : u = groups[n].terminal
  BY DEF GroupTerminals
<1>3. t # <<>> /\ u # <<>> /\ m # n
  BY <1>1, <1>2 DEF GroupTerminals
<1>4. Key(m) # Key(n)
  <2>1. groups = attemptGroups(hops, s.collection, Retained(s))
    BY Zenon DEF GroupsOf
  <2>2. N \in Nat /\ DOMAIN hops = 1..N
    BY HopsOfSegment DEF Numbered
  <2> HIDE DEF hops, groups, N
  <2> QED BY <1>3, <2>1, <2>2, GroupsAre
<1> DEFINE Claim(k, x) == \E h : /\ HopOf(lines, h, Last(x)) /\ ContextKey(h) = Key(k) /\ Last(x) \in read
<1>5. Claim(m, t) /\ Claim(n, u)
  <2>1. TerminalClaim(lines, s, read, m) /\ TerminalClaim(lines, s, read, n)
    BY <1>1, <1>2, <1>3, SegmentClaims
  <2> HIDE DEF groups, hops
  <2>2. \A k : TerminalClaim(lines, s, read, k) => Claim(k, groups[k].terminal)
    BY Zenon DEF TerminalClaim, groups, hops
  <2> QED BY <1>1, <1>2, <2>1, <2>2, Zenon
<1> HIDE DEF Key
<1>6. PICK h : HopOf(lines, h, Last(t)) /\ ContextKey(h) = Key(m) /\ Last(t) \in read
  BY <1>5
<1>7. PICK g : HopOf(lines, g, Last(u)) /\ ContextKey(g) = Key(n) /\ Last(u) \in read
  BY <1>5
<1>8. ASSUME lines[Last(t)].pass = lines[Last(u)].pass PROVE FALSE
  <2>1. Last(t) \in DOMAIN lines /\ Last(u) \in DOMAIN lines
    BY <1>6, <1>7 DEF SegmentRead, LinesOf
  <2>2. lines[Last(t)].pod = lines[Last(u)].pod /\ lines[Last(t)].start = lines[Last(u)].start
    BY <1>8, <2>1 DEF IsPassage
  <2>3. /\ h.source = g.source /\ h.log = g.log /\ h.pod = g.pod /\ h.start = g.start
        /\ h.remote = g.remote /\ h.local = g.local
    BY <1>6, <1>7, <1>8, <2>2 DEF HopOf
  <2>4. ContextKey(h) = ContextKey(g)
    BY <2>3, Zenon DEF ContextKey
  <2> QED BY <1>4, <1>6, <1>7, <2>4
<1> QED BY <1>8

\* Attempts are linked only within one pass of the request, in the order they were
\* made, and a pass has at most one terminal record (attemptGroups).
THEOREM LinksStayInContextHolds ==
  Spec => []LinksStayInContext
<1>1. Assembled /\ TargetsListed => LinksStayInContext
  <2> SUFFICES ASSUME Assembled, TargetsListed, NEW i \in DOMAIN Segments
               PROVE  /\ \A l \in Segments[i].links :
                            /\ passage[Last(l[1])].pass = passage[Last(l[2])].pass /\ Last(l[1]) < Last(l[2])
                            /\ passage[Last(l[1])].redirect
                      /\ \A t, u \in Segments[i].terminals : t # u => passage[Last(t)].pass # passage[Last(u)].pass
    BY Zenon DEF LinksStayInContext
  <2>1. probe.phase = "done"
    BY DEF Segments
  <2>2. PICK raw : Segments = Analysed(raw) /\ \A k \in DOMAIN raw : Drawn(passage, raw[k])
    BY <2>1, DoneSegments
  <2>3. IsPassage(passage)
    BY <2>1, DoneSegments
  <2>4. i \in DOMAIN raw /\ Segments[i] = EnrichSegment(raw[i]) /\ Drawn(passage, raw[i])
    BY <2>2 DEF Analysed
  <2> DEFINE s == raw[i]
  <2>5. PICK read \in SUBSET LinesOf(passage, s.gateway) : SegmentRead(passage, s, read)
    BY <2>4 DEF Drawn, SegmentRead
  <2>6. /\ Segments[i].links = GroupLinks(GroupsOf(s))
        /\ Segments[i].terminals = GroupTerminals(GroupsOf(s))
    BY <2>3, <2>4, AnalysedSegment
  <2> HIDE DEF s
  <2>7. \A l \in GroupLinks(GroupsOf(s)) : \E x, y \in read :
           /\ Last(l[1]) = x /\ Last(l[2]) = y
           /\ passage[x].pass = passage[y].pass /\ x < y /\ passage[x].redirect
    BY <2>3, <2>5, SegmentClaims
  <2>8. \A t, u \in GroupTerminals(GroupsOf(s)) : t # u => passage[Last(t)].pass # passage[Last(u)].pass
    BY <2>3, <2>5, OneTerminal
  <2> QED BY <2>6, <2>7, <2>8
<1> QED BY <1>1, AssembledInvariant, TargetsInvariant, PTL

-----------------------------------------------------------------------------
(* The final response                                                      *)

\* The source's segment is the first, and of no other gateway.
SourceFirst(lines, source, raw) ==
    /\ 1 \in DOMAIN raw /\ raw[1].gateway = source
    /\ \A i \in DOMAIN raw : Drawn(lines, raw[i]) /\ (i # 1 => raw[i].gateway # source)

\* The record the response is attributed to is no redirect, is of the probe's own
\* request, and the client's answer when all of the source's lines were read.
FinalClaim(lines, source, read, final) ==
    /\ ~lines[Last(final)].redirect
    /\ Last(final) \in DOMAIN lines /\ lines[Last(final)].probeID = Probe
    /\ (\A i \in LinesOf(lines, source) : Correlation(lines[i], Probe) # "" => i \in read) => Last(final) = Len(lines)

LEMMA FinalRecord ==
  ASSUME NEW lines, IsPassage(lines), NEW source, source = Last(lines).gateway, NEW raw, SourceFirst(lines, source, raw),
         NEW read, SegmentRead(lines, raw[1], read),
         NEW code, Final(FinalsOf("completed", code, source, Analysed(raw))) # <<>>
  PROVE  FinalClaim(lines, source, read, Final(FinalsOf("completed", code, source, Analysed(raw))))
<1> DEFINE finals == FinalsOf("completed", code, source, Analysed(raw))
           final == Final(finals)
           s == raw[1]
           groups == GroupsOf(s)
           hops == GlobalHops(s)
           N == Cardinality(read)
<1>0. /\ 1 \in DOMAIN raw /\ raw[1].gateway = source
      /\ \A i \in DOMAIN raw : Drawn(lines, raw[i]) /\ (i # 1 => raw[i].gateway # source)
  BY DEF SourceFirst
<1>1. final \in finals
  BY DEF Final
<1>2. PICK i \in DOMAIN raw : final = FinalOf("completed", code, source, EnrichSegment(raw[i])) /\ final # <<>>
  <2>1. PICK segment \in ToSet(Analysed(raw)) : final = FinalOf("completed", code, source, segment)
    BY <1>1 DEF FinalsOf
  <2>2. PICK i \in DOMAIN raw : segment = EnrichSegment(raw[i])
    BY DEF ToSet, Analysed
  <2> QED BY <2>1, <2>2
<1> HIDE DEF final, finals
<1>3. /\ EnrichSegment(raw[i]).gateway = source /\ Len(EnrichSegment(raw[i]).groups) = 1
      /\ final = EnrichSegment(raw[i]).groups[1].terminal /\ EnrichSegment(raw[i]).groups[1].exact
  BY <1>2, Zenon DEF FinalOf
<1>4. i = 1
  <2>1. EnrichSegment(raw[i]).gateway = raw[i].gateway
    BY <1>0, AnalysedSegment
  <2> QED BY <1>0, <1>3, <2>1
<1>5. EnrichSegment(s).groups = groups
  BY <1>0, AnalysedSegment
<1>6. Len(groups) = 1 /\ final = groups[1].terminal /\ groups[1].exact
  BY <1>3, <1>4, <1>5, Zenon DEF s
<1>7. /\ N \in Nat /\ Numbered(hops, N) /\ DOMAIN hops = 1..N
      /\ \A k \in read : \E n \in DOMAIN hops : HopOf(lines, hops[n], k)
  BY HopsOfSegment DEF Numbered
<1>8. /\ 1 \in DOMAIN groups /\ Cardinality(ContextPlaces(hops)) = 1
      /\ groups[1] = attemptGroup(1, BucketAt(hops, 1), s.collection, Retained(s))
  <2>1. groups = attemptGroups(hops, s.collection, Retained(s))
    BY Zenon DEF GroupsOf
  <2> DEFINE C == Cardinality(ContextPlaces(hops))
  <2> HIDE DEF hops, N, groups, s
  <2>2. /\ C \in Nat /\ DOMAIN groups = 1..C
        /\ groups # <<>> => Len(groups) = C
        /\ \A n \in DOMAIN groups : groups[n] = attemptGroup(n, BucketAt(hops, n), s.collection, Retained(s))
    BY <1>7, <2>1, GroupsAre
  <2>3. Len(groups) = 1
    BY <1>6, Zenon
  <2>4. groups # <<>>
    BY <2>3
  <2> QED BY <2>2, <2>3, <2>4
<1>9. SegmentRead(lines, s, read)
  OBVIOUS
<1> HIDE DEF s
<1>10. TerminalClaim(lines, s, read, 1)
  BY <1>0, <1>2, <1>6, <1>8, <1>9, SegmentClaims
<1> DEFINE b == BucketAt(hops, 1)
<1>11. PICK x \in read, k \in DOMAIN b :
          /\ HopOf(lines, b[k], x) /\ Last(final) = x /\ ~lines[x].redirect
          /\ \A j \in DOMAIN b : b[j].seq <= b[k].seq
  BY <1>6, <1>10, Zenon DEF TerminalClaim
<1>11a. x \in DOMAIN lines /\ lines[x].probeID = Probe
  <2> DEFINE C == Cardinality(ContextAt(hops, 1))
  <2>1. C \in Nat /\ Numbered(b, C) /\ DOMAIN b = 1..C
    <3> HIDE DEF hops, N
    <3> QED BY <1>7, BucketRecords DEF Numbered
  <2>2. Ordered(b, Retained(s))
    BY <1>10, Zenon DEF TerminalClaim
  <2>3. attemptGroup(1, b, s.collection, Retained(s)).exact
    BY <1>6, <1>8, Zenon
  <2> HIDE DEF b, C
  <2>4. b[k].correlation = "probe-id"
    BY <2>1, <2>2, <2>3, ExactGroup
  <2>5. Correlation(lines[x], Probe) = "probe-id"
    BY <1>11, <2>4 DEF HopOf
  <2>6. x \in DOMAIN lines
    BY <1>9 DEF SegmentRead, LinesOf
  <2> QED BY <2>5, <2>6 DEF Correlation
<1>12. ASSUME \A y \in LinesOf(lines, source) : Correlation(lines[y], Probe) # "" => y \in read
       PROVE  x = Len(lines)
  <2> DEFINE z == Len(lines)
  <2>1. /\ z \in DOMAIN lines /\ DOMAIN lines = 1..z /\ z \in Nat
        /\ lines[z].gateway = source /\ Correlation(lines[z], Probe) # ""
    <3>1. DOMAIN lines = 1..z /\ z \in Nat \ {0}
      BY PassageLines
    <3>2. z \in 1..z
      BY <3>1
    <3>3. lines[z] = Last(lines)
      BY Zenon DEF Last
    <3>4. Correlation(Last(lines), Probe) # ""
      BY Zenon DEF IsPassage
    <3>5. lines[z].gateway = source /\ Correlation(lines[z], Probe) # ""
      BY <3>3, <3>4, Zenon
    <3> QED BY <3>1, <3>2, <3>5
  <2>2. z \in read /\ z \in LinesOf(lines, source)
    <3>1. z \in LinesOf(lines, source)
      BY <2>1, Zenon DEF LinesOf
    <3> QED BY <1>12, <2>1, <3>1, Zenon
  <2>3. PICK n \in 1..N : HopOf(lines, hops[n], z)
    BY <1>7, <2>2
  <2>4. n \in ContextAt(hops, 1)
    <3> HIDE DEF hops, N
    <3> QED BY <1>7, <1>8, OneContext
  <2>5. PICK j \in DOMAIN b : b[j] = hops[n]
    <3> HIDE DEF hops, N
    <3> QED BY <1>7, <2>4, BucketRecords
  <2>6. LogPlace(lines, z) <= LogPlace(lines, x)
    <3>1. b[j].seq = LogPlace(lines, z) /\ b[k].seq = LogPlace(lines, x) /\ b[j].seq <= b[k].seq
      BY <1>11, <2>3, <2>5 DEF HopOf
    <3> QED BY <3>1
  <2>7. x \in LinesOf(lines, source) /\ x \in 1..z
    BY <1>0, <1>9, <2>1 DEF SegmentRead, LinesOf, s
  <2>8. ~(x < z)
    <3>1. x < z <=> LogPlace(lines, x) < LogPlace(lines, z)
      BY <2>2, <2>7, LogPlaces
    <3>2. LogPlace(lines, x) \in Nat /\ LogPlace(lines, z) \in Nat
      BY <2>2, <2>7, LogPlaces
    <3> QED BY <2>6, <3>1, <3>2
  <2>9. x \in 1..z /\ z \in Nat /\ ~(x < z)
    BY <2>1, <2>7, <2>8, Zenon
  <2>10. \A m \in Nat : \A l \in 1..m : ~(l < m) => l = m
    OBVIOUS
  <2> QED BY <2>9, <2>10, Zenon DEF z
<1> QED BY <1>11, <1>11a, <1>12 DEF FinalClaim, final, finals

\* Records are reported of something read only.
LEMMA SomeRecords ==
  ASSUME NEW lines, IsPassage(lines), NEW read \in SUBSET DOMAIN lines
  PROVE  Records(lines, read) # <<>> <=> read # {}
<1> DEFINE records == Records(lines, read)
           N == Cardinality(read)
<1>1. IsFiniteSet(read)
  BY PassageLines, FS_Subset
<1>2. N \in Nat /\ (N = 0 <=> read = {})
  BY <1>1, FS_CardinalityType, FS_EmptySet
<1>3. DOMAIN records = 1..N
  <2>1. DOMAIN ByTime(lines, read) = 1..N
    BY ByTimeOrder
  <2> QED BY <2>1 DEF Records
<1>4. records = [n \in 1..N |-> records[n]]
  BY <1>3 DEF Records
<1> HIDE DEF records, N
<1>5. records \in Seq({records[n] : n \in 1..N}) /\ Len(records) = N
  <2> DEFINE A == {records[n] : n \in 1..N}
  <2>1. records \in [1..N -> A]
    BY <1>4
  <2> HIDE DEF A
  <2> QED BY <1>2, <2>1, <1>3, LenProperties DEF A
<1>6. records # <<>> <=> Len(records) # 0
  BY <1>5, EmptySeq
<1> QED BY <1>2, <1>5, <1>6 DEF records

\* What the done probe was computed from.
DoneOf(found0, flaw, found1, failed, code) ==
    /\ found0 \in SUBSET LinesOf(passage, probe.source) /\ found1 \in SUBSET TargetLines(passage, probe.targets)
    /\ DoneFrom(passage, probe, found0, flaw, found1, failed, code)

LEMMA DoneOfPassage ==
  ASSUME Assembled, TargetsListed, probe.phase = "done"
  PROVE  /\ IsPassage(passage) /\ probe.source = Last(passage).gateway
         /\ Len(probe.targets) \in Nat /\ DOMAIN probe.targets = 1..Len(probe.targets)
         /\ \A k \in DOMAIN probe.targets : probe.targets[k].gateway # probe.source
         /\ \E found0, flaw, found1, failed, code : DoneOf(found0, flaw, found1, failed, code)
<1>1. probe # NoProbe
  BY DEF NoProbe
<1>2. IsPassage(passage) /\ probe.source = Last(passage).gateway
  BY <1>1, PassagesAre DEF Assembled
<1>3. \A k \in DOMAIN probe.targets : probe.targets[k].gateway # probe.source
  BY <1>1 DEF TargetsListed, TargetIDs, ToSet
<1>4. PICK found0 \in SUBSET LinesOf(passage, probe.source), flaw \in Flaws :
         \E found1 \in SUBSET TargetLines(passage, probe.targets) : \E failed, code :
            DoneFrom(passage, probe, found0, flaw, found1, failed, code)
  BY DEF Assembled
<1>5. \E found1, failed, code : DoneOf(found0, flaw, found1, failed, code)
  BY <1>4 DEF DoneOf
<1> QED BY <1>1, <1>2, <1>3, <1>5, TargetsNumbered, Zenon

\* When the source's segment is the only one, nothing was read of the gateways
\* that answered.
NothingElseRead(lines, top, source, L, targets, found0, flaw, found1, failed, code) ==
    Len(Raw(lines, top, source, targets, found0, flaw, found1, failed, code)) = 1 =>
    \A k \in 1..L : targets[k].gateway \notin failed => ReadLines(lines, targets[k].gateway, found1) = {}

LEMMA NothingShown ==
  ASSUME NEW lines, IsPassage(lines), NEW top, NEW source, NEW L \in Nat, NEW targets, DOMAIN targets = 1..L,
         NEW found0, NEW flaw, NEW found1, NEW failed, NEW code
  PROVE  NothingElseRead(lines, top, source, L, targets, found0, flaw, found1, failed, code)
<1> SUFFICES ASSUME Len(Raw(lines, top, source, targets, found0, flaw, found1, failed, code)) = 1,
                    NEW k \in 1..L, targets[k].gateway \notin failed
             PROVE  ReadLines(lines, targets[k].gateway, found1) = {}
  BY Zenon DEF NothingElseRead
<1> DEFINE raw == Raw(lines, top, source, targets, found0, flaw, found1, failed, code)
           first == SourceExecution(lines, source, found0, flaw).segments[1]
           observations == Observations(lines, targets, found1, failed, code)
           inferred == Inferred(top, first, targets, observations)
           gateway == targets[k].gateway
           read == ReadLines(lines, gateway, found1)
           s == Observed(lines, targets[k], found1, failed, code)
<1>1. Arranged(raw, first, L, inferred, observations)
  BY RawIsArranged, Zenon DEF RawArranged
<1>2. IsAnswer(lines, s, gateway, IF gateway \in failed THEN <<>> ELSE Records(lines, read))
  BY ObservedSegment, Zenon
<1>3. observations[k] = s
  BY DEF Observations
<1>4. Len(raw) = 1
  OBVIOUS
<1>5. read \in SUBSET DOMAIN lines
  BY DEF ReadLines, LinesOf
<1> HIDE DEF raw, first, observations, inferred, gateway, read, s
<1>6. PICK N \in Nat : \E place : ArrangedBy(raw, first, L, inferred, observations, N, place)
  BY <1>1, Zenon DEF Arranged
<1>6a. PICK place : ArrangedBy(raw, first, L, inferred, observations, N, place)
  BY <1>6, Zenon
<1>7. /\ Len(raw) = N + 1
      /\ \A i \in 1..L : IsKept(inferred, observations[i]) => \E n \in 1..N : place[n] = i
  BY <1>6a, Zenon DEF ArrangedBy
<1>8. ~IsKept(inferred, observations[k])
  <2>1. N = 0
    BY <1>4, <1>7
  <2>2. 1..N = {}
    BY <2>1
  <2> QED BY <1>7, <2>2, Zenon
<1>9. s.hops = <<>>
  BY <1>3, <1>8 DEF IsKept
<1>10. s.hops = Records(lines, read)
  <2>1. gateway \notin failed
    BY DEF gateway
  <2> QED BY <1>2, <2>1 DEF IsAnswer
<1> QED BY <1>5, <1>9, <1>10, SomeRecords DEF read, gateway

\* The final response is a record of the probe's own request, the one of the answer
\* the client got when the lines were found, and the final upstream is claimed only
\* of a request that passed no other gateway, when they were found (EnrichProbe).
THEOREM FinalIsTrueHolds ==
  Spec => []FinalIsTrue
<1>1. Assembled /\ TargetsListed => FinalIsTrue
  <2> SUFFICES ASSUME Assembled, TargetsListed, probe.phase = "done" PROVE FinalIsTrue
    BY DEF FinalIsTrue
  <2>1. /\ IsPassage(passage) /\ probe.source = Last(passage).gateway
        /\ Len(probe.targets) \in Nat /\ DOMAIN probe.targets = 1..Len(probe.targets)
        /\ \A k \in DOMAIN probe.targets : probe.targets[k].gateway # probe.source
    BY DoneOfPassage
  <2>2. PICK found0, flaw, found1, failed, code : DoneOf(found0, flaw, found1, failed, code)
    BY DoneOfPassage
  <2> DEFINE L == Len(probe.targets)
             source == probe.source
             answer == Last(passage).code
             first == SourceExecution(passage, source, found0, flaw).segments[1]
             raw == Raw(passage, probe.top, source, probe.targets, found0, flaw, found1, failed, code)
             execution == Assembly(passage, probe.top, source, probe.targets, found0, flaw, found1, failed, code)
             final == Final(FinalsOf("completed", answer, source, Analysed(raw)))
             read == ReadLines(passage, source, found0)
  <2>3. probe.execution = execution /\ probe.found = found0 \cup {i \in found1 : passage[i].gateway \notin failed}
    BY <2>2, Zenon DEF DoneOf, DoneFrom
  <2>4. \A i \in found1 : \E k \in DOMAIN probe.targets : passage[i].gateway = probe.targets[k].gateway
    BY <2>2 DEF DoneOf, TargetLines, ToSet
  <2>5. /\ execution.finalResponse = final
        /\ execution.finalUpstream # <<>> => execution.finalUpstream = final /\ Len(Analysed(raw)) = 1
    BY <2>1, AssembledExecution
  <2>6. /\ Len(raw) \in Nat \ {0} /\ DOMAIN raw = 1..Len(raw) /\ raw[1] = first
        /\ \A i \in DOMAIN raw : Drawn(passage, raw[i])
        /\ \A i \in DOMAIN raw : i # 1 => raw[i].gateway # source
    <3>1. AllDrawn(passage, first, L, probe.targets, raw)
      BY <2>1, RawDrawn, Zenon
    <3> HIDE DEF raw, first, source, L
    <3>2. \A k \in 1..L : probe.targets[k].gateway # source
      BY <2>1 DEF source, L
    <3> QED BY <3>1, <3>2, Zenon DEF AllDrawn
  <2>7. IsAnswer(passage, first, source, Records(passage, read))
    BY SourceSegment, Zenon
  <2>8. SegmentRead(passage, first, read) /\ first.gateway = source
    <3>1. IsSegment(first) /\ first.gateway = source /\ first.hops = Records(passage, read)
      BY <2>7 DEF IsAnswer, Drawn
    <3>2. read \in SUBSET LinesOf(passage, source) /\ \A i \in read : Correlation(passage[i], Probe) # ""
      BY ReadLinesAre
    <3> HIDE DEF first, read
    <3> QED BY <3>1, <3>2 DEF SegmentRead
  <2> HIDE DEF raw, first, execution, read
  <2>9. final # <<>> => FinalClaim(passage, source, read, final)
    <3>1. SourceFirst(passage, source, raw) /\ SegmentRead(passage, raw[1], read)
      BY <2>6, <2>8 DEF SourceFirst
    <3> QED BY <2>1, <3>1, FinalRecord, Zenon
  <2> HIDE DEF final
  <2>10. ASSUME Indices({source}) \subseteq probe.found
         PROVE  \A i \in LinesOf(passage, source) : Correlation(passage[i], Probe) # "" => i \in read
    <3> SUFFICES ASSUME NEW i \in LinesOf(passage, source), Correlation(passage[i], Probe) # "" PROVE i \in read
      OBVIOUS
    <3>1. passage[i].gateway = source /\ i \in probe.found
      BY <2>10 DEF LinesOf, Indices
    <3>2. i \in found0
      BY <2>1, <2>3, <2>4, <3>1
    <3> QED BY <3>2 DEF read, ReadLines
  <2>11. ASSUME Len(Analysed(raw)) = 1, {i \in DOMAIN passage : passage[i].probeID = Probe} \subseteq probe.found,
                NEW i \in DOMAIN passage, passage[i].probeID = Probe, passage[i].gateway # source
         PROVE  FALSE
    <3>1. Len(raw) = 1
      <4>1. DOMAIN Analysed(raw) = DOMAIN raw
        BY DEF Analysed
      <4> QED BY <2>6, <2>11, <4>1, LenProperties
    <3>2. i \in found1 /\ passage[i].gateway \notin failed
      <4>1. i \notin found0
        BY <2>2, <2>11 DEF DoneOf, LinesOf
      <4> QED BY <2>3, <2>11, <4>1
    <3>3. PICK k \in DOMAIN probe.targets : passage[i].gateway = probe.targets[k].gateway
      BY <2>4, <3>2
    <3>4. ReadLines(passage, probe.targets[k].gateway, found1) = {}
      <4>1. NothingElseRead(passage, probe.top, source, L, probe.targets, found0, flaw, found1, failed, code)
        BY <2>1, NothingShown, Zenon
      <4>2. k \in 1..L /\ probe.targets[k].gateway \notin failed
        BY <2>1, <3>2, <3>3
      <4> QED BY <3>1, <4>1, <4>2, Zenon DEF NothingElseRead, raw
    <3>5. Correlation(passage[i], Probe) # ""
      BY <2>11, PassageAssumption DEF Correlation
    <3> QED BY <2>11, <3>2, <3>3, <3>4, <3>5 DEF ReadLines, LinesOf
  <2> QED BY <2>3, <2>5, <2>9, <2>10, <2>11 DEF FinalIsTrue, FinalClaim
<1> QED BY <1>1, AssembledInvariant, TargetsInvariant, PTL


-----------------------------------------------------------------------------
(* The order of the segments                                               *)

\* What an observation is a segment of.
ReadOf(lines, target, found1, failed) ==
    IF target.gateway \in failed THEN <<>> ELSE Records(lines, ReadLines(lines, target.gateway, found1))

\* The segments after the first: each of another target, with the records read
\* of it, in order.
OthersFollow(lines, L, targets, raw, found1, failed, N, place) ==
    /\ place \in [1..N -> 1..L] /\ DOMAIN raw = 1..N + 1
    /\ \A n \in 1..N : /\ raw[n + 1].gateway = targets[place[n]].gateway
                       /\ raw[n + 1].hops = ReadOf(lines, targets[place[n]], found1, failed)
    /\ \A m, n \in 1..N : place[m] = place[n] => m = n
    /\ \A m, n \in 1..N : m < n => \/ EarlierSegment(raw[m + 1], raw[n + 1])
                                   \/ ~EarlierSegment(raw[n + 1], raw[m + 1])

RawFollows(lines, top, source, L, targets, found0, flaw, found1, failed, code) ==
    \E N \in Nat : \E place :
       OthersFollow(lines, L, targets, Raw(lines, top, source, targets, found0, flaw, found1, failed, code),
                    found1, failed, N, place)

LEMMA RawOrder ==
  ASSUME NEW lines, IsPassage(lines), NEW top, NEW source, NEW L \in Nat, NEW targets, DOMAIN targets = 1..L,
         NEW found0, NEW flaw, NEW found1, NEW failed, NEW code
  PROVE  RawFollows(lines, top, source, L, targets, found0, flaw, found1, failed, code)
<1> DEFINE raw == Raw(lines, top, source, targets, found0, flaw, found1, failed, code)
           first == SourceExecution(lines, source, found0, flaw).segments[1]
           observations == Observations(lines, targets, found1, failed, code)
           inferred == Inferred(top, first, targets, observations)
<1>1. \A k \in 1..L : /\ IsSegment(observations[k]) /\ observations[k].gateway = targets[k].gateway
                      /\ observations[k].hops = ReadOf(lines, targets[k], found1, failed)
  <2> SUFFICES ASSUME NEW k \in 1..L
               PROVE  /\ IsSegment(observations[k]) /\ observations[k].gateway = targets[k].gateway
                      /\ observations[k].hops = ReadOf(lines, targets[k], found1, failed)
    OBVIOUS
  <2> DEFINE s == Observed(lines, targets[k], found1, failed, code)
             hops == ReadOf(lines, targets[k], found1, failed)
             gateway == targets[k].gateway
  <2>1. observations[k] = s
    BY DEF Observations
  <2>2. IsAnswer(lines, s, gateway, hops)
    BY ObservedSegment, Zenon DEF ReadOf
  <2> HIDE DEF s, hops, gateway
  <2>3. IsSegment(s) /\ s.gateway = gateway /\ s.hops = hops
    BY <2>2 DEF IsAnswer, Drawn
  <2> QED BY <2>1, <2>3, Zenon DEF hops, gateway
<1>2. Arranged(raw, first, L, inferred, observations)
  BY RawIsArranged, Zenon DEF RawArranged
<1> HIDE DEF raw, observations, first, inferred
<1>3. PICK N \in Nat : \E place : ArrangedBy(raw, first, L, inferred, observations, N, place)
  BY <1>2, Zenon DEF Arranged
<1>3a. PICK place : ArrangedBy(raw, first, L, inferred, observations, N, place)
  BY <1>3, Zenon
<1>4. /\ place \in [1..N -> 1..L] /\ DOMAIN raw = 1..N + 1
      /\ \A n \in 1..N : raw[n + 1] = ShownAs(inferred, observations[place[n]])
      /\ \A m, n \in 1..N : place[m] = place[n] => m = n
      /\ \A m, n \in 1..N : m < n => \/ EarlierSegment(raw[m + 1], raw[n + 1])
                                     \/ ~EarlierSegment(raw[n + 1], raw[m + 1])
  BY <1>3a, Zenon DEF ArrangedBy
<1>5. ASSUME NEW n \in 1..N
      PROVE  /\ raw[n + 1].gateway = targets[place[n]].gateway
             /\ raw[n + 1].hops = ReadOf(lines, targets[place[n]], found1, failed)
  <2> DEFINE s == observations[place[n]]
  <2>1. place[n] \in 1..L
    BY <1>4
  <2>2. /\ IsSegment(s) /\ s.gateway = targets[place[n]].gateway
        /\ s.hops = ReadOf(lines, targets[place[n]], found1, failed)
    BY <1>1, <2>1, Zenon
  <2>3. raw[n + 1] = ShownAs(inferred, s)
    BY <1>4
  <2> HIDE DEF s
  <2>4. ShownAs(inferred, s).gateway = s.gateway /\ ShownAs(inferred, s).hops = s.hops
    BY <2>2, ShownFields
  <2> QED BY <2>2, <2>3, <2>4, Zenon
<1>6. OthersFollow(lines, L, targets, raw, found1, failed, N, place)
  BY <1>4, <1>5, Zenon DEF OthersFollow
<1> QED BY <1>6, Zenon DEF RawFollows, raw

\* p is the first pass among these lines.
FirstPass(lines, places, p) ==
    /\ \E i \in places : lines[i].pass = p
    /\ \A i \in places : p <= lines[i].pass

LEMMA FirstPassIs ==
  ASSUME NEW lines, IsPassage(lines), NEW places \in SUBSET DOMAIN lines, places # {}
  PROVE  FirstPass(lines, places, Min({lines[i].pass : i \in places}))
<1> DEFINE S == {lines[i].pass : i \in places}
           p == Nth(S, 1)
<1>1. S \in SUBSET Nat /\ S # {}
  BY PassageLines
<1>2. IsFiniteSet(S)
  <2>1. IsFiniteSet(places)
    BY PassageLines, FS_Subset
  <2> DEFINE f == [i \in places |-> lines[i].pass]
  <2>2. f \in [places -> S] /\ \A x \in S : \E i \in places : f[i] = x
    OBVIOUS
  <2>3. f \in Surjection(places, S)
    BY <2>2, Zenon DEF Surjection
  <2> HIDE DEF S, f
  <2> QED BY <2>1, <2>3, FS_Surjection
<1> HIDE DEF S
<1>3. p \in S /\ \A x \in S : p <= x
  BY <1>1, <1>2, NthFirst
<1> HIDE DEF p
<1>4. Min(S) = p
  <2>1. \A x \in S : (\A y \in S : x <= y) => x = p
    BY <1>1, <1>3
  <2> QED BY <1>3, <2>1 DEF Min
<1>5. FirstPass(lines, places, p)
  BY <1>3 DEF FirstPass, S
<1> QED BY <1>4, <1>5 DEF S

\* The first text of the time of these lines.
FirstText(lines, places, at) ==
    /\ \E i \in places : ObservedAt(lines[i]) = at
    /\ \A i \in places : at <= ObservedAt(lines[i])

\* The first record of a segment is of the first text that was read.
LEMMA FirstRecord ==
  ASSUME NEW lines, IsPassage(lines), NEW read \in SUBSET DOMAIN lines,
         Records(lines, read) # <<>>
  PROVE  FirstText(lines, read, Records(lines, read)[1].at)
<1> DEFINE order == ByTime(lines, read)
           N == Cardinality(read)
           records == Records(lines, read)
<1>1. read # {} /\ IsFiniteSet(read)
  BY SomeRecords, PassageLines, FS_Subset
<1>2. /\ N \in Nat /\ DOMAIN order = 1..N
      /\ \A n \in 1..N : order[n] \in read
      /\ \A i \in read : \E n \in 1..N : order[n] = i
      /\ \A m, n \in 1..N : m < n => EarlierLine(lines, order[m], order[n])
  BY ByTimeOrder
<1>3. records[1] = ParseHigressLineForProbe(lines, order[1]) /\ 1 \in 1..N
  <2>1. N # 0
    BY <1>1, FS_EmptySet, FS_CardinalityType
  <2>2. 1 \in 1..N
    BY <1>2, <2>1
  <2> HIDE DEF order
  <2> QED BY <1>2, <2>2 DEF Records, order
<1>4. records[1].at = ObservedAt(lines[order[1]])
  <2>1. \A i : ParseHigressLineForProbe(lines, i).at = ObservedAt(lines[i])
    BY DEF ParseHigressLineForProbe
  <2> QED BY <1>3, <2>1, Zenon
<1> HIDE DEF order, N, records
<1>5. \A i \in read : ObservedAt(lines[order[1]]) <= ObservedAt(lines[i])
  <2> SUFFICES ASSUME NEW i \in read PROVE ObservedAt(lines[order[1]]) <= ObservedAt(lines[i])
    OBVIOUS
  <2>1. PICK n \in 1..N : order[n] = i
    BY <1>2
  <2>2. ObservedAt(lines[order[1]]) \in Nat /\ ObservedAt(lines[i]) \in Nat
    BY <1>2, <1>3, PassageLines
  <2>3. CASE n = 1
    BY <2>1, <2>2, <2>3
  <2>4. CASE n # 1
    <3>1. 1 < n
      BY <1>2, <2>4
    <3>2. EarlierLine(lines, order[1], order[n])
      BY <1>2, <1>3, <3>1
    <3> QED BY <2>1, <2>2, <3>2 DEF EarlierLine
  <2> QED BY <2>3, <2>4
<1>6. order[1] \in read
  BY <1>2, <1>3
<1> QED BY <1>4, <1>5, <1>6 DEF FirstText, records

\* As far as the texts of two sets of lines follow their passes, the set with the
\* first text has the first pass.
AgreeOn(lines, S, T) ==
    \A i \in S, j \in T : /\ lines[i].start # 0 /\ lines[j].start # 0
                          /\ lines[j].pass < lines[i].pass => lines[j].start < lines[i].start

LEMMA TextsFollowPasses ==
  ASSUME NEW lines, IsPassage(lines), NEW S \in SUBSET DOMAIN lines, NEW T \in SUBSET DOMAIN lines, AgreeOn(lines, S, T),
         NEW p, NEW q, FirstPass(lines, S, p), FirstPass(lines, T, q),
         NEW at, NEW until, FirstText(lines, S, at), FirstText(lines, T, until), at <= until
  PROVE  p <= q
<1>1. PICK i \in S : ObservedAt(lines[i]) = at
  BY DEF FirstText
<1>2. PICK j \in T : lines[j].pass = q
  BY DEF FirstPass
<1>3. p <= lines[i].pass /\ until <= ObservedAt(lines[j])
  BY DEF FirstPass, FirstText
<1>4. /\ lines[i].start # 0 /\ lines[j].start # 0
      /\ lines[j].pass < lines[i].pass => lines[j].start < lines[i].start
  BY DEF AgreeOn
<1>5. ObservedAt(lines[i]) = lines[i].start /\ ObservedAt(lines[j]) = lines[j].start
  BY <1>4 DEF ObservedAt
<1>6. /\ lines[i].pass \in Nat /\ lines[j].pass \in Nat /\ lines[i].start \in Nat /\ lines[j].start \in Nat
      /\ p \in Nat /\ until \in Nat
  <2>1. PICK k \in S : lines[k].pass = p
    BY DEF FirstPass
  <2>2. PICK l \in T : ObservedAt(lines[l]) = until
    BY DEF FirstText
  <2> QED BY <2>1, <2>2, PassageLines
<1> QED BY <1>1, <1>2, <1>3, <1>4, <1>5, <1>6

\* An analysed segment's hops were sent to the hosts its records name.
LEMMA EnrichedHost ==
  ASSUME NEW lines, IsPassage(lines), NEW s, Drawn(lines, s)
  PROVE  /\ DOMAIN EnrichSegment(s).hops = DOMAIN s.hops
         /\ \A n \in DOMAIN s.hops : /\ EnrichSegment(s).hops[n].host = s.hops[n].host
                                     /\ EnrichSegment(s).hops[n].at = s.hops[n].at
<1>1. EnrichSegment(s).hops = GlobalHops(s)
  BY AnalysedSegment
<1>2. IsSegment(s)
  BY DEF Drawn
<1>3. PICK read \in SUBSET LinesOf(lines, s.gateway) : s.hops = Records(lines, read)
  BY DEF Drawn
<1> DEFINE hops == GlobalHops(s)
           order == ByTime(lines, read)
           Name(n) == GlobalName(s.gateway, <<"record", order[n]>>)
<1>4. HopsRead(lines, s.gateway, read, hops)
  BY <1>2, <1>3, AnalysedHop, Zenon
<1>5. DOMAIN hops = DOMAIN s.hops
  BY DEF GlobalHops
<1> HIDE DEF hops
<1>6. ASSUME NEW n \in DOMAIN s.hops PROVE hops[n].host = s.hops[n].host /\ hops[n].at = s.hops[n].at
  <2> DEFINE h == ParseHigressLineForProbe(lines, order[n])
  <2>1. hops[n] = Renamed(h, Name(n))
    BY <1>4, <1>5, Zenon DEF HopsRead
  <2>2. s.hops[n] = h
    BY <1>3 DEF Records
  <2> HIDE DEF h, Name
  <2>3. hops[n].host = h.host /\ hops[n].at = h.at
    BY <2>1 DEF Renamed
  <2> QED BY <2>2, <2>3
<1> QED BY <1>1, <1>5, <1>6 DEF hops

\* An analysed segment has records when the collected one has.
LEMMA EnrichedHops ==
  ASSUME NEW lines, IsPassage(lines), NEW s, Drawn(lines, s)
  PROVE  EnrichSegment(s).hops # <<>> <=> s.hops # <<>>
<1> DEFINE hops == GlobalHops(s)
           A == {hops[n] : n \in DOMAIN s.hops}
<1>1. EnrichSegment(s).hops = hops
  BY AnalysedSegment
<1>2. s.hops \in Seq(ToSet(s.hops))
  BY DrawnAnalysable
<1>3. Len(s.hops) \in Nat /\ DOMAIN s.hops = 1..Len(s.hops) /\ (s.hops # <<>> <=> Len(s.hops) # 0)
  BY <1>2, LenProperties, EmptySeq
<1>4. DOMAIN hops = DOMAIN s.hops /\ hops = [n \in DOMAIN s.hops |-> hops[n]]
  BY DEF GlobalHops
<1> HIDE DEF hops
<1>5. hops \in [1..Len(s.hops) -> A]
  BY <1>3, <1>4
<1>6. hops \in Seq(A) /\ Len(hops) = Len(s.hops)
  <2> HIDE DEF A
  <2> QED BY <1>3, <1>5, LenProperties
<1>7. hops # <<>> <=> Len(hops) # 0
  BY <1>6, EmptySeq
<1> QED BY <1>1, <1>3, <1>6, <1>7

\* The lines of the probe a gateway wrote.
OwnLines(lines, gateway) == {i \in LinesOf(lines, gateway) : Correlation(lines[i], Probe) # ""}

\* Passes of different gateways are different, and the source's is the first.
LEMMA FirstPasses ==
  ASSUME NEW lines, IsPassage(lines), NEW g, NEW h, g # h, NEW p, NEW q,
         FirstPass(lines, OwnLines(lines, g), p), FirstPass(lines, OwnLines(lines, h), q)
  PROVE  p \in Nat /\ q \in Nat /\ p # q
<1>1. PICK i \in OwnLines(lines, g) : lines[i].pass = p
  BY DEF FirstPass
<1>2. PICK j \in OwnLines(lines, h) : lines[j].pass = q
  BY DEF FirstPass
<1>3. i \in DOMAIN lines /\ j \in DOMAIN lines /\ lines[i].gateway = g /\ lines[j].gateway = h
  BY DEF OwnLines, LinesOf
<1>4. lines[i].pass = lines[j].pass => lines[i].gateway = lines[j].gateway
  BY <1>3, Zenon DEF IsPassage
<1> QED BY <1>1, <1>2, <1>3, <1>4, PassageLines

LEMMA SourceFirstPass ==
  ASSUME NEW lines, IsPassage(lines)
  PROVE  /\ FirstPass(lines, OwnLines(lines, Last(lines).gateway), Last(lines).pass)
         /\ \A i \in DOMAIN lines : Last(lines).pass <= lines[i].pass
<1> DEFINE z == Len(lines)
<1>1. z \in DOMAIN lines /\ lines[z] = Last(lines)
  <2>1. z \in 1..z
    BY PassageLines
  <2> QED BY <2>1, PassageLines, Zenon DEF Last
<1>2. \A i \in DOMAIN lines : Last(lines).pass <= lines[i].pass
  BY Zenon DEF IsPassage
<1>3. z \in OwnLines(lines, Last(lines).gateway)
  <2>1. Correlation(lines[z], Probe) # ""
    BY <1>1, Zenon DEF IsPassage
  <2> QED BY <1>1, <2>1, Zenon DEF OwnLines, LinesOf
<1>4. \A i \in OwnLines(lines, Last(lines).gateway) : i \in DOMAIN lines
  BY DEF OwnLines, LinesOf
<1> QED BY <1>1, <1>2, <1>3, <1>4, Zenon DEF FirstPass

\* When two segments with records are in order, their first records are.
LEMMA InOrder ==
  ASSUME NEW s, NEW t, EarlierSegment(s, t) \/ ~EarlierSegment(t, s),
         s.hops # <<>> => s.hops[1].at \in Nat, t.hops # <<>> => t.hops[1].at \in Nat,
         Len(t.hops) \in Nat, t.hops # <<>> => Len(t.hops) > 0, t.hops # <<>>
  PROVE  s.hops # <<>> /\ s.hops[1].at <= t.hops[1].at
<1>1. CASE s.hops = <<>>
  BY <1>1 DEF EarlierSegment
<1>2. CASE s.hops # <<>>
  BY <1>2 DEF EarlierSegment
<1> QED BY <1>1, <1>2

\* Segments i and j are of different gateways, in order.
PairInOrder(raw, i, j) ==
    /\ raw[i].gateway # raw[j].gateway
    /\ i > 1 /\ raw[j].hops # <<>> => raw[i].hops # <<>> /\ raw[i].hops[1].at <= raw[j].hops[1].at

LEMMA OthersInOrder ==
  ASSUME NEW lines, NEW L, NEW targets, NEW raw, NEW found1, NEW failed, NEW N \in Nat, NEW place,
         OthersFollow(lines, L, targets, raw, found1, failed, N, place),
         \A i \in 1..N + 1 : Drawn(lines, raw[i]), IsPassage(lines),
         \A i, j \in 1..L : targets[i].gateway = targets[j].gateway => i = j,
         \A i \in 1..L : targets[i].gateway # raw[1].gateway,
         NEW i \in 1..N + 1, NEW j \in 1..N + 1, i < j
  PROVE  PairInOrder(raw, i, j)
<1>1. /\ place \in [1..N -> 1..L]
      /\ \A n \in 1..N : raw[n + 1].gateway = targets[place[n]].gateway
      /\ \A m, n \in 1..N : place[m] = place[n] => m = n
      /\ \A m, n \in 1..N : m < n => \/ EarlierSegment(raw[m + 1], raw[n + 1])
                                     \/ ~EarlierSegment(raw[n + 1], raw[m + 1])
  BY Zenon DEF OthersFollow
<1>2. j - 1 \in 1..N /\ j - 1 + 1 = j
  OBVIOUS
<1>3. raw[j].gateway = targets[place[j - 1]].gateway /\ place[j - 1] \in 1..L
  BY <1>1, <1>2
<1>4. CASE i = 1
  <2>1. raw[i].gateway # raw[j].gateway
    BY <1>3, <1>4
  <2> QED BY <1>4, <2>1 DEF PairInOrder
<1>5. CASE i # 1
  <2>1. i - 1 \in 1..N /\ i - 1 + 1 = i /\ i - 1 < j - 1
    BY <1>5
  <2>2. raw[i].gateway = targets[place[i - 1]].gateway /\ place[i - 1] \in 1..L
    BY <1>1, <2>1
  <2>3. raw[i].gateway # raw[j].gateway
    <3>1. place[i - 1] # place[j - 1]
      BY <1>1, <1>2, <2>1
    <3> QED BY <1>3, <2>2, <3>1
  <2>4. EarlierSegment(raw[i], raw[j]) \/ ~EarlierSegment(raw[j], raw[i])
    <3> DEFINE m == i - 1
               n == j - 1
    <3>1. m \in 1..N /\ n \in 1..N /\ m < n /\ m + 1 = i /\ n + 1 = j
      BY <1>2, <2>1
    <3> HIDE DEF m, n
    <3> QED BY <1>1, <3>1, Zenon
  <2>5. \A k \in {i, j} : /\ raw[k].hops \in Seq(ToSet(raw[k].hops))
                          /\ \A n \in DOMAIN raw[k].hops : raw[k].hops[n].at \in Nat
    BY DrawnAnalysable
  <2>6. \A k \in {i, j} : /\ Len(raw[k].hops) \in Nat /\ (raw[k].hops # <<>> => Len(raw[k].hops) > 0)
                          /\ raw[k].hops # <<>> => raw[k].hops[1].at \in Nat
    <3> SUFFICES ASSUME NEW k \in {i, j}
                 PROVE  /\ Len(raw[k].hops) \in Nat /\ (raw[k].hops # <<>> => Len(raw[k].hops) > 0)
                        /\ raw[k].hops # <<>> => raw[k].hops[1].at \in Nat
      OBVIOUS
    <3> DEFINE hops == raw[k].hops
    <3>1. hops \in Seq(ToSet(hops)) /\ \A n \in DOMAIN hops : hops[n].at \in Nat
      BY <2>5
    <3> HIDE DEF hops
    <3>2. Len(hops) \in Nat /\ DOMAIN hops = 1..Len(hops) /\ (hops # <<>> => Len(hops) # 0)
      BY <3>1, LenProperties, EmptySeq
    <3>3. hops # <<>> => Len(hops) > 0 /\ 1 \in DOMAIN hops
      BY <3>2
    <3> QED BY <3>1, <3>2, <3>3 DEF hops
  <2>7. raw[j].hops # <<>> => raw[i].hops # <<>> /\ raw[i].hops[1].at <= raw[j].hops[1].at
    BY <2>4, <2>6, InOrder
  <2> QED BY <2>3, <2>7 DEF PairInOrder
<1> QED BY <1>4, <1>5

\* The source comes first, then the observed gateways by the text of their first
\* record, then the candidates, each gateway once; as far as the clocks of two
\* gateways agree with the request's passes, they are in the order it passed them
\* (completeFederatedProbe).
THEOREM PathReadsInOrderHolds ==
  Spec => []PathReadsInOrder
<1>1. Assembled /\ TargetsListed => PathReadsInOrder
  <2> SUFFICES ASSUME Assembled, TargetsListed, probe.phase = "done" PROVE PathReadsInOrder
    <3>1. probe.phase # "done" => DOMAIN Segments = {}
      BY DEF Segments
    <3> QED BY <3>1, Zenon DEF PathReadsInOrder
  <2>1. /\ IsPassage(passage) /\ probe.source = Last(passage).gateway
        /\ Len(probe.targets) \in Nat /\ DOMAIN probe.targets = 1..Len(probe.targets)
        /\ \A k \in DOMAIN probe.targets : probe.targets[k].gateway # probe.source
    BY DoneOfPassage
  <2>2. PICK found0, flaw, found1, failed, code : DoneOf(found0, flaw, found1, failed, code)
    BY DoneOfPassage
  <2> DEFINE L == Len(probe.targets)
             source == probe.source
             targets == probe.targets
             first == SourceExecution(passage, source, found0, flaw).segments[1]
             raw == Raw(passage, probe.top, source, targets, found0, flaw, found1, failed, code)
             execution == Assembly(passage, probe.top, source, targets, found0, flaw, found1, failed, code)
  <2>3. probe.execution = execution /\ probe.found = found0 \cup {i \in found1 : passage[i].gateway \notin failed}
    BY <2>2, Zenon DEF DoneOf, DoneFrom
  <2>4. execution.segments = Analysed(raw)
    BY <2>1, AssembledExecution
  <2>5. AllDrawn(passage, first, L, targets, raw) /\ first.gateway = source
    <3>1. AllDrawn(passage, first, L, targets, raw)
      BY <2>1, RawDrawn, Zenon
    <3>2. IsAnswer(passage, first, source, Records(passage, ReadLines(passage, source, found0)))
      BY SourceSegment, Zenon
    <3> QED BY <3>1, <3>2, Zenon DEF IsAnswer
  <2>6. RawFollows(passage, probe.top, source, L, targets, found0, flaw, found1, failed, code)
    BY <2>1, RawOrder, Zenon
  <2>7. PICK N \in Nat : \E place : OthersFollow(passage, L, targets, raw, found1, failed, N, place)
    BY <2>6, Zenon DEF RawFollows
  <2>7a. PICK place : OthersFollow(passage, L, targets, raw, found1, failed, N, place)
    BY <2>7, Zenon
  <2> HIDE DEF raw, first, execution
  <2>8. DOMAIN raw = 1..N + 1 /\ \A i \in 1..N + 1 : Drawn(passage, raw[i])
    BY <2>5, <2>7a, Zenon DEF AllDrawn, OthersFollow
  <2>9. raw[1].gateway = source
    BY <2>5, Zenon DEF AllDrawn
  <2>10. ASSUME NEW i \in 1..N + 1, NEW j \in 1..N + 1, i < j PROVE PairInOrder(raw, i, j)
    <3>0. \A m, n \in DOMAIN probe.targets : probe.targets[m].gateway = probe.targets[n].gateway => m = n
      <4>1. probe # NoProbe
        BY DEF NoProbe
      <4> QED BY <4>1, Zenon DEF TargetsListed
    <3>1. /\ \A m, n \in 1..L : targets[m].gateway = targets[n].gateway => m = n
          /\ \A m \in 1..L : targets[m].gateway # raw[1].gateway
      BY <2>1, <2>9, <3>0
    <3> HIDE DEF targets, L
    <3> QED BY <2>1, <2>7a, <2>8, <2>10, <3>1, OthersInOrder
  <2>11. ASSUME NEW i \in 1..N + 1, i # 1, raw[i].hops # <<>>, LinesOf(passage, raw[i].gateway) \subseteq probe.found
         PROVE  FirstText(passage, OwnLines(passage, raw[i].gateway), raw[i].hops[1].at)
    <3> DEFINE k == place[i - 1]
               g == targets[k].gateway
               read == ReadLines(passage, g, found1)
    <3>1. i - 1 \in 1..N /\ i - 1 + 1 = i
      BY <2>11
    <3>2. k \in 1..L /\ raw[i].gateway = g /\ raw[i].hops = ReadOf(passage, targets[k], found1, failed)
      BY <2>7a, <3>1 DEF OthersFollow
    <3>3. g # source
      BY <2>1, <3>2
    <3> HIDE DEF k
    <3>4. g \notin failed /\ raw[i].hops = Records(passage, read)
      BY <2>11, <3>2 DEF ReadOf
    <3>5. read = OwnLines(passage, g)
      <4>1. \A l \in LinesOf(passage, g) : l \in found1
        <5> SUFFICES ASSUME NEW l \in LinesOf(passage, g) PROVE l \in found1
          OBVIOUS
        <5>1. passage[l].gateway = g /\ l \in probe.found
          BY <2>11, <3>2 DEF LinesOf
        <5>2. l \notin found0
          BY <2>2, <3>3, <5>1 DEF DoneOf, LinesOf
        <5> QED BY <2>3, <5>1, <5>2
      <4> QED BY <4>1 DEF ReadLines, OwnLines
    <3>6. read \in SUBSET DOMAIN passage
      BY DEF ReadLines, LinesOf
    <3>7. FirstText(passage, read, Records(passage, read)[1].at)
      <4> HIDE DEF read
      <4> QED BY <2>1, <2>11, <3>4, <3>6, FirstRecord
    <3> QED BY <3>2, <3>4, <3>5, <3>7
  <2>12. /\ Segments = Analysed(raw) /\ DOMAIN Segments = 1..N + 1
         /\ \A i \in 1..N + 1 : Segments[i] = EnrichSegment(raw[i])
    BY <2>3, <2>4, <2>8 DEF Segments, Analysed
  <2>13. ASSUME NEW i \in 1..N + 1
         PROVE  /\ Segments[i].gateway = raw[i].gateway
                /\ Segments[i].hops # <<>> <=> raw[i].hops # <<>>
                /\ raw[i].hops # <<>> => Segments[i].hops[1].at = raw[i].hops[1].at
    <3> DEFINE s == raw[i]
    <3>1. Drawn(passage, s) /\ Segments[i] = EnrichSegment(s)
      BY <2>8, <2>12
    <3> HIDE DEF s
    <3>2. EnrichSegment(s).gateway = s.gateway /\ (EnrichSegment(s).hops # <<>> <=> s.hops # <<>>)
      BY <2>1, <3>1, AnalysedSegment, EnrichedHops
    <3>3. s.hops # <<>> => 1 \in DOMAIN s.hops
      <4>1. s.hops \in Seq(ToSet(s.hops))
        BY <2>1, <3>1, DrawnAnalysable
      <4>2. Len(s.hops) \in Nat /\ DOMAIN s.hops = 1..Len(s.hops) /\ (s.hops # <<>> => Len(s.hops) # 0)
        BY <4>1, LenProperties, EmptySeq
      <4> QED BY <4>2
    <3>4. \A n \in DOMAIN s.hops : EnrichSegment(s).hops[n].at = s.hops[n].at
      BY <2>1, <3>1, EnrichedHost
    <3> QED BY <3>1, <3>2, <3>3, <3>4 DEF s
  <2> DEFINE Own(s) == {k \in Indices({s.gateway}) : Correlation(passage[k], Probe) # ""}
             First(s) == Min({passage[i].pass : i \in Own(s)})
             Whole(s) == s.hops # <<>> /\ Indices({s.gateway}) \subseteq probe.found
             Agree(s, t) == \A i \in Own(s), j \in Own(t) :
                               /\ passage[i].start # 0 /\ passage[j].start # 0
                               /\ passage[j].pass < passage[i].pass => passage[j].start < passage[i].start
             Lines(i) == OwnLines(passage, raw[i].gateway)
  <2>14. ASSUME NEW i \in 1..N + 1
         PROVE  Indices({Segments[i].gateway}) = LinesOf(passage, raw[i].gateway) /\ Own(Segments[i]) = Lines(i)
    <3>1. Indices({Segments[i].gateway}) = LinesOf(passage, raw[i].gateway)
      BY <2>13 DEF Indices, LinesOf
    <3> QED BY <3>1 DEF OwnLines
  <2>15. ASSUME NEW i \in 1..N + 1, Segments[i].hops # <<>>
         PROVE  Lines(i) \in SUBSET DOMAIN passage /\ FirstPass(passage, Lines(i), First(Segments[i]))
    <3>1. Lines(i) \in SUBSET DOMAIN passage
      BY DEF OwnLines, LinesOf
    <3>2. Lines(i) # {}
      <4>1. PICK read \in SUBSET LinesOf(passage, raw[i].gateway) :
               (\A k \in read : Correlation(passage[k], Probe) # "") /\ raw[i].hops = Records(passage, read)
        BY <2>8 DEF Drawn
      <4>2. read \in SUBSET DOMAIN passage /\ raw[i].hops # <<>>
        BY <2>13, <2>15 DEF LinesOf
      <4>3. read # {}
        BY <2>1, <4>1, <4>2, SomeRecords
      <4> QED BY <4>1, <4>3 DEF OwnLines
    <3>3. First(Segments[i]) = Min({passage[l].pass : l \in Lines(i)})
      BY <2>14
    <3> HIDE DEF First, Lines
    <3> QED BY <2>1, <3>1, <3>2, <3>3, FirstPassIs
  <2>16. ASSUME NEW i \in 1..N + 1, NEW j \in 1..N + 1, i < j,
                Whole(Segments[i]), Whole(Segments[j]), i = 1 \/ Agree(Segments[i], Segments[j])
         PROVE  First(Segments[i]) < First(Segments[j])
    <3> DEFINE p == First(Segments[i])
               q == First(Segments[j])
               S == Lines(i)
               T == Lines(j)
    <3>1. /\ S \in SUBSET DOMAIN passage /\ FirstPass(passage, S, p)
          /\ T \in SUBSET DOMAIN passage /\ FirstPass(passage, T, q)
      BY <2>15, <2>16
    <3>2. PairInOrder(raw, i, j)
      BY <2>10, <2>16
    <3>3. p \in Nat /\ q \in Nat /\ p # q
      <4> HIDE DEF p, q
      <4> QED BY <2>1, <3>1, <3>2, FirstPasses DEF PairInOrder
    <3>4. CASE i = 1
      <4>1. FirstPass(passage, S, Last(passage).pass)
        <5>1. S = OwnLines(passage, Last(passage).gateway)
          BY <2>1, <2>9, <3>4
        <5> QED BY <2>1, <5>1, SourceFirstPass
      <4>2. PICK k \in S : passage[k].pass = p
        BY <3>1, Zenon DEF FirstPass
      <4>3. PICK l \in T : passage[l].pass = q
        BY <3>1, Zenon DEF FirstPass
      <4>4. PICK m \in S : passage[m].pass = Last(passage).pass
        BY <4>1, Zenon DEF FirstPass
      <4> HIDE DEF p, q, S, T
      <4>5. p <= Last(passage).pass
        BY <3>1, <4>4 DEF FirstPass
      <4>6. Last(passage).pass <= q
        BY <2>1, <3>1, <4>3, SourceFirstPass
      <4>7. Last(passage).pass \in Nat
        <5>1. m \in DOMAIN passage
          BY <3>1
        <5>2. passage[m].pass \in Nat
          BY <2>1, <5>1, PassageLines
        <5> QED BY <4>4, <5>2
      <4>8. p < q
        BY <3>3, <4>5, <4>6, <4>7
      <4> QED BY <4>8, Zenon DEF p, q
    <3>5. CASE i # 1
      <4>1. AgreeOn(passage, S, T)
        <5>1. Agree(Segments[i], Segments[j]) /\ Own(Segments[i]) = S /\ Own(Segments[j]) = T
          BY <2>14, <2>16, <3>5
        <5> HIDE DEF Own, S, T
        <5> QED BY <5>1, Zenon DEF AgreeOn
      <4>2. /\ raw[i].hops # <<>> /\ LinesOf(passage, raw[i].gateway) \subseteq probe.found
            /\ raw[j].hops # <<>> /\ LinesOf(passage, raw[j].gateway) \subseteq probe.found
        <5>1. \A k \in 1..N + 1 : Whole(Segments[k]) =>
                 raw[k].hops # <<>> /\ LinesOf(passage, raw[k].gateway) \subseteq probe.found
          BY <2>13, <2>14, Zenon
        <5> QED BY <2>16, <5>1, Zenon
      <4>2a. j # 1
        <5>1. i < j
          BY <2>16, Zenon
        <5> QED BY <5>1
      <4>3. FirstText(passage, S, raw[i].hops[1].at) /\ FirstText(passage, T, raw[j].hops[1].at)
        BY <2>11, <3>5, <4>2, <4>2a
      <4>4. raw[i].hops[1].at <= raw[j].hops[1].at
        BY <3>2, <3>5, <4>2 DEF PairInOrder
      <4> HIDE DEF p, q, S, T
      <4>5. p <= q
        BY <2>1, <3>1, <4>1, <4>3, <4>4, TextsFollowPasses
      <4>6. p < q
        BY <3>3, <4>5
      <4> QED BY <4>6, Zenon DEF p, q
    <3> QED BY <3>4, <3>5
  <2> HIDE DEF First, Whole, Agree
  <2>17. \A i, j \in DOMAIN Segments : i < j =>
            /\ Segments[i].gateway # Segments[j].gateway
            /\ i > 1 /\ Segments[j].hops # <<>> => Segments[i].hops # <<>> /\ Segments[i].hops[1].at <= Segments[j].hops[1].at
            /\ Whole(Segments[i]) /\ Whole(Segments[j]) /\ (i = 1 \/ Agree(Segments[i], Segments[j])) =>
                  First(Segments[i]) < First(Segments[j])
    <3> SUFFICES ASSUME NEW i \in 1..N + 1, NEW j \in 1..N + 1, i < j
                 PROVE  /\ Segments[i].gateway # Segments[j].gateway
                        /\ i > 1 /\ Segments[j].hops # <<>> =>
                              Segments[i].hops # <<>> /\ Segments[i].hops[1].at <= Segments[j].hops[1].at
                        /\ Whole(Segments[i]) /\ Whole(Segments[j]) /\ (i = 1 \/ Agree(Segments[i], Segments[j])) =>
                              First(Segments[i]) < First(Segments[j])
      BY <2>12
    <3>1. PairInOrder(raw, i, j)
      BY <2>10
    <3> QED BY <2>13, <2>16, <3>1 DEF PairInOrder
  <2> QED BY <2>17, Zenon DEF PathReadsInOrder, First, Whole, Agree
<1> QED BY <1>1, AssembledInvariant, TargetsInvariant, PTL


-----------------------------------------------------------------------------
(* What is inferred of a gateway without a record                          *)

\* The hops the rules see are records of the source's segment or an observation.
IsRecordOf(h, source, L, observations) ==
    \/ \E n \in DOMAIN source.hops : h = source.hops[n]
    \/ \E k \in 1..L : \E n \in DOMAIN observations[k].hops : h = observations[k].hops[n]

LEMMA HopsOfAre ==
  ASSUME NEW source, NEW targets, NEW observations, NEW L \in Nat, DOMAIN targets = 1..L,
         source.hops \in Seq(ToSet(source.hops)),
         \A k \in 1..L : observations[k].hops \in Seq(ToSet(observations[k].hops))
  PROVE  LET hops == HopsOf(source, targets, observations)
         IN  /\ Len(hops) \in Nat /\ DOMAIN hops = 1..Len(hops)
             /\ \A h \in DOMAIN hops : IsRecordOf(hops[h], source, L, observations)
<1> DEFINE own == source.hops
           others == [k \in 1..L |-> observations[k].hops]
           T == ToSet(own) \cup UNION {ToSet(others[k]) : k \in 1..L}
           one == <<own>>
           seqs == one \o others
           hops == HopsOf(source, targets, observations)
<1>1. hops = Joined(seqs)
  BY Zenon DEF HopsOf
<1>2. own \in Seq(T) /\ \A k \in 1..L : others[k] \in Seq(T)
  <2>1. \A A : \A s \in Seq(A) : A \in SUBSET T => s \in Seq(T)
    <3> HIDE DEF T
    <3> QED OBVIOUS
  <2>2. ToSet(own) \in SUBSET T /\ \A k \in 1..L : ToSet(others[k]) \in SUBSET T
    OBVIOUS
  <2>3. own \in Seq(ToSet(own)) /\ \A k \in 1..L : others[k] \in Seq(ToSet(others[k]))
    OBVIOUS
  <2> HIDE DEF own, others, T
  <2> QED BY <2>1, <2>2, <2>3
<1>3. DOMAIN seqs = 1..L + 1 /\ seqs[1] = own /\ \A k \in 1..L : seqs[k + 1] = others[k]
  <2> DEFINE A == Seq(T)
  <2>1. others = [k \in 1..L |-> others[k]]
    OBVIOUS
  <2> HIDE DEF own, others, T, A
  <2>2. others \in Seq(A) /\ Len(others) = L
    <3>1. others \in [1..L -> A]
      BY <1>2, <2>1 DEF A
    <3> HIDE DEF A
    <3> QED BY <3>1, LenProperties
  <2>3. one \in Seq(A) /\ Len(one) = 1 /\ one[1] = own
    BY <1>2 DEF A
  <2> HIDE DEF one
  <2>4. /\ one \o others \in Seq(A) /\ Len(one \o others) = Len(one) + Len(others)
        /\ \A i \in 1..Len(one) + Len(others) : (one \o others)[i] = IF i <= Len(one) THEN one[i] ELSE others[i - Len(one)]
    BY <2>2, <2>3, ConcatProperties
  <2>5. seqs \in Seq(A) /\ Len(seqs) = 1 + L /\ \A i \in 1..1 + L : seqs[i] = IF i <= 1 THEN one[i] ELSE others[i - 1]
    BY <2>2, <2>3, <2>4
  <2> HIDE DEF seqs
  <2>6. DOMAIN seqs = 1..Len(seqs)
    BY <2>5, LenProperties
  <2>7. ASSUME NEW k \in 1..L PROVE seqs[k + 1] = others[k]
    <3> DEFINE i == k + 1
    <3>1. i \in 1..1 + L /\ ~(i <= 1) /\ i - 1 = k
      OBVIOUS
    <3> HIDE DEF i
    <3>2. seqs[i] = others[i - 1]
      BY <2>5, <3>1
    <3> QED BY <3>1, <3>2 DEF i
  <2>8. DOMAIN seqs = 1..L + 1 /\ seqs[1] = own
    BY <2>3, <2>5, <2>6
  <2> QED BY <2>7, <2>8
<1> HIDE DEF own, others, T, seqs, hops
<1>4. \A i \in 1..L + 1 : seqs[i] \in Seq(T)
  <2> SUFFICES ASSUME NEW i \in 1..L + 1 PROVE seqs[i] \in Seq(T)
    OBVIOUS
  <2>1. CASE i = 1
    BY <1>2, <1>3, <2>1
  <2>2. CASE i # 1
    <3>1. i - 1 \in 1..L /\ i - 1 + 1 = i
      BY <2>2
    <3> DEFINE k == i - 1
    <3>2. k \in 1..L /\ seqs[i] = seqs[k + 1]
      BY <3>1
    <3> HIDE DEF k
    <3> QED BY <1>2, <1>3, <3>2
  <2> QED BY <2>1, <2>2
<1>5. /\ hops \in Seq(T)
      /\ \A h \in DOMAIN hops : \E i \in 1..L + 1 : \E n \in DOMAIN seqs[i] : hops[h] = seqs[i][n]
  <2> DEFINE M == L + 1
  <2>1. M \in Nat /\ DOMAIN seqs = 1..M /\ \A i \in 1..M : seqs[i] \in Seq(T)
    BY <1>3, <1>4
  <2> HIDE DEF M
  <2>2. JoinedOf(M, T, seqs)
    BY <2>1, JoinedElements
  <2> QED BY <1>1, <2>2, Zenon DEF JoinedOf, M
<1>6. Len(hops) \in Nat /\ DOMAIN hops = 1..Len(hops)
  BY <1>5, LenProperties
<1>7. \A h \in DOMAIN hops : IsRecordOf(hops[h], source, L, observations)
  <2> SUFFICES ASSUME NEW h \in DOMAIN hops PROVE IsRecordOf(hops[h], source, L, observations)
    OBVIOUS
  <2>1. PICK i \in 1..L + 1 : \E n \in DOMAIN seqs[i] : hops[h] = seqs[i][n]
    BY <1>5
  <2>2. CASE i = 1
    BY <1>3, <2>1, <2>2 DEF IsRecordOf, own
  <2>3. CASE i # 1
    <3> DEFINE k == i - 1
    <3>1. k \in 1..L /\ seqs[i] = seqs[k + 1]
      BY <2>3
    <3> HIDE DEF k
    <3>2. seqs[i] = observations[k].hops
      BY <1>3, <3>1 DEF others
    <3> QED BY <2>1, <3>1, <3>2 DEF IsRecordOf
  <2> QED BY <2>2, <2>3
<1> QED BY <1>6, <1>7 DEF hops

\* A declared target whose predecessor has records in one of the segments.
LedToFrom(targets, raw, gateway) ==
    \E t \in DOMAIN targets, j \in DOMAIN raw :
       /\ targets[t].declared /\ targets[t].gateway = gateway
       /\ raw[j].hops # <<>> /\ raw[j].gateway = targets[t].predecessor

\* Every segment has a known inference, a high one is earned by a record of one of
\* the segments, and a low one by a link from one of those with records.
SegmentsEarned(top, targets, raw) ==
    \A i \in DOMAIN raw :
       /\ raw[i].inference \in {"", "high", "medium", "low", "ambiguous"}
       /\ raw[i].inference = "high" =>
             \E j \in DOMAIN raw : \E n \in DOMAIN raw[j].hops :
                {x \in GatewaysOf(targets) : gatewayTargetMatchesAddress(top, x, raw[j].hops[n].host)} = {raw[i].gateway}
       /\ raw[i].inference = "low" => LedToFrom(targets, raw, raw[i].gateway)

LEMMA RawEarned ==
  ASSUME NEW lines, IsPassage(lines), NEW top, NEW source, NEW L \in Nat, NEW targets, DOMAIN targets = 1..L,
         NEW found0, NEW flaw, NEW found1, NEW failed, NEW code
  PROVE  SegmentsEarned(top, targets, Raw(lines, top, source, targets, found0, flaw, found1, failed, code))
<1> DEFINE raw == Raw(lines, top, source, targets, found0, flaw, found1, failed, code)
           first == SourceExecution(lines, source, found0, flaw).segments[1]
           observations == Observations(lines, targets, found1, failed, code)
           hops == HopsOf(first, targets, observations)
           observed == ObservedGateways(first, targets, observations)
           inferred == Inferred(top, first, targets, observations)
           gateways == GatewaysOf(targets)
           Single(h) == {x \in gateways : gatewayTargetMatchesAddress(top, x, h.host)}
<1>1. \A k \in 1..L : /\ Drawn(lines, observations[k]) /\ observations[k].inference = ""
                      /\ observations[k].gateway = targets[k].gateway
  <2> SUFFICES ASSUME NEW k \in 1..L
               PROVE  /\ Drawn(lines, observations[k]) /\ observations[k].inference = ""
                      /\ observations[k].gateway = targets[k].gateway
    OBVIOUS
  <2> DEFINE s == Observed(lines, targets[k], found1, failed, code)
             read == ReadOf(lines, targets[k], found1, failed)
  <2>1. observations[k] = s
    BY DEF Observations
  <2>2. IsAnswer(lines, s, targets[k].gateway, read)
    BY ObservedSegment, Zenon DEF ReadOf
  <2> HIDE DEF s, read
  <2> QED BY <2>1, <2>2, Zenon DEF IsAnswer
<1>2. Drawn(lines, first) /\ first.inference = ""
  <2>1. IsAnswer(lines, first, source, Records(lines, ReadLines(lines, source, found0)))
    BY SourceSegment, Zenon
  <2> QED BY <2>1, Zenon DEF IsAnswer
<1>3. Arranged(raw, first, L, inferred, observations)
  BY RawIsArranged, Zenon DEF RawArranged
<1>4. inferred = inferProbeGatewayCandidates(top, targets, hops, observed)
  BY Zenon DEF Inferred
<1> HIDE DEF raw, first, observations, hops, observed, inferred
<1>5. /\ Len(hops) \in Nat /\ DOMAIN hops = 1..Len(hops)
      /\ \A h \in DOMAIN hops : IsRecordOf(hops[h], first, L, observations)
  <2>1. first.hops \in Seq(ToSet(first.hops)) /\ \A k \in 1..L : observations[k].hops \in Seq(ToSet(observations[k].hops))
    BY <1>1, <1>2, DrawnAnalysable
  <2> QED BY <2>1, HopsOfAre DEF hops
<1>6. InferenceEarned(top, targets, hops, observed, inferred)
  BY <1>4, <1>5, InferredEarned, Zenon
<1>7. PICK N \in Nat : \E place : ArrangedBy(raw, first, L, inferred, observations, N, place)
  BY <1>3, Zenon DEF Arranged
<1>7a. PICK place : ArrangedBy(raw, first, L, inferred, observations, N, place)
  BY <1>7, Zenon
<1>8. /\ place \in [1..N -> 1..L] /\ DOMAIN raw = 1..N + 1 /\ raw[1] = first
      /\ \A n \in 1..N : raw[n + 1] = ShownAs(inferred, observations[place[n]])
      /\ \A k \in 1..L : IsKept(inferred, observations[k]) => \E n \in 1..N : place[n] = k
  BY <1>7a, Zenon DEF ArrangedBy
<1> HIDE DEF gateways
<1>9. ASSUME NEW n \in 1..N
      PROVE  LET s == observations[place[n]]
             IN  /\ raw[n + 1].gateway = s.gateway /\ raw[n + 1].hops = s.hops
                 /\ raw[n + 1].inference = IF IsCandidate(inferred, s) THEN inferred[s.gateway] ELSE ""
  <2> DEFINE s == observations[place[n]]
  <2>1. place[n] \in 1..L
    BY <1>8
  <2>2. IsSegment(s) /\ s.inference = ""
    BY <1>1, <2>1 DEF Drawn
  <2>3. raw[n + 1] = ShownAs(inferred, s)
    BY <1>8
  <2> HIDE DEF s
  <2>4. /\ ShownAs(inferred, s).gateway = s.gateway /\ ShownAs(inferred, s).hops = s.hops
        /\ ShownAs(inferred, s).inference = (IF IsCandidate(inferred, s) THEN inferred[s.gateway] ELSE s.inference)
    BY <2>2, ShownFields
  <2> QED BY <2>2, <2>3, <2>4, Zenon DEF s
<1>10. ASSUME NEW h \in DOMAIN hops
       PROVE  \E j \in DOMAIN raw : \E n \in DOMAIN raw[j].hops : raw[j].hops[n] = hops[h]
  <2>1. IsRecordOf(hops[h], first, L, observations)
    BY <1>5
  <2>2. CASE \E n \in DOMAIN first.hops : hops[h] = first.hops[n]
    <3>1. 1 \in DOMAIN raw
      BY <1>8
    <3> QED BY <1>8, <2>2, <3>1
  <2>3. ASSUME NEW k \in 1..L, NEW n \in DOMAIN observations[k].hops, hops[h] = observations[k].hops[n]
        PROVE  \E j \in DOMAIN raw : \E m \in DOMAIN raw[j].hops : raw[j].hops[m] = hops[h]
    <3>1. observations[k].hops # <<>>
      <4>1. DOMAIN <<>> = {}
        OBVIOUS
      <4> QED BY <4>1, Zenon
    <3>2. PICK m \in 1..N : place[m] = k
      BY <1>8, <3>1, Zenon DEF IsKept
    <3>3. raw[m + 1].hops = observations[k].hops
      BY <1>9, <3>2, Zenon
    <3>4. m + 1 \in DOMAIN raw
      BY <1>8
    <3> QED BY <2>3, <3>3, <3>4
  <2> QED BY <2>1, <2>2, <2>3 DEF IsRecordOf
<1>11. \A o \in observed : \E j \in DOMAIN raw : raw[j].hops # <<>> /\ raw[j].gateway = o
  <2> SUFFICES ASSUME NEW o \in observed PROVE \E j \in DOMAIN raw : raw[j].hops # <<>> /\ raw[j].gateway = o
    OBVIOUS
  <2>1. (\E k \in 1..L : observations[k].hops # <<>> /\ o = targets[k].gateway) \/ (first.hops # <<>> /\ o = first.gateway)
    BY DEF observed, ObservedGateways
  <2>2. CASE first.hops # <<>> /\ o = first.gateway
    <3>1. 1 \in DOMAIN raw
      BY <1>8
    <3> QED BY <1>8, <2>2, <3>1
  <2>3. ASSUME NEW k \in 1..L, observations[k].hops # <<>>, o = targets[k].gateway
        PROVE  \E j \in DOMAIN raw : raw[j].hops # <<>> /\ raw[j].gateway = o
    <3>1. PICK m \in 1..N : place[m] = k
      BY <1>8, <2>3, Zenon DEF IsKept
    <3>2. raw[m + 1].hops = observations[k].hops /\ raw[m + 1].gateway = observations[k].gateway
      BY <1>9, <3>1, Zenon
    <3>3. m + 1 \in DOMAIN raw
      BY <1>8
    <3> QED BY <1>1, <2>3, <3>2, <3>3
  <2> QED BY <2>1, <2>2, <2>3
<1>12. ASSUME NEW i \in DOMAIN raw
       PROVE  /\ raw[i].inference \in {"", "high", "medium", "low", "ambiguous"}
              /\ raw[i].inference = "high" =>
                    \E j \in DOMAIN raw : \E n \in DOMAIN raw[j].hops : Single(raw[j].hops[n]) = {raw[i].gateway}
              /\ raw[i].inference = "low" => LedToFrom(targets, raw, raw[i].gateway)
  <2>1. CASE raw[i].inference = ""
    BY <2>1
  <2>2. CASE raw[i].inference # ""
    <3> DEFINE n == i - 1
               g == raw[i].gateway
    <3>1. i # 1
      BY <1>2, <1>8, <2>2
    <3>2. n \in 1..N /\ n + 1 = i
      BY <1>8, <3>1
    <3> HIDE DEF n
    <3>3. g \in DOMAIN inferred /\ raw[i].inference = inferred[g]
      BY <1>9, <2>2, <3>2, Zenon DEF IsCandidate
    <3>4. inferred[g] \in {"high", "medium", "low", "ambiguous"}
      BY <1>6, <3>3, Zenon DEF InferenceEarned
    <3>5. inferred[g] = "high" => \E h \in DOMAIN hops : Single(hops[h]) = {g}
      BY <1>6, <3>3, Zenon DEF InferenceEarned, gateways
    <3>6. inferred[g] = "high" => \E j \in DOMAIN raw : \E m \in DOMAIN raw[j].hops : Single(raw[j].hops[m]) = {g}
      <4> SUFFICES ASSUME inferred[g] = "high"
                   PROVE  \E j \in DOMAIN raw : \E m \in DOMAIN raw[j].hops : Single(raw[j].hops[m]) = {g}
        OBVIOUS
      <4>1. PICK h \in DOMAIN hops : Single(hops[h]) = {g}
        BY <3>5
      <4>2. PICK j \in DOMAIN raw : \E m \in DOMAIN raw[j].hops : raw[j].hops[m] = hops[h]
        BY <1>10
      <4>3. PICK m \in DOMAIN raw[j].hops : raw[j].hops[m] = hops[h]
        BY <4>2
      <4>4. Single(raw[j].hops[m]) = {g}
        BY <4>1, <4>3, Zenon
      <4> HIDE DEF Single
      <4> QED BY <4>4
    <3>7. ASSUME inferred[g] = "low" PROVE LedToFrom(targets, raw, g)
      <4>1. PICK t \in DOMAIN targets : LedTo(targets, observed, t) /\ targets[t].gateway = g
        BY <1>6, <3>3, <3>7, Zenon DEF InferenceEarned
      <4>2. PICK j \in DOMAIN raw : raw[j].hops # <<>> /\ raw[j].gateway = targets[t].predecessor
        BY <1>11, <4>1, Zenon DEF LedTo
      <4> HIDE DEF g
      <4> QED BY <4>1, <4>2, Zenon DEF LedTo, LedToFrom
    <3> HIDE DEF Single
    <3> QED BY <3>3, <3>4, <3>6, <3>7
  <2> QED BY <2>1, <2>2
<1> QED BY <1>12, Zenon DEF SegmentsEarned, raw, gateways

\* A segment has issues of the collection, and of the inference.
SegmentScopes(raw) == \A i \in DOMAIN raw : \A issue \in raw[i].issues : issue.scope \in {"collection", "inference"}

LEMMA RawScopes ==
  ASSUME NEW lines, IsPassage(lines), NEW top, NEW source, NEW L \in Nat, NEW targets, DOMAIN targets = 1..L,
         NEW found0, NEW flaw, NEW found1, NEW failed, NEW code
  PROVE  SegmentScopes(Raw(lines, top, source, targets, found0, flaw, found1, failed, code))
<1> DEFINE raw == Raw(lines, top, source, targets, found0, flaw, found1, failed, code)
           first == SourceExecution(lines, source, found0, flaw).segments[1]
           observations == Observations(lines, targets, found1, failed, code)
           inferred == Inferred(top, first, targets, observations)
<1>1. \A k \in 1..L : IsSegment(observations[k]) /\ \A issue \in observations[k].issues : issue.scope = "collection"
  <2> SUFFICES ASSUME NEW k \in 1..L
               PROVE  IsSegment(observations[k]) /\ \A issue \in observations[k].issues : issue.scope = "collection"
    OBVIOUS
  <2> DEFINE s == Observed(lines, targets[k], found1, failed, code)
             read == ReadOf(lines, targets[k], found1, failed)
  <2>1. observations[k] = s
    BY DEF Observations
  <2>2. IsAnswer(lines, s, targets[k].gateway, read)
    BY ObservedSegment, Zenon DEF ReadOf
  <2> HIDE DEF s, read
  <2> QED BY <2>1, <2>2, Zenon DEF IsAnswer, Drawn
<1>2. \A issue \in first.issues : issue.scope = "collection"
  <2>1. IsAnswer(lines, first, source, Records(lines, ReadLines(lines, source, found0)))
    BY SourceSegment, Zenon
  <2> QED BY <2>1, Zenon DEF IsAnswer
<1>3. Arranged(raw, first, L, inferred, observations)
  BY RawIsArranged, Zenon DEF RawArranged
<1> HIDE DEF raw, first, observations, inferred
<1>4. PICK N \in Nat : \E place : ArrangedBy(raw, first, L, inferred, observations, N, place)
  BY <1>3, Zenon DEF Arranged
<1>4a. PICK place : ArrangedBy(raw, first, L, inferred, observations, N, place)
  BY <1>4, Zenon
<1>5. /\ place \in [1..N -> 1..L] /\ DOMAIN raw = 1..N + 1 /\ raw[1] = first
      /\ \A n \in 1..N : raw[n + 1] = ShownAs(inferred, observations[place[n]])
  BY <1>4a, Zenon DEF ArrangedBy
<1>6. ASSUME NEW n \in 1..N, NEW issue \in raw[n + 1].issues PROVE issue.scope \in {"collection", "inference"}
  <2> DEFINE s == observations[place[n]]
             missing == Issue("inference", "gateway-evidence-missing", 0)
  <2>1. IsSegment(s) /\ \A i \in s.issues : i.scope = "collection"
    BY <1>1, <1>5
  <2>2. raw[n + 1] = ShownAs(inferred, s)
    BY <1>5
  <2>3. missing.scope = "inference"
    BY DEF Issue
  <2> HIDE DEF s, missing
  <2>4. ShownAs(inferred, s).issues = (IF IsCandidate(inferred, s) THEN s.issues \cup {missing} ELSE s.issues)
    BY <2>1, ShownFields DEF missing
  <2> QED BY <2>1, <2>2, <2>3, <2>4
<1>7. ASSUME NEW i \in DOMAIN raw, NEW issue \in raw[i].issues PROVE issue.scope \in {"collection", "inference"}
  <2>1. CASE i = 1
    BY <1>2, <1>5, <1>7, <2>1
  <2>2. CASE i # 1
    <3> DEFINE n == i - 1
    <3>1. n \in 1..N /\ n + 1 = i
      BY <1>5, <2>2
    <3> HIDE DEF n
    <3> QED BY <1>6, <3>1
  <2> QED BY <2>1, <2>2
<1> QED BY <1>7 DEF SegmentScopes, raw

\* What a done probe shows is made of raw: segments drawn from the passage, whose
\* inferences are earned.
MadeOf(raw) ==
    /\ DOMAIN Segments = DOMAIN raw
    /\ \A k \in DOMAIN raw : Drawn(passage, raw[k]) /\ Segments[k] = EnrichSegment(raw[k])
    /\ SegmentsEarned(probe.top, probe.targets, raw) /\ SegmentScopes(raw)

LEMMA DoneRaw ==
  ASSUME Assembled, TargetsListed, probe.phase = "done"
  PROVE  IsPassage(passage) /\ \E raw : MadeOf(raw)
<1>1. IsPassage(passage) /\ Len(probe.targets) \in Nat /\ DOMAIN probe.targets = 1..Len(probe.targets)
  BY DoneOfPassage
<1>2. PICK found0, flaw, found1, failed, code : DoneOf(found0, flaw, found1, failed, code)
  BY DoneOfPassage
<1> DEFINE L == Len(probe.targets)
           raw == Raw(passage, probe.top, probe.source, probe.targets, found0, flaw, found1, failed, code)
           execution == Assembly(passage, probe.top, probe.source, probe.targets, found0, flaw, found1, failed, code)
<1>3. execution.segments = Analysed(raw)
  BY <1>1, AssembledExecution
<1>4. SegmentsEarned(probe.top, probe.targets, raw)
  BY <1>1, RawEarned, Zenon
<1>5. SegmentScopes(raw)
  BY <1>1, RawScopes, Zenon
<1>6. \A k \in DOMAIN raw : Drawn(passage, raw[k])
  <2>1. AllDrawn(passage, SourceExecution(passage, probe.source, found0, flaw).segments[1], L, probe.targets, raw)
    BY <1>1, RawDrawn, Zenon
  <2> HIDE DEF raw
  <2> QED BY <2>1, Zenon DEF AllDrawn
<1>7. Segments = Analysed(raw)
  BY <1>2, <1>3, Zenon DEF Segments, DoneOf, DoneFrom
<1> HIDE DEF raw, execution
<1>8. DOMAIN Segments = DOMAIN raw /\ \A k \in DOMAIN raw : Segments[k] = EnrichSegment(raw[k])
  BY <1>7 DEF Analysed
<1>9. MadeOf(raw)
  BY <1>4, <1>5, <1>6, <1>8, Zenon DEF MadeOf
<1> QED BY <1>1, <1>9, Zenon

-----------------------------------------------------------------------------
(* Confidence                                                              *)

\* A high-confidence candidate is singled out by the host an observed record was
\* sent to: no other observed gateway has that host (upstreamHostRule,
\* inferProbeGatewayCandidates).
THEOREM ConfidenceIsEarnedHolds ==
  Spec => []ConfidenceIsEarned
<1>1. Assembled /\ TargetsListed => ConfidenceIsEarned
  <2> SUFFICES ASSUME Assembled, TargetsListed, NEW i \in DOMAIN Segments, Segments[i].inference = "high"
               PROVE  \E j \in DOMAIN Segments : \E n \in DOMAIN Segments[j].hops :
                         {g \in TargetIDs : gatewayTargetMatchesAddress(probe.top, g, Segments[j].hops[n].host)}
                           = {Segments[i].gateway}
    BY Zenon DEF ConfidenceIsEarned
  <2>1. probe.phase = "done"
    BY DEF Segments
  <2>2. IsPassage(passage)
    BY <2>1, DoneRaw
  <2>3. PICK raw : MadeOf(raw)
    BY <2>1, DoneRaw
  <2> DEFINE Single(host) == {g \in TargetIDs : gatewayTargetMatchesAddress(probe.top, g, host)}
  <2>4. raw[i].inference = "high" /\ Segments[i].gateway = raw[i].gateway
    BY <2>2, <2>3, AnalysedSegment DEF MadeOf
  <2>5. GatewaysOf(probe.targets) = TargetIDs
    BY Zenon DEF GatewaysOf, TargetIDs
  <2>6. PICK j \in DOMAIN raw : \E n \in DOMAIN raw[j].hops : Single(raw[j].hops[n].host) = {raw[i].gateway}
    BY <2>3, <2>4, <2>5, Zenon DEF MadeOf, SegmentsEarned
  <2>7. PICK n \in DOMAIN raw[j].hops : Single(raw[j].hops[n].host) = {raw[i].gateway}
    BY <2>6
  <2>8. n \in DOMAIN Segments[j].hops /\ Segments[j].hops[n].host = raw[j].hops[n].host
    BY <2>2, <2>3, EnrichedHost DEF MadeOf
  <2>9. Single(Segments[j].hops[n].host) = {Segments[i].gateway}
    BY <2>4, <2>7, <2>8, Zenon
  <2> QED BY <2>3, <2>8, <2>9, Zenon DEF MadeOf
<1> QED BY <1>1, AssembledInvariant, TargetsInvariant, PTL

\* A gateway without a record is a low-confidence candidate only next to an
\* observed one: a link leads to it from a gateway with records, never from one
\* that is itself missing (declaredGatewayAssociationRule).
THEOREM NoGuessBeyondAGapHolds ==
  Spec => []NoGuessBeyondAGap
<1>1. Assembled /\ TargetsListed /\ Targeted => NoGuessBeyondAGap
  <2> SUFFICES ASSUME Assembled, TargetsListed, Targeted, NEW i \in DOMAIN Segments, Segments[i].inference = "low"
               PROVE  \E j \in DOMAIN Segments, l \in probe.top.links :
                         /\ Segments[j].hops # <<>>
                         /\ Segments[j].gateway = owningGateway(probe.top, l.from)
                         /\ Segments[i].gateway = owningGateway(probe.top, l.to)
    BY Zenon DEF NoGuessBeyondAGap
  <2>1. probe.phase = "done"
    BY DEF Segments
  <2>2. IsPassage(passage)
    BY <2>1, DoneRaw
  <2>3. PICK raw : MadeOf(raw)
    BY <2>1, DoneRaw
  <2>4. raw[i].inference = "low" /\ Segments[i].gateway = raw[i].gateway
    BY <2>2, <2>3, AnalysedSegment DEF MadeOf
  <2>5. PICK t \in DOMAIN probe.targets, j \in DOMAIN raw :
           /\ probe.targets[t].declared /\ probe.targets[t].gateway = raw[i].gateway
           /\ raw[j].hops # <<>> /\ raw[j].gateway = probe.targets[t].predecessor
    BY <2>3, <2>4, Zenon DEF MadeOf, SegmentsEarned, LedToFrom
  <2>6. PICK l \in probe.top.links : /\ probe.targets[t].gateway = owningGateway(probe.top, l.to)
                                    /\ probe.targets[t].predecessor = owningGateway(probe.top, l.from)
    <3>1. probe # NoProbe
      BY <2>1 DEF NoProbe
    <3>2. AreTargets(probe.top, probe.source, probe.targets)
      BY <3>1 DEF Targeted
    <3> QED BY <2>5, <3>2, Zenon DEF AreTargets
  <2>7. Segments[j].gateway = raw[j].gateway
    BY <2>2, <2>3, AnalysedSegment DEF MadeOf
  <2>8. Segments[j].hops # <<>>
    <3>1. DOMAIN Segments[j].hops = DOMAIN raw[j].hops
      BY <2>2, <2>3, EnrichedHost DEF MadeOf
    <3>2. raw[j].hops \in Seq(ToSet(raw[j].hops))
      BY <2>2, <2>3, DrawnAnalysable DEF MadeOf
    <3>3. DOMAIN raw[j].hops # {}
      <4> DEFINE hops == raw[j].hops
      <4>1. hops \in Seq(ToSet(hops)) /\ hops # <<>>
        BY <2>5, <3>2
      <4> HIDE DEF hops
      <4>2. DOMAIN hops = 1..Len(hops) /\ Len(hops) \in Nat /\ Len(hops) # 0
        BY <4>1, LenProperties, EmptySeq
      <4>3. 1 \in DOMAIN hops
        BY <4>2
      <4> QED BY <4>3 DEF hops
    <3>4. DOMAIN <<>> = {}
      OBVIOUS
    <3> QED BY <3>1, <3>3, <3>4, Zenon
  <2> QED BY <2>3, <2>4, <2>5, <2>6, <2>7, <2>8, Zenon DEF MadeOf
<1> QED BY <1>1, AssembledInvariant, TargetsInvariant, TargetedInvariant, PTL

-----------------------------------------------------------------------------
(* Types                                                                   *)

\* Issues stay with what they are about, and every segment has a known relation
\* state and confidence (segmentFromAgent, EnrichProbe).
THEOREM TypeCorrect ==
  Spec => []TypeOK
<1>1. Assembled /\ TargetsListed /\ Registered => TypeOK
  <2> SUFFICES ASSUME Assembled, TargetsListed, Registered PROVE TypeOK
    OBVIOUS
  <2>1. ASSUME NEW i \in DOMAIN Segments
        PROVE  /\ Segments[i].relation \in {"linked", "missing-next", "unconfirmed", "ambiguous"}
               /\ Segments[i].inference \in {"", "high", "medium", "low", "ambiguous"}
               /\ \A issue \in Segments[i].issues : issue.scope \in {"collection", "relation", "inference"}
    <3>1. probe.phase = "done"
      BY DEF Segments
    <3>2. IsPassage(passage)
      BY <3>1, DoneRaw
    <3>3. PICK raw : MadeOf(raw)
      BY <3>1, DoneRaw
    <3> DEFINE s == raw[i]
    <3>4. i \in DOMAIN raw /\ Segments[i] = EnrichSegment(s) /\ Drawn(passage, s)
      BY <3>3 DEF MadeOf
    <3> DEFINE t == EnrichSegment(s)
    <3>5. /\ t.inference = s.inference /\ t.issues = Retained(s) \cup GroupIssues(GroupsOf(s))
          /\ t.relation = WorstRelation(GroupsOf(s))
      BY <3>2, <3>4, AnalysedSegment
    <3>6. s.inference \in {"", "high", "medium", "low", "ambiguous"}
      BY <3>3, <3>4, Zenon DEF MadeOf, SegmentsEarned
    <3>7. \A issue \in Retained(s) : issue.scope \in {"collection", "inference"}
      BY <3>3, <3>4 DEF MadeOf, SegmentScopes, Retained
    <3>8. /\ WorstRelation(GroupsOf(s)) \in {"linked", "missing-next", "unconfirmed", "ambiguous"}
          /\ \A issue \in GroupIssues(GroupsOf(s)) : issue.scope = "relation"
      BY KnownRelation, GroupIssuesScope DEF GroupsOf
    <3> HIDE DEF s, t
    <3>9. \A issue \in t.issues : issue.scope \in {"collection", "relation", "inference"}
      BY <3>5, <3>7, <3>8
    <3> QED BY <3>4, <3>5, <3>6, <3>8, <3>9, Zenon DEF t
  <2> QED BY <2>1, Zenon DEF TypeOK, Assembled, Registered
<1> QED BY <1>1, AssembledInvariant, TargetsInvariant, RegisteredInvariant, PTL

-----------------------------------------------------------------------------
(* Links between clusters                                                  *)

\* A cross-cluster link goes to the one entry of another cluster that matches
\* best; when two tie there is a finding and no link (discoverLinks). Holds of
\* the topology of any snapshots, whoever uploaded them and when.
THEOREM LinksNeverGuessHolds == Spec => []LinksNeverGuess
<1>1. Registered => LinksNeverGuess
  <2> SUFFICES ASSUME Registered PROVE LinksNeverGuess
    OBVIOUS
  <2> DEFINE top == federated(snapshots)
             nodes == FederatedNodes(snapshots)
             edges == FederatedEdges(snapshots)
             found == discoverLinks(nodes, edges)
             Candidates(x) == LinkCandidates(top.nodes, x)
             Rivals(x, y) == LinkRivals(top.nodes, x, y)
  <2>1. top.nodes = nodes /\ top.edges = edges /\ top.links = found.links
    BY FederatedParts
  <2>2. IsFiniteSet(DOMAIN nodes) /\ \A i \in DOMAIN edges : ClusterOf(edges[i].from) = ClusterOf(edges[i].to)
    <3> HIDE DEF nodes, edges
    <3> QED BY <2>1, RegisteredTopology DEF IsFederated
  <2>3. \A x : [title |-> AmbiguousLink, target |-> x] \in top.findings <=> [title |-> AmbiguousLink, target |-> x] \in found.findings
    BY AmbiguitiesAreFound DEF Registered
  <2> HIDE DEF top, nodes, edges, found
  <2>4. ASSUME NEW x \in DOMAIN top.nodes
        PROVE  /\ \A y \in Candidates(x) : Rivals(x, y) = {} <=> \E l \in top.links : l.from = x /\ l.to = y
               /\ [title |-> AmbiguousLink, target |-> x] \in top.findings
                    <=> Candidates(x) # {} /\ \A y \in Candidates(x) : Rivals(x, y) # {}
    <3> DEFINE best == bestEntryMatches(nodes, edges, x)
    <3>1. EntryMatches(nodes, edges, x) = LinkCandidates(nodes, x)
      BY <2>2, MatchesAreCandidates
    <3>2. /\ best \subseteq Candidates(x)
          /\ Candidates(x) # {} => best # {}
          /\ \A y \in Candidates(x) : best = {y} <=> Rivals(x, y) = {}
      BY <2>1, <3>1, BestMatch
    <3>3. /\ \A y : best = {y} <=> \E l \in found.links : l.from = x /\ l.to = y
          /\ [title |-> AmbiguousLink, target |-> x] \in found.findings <=> best # {} /\ \A y : best # {y}
      <4>1. x \in DOMAIN nodes
        BY <2>1, <2>4
      <4>2. LinkedToBest(discoverLinks(nodes, edges), bestEntryMatches(nodes, edges, x), x)
        BY <2>2, <4>1, LinksAreBest
      <4> QED BY <4>2, Zenon DEF found, LinkedToBest
    <3> HIDE DEF best, Candidates, Rivals
    <3>4. best # {} /\ (\A y : best # {y}) <=> Candidates(x) # {} /\ \A y \in Candidates(x) : Rivals(x, y) # {}
      BY <3>2
    <3>5. \A y \in Candidates(x) : Rivals(x, y) = {} <=> \E l \in top.links : l.from = x /\ l.to = y
      BY <2>1, <3>2, <3>3
    <3>6. [title |-> AmbiguousLink, target |-> x] \in top.findings
            <=> Candidates(x) # {} /\ \A y \in Candidates(x) : Rivals(x, y) # {}
      BY <2>3, <3>3, <3>4, Zenon
    <3> QED BY <3>5, <3>6
  <2> QED BY <2>4, Zenon DEF LinksNeverGuess, top, LinkCandidates, LinkRivals
<1> QED BY <1>1, RegisteredInvariant, PTL

\* In every state, for any clusters and objects: the uploaded snapshots report
\* exactly the routes with an edge to a backend of another namespace that no
\* ReferenceGrant there admits (addBackends, collectGrants, grantsAllow).
THEOREM UnauthorisedIsReportedHolds == Spec => []UnauthorisedIsReported
<1>1. Registered => UnauthorisedIsReported
  <2> SUFFICES ASSUME Registered, NEW c \in DOMAIN sent
               PROVE  LET objs == Versions[c][sent[c]]
                          Granted(r, b) == \E g \in ToSet(objs.grants) :
                                              /\ g.ns = b.ns
                                              /\ \E f \in g.from : f.ns = r.ns /\ f.kind = "HTTPRoute"
                                              /\ \E t \in g.to : t.kind = b.kind /\ t.name \in {b.name, "*"}
                          Target(b) == CASE b.kind = "InferencePool" -> {<<"inferencepool", b.ns, b.name>>}
                                         [] b.kind = "Service" -> {<<"service", b.ns, b.name>>, <<"transit", b.ns, b.name>>}
                                         [] OTHER -> {}
                      IN  \A r \in ToSet(objs.routes) :
                             LET id == <<"route", r.ns, r.name>>
                             IN  [title |-> Unauthorised, target |-> id] \in snapshots[c].findings
                                 <=> \E b \in ToSet(r.backends), e \in ToSet(snapshots[c].edges) :
                                        /\ e.from = id /\ e.to \in Target(b)
                                        /\ b.ns # r.ns /\ ~Granted(r, b)
    BY Zenon DEF UnauthorisedIsReported
  <2> DEFINE objs == Versions[c][sent[c]]
             Granted(r, b) == \E g \in ToSet(objs.grants) :
                                 /\ g.ns = b.ns
                                 /\ \E f \in g.from : f.ns = r.ns /\ f.kind = "HTTPRoute"
                                 /\ \E t \in g.to : t.kind = b.kind /\ t.name \in {b.name, "*"}
             Target(b) == CASE b.kind = "InferencePool" -> {<<"inferencepool", b.ns, b.name>>}
                            [] b.kind = "Service" -> {<<"service", b.ns, b.name>>, <<"transit", b.ns, b.name>>}
                            [] OTHER -> {}
             s == snapshots[c]
  <2>1. \A r, b : ~Allowed(objs, r, b) <=> b.ns # r.ns /\ ~Granted(r, b)
    <3>1. \A r, b : grantsAllow(collectGrants(objs), r.ns, b.ns, b.kind, b.name) <=> Granted(r, b)
      BY GrantsAre
    <3> HIDE DEF Granted, objs
    <3> QED BY <3>1 DEF Allowed
  <2>2. \A b : Target(b) = TargetsOf(b)
    BY Zenon DEF TargetsOf
  <2>3. \A r : RouteID(r) = <<"route", r.ns, r.name>> /\ Denial(RouteID(r)) = [title |-> Unauthorised, target |-> RouteID(r)]
    BY Zenon DEF RouteID, Denial
  <2>4. Reports(s, objs)
    BY DEF Registered
  <2> HIDE DEF objs, Granted, Target, s
  <2>5. \A r \in ToSet(objs.routes) :
           [title |-> Unauthorised, target |-> RouteID(r)] \in s.findings
           <=> \E b \in ToSet(r.backends), e \in ToSet(s.edges) :
                  e.from = RouteID(r) /\ e.to \in Target(b) /\ b.ns # r.ns /\ ~Granted(r, b)
    BY <2>1, <2>2, <2>3, <2>4 DEF Reports
  <2>6. \A r \in ToSet(objs.routes) :
           [title |-> Unauthorised, target |-> <<"route", r.ns, r.name>>] \in s.findings
           <=> \E b \in ToSet(r.backends), e \in ToSet(s.edges) :
                  e.from = <<"route", r.ns, r.name>> /\ e.to \in Target(b) /\ b.ns # r.ns /\ ~Granted(r, b)
    BY <2>3, <2>5
  <2> QED BY <2>6, Zenon DEF objs, Granted, Target, s
<1> QED BY <1>1, RegisteredInvariant, PTL
=============================================================================
