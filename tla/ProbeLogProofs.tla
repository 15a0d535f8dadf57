--------------------------- MODULE ProbeLogProofs ---------------------------
(***************************************************************************)
(* Theorems about ProbeLogWindow, for any sources, lines, limits and       *)
(* bounds: a collection counts no record twice, keeps all it reads, and    *)
(* returns settled only what one unbroken log shows.                       *)
(***************************************************************************)
EXTENDS ProbeLogWindow, SelectionProofs

-----------------------------------------------------------------------------
(* Snapshots                                                               *)

\* What every snapshot of s is: the lines of its log from some place on.
IsSnapshot(s, snap) ==
    /\ snap.offset \in Nat /\ snap.content \in Seq(Lines \cup {Other})
    /\ start[s] + snap.offset + Len(snap.content) <= Len(log[s])
    /\ \A i \in 1..Len(snap.content) : snap.content[i] = log[s][start[s] + snap.offset + i]

\* A part of a sequence, by places.
LEMMA Slice ==
  ASSUME NEW T, NEW q \in Seq(T), NEW a \in Nat, NEW b \in Nat, a <= b, b <= Len(q)
  PROVE  /\ SubSeq(q, a + 1, b) \in Seq(T) /\ Len(SubSeq(q, a + 1, b)) = b - a
         /\ \A i \in 1..b - a : SubSeq(q, a + 1, b)[i] = q[a + i]
<1>1. Len(q) \in Nat /\ \A i \in 1..Len(q) : q[i] \in T
  BY LenProperties, ElementOfSeq
<1>2. \A i \in a + 1 .. b : q[i] \in T
  BY <1>1
<1>3. /\ SubSeq(q, a + 1, b) \in Seq(T)
      /\ Len(SubSeq(q, a + 1, b)) = IF a + 1 <= b THEN b - (a + 1) + 1 ELSE 0
      /\ \A i \in 1..b - (a + 1) + 1 : SubSeq(q, a + 1, b)[i] = q[(a + 1) + i - 1]
  BY <1>2, SubSeqProperties
<1>4. b - (a + 1) + 1 = b - a /\ (~(a + 1 <= b) => b - a = 0)
  OBVIOUS
<1>5. \A i \in 1..b - a : (a + 1) + i - 1 = a + i
  OBVIOUS
<1> QED BY <1>3, <1>4, <1>5

\* The part of a log that is still there is a sequence of its lines.
LEMMA VisiblePlaces ==
  ASSUME TypeOK, LogBounds, NEW s \in Sources
  PROVE  /\ Visible(s) \in Seq(Lines \cup {Other})
         /\ Len(Visible(s)) = Len(log[s]) - start[s] /\ Len(Visible(s)) \in Nat
         /\ Len(log[s]) \in Nat /\ start[s] \in Nat
         /\ \A i \in 1..Len(Visible(s)) : Visible(s)[i] = log[s][start[s] + i]
<1>1. log[s] \in Seq(Lines \cup {Other}) /\ start[s] \in Nat /\ start[s] <= Len(log[s])
  BY DEF TypeOK, LogBounds
<1>2. Len(log[s]) \in Nat
  BY <1>1, LenProperties
<1>3. /\ SubSeq(log[s], start[s] + 1, Len(log[s])) \in Seq(Lines \cup {Other})
      /\ Len(SubSeq(log[s], start[s] + 1, Len(log[s]))) = Len(log[s]) - start[s]
      /\ \A i \in 1..Len(log[s]) - start[s] :
           SubSeq(log[s], start[s] + 1, Len(log[s]))[i] = log[s][start[s] + i]
  BY <1>1, <1>2, Slice
<1>4. Len(log[s]) - start[s] \in Nat
  BY <1>1, <1>2
<1> QED BY <1>1, <1>2, <1>3, <1>4 DEF Visible

\* A part of what is still there, from one of its places on, is a snapshot.
LEMMA PartIsSnapshot ==
  ASSUME TypeOK, LogBounds, NEW s \in Sources, NEW snap,
         NEW a \in Nat, NEW b \in Nat, a <= b, b <= Len(Visible(s)),
         snap.offset = a, snap.content = SubSeq(Visible(s), a + 1, b)
  PROVE  IsSnapshot(s, snap) /\ Len(snap.content) = b - a
<1>1. /\ Visible(s) \in Seq(Lines \cup {Other})
      /\ Len(Visible(s)) = Len(log[s]) - start[s] /\ Len(Visible(s)) \in Nat
      /\ Len(log[s]) \in Nat /\ start[s] \in Nat
      /\ \A i \in 1..Len(Visible(s)) : Visible(s)[i] = log[s][start[s] + i]
  BY VisiblePlaces
<1>2. /\ snap.content \in Seq(Lines \cup {Other}) /\ Len(snap.content) = b - a
      /\ \A i \in 1..b - a : snap.content[i] = Visible(s)[a + i]
  BY <1>1, Slice
<1>3. start[s] + snap.offset + Len(snap.content) <= Len(log[s])
  BY <1>1, <1>2
<1>4. ASSUME NEW i \in 1..b - a PROVE snap.content[i] = log[s][start[s] + snap.offset + i]
  <2>1. a + i \in 1..Len(Visible(s)) /\ start[s] + (a + i) = start[s] + a + i
    BY <1>1
  <2> QED BY <1>1, <1>2, <2>1
<1> QED BY <1>2, <1>3, <1>4 DEF IsSnapshot

\* What the reader of a mounted file brings is a snapshot, and where it starts is
\* a place the file has.
LEMMA FileIsSnapshot ==
  ASSUME TypeOK, LogBounds, NEW s \in Sources
  PROVE  IsSnapshot(s, FileSnapshot(s)) /\ OffsetOf(s) \in 0..MaxLog
<1>1. /\ Len(Visible(s)) \in Nat /\ fileOffset \in Nat /\ fileOffset <= MaxLog
      /\ ReadLimit \in Nat /\ MaxLog \in Nat
  BY VisiblePlaces, LimitAssumption DEF TypeOK
<1>2. Info(s).size = Len(Visible(s))
  BY DEF Info
<1>3. OffsetOf(s) \in Nat /\ OffsetOf(s) <= Len(Visible(s)) /\ OffsetOf(s) <= MaxLog
  BY <1>1, <1>2 DEF OffsetOf
<1>4. SeekTo(s) \in Nat /\ SeekTo(s) <= Len(Visible(s))
  BY <1>1, <1>2, <1>3 DEF SeekTo
<1>5. /\ FileSnapshot(s).offset = SeekTo(s)
      /\ FileSnapshot(s).content = SubSeq(Visible(s), SeekTo(s) + 1, Len(Visible(s)))
  BY <1>2 DEF FileSnapshot
<1>6. IsSnapshot(s, FileSnapshot(s))
  <2> DEFINE a == SeekTo(s)
             b == Len(Visible(s))
             snap == FileSnapshot(s)
  <2>1. a \in Nat /\ b \in Nat /\ a <= b /\ b <= Len(Visible(s))
    BY <1>1, <1>4
  <2>2. snap.offset = a /\ snap.content = SubSeq(Visible(s), a + 1, b)
    BY <1>5
  <2> HIDE DEF a, b, snap
  <2>3. IsSnapshot(s, snap)
    BY <2>1, <2>2, PartIsSnapshot
  <2> QED BY <2>3 DEF snap
<1> QED BY <1>1, <1>3, <1>6

\* What the stream of a Pod's log brings is a snapshot, however far it came.
LEMMA PodIsSnapshot ==
  ASSUME TypeOK, LogBounds, NEW s \in Sources, NEW n \in 0..Len(Visible(s))
  PROVE  IsSnapshot(s, PodSnapshot(s, n)) /\ PodSnapshot(s, n).offset = 0
<1>1. Len(Visible(s)) \in Nat /\ ReadLimit \in Nat
  BY VisiblePlaces, LimitAssumption
<1> DEFINE m == IF n < ReadLimit THEN n ELSE ReadLimit
<1>2. m \in Nat /\ 0 <= m /\ m <= Len(Visible(s))
  BY <1>1
<1>3. /\ PodSnapshot(s, n).offset = 0
      /\ PodSnapshot(s, n).content = SubSeq(Visible(s), 1, m)
  BY DEF PodSnapshot
<1> HIDE DEF m
<1>4. IsSnapshot(s, PodSnapshot(s, n))
  BY <1>1, <1>2, <1>3, PartIsSnapshot
<1> QED BY <1>3, <1>4

-----------------------------------------------------------------------------
(* The keys of a snapshot                                                  *)

\* How many of the lines up to the i-th of a snapshot are equal to it.
EqualUpTo(snap, i) == {j \in 1..i : snap.content[j] = snap.content[i]}

\* The places of a snapshot's records are finitely many, and records are lines.
LEMMA RecordsArePlaces ==
  ASSUME NEW s, NEW snap, IsSnapshot(s, snap)
  PROVE  /\ Records(snap) \in SUBSET Nat /\ IsFiniteSet(Records(snap))
         /\ Len(snap.content) \in Nat /\ DOMAIN snap.content = 1..Len(snap.content)
         /\ \A i \in Records(snap) : i \in 1..Len(snap.content) /\ snap.content[i] \in Lines
<1>1. snap.content \in Seq(Lines \cup {Other})
  BY DEF IsSnapshot
<1>2. Len(snap.content) \in Nat /\ DOMAIN snap.content = 1..Len(snap.content)
  BY <1>1, LenProperties
<1>3. \A i \in 1..Len(snap.content) : snap.content[i] \in Lines \cup {Other}
  BY <1>1, <1>2, ElementOfSeq
<1>4. Records(snap) \in SUBSET (1..Len(snap.content))
  BY <1>2 DEF Records
<1>5. IsFiniteSet(1..Len(snap.content))
  BY <1>2, FS_Interval
<1>6. IsFiniteSet(Records(snap))
  BY <1>4, <1>5, FS_Subset
<1>7. \A i \in Records(snap) : i \in 1..Len(snap.content) /\ snap.content[i] # Other
  BY <1>2 DEF Records
<1> QED BY <1>2, <1>3, <1>4, <1>6, <1>7

\* Of two equal lines the later one has more equal lines up to it.
LEMMA EqualsGrow ==
  ASSUME NEW snap, NEW i \in Nat \ {0}, NEW j \in Nat \ {0}, i < j,
         snap.content[i] = snap.content[j]
  PROVE  Cardinality(EqualUpTo(snap, i)) < Cardinality(EqualUpTo(snap, j))
<1> DEFINE S == EqualUpTo(snap, j)
<1>1. S \in SUBSET Nat /\ S \in SUBSET (1..j) /\ i \in S /\ j \in S
  BY DEF EqualUpTo
<1>2. IsFiniteSet(S)
  <2>1. IsFiniteSet(1..j)
    BY FS_Interval
  <2> QED BY <1>1, <2>1, FS_Subset
<1>3. {m \in S : m <= i} = EqualUpTo(snap, i) /\ {m \in S : m <= j} = S
  BY DEF EqualUpTo
<1> HIDE DEF S
<1>4. Cardinality({m \in S : m <= i}) < Cardinality({m \in S : m <= j})
  BY <1>1, <1>2, RankStrict
<1> QED BY <1>3, <1>4 DEF S

\* The number of equal lines up to a place is a positive number.
LEMMA EqualsCounted ==
  ASSUME NEW snap, NEW i \in Nat \ {0}
  PROVE  IsFiniteSet(EqualUpTo(snap, i)) /\ Cardinality(EqualUpTo(snap, i)) \in Nat \ {0}
<1>1. IsFiniteSet(1..i)
  BY FS_Interval
<1>2. EqualUpTo(snap, i) \in SUBSET (1..i) /\ i \in EqualUpTo(snap, i)
  BY DEF EqualUpTo
<1>3. IsFiniteSet(EqualUpTo(snap, i))
  BY <1>1, <1>2, FS_Subset
<1>4. Cardinality(EqualUpTo(snap, i)) \in Nat
  BY <1>3, FS_CardinalityType
<1>5. Cardinality(EqualUpTo(snap, i)) # 0
  BY <1>2, <1>3, FS_EmptySet
<1> QED BY <1>3, <1>4, <1>5

\* The key of a record: its line, and either its place or its rank among equals.
LEMMA OccurrenceFields ==
  ASSUME NEW s, NEW snap, IsSnapshot(s, snap), NEW g \in Nat, NEW i \in Records(snap)
  PROVE  /\ Occurrence(snap, g, i) \in Keys /\ Occurrence(snap, g, i).line = snap.content[i]
         /\ FileBacked => /\ Occurrence(snap, g, i).generation = g
                          /\ Occurrence(snap, g, i).place = snap.offset + i
         /\ ~FileBacked => /\ Occurrence(snap, g, i).generation = 0
                           /\ Occurrence(snap, g, i).place = Cardinality(EqualUpTo(snap, i))
<1>1. i \in Nat \ {0} /\ snap.content[i] \in Lines
  BY RecordsArePlaces
<1>2. snap.offset + i \in Nat
  BY <1>1 DEF IsSnapshot
<1>3. Cardinality(EqualUpTo(snap, i)) \in Nat
  BY <1>1, EqualsCounted
<1>4. CASE FileBacked
  <2>1. Occurrence(snap, g, i) = Key(g, snap.offset + i, snap.content[i])
    BY <1>4 DEF Occurrence
  <2> QED BY <1>1, <1>2, <1>4, <2>1 DEF Key, Keys
<1>5. CASE ~FileBacked
  <2>1. Occurrence(snap, g, i) = Key(0, Cardinality(EqualUpTo(snap, i)), snap.content[i])
    BY <1>5 DEF Occurrence, EqualUpTo
  <2> QED BY <1>1, <1>3, <1>5, <2>1 DEF Key, Keys
<1> QED BY <1>4, <1>5

\* The records of a snapshot have different keys.
LEMMA OccurrencesDiffer ==
  ASSUME NEW s, NEW snap, IsSnapshot(s, snap), NEW g \in Nat,
         NEW i \in Records(snap), NEW j \in Records(snap),
         Occurrence(snap, g, i) = Occurrence(snap, g, j)
  PROVE  i = j
<1>1. i \in Nat \ {0} /\ j \in Nat \ {0}
  BY RecordsArePlaces
<1>fields. \A m \in Records(snap) :
         /\ Occurrence(snap, g, m).line = snap.content[m]
         /\ FileBacked => Occurrence(snap, g, m).place = snap.offset + m
         /\ ~FileBacked => Occurrence(snap, g, m).place = Cardinality(EqualUpTo(snap, m))
  BY OccurrenceFields
<1>2. snap.content[i] = snap.content[j]
  BY <1>fields, Zenon
<1>3. CASE FileBacked
  <2>1. snap.offset + i = snap.offset + j
    BY <1>3, <1>fields, Zenon
  <2>2. snap.offset \in Nat
    BY DEF IsSnapshot
  <2> QED BY <1>1, <2>1, <2>2
<1>4. CASE ~FileBacked
  <2>1. Cardinality(EqualUpTo(snap, i)) = Cardinality(EqualUpTo(snap, j))
    BY <1>4, <1>fields, Zenon
  <2>2. /\ i < j => Cardinality(EqualUpTo(snap, i)) < Cardinality(EqualUpTo(snap, j))
        /\ j < i => Cardinality(EqualUpTo(snap, j)) < Cardinality(EqualUpTo(snap, i))
    BY <1>1, <1>2, EqualsGrow
  <2>3. Cardinality(EqualUpTo(snap, i)) \in Nat
    BY <1>1, EqualsCounted
  <2> QED BY <1>1, <2>1, <2>2, <2>3
<1> QED BY <1>3, <1>4

\* The keys of a snapshot are different, in the order of its records, and carry
\* the records' lines.
LEMMA KeysOfSnapshot ==
  ASSUME NEW s, NEW snap, IsSnapshot(s, snap), NEW g \in Nat
  PROVE  /\ KeysOf(snap, g) \in Seq(Keys) /\ IsInjective(KeysOf(snap, g))
         /\ ToSet(KeysOf(snap, g)) = {Occurrence(snap, g, i) : i \in Records(snap)}
         /\ At(snap.content, Records(snap)) \in Seq(Lines)
         /\ At(snap.content, Records(snap))
              = [n \in DOMAIN KeysOf(snap, g) |-> KeysOf(snap, g)[n].line]
<1> DEFINE R == Records(snap)
           seq == [i \in DOMAIN snap.content |-> Occurrence(snap, g, i)]
<1>1. /\ R \in SUBSET Nat /\ IsFiniteSet(R) /\ R \in SUBSET DOMAIN snap.content
      /\ \A i \in R : snap.content[i] \in Lines
  BY RecordsArePlaces
<1>2. \A i \in R : seq[i] = Occurrence(snap, g, i)
  BY <1>1
<1>3. \A i \in R : Occurrence(snap, g, i) \in Keys /\ Occurrence(snap, g, i).line = snap.content[i]
  BY OccurrenceFields
<1>4. \A i, j \in R : Occurrence(snap, g, i) = Occurrence(snap, g, j) => i = j
  BY OccurrencesDiffer
<1>5. KeysOf(snap, g) = At(seq, R)
  BY DEF KeysOf
<1> HIDE DEF seq, R
<1>6. /\ \A i \in R : seq[i] \in Keys
      /\ \A i, j \in R : seq[i] = seq[j] => i = j
      /\ {seq[i] : i \in R} = {Occurrence(snap, g, i) : i \in R}
  BY <1>2, <1>3, <1>4
<1>7. /\ At(seq, R) \in Seq(Keys) /\ DOMAIN At(seq, R) = 1..Cardinality(R)
      /\ \A n \in 1..Cardinality(R) : At(seq, R)[n] = seq[Nth(R, n)] /\ Nth(R, n) \in R
      /\ ToSet(At(seq, R)) = {seq[i] : i \in R}
  <2>1. \A i \in R : seq[i] \in Keys
    BY <1>6
  <2>2. R \in SUBSET Nat /\ IsFiniteSet(R)
    BY <1>1
  <2>3. /\ At(seq, R) \in Seq(Keys) /\ DOMAIN At(seq, R) = 1..Cardinality(R)
        /\ \A n \in 1..Cardinality(R) : At(seq, R)[n] = seq[Nth(R, n)] /\ Nth(R, n) \in R
    BY <2>1, <2>2, AtIsSeq
  <2>4. ToSet(At(seq, R)) = {seq[i] : i \in R}
    <3>1. \A e : e \in ToSet(At(seq, R)) <=> \E i \in R : seq[i] = e
      <4>1. \A i \in R : \E n \in 1..Cardinality(R) : Nth(R, n) = i
        BY <2>2, NthOrder
      <4>2. \A e : e \in ToSet(At(seq, R)) <=> \E n \in 1..Cardinality(R) : At(seq, R)[n] = e
        BY <2>3 DEF ToSet
      <4> QED BY <2>3, <4>1, <4>2
    <3> QED BY <3>1
  <2> QED BY <2>3, <2>4, Zenon
<1>8. IsInjective(At(seq, R))
  BY <1>1, <1>6, AtInjective
<1>9. At(snap.content, R) \in Seq(Lines)
  BY <1>1, AtIsSeq
<1>10. At(snap.content, R) = [n \in DOMAIN At(seq, R) |-> At(seq, R)[n].line]
  <2>1. At(snap.content, R) = [n \in 1..Cardinality(R) |-> snap.content[Nth(R, n)]]
    BY DEF At
  <2>2. \A n \in 1..Cardinality(R) : At(seq, R)[n].line = snap.content[Nth(R, n)]
    BY <1>2, <1>3, <1>7, Zenon
  <2> QED BY <1>7, <2>1, <2>2, Zenon
<1>11. ToSet(At(seq, R)) = {Occurrence(snap, g, i) : i \in R}
  BY <1>6, <1>7, Zenon
<1>12. /\ KeysOf(snap, g) \in Seq(Keys) /\ IsInjective(KeysOf(snap, g))
       /\ ToSet(KeysOf(snap, g)) = {Occurrence(snap, g, i) : i \in R}
  BY <1>5, <1>7, <1>8, <1>11, Zenon
<1>13. At(snap.content, R) = [n \in DOMAIN KeysOf(snap, g) |-> KeysOf(snap, g)[n].line]
  BY <1>5, <1>10, Zenon
<1> QED BY <1>9, <1>12, <1>13, Zenon DEF R

-----------------------------------------------------------------------------
(* Adding what is new                                                      *)

\* The elements of a sequence that another one does not have.
NotIn(old, seq) == {n \in DOMAIN seq : seq[n] \notin ToSet(old)}

\* A sequence and another one without common elements, each without an element
\* twice, have no element twice when one follows the other.
LEMMA ConcatInjective ==
  ASSUME NEW T, NEW p \in Seq(T), NEW q \in Seq(T), IsInjective(p), IsInjective(q),
         \A e \in ToSet(q) : e \notin ToSet(p)
  PROVE  /\ p \o q \in Seq(T) /\ IsInjective(p \o q)
         /\ \A e : e \in ToSet(p \o q) <=> e \in ToSet(p) \/ e \in ToSet(q)
<1> DEFINE r == p \o q
<1>1. /\ r \in Seq(T) /\ Len(r) = Len(p) + Len(q)
      /\ \A i \in 1..Len(p) + Len(q) : r[i] = IF i <= Len(p) THEN p[i] ELSE q[i - Len(p)]
  BY ConcatProperties
<1>2. /\ Len(p) \in Nat /\ DOMAIN p = 1..Len(p) /\ Len(q) \in Nat /\ DOMAIN q = 1..Len(q)
      /\ DOMAIN r = 1..Len(p) + Len(q)
  BY <1>1, LenProperties
<1> HIDE DEF r
<1>3. /\ \A i \in 1..Len(p) : p[i] \in ToSet(p)
      /\ \A i \in 1..Len(q) : q[i] \in ToSet(q)
      /\ \A i \in 1..Len(p) + Len(q) : r[i] \in ToSet(r)
  BY <1>2 DEF ToSet
<1>4. \A i \in 1..Len(p) : i \in 1..Len(p) + Len(q) /\ r[i] = p[i]
  BY <1>1, <1>2
<1>5. \A i \in 1..Len(q) : i + Len(p) \in 1..Len(p) + Len(q) /\ r[i + Len(p)] = q[i]
  <2> SUFFICES ASSUME NEW i \in 1..Len(q)
               PROVE  i + Len(p) \in 1..Len(p) + Len(q) /\ r[i + Len(p)] = q[i]
    OBVIOUS
  <2>1. i + Len(p) \in 1..Len(p) + Len(q) /\ ~(i + Len(p) <= Len(p)) /\ (i + Len(p)) - Len(p) = i
    BY <1>2
  <2> QED BY <1>1, <2>1
<1>6. \A i \in 1..Len(p) + Len(q) :
         \/ i \in 1..Len(p) /\ r[i] = p[i]
         \/ i - Len(p) \in 1..Len(q) /\ r[i] = q[i - Len(p)] /\ i > Len(p)
  BY <1>1, <1>2
<1>7. \A e : e \in ToSet(r) <=> e \in ToSet(p) \/ e \in ToSet(q)
  <2>1. ASSUME NEW e \in ToSet(r) PROVE e \in ToSet(p) \/ e \in ToSet(q)
    <3>1. PICK i \in 1..Len(p) + Len(q) : r[i] = e
      BY <1>2 DEF ToSet
    <3> QED BY <1>3, <1>6, <3>1
  <2>2. ASSUME NEW e \in ToSet(p) PROVE e \in ToSet(r)
    <3>1. PICK i \in 1..Len(p) : p[i] = e
      BY <1>2 DEF ToSet
    <3> QED BY <1>3, <1>4, <3>1
  <2>3. ASSUME NEW e \in ToSet(q) PROVE e \in ToSet(r)
    <3>1. PICK i \in 1..Len(q) : q[i] = e
      BY <1>2 DEF ToSet
    <3> QED BY <1>3, <1>5, <3>1
  <2> QED BY <2>1, <2>2, <2>3
<1>8. ASSUME NEW i \in 1..Len(p) + Len(q), NEW j \in 1..Len(p) + Len(q), r[i] = r[j] PROVE i = j
  <2>1. \A m, n \in 1..Len(p) : p[m] = p[n] => m = n
    BY <1>2 DEF IsInjective
  <2>2. \A m, n \in 1..Len(q) : q[m] = q[n] => m = n
    BY <1>2 DEF IsInjective
  <2>3. \A m \in 1..Len(p), n \in 1..Len(q) : p[m] # q[n]
    BY <1>3
  <2>4. CASE i \in 1..Len(p) /\ j \in 1..Len(p)
    BY <1>4, <1>8, <2>1, <2>4
  <2>5. CASE i \notin 1..Len(p) /\ j \notin 1..Len(p)
    <3>1. i - Len(p) = j - Len(p)
      BY <1>6, <1>8, <2>2, <2>5
    <3> QED BY <1>2, <3>1
  <2>6. CASE i \in 1..Len(p) /\ j \notin 1..Len(p)
    BY <1>4, <1>6, <1>8, <2>3, <2>6
  <2>7. CASE i \notin 1..Len(p) /\ j \in 1..Len(p)
    BY <1>4, <1>6, <1>8, <2>3, <2>7
  <2> QED BY <2>4, <2>5, <2>6, <2>7
<1>9. IsInjective(r)
  BY <1>2, <1>8 DEF IsInjective
<1> QED BY <1>1, <1>7, <1>9 DEF r

\* Adding to a sequence the elements of another that it does not have: none is
\* there twice, and all of both are there.
LEMMA AddNew ==
  ASSUME NEW T, NEW old \in Seq(T), NEW keys \in Seq(T), IsInjective(old), IsInjective(keys)
  PROVE  /\ At(keys, NotIn(old, keys)) \in Seq(T)
         /\ old \o At(keys, NotIn(old, keys)) \in Seq(T)
         /\ IsInjective(old \o At(keys, NotIn(old, keys)))
         /\ \A e : e \in ToSet(old \o At(keys, NotIn(old, keys)))
                     <=> e \in ToSet(old) \/ e \in ToSet(keys)
<1> DEFINE N == NotIn(old, keys)
           new == At(keys, N)
<1>1. Len(keys) \in Nat /\ DOMAIN keys = 1..Len(keys) /\ \A n \in 1..Len(keys) : keys[n] \in T
  BY LenProperties, ElementOfSeq
<1>2. N \in SUBSET (1..Len(keys)) /\ N \in SUBSET Nat
  BY <1>1 DEF NotIn
<1>3. IsFiniteSet(N)
  <2>1. IsFiniteSet(1..Len(keys))
    BY <1>1, FS_Interval
  <2> QED BY <1>2, <2>1, FS_Subset
<1>4. \A n \in N : keys[n] \notin ToSet(old) /\ n \in DOMAIN keys
  BY DEF NotIn
<1>5. \A n \in DOMAIN keys : n \in N \/ keys[n] \in ToSet(old)
  BY DEF NotIn
<1>6. \A m, n \in N : keys[m] = keys[n] => m = n
  BY <1>4 DEF IsInjective
<1> HIDE DEF N
<1>7. new \in Seq(T) /\ \A e : e \in ToSet(new) <=> \E n \in N : keys[n] = e
  BY <1>1, <1>2, <1>3, AtIsSeq
<1>8. IsInjective(new)
  BY <1>2, <1>3, <1>6, AtInjective
<1> HIDE DEF new
<1>9. \A e \in ToSet(new) : e \notin ToSet(old)
  BY <1>4, <1>7
<1>10. /\ old \o new \in Seq(T) /\ IsInjective(old \o new)
       /\ \A e : e \in ToSet(old \o new) <=> e \in ToSet(old) \/ e \in ToSet(new)
  BY <1>7, <1>8, <1>9, ConcatInjective
<1>11. \A e : e \in ToSet(old) \/ e \in ToSet(new) <=> e \in ToSet(old) \/ e \in ToSet(keys)
  <2>1. \A e \in ToSet(keys) : \E n \in DOMAIN keys : keys[n] = e
    BY DEF ToSet
  <2>2. \A n \in DOMAIN keys : keys[n] \in ToSet(keys)
    BY DEF ToSet
  <2> QED BY <1>4, <1>5, <1>7, <2>1, <2>2
<1>12. \A e : e \in ToSet(old \o new) <=> e \in ToSet(old) \/ e \in ToSet(keys)
  BY <1>10, <1>11, Zenon
<1> QED BY <1>7, <1>10, <1>12 DEF new, N

\* If the second sequence begins with the first, adding what is new gives the second.
LEMMA AddNewToPrefix ==
  ASSUME NEW T, NEW old \in Seq(T), NEW keys \in Seq(T), IsInjective(keys), IsPrefix(old, keys)
  PROVE  old \o At(keys, NotIn(old, keys)) = keys
<1>1. /\ Len(keys) \in Nat /\ DOMAIN keys = 1..Len(keys) /\ \A n \in 1..Len(keys) : keys[n] \in T
      /\ Len(old) \in Nat /\ DOMAIN old = 1..Len(old) /\ \A n \in 1..Len(old) : old[n] \in T
  BY LenProperties, ElementOfSeq
<1>2. Len(old) <= Len(keys) /\ SubSeq(old, 1, Len(old)) = SubSeq(keys, 1, Len(old))
  BY DEF IsPrefix
<1>3. \A i \in 1..Len(old) : old[i] = keys[i]
  <2>1. \A i \in 1..Len(old) : SubSeq(old, 0 + 1, Len(old))[i] = old[0 + i]
    <3>1. \A i \in 1..Len(old) - 0 : SubSeq(old, 0 + 1, Len(old))[i] = old[0 + i]
      BY <1>1, Slice
    <3> QED BY <1>1, <3>1
  <2>2. \A i \in 1..Len(old) : SubSeq(keys, 0 + 1, Len(old))[i] = keys[0 + i]
    <3>1. \A i \in 1..Len(old) - 0 : SubSeq(keys, 0 + 1, Len(old))[i] = keys[0 + i]
      BY <1>1, <1>2, Slice
    <3> QED BY <1>1, <3>1
  <2>3. 0 + 1 = 1 /\ \A i \in 1..Len(old) : 0 + i = i
    BY <1>1
  <2> QED BY <1>2, <2>1, <2>2, <2>3
<1> DEFINE N == NotIn(old, keys)
           new == At(keys, N)
<1>4. N = Len(old) + 1 .. Len(keys)
  <2>1. \A n \in 1..Len(keys) : keys[n] \in ToSet(old) <=> n <= Len(old)
    <3>1. ASSUME NEW n \in 1..Len(keys), keys[n] \in ToSet(old) PROVE n <= Len(old)
      <4>1. PICK i \in 1..Len(old) : old[i] = keys[n]
        BY <1>1, <3>1 DEF ToSet
      <4>2. i \in 1..Len(keys) /\ keys[i] = keys[n]
        BY <1>1, <1>2, <1>3, <4>1
      <4>3. i = n
        BY <1>1, <4>2 DEF IsInjective
      <4> QED BY <4>3
    <3>2. ASSUME NEW n \in 1..Len(keys), n <= Len(old) PROVE keys[n] \in ToSet(old)
      <4>1. n \in 1..Len(old)
        BY <1>1, <3>2
      <4> QED BY <1>1, <1>3, <4>1 DEF ToSet
    <3> QED BY <3>1, <3>2
  <2>2. N = {n \in 1..Len(keys) : keys[n] \notin ToSet(old)}
    BY <1>1 DEF NotIn
  <2> HIDE DEF N
  <2>3. \A n : n \in N <=> n \in Len(old) + 1 .. Len(keys)
    BY <1>1, <2>1, <2>2
  <2> QED BY <2>3
<1>5. Cardinality(N) = Len(keys) - Len(old) /\ IsFiniteSet(N) /\ N \in SUBSET Nat
  <2> HIDE DEF N
  <2>1. /\ IsFiniteSet(Len(old) + 1 .. Len(keys))
        /\ Cardinality(Len(old) + 1 .. Len(keys))
             = IF Len(old) + 1 > Len(keys) THEN 0 ELSE Len(keys) - (Len(old) + 1) + 1
    <3>1. Len(old) + 1 \in Int /\ Len(keys) \in Int
      BY <1>1
    <3> QED BY ONLY <3>1, FS_Interval
  <2>2. Cardinality(Len(old) + 1 .. Len(keys)) = Len(keys) - Len(old)
    BY <1>1, <1>2, <2>1
  <2>3. Len(old) + 1 .. Len(keys) \in SUBSET Nat
    BY <1>1
  <2> QED BY <1>4, <2>1, <2>2, <2>3, Zenon
<1>6. \A m \in 1..Len(keys) - Len(old) : Nth(N, m) = Len(old) + m
  <2> HIDE DEF N
  <2>1. \A m \in 1..Len(keys) - Len(old) : Nth(Len(old) + 1 .. Len(keys), m) = Len(old) + m
    BY <1>1, <1>2, NthInterval
  <2> QED BY <1>4, <2>1, Zenon
<1> HIDE DEF N
<1>7. /\ new \in Seq(T) /\ Len(new) = Len(keys) - Len(old)
      /\ \A m \in 1..Len(keys) - Len(old) : new[m] = keys[Len(old) + m]
  <2>1. \A n \in N : keys[n] \in T
    BY <1>1, <1>4
  <2>2. /\ new \in Seq(T) /\ Len(new) = Cardinality(N)
        /\ \A m \in 1..Cardinality(N) : new[m] = keys[Nth(N, m)]
    BY <1>5, <2>1, AtIsSeq
  <2> HIDE DEF new
  <2> QED BY <1>5, <1>6, <2>2
<1> HIDE DEF new
<1>8. /\ old \o new \in Seq(T) /\ Len(old \o new) = Len(keys)
      /\ \A i \in 1..Len(keys) : (old \o new)[i] = keys[i]
  <2>1. Len(old) + Len(new) = Len(keys)
    BY <1>1, <1>2, <1>7
  <2>2. /\ old \o new \in Seq(T) /\ Len(old \o new) = Len(keys)
        /\ \A i \in 1..Len(keys) :
             (old \o new)[i] = IF i <= Len(old) THEN old[i] ELSE new[i - Len(old)]
    BY <1>7, <2>1, ConcatProperties
  <2>3. \A i \in 1..Len(keys) : ~(i <= Len(old)) =>
           i - Len(old) \in 1..Len(keys) - Len(old) /\ Len(old) + (i - Len(old)) = i
    BY <1>1
  <2>4. \A i \in 1..Len(keys) : i <= Len(old) => i \in 1..Len(old)
    BY <1>1
  <2> QED BY <1>3, <1>7, <2>2, <2>3, <2>4
<1>9. old \o new = keys
  BY <1>8, SeqEqual
<1> QED BY <1>9 DEF new, N

-----------------------------------------------------------------------------
(* One read, source by source                                              *)

\* The read brought snapshot snap of source s, or nothing of it.
Took(s, snap) ==
    /\ IsSnapshot(s, snap)
    /\ ~FileBacked => snap.offset = 0
    /\ hops'[s] = hops[s] \o NewKeys(s, snap)
    /\ previous'[s] = KeysRead(s, snap)
    /\ generation'[s] = GenerationOf(s)
    /\ lastRead'[s] = At(snap.content, Records(snap))
    /\ fileInfo'[s] = IF FileBacked THEN Info(s) ELSE fileInfo[s]
    /\ issues' \cap Breaking = {} => Continues(s, KeysRead(s, snap))
LeftAlone(s) ==
    /\ hops'[s] = hops[s] /\ previous'[s] = previous[s] /\ generation'[s] = generation[s]
    /\ lastRead'[s] = lastRead[s] /\ fileInfo'[s] = fileInfo[s]

\* What one read changes for all sources.
Overall ==
    /\ DOMAIN hops' = Sources /\ DOMAIN previous' = Sources /\ DOMAIN generation' = Sources
    /\ DOMAIN lastRead' = Sources /\ DOMAIN fileInfo' = Sources
    /\ hops' = [s \in Sources |-> hops'[s]] /\ previous' = [s \in Sources |-> previous'[s]]
    /\ generation' = [s \in Sources |-> generation'[s]]
    /\ lastRead' = [s \in Sources |-> lastRead'[s]] /\ fileInfo' = [s \in Sources |-> fileInfo'[s]]
    /\ issues \subseteq issues' /\ issues' \subseteq issues \cup Breaking
    /\ changed' \in BOOLEAN /\ lastChange' \in {lastChange, now}
    /\ ~changed' => lastChange' = lastChange

\* merge takes the snapshots it is given and leaves the other sources alone.
LEMMA MergeTakes ==
  ASSUME TypeOK, NEW snaps, DOMAIN snaps \subseteq Sources, Merge(snaps)
  PROVE  /\ Overall
         /\ \A s \in Sources : s \notin DOMAIN snaps => LeftAlone(s)
         /\ \A s \in DOMAIN snaps :
              (IsSnapshot(s, snaps[s]) /\ (~FileBacked => snaps[s].offset = 0)) => Took(s, snaps[s])
<1> DEFINE D == DOMAIN snaps
<1>1. /\ hops' = [s \in Sources |-> IF s \in D THEN hops[s] \o NewKeys(s, snaps[s]) ELSE hops[s]]
      /\ previous' = [s \in Sources |-> IF s \in D THEN KeysRead(s, snaps[s]) ELSE previous[s]]
      /\ generation' = [s \in Sources |-> IF s \in D THEN GenerationOf(s) ELSE generation[s]]
  BY DEF Merge
<1>2. /\ lastRead' = [s \in Sources |-> IF s \in D THEN At(snaps[s].content, Records(snaps[s]))
                                        ELSE lastRead[s]]
      /\ fileInfo' = IF FileBacked THEN [s \in Sources |-> IF s \in D THEN Info(s) ELSE fileInfo[s]]
                     ELSE fileInfo
  BY DEF Merge
<1>3. /\ changed' = (\E s \in D : NewKeys(s, snaps[s]) # <<>>)
      /\ lastChange' = IF changed' THEN now ELSE lastChange
  BY DEF Merge
<1>4. /\ issues \subseteq issues' /\ issues' \subseteq issues \cup Breaking
      /\ \A s \in D : ~Continues(s, KeysRead(s, snaps[s])) => "log-order-unconfirmed" \in issues'
  BY DEF Merge, Breaking
<1>5. fileInfo = [s \in Sources |-> fileInfo[s]]
  BY DEF TypeOK
<1>6. Overall
  <2>1. /\ hops' = [s \in Sources |-> hops'[s]] /\ previous' = [s \in Sources |-> previous'[s]]
        /\ generation' = [s \in Sources |-> generation'[s]]
    BY <1>1
  <2>2. lastRead' = [s \in Sources |-> lastRead'[s]] /\ fileInfo' = [s \in Sources |-> fileInfo'[s]]
    BY <1>2, <1>5
  <2>3. /\ DOMAIN hops' = Sources /\ DOMAIN previous' = Sources /\ DOMAIN generation' = Sources
        /\ DOMAIN lastRead' = Sources /\ DOMAIN fileInfo' = Sources
    BY <2>1, <2>2
  <2>4. changed' \in BOOLEAN /\ lastChange' \in {lastChange, now}
    BY <1>3
  <2>5. ~changed' => lastChange' = lastChange
    BY <1>3
  <2> QED BY <1>4, <2>1, <2>2, <2>3, <2>4, <2>5 DEF Overall
<1>7. ASSUME NEW s \in Sources, s \notin D PROVE LeftAlone(s)
  <2>1. hops'[s] = hops[s] /\ previous'[s] = previous[s] /\ generation'[s] = generation[s]
    BY <1>1, <1>7
  <2>2. lastRead'[s] = lastRead[s] /\ fileInfo'[s] = fileInfo[s]
    BY <1>2, <1>7
  <2> QED BY <2>1, <2>2 DEF LeftAlone
<1>8. ASSUME NEW s \in D, IsSnapshot(s, snaps[s]), ~FileBacked => snaps[s].offset = 0
      PROVE  Took(s, snaps[s])
  <2>1. s \in Sources
    OBVIOUS
  <2>2. /\ hops'[s] = hops[s] \o NewKeys(s, snaps[s]) /\ previous'[s] = KeysRead(s, snaps[s])
        /\ generation'[s] = GenerationOf(s)
    BY <1>1, <2>1
  <2>3. /\ lastRead'[s] = At(snaps[s].content, Records(snaps[s]))
        /\ fileInfo'[s] = IF FileBacked THEN Info(s) ELSE fileInfo[s]
    BY <1>2, <2>1
  <2>4. issues' \cap Breaking = {} => Continues(s, KeysRead(s, snaps[s]))
    BY <1>4 DEF Breaking
  <2> QED BY <1>8, <2>2, <2>3, <2>4 DEF Took
<1> QED BY <1>6, <1>7, <1>8

\* Every source's part of a read is one snapshot or nothing.
LEMMA ReadTakes ==
  ASSUME TypeOK, LogBounds, Read
  PROVE  /\ Overall /\ failed' \in BOOLEAN /\ fileOffset' \in 0..MaxLog
         /\ \A s \in Sources : LeftAlone(s) \/ \E snap : Took(s, snap)
<1>1. CASE FileBacked /\ failed' = FALSE
  <2>1. /\ \E s \in Sources : fileOffset' = OffsetOf(s)
        /\ Merge([s \in Sources |-> FileSnapshot(s)])
    BY <1>1 DEF Read
  <2> DEFINE snaps == [s \in Sources |-> FileSnapshot(s)]
  <2>2. DOMAIN snaps = Sources /\ Merge(snaps) /\ \A s \in Sources : snaps[s] = FileSnapshot(s)
    BY <2>1
  <2>3. \A s \in Sources : IsSnapshot(s, FileSnapshot(s)) /\ OffsetOf(s) \in 0..MaxLog
    BY FileIsSnapshot
  <2> HIDE DEF snaps
  <2>4. \A s \in Sources : IsSnapshot(s, snaps[s])
    BY <2>2, <2>3
  <2>5. Overall /\ \A s \in Sources : Took(s, snaps[s])
    BY <1>1, <2>2, <2>4, MergeTakes
  <2>6. fileOffset' \in 0..MaxLog
    BY <2>1, <2>3
  <2> QED BY <1>1, <2>5, <2>6
<1>2. CASE FileBacked /\ failed' # FALSE
  <2>1. failed' = TRUE /\ changed' = FALSE /\ UNCHANGED <<cache, issues>>
    BY <1>2 DEF Read
  <2>2. \A s \in Sources : LeftAlone(s)
    BY <2>1 DEF LeftAlone, cache
  <2>3. Overall
    BY <2>1 DEF Overall, cache, TypeOK
  <2>4. fileOffset' \in 0..MaxLog
    BY <2>1 DEF cache, TypeOK
  <2> QED BY <2>1, <2>2, <2>3, <2>4
<1>3. CASE ~FileBacked
  <2>bad. PICK bad \in SUBSET Sources : \E cut \in SUBSET bad : \E n \in [cut -> 0..MaxLog] :
          /\ \A s \in cut : n[s] <= Len(Visible(s))
          /\ failed' = (bad # {})
          /\ Merge([s \in (Sources \ bad) \cup cut |->
                     PodSnapshot(s, IF s \in cut THEN n[s] ELSE Len(Visible(s)))])
          /\ UNCHANGED fileOffset
    BY <1>3, Zenon DEF Read
  <2>cut. PICK cut \in SUBSET bad : \E n \in [cut -> 0..MaxLog] :
          /\ \A s \in cut : n[s] <= Len(Visible(s))
          /\ failed' = (bad # {})
          /\ Merge([s \in (Sources \ bad) \cup cut |->
                     PodSnapshot(s, IF s \in cut THEN n[s] ELSE Len(Visible(s)))])
          /\ UNCHANGED fileOffset
    BY <2>bad, Zenon
  <2>1. PICK n \in [cut -> 0..MaxLog] :
          /\ \A s \in cut : n[s] <= Len(Visible(s))
          /\ failed' = (bad # {})
          /\ Merge([s \in (Sources \ bad) \cup cut |->
                     PodSnapshot(s, IF s \in cut THEN n[s] ELSE Len(Visible(s)))])
          /\ UNCHANGED fileOffset
    BY <2>cut, Zenon
  <2> DEFINE D == (Sources \ bad) \cup cut
             len(s) == IF s \in cut THEN n[s] ELSE Len(Visible(s))
             snaps == [s \in D |-> PodSnapshot(s, len(s))]
  <2>2. D \subseteq Sources /\ DOMAIN snaps = D /\ Merge(snaps)
    BY <2>1
  <2>3. \A s \in D : snaps[s] = PodSnapshot(s, len(s))
    OBVIOUS
  <2>4. ASSUME NEW s \in D PROVE len(s) \in 0..Len(Visible(s))
    <3>1. Len(Visible(s)) \in Nat /\ MaxLog \in Nat
      BY <2>2, VisiblePlaces, LimitAssumption
    <3> QED BY <2>1, <3>1
  <2> HIDE DEF len, snaps, D
  <2>5. \A s \in D : IsSnapshot(s, snaps[s]) /\ snaps[s].offset = 0
    BY <2>2, <2>3, <2>4, PodIsSnapshot
  <2>6. /\ Overall /\ \A s \in D : Took(s, snaps[s])
        /\ \A s \in Sources : s \notin D => LeftAlone(s)
    BY <2>2, <2>5, MergeTakes
  <2>7. fileOffset' \in 0..MaxLog /\ failed' \in BOOLEAN
    BY <2>1 DEF TypeOK
  <2> QED BY <2>6, <2>7
<1> QED BY <1>1, <1>2, <1>3

\* What a source's cache is after a snapshot was taken: no key twice, the old keys
\* and the snapshot's, and the snapshot's keys alone if no order was broken.
LEMMA TookKeys ==
  ASSUME TypeOK, LogBounds, KeysKept, NEW s \in Sources, NEW snap, Took(s, snap)
  PROVE  /\ hops'[s] \in Seq(Keys) /\ previous'[s] \in Seq(Keys)
         /\ generation'[s] \in Nat /\ lastRead'[s] \in Seq(Lines)
         /\ fileInfo'[s] \in Infos \cup {None}
         /\ IsInjective(hops'[s]) /\ IsInjective(previous'[s])
         /\ ToSet(previous'[s]) \subseteq ToSet(hops'[s])
         /\ \A e : e \in ToSet(hops'[s]) <=>
                     \/ e \in ToSet(hops[s])
                     \/ \E i \in Records(snap) : e = Occurrence(snap, GenerationOf(s), i)
         /\ lastRead'[s] = [n \in DOMAIN previous'[s] |-> previous'[s][n].line]
         /\ (issues' \cap Breaking = {} /\ hops[s] = previous[s]) => hops'[s] = previous'[s]
<1> DEFINE g == GenerationOf(s)
           keys == KeysOf(snap, g)
           new == At(keys, NotIn(hops[s], keys))
<1>1. g \in Nat
  <2>1. generation[s] \in Nat
    BY DEF TypeOK
  <2> QED BY <2>1 DEF GenerationOf
<1>2. /\ IsSnapshot(s, snap) /\ hops'[s] = hops[s] \o new /\ previous'[s] = keys
      /\ generation'[s] = g /\ lastRead'[s] = At(snap.content, Records(snap))
      /\ fileInfo'[s] = IF FileBacked THEN Info(s) ELSE fileInfo[s]
      /\ issues' \cap Breaking = {} => IsPrefix(previous[s], keys)
  BY DEF Took, NewKeys, KeysRead, NotIn, Continues
<1>3. hops[s] \in Seq(Keys) /\ IsInjective(hops[s])
  BY DEF TypeOK, KeysKept
<1> HIDE DEF g
<1>4. /\ keys \in Seq(Keys) /\ IsInjective(keys)
      /\ ToSet(keys) = {Occurrence(snap, g, i) : i \in Records(snap)}
      /\ At(snap.content, Records(snap)) \in Seq(Lines)
      /\ At(snap.content, Records(snap)) = [n \in DOMAIN keys |-> keys[n].line]
  BY <1>1, <1>2, KeysOfSnapshot
<1> HIDE DEF keys
<1>5. /\ hops[s] \o new \in Seq(Keys) /\ IsInjective(hops[s] \o new)
      /\ \A e : e \in ToSet(hops[s] \o new) <=> e \in ToSet(hops[s]) \/ e \in ToSet(keys)
  BY <1>3, <1>4, AddNew
<1>6. IsPrefix(hops[s], keys) => hops[s] \o new = keys
  BY <1>3, <1>4, AddNewToPrefix
<1> HIDE DEF new
<1>7. fileInfo'[s] \in Infos \cup {None}
  <2>1. /\ inode[s] \in Nat /\ fileInfo[s] \in Infos \cup {None}
    BY LimitAssumption DEF TypeOK
  <2>2. Len(Visible(s)) \in Nat
    BY VisiblePlaces
  <2>3. Info(s) \in Infos
    BY <2>1, <2>2 DEF Info, Infos
  <2> QED BY <1>2, <2>1, <2>3
<1>8. /\ hops'[s] \in Seq(Keys) /\ previous'[s] \in Seq(Keys) /\ generation'[s] \in Nat
      /\ lastRead'[s] \in Seq(Lines) /\ IsInjective(hops'[s]) /\ IsInjective(previous'[s])
  BY <1>1, <1>2, <1>4, <1>5, Zenon
<1>9. \A e : e \in ToSet(keys) <=> \E i \in Records(snap) : e = Occurrence(snap, g, i)
  BY <1>4
<1>10. \A e : e \in ToSet(hops'[s]) <=> e \in ToSet(hops[s]) \/ e \in ToSet(keys)
  BY <1>2, <1>5, Zenon
<1>11. ToSet(previous'[s]) \subseteq ToSet(hops'[s])
  <2>1. \A e \in ToSet(previous'[s]) : e \in ToSet(hops'[s])
    BY <1>2, <1>10, Zenon
  <2> QED BY <2>1
<1>12. lastRead'[s] = [n \in DOMAIN previous'[s] |-> previous'[s][n].line]
  BY <1>2, <1>4, Zenon
<1>13. (issues' \cap Breaking = {} /\ hops[s] = previous[s]) => hops'[s] = previous'[s]
  BY <1>2, <1>6, Zenon
<1>14. \A e : e \in ToSet(hops'[s]) <=>
                \/ e \in ToSet(hops[s])
                \/ \E i \in Records(snap) : e = Occurrence(snap, g, i)
  BY <1>9, <1>10, Zenon
<1> QED BY <1>7, <1>8, <1>11, <1>12, <1>13, <1>14, Zenon DEF g

\* A read keeps the caches well formed.
LEMMA ReadKeys ==
  ASSUME TypeOK, LogBounds, KeysKept, OrderKept, Read, pc' = "check"
  PROVE  TypeOK' /\ KeysKept' /\ OrderKept'
<1>1. /\ Overall /\ failed' \in BOOLEAN /\ fileOffset' \in 0..MaxLog
      /\ \A s \in Sources : LeftAlone(s) \/ \E snap : Took(s, snap)
  BY ReadTakes
<1>2. ASSUME NEW s \in Sources
      PROVE  /\ hops'[s] \in Seq(Keys) /\ previous'[s] \in Seq(Keys)
             /\ generation'[s] \in Nat /\ lastRead'[s] \in Seq(Lines)
             /\ fileInfo'[s] \in Infos \cup {None}
             /\ IsInjective(hops'[s]) /\ IsInjective(previous'[s])
             /\ ToSet(previous'[s]) \subseteq ToSet(hops'[s])
             /\ lastRead'[s] = [n \in DOMAIN previous'[s] |-> previous'[s][n].line]
             /\ (issues' \cap Breaking = {} /\ hops[s] = previous[s]) => hops'[s] = previous'[s]
  <2>1. CASE LeftAlone(s)
    <3>1. /\ hops[s] \in Seq(Keys) /\ previous[s] \in Seq(Keys)
          /\ generation[s] \in Nat /\ lastRead[s] \in Seq(Lines)
          /\ fileInfo[s] \in Infos \cup {None}
      BY DEF TypeOK
    <3>2. /\ IsInjective(hops[s]) /\ IsInjective(previous[s])
          /\ ToSet(previous[s]) \subseteq ToSet(hops[s])
          /\ lastRead[s] = [n \in DOMAIN previous[s] |-> previous[s][n].line]
      BY DEF KeysKept
    <3> QED BY <2>1, <3>1, <3>2, Zenon DEF LeftAlone
  <2>2. CASE \E snap : Took(s, snap)
    <3>1. PICK snap : Took(s, snap)
      BY <2>2
    <3> QED BY <3>1, TookKeys
  <2> QED BY <1>1, <2>1, <2>2
<1>3. KeysKept'
  BY <1>2 DEF KeysKept
<1>4. OrderKept'
  <2>1. issues' \cap Breaking = {} => issues \cap Breaking = {}
    BY <1>1 DEF Overall
  <2> QED BY <1>2, <2>1 DEF OrderKept
<1>5. UNCHANGED <<world, now, canceled, stableSince, wake, result>>
  BY DEF Read
<1>6. TypeOK'
  <2>1. /\ hops' \in [Sources -> Seq(Keys)] /\ previous' \in [Sources -> Seq(Keys)]
        /\ fileInfo' \in [Sources -> Infos \cup {None}] /\ generation' \in [Sources -> Nat]
        /\ lastRead' \in [Sources -> Seq(Lines)]
    BY <1>1, <1>2 DEF Overall
  <2>2. /\ log' \in [Sources -> Seq(Lines \cup {Other})]
        /\ start' \in [Sources -> 0..MaxLog] /\ inode' \in [Sources -> 0..MaxRotations]
        /\ rotations' \in 0..MaxRotations
        /\ now' \in 0..MaxTime /\ canceled' \in BOOLEAN
        /\ stableSince' \in 0..MaxTime \cup {None} /\ wake' \in Nat
        /\ state' \in Ends \cup {"collecting"} /\ endedAt' \in 0..MaxTime
    BY <1>5 DEF TypeOK, world, result
  <2>3. changed' \in BOOLEAN /\ lastChange' \in 0..MaxTime
    BY <1>1 DEF TypeOK, Overall
  <2>4. issues' \subseteq IssueCodes
    BY <1>1 DEF TypeOK, Overall, IssueCodes
  <2>5. pc' \in {"top", "check", "wait", "done"}
    OBVIOUS
  <2> QED BY <1>1, <2>1, <2>2, <2>3, <2>4, <2>5 DEF TypeOK
<1> QED BY <1>3, <1>4, <1>6

-----------------------------------------------------------------------------
(* Keys stand for lines                                                    *)

\* The places of the equal lines of a sequence are finitely many.
LEMMA CountType ==
  ASSUME NEW T, NEW q \in Seq(T), NEW l
  PROVE  IsFiniteSet({i \in DOMAIN q : q[i] = l}) /\ Count(q, l) \in Nat
<1>1. Len(q) \in Nat /\ DOMAIN q = 1..Len(q)
  BY LenProperties
<1>2. IsFiniteSet(1..Len(q))
  BY <1>1, FS_Interval
<1>3. {i \in DOMAIN q : q[i] = l} \in SUBSET (1..Len(q))
  BY <1>1
<1>4. IsFiniteSet({i \in DOMAIN q : q[i] = l})
  BY <1>2, <1>3, FS_Subset
<1>5. Cardinality({i \in DOMAIN q : q[i] = l}) \in Nat
  BY <1>4, FS_CardinalityType
<1> QED BY <1>4, <1>5 DEF Count

\* If each place of l in p has a place of l in q of its own, q has l as often as p.
LEMMA CountInjection ==
  ASSUME NEW T, NEW p, NEW q \in Seq(T), NEW l, NEW f,
         \A i \in DOMAIN p : p[i] = l => f[i] \in DOMAIN q /\ q[f[i]] = l,
         \A i, j \in DOMAIN p : p[i] = l /\ p[j] = l /\ f[i] = f[j] => i = j
  PROVE  Count(p, l) <= Count(q, l)
<1> DEFINE A == {i \in DOMAIN p : p[i] = l}
           B == {i \in DOMAIN q : q[i] = l}
           h == [i \in A |-> f[i]]
<1>1. IsFiniteSet(B)
  <2>1. Len(q) \in Nat /\ DOMAIN q = 1..Len(q)
    BY LenProperties
  <2>2. IsFiniteSet(1..Len(q)) /\ B \in SUBSET (1..Len(q))
    BY <2>1, FS_Interval
  <2> QED BY <2>2, FS_Subset
<1>2. \A i \in A : f[i] \in B
  OBVIOUS
<1>3. \A i, j \in A : f[i] = f[j] => i = j
  OBVIOUS
<1>4. h \in Injection(A, B)
  <2> HIDE DEF A, B
  <2> QED BY <1>2, <1>3 DEF Injection, IsInjective
<1>5. Cardinality(A) <= Cardinality(B)
  <2> HIDE DEF A, B, h
  <2> QED BY <1>1, <1>4, FS_Injection
<1> QED BY <1>5 DEF Count

\* In a Pod's log a record's rank among its equals is one of the equal lines that
\* were written.
LEMMA RankIsWritten ==
  ASSUME TypeOK, NEW s \in Sources, NEW snap, IsSnapshot(s, snap), NEW i \in Records(snap)
  PROVE  Cardinality(EqualUpTo(snap, i)) \in 1..Count(log[s], snap.content[i])
<1> DEFINE A == EqualUpTo(snap, i)
           l == snap.content[i]
           B == {m \in DOMAIN log[s] : log[s][m] = l}
           base == start[s] + snap.offset
           h == [j \in A |-> base + j]
<1>1. log[s] \in Seq(Lines \cup {Other}) /\ start[s] \in Nat
  BY DEF TypeOK
<1>2. IsFiniteSet(B) /\ Count(log[s], l) \in Nat /\ Count(log[s], l) = Cardinality(B)
  BY <1>1, CountType DEF Count
<1>3. Len(log[s]) \in Nat /\ DOMAIN log[s] = 1..Len(log[s])
  BY <1>1, LenProperties
<1>4. i \in Nat \ {0} /\ i \in 1..Len(snap.content) /\ Len(snap.content) \in Nat
  BY RecordsArePlaces
<1>5. /\ snap.offset \in Nat /\ base \in Nat /\ base + Len(snap.content) <= Len(log[s])
      /\ \A m \in 1..Len(snap.content) : snap.content[m] = log[s][base + m]
  BY <1>1 DEF IsSnapshot
<1>6. \A j \in A : j \in 1..Len(snap.content) /\ snap.content[j] = l
  BY <1>4 DEF EqualUpTo
<1> HIDE DEF base, A, l
<1>7. \A j \in A : base + j \in 1..Len(log[s])
  BY <1>3, <1>4, <1>5, <1>6
<1>8. \A j \in A : base + j \in B
  BY <1>3, <1>5, <1>6, <1>7
<1>9. \A j, k \in A : base + j = base + k => j = k
  BY <1>5, <1>6
<1> HIDE DEF B
<1>10. h \in Injection(A, B)
  BY <1>8, <1>9 DEF Injection, IsInjective
<1> HIDE DEF h
<1>11. Cardinality(A) <= Cardinality(B)
  BY <1>2, <1>10, FS_Injection
<1>12. Cardinality(A) \in Nat \ {0}
  BY <1>4, EqualsCounted DEF A
<1> QED BY <1>2, <1>11, <1>12 DEF A, l

\* A read of Pods' logs gives each occurrence it adds the rank of a written line.
LEMMA ReadPodPlaces ==
  ASSUME TypeOK, LogBounds, KeysKept, PodPlaces, Read
  PROVE  PodPlaces'
<1> SUFFICES ASSUME ~FileBacked, NEW s \in Sources, NEW k \in ToSet(hops'[s])
             PROVE  k.generation = 0 /\ k.place \in 1..Count(log'[s], k.line)
  BY DEF PodPlaces
<1>1. log' = log
  BY DEF Read, world
<1>2. CASE k \in ToSet(hops[s])
  BY <1>1, <1>2 DEF PodPlaces
<1>3. CASE k \notin ToSet(hops[s])
  <2>1. PICK snap : Took(s, snap)
    <3>1. ~LeftAlone(s)
      BY <1>3 DEF LeftAlone
    <3> QED BY <3>1, ReadTakes
  <2>2. IsSnapshot(s, snap)
    BY <2>1 DEF Took
  <2>3. PICK i \in Records(snap) : k = Occurrence(snap, GenerationOf(s), i)
    <3>1. \A e : e \in ToSet(hops'[s]) <=>
                   \/ e \in ToSet(hops[s])
                   \/ \E i \in Records(snap) : e = Occurrence(snap, GenerationOf(s), i)
      BY <2>1, TookKeys
    <3> QED BY <1>3, <3>1, Zenon
  <2>4. GenerationOf(s) \in Nat
    <3>1. generation[s] \in Nat
      BY DEF TypeOK
    <3> QED BY <3>1 DEF GenerationOf
  <2>5. /\ k.generation = 0 /\ k.line = snap.content[i]
        /\ k.place = Cardinality(EqualUpTo(snap, i))
    BY <2>2, <2>3, <2>4, OccurrenceFields
  <2>6. Cardinality(EqualUpTo(snap, i)) \in 1..Count(log[s], snap.content[i])
    BY <2>2, RankIsWritten
  <2> QED BY <1>1, <2>5, <2>6, Zenon
<1> QED BY <1>2, <1>3

\* A key is what its fields are.
LEMMA KeysEqual ==
  ASSUME NEW a \in Keys, NEW b \in Keys,
         a.generation = b.generation, a.place = b.place, a.line = b.line
  PROVE  a = b
<1>1. /\ a = [generation |-> a.generation, place |-> a.place, line |-> a.line]
      /\ b = [generation |-> b.generation, place |-> b.place, line |-> b.line]
  BY DEF Keys
<1> QED BY <1>1, Zenon

\* f gives every key of the cache of s the line it stands for.
Stands(s, f) ==
    /\ f \in [ToSet(hops[s]) -> DOMAIN log[s]]
    /\ IsInjective(f)
    /\ \A k \in ToSet(hops[s]) :
         /\ log[s][f[k]] = k.line
         /\ f[k] > start[s] =>
              /\ fileInfo[s] # None /\ ~Replaced(s)
              /\ k.generation = generation[s] /\ k.place = f[k] - start[s]

\* A snapshot of the file gives each key it adds the line it was read from, which
\* no other key has: an older key with a line still there is of the same file,
\* so that equal lines would be equal keys.
LEMMA TookFilePlaces ==
  ASSUME TypeOK, LogBounds, KeysKept, FileBacked, NEW s \in Sources,
         NEW f0, Stands(s, f0), NEW snap, Took(s, snap), UNCHANGED world
  PROVE  \E f : Stands(s, f)'
<1> DEFINE g == GenerationOf(s)
           old == ToSet(hops[s])
           all == ToSet(hops'[s])
           q == log[s]
           f == [k \in all |-> IF k \in old THEN f0[k] ELSE start[s] + k.place]
<1>1. log' = log /\ start' = start /\ inode' = inode
  BY DEF world
<1>2. generation[s] \in Nat /\ g \in Nat /\ (~Replaced(s) => g = generation[s])
  BY DEF GenerationOf, TypeOK
<1>3. generation'[s] = g /\ fileInfo'[s] = Info(s) /\ IsSnapshot(s, snap)
  BY DEF Took
<1>4. start[s] \in Nat /\ Len(q) \in Nat /\ DOMAIN q = 1..Len(q) /\ start[s] <= Len(q)
  <2>1. q \in Seq(Lines \cup {Other}) /\ start[s] \in Nat
    BY DEF TypeOK
  <2>2. start[s] <= Len(q)
    BY DEF LogBounds
  <2>3. Len(q) \in Nat /\ DOMAIN q = 1..Len(q)
    BY <2>1, LenProperties
  <2> QED BY <2>1, <2>2, <2>3
<1>5. fileInfo'[s] # None /\ ~Replaced(s)'
  <2>1. /\ Info(s)' = Info(s) /\ Info(s).inode = inode[s] /\ Info(s).size = Len(Visible(s))
    BY <1>1 DEF Info, Visible
  <2>2. Len(Visible(s)) \in Nat
    BY VisiblePlaces
  <2>3. inode[s] \in Nat
    BY LimitAssumption DEF TypeOK
  <2>4. Info(s) \in Infos
    BY <2>2, <2>3 DEF Info, Infos
  <2>5. Info(s) # None
    BY <2>4, InfoAssumption
  <2>6. ~(Info(s).size < Info(s).size)
    BY <2>1, <2>2
  <2>7. Replaced(s)' <=> /\ fileInfo'[s] # None
                         /\ \/ Info(s)'.inode # fileInfo'[s].inode
                            \/ Info(s)'.size < fileInfo'[s].size
    BY DEF Replaced
  <2> QED BY <1>3, <2>1, <2>5, <2>6, <2>7, Zenon
<1>6. /\ \A e : e \in all <=> \/ e \in old
                              \/ \E i \in Records(snap) : e = Occurrence(snap, g, i)
  BY TookKeys
<1>7. ASSUME NEW k \in all, k \notin old
      PROVE  /\ k.generation = g /\ k.place \in Nat \ {0}
             /\ start[s] + k.place \in 1..Len(q) /\ q[start[s] + k.place] = k.line
  <2>1. PICK i \in Records(snap) : k = Occurrence(snap, g, i)
    BY <1>6, <1>7, Zenon
  <2>2. k.generation = g /\ k.place = snap.offset + i /\ k.line = snap.content[i]
    BY <1>2, <1>3, <2>1, OccurrenceFields
  <2>3. i \in 1..Len(snap.content) /\ i \in Nat \ {0} /\ Len(snap.content) \in Nat
    BY <1>3, RecordsArePlaces
  <2>4. /\ snap.offset \in Nat /\ start[s] + snap.offset + Len(snap.content) <= Len(q)
        /\ snap.content[i] = q[start[s] + snap.offset + i]
    BY <1>3, <2>3 DEF IsSnapshot
  <2>5. start[s] + k.place = start[s] + snap.offset + i
    BY <1>4, <2>2, <2>3, <2>4
  <2>6. start[s] + snap.offset + i \in 1..Len(q) /\ snap.offset + i \in Nat \ {0}
    BY <1>4, <2>3, <2>4
  <2> QED BY <2>2, <2>4, <2>5, <2>6
<1>8. /\ \A k \in old : f0[k] \in 1..Len(q) /\ q[f0[k]] = k.line
      /\ \A j, k \in old : f0[j] = f0[k] => j = k
      /\ \A k \in old : f0[k] > start[s] => /\ ~Replaced(s) /\ k.generation = generation[s]
                                            /\ k.place = f0[k] - start[s]
  <2>1. DOMAIN f0 = old
    BY DEF Stands
  <2> QED BY <1>4, <2>1 DEF Stands, IsInjective
<1>9. all \in SUBSET Keys
  <2>1. hops'[s] \in Seq(Keys)
    BY TookKeys
  <2>2. \A n \in DOMAIN hops'[s] : hops'[s][n] \in Keys
    BY <2>1, LenProperties, ElementOfSeq
  <2> QED BY <2>2 DEF ToSet
<1>10. \A e : e \in old => e \in all
  BY <1>6, Zenon
<1> HIDE DEF g, old, all, q
<1>11. /\ DOMAIN f = all
       /\ \A k \in all : k \in old => f[k] = f0[k]
       /\ \A k \in all : k \notin old => f[k] = start[s] + k.place
  OBVIOUS
<1> HIDE DEF f
<1>12. \A k \in all : f[k] \in 1..Len(q) /\ q[f[k]] = k.line
  BY <1>7, <1>8, <1>11
<1>13. \A k \in all : f[k] > start[s] => k.generation = g /\ k.place = f[k] - start[s]
  <2> SUFFICES ASSUME NEW k \in all, f[k] > start[s]
               PROVE  k.generation = g /\ k.place = f[k] - start[s]
    OBVIOUS
  <2>1. CASE k \in old
    BY <1>2, <1>8, <1>11, <2>1
  <2>2. CASE k \notin old
    <3>1. k.place \in Nat /\ f[k] = start[s] + k.place /\ k.generation = g
      BY <1>7, <1>11, <2>2
    <3> QED BY <1>4, <3>1
  <2> QED BY <2>1, <2>2
<1>14. ASSUME NEW j \in all, NEW k \in all, f[j] = f[k], k \notin old PROVE j = k
  <2>1. k.place \in Nat \ {0} /\ f[k] = start[s] + k.place
    BY <1>7, <1>11, <1>14
  <2>2. f[k] > start[s]
    BY <1>4, <2>1
  <2>3. j.generation = g /\ k.generation = g /\ j.place = k.place
    BY <1>13, <1>14, <2>2
  <2>4. j.line = k.line
    BY <1>12, <1>14
  <2>5. j \in Keys /\ k \in Keys
    BY <1>9
  <2> QED BY <2>3, <2>4, <2>5, KeysEqual
<1>15. ASSUME NEW j \in all, NEW k \in all, f[j] = f[k] PROVE j = k
  <2>1. CASE k \notin old
    BY <1>14, <1>15, <2>1
  <2>2. CASE j \notin old
    BY <1>14, <1>15, <2>2
  <2>3. CASE j \in old /\ k \in old
    BY <1>8, <1>11, <1>15, <2>3
  <2> QED BY <2>1, <2>2, <2>3
<1>16. IsInjective(f)
  BY <1>11, <1>15 DEF IsInjective
<1>17. f \in [all -> 1..Len(q)]
  <2>1. f = [k \in all |-> f[k]]
    BY DEF f
  <2> QED BY <1>12, <2>1
<1>18. \A k \in all : f[k] > start[s] => /\ fileInfo'[s] # None /\ ~Replaced(s)'
                                         /\ k.generation = generation'[s]
                                         /\ k.place = f[k] - start[s]
  BY <1>3, <1>5, <1>13
<1>19. /\ f \in [all -> DOMAIN q]
       /\ \A k \in all : q[f[k]] = k.line
  BY <1>4, <1>12, <1>17
<1>20. /\ f \in [ToSet(hops'[s]) -> DOMAIN log'[s]] /\ IsInjective(f)
       /\ \A k \in ToSet(hops'[s]) :
            /\ log'[s][f[k]] = k.line
            /\ f[k] > start'[s] =>
                 /\ fileInfo'[s] # None /\ ~Replaced(s)'
                 /\ k.generation = generation'[s] /\ k.place = f[k] - start'[s]
  BY <1>1, <1>16, <1>18, <1>19, Zenon DEF all, q
<1> QED BY <1>20, Zenon DEF Stands

\* FilePlaces, source by source.
LEMMA FilePlacesStand == FilePlaces <=> (FileBacked => \A s \in Sources : \E f : Stands(s, f))
<1>1. ASSUME NEW s \in Sources
      PROVE  (\E f \in [ToSet(hops[s]) -> DOMAIN log[s]] :
                /\ IsInjective(f)
                /\ \A k \in ToSet(hops[s]) :
                     /\ log[s][f[k]] = k.line
                     /\ f[k] > start[s] =>
                          /\ fileInfo[s] # None /\ ~Replaced(s)
                          /\ k.generation = generation[s] /\ k.place = f[k] - start[s])
             <=> \E f : Stands(s, f)
  BY Zenon DEF Stands
<1> QED BY <1>1, Zenon DEF FilePlaces

\* The same after a step.
LEMMA StandAfterwards ==
  ASSUME FileBacked => \A s \in Sources : \E f : Stands(s, f)'
  PROVE  FilePlaces'
<1>1. ASSUME NEW s \in Sources, \E f : Stands(s, f)'
      PROVE  \E f \in [ToSet(hops'[s]) -> DOMAIN log'[s]] :
                /\ IsInjective(f)
                /\ \A k \in ToSet(hops'[s]) :
                     /\ log'[s][f[k]] = k.line
                     /\ f[k] > start'[s] =>
                          /\ fileInfo'[s] # None /\ ~Replaced(s)'
                          /\ k.generation = generation'[s] /\ k.place = f[k] - start'[s]
  BY <1>1, Zenon DEF Stands
<1> QED BY <1>1, Zenon DEF FilePlaces

\* A read leaves every key of a file its line, or gives it one.
LEMMA ReadFilePlaces ==
  ASSUME TypeOK, LogBounds, KeysKept, FilePlaces, Read
  PROVE  FilePlaces'
<1> SUFFICES ASSUME FileBacked, NEW s \in Sources PROVE \E f : Stands(s, f)'
  BY StandAfterwards, Zenon
<1>1. UNCHANGED world
  BY DEF Read
<1>2. PICK f : Stands(s, f)
  BY FilePlacesStand
<1>3. CASE LeftAlone(s)
  <2>1. log' = log /\ start' = start /\ inode' = inode
    BY <1>1 DEF world
  <2>2. /\ hops'[s] = hops[s] /\ generation'[s] = generation[s] /\ fileInfo'[s] = fileInfo[s]
    BY <1>3 DEF LeftAlone
  <2>3. Replaced(s)' <=> Replaced(s)
    BY <2>1, <2>2 DEF Replaced, Info, Visible
  <2>4. Stands(s, f)'
    BY <1>2, <2>1, <2>2, <2>3, Zenon DEF Stands
  <2> QED BY <2>4
<1>4. CASE \E snap : Took(s, snap)
  <2>1. PICK snap : Took(s, snap)
    BY <1>4
  <2> QED BY <1>1, <1>2, <2>1, TookFilePlaces
<1>5. LeftAlone(s) \/ \E snap : Took(s, snap)
  BY ReadTakes
<1> QED BY <1>3, <1>4, <1>5

-----------------------------------------------------------------------------
(* The invariant is inductive                                              *)

\* The initial states have it.
LEMMA AccountedInit == Init => TypeOK /\ Accounted /\ SettledInTime
<1> SUFFICES ASSUME Init PROVE TypeOK /\ Accounted /\ SettledInTime
  OBVIOUS
<1>1. \A q \in {<<>>, <<Other>>} : q \in Seq(Lines \cup {Other}) /\ Len(q) \in {0, 1}
  <2>1. <<>> \in Seq(Lines \cup {Other}) /\ Len(<<>>) = 0
    BY EmptySeq
  <2>2. <<Other>> \in Seq(Lines \cup {Other}) /\ Len(<<Other>>) = 1
    OBVIOUS
  <2> QED BY <2>1, <2>2, Zenon
<1>2. \A s \in Sources : log[s] \in {<<>>, <<Other>>}
  BY DEF Init
<1>3. /\ \A s \in Sources : log[s] \in Seq(Lines \cup {Other}) /\ Len(log[s]) \in {0, 1}
      /\ log \in [Sources -> Seq(Lines \cup {Other})]
  <2>1. \A s \in Sources : log[s] \in Seq(Lines \cup {Other}) /\ Len(log[s]) \in {0, 1}
    BY <1>1, <1>2
  <2>2. log = [s \in Sources |-> log[s]]
    BY DEF Init
  <2> QED BY <2>1, <2>2
<1>4. MaxLog \in Nat /\ MaxLog > 0 /\ MaxTime \in Nat /\ MaxRotations \in Nat
  BY LimitAssumption
<1>5. /\ \A s \in Sources : hops[s] = <<>> /\ previous[s] = <<>> /\ lastRead[s] = <<>> /\ start[s] = 0
      /\ issues = {} /\ pc = "top" /\ changed = FALSE /\ stableSince = None
      /\ state = "collecting" /\ lastChange = 0 /\ now = 0
  BY DEF Init
<1>6. TypeOK
  <2>1. fileOffset \in 0..MaxLog
    <3>1. fileOffset = 0 \/ \E s \in Sources : fileOffset = Len(log[s])
      BY DEF Init
    <3>2. \A s \in Sources : Len(log[s]) \in {0, 1}
      BY <1>3
    <3>3. 0 \in 0..MaxLog /\ 1 \in 0..MaxLog
      BY <1>4
    <3> QED BY <3>1, <3>2, <3>3
  <2>2. /\ start \in [Sources -> 0..MaxLog] /\ inode \in [Sources -> 0..MaxRotations]
        /\ generation \in [Sources -> Nat] /\ fileInfo \in [Sources -> Infos \cup {None}]
    BY <1>4 DEF Init
  <2>3. <<>> \in Seq(Keys) /\ <<>> \in Seq(Lines)
    BY EmptySeq
  <2>4. /\ hops \in [Sources -> Seq(Keys)] /\ previous \in [Sources -> Seq(Keys)]
        /\ lastRead \in [Sources -> Seq(Lines)]
    BY <2>3 DEF Init
  <2>5. /\ rotations \in 0..MaxRotations /\ now \in 0..MaxTime /\ canceled \in BOOLEAN
        /\ endedAt \in 0..MaxTime /\ lastChange \in 0..MaxTime
    <3>1. 0 \in 0..MaxRotations /\ 0 \in 0..MaxTime
      BY <1>4
    <3> QED BY <3>1 DEF Init
  <2>6. /\ issues \subseteq IssueCodes
        /\ pc \in {"top", "check", "wait", "done"} /\ changed \in BOOLEAN /\ failed \in BOOLEAN
        /\ stableSince \in 0..MaxTime \cup {None} /\ wake \in Nat
        /\ state \in Ends \cup {"collecting"}
    BY DEF Init
  <2> QED BY <1>3, <2>1, <2>2, <2>4, <2>5, <2>6 DEF TypeOK
<1>7. LogBounds
  <2> SUFFICES ASSUME NEW s \in Sources PROVE start[s] <= Len(log[s]) /\ Len(log[s]) <= MaxLog
    <3>1. \A s \in Sources : inode[s] <= rotations
      BY DEF Init
    <3> QED BY <3>1 DEF LogBounds
  <2>1. start[s] = 0 /\ (Len(log[s]) = 0 \/ Len(log[s]) = 1)
    BY <1>3, <1>5
  <2>2. \A m : m = 0 \/ m = 1 => 0 <= m /\ m <= MaxLog
    BY <1>4
  <2> QED BY <2>1, <2>2, Zenon
<1>8. ToSet(<<>>) = {} /\ IsInjective(<<>>)
  BY DEF ToSet, IsInjective
<1>9. KeysKept
  <2>1. <<>> = [n \in DOMAIN <<>> |-> <<>>[n].line]
    OBVIOUS
  <2> QED BY <1>5, <1>8, <2>1 DEF KeysKept
<1>10. OrderKept /\ PodPlaces
  BY <1>5, <1>8 DEF OrderKept, PodPlaces
<1>11. FilePlaces
  <2> SUFFICES ASSUME NEW s \in Sources PROVE \E f : Stands(s, f)
    BY FilePlacesStand
  <2> DEFINE f == [k \in {} |-> 0]
  <2>1. f \in [{} -> DOMAIN log[s]] /\ IsInjective(f)
    BY DEF IsInjective
  <2> HIDE DEF f
  <2>2. Stands(s, f)
    BY <1>5, <1>8, <2>1 DEF Stands
  <2> QED BY <2>2
<1>12. SettlingTrue /\ SettledInTime
  BY <1>5 DEF SettlingTrue, SettledInTime
<1> QED BY <1>6, <1>7, <1>9, <1>10, <1>11, <1>12 DEF Accounted

\* What leaves the logs and the caches alone keeps what is said of them.
LEMMA CachesKept ==
  ASSUME LogBounds, KeysKept, OrderKept, PodPlaces, FilePlaces,
         UNCHANGED <<world, cache>>, issues' \cap Breaking = {} => issues \cap Breaking = {}
  PROVE  LogBounds' /\ KeysKept' /\ OrderKept' /\ PodPlaces' /\ FilePlaces'
<1>1. /\ log' = log /\ start' = start /\ inode' = inode /\ hops' = hops /\ previous' = previous
      /\ fileInfo' = fileInfo /\ generation' = generation /\ lastRead' = lastRead
      /\ rotations' = rotations
  BY DEF world, cache
<1>2. LogBounds' /\ KeysKept' /\ OrderKept' /\ PodPlaces'
  BY <1>1, Zenon DEF LogBounds, KeysKept, OrderKept, PodPlaces
<1>3. \A s \in Sources : Replaced(s)' <=> Replaced(s)
  BY <1>1 DEF Replaced, Info, Visible
<1>4. ASSUME FileBacked, NEW s \in Sources PROVE \E f : Stands(s, f)'
  <2>1. PICK f : Stands(s, f)
    BY <1>4, FilePlacesStand
  <2>2. Stands(s, f)'
    BY <1>1, <1>3, <2>1, Zenon DEF Stands
  <2> QED BY <2>2
<1>5. FilePlaces'
  BY <1>4, StandAfterwards
<1> QED BY <1>2, <1>5

\* A line more: every count and every place of before is still there.
LEMMA WriteKeeps ==
  ASSUME TypeOK, Accounted, NEW s \in Sources, NEW l \in Lines \cup {Other}, Write(s, l)
  PROVE  TypeOK' /\ Accounted'
<1>1. /\ Len(log[s]) < MaxLog /\ log' = [log EXCEPT ![s] = Append(log[s], l)]
      /\ start' = start /\ inode' = inode /\ hops' = hops /\ previous' = previous
      /\ fileInfo' = fileInfo /\ generation' = generation /\ lastRead' = lastRead
      /\ issues' = issues
  BY DEF Write, collector, cache
<1>2. /\ rotations' = rotations /\ now' = now /\ canceled' = canceled /\ lastChange' = lastChange
      /\ fileOffset' = fileOffset /\ pc' = pc /\ changed' = changed /\ failed' = failed
      /\ stableSince' = stableSince /\ wake' = wake /\ state' = state /\ endedAt' = endedAt
  BY DEF Write, collector, cache, result
<1>3. LogBounds /\ KeysKept /\ OrderKept /\ PodPlaces /\ FilePlaces /\ SettlingTrue
  BY DEF Accounted
<1>4. MaxLog \in Nat
  BY LimitAssumption
<1>5. ASSUME NEW t \in Sources
      PROVE  /\ log[t] \in Seq(Lines \cup {Other}) /\ Len(log[t]) \in Nat
             /\ log'[t] \in Seq(Lines \cup {Other}) /\ Len(log'[t]) \in Nat
             /\ Len(log[t]) <= Len(log'[t]) /\ Len(log'[t]) <= MaxLog
             /\ \A i \in 1..Len(log[t]) : log'[t][i] = log[t][i]
  <2>1. log[t] \in Seq(Lines \cup {Other}) /\ Len(log[t]) \in Nat /\ Len(log[t]) <= MaxLog
    <3>1. log[t] \in Seq(Lines \cup {Other}) /\ Len(log[t]) <= MaxLog
      BY <1>3 DEF TypeOK, LogBounds
    <3> QED BY <3>1, LenProperties
  <2>2. CASE t = s
    <3>1. log'[t] = Append(log[t], l)
      BY <1>1, <2>2 DEF TypeOK
    <3>2. /\ Append(log[t], l) \in Seq(Lines \cup {Other})
          /\ Len(Append(log[t], l)) = Len(log[t]) + 1
          /\ \A i \in 1..Len(log[t]) : Append(log[t], l)[i] = log[t][i]
      BY <2>1, AppendProperties
    <3>3. Len(log[t]) + 1 \in Nat /\ Len(log[t]) <= Len(log[t]) + 1 /\ Len(log[t]) + 1 <= MaxLog
      BY <1>1, <1>4, <2>1, <2>2
    <3> QED BY <2>1, <3>1, <3>2, <3>3, Zenon
  <2>3. CASE t # s
    <3>1. log'[t] = log[t]
      BY <1>1, <2>3 DEF TypeOK
    <3> QED BY <2>1, <3>1
  <2> QED BY <2>2, <2>3
<1>6. TypeOK'
  <2>1. log' \in [Sources -> Seq(Lines \cup {Other})]
    <3>1. DOMAIN log' = Sources /\ log' = [t \in Sources |-> log'[t]]
      BY <1>1 DEF TypeOK
    <3> QED BY <1>5, <3>1
  <2> QED BY <1>1, <1>2, <2>1 DEF TypeOK
<1>7. LogBounds'
  <2> SUFFICES ASSUME NEW t \in Sources
               PROVE  start'[t] <= Len(log'[t]) /\ Len(log'[t]) <= MaxLog /\ inode'[t] <= rotations'
    BY DEF LogBounds
  <2>1. /\ start[t] \in Nat /\ start[t] <= Len(log[t]) /\ start'[t] = start[t]
        /\ inode'[t] <= rotations'
    BY <1>1, <1>2, <1>3 DEF TypeOK, LogBounds
  <2>2. \A a, b \in Nat : start[t] <= a /\ a <= b => start[t] <= b
    BY <2>1
  <2> QED BY <1>5, <2>1, <2>2
<1>8. KeysKept' /\ OrderKept' /\ SettlingTrue'
  BY <1>1, <1>2, <1>3, Zenon DEF KeysKept, OrderKept, SettlingTrue
<1>9. PodPlaces'
  <2> SUFFICES ASSUME ~FileBacked, NEW t \in Sources, NEW k \in ToSet(hops'[t])
               PROVE  k.generation = 0 /\ k.place \in 1..Count(log'[t], k.line)
    BY DEF PodPlaces
  <2>1. k.generation = 0 /\ k.place \in 1..Count(log[t], k.line)
    BY <1>1, <1>3 DEF PodPlaces
  <2>2. Count(log[t], k.line) <= Count(log'[t], k.line)
    <3> DEFINE f == [i \in 1..Len(log[t]) |-> i]
    <3>1. DOMAIN log[t] = 1..Len(log[t]) /\ DOMAIN log'[t] = 1..Len(log'[t])
      BY <1>5, LenProperties
    <3>2. \A i \in DOMAIN log[t] : f[i] = i /\ i \in DOMAIN log'[t] /\ log'[t][i] = log[t][i]
      BY <1>5, <3>1
    <3> HIDE DEF f
    <3>3. /\ \A i \in DOMAIN log[t] : log[t][i] = k.line => f[i] \in DOMAIN log'[t] /\ log'[t][f[i]] = k.line
          /\ \A i, j \in DOMAIN log[t] :
               log[t][i] = k.line /\ log[t][j] = k.line /\ f[i] = f[j] => i = j
      BY <3>2
    <3> QED BY <1>5, <3>3, CountInjection
  <2>3. Count(log[t], k.line) \in Nat /\ Count(log'[t], k.line) \in Nat
    BY <1>5, CountType
  <2> QED BY <2>1, <2>2, <2>3
<1>10. FilePlaces'
  <2> SUFFICES ASSUME FileBacked, NEW t \in Sources PROVE \E f : Stands(t, f)'
    BY StandAfterwards
  <2>1. PICK f : Stands(t, f)
    BY <1>3, FilePlacesStand
  <2>2. DOMAIN log[t] = 1..Len(log[t]) /\ DOMAIN log'[t] = 1..Len(log'[t])
    BY <1>5, LenProperties
  <2>3. \A i \in DOMAIN log[t] : i \in DOMAIN log'[t] /\ log'[t][i] = log[t][i]
    BY <1>5, <2>2
  <2>4. f \in [ToSet(hops'[t]) -> DOMAIN log'[t]]
    BY <1>1, <2>1, <2>3 DEF Stands
  <2>5. \A k \in ToSet(hops'[t]) : log'[t][f[k]] = k.line
    BY <1>1, <2>1, <2>3 DEF Stands
  <2>6. ASSUME fileInfo[t] # None, ~Replaced(t) PROVE ~Replaced(t)'
    <3>1. Len(Visible(t)) = Len(log[t]) - start[t] /\ Len(Visible(t)) \in Nat /\ start[t] \in Nat
      BY <1>3, VisiblePlaces
    <3>2. Len(Visible(t))' = Len(log'[t]) - start'[t]
      <4>1. start'[t] <= Len(log'[t]) /\ start'[t] \in Nat
        BY <1>1, <1>7, <3>1 DEF LogBounds
      <4>2. \A q \in Seq(Lines \cup {Other}), a \in Nat :
               a <= Len(q) => Len(SubSeq(q, a + 1, Len(q))) = Len(q) - a
        <5> SUFFICES ASSUME NEW q \in Seq(Lines \cup {Other}), NEW a \in Nat, a <= Len(q)
                     PROVE  Len(SubSeq(q, a + 1, Len(q))) = Len(q) - a
          OBVIOUS
        <5>1. Len(q) \in Nat /\ Len(q) <= Len(q)
          BY LenProperties
        <5> QED BY <5>1, Slice
      <4>3. Len(SubSeq(log'[t], start'[t] + 1, Len(log'[t]))) = Len(log'[t]) - start'[t]
        BY <1>5, <4>1, <4>2, Zenon
      <4> QED BY <4>3 DEF Visible
    <3>3. fileInfo[t].inode = inode[t] /\ ~(Len(Visible(t)) < fileInfo[t].size)
      BY <2>6 DEF Replaced, Info
    <3>4. fileInfo[t].size \in Nat
      BY <2>6 DEF TypeOK, Infos
    <3>5. ~(Len(Visible(t))' < fileInfo[t].size)
      BY <1>1, <1>5, <3>1, <3>2, <3>3, <3>4
    <3>6. Replaced(t)' <=> /\ fileInfo'[t] # None
                           /\ \/ inode'[t] # fileInfo'[t].inode
                              \/ Len(Visible(t))' < fileInfo'[t].size
      BY DEF Replaced, Info
    <3> QED BY <1>1, <3>3, <3>5, <3>6, Zenon
  <2>7. Stands(t, f)'
    BY <1>1, <2>1, <2>4, <2>5, <2>6, Zenon DEF Stands
  <2> QED BY <2>7
<1> QED BY <1>6, <1>7, <1>8, <1>9, <1>10 DEF Accounted

\* A rotation: no line of the file is there any more, a Pod's are fewer.
LEMMA RotateKeeps ==
  ASSUME TypeOK, Accounted, NEW s \in Sources, Rotate(s)
  PROVE  TypeOK' /\ Accounted'
<1>1. /\ rotations < MaxRotations /\ rotations' = rotations + 1 /\ start[s] < Len(log[s])
      /\ log' = log /\ hops' = hops /\ previous' = previous
      /\ fileInfo' = fileInfo /\ generation' = generation /\ lastRead' = lastRead
      /\ issues' = issues
  BY DEF Rotate, collector, cache
<1>2. /\ now' = now /\ canceled' = canceled /\ lastChange' = lastChange
      /\ fileOffset' = fileOffset /\ pc' = pc /\ changed' = changed /\ failed' = failed
      /\ stableSince' = stableSince /\ wake' = wake /\ state' = state /\ endedAt' = endedAt
  BY DEF Rotate, collector, cache, result
<1>3. LogBounds /\ KeysKept /\ OrderKept /\ PodPlaces /\ FilePlaces /\ SettlingTrue
  BY DEF Accounted
<1>4. MaxLog \in Nat /\ MaxRotations \in Nat /\ rotations \in Nat
  BY LimitAssumption DEF TypeOK
<1>5. \A t \in Sources : /\ start[t] \in Nat /\ Len(log[t]) \in Nat
                         /\ start[t] <= Len(log[t]) /\ Len(log[t]) <= MaxLog
  BY <1>3, VisiblePlaces DEF LogBounds
<1>6. \E n \in 0..Len(log[s]) : start' = [start EXCEPT ![s] = n]
  <2>1. CASE FileBacked
    <3>1. start' = [start EXCEPT ![s] = Len(log[s])]
      BY <2>1 DEF Rotate
    <3>2. Len(log[s]) \in 0..Len(log[s])
      BY <1>5
    <3> QED BY <3>1, <3>2, Zenon
  <2>2. CASE ~FileBacked
    <3>1. \E n \in start[s] + 1 .. Len(log[s]) : start' = [start EXCEPT ![s] = n]
      BY <2>2 DEF Rotate
    <3>2. \A n \in start[s] + 1 .. Len(log[s]) : n \in 0..Len(log[s])
      BY <1>5
    <3> QED BY <3>1, <3>2
  <2> QED BY <2>1, <2>2
<1>7. start' \in [Sources -> 0..MaxLog] /\ \A t \in Sources : start'[t] <= Len(log'[t])
  <2>1. PICK n \in 0..Len(log[s]) : start' = [start EXCEPT ![s] = n]
    BY <1>6
  <2>2. start \in [Sources -> 0..MaxLog]
    BY DEF TypeOK
  <2>3. n \in 0..MaxLog /\ n <= Len(log[s])
    BY <1>4, <1>5, <2>1
  <2>4. start' \in [Sources -> 0..MaxLog]
    BY <2>1, <2>2, <2>3
  <2>5. \A t \in Sources : start'[t] = IF t = s THEN n ELSE start[t]
    BY <2>1, <2>2
  <2> QED BY <1>1, <1>5, <2>3, <2>4, <2>5
<1>8. inode' \in [Sources -> 0..MaxRotations] /\ \A t \in Sources : inode'[t] <= rotations'
  <2>1. inode \in [Sources -> 0..MaxRotations] /\ \A t \in Sources : inode[t] <= rotations
    BY <1>3 DEF TypeOK, LogBounds
  <2>2. inode' = inode \/ inode' = [inode EXCEPT ![s] = inode[s] + 1]
    BY DEF Rotate
  <2>3. \A t \in Sources : inode'[t] = inode[t] \/ inode'[t] = inode[t] + 1
    BY <2>1, <2>2
  <2>4. \A t \in Sources : inode'[t] \in 0..MaxRotations /\ inode'[t] <= rotations'
    BY <1>1, <1>4, <2>1, <2>3
  <2>5. DOMAIN inode' = Sources /\ inode' = [t \in Sources |-> inode'[t]]
    BY <2>1, <2>2
  <2> QED BY <2>4, <2>5
<1>9. TypeOK'
  <2>1. rotations' \in 0..MaxRotations
    BY <1>1, <1>4
  <2> QED BY <1>1, <1>2, <1>7, <1>8, <2>1 DEF TypeOK
<1>10. LogBounds'
  BY <1>1, <1>5, <1>7, <1>8 DEF LogBounds
<1>11. KeysKept' /\ OrderKept' /\ PodPlaces' /\ SettlingTrue'
  BY <1>1, <1>2, <1>3, Zenon DEF KeysKept, OrderKept, PodPlaces, SettlingTrue
<1>12. FilePlaces'
  <2> SUFFICES ASSUME FileBacked, NEW t \in Sources PROVE \E f : Stands(t, f)'
    BY StandAfterwards
  <2>1. PICK f : Stands(t, f)
    BY <1>3, FilePlacesStand
  <2>2. CASE t = s
    <3>1. start'[s] = Len(log[s])
      <4>1. start' = [start EXCEPT ![s] = Len(log[s])]
        BY DEF Rotate
      <4> QED BY <4>1 DEF TypeOK
    <3>2. \A k \in ToSet(hops[s]) : f[k] \in 1..Len(log[s])
      <4>1. DOMAIN log[s] = 1..Len(log[s])
        <5>1. log[s] \in Seq(Lines \cup {Other})
          BY DEF TypeOK
        <5> QED BY <5>1, LenProperties
      <4> QED BY <2>1, <2>2, <4>1 DEF Stands
    <3>3. \A k \in ToSet(hops[s]) : ~(f[k] > start'[s])
      BY <1>5, <3>1, <3>2
    <3> QED BY <1>1, <2>1, <2>2, <3>3, Zenon DEF Stands
  <2>3. CASE t # s
    <3>1. start'[t] = start[t]
      BY <1>6, <2>3 DEF TypeOK
    <3>2. inode'[t] = inode[t]
      <4>1. inode' = inode \/ inode' = [inode EXCEPT ![s] = inode[s] + 1]
        BY DEF Rotate
      <4> QED BY <2>3, <4>1 DEF TypeOK
    <3>3. Replaced(t)' <=> Replaced(t)
      BY <1>1, <3>1, <3>2 DEF Replaced, Info, Visible
    <3> QED BY <1>1, <2>1, <3>1, <3>3, Zenon DEF Stands
  <2> QED BY <2>2, <2>3
<1> QED BY <1>9, <1>10, <1>11, <1>12 DEF Accounted

\* The clock and the caller only move what says when.
LEMMA ClockKeeps ==
  ASSUME TypeOK, Accounted, SettledInTime, Tick \/ Cancel
  PROVE  TypeOK' /\ Accounted' /\ SettledInTime'
<1>1. /\ UNCHANGED <<world, cache, issues, pc, changed, failed, stableSince, wake, result>>
      /\ pc # "done"
  BY DEF Tick, Cancel, collector
<1>2. now' \in 0..MaxTime /\ canceled' \in BOOLEAN /\ (now' = now \/ now' = now + 1) /\ now \in Nat
  <2>1. now \in 0..MaxTime /\ canceled \in BOOLEAN /\ MaxTime \in Nat
    BY LimitAssumption DEF TypeOK
  <2>2. CASE now < MaxTime /\ now' = now + 1 /\ canceled' = canceled
    BY <2>1, <2>2
  <2>3. CASE now' = now /\ canceled' = TRUE
    BY <2>1, <2>3
  <2> QED BY <2>2, <2>3 DEF Tick, Cancel
<1>3. TypeOK'
  BY <1>1, <1>2 DEF TypeOK, world, cache, result
<1>4. LogBounds' /\ KeysKept' /\ OrderKept' /\ PodPlaces' /\ FilePlaces'
  BY <1>1, CachesKept DEF Accounted
<1>5. SettlingTrue' /\ SettledInTime'
  <2>1. /\ SettlingTrue /\ lastChange \in Nat /\ (stableSince # None => stableSince \in Nat)
        /\ lastChange' = lastChange /\ stableSince' = stableSince /\ pc' = pc /\ changed' = changed
        /\ state' = state /\ issues' = issues
    BY <1>1 DEF Accounted, TypeOK, cache, result
  <2>2. lastChange' <= now'
    BY <1>2, <2>1 DEF SettlingTrue
  <2>3. stableSince # None => stableSince <= now'
    BY <1>2, <2>1 DEF SettlingTrue
  <2>4. state' = "collecting"
    BY <1>1, <2>1 DEF SettlingTrue
  <2> QED BY <1>1, <2>1, <2>2, <2>3, <2>4 DEF SettlingTrue, SettledInTime
<1> QED BY <1>3, <1>4, <1>5 DEF Accounted

\* The collection ends: settled only if the cache has held still for the settle time.
LEMMA FinishKeeps ==
  ASSUME TypeOK, Accounted, pc # "done",
         NEW end \in Ends, NEW codes \in SUBSET (IssueCodes \ Breaking), Finish(end, codes),
         end = "settled" => ~WindowOver /\ Settled
  PROVE  TypeOK' /\ Accounted' /\ SettledInTime'
<1>1. /\ UNCHANGED <<world, now, canceled, cache, changed, failed, stableSince, wake>>
      /\ state' = end /\ endedAt' = now /\ issues' = issues \cup codes /\ pc' = "done"
  BY DEF Finish
<1>2. TypeOK'
  BY <1>1 DEF TypeOK, world, cache
<1>3. issues' \cap Breaking = {} => issues \cap Breaking = {}
  BY <1>1
<1>4. LogBounds' /\ KeysKept' /\ OrderKept' /\ PodPlaces' /\ FilePlaces'
  BY <1>1, <1>3, CachesKept DEF Accounted
<1>5. /\ SettlingTrue /\ lastChange \in Nat /\ now \in Nat /\ Settle \in Nat
      /\ (stableSince # None => stableSince \in Nat)
      /\ lastChange' = lastChange /\ stableSince' = stableSince /\ now' = now /\ changed' = changed
  BY <1>1, LimitAssumption DEF Accounted, TypeOK, cache
<1>6. ASSUME end = "settled"
      PROVE  /\ issues' \cap Breaking = {}
             /\ lastChange + Settle <= now /\ now < Window /\ ~canceled
  <2>1. /\ stableSince # None /\ CanSettle /\ ~changed /\ now - stableSince >= Settle
        /\ ~canceled /\ ~(now >= Window)
    BY <1>6 DEF Settled, StableStill, WindowOver
  <2>2. lastChange <= stableSince /\ stableSince \in Nat
    BY <1>5, <2>1 DEF SettlingTrue
  <2>3. lastChange + Settle <= now
    BY <1>5, <2>1, <2>2
  <2>4. issues \cap Breaking = {}
    BY <2>1 DEF CanSettle
  <2>5. issues' \cap Breaking = {}
    BY <1>1, <2>4
  <2>6. now < Window
    BY <1>5, <2>1, LimitAssumption
  <2> QED BY <2>1, <2>3, <2>5, <2>6
<1>7. SettlingTrue'
  <2>1. stableSince' # None => /\ stableSince' <= now'
                               /\ lastChange' <= stableSince' \/ (pc' \in {"check", "done"} /\ changed')
    BY <1>1, <1>5 DEF SettlingTrue
  <2>2. lastChange' <= now'
    BY <1>5 DEF SettlingTrue
  <2>3. state' # "collecting"
    BY <1>1 DEF Ends
  <2> QED BY <1>1, <1>6, <2>1, <2>2, <2>3 DEF SettlingTrue
<1>8. SettledInTime'
  BY <1>1, <1>5, <1>6 DEF SettledInTime
<1> QED BY <1>2, <1>4, <1>7, <1>8 DEF Accounted

\* The window is over or canceled: not settled.
LEMMA FinishOverKeeps ==
  ASSUME TypeOK, Accounted, pc # "done", FinishOver
  PROVE  TypeOK' /\ Accounted' /\ SettledInTime'
<1>1. /\ {"collection-cancelled"} \in SUBSET (IssueCodes \ Breaking)
      /\ {"collection-window-ended"} \in SUBSET (IssueCodes \ Breaking)
      /\ "cancelled" \in Ends /\ "window-ended" \in Ends
  BY DEF IssueCodes, Breaking, Ends
<1>2. CASE Finish("cancelled", {"collection-cancelled"})
  BY <1>1, <1>2, FinishKeeps
<1>3. CASE Finish("window-ended", {"collection-window-ended"})
  BY <1>1, <1>3, FinishKeeps
<1> QED BY <1>2, <1>3 DEF FinishOver

\* A read at the head of the loop.
LEMMA TopKeeps ==
  ASSUME TypeOK, Accounted, Top
  PROVE  TypeOK' /\ Accounted' /\ SettledInTime'
<1>1. CASE FinishOver
  BY <1>1, FinishOverKeeps DEF Top
<1>2. CASE pc' = "check" /\ Read
  <2>1. LogBounds /\ KeysKept /\ OrderKept /\ PodPlaces /\ FilePlaces /\ SettlingTrue /\ pc = "top"
    BY DEF Accounted, Top
  <2>2. TypeOK' /\ KeysKept' /\ OrderKept'
    BY <1>2, <2>1, ReadKeys
  <2>3. PodPlaces'
    BY <1>2, <2>1, ReadPodPlaces
  <2>4. FilePlaces'
    BY <1>2, <2>1, ReadFilePlaces
  <2>5. UNCHANGED <<world, now, canceled, stableSince, wake, result>>
    BY <1>2 DEF Read
  <2>6. LogBounds'
    BY <2>1, <2>5 DEF LogBounds, world
  <2>7. Overall
    BY <1>2, <2>1, ReadTakes
  <2>8. SettlingTrue' /\ SettledInTime'
    <3>1. state' = state /\ state = "collecting" /\ now' = now /\ stableSince' = stableSince
      BY <2>1, <2>5 DEF SettlingTrue, result
    <3>2. lastChange <= now /\ lastChange \in Nat /\ now \in Nat /\ lastChange' \in {lastChange, now}
      BY <2>1, <2>7 DEF SettlingTrue, TypeOK, Overall
    <3>3. lastChange' <= now'
      BY <3>1, <3>2
    <3>4. stableSince' # None => /\ stableSince' <= now'
                                 /\ lastChange' <= stableSince' \/ changed'
      BY <2>1, <2>7, <3>1 DEF SettlingTrue, Overall
    <3> QED BY <1>2, <3>1, <3>3, <3>4 DEF SettlingTrue, SettledInTime
  <2> QED BY <2>2, <2>3, <2>4, <2>6, <2>8 DEF Accounted
<1> QED BY <1>1, <1>2 DEF Top

\* After a read, and while waiting for the next.
LEMMA CheckKeeps ==
  ASSUME TypeOK, Accounted, Check \/ Wait
  PROVE  TypeOK' /\ Accounted' /\ SettledInTime'
<1>1. CASE Check /\ WindowOver /\ FinishOver
  BY <1>1, FinishOverKeeps DEF Check
<1>2. CASE Check /\ Finish("read-error", {"log-read-error"})
  <2>1. {"log-read-error"} \in SUBSET (IssueCodes \ Breaking) /\ "read-error" \in Ends
    BY DEF IssueCodes, Breaking, Ends
  <2>2. pc # "done"
    BY <1>2 DEF Check
  <2> QED BY <1>2, <2>1, <2>2, FinishKeeps
<1>3. CASE Check /\ ~WindowOver /\ Settled /\ Finish("settled", {})
  <2>1. {} \in SUBSET (IssueCodes \ Breaking) /\ "settled" \in Ends
    BY DEF Ends
  <2>2. pc # "done"
    BY <1>3 DEF Check
  <2> QED BY <1>3, <2>1, <2>2, FinishKeeps
<1>4. CASE \/ /\ pc = "check" /\ pc' = "wait"
              /\ stableSince' = IF StableStill THEN stableSince ELSE IF CanSettle THEN now ELSE None
              /\ wake' = now + Interval
              /\ UNCHANGED <<world, now, canceled, cache, issues, changed, failed, result>>
           \/ Wait
  <2>1. /\ UNCHANGED <<world, now, canceled, cache, issues, changed, failed, result>>
        /\ pc # "done" /\ pc' \in {"top", "wait"} /\ (pc = "wait" \/ pc = "check")
    BY <1>4 DEF Wait
  <2>2. LogBounds' /\ KeysKept' /\ OrderKept' /\ PodPlaces' /\ FilePlaces'
    BY <2>1, CachesKept DEF Accounted
  <2>3. /\ SettlingTrue /\ now \in 0..MaxTime /\ Interval \in Nat /\ MaxTime \in Nat
        /\ stableSince \in 0..MaxTime \cup {None} /\ lastChange \in Nat
    BY LimitAssumption DEF Accounted, TypeOK
  <2>4. stableSince' \in 0..MaxTime \cup {None} /\ wake' \in Nat
    BY <1>4, <2>3 DEF Wait, TypeOK
  <2>5. TypeOK'
    BY <2>1, <2>4 DEF TypeOK, world, cache, result
  <2>6. /\ now' = now /\ lastChange' = lastChange /\ state' = state /\ issues' = issues
        /\ state = "collecting" /\ lastChange <= now
    BY <2>1, <2>3 DEF SettlingTrue, cache, result
  <2>7. stableSince' # None => stableSince' <= now /\ lastChange <= stableSince'
    <3>1. CASE StableStill /\ stableSince' = stableSince
      BY <2>3, <3>1 DEF StableStill, SettlingTrue
    <3>2. CASE stableSince' = now
      BY <2>3, <2>6, <3>2
    <3>3. CASE Wait
      BY <2>3, <3>3 DEF SettlingTrue, Wait
    <3>4. CASE stableSince' = None
      BY <3>4
    <3> QED BY <1>4, <3>1, <3>2, <3>3, <3>4
  <2>8. SettlingTrue' /\ SettledInTime'
    BY <2>1, <2>6, <2>7 DEF SettlingTrue, SettledInTime
  <2> QED BY <2>2, <2>5, <2>8 DEF Accounted
<1> QED BY <1>1, <1>2, <1>3, <1>4 DEF Check

\* Nothing changes: nothing is lost.
LEMMA StutterKeeps ==
  ASSUME TypeOK, Accounted, SettledInTime, UNCHANGED vars
  PROVE  TypeOK' /\ Accounted' /\ SettledInTime'
<1>1. LogBounds' /\ KeysKept' /\ OrderKept' /\ PodPlaces' /\ FilePlaces'
  BY CachesKept DEF vars, Accounted
<1>2. TypeOK' /\ SettlingTrue' /\ SettledInTime'
  BY DEF vars, world, cache, result, TypeOK, Accounted, SettlingTrue, SettledInTime
<1> QED BY <1>1, <1>2 DEF Accounted

\* In every reachable state the variables have their types, every key stands for a
\* line of its own and the settling is timed truly: the inductive invariant of the
\* collection, from which the theorems below follow.
THEOREM AccountedHolds == Spec => [](TypeOK /\ Accounted /\ SettledInTime)
<1>1. Init => TypeOK /\ Accounted /\ SettledInTime
  BY AccountedInit
<1>2. (TypeOK /\ Accounted /\ SettledInTime) /\ [Next]_vars => (TypeOK /\ Accounted /\ SettledInTime)'
  <2> SUFFICES ASSUME TypeOK, Accounted, SettledInTime, [Next]_vars
               PROVE  TypeOK' /\ Accounted' /\ SettledInTime'
    OBVIOUS
  <2>1. ASSUME NEW s \in Sources, NEW l \in Lines \cup {Other}, Write(s, l)
        PROVE  TypeOK' /\ Accounted' /\ SettledInTime'
    <3>1. TypeOK' /\ Accounted'
      BY <2>1, WriteKeeps
    <3>2. SettledInTime'
      BY <2>1 DEF Write, collector, cache, result, SettledInTime
    <3> QED BY <3>1, <3>2
  <2>2. ASSUME NEW s \in Sources, Rotate(s)
        PROVE  TypeOK' /\ Accounted' /\ SettledInTime'
    <3>1. TypeOK' /\ Accounted'
      BY <2>2, RotateKeeps
    <3>2. SettledInTime'
      BY <2>2 DEF Rotate, collector, cache, result, SettledInTime
    <3> QED BY <3>1, <3>2
  <2>3. CASE Tick \/ Cancel
    BY <2>3, ClockKeeps
  <2>4. CASE Top
    BY <2>4, TopKeeps
  <2>5. CASE Check \/ Wait
    BY <2>5, CheckKeeps
  <2>6. CASE UNCHANGED vars
    BY <2>6, StutterKeeps
  <2> QED BY <2>1, <2>2, <2>3, <2>4, <2>5, <2>6 DEF Next
<1> QED BY <1>1, <1>2, PTL DEF Spec

-----------------------------------------------------------------------------
(* What a collection promises                                              *)

\* The variables have their types.
THEOREM TypeCorrect == Spec => []TypeOK
<1> QED BY AccountedHolds, PTL

\* Settled means nothing new for the settle time, within the window and not canceled.
THEOREM SettledInTimeHolds == Spec => []SettledInTime
<1> QED BY AccountedHolds, PTL

\* A settled collection is, source by source, the last snapshot's records in order.
THEOREM SettledIsCompleteHolds == Spec => []SettledIsComplete
<1>1. Accounted => SettledIsComplete
  <2> SUFFICES ASSUME Accounted, state = "settled", NEW s \in Sources
               PROVE  Collected(s) = lastRead[s]
    BY DEF SettledIsComplete
  <2>1. issues \cap Breaking = {}
    BY DEF Accounted, SettlingTrue
  <2>2. hops[s] = previous[s]
    BY <2>1 DEF Accounted, OrderKept
  <2>3. lastRead[s] = [n \in DOMAIN previous[s] |-> previous[s][n].line]
    BY DEF Accounted, KeysKept
  <2>4. Collected(s) = [n \in DOMAIN previous[s] |-> previous[s][n].line]
    BY <2>2, Zenon DEF Collected
  <2> QED BY <2>3, <2>4, Zenon
<1> QED BY <1>1, AccountedHolds, PTL

\* A sequence of keys without an element twice tells places by keys.
LEMMA PlacesByKey ==
  ASSUME TypeOK, KeysKept, NEW s \in Sources
  PROVE  /\ Collected(s) \in Seq(Lines) /\ DOMAIN Collected(s) = DOMAIN hops[s]
         /\ \A i \in DOMAIN hops[s] : /\ hops[s][i] \in ToSet(hops[s]) /\ hops[s][i] \in Keys
                                      /\ Collected(s)[i] = hops[s][i].line
         /\ \A i, j \in DOMAIN hops[s] : hops[s][i] = hops[s][j] => i = j
<1>1. hops[s] \in Seq(Keys)
  BY DEF TypeOK
<1>2. Len(hops[s]) \in Nat /\ DOMAIN hops[s] = 1..Len(hops[s])
  BY <1>1, LenProperties
<1>3. \A i \in DOMAIN hops[s] : hops[s][i] \in Keys /\ hops[s][i].line \in Lines
  <2>1. \A i \in DOMAIN hops[s] : hops[s][i] \in Keys
    BY <1>1, <1>2, ElementOfSeq
  <2>2. \A k \in Keys : k.line \in Lines
    BY DEF Keys
  <2> QED BY <2>1, <2>2, Zenon
<1>4. Collected(s) \in [1..Len(hops[s]) -> Lines]
  BY <1>2, <1>3 DEF Collected
<1>5. Collected(s) \in Seq(Lines)
  BY <1>2, <1>4, SeqDef
<1>6. \A i \in DOMAIN hops[s] : hops[s][i] \in ToSet(hops[s])
  BY DEF ToSet
<1>7. \A i, j \in DOMAIN hops[s] : hops[s][i] = hops[s][j] => i = j
  BY DEF KeysKept, IsInjective
<1>8. /\ DOMAIN Collected(s) = DOMAIN hops[s]
      /\ \A i \in DOMAIN hops[s] : Collected(s)[i] = hops[s][i].line
  BY DEF Collected
<1> QED BY <1>3, <1>5, <1>6, <1>7, <1>8

\* Whatever the last snapshot of a source showed is kept, equal records each.
THEOREM AllReadIsKeptHolds == Spec => []AllReadIsKept
<1>1. TypeOK /\ Accounted => AllReadIsKept
  <2> SUFFICES ASSUME TypeOK, Accounted, NEW s \in Sources, NEW l \in Lines
               PROVE  Count(Collected(s), l) >= Count(lastRead[s], l)
    BY DEF AllReadIsKept
  <2>1. KeysKept
    BY DEF Accounted
  <2>2. /\ Collected(s) \in Seq(Lines) /\ DOMAIN Collected(s) = DOMAIN hops[s]
        /\ \A i \in DOMAIN hops[s] : Collected(s)[i] = hops[s][i].line
    BY <2>1, PlacesByKey
  <2>3. /\ lastRead[s] = [n \in DOMAIN previous[s] |-> previous[s][n].line]
        /\ ToSet(previous[s]) \subseteq ToSet(hops[s]) /\ IsInjective(previous[s])
    BY <2>1 DEF KeysKept
  <2>4. /\ DOMAIN lastRead[s] = DOMAIN previous[s]
        /\ \A n \in DOMAIN previous[s] : lastRead[s][n] = previous[s][n].line
    BY <2>3
  <2>5. \A n \in DOMAIN previous[s] : \E i \in DOMAIN hops[s] : hops[s][i] = previous[s][n]
    BY <2>3 DEF ToSet
  <2> DEFINE f == [n \in DOMAIN previous[s] |-> CHOOSE i \in DOMAIN hops[s] : hops[s][i] = previous[s][n]]
  <2>6. \A n \in DOMAIN previous[s] : f[n] \in DOMAIN hops[s] /\ hops[s][f[n]] = previous[s][n]
    BY <2>5
  <2> HIDE DEF f
  <2>7. \A n \in DOMAIN lastRead[s] :
           lastRead[s][n] = l => f[n] \in DOMAIN Collected(s) /\ Collected(s)[f[n]] = l
    <3> SUFFICES ASSUME NEW n \in DOMAIN lastRead[s], lastRead[s][n] = l
                 PROVE  f[n] \in DOMAIN Collected(s) /\ Collected(s)[f[n]] = l
      OBVIOUS
    <3>1. f[n] \in DOMAIN hops[s] /\ hops[s][f[n]] = previous[s][n] /\ previous[s][n].line = l
      BY <2>4, <2>6
    <3> QED BY <2>2, <3>1
  <2>apart. \A m, n \in DOMAIN lastRead[s] :
           lastRead[s][m] = l /\ lastRead[s][n] = l /\ f[m] = f[n] => m = n
    <3>1. \A m, n \in DOMAIN previous[s] : previous[s][m] = previous[s][n] => m = n
      BY <2>3 DEF IsInjective
    <3>2. \A m, n \in DOMAIN previous[s] : f[m] = f[n] => previous[s][m] = previous[s][n]
      BY <2>6, Zenon
    <3> QED BY <2>4, <3>1, <3>2, Zenon
  <2>8. Count(lastRead[s], l) <= Count(Collected(s), l)
    BY <2>2, <2>7, <2>apart, CountInjection
  <2>9. Count(lastRead[s], l) \in Nat /\ Count(Collected(s), l) \in Nat
    <3>1. lastRead[s] \in Seq(Lines)
      BY DEF TypeOK
    <3> QED BY <2>2, <3>1, CountType
  <2> QED BY <2>8, <2>9
<1> QED BY <1>1, AccountedHolds, PTL

\* Of equal records no more are counted than were written, however often a part
\* of the log is read again, rotated or truncated in between.
THEOREM NoDoubleCountHolds == Spec => []NoDoubleCount
<1>1. TypeOK /\ Accounted => NoDoubleCount
  <2> SUFFICES ASSUME TypeOK, Accounted, NEW s \in Sources, NEW l \in Lines
               PROVE  Count(Collected(s), l) <= Count(log[s], l)
    BY DEF NoDoubleCount
  <2>1. KeysKept /\ PodPlaces /\ FilePlaces
    BY DEF Accounted
  <2>2. /\ Collected(s) \in Seq(Lines) /\ DOMAIN Collected(s) = DOMAIN hops[s]
        /\ \A i \in DOMAIN hops[s] : /\ hops[s][i] \in ToSet(hops[s]) /\ hops[s][i] \in Keys
                                     /\ Collected(s)[i] = hops[s][i].line
        /\ \A i, j \in DOMAIN hops[s] : hops[s][i] = hops[s][j] => i = j
    BY <2>1, PlacesByKey
  <2>3. log[s] \in Seq(Lines \cup {Other})
    BY DEF TypeOK
  <2>4. CASE FileBacked
    <3>1. PICK f0 : Stands(s, f0)
      BY <2>1, <2>4, FilePlacesStand
    <3>2. /\ \A k \in ToSet(hops[s]) : f0[k] \in DOMAIN log[s] /\ log[s][f0[k]] = k.line
          /\ \A j, k \in ToSet(hops[s]) : f0[j] = f0[k] => j = k
      BY <3>1 DEF Stands, IsInjective
    <3> DEFINE f == [i \in DOMAIN hops[s] |-> f0[hops[s][i]]]
    <3>3. \A i \in DOMAIN hops[s] : f[i] = f0[hops[s][i]]
      OBVIOUS
    <3> HIDE DEF f
    <3>4. \A i \in DOMAIN Collected(s) :
             Collected(s)[i] = l => f[i] \in DOMAIN log[s] /\ log[s][f[i]] = l
      BY <2>2, <3>2, <3>3
    <3>5. \A i, j \in DOMAIN Collected(s) :
             Collected(s)[i] = l /\ Collected(s)[j] = l /\ f[i] = f[j] => i = j
      <4> SUFFICES ASSUME NEW i \in DOMAIN hops[s], NEW j \in DOMAIN hops[s], f[i] = f[j]
                   PROVE  i = j
        BY <2>2
      <4>1. f0[hops[s][i]] = f0[hops[s][j]]
        BY <3>3
      <4>2. hops[s][i] = hops[s][j]
        BY <2>2, <3>2, <4>1
      <4> QED BY <2>2, <4>2
    <3> QED BY <2>3, <3>4, <3>5, CountInjection
  <2>5. CASE ~FileBacked
    <3> DEFINE A == {i \in DOMAIN Collected(s) : Collected(s)[i] = l}
               C == Count(log[s], l)
               h == [i \in A |-> hops[s][i].place]
    <3>1. C \in Nat
      BY <2>3, CountType
    <3>2. \A k \in ToSet(hops[s]) : k.generation = 0 /\ k.place \in 1..Count(log[s], k.line)
      BY <2>1, <2>5 DEF PodPlaces
    <3>3. \A i \in A : /\ i \in DOMAIN hops[s] /\ hops[s][i].line = l /\ hops[s][i].generation = 0
                       /\ hops[s][i].place \in 1..C /\ hops[s][i] \in Keys
      BY <2>2, <3>2
    <3> HIDE DEF A, C
    <3>4. ASSUME NEW i \in A, NEW j \in A, hops[s][i].place = hops[s][j].place PROVE i = j
      <4>1. hops[s][i] = hops[s][j]
        BY <3>3, <3>4, KeysEqual
      <4> QED BY <2>2, <3>3, <4>1
    <3>5. h \in Injection(A, 1..C)
      BY <3>3, <3>4 DEF Injection, IsInjective
    <3> HIDE DEF h
    <3>6. IsFiniteSet(1..C) /\ Cardinality(1..C) = C
      BY <3>1, FS_Interval
    <3>7. Cardinality(A) <= C
      BY <3>5, <3>6, FS_Injection
    <3> QED BY <3>7 DEF A, C, Count
  <2> QED BY <2>4, <2>5
<1> QED BY <1>1, AccountedHolds, PTL

=============================================================================
