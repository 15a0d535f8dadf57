-------------------------- MODULE SelectionProofs --------------------------
(***************************************************************************)
(* What selecting, sorting and joining by places gives (Selection): the    *)
(* lemmas every proof about a list of records stands on.                   *)
(***************************************************************************)
EXTENDS Selection, SequencesExt, FiniteSetTheorems, SequenceTheorems, TLAPS

-----------------------------------------------------------------------------
(* Selecting from a sequence                                               *)

\* The places up to one of them, counted, tell the places of a finite set apart.
LEMMA RankStrict ==
  ASSUME NEW S \in SUBSET Nat, IsFiniteSet(S), NEW i \in S, NEW j \in S, i < j
  PROVE  Cardinality({m \in S : m <= i}) < Cardinality({m \in S : m <= j})
<1> DEFINE A == {m \in S : m <= i}
           B == {m \in S : m <= j}
<1>1. A \in SUBSET B /\ A # B /\ B \in SUBSET S
  <2>1. i \in Nat /\ j \in Nat /\ \A m \in S : m \in Nat
    OBVIOUS
  <2>2. \A m \in A : m \in B
    BY <2>1
  <2>3. j \in B /\ j \notin A
    BY <2>1
  <2>4. B \in SUBSET S
    OBVIOUS
  <2> HIDE DEF A, B
  <2> QED BY <2>2, <2>3, <2>4
<1>2. IsFiniteSet(B) /\ IsFiniteSet(A)
  BY <1>1, FS_Subset
<1>3. Cardinality(A) <= Cardinality(B) /\ Cardinality(B) # Cardinality(A)
  BY <1>1, <1>2, FS_Subset
<1>4. Cardinality(A) \in Nat /\ Cardinality(B) \in Nat
  BY <1>2, FS_CardinalityType
<1> QED BY <1>3, <1>4

\* Nth(S, n) is the n-th place of S: a member with n members up to it.
LEMMA NthExists ==
  ASSUME NEW S \in SUBSET Nat, IsFiniteSet(S), NEW n \in 1..Cardinality(S)
  PROVE  Nth(S, n) \in S /\ Cardinality({m \in S : m <= Nth(S, n)}) = n
<1> DEFINE rank == [i \in S |-> Cardinality({m \in S : m <= i})]
           N == Cardinality(S)
<1>1. N \in Nat
  BY FS_CardinalityType
<1>2. ASSUME NEW i \in S PROVE rank[i] \in 1..N
  <2>1. {m \in S : m <= i} \in SUBSET S
    OBVIOUS
  <2>2. IsFiniteSet({m \in S : m <= i}) /\ Cardinality({m \in S : m <= i}) <= N
    BY <2>1, FS_Subset
  <2>3. Cardinality({m \in S : m <= i}) \in Nat
    BY <2>2, FS_CardinalityType
  <2>4. {m \in S : m <= i} # {}
    OBVIOUS
  <2>5. Cardinality({m \in S : m <= i}) # 0
    BY <2>2, <2>4, FS_EmptySet
  <2> QED BY <1>1, <2>2, <2>3, <2>5
<1>3. ASSUME NEW i \in S, NEW j \in S, rank[i] = rank[j] PROVE i = j
  <2>1. /\ i < j => rank[i] < rank[j]
        /\ j < i => rank[j] < rank[i]
    BY RankStrict
  <2>2. rank[i] \in Nat /\ rank[j] \in Nat
    BY <1>1, <1>2
  <2>3. i \in Nat /\ j \in Nat
    OBVIOUS
  <2> HIDE DEF rank
  <2> QED BY <1>3, <2>1, <2>2, <2>3
<1>4. rank \in Injection(S, 1..N)
  BY <1>2, <1>3 DEF Injection, IsInjective
<1>5. IsFiniteSet(1..N) /\ Cardinality(1..N) = N
  BY <1>1, FS_Interval
<1>6. rank \in Surjection(S, 1..N)
  <2> HIDE DEF rank
  <2> QED BY <1>4, <1>5, FS_Injection
<1>7. \E i \in S : Cardinality({m \in S : m <= i}) = n
  BY <1>6 DEF Surjection
<1> QED BY <1>7 DEF Nth

\* Nth lists the places of S in order, each once.
LEMMA NthOrder ==
  ASSUME NEW S \in SUBSET Nat, IsFiniteSet(S)
  PROVE  /\ \A n \in 1..Cardinality(S) : Nth(S, n) \in S
         /\ \A m, n \in 1..Cardinality(S) : Nth(S, m) = Nth(S, n) => m = n
         /\ \A i \in S : \E n \in 1..Cardinality(S) : Nth(S, n) = i
<1>1. \A n \in 1..Cardinality(S) : Nth(S, n) \in S
  BY NthExists
<1>2. \A m, n \in 1..Cardinality(S) : Nth(S, m) = Nth(S, n) => m = n
  <2> SUFFICES ASSUME NEW m \in 1..Cardinality(S), NEW n \in 1..Cardinality(S), Nth(S, m) = Nth(S, n)
               PROVE  m = n
    OBVIOUS
  <2>1. Cardinality({j \in S : j <= Nth(S, m)}) = m
    BY NthExists
  <2>2. Cardinality({j \in S : j <= Nth(S, n)}) = n
    BY NthExists
  <2> QED BY <2>1, <2>2, Zenon
<1>3. Cardinality(S) \in Nat
  BY FS_CardinalityType
<1> DEFINE f == [n \in 1..Cardinality(S) |-> Nth(S, n)]
<1>4. f \in Injection(1..Cardinality(S), S)
  BY <1>1, <1>2 DEF Injection, IsInjective
<1>5. Cardinality(1..Cardinality(S)) = Cardinality(S)
  BY <1>3, FS_Interval
<1>6. f \in Surjection(1..Cardinality(S), S)
  <2> HIDE DEF f
  <2> QED BY <1>4, <1>5, FS_Injection
<1>7. \A i \in S : \E n \in 1..Cardinality(S) : Nth(S, n) = i
  BY <1>6 DEF Surjection
<1> QED BY <1>1, <1>2, <1>7

\* At(seq, S) is a sequence of the elements of seq at the places S.
LEMMA AtIsSeq ==
  ASSUME NEW T, NEW seq, NEW S \in SUBSET Nat, IsFiniteSet(S), \A i \in S : seq[i] \in T
  PROVE  /\ At(seq, S) \in Seq(T) /\ Len(At(seq, S)) = Cardinality(S)
         /\ DOMAIN At(seq, S) = 1..Cardinality(S)
         /\ \A n \in 1..Cardinality(S) : At(seq, S)[n] = seq[Nth(S, n)] /\ Nth(S, n) \in S
         /\ \A e : e \in ToSet(At(seq, S)) <=> \E i \in S : seq[i] = e
<1>1. Cardinality(S) \in Nat
  BY FS_CardinalityType
<1>2. \A n \in 1..Cardinality(S) : Nth(S, n) \in S
  BY NthOrder
<1>3. At(seq, S) \in [1..Cardinality(S) -> T]
  BY <1>2 DEF At
<1>4. \A n \in 1..Cardinality(S) : At(seq, S)[n] = seq[Nth(S, n)]
  BY DEF At
<1>5. At(seq, S) \in Seq(T)
  BY <1>1, <1>3, SeqDef
<1>6. Len(At(seq, S)) = Cardinality(S) /\ DOMAIN At(seq, S) = 1..Cardinality(S)
  BY <1>1, <1>3, <1>5, LenProperties
<1>7. ToSet(At(seq, S)) = {At(seq, S)[n] : n \in 1..Cardinality(S)}
  BY <1>6 DEF ToSet
<1>8. \A e : e \in ToSet(At(seq, S)) <=> \E i \in S : seq[i] = e
  <2>1. \A i \in S : \E n \in 1..Cardinality(S) : At(seq, S)[n] = seq[i]
    BY <1>4, NthOrder
  <2>2. \A n \in 1..Cardinality(S) : \E i \in S : At(seq, S)[n] = seq[i]
    BY <1>2, <1>4
  <2> QED BY <1>7, <2>1, <2>2
<1> QED BY <1>2, <1>4, <1>5, <1>6, <1>8

\* Selecting from different elements gives different elements.
LEMMA AtInjective ==
  ASSUME NEW seq, NEW S \in SUBSET Nat, IsFiniteSet(S), \A i, j \in S : seq[i] = seq[j] => i = j
  PROVE  IsInjective(At(seq, S))
<1>1. /\ DOMAIN At(seq, S) = 1..Cardinality(S)
      /\ \A n \in 1..Cardinality(S) : At(seq, S)[n] = seq[Nth(S, n)]
  BY DEF At
<1>2. ASSUME NEW m \in 1..Cardinality(S), NEW n \in 1..Cardinality(S), At(seq, S)[m] = At(seq, S)[n]
      PROVE  m = n
  <2>1. Nth(S, m) \in S /\ Nth(S, n) \in S
    BY NthOrder
  <2>2. Nth(S, m) = Nth(S, n)
    BY <1>1, <1>2, <2>1
  <2> QED BY <2>2, NthOrder
<1> QED BY <1>1, <1>2, Zenon DEF IsInjective

\* The n-th place of an interval.
LEMMA NthInterval ==
  ASSUME NEW a \in Nat, NEW b \in Nat, a <= b, NEW n \in 1..b - a
  PROVE  Nth(a + 1 .. b, n) = a + n
<1> DEFINE S == a + 1 .. b
<1>1. S \in SUBSET Nat /\ IsFiniteSet(S) /\ Cardinality(S) = b - a
  <2>1. IsFiniteSet(S) /\ Cardinality(S) = IF a + 1 > b THEN 0 ELSE b - (a + 1) + 1
    BY FS_Interval
  <2> QED BY <2>1
<1>2. a + n \in S
  OBVIOUS
<1>3. {m \in S : m <= a + n} = a + 1 .. a + n
  OBVIOUS
<1>4. Cardinality({m \in S : m <= a + n}) = n
  <2>1. Cardinality(a + 1 .. a + n) = IF a + 1 > a + n THEN 0 ELSE a + n - (a + 1) + 1
    BY FS_Interval
  <2>2. ~(a + 1 > a + n) /\ a + n - (a + 1) + 1 = n
    OBVIOUS
  <2>3. Cardinality(a + 1 .. a + n) = n
    BY <2>1, <2>2
  <2> HIDE DEF S
  <2> QED BY <1>3, <2>3, Zenon
<1> HIDE DEF S
<1>5. Nth(S, n) \in S /\ Cardinality({m \in S : m <= Nth(S, n)}) = n
  BY <1>1, NthExists
<1>6. Nth(S, n) = a + n
  <2>1. Nth(S, n) \in Nat /\ a + n \in Nat
    BY <1>1, <1>2, <1>5
  <2>2. /\ Nth(S, n) < a + n => n < n
        /\ a + n < Nth(S, n) => n < n
    BY <1>1, <1>2, <1>4, <1>5, RankStrict
  <2> QED BY <2>1, <2>2
<1> QED BY <1>6 DEF S

-----------------------------------------------------------------------------
(* Sorting                                                                 *)

\* The elements before one of them, counted, tell the elements of a finite set
\* apart.
LEMMA BeforeStrict ==
  ASSUME NEW S, IsFiniteSet(S), NEW R, StrictOrder(S, R), NEW x \in S, NEW y \in S, <<x, y>> \in R
  PROVE  Cardinality({z \in S : <<z, x>> \in R}) < Cardinality({z \in S : <<z, y>> \in R})
<1> DEFINE A == {z \in S : <<z, x>> \in R}
           B == {z \in S : <<z, y>> \in R}
<1>1. A \in SUBSET B /\ A # B /\ B \in SUBSET S
  <2>1. \A z \in A : z \in B
    BY DEF StrictOrder
  <2>2. x \in B /\ x \notin A
    BY DEF StrictOrder
  <2>3. B \in SUBSET S
    OBVIOUS
  <2> HIDE DEF A, B
  <2> QED BY <2>1, <2>2, <2>3
<1>2. IsFiniteSet(B) /\ IsFiniteSet(A)
  BY <1>1, FS_Subset
<1>3. Cardinality(A) <= Cardinality(B) /\ Cardinality(B) # Cardinality(A)
  BY <1>1, <1>2, FS_Subset
<1>4. Cardinality(A) \in Nat /\ Cardinality(B) \in Nat
  BY <1>2, FS_CardinalityType
<1> QED BY <1>3, <1>4

\* The n-th of a finite set's elements is the one with n - 1 elements before it.
LEMMA RankedExists ==
  ASSUME NEW S, IsFiniteSet(S), NEW R, StrictOrder(S, R), NEW n \in 1..Cardinality(S)
  PROVE  /\ Ranked(S, R)[n] \in S
         /\ Cardinality({y \in S : <<y, Ranked(S, R)[n]>> \in R}) = n - 1
<1> DEFINE rank == [x \in S |-> Cardinality({y \in S : <<y, x>> \in R}) + 1]
           N == Cardinality(S)
<1>1. N \in Nat
  BY FS_CardinalityType
<1>2. ASSUME NEW x \in S
      PROVE  /\ Cardinality({y \in S : <<y, x>> \in R}) \in Nat
             /\ rank[x] = Cardinality({y \in S : <<y, x>> \in R}) + 1 /\ rank[x] \in 1..N
  <2> DEFINE A == {y \in S : <<y, x>> \in R}
  <2>1. A \in SUBSET S /\ A # S
    BY DEF StrictOrder
  <2> HIDE DEF A
  <2>2. IsFiniteSet(A) /\ Cardinality(A) <= N /\ Cardinality(A) # N
    BY <2>1, FS_Subset
  <2>3. Cardinality(A) \in Nat
    BY <2>2, FS_CardinalityType
  <2>4. Cardinality(A) + 1 \in 1..N
    BY <1>1, <2>2, <2>3
  <2> QED BY <2>3, <2>4 DEF A
<1>3. ASSUME NEW x \in S, NEW y \in S, rank[x] = rank[y] PROVE x = y
  <2>1. /\ <<x, y>> \in R => rank[x] < rank[y]
        /\ <<y, x>> \in R => rank[y] < rank[x]
    <3> DEFINE Below(z) == Cardinality({w \in S : <<w, z>> \in R})
    <3>1. /\ <<x, y>> \in R => Below(x) < Below(y)
          /\ <<y, x>> \in R => Below(y) < Below(x)
      BY BeforeStrict
    <3>2. /\ Below(x) \in Nat /\ Below(y) \in Nat
          /\ rank[x] = Below(x) + 1 /\ rank[y] = Below(y) + 1
      BY <1>2
    <3> HIDE DEF Below, rank
    <3> QED BY <3>1, <3>2
  <2>2. rank[x] \in Nat /\ rank[y] \in Nat
    BY <1>1, <1>2
  <2>3. x # y => <<x, y>> \in R \/ <<y, x>> \in R
    BY DEF StrictOrder
  <2> HIDE DEF rank
  <2> QED BY <1>3, <2>1, <2>2, <2>3
<1>4. rank \in Injection(S, 1..N)
  <2>1. rank \in [S -> 1..N]
    BY <1>2
  <2>2. \A x, y \in S : rank[x] = rank[y] => x = y
    BY <1>3
  <2> HIDE DEF rank
  <2> QED BY <2>1, <2>2 DEF Injection, IsInjective
<1>5. IsFiniteSet(1..N) /\ Cardinality(1..N) = N
  BY <1>1, FS_Interval
<1>6. rank \in Surjection(S, 1..N)
  <2> HIDE DEF rank
  <2> QED BY <1>4, <1>5, FS_Injection
<1>7. \E x \in S : rank[x] = n
  <2> HIDE DEF rank
  <2> QED BY <1>6 DEF Surjection
<1>8. \E x \in S : Cardinality({y \in S : <<y, x>> \in R}) = n - 1
  <2>1. PICK x \in S : rank[x] = n
    BY <1>7
  <2> DEFINE below == Cardinality({y \in S : <<y, x>> \in R})
  <2>2. below \in Nat /\ rank[x] = below + 1
    BY <1>2
  <2> HIDE DEF rank, below
  <2>3. below = n - 1
    BY <2>1, <2>2
  <2> QED BY <2>3, Zenon DEF below
<1> QED BY <1>8 DEF Ranked

\* Ranked lists a finite set once, in order.
LEMMA RankedOrder ==
  ASSUME NEW S, IsFiniteSet(S), NEW R, StrictOrder(S, R)
  PROVE  LET q == Ranked(S, R)
             N == Cardinality(S)
         IN  /\ N \in Nat /\ q \in [1..N -> S] /\ q \in Seq(S) /\ Len(q) = N /\ DOMAIN q = 1..N
             /\ \A m, n \in 1..N : q[m] = q[n] => m = n
             /\ \A x \in S : \E n \in 1..N : q[n] = x
             /\ \A m, n \in 1..N : m < n => <<q[m], q[n]>> \in R
<1> DEFINE q == Ranked(S, R)
           N == Cardinality(S)
<1>1. N \in Nat
  BY FS_CardinalityType
<1>2. q \in [1..N -> S]
  <2>1. \A n \in 1..N : q[n] \in S
    BY RankedExists
  <2> DEFINE nth(n) == CHOOSE x \in S : Cardinality({y \in S : <<y, x>> \in R}) = n - 1
  <2>2. q = [n \in 1..N |-> nth(n)]
    BY DEF Ranked
  <2> HIDE DEF q, nth
  <2> QED BY <2>1, <2>2
<1>3. ASSUME NEW n \in 1..N
      PROVE  q[n] \in S /\ Cardinality({y \in S : <<y, q[n]>> \in R}) = n - 1
  BY RankedExists
<1> HIDE DEF q
<1>4. ASSUME NEW m \in 1..N, NEW n \in 1..N, q[m] = q[n] PROVE m = n
  <2>1. m - 1 = n - 1
    BY <1>3, <1>4
  <2> QED BY <1>1, <2>1
<1>5. q \in Seq(S) /\ Len(q) = N /\ DOMAIN q = 1..N
  BY <1>1, <1>2, SeqDef, LenProperties
<1>6. \A x \in S : \E n \in 1..N : q[n] = x
  <2>1. q \in Injection(1..N, S)
    BY <1>2, <1>4 DEF Injection, IsInjective
  <2>2. IsFiniteSet(1..N) /\ Cardinality(1..N) = N
    BY <1>1, FS_Interval
  <2>3. q \in Surjection(1..N, S)
    BY <2>1, <2>2, FS_Injection
  <2> QED BY <2>3 DEF Surjection
<1>7. ASSUME NEW m \in 1..N, NEW n \in 1..N, m < n PROVE <<q[m], q[n]>> \in R
  <2>1. q[m] # q[n]
    BY <1>1, <1>4, <1>7
  <2>2. <<q[n], q[m]>> \in R => n - 1 < m - 1
    <3> DEFINE Below(z) == Cardinality({w \in S : <<w, z>> \in R})
    <3>1. Below(q[m]) = m - 1 /\ Below(q[n]) = n - 1 /\ q[m] \in S /\ q[n] \in S
      BY <1>3
    <3>2. ASSUME <<q[n], q[m]>> \in R PROVE Below(q[n]) < Below(q[m])
      BY <3>1, <3>2, BeforeStrict
    <3> HIDE DEF Below
    <3> QED BY <3>1, <3>2
  <2>3. ~(n - 1 < m - 1)
    BY <1>1, <1>7
  <2>4. q[m] # q[n] => <<q[m], q[n]>> \in R \/ <<q[n], q[m]>> \in R
    BY <1>3 DEF StrictOrder
  <2> QED BY <2>1, <2>2, <2>3, <2>4
<1> QED BY <1>1, <1>2, <1>4, <1>5, <1>6, <1>7 DEF q

-----------------------------------------------------------------------------
(* Joining                                                                 *)

\* The places of finitely many finite sequences are finitely many.
LEMMA PlacesFinite ==
  ASSUME NEW L \in Nat, NEW seqs, DOMAIN seqs = 1..L,
         \A i \in 1..L : \E m \in Nat : DOMAIN seqs[i] = 1..m
  PROVE  IsFiniteSet(Places(seqs))
<1> DEFINE Row(i) == {<<i, n>> : n \in DOMAIN seqs[i]}
           Rows == {Row(i) : i \in DOMAIN seqs}
           f == [i \in 1..L |-> Row(i)]
<1>1. ASSUME NEW i \in 1..L PROVE IsFiniteSet(Row(i))
  <2>1. PICK m \in Nat : DOMAIN seqs[i] = 1..m
    OBVIOUS
  <2> DEFINE g == [n \in 1..m |-> <<i, n>>]
  <2>2. g \in Surjection(1..m, Row(i))
    BY <2>1 DEF Surjection
  <2>3. IsFiniteSet(1..m)
    BY FS_Interval
  <2> QED BY <2>2, <2>3, FS_Surjection
<1>2. IsFiniteSet(1..L)
  <2>1. 1 \in Int /\ L \in Int
    OBVIOUS
  <2> QED BY ONLY <2>1, FS_Interval
<1>3. f \in Surjection(1..L, Rows)
  <2> HIDE DEF Row
  <2> QED BY DEF Surjection
<1>4. IsFiniteSet(Rows)
  <2> HIDE DEF Rows, f
  <2> QED BY <1>2, <1>3, FS_Surjection
<1>5. \A T \in Rows : IsFiniteSet(T)
  <2> HIDE DEF Row
  <2> QED BY <1>1
<1>6. IsFiniteSet(UNION Rows)
  <2> HIDE DEF Rows
  <2> QED BY <1>4, <1>5, FS_UNION
<1>7. Places(seqs) = UNION Rows
  BY Zenon DEF Places
<1> QED BY <1>6, <1>7

\* Joined has the elements of its parts, and nothing else.
JoinedOf(L, T, seqs) ==
    /\ Joined(seqs) \in Seq(T)
    /\ \A i \in 1..L : \A n \in DOMAIN seqs[i] : \E m \in DOMAIN Joined(seqs) : Joined(seqs)[m] = seqs[i][n]
    /\ \A m \in DOMAIN Joined(seqs) : \E i \in 1..L : \E n \in DOMAIN seqs[i] : Joined(seqs)[m] = seqs[i][n]

LEMMA JoinedElements ==
  ASSUME NEW L \in Nat, NEW T, NEW seqs, DOMAIN seqs = 1..L,
         \A i \in 1..L : seqs[i] \in Seq(T)
  PROVE  JoinedOf(L, T, seqs)
<1> DEFINE P == Places(seqs)
           R == InReadingOrder(seqs)
           q == Ranked(P, R)
           N == Cardinality(P)
<1>1. \A i \in 1..L : \E m \in Nat : DOMAIN seqs[i] = 1..m
  BY LenProperties
<1>2. IsFiniteSet(P)
  BY <1>1, PlacesFinite
<1>3. /\ \A x \in P : \E i \in 1..L : \E n \in DOMAIN seqs[i] : x = <<i, n>> /\ n \in Nat /\ i \in Nat
      /\ \A i \in 1..L : \A n \in DOMAIN seqs[i] : <<i, n>> \in P
  <2>1. \A i \in 1..L : \A n \in DOMAIN seqs[i] : n \in Nat
    BY <1>1
  <2> QED BY <2>1 DEF Places
<1>4. StrictOrder(P, R)
  <2>1. \A x, y \in P : <<x, y>> \in R <=> (x[1] < y[1] \/ (x[1] = y[1] /\ x[2] < y[2]))
    BY DEF InReadingOrder
  <2>2. \A x \in P : x[1] \in Nat /\ x[2] \in Nat /\ x = <<x[1], x[2]>>
    BY <1>3
  <2> HIDE DEF P, R
  <2>3. \A x, y, z \in P :
          /\ <<x, y>> \in R => <<y, x>> \notin R
          /\ <<x, y>> \in R /\ <<y, z>> \in R => <<x, z>> \in R
    <3> SUFFICES ASSUME NEW x \in P, NEW y \in P, NEW z \in P
                 PROVE  /\ <<x, y>> \in R => <<y, x>> \notin R
                        /\ <<x, y>> \in R /\ <<y, z>> \in R => <<x, z>> \in R
      OBVIOUS
    <3> DEFINE x1 == x[1]
               x2 == x[2]
               y1 == y[1]
               y2 == y[2]
               z1 == z[1]
               z2 == z[2]
    <3>1. x1 \in Nat /\ x2 \in Nat /\ y1 \in Nat /\ y2 \in Nat /\ z1 \in Nat /\ z2 \in Nat
      BY <2>2
    <3>2. /\ <<x, y>> \in R <=> (x1 < y1 \/ (x1 = y1 /\ x2 < y2))
          /\ <<y, x>> \in R <=> (y1 < x1 \/ (y1 = x1 /\ y2 < x2))
          /\ <<y, z>> \in R <=> (y1 < z1 \/ (y1 = z1 /\ y2 < z2))
          /\ <<x, z>> \in R <=> (x1 < z1 \/ (x1 = z1 /\ x2 < z2))
      BY <2>1
    <3> HIDE DEF x1, x2, y1, y2, z1, z2
    <3> QED BY <3>1, <3>2
  <2>4. \A x, y \in P : x # y => <<x, y>> \in R \/ <<y, x>> \in R
    <3> SUFFICES ASSUME NEW x \in P, NEW y \in P, x # y PROVE <<x, y>> \in R \/ <<y, x>> \in R
      OBVIOUS
    <3>1. x[1] # y[1] \/ x[2] # y[2]
      BY <2>2, Zenon
    <3> QED BY <3>1, <2>1, <2>2
  <2> QED BY <2>3, <2>4 DEF StrictOrder
<1> HIDE DEF P, R
<1>5. /\ N \in Nat /\ DOMAIN q = 1..N /\ \A n \in 1..N : q[n] \in P
      /\ \A x \in P : \E n \in 1..N : q[n] = x
  BY <1>2, <1>4, RankedOrder
<1> HIDE DEF q
<1>6. Joined(seqs) = [n \in 1..N |-> seqs[q[n][1]][q[n][2]]]
  BY <1>5, Zenon DEF Joined, q, P, R
<1>7. DOMAIN Joined(seqs) = 1..N /\ \A m \in 1..N : Joined(seqs)[m] = seqs[q[m][1]][q[m][2]]
  BY <1>6
<1>8. ASSUME NEW m \in 1..N
      PROVE  \E i \in 1..L : \E n \in DOMAIN seqs[i] : Joined(seqs)[m] = seqs[i][n] /\ Joined(seqs)[m] \in T
  <2>1. PICK i \in 1..L : \E n \in DOMAIN seqs[i] : q[m] = <<i, n>>
    BY <1>3, <1>5
  <2>2. PICK n \in DOMAIN seqs[i] : q[m] = <<i, n>>
    BY <2>1
  <2>3. Joined(seqs)[m] = seqs[i][n]
    BY <1>7, <2>2
  <2>4. seqs[i][n] \in T
    BY ElementOfSeq, LenProperties
  <2> QED BY <2>3, <2>4
<1>9. Joined(seqs) \in Seq(T)
  <2>1. Joined(seqs) \in [1..N -> T]
    BY <1>6, <1>7, <1>8
  <2> QED BY <1>5, <2>1, SeqDef
<1>10. ASSUME NEW i \in 1..L, NEW n \in DOMAIN seqs[i]
       PROVE  \E m \in DOMAIN Joined(seqs) : Joined(seqs)[m] = seqs[i][n]
  <2>1. PICK m \in 1..N : q[m] = <<i, n>>
    BY <1>3, <1>5
  <2> QED BY <2>1, <1>7
<1> QED BY <1>7, <1>8, <1>9, <1>10 DEF JoinedOf

\* The first of a set of indices.
LEMMA NthFirst ==
  ASSUME NEW S \in SUBSET Nat, IsFiniteSet(S), S # {}
  PROVE  Nth(S, 1) \in S /\ \A i \in S : Nth(S, 1) <= i
<1> DEFINE Upto(i) == {m \in S : m <= i}
<1>1. 1 \in 1..Cardinality(S)
  BY FS_CardinalityType, FS_EmptySet
<1>2. Nth(S, 1) \in S /\ Cardinality(Upto(Nth(S, 1))) = 1
  BY <1>1, NthExists
<1>3. ASSUME NEW i \in S, i < Nth(S, 1) PROVE FALSE
  <2>1. Cardinality(Upto(i)) < Cardinality(Upto(Nth(S, 1)))
    BY <1>2, <1>3, RankStrict
  <2>2. IsFiniteSet(Upto(i)) /\ i \in Upto(i)
    BY FS_Subset
  <2> HIDE DEF Upto
  <2>3. Cardinality(Upto(i)) \in Nat /\ Cardinality(Upto(i)) # 0
    BY <2>2, FS_CardinalityType, FS_EmptySet
  <2> QED BY <1>2, <2>1, <2>3
<1> DEFINE first == Nth(S, 1)
<1>4. first \in S /\ \A i \in S : ~(i < first)
  BY <1>2, <1>3
<1> HIDE DEF first
<1>5. \A i \in S : first <= i
  BY <1>4
<1> QED BY <1>4, <1>5 DEF first

\* Induction over a set of numbers.
LEMMA Inductive ==
  ASSUME NEW T, 0 \in T, \A n \in Nat : n \in T => n + 1 \in T
  PROVE  \A n \in Nat : n \in T
<1> SUFFICES ASSUME NEW n \in Nat, n \notin T PROVE FALSE
  OBVIOUS
<1> DEFINE S == {m \in 0..n : m \notin T}
           first == Nth(S, 1)
<1>1. S \in SUBSET Nat /\ n \in S
  OBVIOUS
<1>2. IsFiniteSet(S)
  <2>1. IsFiniteSet(0..n) /\ S \in SUBSET (0..n)
    BY FS_Interval
  <2> QED BY <2>1, FS_Subset
<1>3. first \in S /\ \A i \in S : first <= i
  <2> HIDE DEF S
  <2> QED BY <1>1, <1>2, NthFirst
<1> HIDE DEF first
<1>4. first \in 0..n /\ first \notin T /\ first # 0
  BY <1>3
<1>5. first - 1 \in Nat /\ first - 1 \in 0..n /\ ~(first <= first - 1)
  BY <1>4
<1>6. first - 1 \in T
  BY <1>3, <1>5
<1>7. (first - 1) + 1 = first
  BY <1>4
<1> QED BY <1>4, <1>5, <1>6, <1>7

=============================================================================
