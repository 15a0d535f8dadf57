--------------------------- MODULE TopologyProofs ---------------------------
(***************************************************************************)
(* The federated topology, for any snapshots: the order of IDs, the        *)
(* cross-cluster links, and the gateways a probe observes, which the walk  *)
(* finds step by step (FederatedTopology).  Then the snapshots themselves: *)
(* whatever a cluster's objects are, a rebuild makes a topology of them    *)
(* and reports the references they do not grant (ClusterTopology).         *)
(***************************************************************************)
EXTENDS FederatedTopology, SelectionProofs

-----------------------------------------------------------------------------
(* The order of IDs                                                        *)

IDs == Seq(ToSet(Alphabet))

\* Words are told apart by their places.
LEMMA Placed ==
  ASSUME NEW v \in ToSet(Alphabet), NEW w \in ToSet(Alphabet)
  PROVE  Place(v) \in Nat /\ Place(w) \in Nat /\ (Place(v) = Place(w) => v = w)
<1>1. \A u \in ToSet(Alphabet) : Place(u) \in DOMAIN Alphabet /\ Alphabet[Place(u)] = u
  BY DEF ToSet, Place
<1>2. DOMAIN Alphabet \subseteq Nat
  BY AlphabetAssumption, LenProperties
<1> QED BY <1>1, <1>2

\* IDs of the same words are the same.
LEMMA SameWords ==
  ASSUME NEW T, NEW a \in Seq(T), NEW b \in Seq(T), Len(a) = Len(b), \A i \in 1..Len(a) : a[i] = b[i]
  PROVE  a = b
BY SeqEqual

\* a comes before b from the i-th word on: it ends there, or has a smaller word.
Splits(a, b, i) ==
    /\ i \in 1..Len(b) /\ i <= Len(a) + 1
    /\ \A j \in 1..i - 1 : a[j] = b[j]
    /\ i = Len(a) + 1 \/ Place(a[i]) < Place(b[i])

LEMMA BeforeSplits ==
  ASSUME NEW a \in IDs, NEW b \in IDs
  PROVE  Before(a, b) <=> \E i : Splits(a, b, i)
<1> DEFINE A == Len(a)
           B == Len(b)
<1>1. A \in Nat /\ DOMAIN a = 1..A /\ B \in Nat /\ DOMAIN b = 1..B
  BY LenProperties DEF IDs
<1>0. A = B /\ (\A i \in 1..A : a[i] = b[i]) => a = b
  BY SameWords DEF IDs
<1>2. ASSUME A <= B
      PROVE  SubSeq(a, 1, A) = SubSeq(b, 1, A) <=> \A j \in 1..A : a[j] = b[j]
  <2>1. /\ SubSeq(a, 1, A) = [i \in 1..A |-> a[i]]
        /\ SubSeq(b, 1, A) = [i \in 1..A |-> b[i]]
    BY <1>1, <1>2
  <2> HIDE DEF A, B
  <2> QED BY <2>1
<1>3. IsPrefix(a, b) <=> A <= B /\ \A j \in 1..A : a[j] = b[j]
  BY <1>2, Zenon DEF IsPrefix
<1>4. ASSUME IsStrictPrefix(a, b) PROVE Splits(a, b, A + 1)
  <2>1. A <= B /\ (\A j \in 1..A : a[j] = b[j]) /\ a # b
    BY <1>3, <1>4, Zenon DEF IsStrictPrefix
  <2>2. A # B
    BY <1>0, <2>1, Zenon
  <2> HIDE DEF A, B
  <2>3. A + 1 \in 1..B /\ (A + 1) - 1 = A /\ A + 1 <= A + 1
    BY <1>1, <2>1, <2>2
  <2> QED BY <2>1, <2>3 DEF Splits, A, B
<1>5. ASSUME NEW i, Splits(a, b, i), i = A + 1 PROVE IsStrictPrefix(a, b)
  <2>1. A + 1 \in 1..B /\ A <= B /\ A # B /\ (A + 1) - 1 = A
    <3>1. A + 1 \in 1..B
      BY <1>5, Zenon DEF Splits
    <3> HIDE DEF A, B
    <3> QED BY <1>1, <3>1
  <2>2. \A j \in 1..A : a[j] = b[j]
    BY <1>5, <2>1 DEF Splits
  <2>3. a # b
    BY <2>1
  <2> QED BY <1>3, <2>1, <2>2, <2>3, Zenon DEF IsStrictPrefix
<1>6. ASSUME NEW i, i \in DOMAIN a \cap DOMAIN b, Place(a[i]) < Place(b[i]), \A j \in 1..(i - 1) : a[j] = b[j]
      PROVE  Splits(a, b, i)
  BY <1>1, <1>6 DEF Splits
<1>7. ASSUME NEW i, Splits(a, b, i), i # A + 1
      PROVE  i \in DOMAIN a \cap DOMAIN b /\ Place(a[i]) < Place(b[i]) /\ \A j \in 1..(i - 1) : a[j] = b[j]
  BY <1>1, <1>7 DEF Splits
<1>8. ASSUME Before(a, b) PROVE \E i : Splits(a, b, i)
  BY <1>4, <1>6, <1>8 DEF Before
<1>9. ASSUME NEW i, Splits(a, b, i) PROVE Before(a, b)
  <2>1. CASE i = A + 1
    BY <1>5, <1>9, <2>1, Zenon DEF Before
  <2>2. CASE i # A + 1
    BY <1>7, <1>9, <2>2, Zenon DEF Before
  <2> QED BY <2>1, <2>2
<1> QED BY <1>8, <1>9

\* What comes before does not come after.
LEMMA BeforeOneWay ==
  ASSUME NEW a \in IDs, NEW b \in IDs, Before(a, b)
  PROVE  ~Before(b, a)
<1> SUFFICES ASSUME Before(b, a) PROVE FALSE
  OBVIOUS
<1>1. PICK i : Splits(a, b, i)
  BY BeforeSplits
<1>2. PICK k : Splits(b, a, k)
  BY BeforeSplits
<1>3. /\ Len(a) \in Nat /\ DOMAIN a = 1..Len(a) /\ Len(b) \in Nat /\ DOMAIN b = 1..Len(b)
      /\ \A j \in 1..Len(a) : a[j] \in ToSet(Alphabet)
      /\ \A j \in 1..Len(b) : b[j] \in ToSet(Alphabet)
  BY LenProperties, ElementOfSeq DEF IDs
<1>4. i \in 1..Len(b) /\ k \in 1..Len(a) /\ i <= Len(a) + 1 /\ k <= Len(b) + 1
  BY <1>1, <1>2 DEF Splits
<1>5. /\ \A j \in 1..Len(a) : Place(a[j]) \in Nat
      /\ \A j \in 1..Len(b) : Place(b[j]) \in Nat
  BY <1>3, Placed
<1>6. CASE i < k
  <2>1. i \in 1..Len(a) /\ i # Len(a) + 1 /\ i \in 1..k - 1
    BY <1>3, <1>4, <1>6
  <2>2. a[i] = b[i] /\ Place(a[i]) < Place(b[i])
    BY <1>1, <1>2, <2>1 DEF Splits
  <2> QED BY <1>5, <2>1, <2>2
<1>7. CASE k < i
  <2>1. k \in 1..Len(b) /\ k # Len(b) + 1 /\ k \in 1..i - 1
    BY <1>3, <1>4, <1>7
  <2>2. a[k] = b[k] /\ Place(b[k]) < Place(a[k])
    BY <1>1, <1>2, <2>1 DEF Splits
  <2> QED BY <1>4, <1>5, <2>2
<1>8. CASE i = k
  <2>1. i \in 1..Len(a) /\ i \in 1..Len(b) /\ i # Len(a) + 1 /\ i # Len(b) + 1
    BY <1>3, <1>4, <1>8
  <2>2. Place(a[i]) < Place(b[i]) /\ Place(b[i]) < Place(a[i])
    BY <1>1, <1>2, <1>8, <2>1 DEF Splits
  <2> QED BY <1>5, <2>1, <2>2
<1> QED BY <1>4, <1>6, <1>7, <1>8

LEMMA BeforeTransitive ==
  ASSUME NEW a \in IDs, NEW b \in IDs, NEW c \in IDs, Before(a, b), Before(b, c)
  PROVE  Before(a, c)
<1>1. PICK i : Splits(a, b, i)
  BY BeforeSplits
<1>2. PICK k : Splits(b, c, k)
  BY BeforeSplits
<1>3. /\ Len(a) \in Nat /\ Len(b) \in Nat /\ Len(c) \in Nat
      /\ \A j \in 1..Len(a) : Place(a[j]) \in Nat
      /\ \A j \in 1..Len(b) : Place(b[j]) \in Nat
      /\ \A j \in 1..Len(c) : Place(c[j]) \in Nat
  <2>1. \A s \in IDs : Len(s) \in Nat /\ \A j \in 1..Len(s) : s[j] \in ToSet(Alphabet)
    BY LenProperties, ElementOfSeq DEF IDs
  <2> QED BY <2>1, Placed
<1>4. /\ i \in 1..Len(b) /\ i <= Len(a) + 1 /\ k \in 1..Len(c) /\ k <= Len(b) + 1
      /\ \A j \in 1..i - 1 : a[j] = b[j]
      /\ \A j \in 1..k - 1 : b[j] = c[j]
      /\ i = Len(a) + 1 \/ Place(a[i]) < Place(b[i])
      /\ k = Len(b) + 1 \/ Place(b[k]) < Place(c[k])
  BY <1>1, <1>2 DEF Splits
<1>5. CASE i < k
  <2>1. i \in 1..Len(c) /\ i \in 1..k - 1 /\ b[i] = c[i]
    BY <1>3, <1>4, <1>5
  <2>2. \A j \in 1..i - 1 : a[j] = c[j]
    BY <1>3, <1>4, <1>5
  <2>3. i = Len(a) + 1 \/ Place(a[i]) < Place(c[i])
    BY <1>4, <2>1
  <2>4. Splits(a, c, i)
    BY <1>4, <2>1, <2>2, <2>3 DEF Splits
  <2> QED BY <2>4, BeforeSplits
<1>6. CASE ~(i < k)
  <2>1. k <= i /\ k <= Len(a) + 1 /\ k \in 1..Len(b) /\ k # Len(b) + 1
    BY <1>3, <1>4, <1>6
  <2>2. Place(b[k]) < Place(c[k])
    BY <1>4, <2>1
  <2>3. \A j \in 1..k - 1 : a[j] = c[j]
    BY <1>3, <1>4, <2>1
  <2>4. k = Len(a) + 1 \/ Place(a[k]) < Place(c[k])
    <3>1. CASE k = i
      <4> SUFFICES ASSUME k # Len(a) + 1 PROVE Place(a[k]) < Place(c[k])
        OBVIOUS
      <4>1. k \in 1..Len(a) /\ Place(a[k]) < Place(b[k])
        BY <1>3, <1>4, <2>1, <3>1
      <4> DEFINE x == Place(a[k])
                 y == Place(b[k])
                 z == Place(c[k])
      <4>2. x \in Nat /\ y \in Nat /\ z \in Nat /\ x < y /\ y < z
        BY <1>3, <1>4, <2>1, <2>2, <4>1
      <4> HIDE DEF x, y, z
      <4>3. x < z
        BY <4>2
      <4> QED BY <4>3 DEF x, z
    <3>2. CASE k # i
      <4>1. k \in 1..i - 1
        BY <1>4, <2>1, <3>2
      <4> QED BY <1>4, <2>2, <4>1
    <3> QED BY <3>1, <3>2
  <2>5. Splits(a, c, k)
    BY <1>4, <2>1, <2>3, <2>4 DEF Splits
  <2> QED BY <2>5, BeforeSplits
<1> QED BY <1>5, <1>6

\* Of two IDs one comes before the other.
LEMMA BeforeTotal ==
  ASSUME NEW a \in IDs, NEW b \in IDs, a # b
  PROVE  Before(a, b) \/ Before(b, a)
<1> DEFINE A == Len(a)
           B == Len(b)
           D == {i \in 1..A : i <= B /\ a[i] # b[i]}
<1>1. /\ A \in Nat /\ B \in Nat
      /\ \A j \in 1..A : a[j] \in ToSet(Alphabet)
      /\ \A j \in 1..B : b[j] \in ToSet(Alphabet)
  BY LenProperties, ElementOfSeq DEF IDs
<1>0. A = B => \E i \in 1..A : a[i] # b[i]
  BY SameWords DEF IDs
<1>4. ASSUME NEW i, i \in 1..B /\ i <= A + 1, \A j \in 1..i - 1 : a[j] = b[j], i = A + 1 \/ Place(a[i]) < Place(b[i])
      PROVE  Splits(a, b, i)
  BY <1>4 DEF Splits
<1>5. ASSUME NEW i, i \in 1..A /\ i <= B + 1, \A j \in 1..i - 1 : b[j] = a[j], i = B + 1 \/ Place(b[i]) < Place(a[i])
      PROVE  Splits(b, a, i)
  BY <1>5 DEF Splits
<1> HIDE DEF A, B
<1>2. CASE D = {}
  <2>1. \A i \in 1..A : i <= B => a[i] = b[i]
    BY <1>2
  <2>2. A # B
    BY <1>0, <1>1, <2>1
  <2>3. CASE A < B
    <3>1. A + 1 \in 1..B /\ (A + 1) - 1 = A /\ \A j \in 1..A : a[j] = b[j]
      BY <1>1, <2>1, <2>3
    <3>2. Splits(a, b, A + 1)
      BY <1>1, <1>4, <3>1
    <3> QED BY <3>2, BeforeSplits
  <2>4. CASE B < A
    <3>1. B + 1 \in 1..A /\ (B + 1) - 1 = B /\ \A j \in 1..B : b[j] = a[j]
      BY <1>1, <2>1, <2>4
    <3>2. Splits(b, a, B + 1)
      BY <1>1, <1>5, <3>1
    <3> QED BY <3>2, BeforeSplits
  <2> QED BY <1>1, <2>2, <2>3, <2>4
<1>3. CASE D # {}
  <2> DEFINE first == Nth(D, 1)
  <2>1. IsFiniteSet(D) /\ D \in SUBSET Nat
    <3>1. D \in SUBSET (1..A) /\ D \in SUBSET Nat
      BY <1>1
    <3>2. IsFiniteSet(1..A)
      <4>1. 1 \in Int /\ A \in Int
        BY <1>1
      <4> QED BY <4>1, FS_Interval
    <3> HIDE DEF D
    <3> QED BY <3>1, <3>2, FS_Subset
  <2>2. first \in D /\ \A i \in D : first <= i
    <3> HIDE DEF D
    <3> QED BY <1>3, <2>1, NthFirst
  <2> HIDE DEF first
  <2>3. first \in 1..A /\ first \in 1..B /\ a[first] # b[first]
    BY <1>1, <2>2
  <2>4. \A j \in 1..first - 1 : a[j] = b[j]
    <3> SUFFICES ASSUME NEW j \in 1..first - 1, a[j] # b[j] PROVE FALSE
      OBVIOUS
    <3>1. j \in D /\ ~(first <= j)
      BY <1>1, <2>3
    <3> QED BY <2>2, <3>1
  <2>5. Place(a[first]) < Place(b[first]) \/ Place(b[first]) < Place(a[first])
    <3> DEFINE x == Place(a[first])
               y == Place(b[first])
    <3>1. x \in Nat /\ y \in Nat /\ x # y
      BY <1>1, <2>3, Placed
    <3> HIDE DEF x, y
    <3>2. x < y \/ y < x
      BY <3>1
    <3> QED BY <3>2 DEF x, y
  <2>6. Splits(a, b, first) \/ Splits(b, a, first)
    <3>1. /\ first \in 1..A /\ first <= A + 1 /\ first \in 1..B /\ first <= B + 1
          /\ \A j \in 1..first - 1 : b[j] = a[j]
      BY <1>1, <2>3, <2>4
    <3> QED BY <1>4, <1>5, <2>4, <2>5, <3>1
  <2> QED BY <2>6, BeforeSplits
<1> QED BY <1>2, <1>3

LEMMA BeforeOrders ==
  ASSUME NEW S \in SUBSET IDs
  PROVE  StrictOrder(S, {p \in S \X S : Before(p[1], p[2])})
<1> DEFINE R == {p \in S \X S : Before(p[1], p[2])}
<1>1. \A x, y \in S : <<x, y>> \in R <=> Before(x, y)
  OBVIOUS
<1> HIDE DEF R
<1> SUFFICES StrictOrder(S, R)
  BY DEF R
<1> SUFFICES ASSUME NEW x \in S, NEW y \in S, NEW z \in S
             PROVE  /\ <<x, y>> \in R => <<y, x>> \notin R
                    /\ x # y => <<x, y>> \in R \/ <<y, x>> \in R
                    /\ <<x, y>> \in R /\ <<y, z>> \in R => <<x, z>> \in R
  BY DEF StrictOrder
<1>2. Before(x, y) => ~Before(y, x)
  BY BeforeOneWay
<1>3. x # y => Before(x, y) \/ Before(y, x)
  BY BeforeTotal
<1>4. Before(x, y) /\ Before(y, z) => Before(x, z)
  BY BeforeTransitive
<1> QED BY <1>1, <1>2, <1>3, <1>4

-----------------------------------------------------------------------------
(* The walk for declared targets                                           *)

\* The first n steps of the walk.
Walked(top, source, n, w) ==
    /\ w = [i \in 0..n |-> w[i]]
    /\ w[0] = Begin(source)
    /\ \A i \in 1..n : w[i] = Advance(top, w[i - 1])

LEMMA WalkedExists ==
  ASSUME NEW top, NEW source
  PROVE  \A n \in Nat : \E w : Walked(top, source, n, w)
<1> DEFINE T == {n \in Nat : \E w : Walked(top, source, n, w)}
<1>1. 0 \in T
  <2> DEFINE w == [i \in 0..0 |-> Begin(source)]
  <2>1. Walked(top, source, 0, w)
    BY DEF Walked
  <2> QED BY <2>1
<1>2. ASSUME NEW n \in Nat, n \in T PROVE n + 1 \in T
  <2>1. PICK w : Walked(top, source, n, w)
    BY <1>2
  <2> DEFINE v == [i \in 0..n + 1 |-> IF i = n + 1 THEN Advance(top, w[n]) ELSE w[i]]
  <2>2. v = [i \in 0..n + 1 |-> v[i]]
    OBVIOUS
  <2>3. v[0] = Begin(source)
    BY <2>1 DEF Walked
  <2>4. ASSUME NEW i \in 1..n + 1 PROVE v[i] = Advance(top, v[i - 1])
    <3>1. CASE i = n + 1
      <4>1. v[i] = Advance(top, w[n]) /\ i - 1 = n /\ v[n] = w[n]
        BY <3>1
      <4> HIDE DEF v
      <4> QED BY <4>1
    <3>2. CASE i # n + 1
      <4>1. i \in 1..n /\ v[i] = w[i] /\ v[i - 1] = w[i - 1]
        BY <3>2
      <4> HIDE DEF v
      <4> QED BY <2>1, <4>1 DEF Walked
    <3> QED BY <3>1, <3>2
  <2> HIDE DEF v
  <2>5. Walked(top, source, n + 1, v)
    BY <2>2, <2>3, <2>4 DEF Walked
  <2> QED BY <2>5
<1> HIDE DEF T
<1>3. \A n \in Nat : n \in T
  BY <1>1, <1>2, Inductive
<1> QED BY <1>3 DEF T

LEMMA WalkedUnique ==
  ASSUME NEW top, NEW source, NEW m \in Nat, NEW n \in Nat, m <= n,
         NEW v, Walked(top, source, m, v), NEW w, Walked(top, source, n, w)
  PROVE  \A i \in 0..m : v[i] = w[i]
<1> DEFINE T == {i \in Nat : i <= m => v[i] = w[i]}
<1>1. 0 \in T
  BY DEF Walked
<1>2. ASSUME NEW i \in Nat, i \in T PROVE i + 1 \in T
  <2> SUFFICES ASSUME i + 1 <= m PROVE v[i + 1] = w[i + 1]
    OBVIOUS
  <2>1. v[i] = w[i]
    BY <1>2
  <2>2. i + 1 \in 1..m /\ i + 1 \in 1..n /\ (i + 1) - 1 = i
    OBVIOUS
  <2>3. v[i + 1] = Advance(top, v[i])
    BY <2>2 DEF Walked
  <2>4. w[i + 1] = Advance(top, w[i])
    BY <2>2 DEF Walked
  <2> QED BY <2>1, <2>3, <2>4
<1> HIDE DEF T
<1>3. \A i \in Nat : i \in T
  BY <1>1, <1>2, Inductive
<1> QED BY <1>3 DEF T

\* The walk: it begins at the source, and each step advances it.
LEMMA WalkSteps ==
  ASSUME NEW top, NEW source
  PROVE  /\ Walk(top, source)[0] = Begin(source)
         /\ \A n \in Nat : Walk(top, source)[n + 1] = Advance(top, Walk(top, source)[n])
<1> DEFINE Of(n) == CHOOSE w : Walked(top, source, n, w)
           F == [n \in Nat |-> Of(n)[n]]
           Step(f) == [n \in Nat |-> IF n = 0 THEN Begin(source) ELSE Advance(top, f[n - 1])]
<1>1. \A n \in Nat : Walked(top, source, n, Of(n))
  BY WalkedExists
<1> HIDE DEF Of
<1>2. ASSUME NEW n \in Nat PROVE F[n] = IF n = 0 THEN Begin(source) ELSE Advance(top, F[n - 1])
  <2>1. CASE n = 0
    BY <1>1, <2>1 DEF Walked
  <2>2. CASE n # 0
    <3>1. n - 1 \in Nat /\ n - 1 <= n /\ n \in 1..n /\ n - 1 \in 0..n - 1
      BY <2>2
    <3>2. Walked(top, source, n, Of(n)) /\ Walked(top, source, n - 1, Of(n - 1))
      BY <1>1, <3>1
    <3>3. Of(n - 1)[n - 1] = Of(n)[n - 1]
      BY <3>1, <3>2, WalkedUnique
    <3>4. Of(n)[n] = Advance(top, Of(n)[n - 1])
      BY <3>1, <3>2 DEF Walked
    <3>5. F[n] = Of(n)[n] /\ F[n - 1] = Of(n - 1)[n - 1]
      BY <3>1
    <3> HIDE DEF F
    <3> QED BY <2>2, <3>3, <3>4, <3>5
  <2> QED BY <2>1, <2>2
<1>3. F = Step(F)
  <2> DEFINE G == Step(F)
  <2>1. G = [n \in Nat |-> G[n]] /\ \A n \in Nat : G[n] = IF n = 0 THEN Begin(source) ELSE Advance(top, F[n - 1])
    OBVIOUS
  <2>2. F = [n \in Nat |-> F[n]]
    OBVIOUS
  <2> HIDE DEF F, G
  <2>3. F = G
    BY <1>2, <2>1, <2>2
  <2> QED BY <2>3 DEF G
<1>4. Walk(top, source) = CHOOSE f : f = Step(f)
  BY DEF Walk
<1> DEFINE W == Walk(top, source)
<1>5. W = Step(W)
  <2> HIDE DEF F, Step
  <2> QED BY <1>3, <1>4
<1> HIDE DEF W
<1>6. W[0] = Begin(source) /\ \A n \in Nat : W[n + 1] = Advance(top, W[n])
  <2>1. \A n \in Nat : W[n] = IF n = 0 THEN Begin(source) ELSE Advance(top, W[n - 1])
    BY <1>5
  <2>2. W[0] = Begin(source)
    BY <2>1
  <2>3. ASSUME NEW n \in Nat PROVE W[n + 1] = Advance(top, W[n])
    <3>1. n + 1 \in Nat /\ n + 1 # 0 /\ (n + 1) - 1 = n
      OBVIOUS
    <3>2. W[n + 1] = IF n + 1 = 0 THEN Begin(source) ELSE Advance(top, W[(n + 1) - 1])
      BY <2>1, <3>1
    <3> QED BY <3>1, <3>2
  <2> QED BY <2>2, <2>3
<1> QED BY <1>6 DEF W

-----------------------------------------------------------------------------
(* The federated topology                                                  *)

\* What a cluster's snapshot holds: finitely many nodes, and edges of the
\* relations that exist within a cluster.
Edges(relations) == [from : IDs, to : IDs, rel : relations]
Relations == ToSet(RelationOrder)
IsSnapshot(s) ==
    /\ IsFiniteSet(DOMAIN s.nodes) /\ DOMAIN s.nodes \in SUBSET IDs
    /\ s.edges \in Seq(Edges(Relations \ {"cross-cluster"}))

\* The same of all clusters together, and of the links between them.
IsFederated(top) ==
    /\ IsFiniteSet(DOMAIN top.nodes) /\ DOMAIN top.nodes \in SUBSET IDs
    /\ top.edges \in Seq(Edges(Relations \ {"cross-cluster"}))
    /\ \A i \in DOMAIN top.edges : ClusterOf(top.edges[i].from) = ClusterOf(top.edges[i].to)
    /\ IsFiniteSet(top.links)
    /\ \A l \in top.links : l.from \in DOMAIN top.nodes /\ l.to \in DOMAIN top.nodes /\ l.rel = "cross-cluster"

LEMMA GlobalIDs ==
  ASSUME NEW c \in ToSet(Alphabet), NEW x \in IDs
  PROVE  globalID(c, x) \in IDs /\ Head(globalID(c, x)) = c /\ Tail(globalID(c, x)) = x
<1> DEFINE W == ToSet(Alphabet)
<1>1. c \in W /\ x \in Seq(W)
  BY DEF IDs
<1> HIDE DEF W
<1>2. <<c>> \o x \in Seq(W) /\ Head(<<c>> \o x) = c
  BY <1>1
<1>3. Tail(<<c>> \o x) = x
  <2>1. /\ Len(<<c>> \o x) = Len(x) + 1 /\ Len(x) \in Nat
        /\ \A i \in 1..Len(x) : (<<c>> \o x)[i + 1] = x[i]
    BY <1>1
  <2> DEFINE y == <<c>> \o x
  <2> HIDE DEF y
  <2>2. y \in Seq(W) /\ Len(y) = Len(x) + 1 /\ y # <<>>
    BY <1>2, <2>1, EmptySeq DEF y
  <2>3. Tail(y) \in Seq(W) /\ Len(Tail(y)) = Len(x) /\ \A i \in 1..Len(x) : Tail(y)[i] = y[i + 1]
    BY <2>1, <2>2, HeadTailProperties
  <2>4. \A i \in 1..Len(x) : Tail(y)[i] = x[i]
    BY <2>1, <2>3 DEF y
  <2>5. Tail(y) = x
    BY <1>1, <2>3, <2>4, SeqEqual
  <2> QED BY <2>5 DEF y
<1> QED BY <1>2, <1>3 DEF W, IDs, globalID

\* The words are finitely many.
LEMMA WordsFinite ==
  IsFiniteSet(ToSet(Alphabet))
<1>1. DOMAIN Alphabet = 1..Len(Alphabet) /\ Len(Alphabet) \in Nat
  BY AlphabetAssumption, LenProperties
<1>2. IsFiniteSet(1..Len(Alphabet))
  BY <1>1, FS_Interval
<1> DEFINE f == [i \in DOMAIN Alphabet |-> Alphabet[i]]
<1>3. f \in Surjection(DOMAIN Alphabet, ToSet(Alphabet))
  BY DEF Surjection, ToSet
<1> HIDE DEF f
<1> QED BY <1>1, <1>2, <1>3, FS_Surjection

\* The links that are discovered join nodes of the topology.
LEMMA LinksJoinNodes ==
  ASSUME NEW nodes, IsFiniteSet(DOMAIN nodes), NEW edges
  PROVE  LET links == discoverLinks(nodes, edges).links
         IN  /\ IsFiniteSet(links)
             /\ \A l \in links : l.from \in DOMAIN nodes /\ l.to \in DOMAIN nodes /\ l.rel = "cross-cluster"
<1> DEFINE outbound == {id \in DOMAIN nodes : outboundKeys(nodes[id]) # {}}
           Best(id) == bestEntryMatches(nodes, edges, id)
           Link(id) == [from |-> id, to |-> CHOOSE to \in Best(id) : TRUE, rel |-> "cross-cluster", rule |-> LinkRule(nodes[id]),
                        selected |-> ingressSelectingRegistry(nodes, edges, id)]
           S == {x \in outbound : Cardinality(Best(x)) = 1}
           links == discoverLinks(nodes, edges).links
<1>1. links = {Link(id) : id \in S}
  BY DEF discoverLinks
<1>2. S \in SUBSET DOMAIN nodes
  OBVIOUS
<1>3. ASSUME NEW id \in S PROVE Link(id).from = id /\ Link(id).to \in DOMAIN nodes /\ Link(id).rel = "cross-cluster"
  <2>1. Best(id) \in SUBSET DOMAIN nodes
    BY DEF bestEntryMatches, EntryMatches
  <2>2. Cardinality(Best(id)) = 1
    BY <1>3
  <2> HIDE DEF Best
  <2>3. Best(id) # {}
    <3>1. Cardinality({}) = 0
      BY FS_EmptySet
    <3> QED BY <2>2, <3>1
  <2> QED BY <2>1, <2>3
<1> HIDE DEF Link, S, links
<1>4. IsFiniteSet(S)
  BY <1>2, FS_Subset
<1>5. IsFiniteSet(links)
  <2> DEFINE f == [id \in S |-> Link(id)]
  <2>1. f \in Surjection(S, links)
    BY <1>1 DEF Surjection
  <2> HIDE DEF f
  <2> QED BY <1>4, <2>1, FS_Surjection
<1>6. \A l \in links : l.from \in DOMAIN nodes /\ l.to \in DOMAIN nodes /\ l.rel = "cross-cluster"
  BY <1>1, <1>2, <1>3
<1> QED BY <1>5, <1>6 DEF links

\* The parts of the federated topology.
FederatedNodes(snapshots) ==
    [id \in UNION {{globalID(c, x) : x \in DOMAIN snapshots[c].nodes} : c \in DOMAIN snapshots} |->
       snapshots[ClusterOf(id)].nodes[Tail(id)]]
InOrderOfPlace(S) == Ranked(S, {p \in S \X S : Place(p[1]) < Place(p[2])})
EdgesOfCluster(snapshots, c) ==
    [i \in DOMAIN snapshots[c].edges |->
       [from |-> globalID(c, snapshots[c].edges[i].from), to |-> globalID(c, snapshots[c].edges[i].to), rel |-> snapshots[c].edges[i].rel]]
FederatedEdges(snapshots) ==
    LET clusters == InOrderOfPlace(DOMAIN snapshots)
    IN  Joined([n \in DOMAIN clusters |-> EdgesOfCluster(snapshots, clusters[n])])

LEMMA FederatedParts ==
  ASSUME NEW snapshots
  PROVE  LET top == federated(snapshots)
         IN  /\ top.nodes = FederatedNodes(snapshots) /\ top.edges = FederatedEdges(snapshots)
             /\ top.links = discoverLinks(FederatedNodes(snapshots), FederatedEdges(snapshots)).links
BY DEF federated, FederatedNodes, FederatedEdges, EdgesOfCluster, InOrderOfPlace

LEMMA FederatedIs ==
  ASSUME NEW snapshots, DOMAIN snapshots \in SUBSET ToSet(Alphabet), \A c \in DOMAIN snapshots : IsSnapshot(snapshots[c])
  PROVE  IsFederated(federated(snapshots))
<1> DEFINE top == federated(snapshots)
           C == DOMAIN snapshots
           nodes == FederatedNodes(snapshots)
           edges == FederatedEdges(snapshots)
           clusters == InOrderOfPlace(C)
           N == Cardinality(C)
           All == Edges(Relations \ {"cross-cluster"})
           E == {e \in All : ClusterOf(e.from) = ClusterOf(e.to)}
<1>1. top.nodes = nodes /\ top.edges = edges /\ top.links = discoverLinks(nodes, edges).links
  BY FederatedParts
<1>2. IsFiniteSet(C)
  BY WordsFinite, FS_Subset
<1>3. IsFiniteSet(DOMAIN nodes) /\ DOMAIN nodes \in SUBSET IDs
  <2> DEFINE Of(c) == {globalID(c, x) : x \in DOMAIN snapshots[c].nodes}
             Sets == {Of(c) : c \in C}
  <2>1. DOMAIN nodes = UNION Sets
    BY DEF FederatedNodes
  <2>2. ASSUME NEW c \in C PROVE IsFiniteSet(Of(c)) /\ Of(c) \in SUBSET IDs
    <3> DEFINE D == DOMAIN snapshots[c].nodes
               f == [x \in D |-> globalID(c, x)]
    <3>1. IsFiniteSet(D) /\ D \in SUBSET IDs
      BY DEF IsSnapshot
    <3>2. f \in Surjection(D, Of(c))
      BY DEF Surjection
    <3>3. \A x \in D : globalID(c, x) \in IDs
      BY <3>1, GlobalIDs
    <3>4. Of(c) \in SUBSET IDs
      BY <3>3
    <3> HIDE DEF f, D, Of
    <3> QED BY <3>1, <3>2, <3>4, FS_Surjection
  <2> HIDE DEF Of
  <2>3. IsFiniteSet(Sets)
    <3> DEFINE f == [c \in C |-> Of(c)]
    <3>1. f \in Surjection(C, Sets)
      BY DEF Surjection
    <3> HIDE DEF f, Sets, C
    <3> QED BY <1>2, <3>1, FS_Surjection
  <2>4. \A T \in Sets : IsFiniteSet(T) /\ T \in SUBSET IDs
    BY <2>2
  <2> HIDE DEF Sets
  <2>5. IsFiniteSet(UNION Sets)
    BY <2>3, <2>4, FS_UNION
  <2> QED BY <2>1, <2>4, <2>5
<1>4. edges \in Seq(E)
  <2> DEFINE R == {p \in C \X C : Place(p[1]) < Place(p[2])}
             seqs == [n \in DOMAIN clusters |-> EdgesOfCluster(snapshots, clusters[n])]
  <2>1. StrictOrder(C, R)
    <3>1. \A c, d \in C : <<c, d>> \in R <=> Place(c) < Place(d)
      OBVIOUS
    <3>2. \A c, d \in C : Place(c) \in Nat /\ Place(d) \in Nat /\ (Place(c) = Place(d) => c = d)
      BY Placed
    <3> HIDE DEF R, C
    <3> SUFFICES ASSUME NEW x \in C, NEW y \in C, NEW z \in C
                 PROVE  /\ <<x, y>> \in R => <<y, x>> \notin R
                        /\ x # y => <<x, y>> \in R \/ <<y, x>> \in R
                        /\ <<x, y>> \in R /\ <<y, z>> \in R => <<x, z>> \in R
      BY DEF StrictOrder
    <3> DEFINE a == Place(x)
               b == Place(y)
               c == Place(z)
    <3>3. a \in Nat /\ b \in Nat /\ c \in Nat /\ (a = b => x = y)
      BY <3>2
    <3>4. /\ <<x, y>> \in R <=> a < b
          /\ <<y, x>> \in R <=> b < a
          /\ <<y, z>> \in R <=> b < c
          /\ <<x, z>> \in R <=> a < c
      BY <3>1
    <3> HIDE DEF a, b, c
    <3> QED BY <3>3, <3>4
  <2>2. N \in Nat /\ DOMAIN clusters = 1..N /\ \A n \in 1..N : clusters[n] \in C
    <3>1. clusters = Ranked(C, R)
      BY DEF InOrderOfPlace
    <3> HIDE DEF clusters, R, C
    <3> QED BY <1>2, <2>1, <3>1, RankedOrder
  <2>3. ASSUME NEW c \in C PROVE EdgesOfCluster(snapshots, c) \in Seq(E)
    <3> DEFINE own == snapshots[c].edges
               L == Len(own)
               Global(i) == [from |-> globalID(c, own[i].from), to |-> globalID(c, own[i].to), rel |-> own[i].rel]
    <3>1. own \in Seq(All)
      BY DEF IsSnapshot
    <3> HIDE DEF All
    <3>2. L \in Nat /\ DOMAIN own = 1..L /\ \A i \in 1..L : own[i] \in All
      <4> HIDE DEF own
      <4> QED BY <3>1, LenProperties, ElementOfSeq
    <3> HIDE DEF own, L
    <3>3. \A i \in 1..L : Global(i) \in E
      <4> SUFFICES ASSUME NEW i \in 1..L PROVE Global(i) \in E
        OBVIOUS
      <4>1. own[i].from \in IDs /\ own[i].to \in IDs /\ own[i].rel \in Relations \ {"cross-cluster"}
        BY <3>2 DEF All, Edges
      <4>2. /\ globalID(c, own[i].from) \in IDs /\ globalID(c, own[i].to) \in IDs
            /\ ClusterOf(globalID(c, own[i].from)) = c /\ ClusterOf(globalID(c, own[i].to)) = c
        BY <4>1, GlobalIDs DEF ClusterOf
      <4>3. Global(i) \in All
        BY <4>1, <4>2 DEF All, Edges
      <4>4. ClusterOf(Global(i).from) = ClusterOf(Global(i).to)
        BY <4>2
      <4> HIDE DEF Global
      <4> QED BY <4>3, <4>4
    <3>4. EdgesOfCluster(snapshots, c) = [i \in 1..L |-> Global(i)]
      BY <3>2, Zenon DEF EdgesOfCluster, own
    <3> HIDE DEF Global, E
    <3>5. EdgesOfCluster(snapshots, c) \in [1..L -> E]
      BY <3>3, <3>4
    <3> QED BY <3>2, <3>5, SeqDef
  <2> HIDE DEF clusters, C, E
  <2>4. DOMAIN seqs = 1..N /\ \A n \in 1..N : seqs[n] \in Seq(E)
    BY <2>2, <2>3
  <2>5. edges = Joined(seqs)
    BY Zenon DEF FederatedEdges, clusters, C
  <2> HIDE DEF seqs, edges, N
  <2>6. N \in Nat
    BY <2>2
  <2>7. JoinedOf(N, E, seqs)
    BY <2>4, <2>6, JoinedElements, Zenon
  <2> QED BY <2>5, <2>7 DEF JoinedOf
<1> HIDE DEF nodes, edges
<1>5. edges \in Seq(All) /\ \A i \in DOMAIN edges : ClusterOf(edges[i].from) = ClusterOf(edges[i].to)
  <2>1. E \in SUBSET All
    OBVIOUS
  <2>2. \A i \in DOMAIN edges : edges[i] \in E
    <3> HIDE DEF E
    <3> QED BY <1>4, ElementOfSeq, LenProperties
  <2>3. edges \in Seq(All)
    <3> HIDE DEF E, All
    <3> QED BY <1>4, <2>1, SeqMonotonic
  <2> QED BY <2>2, <2>3
<1> HIDE DEF E
<1>6. LET links == discoverLinks(nodes, edges).links
      IN  /\ IsFiniteSet(links)
          /\ \A l \in links : l.from \in DOMAIN nodes /\ l.to \in DOMAIN nodes /\ l.rel = "cross-cluster"
  BY <1>3, LinksJoinNodes
<1> HIDE DEF top
<1>7. IsFederated(top)
  BY <1>1, <1>3, <1>5, <1>6 DEF IsFederated, All
<1> QED BY <1>7 DEF top

-----------------------------------------------------------------------------
(* The links between the clusters                                          *)

\* The entries of other clusters an outbound node could mean, and those of
\* them that are as good a match as a given one.
LinkCandidates(nodes, x) ==
    {y \in DOMAIN nodes : /\ ClusterOf(y) # ClusterOf(x)
                          /\ \E k \in outboundKeys(nodes[x]) : k \in entryKeys(nodes[y])}
LinkRivals(nodes, x, y) == {z \in LinkCandidates(nodes, x) \ {y} : EntryRank(nodes[z]) <= EntryRank(nodes[y])}

\* No edge within a cluster takes a candidate away.
LEMMA MatchesAreCandidates ==
  ASSUME NEW nodes, NEW edges, NEW x,
         \A i \in DOMAIN edges : ClusterOf(edges[i].from) = ClusterOf(edges[i].to)
  PROVE  EntryMatches(nodes, edges, x) = LinkCandidates(nodes, x)
<1>1. \A y : ClusterOf(y) # ClusterOf(x) => ~edgeExists(edges, x, y)
  BY DEF edgeExists
<1> QED BY <1>1, Zenon DEF EntryMatches, LinkCandidates

\* Some match is best, and it is the only one exactly when nothing rivals it.
LEMMA BestMatch ==
  ASSUME NEW nodes, NEW edges, NEW x, EntryMatches(nodes, edges, x) = LinkCandidates(nodes, x)
  PROVE  LET best == bestEntryMatches(nodes, edges, x)
         IN  /\ best \subseteq LinkCandidates(nodes, x)
             /\ LinkCandidates(nodes, x) # {} => best # {}
             /\ \A y \in LinkCandidates(nodes, x) : best = {y} <=> LinkRivals(nodes, x, y) = {}
<1> DEFINE M == LinkCandidates(nodes, x)
           Rank(y) == EntryRank(nodes[y])
           best == bestEntryMatches(nodes, edges, x)
<1>1. best = {y \in M : \A z \in M : Rank(y) <= Rank(z)}
  BY DEF bestEntryMatches
<1>2. \A y : LinkRivals(nodes, x, y) = {z \in M \ {y} : Rank(z) <= Rank(y)}
  BY DEF LinkRivals
<1>3. \A y : Rank(y) \in 0..2
  BY DEF EntryRank
<1> HIDE DEF M, Rank, best
<1>4. ASSUME M # {} PROVE best # {}
  <2>1. CASE \E y \in M : Rank(y) = 0
    BY <1>1, <1>3, <2>1
  <2>2. CASE ~(\E y \in M : Rank(y) = 0) /\ \E y \in M : Rank(y) = 1
    BY <1>1, <1>3, <2>2
  <2>3. CASE \A y \in M : Rank(y) # 0 /\ Rank(y) # 1
    <3>1. \A y \in M : Rank(y) = 2
      BY <1>3, <2>3
    <3> QED BY <1>1, <1>4, <3>1
  <2> QED BY <2>1, <2>2, <2>3
<1>5. ASSUME NEW y \in M PROVE best = {y} <=> LinkRivals(nodes, x, y) = {}
  <2>1. ASSUME best = {y}, NEW z \in M \ {y}, Rank(z) <= Rank(y) PROVE FALSE
    <3>1. z \in best
      BY <1>1, <1>3, <2>1
    <3> QED BY <2>1, <3>1
  <2>2. ASSUME \A z \in M \ {y} : ~(Rank(z) <= Rank(y)) PROVE best = {y}
    <3>1. \A z \in M : Rank(y) <= Rank(z)
      BY <1>3, <2>2
    <3>2. \A z \in M \ {y} : z \notin best
      BY <1>1, <2>2
    <3> QED BY <1>1, <3>1, <3>2
  <2> QED BY <1>2, <2>1, <2>2
<1> QED BY <1>1, <1>4, <1>5 DEF M, best

\* One best match is a link, several are a finding.
LinkedToBest(found, best, x) ==
    /\ \A y : best = {y} <=> \E l \in found.links : l.from = x /\ l.to = y
    /\ [title |-> AmbiguousLink, target |-> x] \in found.findings <=> best # {} /\ \A y : best # {y}

LEMMA LinksAreBest ==
  ASSUME NEW nodes, IsFiniteSet(DOMAIN nodes), NEW edges, NEW x \in DOMAIN nodes
  PROVE  LinkedToBest(discoverLinks(nodes, edges), bestEntryMatches(nodes, edges, x), x)
<1> DEFINE Best(id) == bestEntryMatches(nodes, edges, id)
           outbound == {id \in DOMAIN nodes : outboundKeys(nodes[id]) # {}}
           Link(id) == [from |-> id, to |-> CHOOSE to \in Best(id) : TRUE, rel |-> "cross-cluster", rule |-> LinkRule(nodes[id]),
                        selected |-> ingressSelectingRegistry(nodes, edges, id)]
           Finding(id) == [title |-> AmbiguousLink, target |-> id]
           found == discoverLinks(nodes, edges)
<1>1. /\ found.links = {Link(id) : id \in {o \in outbound : Cardinality(Best(o)) = 1}}
      /\ found.findings = {Finding(id) : id \in {o \in outbound : Cardinality(Best(o)) > 1}}
  BY DEF discoverLinks
<1>2. Best(x) # {} => x \in outbound
  BY DEF bestEntryMatches, EntryMatches
<1>3. /\ Cardinality(Best(x)) \in Nat
      /\ Cardinality(Best(x)) = 0 <=> Best(x) = {}
      /\ Cardinality(Best(x)) = 1 <=> \E y : Best(x) = {y}
  <2>1. Best(x) \in SUBSET DOMAIN nodes
    BY DEF bestEntryMatches, EntryMatches
  <2> HIDE DEF Best
  <2>2. IsFiniteSet(Best(x))
    BY <2>1, FS_Subset
  <2> QED BY <2>2, FS_EmptySet, FS_Singleton, FS_CardinalityType
<1>4. \A id : Link(id).from = id /\ Link(id).to = CHOOSE to \in Best(id) : TRUE
  OBVIOUS
<1>5. \A id, o : Finding(id) = Finding(o) => id = o
  OBVIOUS
<1> HIDE DEF Link, Finding, found, outbound
<1>6. ASSUME NEW y PROVE Best(x) = {y} <=> \E l \in found.links : l.from = x /\ l.to = y
  <2> HIDE DEF Best
  <2>1. ASSUME Best(x) = {y} PROVE Link(x) \in found.links /\ Link(x).from = x /\ Link(x).to = y
    <3>1. x \in outbound /\ Cardinality(Best(x)) = 1
      BY <1>2, <1>3, <2>1
    <3>2. Link(x).to = y
      BY <1>4, <2>1
    <3> QED BY <1>1, <1>4, <3>1, <3>2
  <2>2. ASSUME NEW l \in found.links, l.from = x, l.to = y PROVE Best(x) = {y}
    <3>1. l = Link(x) /\ Cardinality(Best(x)) = 1
      BY <1>1, <1>4, <2>2
    <3>2. PICK z : Best(x) = {z}
      BY <1>3, <3>1
    <3>3. Link(x).to = z
      BY <1>4, <3>2
    <3> QED BY <2>2, <3>1, <3>2, <3>3
  <2> QED BY <2>1, <2>2
<1>7. Finding(x) \in found.findings <=> Best(x) # {} /\ \A y : Best(x) # {y}
  <2> HIDE DEF Best
  <2>1. Finding(x) \in found.findings <=> x \in outbound /\ Cardinality(Best(x)) > 1
    BY <1>1, <1>5
  <2>2. Cardinality(Best(x)) > 1 <=> Best(x) # {} /\ \A y : Best(x) # {y}
    <3> DEFINE n == Cardinality(Best(x))
    <3>1. n \in Nat
      BY <1>3
    <3> HIDE DEF n
    <3>2. n > 1 <=> n # 0 /\ n # 1
      BY <3>1
    <3>3. n = Cardinality(Best(x))
      BY DEF n
    <3> QED BY <1>3, <3>2, <3>3, Zenon
  <2> QED BY <1>2, <2>1, <2>2
<1> QED BY <1>6, <1>7, Zenon DEF found, Finding, LinkedToBest

\* No cluster reports the finding of an ambiguous link itself: those of the
\* federated topology are what discoverLinks has found.
LEMMA AmbiguitiesAreFound ==
  ASSUME NEW snapshots, NEW x,
         \A c \in DOMAIN snapshots : \A f \in snapshots[c].findings : f.title # AmbiguousLink
  PROVE  LET finding == [title |-> AmbiguousLink, target |-> x]
         IN  finding \in federated(snapshots).findings
                <=> finding \in discoverLinks(FederatedNodes(snapshots), FederatedEdges(snapshots)).findings
<1> DEFINE own == UNION {{[title |-> f.title, target |-> globalID(c, f.target)] : f \in snapshots[c].findings} : c \in DOMAIN snapshots}
           finding == [title |-> AmbiguousLink, target |-> x]
<1>1. federated(snapshots).findings
        = discoverLinks(FederatedNodes(snapshots), FederatedEdges(snapshots)).findings \cup own
  BY DEF federated, FederatedNodes, FederatedEdges, EdgesOfCluster, InOrderOfPlace
<1>2. finding \notin own
  <2>1. SUFFICES ASSUME NEW c \in DOMAIN snapshots, NEW f \in snapshots[c].findings,
                        finding = [title |-> f.title, target |-> globalID(c, f.target)]
                 PROVE  FALSE
    OBVIOUS
  <2>2. f.title = AmbiguousLink
    BY <2>1
  <2> QED BY <2>2
<1> HIDE DEF finding, own
<1>3. finding \in federated(snapshots).findings
        <=> finding \in discoverLinks(FederatedNodes(snapshots), FederatedEdges(snapshots)).findings
  BY <1>1, <1>2
<1> QED BY <1>3 DEF finding

-----------------------------------------------------------------------------
(* What the walk has found                                                 *)

\* The edges a walk may follow, and the target a followed link declares.
Followed(top) == {[from |-> e.from, to |-> e.to, rel |-> e.rel] : e \in ToSet(top.edges) \cup top.links}
DeclaredBy(top, e) ==
    [gateway |-> owningGateway(top, e.to), declared |-> TRUE, predecessor |-> owningGateway(top, e.from)]
DeclaredTargets(top) == {DeclaredBy(top, e) : e \in {x \in Followed(top) : x.rel = "cross-cluster"}}

\* The targets found so far are declared by links, each once, and not the source.
IsWalk(top, source, walk) ==
    /\ DOMAIN walk = {"queue", "edges", "visited", "seen", "targets"}
    /\ walk.edges \in Seq(Followed(top))
    /\ source \in walk.seen
    /\ walk.targets \in Seq(DeclaredTargets(top))
    /\ \A i \in DOMAIN walk.targets : walk.targets[i].gateway \in walk.seen \ {source}
    /\ \A i, j \in DOMAIN walk.targets : walk.targets[i].gateway = walk.targets[j].gateway => i = j

\* What leads on from a node is a list of edges that exist.
LEMMA ForwardIs ==
  ASSUME NEW top, IsFederated(top), NEW id
  PROVE  Forward(top, id) \in Seq(Followed(top))
<1> DEFINE out == {[from |-> e.from, to |-> e.to, rel |-> e.rel] : e \in {x \in ToSet(top.edges) \cup top.links : x.from = id}}
           Relation(e) == CHOOSE i \in DOMAIN RelationOrder : RelationOrder[i] = e.rel
           Sooner(e, f) == Relation(e) < Relation(f) \/ (e.rel = f.rel /\ Before(e.to, f.to))
           R == {p \in out \X out : Sooner(p[1], p[2])}
<1>1. Forward(top, id) = Ranked(out, R)
  BY Zenon DEF Forward
<1>2. out \in SUBSET Followed(top)
  BY DEF Followed
<1>3. IsFiniteSet(out)
  <2> DEFINE All == ToSet(top.edges) \cup top.links
             S == {x \in All : x.from = id}
             f == [e \in S |-> [from |-> e.from, to |-> e.to, rel |-> e.rel]]
  <2>1. IsFiniteSet(ToSet(top.edges))
    <3> DEFINE edges == top.edges
               L == Len(edges)
               g == [i \in 1..L |-> edges[i]]
    <3>1. edges \in Seq(Edges(Relations \ {"cross-cluster"}))
      BY DEF IsFederated
    <3> HIDE DEF edges
    <3>2. L \in Nat /\ DOMAIN edges = 1..L
      BY <3>1, LenProperties
    <3>3. IsFiniteSet(1..L)
      BY <3>2, FS_Interval
    <3>4. g \in Surjection(1..L, ToSet(edges))
      BY <3>2 DEF Surjection, ToSet
    <3> HIDE DEF g, L
    <3>5. IsFiniteSet(ToSet(edges))
      BY <3>3, <3>4, FS_Surjection
    <3> QED BY <3>5 DEF edges
  <2>2. IsFiniteSet(top.links)
    BY DEF IsFederated
  <2>3. IsFiniteSet(All)
    BY <2>1, <2>2, FS_Union
  <2>4. IsFiniteSet(S)
    <3>1. S \in SUBSET All
      OBVIOUS
    <3> HIDE DEF S, All
    <3> QED BY <2>3, <3>1, FS_Subset
  <2>5. f \in Surjection(S, out)
    BY DEF Surjection
  <2> HIDE DEF f, S, out
  <2> QED BY <2>4, <2>5, FS_Surjection
<1>4. \A e \in out : e.from = id /\ e.to \in IDs /\ e.rel \in Relations /\ e = [from |-> e.from, to |-> e.to, rel |-> e.rel]
  <2>1. \A e \in ToSet(top.edges) : e.to \in IDs /\ e.rel \in Relations
    <3> DEFINE edges == top.edges
    <3>1. edges \in Seq(Edges(Relations \ {"cross-cluster"}))
      BY DEF IsFederated
    <3> HIDE DEF edges
    <3>2. \A e \in ToSet(edges) : e \in Edges(Relations \ {"cross-cluster"})
      BY <3>1, ElementOfSeq, LenProperties DEF ToSet
    <3>3. \A e \in ToSet(edges) : e.to \in IDs /\ e.rel \in Relations
      BY <3>2 DEF Edges
    <3> QED BY <3>3 DEF edges
  <2>2. \A e \in top.links : e.to \in IDs /\ e.rel \in Relations
    <3>1. "cross-cluster" \in Relations
      <4>1. RelationOrder[2] = "cross-cluster" /\ 2 \in DOMAIN RelationOrder
        BY DEF RelationOrder
      <4> QED BY <4>1 DEF Relations, ToSet
    <3> QED BY <3>1 DEF IsFederated
  <2> QED BY <2>1, <2>2
<1>5. StrictOrder(out, R)
  <2>1. \A e, f \in out : <<e, f>> \in R <=> Sooner(e, f)
    OBVIOUS
  <2>2. ASSUME NEW e \in out, NEW f \in out
        PROVE  Relation(e) \in Nat /\ Relation(f) \in Nat /\ (Relation(e) = Relation(f) <=> e.rel = f.rel)
    <3>1. e.rel \in Relations /\ f.rel \in Relations
      BY <1>4
    <3>2. \A r \in Relations : LET n == CHOOSE i \in DOMAIN RelationOrder : RelationOrder[i] = r
                               IN  n \in DOMAIN RelationOrder /\ RelationOrder[n] = r
      BY DEF Relations, ToSet
    <3>3. DOMAIN RelationOrder \in SUBSET Nat
      BY DEF RelationOrder
    <3> QED BY <3>1, <3>2, <3>3
  <2> HIDE DEF R, Relation
  <2> SUFFICES ASSUME NEW x \in out, NEW y \in out, NEW z \in out
               PROVE  /\ <<x, y>> \in R => <<y, x>> \notin R
                      /\ x # y => <<x, y>> \in R \/ <<y, x>> \in R
                      /\ <<x, y>> \in R /\ <<y, z>> \in R => <<x, z>> \in R
    BY DEF StrictOrder
  <2>3. /\ x.to \in IDs /\ y.to \in IDs /\ z.to \in IDs
        /\ x.rel = y.rel /\ x.to = y.to => x = y
    BY <1>4
  <2> HIDE DEF out
  <2> DEFINE a == Relation(x)
             b == Relation(y)
             c == Relation(z)
  <2>4. /\ a \in Nat /\ b \in Nat /\ c \in Nat
        /\ (a = b <=> x.rel = y.rel) /\ (b = c <=> y.rel = z.rel) /\ (a = c <=> x.rel = z.rel)
    BY <2>2
  <2>5. /\ <<x, y>> \in R <=> (a < b \/ (x.rel = y.rel /\ Before(x.to, y.to)))
        /\ <<y, x>> \in R <=> (b < a \/ (y.rel = x.rel /\ Before(y.to, x.to)))
        /\ <<y, z>> \in R <=> (b < c \/ (y.rel = z.rel /\ Before(y.to, z.to)))
        /\ <<x, z>> \in R <=> (a < c \/ (x.rel = z.rel /\ Before(x.to, z.to)))
    BY <2>1
  <2>6. /\ Before(x.to, y.to) => ~Before(y.to, x.to)
        /\ x.to # y.to => Before(x.to, y.to) \/ Before(y.to, x.to)
        /\ Before(x.to, y.to) /\ Before(y.to, z.to) => Before(x.to, z.to)
    BY <2>3, BeforeOneWay, BeforeTotal, BeforeTransitive
  <2> HIDE DEF a, b, c
  <2> QED BY <2>3, <2>4, <2>5, <2>6
<1> HIDE DEF out, R
<1>6. Ranked(out, R) \in Seq(out)
  BY <1>3, <1>5, RankedOrder
<1> QED BY <1>1, <1>2, <1>6, SeqMonotonic

\* A visit changes nothing of this.
LEMMA VisitKeeps ==
  ASSUME NEW top, NEW source, NEW walk, IsWalk(top, source, walk), NEW id
  PROVE  IsWalk(top, source, Visit(walk, id))
<1> DEFINE w1 == [walk EXCEPT !.visited = walk.visited \cup {id}]
           w2 == [w1 EXCEPT !.queue = Append(w1.queue, id)]
<1>1. CASE id \in walk.visited
  BY <1>1 DEF Visit
<1>2. CASE id \notin walk.visited
  <2>1. Visit(walk, id) = [walk EXCEPT !.visited = @ \cup {id}, !.queue = Append(@, id)]
    BY <1>2, Zenon DEF Visit
  <2>2. [walk EXCEPT !.visited = @ \cup {id}, !.queue = Append(@, id)] = w2
    OBVIOUS
  <2>3. /\ DOMAIN w2 = DOMAIN walk
        /\ w2.edges = walk.edges /\ w2.seen = walk.seen /\ w2.targets = walk.targets
    OBVIOUS
  <2> DEFINE new == Visit(walk, id)
  <2>4. /\ DOMAIN new = DOMAIN walk
        /\ new.edges = walk.edges /\ new.seen = walk.seen /\ new.targets = walk.targets
    BY <2>1, <2>2, <2>3, Zenon
  <2> HIDE DEF new
  <2>5. IsWalk(top, source, new)
    BY <2>4, Zenon DEF IsWalk
  <2> QED BY <2>5 DEF new
<1> QED BY <1>1, <1>2

\* Following an edge that exists finds at most one more target, which a link
\* declares.
LEMMA FollowKeeps ==
  ASSUME NEW top, NEW source, NEW walk, IsWalk(top, source, walk), NEW edge \in Followed(top)
  PROVE  IsWalk(top, source, Follow(top, walk, edge))
<1> DEFINE gateway == IF edge.rel = "cross-cluster" THEN owningGateway(top, edge.to) ELSE NoGateway
           target == [gateway |-> gateway, declared |-> TRUE, predecessor |-> owningGateway(top, edge.from)]
           known == gateway = NoGateway \/ gateway \in walk.seen
           found == [walk EXCEPT !.seen = @ \cup {gateway}, !.targets = Append(@, target)]
           reached == IF known THEN walk ELSE Visit(found, gateway)
<1>1. Follow(top, walk, edge) = Visit(reached, edge.to)
  BY Zenon DEF Follow
<1>2. ASSUME ~known PROVE IsWalk(top, source, found)
  <2>1. gateway = owningGateway(top, edge.to) /\ edge.rel = "cross-cluster" /\ gateway \notin walk.seen
    BY <1>2
  <2>2. target \in DeclaredTargets(top) /\ target.gateway = gateway
    <3>1. target = DeclaredBy(top, edge)
      BY <2>1 DEF DeclaredBy
    <3> QED BY <2>1, <3>1 DEF DeclaredTargets
  <2> DEFINE w1 == [walk EXCEPT !.seen = walk.seen \cup {gateway}]
             w2 == [w1 EXCEPT !.targets = Append(w1.targets, target)]
  <2> HIDE DEF gateway, target
  <2>3. found = w2
    OBVIOUS
  <2>4. DOMAIN walk = {"queue", "edges", "visited", "seen", "targets"}
    BY DEF IsWalk
  <2>5. /\ DOMAIN w2 = DOMAIN walk /\ w2.edges = walk.edges
        /\ w2.seen = walk.seen \cup {gateway} /\ w2.targets = Append(walk.targets, target)
    BY <2>4
  <2> HIDE DEF found, w2
  <2>6. /\ DOMAIN found = DOMAIN walk /\ found.edges = walk.edges
        /\ found.seen = walk.seen \cup {gateway} /\ found.targets = Append(walk.targets, target)
    BY <2>3, <2>5, Zenon
  <2> DEFINE T == DeclaredTargets(top)
             old == walk.targets
             new == Append(old, target)
  <2> HIDE DEF T
  <2>7. old \in Seq(T)
    BY DEF IsWalk, T
  <2> HIDE DEF old
  <2>8. /\ new \in Seq(T) /\ Len(new) = Len(old) + 1 /\ Len(old) \in Nat
        /\ DOMAIN new = 1..Len(new) /\ DOMAIN old = 1..Len(old)
        /\ \A i \in 1..Len(old) : new[i] = old[i]
        /\ new[Len(old) + 1] = target
    BY <2>2, <2>7, AppendProperties, LenProperties DEF T
  <2> HIDE DEF new
  <2>9. \A i \in DOMAIN new : i \in DOMAIN old \/ i = Len(old) + 1
    BY <2>8
  <2>10. /\ \A i \in DOMAIN old : old[i].gateway \in walk.seen \ {source}
         /\ \A i, j \in DOMAIN old : old[i].gateway = old[j].gateway => i = j
         /\ source \in walk.seen
    BY DEF IsWalk, old
  <2>11. \A i \in DOMAIN new : new[i].gateway \in found.seen \ {source}
    BY <2>1, <2>2, <2>6, <2>8, <2>9, <2>10
  <2>12. \A i, j \in DOMAIN new : new[i].gateway = new[j].gateway => i = j
    BY <2>1, <2>2, <2>8, <2>9, <2>10
  <2>13. found.targets = new
    BY <2>6 DEF new, old
  <2>14. /\ DOMAIN found = {"queue", "edges", "visited", "seen", "targets"}
         /\ found.edges \in Seq(Followed(top)) /\ source \in found.seen
    BY <2>4, <2>6, <2>10 DEF IsWalk
  <2>15. found.targets \in Seq(DeclaredTargets(top))
    BY <2>8, <2>13 DEF T
  <2>16. /\ \A i \in DOMAIN found.targets : found.targets[i].gateway \in found.seen \ {source}
         /\ \A i, j \in DOMAIN found.targets : found.targets[i].gateway = found.targets[j].gateway => i = j
    BY <2>11, <2>12, <2>13, Zenon
  <2> QED BY <2>14, <2>15, <2>16, Zenon DEF IsWalk
<1>3. IsWalk(top, source, reached)
  <2>1. CASE known
    BY <2>1, Zenon
  <2>2. CASE ~known
    BY <1>2, <2>2, VisitKeeps, Zenon
  <2> QED BY <2>1, <2>2
<1> HIDE DEF reached
<1> QED BY <1>1, <1>3, VisitKeeps

LEMMA AdvanceKeeps ==
  ASSUME NEW top, IsFederated(top), NEW source, NEW walk, IsWalk(top, source, walk)
  PROVE  IsWalk(top, source, Advance(top, walk))
<1>1. CASE walk.edges # <<>>
  <2> DEFINE edges == walk.edges
             rest == [walk EXCEPT !.edges = Tail(@)]
  <2>1. Advance(top, walk) = Follow(top, rest, Head(edges))
    BY <1>1, Zenon DEF Advance
  <2>2. edges \in Seq(Followed(top)) /\ edges # <<>>
    BY <1>1 DEF IsWalk
  <2>3. rest = [walk EXCEPT !.edges = Tail(edges)]
    OBVIOUS
  <2> HIDE DEF edges, rest
  <2>4. Head(edges) \in Followed(top) /\ Tail(edges) \in Seq(Followed(top))
    BY <2>2
  <2>5. "edges" \in DOMAIN walk
    BY DEF IsWalk
  <2>6. /\ DOMAIN rest = DOMAIN walk /\ rest.edges = Tail(edges)
        /\ rest.seen = walk.seen /\ rest.targets = walk.targets
    BY <2>3, <2>5
  <2>7. rest.edges \in Seq(Followed(top))
    BY <2>4, <2>6, Zenon
  <2>8. IsWalk(top, source, rest)
    BY <2>6, <2>7, Zenon DEF IsWalk
  <2> QED BY <2>1, <2>4, <2>8, FollowKeeps
<1>2. CASE walk.edges = <<>> /\ ~(walk.queue = <<>> \/ Cardinality(walk.visited) > MaxVisited)
  <2> DEFINE next == [walk EXCEPT !.queue = Tail(@), !.edges = Forward(top, Head(walk.queue))]
             edges == Forward(top, Head(walk.queue))
  <2>1. Advance(top, walk) = next
    BY <1>2, Zenon DEF Advance
  <2>2. edges \in Seq(Followed(top))
    BY ForwardIs
  <2>3. "edges" \in DOMAIN walk
    BY DEF IsWalk
  <2> DEFINE w1 == [walk EXCEPT !.queue = Tail(walk.queue)]
             w2 == [w1 EXCEPT !.edges = edges]
  <2> HIDE DEF edges
  <2>4. next = w2
    BY DEF edges
  <2> HIDE DEF next
  <2>5. /\ DOMAIN next = DOMAIN walk /\ next.edges = edges
        /\ next.seen = walk.seen /\ next.targets = walk.targets
    BY <2>3, <2>4
  <2>6. next.edges \in Seq(Followed(top))
    BY <2>2, <2>5, Zenon
  <2>7. IsWalk(top, source, next)
    BY <2>5, <2>6, Zenon DEF IsWalk
  <2> QED BY <2>1, <2>7
<1>3. CASE walk.edges = <<>> /\ (walk.queue = <<>> \/ Cardinality(walk.visited) > MaxVisited)
  BY <1>3, Zenon DEF Advance
<1> QED BY <1>1, <1>2, <1>3

\* The walk finds only targets that links declare.
LEMMA WalkIs ==
  ASSUME NEW top, IsFederated(top), NEW source, NEW n \in Nat
  PROVE  IsWalk(top, source, Walk(top, source)[n])
<1> DEFINE W == Walk(top, source)
           T == {m \in Nat : IsWalk(top, source, W[m])}
<1>1. W[0] = Begin(source) /\ \A m \in Nat : W[m + 1] = Advance(top, W[m])
  BY WalkSteps
<1> HIDE DEF W
<1>2. 0 \in T
  <2>1. IsWalk(top, source, Begin(source))
    BY DEF IsWalk, Begin
  <2> QED BY <1>1, <2>1
<1>3. ASSUME NEW m \in Nat, m \in T PROVE m + 1 \in T
  BY <1>1, <1>3, AdvanceKeeps
<1> HIDE DEF T
<1>4. \A m \in Nat : m \in T
  BY <1>2, <1>3, Inductive
<1> QED BY <1>4 DEF T, W

-----------------------------------------------------------------------------
(* The gateways to observe                                                 *)

\* Every declared target comes from a link of the topology.
LEMMA DeclaredByLink ==
  ASSUME NEW top, IsFederated(top), NEW t \in DeclaredTargets(top)
  PROVE  \E l \in top.links : t.gateway = owningGateway(top, l.to) /\ t.predecessor = owningGateway(top, l.from)
<1>1. PICK e \in Followed(top) : e.rel = "cross-cluster" /\ t = DeclaredBy(top, e)
  BY DEF DeclaredTargets
<1>2. PICK l \in ToSet(top.edges) \cup top.links : e = [from |-> l.from, to |-> l.to, rel |-> l.rel]
  BY DEF Followed
<1>3. l.rel = "cross-cluster" /\ l.from = e.from /\ l.to = e.to
  BY <1>1, <1>2
<1>4. l \notin ToSet(top.edges)
  <2> DEFINE edges == top.edges
             E == Edges(Relations \ {"cross-cluster"})
  <2>1. edges \in Seq(E)
    BY DEF IsFederated
  <2> HIDE DEF edges, E
  <2>2. \A x \in ToSet(edges) : x \in E
    BY <2>1, ElementOfSeq, LenProperties DEF ToSet
  <2>3. \A x \in E : x.rel # "cross-cluster"
    BY DEF E, Edges
  <2> QED BY <1>3, <2>2, <2>3 DEF edges
<1> QED BY <1>1, <1>2, <1>3, <1>4 DEF DeclaredBy

\* A list of targets: each another gateway than the source, once, and a declared
\* one is where a link leads that leaves its predecessor.
AreTargets(top, source, targets) ==
    /\ targets \in Seq(ToSet(targets))
    /\ \A i, j \in DOMAIN targets : targets[i].gateway = targets[j].gateway => i = j
    /\ \A i \in DOMAIN targets :
          /\ targets[i].gateway # source
          /\ targets[i].declared =>
             \E l \in top.links : /\ targets[i].gateway = owningGateway(top, l.to)
                                  /\ targets[i].predecessor = owningGateway(top, l.from)

LEMMA DiscoveredTargets ==
  ASSUME NEW top, IsFederated(top), NEW source
  PROVE  AreTargets(top, source, discoverProbeGatewayTargets(top, source))
<1> DEFINE walked == discoverDeclaredProbeGatewayTargets(top, source)
           S == {i \in DOMAIN walked : gatewayHasObservableRuntime(top, walked[i].gateway)}
           declared == At(walked, S)
           G == {declared[i].gateway : i \in DOMAIN declared}
           others == {id \in DOMAIN top.nodes : gatewayHasObservableRuntime(top, id)} \ ({source} \cup G)
           R == {p \in others \X others : Before(p[1], p[2])}
           sorted == Ranked(others, R)
           Other(id) == [gateway |-> id, declared |-> FALSE, predecessor |-> NoGateway]
           rest == [i \in DOMAIN sorted |-> Other(sorted[i])]
           T == DeclaredTargets(top)
           U == {Other(id) : id \in others}
           M == Cardinality(S)
           N == Cardinality(others)
<1>1. discoverProbeGatewayTargets(top, source) = declared \o rest
  BY Zenon DEF discoverProbeGatewayTargets, WithOthers
<1>2. Steps(top) \in Nat
  <2> DEFINE a == Cardinality(DOMAIN top.nodes)
             b == Len(top.edges)
             c == Cardinality(top.links)
  <2>1. a \in Nat /\ c \in Nat
    BY FS_CardinalityType DEF IsFederated
  <2>2. b \in Nat
    BY LenProperties DEF IsFederated
  <2>3. Steps(top) = 1 + a + 2 * (b + c)
    BY DEF Steps
  <2> HIDE DEF a, b, c
  <2> QED BY <2>1, <2>2, <2>3
<1>3. /\ walked \in Seq(T)
      /\ \A i \in DOMAIN walked : walked[i].gateway # source
      /\ \A i, j \in DOMAIN walked : walked[i].gateway = walked[j].gateway => i = j
  <2> DEFINE walk == Walk(top, source)[Steps(top)]
  <2>1. IsWalk(top, source, walk)
    BY <1>2, WalkIs
  <2>2. walked = walk.targets
    BY DEF discoverDeclaredProbeGatewayTargets
  <2> HIDE DEF walk, walked
  <2> QED BY <2>1, <2>2 DEF IsWalk
<1> HIDE DEF walked
<1>4. Len(walked) \in Nat /\ DOMAIN walked = 1..Len(walked) /\ \A i \in DOMAIN walked : walked[i] \in T
  <2> HIDE DEF T
  <2> QED BY <1>3, LenProperties, ElementOfSeq
<1>5. S \in SUBSET DOMAIN walked /\ S \in SUBSET Nat /\ IsFiniteSet(S)
  <2>1. S \in SUBSET (1..Len(walked)) /\ S \in SUBSET Nat
    BY <1>4
  <2>2. IsFiniteSet(1..Len(walked))
    <3>1. 1 \in Int /\ Len(walked) \in Int
      BY <1>4
    <3> QED BY <3>1, FS_Interval
  <2> HIDE DEF S
  <2> QED BY <1>4, <2>1, <2>2, FS_Subset
<1> HIDE DEF S, T
<1>6. /\ declared \in Seq(T) /\ M \in Nat /\ Len(declared) = M /\ DOMAIN declared = 1..M
      /\ \A n \in 1..M : declared[n] = walked[Nth(S, n)] /\ Nth(S, n) \in DOMAIN walked
  <2>1. \A i \in S : walked[i] \in T
    BY <1>4, <1>5
  <2>2. M \in Nat
    BY <1>5, FS_CardinalityType
  <2>3. /\ declared \in Seq(T) /\ Len(declared) = M /\ DOMAIN declared = 1..M
        /\ \A n \in 1..M : declared[n] = walked[Nth(S, n)] /\ Nth(S, n) \in S
    <3>1. \A n \in 1..M : Nth(S, n) \in S
      BY <1>5, NthOrder
    <3>2. DOMAIN declared = 1..M /\ declared = [n \in 1..M |-> declared[n]] /\ \A n \in 1..M : declared[n] = walked[Nth(S, n)]
      BY DEF At
    <3> HIDE DEF declared, M
    <3>3. declared \in [1..M -> T]
      BY <2>1, <3>1, <3>2
    <3> QED BY <2>2, <3>1, <3>2, <3>3, SeqDef, LenProperties
  <2> QED BY <1>5, <2>2, <2>3
<1>7. \A m, n \in 1..M : declared[m].gateway = declared[n].gateway => m = n
  <2> SUFFICES ASSUME NEW m \in 1..M, NEW n \in 1..M, declared[m].gateway = declared[n].gateway PROVE m = n
    OBVIOUS
  <2>1. Nth(S, m) = Nth(S, n)
    BY <1>3, <1>6
  <2> QED BY <1>5, <2>1, NthOrder
<1>8. \A n \in 1..M : declared[n] \in T /\ declared[n].gateway # source /\ declared[n].gateway \in G
  BY <1>3, <1>4, <1>6
<1>9. \A t \in T : \E l \in top.links : t.gateway = owningGateway(top, l.to) /\ t.predecessor = owningGateway(top, l.from)
  BY DeclaredByLink DEF T
<1>10. others \in SUBSET IDs /\ IsFiniteSet(others) /\ \A id \in others : id # source /\ id \notin G
  <2>1. others \in SUBSET DOMAIN top.nodes
    OBVIOUS
  <2>2. IsFiniteSet(DOMAIN top.nodes) /\ DOMAIN top.nodes \in SUBSET IDs
    BY DEF IsFederated
  <2>3. IsFiniteSet(others)
    <3> HIDE DEF others
    <3> QED BY <2>1, <2>2, FS_Subset
  <2> QED BY <2>1, <2>2, <2>3
<1> HIDE DEF declared, G, others
<1>11. StrictOrder(others, R)
  BY <1>10, BeforeOrders
<1> HIDE DEF R
<1>12. /\ N \in Nat /\ DOMAIN sorted = 1..N
       /\ \A n \in 1..N : sorted[n] \in others
       /\ \A m, n \in 1..N : sorted[m] = sorted[n] => m = n
  BY <1>10, <1>11, RankedOrder
<1> HIDE DEF sorted, N
<1>13. DOMAIN rest = 1..N /\ \A n \in 1..N : rest[n] = Other(sorted[n]) /\ rest[n].gateway = sorted[n] /\ rest[n].declared = FALSE
  BY <1>12
<1>14. rest \in Seq(U)
  <2>1. rest \in [1..N -> U]
    BY <1>12
  <2> HIDE DEF rest, U
  <2> QED BY <1>12, <2>1, SeqDef
<1> HIDE DEF rest, M, Other, U
<1> DEFINE all == declared \o rest
           V == T \cup U
<1>15. Len(rest) = N
  BY <1>12, <1>13, <1>14, LenProperties
<1>16. /\ all \in Seq(V) /\ DOMAIN all = 1..M + N
       /\ \A i \in 1..M : all[i] = declared[i]
       /\ \A i \in M + 1 .. M + N : i - M \in 1..N /\ all[i] = rest[i - M]
  <2>1. declared \in Seq(V) /\ rest \in Seq(V)
    BY <1>6, <1>14, SeqMonotonic
  <2> HIDE DEF V
  <2>2. /\ all \in Seq(V) /\ Len(all) = Len(declared) + Len(rest)
        /\ \A i \in 1..Len(declared) + Len(rest) :
              all[i] = IF i <= Len(declared) THEN declared[i] ELSE rest[i - Len(declared)]
    <3> HIDE DEF G, others, R, sorted
    <3> QED BY ONLY <2>1, ConcatProperties
  <2> HIDE DEF all
  <2>3. Len(declared) = M /\ Len(rest) = N /\ M \in Nat /\ N \in Nat
    BY <1>6, <1>12, <1>15
  <2>4. DOMAIN all = 1..M + N
    BY <2>2, <2>3, LenProperties
  <2>5. \A i \in 1..M : i \in 1..M + N /\ i <= M
    BY <2>3
  <2>6. \A i \in M + 1 .. M + N : i \in 1..M + N /\ ~(i <= M) /\ i - M \in 1..N
    BY <2>3
  <2> QED BY <2>2, <2>3, <2>4, <2>5, <2>6
<1> HIDE DEF all, V
<1>17. \A i \in DOMAIN all : i \in 1..M \/ i \in M + 1 .. M + N
  BY <1>6, <1>12, <1>16
<1>18. all \in Seq(ToSet(all))
  <2>1. Len(all) \in Nat /\ DOMAIN all = 1..Len(all) /\ all \in [1..Len(all) -> V]
    BY <1>16, LenProperties
  <2>2. all \in [1..Len(all) -> ToSet(all)]
    BY <2>1 DEF ToSet
  <2> QED BY <2>1, <2>2, SeqDef
<1>19. ASSUME NEW i \in DOMAIN all, NEW j \in DOMAIN all, all[i].gateway = all[j].gateway PROVE i = j
  <2>1. CASE i \in 1..M /\ j \in 1..M
    BY <1>7, <1>16, <1>19, <2>1
  <2>2. CASE i \in M + 1 .. M + N /\ j \in M + 1 .. M + N
    <3>1. i - M = j - M
      BY <1>12, <1>13, <1>16, <1>19, <2>2
    <3> QED BY <1>6, <1>12, <2>2, <3>1
  <2>3. CASE i \in 1..M /\ j \in M + 1 .. M + N
    <3>1. all[i].gateway \in G /\ all[j].gateway \notin G
      BY <1>8, <1>10, <1>12, <1>13, <1>16, <2>3
    <3> QED BY <1>19, <3>1
  <2>4. CASE j \in 1..M /\ i \in M + 1 .. M + N
    <3>1. all[j].gateway \in G /\ all[i].gateway \notin G
      BY <1>8, <1>10, <1>12, <1>13, <1>16, <2>4
    <3> QED BY <1>19, <3>1
  <2> QED BY <1>17, <2>1, <2>2, <2>3, <2>4
<1>20. ASSUME NEW i \in DOMAIN all
       PROVE  /\ all[i].gateway # source
              /\ all[i].declared => \E l \in top.links : /\ all[i].gateway = owningGateway(top, l.to)
                                                         /\ all[i].predecessor = owningGateway(top, l.from)
  <2>1. CASE i \in 1..M
    BY <1>8, <1>9, <1>16, <2>1
  <2>2. CASE i \in M + 1 .. M + N
    BY <1>10, <1>12, <1>13, <1>16, <2>2
  <2> QED BY <1>17, <2>1, <2>2
<1>21. AreTargets(top, source, all)
  BY <1>18, <1>19, <1>20 DEF AreTargets
<1> QED BY <1>1, <1>21 DEF all

-----------------------------------------------------------------------------
(* The parts of a snapshot                                                 *)

\* A part with finitely many nodes, its edges from E and its findings from F.
IsPart(p, E, F) ==
    /\ IsFiniteSet(DOMAIN p.nodes) /\ DOMAIN p.nodes \in SUBSET IDs
    /\ p.edges \in Seq(E) /\ p.findings \in SUBSET F

\* Merging the parts 1..L loses no edge and no finding, and makes none up.
MergedOf(L, E, F, parts) ==
    /\ IsPart(MergeAll(parts), E, F)
    /\ \A e : e \in ToSet(MergeAll(parts).edges) <=> \E i \in 1..L : e \in ToSet(parts[i].edges)
    /\ \A f : f \in MergeAll(parts).findings <=> \E i \in 1..L : f \in parts[i].findings

LEMMA Merged ==
  ASSUME NEW L \in Nat, NEW E, NEW F, NEW parts, DOMAIN parts = 1..L, \A i \in 1..L : IsPart(parts[i], E, F)
  PROVE  MergedOf(L, E, F, parts)
<1> DEFINE m == MergeAll(parts)
           doms == {DOMAIN parts[i].nodes : i \in DOMAIN parts}
           seqs == [i \in DOMAIN parts |-> parts[i].edges]
<1>1. /\ DOMAIN m.nodes = UNION doms
      /\ m.edges = Joined(seqs)
      /\ m.findings = UNION {parts[i].findings : i \in DOMAIN parts}
  BY Zenon DEF MergeAll
<1>2. IsFiniteSet(1..L)
  BY FS_Interval
<1>3. IsFiniteSet(UNION doms) /\ UNION doms \in SUBSET IDs
  <2>1. IsFiniteSet(doms)
    <3> DEFINE dom == [i \in 1..L |-> DOMAIN parts[i].nodes]
    <3>1. dom \in Surjection(1..L, doms)
      BY DEF Surjection
    <3> QED BY <1>2, <3>1, FS_Surjection
  <2>2. \A d \in doms : IsFiniteSet(d) /\ d \in SUBSET IDs
    BY DEF IsPart
  <2>3. IsFiniteSet(UNION doms)
    BY <2>1, <2>2, FS_UNION
  <2> QED BY <2>2, <2>3
<1>4. JoinedOf(L, E, seqs)
  <2>1. DOMAIN seqs = 1..L /\ \A i \in 1..L : seqs[i] \in Seq(E)
    BY DEF IsPart
  <2> HIDE DEF seqs
  <2> QED BY <2>1, JoinedElements
<1>5. \A e : e \in ToSet(m.edges) <=> \E i \in 1..L : e \in ToSet(parts[i].edges)
  <2>1. \A i \in 1..L : seqs[i] = parts[i].edges
    OBVIOUS
  <2>2. m.edges = Joined(seqs)
    BY <1>1
  <2> HIDE DEF seqs, m
  <2>3. \A s, x : x \in ToSet(s) <=> \E n \in DOMAIN s : s[n] = x
    BY DEF ToSet
  <2>4. \A i \in 1..L : \A e : e \in ToSet(parts[i].edges) => e \in ToSet(m.edges)
    <3> SUFFICES ASSUME NEW i \in 1..L, NEW n \in DOMAIN seqs[i] PROVE seqs[i][n] \in ToSet(m.edges)
      BY <2>1, <2>3
    <3>1. \E k \in DOMAIN Joined(seqs) : Joined(seqs)[k] = seqs[i][n]
      BY <1>4 DEF JoinedOf
    <3> QED BY <2>2, <2>3, <3>1
  <2>5. ASSUME NEW e \in ToSet(m.edges) PROVE \E i \in 1..L : e \in ToSet(parts[i].edges)
    <3>1. PICK k \in DOMAIN Joined(seqs) : Joined(seqs)[k] = e
      BY <2>2, <2>3
    <3>2. PICK i \in 1..L : \E n \in DOMAIN seqs[i] : Joined(seqs)[k] = seqs[i][n]
      BY <1>4 DEF JoinedOf
    <3>3. e \in ToSet(seqs[i])
      BY <2>3, <3>1, <3>2
    <3> QED BY <2>1, <3>3
  <2> QED BY <2>4, <2>5
<1>6. m.findings \in SUBSET F
  BY <1>1 DEF IsPart
<1>7. m.edges \in Seq(E)
  BY <1>1, <1>4 DEF JoinedOf
<1>8. \A f : f \in m.findings <=> \E i \in 1..L : f \in parts[i].findings
  BY <1>1
<1>9. IsPart(m, E, F)
  <2> HIDE DEF m, doms
  <2> QED BY <1>1, <1>3, <1>6, <1>7 DEF IsPart
<1> QED BY <1>5, <1>8, <1>9 DEF MergedOf

\* One node, edge or finding, and none.
LEMMA NothingIs ==
  ASSUME NEW E, NEW F
  PROVE  IsPart(Nothing, E, F) /\ ToSet(Nothing.edges) = {} /\ Nothing.findings = {}
<1>1. Nothing.edges = <<>> /\ Nothing.findings = {} /\ DOMAIN Nothing.nodes = {}
  BY DEF Nothing
<1>2. <<>> \in Seq(E) /\ ToSet(<<>>) = {} /\ IsFiniteSet({}) /\ {} \in SUBSET IDs /\ {} \in SUBSET F
  BY FS_EmptySet DEF ToSet
<1> QED BY <1>1, <1>2 DEF IsPart

LEMMA AddsIs ==
  ASSUME NEW E, NEW F, NEW id \in IDs, NEW node
  PROVE  IsPart(Adds(id, node), E, F) /\ ToSet(Adds(id, node).edges) = {} /\ Adds(id, node).findings = {}
<1>1. Adds(id, node) = [Nothing EXCEPT !.nodes = [x \in {id} |-> node]]
  BY DEF Adds
<1>2. /\ DOMAIN Adds(id, node).nodes = {id}
      /\ Adds(id, node).edges = <<>> /\ Adds(id, node).findings = {}
  BY <1>1 DEF Nothing
<1>3. <<>> \in Seq(E) /\ ToSet(<<>>) = {} /\ IsFiniteSet({id}) /\ {id} \in SUBSET IDs /\ {} \in SUBSET F
  BY FS_Singleton DEF ToSet
<1> QED BY <1>2, <1>3 DEF IsPart

LEMMA JoinsIs ==
  ASSUME NEW E, NEW F, NEW from, NEW to, NEW rel, [from |-> from, to |-> to, rel |-> rel] \in E
  PROVE  /\ IsPart(Joins(from, to, rel), E, F) /\ Joins(from, to, rel).findings = {}
         /\ ToSet(Joins(from, to, rel).edges) = {[from |-> from, to |-> to, rel |-> rel]}
<1> DEFINE e == [from |-> from, to |-> to, rel |-> rel]
<1>1. Joins(from, to, rel) = [Nothing EXCEPT !.edges = <<e>>]
  BY DEF Joins
<1>2. e \in E
  OBVIOUS
<1> HIDE DEF e
<1>3. /\ DOMAIN Joins(from, to, rel).nodes = {}
      /\ Joins(from, to, rel).edges = <<e>> /\ Joins(from, to, rel).findings = {}
  BY <1>1 DEF Nothing
<1>4. <<e>> \in Seq(E) /\ ToSet(<<e>>) = {e} /\ IsFiniteSet({}) /\ {} \in SUBSET IDs /\ {} \in SUBSET F
  BY <1>2, FS_EmptySet DEF ToSet
<1>5. IsPart(Joins(from, to, rel), E, F) /\ ToSet(Joins(from, to, rel).edges) = {e}
  BY <1>3, <1>4 DEF IsPart
<1> QED BY <1>3, <1>5 DEF e

LEMMA FindsIs ==
  ASSUME NEW E, NEW F, NEW title, NEW target, [title |-> title, target |-> target] \in F
  PROVE  /\ IsPart(Finds(title, target), E, F) /\ ToSet(Finds(title, target).edges) = {}
         /\ Finds(title, target).findings = {[title |-> title, target |-> target]}
<1> DEFINE f == [title |-> title, target |-> target]
<1>1. Finds(title, target) = [Nothing EXCEPT !.findings = {f}]
  BY DEF Finds
<1>2. f \in F
  OBVIOUS
<1> HIDE DEF f
<1>3. /\ DOMAIN Finds(title, target).nodes = {}
      /\ Finds(title, target).edges = <<>> /\ Finds(title, target).findings = {f}
  BY <1>1 DEF Nothing
<1>4. <<>> \in Seq(E) /\ ToSet(<<>>) = {} /\ IsFiniteSet({}) /\ {} \in SUBSET IDs /\ {f} \in SUBSET F
  BY <1>2, FS_EmptySet DEF ToSet
<1>5. IsPart(Finds(title, target), E, F) /\ ToSet(Finds(title, target).edges) = {}
  BY <1>3, <1>4 DEF IsPart
<1> QED BY <1>3, <1>5 DEF f

LEMMA MarksIs ==
  ASSUME NEW E, NEW F, NEW id
  PROVE  /\ IsPart(MarkNodeError(id), E, F)
         /\ ToSet(MarkNodeError(id).edges) = {} /\ MarkNodeError(id).findings = {}
<1>1. MarkNodeError(id) = [Nothing EXCEPT !.marked = {id}]
  BY DEF MarkNodeError
<1>2. /\ DOMAIN MarkNodeError(id).nodes = {}
      /\ MarkNodeError(id).edges = <<>> /\ MarkNodeError(id).findings = {}
  BY <1>1 DEF Nothing
<1>3. <<>> \in Seq(E) /\ ToSet(<<>>) = {} /\ IsFiniteSet({}) /\ {} \in SUBSET IDs /\ {} \in SUBSET F
  BY FS_EmptySet DEF ToSet
<1> QED BY <1>2, <1>3 DEF IsPart

\* The parts of the objects of a list, one after the other, are merged alike.
LEMMA MergedEach ==
  ASSUME NEW E, NEW F, NEW list, IsList(list), NEW ps, ps = [i \in DOMAIN list |-> ps[i]],
         \A i \in DOMAIN list : IsPart(ps[i], E, F)
  PROVE  LET m == MergeAll(<<Nothing>> \o ps)
         IN  /\ IsPart(m, E, F)
             /\ \A e : e \in ToSet(m.edges) <=> \E i \in DOMAIN list : e \in ToSet(ps[i].edges)
             /\ \A f : f \in m.findings <=> \E i \in DOMAIN list : f \in ps[i].findings
<1> DEFINE L == Len(list)
           T == {Nothing} \cup {ps[i] : i \in 1..L}
           parts == <<Nothing>> \o ps
<1>1. L \in Nat /\ DOMAIN list = 1..L
  BY LenProperties DEF IsList
<1>2. ps \in [1..L -> T]
  BY <1>1
<1>3. ps \in Seq(T) /\ Len(ps) = L
  <2> HIDE DEF T, L
  <2> QED BY <1>1, <1>2, LenProperties
<1>4. <<Nothing>> \in Seq(T) /\ Len(<<Nothing>>) = 1 /\ <<Nothing>>[1] = Nothing
  <2>1. Nothing \in T
    OBVIOUS
  <2> HIDE DEF T
  <2> QED BY <2>1
<1>5. /\ DOMAIN parts = 1..(L + 1) /\ parts[1] = Nothing
      /\ \A i \in 1..L : i + 1 \in 1..(L + 1) /\ parts[i + 1] = ps[i]
      /\ \A i \in 1..(L + 1) : i # 1 => i - 1 \in 1..L /\ parts[i] = ps[i - 1]
  <2> HIDE DEF T, L, parts
  <2>1. /\ <<Nothing>> \o ps \in Seq(T) /\ Len(<<Nothing>> \o ps) = 1 + L
        /\ \A i \in 1..(1 + L) : (<<Nothing>> \o ps)[i] = IF i <= 1 THEN <<Nothing>>[i] ELSE ps[i - 1]
    BY <1>3, <1>4, ConcatProperties
  <2>2. DOMAIN (<<Nothing>> \o ps) = 1..(1 + L)
    BY <2>1, LenProperties
  <2> QED BY <1>1, <1>4, <2>1, <2>2 DEF parts
<1>6. \A i \in 1..(L + 1) : IsPart(parts[i], E, F)
  <2>1. IsPart(Nothing, E, F)
    BY NothingIs
  <2>2. \A i \in 1..L : IsPart(ps[i], E, F)
    BY <1>1
  <2> HIDE DEF L, parts
  <2> QED BY <1>5, <2>1, <2>2
<1>7. MergedOf(L + 1, E, F, parts)
  <2> HIDE DEF L, parts
  <2>1. L + 1 \in Nat /\ DOMAIN parts = 1..(L + 1)
    BY <1>1, <1>5
  <2> QED BY <1>6, <2>1, Merged
<1>8. ToSet(Nothing.edges) = {} /\ Nothing.findings = {}
  BY NothingIs
<1>9. \A e : (\E i \in 1..(L + 1) : e \in ToSet(parts[i].edges)) <=> \E i \in 1..L : e \in ToSet(ps[i].edges)
  <2> HIDE DEF L, parts
  <2> SUFFICES ASSUME NEW e
               PROVE  (\E i \in 1..(L + 1) : e \in ToSet(parts[i].edges)) <=> \E i \in 1..L : e \in ToSet(ps[i].edges)
    OBVIOUS
  <2>1. ASSUME NEW i \in 1..L, e \in ToSet(ps[i].edges) PROVE \E k \in 1..(L + 1) : e \in ToSet(parts[k].edges)
    <3>1. i + 1 \in 1..(L + 1)
      BY <1>5
    <3> QED BY <1>5, <2>1, <3>1
  <2>2. ASSUME NEW i \in 1..(L + 1), e \in ToSet(parts[i].edges) PROVE \E k \in 1..L : e \in ToSet(ps[k].edges)
    BY <1>5, <1>8, <2>2
  <2> QED BY <2>1, <2>2
<1>10. \A f : (\E i \in 1..(L + 1) : f \in parts[i].findings) <=> \E i \in 1..L : f \in ps[i].findings
  <2> HIDE DEF L, parts
  <2> SUFFICES ASSUME NEW f
               PROVE  (\E i \in 1..(L + 1) : f \in parts[i].findings) <=> \E i \in 1..L : f \in ps[i].findings
    OBVIOUS
  <2>1. ASSUME NEW i \in 1..L, f \in ps[i].findings PROVE \E k \in 1..(L + 1) : f \in parts[k].findings
    <3>1. i + 1 \in 1..(L + 1)
      BY <1>5
    <3> QED BY <1>5, <2>1, <3>1
  <2>2. ASSUME NEW i \in 1..(L + 1), f \in parts[i].findings PROVE \E k \in 1..L : f \in ps[k].findings
    BY <1>5, <1>8, <2>2
  <2> QED BY <2>1, <2>2
<1> HIDE DEF L, T
<1> QED BY <1>1, <1>7, <1>9, <1>10 DEF MergedOf

\* A few parts, written one after the other.
LEMMA MergedTwo ==
  ASSUME NEW E, NEW F, NEW a, NEW b, IsPart(a, E, F), IsPart(b, E, F)
  PROVE  LET m == MergeAll(<<a, b>>)
         IN  /\ IsPart(m, E, F) /\ m.findings = a.findings \cup b.findings
             /\ ToSet(m.edges) = ToSet(a.edges) \cup ToSet(b.edges)
<1> DEFINE parts == <<a, b>>
<1>1. DOMAIN parts = 1..2 /\ parts[1] = a /\ parts[2] = b /\ \A i \in 1..2 : i \in {1, 2}
  OBVIOUS
<1>2. \A i \in 1..2 : IsPart(parts[i], E, F)
  BY <1>1
<1> HIDE DEF parts
<1>3. MergedOf(2, E, F, parts)
  BY <1>1, <1>2, Merged
<1>4. 1 \in 1..2 /\ 2 \in 1..2
  OBVIOUS
<1>5. ToSet(MergeAll(parts).edges) = ToSet(a.edges) \cup ToSet(b.edges)
  BY <1>1, <1>3, <1>4 DEF MergedOf
<1>6. MergeAll(parts).findings = a.findings \cup b.findings
  BY <1>1, <1>3, <1>4 DEF MergedOf
<1> QED BY <1>3, <1>5, <1>6 DEF MergedOf, parts

LEMMA MergedThree ==
  ASSUME NEW E, NEW F, NEW a, NEW b, NEW c, IsPart(a, E, F), IsPart(b, E, F), IsPart(c, E, F)
  PROVE  LET m == MergeAll(<<a, b, c>>)
         IN  /\ IsPart(m, E, F) /\ m.findings = a.findings \cup b.findings \cup c.findings
             /\ ToSet(m.edges) = ToSet(a.edges) \cup ToSet(b.edges) \cup ToSet(c.edges)
<1> DEFINE parts == <<a, b, c>>
<1>1. DOMAIN parts = 1..3 /\ parts[1] = a /\ parts[2] = b /\ parts[3] = c /\ \A i \in 1..3 : i \in {1, 2, 3}
  OBVIOUS
<1>2. \A i \in 1..3 : IsPart(parts[i], E, F)
  BY <1>1
<1> HIDE DEF parts
<1>3. MergedOf(3, E, F, parts)
  BY <1>1, <1>2, Merged
<1>4. 1 \in 1..3 /\ 2 \in 1..3 /\ 3 \in 1..3
  OBVIOUS
<1>5. ToSet(MergeAll(parts).edges) = ToSet(a.edges) \cup ToSet(b.edges) \cup ToSet(c.edges)
  BY <1>1, <1>3, <1>4 DEF MergedOf
<1>6. MergeAll(parts).findings = a.findings \cup b.findings \cup c.findings
  BY <1>1, <1>3, <1>4 DEF MergedOf
<1> QED BY <1>3, <1>5, <1>6 DEF MergedOf, parts

LEMMA MergedFour ==
  ASSUME NEW E, NEW F, NEW a, NEW b, NEW c, NEW d,
         IsPart(a, E, F), IsPart(b, E, F), IsPart(c, E, F), IsPart(d, E, F)
  PROVE  LET m == MergeAll(<<a, b, c, d>>)
         IN  /\ IsPart(m, E, F) /\ m.findings = a.findings \cup b.findings \cup c.findings \cup d.findings
             /\ ToSet(m.edges) = ToSet(a.edges) \cup ToSet(b.edges) \cup ToSet(c.edges) \cup ToSet(d.edges)
<1> DEFINE parts == <<a, b, c, d>>
<1>1. DOMAIN parts = 1..4 /\ parts[1] = a /\ parts[2] = b /\ parts[3] = c /\ parts[4] = d /\ \A i \in 1..4 : i \in {1, 2, 3, 4}
  OBVIOUS
<1>2. \A i \in 1..4 : IsPart(parts[i], E, F)
  BY <1>1
<1> HIDE DEF parts
<1>3. MergedOf(4, E, F, parts)
  BY <1>1, <1>2, Merged
<1>4. 1 \in 1..4 /\ 2 \in 1..4 /\ 3 \in 1..4 /\ 4 \in 1..4
  OBVIOUS
<1>5. ToSet(MergeAll(parts).edges) = ToSet(a.edges) \cup ToSet(b.edges) \cup ToSet(c.edges) \cup ToSet(d.edges)
  BY <1>1, <1>3, <1>4 DEF MergedOf
<1>6. MergeAll(parts).findings = a.findings \cup b.findings \cup c.findings \cup d.findings
  BY <1>1, <1>3, <1>4 DEF MergedOf
<1> QED BY <1>3, <1>5, <1>6 DEF MergedOf, parts

LEMMA MergedFive ==
  ASSUME NEW E, NEW F, NEW a, NEW b, NEW c, NEW d, NEW g,
         IsPart(a, E, F), IsPart(b, E, F), IsPart(c, E, F), IsPart(d, E, F), IsPart(g, E, F)
  PROVE  LET m == MergeAll(<<a, b, c, d, g>>)
         IN  /\ IsPart(m, E, F)
             /\ m.findings = a.findings \cup b.findings \cup c.findings \cup d.findings \cup g.findings
             /\ ToSet(m.edges) = ToSet(a.edges) \cup ToSet(b.edges) \cup ToSet(c.edges) \cup ToSet(d.edges) \cup ToSet(g.edges)
<1> DEFINE parts == <<a, b, c, d, g>>
<1>1. /\ DOMAIN parts = 1..5 /\ parts[1] = a /\ parts[2] = b /\ parts[3] = c /\ parts[4] = d /\ parts[5] = g
      /\ \A i \in 1..5 : i \in {1, 2, 3, 4, 5}
  OBVIOUS
<1>2. \A i \in 1..5 : IsPart(parts[i], E, F)
  BY <1>1
<1> HIDE DEF parts
<1>3. MergedOf(5, E, F, parts)
  BY <1>1, <1>2, Merged
<1>4. 1 \in 1..5 /\ 2 \in 1..5 /\ 3 \in 1..5 /\ 4 \in 1..5 /\ 5 \in 1..5
  OBVIOUS
<1>5. ToSet(MergeAll(parts).edges) = ToSet(a.edges) \cup ToSet(b.edges) \cup ToSet(c.edges) \cup ToSet(d.edges) \cup ToSet(g.edges)
  BY <1>1, <1>3, <1>4 DEF MergedOf
<1>6. MergeAll(parts).findings = a.findings \cup b.findings \cup c.findings \cup d.findings \cup g.findings
  BY <1>1, <1>3, <1>4 DEF MergedOf
<1> QED BY <1>3, <1>5, <1>6 DEF MergedOf, parts

-----------------------------------------------------------------------------
(* IDs, edges and findings of a cluster                                    *)

Word == ToSet(Alphabet)
InCluster == Relations \ {"cross-cluster"}
PlainEdges == {e \in Edges(InCluster) : e.from[1] # "route"}
PlainTitles ==
    {"backend does not exist", "unsupported backend kind", "backend has no ready endpoint", "parent Gateway does not exist",
     "registry Service has no ready endpoint", "McpBridge has no registry", "destination does not resolve",
     "McpBridge does not exist", "Ingress backend Service does not exist", "Ingress backend has no ready endpoint",
     "Ingress matches several gateways"}
PlainFindings == [title : PlainTitles, target : IDs]

\* A part that says nothing of a route's backends or of a reference's authorisation.
IsPlain(p) == IsPart(p, PlainEdges, PlainFindings)

LEMMA PlainTitlesAre == Unauthorised \notin PlainTitles /\ AmbiguousLink \notin PlainTitles
BY DEF PlainTitles, Unauthorised, AmbiguousLink

LEMMA Related == {"attaches", "discovers", "owns", "resolves", "routes", "selects"} \subseteq InCluster
<1>1. RelationOrder[1] = "attaches" /\ RelationOrder[3] = "discovers" /\ RelationOrder[4] = "owns"
      /\ RelationOrder[5] = "resolves" /\ RelationOrder[6] = "routes" /\ RelationOrder[7] = "selects"
      /\ DOMAIN RelationOrder = 1..7
  BY DEF RelationOrder
<1>2. 1 \in 1..7 /\ 3 \in 1..7 /\ 4 \in 1..7 /\ 5 \in 1..7 /\ 6 \in 1..7 /\ 7 \in 1..7
  OBVIOUS
<1> QED BY <1>1, <1>2 DEF InCluster, Relations, ToSet

\* An ID begins with the kind of its object.
LEMMA IDsOf ==
  /\ \A a, b, c \in Word : <<a, b, c>> \in IDs /\ <<a, b, c>>[1] = a
  /\ \A a, b, c, d \in Word : <<a, b, c, d>> \in IDs /\ <<a, b, c, d>>[1] = a
  /\ \A a, b, c, d, e \in Word : <<a, b, c, d, e>> \in IDs /\ <<a, b, c, d, e>>[1] = a
  /\ \A a, b, c \in Word : \A t \in Seq(Word) : <<a, b, c>> \o t \in IDs
  /\ \A a \in Word : \A t \in Seq(Word) : <<a>> \o t \in IDs /\ (<<a>> \o t)[1] = a
<1>1. IDs = Seq(Word)
  BY DEF IDs, Word
<1> HIDE DEF Word
<1>2. \A a, b, c \in Word : <<a, b, c>> \in Seq(Word) /\ <<a, b, c>>[1] = a
  OBVIOUS
<1>3. \A a, b, c, d \in Word : <<a, b, c, d>> \in Seq(Word) /\ <<a, b, c, d>>[1] = a
  OBVIOUS
<1>4. \A a, b, c, d, e \in Word : <<a, b, c, d, e>> \in Seq(Word) /\ <<a, b, c, d, e>>[1] = a
  OBVIOUS
<1>5. \A a, b, c \in Word : \A t \in Seq(Word) : <<a, b, c>> \o t \in Seq(Word)
  BY <1>2, ConcatProperties
<1>6. ASSUME NEW a \in Word, NEW t \in Seq(Word) PROVE <<a>> \o t \in Seq(Word) /\ (<<a>> \o t)[1] = a
  <2>1. <<a>> \in Seq(Word) /\ Len(<<a>>) = 1 /\ <<a>>[1] = a /\ Len(t) \in Nat
    BY LenProperties
  <2>2. 1 \in 1..(1 + Len(t))
    BY <2>1
  <2> QED BY <2>1, <2>2, ConcatProperties
<1> QED BY <1>1, <1>2, <1>3, <1>4, <1>5, <1>6

LEMMA PlainEdge ==
  ASSUME NEW from \in IDs, NEW to \in IDs, NEW rel \in InCluster, from[1] # "route"
  PROVE  [from |-> from, to |-> to, rel |-> rel] \in PlainEdges
BY DEF PlainEdges, Edges

\* An edge and a finding that are not about routes.
LEMMA PlainJoins ==
  ASSUME NEW from \in IDs, NEW to \in IDs, NEW rel \in InCluster, from[1] # "route"
  PROVE  IsPlain(Joins(from, to, rel))
BY PlainEdge, JoinsIs DEF IsPlain

LEMMA PlainFinds ==
  ASSUME NEW title \in PlainTitles, NEW target \in IDs
  PROVE  IsPlain(Finds(title, target))
<1>1. [title |-> title, target |-> target] \in PlainFindings
  BY DEF PlainFindings
<1> QED BY <1>1, FindsIs DEF IsPlain

LEMMA PlainAdds ==
  ASSUME NEW id \in IDs, NEW node
  PROVE  IsPlain(Adds(id, node))
BY AddsIs DEF IsPlain

LEMMA PlainMerges ==
  /\ IsPlain(Nothing)
  /\ \A a, b : IsPlain(a) /\ IsPlain(b) => IsPlain(Merge(a, b)) /\ IsPlain(MergeAll(<<a, b>>))
  /\ \A a, b, c : IsPlain(a) /\ IsPlain(b) /\ IsPlain(c) => IsPlain(MergeAll(<<a, b, c>>))
  /\ \A a, b, c, d : IsPlain(a) /\ IsPlain(b) /\ IsPlain(c) /\ IsPlain(d) => IsPlain(MergeAll(<<a, b, c, d>>))
BY NothingIs, MergedTwo, MergedThree, MergedFour, Zenon DEF IsPlain, Merge

\* Of the objects of a list.
LEMMA PlainEach ==
  ASSUME NEW list, IsList(list), NEW ps, ps = [i \in DOMAIN list |-> ps[i]], \A i \in DOMAIN list : IsPlain(ps[i])
  PROVE  IsPlain(MergeAll(<<Nothing>> \o ps))
BY MergedEach DEF IsPlain

\* What a list holds.
LEMMA ListElements ==
  ASSUME NEW list
  PROVE  \A i \in DOMAIN list : list[i] \in ToSet(list)
BY DEF ToSet

\* The kinds of objects IDs begin with are words.
LEMMA KindWords ==
  /\ "endpoint" \in Word /\ "endpoint-picker" \in Word /\ "gateway" \in Word /\ "gateway-runtime" \in Word
  /\ "inferencepool" \in Word /\ "ingress" \in Word /\ "listener" \in Word /\ "mcpbridge" \in Word /\ "pod" \in Word
  /\ "registry" \in Word /\ "route" \in Word /\ "service" \in Word /\ "target" \in Word /\ "transit" \in Word
BY WordsAssumption DEF Word

-----------------------------------------------------------------------------
(* The objects of a cluster and the parts they become                      *)

\* A cluster's objects and the gateway runtimes found in them.
Held(o) == \E objs : AreObjects(objs) /\ o = WithRuntimes(objs)

LEMMA RuntimesAre ==
  ASSUME NEW objs, AreObjects(objs), NEW r \in Runtimes(objs)
  PROVE  r.gateway \in IDs /\ r.gateway[1] # "route"
<1> DEFINE declared == UNION {resolveGatewayRuntime(objs, gw) : gw \in ToSet(objs.gateways)}
           unclaimed == {d \in ToSet(objs.deployments) : \A x \in declared : x.workload # WorkloadID(d)}
<1>1. r \in declared \/ r \in UNION {standaloneRuntime(objs, d) : d \in unclaimed}
  BY DEF Runtimes
<1>2. CASE r \in declared
  <2>1. PICK gw \in ToSet(objs.gateways) : r \in resolveGatewayRuntime(objs, gw)
    BY <1>2
  <2>2. r.gateway = <<"gateway", gw.ns, gw.name>>
    <3> DEFINE kind == gatewayKind(objs, gw)
               candidates == gatewayCandidates(objs, gw)
               first == FirstByName(candidates)
               owners == matchingDeployments(objs, first)
               owner == SmallestName(owners)
               workload == IF owners = {} THEN <<"pod", first.ns, first.name>> ELSE WorkloadID(owner)
               pods == IF owners = {} THEN ToSet(candidates) ELSE {p \in ToSet(candidates) : owner.selector \subseteq p.labels}
               found == [gateway |-> GatewayID(gw), controller |-> kind, ns |-> first.ns, workload |-> workload, pods |-> pods]
    <3>1. resolveGatewayRuntime(objs, gw) = IF kind = "" \/ candidates = <<>> THEN {} ELSE {found}
      BY Zenon DEF resolveGatewayRuntime
    <3> HIDE DEF kind, candidates, first, workload, pods
    <3>2. found.gateway = GatewayID(gw)
      OBVIOUS
    <3> HIDE DEF found
    <3>3. r = found
      BY <2>1, <3>1, Zenon
    <3> QED BY <3>2, <3>3 DEF GatewayID
  <2>3. gw.ns \in Word /\ gw.name \in Word
    BY DEF AreObjects, Keyed, Word
  <2>4. <<"gateway", gw.ns, gw.name>> \in IDs /\ <<"gateway", gw.ns, gw.name>>[1] = "gateway"
    BY <2>3, IDsOf, KindWords
  <2> QED BY <2>2, <2>4
<1>3. CASE r \in UNION {standaloneRuntime(objs, d) : d \in unclaimed}
  <2>1. PICK d \in ToSet(objs.deployments) : r \in standaloneRuntime(objs, d)
    BY <1>3
  <2>2. r.gateway = <<"gateway-runtime", d.ns, d.name>>
    <3> DEFINE able == SelectSeq(objs.pods, LAMBDA p : /\ p.ns = d.ns /\ p.ready
                                                       /\ d.selector \subseteq p.labels
                                                       /\ standaloneGatewayKind(p) # "")
               kind == standaloneGatewayKind(Head(able))
               pods == {p \in ToSet(able) : standaloneGatewayKind(p) = kind}
               found == [gateway |-> <<"gateway-runtime", d.ns, d.name>>, controller |-> kind, ns |-> d.ns,
                         workload |-> WorkloadID(d), pods |-> pods]
    <3>1. standaloneRuntime(objs, d) = IF able = <<>> THEN {} ELSE {found}
      BY Zenon DEF standaloneRuntime
    <3> HIDE DEF able, kind, pods
    <3>2. found.gateway = <<"gateway-runtime", d.ns, d.name>>
      OBVIOUS
    <3> HIDE DEF found
    <3>3. r = found
      BY <2>1, <3>1, Zenon
    <3> QED BY <3>2, <3>3
  <2>3. d.ns \in Word /\ d.name \in Word
    BY DEF AreObjects, Keyed, Word
  <2>4. <<"gateway-runtime", d.ns, d.name>> \in IDs /\ <<"gateway-runtime", d.ns, d.name>>[1] = "gateway-runtime"
    BY <2>3, IDsOf, KindWords
  <2> QED BY <2>2, <2>4
<1> QED BY <1>1, <1>2, <1>3

\* What is known of them.
LEMMA HeldLists ==
  ASSUME NEW o, Held(o)
  PROVE  /\ IsList(o.gateways) /\ IsList(o.services) /\ IsList(o.slices) /\ IsList(o.routes) /\ IsList(o.grants)
         /\ IsList(o.ingresses) /\ IsList(o.bridges) /\ IsList(o.deployments) /\ IsList(o.pods) /\ IsList(o.pools)
         /\ \A gw \in ToSet(o.gateways) : IsList(gw.listeners) /\ \A l \in ToSet(gw.listeners) : l.name \in Word
         /\ \A s \in ToSet(o.slices) : IsList(s.endpoints) /\ \A e \in ToSet(s.endpoints) : e.address \in Seq(Word)
         /\ \A r \in ToSet(o.routes) : /\ IsList(r.backends) /\ IsList(r.parents)
                                       /\ \A p \in ToSet(r.parents) : p.ns \in Word /\ p.name \in Word /\ p.section \in Word \cup {""}
         /\ \A b \in ToSet(o.bridges) : IsList(b.registries) /\ \A r \in ToSet(b.registries) : r.name \in Word
         /\ \A i \in ToSet(o.ingresses) : IsList(i.backends)
         /\ \A p \in ToSet(o.pools) : p.picker \in {<<>>} \cup (Word \X Word)
         /\ \A r \in o.runtimes : r.gateway \in IDs /\ r.gateway[1] # "route"
<1>1. PICK objs : AreObjects(objs) /\ o = WithRuntimes(objs)
  BY DEF Held
<1>2. \A k \in Kinds : k \in DOMAIN objs /\ k # "runtimes"
  BY <1>1 DEF AreObjects
<1>3. \A k \in Kinds : o[k] = objs[k]
  BY <1>1, <1>2 DEF WithRuntimes
<1>4. o.runtimes = Runtimes(objs)
  BY <1>1 DEF WithRuntimes
<1>5. /\ o.gateways = objs.gateways /\ o.services = objs.services /\ o.slices = objs.slices /\ o.routes = objs.routes
      /\ o.grants = objs.grants /\ o.ingresses = objs.ingresses /\ o.bridges = objs.bridges
      /\ o.deployments = objs.deployments /\ o.pods = objs.pods /\ o.pools = objs.pools
  BY <1>3 DEF Kinds, Keyed
<1>6. /\ IsList(o.gateways) /\ IsList(o.services) /\ IsList(o.slices) /\ IsList(o.routes) /\ IsList(o.grants)
      /\ IsList(o.ingresses) /\ IsList(o.bridges) /\ IsList(o.deployments) /\ IsList(o.pods) /\ IsList(o.pools)
  BY <1>1, <1>2, <1>5 DEF AreObjects, Kinds, Keyed
<1>7. \A r \in o.runtimes : r.gateway \in IDs /\ r.gateway[1] # "route"
  BY <1>1, <1>4, RuntimesAre
<1>8. /\ \A gw \in ToSet(o.gateways) : IsList(gw.listeners) /\ \A l \in ToSet(gw.listeners) : l.name \in Word
      /\ \A s \in ToSet(o.slices) : IsList(s.endpoints) /\ \A e \in ToSet(s.endpoints) : e.address \in Seq(Word)
      /\ \A r \in ToSet(o.routes) : /\ IsList(r.backends) /\ IsList(r.parents)
                                    /\ \A p \in ToSet(r.parents) : p.ns \in Word /\ p.name \in Word /\ p.section \in Word \cup {""}
  BY <1>1, <1>5, Zenon DEF AreObjects, Word
<1>9. /\ \A b \in ToSet(o.bridges) : IsList(b.registries) /\ \A r \in ToSet(b.registries) : r.name \in Word
      /\ \A i \in ToSet(o.ingresses) : IsList(i.backends)
      /\ \A p \in ToSet(o.pools) : p.picker \in {<<>>} \cup (Word \X Word)
  BY <1>1, <1>5, Zenon DEF AreObjects, Word
<1> QED BY <1>6, <1>7, <1>8, <1>9

\* An object of a kind has a namespace and a name that it does not share.
LEMMA HeldKeys ==
  ASSUME NEW o, Held(o), NEW k \in Keyed, NEW x \in ToSet(o[k])
  PROVE  x.ns \in Word /\ x.name \in Word /\ \A y \in ToSet(o[k]) : x.ns = y.ns /\ x.name = y.name => x = y
<1>1. PICK objs : AreObjects(objs) /\ o = WithRuntimes(objs)
  BY DEF Held
<1>2. k \in DOMAIN objs /\ k # "runtimes"
  BY <1>1 DEF AreObjects, Kinds
<1>3. o[k] = objs[k]
  BY <1>1, <1>2 DEF WithRuntimes
<1> QED BY <1>1, <1>3, Zenon DEF AreObjects, Word

LEMMA HeldObjects ==
  ASSUME NEW o, Held(o)
  PROVE  /\ \A x \in ToSet(o.gateways) : x.ns \in Word /\ x.name \in Word
         /\ \A x \in ToSet(o.services) : x.ns \in Word /\ x.name \in Word
         /\ \A x \in ToSet(o.routes) : x.ns \in Word /\ x.name \in Word
         /\ \A x \in ToSet(o.ingresses) : x.ns \in Word /\ x.name \in Word
         /\ \A x \in ToSet(o.bridges) : x.ns \in Word /\ x.name \in Word
         /\ \A x \in ToSet(o.deployments) : x.ns \in Word /\ x.name \in Word
         /\ \A x \in ToSet(o.pods) : x.ns \in Word /\ x.name \in Word
         /\ \A x \in ToSet(o.pools) : x.ns \in Word /\ x.name \in Word
<1>1. \A k \in Keyed : \A x \in ToSet(o[k]) : x.ns \in Word /\ x.name \in Word
  BY HeldKeys
<1> QED BY <1>1 DEF Keyed

\* Gateways with their listeners, and standalone gateways.
LEMMA PlainGateway ==
  ASSUME NEW o, Held(o), NEW gw \in ToSet(o.gateways)
  PROVE  IsPlain(GatewayPart(o, gw))
<1> DEFINE id == GatewayID(gw)
           list == gw.listeners
           runtime == {r \in o.runtimes : r.gateway = id}
           lid(l) == <<"listener", gw.ns, gw.name, l.name>>
           Listener(l) == Merge(Adds(lid(l), Node("Listener", [ns |-> gw.ns, name |-> l.name], "healthy", {<<"Hostname", l.host>>})),
                                Joins(id, lid(l), "owns"))
           ps == [i \in DOMAIN list |-> Listener(list[i])]
           node == Node("Gateway", gw, "healthy",
                        {<<"Address", a>> : a \in gw.addresses} \cup UNION {RuntimeConditions(o, r) : r \in runtime})
<1>1. GatewayPart(o, gw) = Merge(Adds(id, node), MergeAll(<<Nothing>> \o ps))
  BY DEF GatewayPart, ForEach
<1>2. gw.ns \in Word /\ gw.name \in Word /\ IsList(list) /\ \A l \in ToSet(list) : l.name \in Word
  BY HeldLists, HeldObjects
<1>3. id \in IDs /\ id[1] # "route"
  BY <1>2, IDsOf, KindWords DEF GatewayID
<1>4. \A l \in ToSet(list) : lid(l) \in IDs
  BY <1>2, IDsOf, KindWords
<1>5. ASSUME NEW l \in ToSet(list) PROVE IsPlain(Listener(l))
  <2>1. lid(l) \in IDs
    BY <1>4
  <2> HIDE DEF id, lid, list
  <2>2. IsPlain(Joins(id, lid(l), "owns"))
    BY <1>3, <2>1, PlainJoins, Related
  <2>3. IsPlain(Adds(lid(l), Node("Listener", [ns |-> gw.ns, name |-> l.name], "healthy", {<<"Hostname", l.host>>})))
    BY <2>1, PlainAdds
  <2> QED BY <2>2, <2>3, PlainMerges
<1>6. \A i \in DOMAIN list : list[i] \in ToSet(list)
  BY ListElements
<1> HIDE DEF id, list, Listener, node
<1>7. ps = [i \in DOMAIN list |-> ps[i]] /\ \A i \in DOMAIN list : IsPlain(ps[i])
  BY <1>5, <1>6
<1> HIDE DEF ps
<1>8. IsPlain(MergeAll(<<Nothing>> \o ps))
  BY <1>2, <1>7, PlainEach
<1>9. IsPlain(Adds(id, node))
  BY <1>3, PlainAdds
<1> QED BY <1>1, <1>8, <1>9, PlainMerges

LEMMA PlainStandalone ==
  ASSUME NEW o, Held(o), NEW d \in ToSet(o.deployments)
  PROVE  IsPlain(StandalonePart(o, d))
<1> DEFINE id == <<"gateway-runtime", d.ns, d.name>>
           runtime == {r \in o.runtimes : r.gateway = id}
           node == Node("Gateway", d, "healthy", UNION {RuntimeConditions(o, r) : r \in runtime})
<1>1. StandalonePart(o, d) = IF runtime = {} THEN Nothing ELSE Adds(id, node)
  BY Zenon DEF StandalonePart
<1>2. d.ns \in Word /\ d.name \in Word
  BY HeldObjects
<1>3. id \in IDs
  BY <1>2, IDsOf, KindWords
<1> HIDE DEF id, runtime, node
<1> QED BY <1>1, <1>3, PlainAdds, PlainMerges

\* What is selected of a list is a list of some of its objects.
LEMMA Selected ==
  ASSUME NEW T, NEW s \in Seq(T)
  PROVE  IsList(s) /\ ToSet(s) \subseteq T
<1>1. \A i \in DOMAIN s : s[i] \in T
  BY LenProperties, ElementOfSeq
<1>2. Len(s) \in Nat /\ DOMAIN s = 1..Len(s) /\ s \in [1..Len(s) -> ToSet(s)]
  <2>1. Len(s) \in Nat /\ s \in [1..Len(s) -> T]
    BY LenProperties
  <2>2. \A i \in 1..Len(s) : s[i] \in ToSet(s)
    BY <2>1 DEF ToSet
  <2> QED BY <2>1, <2>2
<1>3. s \in Seq(ToSet(s))
  BY <1>2, IsASeq
<1> QED BY <1>1, <1>3 DEF IsList, ToSet

LEMMA SelectedAt ==
  ASSUME NEW list, IsList(list), NEW S \in SUBSET DOMAIN list
  PROVE  IsList(At(list, S)) /\ ToSet(At(list, S)) \subseteq ToSet(list)
<1>1. Len(list) \in Nat /\ DOMAIN list = 1..Len(list)
  BY LenProperties DEF IsList
<1>2. S \in SUBSET Nat
  BY <1>1
<1>3. IsFiniteSet(S)
  <2>1. IsFiniteSet(1..Len(list))
    BY <1>1, FS_Interval
  <2> QED BY <1>1, <2>1, FS_Subset
<1>4. \A i \in S : list[i] \in ToSet(list)
  BY DEF ToSet
<1>5. At(list, S) \in Seq(ToSet(list))
  BY <1>2, <1>3, <1>4, AtIsSeq
<1> QED BY <1>5, Selected

\* A list's objects are finitely many.
LEMMA ListFinite ==
  ASSUME NEW list, IsList(list)
  PROVE  IsFiniteSet(ToSet(list))
<1>1. Len(list) \in Nat /\ DOMAIN list = 1..Len(list) /\ list \in [1..Len(list) -> ToSet(list)]
  BY LenProperties DEF IsList
<1>2. list \in Surjection(1..Len(list), ToSet(list))
  BY <1>1 DEF Surjection, ToSet
<1> QED BY <1>1, <1>2, FS_Interval, FS_Surjection

\* The endpoints of a Service.
LEMMA PlainEndpoints ==
  ASSUME NEW o, Held(o), NEW s \in ToSet(o.services)
  PROVE  IsPlain(appendServiceEndpoints(o, s))
<1> DEFINE eid(e) == <<"endpoint", s.ns, s.name>> \o e.address
           node(e) == Node("Endpoint", [ns |-> s.ns, name |-> e.address],
                           IF e.ready THEN "healthy" ELSE "warning", {<<"Address", e.address>>})
           Endpoint(e) == Merge(Adds(eid(e), node(e)), Joins(ServiceID(s), eid(e), "selects"))
           Each(slice) == [i \in DOMAIN slice.endpoints |-> Endpoint(slice.endpoints[i])]
           list == slicesOf(o, s)
           ps == [i \in DOMAIN list |-> MergeAll(<<Nothing>> \o Each(list[i]))]
<1>1. appendServiceEndpoints(o, s) = MergeAll(<<Nothing>> \o ps)
  BY DEF appendServiceEndpoints, ForEach
<1>2. s.ns \in Word /\ s.name \in Word
  BY HeldObjects
<1>3. ServiceID(s) \in IDs /\ ServiceID(s)[1] # "route"
  BY <1>2, IDsOf, KindWords DEF ServiceID
<1>4. IsList(list) /\ ToSet(list) \subseteq ToSet(o.slices)
  BY HeldLists, SelectedAt DEF slicesOf
<1>5. ASSUME NEW slice \in ToSet(o.slices) PROVE IsPlain(MergeAll(<<Nothing>> \o Each(slice)))
  <2>1. IsList(slice.endpoints) /\ \A e \in ToSet(slice.endpoints) : e.address \in Seq(Word)
    BY HeldLists
  <2>2. ASSUME NEW e \in ToSet(slice.endpoints) PROVE IsPlain(Endpoint(e))
    <3>1. eid(e) \in IDs
      BY <1>2, <2>1, IDsOf, KindWords
    <3> HIDE DEF eid, node
    <3>2. IsPlain(Adds(eid(e), node(e))) /\ IsPlain(Joins(ServiceID(s), eid(e), "selects"))
      BY <1>3, <3>1, PlainAdds, PlainJoins, Related
    <3> QED BY <3>2, PlainMerges
  <2> HIDE DEF Endpoint
  <2>3. Each(slice) = [i \in DOMAIN slice.endpoints |-> Each(slice)[i]]
        /\ \A i \in DOMAIN slice.endpoints : IsPlain(Each(slice)[i])
    BY <2>2, ListElements
  <2> HIDE DEF Each
  <2> QED BY <2>1, <2>3, PlainEach
<1> HIDE DEF list, Each
<1>6. ps = [i \in DOMAIN list |-> ps[i]] /\ \A i \in DOMAIN list : IsPlain(ps[i])
  BY <1>4, <1>5, ListElements
<1> HIDE DEF ps
<1> QED BY <1>1, <1>4, <1>6, PlainEach

\* A Service as a registry or an Ingress backend.
LEMMA PlainService ==
  ASSUME NEW o, Held(o), NEW s \in ToSet(o.services), NEW from \in IDs, from[1] # "route", NEW rel \in InCluster,
         NEW title \in PlainTitles, NEW target \in IDs
  PROVE  IsPlain(backendService(o, s, from, rel, title, target))
<1> DEFINE down == readyEndpoints(o, s) = {} /\ s.external = <<>>
           conds == IF s.external = <<>> THEN {} ELSE {<<"ExternalName", s.external>>}
           first == IF down THEN Finds(title, target) ELSE Nothing
           second == Adds(ServiceID(s), Node("Service", s, IF down THEN "error" ELSE "healthy", conds))
<1>1. backendService(o, s, from, rel, title, target)
        = MergeAll(<<first, second, Joins(from, ServiceID(s), rel), appendServiceEndpoints(o, s)>>)
  BY Zenon DEF backendService
<1>2. s.ns \in Word /\ s.name \in Word
  BY HeldObjects
<1>3. ServiceID(s) \in IDs
  BY <1>2, IDsOf, KindWords DEF ServiceID
<1>4. IsPlain(first)
  BY PlainFinds, PlainMerges
<1>5. IsPlain(second)
  BY <1>3, PlainAdds
<1>6. IsPlain(Joins(from, ServiceID(s), rel)) /\ IsPlain(appendServiceEndpoints(o, s))
  BY <1>3, PlainJoins, PlainEndpoints
<1> HIDE DEF first, second
<1> QED BY <1>1, <1>4, <1>5, <1>6, PlainMerges

\* Objects by namespace and name.
LEMMA ByNameIs ==
  ASSUME NEW objects, IsFiniteSet(objects),
         \A x, y \in objects : x.ns \in Word /\ x.name \in Word /\ (x.ns = y.ns /\ x.name = y.name => x = y)
  PROVE  IsList(ByName(objects)) /\ ToSet(ByName(objects)) \subseteq objects
<1> DEFINE Key(x) == <<x.ns, x.name>>
           keys == {Key(x) : x \in objects}
           K == {p \in keys \X keys : Before(p[1], p[2])}
           R == {p \in objects \X objects : Before(<<p[1].ns, p[1].name>>, <<p[2].ns, p[2].name>>)}
<1>1. keys \in SUBSET IDs
  <2>1. \A x \in objects : <<x.ns, x.name>> \in Seq(Word)
    OBVIOUS
  <2> QED BY <2>1 DEF IDs, Word
<1>2. StrictOrder(keys, K)
  <2> HIDE DEF keys
  <2> QED BY <1>1, BeforeOrders
<1>3. \A x, y \in objects : <<x, y>> \in R <=> Before(Key(x), Key(y))
  OBVIOUS
<1>4. \A a, b \in keys : <<a, b>> \in K <=> Before(a, b)
  OBVIOUS
<1>5. \A x \in objects : Key(x) \in keys
  OBVIOUS
<1>6. \A x, y \in objects : x # y => Key(x) # Key(y)
  OBVIOUS
<1> HIDE DEF keys, K, R, Key
<1>7. \A a, b, c \in keys :
         /\ <<a, b>> \in K => <<b, a>> \notin K
         /\ a # b => <<a, b>> \in K \/ <<b, a>> \in K
         /\ <<a, b>> \in K /\ <<b, c>> \in K => <<a, c>> \in K
  BY <1>2 DEF StrictOrder
<1>8. StrictOrder(objects, R)
  <2> SUFFICES ASSUME NEW x \in objects, NEW y \in objects, NEW z \in objects
               PROVE  /\ <<x, y>> \in R => <<y, x>> \notin R
                      /\ x # y => <<x, y>> \in R \/ <<y, x>> \in R
                      /\ <<x, y>> \in R /\ <<y, z>> \in R => <<x, z>> \in R
    BY DEF StrictOrder
  <2>1. Key(x) \in keys /\ Key(y) \in keys /\ Key(z) \in keys /\ (x # y => Key(x) # Key(y))
    BY <1>5, <1>6
  <2> QED BY <1>3, <1>4, <1>7, <2>1
<1>9. Ranked(objects, R) \in Seq(objects)
  BY <1>8, RankedOrder
<1>10. ByName(objects) = Ranked(objects, R)
  BY DEF ByName, R
<1> QED BY <1>9, <1>10, Selected

\* An InferencePool, with its Endpoint Picker and the Services or Pods it selects.
LEMMA PlainPool ==
  ASSUME NEW o, Held(o), NEW pool \in ToSet(o.pools)
  PROVE  IsPlain(addInferencePool(o, pool))
<1> DEFINE id == <<"inferencepool", pool.ns, pool.name>>
           eppID == <<"endpoint-picker">> \o pool.picker
           from == IF pool.picker = <<>> THEN id ELSE eppID
           Selects(p) == pool.selector # {} /\ p.ns = pool.ns /\ pool.selector \subseteq p.labels
           places == {i \in DOMAIN o.pods : Selects(o.pods[i])}
           matched == At(o.pods, places)
           ready == {p \in ToSet(matched) : p.ready}
           status == IF ready = {} THEN "error" ELSE IF Cardinality(ready) < Len(matched) THEN "warning" ELSE "healthy"
           chosen == {s \in ToSet(o.services) : /\ pool.selector # {} /\ s.ns = pool.ns
                                                /\ s.selector # {} /\ pool.selector \subseteq s.selector}
           services == ByName(chosen)
           snode(s) == Node("Service", s, IF endpointsOf(o, s) = {} THEN "error" ELSE "healthy", {})
           Service(s) == MergeAll(<<Adds(ServiceID(s), snode(s)),
                                    Joins(from, ServiceID(s), "selects"), appendServiceEndpoints(o, s)>>)
           pid(p) == <<"pod", p.ns, p.name>>
           pnode(p) == Node("Pod", p, IF p.ready THEN "healthy" ELSE "warning", {})
           PodPart(p) == Merge(Adds(pid(p), pnode(p)), Joins(from, pid(p), "selects"))
           pods == [i \in DOMAIN matched |-> PodPart(matched[i])]
           served == [i \in DOMAIN services |-> Service(services[i])]
           enode == Node("EndpointPicker", [ns |-> pool.picker[1], name |-> pool.picker[2]], "healthy", {})
           node == Node("InferencePool", pool, status, {})
           picked == IF pool.picker = <<>> THEN Nothing ELSE Merge(Adds(eppID, enode), Joins(id, eppID, "discovers"))
           last == IF services = <<>> THEN MergeAll(<<Nothing>> \o pods) ELSE MergeAll(<<Nothing>> \o served)
<1>1. addInferencePool(o, pool) = MergeAll(<<Adds(id, node), picked, last>>)
  BY Zenon DEF addInferencePool, ForEach
<1>2. pool.ns \in Word /\ pool.name \in Word /\ pool.picker \in {<<>>} \cup (Word \X Word)
  BY HeldLists, HeldObjects
<1>3. id \in IDs /\ id[1] # "route"
  BY <1>2, IDsOf, KindWords
<1>4. pool.picker # <<>> => eppID \in IDs /\ eppID[1] # "route"
  <2> SUFFICES ASSUME pool.picker # <<>> PROVE eppID \in IDs /\ eppID[1] # "route"
    OBVIOUS
  <2>1. pool.picker \in Word \X Word
    BY <1>2
  <2>2. pool.picker \in Seq(Word)
    <3>1. PICK a, b \in Word : pool.picker = <<a, b>>
      BY <2>1
    <3>2. <<a, b>> \in Seq(Word)
      OBVIOUS
    <3> QED BY <3>1, <3>2
  <2>3. eppID \in IDs /\ eppID[1] = "endpoint-picker"
    BY <2>2, IDsOf, KindWords
  <2> QED BY <2>3
<1>5. from \in IDs /\ from[1] # "route"
  BY <1>3, <1>4
<1>6. IsPlain(Adds(id, node))
  BY <1>3, PlainAdds
<1>7. IsPlain(picked)
  <2>1. CASE pool.picker = <<>>
    BY <2>1, PlainMerges
  <2>2. CASE pool.picker # <<>>
    <3> HIDE DEF id, eppID, enode
    <3>1. IsPlain(Adds(eppID, enode)) /\ IsPlain(Joins(id, eppID, "discovers"))
      BY <1>3, <1>4, <2>2, PlainAdds, PlainJoins, Related
    <3> QED BY <2>2, <3>1, PlainMerges
  <2> QED BY <2>1, <2>2
<1>8. IsPlain(MergeAll(<<Nothing>> \o pods))
  <2>1. places \in SUBSET DOMAIN o.pods
    OBVIOUS
  <2> HIDE DEF from, places
  <2>2. IsList(matched) /\ ToSet(matched) \subseteq ToSet(o.pods)
    BY <2>1, HeldLists, SelectedAt
  <2>3. ASSUME NEW p \in ToSet(o.pods) PROVE IsPlain(PodPart(p))
    <3>1. pid(p) \in IDs
      BY HeldObjects, IDsOf, KindWords
    <3> HIDE DEF pid, pnode
    <3>2. IsPlain(Adds(pid(p), pnode(p))) /\ IsPlain(Joins(from, pid(p), "selects"))
      BY <1>5, <3>1, PlainAdds, PlainJoins, Related
    <3> QED BY <3>2, PlainMerges
  <2> HIDE DEF matched, PodPart
  <2>4. pods = [i \in DOMAIN matched |-> pods[i]] /\ \A i \in DOMAIN matched : IsPlain(pods[i])
    BY <2>2, <2>3, ListElements
  <2> HIDE DEF pods
  <2> QED BY <2>2, <2>4, PlainEach
<1>9. IsPlain(MergeAll(<<Nothing>> \o served))
  <2>1. chosen \in SUBSET ToSet(o.services)
    OBVIOUS
  <2> HIDE DEF from, chosen
  <2>2. IsFiniteSet(chosen)
    BY <2>1, HeldLists, ListFinite, FS_Subset
  <2>3. \A x, y \in chosen : x.ns \in Word /\ x.name \in Word /\ (x.ns = y.ns /\ x.name = y.name => x = y)
    <3>1. "services" \in Keyed
      BY DEF Keyed
    <3>2. \A x, y \in ToSet(o["services"]) : x.ns \in Word /\ x.name \in Word /\ (x.ns = y.ns /\ x.name = y.name => x = y)
      BY <3>1, HeldKeys
    <3> QED BY <2>1, <3>2
  <2>4. IsList(services) /\ ToSet(services) \subseteq ToSet(o.services)
    BY <2>1, <2>2, <2>3, ByNameIs
  <2>5. ASSUME NEW s \in ToSet(o.services) PROVE IsPlain(Service(s))
    <3>1. s.ns \in Word /\ s.name \in Word
      BY HeldObjects
    <3>2. ServiceID(s) \in IDs
      BY <3>1, IDsOf, KindWords DEF ServiceID
    <3> HIDE DEF snode
    <3>3. IsPlain(Adds(ServiceID(s), snode(s))) /\ IsPlain(Joins(from, ServiceID(s), "selects"))
      BY <1>5, <3>2, PlainAdds, PlainJoins, Related
    <3>4. IsPlain(appendServiceEndpoints(o, s))
      BY PlainEndpoints
    <3> QED BY <3>3, <3>4, PlainMerges
  <2> HIDE DEF services, Service
  <2>6. served = [i \in DOMAIN services |-> served[i]] /\ \A i \in DOMAIN services : IsPlain(served[i])
    BY <2>4, <2>5, ListElements
  <2> HIDE DEF served
  <2> QED BY <2>4, <2>6, PlainEach
<1>10. IsPlain(last)
  <2> HIDE DEF services, pods, served
  <2> QED BY <1>8, <1>9
<1> HIDE DEF id, node, picked, last
<1> QED BY <1>1, <1>6, <1>7, <1>10, PlainMerges

\* Registries, bridges and Ingresses.
LEMMA PlainRegistry ==
  ASSUME NEW o, Held(o), NEW bridge \in ToSet(o.bridges), NEW registry \in ToSet(bridge.registries)
  PROVE  IsPlain(RegistryPart(o, bridge, registry))
<1> DEFINE id == RegistryID(bridge, registry)
           bid == <<"mcpbridge", bridge.ns, bridge.name>>
           targets == serviceForRegistryDomain(o, bridge, registry.domain)
           targetID == Append(id, "target")
           node == Node("Registry", [ns |-> bridge.ns, name |-> registry.name], "healthy",
                        {<<"Type", registry.type>>, <<"Domain", registry.domain>>})
           tnode == Node("ExternalTarget", [ns |-> bridge.ns, name |-> registry.name], "healthy", {<<"Address", registry.domain>>})
           resolved == IF registry.domain = <<>> THEN Nothing
                       ELSE IF targets = {} THEN Merge(Adds(targetID, tnode), Joins(id, targetID, "resolves"))
                       ELSE backendService(o, CHOOSE s \in targets : TRUE, id, "resolves", "registry Service has no ready endpoint", id)
<1>1. RegistryPart(o, bridge, registry) = MergeAll(<<Adds(id, node), Joins(bid, id, "discovers"), resolved>>)
  BY Zenon DEF RegistryPart
<1>2. bridge.ns \in Word /\ bridge.name \in Word /\ registry.name \in Word
  BY HeldLists, HeldObjects
<1>3. id = <<"registry", bridge.ns, bridge.name, registry.name>>
  BY DEF RegistryID
<1>4. id \in IDs /\ id[1] # "route"
  <2>1. /\ <<"registry", bridge.ns, bridge.name, registry.name>> \in IDs
        /\ <<"registry", bridge.ns, bridge.name, registry.name>>[1] = "registry"
    BY <1>2, IDsOf, KindWords
  <2> QED BY <1>3, <2>1
<1>5. bid \in IDs /\ bid[1] # "route"
  BY <1>2, IDsOf, KindWords
<1>6. targetID \in IDs
  <2> HIDE DEF id
  <2> QED BY <1>4, KindWords DEF IDs, Word
<1>7. targets \subseteq ToSet(o.services)
  BY DEF serviceForRegistryDomain, Named
<1> HIDE DEF id, bid, targetID, targets, node, tnode
<1>8. IsPlain(resolved)
  <2>1. CASE registry.domain = <<>>
    BY <2>1, PlainMerges
  <2>2. CASE registry.domain # <<>> /\ targets = {}
    <3>1. IsPlain(Adds(targetID, tnode)) /\ IsPlain(Joins(id, targetID, "resolves"))
      BY <1>4, <1>6, PlainAdds, PlainJoins, Related
    <3> QED BY <2>2, <3>1, PlainMerges
  <2>3. CASE registry.domain # <<>> /\ targets # {}
    <3> DEFINE s == CHOOSE x \in targets : TRUE
    <3>1. s \in ToSet(o.services)
      BY <1>7, <2>3
    <3> HIDE DEF s
    <3>2. "resolves" \in InCluster /\ "registry Service has no ready endpoint" \in PlainTitles
      BY Related DEF PlainTitles
    <3>3. IsPlain(backendService(o, s, id, "resolves", "registry Service has no ready endpoint", id))
      BY <1>4, <3>1, <3>2, PlainService
    <3> QED BY <2>3, <3>3 DEF s
  <2> QED BY <2>1, <2>2, <2>3
<1>9. IsPlain(Adds(id, node)) /\ IsPlain(Joins(bid, id, "discovers"))
  BY <1>4, <1>5, PlainAdds, PlainJoins, Related
<1> HIDE DEF resolved
<1> QED BY <1>1, <1>8, <1>9, PlainMerges

LEMMA PlainBridge ==
  ASSUME NEW o, Held(o), NEW bridge \in ToSet(o.bridges)
  PROVE  IsPlain(BridgePart(o, bridge))
<1> DEFINE id == <<"mcpbridge", bridge.ns, bridge.name>>
           list == bridge.registries
           ps == [i \in DOMAIN list |-> RegistryPart(o, bridge, list[i])]
           node == Node("McpBridge", bridge, IF list = <<>> THEN "warning" ELSE "healthy", {})
           empty == IF list = <<>> THEN Finds("McpBridge has no registry", id) ELSE Nothing
<1>1. BridgePart(o, bridge) = MergeAll(<<Adds(id, node), empty, MergeAll(<<Nothing>> \o ps)>>)
  BY Zenon DEF BridgePart, ForEach
<1>2. bridge.ns \in Word /\ bridge.name \in Word /\ IsList(list)
  BY HeldLists, HeldObjects
<1>3. id \in IDs
  BY <1>2, IDsOf, KindWords
<1>4. IsPlain(Adds(id, node))
  BY <1>3, PlainAdds
<1>5. IsPlain(empty)
  <2>1. "McpBridge has no registry" \in PlainTitles
    BY DEF PlainTitles
  <2> HIDE DEF id
  <2> QED BY <1>3, <2>1, PlainFinds, PlainMerges
<1> HIDE DEF id, node, empty
<1>6. ps = [i \in DOMAIN list |-> ps[i]] /\ \A i \in DOMAIN list : IsPlain(ps[i])
  BY PlainRegistry, ListElements
<1> HIDE DEF ps, list
<1>7. IsPlain(MergeAll(<<Nothing>> \o ps))
  BY <1>2, <1>6, PlainEach
<1> QED BY <1>1, <1>4, <1>5, <1>7, PlainMerges

LEMMA IngressIDs ==
  ASSUME NEW o, Held(o), NEW ingress \in ToSet(o.ingresses)
  PROVE  IngressID(ingress) \in IDs /\ IngressID(ingress)[1] # "route"
<1>1. ingress.ns \in Word /\ ingress.name \in Word
  BY HeldObjects
<1> QED BY <1>1, IDsOf, KindWords DEF IngressID

LEMMA PlainIngressEntry ==
  ASSUME NEW o, Held(o), NEW ingress \in ToSet(o.ingresses)
  PROVE  IsPlain(addIngressEntryResources(ingress))
<1>1. IsPlain(Adds(IngressID(ingress), Node("Ingress", ingress, "healthy", ingressEntryConditions(ingress))))
  BY IngressIDs, PlainAdds
<1> QED BY <1>1, PlainMerges DEF addIngressEntryResources

LEMMA PlainRegistrySelection ==
  ASSUME NEW o, Held(o), NEW ingress \in ToSet(o.ingresses), NEW bridge \in ToSet(o.bridges)
  PROVE  IsPlain(SelectRegistry(ingress, bridge))
<1> DEFINE named == {r \in ToSet(bridge.registries) : <<r.name, r.type>> = ingress.destination}
           keys == {<<r.name, r.type>> : r \in ToSet(bridge.registries)}
           Select(registries) == Joins(IngressID(ingress), RegistryID(bridge, CHOOSE r \in registries : TRUE), "selects")
<1>1. SelectRegistry(ingress, bridge) =
        IF ingress.destination # <<>>
        THEN IF named = {} THEN Finds("destination does not resolve", IngressID(ingress)) ELSE Select(named)
        ELSE IF Cardinality(keys) = 1 THEN Select(ToSet(bridge.registries)) ELSE Nothing
  BY Zenon DEF SelectRegistry
<1>2. bridge.ns \in Word /\ bridge.name \in Word /\ \A r \in ToSet(bridge.registries) : r.name \in Word
  BY HeldLists, HeldObjects
<1>3. ASSUME NEW registries \in SUBSET ToSet(bridge.registries), registries # {} PROVE IsPlain(Select(registries))
  <2> DEFINE r == CHOOSE r \in registries : TRUE
  <2>1. r \in ToSet(bridge.registries)
    BY <1>3
  <2> HIDE DEF r
  <2>2. RegistryID(bridge, r) \in IDs
    BY <1>2, <2>1, IDsOf, KindWords DEF RegistryID
  <2>3. IsPlain(Joins(IngressID(ingress), RegistryID(bridge, r), "selects"))
    BY <2>2, IngressIDs, PlainJoins, Related
  <2> QED BY <2>3 DEF r
<1>4. Cardinality(keys) = 1 => ToSet(bridge.registries) # {}
  <2> SUFFICES ASSUME ToSet(bridge.registries) = {} PROVE Cardinality(keys) = 0
    OBVIOUS
  <2>1. keys = {}
    OBVIOUS
  <2> QED BY <2>1, FS_EmptySet
<1>5. IsPlain(Finds("destination does not resolve", IngressID(ingress)))
  <2>1. "destination does not resolve" \in PlainTitles
    BY DEF PlainTitles
  <2> QED BY <2>1, IngressIDs, PlainFinds
<1>6. named \in SUBSET ToSet(bridge.registries) /\ ToSet(bridge.registries) \in SUBSET ToSet(bridge.registries)
  OBVIOUS
<1> HIDE DEF named, keys, Select
<1> QED BY <1>1, <1>3, <1>4, <1>5, <1>6, PlainMerges

LEMMA PlainIngress ==
  ASSUME NEW o, Held(o), NEW ingress \in ToSet(o.ingresses)
  PROVE  IsPlain(HigressIngressPart(o, ingress))
<1> DEFINE id == IngressID(ingress)
           bridges(b) == Named(o.bridges, ingress.ns, b.name)
           services(b) == Named(o.services, ingress.ns, b.name)
           bridge(b) == CHOOSE x \in bridges(b) : TRUE
           service(b) == CHOOSE s \in services(b) : TRUE
           bid(b) == <<"mcpbridge", bridge(b).ns, bridge(b).name>>
           Path(b) == IF b.kind = "McpBridge"
                      THEN IF bridges(b) = {} THEN Finds("McpBridge does not exist", id)
                           ELSE Merge(Joins(id, bid(b), "routes"), SelectRegistry(ingress, bridge(b)))
                      ELSE IF services(b) = {} THEN Finds("Ingress backend Service does not exist", id)
                           ELSE backendService(o, service(b), id, "routes", "Ingress backend has no ready endpoint", id)
           list == ingress.backends
           ps == [i \in DOMAIN list |-> Path(list[i])]
           node == Node("Ingress", ingress, "healthy", ingressEntryConditions(ingress))
<1>1. HigressIngressPart(o, ingress)
        = IF ~isHigressIngress(ingress) THEN Nothing ELSE Merge(Adds(id, node), MergeAll(<<Nothing>> \o ps))
  BY Zenon DEF HigressIngressPart, ForEach
<1>2. id \in IDs /\ id[1] # "route" /\ IsList(list)
  BY IngressIDs, HeldLists
<1>3. ASSUME NEW b PROVE IsPlain(Path(b))
  <2>1. bridges(b) \subseteq ToSet(o.bridges) /\ services(b) \subseteq ToSet(o.services)
    BY DEF Named
  <2> HIDE DEF id, bridges, services
  <2>2. /\ "McpBridge does not exist" \in PlainTitles /\ "Ingress backend Service does not exist" \in PlainTitles
        /\ "Ingress backend has no ready endpoint" \in PlainTitles /\ "routes" \in InCluster
    BY Related DEF PlainTitles
  <2>3. IsPlain(Finds("McpBridge does not exist", id)) /\ IsPlain(Finds("Ingress backend Service does not exist", id))
    BY <1>2, <2>2, PlainFinds
  <2>4. bridges(b) # {} => IsPlain(Merge(Joins(id, bid(b), "routes"), SelectRegistry(ingress, bridge(b))))
    <3> SUFFICES ASSUME bridges(b) # {} PROVE IsPlain(Merge(Joins(id, bid(b), "routes"), SelectRegistry(ingress, bridge(b))))
      OBVIOUS
    <3>1. bridge(b) \in ToSet(o.bridges)
      BY <2>1
    <3>2. bridge(b).ns \in Word /\ bridge(b).name \in Word
      BY <3>1, HeldObjects
    <3>3. bid(b) \in IDs
      BY <3>2, IDsOf, KindWords
    <3> HIDE DEF bid, bridge
    <3> QED BY <1>2, <2>2, <3>1, <3>3, PlainJoins, PlainRegistrySelection, PlainMerges
  <2>5. services(b) # {} => IsPlain(backendService(o, service(b), id, "routes", "Ingress backend has no ready endpoint", id))
    <3> SUFFICES ASSUME services(b) # {}
                 PROVE  IsPlain(backendService(o, service(b), id, "routes", "Ingress backend has no ready endpoint", id))
      OBVIOUS
    <3>1. service(b) \in ToSet(o.services)
      BY <2>1
    <3> HIDE DEF service
    <3> QED BY <1>2, <2>2, <3>1, PlainService
  <2> HIDE DEF service, bridge, bid
  <2> QED BY <2>3, <2>4, <2>5
<1> HIDE DEF Path
<1>4. ps = [i \in DOMAIN list |-> ps[i]] /\ \A i \in DOMAIN list : IsPlain(ps[i])
  BY <1>3
<1>5. IsPlain(Adds(id, node))
  BY <1>2, PlainAdds
<1> HIDE DEF ps, list, id, node
<1>6. IsPlain(MergeAll(<<Nothing>> \o ps))
  BY <1>2, <1>4, PlainEach
<1> QED BY <1>1, <1>5, <1>6, PlainMerges

LEMMA PlainLink ==
  ASSUME NEW o, Held(o), NEW ingress \in ToSet(o.ingresses)
  PROVE  IsPlain(linkIngressesToGateways(o, ingress))
<1> DEFINE class == ingressClassName(ingress)
           controllers == {c.controller : c \in {x \in ToSet(o.ingressClasses) : x.name = class}}
           controller == IF controllers = {} THEN "" ELSE CHOOSE c \in controllers : TRUE
           fallback == controller = "" /\ class = "higress"
           matches == {r \in o.runtimes : \/ controllersCompatible(controller, r.controller)
                                          \/ fallback /\ controllerFamily(r.controller) = "higress"}
           gateway == (CHOOSE r \in matches : TRUE).gateway
<1>1. linkIngressesToGateways(o, ingress) =
        IF class = "" \/ matches = {} THEN Nothing
        ELSE IF Cardinality(matches) = 1 THEN Joins(gateway, IngressID(ingress), "attaches")
        ELSE Finds("Ingress matches several gateways", IngressID(ingress))
  BY Zenon DEF linkIngressesToGateways
<1>2. matches \subseteq o.runtimes
  OBVIOUS
<1> HIDE DEF matches
<1>3. matches # {} => gateway \in IDs /\ gateway[1] # "route"
  BY <1>2, HeldLists
<1> HIDE DEF gateway, class
<1>4. matches # {} => IsPlain(Joins(gateway, IngressID(ingress), "attaches"))
  BY <1>3, IngressIDs, PlainJoins, Related
<1>5. IsPlain(Finds("Ingress matches several gateways", IngressID(ingress)))
  <2>1. "Ingress matches several gateways" \in PlainTitles
    BY DEF PlainTitles
  <2> QED BY <2>1, IngressIDs, PlainFinds
<1> QED BY <1>1, <1>4, <1>5, PlainMerges

-----------------------------------------------------------------------------
(* Routes and the backends they refer to                                   *)

ClusterEdges == Edges(InCluster)
ClusterFindings == [title : PlainTitles \cup {Unauthorised}, target : IDs]
IsClusterPart(p) == IsPart(p, ClusterEdges, ClusterFindings)

RouteID(route) == <<"route", route.ns, route.name>>
Denial(id) == [title |-> Unauthorised, target |-> id]

\* The nodes a reference may lead to, and whether it may lead there.
TargetsOf(ref) ==
    CASE ref.kind = "InferencePool" -> {<<"inferencepool", ref.ns, ref.name>>}
      [] ref.kind = "Service" -> {<<"service", ref.ns, ref.name>>, <<"transit", ref.ns, ref.name>>}
      [] OTHER -> {}
Allowed(o, route, ref) ==
    ref.ns = route.ns \/ grantsAllow(collectGrants(o), route.ns, ref.ns, ref.kind, ref.name)

\* A part that leads from route id to a target and says so when that is not allowed.
Refers(m, id, target, allowed) ==
    /\ IsClusterPart(m)
    /\ \A e \in ToSet(m.edges) : e.from[1] = "route" => e.from = id /\ e.to = target
    /\ \E e \in ToSet(m.edges) : e.from = id /\ e.to = target
    /\ \A f \in m.findings : f.title = Unauthorised => f = Denial(id) /\ ~allowed
    /\ ~allowed => Denial(id) \in m.findings

LEMMA PlainIsPart ==
  ASSUME NEW p, IsPlain(p)
  PROVE  /\ IsClusterPart(p)
         /\ \A e \in ToSet(p.edges) : e.from[1] # "route"
         /\ \A f \in p.findings : f.title # Unauthorised
<1>1. p.edges \in Seq(PlainEdges) /\ p.findings \in SUBSET PlainFindings
  BY DEF IsPlain, IsPart
<1>2. PlainEdges \subseteq ClusterEdges /\ PlainFindings \subseteq ClusterFindings
  BY DEF PlainEdges, ClusterEdges, PlainFindings, ClusterFindings
<1>3. ToSet(p.edges) \subseteq PlainEdges
  BY <1>1, Selected
<1>4. p.edges \in Seq(ClusterEdges)
  <2>1. Len(p.edges) \in Nat /\ p.edges \in [1..Len(p.edges) -> PlainEdges]
    BY <1>1, LenProperties
  <2>2. p.edges \in [1..Len(p.edges) -> ClusterEdges]
    BY <1>2, <2>1
  <2> QED BY <2>1, <2>2, SeqDef
<1>5. IsClusterPart(p)
  BY <1>1, <1>2, <1>4 DEF IsPlain, IsPart, IsClusterPart
<1>6. \A e \in ToSet(p.edges) : e.from[1] # "route"
  BY <1>3 DEF PlainEdges
<1>7. \A f \in p.findings : f.title # Unauthorised
  <2>1. \A f \in PlainFindings : f.title \in PlainTitles
    BY DEF PlainFindings
  <2> QED BY <1>1, <2>1, PlainTitlesAre
<1> QED BY <1>5, <1>6, <1>7

\* A part with one edge of the route and what is denied.
LEMMA RefersIs ==
  ASSUME NEW m, IsClusterPart(m), NEW id \in IDs, NEW target, NEW allowed \in BOOLEAN,
         [from |-> id, to |-> target, rel |-> "routes"] \in ToSet(m.edges),
         \A e \in ToSet(m.edges) : e.from[1] = "route" => e = [from |-> id, to |-> target, rel |-> "routes"],
         \A f \in m.findings : f.title = Unauthorised => f = Denial(id) /\ ~allowed,
         ~allowed => Denial(id) \in m.findings
  PROVE  Refers(m, id, target, allowed)
<1> DEFINE e == [from |-> id, to |-> target, rel |-> "routes"]
<1>1. e.from = id /\ e.to = target /\ e \in ToSet(m.edges)
  OBVIOUS
<1>2. \A x \in ToSet(m.edges) : x.from[1] = "route" => x = e
  OBVIOUS
<1> HIDE DEF e
<1>3. \A x \in ToSet(m.edges) : x.from[1] = "route" => x.from = id /\ x.to = target
  BY <1>1, <1>2
<1>4. \E x \in ToSet(m.edges) : x.from = id /\ x.to = target
  BY <1>1
<1> QED BY <1>3, <1>4 DEF Refers

\* The denial itself, and the edge.
LEMMA DeniedIs ==
  ASSUME NEW id \in IDs, NEW allowed \in BOOLEAN
  PROVE  LET denied == IF allowed THEN Nothing ELSE Finds(Unauthorised, id)
         IN  /\ IsClusterPart(denied) /\ ToSet(denied.edges) = {}
             /\ denied.findings = IF allowed THEN {} ELSE {Denial(id)}
<1>1. [title |-> Unauthorised, target |-> id] \in ClusterFindings
  BY DEF ClusterFindings
<1>2. CASE allowed
  BY <1>2, NothingIs DEF IsClusterPart
<1>3. CASE ~allowed
  BY <1>1, <1>3, FindsIs DEF IsClusterPart, Denial
<1> QED BY <1>2, <1>3

LEMMA LeadsIs ==
  ASSUME NEW id \in IDs, NEW target \in IDs
  PROVE  LET leads == Joins(id, target, "routes")
         IN  /\ IsClusterPart(leads) /\ leads.findings = {}
             /\ ToSet(leads.edges) = {[from |-> id, to |-> target, rel |-> "routes"]}
<1>1. "routes" \in InCluster
  BY Related
<1>2. [from |-> id, to |-> target, rel |-> "routes"] \in ClusterEdges
  BY <1>1 DEF ClusterEdges, Edges
<1> QED BY <1>2, JoinsIs DEF IsClusterPart

\* A reference that resolves leads where it says; another adds only findings.
LEMMA BackendRefers ==
  ASSUME NEW o, Held(o), NEW route \in ToSet(o.routes), NEW ref
  PROVE  \/ IsPlain(addBackend(o, route, ref))
         \/ \E target \in TargetsOf(ref) : Refers(addBackend(o, route, ref), RouteID(route), target, Allowed(o, route, ref))
<1> DEFINE id == RouteID(route)
           pools == IF ref.kind = "InferencePool" THEN Named(o.pools, ref.ns, ref.name) ELSE {}
           services == IF ref.kind = "Service" THEN Named(o.services, ref.ns, ref.name) ELSE {}
           allowed == Allowed(o, route, ref)
           denied == IF allowed THEN Nothing ELSE Finds(Unauthorised, id)
           poolID(pool) == <<"inferencepool", pool.ns, pool.name>>
           mark(pool) == IF allowed THEN Nothing ELSE MarkNodeError(poolID(pool))
           Pool(pool) == MergeAll(<<addInferencePool(o, pool), denied, mark(pool), Joins(id, poolID(pool), "routes")>>)
           transitID(s) == <<"transit", s.ns, s.name>>
           tnode(s) == Node("TransitHop", s, IF allowed THEN "healthy" ELSE "error",
                            {<<"ExternalName", s.external>>, <<"Destination", s.external>>})
           Transit(s) == MergeAll(<<denied, Adds(transitID(s), tnode(s)), Joins(id, transitID(s), "routes")>>)
           down(s) == readyEndpoints(o, s) = {}
           warns(s) == IF allowed /\ down(s) THEN Finds("backend has no ready endpoint", id) ELSE Nothing
           snode(s) == Node("Service", s, IF allowed /\ ~down(s) THEN "healthy" ELSE "error", {})
           Backend(s) == MergeAll(<<denied, warns(s), Adds(ServiceID(s), snode(s)),
                                    Joins(id, ServiceID(s), "routes"), appendServiceEndpoints(o, s)>>)
           pool0 == CHOOSE p \in pools : TRUE
           service0 == CHOOSE s \in services : TRUE
<1>1. addBackend(o, route, ref) =
        IF ref.kind \notin {"Service", "InferencePool"} THEN Finds("unsupported backend kind", id)
        ELSE IF pools \cup services = {} THEN Finds("backend does not exist", id)
        ELSE IF ref.kind = "InferencePool" THEN Pool(pool0)
        ELSE IF service0.external # <<>> THEN Transit(service0) ELSE Backend(service0)
  BY Zenon DEF addBackend, RouteID, Allowed
<1>2. route.ns \in Word /\ route.name \in Word
  BY HeldObjects
<1>3. id \in IDs /\ id[1] = "route"
  BY <1>2, IDsOf, KindWords DEF RouteID
<1>4. allowed \in BOOLEAN
  BY DEF Allowed, grantsAllow
<1> HIDE DEF id, allowed
<1>5. /\ IsClusterPart(denied) /\ ToSet(denied.edges) = {}
      /\ denied.findings = IF allowed THEN {} ELSE {Denial(id)}
  BY <1>3, <1>4, DeniedIs
<1> HIDE DEF denied
<1>6. CASE ref.kind \notin {"Service", "InferencePool"} \/ pools \cup services = {}
  <2>1. "unsupported backend kind" \in PlainTitles /\ "backend does not exist" \in PlainTitles
    BY DEF PlainTitles
  <2>2. IsPlain(Finds("unsupported backend kind", id)) /\ IsPlain(Finds("backend does not exist", id))
    BY <1>3, <2>1, PlainFinds
  <2> HIDE DEF pools, services
  <2> QED BY <1>1, <1>6, <2>2
<1>7. CASE ref.kind = "InferencePool" /\ pools # {}
  <2>1. pool0 \in ToSet(o.pools) /\ pool0.ns = ref.ns /\ pool0.name = ref.name
    BY <1>7 DEF Named
  <2>2. addBackend(o, route, ref) = Pool(pool0)
    <3> HIDE DEF pools, services, pool0, service0, Pool, Transit, Backend
    <3> QED BY <1>1, <1>7
  <2> HIDE DEF pool0
  <2> DEFINE a == addInferencePool(o, pool0)
             t == poolID(pool0)
             b == mark(pool0)
             c == Joins(id, t, "routes")
             m == MergeAll(<<a, denied, b, c>>)
  <2>3. pool0.ns \in Word /\ pool0.name \in Word
    BY <2>1, HeldObjects
  <2>4. t \in IDs
    BY <2>3, IDsOf, KindWords
  <2>5. t \in TargetsOf(ref)
    BY <1>7, <2>1 DEF TargetsOf
  <2>6. IsPlain(a)
    BY <2>1, PlainPool
  <2>7. IsClusterPart(b) /\ ToSet(b.edges) = {} /\ b.findings = {}
    BY NothingIs, MarksIs DEF IsClusterPart
  <2> HIDE DEF a, b, t
  <2>8. IsClusterPart(c) /\ c.findings = {} /\ ToSet(c.edges) = {[from |-> id, to |-> t, rel |-> "routes"]}
    BY <1>3, <2>4, LeadsIs
  <2>9. IsClusterPart(a) /\ (\A e \in ToSet(a.edges) : e.from[1] # "route") /\ \A f \in a.findings : f.title # Unauthorised
    BY <2>6, PlainIsPart
  <2> HIDE DEF c
  <2>10. /\ IsClusterPart(m)
         /\ m.findings = a.findings \cup denied.findings \cup b.findings \cup c.findings
         /\ ToSet(m.edges) = ToSet(a.edges) \cup ToSet(denied.edges) \cup ToSet(b.edges) \cup ToSet(c.edges)
    BY <1>5, <2>7, <2>8, <2>9, MergedFour DEF IsClusterPart
  <2> HIDE DEF m
  <2>11. /\ [from |-> id, to |-> t, rel |-> "routes"] \in ToSet(m.edges)
         /\ \A e \in ToSet(m.edges) : e.from[1] = "route" => e = [from |-> id, to |-> t, rel |-> "routes"]
    BY <1>5, <2>7, <2>8, <2>9, <2>10
  <2>12. /\ \A f \in m.findings : f.title = Unauthorised => f = Denial(id) /\ ~allowed
         /\ ~allowed => Denial(id) \in m.findings
    BY <1>5, <2>7, <2>8, <2>9, <2>10
  <2>13. Refers(m, id, t, allowed)
    BY <1>3, <1>4, <2>10, <2>11, <2>12, RefersIs
  <2>14. addBackend(o, route, ref) = m
    BY <2>2 DEF m, a, b, c, t
  <2> QED BY <2>5, <2>13, <2>14 DEF id, allowed
<1>8. CASE ref.kind = "Service" /\ services # {}
  <2>1. service0 \in ToSet(o.services) /\ service0.ns = ref.ns /\ service0.name = ref.name
    BY <1>8 DEF Named
  <2>2. addBackend(o, route, ref) = IF service0.external # <<>> THEN Transit(service0) ELSE Backend(service0)
    <3> HIDE DEF pools, services, pool0, service0, Pool, Transit, Backend
    <3> QED BY <1>1, <1>8
  <2> HIDE DEF service0
  <2>3. service0.ns \in Word /\ service0.name \in Word
    BY <2>1, HeldObjects
  <2>4. CASE service0.external # <<>>
    <3> DEFINE t == transitID(service0)
               a == Adds(t, tnode(service0))
               c == Joins(id, t, "routes")
               m == MergeAll(<<denied, a, c>>)
    <3>1. t \in IDs
      BY <2>3, IDsOf, KindWords
    <3>2. t \in TargetsOf(ref)
      BY <1>8, <2>1 DEF TargetsOf
    <3> HIDE DEF t, tnode
    <3>3. IsClusterPart(a) /\ ToSet(a.edges) = {} /\ a.findings = {}
      BY <3>1, AddsIs DEF IsClusterPart
    <3>4. IsClusterPart(c) /\ c.findings = {} /\ ToSet(c.edges) = {[from |-> id, to |-> t, rel |-> "routes"]}
      BY <1>3, <3>1, LeadsIs
    <3> HIDE DEF a, c
    <3>5. /\ IsClusterPart(m) /\ m.findings = denied.findings \cup a.findings \cup c.findings
          /\ ToSet(m.edges) = ToSet(denied.edges) \cup ToSet(a.edges) \cup ToSet(c.edges)
      <4>1. IsPart(denied, ClusterEdges, ClusterFindings)
        BY <1>5 DEF IsClusterPart
      <4>2. IsPart(a, ClusterEdges, ClusterFindings)
        BY <3>3 DEF IsClusterPart
      <4>3. IsPart(c, ClusterEdges, ClusterFindings)
        BY <3>4 DEF IsClusterPart
      <4>4. /\ IsPart(MergeAll(<<denied, a, c>>), ClusterEdges, ClusterFindings)
            /\ MergeAll(<<denied, a, c>>).findings = denied.findings \cup a.findings \cup c.findings
            /\ ToSet(MergeAll(<<denied, a, c>>).edges) = ToSet(denied.edges) \cup ToSet(a.edges) \cup ToSet(c.edges)
        BY <4>1, <4>2, <4>3, MergedThree
      <4> QED BY <4>4 DEF IsClusterPart
    <3> HIDE DEF m
    <3>6. /\ [from |-> id, to |-> t, rel |-> "routes"] \in ToSet(m.edges)
          /\ \A e \in ToSet(m.edges) : e.from[1] = "route" => e = [from |-> id, to |-> t, rel |-> "routes"]
      BY <1>5, <3>3, <3>4, <3>5
    <3>7. /\ \A f \in m.findings : f.title = Unauthorised => f = Denial(id) /\ ~allowed
          /\ ~allowed => Denial(id) \in m.findings
      BY <1>5, <3>3, <3>4, <3>5
    <3>8. Refers(m, id, t, allowed)
      BY <1>3, <1>4, <3>5, <3>6, <3>7, RefersIs
    <3>9. addBackend(o, route, ref) = m
      BY <2>2, <2>4 DEF m, a, c, t
    <3> QED BY <3>2, <3>8, <3>9 DEF id, allowed
  <2>5. CASE service0.external = <<>>
    <3> DEFINE t == ServiceID(service0)
               w == warns(service0)
               a == Adds(t, snode(service0))
               c == Joins(id, t, "routes")
               g == appendServiceEndpoints(o, service0)
               m == MergeAll(<<denied, w, a, c, g>>)
    <3>1. t \in IDs
      BY <2>3, IDsOf, KindWords DEF ServiceID
    <3>2. t \in TargetsOf(ref)
      BY <1>8, <2>1 DEF TargetsOf, ServiceID
    <3>3. IsPlain(w)
      <4>1. "backend has no ready endpoint" \in PlainTitles
        BY DEF PlainTitles
      <4>2. IsPlain(Finds("backend has no ready endpoint", id)) /\ IsPlain(Nothing)
        BY <1>3, <4>1, PlainFinds, PlainMerges
      <4> HIDE DEF down
      <4> QED BY <4>2
    <3>4. IsPlain(g)
      BY <2>1, PlainEndpoints
    <3> HIDE DEF t, w, g, snode
    <3>5. IsClusterPart(a) /\ ToSet(a.edges) = {} /\ a.findings = {}
      BY <3>1, AddsIs DEF IsClusterPart
    <3>6. IsClusterPart(c) /\ c.findings = {} /\ ToSet(c.edges) = {[from |-> id, to |-> t, rel |-> "routes"]}
      BY <1>3, <3>1, LeadsIs
    <3>7. /\ IsClusterPart(w) /\ (\A e \in ToSet(w.edges) : e.from[1] # "route") /\ \A f \in w.findings : f.title # Unauthorised
          /\ IsClusterPart(g) /\ (\A e \in ToSet(g.edges) : e.from[1] # "route") /\ \A f \in g.findings : f.title # Unauthorised
      BY <3>3, <3>4, PlainIsPart
    <3> HIDE DEF a, c
    <3>8. /\ IsClusterPart(m)
          /\ m.findings = denied.findings \cup w.findings \cup a.findings \cup c.findings \cup g.findings
          /\ ToSet(m.edges) = ToSet(denied.edges) \cup ToSet(w.edges) \cup ToSet(a.edges) \cup ToSet(c.edges) \cup ToSet(g.edges)
      <4>1. IsPart(denied, ClusterEdges, ClusterFindings)
        BY <1>5 DEF IsClusterPart
      <4>2. IsPart(a, ClusterEdges, ClusterFindings)
        BY <3>5 DEF IsClusterPart
      <4>3. IsPart(c, ClusterEdges, ClusterFindings)
        BY <3>6 DEF IsClusterPart
      <4>4. IsPart(w, ClusterEdges, ClusterFindings) /\ IsPart(g, ClusterEdges, ClusterFindings)
        BY <3>7 DEF IsClusterPart
      <4>5. /\ IsPart(MergeAll(<<denied, w, a, c, g>>), ClusterEdges, ClusterFindings)
            /\ MergeAll(<<denied, w, a, c, g>>).findings = denied.findings \cup w.findings \cup a.findings \cup c.findings \cup g.findings
            /\ ToSet(MergeAll(<<denied, w, a, c, g>>).edges)
                 = ToSet(denied.edges) \cup ToSet(w.edges) \cup ToSet(a.edges) \cup ToSet(c.edges) \cup ToSet(g.edges)
        BY <4>1, <4>2, <4>3, <4>4, MergedFive
      <4> QED BY <4>5 DEF IsClusterPart
    <3> HIDE DEF m
    <3>10. /\ [from |-> id, to |-> t, rel |-> "routes"] \in ToSet(m.edges)
           /\ \A e \in ToSet(m.edges) : e.from[1] = "route" => e = [from |-> id, to |-> t, rel |-> "routes"]
      BY <1>5, <3>5, <3>6, <3>7, <3>8
    <3>11. /\ \A f \in m.findings : f.title = Unauthorised => f = Denial(id) /\ ~allowed
           /\ ~allowed => Denial(id) \in m.findings
      BY <1>5, <3>5, <3>6, <3>7, <3>8
    <3>12. Refers(m, id, t, allowed)
      BY <1>3, <1>4, <3>8, <3>10, <3>11, RefersIs
    <3>13. addBackend(o, route, ref) = m
      BY <2>2, <2>5 DEF m, a, c, t, w, g
    <3> QED BY <3>2, <3>12, <3>13 DEF id, allowed
  <2> QED BY <2>4, <2>5
<1>9. \/ ref.kind \notin {"Service", "InferencePool"} \/ pools \cup services = {}
      \/ ref.kind = "InferencePool" /\ pools # {}
      \/ ref.kind = "Service" /\ services # {}
  OBVIOUS
<1> QED BY <1>6, <1>7, <1>8, <1>9

\* What a route's part says: its edges lead to targets of its references, every
\* forbidden one is reported, and nothing else is.
RouteSays(p, o, route) ==
    /\ IsClusterPart(p)
    /\ \A e \in ToSet(p.edges) : e.from[1] = "route" =>
          /\ e.from = RouteID(route)
          /\ \E ref \in ToSet(route.backends) :
                e.to \in TargetsOf(ref) /\ (~Allowed(o, route, ref) => Denial(RouteID(route)) \in p.findings)
    /\ \A f \in p.findings : f.title = Unauthorised =>
          /\ f = Denial(RouteID(route))
          /\ \E ref \in ToSet(route.backends), e \in ToSet(p.edges) :
                e.from = RouteID(route) /\ e.to \in TargetsOf(ref) /\ ~Allowed(o, route, ref)

LEMMA BackendSays ==
  ASSUME NEW o, Held(o), NEW route \in ToSet(o.routes), NEW ref \in ToSet(route.backends)
  PROVE  RouteSays(addBackend(o, route, ref), o, route)
<1> DEFINE p == addBackend(o, route, ref)
           id == RouteID(route)
           allowed == Allowed(o, route, ref)
<1>1. IsPlain(p) \/ \E target \in TargetsOf(ref) : Refers(p, id, target, allowed)
  BY BackendRefers
<1> HIDE DEF p, id, allowed
<1>2. CASE IsPlain(p)
  BY <1>2, PlainIsPart DEF RouteSays, p
<1>3. ASSUME NEW target \in TargetsOf(ref), Refers(p, id, target, allowed) PROVE RouteSays(p, o, route)
  <2>1. IsClusterPart(p)
    BY <1>3 DEF Refers
  <2>2. \A e \in ToSet(p.edges) : e.from[1] = "route" => e.from = id /\ e.to \in TargetsOf(ref)
    BY <1>3 DEF Refers
  <2>3. ~allowed => Denial(id) \in p.findings
    BY <1>3 DEF Refers
  <2>4. PICK x \in ToSet(p.edges) : x.from = id /\ x.to \in TargetsOf(ref)
    BY <1>3 DEF Refers
  <2>5. \A f \in p.findings : f.title = Unauthorised => f = Denial(id) /\ ~allowed
    BY <1>3 DEF Refers
  <2> QED BY <2>1, <2>2, <2>3, <2>4, <2>5 DEF RouteSays, id, allowed
<1> QED BY <1>1, <1>2, <1>3 DEF p

\* A route attaches to gateways and listeners.
LEMMA PlainParent ==
  ASSUME NEW o, Held(o), NEW route \in ToSet(o.routes), NEW p \in ToSet(route.parents)
  PROVE  IsPlain(IF Named(o.gateways, p.ns, p.name) = {} THEN Finds("parent Gateway does not exist", RouteID(route))
                 ELSE Joins(IF p.section = "" THEN <<"gateway", p.ns, p.name>>
                            ELSE <<"listener", p.ns, p.name, p.section>>, RouteID(route), "attaches"))
<1> DEFINE id == RouteID(route)
           from == IF p.section = "" THEN <<"gateway", p.ns, p.name>> ELSE <<"listener", p.ns, p.name, p.section>>
<1>1. route.ns \in Word /\ route.name \in Word
  BY HeldObjects
<1>2. id \in IDs
  BY <1>1, IDsOf, KindWords DEF RouteID
<1>3. p.ns \in Word /\ p.name \in Word /\ p.section \in Word \cup {""}
  BY HeldLists
<1>4. from \in IDs /\ from[1] # "route"
  <2>1. CASE p.section = ""
    BY <1>3, <2>1, IDsOf, KindWords
  <2>2. CASE p.section # ""
    <3>1. p.section \in Word
      BY <1>3, <2>2
    <3> QED BY <1>3, <2>2, <3>1, IDsOf, KindWords
  <2> QED BY <2>1, <2>2
<1>5. "parent Gateway does not exist" \in PlainTitles /\ "attaches" \in InCluster
  BY Related DEF PlainTitles
<1> HIDE DEF id, from
<1>6. IsPlain(Finds("parent Gateway does not exist", id)) /\ IsPlain(Joins(from, id, "attaches"))
  BY <1>2, <1>4, <1>5, PlainFinds, PlainJoins
<1>7. IsPlain(IF Named(o.gateways, p.ns, p.name) = {} THEN Finds("parent Gateway does not exist", id)
              ELSE Joins(from, id, "attaches"))
  BY <1>6
<1> QED BY <1>7, Zenon DEF id, from

\* A route's node, parents and backends together.
LEMMA RoutePartSays ==
  ASSUME NEW o, Held(o), NEW route \in ToSet(o.routes)
  PROVE  RouteSays(RoutePart(o, route), o, route)
<1> DEFINE id == RouteID(route)
           Parent(p) == IF Named(o.gateways, p.ns, p.name) = {} THEN Finds("parent Gateway does not exist", id)
                        ELSE Joins(IF p.section = "" THEN <<"gateway", p.ns, p.name>>
                                   ELSE <<"listener", p.ns, p.name, p.section>>, id, "attaches")
           ps == [i \in DOMAIN route.parents |-> Parent(route.parents[i])]
           bs == [i \in DOMAIN route.backends |-> addBackend(o, route, route.backends[i])]
           a == Adds(id, Node("HTTPRoute", route, "healthy", {}))
           b == MergeAll(<<Nothing>> \o ps)
           c == MergeAll(<<Nothing>> \o bs)
           m == MergeAll(<<a, b, c>>)
<1>1. RoutePart(o, route) = m
  BY Zenon DEF RoutePart, ForEach, RouteID
<1>2. IsList(route.parents) /\ IsList(route.backends)
  BY HeldLists
<1>3. IsPlain(a)
  <2>1. route.ns \in Word /\ route.name \in Word
    BY HeldObjects
  <2>2. id \in IDs
    BY <2>1, IDsOf, KindWords DEF RouteID
  <2> QED BY <2>2, PlainAdds
<1>4. ps = [i \in DOMAIN route.parents |-> ps[i]] /\ \A i \in DOMAIN route.parents : IsPlain(ps[i])
  <2>1. \A p \in ToSet(route.parents) : IsPlain(Parent(p))
    BY PlainParent
  <2>2. \A i \in DOMAIN route.parents : route.parents[i] \in ToSet(route.parents)
    BY ListElements
  <2> HIDE DEF Parent
  <2> QED BY <2>1, <2>2
<1>5. bs = [i \in DOMAIN route.backends |-> bs[i]] /\ \A i \in DOMAIN route.backends : RouteSays(bs[i], o, route)
  BY BackendSays, ListElements
<1> HIDE DEF id, a, ps, bs
<1>6. IsPlain(b)
  BY <1>2, <1>4, PlainEach
<1>7. /\ IsPart(c, ClusterEdges, ClusterFindings)
      /\ \A e : e \in ToSet(c.edges) <=> \E i \in DOMAIN route.backends : e \in ToSet(bs[i].edges)
      /\ \A f : f \in c.findings <=> \E i \in DOMAIN route.backends : f \in bs[i].findings
  <2>1. \A i \in DOMAIN route.backends : IsPart(bs[i], ClusterEdges, ClusterFindings)
    BY <1>5 DEF RouteSays, IsClusterPart
  <2> QED BY <1>2, <1>5, <2>1, MergedEach
<1>8. RouteSays(c, o, route)
  <2>1. IsClusterPart(c)
    BY <1>7 DEF IsClusterPart
  <2> HIDE DEF c
  <2>2. ASSUME NEW e \in ToSet(c.edges), e.from[1] = "route"
        PROVE  /\ e.from = RouteID(route)
               /\ \E ref \in ToSet(route.backends) :
                     e.to \in TargetsOf(ref) /\ (~Allowed(o, route, ref) => Denial(RouteID(route)) \in c.findings)
    <3>1. PICK i \in DOMAIN route.backends : e \in ToSet(bs[i].edges)
      BY <1>7
    <3>2. RouteSays(bs[i], o, route)
      BY <1>5
    <3>3. bs[i].findings \subseteq c.findings
      BY <1>7
    <3> QED BY <2>2, <3>1, <3>2, <3>3 DEF RouteSays
  <2>3. ASSUME NEW f \in c.findings, f.title = Unauthorised
        PROVE  /\ f = Denial(RouteID(route))
               /\ \E ref \in ToSet(route.backends), e \in ToSet(c.edges) :
                     e.from = RouteID(route) /\ e.to \in TargetsOf(ref) /\ ~Allowed(o, route, ref)
    <3>1. PICK i \in DOMAIN route.backends : f \in bs[i].findings
      BY <1>7
    <3>2. RouteSays(bs[i], o, route)
      BY <1>5
    <3>3. ToSet(bs[i].edges) \subseteq ToSet(c.edges)
      BY <1>7
    <3> QED BY <2>3, <3>1, <3>2, <3>3 DEF RouteSays
  <2> QED BY <2>1, <2>2, <2>3 DEF RouteSays
<1> HIDE DEF b, c
<1>9. /\ IsClusterPart(a) /\ (\A e \in ToSet(a.edges) : e.from[1] # "route") /\ \A f \in a.findings : f.title # Unauthorised
      /\ IsClusterPart(b) /\ (\A e \in ToSet(b.edges) : e.from[1] # "route") /\ \A f \in b.findings : f.title # Unauthorised
  BY <1>3, <1>6, PlainIsPart
<1>10. /\ IsPart(MergeAll(<<a, b, c>>), ClusterEdges, ClusterFindings)
       /\ MergeAll(<<a, b, c>>).findings = a.findings \cup b.findings \cup c.findings
       /\ ToSet(MergeAll(<<a, b, c>>).edges) = ToSet(a.edges) \cup ToSet(b.edges) \cup ToSet(c.edges)
  <2>1. IsPart(a, ClusterEdges, ClusterFindings) /\ IsPart(b, ClusterEdges, ClusterFindings)
    BY <1>9 DEF IsClusterPart
  <2> QED BY <1>7, <2>1, MergedThree
<1>11. /\ IsClusterPart(m) /\ m.findings = a.findings \cup b.findings \cup c.findings
       /\ ToSet(m.edges) = ToSet(a.edges) \cup ToSet(b.edges) \cup ToSet(c.edges)
  BY <1>10 DEF IsClusterPart
<1> HIDE DEF m
<1>12. /\ \A e \in ToSet(m.edges) : e.from[1] = "route" => e \in ToSet(c.edges)
       /\ \A f \in m.findings : f.title = Unauthorised => f \in c.findings
       /\ ToSet(c.edges) \subseteq ToSet(m.edges) /\ c.findings \subseteq m.findings
  BY <1>9, <1>11
<1>13. RouteSays(m, o, route)
  BY <1>8, <1>11, <1>12 DEF RouteSays
<1> QED BY <1>1, <1>13

-----------------------------------------------------------------------------
(* The whole snapshot                                                      *)

\* All that is said of routes and of denied references is said of one of the routes.
RoutesOnly(p, o) ==
    /\ IsClusterPart(p)
    /\ \A e \in ToSet(p.edges) : e.from[1] = "route" =>
          \E route \in ToSet(o.routes) : e \in ToSet(RoutePart(o, route).edges)
    /\ \A f \in p.findings : f.title = Unauthorised =>
          \E route \in ToSet(o.routes) : f \in RoutePart(o, route).findings

LEMMA PlainRoutesOnly ==
  ASSUME NEW p, NEW o, IsPlain(p)
  PROVE  RoutesOnly(p, o)
BY PlainIsPart DEF RoutesOnly

\* Merging a list of parts keeps this.
LEMMA MergedRoutesOnly ==
  ASSUME NEW L \in Nat, NEW o, NEW parts, DOMAIN parts = 1..L, \A i \in 1..L : RoutesOnly(parts[i], o)
  PROVE  /\ RoutesOnly(MergeAll(parts), o)
         /\ \A i \in 1..L : /\ ToSet(parts[i].edges) \subseteq ToSet(MergeAll(parts).edges)
                            /\ parts[i].findings \subseteq MergeAll(parts).findings
<1> DEFINE m == MergeAll(parts)
<1>1. \A i \in 1..L : IsPart(parts[i], ClusterEdges, ClusterFindings)
  BY DEF RoutesOnly, IsClusterPart
<1>2. MergedOf(L, ClusterEdges, ClusterFindings, parts)
  BY <1>1, Merged
<1>3. /\ IsPart(m, ClusterEdges, ClusterFindings)
      /\ \A e : e \in ToSet(m.edges) <=> \E i \in 1..L : e \in ToSet(parts[i].edges)
      /\ \A f : f \in m.findings <=> \E i \in 1..L : f \in parts[i].findings
  BY <1>2, Zenon DEF MergedOf
<1> HIDE DEF m
<1>4. \A e \in ToSet(m.edges) : e.from[1] = "route" =>
         \E route \in ToSet(o.routes) : e \in ToSet(RoutePart(o, route).edges)
  BY <1>3 DEF RoutesOnly
<1>5. \A f \in m.findings : f.title = Unauthorised => \E route \in ToSet(o.routes) : f \in RoutePart(o, route).findings
  BY <1>3 DEF RoutesOnly
<1>6. RoutesOnly(m, o)
  BY <1>3, <1>4, <1>5 DEF RoutesOnly, IsClusterPart
<1>7. \A i \in 1..L : ToSet(parts[i].edges) \subseteq ToSet(m.edges) /\ parts[i].findings \subseteq m.findings
  BY <1>3
<1> QED BY <1>6, <1>7 DEF m

\* The routes' parts.
LEMMA RoutesBuilt ==
  ASSUME NEW o, Held(o)
  PROVE  LET m == MergeAll(<<Nothing>> \o [i \in DOMAIN o.routes |-> RoutePart(o, o.routes[i])])
         IN  /\ RoutesOnly(m, o)
             /\ \A route \in ToSet(o.routes) : /\ ToSet(RoutePart(o, route).edges) \subseteq ToSet(m.edges)
                                               /\ RoutePart(o, route).findings \subseteq m.findings
<1> DEFINE list == o.routes
           ps == [i \in DOMAIN list |-> RoutePart(o, list[i])]
           m == MergeAll(<<Nothing>> \o ps)
<1>1. IsList(list)
  BY HeldLists
<1>2. \A i \in DOMAIN list : list[i] \in ToSet(list)
  BY ListElements
<1>3. \A i \in DOMAIN list : IsPart(ps[i], ClusterEdges, ClusterFindings)
  BY <1>2, RoutePartSays DEF RouteSays, IsClusterPart
<1>4. ps = [i \in DOMAIN list |-> ps[i]] /\ \A i \in DOMAIN list : ps[i] = RoutePart(o, list[i])
  OBVIOUS
<1>5. \A route \in ToSet(list) : \E i \in DOMAIN list : list[i] = route
  BY DEF ToSet
<1> HIDE DEF ps
<1>6. /\ IsPart(m, ClusterEdges, ClusterFindings)
      /\ \A e : e \in ToSet(m.edges) <=> \E i \in DOMAIN list : e \in ToSet(ps[i].edges)
      /\ \A f : f \in m.findings <=> \E i \in DOMAIN list : f \in ps[i].findings
  BY <1>1, <1>3, <1>4, MergedEach
<1> HIDE DEF m, list
<1>7. \A route \in ToSet(list) : ToSet(RoutePart(o, route).edges) \subseteq ToSet(m.edges) /\ RoutePart(o, route).findings \subseteq m.findings
  BY <1>4, <1>5, <1>6
<1>8. /\ \A e \in ToSet(m.edges) : \E route \in ToSet(list) : e \in ToSet(RoutePart(o, route).edges)
      /\ \A f \in m.findings : \E route \in ToSet(list) : f \in RoutePart(o, route).findings
  BY <1>2, <1>4, <1>6
<1>9. RoutesOnly(m, o)
  BY <1>6, <1>8 DEF RoutesOnly, IsClusterPart, list
<1> QED BY <1>7, <1>9 DEF m, ps, list

\* The parts of the other kinds.
LEMMA PlainLists ==
  ASSUME NEW o, Held(o)
  PROVE  /\ IsPlain(MergeAll(<<Nothing>> \o [i \in DOMAIN o.gateways |-> GatewayPart(o, o.gateways[i])]))
         /\ IsPlain(MergeAll(<<Nothing>> \o [i \in DOMAIN ByName(ToSet(o.deployments)) |->
                                                StandalonePart(o, ByName(ToSet(o.deployments))[i])]))
         /\ IsPlain(MergeAll(<<Nothing>> \o [i \in DOMAIN o.ingresses |-> addIngressEntryResources(o.ingresses[i])]))
         /\ IsPlain(MergeAll(<<Nothing>> \o [i \in DOMAIN o.bridges |-> BridgePart(o, o.bridges[i])]))
         /\ IsPlain(MergeAll(<<Nothing>> \o [i \in DOMAIN o.ingresses |-> HigressIngressPart(o, o.ingresses[i])]))
         /\ IsPlain(MergeAll(<<Nothing>> \o [i \in DOMAIN o.ingresses |-> linkIngressesToGateways(o, o.ingresses[i])]))
<1> DEFINE gateways == [i \in DOMAIN o.gateways |-> GatewayPart(o, o.gateways[i])]
           byName == ByName(ToSet(o.deployments))
           standalone == [i \in DOMAIN byName |-> StandalonePart(o, byName[i])]
           entries == [i \in DOMAIN o.ingresses |-> addIngressEntryResources(o.ingresses[i])]
           bridges == [i \in DOMAIN o.bridges |-> BridgePart(o, o.bridges[i])]
           ingresses == [i \in DOMAIN o.ingresses |-> HigressIngressPart(o, o.ingresses[i])]
           links == [i \in DOMAIN o.ingresses |-> linkIngressesToGateways(o, o.ingresses[i])]
<1>1. IsList(o.gateways) /\ IsList(o.deployments) /\ IsList(o.bridges) /\ IsList(o.ingresses)
  BY HeldLists
<1>2. /\ \A i \in DOMAIN o.gateways : o.gateways[i] \in ToSet(o.gateways)
      /\ \A i \in DOMAIN o.bridges : o.bridges[i] \in ToSet(o.bridges)
      /\ \A i \in DOMAIN o.ingresses : o.ingresses[i] \in ToSet(o.ingresses)
  BY ListElements
<1>3. IsPlain(MergeAll(<<Nothing>> \o gateways))
  <2>1. gateways = [i \in DOMAIN o.gateways |-> gateways[i]] /\ \A i \in DOMAIN o.gateways : IsPlain(gateways[i])
    BY <1>2, PlainGateway
  <2> HIDE DEF gateways
  <2> QED BY <1>1, <2>1, PlainEach
<1>4. IsPlain(MergeAll(<<Nothing>> \o standalone))
  <2>1. IsList(byName) /\ ToSet(byName) \subseteq ToSet(o.deployments)
    <3>1. IsFiniteSet(ToSet(o.deployments))
      BY <1>1, ListFinite
    <3>2. \A x, y \in ToSet(o.deployments) : x.ns \in Word /\ x.name \in Word /\ (x.ns = y.ns /\ x.name = y.name => x = y)
      <4>1. "deployments" \in Keyed
        BY DEF Keyed
      <4>2. \A x \in ToSet(o["deployments"]) : /\ x.ns \in Word /\ x.name \in Word
                                               /\ \A y \in ToSet(o["deployments"]) : x.ns = y.ns /\ x.name = y.name => x = y
        BY <4>1, HeldKeys
      <4> QED BY <4>2
    <3> QED BY <3>1, <3>2, ByNameIs
  <2>2. \A i \in DOMAIN byName : byName[i] \in ToSet(byName)
    BY ListElements
  <2> HIDE DEF byName
  <2>3. standalone = [i \in DOMAIN byName |-> standalone[i]] /\ \A i \in DOMAIN byName : IsPlain(standalone[i])
    BY <2>1, <2>2, PlainStandalone
  <2> HIDE DEF standalone
  <2> QED BY <2>1, <2>3, PlainEach
<1>5. IsPlain(MergeAll(<<Nothing>> \o entries))
  <2>1. entries = [i \in DOMAIN o.ingresses |-> entries[i]] /\ \A i \in DOMAIN o.ingresses : IsPlain(entries[i])
    BY <1>2, PlainIngressEntry
  <2> HIDE DEF entries
  <2> QED BY <1>1, <2>1, PlainEach
<1>6. IsPlain(MergeAll(<<Nothing>> \o bridges))
  <2>1. bridges = [i \in DOMAIN o.bridges |-> bridges[i]] /\ \A i \in DOMAIN o.bridges : IsPlain(bridges[i])
    BY <1>2, PlainBridge
  <2> HIDE DEF bridges
  <2> QED BY <1>1, <2>1, PlainEach
<1>7. IsPlain(MergeAll(<<Nothing>> \o ingresses))
  <2>1. ingresses = [i \in DOMAIN o.ingresses |-> ingresses[i]] /\ \A i \in DOMAIN o.ingresses : IsPlain(ingresses[i])
    BY <1>2, PlainIngress
  <2> HIDE DEF ingresses
  <2> QED BY <1>1, <2>1, PlainEach
<1>8. IsPlain(MergeAll(<<Nothing>> \o links))
  <2>1. links = [i \in DOMAIN o.ingresses |-> links[i]] /\ \A i \in DOMAIN o.ingresses : IsPlain(links[i])
    BY <1>2, PlainLink
  <2> HIDE DEF links
  <2> QED BY <1>1, <2>1, PlainEach
<1> QED BY <1>3, <1>4, <1>5, <1>6, <1>7, <1>8, Zenon

\* What a rebuild makes is a cluster's part, and says of routes what their parts say.
LEMMA BuiltIs ==
  ASSUME NEW o, Held(o)
  PROVE  /\ RoutesOnly(Built(o), o)
         /\ \A route \in ToSet(o.routes) : /\ ToSet(RoutePart(o, route).edges) \subseteq ToSet(Built(o).edges)
                                           /\ RoutePart(o, route).findings \subseteq Built(o).findings
<1> DEFINE gateways == MergeAll(<<Nothing>> \o [i \in DOMAIN o.gateways |-> GatewayPart(o, o.gateways[i])])
           byName == ByName(ToSet(o.deployments))
           standalone == MergeAll(<<Nothing>> \o [i \in DOMAIN byName |-> StandalonePart(o, byName[i])])
           routes == MergeAll(<<Nothing>> \o [i \in DOMAIN o.routes |-> RoutePart(o, o.routes[i])])
           entries == MergeAll(<<Nothing>> \o [i \in DOMAIN o.ingresses |-> addIngressEntryResources(o.ingresses[i])])
           bridges == MergeAll(<<Nothing>> \o [i \in DOMAIN o.bridges |-> BridgePart(o, o.bridges[i])])
           ingresses == MergeAll(<<Nothing>> \o [i \in DOMAIN o.ingresses |-> HigressIngressPart(o, o.ingresses[i])])
           links == MergeAll(<<Nothing>> \o [i \in DOMAIN o.ingresses |-> linkIngressesToGateways(o, o.ingresses[i])])
           parts == <<gateways, standalone, routes, entries, bridges, ingresses, links>>
<1>1. Built(o) = MergeAll(parts)
  BY Zenon DEF Built, ForEach
<1>2. /\ IsPlain(gateways) /\ IsPlain(standalone) /\ IsPlain(entries) /\ IsPlain(bridges)
      /\ IsPlain(ingresses) /\ IsPlain(links)
  BY PlainLists, Zenon
<1>3. /\ RoutesOnly(routes, o)
      /\ \A route \in ToSet(o.routes) : /\ ToSet(RoutePart(o, route).edges) \subseteq ToSet(routes.edges)
                                        /\ RoutePart(o, route).findings \subseteq routes.findings
  BY RoutesBuilt, Zenon
<1> HIDE DEF gateways, standalone, routes, entries, bridges, ingresses, links
<1>4. /\ DOMAIN parts = 1..7 /\ parts[1] = gateways /\ parts[2] = standalone /\ parts[3] = routes /\ parts[4] = entries
      /\ parts[5] = bridges /\ parts[6] = ingresses /\ parts[7] = links /\ \A i \in 1..7 : i \in {1, 2, 3, 4, 5, 6, 7}
      /\ 3 \in 1..7
  OBVIOUS
<1>5. /\ RoutesOnly(gateways, o) /\ RoutesOnly(standalone, o) /\ RoutesOnly(entries, o) /\ RoutesOnly(bridges, o)
      /\ RoutesOnly(ingresses, o) /\ RoutesOnly(links, o)
  BY <1>2, PlainRoutesOnly
<1> HIDE DEF parts
<1>6. \A i \in 1..7 : RoutesOnly(parts[i], o)
  BY <1>3, <1>4, <1>5
<1>7. /\ RoutesOnly(MergeAll(parts), o)
      /\ \A i \in 1..7 : /\ ToSet(parts[i].edges) \subseteq ToSet(MergeAll(parts).edges)
                         /\ parts[i].findings \subseteq MergeAll(parts).findings
  <2>1. 7 \in Nat
    OBVIOUS
  <2> QED BY <1>4, <1>6, <2>1, MergedRoutesOnly
<1>8. ToSet(routes.edges) \subseteq ToSet(MergeAll(parts).edges) /\ routes.findings \subseteq MergeAll(parts).findings
  BY <1>4, <1>7
<1> QED BY <1>1, <1>3, <1>7, <1>8

\* The routes of a snapshot: every target of an edge of a route is one of its
\* references, and there is a finding exactly for the denied ones among them.
LEMMA SnapshotReports ==
  ASSUME NEW o, Held(o), NEW route \in ToSet(o.routes)
  PROVE  Denial(RouteID(route)) \in Built(o).findings
         <=> \E ref \in ToSet(route.backends), e \in ToSet(Built(o).edges) :
                e.from = RouteID(route) /\ e.to \in TargetsOf(ref) /\ ~Allowed(o, route, ref)
<1> DEFINE id == RouteID(route)
<1>1. \A other \in ToSet(o.routes) : RouteID(other) = id => other = route
  <2>1. "routes" \in Keyed
    BY DEF Keyed
  <2>2. \A x \in ToSet(o["routes"]) : \A y \in ToSet(o["routes"]) : x.ns = y.ns /\ x.name = y.name => x = y
    BY <2>1, HeldKeys
  <2>3. \A other : RouteID(other) = id => other.ns = route.ns /\ other.name = route.name
    <3> SUFFICES ASSUME NEW other, RouteID(other) = id PROVE other.ns = route.ns /\ other.name = route.name
      OBVIOUS
    <3>1. <<"route", other.ns, other.name>> = <<"route", route.ns, route.name>>
      BY DEF RouteID
    <3> QED BY <3>1
  <2> QED BY <2>2, <2>3
<1>2. id[1] = "route"
  BY DEF RouteID
<1>3. \A other \in ToSet(o.routes) : RouteSays(RoutePart(o, other), o, other)
  BY RoutePartSays
<1>4. ASSUME Denial(id) \in Built(o).findings
      PROVE  \E ref \in ToSet(route.backends), e \in ToSet(Built(o).edges) :
                e.from = id /\ e.to \in TargetsOf(ref) /\ ~Allowed(o, route, ref)
  <2>1. Denial(id).title = Unauthorised /\ \A x : Denial(x) = Denial(id) => x = id
    BY DEF Denial
  <2>2. PICK other \in ToSet(o.routes) : Denial(id) \in RoutePart(o, other).findings
    BY <1>4, <2>1, BuiltIs DEF RoutesOnly
  <2>3. RouteSays(RoutePart(o, other), o, other)
    BY <1>3
  <2>4. Denial(id) = Denial(RouteID(other))
    BY <2>1, <2>2, <2>3 DEF RouteSays
  <2>5. other = route
    BY <1>1, <2>1, <2>4
  <2>6. PICK ref \in ToSet(route.backends), e \in ToSet(RoutePart(o, route).edges) :
           e.from = id /\ e.to \in TargetsOf(ref) /\ ~Allowed(o, route, ref)
    BY <2>1, <2>2, <2>3, <2>5 DEF RouteSays
  <2>7. e \in ToSet(Built(o).edges)
    BY BuiltIs
  <2> QED BY <2>6, <2>7
<1>5. ASSUME NEW ref \in ToSet(route.backends), NEW e \in ToSet(Built(o).edges),
             e.from = id, e.to \in TargetsOf(ref), ~Allowed(o, route, ref)
      PROVE  Denial(id) \in Built(o).findings
  <2>1. PICK other \in ToSet(o.routes) : e \in ToSet(RoutePart(o, other).edges)
    BY <1>2, <1>5, BuiltIs DEF RoutesOnly
  <2>2. RouteSays(RoutePart(o, other), o, other)
    BY <1>3
  <2>3. e.from = RouteID(other)
    BY <1>2, <1>5, <2>1, <2>2 DEF RouteSays
  <2>4. other = route
    BY <1>1, <1>5, <2>3
  <2>5. PICK met \in ToSet(route.backends) :
           e.to \in TargetsOf(met) /\ (~Allowed(o, route, met) => Denial(id) \in RoutePart(o, route).findings)
    BY <1>2, <1>5, <2>1, <2>2, <2>4 DEF RouteSays
  <2>6. met.kind = ref.kind /\ met.ns = ref.ns /\ met.name = ref.name
    <3>1. ASSUME NEW r, e.to \in TargetsOf(r)
          PROVE  /\ e.to \in {<<"inferencepool", r.ns, r.name>>, <<"service", r.ns, r.name>>, <<"transit", r.ns, r.name>>}
                 /\ r.kind = IF e.to[1] = "inferencepool" THEN "InferencePool" ELSE "Service"
      <4>1. CASE r.kind = "InferencePool"
        BY <3>1, <4>1 DEF TargetsOf
      <4>2. CASE r.kind = "Service"
        BY <3>1, <4>2 DEF TargetsOf
      <4>3. r.kind = "InferencePool" \/ r.kind = "Service"
        BY <3>1, Zenon DEF TargetsOf
      <4> QED BY <4>1, <4>2, <4>3
    <3>2. ASSUME NEW r, e.to \in TargetsOf(r) PROVE e.to[2] = r.ns /\ e.to[3] = r.name
      BY <3>1, <3>2
    <3>3. /\ e.to[2] = ref.ns /\ e.to[3] = ref.name /\ e.to[2] = met.ns /\ e.to[3] = met.name
          /\ ref.kind = met.kind
      BY <1>5, <2>5, <3>1, <3>2
    <3> QED BY <3>3
  <2>7. ~Allowed(o, route, met)
    BY <1>5, <2>6 DEF Allowed
  <2>8. RoutePart(o, route).findings \subseteq Built(o).findings
    BY BuiltIs
  <2> QED BY <2>5, <2>7, <2>8
<1> HIDE DEF id
<1> QED BY <1>4, <1>5 DEF id

\* What the grants of a cluster allow.
LEMMA GrantsAre ==
  ASSUME NEW o, NEW from, NEW to, NEW kind, NEW name
  PROVE  grantsAllow(collectGrants(o), from, to, kind, name)
         <=> \E g \in ToSet(o.grants) : /\ g.ns = to
                                        /\ \E f \in g.from : f.ns = from /\ f.kind = "HTTPRoute"
                                        /\ \E t \in g.to : t.kind = kind /\ t.name \in {name, "*"}
<1> DEFINE Pairs(g) == {f \in g.from : f.kind = "HTTPRoute"} \X g.to
           Of(g) == {<<p[1].ns, g.ns, p[2].kind, p[2].name>> : p \in Pairs(g)}
           all == UNION {Of(g) : g \in ToSet(o.grants)}
<1>1. collectGrants(o) = all
  BY DEF collectGrants
<1>2. ASSUME NEW n
      PROVE  <<from, to, kind, n>> \in all
             <=> \E g \in ToSet(o.grants) : /\ g.ns = to
                                            /\ \E f \in g.from : f.ns = from /\ f.kind = "HTTPRoute"
                                            /\ \E t \in g.to : t.kind = kind /\ t.name = n
  <2>1. ASSUME <<from, to, kind, n>> \in all
        PROVE  \E g \in ToSet(o.grants) : /\ g.ns = to
                                          /\ \E f \in g.from : f.ns = from /\ f.kind = "HTTPRoute"
                                          /\ \E t \in g.to : t.kind = kind /\ t.name = n
    <3>1. PICK g \in ToSet(o.grants) : <<from, to, kind, n>> \in Of(g)
      BY <2>1
    <3>2. PICK p \in Pairs(g) : <<from, to, kind, n>> = <<p[1].ns, g.ns, p[2].kind, p[2].name>>
      BY <3>1
    <3>3. p[1] \in g.from /\ p[1].kind = "HTTPRoute" /\ p[2] \in g.to
      OBVIOUS
    <3>4. from = p[1].ns /\ to = g.ns /\ kind = p[2].kind /\ n = p[2].name
      BY <3>2
    <3> QED BY <3>3, <3>4
  <2>2. ASSUME NEW g \in ToSet(o.grants), g.ns = to, NEW f \in g.from, f.ns = from, f.kind = "HTTPRoute",
               NEW t \in g.to, t.kind = kind, t.name = n
        PROVE  <<from, to, kind, n>> \in all
    <3>1. <<f, t>> \in Pairs(g) /\ <<f, t>>[1] = f /\ <<f, t>>[2] = t
      BY <2>2
    <3>2. <<f.ns, g.ns, t.kind, t.name>> \in Of(g)
      BY <3>1
    <3> QED BY <2>2, <3>2
  <2> HIDE DEF all
  <2> QED BY <2>1, <2>2
<1>3. grantsAllow(collectGrants(o), from, to, kind, name) <=> <<from, to, kind, name>> \in all \/ <<from, to, kind, "*">> \in all
  BY <1>1, Zenon DEF grantsAllow
<1> HIDE DEF all
<1> QED BY <1>2, <1>3

\* A rebuild of a cluster's objects makes a snapshot without findings about
\* links, and reports of every route whether a reference of it is denied.
THEOREM RebuildIs ==
  ASSUME NEW objs, AreObjects(objs)
  PROVE  LET s == rebuild(objs)
         IN  /\ IsSnapshot(s) /\ \A f \in s.findings : f.title # AmbiguousLink
             /\ \A route \in ToSet(objs.routes) :
                   Denial(RouteID(route)) \in s.findings
                   <=> \E ref \in ToSet(route.backends), e \in ToSet(s.edges) :
                          e.from = RouteID(route) /\ e.to \in TargetsOf(ref) /\ ~Allowed(objs, route, ref)
<1> DEFINE o == WithRuntimes(objs)
           b == Built(o)
           s == rebuild(objs)
<1>1. Held(o)
  BY DEF Held
<1>2. o.routes = objs.routes /\ o.grants = objs.grants
  <2>1. "routes" \in DOMAIN objs /\ "grants" \in DOMAIN objs
    BY DEF AreObjects, Kinds, Keyed
  <2> QED BY <2>1 DEF WithRuntimes
<1>3. s.edges = b.edges /\ s.findings = b.findings /\ DOMAIN s.nodes = DOMAIN b.nodes
  BY DEF rebuild, SnapshotWith, Snapshot
<1> HIDE DEF o, b, s
<1>4. IsPart(b, ClusterEdges, ClusterFindings)
  BY <1>1, BuiltIs DEF RoutesOnly, IsClusterPart, b
<1>5. IsSnapshot(s)
  BY <1>3, <1>4 DEF IsPart, IsSnapshot, ClusterEdges, InCluster
<1>6. \A f \in s.findings : f.title # AmbiguousLink
  <2>1. \A f \in ClusterFindings : f.title \in PlainTitles \cup {Unauthorised}
    BY DEF ClusterFindings
  <2>2. Unauthorised # AmbiguousLink
    BY DEF Unauthorised, AmbiguousLink
  <2> QED BY <1>3, <1>4, <2>1, <2>2, PlainTitlesAre DEF IsPart
<1>7. \A route, ref : Allowed(o, route, ref) <=> Allowed(objs, route, ref)
  <2>1. collectGrants(o) = collectGrants(objs)
    BY <1>2 DEF collectGrants
  <2> QED BY <2>1 DEF Allowed
<1>8. ASSUME NEW route \in ToSet(objs.routes)
      PROVE  Denial(RouteID(route)) \in s.findings
             <=> \E ref \in ToSet(route.backends), e \in ToSet(s.edges) :
                    e.from = RouteID(route) /\ e.to \in TargetsOf(ref) /\ ~Allowed(objs, route, ref)
  <2>1. Denial(RouteID(route)) \in b.findings
        <=> \E ref \in ToSet(route.backends), e \in ToSet(b.edges) :
               e.from = RouteID(route) /\ e.to \in TargetsOf(ref) /\ ~Allowed(o, route, ref)
    BY <1>1, <1>2, SnapshotReports DEF b
  <2> QED BY <1>3, <1>7, <2>1
<1> QED BY <1>5, <1>6, <1>8 DEF s
=============================================================================
