-------------------------- MODULE RootLayoutProofs --------------------------
(* How a finished root lies on disk, for every corpus and any number of files: *)
(* every demonstration whole, once and in order, numbered without gaps, its    *)
(* range in the table.  Such a root passes every check the repository has.     *)
EXTENDS TrainingDataProofs

-----------------------------------------------------------------------------
(* Ranks *)

LEMMA RankFacts ==
    ASSUME NEW S, S \subseteq Nat, IsFiniteSet(S)
    PROVE  /\ Cardinality(S) \in Nat
           /\ \A x \in S : Position(S, x) \in 0 .. Cardinality(S) - 1 /\ Ascending(S)[Position(S, x) + 1] = x
           /\ \A x, y \in S : x < y <=> Position(S, x) < Position(S, y)
           /\ \A n \in 1 .. Cardinality(S) : Ascending(S)[n] \in S /\ Position(S, Ascending(S)[n]) = n - 1
  <1> DEFINE N == Cardinality(S)  Below(x) == {y \in S : y < x}
  <1>1. N \in Nat /\ \A n \in 1 .. N : Ascending(S)[n] \in S /\ Position(S, Ascending(S)[n]) = n - 1 BY Ranked
  <1>2. ASSUME NEW x \in S
        PROVE  /\ IsFiniteSet(Below(x)) /\ Position(S, x) = Cardinality(Below(x)) /\ Position(S, x) \in Nat
               /\ IsFiniteSet(Below(x) \union {x}) /\ Cardinality(Below(x) \union {x}) = Position(S, x) + 1
               /\ Below(x) \union {x} \subseteq S
    <2>1. IsFiniteSet(Below(x)) BY FS_Subset
    <2>2. x \notin Below(x) OBVIOUS
    <2>3. Cardinality(Below(x)) \in Nat BY <2>1, FS_CardinalityType
    <2> DEFINE B == Below(x)
    <2>4. Position(S, x) = Cardinality(B) BY DEF Position
    <2>5. B \union {x} \subseteq S OBVIOUS
    <2> HIDE DEF B
    <2>6. IsFiniteSet(B \union {x}) /\ Cardinality(B \union {x}) = Cardinality(B) + 1
      BY <2>1, <2>2, FS_AddElement DEF B
    <2>7. QED BY <2>1, <2>3, <2>4, <2>5, <2>6 DEF B
  <1> DEFINE Upto(x) == Below(x) \union {x}
  <1>a. \A x \in S : /\ Position(S, x) = Cardinality(Below(x)) /\ Position(S, x) \in Nat /\ IsFiniteSet(Below(x))
                     /\ IsFiniteSet(Upto(x)) /\ Cardinality(Upto(x)) = Position(S, x) + 1 /\ Upto(x) \subseteq S
    BY <1>2
  <1>b. ASSUME NEW x \in S, NEW y \in S, x < y PROVE Upto(x) \subseteq Below(y)
    <2>1. \A z \in Upto(x) : z \in S /\ z < y
      <3>1. TAKE z \in Upto(x)
      <3>2. z \in Nat /\ x \in Nat /\ y \in Nat /\ (z < x \/ z = x) OBVIOUS
      <3>3. QED BY <1>b, <3>2
    <2>2. QED BY <2>1
  <1>n. N = Cardinality(S) OBVIOUS
  <1> HIDE DEF N, Below, Upto
  <1>3. ASSUME NEW x \in S PROVE Position(S, x) \in 0 .. N - 1
    <2>1. IsFiniteSet(S) /\ Upto(x) \in SUBSET S BY <1>a
    <2>2. Cardinality(Upto(x)) <= N BY <2>1, <1>n, FS_Subset
    <2>3. Position(S, x) + 1 <= N /\ Position(S, x) \in Nat BY <1>a, <2>2
    <2>4. QED BY <1>1, <2>3
  <1>4. ASSUME NEW x \in S, NEW y \in S, x < y PROVE Position(S, x) < Position(S, y)
    <2>1. IsFiniteSet(Below(y)) /\ Upto(x) \in SUBSET Below(y) BY <1>a, <1>b, <1>4
    <2>2. Cardinality(Upto(x)) <= Cardinality(Below(y)) BY <2>1, FS_Subset
    <2>3. Position(S, x) + 1 <= Position(S, y) /\ Position(S, x) \in Nat /\ Position(S, y) \in Nat BY <1>a, <2>2
    <2>4. QED BY <2>3
  <1>5. ASSUME NEW x \in S, NEW y \in S PROVE x < y <=> Position(S, x) < Position(S, y)
    <2>1. x \in Nat /\ y \in Nat /\ Position(S, x) \in Nat /\ Position(S, y) \in Nat BY <1>a
    <2>2. x = y \/ x < y \/ y < x BY <2>1
    <2>3. QED BY <1>4, <2>1, <2>2
  <1>6. ASSUME NEW x \in S PROVE Ascending(S)[Position(S, x) + 1] = x
    <2> DEFINE n == Position(S, x) + 1  z == Ascending(S)[n]
    <2>1. n \in 1 .. N /\ n - 1 = Position(S, x) BY <1>1, <1>3
    <2>2. z \in S /\ Position(S, z) = Position(S, x) BY <1>1, <2>1
    <2> HIDE DEF z
    <2>3. x \in Nat /\ z \in Nat /\ Position(S, x) \in Nat BY <1>a, <2>2
    <2>4. ~(x < z) /\ ~(z < x) BY <1>5, <2>2, <2>3
    <2>5. QED BY <2>3, <2>4 DEF z
  <1>7. QED BY <1>1, <1>3, <1>5, <1>6 DEF N

\* Over a stretch without gaps ranks grow by one.
Gapless(S, a, m) == \A d \in 0 .. m - 1 : a + d \in S

LEMMA RankShift ==
    ASSUME NEW S, S \subseteq Nat, IsFiniteSet(S), NEW a \in Nat, NEW m \in Nat, Gapless(S, a, m)
    PROVE  Position(S, a + m) = Position(S, a) + m
  <1> DEFINE Reached == {d \in 0 .. m : Position(S, a + d) = Position(S, a) + d}
  <1>1. \A x : IsFiniteSet({y \in S : y < x}) /\ Position(S, x) \in Nat BY FS_Subset, FS_CardinalityType DEF Position
  <1>2. 0 \in Reached
    <2>1. a + 0 = a /\ 0 \in 0 .. m OBVIOUS
    <2>2. \A k \in Nat : k + 0 = k OBVIOUS
    <2>3. Position(S, a) + 0 = Position(S, a) BY <1>1, <2>2
    <2>4. QED BY <2>1, <2>3
  <1>3. ASSUME NEW d \in 0 .. m - 1, d \in Reached PROVE d + 1 \in Reached
    <2> DEFINE B == {y \in S : y < a + d}
    <2>1. a + d \in S /\ d + 1 \in 0 .. m /\ a + (d + 1) = (a + d) + 1 BY DEF Gapless
    <2>2. {y \in S : y < a + (d + 1)} = B \union {a + d}
      <3>1. \A y \in S : y < a + (d + 1) <=> y < a + d \/ y = a + d
        <4>1. TAKE y \in S
        <4>2. y \in Nat OBVIOUS
        <4>3. QED BY <4>2
      <3>2. QED BY <2>1, <3>1
    <2>3. IsFiniteSet(B) /\ a + d \notin B /\ Cardinality(B) = Position(S, a) + d BY <1>1, <1>3 DEF Position
    <2>4. Cardinality(B \union {a + d}) = Cardinality(B) + 1 BY <2>3, FS_AddElement
    <2>5. Position(S, a + (d + 1)) = Position(S, a) + d + 1 BY <2>2, <2>3, <2>4 DEF Position
    <2>6. Position(S, a) + d + 1 = Position(S, a) + (d + 1)
      <3>1. \A k \in Nat : k + d + 1 = k + (d + 1) OBVIOUS
      <3>2. QED BY <1>1, <3>1
    <2>7. QED BY <2>1, <2>5, <2>6
  <1> HIDE DEF Reached
  <1>4. m \in Reached BY <1>2, <1>3, Climb
  <1>5. QED BY <1>4 DEF Reached

LEMMA ImageSize ==
    ASSUME NEW S, IsFiniteSet(S), NEW h, \A x, y \in S : h[x] = h[y] => x = y
    PROVE  IsFiniteSet({h[x] : x \in S}) /\ Cardinality({h[x] : x \in S}) = Cardinality(S)
  <1> DEFINE I == {h[x] : x \in S}  b == [x \in S |-> h[x]]
  <1>1. b \in [S -> I] /\ (\A x, y \in S : b[x] = b[y] => x = y) /\ \A i \in I : \E x \in S : b[x] = i OBVIOUS
  <1> HIDE DEF I, b
  <1>2. b \in Bijection(S, I) BY <1>1, Zenon DEF Bijection, Injection, Surjection, IsInjective
  <1>3. ExistsBijection(S, I) BY <1>2 DEF ExistsBijection
  <1>4. IsFiniteSet(I) /\ Cardinality(I) = Cardinality(S) BY <1>3, FS_Bijection
  <1>5. QED BY <1>4 DEF I

\* Ranks survive a renumbering that keeps the order.
Image(S, h) == {h[x] : x \in S}
Rising(S, h) == \A x, y \in S : h[x] \in Nat /\ (x < y <=> h[x] < h[y])
LEMMA RankImage ==
    ASSUME NEW S, S \subseteq Nat, IsFiniteSet(S), NEW h, Rising(S, h)
    PROVE  /\ Image(S, h) \subseteq Nat /\ IsFiniteSet(Image(S, h)) /\ Cardinality(Image(S, h)) = Cardinality(S)
           /\ \A x \in S : Position(Image(S, h), h[x]) = Position(S, x)
  <1> DEFINE I == Image(S, h)
  <1>0. \A x \in S : h[x] \in Nat BY DEF Rising
  <1>e. \A x, y \in S : x < y <=> h[x] < h[y] BY DEF Rising
  <1>1. \A x, y \in S : h[x] = h[y] => x = y
    <2>1. TAKE x, y \in S
    <2>2. x \in Nat /\ y \in Nat /\ h[x] \in Nat /\ h[y] \in Nat BY <1>0
    <2>3. QED BY <1>e, <2>2
  <1>2. I \subseteq Nat /\ IsFiniteSet(I) /\ Cardinality(I) = Cardinality(S) BY <1>0, <1>1, ImageSize DEF Image
  <1>3. ASSUME NEW x \in S PROVE Position(I, h[x]) = Position(S, x)
    <2> DEFINE B == {y \in S : y < x}
    <2>1. IsFiniteSet(B) /\ \A y, z \in B : h[y] = h[z] => y = z BY <1>1, FS_Subset
    <2>2. {i \in I : i < h[x]} = {h[y] : y \in B}
      <3>1. ASSUME NEW i \in I, i < h[x] PROVE \E y \in B : i = h[y]
        <4>1. PICK y \in S : i = h[y] BY DEF Image
        <4>2. y < x BY <1>e, <3>1, <4>1
        <4>3. QED BY <4>1, <4>2
      <3>2. ASSUME NEW y \in B PROVE h[y] \in I /\ h[y] < h[x] BY <1>e DEF Image
      <3> HIDE DEF B
      <3>3. QED BY <3>1, <3>2
    <2> HIDE DEF B
    <2>3. Cardinality({h[y] : y \in B}) = Cardinality(B) BY <2>1, ImageSize
    <2>4. QED BY <2>2, <2>3 DEF Position, B
  <1>4. QED BY <1>2, <1>3

-----------------------------------------------------------------------------
(* Sequences *)

LEMMA ChosenAll ==
    ASSUME NEW A, NEW s \in Seq(A) PROVE Chosen(s, DOMAIN s) = s /\ Chosen(s, {}) = <<>>
  <1> DEFINE N == Len(s)  D == 1 .. N
  <1>1. N \in Nat /\ DOMAIN s = D /\ s = [n \in 1 .. N |-> s[n]] OBVIOUS
  <1>2. \A k \in Nat : IsFiniteSet(1 .. k) /\ Cardinality(1 .. k) = k
    <2>1. TAKE k \in Nat
    <2>2. IsFiniteSet(1 .. k) /\ Cardinality(1 .. k) = IF 1 > k THEN 0 ELSE k - 1 + 1 BY FS_Interval
    <2>3. QED BY <2>2
  <1>a. IsFiniteSet(D) /\ Cardinality(D) = N /\ D \subseteq Nat BY <1>1, <1>2
  <1>3. ASSUME NEW n \in 1 .. N PROVE Ascending(D)[n] = n
    <2>1. {y \in D : y < n} = 1 .. n - 1 BY <1>1
    <2>0. n - 1 \in Nat BY <1>1
    <2>2. Position(D, n) = n - 1 BY <1>2, <2>0, <2>1 DEF Position
    <2>3. (n - 1) + 1 = n /\ n \in D BY <1>1
    <2> HIDE DEF D
    <2>4. Ascending(D)[Position(D, n) + 1] = n BY <1>a, <2>3, RankFacts
    <2>5. QED BY <2>2, <2>3, <2>4
  <1>4. Chosen(s, D) = [n \in 1 .. N |-> s[Ascending(D)[n]]] BY <1>a DEF Chosen
  <1>5. Chosen(s, {}) = <<>> BY FS_EmptySet DEF Chosen
  <1>6. QED BY <1>1, <1>3, <1>4, <1>5

\* Where the elements of the first k parts are in what they are put together to.
Before(ss, f) == Len(FlattenSeq(SubSeq(ss, 1, f - 1)))
Placed(ss, flat, k) ==
    /\ \A p \in DOMAIN flat : \E f \in 1 .. k : \E n \in DOMAIN ss[f] : p = Before(ss, f) + n /\ flat[p] = ss[f][n]
    /\ \A f \in 1 .. k : \A n \in DOMAIN ss[f] :
           Before(ss, f) + n \in DOMAIN flat /\ flat[Before(ss, f) + n] = ss[f][n]

LEMMA PlacedOne ==
    ASSUME NEW S, NEW a \in Seq(S), NEW b \in Seq(S), NEW k \in Nat, NEW ss, ss[k + 1] = b,
           Before(ss, k + 1) = Len(a), Placed(ss, a, k)
    PROVE  Placed(ss, a \o b, k + 1)
  <1> DEFINE c == a \o b  m == Len(a)
  <1>1. /\ m \in Nat /\ Len(b) \in Nat /\ DOMAIN a = 1 .. m /\ DOMAIN b = 1 .. Len(b) /\ DOMAIN c = 1 .. m + Len(b)
        /\ (\A p \in DOMAIN a : c[p] = a[p]) /\ \A n \in DOMAIN b : c[m + n] = b[n]
    OBVIOUS
  <1>2. k + 1 \in 1 .. k + 1 /\ \A f \in 1 .. k + 1 : f \in 1 .. k \/ f = k + 1 OBVIOUS
  <1>3. \A f \in 1 .. k : f \in 1 .. k + 1 OBVIOUS
  <1>4. DOMAIN a \subseteq DOMAIN c /\ \A n \in DOMAIN b : m + n \in DOMAIN c BY <1>1
  <1>5. \A p \in DOMAIN c : p \in DOMAIN a \/ \E n \in DOMAIN b : p = m + n
    <2>1. TAKE p \in DOMAIN c
    <2>2. p \in DOMAIN a \/ (p - m \in DOMAIN b /\ p = m + (p - m)) BY <1>1
    <2>3. QED BY <2>2
  <1>6. Before(ss, k + 1) = m OBVIOUS
  <1> HIDE DEF c, m
  <1>7. ASSUME NEW p \in DOMAIN c
        PROVE  \E f \in 1 .. k + 1 : \E n \in DOMAIN ss[f] : p = Before(ss, f) + n /\ c[p] = ss[f][n]
    <2>1. CASE p \in DOMAIN a
      <3>1. PICK f \in 1 .. k : \E n \in DOMAIN ss[f] : p = Before(ss, f) + n /\ a[p] = ss[f][n]
        BY <2>1 DEF Placed
      <3>2. f \in 1 .. k + 1 /\ c[p] = a[p] BY <1>1, <1>3, <2>1
      <3>3. QED BY <3>1, <3>2
    <2>2. CASE \E n \in DOMAIN b : p = m + n
      <3>1. PICK n \in DOMAIN b : p = m + n BY <2>2
      <3>2. c[p] = b[n] BY <1>1, <3>1
      <3>3. QED BY <1>2, <1>6, <3>1, <3>2
    <2>3. QED BY <1>5, <2>1, <2>2
  <1>8. ASSUME NEW f \in 1 .. k + 1, NEW n \in DOMAIN ss[f]
        PROVE  Before(ss, f) + n \in DOMAIN c /\ c[Before(ss, f) + n] = ss[f][n]
    <2>1. CASE f \in 1 .. k
      <3>1. Before(ss, f) + n \in DOMAIN a /\ a[Before(ss, f) + n] = ss[f][n] BY <2>1 DEF Placed
      <3>2. QED BY <1>1, <1>4, <3>1
    <2>2. CASE f = k + 1
      <3>1. n \in DOMAIN b /\ ss[f][n] = b[n] /\ Before(ss, f) = m BY <1>6, <2>2
      <3>2. QED BY <1>1, <1>4, <3>1
    <2>3. QED BY <1>2, <2>1, <2>2
  <1>9. Placed(ss, c, k + 1) BY <1>7, <1>8 DEF Placed
  <1>10. QED BY <1>9 DEF c

LEMMA FlatIndex ==
    ASSUME NEW S, NEW ss \in Seq(Seq(S))
    PROVE  /\ Placed(ss, FlattenSeq(ss), Len(ss)) /\ FlattenSeq(ss) \in Seq(S)
           /\ \A f \in DOMAIN ss : Before(ss, f) \in Nat
  <1> DEFINE N == Len(ss)  part(k) == FlattenSeq(SubSeq(ss, 1, k))
  <1>1. N \in Nat /\ DOMAIN ss = 1 .. N /\ \A f \in 1 .. N : ss[f] \in Seq(S) OBVIOUS
  <1>2. /\ part(0) = <<>> /\ part(N) = FlattenSeq(ss) /\ \A k \in 1 .. N : part(k) = part(k - 1) \o ss[k]
        /\ \A k \in 0 .. N : part(k) \in Seq(S)
    BY FlattenPrefix, Flattened
  <1>3. \A k \in 1 .. N : Before(ss, k) = Len(part(k - 1)) BY DEF Before
  <1>n. N = Len(ss) OBVIOUS
  <1> HIDE DEF N, part
  <1> DEFINE Reached == {k \in 0 .. N : Placed(ss, part(k), k)}
  <1>4. 0 \in Reached
    <2>1. DOMAIN part(0) = {} /\ 1 .. 0 = {} /\ 0 \in 0 .. N BY <1>1, <1>2
    <2>2. Placed(ss, part(0), 0) BY <2>1 DEF Placed
    <2>3. QED BY <2>1, <2>2
  <1>5. ASSUME NEW k \in 0 .. N - 1, k \in Reached PROVE k + 1 \in Reached
    <2>1. k + 1 \in 1 .. N /\ (k + 1) - 1 = k /\ k \in Nat /\ k + 1 \in 0 .. N /\ k \in 0 .. N BY <1>1
    <2>2. part(k) \in Seq(S) /\ ss[k + 1] \in Seq(S) /\ part(k + 1) = part(k) \o ss[k + 1] BY <1>1, <1>2, <2>1
    <2>3. Before(ss, k + 1) = Len(part(k)) BY <1>3, <2>1
    <2>4. Placed(ss, part(k), k) BY <1>5
    <2> DEFINE a == part(k)  b == ss[k + 1]
    <2>5. a \in Seq(S) /\ b \in Seq(S) /\ ss[k + 1] = b /\ Before(ss, k + 1) = Len(a) /\ Placed(ss, a, k)
      BY <2>2, <2>3, <2>4
    <2> HIDE DEF a, b
    <2>6. Placed(ss, a \o b, k + 1) BY <2>1, <2>5, PlacedOne
    <2>7. Placed(ss, part(k + 1), k + 1) BY <2>2, <2>6 DEF a, b
    <2>8. QED BY <2>1, <2>7
  <1> HIDE DEF Reached
  <1>6. N \in Reached BY <1>1, <1>4, <1>5, Climb
  <1>7. Placed(ss, FlattenSeq(ss), N) BY <1>2, <1>6 DEF Reached
  <1>8. \A f \in DOMAIN ss : Before(ss, f) \in Nat
    <2>1. TAKE f \in DOMAIN ss
    <2>2. f \in 1 .. N /\ f - 1 \in 0 .. N BY <1>1
    <2>3. part(f - 1) \in Seq(S) BY <1>2, <2>2
    <2>4. \A q \in Seq(S) : Len(q) \in Nat OBVIOUS
    <2>5. QED BY <1>3, <2>2, <2>3, <2>4
  <1>9. N \in 0 .. N BY <1>1
  <1>10. QED BY <1>2, <1>7, <1>8, <1>9, <1>n

\* The frames of rows put together are the frames of the parts put together.
Obs(rows) == [n \in DOMAIN rows |-> rows[n].obs]
ObsOf(data) == [f \in DOMAIN data |-> Obs(data[f])]

LEMMA ObsConcat ==
    ASSUME NEW S, NEW a \in Seq(S), NEW b \in Seq(S)
    PROVE  Obs(a \o b) = Obs(a) \o Obs(b)
  <1> DEFINE m == Len(a)  k == Len(b)  c == a \o b
  <1>1. /\ m \in Nat /\ k \in Nat /\ DOMAIN a = 1 .. m /\ DOMAIN b = 1 .. k /\ DOMAIN c = 1 .. m + k
        /\ (\A n \in 1 .. m : c[n] = a[n]) /\ \A n \in 1 .. k : c[m + n] = b[n]
    OBVIOUS
  <1> HIDE DEF m, k, c
  <1> DEFINE O == {a[n].obs : n \in 1 .. m} \union {b[n].obs : n \in 1 .. k}  x == Obs(a)  y == Obs(b)  z == Obs(c)
  <1>2. /\ x = [n \in 1 .. m |-> a[n].obs] /\ y = [n \in 1 .. k |-> b[n].obs] /\ z = [n \in 1 .. m + k |-> c[n].obs]
    BY <1>1 DEF Obs
  <1>3. (\A n \in 1 .. m : a[n].obs \in O) /\ \A n \in 1 .. k : b[n].obs \in O OBVIOUS
  <1> HIDE DEF x, y, z, O
  <1>4. x \in Seq(O) /\ y \in Seq(O) /\ Len(x) = m /\ Len(y) = k
    <2>1. \A s, j : j \in Nat /\ s \in [1 .. j -> O] => s \in Seq(O) /\ Len(s) = j OBVIOUS
    <2>2. x \in [1 .. m -> O] /\ y \in [1 .. k -> O] BY <1>2, <1>3
    <2>3. QED BY <1>1, <2>1, <2>2
  <1>5. /\ x \o y = [n \in 1 .. m + k |-> (x \o y)[n]]
        /\ (\A n \in 1 .. m : (x \o y)[n] = x[n]) /\ \A n \in 1 .. m + k : n \notin 1 .. m => (x \o y)[n] = y[n - m]
    <2>1. \A s, t \in Seq(O) : s \o t \in Seq(O) /\ Len(s \o t) = Len(s) + Len(t) OBVIOUS
    <2>2. \A s \in Seq(O) : s = [n \in 1 .. Len(s) |-> s[n]] OBVIOUS
    <2>3. \A s, t \in Seq(O) : \A n \in 1 .. Len(s) : (s \o t)[n] = s[n] OBVIOUS
    <2>4. \A s, t \in Seq(O) : \A n \in 1 .. Len(s) + Len(t) : n \notin 1 .. Len(s) => (s \o t)[n] = t[n - Len(s)]
      OBVIOUS
    <2>5. x \o y \in Seq(O) /\ Len(x \o y) = m + k BY <1>4, <2>1
    <2>6. x \o y = [n \in 1 .. m + k |-> (x \o y)[n]] BY <2>2, <2>5
    <2>7. QED BY <1>4, <2>3, <2>4, <2>6
  <1>6. \A n \in 1 .. m + k : z[n] = (x \o y)[n]
    <2>1. TAKE n \in 1 .. m + k
    <2>2. CASE n \in 1 .. m BY <1>1, <1>2, <1>5, <2>2
    <2>3. CASE n \notin 1 .. m
      <3>1. n - m \in 1 .. k /\ m + (n - m) = n BY <1>1, <2>3
      <3>2. c[n] = b[n - m] BY <1>1, <3>1
      <3>3. QED BY <1>2, <1>5, <2>3, <3>1, <3>2
    <2>4. QED BY <2>2, <2>3
  <1>7. z = x \o y BY <1>2, <1>5, <1>6
  <1>8. QED BY <1>7 DEF x, y, z, c

\* Every row of S has its observation in O.
Observes(S, O) == \A s \in S : s.obs \in O
LEMMA ObsTyped ==
    ASSUME NEW S, NEW O, Observes(S, O), NEW a \in Seq(S)
    PROVE  Obs(a) \in Seq(O) /\ DOMAIN Obs(a) = DOMAIN a /\ Len(Obs(a)) = Len(a)
  BY DEF Obs, Observes

LEMMA FlatObs ==
    ASSUME NEW S, NEW O, Observes(S, O), NEW d \in Seq(Seq(S))
    PROVE  Obs(FlattenSeq(d)) = FlattenSeq(ObsOf(d)) /\ ObsOf(d) \in Seq(Seq(O))
  <1> DEFINE N == Len(d)  e == ObsOf(d)  a(j) == FlattenSeq(SubSeq(d, 1, j))  b(j) == FlattenSeq(SubSeq(e, 1, j))
  <1>1. N \in Nat /\ DOMAIN d = 1 .. N /\ \A j \in 1 .. N : d[j] \in Seq(S) OBVIOUS
  <1>2. \A j \in 1 .. N : Obs(d[j]) \in Seq(O) BY <1>1, ObsTyped
  <1>3. e \in Seq(Seq(O)) /\ DOMAIN e = 1 .. N /\ Len(e) = N /\ \A j \in 1 .. N : e[j] = Obs(d[j])
    <2>1. e = [j \in 1 .. N |-> Obs(d[j])] BY <1>1 DEF ObsOf
    <2> DEFINE Q == Seq(O)
    <2>2. \A j \in 1 .. N : Obs(d[j]) \in Q BY <1>2
    <2> HIDE DEF Q, e, N
    <2>3. e \in Seq(Q) /\ DOMAIN e = 1 .. N /\ Len(e) = N /\ \A j \in 1 .. N : e[j] = Obs(d[j]) BY <1>1, <2>1, <2>2
    <2>4. QED BY <2>3 DEF Q
  <1>4. /\ a(0) = <<>> /\ a(N) = FlattenSeq(d) /\ \A j \in 1 .. N : a(j) = a(j - 1) \o d[j]
        /\ \A j \in 0 .. N : a(j) \in Seq(S)
    BY FlattenPrefix, Flattened
  <1>5. b(0) = <<>> /\ b(N) = FlattenSeq(e) /\ \A j \in 1 .. N : b(j) = b(j - 1) \o e[j]
    <2> HIDE DEF e
    <2>1. QED BY <1>3, FlattenPrefix
  <1> HIDE DEF N, e, a, b
  <1> DEFINE Reached == {j \in 0 .. N : Obs(a(j)) = b(j)}
  <1>6. 0 \in Reached
    <2>1. Obs(<<>>) = <<>> BY DEF Obs
    <2>2. 0 \in 0 .. N BY <1>1
    <2>3. QED BY <1>4, <1>5, <2>1, <2>2
  <1>7. ASSUME NEW j \in 0 .. N - 1, j \in Reached PROVE j + 1 \in Reached
    <2>1. j + 1 \in 1 .. N /\ (j + 1) - 1 = j /\ j + 1 \in 0 .. N /\ j \in 0 .. N BY <1>1
    <2>2. a(j + 1) = a(j) \o d[j + 1] /\ b(j + 1) = b(j) \o e[j + 1] /\ e[j + 1] = Obs(d[j + 1])
      BY <1>3, <1>4, <1>5, <2>1
    <2>3. a(j) \in Seq(S) /\ d[j + 1] \in Seq(S) BY <1>1, <1>4, <2>1
    <2>4. Obs(a(j) \o d[j + 1]) = Obs(a(j)) \o Obs(d[j + 1]) BY <2>3, ObsConcat
    <2>5. Obs(a(j)) = b(j) BY <1>7
    <2>6. Obs(a(j + 1)) = b(j + 1) BY <2>2, <2>4, <2>5
    <2>7. QED BY <2>1, <2>6
  <1> HIDE DEF Reached
  <1>8. N \in Reached BY <1>1, <1>6, <1>7, Climb
  <1>9. QED BY <1>3, <1>4, <1>5, <1>8 DEF Reached, e

\* Files with the same frames begin at the same places.
LEMMA SameBefore ==
    ASSUME NEW S, NEW O, Observes(S, O), NEW d \in Seq(Seq(S)), NEW e \in Seq(Seq(S)),
           ObsOf(d) = ObsOf(e)
    PROVE  /\ Obs(FlattenSeq(d)) = Obs(FlattenSeq(e)) /\ Len(FlattenSeq(d)) = Len(FlattenSeq(e))
           /\ \A f \in DOMAIN d : Before(d, f) = Before(e, f)
  <1> DEFINE N == Len(d)
  <1>1. N \in Nat /\ DOMAIN d = 1 .. N /\ DOMAIN e = 1 .. Len(e) /\ Len(e) \in Nat OBVIOUS
  <1>2. DOMAIN ObsOf(d) = DOMAIN d /\ DOMAIN ObsOf(e) = DOMAIN e BY DEF ObsOf
  <1>3. Len(e) = N
    <2>1. 1 .. N = 1 .. Len(e) BY <1>1, <1>2
    <2>2. \A i, j \in Nat : i < j => j \in 1 .. j /\ j \notin 1 .. i OBVIOUS
    <2> DEFINE L == Len(e)
    <2>3. N \in Nat /\ L \in Nat /\ 1 .. N = 1 .. L BY <1>1, <2>1
    <2> HIDE DEF N, L
    <2>4. ~(N < L) /\ ~(L < N) BY <2>2, <2>3
    <2>5. N = L BY <2>3, <2>4
    <2>6. QED BY <2>5 DEF N, L
  <1>4. \A f \in 1 .. N : Obs(d[f]) = Obs(e[f])
    <2>1. \A f \in 1 .. N : ObsOf(d)[f] = Obs(d[f]) BY <1>1 DEF ObsOf
    <2>2. \A f \in 1 .. N : ObsOf(e)[f] = Obs(e[f]) BY <1>1, <1>3 DEF ObsOf
    <2>3. QED BY <2>1, <2>2
  <1>5. ASSUME NEW a \in Seq(S), NEW b \in Seq(S), Obs(a) = Obs(b) PROVE Len(a) = Len(b)
    <2>1. Len(Obs(a)) = Len(a) /\ Len(Obs(b)) = Len(b) BY ObsTyped
    <2>2. QED BY <1>5, <2>1
  <1>6. FlattenSeq(d) \in Seq(S) /\ FlattenSeq(e) \in Seq(S) BY Flattened
  <1>7. Obs(FlattenSeq(d)) = Obs(FlattenSeq(e)) BY FlatObs
  <1>8. ASSUME NEW f \in DOMAIN d PROVE Before(d, f) = Before(e, f)
    <2> DEFINE x == SubSeq(d, 1, f - 1)  y == SubSeq(e, 1, f - 1)
    <2>1. f - 1 \in 0 .. N BY <1>1
    <2>2. /\ x \in Seq(Seq(S)) /\ y \in Seq(Seq(S)) /\ DOMAIN x = 1 .. f - 1 /\ DOMAIN y = 1 .. f - 1
          /\ \A k \in 1 .. f - 1 : x[k] = d[k] /\ y[k] = e[k] /\ k \in 1 .. N
      <3> DEFINE Q == Seq(S)  m == f - 1
      <3>1. \A s \in Seq(Q) : \A j \in 0 .. Len(s) : /\ SubSeq(s, 1, j) \in Seq(Q) /\ DOMAIN SubSeq(s, 1, j) = 1 .. j
                                                     /\ \A k \in 1 .. j : SubSeq(s, 1, j)[k] = s[k]
        <4> HIDE DEF Q
        <4>1. QED OBVIOUS
      <3>2. d \in Seq(Q) /\ e \in Seq(Q) /\ Len(d) = N /\ Len(e) = N /\ m \in 0 .. N BY <1>3, <2>1
      <3>3. \A k \in 1 .. m : k \in 1 .. N BY <1>1, <2>1
      <3> HIDE DEF Q, m, N
      <3>4. /\ SubSeq(d, 1, m) \in Seq(Q) /\ SubSeq(e, 1, m) \in Seq(Q)
            /\ DOMAIN SubSeq(d, 1, m) = 1 .. m /\ DOMAIN SubSeq(e, 1, m) = 1 .. m
            /\ \A k \in 1 .. m : SubSeq(d, 1, m)[k] = d[k] /\ SubSeq(e, 1, m)[k] = e[k]
        BY <3>1, <3>2
      <3>5. QED BY <3>3, <3>4 DEF Q, m
    <2> HIDE DEF x, y
    <2>3. ObsOf(x) = ObsOf(y)
      <3>1. ObsOf(x) = [k \in 1 .. f - 1 |-> Obs(x[k])] BY <2>2 DEF ObsOf
      <3>2. ObsOf(y) = [k \in 1 .. f - 1 |-> Obs(y[k])] BY <2>2 DEF ObsOf
      <3>3. \A k \in 1 .. f - 1 : Obs(x[k]) = Obs(y[k]) BY <1>4, <2>2
      <3>4. QED BY <3>1, <3>2, <3>3
    <2>4. Obs(FlattenSeq(x)) = Obs(FlattenSeq(y))
      <3>1. Obs(FlattenSeq(x)) = FlattenSeq(ObsOf(x)) BY <2>2, FlatObs
      <3>2. Obs(FlattenSeq(y)) = FlattenSeq(ObsOf(y)) BY <2>2, FlatObs
      <3>3. QED BY <2>3, <3>1, <3>2
    <2>5. FlattenSeq(x) \in Seq(S) /\ FlattenSeq(y) \in Seq(S) BY <2>2, Flattened
    <2>6. Len(FlattenSeq(x)) = Len(FlattenSeq(y)) BY <1>5, <2>4, <2>5
    <2>7. QED BY <2>6 DEF Before, x, y
  <1>9. QED BY <1>5, <1>6, <1>7, <1>8

-----------------------------------------------------------------------------
(* Demonstrations laid out one after the other *)

\* The frames of demonstration e stand in o after the first a.
Frames(c, e) == Len(c[e].rewards)
HoldsAt(c, o, e, a) == \A j \in 0 .. Frames(c, e) - 1 : a + j + 1 \in DOMAIN o /\ o[a + j + 1] = <<e, j>>

\* Every demonstration of S is in o, whole, once and in order, and nothing else is.
Laid(c, o, S, from) ==
    /\ from \in [S -> Nat] /\ \A e \in S : HoldsAt(c, o, e, from[e])
    /\ \A p \in DOMAIN o : \E e \in S : \E j \in 0 .. Frames(c, e) - 1 : p = from[e] + j + 1
LaidOut(c, o, S) == \E from : Laid(c, o, S, from)
Demos(o) == {o[n][1] : n \in DOMAIN o}

LEMMA LaidUnique ==
    ASSUME NEW c, NEW o, NEW S, NEW from, Laid(c, o, S, from), NEW p \in DOMAIN o
    PROVE  /\ o[p][1] \in S /\ o[p][2] \in 0 .. Frames(c, o[p][1]) - 1 /\ p = from[o[p][1]] + o[p][2] + 1
           /\ o[p] = <<o[p][1], o[p][2]>>
  <1>1. PICK e \in S : \E j \in 0 .. Frames(c, e) - 1 : p = from[e] + j + 1 BY DEF Laid
  <1>2. PICK j \in 0 .. Frames(c, e) - 1 : p = from[e] + j + 1 BY <1>1
  <1>3. o[p] = <<e, j>> BY <1>2 DEF Laid, HoldsAt
  <1>4. QED BY <1>2, <1>3

LEMMA LaidDemos ==
    ASSUME NEW c, NEW o, NEW S, LaidOut(c, o, S), \A e \in S : Frames(c, e) \in Nat \ {0}
    PROVE  Demos(o) = S
  <1>1. PICK from : Laid(c, o, S, from) BY DEF LaidOut
  <1>2. \A n \in DOMAIN o : o[n][1] \in S BY <1>1, LaidUnique
  <1>3. ASSUME NEW e \in S PROVE \E n \in DOMAIN o : o[n][1] = e
    <2>1. 0 \in 0 .. Frames(c, e) - 1 OBVIOUS
    <2>2. from[e] + 0 + 1 \in DOMAIN o /\ o[from[e] + 0 + 1] = <<e, 0>> BY <1>1, <2>1 DEF Laid, HoldsAt
    <2>3. QED BY <2>2
  <1>4. QED BY <1>2, <1>3 DEF Demos

LEMMA LaidEmpty == ASSUME NEW c PROVE LaidOut(c, <<>>, {})
  <1> DEFINE from == [e \in {} |-> 0]
  <1>1. from \in [{} -> Nat] OBVIOUS
  <1>2. DOMAIN <<>> = {} OBVIOUS
  <1> HIDE DEF from
  <1>3. Laid(c, <<>>, {}, from) BY <1>1, <1>2 DEF Laid
  <1>4. QED BY <1>3 DEF LaidOut

\* Parts laid out, none with a demonstration of another, make a whole laid out.
Pieces(c, oo, D, S) ==
    /\ S = UNION {D[f] : f \in DOMAIN oo} /\ \A f \in DOMAIN oo : LaidOut(c, oo[f], D[f])
    /\ \A f, h \in DOMAIN oo : f # h => D[f] \cap D[h] = {}

LEMMA LaidFlat ==
    ASSUME NEW c, NEW O, NEW oo \in Seq(Seq(O)), NEW D, NEW S, Pieces(c, oo, D, S)
    PROVE  LaidOut(c, FlattenSeq(oo), S)
  <1> DEFINE flat == FlattenSeq(oo)
             fr(f) == CHOOSE from : Laid(c, oo[f], D[f], from)
             home(e) == CHOOSE f \in DOMAIN oo : e \in D[f]
             from == [e \in S |-> Before(oo, home(e)) + fr(home(e))[e]]
  <1>1. \A f \in DOMAIN oo : Laid(c, oo[f], D[f], fr(f)) BY Zenon DEF LaidOut, Pieces
  <1>0. S = UNION {D[f] : f \in DOMAIN oo} BY DEF Pieces
  <1>2. \A e \in S : home(e) \in DOMAIN oo /\ e \in D[home(e)] BY <1>0
  <1>3. \A f \in DOMAIN oo : \A e \in D[f] : home(e) = f /\ e \in S BY <1>0, <1>2 DEF Pieces
  <1>4. /\ Placed(oo, flat, Len(oo)) /\ DOMAIN oo = 1 .. Len(oo) /\ flat \in Seq(O)
        /\ \A f \in DOMAIN oo : Before(oo, f) \in Nat
        /\ \A f \in DOMAIN oo : \A n \in DOMAIN oo[f] : n \in Nat
    <2>1. Placed(oo, flat, Len(oo)) /\ flat \in Seq(O) /\ \A f \in DOMAIN oo : Before(oo, f) \in Nat BY FlatIndex
    <2>2. \A f \in DOMAIN oo : oo[f] \in Seq(O) OBVIOUS
    <2>3. \A q \in Seq(O) : \A n \in DOMAIN q : n \in Nat OBVIOUS
    <2>4. QED BY <2>1, <2>2, <2>3
  <1> HIDE DEF flat, fr, home
  <1>5. \A f \in DOMAIN oo : \A e \in D[f] : from[e] = Before(oo, f) + fr(f)[e] /\ fr(f)[e] \in Nat
    <2>1. TAKE f \in DOMAIN oo
    <2>2. TAKE e \in D[f]
    <2>3. fr(f) \in [D[f] -> Nat] BY <1>1 DEF Laid
    <2>4. fr(f)[e] \in Nat BY <2>3
    <2>5. QED BY <1>3, <2>4
  <1>s. from = [e \in S |-> from[e]] OBVIOUS
  <1> HIDE DEF from
  <1>6. from \in [S -> Nat]
    <2>1. ASSUME NEW e \in S PROVE from[e] \in Nat
      <3> DEFINE a == Before(oo, home(e))  b == fr(home(e))[e]
      <3>1. a \in Nat /\ b \in Nat /\ from[e] = a + b BY <1>2, <1>4, <1>5
      <3> HIDE DEF a, b
      <3>2. QED BY <3>1
    <2>2. QED BY <1>s, <2>1
  <1>7. ASSUME NEW f \in DOMAIN oo, NEW e \in D[f], NEW j \in 0 .. Frames(c, e) - 1
        PROVE  /\ fr(f)[e] + j + 1 \in DOMAIN oo[f] /\ oo[f][fr(f)[e] + j + 1] = <<e, j>>
               /\ from[e] + j + 1 = Before(oo, f) + (fr(f)[e] + j + 1)
    <2>1. fr(f)[e] + j + 1 \in DOMAIN oo[f] /\ oo[f][fr(f)[e] + j + 1] = <<e, j>> BY <1>1 DEF Laid, HoldsAt
    <2> DEFINE a == Before(oo, f)  b == fr(f)[e]
    <2>2. a \in Nat /\ b \in Nat /\ from[e] = a + b BY <1>4, <1>5
    <2> HIDE DEF a, b
    <2>3. from[e] + j + 1 = a + (b + j + 1) BY <2>2
    <2>4. QED BY <2>1, <2>3 DEF a, b
  <1>8. ASSUME NEW e \in S PROVE HoldsAt(c, flat, e, from[e])
    <2>1. ASSUME NEW j \in 0 .. Frames(c, e) - 1
          PROVE  from[e] + j + 1 \in DOMAIN flat /\ flat[from[e] + j + 1] = <<e, j>>
      <3> DEFINE f == home(e)  n == fr(f)[e] + j + 1
      <3>1. f \in DOMAIN oo /\ e \in D[f] BY <1>2
      <3>2. n \in DOMAIN oo[f] /\ oo[f][n] = <<e, j>> /\ from[e] + j + 1 = Before(oo, f) + n BY <1>7, <3>1
      <3> HIDE DEF f, n
      <3>3. Before(oo, f) + n \in DOMAIN flat /\ flat[Before(oo, f) + n] = oo[f][n] BY <1>4, <3>1, <3>2 DEF Placed
      <3>4. QED BY <3>2, <3>3
    <2>2. QED BY <2>1 DEF HoldsAt
  <1>9. ASSUME NEW p \in DOMAIN flat PROVE \E e \in S : \E j \in 0 .. Frames(c, e) - 1 : p = from[e] + j + 1
    <2>1. PICK f \in DOMAIN oo : \E n \in DOMAIN oo[f] : p = Before(oo, f) + n BY <1>4 DEF Placed
    <2>2. PICK n \in DOMAIN oo[f] : p = Before(oo, f) + n BY <2>1
    <2>3. PICK e \in D[f] : \E j \in 0 .. Frames(c, e) - 1 : n = fr(f)[e] + j + 1 BY <1>1 DEF Laid
    <2>4. PICK j \in 0 .. Frames(c, e) - 1 : n = fr(f)[e] + j + 1 BY <2>3
    <2>5. p = from[e] + j + 1 BY <1>7, <2>2, <2>4
    <2>6. QED BY <1>3, <2>4, <2>5
  <1>10. Laid(c, flat, S, from) BY <1>6, <1>8, <1>9 DEF Laid
  <1>11. LaidOut(c, flat, S) BY <1>10 DEF LaidOut
  <1>12. QED BY <1>11 DEF flat

\* What is chosen from a sequence, by the rank of its place.
LEMMA ChosenAt ==
    ASSUME NEW A, NEW s \in Seq(A), NEW P, P \subseteq DOMAIN s
    PROVE  /\ Chosen(s, P) \in Seq(A) /\ P \subseteq Nat /\ IsFiniteSet(P) /\ Cardinality(P) \in Nat
           /\ DOMAIN Chosen(s, P) = 1 .. Cardinality(P)
           /\ \A p \in P : Position(P, p) + 1 \in DOMAIN Chosen(s, P) /\ Chosen(s, P)[Position(P, p) + 1] = s[p]
           /\ \A n \in DOMAIN Chosen(s, P) : \E p \in P : n = Position(P, p) + 1
  <1>1. DOMAIN s = 1 .. Len(s) /\ Len(s) \in Nat OBVIOUS
  <1>2. P \subseteq Nat /\ IsFiniteSet(P)
    <2>1. IsFiniteSet(DOMAIN s) BY <1>1, FS_Interval
    <2>2. QED BY <1>1, <2>1, FS_Subset
  <1> DEFINE k == Cardinality(P)  c == Chosen(s, P)
  <1>3. /\ k \in Nat /\ \A p \in P : Position(P, p) \in 0 .. k - 1 /\ Ascending(P)[Position(P, p) + 1] = p
        /\ \A n \in 1 .. k : Ascending(P)[n] \in P /\ Position(P, Ascending(P)[n]) = n - 1
    BY <1>2, RankFacts
  <1>4. c = [n \in 1 .. k |-> s[Ascending(P)[n]]] BY DEF Chosen
  <1>5. c \in Seq(A) BY ChosenFrom
  <1> HIDE DEF k, c
  <1>6. ASSUME NEW p \in P PROVE Position(P, p) + 1 \in 1 .. k /\ c[Position(P, p) + 1] = s[p]
    <2>1. Position(P, p) + 1 \in 1 .. k BY <1>3
    <2>2. QED BY <1>3, <1>4, <2>1
  <1>7. ASSUME NEW n \in 1 .. k PROVE \E p \in P : n = Position(P, p) + 1
    <2>1. Ascending(P)[n] \in P /\ Position(P, Ascending(P)[n]) = n - 1 BY <1>3
    <2>2. n = (n - 1) + 1 BY <1>3
    <2>3. QED BY <2>1, <2>2
  <1>8. QED BY <1>2, <1>3, <1>4, <1>5, <1>6, <1>7 DEF k, c

LEMMA ObsChosen ==
    ASSUME NEW A, NEW s \in Seq(A), NEW P, P \subseteq DOMAIN s
    PROVE  Obs(Chosen(s, P)) = Chosen(Obs(s), P)
  <1> DEFINE k == Cardinality(P)
  <1>1. /\ Chosen(s, P) = [n \in 1 .. k |-> s[Ascending(P)[n]]]
        /\ Chosen(Obs(s), P) = [n \in 1 .. k |-> Obs(s)[Ascending(P)[n]]]
    BY DEF Chosen
  <1>2. \A n \in 1 .. k : Ascending(P)[n] \in DOMAIN s
    <2>1. DOMAIN s = 1 .. Len(s) /\ Len(s) \in Nat OBVIOUS
    <2>2. IsFiniteSet(DOMAIN s) BY <2>1, FS_Interval
    <2>3. P \subseteq Nat /\ IsFiniteSet(P) BY <2>1, <2>2, FS_Subset
    <2>4. QED BY <2>3, Ranked
  <1> HIDE DEF k
  <1>3. \A n \in 1 .. k : Obs(s)[Ascending(P)[n]] = s[Ascending(P)[n]].obs BY <1>2 DEF Obs
  <1> DEFINE x == Chosen(s, P)
  <1>4. Obs(x) = [n \in 1 .. k |-> x[n].obs]
    <2>1. DOMAIN x = 1 .. k BY <1>1
    <2> HIDE DEF x
    <2>2. QED BY <2>1 DEF Obs
  <1>5. \A n \in 1 .. k : x[n] = s[Ascending(P)[n]] BY <1>1
  <1> HIDE DEF x
  <1>6. \A n \in 1 .. k : x[n].obs = Obs(s)[Ascending(P)[n]] BY <1>3, <1>5
  <1>7. Obs(x) = Chosen(Obs(s), P) BY <1>1, <1>4, <1>6
  <1>8. QED BY <1>7 DEF x

\* Keeping some demonstrations keeps them laid out.
LEMMA LaidChosen ==
    ASSUME NEW c, NEW O, NEW o \in Seq(O), NEW S, LaidOut(c, o, S), NEW K, K \subseteq S,
           \A e \in S : Frames(c, e) \in Nat \ {0}
    PROVE  LaidOut(c, Chosen(o, {p \in DOMAIN o : o[p][1] \in K}), K)
  <1> DEFINE P == {p \in DOMAIN o : o[p][1] \in K}  ch == Chosen(o, P)
  <1>1. PICK from : Laid(c, o, S, from) BY DEF LaidOut
  <1> DEFINE new == [e \in K |-> Position(P, from[e] + 1)]
  <1>2. /\ P \subseteq Nat /\ IsFiniteSet(P) /\ DOMAIN ch = 1 .. Cardinality(P)
        /\ \A p \in P : Position(P, p) + 1 \in DOMAIN ch /\ ch[Position(P, p) + 1] = o[p]
        /\ \A n \in DOMAIN ch : \E p \in P : n = Position(P, p) + 1
    <2>1. P \subseteq DOMAIN o OBVIOUS
    <2> HIDE DEF P
    <2>2. QED BY <2>1, ChosenAt
  <1>3. \A p \in P : /\ o[p][1] \in K /\ o[p][2] \in 0 .. Frames(c, o[p][1]) - 1
                     /\ p = from[o[p][1]] + o[p][2] + 1
    BY <1>1, LaidUnique
  <1>4. \A e \in K : from[e] \in Nat /\ \A j \in 0 .. Frames(c, e) - 1 :
            from[e] + j + 1 \in P /\ o[from[e] + j + 1] = <<e, j>>
    BY <1>1 DEF Laid, HoldsAt
  <1> HIDE DEF P, ch
  <1>5. ASSUME NEW e \in K, NEW j \in 0 .. Frames(c, e) - 1
        PROVE  Position(P, from[e] + j + 1) = new[e] + j
    <2> DEFINE a == from[e] + 1
    <2>1. a \in Nat /\ j \in Nat /\ a + j = from[e] + j + 1 BY <1>4
    <2>2. ASSUME NEW d \in 0 .. j - 1 PROVE a + d \in P
      <3>1. d \in 0 .. Frames(c, e) - 1 /\ a + d = from[e] + d + 1
        <4>1. Frames(c, e) \in Nat /\ from[e] \in Nat BY <1>4
        <4>2. QED BY <4>1
      <3>2. QED BY <1>4, <3>1
    <2> HIDE DEF a
    <2>g. Gapless(P, a, j) BY <2>2 DEF Gapless
    <2>3. Position(P, a + j) = Position(P, a) + j
      <3>1. P \subseteq Nat BY <1>2
      <3>2. IsFiniteSet(P) BY <1>2
      <3>3. a \in Nat /\ j \in Nat BY <2>1
      <3>4. Gapless(P, a, j) BY <2>g
      <3>5. QED BY <3>1, <3>2, <3>3, <3>4, RankShift
    <2>4. new[e] = Position(P, a) BY DEF a
    <2>5. QED BY <2>1, <2>3, <2>4
  <1>6. \A e \in K : new[e] \in Nat
    <2>1. \A x : Position(P, x) \in Nat BY <1>2, FS_Subset, FS_CardinalityType DEF Position
    <2>2. QED BY <2>1
  <1>n. new \in [K -> Nat] BY <1>6
  <1> HIDE DEF new
  <1>7. ASSUME NEW e \in K PROVE HoldsAt(c, ch, e, new[e])
    <2>1. ASSUME NEW j \in 0 .. Frames(c, e) - 1
          PROVE  new[e] + j + 1 \in DOMAIN ch /\ ch[new[e] + j + 1] = <<e, j>>
      <3> DEFINE p == from[e] + j + 1
      <3>1. p \in P /\ o[p] = <<e, j>> BY <1>4
      <3>2. Position(P, p) + 1 \in DOMAIN ch /\ ch[Position(P, p) + 1] = o[p] BY <1>2, <3>1
      <3>3. Position(P, p) = new[e] + j BY <1>5
      <3>4. QED BY <3>1, <3>2, <3>3
    <2>2. QED BY <2>1 DEF HoldsAt
  <1>8. ASSUME NEW n \in DOMAIN ch PROVE \E e \in K : \E j \in 0 .. Frames(c, e) - 1 : n = new[e] + j + 1
    <2>1. PICK p \in P : n = Position(P, p) + 1 BY <1>2
    <2>2. o[p][1] \in K /\ o[p][2] \in 0 .. Frames(c, o[p][1]) - 1 /\ p = from[o[p][1]] + o[p][2] + 1 BY <1>3
    <2>3. Position(P, p) = new[o[p][1]] + o[p][2] BY <1>5, <2>2
    <2>4. QED BY <2>1, <2>2, <2>3
  <1>9. Laid(c, ch, K, new) BY <1>n, <1>7, <1>8 DEF Laid
  <1>10. QED BY <1>9 DEF LaidOut, ch, P

-----------------------------------------------------------------------------
(* Rows, in files and all together *)

\* Every demonstration has a frame.
Played(c, S) == \A e \in S : Frames(c, e) \in Nat \ {0}
WellFormed(r) == IsTree(r) /\ \A f \in 1 .. Files : Sliced(r.data[f])

\* The index of a row is its place, its episode the rank of its demonstration.
Numbered(rows) == \A n \in DOMAIN rows : rows[n].i = n - 1
Ranks(rows, S) == \A n \in DOMAIN rows : rows[n].e = Position(S, rows[n].obs[1])
Stamped(rows) == \A n \in DOMAIN rows : rows[n].p # NoLabel
FileNumbered(data, f) == \A n \in DOMAIN data[f] : data[f][n].i = Before(data, f) + n - 1

DemosOf(data, f) == Demos(Obs(data[f]))
\* Every file holds its demonstrations whole, and no demonstration is in two files.
Tidy(c, data, S) ==
    /\ \A f \in 1 .. Files : LaidOut(c, Obs(data[f]), DemosOf(data, f))
    /\ \A f, h \in 1 .. Files : f # h => DemosOf(data, f) \cap DemosOf(data, h) = {}
    /\ UNION {DemosOf(data, f) : f \in 1 .. Files} = S
\* The rows of a finished tree whose demonstrations are S.
Built(c, rows, S) == LaidOut(c, Obs(rows), S) /\ Numbered(rows) /\ Ranks(rows, S)

LEMMA TreeSeq ==
    ASSUME NEW r, WellFormed(r), NEW S, \A f \in 1 .. Files : Range(r.data[f]) \subseteq S
    PROVE  r.data \in Seq(Seq(S)) /\ Len(r.data) = Files /\ DOMAIN r.data = 1 .. Files /\ Files \in Nat
  <1> DEFINE d == r.data
  <1>1. d = [f \in 1 .. Files |-> d[f]] /\ Files \in Nat BY RootsAssumption DEF IsTree, WellFormed
  <1>2. \A f \in 1 .. Files : d[f] \in Seq(S)
    <2>1. TAKE f \in 1 .. Files
    <2> DEFINE R == Range(d[f])
    <2>2. d[f] \in Seq(R) /\ R \subseteq S BY DEF Sliced, WellFormed
    <2> HIDE DEF R, d
    <2>3. QED BY <2>2
  <1> HIDE DEF d
  <1> DEFINE Q == Seq(S)
  <1>3. \A f \in 1 .. Files : d[f] \in Q BY <1>2
  <1> HIDE DEF Q
  <1>4. d \in [1 .. Files -> Q] BY <1>1, <1>3
  <1>5. d \in Seq(Q) /\ Len(d) = Files /\ DOMAIN d = 1 .. Files BY <1>1, <1>4
  <1>6. QED BY <1>1, <1>5 DEF Q, d

\* Where the rows of the files are.
LEMMA TreeRows ==
    ASSUME NEW r, WellFormed(r)
    PROVE  /\ Placed(r.data, AllRows(r), Files) /\ AllRows(r) \in Seq(Range(AllRows(r)))
           /\ Obs(AllRows(r)) = FlattenSeq(ObsOf(r.data)) /\ \E O : ObsOf(r.data) \in Seq(Seq(O))
           /\ \A x \in Range(AllRows(r)) : Own(x) /\ \E f \in 1 .. Files : x \in Range(r.data[f])
           /\ \A f \in 1 .. Files : Before(r.data, f) \in Nat /\ \A n \in DOMAIN r.data[f] : n \in Nat
  <1> DEFINE S == UNION {Range(r.data[f]) : f \in 1 .. Files}  O == {s.obs : s \in S}  d == r.data
  <1>1. (\A f \in 1 .. Files : Range(d[f]) \subseteq S) /\ Observes(S, O) BY DEF Observes
  <1>s. S = UNION {Range(d[f]) : f \in 1 .. Files} OBVIOUS
  <1> HIDE DEF S, O
  <1>2. d \in Seq(Seq(S)) /\ Len(d) = Files /\ DOMAIN d = 1 .. Files BY <1>1, TreeSeq
  <1> DEFINE flat == AllRows(r)
  <1>3. flat = FlattenSeq(d) BY DEF AllRows
  <1>own. \A f \in 1 .. Files : Sliced(d[f]) BY DEF WellFormed
  <1> HIDE DEF d, flat
  <1>4. Placed(d, flat, Files) /\ flat \in Seq(S) /\ \A f \in 1 .. Files : Before(d, f) \in Nat
    BY <1>2, <1>3, FlatIndex
  <1>5. Obs(flat) = FlattenSeq(ObsOf(d)) /\ ObsOf(d) \in Seq(Seq(O)) BY <1>1, <1>2, <1>3, FlatObs
  <1>6. \A f \in 1 .. Files : \A n \in DOMAIN d[f] : n \in Nat
    <2>1. \A f \in 1 .. Files : d[f] \in Seq(S) BY <1>2
    <2>2. \A q \in Seq(S) : \A n \in DOMAIN q : n \in Nat OBVIOUS
    <2>3. QED BY <2>1, <2>2
  <1>7. flat \in Seq(Range(flat)) /\ Range(flat) \subseteq S
    <2>1. flat = [n \in DOMAIN flat |-> flat[n]] /\ DOMAIN flat = 1 .. Len(flat) /\ Len(flat) \in Nat BY <1>4
    <2> DEFINE R == Range(flat)
    <2>2. \A n \in DOMAIN flat : flat[n] \in R BY DEF Range
    <2>4. Range(flat) \subseteq S BY <1>4 DEF Range
    <2> HIDE DEF R
    <2>3. flat \in [1 .. Len(flat) -> R] BY <2>1, <2>2
    <2>5. flat \in Seq(R) BY <2>1, <2>3
    <2>6. QED BY <2>4, <2>5 DEF R
  <1>8. \A x \in Range(flat) : Own(x) /\ \E f \in 1 .. Files : x \in Range(d[f])
    BY <1>7, <1>own, <1>s DEF Sliced
  <1>9. QED BY <1>4, <1>5, <1>6, <1>7, <1>8 DEF d, flat

\* Trees with the same frames in their files.
LEMMA SameFrames ==
    ASSUME NEW r, WellFormed(r), NEW s, WellFormed(s), \A f \in 1 .. Files : Obs(r.data[f]) = Obs(s.data[f])
    PROVE  /\ Obs(AllRows(r)) = Obs(AllRows(s)) /\ Len(AllRows(r)) = Len(AllRows(s))
           /\ \A f \in 1 .. Files : Before(r.data, f) = Before(s.data, f)
  <1> DEFINE d == r.data  e == s.data
             S == (UNION {Range(d[f]) : f \in 1 .. Files}) \union (UNION {Range(e[f]) : f \in 1 .. Files})
             O == {x.obs : x \in S}
  <1>0. Observes(S, O) BY DEF Observes
  <1>1. (\A f \in 1 .. Files : Range(d[f]) \subseteq S) /\ \A f \in 1 .. Files : Range(e[f]) \subseteq S
    <2>1. ASSUME NEW f \in 1 .. Files PROVE Range(d[f]) \subseteq S /\ Range(e[f]) \subseteq S
      <3> HIDE DEF d, e
      <3>1. QED OBVIOUS
    <2>2. QED BY <2>1
  <1>5. \A f \in 1 .. Files : Obs(d[f]) = Obs(e[f]) OBVIOUS
  <1> HIDE DEF S, O
  <1>2. d \in Seq(Seq(S)) /\ DOMAIN d = 1 .. Files BY <1>1, TreeSeq
  <1>3. e \in Seq(Seq(S)) /\ DOMAIN e = 1 .. Files BY <1>1, TreeSeq
  <1>6. AllRows(r) = FlattenSeq(d) /\ AllRows(s) = FlattenSeq(e) BY DEF AllRows
  <1> HIDE DEF d, e
  <1>4. ObsOf(d) = ObsOf(e) BY <1>2, <1>3, <1>5 DEF ObsOf
  <1>7. /\ Obs(FlattenSeq(d)) = Obs(FlattenSeq(e)) /\ Len(FlattenSeq(d)) = Len(FlattenSeq(e))
        /\ \A f \in DOMAIN d : Before(d, f) = Before(e, f)
    BY <1>0, <1>2, <1>3, <1>4, SameBefore
  <1>8. QED BY <1>2, <1>6, <1>7 DEF d, e

\* What holds of the files holds of all rows.
LEMMA BuiltRows ==
    ASSUME NEW c, NEW r, WellFormed(r), NEW S, Played(c, S), Tidy(c, r.data, S),
           \A f \in 1 .. Files : FileNumbered(r.data, f) /\ Ranks(r.data[f], S)
    PROVE  Built(c, AllRows(r), S)
  <1> DEFINE d == r.data  flat == AllRows(r)  oo == ObsOf(d)  D == [f \in 1 .. Files |-> DemosOf(d, f)]
  <1>1. /\ Placed(d, flat, Files) /\ Obs(flat) = FlattenSeq(oo) /\ \E O : oo \in Seq(Seq(O))
        /\ \A f \in 1 .. Files : Before(d, f) \in Nat /\ \A n \in DOMAIN d[f] : n \in Nat
    BY TreeRows
  <1>2. DOMAIN oo = 1 .. Files /\ \A f \in 1 .. Files : oo[f] = Obs(d[f])
    BY DEF ObsOf, WellFormed, IsTree
  <1>3. LaidOut(c, Obs(flat), S)
    <2>1. PICK O : oo \in Seq(Seq(O)) BY <1>1
    <2>2. \A f \in DOMAIN oo : LaidOut(c, oo[f], D[f]) BY <1>2 DEF Tidy
    <2>3. \A f, h \in DOMAIN oo : f # h => D[f] \cap D[h] = {} BY <1>2 DEF Tidy
    <2>4. UNION {D[f] : f \in DOMAIN oo} = S BY <1>2 DEF Tidy
    <2> HIDE DEF oo, D
    <2>5. Pieces(c, oo, D, S) BY <2>2, <2>3, <2>4 DEF Pieces
    <2>6. LaidOut(c, FlattenSeq(oo), S) BY <2>1, <2>5, LaidFlat
    <2>7. QED BY <1>1, <2>6
  <1> HIDE DEF oo, D, flat
  <1>4. ASSUME NEW p \in DOMAIN flat PROVE flat[p].i = p - 1 /\ flat[p].e = Position(S, flat[p].obs[1])
    <2>1. PICK f \in 1 .. Files : \E n \in DOMAIN d[f] : p = Before(d, f) + n /\ flat[p] = d[f][n]
      BY <1>1 DEF Placed
    <2>2. PICK n \in DOMAIN d[f] : p = Before(d, f) + n /\ flat[p] = d[f][n] BY <2>1
    <2>3. d[f][n].i = Before(d, f) + n - 1 /\ d[f][n].e = Position(S, d[f][n].obs[1])
      BY DEF FileNumbered, Ranks
    <2> DEFINE b == Before(d, f)
    <2>4. b \in Nat /\ n \in Nat /\ p = b + n /\ flat[p].i = b + n - 1 BY <1>1, <2>2, <2>3
    <2> HIDE DEF b
    <2>5. flat[p].i = p - 1 BY <2>4
    <2>6. QED BY <2>2, <2>3, <2>5
  <1>5. Numbered(flat) /\ Ranks(flat, S) BY <1>4 DEF Numbered, Ranks
  <1>6. QED BY <1>3, <1>5 DEF Built, flat

\* The indices of an episode are the places of its demonstration.
IndicesOf(rows, e) == {r.i : r \in {x \in Range(rows) : x.e = e}}

LEMMA IndexOf ==
    ASSUME NEW c, NEW rows, NEW S, S \subseteq Nat, IsFiniteSet(S), Played(c, S), Built(c, rows, S), NEW g \in S,
           NEW a, HoldsAt(c, Obs(rows), g, a), a \in Nat
    PROVE  IndicesOf(rows, Position(S, g)) = a .. a + Frames(c, g) - 1
  <1> DEFINE o == Obs(rows)  e == Position(S, g)  F == Frames(c, g)
  <1>1. PICK from : Laid(c, o, S, from) BY DEF Built, LaidOut
  <1>2. DOMAIN o = DOMAIN rows /\ \A p \in DOMAIN rows : o[p] = rows[p].obs BY DEF Obs
  <1>3. F \in Nat \ {0} BY DEF Played
  <1> HIDE DEF o, e, F
  <1>4. from[g] = a /\ from[g] \in Nat
    <2>1. 0 \in 0 .. F - 1 /\ a + 0 + 1 = a + 1 BY <1>3
    <2>2. a + 1 \in DOMAIN o /\ o[a + 1] = <<g, 0>> BY <2>1 DEF HoldsAt, o, F
    <2>3. a + 1 = from[g] + 0 + 1 BY <1>1, <2>2, LaidUnique
    <2>4. from[g] \in Nat BY <1>1 DEF Laid
    <2>5. QED BY <2>3, <2>4
  <1>5. ASSUME NEW x \in Range(rows), x.e = e PROVE x.i \in a .. a + F - 1
    <2>1. PICK p \in DOMAIN rows : x = rows[p] BY DEF Range
    <2>2. /\ o[p][1] \in S /\ o[p][2] \in 0 .. Frames(c, o[p][1]) - 1 /\ p = from[o[p][1]] + o[p][2] + 1
      BY <1>1, <1>2, LaidUnique
    <2>3. Position(S, o[p][1]) = Position(S, g) /\ x.i = p - 1
      BY <1>2, <1>5, <2>1 DEF Built, Numbered, Ranks, e
    <2>4. o[p][1] = g
      <3> DEFINE h == o[p][1]
      <3>1. h \in S /\ h \in Nat /\ g \in Nat /\ Position(S, h) = Position(S, g) BY <2>2, <2>3
      <3> HIDE DEF h
      <3>2. Position(S, h) \in 0 .. Cardinality(S) - 1 /\ Position(S, g) \in 0 .. Cardinality(S) - 1
            /\ (h < g <=> Position(S, h) < Position(S, g)) /\ (g < h <=> Position(S, g) < Position(S, h))
        BY <3>1, RankFacts
      <3>3. h = g BY <3>1, <3>2
      <3>4. QED BY <3>3 DEF h
    <2>5. o[p][2] \in 0 .. F - 1 /\ p = a + o[p][2] + 1 BY <1>4, <2>2, <2>4 DEF F
    <2>6. QED BY <1>3, <2>3, <2>5
  <1>6. ASSUME NEW q \in a .. a + F - 1 PROVE \E x \in Range(rows) : x.e = e /\ x.i = q
    <2>1. q - a \in 0 .. F - 1 /\ a + (q - a) + 1 = q + 1 /\ (q + 1) - 1 = q BY <1>3
    <2>2. q + 1 \in DOMAIN o /\ o[q + 1] = <<g, q - a>> BY <2>1 DEF HoldsAt, o, F
    <2>3. q + 1 \in DOMAIN rows /\ rows[q + 1].obs[1] = g BY <1>2, <2>2
    <2>4. rows[q + 1].e = e /\ rows[q + 1].i = q BY <2>1, <2>3 DEF Built, Numbered, Ranks, e
    <2>5. QED BY <2>3, <2>4 DEF Range
  <1>7. IndicesOf(rows, e) = a .. a + F - 1 BY <1>5, <1>6 DEF IndicesOf
  <1>8. QED BY <1>7 DEF e, F

LEMMA Ends ==
    ASSUME NEW a \in Nat, NEW F \in Nat \ {0} PROVE Min(a .. a + F - 1) = a /\ Max(a .. a + F - 1) = a + F - 1
  <1> DEFINE S == a .. a + F - 1
  <1>1. S \subseteq Nat /\ S \subseteq Int /\ S # {} /\ a \in S /\ a + F - 1 \in S /\ \A k \in S : k <= a + F - 1 OBVIOUS
  <1>2. \A k \in S : a <= k /\ k \in Nat OBVIOUS
  <1> HIDE DEF S
  <1>3. Max(S) = a + F - 1 BY <1>1, Largest
  <1>4. Min(S) \in S /\ \A y \in S : Min(S) <= y BY <1>1, LeastOf
  <1>5. Min(S) <= a /\ a <= Min(S) /\ Min(S) \in Nat BY <1>1, <1>2, <1>4
  <1>6. Min(S) = a BY <1>5
  <1>7. QED BY <1>3, <1>6 DEF S

\* The table of episodes: one entry per demonstration, with its place.
InPlace(c, m, o) == m.from \in Nat /\ m.to = m.from + Frames(c, m.g) /\ HoldsAt(c, o, m.g, m.from)
Listed(eps, S) ==
    /\ eps = [k \in 1 .. Cardinality(S) |-> eps[k]]
    /\ \A k \in 1 .. Cardinality(S) : eps[k].e = k - 1 /\ eps[k].g = Ascending(S)[k]
Table(c, eps, S, o) == Listed(eps, S) /\ \A k \in DOMAIN eps : InPlace(c, eps[k], o)

Spans(c, o, g, range) == \E a \in Nat : HoldsAt(c, o, g, a) /\ range = [from |-> a, to |-> a + Frames(c, g)]

LEMMA RangeOf ==
    ASSUME NEW c, NEW rows, NEW S, S \subseteq Nat, IsFiniteSet(S), Played(c, S), Built(c, rows, S), NEW g \in S
    PROVE  Spans(c, Obs(rows), g, IndexRange(rows, Position(S, g)))
  <1> DEFINE F == Frames(c, g)  e == Position(S, g)
  <1>1. PICK from : Laid(c, Obs(rows), S, from) BY DEF Built, LaidOut
  <1> DEFINE a == from[g]
  <1>2. a \in Nat /\ HoldsAt(c, Obs(rows), g, a) /\ F \in Nat \ {0} BY <1>1 DEF Laid, Played
  <1> HIDE DEF a
  <1>3. IndicesOf(rows, e) = a .. a + F - 1 BY <1>2, IndexOf
  <1>4. IndexRange(rows, e) = [from |-> Min(IndicesOf(rows, e)), to |-> Max(IndicesOf(rows, e)) + 1]
    BY DEF IndexRange, IndicesOf
  <1> HIDE DEF F, e
  <1>a. Min(a .. a + F - 1) = a /\ Max(a .. a + F - 1) = a + F - 1 BY <1>2, Ends
  <1>b. a + F - 1 + 1 = a + F BY <1>2
  <1>5. Min(a .. a + F - 1) = a /\ Max(a .. a + F - 1) + 1 = a + F BY <1>a, <1>b
  <1>6. IndexRange(rows, e) = [from |-> a, to |-> a + F] BY <1>3, <1>4, <1>5
  <1>7. QED BY <1>2, <1>6 DEF F, e, Spans

LEMMA TableOf ==
    ASSUME NEW c, NEW rows, NEW S, S \subseteq Nat, IsFiniteSet(S), Played(c, S), Built(c, rows, S), NEW eps,
           eps = [k \in 1 .. Cardinality(S) |-> eps[k]],
           \A k \in DOMAIN eps : eps[k] = Entry(k - 1, Ascending(S)[k], IndexRange(rows, k - 1))
    PROVE  Table(c, eps, S, Obs(rows))
  <1>1. ASSUME NEW k \in DOMAIN eps
        PROVE  eps[k].e = k - 1 /\ eps[k].g = Ascending(S)[k] /\ InPlace(c, eps[k], Obs(rows))
    <2> DEFINE g == Ascending(S)[k]
    <2>1. g \in S /\ Position(S, g) = k - 1 BY Ranked
    <2> HIDE DEF g
    <2>2. PICK a \in Nat : /\ HoldsAt(c, Obs(rows), g, a)
                           /\ IndexRange(rows, Position(S, g)) = [from |-> a, to |-> a + Frames(c, g)]
      <3>1. Spans(c, Obs(rows), g, IndexRange(rows, Position(S, g))) BY <2>1, RangeOf
      <3>2. QED BY <3>1 DEF Spans
    <2>3. eps[k] = [e |-> k - 1, g |-> g, from |-> a, to |-> a + Frames(c, g)] BY <2>1, <2>2 DEF g, Entry
    <2>4. eps[k].e = k - 1 /\ eps[k].g = g /\ eps[k].from = a /\ eps[k].to = a + Frames(c, g) BY <2>3
    <2>5. QED BY <2>2, <2>4 DEF InPlace, g
  <1>2. QED BY <1>1 DEF Table, Listed

LEMMA LengthOf ==
    ASSUME NEW n \in Nat, NEW s, s = [k \in 1 .. n |-> s[k]] PROVE Len(s) = n /\ DOMAIN s = 1 .. n
  <1> DEFINE R == Range(s)
  <1>1. DOMAIN s = 1 .. n OBVIOUS
  <1>2. \A k \in 1 .. n : s[k] \in R BY <1>1 DEF Range
  <1> HIDE DEF R
  <1>3. s \in [1 .. n -> R] BY <1>2
  <1>4. QED BY <1>1, <1>3

\* The ranks of a finite set of numbers are 0, 1, ...
LEMMA SameRank ==
    ASSUME NEW S, S \subseteq Nat, IsFiniteSet(S), NEW x \in S, NEW y \in S, Position(S, x) = Position(S, y)
    PROVE  x = y
  <1>1. /\ Position(S, x) \in 0 .. Cardinality(S) - 1 /\ Cardinality(S) \in Nat
        /\ (x < y <=> Position(S, x) < Position(S, y)) /\ (y < x <=> Position(S, y) < Position(S, x))
    BY RankFacts
  <1>2. x \in Nat /\ y \in Nat OBVIOUS
  <1>3. QED BY <1>1, <1>2

-----------------------------------------------------------------------------
(* What a finished root passes *)

-----------------------------------------------------------------------------
(* A finished root and the checks of the repository *)

\* Rows, table, label column, counts and filter of a root that keeps K.
Complete(c, r, K) ==
    /\ WellFormed(r) /\ K \subseteq Nat /\ IsFiniteSet(K) /\ Played(c, K)
    /\ Built(c, AllRows(r), K) /\ Table(c, r.eps, K, Obs(AllRows(r))) /\ Stamped(AllRows(r))
    /\ r.info.episodes = Cardinality(K) /\ r.info.frames = Len(AllRows(r)) /\ r.info.progress
    /\ r.filter.out = Cardinality(K)

\* A row and the table's entry of its episode.
LEMMA RowEntry ==
    ASSUME NEW c, NEW r, NEW K, Complete(c, r, K), NEW x \in Range(AllRows(r))
    PROVE  /\ x.e \in 0 .. Cardinality(K) - 1 /\ x.obs[1] \in K /\ x.e = Position(K, x.obs[1]) /\ x.g = x.obs[1]
           /\ r.eps[x.e + 1].g = x.g
           /\ AllRows(r)[x.i + 1] = x /\ x.i \in 0 .. Len(AllRows(r)) - 1
  <1> DEFINE rows == AllRows(r)
  <1>1. WellFormed(r) /\ K \subseteq Nat /\ IsFiniteSet(K) BY DEF Complete
  <1>2. rows \in Seq(Range(rows)) /\ \A y \in Range(rows) : Own(y) BY <1>1, TreeRows
  <1>3. x.g = x.obs[1] BY <1>2 DEF Own
  <1> DEFINE R == Range(rows)
  <1>4. DOMAIN rows = 1 .. Len(rows) /\ Len(rows) \in Nat
    <2> HIDE DEF rows, R
    <2>1. rows \in Seq(R) BY <1>2 DEF R
    <2>2. QED BY <2>1
  <1>5. PICK p \in DOMAIN rows : x = rows[p] BY DEF Range
  <1>6. Built(c, rows, K) BY DEF Complete
  <1> HIDE DEF rows
  <1>7. x.i = p - 1 /\ x.e = Position(K, x.obs[1]) BY <1>5, <1>6 DEF Built, Numbered, Ranks
  <1>8. x.obs[1] \in K
    <2>1. PICK from : Laid(c, Obs(rows), K, from) BY <1>6 DEF Built, LaidOut
    <2>2. p \in DOMAIN Obs(rows) /\ Obs(rows)[p] = x.obs BY <1>5 DEF Obs
    <2>3. QED BY <2>1, <2>2, LaidUnique
  <1>9. x.e \in 0 .. Cardinality(K) - 1 /\ Ascending(K)[x.e + 1] = x.obs[1]
    <2> DEFINE g == x.obs[1]
    <2>1. g \in K BY <1>8
    <2>e. x.e = Position(K, g) BY <1>7
    <2> HIDE DEF g
    <2>2. Position(K, g) \in 0 .. Cardinality(K) - 1 /\ Ascending(K)[Position(K, g) + 1] = g BY <1>1, <2>1, RankFacts
    <2>3. x.e \in 0 .. Cardinality(K) - 1 /\ Ascending(K)[x.e + 1] = g BY <2>2, <2>e
    <2>4. QED BY <2>3 DEF g
  <1>10. x.e + 1 \in 1 .. Cardinality(K) BY <1>1, <1>9, FS_CardinalityType
  <1>11. r.eps[x.e + 1].g = x.obs[1] BY <1>9, <1>10 DEF Complete, Table, Listed
  <1>12. x.i + 1 = p /\ x.i \in 0 .. Len(rows) - 1 BY <1>4, <1>5, <1>7
  <1>13. QED BY <1>3, <1>5, <1>7, <1>8, <1>9, <1>11, <1>12 DEF rows

\* The entries of the table and the rows of their episodes.
LEMMA EntryRows ==
    ASSUME NEW c, NEW r, NEW K, Complete(c, r, K), NEW k \in 1 .. Cardinality(K)
    PROVE  /\ r.eps[k].e = k - 1 /\ r.eps[k].from \in Nat /\ r.eps[k].to = r.eps[k].from + Frames(c, r.eps[k].g)
           /\ Frames(c, r.eps[k].g) \in Nat \ {0}
           /\ IndicesOf(AllRows(r), k - 1) = r.eps[k].from .. r.eps[k].to - 1
           /\ \A i \in r.eps[k].from .. r.eps[k].to - 1 :
                  i + 1 \in DOMAIN AllRows(r) /\ AllRows(r)[i + 1].obs = <<r.eps[k].g, i - r.eps[k].from>>
  <1> DEFINE rows == AllRows(r)  m == r.eps[k]  g == m.g  a == m.from  F == Frames(c, g)
  <1>1. K \subseteq Nat /\ IsFiniteSet(K) /\ Played(c, K) /\ Built(c, rows, K) BY DEF Complete
  <1>2. m.e = k - 1 /\ g = Ascending(K)[k] /\ InPlace(c, m, Obs(rows))
    BY <1>1, FS_CardinalityType DEF Complete, Table, Listed
  <1>3. g \in K /\ Position(K, g) = k - 1 BY <1>1, <1>2, Ranked
  <1>4. a \in Nat /\ m.to = a + F /\ HoldsAt(c, Obs(rows), g, a) /\ F \in Nat \ {0} BY <1>1, <1>2, <1>3 DEF InPlace, Played
  <1> HIDE DEF rows, g, a
  <1>5. IndicesOf(rows, Position(K, g)) = a .. a + F - 1 BY <1>1, <1>3, <1>4, IndexOf
  <1>6. \A i \in a .. a + F - 1 : i + 1 \in DOMAIN rows /\ rows[i + 1].obs = <<g, i - a>>
    <2>1. TAKE i \in a .. a + F - 1
    <2> HIDE DEF F
    <2>2. i - a \in 0 .. F - 1 /\ a + (i - a) + 1 = i + 1 BY <1>4
    <2>3. i + 1 \in DOMAIN Obs(rows) /\ Obs(rows)[i + 1] = <<g, i - a>> BY <1>4, <2>2 DEF HoldsAt, F
    <2>4. QED BY <2>3 DEF Obs
  <1>7. QED BY <1>2, <1>3, <1>4, <1>5, <1>6 DEF rows, g, a

\* validate_slice.py on a finished root: compaction and manifest (5, 5b).
LEMMA PassesCheck5 ==
    ASSUME NEW c, NEW r, NEW K, Complete(c, r, K) PROVE Check5(r) /\ Cardinality(EpisodesIn(AllRows(r))) = Cardinality(K)
  <1> DEFINE rows == AllRows(r)  N == Cardinality(K)
  <1>1. WellFormed(r) /\ N \in Nat /\ K \subseteq Nat /\ IsFiniteSet(K) BY FS_CardinalityType DEF Complete
  <1>2. r.eps = [k \in 1 .. N |-> r.eps[k]] BY DEF Complete, Table, Listed
  <1>n. N = Cardinality(K) OBVIOUS
  <1> HIDE DEF N
  <1>3. Len(r.eps) = N /\ DOMAIN r.eps = 1 .. N BY <1>1, <1>2, LengthOf
  <1>4. DOMAIN rows = 1 .. Len(rows) /\ Len(rows) \in Nat
    <2> DEFINE R == Range(rows)
    <2>1. rows \in Seq(R) BY <1>1, TreeRows
    <2> HIDE DEF rows, R
    <2>2. QED BY <2>1
  <1>5. EpisodesIn(rows) = 0 .. N - 1
    <2>1. \A x \in Range(rows) : x.e \in 0 .. N - 1 BY <1>n, RowEntry
    <2>2. ASSUME NEW n \in 0 .. N - 1 PROVE \E x \in Range(rows) : x.e = n
      <3>1. n + 1 \in 1 .. N /\ (n + 1) - 1 = n BY <1>1
      <3> DEFINE m == r.eps[n + 1]  a == m.from
      <3>2. IndicesOf(rows, n) = m.from .. m.to - 1 /\ m.from \in Nat /\ m.to = m.from + Frames(c, m.g)
            /\ Frames(c, m.g) \in Nat \ {0}
        BY <1>n, <3>1, EntryRows
      <3> HIDE DEF m, rows
      <3>3. m.from \in m.from .. m.to - 1 BY <3>2
      <3>4. m.from \in IndicesOf(rows, n) BY <3>2, <3>3
      <3>5. QED BY <3>4 DEF IndicesOf
    <2> HIDE DEF rows
    <2>3. QED BY <2>1, <2>2 DEF EpisodesIn
  <1>6. {x.i : x \in Range(rows)} = 0 .. Len(rows) - 1
    <2>1. \A x \in Range(rows) : x.i \in 0 .. Len(rows) - 1 BY RowEntry
    <2>2. \A n \in 0 .. Len(rows) - 1 : \E x \in Range(rows) : x.i = n
      <3>1. TAKE n \in 0 .. Len(rows) - 1
      <3>2. n + 1 \in DOMAIN rows /\ (n + 1) - 1 = n BY <1>4
      <3>3. rows[n + 1].i = n BY <3>2 DEF Complete, Built, Numbered
      <3>4. QED BY <3>2, <3>3 DEF Range
    <2> HIDE DEF rows
    <2>3. QED BY <2>1, <2>2
  <1>7. Cardinality(0 .. N - 1) = N
    <2>1. Cardinality(0 .. N - 1) = IF 0 > N - 1 THEN 0 ELSE (N - 1) - 0 + 1 BY <1>1, FS_Interval
    <2>2. QED BY <1>1, <2>1
  <1>8. ASSUME NEW m \in Range(r.eps) PROVE {x.i : x \in {y \in Range(rows) : y.e = m.e}} = m.from .. m.to - 1
    <2>1. PICK k \in 1 .. N : m = r.eps[k] BY <1>3 DEF Range
    <2>2. m.e = k - 1 /\ IndicesOf(rows, k - 1) = m.from .. m.to - 1 BY <1>n, <2>1, EntryRows
    <2>3. QED BY <2>2 DEF IndicesOf
  <1>9. r.info.episodes = N /\ r.filter.out = N BY <1>n DEF Complete
  <1> HIDE DEF rows
  <1>10. QED BY <1>3, <1>5, <1>6, <1>7, <1>8, <1>9, <1>n DEF Check5, rows

\* Counts and action chunks (1a, 1c).
LEMMA PassesCheck1 ==
    ASSUME NEW c, NEW r, NEW K, Complete(c, r, K) PROVE Check1(r)
  <1> DEFINE rows == AllRows(r)
             In(e) == {x.i : x \in {y \in Range(rows) : y.e = e}}
             Reader(i, k, m) == rows[Max({m.from, Min({m.to - 1, i + k})}) + 1]
  <1>1. r.info.frames = Len(rows) /\ r.info.episodes = Cardinality(EpisodesIn(rows))
    BY PassesCheck5 DEF Complete
  <1>2. ASSUME NEW i \in 0 .. Len(rows) - 1, NEW k \in 0 .. Horizon - 1,
               NEW x \in Range(rows), x.e = rows[i + 1].e,
               x.i = Max({Min(In(x.e)), Min({Max(In(x.e)), i + k})})
        PROVE  Reader(i, k, r.eps[x.e + 1]).obs = x.obs
    <2>1. x.e \in 0 .. Cardinality(K) - 1 /\ rows[x.i + 1] = x BY RowEntry
    <2>2. x.e + 1 \in 1 .. Cardinality(K) /\ (x.e + 1) - 1 = x.e
      BY <2>1, FS_CardinalityType DEF Complete
    <2> DEFINE q == x.e + 1  m == r.eps[q]  F == Frames(c, m.g)
    <2>q. q \in 1 .. Cardinality(K) /\ q - 1 = x.e BY <2>2
    <2> HIDE DEF q
    <2>r. /\ IndicesOf(rows, q - 1) = m.from .. m.to - 1 /\ m.from \in Nat /\ m.to = m.from + F /\ F \in Nat \ {0}
      BY <2>q, EntryRows
    <2>3. In(x.e) = m.from .. m.to - 1 /\ m.from \in Nat /\ m.to = m.from + F /\ F \in Nat \ {0}
      BY <2>q, <2>r DEF IndicesOf
    <2> HIDE DEF m, F, In
    <2>4. Min(m.from .. m.from + F - 1) = m.from /\ Max(m.from .. m.from + F - 1) = m.from + F - 1 BY <2>3, Ends
    <2>s. m.to - 1 = m.from + F - 1 BY <2>3
    <2>5. Min(In(x.e)) = m.from /\ Max(In(x.e)) = m.to - 1 BY <2>3, <2>4, <2>s
    <2> HIDE DEF rows
    <2>6. Reader(i, k, m) = rows[x.i + 1] BY <1>2, <2>5
    <2>7. Reader(i, k, m) = x BY <2>1, <2>6
    <2> HIDE DEF Reader
    <2>8. QED BY <2>7 DEF m, q
  <1> HIDE DEF rows
  <1>3. \A i \in 0 .. Len(rows) - 1, k \in 0 .. Horizon - 1 :
             LET e == rows[i + 1].e  j == Max({Min(In(e)), Min({Max(In(e)), i + k})})
             IN \A x \in Range(rows) : x.e = e /\ x.i = j => Reader(i, k, r.eps[e + 1]).obs = x.obs
    <2> HIDE DEF In, Reader
    <2>1. QED BY <1>2
  <1>4. QED BY <1>1, <1>3 DEF Check1, rows

\* The demonstrations' own indices (2), verify, and what its episodes are.
LEMMA PassesTheRest ==
    ASSUME NEW c, NEW r, NEW K, Complete(c, r, K), AllRows(r) # <<>>
    PROVE  /\ Check2(r) /\ Verify(r) /\ {x.obs[1] : x \in Range(AllRows(r))} = K
           /\ \A k \in DOMAIN r.eps :
                  LET m == r.eps[k] IN
                  /\ m.e = k - 1 /\ m.to - m.from = Len(c[m.g].rewards)
                  /\ \A i \in m.from .. m.to - 1 : AllRows(r)[i + 1].obs = <<m.g, i - m.from>>
  <1> DEFINE rows == AllRows(r)
  <1>1. K \subseteq Nat /\ IsFiniteSet(K) BY DEF Complete
  <1>2. Check2(r)
    <2> SUFFICES ASSUME NEW x \in Range(rows), NEW y \in Range(rows), x.e = y.e PROVE x.g = y.g BY DEF Check2
    <2>1. x.obs[1] \in K /\ x.e = Position(K, x.obs[1]) /\ x.g = x.obs[1] BY RowEntry
    <2>2. y.obs[1] \in K /\ y.e = Position(K, y.obs[1]) /\ y.g = y.obs[1] BY RowEntry
    <2>3. x.obs[1] = y.obs[1] BY <1>1, <2>1, <2>2, SameRank
    <2>4. QED BY <2>1, <2>2, <2>3
  <1>3. Verify(r) BY DEF Verify, Complete, Stamped, Range
  <1>4. {x.obs[1] : x \in Range(rows)} = K
    <2>1. \A x \in Range(rows) : x.obs[1] \in K BY RowEntry
    <2>2. Demos(Obs(rows)) = K BY LaidDemos DEF Complete, Built, Played
    <2> HIDE DEF rows
    <2>3. ASSUME NEW e \in K PROVE \E x \in Range(rows) : x.obs[1] = e
      <3>1. PICK n \in DOMAIN Obs(rows) : Obs(rows)[n][1] = e BY <2>2 DEF Demos
      <3>2. n \in DOMAIN rows /\ rows[n].obs[1] = e BY <3>1 DEF Obs
      <3>3. QED BY <3>2 DEF Range
    <2>4. QED BY <2>1, <2>3
  <1>5. ASSUME NEW k \in DOMAIN r.eps
        PROVE  /\ r.eps[k].e = k - 1 /\ r.eps[k].to - r.eps[k].from = Len(c[r.eps[k].g].rewards)
               /\ \A i \in r.eps[k].from .. r.eps[k].to - 1 : rows[i + 1].obs = <<r.eps[k].g, i - r.eps[k].from>>
    <2>1. k \in 1 .. Cardinality(K) BY DEF Complete, Table, Listed
    <2> DEFINE m == r.eps[k]  a == m.from  F == Frames(c, m.g)
    <2>2. /\ m.e = k - 1 /\ a \in Nat /\ m.to = a + F /\ F \in Nat \ {0}
          /\ \A i \in m.from .. m.to - 1 : rows[i + 1].obs = <<m.g, i - m.from>>
      BY <2>1, EntryRows
    <2>3. a + F - a = F
      <3> HIDE DEF a, F
      <3>1. QED BY <2>2
    <2>4. QED BY <2>2, <2>3 DEF Frames
  <1>6. QED BY <1>2, <1>3, <1>4, <1>5 DEF rows
=============================================================================
