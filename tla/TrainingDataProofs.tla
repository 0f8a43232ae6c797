------------------------- MODULE TrainingDataProofs -------------------------
(* Proofs about TrainingData, for every corpus, log and checkpoint interval.   *)
EXTENDS TrainingData, FiniteSetTheorems, WellFoundedInduction, TLAPS

-----------------------------------------------------------------------------
(* Least elements, induction up to a number, sequences built from sequences *)

LEMMA LeastOf ==
    ASSUME NEW S, S \subseteq Nat, S # {}
    PROVE  Min(S) \in S /\ \A y \in S : Min(S) <= y
  <1>1. PICK x \in S : \A y \in S : <<y, x>> \notin OpToRel(<, Nat) BY NatLessThanWellFounded, WFMin
  <1>2. \A y \in S : x <= y
    <2>1. TAKE y \in S
    <2>2. x \in Nat /\ y \in Nat /\ ~(y < x) BY <1>1 DEF OpToRel
    <2>3. QED BY <2>2
  <1>3. QED BY <1>2 DEF Min

\* Induction up to N, for a set in place of a predicate: a least counterexample.
LEMMA Climb ==
    ASSUME NEW N \in Nat, NEW Fine, 0 \in Fine, \A k \in 0 .. N - 1 : k \in Fine => k + 1 \in Fine
    PROVE  N \in Fine
  <1> DEFINE Bad == {k \in 0 .. N : k \notin Fine}
  <1>1. SUFFICES ASSUME N \notin Fine PROVE FALSE OBVIOUS
  <1>2. Bad \subseteq Nat /\ N \in Bad BY <1>1
  <1>3. Min(Bad) \in Bad /\ \A j \in Bad : Min(Bad) <= j BY <1>2, LeastOf
  <1>4. PICK k \in Bad : \A j \in Bad : k <= j BY <1>3
  <1>5. k \in 0 .. N /\ k \notin Fine BY <1>4
  <1>6. k # 0 BY <1>5
  <1>7. k - 1 \in 0 .. N - 1 /\ k - 1 \in 0 .. N /\ ~(k <= k - 1) /\ (k - 1) + 1 = k BY <1>5, <1>6
  <1>8. k - 1 \notin Bad BY <1>4, <1>7
  <1>9. QED BY <1>5, <1>7, <1>8

LEMMA Concat ==
    ASSUME NEW S, NEW s \in Seq(S), NEW t \in Seq(S)
    PROVE  s \o t \in Seq(S) /\ Range(s \o t) = Range(s) \union Range(t)
  <1>1. s \o t \in Seq(S) OBVIOUS
  <1> DEFINE u == s \o t
  <1>2. /\ DOMAIN u = 1 .. Len(s) + Len(t) /\ DOMAIN s = 1 .. Len(s) /\ DOMAIN t = 1 .. Len(t)
        /\ Len(s) \in Nat /\ Len(t) \in Nat
        /\ \A n \in 1 .. Len(s) : u[n] = s[n]
        /\ \A n \in 1 .. Len(t) : u[Len(s) + n] = t[n]
    OBVIOUS
  <1> HIDE DEF u
  <1>3. ASSUME NEW n \in DOMAIN u PROVE u[n] \in Range(s) \union Range(t)
    <2>1. CASE n \in 1 .. Len(s) BY <2>1, <1>2 DEF Range
    <2>2. CASE n \notin 1 .. Len(s)
      <3>1. n - Len(s) \in 1 .. Len(t) /\ Len(s) + (n - Len(s)) = n BY <2>2, <1>2
      <3>2. u[n] = t[n - Len(s)] BY <3>1, <1>2
      <3>3. QED BY <3>1, <3>2, <1>2 DEF Range
    <2>3. QED BY <2>1, <2>2
  <1>4. ASSUME NEW n \in DOMAIN s PROVE s[n] \in Range(u)
    <2>1. n \in DOMAIN u /\ u[n] = s[n] BY <1>2
    <2>2. QED BY <2>1 DEF Range
  <1>5. ASSUME NEW n \in DOMAIN t PROVE t[n] \in Range(u)
    <2>1. Len(s) + n \in DOMAIN u /\ u[Len(s) + n] = t[n] BY <1>2
    <2>2. QED BY <2>1 DEF Range
  <1>6. Range(u) = Range(s) \union Range(t) BY <1>3, <1>4, <1>5 DEF Range
  <1>7. QED BY <1>1, <1>6 DEF u

FlattenBody(ss, f, i) == IF i = 1 THEN ss[i] ELSE f[i - 1] \o ss[i]

LEMMA FlattenStep ==
    ASSUME NEW ss, NEW f, NEW i, i # 1 PROVE FlattenBody(ss, f, i) = f[i - 1] \o ss[i]
  BY Zenon DEF FlattenBody

IsFlattening(ss, f, k) == \A i \in 1 .. k : f[i] = FlattenBody(ss, f, i)

Agree(a, b, k) == \A i \in 1 .. k : a[i] = b[i]

LEMMA FlatExists ==
    ASSUME NEW ss, NEW N \in Nat, NEW k \in 0 .. N
    PROVE  \E f : f = [i \in 1 .. k |-> FlattenBody(ss, f, i)]
  <1> DEFINE body(f, i) == FlattenBody(ss, f, i)  IsFlat(f, n) == f = [i \in 1 .. n |-> body(f, i)]
             Reached == {n \in 0 .. k : \E f : IsFlat(f, n)}
  <1>1. 0 \in Reached
    <2> DEFINE f == [i \in 1 .. 0 |-> 0]
    <2>1. IsFlat(f, 0) OBVIOUS
    <2> HIDE DEF f, IsFlat
    <2>2. QED BY <2>1
  <1>2. ASSUME NEW n \in 0 .. k - 1, n \in Reached PROVE n + 1 \in Reached
    <2>1. n \in Nat /\ n + 1 \in 0 .. k /\ n + 1 # 0 OBVIOUS
    <2>2. PICK f : IsFlat(f, n) BY <1>2, Zenon
    <2> DEFINE g == [i \in 1 .. n + 1 |-> IF i = n + 1 THEN body(f, i) ELSE f[i]]
    <2>3. \A i \in 1 .. n : f[i] = body(f, i) BY <2>2, Zenon
    <2>4. \A i \in 1 .. n : g[i] = f[i] /\ i \in Nat BY <2>1
    <2>5. \A i \in 1 .. n + 1 : body(g, i) = body(f, i)
      <3>1. TAKE i \in 1 .. n + 1
      <3>2. CASE i = 1 BY <3>2 DEF FlattenBody
      <3>3. CASE i # 1
        <4>1. i - 1 \in 1 .. n BY <3>3, <2>1
        <4>2. g[i - 1] = f[i - 1] BY <4>1, <2>4
        <4> HIDE DEF g
        <4>3. body(g, i) = g[i - 1] \o ss[i] /\ body(f, i) = f[i - 1] \o ss[i] BY <3>3, FlattenStep
        <4>4. QED BY <4>2, <4>3, Zenon
      <3>4. QED BY <3>2, <3>3
    <2>6. g[n + 1] = body(f, n + 1)
      <3>1. n + 1 \in 1 .. n + 1 BY <2>1
      <3>2. QED BY <3>1
    <2>7. g = [i \in 1 .. n + 1 |-> g[i]] OBVIOUS
    <2> HIDE DEF g
    <2>8. \A i \in 1 .. n + 1 : g[i] = body(g, i)
      <3>1. \A i \in 1 .. n + 1 : i = n + 1 \/ i \in 1 .. n BY <2>1
      <3>2. QED BY <3>1, <2>3, <2>4, <2>5, <2>6
    <2>9. IsFlat(g, n + 1) BY <2>7, <2>8, Zenon
    <2>10. QED BY <2>1, <2>9
  <1> HIDE DEF Reached
  <1>3. k \in Nat OBVIOUS
  <1>4. k \in Reached BY <1>1, <1>2, <1>3, Climb
  <1>5. QED BY <1>4, Zenon DEF Reached

LEMMA FlatAgree ==
    ASSUME NEW a, NEW b, NEW k \in Nat, NEW m \in 0 .. k, Agree(a, b, m),
           NEW f, IsFlattening(a, f, k), NEW g, IsFlattening(b, g, m)
    PROVE  Agree(f, g, m)
  <1>1. /\ \A i \in 1 .. k : f[i] = FlattenBody(a, f, i)
        /\ \A i \in 1 .. m : g[i] = FlattenBody(b, g, i) /\ a[i] = b[i]
    BY DEF IsFlattening, Agree
  <1> DEFINE Same == {n \in 0 .. m : \A i \in 1 .. n : f[i] = g[i]}
  <1>2. 0 \in Same OBVIOUS
  <1>3. ASSUME NEW n \in 0 .. m - 1, n \in Same PROVE n + 1 \in Same
    <2>1. n + 1 \in 1 .. m /\ n + 1 \in 1 .. k /\ n + 1 \in 0 .. m /\ (n + 1) - 1 = n OBVIOUS
    <2>2. f[n + 1] = FlattenBody(a, f, n + 1) /\ g[n + 1] = FlattenBody(b, g, n + 1) /\ a[n + 1] = b[n + 1] BY <1>1, <2>1
    <2>3. CASE n = 0
      <3>1. FlattenBody(a, f, 1) = a[1] /\ FlattenBody(b, g, 1) = b[1] BY Zenon DEF FlattenBody
      <3>2. n + 1 = 1 BY <2>3
      <3>3. f[n + 1] = g[n + 1] BY <2>2, <3>1, <3>2
      <3>4. \A i \in 1 .. n + 1 : i = n + 1 BY <3>2
      <3>5. QED BY <2>1, <3>3, <3>4
    <2>4. CASE n # 0
      <3>1. n \in 1 .. n /\ n + 1 # 1 BY <2>4
      <3>2. f[n] = g[n] BY <1>3, <3>1
      <3>3. FlattenBody(a, f, n + 1) = f[(n + 1) - 1] \o a[n + 1] /\ FlattenBody(b, g, n + 1) = g[(n + 1) - 1] \o b[n + 1]
        BY <3>1, FlattenStep
      <3>4. f[n + 1] = g[n + 1] BY <2>1, <2>2, <3>2, <3>3, Zenon
      <3>5. \A i \in 1 .. n + 1 : i \in 1 .. n \/ i = n + 1 OBVIOUS
      <3>6. QED BY <2>1, <3>4, <3>5, <1>3
    <2>5. f[n + 1] = g[n + 1] => \A i \in 1 .. n + 1 : f[i] = g[i]
      <3>1. \A i \in 1 .. n + 1 : i \in 1 .. n \/ i = n + 1 OBVIOUS
      <3>2. QED BY <3>1, <1>3
    <2>6. QED BY <2>1, <2>3, <2>4, <2>5
  <1> HIDE DEF Same
  <1>4. m \in Nat OBVIOUS
  <1>5. m \in Same BY <1>2, <1>3, <1>4, Climb
  <1>6. QED BY <1>5 DEF Same, Agree

\* Concatenating the first k of a sequence of sequences: one more at a time.
LEMMA FlattenPrefix ==
    ASSUME NEW S, NEW ss \in Seq(Seq(S))
    PROVE  /\ FlattenSeq(SubSeq(ss, 1, 0)) = <<>> /\ FlattenSeq(SubSeq(ss, 1, Len(ss))) = FlattenSeq(ss)
           /\ \A k \in 1 .. Len(ss) : FlattenSeq(SubSeq(ss, 1, k)) = FlattenSeq(SubSeq(ss, 1, k - 1)) \o ss[k]
  <1> DEFINE N == Len(ss)  part(k) == SubSeq(ss, 1, k)  flat(k) == FlattenSeq(part(k))
             IsFlat(f, k) == f = [i \in 1 .. k |-> FlattenBody(part(k), f, i)]
             F(k) == CHOOSE f : IsFlat(f, k)
  <1>1. N \in Nat /\ DOMAIN ss = 1 .. N /\ \A i \in 1 .. N : ss[i] \in Seq(S) OBVIOUS
  <1>2. \A k \in 0 .. N : Len(part(k)) = k /\ \A i \in 1 .. k : part(k)[i] = ss[i] OBVIOUS
  <1>3. part(0) = <<>> /\ part(N) = ss OBVIOUS
  <1>4. flat(0) = <<>> BY <1>3, <1>2 DEF FlattenSeq
  <1>5. ASSUME NEW k \in 1 .. N PROVE flat(k) = F(k)[k] /\ IsFlat(F(k), k)
    <2>1. Len(part(k)) = k /\ k # 0 /\ k \in 0 .. N BY <1>1, <1>2
    <2> HIDE DEF part
    <2>2. flat(k) = F(k)[k] BY <2>1 DEF FlattenSeq, FlattenBody
    <2>3. \E f : IsFlat(f, k) BY <1>1, <2>1, FlatExists, Zenon
    <2>4. IsFlat(F(k), k) BY <2>3, Zenon
    <2>5. QED BY <2>2, <2>4
  <1> HIDE DEF N, part, F
  <1>6. ASSUME NEW k \in 1 .. N PROVE flat(k) = flat(k - 1) \o ss[k]
    <2>1. flat(k) = F(k)[k] /\ IsFlat(F(k), k) BY <1>5
    <2>2. k \in 1 .. k /\ k \in 0 .. N /\ k \in Nat BY <1>1
    <2>3. F(k)[k] = FlattenBody(part(k), F(k), k) /\ part(k)[k] = ss[k] BY <2>1, <2>2, <1>2, Zenon
    <2>4. CASE k = 1
      <3>1. flat(k) = ss[1] BY <2>1, <2>3, <2>4 DEF FlattenBody
      <3>2. flat(k - 1) = <<>> /\ ss[1] \in Seq(S) BY <1>1, <1>4, <2>4
      <3> HIDE DEF flat
      <3>3. QED BY <3>1, <3>2, <2>4
    <2>5. CASE k # 1
      <3>1. k - 1 \in 1 .. N /\ k - 1 \in 0 .. k /\ k - 1 \in 1 .. k - 1 /\ k - 1 \in 0 .. N BY <2>5, <1>1
      <3>2. flat(k - 1) = F(k - 1)[k - 1] /\ IsFlat(F(k - 1), k - 1) BY <3>1, <1>5
      <3>3. \A i \in 1 .. k - 1 : part(k)[i] = part(k - 1)[i]
        <4>1. \A i \in 1 .. k - 1 : i \in 1 .. k BY <2>2
        <4>2. QED BY <4>1, <1>2, <2>2, <3>1
      <3>4. F(k)[k - 1] = F(k - 1)[k - 1]
        <4> DEFINE f == F(k)  g == F(k - 1)  m == k - 1  a == part(k)  b == part(k - 1)
        <4>1. IsFlattening(a, f, k) BY <2>1, Zenon DEF IsFlattening
        <4>2. IsFlattening(b, g, m) BY <3>2, Zenon DEF IsFlattening
        <4>3. m \in 0 .. k /\ m \in 1 .. m /\ k \in Nat /\ Agree(a, b, m) BY <2>2, <3>1, <3>3 DEF Agree
        <4> HIDE DEF f, g, m, a, b
        <4>4. Agree(f, g, m) BY <4>1, <4>2, <4>3, FlatAgree
        <4>6. f[m] = g[m] BY <4>3, <4>4 DEF Agree
        <4>5. QED BY <4>6 DEF f, g, m
      <3>5. FlattenBody(part(k), F(k), k) = F(k)[k - 1] \o part(k)[k] BY <2>5, FlattenStep
      <3>6. QED BY <2>1, <2>3, <3>2, <3>4, <3>5, Zenon
    <2>6. QED BY <2>4, <2>5
  <1>7. QED BY <1>3, <1>4, <1>6 DEF N, part

\* What is put together holds the elements of all parts.
LEMMA Flattened ==
    ASSUME NEW S, NEW ss \in Seq(Seq(S))
    PROVE  /\ FlattenSeq(ss) \in Seq(S) /\ Range(FlattenSeq(ss)) = UNION {Range(ss[i]) : i \in DOMAIN ss}
           /\ \A k \in 0 .. Len(ss) : FlattenSeq(SubSeq(ss, 1, k)) \in Seq(S)
  <1> DEFINE N == Len(ss)  flat(k) == FlattenSeq(SubSeq(ss, 1, k))  Rows(k) == UNION {Range(ss[i]) : i \in 1 .. k}
             Good(k) == flat(k) \in Seq(S) /\ Range(flat(k)) = Rows(k)
  <1>1. N \in Nat /\ DOMAIN ss = 1 .. N /\ \A i \in 1 .. N : ss[i] \in Seq(S) OBVIOUS
  <1>2. flat(0) = <<>> /\ flat(N) = FlattenSeq(ss) /\ \A k \in 1 .. N : flat(k) = flat(k - 1) \o ss[k]
    BY FlattenPrefix
  <1> HIDE DEF N, flat
  <1>3. Good(0)
    <2>1. Range(<<>>) = {} /\ Rows(0) = {} /\ <<>> \in Seq(S) BY DEF Range
    <2> HIDE DEF Rows
    <2>2. QED BY <1>2, <2>1
  <1>4. ASSUME NEW k \in 0 .. N - 1, Good(k) PROVE Good(k + 1)
    <2>1. k + 1 \in 1 .. N /\ (k + 1) - 1 = k BY <1>1
    <2>2. flat(k + 1) = flat(k) \o ss[k + 1] BY <2>1, <1>2
    <2> DEFINE a == flat(k)  b == ss[k + 1]
    <2>6. a \in Seq(S) /\ b \in Seq(S) BY <1>1, <1>4, <2>1
    <2> HIDE DEF a, b
    <2>7. a \o b \in Seq(S) /\ Range(a \o b) = Range(a) \union Range(b) BY <2>6, Concat
    <2>3. flat(k + 1) \in Seq(S) /\ Range(flat(k + 1)) = Range(flat(k)) \union Range(ss[k + 1])
      BY <2>2, <2>7, Zenon DEF a, b
    <2>4. 1 .. k + 1 = (1 .. k) \union {k + 1} BY <1>1
    <2>5. Rows(k + 1) = Rows(k) \union Range(ss[k + 1]) BY <2>4
    <2> HIDE DEF Rows
    <2>8. QED BY <2>3, <2>5, <1>4
  <1> HIDE DEF Good
  <1>5. \A n \in 0 .. N : Good(n)
    <2>1. TAKE n \in 0 .. N
    <2> DEFINE Reached == {k \in 0 .. n : Good(k)}
    <2>2. n \in Nat /\ 0 \in 0 .. n /\ \A k \in 0 .. n - 1 : k \in 0 .. N - 1 /\ k + 1 \in 0 .. n BY <1>1
    <2>3. 0 \in Reached /\ \A k \in 0 .. n - 1 : k \in Reached => k + 1 \in Reached BY <1>3, <1>4, <2>2
    <2> HIDE DEF Reached
    <2>4. n \in Reached BY <2>2, <2>3, Climb
    <2>5. QED BY <2>4 DEF Reached
  <1>6. N \in 0 .. N BY <1>1
  <1>7. QED BY <1>1, <1>2, <1>5, <1>6 DEF Good, N, flat

\* Every rank up to the size of a finite set has an element of that rank.
LEMMA Ranked ==
    ASSUME NEW S, S \subseteq Nat, IsFiniteSet(S)
    PROVE  /\ Cardinality(S) \in Nat
           /\ \A n \in 1 .. Cardinality(S) : Ascending(S)[n] \in S /\ Position(S, Ascending(S)[n]) = n - 1
  <1> DEFINE N == Cardinality(S)  Below(x) == {y \in S : y < x}  Fine(k) == k < N => \E x \in S : Position(S, x) = k
  <1>1. N \in Nat /\ \A U \in SUBSET S : IsFiniteSet(U) BY FS_CardinalityType, FS_Subset
  <1>2. Fine(0)
    <2> SUFFICES ASSUME 0 < N PROVE \E x \in S : Position(S, x) = 0 OBVIOUS
    <2>1. S # {} BY FS_EmptySet
    <2>2. PICK x \in S : \A y \in S : x <= y BY <2>1, LeastOf
    <2>3. {y \in S : y < x} = {}
      <3>1. \A y \in S : ~(y < x)
        <4>1. TAKE y \in S
        <4>2. x \in Nat /\ y \in Nat /\ x <= y BY <2>2
        <4>3. QED BY <4>2
      <3>2. QED BY <3>1
    <2>4. QED BY <2>3, FS_EmptySet DEF Position
  <1>3. ASSUME NEW k \in 0 .. N - 1, Fine(k) PROVE Fine(k + 1)
    <2> SUFFICES ASSUME k + 1 < N PROVE \E x \in S : Position(S, x) = k + 1 OBVIOUS
    <2>1. k < N /\ k \in Nat BY <1>1
    <2>2. PICK x \in S : Position(S, x) = k BY <1>3, <2>1
    <2> DEFINE B == {y \in S : y < x}  A == {y \in S : x < y}  C == B \union {x}
    <2>3. Cardinality(B) = k BY <2>2 DEF Position
    <2>4. IsFiniteSet(B) /\ IsFiniteSet(C) /\ x \notin B /\ x \in Nat BY <1>1
    <2>5. Cardinality(C) = k + 1 BY <2>3, <2>4, FS_AddElement
    <2>6. A # {}
      <3>1. SUFFICES ASSUME A = {} PROVE FALSE OBVIOUS
      <3>2. \A y \in S : y \in C
        <4>1. TAKE y \in S
        <4>2. y \in Nat /\ x \in Nat /\ ~(x < y) BY <3>1, <2>4
        <4>3. y < x \/ y = x BY <4>2
        <4>4. QED BY <4>3
      <3>3. S = C BY <3>2
      <3>4. QED BY <3>3, <2>5, <1>1
    <2>7. A \subseteq Nat OBVIOUS
    <2>8. PICK z \in A : \A y \in A : z <= y BY <2>6, <2>7, LeastOf
    <2>9. \A y \in S : y < z <=> y \in C
      <3>1. TAKE y \in S
      <3>2. y \in Nat /\ x \in Nat /\ z \in Nat /\ x < z BY <2>4, <2>8
      <3>3. y \in A => z <= y BY <2>8
      <3>4. QED BY <3>2, <3>3
    <2>10. {y \in S : y < z} = C BY <2>9
    <2>11. Position(S, z) = k + 1 BY <2>5, <2>10 DEF Position
    <2>12. QED BY <2>8, <2>11
  <1> DEFINE Reached == {k \in 0 .. N : Fine(k)}
  <1> HIDE DEF Fine, N
  <1>5. 0 \in Reached /\ \A k \in 0 .. N - 1 : k \in Reached => k + 1 \in Reached
    <2>1. 0 \in 0 .. N /\ \A k \in 0 .. N - 1 : k + 1 \in 0 .. N BY <1>1
    <2>2. QED BY <1>2, <1>3, <2>1
  <1>6. \A k \in 0 .. N : Fine(k)
    <2>1. TAKE k \in 0 .. N
    <2> DEFINE Upto == {j \in 0 .. k : Fine(j)}
    <2>2. k \in Nat /\ 0 \in 0 .. k /\ \A j \in 0 .. k - 1 : j \in 0 .. N - 1 /\ j + 1 \in 0 .. k BY <1>1
    <2>3. 0 \in Upto /\ \A j \in 0 .. k - 1 : j \in Upto => j + 1 \in Upto BY <1>2, <1>3, <2>2
    <2> HIDE DEF Upto
    <2>4. k \in Upto BY <2>2, <2>3, Climb
    <2>5. QED BY <2>4 DEF Upto
  <1>7. ASSUME NEW n \in 1 .. N PROVE Ascending(S)[n] \in S /\ Position(S, Ascending(S)[n]) = n - 1
    <2>1. n - 1 \in 0 .. N /\ n - 1 < N BY <1>1
    <2>2. \E x \in S : Position(S, x) = n - 1 BY <1>6, <2>1 DEF Fine
    <2>3. Ascending(S)[n] = CHOOSE x \in S : Position(S, x) = n - 1 BY DEF Ascending, N
    <2>4. QED BY <2>2, <2>3
  <1>8. QED BY <1>1, <1>7 DEF N

LEMMA ChosenFrom ==
    ASSUME NEW s, NEW A, s \in Seq(A), NEW P, P \subseteq DOMAIN s
    PROVE  Chosen(s, P) \in Seq(A) /\ \A x \in Range(Chosen(s, P)) : \E i \in P : x = s[i]
  <1>1. DOMAIN s = 1 .. Len(s) /\ Len(s) \in Nat /\ \A i \in DOMAIN s : s[i] \in A OBVIOUS
  <1>2. P \subseteq Nat /\ IsFiniteSet(P)
    <2>1. IsFiniteSet(DOMAIN s) BY <1>1, FS_Interval
    <2>2. QED BY <1>1, <2>1, FS_Subset
  <1>3. Cardinality(P) \in Nat /\ \A n \in 1 .. Cardinality(P) : Ascending(P)[n] \in P BY <1>2, Ranked
  <1> DEFINE k == Cardinality(P)  c == [n \in 1 .. k |-> s[Ascending(P)[n]]]
  <1> HIDE DEF k
  <1>4. \A n \in 1 .. k : c[n] \in A /\ \E i \in P : c[n] = s[i] BY <1>1, <1>3 DEF k
  <1>5. c \in Seq(A)
    <2>1. c \in [1 .. k -> A] BY <1>4
    <2>2. QED BY <2>1, <1>3 DEF k
  <1>6. Chosen(s, P) = c BY DEF Chosen, k
  <1>7. DOMAIN c = 1 .. k OBVIOUS
  <1> HIDE DEF c
  <1>8. QED BY <1>4, <1>5, <1>6, <1>7 DEF Range

LEMMA Largest ==
    ASSUME NEW S, NEW m \in S, S \subseteq Int, \A k \in S : k <= m PROVE Max(S) = m
  <1>1. \A x \in S : (\A y \in S : x >= y) => x = m
    <2>1. TAKE x \in S
    <2>2. HAVE \A y \in S : x >= y
    <2>3. x \in Int /\ m \in Int /\ x <= m /\ x >= m BY <2>2
    <2>4. QED BY <2>3
  <1>2. \A y \in S : m >= y OBVIOUS
  <1>3. QED BY <1>1, <1>2 DEF Max

-----------------------------------------------------------------------------
(* The log and the training that survives *)

LogLine == [s : 0 .. Check - 1, action : Nat \union {NaN}, progress : Nat \union {NaN, NotLogged}]
HasLabels(a) == Args[a].head /\ Args[a].key

\* Every line of one arm is of that arm's kind; the survivor's n-th step is the last
\* line the log has of that step.
Survives(n) ==
    \E m \in DOMAIN log : log[m] = run[n] /\ \A k \in DOMAIN log : log[k].s = n - 1 => k <= m

Logged ==
    /\ log \in Seq(LogLine) /\ run \in Seq(LogLine) /\ Len(run) <= Check
    /\ log # <<>> => arm # "none"
    /\ \A n \in DOMAIN log : log[n].progress # NotLogged <=> HasLabels(arm)
    /\ \A n \in DOMAIN run : run[n].s = n - 1 /\ Survives(n)

\* What both arms were checked for still holds of the data they train on.
Checked ==
    /\ arm # "none" => arm \in DOMAIN Args /\ pc = "train"
    /\ pc = "train" => \A a \in DOMAIN Args : ConfigOk(Args[a])

LEMMA LineFacts ==
    ASSUME Logged, Len(run) < Check, NEW losses \in Lines
    PROVE  /\ Line(losses) \in LogLine /\ Line(losses).s = Len(run)
           /\ Line(losses).progress # NotLogged <=> HasLabels(arm)
  <1>1. /\ losses.action \in Nat \union {NaN} /\ losses.progress \in Nat \union {NaN}
        /\ losses.progress # NotLogged
    BY TrainingAssumption DEF NaN, NotLogged
  <1>2. Len(run) \in 0 .. Check - 1
    <2>1. Len(run) \in Nat /\ Check \in Nat BY GateAssumption DEF Logged
    <2>2. QED BY <2>1
  <1>3. QED BY <1>1, <1>2 DEF Line, LogLine, HasLabels

LEMMA Appended ==
    ASSUME NEW S, NEW s \in Seq(S), NEW x \in S
    PROVE  /\ Append(s, x) \in Seq(S) /\ Len(Append(s, x)) = Len(s) + 1
           /\ DOMAIN Append(s, x) = 1 .. Len(s) + 1 /\ DOMAIN s = 1 .. Len(s) /\ Len(s) \in Nat
           /\ \A n \in DOMAIN s : Append(s, x)[n] = s[n]
           /\ Append(s, x)[Len(s) + 1] = x
  OBVIOUS

LEMMA PrefixFacts ==
    ASSUME NEW S, NEW s \in Seq(S), NEW n \in 0 .. Len(s)
    PROVE  /\ SubSeq(s, 1, n) \in Seq(S) /\ Len(SubSeq(s, 1, n)) = n
           /\ DOMAIN SubSeq(s, 1, n) \subseteq DOMAIN s
           /\ \A m \in DOMAIN SubSeq(s, 1, n) : SubSeq(s, 1, n)[m] = s[m]
  OBVIOUS

LEMMA Multiples ==
    ASSUME NEW n \in Nat, NEW k \in Nat \ {0}
    PROVE  (n \div k) * k \in 0 .. n
  <1>1. n \div k \in Nat /\ n = k * (n \div k) + (n % k) /\ n % k \in 0 .. k - 1 OBVIOUS
  <1>2. k * (n \div k) = (n \div k) * k /\ k * (n \div k) \in Nat BY <1>1
  <1>3. QED BY <1>1, <1>2

LEMMA LineOf ==
    ASSUME NEW s \in Seq(LogLine), NEW n \in DOMAIN s
    PROVE  s[n] \in LogLine /\ s[n].s \in 0 .. Check - 1
  <1>1. s[n] \in LogLine OBVIOUS
  <1>2. QED BY <1>1 DEF LogLine

LEMMA LoggedInit == Init => Logged
  BY GateAssumption DEF Init, Untrained, Logged

LEMMA LoggedStep == Logged /\ Checked /\ [Next]_vars => Logged'
  <1> SUFFICES ASSUME Logged, Checked, [Next]_vars PROVE Logged' OBVIOUS
  <1>c. Check \in Nat BY GateAssumption
  <1>f. ASSUME UNCHANGED <<log, run>>, log # <<>> => UNCHANGED arm PROVE Logged'
    <2>1. CASE log = <<>>
      <3>1. log' = <<>> /\ DOMAIN run = {}
        <4>1. \A n \in DOMAIN run : FALSE BY <2>1 DEF Logged, Survives
        <4>2. QED BY <1>f, <2>1, <4>1
      <3>2. QED BY <1>f, <2>1, <3>1 DEF Logged
    <2>2. CASE log # <<>> BY <1>f, <2>2 DEF Logged, Survives
    <2>3. QED BY <2>1, <2>2
  <1>1. CASE Data BY <1>1, <1>f DEF Data, training
  <1>2. CASE BeginTraining
    <2>1. log = <<>> BY <1>2 DEF BeginTraining, Logged
    <2>2. QED BY <1>2, <1>f, <2>1 DEF BeginTraining
  <1>3. CASE LogStep
    <2>1. PICK losses \in Lines : log' = Append(log, Line(losses)) /\ run' = Append(run, Line(losses))
      BY <1>3 DEF LogStep
    <2>2. Len(run) < Check /\ arm # "none" /\ UNCHANGED arm BY <1>3 DEF LogStep
    <2> DEFINE l == Line(losses)  N == Len(log) + 1  R == Len(run) + 1
    <2>3. l \in LogLine /\ l.s = Len(run) /\ (l.progress # NotLogged <=> HasLabels(arm)) BY <2>2, LineFacts
    <2> HIDE DEF l
    <2>t. log \in Seq(LogLine) /\ run \in Seq(LogLine) BY DEF Logged
    <2>4. /\ log' \in Seq(LogLine) /\ Len(log') = N /\ DOMAIN log' = 1 .. N /\ DOMAIN log = 1 .. Len(log)
          /\ Len(log) \in Nat /\ log'[N] = l /\ \A n \in DOMAIN log : log'[n] = log[n]
      BY <2>t, <2>1, <2>3, Appended DEF l
    <2>5. /\ run' \in Seq(LogLine) /\ Len(run') = R /\ DOMAIN run' = 1 .. R /\ DOMAIN run = 1 .. Len(run)
          /\ Len(run) \in Nat /\ run'[R] = l /\ \A n \in DOMAIN run : run'[n] = run[n]
      BY <2>t, <2>1, <2>3, Appended DEF l
    <2>6. (\A n \in DOMAIN log' : n \in DOMAIN log \/ n = N) /\ \A n \in DOMAIN run' : n \in DOMAIN run \/ n = R
      BY <2>4, <2>5
    <2>7. \A n \in DOMAIN log' : log'[n].progress # NotLogged <=> HasLabels(arm') BY <2>2, <2>3, <2>4, <2>6 DEF Logged
    <2>8. ASSUME NEW n \in DOMAIN run' PROVE run'[n].s = n - 1 /\ Survives(n)'
      <3>1. CASE n = R
        <4>1. log'[N] = run'[n] /\ \A k \in DOMAIN log' : k <= N BY <2>4, <2>5, <3>1
        <4>2. N \in DOMAIN log' BY <2>4
        <4>3. run'[n].s = n - 1 BY <2>3, <2>5, <3>1
        <4>4. QED BY <4>1, <4>2, <4>3 DEF Survives
      <3>2. CASE n \in DOMAIN run
        <4>1. PICK m \in DOMAIN log : log[m] = run[n] /\ \A k \in DOMAIN log : log[k].s = n - 1 => k <= m
          BY <3>2 DEF Logged, Survives
        <4>2. log'[m] = run'[n] /\ m \in DOMAIN log' BY <2>4, <2>5, <3>2, <4>1
        <4>3. n - 1 # Len(run) BY <2>5, <3>2
        <4>4. \A k \in DOMAIN log' : log'[k].s = n - 1 => k <= m BY <2>3, <2>4, <2>6, <4>1, <4>3
        <4>5. run'[n].s = n - 1 BY <2>5, <3>2 DEF Logged
        <4>6. QED BY <4>2, <4>4, <4>5 DEF Survives
      <3>3. QED BY <2>6, <3>1, <3>2
    <2>9. Len(run') <= Check BY <2>2, <2>5, <1>c
    <2>10. QED BY <2>2, <2>4, <2>5, <2>7, <2>8, <2>9 DEF Logged
  <1>4. CASE Resume
    <2> DEFINE kept == (Len(run) \div SaveEvery) * SaveEvery
    <2>t. run \in Seq(LogLine) BY DEF Logged
    <2>1. run' = SubSeq(run, 1, kept) /\ UNCHANGED <<arm, log>> BY <1>4 DEF Resume
    <2>2. Len(run) \in Nat /\ SaveEvery \in Nat \ {0} BY <2>t, TrainingAssumption
    <2>3. kept \in 0 .. Len(run) BY <2>2, Multiples
    <2> HIDE DEF kept
    <2>4. /\ run' \in Seq(LogLine) /\ Len(run') = kept /\ DOMAIN run' \subseteq DOMAIN run
          /\ \A m \in DOMAIN run' : run'[m] = run[m]
      BY <2>t, <2>1, <2>3, PrefixFacts
    <2>5. Len(run') <= Check BY <2>2, <2>3, <2>4, <1>c DEF Logged
    <2>6. ASSUME NEW n \in DOMAIN run' PROVE run'[n].s = n - 1 /\ Survives(n)'
      BY <2>1, <2>4 DEF Logged, Survives
    <2>7. QED BY <2>1, <2>4, <2>5, <2>6 DEF Logged
  <1>5. CASE UNCHANGED vars BY <1>5, <1>f DEF vars, training
  <1>6. QED BY <1>1, <1>2, <1>3, <1>4, <1>5 DEF Next

LEMMA CheckedInit == Init => Checked
  BY DEF Init, RootsInit, Untrained, Checked

LEMMA CheckedStep == Checked /\ [Next]_vars => Checked'
  <1> SUFFICES ASSUME Checked, [Next]_vars PROVE Checked' OBVIOUS
  <1>1. CASE Data
    <2>1. arm' = "none" BY <1>1 DEF Data, training
    <2>2. pc' = "train" => CheckArms
      BY <1>1 DEF Data, Build, AlreadyMerged, SliceBegins, SliceFile, SliceMeta, SliceInfo, MergeBegins, MergeFile,
         MergeMeta, Register, CompactFile, CompactMeta, CompactInfo, WriteFilter, DropStreams, CheckStreams,
         Fingerprint, Start, Dies, NewPod, Fails, Goto, NextFile, EachTask, Leaves
    <2>3. CheckArms /\ pc' = "train" => \A a \in DOMAIN Args : ConfigOk(Args[a])'
      <3>1. SUFFICES ASSUME CheckArms, pc' = "train", NEW a \in DOMAIN Args PROVE ConfigOk(Args[a])' OBVIOUS
      <3>2. ConfigOk(Args[a]) BY <3>1 DEF CheckArms, Fails
      <3>3. UNCHANGED root BY <3>1 DEF CheckArms, disk
      <3>4. QED BY <3>2, <3>3 DEF ConfigOk, ValidRoots
    <2>4. QED BY <2>1, <2>2, <2>3 DEF Checked
  <1>2. CASE ~Data
    <2>1. UNCHANGED roots BY <1>2 DEF Next, BeginTraining, LogStep, Resume, vars
    <2>2. arm' # "none" => arm' \in DOMAIN Args /\ pc = "train"
      BY <1>2 DEF Next, BeginTraining, LogStep, Resume, vars, training, Checked
    <2>3. \A a \in DOMAIN Args : ConfigOk(Args[a])' <=> ConfigOk(Args[a]) 
      BY <2>1 DEF roots, ConfigOk, ValidRoots
    <2>4. QED BY <2>1, <2>2, <2>3 DEF Checked, roots
  <1>3. QED BY <1>1, <1>2

-----------------------------------------------------------------------------
(* The health gate *)

LEMMA Smallest ==
    ASSUME NEW S, 7 \in S, S \subseteq 1 .. 8 PROVE Min(S) \in 1 .. 7
  <1>1. S \subseteq Nat /\ S # {} OBVIOUS
  <1>2. Min(S) \in S /\ \A y \in S : Min(S) <= y BY <1>1, LeastOf
  <1>3. \A x \in S : (\A y \in S : x <= y) => x \in 1 .. 7 OBVIOUS
  <1>4. QED BY <1>2, <1>3

\* Once the surviving run is complete the log says of every step what it says.
LEMMA SameSteps ==
    ASSUME Logged, Len(run) >= Check, NEW key \in {"action", "progress"}
    PROVE  ByStep(log, key) = ByStep(run, key)
  <1>1. /\ log \in Seq(LogLine) /\ run \in Seq(LogLine) /\ Len(run) = Check /\ Check \in Nat
        /\ DOMAIN run = 1 .. Check
    BY GateAssumption DEF Logged
  <1> DEFINE cl == {n \in DOMAIN log : log[n][key] # NotLogged}  cr == {n \in DOMAIN run : run[n][key] # NotLogged}
             Of(n) == {k \in cl : log[k].s = n - 1}
  <1>2. \A n \in DOMAIN log : log[n] \in LogLine /\ log[n].s \in 0 .. Check - 1 BY <1>1, LineOf
  <1>3. \A n \in DOMAIN run : run[n].s = n - 1 /\ Survives(n) BY DEF Logged
  <1>4. ASSUME NEW n \in DOMAIN run
        PROVE  \E m \in DOMAIN log : log[m] = run[n] /\ \A k \in DOMAIN log : log[k].s = n - 1 => k <= m
    BY <1>3 DEF Survives
  \* A log is all of one kind: every line carries the key or none does.
  <1>5. cl = DOMAIN log \/ cl = {}
    <2>1. CASE key = "action"
      <3>1. \A n \in DOMAIN log : log[n].action # NotLogged BY <1>2 DEF LogLine, NaN, NotLogged
      <3>2. QED BY <2>1, <3>1
    <2>2. CASE key = "progress" BY <2>2 DEF Logged
    <2>3. QED BY <2>1, <2>2
  <1>6. \A n \in cr : \E m \in cl : log[m] = run[n] BY <1>4
  <1>7. CASE cl = {}
    <2>1. cr = {} BY <1>6, <1>7
    <2>2. QED BY <1>7, <2>1 DEF ByStep
  <1>8. CASE cl = DOMAIN log
    <2>1. cr = DOMAIN run
      <3>1. \A n \in DOMAIN run : n \in cr BY <1>4, <1>8
      <3>2. QED BY <3>1
    <2>2. {log[n].s : n \in cl} = 0 .. Check - 1
      <3>1. \A s \in 0 .. Check - 1 : \E n \in cl : log[n].s = s
        <4>1. TAKE s \in 0 .. Check - 1
        <4>2. s + 1 \in DOMAIN run /\ s + 1 - 1 = s BY <1>1
        <4>3. QED BY <4>2, <1>3, <1>4, <1>8
      <3>2. \A n \in cl : log[n].s \in 0 .. Check - 1 BY <1>2
      <3>3. QED BY <3>1, <3>2
    <2>3. {run[n].s : n \in cr} = 0 .. Check - 1
      <3>1. \A s \in 0 .. Check - 1 : s + 1 \in cr /\ run[s + 1].s = s
        <4>1. TAKE s \in 0 .. Check - 1
        <4>2. s + 1 \in DOMAIN run /\ s + 1 - 1 = s BY <1>1
        <4>3. QED BY <4>2, <1>3, <2>1
      <3>2. \A n \in cr : run[n].s \in 0 .. Check - 1 BY <1>1, <1>3
      <3>3. QED BY <3>1, <3>2
    <2>4. ASSUME NEW s \in 0 .. Check - 1
          PROVE  log[Max({n \in cl : log[n].s = s})][key] = run[Max({n \in cr : run[n].s = s})][key]
      <3>1. s + 1 \in DOMAIN run /\ s + 1 - 1 = s BY <1>1
      <3>2. PICK m \in DOMAIN log : log[m] = run[s + 1] /\ \A k \in DOMAIN log : log[k].s = s => k <= m
        BY <3>1, <1>4
      <3>3. /\ m \in {n \in cl : log[n].s = s} /\ {n \in cl : log[n].s = s} \subseteq Int
            /\ \A k \in {n \in cl : log[n].s = s} : k <= m
        <4>1. log[m].s = s
          <5>1. run[s + 1].s = s + 1 - 1 BY <1>3, <3>1
          <5>2. QED BY <3>1, <3>2, <5>1
        <4>2. DOMAIN log \subseteq Int
          <5>1. DOMAIN log = 1 .. Len(log) BY <1>1
          <5>2. QED BY <5>1
        <4> HIDE DEF cl
        <4>3. QED BY <1>8, <3>2, <4>1, <4>2
      <3>4. Max({n \in cl : log[n].s = s}) = m BY <3>3, Largest
      <3>5. {n \in cr : run[n].s = s} = {s + 1}
        <4>1. \A n \in DOMAIN run : run[n].s = s <=> n = s + 1 BY <1>1, <1>3
        <4>2. QED BY <2>1, <3>1, <4>1
      <3>6. Max({s + 1}) = s + 1
        <4> DEFINE one == {s + 1}
        <4>1. s + 1 \in one /\ one \subseteq Int /\ \A k \in one : k <= s + 1 OBVIOUS
        <4> HIDE DEF one
        <4>2. Max(one) = s + 1 BY <4>1, Largest
        <4>3. QED BY <4>2 DEF one
      <3>7. QED BY <3>2, <3>4, <3>5, <3>6
    <2> HIDE DEF cl, cr
    <2>5. ByStep(log, key) = [s \in 0 .. Check - 1 |-> log[Max({n \in cl : log[n].s = s})][key]]
      BY <2>2 DEF ByStep, cl
    <2>6. ByStep(run, key) = [s \in 0 .. Check - 1 |-> run[Max({n \in cr : run[n].s = s})][key]]
      BY <2>3 DEF ByStep, cr
    <2>7. QED BY <2>4, <2>5, <2>6
  <1>9. QED BY <1>5, <1>7, <1>8

LEMMA SameLast ==
    ASSUME Logged, Len(run) >= Check PROVE LastStep(log) = LastStep(run)
  <1>1. /\ log \in Seq(LogLine) /\ run \in Seq(LogLine) /\ Len(run) = Check /\ Check \in Nat
        /\ DOMAIN run = 1 .. Check
    BY GateAssumption DEF Logged
  <1>2. \A n \in DOMAIN log : log[n].s \in 0 .. Check - 1 BY <1>1, LineOf
  <1>3. \A n \in DOMAIN run : run[n].s = n - 1 BY DEF Logged
  <1>7. \A n \in DOMAIN run : \E m \in DOMAIN log : log[m] = run[n] BY DEF Logged, Survives
  <1>4. {log[n].s : n \in DOMAIN log} = {run[n].s : n \in DOMAIN run}
    <2>0. \A i \in 0 .. Check - 1 : \E m \in DOMAIN run : run[m].s = i
      <3>1. TAKE i \in 0 .. Check - 1
      <3>2. i + 1 \in DOMAIN run /\ i + 1 - 1 = i BY <1>1
      <3>3. QED BY <1>3, <3>2
    <2>1. \A n \in DOMAIN log : \E m \in DOMAIN run : run[m].s = log[n].s BY <1>2, <2>0
    <2>2. \A m \in DOMAIN run : \E n \in DOMAIN log : run[m].s = log[n].s BY <1>7
    <2>3. QED BY <2>1, <2>2
  <1>5. log = <<>> <=> run = <<>>
    <2>1. log = <<>> <=> DOMAIN log = {} BY <1>1
    <2>2. run = <<>> <=> DOMAIN run = {} BY <1>1
    <2>3. QED BY <1>4, <2>1, <2>2
  <1>6. QED BY <1>4, <1>5 DEF LastStep

\* A gate that passes arm B has seen progress losses: without them the seventh
\* rule applies, if no earlier one does.
LEMMA PassSeesProgress ==
    ASSUME NEW a, NEW p, NEW last, NEW broken, NEW warm, Verdict(a, p, last, broken, "B", warm) = "PASS"
    PROVE  DOMAIN p # {}
  <1> SUFFICES ASSUME DOMAIN p = {} PROVE FALSE OBVIOUS
  <1>1. Branch0(Windowed(p)) = "BROKEN"
    <2>1. DOMAIN Windowed(p) = {} BY DEF Windowed, Restrict
    <2>2. QED BY <2>1 DEF Branch0
  <1> DEFINE Steps(lo, hi) == {s \in DOMAIN a : s \in lo .. hi - 1}
             opening == Steps(0, WarmOpening)
             early == Steps(EarlyFrom, EarlyTo)
             late == Steps(Check - Window, Check)
             High(steps) == Total(a, steps) >= WarmMax * Cardinality(steps)
             r2 == warm /\ last < WarmOpening - 1
             r3 == warm /\ High(opening)
             r4 == last < Check - 1
             r5 == Cardinality(early) < MinPoints \/ Cardinality(late) < MinPoints
             r6 == IF warm THEN High(late) ELSE ~Above(a, early, late)
             r7 == Branch0(Windowed(p)) # "LEARNING"
             rules == << <<"FAIL", broken>>, <<"WAIT", r2>>, <<"FAIL", r3>>, <<"WAIT", r4>>,
                         <<"FAIL", r5>>, <<"FAIL", r6>>, <<"FAIL", r7>>, <<"PASS", TRUE>> >>
             applies == {n \in DOMAIN rules : rules[n][2]}
  <1>2. rules[Min(applies)][1] = "PASS" BY DEF Verdict
  <1>3. r7 BY <1>1
  <1> HIDE DEF r2, r3, r4, r5, r6, r7
  <1>4. DOMAIN rules = 1 .. 8 /\ rules[7][2] = r7 OBVIOUS
  <1>5. rules[1][1] # "PASS" /\ rules[2][1] # "PASS" /\ rules[3][1] # "PASS" /\ rules[4][1] # "PASS"
        /\ rules[5][1] # "PASS" /\ rules[6][1] # "PASS" /\ rules[7][1] # "PASS"
    OBVIOUS
  <1> HIDE DEF rules
  <1>9. 7 \in DOMAIN rules /\ rules[7][2]
    <2>1. 7 \in DOMAIN rules BY <1>4
    <2>2. QED BY <1>3, <1>4, <2>1, Zenon
  <1>6. 7 \in applies /\ applies \subseteq 1 .. 8
    <2>1. 7 \in applies BY <1>9, Zenon
    <2>2. applies \subseteq DOMAIN rules BY Zenon
    <2>3. QED BY <1>4, <2>1, <2>2
  <1> HIDE DEF applies
  <1>7. Min(applies) \in 1 .. 7 BY <1>6, Smallest
  <1>8. QED BY <1>2, <1>5, <1>7

-----------------------------------------------------------------------------
(* The verdict *)

\* The verdict on a log is the verdict on the training that survived.  The proof
\* rests on Logged, that the last line of a step is the survivor's, and for arm B
\* on Checked, that both arms' checks of the data still hold while an arm trains.
THEOREM VerdictSurvives == Spec => []VerdictOfTheSurvivingRun
  <1>1. Init => Logged /\ Checked BY LoggedInit, CheckedInit
  <1>2. Logged /\ Checked /\ [Next]_vars => (Logged /\ Checked)' BY LoggedStep, CheckedStep
  <1>3. Logged /\ Checked => VerdictOfTheSurvivingRun
    <2> SUFFICES ASSUME Logged, Checked, NEW warm \in BOOLEAN
                 PROVE  /\ Len(run) >= Check /\ ~NotFinite(log) => Decide(log, arm, warm) = Decide(run, arm, warm)
                        /\ arm = "B" /\ Decide(log, arm, warm) = "PASS" => \A t \in Range(Tasks) : root[t].info.progress
      BY DEF VerdictOfTheSurvivingRun
    <2>1. ASSUME Len(run) >= Check, ~NotFinite(log) PROVE Decide(log, arm, warm) = Decide(run, arm, warm)
      <3>1. ByStep(log, "action") = ByStep(run, "action") /\ ByStep(log, "progress") = ByStep(run, "progress")
        BY <2>1, SameSteps
      <3>2. LastStep(log) = LastStep(run) BY <2>1, SameLast
      <3>3. \A n \in DOMAIN run : \E m \in DOMAIN log : log[m] = run[n] BY DEF Logged, Survives
      <3>4. NotFinite(log) = NotFinite(run) BY <2>1, <3>3 DEF NotFinite
      <3>5. QED BY <3>1, <3>2, <3>4 DEF Decide
    <2>2. ASSUME arm = "B", Decide(log, arm, warm) = "PASS" PROVE \A t \in Range(Tasks) : root[t].info.progress
      <3>1. DOMAIN ByStep(log, "progress") # {} BY <2>2, PassSeesProgress DEF Decide
      <3>2. \E n \in DOMAIN log : log[n]["progress"] # NotLogged BY <3>1 DEF ByStep
      <3>3. log # <<>> BY <3>2
      <3>4. Args["B"].key BY <2>2, <3>2 DEF Logged, HasLabels
      <3>5. "B" \in DOMAIN Args /\ pc = "train" BY <2>2 DEF Checked
      <3>6. QED BY <3>4, <3>5 DEF Checked, ConfigOk, ValidRoots
    <2>3. QED BY <2>1, <2>2
  <1>4. QED BY <1>1, <1>2, <1>3, PTL DEF Spec

-----------------------------------------------------------------------------
(* The labels a sound prior gives *)

SumsBody(rewards, floor, sum, t) ==
    LET before == IF t = 1 THEN 0 ELSE sum[t - 1]
    IN IF rewards[t] < 0 /\ before + rewards[t] < floor THEN before ELSE before + rewards[t]

\* The repaired rewards add up to what was gained since the reset: a change of the
\* truth is never below the floor, a rollback's debit always.
LEMMA SumsOfTruth ==
    ASSUME NEW demo, Collected(demo), NEW prior \in Nat,
           prior = demo.start \/ (prior > demo.start /\ ~demo.rollback)
    PROVE  Sums(demo.rewards, -prior) = [t \in DOMAIN demo.rewards |-> demo.truth[t] - demo.start]
  <1> DEFINE r == demo.rewards  N == Len(r)  w == demo.truth  gain == [t \in DOMAIN r |-> w[t] - demo.start]
             body(f, t) == SumsBody(r, -prior, f, t)
             IsSums(f) == f = [t \in DOMAIN r |-> body(f, t)]
  <1>1. r \in Seq(Int) /\ N \in Nat /\ DOMAIN r = 1 .. N /\ demo.start \in Nat /\ demo.start <= Scale /\ Scale \in Nat
    BY LabelsAssumption DEF Collected
  <1>2. \A t \in DOMAIN r : w[t] \in Nat /\ r[t] \in Int BY <1>1 DEF Collected
  <1>3. ASSUME NEW f, NEW t \in DOMAIN r, t # 1 => f[t - 1] = w[t - 1] - demo.start
        PROVE  body(f, t) = w[t] - demo.start
    <2> DEFINE before == IF t = 1 THEN demo.start ELSE w[t - 1]
    <2>1. before \in Nat
      <3>1. CASE t = 1 BY <3>1, <1>1
      <3>2. CASE t # 1
        <4>1. t - 1 \in DOMAIN r BY <3>2, <1>1
        <4>2. QED BY <4>1, <3>2, <1>2
      <3>3. QED BY <3>1, <3>2
    <2>2. (IF t = 1 THEN 0 ELSE f[t - 1]) = before - demo.start BY <1>3, <1>1
    <2>3. r[t] = w[t] - before \/ (demo.rollback /\ w[t] = before /\ before + r[t] < 0) BY DEF Collected
    <2>4. w[t] \in Nat /\ r[t] \in Int /\ demo.start \in Nat BY <1>1, <1>2
    <2> DEFINE b == IF t = 1 THEN 0 ELSE f[t - 1]
    <2>5. body(f, t) = IF r[t] < 0 /\ b + r[t] < -prior THEN b ELSE b + r[t] BY DEF SumsBody
    <2>6. b = before - demo.start BY <2>2
    <2> HIDE DEF b, before, body, r, w
    <2>7. CASE r[t] = w[t] - before
      <3>1. b + r[t] = w[t] - demo.start BY <2>1, <2>4, <2>6, <2>7
      <3>2. ~(b + r[t] < -prior) BY <3>1, <2>4
      <3>3. QED BY <3>1, <3>2, <2>5
    <2>8. CASE demo.rollback /\ w[t] = before /\ before + r[t] < 0
      <3>1. prior = demo.start BY <2>8
      <3>2. r[t] < 0 /\ b + r[t] < -prior BY <2>1, <2>4, <2>6, <2>8, <3>1
      <3>3. QED BY <3>2, <2>5, <2>6, <2>8
    <2>9. QED BY <2>3, <2>7, <2>8
  <1> HIDE DEF N, body
  <1>4. IsSums(gain)
    <2>1. \A t \in DOMAIN r : gain[t] = body(gain, t)
      <3>1. TAKE t \in DOMAIN r
      <3>2. t # 1 => t - 1 \in DOMAIN r BY <1>1
      <3>3. t # 1 => gain[t - 1] = w[t - 1] - demo.start BY <3>2
      <3> HIDE DEF gain
      <3>4. body(gain, t) = w[t] - demo.start BY <3>3, <1>3
      <3>5. QED BY <3>4 DEF gain
    <2>2. gain = [t \in DOMAIN r |-> gain[t]] OBVIOUS
    <2> HIDE DEF gain
    <2>3. QED BY <2>1, <2>2, Zenon
  <1>5. ASSUME NEW f, IsSums(f) PROVE f = gain
    <2>0. f = [t \in DOMAIN r |-> f[t]] BY <1>5
    <2>1. \A t \in DOMAIN r : f[t] = body(f, t) BY <1>5, Zenon
    <2> DEFINE Fine == {k \in 0 .. N : \A t \in 1 .. k : f[t] = w[t] - demo.start}
    <2>2. 0 \in Fine BY <1>1
    <2>3. ASSUME NEW k \in 0 .. N - 1, k \in Fine PROVE k + 1 \in Fine
      <3>1. k + 1 \in DOMAIN r /\ k + 1 \in 0 .. N /\ k + 1 - 1 = k BY <1>1
      <3>2. k + 1 # 1 => f[k + 1 - 1] = w[k + 1 - 1] - demo.start
        <4>1. k + 1 # 1 => k \in 1 .. k BY <1>1
        <4>2. QED BY <4>1, <3>1, <2>3
      <3>3. f[k + 1] = w[k + 1] - demo.start BY <3>1, <3>2, <1>3, <2>1
      <3>4. \A t \in 1 .. k + 1 : t \in 1 .. k \/ t = k + 1 BY <1>1
      <3>5. QED BY <3>1, <3>3, <3>4, <2>3
    <2> HIDE DEF Fine
    <2>4. N \in Fine BY <1>1, <2>2, <2>3, Climb
    <2>5. \A t \in DOMAIN r : f[t] = w[t] - demo.start BY <2>4, <1>1 DEF Fine
    <2>6. QED BY <2>0, <2>5
  <1>6. Sums(r, -prior) = CHOOSE f : IsSums(f) BY DEF Sums, SumsBody, body
  <1> HIDE DEF IsSums, gain
  <1>7. QED BY <1>4, <1>5, <1>6 DEF gain

\* The prior is capped to what was true at reset, by a trace that reaches the goal
\* if it was higher.
LEMMA CappedTruth ==
    ASSUME NEW demo, Collected(demo), NEW prior \in Nat,
           prior = demo.start \/ (prior > demo.start /\ ~demo.rollback /\ Highest(demo.truth) = Scale)
    PROVE  Capped(demo.rewards, prior) = demo.start
  <1> DEFINE D == DOMAIN demo.rewards  w == demo.truth  gain == [t \in D |-> w[t] - demo.start]
             s == demo.start
  <1>1. D # {} /\ s \in Nat /\ s <= Scale /\ Scale \in Nat
    <2>1. \A x \in Seq(Int) : x # <<>> => 1 \in DOMAIN x OBVIOUS
    <2>2. 1 \in D BY <2>1 DEF Collected
    <2>3. QED BY <2>2, LabelsAssumption DEF Collected
  <1>2. w = [t \in D |-> w[t]] /\ \A t \in D : w[t] \in 0 .. Scale BY DEF Collected
  <1>3. Sums(demo.rewards, -prior) = gain BY SumsOfTruth
  <1> HIDE DEF D, w, s
  <1>4. PICK m \in D : \A t \in D : w[t] <= w[m]
    <2> DEFINE Left == {Scale - w[t] : t \in D}
    <2>1. Left \subseteq Nat /\ Left # {} BY <1>1, <1>2
    <2>2. PICK x \in Left : \A y \in Left : x <= y BY <2>1, LeastOf
    <2>3. PICK m \in D : x = Scale - w[m] BY <2>2
    <2>4. \A t \in D : Scale - w[m] <= Scale - w[t] BY <2>2, <2>3
    <2>5. \A t \in D : w[t] <= w[m]
      <3>1. TAKE t \in D
      <3>2. Scale - w[m] <= Scale - w[t] /\ w[m] \in Int /\ w[t] \in Int /\ Scale \in Int BY <2>4, <1>1, <1>2
      <3>3. QED BY <3>2
    <2>6. QED BY <2>5
  <1>5. Highest(w) = w[m]
    <2>1. w[m] \in Range(w) /\ Range(w) \subseteq Int /\ \A k \in Range(w) : k <= w[m]
      BY <1>2, <1>4 DEF Range
    <2>2. QED BY <2>1, Largest DEF Highest
  <1>6. Highest(gain) = w[m] - demo.start
    <2>1. DOMAIN gain = D /\ \A t \in D : gain[t] = w[t] - s BY DEF s
    <2>2. Range(gain) = {w[t] - s : t \in D} BY <2>1 DEF Range
    <2> HIDE DEF gain
    <2> DEFINE R == {w[t] - s : t \in D}
    <2>3. w[m] - s \in R /\ R \subseteq Int /\ \A k \in R : k <= w[m] - s
      <3>1. \A t \in D : w[t] - s \in Int /\ w[t] - s <= w[m] - s
        <4>1. TAKE t \in D
        <4>2. w[t] \in Int /\ w[m] \in Int /\ s \in Int /\ w[t] <= w[m] BY <1>1, <1>2, <1>4
        <4>3. QED BY <4>2
      <3>2. QED BY <3>1
    <2> HIDE DEF R
    <2>4. Max(R) = w[m] - s BY <2>3, Largest
    <2>5. QED BY <2>2, <2>4 DEF Highest, R, s
  <1> DEFINE rest == Scale - Highest(gain)
  <1> HIDE DEF gain
  <1>7. rest = Scale - (w[m] - s) /\ w[m] \in Nat /\ w[m] <= Scale BY <1>6, <1>2 DEF s
  <1>8. rest \in Int /\ s <= rest BY <1>7, <1>1
  <1>9. s = prior \/ (s < prior /\ rest = s)
    <2>1. CASE prior = s BY <2>1
    <2>2. CASE prior > s /\ Highest(w) = Scale BY <2>2, <1>1, <1>5, <1>7
    <2>3. QED BY <2>1, <2>2 DEF s, w
  <1>10. Min({prior, rest}) = s
    <2> HIDE DEF rest
    <2> DEFINE two == {prior, rest}
    <2>1. two \subseteq Nat /\ two # {} BY <1>1, <1>8
    <2>2. Min(two) \in two /\ \A y \in two : Min(two) <= y BY <2>1, LeastOf
    <2>3. \A x \in two : (\A y \in two : x <= y) => x = s BY <1>1, <1>8, <1>9
    <2> HIDE DEF two
    <2>4. Min(two) = s BY <2>2, <2>3
    <2>5. QED BY <2>4 DEF two
  <1>11. Max({0, s}) = s
    <2> DEFINE two == {0, s}
    <2>1. s \in two /\ two \subseteq Int /\ \A k \in two : k <= s BY <1>1
    <2> HIDE DEF two
    <2>2. Max(two) = s BY <2>1, Largest
    <2>3. QED BY <2>2 DEF two
  <1>12. Capped(demo.rewards, prior) = Max({0, Min({prior, rest})}) BY <1>3 DEF Capped
  <1>13. QED BY <1>10, <1>11, <1>12 DEF s

PassBody(rewards, prior, s, n) == IF n = 0 THEN prior ELSE Capped(rewards, s[n - 1])

\* A sound prior gives the truth: the first pass caps it, and the others leave it.
LEMMA CurveIsTruth ==
    ASSUME NEW demo, Collected(demo), NEW prior \in Nat,
           prior = demo.start \/ (prior > demo.start /\ ~demo.rollback /\ Highest(demo.truth) = Scale)
    PROVE  Curve(demo.rewards, prior) = demo.truth
  <1> DEFINE start == demo.start  body(f, n) == PassBody(demo.rewards, prior, f, n)
             IsPasses(f) == f = [n \in 0 .. Passes |-> body(f, n)]
             s == CHOOSE f : IsPasses(f)
             curve(f) == [t \in DOMAIN demo.rewards |-> f[Passes] + Sums(demo.rewards, -f[Passes - 1])[t]]
  <1>1. start \in Nat BY LabelsAssumption DEF Collected
  <1>2. Capped(demo.rewards, prior) = start /\ Capped(demo.rewards, start) = start BY <1>1, CappedTruth
  <1>3. \E f : IsPasses(f)
    <2> DEFINE g == [n \in 0 .. Passes |-> IF n = 0 THEN prior ELSE start]
    <2>1. \A n \in 0 .. Passes : g[n] = body(g, n)
      <3>1. TAKE n \in 0 .. Passes
      <3>2. CASE n = 0 BY <3>2 DEF PassBody
      <3>3. CASE n # 0
        <4>1. n - 1 \in 0 .. Passes BY <3>3 DEF Passes
        <4>2. g[n - 1] \in {prior, start} BY <4>1
        <4>3. g[n] = start BY <3>3
        <4>4. body(g, n) = Capped(demo.rewards, g[n - 1]) BY <3>3 DEF PassBody
        <4> HIDE DEF g, body
        <4>5. QED BY <4>2, <4>3, <4>4, <1>2
      <3>4. QED BY <3>2, <3>3
    <2>2. g = [n \in 0 .. Passes |-> g[n]] OBVIOUS
    <2> HIDE DEF g, body
    <2>3. IsPasses(g) BY <2>1, <2>2, Zenon
    <2>4. QED BY <2>3
  <1>4. IsPasses(s) BY <1>3, Zenon
  <1>5. \A n \in 0 .. Passes : s[n] = body(s, n) BY <1>4, Zenon
  <1>6. s[7] = start /\ s[8] = start
    <2> HIDE DEF s
    <2>0. s[0] = prior BY <1>5 DEF PassBody, Passes
    <2>1. \A n \in 1 .. 8 : s[n] = Capped(demo.rewards, s[n - 1]) BY <1>5 DEF PassBody, Passes
    <2> HIDE DEF start
    <2>2. s[1] = start BY <2>0, <2>1, <1>2
    <2>3. s[2] = start BY <2>1, <2>2, <1>2
    <2>4. s[3] = start BY <2>1, <2>3, <1>2
    <2>5. s[4] = start BY <2>1, <2>4, <1>2
    <2>6. s[5] = start BY <2>1, <2>5, <1>2
    <2>7. s[6] = start BY <2>1, <2>6, <1>2
    <2>8. s[7] = start BY <2>1, <2>7, <1>2
    <2>9. QED BY <2>1, <2>8, <1>2
  <1>7. Curve(demo.rewards, prior) = curve(s) BY DEF Curve, PassBody
  <1>8. Passes = 8 /\ Passes - 1 = 7 BY DEF Passes
  <1> HIDE DEF s
  <1>9. curve(s) = [t \in DOMAIN demo.rewards |-> start + Sums(demo.rewards, -start)[t]] BY <1>6, <1>8
  <1>10. Sums(demo.rewards, -start) = [t \in DOMAIN demo.rewards |-> demo.truth[t] - start]
    BY <1>1, SumsOfTruth
  <1>11. \A t \in DOMAIN demo.rewards : start + (demo.truth[t] - start) = demo.truth[t]
    <2>1. \A t \in DOMAIN demo.rewards : demo.truth[t] \in Int BY LabelsAssumption DEF Collected
    <2> HIDE DEF start
    <2>2. QED BY <1>1, <2>1
  <1>12. demo.truth = [t \in DOMAIN demo.rewards |-> demo.truth[t]] BY DEF Collected
  <1> HIDE DEF start, curve
  <1>13. [t \in DOMAIN demo.rewards |-> start + Sums(demo.rewards, -start)[t]]
         = [t \in DOMAIN demo.rewards |-> demo.truth[t]]
    BY <1>10, <1>11
  <1>14. QED BY <1>7, <1>9, <1>12, <1>13

LEMMA MeasuredNat ==
    ASSUME NEW c \in Corpora, NEW task, MeasuredD(c, task) > 0
    PROVE  MeasuredD(c, task) \in Nat \ {0}
  <1> DEFINE m == Magnitudes(c, task)
  <1>1. m \subseteq Nat \ {0}
    <2>1. ASSUME NEW e \in EpisodesOf(c, task), NEW r \in Range(c[e].rewards) \ {0}
          PROVE  (IF r < 0 THEN -r ELSE r) \in Nat \ {0}
      <3>1. c[e].rewards \in Seq(Int) BY TrainingAssumption DEF EpisodesOf, Collected
      <3>2. \A s \in Seq(Int) : Range(s) \subseteq Int BY DEF Range
      <3>3. r \in Int /\ r # 0 BY <3>1, <3>2
      <3>4. QED BY <3>3
    <2>2. QED BY <2>1 DEF Magnitudes
  <1> HIDE DEF m
  <1>2. CASE m = {} BY <1>2 DEF MeasuredD, m, Unmeasured
  <1>3. CASE m # {}
    <2>1. Min(m) \in Nat \ {0} BY <1>1, <1>3, LeastOf
    <2>2. \A a \in Nat, b \in Nat \ {0} : a \div b \in Nat OBVIOUS
    <2>3. 2 * Scale + Min(m) \in Nat /\ 2 * Min(m) \in Nat \ {0} BY <2>1, LabelsAssumption
    <2>4. MeasuredD(c, task) = (2 * Scale + Min(m)) \div (2 * Min(m)) BY <1>3 DEF MeasuredD, m
    <2>5. MeasuredD(c, task) \in Nat BY <2>2, <2>3, <2>4
    <2>6. QED BY <2>5
  <1>4. QED BY <1>2, <1>3

LEMMA PriorNat ==
    ASSUME NEW D \in Nat \ {0}, NEW task PROVE Prior(task, D) * (Scale \div D) \in Nat
  <1>1. Prior(task, D) \in Nat
    <2>1. ASSUME task \in DOMAIN Census PROVE Count(Census[task], "true") \in Nat
      <3> DEFINE lits == Census[task]  marked == {n \in DOMAIN lits : lits[n] = "true"}
      <3>1. lits \in Seq({"true", "false", "unknown"}) BY <2>1, LabelsAssumption
      <3>2. DOMAIN lits = 1 .. Len(lits) /\ Len(lits) \in Nat BY <3>1
      <3>3. IsFiniteSet(DOMAIN lits) BY <3>2, FS_Interval
      <3>4. IsFiniteSet(marked) BY <3>3, FS_Subset
      <3>5. QED BY <3>4, FS_CardinalityType DEF Count
    <2>2. QED BY <2>1 DEF Prior
  <1>2. Scale \div D \in Nat
    <2>1. \A a \in Nat, b \in Nat \ {0} : a \div b \in Nat OBVIOUS
    <2>2. QED BY <2>1, LabelsAssumption
  <1>3. \A a, b \in Nat : a * b \in Nat OBVIOUS
  <1>4. QED BY <1>1, <1>2, <1>3

LEMMA ClipWithin == ASSUME NEW x \in 0 .. Scale PROVE Clip(x) = x
  <1> DEFINE low == {x, Scale}  high == {0, x}
  <1>1. x \in Nat /\ x <= Scale /\ Scale \in Nat BY LabelsAssumption
  <1>2. Min(low) = x
    <2>1. low \subseteq Nat /\ low # {} BY <1>1
    <2>2. Min(low) \in low /\ \A y \in low : Min(low) <= y BY <2>1, LeastOf
    <2>3. \A z \in low : (\A y \in low : z <= y) => z = x BY <1>1
    <2> HIDE DEF low
    <2>4. QED BY <2>2, <2>3
  <1>3. Max(high) = x
    <2>1. x \in high /\ high \subseteq Int /\ \A k \in high : k <= x BY <1>1
    <2> HIDE DEF high
    <2>2. QED BY <2>1, Largest
  <1>4. Clip(x) = Max({0, Min(low)}) BY DEF Clip
  <1> HIDE DEF low
  <1>5. QED BY <1>2, <1>3, <1>4

\* A label is of a frame of one of the task's demonstrations, and true if the prior is sound.
LabelIsTrue(l, t) ==
    /\ l.ep \in EpisodesOf(corpus, t)
    /\ Sound(corpus[l.ep]) => l.progress = corpus[l.ep].truth[l.frame + 1]
LabelsAreTrue == \A t \in Range(Tasks) : \A l \in labels[t] : LabelIsTrue(l, t)

LEMMA BuiltTrue ==
    ASSUME corpus \in Corpora, NEW t, NEW rec, NEW opts, NEW l \in BuildTaskLabels(corpus, t, rec, opts).labels
    PROVE  LabelIsTrue(l, t)
  <1> DEFINE D == MeasuredD(corpus, t)  prior == Prior(t, D) * (Scale \div D)  curves == Curves(corpus, t, D)
  <1>1. ~Refuses(corpus, t, rec, opts) BY DEF BuildTaskLabels, NoLabels
  <1>2. rec.D = D /\ D > 0 BY <1>1 DEF Refuses, Usable
  <1>3. l \in TaskLabels(corpus, curves, Scale \div D, Considered(corpus, t, opts), opts)
    BY <1>1, <1>2 DEF BuildTaskLabels
  <1> HIDE DEF curves
  <1>a. PICK e \in Considered(corpus, t, opts) : \E n \in DOMAIN curves[e] :
              l = [ep |-> e, frame |-> n - 1, progress |-> Clip(curves[e][n])]
    BY <1>3 DEF TaskLabels
  <1>4. PICK n \in DOMAIN curves[e] : l = [ep |-> e, frame |-> n - 1, progress |-> Clip(curves[e][n])]
    BY <1>a
  <1>5. e \in EpisodesOf(corpus, t) BY DEF Considered
  <1>6. corpus[e].task = t /\ Collected(corpus[e])
    BY <1>5, TrainingAssumption DEF EpisodesOf
  <1>7. curves[e] = Curve(corpus[e].rewards, prior) BY <1>5 DEF curves, Curves
  <1>8. DOMAIN curves[e] = DOMAIN corpus[e].rewards BY <1>7 DEF Curve
  <1>9. n \in Int /\ n - 1 + 1 = n
    <2>1. \A s \in Seq(Int) : DOMAIN s \subseteq Int OBVIOUS
    <2>2. n \in Int BY <1>6, <1>8, <2>1 DEF Collected
    <2>3. QED BY <2>2
  <1>10. ASSUME Sound(corpus[e]) PROVE l.progress = corpus[e].truth[l.frame + 1]
    <2>1. D \in Nat \ {0} BY <1>2, MeasuredNat
    <2>2. prior \in Nat BY <2>1, PriorNat
    <2>3. \/ prior = corpus[e].start
          \/ prior > corpus[e].start /\ ~corpus[e].rollback /\ Highest(corpus[e].truth) = Scale
      BY <1>6, <1>10 DEF Sound
    <2> HIDE DEF prior
    <2>4. curves[e] = corpus[e].truth BY <1>6, <1>7, <2>2, <2>3, CurveIsTruth
    <2>5. corpus[e].truth[n] \in 0 .. Scale BY <1>6, <1>8 DEF Collected
    <2>6. l.progress = corpus[e].truth[n] BY <1>4, <2>4, <2>5, ClipWithin
    <2>7. l.frame + 1 = n BY <1>4, <1>9
    <2>8. QED BY <2>6, <2>7
  <1>11. l.ep = e BY <1>4
  <1>12. QED BY <1>5, <1>10, <1>11 DEF LabelIsTrue

LEMMA LabelAllTrue ==
    ASSUME corpus \in Corpora, NEW opts, NEW old, \A t \in Range(Tasks) : \A l \in old[t] : LabelIsTrue(l, t),
           NEW t \in Range(Tasks), NEW l \in LabelAll(corpus, Tasks, opts, old)[t]
    PROVE  LabelIsTrue(l, t)
  <1> DEFINE built == [s \in Range(Tasks) |->
                IF s \in DOMAIN RewardMap THEN BuildTaskLabels(corpus, s, LoadRewardMap(corpus)[s], opts)
                ELSE [refused |-> TRUE, labels |-> NoLabels]]
  <1>1. LabelAll(corpus, Tasks, opts, old) = Written(built, Tasks, opts.strict, old) BY DEF LabelAll
  <1>2. l \in built[t].labels \/ l \in old[t]
    <2> HIDE DEF built
    <2>1. QED BY <1>1 DEF Written
  <1>3. l \in built[t].labels => LabelIsTrue(l, t)
    <2>1. HAVE l \in built[t].labels
    <2>2. l \in BuildTaskLabels(corpus, t, LoadRewardMap(corpus)[t], opts).labels BY <2>1 DEF NoLabels
    <2>3. QED BY <2>2, BuiltTrue
  <1>4. QED BY <1>2, <1>3

-----------------------------------------------------------------------------
(* The rows of the trees *)

IsRow(r) == r = [obs |-> r.obs, e |-> r.e, g |-> r.g, f |-> r.f, i |-> r.i, p |-> r.p]
\* A row still knows the frame it came from.
Own(r) == IsRow(r) /\ r.g = r.obs[1] /\ r.f = r.obs[2]
\* Its label is true of that frame, whatever labels are checked out by now.
Labelled(t, r) == LabelIsTrue([ep |-> r.obs[1], frame |-> r.obs[2], progress |-> r.p], t)

Sliced(s) == s \in Seq(Range(s)) /\ \A r \in Range(s) : Own(r)
Merged(t, s) == Sliced(s) /\ \A r \in Range(s) : Labelled(t, r)

IsTree(r) == r = [data |-> r.data, eps |-> r.eps, info |-> r.info, filter |-> r.filter]
             /\ r.data = [f \in 1 .. Files |-> r.data[f]]

Trees ==
    /\ slice = [t \in Range(Tasks) |-> slice[t]] /\ root = [t \in Range(Tasks) |-> root[t]]
    /\ \A t \in Range(Tasks) : IsTree(slice[t]) /\ IsTree(root[t])
    /\ \A t \in Range(Tasks), f \in 1 .. Files : Sliced(slice[t].data[f]) /\ Merged(t, root[t].data[f])

LEMMA EmptyTree ==
    /\ IsTree(NoRoot) /\ \A f \in 1 .. Files : NoRoot.data[f] = <<>>
    /\ Sliced(<<>>) /\ \A t : Merged(t, <<>>)
  BY DEF IsTree, NoRoot, Sliced, Merged, Range

LEMMA RowsMapped ==
    ASSUME NEW s, s \in Seq(Range(s)), NEW g, g = [n \in DOMAIN s |-> g[n]]
    PROVE  g \in Seq(Range(g))
  <1>1. DOMAIN g = 1 .. Len(s) /\ Len(s) \in Nat OBVIOUS
  <1>2. \A n \in DOMAIN g : g[n] \in Range(g) BY DEF Range
  <1> DEFINE R == Range(g)  k == Len(s)
  <1>3. g \in [1 .. k -> R]
    <2> HIDE DEF R, k
    <2>1. g = [n \in 1 .. k |-> g[n]] /\ \A n \in 1 .. k : g[n] \in R BY <1>1, <1>2 DEF R, k
    <2>2. QED BY <2>1
  <1> HIDE DEF R, k
  <1>4. k \in Nat BY <1>1 DEF k
  <1>5. g \in Seq(R) BY <1>3, <1>4
  <1>6. QED BY <1>5 DEF R

\* The task's frames in one data file.
LEMMA SourceSeq ==
    ASSUME corpus \in Corpora, NEW f
    PROVE  SourceRows(f) \in Seq(Range(SourceRows(f)))
  <1> DEFINE es == EpisodesOf(corpus, T)  g == Ascending(es)  N == Cardinality(es)
             Frames(e) == Chosen([t \in DOMAIN corpus[e].at |-> <<e, t - 1>>],
                                 {t \in DOMAIN corpus[e].at : corpus[e].at[t] = f})
             ss == [n \in DOMAIN g |-> Frames(g[n])]
             Pairs(e) == {<<e, t - 1>> : t \in DOMAIN corpus[e].at}
             All == UNION {Pairs(e) : e \in es}
  <1>1. es \subseteq Nat /\ IsFiniteSet(es)
    <2>1. DOMAIN corpus \subseteq Nat /\ IsFiniteSet(DOMAIN corpus) /\ es \subseteq DOMAIN corpus
      BY TrainingAssumption DEF EpisodesOf
    <2>2. QED BY <2>1, FS_Subset
  <1>2. N \in Nat /\ \A n \in 1 .. N : g[n] \in es BY <1>1, Ranked
  <1>3. DOMAIN g = 1 .. N BY DEF Ascending
  <1>4. ASSUME NEW e \in es PROVE Frames(e) \in Seq(All)
    <2> DEFINE at == corpus[e].at  P == {t \in DOMAIN at : at[t] = f}  s == [t \in DOMAIN at |-> <<e, t - 1>>]
    <2>1. Collected(corpus[e]) BY TrainingAssumption DEF EpisodesOf
    <2>2. \E k \in Nat : DOMAIN at = 1 .. k
      <3>1. corpus[e].rewards \in Seq(Int) /\ DOMAIN at = DOMAIN corpus[e].rewards BY <2>1 DEF Collected
      <3>2. \A q \in Seq(Int) : DOMAIN q = 1 .. Len(q) /\ Len(q) \in Nat OBVIOUS
      <3>3. QED BY <3>1, <3>2
    <2>3. PICK k \in Nat : DOMAIN at = 1 .. k BY <2>2
    <2>4. \A t \in DOMAIN at : s[t] \in All OBVIOUS
    <2>5. DOMAIN s = DOMAIN at /\ P \subseteq DOMAIN s /\ s = [t \in 1 .. k |-> s[t]] BY <2>3
    <2>6. s \in Seq(All)
      <3> HIDE DEF s, All, at
      <3>1. s \in [1 .. k -> All] BY <2>3, <2>4, <2>5
      <3>2. QED BY <3>1
    <2> HIDE DEF All
    <2>7. Chosen(s, P) \in Seq(All)
      <3> HIDE DEF s, P
      <3>1. QED BY <2>5, <2>6, ChosenFrom
    <2>8. QED BY <2>7
  <1> HIDE DEF All, Frames
  <1>5. ss \in Seq(Seq(All))
    <2> HIDE DEF g, es, N
    <2>1. ss \in [1 .. N -> Seq(All)] BY <1>2, <1>3, <1>4
    <2>2. QED BY <1>2, <2>1
  <1> DEFINE flat == FlattenSeq(ss)
  <1>6. flat = SourceRows(f) BY DEF SourceRows, Frames
  <1> HIDE DEF ss
  <1>7. flat \in Seq(All) BY <1>5, Flattened
  <1> HIDE DEF flat
  <1>8. DOMAIN flat = 1 .. Len(flat) /\ Len(flat) \in Nat /\ flat = [n \in DOMAIN flat |-> flat[n]] BY <1>7
  <1> DEFINE R == Range(flat)
  <1>9. \A n \in DOMAIN flat : flat[n] \in R BY DEF Range
  <1> HIDE DEF R
  <1>10. flat \in Seq(R)
    <2>1. flat \in [1 .. Len(flat) -> R] BY <1>8, <1>9
    <2>2. QED BY <1>8, <2>1
  <1>11. QED BY <1>6, <1>10 DEF R

LEMMA SlicedSeq ==
    ASSUME corpus \in Corpora, NEW f PROVE Sliced(SlicedRows(f))
  <1> DEFINE s == SourceRows(f)  r == SlicedRows(f)
  <1>1. s \in Seq(Range(s)) BY SourceSeq
  <1>2. /\ DOMAIN r = DOMAIN s /\ r = [n \in DOMAIN s |-> r[n]]
        /\ \A n \in DOMAIN s : r[n] = [obs |-> s[n], e |-> Position(EpisodesOf(corpus, T), s[n][1]), g |-> s[n][1],
               f |-> s[n][2], i |-> RowsBefore(slice[T], f) + n - 1, p |-> NoLabel]
    BY DEF SlicedRows
  <1> HIDE DEF s, r
  <1>3. r \in Seq(Range(r)) BY <1>1, <1>2, RowsMapped
  <1>4. \A n \in DOMAIN s : Own(r[n]) BY <1>2 DEF Own, IsRow
  <1>5. QED BY <1>2, <1>3, <1>4 DEF Sliced, Range, r

\* A row that is given a label is given the one of its own frame.
LEMMA JoinedRows ==
    ASSUME NEW rows, Sliced(rows)
    PROVE  /\ Sliced(Joined(rows)) /\ DOMAIN Joined(rows) = DOMAIN rows
           /\ LabelsAreTrue /\ T \in Range(Tasks) =>
                  \A n \in DOMAIN rows : Joined(rows)[n].p # NoLabel => Labelled(T, Joined(rows)[n])
  <1> DEFINE found(n) == {l \in labels[T] : <<l.ep, l.frame>> = JoinKey(rows[n])}
             p(n) == IF found(n) = {} THEN NoLabel ELSE (CHOOSE l \in found(n) : TRUE).progress
             j == Joined(rows)
  <1>1. DOMAIN j = DOMAIN rows /\ j = [n \in DOMAIN rows |-> j[n]]
        /\ \A n \in DOMAIN rows : j[n] = [rows[n] EXCEPT !.p = p(n)]
    BY DEF Joined
  <1>2. rows \in Seq(Range(rows)) /\ \A n \in DOMAIN rows : Own(rows[n]) BY DEF Sliced, Range
  <1>3. \A n \in DOMAIN rows : p(n) # NoLabel =>
            \E l \in labels[T] : l.ep = rows[n].g /\ l.frame = rows[n].f /\ l.progress = p(n)
    BY DEF JoinKey
  <1> HIDE DEF p, j
  <1>4. ASSUME NEW n \in DOMAIN rows
        PROVE  Own(j[n]) /\ j[n].obs = rows[n].obs /\ j[n].g = rows[n].g /\ j[n].f = rows[n].f /\ j[n].p = p(n)
    BY <1>1, <1>2 DEF Own, IsRow
  <1>5. j \in Seq(Range(j)) BY <1>1, <1>2, RowsMapped
  <1>6. Sliced(j) BY <1>1, <1>4, <1>5 DEF Sliced, Range
  <1>7. LabelsAreTrue /\ T \in Range(Tasks) => \A n \in DOMAIN rows : j[n].p # NoLabel => Labelled(T, j[n])
    <2>0. HAVE LabelsAreTrue /\ T \in Range(Tasks)
    <2>1. TAKE n \in DOMAIN rows
    <2>2. HAVE j[n].p # NoLabel
    <2>3. PICK l \in labels[T] : l.ep = rows[n].g /\ l.frame = rows[n].f /\ l.progress = p(n) BY <1>3, <1>4, <2>2
    <2>4. l.ep = j[n].obs[1] /\ l.frame = j[n].obs[2] /\ l.progress = j[n].p BY <1>2, <1>4, <2>3 DEF Own
    <2>5. LabelIsTrue(l, T) BY <2>0 DEF LabelsAreTrue
    <2>6. QED BY <2>4, <2>5 DEF Labelled, LabelIsTrue
  <1>8. QED BY <1>1, <1>6, <1>7 DEF j

\* A file of rows replaced, the rest of the trees as it was.
LEMMA TreesKept ==
    ASSUME Trees, UNCHANGED corpus,
           slice' = [t \in Range(Tasks) |-> slice'[t]], root' = [t \in Range(Tasks) |-> root'[t]],
           \A t \in Range(Tasks) : IsTree(slice'[t]) /\ IsTree(root'[t]),
           \A t \in Range(Tasks), f \in 1 .. Files :
               /\ slice'[t].data[f] = slice[t].data[f] \/ Sliced(slice'[t].data[f])
               /\ root'[t].data[f] = root[t].data[f] \/ Merged(t, root'[t].data[f])
    PROVE  Trees'
  <1>0. \A l, t : LabelIsTrue(l, t)' <=> LabelIsTrue(l, t) BY DEF LabelIsTrue, EpisodesOf, Sound, MeasuredD, Magnitudes
  <1>1. \A t, s : Merged(t, s)' <=> Merged(t, s) BY <1>0 DEF Merged, Labelled
  <1>2. ASSUME NEW t \in Range(Tasks), NEW f \in 1 .. Files
        PROVE  Sliced(slice'[t].data[f]) /\ Merged(t, root'[t].data[f])
    BY <1>2 DEF Trees
  <1>3. QED BY <1>1, <1>2 DEF Trees

LEMMA FileReplaced ==
    ASSUME NEW r, IsTree(r), NEW k, NEW s, NEW new, new = [r EXCEPT !.data[k] = s]
    PROVE  IsTree(new) /\ \A f \in 1 .. Files : new.data[f] = IF f = k THEN s ELSE r.data[f]
  BY DEF IsTree

\* Fields replaced.
LEMMA RowRenumbered ==
    \A new, r, a, b : Own(r) /\ new = [r EXCEPT !.e = a, !.i = b] =>
        new.obs = r.obs /\ new.p = r.p /\ Own(new)
  <1>1. TAKE new, r, a, b
  <1>2. HAVE Own(r) /\ new = [r EXCEPT !.e = a, !.i = b]
  <1>3. r = [obs |-> r.obs, e |-> r.e, g |-> r.g, f |-> r.f, i |-> r.i, p |-> r.p] BY <1>2 DEF Own, IsRow
  <1>4. new = [obs |-> r.obs, e |-> a, g |-> r.g, f |-> r.f, i |-> b, p |-> r.p] BY <1>2, <1>3
  <1>5. QED BY <1>2, <1>4 DEF Own, IsRow

LEMMA EpsReplaced ==
    \A new, r, a : IsTree(r) /\ new = [r EXCEPT !.eps = a] => IsTree(new) /\ new.data = r.data
  BY DEF IsTree
LEMMA InfoReplaced ==
    \A new, r, a : IsTree(r) /\ new = [r EXCEPT !.info = a] => IsTree(new) /\ new.data = r.data
  BY DEF IsTree
LEMMA FilterReplaced ==
    \A new, r, a : IsTree(r) /\ new = [r EXCEPT !.filter = a] => IsTree(new) /\ new.data = r.data
  BY DEF IsTree
LEMMA MetaReplaced ==
    \A new, r, a, b : IsTree(r) /\ new = [r EXCEPT !.eps = a, !.info = b] => IsTree(new) /\ new.data = r.data
  <1>1. TAKE new, r, a, b
  <1>2. HAVE IsTree(r) /\ new = [r EXCEPT !.eps = a, !.info = b]
  <1>3. r = [data |-> r.data, eps |-> r.eps, info |-> r.info, filter |-> r.filter] BY <1>2 DEF IsTree
  <1>4. new = [data |-> new.data, eps |-> new.eps, info |-> new.info, filter |-> new.filter] /\ new.data = r.data
    BY <1>2, <1>3
  <1>5. QED BY <1>2, <1>4 DEF IsTree
LEMMA StreamsReplaced ==
    \A new, r, a : IsTree(r) /\ new = [r EXCEPT !.info.streams = a] => IsTree(new) /\ new.data = r.data
  BY DEF IsTree
LEMMA CountsReplaced ==
    \A new, r, a, b : IsTree(r) /\ new = [r EXCEPT !.info.episodes = a, !.info.frames = b] =>
        IsTree(new) /\ new.data = r.data
  <1>1. TAKE new, r, a, b
  <1>2. HAVE IsTree(r) /\ new = [r EXCEPT !.info.episodes = a, !.info.frames = b]
  <1>3. r = [data |-> r.data, eps |-> r.eps, info |-> r.info, filter |-> r.filter] BY <1>2 DEF IsTree
  <1>4. new = [data |-> new.data, eps |-> new.eps, info |-> new.info, filter |-> new.filter] /\ new.data = r.data
    BY <1>2, <1>3
  <1>5. QED BY <1>2, <1>4 DEF IsTree
LEMMA Registered ==
    \A new, r, a, b, c :
        IsTree(r) /\ new = [r EXCEPT !.info.progress = c, !.info.episodes = a, !.info.frames = b] =>
        IsTree(new) /\ new.data = r.data
  <1>1. TAKE new, r, a, b, c
  <1>2. HAVE IsTree(r) /\ new = [r EXCEPT !.info.progress = c, !.info.episodes = a, !.info.frames = b]
  <1>3. r = [data |-> r.data, eps |-> r.eps, info |-> r.info, filter |-> r.filter] BY <1>2 DEF IsTree
  <1>4. new = [data |-> new.data, eps |-> new.eps, info |-> new.info, filter |-> new.filter] /\ new.data = r.data
    BY <1>2, <1>3
  <1>5. QED BY <1>2, <1>4 DEF IsTree

LEMMA TreesInit == RootsInit => Trees
  <1> SUFFICES ASSUME RootsInit PROVE Trees OBVIOUS
  <1>1. slice = [t \in Range(Tasks) |-> NoRoot] /\ root = [t \in Range(Tasks) |-> NoRoot] BY DEF RootsInit
  <1>2. QED BY <1>1, EmptyTree DEF Trees

LEMMA TreesStep ==
    ASSUME corpus \in Corpora, Trees, LabelsAreTrue, [Next]_vars PROVE Trees'
  <1>t. /\ slice = [t \in Range(Tasks) |-> slice[t]] /\ root = [t \in Range(Tasks) |-> root[t]]
        /\ \A t \in Range(Tasks) : IsTree(slice[t]) /\ IsTree(root[t])
        /\ \A t \in Range(Tasks), f \in 1 .. Files : Sliced(slice[t].data[f]) /\ Merged(t, root[t].data[f])
    BY DEF Trees
  <1>u. ASSUME UNCHANGED <<corpus, slice, root>> PROVE Trees' BY <1>u, <1>t, TreesKept
  <1>s. ASSUME UNCHANGED <<corpus, root>>, NEW new, T \in Range(Tasks) => IsTree(new), slice' = [slice EXCEPT ![T] = new],
               T \in Range(Tasks) => \A f \in 1 .. Files : Sliced(new.data[f])
        PROVE  Trees'
    <2>1. \A t \in Range(Tasks) : slice'[t] = IF t = T THEN new ELSE slice[t] BY <1>s, <1>t
    <2>2. slice' = [t \in Range(Tasks) |-> slice'[t]] BY <1>s, <1>t
    <2>3. QED BY <1>s, <1>t, <2>1, <2>2, TreesKept
  <1>r. ASSUME UNCHANGED <<corpus, slice>>, NEW new, T \in Range(Tasks) => IsTree(new), root' = [root EXCEPT ![T] = new],
               T \in Range(Tasks) => \A f \in 1 .. Files : Merged(T, new.data[f])
        PROVE  Trees'
    <2>1. \A t \in Range(Tasks) : root'[t] = IF t = T THEN new ELSE root[t] BY <1>r, <1>t
    <2>2. root' = [t \in Range(Tasks) |-> root'[t]] BY <1>r, <1>t
    <2>3. QED BY <1>r, <1>t, <2>1, <2>2, TreesKept
  <1>1. CASE UNCHANGED vars BY <1>1, <1>u DEF vars, roots
  <1>2. CASE BeginTraining \/ LogStep \/ Resume
    BY <1>2, <1>u DEF BeginTraining, LogStep, Resume, roots
  <1>3. CASE AlreadyMerged BY <1>3, <1>u DEF AlreadyMerged
  <1>4. CASE SliceBegins BY <1>4, <1>s, EmptyTree DEF SliceBegins
  <1>5. CASE SliceFile
    <2>1. UNCHANGED <<corpus, root>> BY <1>5 DEF SliceFile
    <2>2. CASE UNCHANGED slice BY <2>1, <2>2, <1>u
    <2>3. CASE slice' = [slice EXCEPT ![T].data[file] = SlicedRows(file)]
      <3> DEFINE new == [slice[T] EXCEPT !.data[file] = SlicedRows(file)]
      <3>1. slice' = [slice EXCEPT ![T] = new] BY <2>3
      <3>5. new = [slice[T] EXCEPT !.data[file] = SlicedRows(file)] OBVIOUS
      <3> HIDE DEF new
      <3>2. ASSUME T \in Range(Tasks) PROVE IsTree(new) /\ \A f \in 1 .. Files : Sliced(new.data[f])
        <4>0. IsTree(slice[T]) BY <1>t, <3>2
        <4>1. IsTree(new) /\ \A f \in 1 .. Files : new.data[f] = IF f = file THEN SlicedRows(file) ELSE slice[T].data[f]
          BY <4>0, <3>5, FileReplaced
        <4>2. Sliced(SlicedRows(file)) BY SlicedSeq
        <4>3. QED BY <1>t, <3>2, <4>1, <4>2
      <3>3. QED BY <2>1, <3>1, <3>2, <1>s
    <2>4. QED BY <1>5, <2>2, <2>3 DEF SliceFile
  <1>6. CASE SliceMeta
    <2>1. UNCHANGED <<corpus, root>> BY <1>6 DEF SliceMeta
    <2>2. CASE UNCHANGED slice BY <2>1, <2>2, <1>u
    <2>3. CASE slice' = [slice EXCEPT ![T].eps = SlicedEpisodes]
      <3> DEFINE new == [slice[T] EXCEPT !.eps = SlicedEpisodes]
      <3>1. slice' = [slice EXCEPT ![T] = new] BY <2>3
      <3>2. T \in Range(Tasks) => IsTree(new) /\ new.data = slice[T].data BY <1>t, EpsReplaced, Zenon DEF new
      <3> HIDE DEF new
      <3>3. T \in Range(Tasks) => \A f \in 1 .. Files : Sliced(new.data[f]) BY <1>t, <3>2
      <3>4. QED BY <2>1, <3>1, <3>2, <3>3, <1>s
    <2>4. QED BY <1>6, <2>2, <2>3 DEF SliceMeta
  <1>7. CASE SliceInfo
    <2> DEFINE info == [episodes |-> Cardinality(EpisodesOf(corpus, T)), frames |-> Len(AllRows(slice[T])),
                        progress |-> FALSE, streams |-> Streams]
               new == [slice[T] EXCEPT !.info = info]
    <2>1. UNCHANGED <<corpus, root>> /\ slice' = [slice EXCEPT ![T] = new] BY <1>7 DEF SliceInfo
    <2> HIDE DEF info
    <2>2. T \in Range(Tasks) => IsTree(new) /\ new.data = slice[T].data BY <1>t, InfoReplaced, Zenon DEF new
    <2> HIDE DEF new
    <2>3. T \in Range(Tasks) => \A f \in 1 .. Files : Sliced(new.data[f]) BY <1>t, <2>2
    <2>4. QED BY <2>1, <2>2, <2>3, <1>s
  <1>8. CASE MergeBegins BY <1>8, <1>r, EmptyTree DEF MergeBegins
  <1>9. CASE MergeFile
    <2> DEFINE rows == slice[T].data[file]  j == Joined(rows)
               bad == {r.e : r \in {x \in Range(j) : x.p = NoLabel}}
               good == {n \in DOMAIN j : j[n].e \notin bad}
               new == [root[T] EXCEPT !.data[file] = Chosen(j, good)]
    <2>1. UNCHANGED <<corpus, slice>> /\ root' = [root EXCEPT ![T] = new] BY <1>9 DEF MergeFile
    <2>4. new = [root[T] EXCEPT !.data[file] = Chosen(j, good)] OBVIOUS
    <2> HIDE DEF new
    <2>2. ASSUME T \in Range(Tasks) PROVE IsTree(new) /\ \A f \in 1 .. Files : Merged(T, new.data[f])
      <3>1. IsTree(new) /\ \A f \in 1 .. Files : new.data[f] = IF f = file THEN Chosen(j, good) ELSE root[T].data[f]
        <4>1. IsTree(root[T]) BY <1>t, <2>2
        <4> DEFINE c == Chosen(j, good)
        <4>2. new = [root[T] EXCEPT !.data[file] = c] BY <2>4
        <4> HIDE DEF c
        <4>3. \A r, s : IsTree(r) /\ new = [r EXCEPT !.data[file] = s] =>
                  IsTree(new) /\ \A f \in 1 .. Files : new.data[f] = IF f = file THEN s ELSE r.data[f]
          BY FileReplaced
        <4>4. IsTree(new) /\ \A f \in 1 .. Files : new.data[f] = IF f = file THEN c ELSE root[T].data[f]
          BY <4>1, <4>2, <4>3, Zenon
        <4>5. QED BY <4>4 DEF c
      <3>2. file \in 1 .. Files => Merged(T, Chosen(j, good))
        <4>1. HAVE file \in 1 .. Files
        <4>2. Sliced(rows) BY <1>t, <2>2, <4>1
        <4>3. /\ Sliced(j) /\ DOMAIN j = DOMAIN rows
              /\ \A n \in DOMAIN rows : j[n].p # NoLabel => Labelled(T, j[n])
          BY <2>2, <4>2, JoinedRows
        <4>4. \A n \in good : j[n].p # NoLabel BY DEF Range
        <4> HIDE DEF j, bad
        <4>5. good \subseteq DOMAIN j OBVIOUS
        <4> HIDE DEF good
        <4> DEFINE R == Range(j)  c == Chosen(j, good)
        <4>6. j \in Seq(R) BY <4>3 DEF Sliced
        <4> HIDE DEF R
        <4>7. c \in Seq(R) /\ \A x \in Range(c) : \E i \in good : x = j[i] BY <4>5, <4>6, ChosenFrom
        <4> HIDE DEF c
        <4>8. \A x \in Range(c) : Own(x) /\ Labelled(T, x)
          BY <4>3, <4>4, <4>5, <4>7 DEF Sliced, Range
        <4>9. c \in Seq(Range(c))
          <5>1. c = [n \in DOMAIN c |-> c[n]] /\ DOMAIN c = 1 .. Len(c) /\ Len(c) \in Nat BY <4>7
          <5> DEFINE Q == Range(c)
          <5>2. \A n \in DOMAIN c : c[n] \in Q BY DEF Range
          <5> HIDE DEF Q
          <5>3. c \in [1 .. Len(c) -> Q] BY <5>1, <5>2
          <5>4. QED BY <5>1, <5>3 DEF Q
        <4>10. QED BY <4>8, <4>9 DEF Merged, Sliced, c
      <3>3. QED BY <1>t, <2>2, <3>1, <3>2
    <2>3. QED BY <2>1, <2>2, <1>r
  <1>10. CASE MergeMeta \/ Register \/ CompactMeta \/ CompactInfo \/ WriteFilter
    <2> DEFINE seps == slice[T].eps  sinfo == slice[T].info  ceps == CompactedEpisodes(root[T].eps, AllRows(root[T]))
               cepisodes == Cardinality(DOMAIN remap)  cframes == Len(AllRows(root[T]))  flt == Filter
               m == [root[T] EXCEPT !.eps = seps, !.info = sinfo]
               eps == root[T].info.episodes - Cardinality(dropped)
               frames == IF dropped = {} THEN root[T].info.frames ELSE Len(AllRows(root[T]))
               reg == [root[T] EXCEPT !.info.progress = TRUE, !.info.episodes = eps, !.info.frames = frames]
               cm == [root[T] EXCEPT !.eps = ceps]
               ci == [root[T] EXCEPT !.info.episodes = cepisodes, !.info.frames = cframes]
               wf == [root[T] EXCEPT !.filter = flt]
    <2>1. UNCHANGED <<corpus, slice>>
      BY <1>10 DEF MergeMeta, Register, CompactMeta, CompactInfo, WriteFilter
    <2>2. \E new \in {m, reg, cm, ci, wf} : root' = [root EXCEPT ![T] = new]
      <3>1. CASE MergeMeta BY <3>1 DEF MergeMeta
      <3>2. CASE Register
        <4>1. root' = [root EXCEPT ![T].info.progress = TRUE, ![T].info.episodes = eps, ![T].info.frames = frames]
          BY <3>2 DEF Register
        <4> HIDE DEF eps, frames
        <4>2. root' = [root EXCEPT ![T] = reg] BY <4>1
        <4>3. QED BY <4>2
      <3>3. CASE CompactMeta BY <3>3 DEF CompactMeta
      <3>4. CASE CompactInfo
        <4>1. root' = [root EXCEPT ![T].info.episodes = cepisodes, ![T].info.frames = cframes]
          BY <3>4 DEF CompactInfo
        <4> HIDE DEF cepisodes, cframes
        <4>2. root' = [root EXCEPT ![T] = ci] BY <4>1
        <4>3. QED BY <4>2
      <3>5. CASE WriteFilter BY <3>5 DEF WriteFilter
      <3>6. QED BY <1>10, <3>1, <3>2, <3>3, <3>4, <3>5
    <2>3. ASSUME T \in Range(Tasks), NEW new \in {m, reg, cm, ci, wf} PROVE IsTree(new) /\ new.data = root[T].data
      <3>1. IsTree(root[T]) BY <1>t, <2>3
      <3> HIDE DEF seps, sinfo, ceps, cepisodes, cframes, flt, eps, frames
      <3>2. CASE new \in {m, cm, wf}
        <4>1. CASE new = m BY <3>1, <4>1, MetaReplaced, ZenonT(60) DEF m
        <4>2. CASE new = cm BY <3>1, <4>2, EpsReplaced, ZenonT(60) DEF cm
        <4>3. CASE new = wf BY <3>1, <4>3, FilterReplaced, ZenonT(60) DEF wf
        <4>4. QED BY <3>2, <4>1, <4>2, <4>3
      <3>3. CASE new = reg BY <3>1, <3>3, Registered, ZenonT(60) DEF reg
      <3>4. CASE new = ci BY <3>1, <3>4, CountsReplaced, ZenonT(60) DEF ci
      <3>5. QED BY <2>3, <3>2, <3>3, <3>4
    <2> HIDE DEF m, reg, cm, ci, wf
    <2>4. PICK new \in {m, reg, cm, ci, wf} : root' = [root EXCEPT ![T] = new] BY <2>2
    <2>5. T \in Range(Tasks) => IsTree(new) /\ \A f \in 1 .. Files : Merged(T, new.data[f]) BY <1>t, <2>3
    <2>6. QED BY <2>1, <2>4, <2>5, <1>r
  <1>11. CASE CompactFile
    <2> DEFINE rows == root[T].data[file]
               c == [n \in DOMAIN rows |-> [rows[n] EXCEPT !.e = remap[@], !.i = RowsBefore(root[T], file) + n - 1]]
               new == [root[T] EXCEPT !.data[file] = c]
    <2>1. UNCHANGED <<corpus, slice>> /\ root' = [root EXCEPT ![T] = new] BY <1>11 DEF CompactFile
    <2>4. new = [root[T] EXCEPT !.data[file] = c] OBVIOUS
    <2> HIDE DEF new
    <2>2. ASSUME T \in Range(Tasks) PROVE IsTree(new) /\ \A f \in 1 .. Files : Merged(T, new.data[f])
      <3>1. IsTree(new) /\ \A f \in 1 .. Files : new.data[f] = IF f = file THEN c ELSE root[T].data[f]
        <4> HIDE DEF c
        <4>1. IsTree(root[T]) BY <1>t, <2>2
        <4>2. \A r, s : IsTree(r) /\ new = [r EXCEPT !.data[file] = s] =>
                  IsTree(new) /\ \A f \in 1 .. Files : new.data[f] = IF f = file THEN s ELSE r.data[f]
          BY FileReplaced
        <4>3. QED BY <2>4, <4>1, <4>2, Zenon
      <3>2. file \in 1 .. Files => Merged(T, c)
        <4>1. HAVE file \in 1 .. Files
        <4>2. Merged(T, rows) BY <1>t, <2>2, <4>1
        <4>3. c = [n \in DOMAIN rows |-> c[n]] /\ DOMAIN c = DOMAIN rows OBVIOUS
        <4>4. rows \in Seq(Range(rows)) /\ \A n \in DOMAIN rows : Own(rows[n]) /\ Labelled(T, rows[n])
          BY <4>2 DEF Merged, Sliced, Range
        <4>5. \A n \in DOMAIN rows : c[n].obs = rows[n].obs /\ c[n].p = rows[n].p /\ Own(c[n])
          <5> DEFINE ne(n) == remap[rows[n].e]  ni(n) == RowsBefore(root[T], file) + n - 1
          <5>1. \A n \in DOMAIN rows : c[n] = [rows[n] EXCEPT !.e = ne(n), !.i = ni(n)] OBVIOUS
          <5> HIDE DEF c, rows, ne, ni
          <5>2. QED BY <4>4, <5>1, RowRenumbered, Zenon
        <4> HIDE DEF c, rows
        <4>6. c \in Seq(Range(c)) BY <4>3, <4>4, RowsMapped
        <4>7. \A n \in DOMAIN c : Own(c[n]) /\ Labelled(T, c[n]) BY <4>3, <4>4, <4>5 DEF Labelled
        <4>8. QED BY <4>6, <4>7 DEF Merged, Sliced, Range
      <3>3. QED BY <1>t, <2>2, <3>1, <3>2
    <2>3. QED BY <2>1, <2>2, <1>r
  <1>12. CASE DropStreams
    <2>1. UNCHANGED <<corpus, slice>> BY <1>12 DEF DropStreams
    <2> DEFINE keep == root[T].info.streams \ Depth  new == [root[T] EXCEPT !.info.streams = keep]
    <2>2. UNCHANGED root \/ root' = [root EXCEPT ![T] = new] BY <1>12 DEF DropStreams
    <2>3. T \in Range(Tasks) => IsTree(new) /\ new.data = root[T].data
      <3> HIDE DEF keep
      <3>1. QED BY <1>t, StreamsReplaced, Zenon DEF new
    <2> HIDE DEF new
    <2>4. T \in Range(Tasks) => \A f \in 1 .. Files : Merged(T, new.data[f]) BY <1>t, <2>3
    <2>5. QED BY <2>1, <2>2, <2>3, <2>4, <1>r, <1>u
  <1>13. CASE CheckStreams \/ Fingerprint \/ CheckArms
    BY <1>13, <1>u DEF CheckStreams, Fingerprint, CheckArms, disk
  <1>14. CASE Start \/ Dies BY <1>14, <1>u DEF Start, Dies, disk
  <1>15. CASE NewPod
    <2>1. slice' = [t \in Range(Tasks) |-> NoRoot] /\ root' = [t \in Range(Tasks) |-> NoRoot]
      BY <1>15 DEF NewPod
    <2>2. \A t : Merged(t, <<>>)' BY DEF Merged, Sliced, Range
    <2>3. QED BY <2>1, <2>2, EmptyTree DEF Trees
  <1>16. QED BY <1>1, <1>2, <1>3, <1>4, <1>5, <1>6, <1>7, <1>8, <1>9, <1>10, <1>11, <1>12, <1>13, <1>14, <1>15
         DEF Next, Data, Build

-----------------------------------------------------------------------------
(* Labels stay with their demonstrations *)

KnownData == corpus \in Corpora /\ Trees /\ LabelsAreTrue

LEMMA LabelsInit == Init => KnownData
  <1> SUFFICES ASSUME Init PROVE KnownData OBVIOUS
  <1>1. corpus \in Corpora /\ Trees BY TreesInit DEF Init, RootsInit
  <1>2. LabelsAreTrue BY DEF Init, RootsInit, LabelsAreTrue, NoLabels
  <1>3. QED BY <1>1, <1>2 DEF KnownData

LEMMA LabelsStep == KnownData /\ [Next]_vars => KnownData'
  <1> SUFFICES ASSUME KnownData, [Next]_vars PROVE KnownData' OBVIOUS
  <1>1. UNCHANGED corpus
    BY DEF Next, Data, Build, AlreadyMerged, SliceBegins, SliceFile, SliceMeta, SliceInfo, MergeBegins, MergeFile,
       MergeMeta, Register, CompactFile, CompactMeta, CompactInfo, WriteFilter, DropStreams, CheckStreams,
       Fingerprint, CheckArms, Start, Dies, NewPod, BeginTraining, LogStep, Resume, vars, roots
  <1>2. \/ UNCHANGED labels
        \/ \E opts \in LabelOptions : labels' = LabelAll(corpus, Tasks, opts, labels)
    BY DEF Next, Data, Build, AlreadyMerged, SliceBegins, SliceFile, SliceMeta, SliceInfo, MergeBegins, MergeFile,
       MergeMeta, Register, CompactFile, CompactMeta, CompactInfo, WriteFilter, DropStreams, CheckStreams,
       Fingerprint, CheckArms, Start, Dies, NewPod, BeginTraining, LogStep, Resume, vars, roots
  <1>3. Trees' BY TreesStep DEF KnownData
  <1>4. \A l, t : LabelIsTrue(l, t)' <=> LabelIsTrue(l, t) BY <1>1 DEF LabelIsTrue, EpisodesOf, Sound, MeasuredD, Magnitudes
  <1>5. \A t \in Range(Tasks) : \A l \in labels'[t] : LabelIsTrue(l, t)
    <2>1. CASE UNCHANGED labels BY <2>1 DEF KnownData, LabelsAreTrue
    <2>2. CASE \E opts \in LabelOptions : labels' = LabelAll(corpus, Tasks, opts, labels)
      <3>1. PICK opts \in LabelOptions : labels' = LabelAll(corpus, Tasks, opts, labels) BY <2>2
      <3>2. QED BY <3>1, LabelAllTrue DEF KnownData, LabelsAreTrue
    <2>3. QED BY <1>2, <2>1, <2>2
  <1>6. QED BY <1>1, <1>3, <1>4, <1>5 DEF KnownData, LabelsAreTrue

\* The rows of a root are those of its files.
LEMMA RowsOfFiles ==
    ASSUME NEW r, IsTree(r), \A f \in 1 .. Files : Sliced(r.data[f])
    PROVE  \A x \in Range(AllRows(r)) : \E f \in 1 .. Files : x \in Range(r.data[f])
  <1> DEFINE S == UNION {Range(r.data[f]) : f \in 1 .. Files}  d == r.data
  <1>1. d = [f \in 1 .. Files |-> d[f]] /\ Files \in Nat BY RootsAssumption DEF IsTree
  <1>2. \A f \in 1 .. Files : d[f] \in Seq(S)
    <2>1. TAKE f \in 1 .. Files
    <2> DEFINE R == Range(d[f])
    <2>2. d[f] \in Seq(R) /\ R \subseteq S BY DEF Sliced
    <2> HIDE DEF R, S, d
    <2>3. QED BY <2>2
  <1> HIDE DEF S
  <1>3. d \in Seq(Seq(S))
    <2> HIDE DEF d
    <2>1. d \in [1 .. Files -> Seq(S)] BY <1>1, <1>2
    <2>2. QED BY <1>1, <2>1
  <1>4. Range(FlattenSeq(d)) = UNION {Range(d[i]) : i \in DOMAIN d} BY <1>3, Flattened
  <1>5. DOMAIN d = 1 .. Files BY <1>1
  <1>6. QED BY <1>4, <1>5 DEF AllRows

\* A label on disk is the truth of the frame it stands beside, for every corpus,
\* prior that is sound, order of crashes and pods.  The curve a sound prior gives is
\* the truth (labels.py:85: a rollback's debit is ignored), every label in a sidecar
\* is on such a curve, and a row keeps its frame and gets the label of it, however it
\* is renumbered (merge_progress_labels.py:168).
THEOREM LabelsStay == Spec => []LabelsStayWithTheirDemos
  <1>1. KnownData => LabelsStayWithTheirDemos
    <2> SUFFICES ASSUME KnownData, NEW e \in DOMAIN corpus, Sound(corpus[e]), NEW t \in Range(Tasks)
                 PROVE  /\ \A l \in labels[t] : l.ep = e => l.progress = corpus[e].truth[l.frame + 1]
                        /\ \A r \in Range(AllRows(root[t])) : r.obs[1] = e => r.p = corpus[e].truth[r.obs[2] + 1]
      BY DEF LabelsStayWithTheirDemos
    <2>1. \A l \in labels[t] : l.ep = e => l.progress = corpus[e].truth[l.frame + 1]
      BY DEF KnownData, LabelsAreTrue, LabelIsTrue
    <2>2. ASSUME NEW r \in Range(AllRows(root[t])), r.obs[1] = e PROVE r.p = corpus[e].truth[r.obs[2] + 1]
      <3>1. PICK f \in 1 .. Files : r \in Range(root[t].data[f])
        BY RowsOfFiles DEF KnownData, Trees, Merged
      <3>2. Labelled(t, r) BY <3>1 DEF KnownData, Trees, Merged
      <3>3. QED BY <2>2, <3>2 DEF Labelled, LabelIsTrue
    <2>3. QED BY <2>1, <2>2
  <1>2. QED BY <1>1, LabelsInit, LabelsStep, PTL DEF Spec
=============================================================================
