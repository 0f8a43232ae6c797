---------------------------- MODULE SweepProofs ----------------------------
(* Proofs about Sweep, for every plan, test split and command line, and every  *)
(* number of threads, arms, launches and faults.  A job is handed from the     *)
(* queue to a thread to the results, and the argument follows it: the jobs of  *)
(* a launch partition what is to be done (JobsPartition, KeptFacts), a thread  *)
(* keeps to the files of its job (JobsApart, OwnFiles), and no unit is lost on *)
(* the way (Accounted, Drained).  The readers then see a directory whose files *)
(* are the plan's (DirectoryFacts), whole where a launch ended with code 0.    *)
EXTENDS Sweep, SequenceTheorems, FiniteSetTheorems, WellFoundedInduction, TLAPS

-----------------------------------------------------------------------------
(* The cut into jobs *)

LEMMA Dividing ==
    ASSUME NEW n \in Nat, NEW k \in Nat \ {0}
    PROVE  /\ n \div k \in Nat /\ n % k \in 0 .. k - 1
           /\ n = k * (n \div k) + (n % k)
  OBVIOUS

LEMMA SameQuotient ==
    ASSUME NEW m \in Nat, NEW n \in Nat, NEW k \in Nat \ {0}, m \div k = n \div k, m % k = n % k
    PROVE  m = n
  BY Dividing

LEMMA Recombine ==
    ASSUME NEW q \in Nat, NEW r \in Nat, NEW k \in Nat \ {0}, r < k
    PROVE  (k * q + r) \div k = q /\ (k * q + r) % k = r
  OBVIOUS

LEMMA QuotientBelow ==
    ASSUME NEW n \in Nat, NEW q \in Nat, NEW k \in Nat \ {0}, n < q * k
    PROVE  n \div k < q
  BY Dividing

\* A sequence holds its elements.
LEMMA Elements == ASSUME NEW S, NEW s \in Seq(S) PROVE s \in Seq(InSeq(s)) /\ InSeq(s) \subseteq S
  BY DEF InSeq

LEMMA MappedSeq ==
    ASSUME NEW T, NEW n \in Nat, NEW f, f = [i \in 1 .. n |-> f[i]], \A i \in 1 .. n : f[i] \in T
    PROVE  f \in Seq(T) /\ Len(f) = n /\ DOMAIN f = 1 .. n
  OBVIOUS

\* What LaunchConstants says of one plan.
LEMMA PlanFacts ==
    ASSUME NEW p \in Plans
    PROVE  /\ p.tasks \in Seq(InSeq(p.tasks)) /\ p.instances \in Seq(InSeq(p.instances))
           /\ InSeq(p.instances) \subseteq Nat /\ p.rollouts \in Nat \ {0}
           /\ Distinct(p.tasks) /\ Distinct(p.instances)
  BY LaunchConstants, Elements

\* Slice c of size k begins after b and ends at e, and is not empty.
LEMMA ChunksBounds ==
    ASSUME NEW n \in Nat, NEW k \in Nat \ {0}, NEW q \in Nat, q = (n + k - 1) \div k, NEW c \in 1 .. q,
           NEW b, b = (c - 1) * k, NEW e, e = (IF c * k < n THEN c * k ELSE n)
    PROVE  /\ b \in Nat /\ b = k * (c - 1) /\ b < n /\ e \in Nat /\ b < e /\ e <= n /\ e <= b + k
           /\ e = n \/ e = b + k
  <1>1. n + k - 1 \in Nat /\ c \in Nat /\ c - 1 \in Nat OBVIOUS
  <1>2. n + k - 1 = k * q + ((n + k - 1) % k) /\ (n + k - 1) % k \in 0 .. k - 1 BY <1>1, Dividing
  <1>3. k * c <= k * q OBVIOUS
  <1>4. c * k = k * c /\ (c - 1) * k = k * c - k /\ k * c \in Nat /\ k * q \in Nat /\ (c - 1) * k \in Nat
        /\ (c - 1) * k = k * (c - 1)
    BY <1>1
  <1>5. k * c <= n + k - 1 BY <1>1, <1>2, <1>3, <1>4
  <1> DEFINE t == k * c
  <1>6. t \in Nat /\ t <= n + k - 1 /\ b = t - k /\ e = (IF t < n THEN t ELSE n) /\ b \in Nat /\ b = k * (c - 1)
    BY <1>4, <1>5
  <1> HIDE DEF t
  <1>7. b \in Nat /\ b < n /\ e \in Nat /\ b < e /\ e <= n /\ e <= b + k /\ (e = n \/ e = b + k) BY <1>6
  <1>8. QED BY <1>6, <1>7

\* The positions of slice d + 1 are those whose quotient is d.
LEMMA SlicePositions ==
    ASSUME NEW m \in Nat \ {0}, NEW k \in Nat \ {0}, NEW d \in Nat, NEW b \in Nat, b = k * d
    PROVE  (m - 1) \div k = d <=> b < m /\ m <= b + k
  <1>1. ASSUME (m - 1) \div k = d PROVE b < m /\ m <= b + k
    <2>a. m - 1 \in Nat OBVIOUS
    <2>b. m - 1 = k * ((m - 1) \div k) + ((m - 1) % k) /\ (m - 1) % k \in 0 .. k - 1 BY <2>a, Dividing
    <2>1. m - 1 = k * d + ((m - 1) % k) /\ (m - 1) % k \in 0 .. k - 1 BY <1>1, <2>b, Zenon
    <2>2. m - 1 = b + ((m - 1) % k) BY <2>1
    <2> DEFINE r == (m - 1) % k
    <2>3. r \in 0 .. k - 1 /\ m - 1 = b + r BY <2>1, <2>2
    <2> HIDE DEF r
    <2>4. QED BY <2>3
  <1>2. ASSUME b < m, m <= b + k PROVE (m - 1) \div k = d
    <2>1. m - 1 - b \in Nat /\ m - 1 - b < k BY <1>2
    <2>2. (k * d + (m - 1 - b)) \div k = d BY <2>1, Recombine
    <2>3. k * d + (m - 1 - b) = m - 1 OBVIOUS
    <2>4. QED BY <2>2, <2>3
  <1>3. QED BY <1>1, <1>2

LEMMA SliceHolds ==
    ASSUME NEW S, NEW s \in Seq(S), NEW b \in Nat, NEW e \in Nat, b < e, e <= Len(s),
           NEW sub, sub = SubSeq(s, b + 1, e)
    PROVE  /\ sub \in Seq(S) /\ sub # <<>>
           /\ \A m \in DOMAIN sub : m + b \in DOMAIN s /\ sub[m] = s[m + b] /\ b < m + b /\ m + b <= e
           /\ \A m \in DOMAIN s : b < m /\ m <= e => s[m] \in InSeq(sub)
  <1>1. Len(s) \in Nat /\ DOMAIN s = 1 .. Len(s) OBVIOUS
  <1>4. \A i \in b + 1 .. e : s[i] \in S BY <1>1
  <1>6. /\ sub \in Seq(S) /\ Len(sub) = e - b
        /\ \A i \in 1 .. e - b : sub[i] = s[b + i]
    <2>1. b + 1 \in Int /\ e \in Int /\ e - (b + 1) + 1 = e - b /\ b + 1 <= e OBVIOUS
    <2>2. /\ sub \in Seq(S) /\ Len(sub) = e - (b + 1) + 1
          /\ \A i \in 1 .. e - (b + 1) + 1 : sub[i] = s[b + 1 + i - 1]
      BY <1>4, <2>1, SubSeqProperties
    <2>3. QED BY <2>1, <2>2
  <1>7. DOMAIN sub = 1 .. e - b BY <1>6
  <1>8. ASSUME NEW m \in DOMAIN sub
        PROVE  m + b \in DOMAIN s /\ sub[m] = s[m + b] /\ b < m + b /\ m + b <= e
    <2>5. m \in 1 .. e - b /\ m + b \in 1 .. Len(s) /\ b + m = m + b BY <1>1, <1>7
    <2>6. QED BY <1>1, <1>6, <2>5
  <1>9. ASSUME NEW m \in DOMAIN s, b < m, m <= e PROVE s[m] \in InSeq(sub)
    <2>5. m - b \in 1 .. e - b /\ b + (m - b) = m BY <1>9, <1>1
    <2>6. sub[m - b] = s[m] BY <2>5, <1>6
    <2>7. QED BY <2>5, <2>6, <1>7 DEF InSeq
  <1>10. sub # <<>> BY <1>6
  <1>11. QED BY <1>6, <1>8, <1>9, <1>10

\* build_jobs cuts the instances into slices that are disjoint and lose nothing.
LEMMA ChunksPartition ==
    ASSUME NEW p \in Plans, NEW k \in Nat, NEW cs, cs = Chunks(p, k)
    PROVE  /\ cs \in Seq(Seq(InSeq(p.instances)))
           /\ \A c, d \in DOMAIN cs : c # d => InSeq(cs[c]) \cap InSeq(cs[d]) = {}
           /\ \A x \in InSeq(p.instances) : \E c \in DOMAIN cs : x \in InSeq(cs[c])
           /\ \A c \in DOMAIN cs : cs[c] = <<>> => p.instances = <<>>
  <1> DEFINE s == p.instances  S == InSeq(p.instances)  n == Len(p.instances)  q == (n + k - 1) \div k
  <1>1. s \in Seq(S) /\ Distinct(s) BY PlanFacts
  <1>2. n \in Nat /\ n = Len(s) /\ DOMAIN s = 1 .. n BY <1>1
  <1>3. CASE k = 0
    <2>1. cs = <<s>> BY <1>3 DEF Chunks
    <2>2. QED BY <1>1, <2>1
  <1>4. CASE k # 0
    <2>1. cs = [c \in 1 .. q |-> SubSeq(s, (c - 1) * k + 1, IF c * k < n THEN c * k ELSE n)]
      BY <1>4 DEF Chunks
    <2>2. q \in Nat /\ k \in Nat \ {0}
      <3>1. k \in Nat \ {0} /\ n + k - 1 \in Nat BY <1>2, <1>4
      <3>2. QED BY <3>1, Dividing
    <2> HIDE DEF s, S, n, q
    <2>3. \A c \in 1 .. q : cs[c] = SubSeq(s, (c - 1) * k + 1, IF c * k < n THEN c * k ELSE n)
      BY <2>1
    <2>4. q = (Len(s) + k - 1) \div k /\ n = Len(s) BY DEF q, n, s
    <2>5. ASSUME NEW c \in 1 .. q
          PROVE  /\ cs[c] \in Seq(S) /\ cs[c] # <<>>
                 /\ \A m \in DOMAIN cs[c] : m + (c - 1) * k \in DOMAIN s /\ cs[c][m] = s[m + (c - 1) * k]
                                            /\ (m + (c - 1) * k - 1) \div k = c - 1
                 /\ \A m \in DOMAIN s : (m - 1) \div k = c - 1 => s[m] \in InSeq(cs[c])
      <3> DEFINE b == (c - 1) * k  e == IF c * k < n THEN c * k ELSE n
      <3>1. cs[c] = SubSeq(s, b + 1, e) BY <2>3
      <3>2. n \in Nat /\ n = Len(s) BY <1>2, <2>4
      <3>3. /\ b \in Nat /\ b = k * (c - 1) /\ b < n /\ e \in Nat /\ b < e /\ e <= n /\ e <= b + k
            /\ e = n \/ e = b + k
        BY <2>2, <2>4, <3>2, ChunksBounds
      <3>4. c - 1 \in Nat BY <2>2
      <3> HIDE DEF b, e
      <3>5. /\ cs[c] \in Seq(S) /\ cs[c] # <<>>
            /\ \A m \in DOMAIN cs[c] : m + b \in DOMAIN s /\ cs[c][m] = s[m + b] /\ b < m + b /\ m + b <= e
            /\ \A m \in DOMAIN s : b < m /\ m <= e => s[m] \in InSeq(cs[c])
        <4>1. b \in Nat /\ e \in Nat /\ b < e /\ e <= Len(s) BY <3>2, <3>3
        <4> HIDE DEF n
        <4>2. QED BY <1>1, <3>1, <4>1, SliceHolds
      <3>7. \A m \in DOMAIN s : (m - 1) \div k = c - 1 <=> b < m /\ m <= b + k
        BY <1>2, <2>2, <3>3, <3>4, SlicePositions
      <3>8. \A m \in DOMAIN s : m \in Nat /\ m <= n BY <1>2
      <3>9. \A m \in DOMAIN s : m <= e <=> m <= b + k
        BY <3>2, <3>3, <3>8, <2>2
      <3>6. QED BY <3>5, <3>7, <3>9 DEF b
    <2>6. cs \in Seq(Seq(S)) /\ DOMAIN cs = 1 .. q
      <3>1. DOMAIN cs = 1 .. q /\ \A c \in 1 .. q : cs[c] \in Seq(S) BY <2>1, <2>5
      <3>2. cs = [c \in 1 .. q |-> cs[c]] BY <2>1, Zenon
      <3>3. QED BY <2>2, <3>1, <3>2, MappedSeq
    <2>7. ASSUME NEW c \in 1 .. q, NEW d \in 1 .. q, c # d PROVE InSeq(cs[c]) \cap InSeq(cs[d]) = {}
      <3>1. SUFFICES ASSUME NEW x \in InSeq(cs[c]), x \in InSeq(cs[d]) PROVE FALSE OBVIOUS
      <3>2. PICK l \in DOMAIN cs[c] : x = cs[c][l] BY <3>1 DEF InSeq
      <3>3. PICK m \in DOMAIN cs[d] : x = cs[d][m] BY <3>1 DEF InSeq
      <3> DEFINE y == l + (c - 1) * k  z == m + (d - 1) * k
      <3>4. y \in DOMAIN s /\ x = s[y] /\ (y - 1) \div k = c - 1 BY <2>5, <3>2
      <3>5. z \in DOMAIN s /\ x = s[z] /\ (z - 1) \div k = d - 1 BY <2>5, <3>3
      <3> HIDE DEF y, z
      <3>6. y = z BY <1>1, <3>4, <3>5 DEF Distinct, s
      <3>7. c - 1 = d - 1 BY <3>4, <3>5, <3>6
      <3>8. QED BY <2>7, <3>7
    <2>8. ASSUME NEW x \in S PROVE \E c \in 1 .. q : x \in InSeq(cs[c])
      <3>1. PICK m \in 1 .. n : x = s[m] BY <2>8, <1>2 DEF InSeq, S, s
      <3>2. m - 1 \in Nat /\ m - 1 <= n - 1 /\ n \in Nat BY <3>1, <1>2 DEF n
      <3>3. m - 1 = k * ((m - 1) \div k) + ((m - 1) % k) /\ (m - 1) \div k \in Nat /\ (m - 1) % k \in 0 .. k - 1
        BY <3>2, <2>2, Dividing
      <3>a. n + k - 1 \in Nat /\ q = (n + k - 1) \div k BY <2>2, <2>4, <3>2
      <3>4. n + k - 1 = k * q + ((n + k - 1) % k) /\ (n + k - 1) % k \in 0 .. k - 1
        BY <2>2, <3>a, Dividing
      <3>5. m - 1 < q * k
        <4>1. k * q \in Nat /\ k * q > n - 1 BY <3>2, <3>4, <2>2
        <4>2. QED BY <4>1, <3>2, <2>2
      <3>6. (m - 1) \div k < q BY <3>2, <3>5, <2>2, QuotientBelow
      <3>7. (m - 1) \div k + 1 \in 1 .. q BY <3>3, <3>6, <2>2
      <3>8. m \in DOMAIN s BY <3>1, <2>4, <1>1
      <3>9. s[m] \in InSeq(cs[(m - 1) \div k + 1]) BY <3>3, <3>7, <3>8, <2>5
      <3>10. QED BY <3>1, <3>7, <3>9
    <2>9. QED BY <2>5, <2>6, <2>7, <2>8 DEF S
  <1>5. QED BY <1>3, <1>4

\* A chunk is empty only if the plan has no instances.
Chunk(p) == {c \in Seq(InSeq(p.instances)) : c = <<>> => p.instances = <<>>}
JobsOf(p) == {Job(p, t, c) : t \in InSeq(p.tasks), c \in Chunk(p)}
JobUnits(job) == {job.task} \X InSeq(job.instances)
Apart(j, k) == JobUnits(j) \cap JobUnits(k) = {}

\* A job is of one task and of instances of the plan.
LEMMA JobFacts ==
    ASSUME NEW p \in Plans, NEW job \in JobsOf(p)
    PROVE  /\ job.task \in InSeq(p.tasks) /\ job.instances \in Seq(InSeq(p.instances))
           /\ InSeq(job.instances) \subseteq InSeq(p.instances)
           /\ job = [task |-> job.task, instances |-> job.instances,
                     indices |-> IndicesForIds(job.instances, p.mode)]
           /\ JobUnits(job) \subseteq Units(p)
           /\ job.instances = <<>> => p.instances = <<>>
  <1>1. PICK t \in InSeq(p.tasks), c \in Chunk(p) : job = Job(p, t, c) BY DEF JobsOf
  <1>2. job = [task |-> t, instances |-> c, indices |-> IndicesForIds(c, p.mode)] BY <1>1 DEF Job
  <1>3. job.task = t /\ job.instances = c BY <1>2
  <1>4. c \in Seq(InSeq(p.instances)) /\ (c = <<>> => p.instances = <<>>) BY DEF Chunk
  <1>5. InSeq(c) \subseteq InSeq(p.instances) BY <1>4, Elements
  <1>6. QED BY <1>2, <1>3, <1>4, <1>5 DEF JobUnits, Units

\* The jobs of a sweep are disjoint and together they are the whole grid.
LEMMA JobsPartition ==
    ASSUME NEW p \in Plans, NEW k \in Nat, NEW js, js = BuildJobs(p, k)
    PROVE  /\ js \in Seq(JobsOf(p))
           /\ \A m, n \in DOMAIN js : m # n => Apart(js[m], js[n])
           /\ \A u \in Units(p) : \E n \in DOMAIN js : u \in JobUnits(js[n])
  <1> DEFINE cs == Chunks(p, k)  l == Len(cs)  t == Len(p.tasks)
             task(n) == p.tasks[((n - 1) \div l) + 1]  chunk(n) == cs[((n - 1) % l) + 1]
  <1>1. /\ cs \in Seq(Seq(InSeq(p.instances)))
        /\ \A c, d \in DOMAIN cs : c # d => InSeq(cs[c]) \cap InSeq(cs[d]) = {}
        /\ \A x \in InSeq(p.instances) : \E c \in DOMAIN cs : x \in InSeq(cs[c])
        /\ \A c \in DOMAIN cs : cs[c] = <<>> => p.instances = <<>>
    BY ChunksPartition
  <1>2. p.tasks \in Seq(InSeq(p.tasks)) /\ Distinct(p.tasks) BY PlanFacts
  <1>3. js = [n \in 1 .. t * l |-> Job(p, task(n), chunk(n))] BY DEF BuildJobs
  <1> HIDE DEF cs
  <1>4. l \in Nat /\ t \in Nat /\ DOMAIN cs = 1 .. l /\ DOMAIN p.tasks = 1 .. t BY <1>1, <1>2
  <1> DEFINE N == t * l
  <1>5. N \in Nat BY <1>4
  <1> HIDE DEF l, t
  <1>6. ASSUME NEW n \in 1 .. N
        PROVE  /\ l \in Nat \ {0} /\ n - 1 \in Nat
               /\ ((n - 1) \div l) + 1 \in DOMAIN p.tasks /\ ((n - 1) % l) + 1 \in DOMAIN cs
    <2>1. l # 0 BY <1>4
    <2>2. l \in Nat \ {0} /\ n - 1 \in Nat /\ n - 1 < t * l BY <1>4, <2>1
    <2>3. (n - 1) \div l \in Nat /\ (n - 1) % l \in 0 .. l - 1 BY <2>2, Dividing
    <2>4. (n - 1) \div l < t BY <2>2, <1>4, QuotientBelow
    <2>5. QED BY <2>2, <2>3, <2>4, <1>4
  <1>7. ASSUME NEW n \in 1 .. N
        PROVE  /\ js[n] \in JobsOf(p) /\ js[n].task = task(n) /\ js[n].instances = chunk(n)
    <2>1. js[n] = Job(p, task(n), chunk(n)) BY <1>3
    <2>2. task(n) \in InSeq(p.tasks) BY <1>6 DEF InSeq
    <2>3. chunk(n) \in Chunk(p)
      <3> DEFINE c == ((n - 1) % l) + 1
      <3>1. c \in DOMAIN cs BY <1>6
      <3>2. cs[c] \in Seq(InSeq(p.instances)) /\ (cs[c] = <<>> => p.instances = <<>>) BY <1>1, <3>1
      <3>3. QED BY <3>2 DEF Chunk
    <2>4. QED BY <2>1, <2>2, <2>3 DEF JobsOf, Job
  <1>8. js \in Seq(JobsOf(p)) /\ DOMAIN js = 1 .. N
    <2>1. js = [n \in 1 .. N |-> js[n]] BY <1>3, Zenon
    <2>2. QED BY <2>1, <1>5, <1>7, MappedSeq
  <1>9. ASSUME NEW m \in 1 .. N, NEW n \in 1 .. N, m # n PROVE Apart(js[m], js[n])
    <2>1. SUFFICES ASSUME NEW u \in JobUnits(js[m]), u \in JobUnits(js[n]) PROVE FALSE BY DEF Apart
    <2>2. u[1] = task(m) /\ u[1] = task(n) /\ u[2] \in InSeq(chunk(m)) /\ u[2] \in InSeq(chunk(n))
      BY <1>7, <2>1 DEF JobUnits
    <2>3. ((m - 1) \div l) + 1 = ((n - 1) \div l) + 1 BY <2>2, <1>6, <1>2 DEF Distinct
    <2>4. ((m - 1) % l) + 1 = ((n - 1) % l) + 1 BY <2>2, <1>6, <1>1
    <2>5. m - 1 \in Nat /\ n - 1 \in Nat /\ l \in Nat \ {0} BY <1>6
    <2>a. /\ (m - 1) \div l \in Nat /\ (n - 1) \div l \in Nat
          /\ (m - 1) % l \in 0 .. l - 1 /\ (n - 1) % l \in 0 .. l - 1
      BY <2>5, Dividing
    <2> DEFINE a == (m - 1) \div l  b == (n - 1) \div l  c == (m - 1) % l  d == (n - 1) % l
    <2>b. a + 1 = b + 1 /\ c + 1 = d + 1 /\ a \in Nat /\ b \in Nat /\ c \in 0 .. l - 1 /\ d \in 0 .. l - 1
      BY <2>3, <2>4, <2>a
    <2> HIDE DEF a, b, c, d
    <2>c. a = b /\ c = d BY <2>b
    <2>6. (m - 1) \div l = (n - 1) \div l /\ (m - 1) % l = (n - 1) % l BY <2>c DEF a, b, c, d
    <2>7. m - 1 = n - 1 BY <2>5, <2>6, SameQuotient
    <2>8. QED BY <1>9, <2>7
  <1>10. ASSUME NEW u \in Units(p) PROVE \E n \in 1 .. N : u \in JobUnits(js[n])
    <2>1. u = <<u[1], u[2]>> /\ u[1] \in InSeq(p.tasks) /\ u[2] \in InSeq(p.instances) BY <1>10 DEF Units
    <2>2. PICK a \in 1 .. t : u[1] = p.tasks[a] BY <2>1, <1>4 DEF InSeq
    <2>3. PICK c \in 1 .. l : u[2] \in InSeq(cs[c]) BY <2>1, <1>1, <1>4
    <2> DEFINE n == l * (a - 1) + (c - 1) + 1
    <2>4. l \in Nat \ {0} /\ a - 1 \in Nat /\ c - 1 \in Nat /\ c - 1 < l BY <1>4, <2>2, <2>3
    <2>5. (l * (a - 1) + (c - 1)) \div l = a - 1 /\ (l * (a - 1) + (c - 1)) % l = c - 1 BY <2>4, Recombine
    <2>6. l * (a - 1) \in Nat /\ l * (a - 1) + l <= t * l
      <3>1. l * (a - 1) + l = l * a /\ l * a <= l * t /\ l * t = t * l BY <1>4, <2>4
      <3>2. QED BY <3>1, <2>4
    <2>7. n \in 1 .. N /\ n - 1 = l * (a - 1) + (c - 1) BY <2>4, <2>6, <1>5
    <2> HIDE DEF n
    <2>8. (n - 1) \div l = a - 1 /\ (n - 1) % l = c - 1 BY <2>5, <2>7, Zenon
    <2>9. task(n) = u[1] /\ chunk(n) = cs[c] BY <2>2, <2>3, <2>4, <2>8
    <2>10. u \in JobUnits(js[n]) BY <1>7, <2>1, <2>3, <2>7, <2>9 DEF JobUnits
    <2>11. QED BY <2>7, <2>10
  <1>11. QED BY <1>8, <1>9, <1>10

\* Induction up to N, for a set in place of a predicate: a least counterexample.
LEMMA Climb ==
    ASSUME NEW N \in Nat, NEW Fine, 0 \in Fine, \A k \in 0 .. N - 1 : k \in Fine => k + 1 \in Fine
    PROVE  N \in Fine
  <1> DEFINE Bad == {k \in 0 .. N : k \notin Fine}
  <1>1. SUFFICES ASSUME N \notin Fine PROVE FALSE OBVIOUS
  <1>2. Bad \subseteq Nat /\ N \in Bad BY <1>1
  <1>3. PICK k \in Bad : \A j \in Bad : <<j, k>> \notin OpToRel(<, Nat)
    BY <1>2, NatLessThanWellFounded, WFMin
  <1>a. k \in 0 .. N /\ k \notin Fine BY <1>3
  <1>4. k \in 0 .. N /\ k \in Nat /\ k # 0 /\ k \notin Fine BY <1>a
  <1>5. k - 1 \in 0 .. N - 1 /\ k - 1 \in 0 .. N /\ k - 1 \in Nat /\ k - 1 < k /\ (k - 1) + 1 = k BY <1>4
  <1>6. k - 1 \notin Bad BY <1>3, <1>4, <1>5 DEF OpToRel
  <1>7. QED BY <1>4, <1>5, <1>6

\* The recursive definition in Kept has the value its body says: by induction over
\* the jobs.
KeptBody(all, resume, done, f, n) ==
    IF n = 0 THEN <<>>
    ELSE IF resume /\ AlreadyDone(all[n], done) THEN f[n - 1] ELSE Append(f[n - 1], all[n])

LEMMA AppendFacts ==
    ASSUME NEW S, NEW s \in Seq(S), NEW x \in S
    PROVE  /\ Append(s, x) \in Seq(S) /\ Len(Append(s, x)) = Len(s) + 1
           /\ \A n \in 1 .. Len(s) : Append(s, x)[n] = s[n]
           /\ Append(s, x)[Len(s) + 1] = x
  OBVIOUS

\* The jobs a launch takes are apart, and it leaves out only what is done already.
LEMMA KeptFacts ==
    ASSUME NEW S, NEW all \in Seq(S), NEW resume, NEW done, NEW ks, ks = Kept(all, resume, done),
           \A m, n \in DOMAIN all : m # n => Apart(all[m], all[n])
    PROVE  /\ ks \in Seq(S) /\ InSeq(ks) \subseteq InSeq(all)
           /\ \A m, n \in DOMAIN ks : m # n => Apart(ks[m], ks[n])
           /\ \A n \in DOMAIN all : all[n] \in InSeq(ks) \/ (resume /\ AlreadyDone(all[n], done))
  <1> DEFINE N == Len(all)  body(f, n) == KeptBody(all, resume, done, f, n)
             IsKept(f, k) == f = [n \in 0 .. k |-> body(f, n)]
             Good(s, k) == /\ s \in Seq(S) /\ \A m \in DOMAIN s : \E l \in 1 .. k : s[m] = all[l]
                           /\ \A m, n \in DOMAIN s : m # n => Apart(s[m], s[n])
                           /\ \A n \in 1 .. k : all[n] \in InSeq(s) \/ (resume /\ AlreadyDone(all[n], done))
             Fine(k) == (\E f : IsKept(f, k)) /\ \A f : IsKept(f, N) => Good(f[k], k)
  <1>1. N \in Nat /\ DOMAIN all = 1 .. N /\ \A n \in 1 .. N : all[n] \in S OBVIOUS
  <1>2. ks = (CHOOSE f : IsKept(f, N))[N] BY DEF Kept, KeptBody
  <1> HIDE DEF N
  <1>3. Fine(0)
    <2> DEFINE f == [n \in 0 .. 0 |-> <<>>]
    <2>1. \A n \in 0 .. 0 : body(f, n) = <<>> BY DEF KeptBody
    <2>2. IsKept(f, 0) BY <2>1, Zenon
    <2>3. Good(<<>>, 0) OBVIOUS
    <2>4. ASSUME NEW g, IsKept(g, N) PROVE g[0] = <<>>
      <3>1. 0 \in 0 .. N BY <1>1
      <3>2. g[0] = body(g, 0) BY <2>4, <3>1, Zenon
      <3>3. QED BY <3>2 DEF KeptBody
    <2> HIDE DEF f, Good, IsKept
    <2>5. QED BY <2>2, <2>3, <2>4, Zenon
  <1>4. ASSUME NEW k \in 0 .. N - 1, Fine(k) PROVE Fine(k + 1)
    <2>1. k \in Nat /\ k + 1 \in 1 .. N /\ k + 1 \in 0 .. N /\ k + 1 # 0 /\ k + 1 - 1 = k BY <1>1
    <2>2. \E f : IsKept(f, k + 1)
      <3>1. PICK f : IsKept(f, k) BY <1>4, Zenon
      <3> DEFINE g == [n \in 0 .. k + 1 |-> IF n = k + 1 THEN body(f, n) ELSE f[n]]
      <3>2. \A n \in 0 .. k : f[n] = body(f, n) BY <3>1, Zenon
      <3>3. \A n \in 0 .. k : g[n] = f[n] /\ n \in Nat BY <2>1
      <3>4. \A n \in 0 .. k : body(g, n) = body(f, n)
        <4>1. TAKE n \in 0 .. k
        <4>2. CASE n = 0 BY <4>2 DEF KeptBody
        <4>3. CASE n # 0
          <5>1. n - 1 \in 0 .. k BY <4>3, <2>1
          <5>2. g[n - 1] = f[n - 1] BY <5>1, <3>3
          <5>3. QED BY <4>3, <5>2 DEF KeptBody
        <4>4. QED BY <4>2, <4>3
      <3>5. g[k + 1] = body(f, k + 1) /\ body(g, k + 1) = body(f, k + 1)
        <4>1. k \in 0 .. k /\ k + 1 \in 0 .. k + 1 BY <2>1
        <4>2. g[k + 1 - 1] = f[k + 1 - 1] BY <4>1, <3>3, <2>1
        <4>3. QED BY <4>1, <4>2 DEF KeptBody
      <3>6. g = [n \in 0 .. k + 1 |-> g[n]] OBVIOUS
      <3> HIDE DEF g
      <3>7. \A n \in 0 .. k + 1 : g[n] = body(g, n)
        <4>1. \A n \in 0 .. k + 1 : n = k + 1 \/ n \in 0 .. k BY <2>1
        <4>2. QED BY <4>1, <3>2, <3>3, <3>4, <3>5
      <3>8. IsKept(g, k + 1) BY <3>6, <3>7, Zenon
      <3>9. QED BY <3>8
    <2>3. ASSUME NEW f, IsKept(f, N) PROVE Good(f[k + 1], k + 1)
      <3> DEFINE s == f[k]
      <3>1. f[k + 1] = IF resume /\ AlreadyDone(all[k + 1], done) THEN s ELSE Append(s, all[k + 1])
        <4>1. f[k + 1] = body(f, k + 1) BY <2>3, <2>1, Zenon
        <4>2. QED BY <4>1, <2>1 DEF KeptBody
      <3>2. Good(s, k)
        <4> HIDE DEF Good, IsKept
        <4>1. QED BY <1>4, <2>3, Zenon
      <3> HIDE DEF s
      <3>3. \A l \in 1 .. k : l \in 1 .. k + 1 /\ l # k + 1 /\ l \in DOMAIN all BY <1>1, <2>1
      <3>4. \A l \in 1 .. k + 1 : l \in 1 .. k \/ l = k + 1 BY <2>1
      <3>5. CASE resume /\ AlreadyDone(all[k + 1], done)
        <4>1. f[k + 1] = s BY <3>1, <3>5
        <4>2. \A m \in DOMAIN s : \E l \in 1 .. k + 1 : s[m] = all[l] BY <3>2, <3>3
        <4>3. \A n \in 1 .. k + 1 : all[n] \in InSeq(s) \/ (resume /\ AlreadyDone(all[n], done))
          BY <3>2, <3>4, <3>5
        <4>4. QED BY <3>2, <4>1, <4>2, <4>3
      <3>6. CASE ~(resume /\ AlreadyDone(all[k + 1], done))
        <4> DEFINE t == Append(s, all[k + 1])
        <4>1. f[k + 1] = t BY <3>1, <3>6
        <4>2. all[k + 1] \in S /\ s \in Seq(S) BY <1>1, <2>1, <3>2
        <4>3. /\ t \in Seq(S) /\ Len(t) = Len(s) + 1 /\ t[Len(s) + 1] = all[k + 1]
              /\ \A n \in 1 .. Len(s) : t[n] = s[n]
          BY <4>2, AppendFacts
        <4>4. Len(s) \in Nat /\ DOMAIN s = 1 .. Len(s) /\ DOMAIN t = 1 .. Len(s) + 1 BY <4>2, <4>3
        <4> HIDE DEF t
        <4>5. \A m \in DOMAIN t : m \in DOMAIN s \/ m = Len(s) + 1 BY <4>4
        <4>6. \A m \in DOMAIN s : t[m] = s[m] /\ m \in DOMAIN t /\ m # Len(s) + 1 BY <4>3, <4>4
        <4>7. Len(s) + 1 \in DOMAIN t BY <4>4
        <4>8. \A m \in DOMAIN t : \E l \in 1 .. k + 1 : t[m] = all[l]
          <5>1. ASSUME NEW m \in DOMAIN s PROVE \E l \in 1 .. k + 1 : t[m] = all[l]
            <6>1. PICK l \in 1 .. k : s[m] = all[l] BY <3>2
            <6>2. QED BY <6>1, <3>3, <4>6
          <5>2. k + 1 \in 1 .. k + 1 BY <2>1
          <5>3. QED BY <5>1, <5>2, <4>3, <4>5
        <4>9. \A m \in DOMAIN s : Apart(s[m], all[k + 1]) /\ Apart(all[k + 1], s[m])
          <5>1. TAKE m \in DOMAIN s
          <5>2. PICK l \in 1 .. k : s[m] = all[l] BY <3>2
          <5>3. QED BY <5>2, <3>3, <2>1, <1>1
        <4>10. \A m, n \in DOMAIN t : m # n => Apart(t[m], t[n])
          BY <3>2, <4>3, <4>5, <4>6, <4>9
        <4>11. all[k + 1] \in InSeq(t) /\ InSeq(s) \subseteq InSeq(t)
          BY <4>3, <4>6, <4>7 DEF InSeq
        <4>12. \A n \in 1 .. k + 1 : all[n] \in InSeq(t) \/ (resume /\ AlreadyDone(all[n], done))
          BY <3>2, <3>4, <4>11
        <4>13. QED BY <4>1, <4>3, <4>8, <4>10, <4>12
      <3>7. QED BY <3>5, <3>6
    <2> HIDE DEF IsKept, Good
    <2>4. QED BY <2>2, <2>3, Zenon
  <1>7. Fine(N)
    <2> DEFINE F == {k \in Nat : Fine(k)}
    <2> HIDE DEF Fine
    <2>1. 0 \in F BY <1>3
    <2>2. \A k \in 0 .. N - 1 : k \in F => k + 1 \in F BY <1>1, <1>4
    <2> HIDE DEF F
    <2>3. N \in F BY <1>1, <2>1, <2>2, Climb
    <2>4. QED BY <2>3 DEF F
  <1>8. Good(ks, N)
    <2> HIDE DEF IsKept, Good
    <2>1. QED BY <1>2, <1>7, Zenon
  <1>9. InSeq(ks) \subseteq InSeq(all)
    <2>1. \A m \in DOMAIN ks : \E l \in 1 .. N : ks[m] = all[l] BY <1>8
    <2>2. QED BY <2>1, <1>1 DEF InSeq
  <1>10. QED BY <1>1, <1>8, <1>9

\* Every unit of the plan is in a job of the launch, or has a result it resumes from.
LEMMA LaunchedFacts ==
    ASSUME NEW p \in Plans, NEW o \in Options, NEW d, NEW js, js = ToLaunch(p, o, d)
    PROVE  /\ js \in Seq(JobsOf(p))
           /\ \A m, n \in DOMAIN js : m # n => Apart(js[m], js[n])
           /\ \A u \in Units(p) : (\E n \in DOMAIN js : u \in JobUnits(js[n])) \/ (o.resume /\ u \in CompletedKeys(d))
  <1> DEFINE all == BuildJobs(p, o.perJob)  done == CompletedKeys(d)
  <1>1. o.perJob \in Nat BY LaunchConstants
  <1>2. /\ all \in Seq(JobsOf(p))
        /\ \A m, n \in DOMAIN all : m # n => Apart(all[m], all[n])
        /\ \A u \in Units(p) : \E n \in DOMAIN all : u \in JobUnits(all[n])
    BY <1>1, JobsPartition
  <1>3. js = Kept(all, o.resume, done) BY DEF ToLaunch
  <1> HIDE DEF all, done
  <1>4. /\ js \in Seq(JobsOf(p))
        /\ \A m, n \in DOMAIN js : m # n => Apart(js[m], js[n])
        /\ \A n \in DOMAIN all : all[n] \in InSeq(js) \/ (o.resume /\ AlreadyDone(all[n], done))
    BY <1>2, <1>3, KeptFacts
  <1>5. ASSUME NEW u \in Units(p)
        PROVE  (\E n \in DOMAIN js : u \in JobUnits(js[n])) \/ (o.resume /\ u \in done)
    <2>1. PICK n \in DOMAIN all : u \in JobUnits(all[n]) BY <1>2
    <2>2. CASE all[n] \in InSeq(js) BY <2>1, <2>2 DEF InSeq
    <2>3. CASE o.resume /\ AlreadyDone(all[n], done)
      <3>1. u = <<all[n].task, u[2]>> /\ u[2] \in InSeq(all[n].instances) BY <2>1 DEF JobUnits
      <3>2. QED BY <2>3, <3>1 DEF AlreadyDone
    <2>4. QED BY <1>4, <2>2, <2>3
  <1>6. QED BY <1>4, <1>5 DEF done

JobFiles(p, job) == {f \in Files(p) : <<f[1], f[2]>> \in JobUnits(job)}

\* The evaluator finds the instances again that the launcher gave as indices.
LEMMA RoundTrip ==
    ASSUME NEW p \in Plans, Accepted(p), NEW c \in Seq(InSeq(p.instances))
    PROVE  ResolveIds(IndicesForIds(c, p.mode), p.mode) = c
  <1> DEFINE m == p.mode  s == SplitIds(m)
  <1>1. CASE m = "train" BY <1>1 DEF ResolveIds, IndicesForIds
  <1>2. CASE m # "train"
    <2> DEFINE at(n) == CHOOSE k \in DOMAIN s : s[k] = c[n]
               is == [n \in DOMAIN c |-> at(n) - 1]
    <2>1. InSeq(p.instances) \subseteq InSeq(s) BY <1>2 DEF Accepted
    <2>2. s \in Seq(Nat) BY LaunchConstants DEF SplitIds
    <2>3. IndicesForIds(c, m) = is BY <1>2 DEF IndicesForIds
    <2>4. ResolveIds(is, m) = [n \in DOMAIN is |-> s[is[n] + 1]] BY <1>2 DEF ResolveIds
    <2> HIDE DEF s, m
    <2>5. ASSUME NEW n \in DOMAIN c PROVE s[is[n] + 1] = c[n]
      <3>1. c[n] \in InSeq(s) BY <2>1, <2>5
      <3>2. \E k \in DOMAIN s : s[k] = c[n] BY <3>1 DEF InSeq
      <3>3. at(n) \in DOMAIN s /\ s[at(n)] = c[n] BY <3>2
      <3> DEFINE k == at(n)
      <3>4. is[n] = k - 1 /\ k \in DOMAIN s /\ s[k] = c[n] BY <3>3
      <3> HIDE DEF k, is
      <3>5. k \in Nat BY <3>4, <2>2
      <3>6. is[n] + 1 = k BY <3>4, <3>5
      <3>7. QED BY <3>4, <3>6
    <2>6. DOMAIN is = DOMAIN c OBVIOUS
    <2>7. c = [n \in DOMAIN c |-> c[n]] OBVIOUS
    <2> HIDE DEF is
    <2>8. [n \in DOMAIN is |-> s[is[n] + 1]] = c BY <2>5, <2>6, <2>7
    <2>9. QED BY <2>3, <2>4, <2>8 DEF m
  <1>3. QED BY <1>1, <1>2

\* The evaluator of a job comes to the files of the job and to no others.
LEMMA CourseFacts ==
    ASSUME plan \in Plans, Accepted(plan), NEW job \in JobsOf(plan), NEW course, course = Course(BuildCommand(job))
    PROVE  course \in Seq(Files(plan)) /\ InSeq(course) = JobFiles(plan, job)
  <1> DEFINE c == job.instances  t == job.task  r == plan.rollouts
  <1>1. /\ t \in InSeq(plan.tasks) /\ c \in Seq(InSeq(plan.instances)) /\ r \in Nat \ {0}
        /\ job.indices = IndicesForIds(c, plan.mode)
    BY JobFacts, PlanFacts
  <1>2. ResolveIds(job.indices, plan.mode) = c BY <1>1, RoundTrip
  <1>3. course = [n \in 1 .. Len(c) * r |-> <<t, c[((n - 1) \div r) + 1], (n - 1) % r>>]
    BY <1>2 DEF Course, BuildCommand
  <1> DEFINE l == Len(c)  N == l * r
  <1>4. l \in Nat /\ DOMAIN c = 1 .. l /\ N \in Nat BY <1>1
  <1> HIDE DEF l, r
  <1>5. ASSUME NEW n \in 1 .. N
        PROVE  /\ n - 1 \in Nat /\ ((n - 1) \div r) + 1 \in DOMAIN c /\ (n - 1) % r \in 0 .. r - 1
    <2>1. r \in Nat \ {0} /\ n - 1 \in Nat /\ n - 1 < l * r BY <1>1, <1>4
    <2>2. (n - 1) \div r \in Nat /\ (n - 1) % r \in 0 .. r - 1 BY <2>1, Dividing
    <2>3. (n - 1) \div r < l BY <2>1, <1>4, QuotientBelow
    <2>4. QED BY <2>1, <2>2, <2>3, <1>4
  <1>6. ASSUME NEW n \in 1 .. N PROVE course[n] \in JobFiles(plan, job)
    <2> DEFINE x == c[((n - 1) \div r) + 1]  y == (n - 1) % r
    <2>1. course[n] = <<t, x, y>> BY <1>3 DEF l, r
    <2>a. InSeq(c) \subseteq InSeq(plan.instances) BY <1>1, Elements
    <2>2. x \in InSeq(c) /\ y \in 0 .. r - 1 /\ x \in InSeq(plan.instances) BY <2>a, <1>5 DEF InSeq
    <2> HIDE DEF x, y
    <2>3. QED BY <1>1, <2>1, <2>2 DEF JobFiles, Files, JobUnits, r
  <1>7. ASSUME NEW f \in JobFiles(plan, job) PROVE \E n \in 1 .. N : course[n] = f
    <2>1. f = <<t, f[2], f[3]>> /\ f[2] \in InSeq(c) /\ f[3] \in 0 .. r - 1
      BY DEF JobFiles, Files, JobUnits, r
    <2>2. PICK m \in 1 .. l : f[2] = c[m] BY <2>1, <1>4 DEF InSeq
    <2> DEFINE n == r * (m - 1) + f[3] + 1
    <2>3. m - 1 \in Nat /\ f[3] \in Nat /\ f[3] < r /\ r \in Nat \ {0} BY <1>1, <1>4, <2>1, <2>2
    <2>4. (r * (m - 1) + f[3]) \div r = m - 1 /\ (r * (m - 1) + f[3]) % r = f[3] BY <2>3, Recombine
    <2>5. r * (m - 1) \in Nat /\ r * (m - 1) + r <= l * r
      <3>1. r * (m - 1) + r = r * m /\ r * m <= r * l /\ r * l = l * r BY <1>4, <2>2, <2>3
      <3>2. QED BY <3>1, <2>3
    <2>6. n \in 1 .. N /\ n - 1 = r * (m - 1) + f[3] BY <2>3, <2>5, <1>4
    <2> HIDE DEF n
    <2>7. (n - 1) \div r = m - 1 /\ (n - 1) % r = f[3] BY <2>4, <2>6, Zenon
    <2>8. course[n] = <<t, c[(m - 1) + 1], f[3]>> BY <1>3, <2>6, <2>7 DEF l, r
    <2>9. (m - 1) + 1 = m BY <2>2, <1>4
    <2>10. QED BY <2>1, <2>2, <2>6, <2>8, <2>9
  <1>8. course \in Seq(Files(plan)) /\ DOMAIN course = 1 .. N
    <2>1. course = [n \in 1 .. N |-> course[n]] BY <1>3, Zenon DEF l, r
    <2>2. JobFiles(plan, job) \subseteq Files(plan) BY DEF JobFiles
    <2>3. QED BY <2>1, <2>2, <1>4, <1>6, MappedSeq
  <1>9. QED BY <1>6, <1>7, <1>8 DEF InSeq

-----------------------------------------------------------------------------
(* The inductive invariant *)

Codes == {"never", "running", "died", "refused", "0", "1"}
Returned == {"ok", "failed", "raised", "killed"}
Marks == Outcomes \union {"none", "part"}
Thread(p) == [pc : {"off", "get", "run", "end"}, job : JobsOf(p) \union {NoJob}, left : Seq(Files(p)),
              writing : BOOLEAN, bad : BOOLEAN]

Typed ==
    /\ plan \in Plans /\ disk \in [Arms -> [Files(plan) -> Marks]]
    /\ code \in [Arms -> Codes] /\ asked \in [Arms -> Options] /\ dir \in Arms
    /\ jobs \in Seq(JobsOf(plan)) /\ queue \in Seq(JobsOf(plan))
    /\ worker \in [Threads -> Thread(plan)]
    /\ results \subseteq [job : JobsOf(plan), rc : Returned]
    /\ faults \in 0 .. MaxFaults /\ launches \in 0 .. MaxLaunches

\* One launch at a time, of a plan that load_config let through; what a thread
\* holds is given back when its evaluator ends.
OneLaunch ==
    /\ \A a \in Arms : code[a] = "running" => a = dir
    /\ Up => Accepted(plan)
    /\ \A i \in Threads : worker[i].pc # "off" => Up
    /\ \A i \in Threads : worker[i].pc # "run" => worker[i] = At(worker[i].pc)

\* Every job is in the queue or with one thread, and none overlaps another.
JobsApart ==
    /\ InSeq(queue) \subseteq InSeq(jobs) /\ {r.job : r \in results} \subseteq InSeq(jobs)
    /\ \A i \in Threads : Running(i) => worker[i].job \in InSeq(jobs)
    /\ \A m, n \in DOMAIN queue : m # n => Apart(queue[m], queue[n])
    /\ \A i \in Threads, n \in DOMAIN queue : Running(i) => Apart(worker[i].job, queue[n])
    /\ \A i, j \in Threads : i # j /\ Running(i) /\ Running(j) => Apart(worker[i].job, worker[j].job)

\* An evaluator writes its job's files only, and the others leave them alone.
Owns(i) ==
    Running(i) =>
        /\ worker[i].job \in JobsOf(plan) /\ InSeq(worker[i].left) \subseteq JobFiles(plan, worker[i].job)
        /\ worker[i].writing => worker[i].left # <<>> /\ disk[dir][Target(i)] = "part"
        /\ ~worker[i].bad => \A f \in JobFiles(plan, worker[i].job) \ InSeq(worker[i].left) : Whole(dir, f)

OwnFiles == \A i \in Threads : Owns(i)

\* While a launch runs nothing of the plan is forgotten.
Pending(u) ==
    \/ \E n \in DOMAIN queue : u \in JobUnits(queue[n])
    \/ \E i \in Threads : Running(i) /\ u \in JobUnits(worker[i].job)
    \/ \E r \in results : r.rc # "ok"
    \/ Done(dir, u)

Accounted == Up /\ ~asked[dir].dry => \A u \in Units(plan) : Pending(u)

\* A thread ends only at an empty queue, or where the jobs hold no instance.
Drained ==
    /\ \A i \in Threads : worker[i].pc = "end" => queue = <<>> \/ plan.instances = <<>>
    /\ Up /\ asked[dir].workers > 0 => worker[1].pc # "off"

SweepInv == Typed /\ OneLaunch /\ JobsApart /\ OwnFiles /\ Accounted /\ Drained /\ ExitZeroMeansCovered

-----------------------------------------------------------------------------
(* Its steps *)

\* What a thread is that has no evaluator.
LEMMA AtFacts ==
    ASSUME NEW pc
    PROVE  At(pc) = [pc |-> pc, job |-> NoJob, left |-> <<>>, writing |-> FALSE, bad |-> FALSE]
  <1> DEFINE off == [pc |-> "off", job |-> NoJob, left |-> <<>>, writing |-> FALSE, bad |-> FALSE]
             w == [off EXCEPT !.pc = pc]
  <1>1. At(pc) = w BY DEF At, Off
  <1>2. w = [f \in {"pc", "job", "left", "writing", "bad"} |-> IF f = "pc" THEN pc ELSE off[f]] OBVIOUS
  <1>3. QED BY <1>1, <1>2

LEMMA TailFacts ==
    ASSUME NEW S, NEW s \in Seq(S), s # <<>>
    PROVE  /\ Head(s) \in S /\ Head(s) = s[1] /\ 1 \in DOMAIN s /\ Head(s) \in InSeq(s)
           /\ Tail(s) \in Seq(S) /\ InSeq(Tail(s)) \subseteq InSeq(s)
           /\ \A n \in DOMAIN Tail(s) : n + 1 \in DOMAIN s /\ n + 1 # 1 /\ Tail(s)[n] = s[n + 1]
           /\ \A x \in InSeq(s) : x = Head(s) \/ x \in InSeq(Tail(s))
  <1>1. Head(s) \in S /\ Head(s) = s[1] /\ 1 \in DOMAIN s OBVIOUS
  <1>2. Tail(s) \in Seq(S) /\ Len(Tail(s)) = Len(s) - 1 /\ \A n \in 1 .. Len(Tail(s)) : Tail(s)[n] = s[n + 1]
    BY HeadTailProperties
  <1>3. \A n \in DOMAIN Tail(s) : n + 1 \in DOMAIN s /\ n + 1 # 1 /\ Tail(s)[n] = s[n + 1] BY <1>2
  <1>4. \A n \in DOMAIN s : n = 1 \/ (n - 1 \in DOMAIN Tail(s) /\ s[n] = Tail(s)[n - 1]) BY <1>2
  <1>5. QED BY <1>1, <1>2, <1>3, <1>4 DEF InSeq

\* A thread takes the first job and the others move up.
LEMMA TakeFacts ==
    ASSUME Typed, NEW i \in Threads, NEW job, Takes(i, job)
    PROVE  /\ job \in JobsOf(plan) /\ job = queue[1] /\ 1 \in DOMAIN queue /\ job \in InSeq(queue)
           /\ queue' \in Seq(JobsOf(plan)) /\ InSeq(queue') \subseteq InSeq(queue)
           /\ \A n \in DOMAIN queue' : n + 1 \in DOMAIN queue /\ n + 1 # 1 /\ queue'[n] = queue[n + 1]
           /\ \A x \in InSeq(queue) : x = job \/ x \in InSeq(queue')
  <1>1. queue \in Seq(JobsOf(plan)) /\ queue # <<>> /\ job = Head(queue) /\ queue' = Tail(queue)
    BY DEF Typed, Takes
  <1>2. QED BY <1>1, TailFacts

\* The evaluator of a job that is not yet through has a file before it.
LEMMA TargetFacts ==
    ASSUME Typed, OwnFiles, NEW i \in Threads, Running(i), worker[i].left # <<>>
    PROVE  /\ Target(i) \in Files(plan) /\ Target(i) \in InSeq(worker[i].left)
           /\ Target(i) \in JobFiles(plan, worker[i].job)
           /\ Tail(worker[i].left) \in Seq(Files(plan))
           /\ InSeq(Tail(worker[i].left)) \subseteq InSeq(worker[i].left)
           /\ \A f \in InSeq(worker[i].left) : f = Target(i) \/ f \in InSeq(Tail(worker[i].left))
  <1>1. worker[i].left \in Seq(Files(plan)) BY DEF Typed, Thread
  <1>2. InSeq(worker[i].left) \subseteq JobFiles(plan, worker[i].job) BY DEF OwnFiles, Owns
  <1>3. QED BY <1>1, <1>2, TailFacts DEF Target

LEMMA Written ==
    ASSUME Typed, NEW f \in Files(plan), NEW v \in Marks, disk' = [disk EXCEPT ![dir][f] = v]
    PROVE  /\ disk' \in [Arms -> [Files(plan) -> Marks]] /\ disk'[dir][f] = v
           /\ \A a \in Arms, g \in Files(plan) : a # dir \/ g # f => disk'[a][g] = disk[a][g]
  BY DEF Typed

LEMMA ThreadSet ==
    ASSUME Typed, NEW i \in Threads, NEW w \in Thread(plan), Set(i, w)
    PROVE  worker' \in [Threads -> Thread(plan)] /\ worker'[i] = w
           /\ \A j \in Threads : j # i => worker'[j] = worker[j]
  BY DEF Typed, Set

LEMMA AtTyped ==
    ASSUME NEW p, NEW pc \in {"off", "get", "run", "end"} PROVE At(pc) \in Thread(p)
  <1>1. <<>> \in Seq(Files(p)) OBVIOUS
  <1>2. QED BY <1>1, AtFacts DEF Thread

\* The thread's new state in every action that leaves one evaluator running.
LEMMA ThreadFacts ==
    ASSUME Typed, NEW i \in Threads
    PROVE  /\ worker[i] \in Thread(plan)
           /\ worker[i].job \in JobsOf(plan) \union {NoJob} /\ worker[i].left \in Seq(Files(plan))
           /\ [worker[i] EXCEPT !.writing = TRUE] \in Thread(plan)
           /\ \A l \in Seq(Files(plan)) :
                 /\ [worker[i] EXCEPT !.writing = FALSE, !.left = l] \in Thread(plan)
                 /\ [worker[i] EXCEPT !.bad = TRUE, !.left = l] \in Thread(plan)
  BY DEF Typed, Thread

LEMMA SpaceTyped ==
    ASSUME Typed, Fault PROVE faults' \in 0 .. MaxFaults
  BY LaunchConstants DEF Typed, Fault

LEMMA TypedInit == Init => Typed
  <1> SUFFICES ASSUME Init PROVE Typed OBVIOUS
  <1>1. plan \in Plans /\ dir \in Arms /\ code \in [Arms -> Codes] BY LaunchConstants DEF Init, Codes
  <1>2. disk \in [Arms -> [Files(plan) -> Marks]] BY DEF Init, Marks
  <1>3. asked \in [Arms -> Options] BY LaunchConstants DEF Init
  <1>4. jobs \in Seq(JobsOf(plan)) /\ queue \in Seq(JobsOf(plan)) /\ results = {} BY DEF Init
  <1>5. Off = At("off") BY AtFacts DEF Off
  <1>6. worker \in [Threads -> Thread(plan)] BY <1>5, AtTyped DEF Init
  <1>7. faults \in 0 .. MaxFaults /\ launches \in 0 .. MaxLaunches BY LaunchConstants DEF Init
  <1>8. QED BY <1>1, <1>2, <1>3, <1>4, <1>6, <1>7 DEF Typed

LEMMA TypedStep ==
    Typed /\ OneLaunch /\ OwnFiles /\ [Next]_vars => Typed'
  <1> SUFFICES ASSUME Typed, OneLaunch, OwnFiles, [Next]_vars PROVE Typed' OBVIOUS
  <1>s. ASSUME UNCHANGED plan,
               disk' \in [Arms -> [Files(plan) -> Marks]], code' \in [Arms -> Codes], asked' \in [Arms -> Options],
               dir' \in Arms, jobs' \in Seq(JobsOf(plan)), queue' \in Seq(JobsOf(plan)),
               worker' \in [Threads -> Thread(plan)], results' \subseteq [job : JobsOf(plan), rc : Returned],
               faults' \in 0 .. MaxFaults, launches' \in 0 .. MaxLaunches
        PROVE  Typed'
    BY <1>s DEF Typed
  <1>t. /\ plan \in Plans /\ disk \in [Arms -> [Files(plan) -> Marks]]
        /\ code \in [Arms -> Codes] /\ asked \in [Arms -> Options] /\ dir \in Arms
        /\ jobs \in Seq(JobsOf(plan)) /\ queue \in Seq(JobsOf(plan))
        /\ worker \in [Threads -> Thread(plan)]
        /\ results \subseteq [job : JobsOf(plan), rc : Returned]
        /\ faults \in 0 .. MaxFaults /\ launches \in 0 .. MaxLaunches
    BY DEF Typed
  <1>g. Gone => /\ jobs' \in Seq(JobsOf(plan)) /\ queue' \in Seq(JobsOf(plan))
                /\ worker' \in [Threads -> Thread(plan)] /\ results' \subseteq [job : JobsOf(plan), rc : Returned]
    <2>1. Off = At("off") BY AtFacts DEF Off
    <2>2. QED BY <2>1, AtTyped DEF Gone
  <1>r. ASSUME NEW job \in JobsOf(plan), NEW rc \in Returned, Report(job, rc)
        PROVE  results' \subseteq [job : JobsOf(plan), rc : Returned]
    BY <1>r, <1>t DEF Report
  <1>1. CASE UNCHANGED vars
    BY <1>1, <1>s, <1>t DEF vars, history, launcher, bounds
  <1>2. ASSUME NEW a \in Arms, NEW o \in Options, Launch(a, o) PROVE Typed'
    <2>1. launches' \in 0 .. MaxLaunches /\ asked' \in [Arms -> Options]
      BY <1>2, <1>t, LaunchConstants DEF Launch
    <2>2. \A c \in Codes : [code EXCEPT ![a] = c] \in [Arms -> Codes] BY <1>t
    <2>3. CASE Refused(a, o) \/ Nothing(a, o)
      <3>1. UNCHANGED launcher /\ code' \in [Arms -> Codes] BY <2>2, <2>3 DEF Refused, Nothing, Codes
      <3>2. QED BY <3>1, <1>2, <2>1, <1>s, <1>t DEF Launch, launcher
    <2>4. CASE Starts(a, o)
      <3>1. code' \in [Arms -> Codes] /\ dir' \in Arms BY <2>2, <2>4 DEF Starts, Codes
      <3>2. jobs' \in Seq(JobsOf(plan)) /\ queue' \in Seq(JobsOf(plan))
        BY <2>4, <1>t, LaunchedFacts DEF Starts
      <3>3. worker' \in [Threads -> Thread(plan)]
        <4>1. Off = At("off") BY AtFacts DEF Off
        <4>2. QED BY <2>4, <4>1, AtTyped DEF Starts
      <3>4. results' = {} BY <2>4 DEF Starts
      <3>5. QED BY <3>1, <3>2, <3>3, <3>4, <1>2, <2>1, <1>s, <1>t DEF Launch
    <2>5. QED BY <1>2, <2>3, <2>4 DEF Launch
  <1>3. CASE Join
    <2>1. code' \in [Arms -> Codes] BY <1>3, <1>t DEF Join, ExitCode, Codes
    <2>2. QED BY <1>3, <2>1, <1>g, <1>s, <1>t DEF Join, bounds
  <1>4. CASE MachineDies
    <2>1. code' \in [Arms -> Codes] /\ faults' \in 0 .. MaxFaults
      BY <1>4, <1>t, SpaceTyped DEF MachineDies, Codes
    <2>2. QED BY <1>4, <2>1, <1>g, <1>s, <1>t DEF MachineDies
  <1>5. ASSUME NEW i \in Threads, QueueEmpty(i) PROVE Typed'
    <2>1. worker' \in [Threads -> Thread(plan)] BY <1>5, AtTyped, ThreadSet DEF QueueEmpty
    <2>2. QED BY <1>5, <2>1, <1>s, <1>t DEF QueueEmpty, history, bounds
  <1>6. ASSUME NEW i \in Threads, NEW job, ThreadDies(i, job) PROVE Typed'
    <2>1. worker' \in [Threads -> Thread(plan)] BY <1>6, AtTyped, ThreadSet DEF ThreadDies
    <2>2. queue' \in Seq(JobsOf(plan)) BY <1>6, TakeFacts DEF ThreadDies
    <2>3. QED BY <1>6, <2>1, <2>2, <1>s, <1>t DEF ThreadDies, history, bounds
  <1>7. ASSUME NEW i \in Threads, NEW job, DryRun(i, job) PROVE Typed'
    <2>1. queue' \in Seq(JobsOf(plan)) /\ job \in JobsOf(plan) BY <1>7, TakeFacts DEF DryRun
    <2>2. results' \subseteq [job : JobsOf(plan), rc : Returned] BY <1>7, <2>1, <1>r DEF DryRun, Returned
    <2>3. QED BY <1>7, <2>1, <2>2, <1>s, <1>t DEF DryRun, history, bounds
  <1>8. ASSUME NEW i \in Threads, NEW job, EvaluatorStarts(i, job) PROVE Typed'
    <2>1. queue' \in Seq(JobsOf(plan)) /\ job \in JobsOf(plan) BY <1>8, TakeFacts DEF EvaluatorStarts
    <2>2. Up
      <3>1. worker[i].pc = "get" BY <1>8 DEF EvaluatorStarts, Takes
      <3>2. QED BY <3>1 DEF OneLaunch
    <2>3. Course(BuildCommand(job)) \in Seq(Files(plan)) BY <2>1, <2>2, <1>t, CourseFacts DEF OneLaunch
    <2> DEFINE w == [pc |-> "run", job |-> job, left |-> Course(BuildCommand(job)), writing |-> FALSE, bad |-> FALSE]
    <2>4. w \in Thread(plan) BY <2>1, <2>3 DEF Thread
    <2>5. Set(i, w) BY <1>8 DEF EvaluatorStarts
    <2> HIDE DEF w
    <2>6. worker' \in [Threads -> Thread(plan)] BY <2>4, <2>5, ThreadSet
    <2>7. QED BY <1>8, <2>1, <2>6, <1>s, <1>t DEF EvaluatorStarts, history, bounds
  <1>9. ASSUME NEW i \in Threads, NEW job, RunJobRaises(i, job) PROVE Typed'
    <2>1. queue' \in Seq(JobsOf(plan)) /\ job \in JobsOf(plan) BY <1>9, TakeFacts DEF RunJobRaises
    <2>2. results' \subseteq [job : JobsOf(plan), rc : Returned] BY <1>9, <2>1, <1>r DEF RunJobRaises, Returned
    <2>3. faults' \in 0 .. MaxFaults BY <1>9, SpaceTyped DEF RunJobRaises
    <2>4. QED BY <1>9, <2>1, <2>2, <2>3, <1>s, <1>t DEF RunJobRaises, history
  <1>10. ASSUME NEW i \in Threads, WriteBegins(i) PROVE Typed'
    <2>1. disk' \in [Arms -> [Files(plan) -> Marks]] BY <1>10, TargetFacts, Written DEF WriteBegins, Marks
    <2>2. worker' \in [Threads -> Thread(plan)] BY <1>10, ThreadFacts, ThreadSet DEF WriteBegins
    <2>3. QED BY <1>10, <2>1, <2>2, <1>s, <1>t DEF WriteBegins, history, bounds
  <1>11. ASSUME NEW i \in Threads, NEW outcome \in Outcomes, WriteEnds(i, outcome) PROVE Typed'
    <2>1. Running(i) /\ worker[i].left # <<>> BY <1>11 DEF WriteEnds, OwnFiles, Owns
    <2>2. disk' \in [Arms -> [Files(plan) -> Marks]] BY <1>11, <2>1, TargetFacts, Written DEF WriteEnds, Marks
    <2>3. Tail(worker[i].left) \in Seq(Files(plan)) BY <2>1, TargetFacts
    <2>4. Set(i, [worker[i] EXCEPT !.writing = FALSE, !.left = Tail(worker[i].left)]) BY <1>11 DEF WriteEnds
    <2>5. worker' \in [Threads -> Thread(plan)] BY <2>3, <2>4, ThreadFacts, ThreadSet
    <2>6. QED BY <1>11, <2>2, <2>5, <1>s, <1>t DEF WriteEnds, history, bounds
  <1>12. ASSUME NEW i \in Threads, RolloutFails(i) PROVE Typed'
    <2>1. Tail(worker[i].left) \in Seq(Files(plan)) BY <1>12, TargetFacts DEF RolloutFails
    <2>2. Set(i, [worker[i] EXCEPT !.bad = TRUE, !.left = Tail(worker[i].left)]) BY <1>12 DEF RolloutFails
    <2>3. worker' \in [Threads -> Thread(plan)] BY <2>1, <2>2, ThreadFacts, ThreadSet
    <2>4. faults' \in 0 .. MaxFaults BY <1>12, SpaceTyped DEF RolloutFails
    <2>5. QED BY <1>12, <2>3, <2>4, <1>s, <1>t DEF RolloutFails, history
  <1>13. ASSUME NEW i \in Threads, NEW rc \in Returned, Running(i), Returns(i, rc), faults' \in 0 .. MaxFaults
         PROVE  Typed'
    <2>1. worker[i].job \in JobsOf(plan) BY <1>13 DEF OwnFiles, Owns
    <2>2. results' \subseteq [job : JobsOf(plan), rc : Returned] BY <1>13, <2>1, <1>r DEF Returns
    <2>3. worker' \in [Threads -> Thread(plan)] BY <1>13, AtTyped, ThreadSet DEF Returns
    <2>4. QED BY <1>13, <2>2, <2>3, <1>s, <1>t DEF Returns, history
  <1>14. ASSUME NEW i \in Threads, EvaluatorExits(i) PROVE Typed'
    BY <1>13, <1>14, <1>t DEF EvaluatorExits, Returned
  <1>15. ASSUME NEW i \in Threads, EvaluatorKilled(i) PROVE Typed'
    BY <1>13, <1>15, SpaceTyped DEF EvaluatorKilled, Returned
  <1>16. QED BY <1>1, <1>2, <1>3, <1>4, <1>5, <1>6, <1>7, <1>8, <1>9, <1>10, <1>11, <1>12, <1>14, <1>15
             DEF Next, Working, Failing, GetNowait

LEMMA LaunchInit == Init => OneLaunch /\ JobsApart /\ OwnFiles
  <1> SUFFICES ASSUME Init PROVE OneLaunch /\ JobsApart /\ OwnFiles OBVIOUS
  <1>1. ~Up /\ queue = <<>> /\ jobs = <<>> /\ results = {} /\ \A i \in Threads : worker[i] = Off
    BY DEF Init, Up
  <1>2. Off = At("off") /\ Off.pc = "off" BY AtFacts DEF Off
  <1>3. OneLaunch BY <1>1, <1>2 DEF OneLaunch, Up
  <1>4. JobsApart BY <1>1, <1>2 DEF JobsApart, Running, InSeq
  <1>5. OwnFiles BY <1>1, <1>2 DEF OwnFiles, Owns, Running
  <1>6. QED BY <1>3, <1>4, <1>5

LEMMA OneLaunchStep ==
    Typed /\ OneLaunch /\ [Next]_vars => OneLaunch'
  <1> SUFFICES ASSUME Typed, OneLaunch, [Next]_vars PROVE OneLaunch' OBVIOUS
  <1>t. code \in [Arms -> Codes] /\ worker \in [Threads -> Thread(plan)] /\ dir \in Arms BY DEF Typed
  <1>o. Off = At("off") /\ \A pc : At(pc).pc = pc BY AtFacts DEF Off
  <1>f. ASSUME UNCHANGED <<code, dir, plan>>,
               \A j \in Threads : worker'[j] = worker[j]
                   \/ (Up /\ (worker'[j].pc # "run" => worker'[j] = At(worker'[j].pc)))
        PROVE  OneLaunch'
    BY <1>f DEF OneLaunch, Up, Accepted
  <1>u. ASSUME NEW i \in Threads, worker[i].pc # "off", UNCHANGED <<code, dir, plan>>, NEW w,
               Set(i, w), w.pc # "run" => w = At(w.pc)
        PROVE  OneLaunch'
    <2>1. Up BY <1>u DEF OneLaunch
    <2>2. \A j \in Threads : worker'[j] = IF j = i THEN w ELSE worker[j] BY <1>u, <1>t DEF Set
    <2>3. QED BY <1>f, <1>u, <2>1, <2>2
  <1>g. ASSUME NEW c \in Codes, c # "running", code' = [code EXCEPT ![dir] = c], Gone, UNCHANGED dir
        PROVE  OneLaunch'
    <2>1. ~Up' BY <1>g, <1>t DEF OneLaunch, Up
    <2>2. \A i \in Threads : worker'[i] = Off BY <1>g DEF Gone
    <2>3. QED BY <2>1, <2>2, <1>o DEF OneLaunch, Up
  <1>1. CASE UNCHANGED vars
    BY <1>1, <1>f DEF vars, history, launcher
  <1>2. ASSUME NEW a \in Arms, NEW o \in Options, Launch(a, o) PROVE OneLaunch'
    <2>1. ~Up BY <1>2 DEF Launch
    <2>2. UNCHANGED plan BY <1>2 DEF Launch
    <2>3. CASE Refused(a, o) \/ Nothing(a, o)
      <3>1. ~Up' BY <2>1, <2>3, <1>t DEF Refused, Nothing, Up
      <3>2. UNCHANGED <<worker, dir>> BY <2>3 DEF Refused, Nothing, launcher
      <3>3. QED BY <2>1, <3>1, <3>2 DEF OneLaunch, Up
    <2>4. CASE Starts(a, o)
      <3>1. \A b \in Arms : code'[b] = "running" => b = dir' BY <2>1, <2>4, <1>t DEF Starts, Up
      <3>2. Up' /\ Accepted(plan)' BY <2>2, <2>4, <1>t DEF Starts, Up, Accepted
      <3>3. \A i \in Threads : worker'[i] = At("get") \/ worker'[i] = At("off")
        BY <2>4, <1>o DEF Starts
      <3>4. QED BY <3>1, <3>2, <3>3, <1>o DEF OneLaunch
    <2>5. QED BY <1>2, <2>3, <2>4 DEF Launch
  <1>3. CASE Join
    BY <1>3, <1>g DEF Join, ExitCode, Codes
  <1>4. CASE MachineDies
    BY <1>4, <1>g DEF MachineDies, Codes
  <1>5. ASSUME NEW i \in Threads, QueueEmpty(i) PROVE OneLaunch'
    BY <1>5, <1>u, <1>o DEF QueueEmpty, history
  <1>6. ASSUME NEW i \in Threads, NEW job, ThreadDies(i, job) PROVE OneLaunch'
    BY <1>6, <1>u, <1>o DEF ThreadDies, Takes, history
  <1>7. ASSUME NEW i \in Threads, NEW job, DryRun(i, job) PROVE OneLaunch'
    BY <1>7, <1>f DEF DryRun, history
  <1>8. ASSUME NEW i \in Threads, NEW job, EvaluatorStarts(i, job) PROVE OneLaunch'
    <2> DEFINE w == [pc |-> "run", job |-> job, left |-> Course(BuildCommand(job)), writing |-> FALSE, bad |-> FALSE]
    <2>1. Set(i, w) /\ w.pc = "run" BY <1>8 DEF EvaluatorStarts
    <2>2. worker[i].pc # "off" BY <1>8 DEF EvaluatorStarts, Takes
    <2> HIDE DEF w
    <2>3. QED BY <1>8, <1>u, <2>1, <2>2 DEF EvaluatorStarts, history
  <1>9. ASSUME NEW i \in Threads, NEW job, RunJobRaises(i, job) PROVE OneLaunch'
    BY <1>9, <1>f DEF RunJobRaises, history
  <1>10. ASSUME NEW i \in Threads, WriteBegins(i) PROVE OneLaunch'
    <2> DEFINE w == [worker[i] EXCEPT !.writing = TRUE]
    <2>1. Set(i, w) /\ w.pc = "run" /\ worker[i].pc # "off" BY <1>10, <1>t DEF WriteBegins, Running, Thread
    <2> HIDE DEF w
    <2>2. QED BY <1>10, <1>u, <2>1 DEF WriteBegins, history
  <1>11. ASSUME NEW i \in Threads, NEW outcome \in Outcomes, WriteEnds(i, outcome) PROVE OneLaunch'
    <2> DEFINE w == [worker[i] EXCEPT !.writing = FALSE, !.left = Tail(@)]
    <2>1. Set(i, w) BY <1>11 DEF WriteEnds
    <2>2. w.pc = "run" /\ worker[i].pc # "off" BY <1>11, <1>t DEF WriteEnds, Running, Thread
    <2> HIDE DEF w
    <2>3. QED BY <1>11, <1>u, <2>1, <2>2 DEF WriteEnds, history
  <1>12. ASSUME NEW i \in Threads, RolloutFails(i) PROVE OneLaunch'
    <2> DEFINE w == [worker[i] EXCEPT !.bad = TRUE, !.left = Tail(@)]
    <2>1. Set(i, w) BY <1>12 DEF RolloutFails
    <2>2. w.pc = "run" /\ worker[i].pc # "off" BY <1>12, <1>t DEF RolloutFails, Running, Thread
    <2> HIDE DEF w
    <2>3. QED BY <1>12, <1>u, <2>1, <2>2 DEF RolloutFails, history
  <1>13. ASSUME NEW i \in Threads, NEW rc, Running(i), Returns(i, rc) PROVE OneLaunch'
    BY <1>13, <1>u, <1>o DEF Returns, Running, history
  <1>14. QED BY <1>1, <1>2, <1>3, <1>4, <1>5, <1>6, <1>7, <1>8, <1>9, <1>10, <1>11, <1>12, <1>13
             DEF Next, Working, Failing, GetNowait, EvaluatorExits, EvaluatorKilled

LEMMA JobsApartStep ==
    Typed /\ OwnFiles /\ JobsApart /\ [Next]_vars => JobsApart'
  <1> SUFFICES ASSUME Typed, OwnFiles, JobsApart, [Next]_vars PROVE JobsApart' OBVIOUS
  <1>t. /\ worker \in [Threads -> Thread(plan)] /\ queue \in Seq(JobsOf(plan))
        /\ plan \in Plans /\ {r.job : r \in results} \subseteq InSeq(jobs)
    BY DEF Typed, JobsApart
  <1>o. \A pc : At(pc).pc = pc BY AtFacts
  <1>k. ASSUME UNCHANGED jobs, queue' \in Seq(JobsOf(plan)), InSeq(queue') \subseteq InSeq(queue), NEW s \in Nat,
               \A n \in DOMAIN queue' : n + s \in DOMAIN queue /\ queue'[n] = queue[n + s],
               {r.job : r \in results'} \subseteq InSeq(jobs),
               \A j \in Threads : worker'[j].pc = "run" =>
                   worker[j].pc = "run" /\ worker'[j].job = worker[j].job
        PROVE  JobsApart'
    <2>1. InSeq(queue') \subseteq InSeq(jobs) BY <1>k DEF JobsApart
    <2>2. \A i \in Threads : Running(i)' => worker'[i].job \in InSeq(jobs) BY <1>k DEF JobsApart, Running
    <2>3. ASSUME NEW m \in DOMAIN queue', NEW n \in DOMAIN queue', m # n PROVE Apart(queue'[m], queue'[n])
      <3>1. m \in Nat /\ n \in Nat BY <1>k
      <3>2. m + s # n + s BY <2>3, <3>1
      <3>3. QED BY <3>2, <1>k DEF JobsApart
    <2>4. \A i \in Threads, n \in DOMAIN queue' : Running(i)' => Apart(worker'[i].job, queue'[n])
      BY <1>k DEF JobsApart, Running
    <2>5. \A i, j \in Threads : i # j /\ Running(i)' /\ Running(j)' => Apart(worker'[i].job, worker'[j].job)
      BY <1>k DEF JobsApart, Running
    <2>6. QED BY <1>k, <2>1, <2>2, <2>3, <2>4, <2>5 DEF JobsApart
  <1>q. ASSUME UNCHANGED <<jobs, queue>>, {r.job : r \in results'} \subseteq InSeq(jobs),
               \A j \in Threads : worker'[j].pc = "run" =>
                   worker[j].pc = "run" /\ worker'[j].job = worker[j].job
        PROVE  JobsApart'
    <2>1. \A n \in DOMAIN queue' : n \in Nat BY <1>t, <1>q
    <2>2. \A n \in DOMAIN queue' : n + 0 \in DOMAIN queue /\ queue'[n] = queue[n + 0] BY <1>q, <2>1
    <2>3. QED BY <1>k, <1>q, <1>t, <2>2
  <1>s. ASSUME NEW i \in Threads, NEW w, Set(i, w), w.pc # "run" \/ (Running(i) /\ w.pc = "run" /\ w.job = worker[i].job)
        PROVE  \A j \in Threads : worker'[j].pc = "run" => worker[j].pc = "run" /\ worker'[j].job = worker[j].job
    <2>1. \A j \in Threads : worker'[j] = IF j = i THEN w ELSE worker[j] BY <1>s, <1>t DEF Set
    <2>2. QED BY <1>s, <2>1 DEF Running
  <1>r. ASSUME NEW job \in InSeq(jobs), NEW rc, Report(job, rc)
        PROVE  {r.job : r \in results'} \subseteq InSeq(jobs)
    <2>1. results' = results \union {[job |-> job, rc |-> rc]} BY <1>r DEF Report
    <2>2. [job |-> job, rc |-> rc].job = job OBVIOUS
    <2>3. QED BY <2>1, <2>2, <1>t
  <1>j. ASSUME NEW i \in Threads, NEW job, Takes(i, job) PROVE job \in InSeq(jobs)
    BY <1>j, TakeFacts DEF JobsApart
  <1>m. ASSUME NEW i \in Threads, NEW job, Takes(i, job), UNCHANGED jobs, {r.job : r \in results'} \subseteq InSeq(jobs),
               \A j \in Threads : worker'[j].pc = "run" =>
                   worker[j].pc = "run" /\ worker'[j].job = worker[j].job
        PROVE  JobsApart'
    <2>1. /\ queue' \in Seq(JobsOf(plan)) /\ InSeq(queue') \subseteq InSeq(queue)
          /\ \A n \in DOMAIN queue' : n + 1 \in DOMAIN queue /\ queue'[n] = queue[n + 1]
      BY <1>m, TakeFacts
    <2>2. QED BY <1>k, <1>m, <2>1
  <1>g. Gone => JobsApart'
    <2> SUFFICES ASSUME Gone PROVE JobsApart' OBVIOUS
    <2>1. Off.pc = "off" BY DEF Off
    <2>2. queue' = <<>> /\ results' = {} /\ \A i \in Threads : worker'[i].pc = "off" BY <2>1 DEF Gone
    <2>3. QED BY <2>2 DEF JobsApart, Running, InSeq
  <1>1. CASE UNCHANGED vars
    BY <1>1, <1>q, <1>t DEF vars, launcher
  <1>2. ASSUME NEW a \in Arms, NEW o \in Options, Launch(a, o) PROVE JobsApart'
    <2>1. CASE Refused(a, o) \/ Nothing(a, o)
      BY <2>1, <1>q, <1>t DEF Refused, Nothing, launcher
    <2>2. CASE Starts(a, o)
      <3>1. queue' = jobs' /\ queue' = ToLaunch(plan, o, disk[a]) /\ results' = {} BY <2>2 DEF Starts
      <3>2. \A m, n \in DOMAIN queue' : m # n => Apart(queue'[m], queue'[n]) BY <3>1, <1>t, LaunchedFacts
      <3>3. Off.pc = "off" BY DEF Off
      <3>4. \A i \in Threads : worker'[i].pc # "run" BY <2>2, <3>3, <1>o DEF Starts
      <3>5. QED BY <3>1, <3>2, <3>4 DEF JobsApart, Running
    <2>3. QED BY <1>2, <2>1, <2>2 DEF Launch
  <1>3. CASE Join BY <1>3, <1>g DEF Join
  <1>4. CASE MachineDies BY <1>4, <1>g DEF MachineDies
  <1>5. ASSUME NEW i \in Threads, QueueEmpty(i) PROVE JobsApart'
    BY <1>5, <1>q, <1>s, <1>o, <1>t DEF QueueEmpty
  <1>6. ASSUME NEW i \in Threads, NEW job, ThreadDies(i, job) PROVE JobsApart'
    BY <1>6, <1>m, <1>s, <1>o, <1>t DEF ThreadDies
  <1>7. ASSUME NEW i \in Threads, NEW job, DryRun(i, job) PROVE JobsApart'
    BY <1>7, <1>m, <1>r, <1>j DEF DryRun
  <1>8. ASSUME NEW i \in Threads, NEW job, EvaluatorStarts(i, job) PROVE JobsApart'
    <2> DEFINE w == [pc |-> "run", job |-> job, left |-> Course(BuildCommand(job)), writing |-> FALSE, bad |-> FALSE]
    <2>1. Set(i, w) /\ w.pc = "run" /\ w.job = job /\ UNCHANGED <<jobs, results>> /\ Takes(i, job)
      BY <1>8 DEF EvaluatorStarts
    <2> HIDE DEF w
    <2>2. \A j \in Threads : worker'[j] = IF j = i THEN w ELSE worker[j] BY <2>1, <1>t DEF Set
    <2>3. /\ job = queue[1] /\ 1 \in DOMAIN queue /\ job \in InSeq(jobs)
          /\ queue' \in Seq(JobsOf(plan)) /\ InSeq(queue') \subseteq InSeq(jobs)
          /\ \A n \in DOMAIN queue' : n + 1 \in DOMAIN queue /\ n + 1 # 1 /\ queue'[n] = queue[n + 1]
      BY <2>1, TakeFacts DEF JobsApart
    <2>4. \A k \in Threads : Running(k)' => worker'[k].job \in InSeq(jobs)
      BY <2>1, <2>2, <2>3 DEF JobsApart, Running
    <2>5. ASSUME NEW m \in DOMAIN queue', NEW n \in DOMAIN queue', m # n PROVE Apart(queue'[m], queue'[n])
      <3>1. m \in Nat /\ n \in Nat BY <2>3
      <3>2. m + 1 # n + 1 BY <2>5, <3>1
      <3>3. QED BY <3>2, <2>3 DEF JobsApart
    <2>6. \A k \in Threads, n \in DOMAIN queue' : Running(k)' => Apart(worker'[k].job, queue'[n])
      <3>1. TAKE k \in Threads, n \in DOMAIN queue'
      <3>2. CASE k = i
        <4>1. worker'[k].job = queue[1] BY <3>2, <2>1, <2>2, <2>3
        <4>2. Apart(queue[1], queue[n + 1]) BY <2>3 DEF JobsApart
        <4>3. QED BY <4>1, <4>2, <2>3
      <3>3. CASE k # i BY <3>3, <2>2, <2>3 DEF JobsApart, Running
      <3>4. QED BY <3>2, <3>3
    <2>7. \A k \in Threads : k # i /\ Running(k) => Apart(worker[k].job, job) /\ Apart(job, worker[k].job)
      BY <2>3 DEF JobsApart, Apart
    <2>8. \A k, j \in Threads : k # j /\ Running(k)' /\ Running(j)' => Apart(worker'[k].job, worker'[j].job)
      BY <2>1, <2>2, <2>7 DEF JobsApart, Running
    <2>9. QED BY <2>1, <2>3, <2>4, <2>5, <2>6, <2>8, <1>t DEF JobsApart
  <1>9. ASSUME NEW i \in Threads, NEW job, RunJobRaises(i, job) PROVE JobsApart'
    BY <1>9, <1>m, <1>r, <1>j DEF RunJobRaises
  <1>10. ASSUME NEW i \in Threads, WriteBegins(i) PROVE JobsApart'
    <2> DEFINE w == [worker[i] EXCEPT !.writing = TRUE]
    <2>1. Set(i, w) /\ Running(i) /\ w.pc = "run" /\ w.job = worker[i].job
      BY <1>10, <1>t DEF WriteBegins, Running, Thread
    <2> HIDE DEF w
    <2>2. QED BY <1>10, <1>q, <1>s, <1>t, <2>1 DEF WriteBegins
  <1>11. ASSUME NEW i \in Threads, NEW outcome \in Outcomes, WriteEnds(i, outcome) PROVE JobsApart'
    <2> DEFINE w == [worker[i] EXCEPT !.writing = FALSE, !.left = Tail(@)]
    <2>1. Set(i, w) BY <1>11 DEF WriteEnds
    <2>2. Running(i) /\ w.pc = "run" /\ w.job = worker[i].job BY <1>11, <1>t DEF WriteEnds, Running, Thread
    <2> HIDE DEF w
    <2>3. QED BY <1>11, <1>q, <1>s, <1>t, <2>1, <2>2 DEF WriteEnds
  <1>12. ASSUME NEW i \in Threads, RolloutFails(i) PROVE JobsApart'
    <2> DEFINE w == [worker[i] EXCEPT !.bad = TRUE, !.left = Tail(@)]
    <2>1. Set(i, w) BY <1>12 DEF RolloutFails
    <2>2. Running(i) /\ w.pc = "run" /\ w.job = worker[i].job BY <1>12, <1>t DEF RolloutFails, Running, Thread
    <2> HIDE DEF w
    <2>3. QED BY <1>12, <1>q, <1>s, <1>t, <2>1, <2>2 DEF RolloutFails
  <1>13. ASSUME NEW i \in Threads, NEW rc, Running(i), Returns(i, rc) PROVE JobsApart'
    <2>1. worker[i].job \in InSeq(jobs) BY <1>13 DEF JobsApart
    <2>2. QED BY <1>13, <2>1, <1>q, <1>r, <1>s, <1>o DEF Returns
  <1>14. QED BY <1>1, <1>2, <1>3, <1>4, <1>5, <1>6, <1>7, <1>8, <1>9, <1>10, <1>11, <1>12, <1>13
             DEF Next, Working, Failing, GetNowait, EvaluatorExits, EvaluatorKilled

\* What another thread writes is not in this thread's job.
LEMMA OthersFiles ==
    ASSUME Typed, JobsApart, OwnFiles, NEW i \in Threads, NEW j \in Threads, i # j, Running(i), Running(j)
    PROVE  JobFiles(plan, worker[i].job) \cap JobFiles(plan, worker[j].job) = {}
  <1>1. Apart(worker[i].job, worker[j].job) BY DEF JobsApart
  <1>2. QED BY <1>1 DEF Apart, JobFiles

LEMMA OwnFilesStep ==
    Typed /\ OneLaunch /\ JobsApart /\ OwnFiles /\ [Next]_vars => OwnFiles'
  <1> SUFFICES ASSUME Typed, OneLaunch, JobsApart, OwnFiles, [Next]_vars PROVE OwnFiles' OBVIOUS
  <1>t. /\ worker \in [Threads -> Thread(plan)] /\ plan \in Plans /\ dir \in Arms
        /\ disk \in [Arms -> [Files(plan) -> Marks]]
    BY DEF Typed
  <1>o. \A pc : At(pc).pc = pc BY AtFacts
  <1>k. ASSUME NEW j \in Threads, worker'[j] = worker[j], UNCHANGED <<plan, disk, dir>>
        PROVE  Owns(j)'
    BY <1>k DEF OwnFiles, Owns, Running, Target, Whole
  <1>i. ASSUME NEW j \in Threads, worker'[j].pc # "run" PROVE Owns(j)'
    BY <1>i DEF Owns, Running
  <1>s. ASSUME UNCHANGED <<plan, disk, dir>>, NEW i \in Threads, NEW w, Set(i, w), w.pc # "run"
        PROVE  OwnFiles'
    <2>1. \A j \in Threads : worker'[j] = IF j = i THEN w ELSE worker[j] BY <1>s, <1>t DEF Set
    <2>2. \A j \in Threads : Owns(j)' BY <1>s, <2>1, <1>k, <1>i
    <2>3. QED BY <2>2 DEF OwnFiles
  <1>e. ASSUME UNCHANGED <<plan, disk, dir, worker>> PROVE OwnFiles'
    <2>1. \A j \in Threads : Owns(j)' BY <1>e, <1>k
    <2>2. QED BY <2>1 DEF OwnFiles
  <1>g. Gone => OwnFiles'
    <2>1. Off.pc = "off" BY DEF Off
    <2>2. QED BY <2>1 DEF Gone, OwnFiles, Owns, Running
  \* What the thread i does to its own file leaves the others as they were.
  <1>w. ASSUME NEW i \in Threads, Running(i), NEW f \in JobFiles(plan, worker[i].job), NEW v \in Marks,
               disk' = [disk EXCEPT ![dir][f] = v], UNCHANGED <<plan, dir>>,
               NEW j \in Threads, j # i, worker'[j] = worker[j]
        PROVE  Owns(j)'
    <2>1. SUFFICES ASSUME Running(j) PROVE Owns(j)' BY <1>w DEF Owns, Running
    <2>2. f \in Files(plan) BY DEF JobFiles
    <2>3. \A g \in JobFiles(plan, worker[j].job) : g \in Files(plan) /\ g # f
      BY <2>1, <1>w, OthersFiles DEF JobFiles
    <2>4. \A g \in JobFiles(plan, worker[j].job) : disk'[dir][g] = disk[dir][g]
      BY <2>2, <2>3, <1>w, <1>t, Written
    <2>5. worker[j].writing => Target(j) \in JobFiles(plan, worker[j].job) BY <2>1, TargetFacts DEF OwnFiles, Owns
    <2>6. QED BY <1>w, <2>1, <2>4, <2>5 DEF OwnFiles, Owns, Running, Target, Whole
  <1>1. CASE UNCHANGED vars
    BY <1>1, <1>e DEF vars, history, launcher
  <1>2. ASSUME NEW a \in Arms, NEW o \in Options, Launch(a, o) PROVE OwnFiles'
    <2>1. CASE Refused(a, o) \/ Nothing(a, o)
      BY <1>2, <2>1, <1>e DEF Launch, Refused, Nothing, launcher
    <2>2. CASE Starts(a, o)
      <3>1. Off.pc = "off" BY DEF Off
      <3>2. \A i \in Threads : worker'[i].pc # "run" BY <2>2, <3>1, <1>o DEF Starts
      <3>3. QED BY <3>2 DEF OwnFiles, Owns, Running
    <2>3. QED BY <1>2, <2>1, <2>2 DEF Launch
  <1>3. CASE Join BY <1>3, <1>g DEF Join
  <1>4. CASE MachineDies BY <1>4, <1>g DEF MachineDies
  <1>5. ASSUME NEW i \in Threads, QueueEmpty(i) PROVE OwnFiles'
    BY <1>5, <1>s, <1>o DEF QueueEmpty, history
  <1>6. ASSUME NEW i \in Threads, NEW job, ThreadDies(i, job) PROVE OwnFiles'
    BY <1>6, <1>s, <1>o DEF ThreadDies, history
  <1>7. ASSUME NEW i \in Threads, NEW job, DryRun(i, job) PROVE OwnFiles'
    BY <1>7, <1>e DEF DryRun, history
  <1>8. ASSUME NEW i \in Threads, NEW job, EvaluatorStarts(i, job) PROVE OwnFiles'
    <2> DEFINE w == [pc |-> "run", job |-> job, left |-> Course(BuildCommand(job)), writing |-> FALSE, bad |-> FALSE]
    <2>1. /\ Set(i, w) /\ w.pc = "run" /\ w.job = job /\ w.left = Course(BuildCommand(job)) /\ ~w.writing
          /\ Takes(i, job) /\ UNCHANGED <<plan, disk, dir>>
      BY <1>8 DEF EvaluatorStarts, history
    <2> HIDE DEF w
    <2>2. \A j \in Threads : worker'[j] = IF j = i THEN w ELSE worker[j] BY <2>1, <1>t DEF Set
    <2>3. job \in JobsOf(plan) BY <2>1, TakeFacts
    <2>4. Accepted(plan) BY <2>1 DEF Takes, OneLaunch
    <2>5. InSeq(w.left) = JobFiles(plan, job) BY <2>1, <2>3, <2>4, <1>t, CourseFacts
    <2>6. Owns(i)' BY <2>1, <2>2, <2>3, <2>5 DEF Owns, Running
    <2>7. \A j \in Threads : Owns(j)' BY <2>1, <2>2, <2>6, <1>k
    <2>8. QED BY <2>7 DEF OwnFiles
  <1>9. ASSUME NEW i \in Threads, NEW job, RunJobRaises(i, job) PROVE OwnFiles'
    BY <1>9, <1>e DEF RunJobRaises, history
  <1>10. ASSUME NEW i \in Threads, WriteBegins(i) PROVE OwnFiles'
    <2> DEFINE w == [worker[i] EXCEPT !.writing = TRUE]  f == Target(i)
    <2>1. /\ Set(i, w) /\ Running(i) /\ w.pc = "run" /\ w.job = worker[i].job /\ w.left = worker[i].left
          /\ w.bad = worker[i].bad /\ worker[i].left # <<>>
      BY <1>10, <1>t DEF WriteBegins, Running, Thread
    <2>2. disk' = [disk EXCEPT ![dir][f] = "part"] /\ UNCHANGED <<plan, dir>> BY <1>10 DEF WriteBegins, history
    <2>3. f \in Files(plan) /\ f \in InSeq(worker[i].left) /\ f \in JobFiles(plan, worker[i].job)
      BY <2>1, TargetFacts
    <2> HIDE DEF w, f
    <2>4. \A j \in Threads : worker'[j] = IF j = i THEN w ELSE worker[j] BY <2>1, <1>t DEF Set
    <2>5. "part" \in Marks BY DEF Marks
    <2>6. \A j \in Threads \ {i} : Owns(j)' BY <2>1, <2>2, <2>3, <2>4, <2>5, <1>w
    <2>7. /\ disk'[dir][f] = "part"
          /\ \A g \in Files(plan) : g # f => disk'[dir][g] = disk[dir][g]
      BY <2>2, <2>3, <2>5, <1>t, Written
    <2>8. Owns(i)'
      <3>1. Target(i)' = f BY <2>1, <2>4 DEF Target, f
      <3>2. \A g \in JobFiles(plan, worker[i].job) \ InSeq(worker[i].left) : disk'[dir][g] = disk[dir][g]
        BY <2>3, <2>7 DEF JobFiles
      <3>3. QED BY <2>1, <2>2, <2>4, <2>7, <3>1, <3>2 DEF OwnFiles, Owns, Running, Whole
    <2>9. QED BY <2>6, <2>8 DEF OwnFiles
  <1>11. ASSUME NEW i \in Threads, NEW outcome \in Outcomes, WriteEnds(i, outcome) PROVE OwnFiles'
    <2> DEFINE l == Tail(worker[i].left)  w == [worker[i] EXCEPT !.writing = FALSE, !.left = l]  f == Target(i)
    <2>1. Set(i, w) /\ Running(i) /\ worker[i].left # <<>> BY <1>11 DEF WriteEnds, OwnFiles, Owns
    <2>2. w.pc = "run" /\ w.job = worker[i].job /\ w.left = l /\ w.bad = worker[i].bad /\ ~w.writing
      BY <2>1, <1>t DEF Running, Thread
    <2>3. disk' = [disk EXCEPT ![dir][f] = outcome] /\ UNCHANGED <<plan, dir>> BY <1>11 DEF WriteEnds, history
    <2>4. /\ f \in Files(plan) /\ f \in JobFiles(plan, worker[i].job) /\ InSeq(l) \subseteq InSeq(worker[i].left)
          /\ \A g \in InSeq(worker[i].left) : g = f \/ g \in InSeq(l)
      BY <2>1, TargetFacts
    <2> HIDE DEF w, f, l
    <2>5. \A j \in Threads : worker'[j] = IF j = i THEN w ELSE worker[j] BY <2>1, <1>t DEF Set
    <2>6. outcome \in Marks BY DEF Marks
    <2>7. \A j \in Threads \ {i} : Owns(j)' BY <2>1, <2>3, <2>4, <2>5, <2>6, <1>w
    <2>8. /\ disk'[dir][f] = outcome
          /\ \A g \in Files(plan) : g # f => disk'[dir][g] = disk[dir][g]
      BY <2>3, <2>4, <2>6, <1>t, Written
    <2>9. Owns(i)'
      <3>1. ASSUME ~worker[i].bad, NEW g \in JobFiles(plan, worker[i].job) \ InSeq(l) PROVE disk'[dir][g] \in Outcomes
        <4>1. CASE g = f BY <4>1, <2>8
        <4>2. CASE g # f
          <5>1. g \notin InSeq(worker[i].left) BY <4>2, <2>4, <3>1
          <5>2. disk[dir][g] \in Outcomes BY <5>1, <3>1, <2>1 DEF OwnFiles, Owns, Whole
          <5>3. QED BY <4>2, <5>2, <2>8 DEF JobFiles
        <4>3. QED BY <4>1, <4>2
      <3>2. InSeq(l) \subseteq JobFiles(plan, worker[i].job) BY <2>1, <2>4 DEF OwnFiles, Owns
      <3>3. QED BY <2>1, <2>2, <2>3, <2>5, <3>1, <3>2 DEF OwnFiles, Owns, Running, Whole
    <2>10. QED BY <2>7, <2>9 DEF OwnFiles
  <1>12. ASSUME NEW i \in Threads, RolloutFails(i) PROVE OwnFiles'
    <2> DEFINE l == Tail(worker[i].left)  w == [worker[i] EXCEPT !.bad = TRUE, !.left = l]
    <2>1. Set(i, w) /\ Running(i) /\ worker[i].left # <<>> /\ ~worker[i].writing /\ UNCHANGED <<plan, disk, dir>>
      BY <1>12 DEF RolloutFails, history
    <2>2. w.pc = "run" /\ w.job = worker[i].job /\ w.left = l /\ w.bad /\ ~w.writing
      BY <2>1, <1>t DEF Running, Thread
    <2>3. InSeq(l) \subseteq InSeq(worker[i].left) BY <2>1, TargetFacts
    <2> HIDE DEF w, l
    <2>4. \A j \in Threads : worker'[j] = IF j = i THEN w ELSE worker[j] BY <2>1, <1>t DEF Set
    <2>5. Owns(i)' BY <2>1, <2>2, <2>3, <2>4 DEF OwnFiles, Owns, Running
    <2>6. \A j \in Threads : Owns(j)' BY <2>1, <2>4, <2>5, <1>k
    <2>7. QED BY <2>6 DEF OwnFiles
  <1>13. ASSUME NEW i \in Threads, NEW rc, Running(i), Returns(i, rc) PROVE OwnFiles'
    BY <1>13, <1>s, <1>o DEF Returns, history
  <1>14. QED BY <1>1, <1>2, <1>3, <1>4, <1>5, <1>6, <1>7, <1>8, <1>9, <1>10, <1>11, <1>12, <1>13
             DEF Next, Working, Failing, GetNowait, EvaluatorExits, EvaluatorKilled

\* What is done stays done while its files are left alone.
LEMMA DoneKept ==
    ASSUME NEW a, NEW u, Done(a, u), UNCHANGED plan, asked'[a] = asked[a],
           \A f \in Files(plan) : <<f[1], f[2]>> = u => disk'[a][f] = disk[a][f]
    PROVE  Done(a, u)'
  <1> DEFINE mine == {f \in Files(plan) : <<f[1], f[2]>> = u}
  <1>1. mine' = mine BY DEF Files
  <1>2. \A f \in mine : Whole(a, f)' <=> Whole(a, f) BY DEF Whole
  <1>3. /\ \E f \in mine : Whole(a, f)
        /\ plan.rollouts = 1 \/ ~asked[a].resume => \A f \in mine : Whole(a, f)
    BY DEF Done
  <1>4. Done(a, u)' <=> /\ \E f \in mine' : Whole(a, f)'
                        /\ plan'.rollouts = 1 \/ ~asked'[a].resume => \A f \in mine' : Whole(a, f)'
    BY DEF Done
  <1> HIDE DEF mine
  <1>5. QED BY <1>1, <1>2, <1>3, <1>4

\* A unit all of whose files are whole is done.
LEMMA AllWhole ==
    ASSUME plan \in Plans, NEW a, NEW u \in Units(plan),
           \A f \in Files(plan) : <<f[1], f[2]>> = u => Whole(a, f)
    PROVE  Done(a, u)
  <1>1. u = <<u[1], u[2]>> /\ u[1] \in InSeq(plan.tasks) /\ u[2] \in InSeq(plan.instances) BY DEF Units
  <1>2. 0 \in 0 .. plan.rollouts - 1 BY PlanFacts
  <1> DEFINE g == <<u[1], u[2], 0>>
  <1>3. g \in Files(plan) /\ <<g[1], g[2]>> = u BY <1>1, <1>2 DEF Files
  <1> HIDE DEF g
  <1>4. QED BY <1>3 DEF Done

\* --resume leaves an instance out when one of its files is whole.
LEMMA ResumedDone ==
    ASSUME plan \in Plans, NEW d \in [Files(plan) -> Marks], NEW a, NEW u \in CompletedKeys(d),
           disk'[a] = d, asked'[a].resume, UNCHANGED plan
    PROVE  Done(a, u)'
  <1>1. PICK f \in DOMAIN d : d[f] \in Outcomes /\ u = <<f[1], f[2]>> BY DEF CompletedKeys
  <1>2. f \in Files(plan) /\ Whole(a, f)' BY <1>1 DEF Whole
  <1>3. ASSUME plan.rollouts = 1, NEW g \in Files(plan), <<g[1], g[2]>> = u PROVE g = f
    <2>1. 0 .. plan.rollouts - 1 = {0} BY <1>3
    <2>2. g = <<g[1], g[2], 0>> /\ f = <<f[1], f[2], 0>> BY <1>2, <2>1 DEF Files
    <2>3. g[1] = f[1] /\ g[2] = f[2] BY <1>1, <1>3
    <2>4. QED BY <2>2, <2>3
  <1>4. Files(plan)' = Files(plan) /\ plan' = plan BY DEF Files
  <1> DEFINE mine == {g \in Files(plan) : <<g[1], g[2]>> = u}
  <1>5. f \in mine /\ (plan.rollouts = 1 => \A g \in mine : g = f) BY <1>1, <1>2, <1>3
  <1>6. Done(a, u)' <=> /\ \E g \in mine' : Whole(a, g)'
                        /\ plan'.rollouts = 1 \/ ~asked'[a].resume => \A g \in mine' : Whole(a, g)'
    BY DEF Done
  <1>7. mine' = mine BY <1>4
  <1> HIDE DEF mine
  <1>8. QED BY <1>2, <1>4, <1>5, <1>6, <1>7

LEMMA CoverInit == Init => Accounted /\ Drained /\ ExitZeroMeansCovered
  <1> SUFFICES ASSUME Init PROVE Accounted /\ Drained /\ ExitZeroMeansCovered OBVIOUS
  <1>1. ~Up /\ queue = <<>> /\ \A a \in Arms : code[a] = "never" BY DEF Init, Up
  <1>2. QED BY <1>1 DEF Accounted, Drained, ExitZeroMeansCovered, EndedWell

LEMMA DrainedStep ==
    Typed /\ OneLaunch /\ Drained /\ [Next]_vars => Drained'
  <1> SUFFICES ASSUME Typed, OneLaunch, Drained, [Next]_vars PROVE Drained' OBVIOUS
  <1>t. /\ worker \in [Threads -> Thread(plan)] /\ plan \in Plans /\ dir \in Arms
        /\ code \in [Arms -> Codes] /\ asked \in [Arms -> Options] /\ queue \in Seq(JobsOf(plan))
    BY DEF Typed
  <1>o. Off.pc = "off" /\ \A pc : At(pc).pc = pc BY AtFacts DEF Off
  <1>k. ASSUME UNCHANGED <<plan, code, asked, dir>>, queue = <<>> => queue' = <<>>,
               \A j \in Threads : /\ worker'[j].pc = "end" => \/ worker[j].pc = "end" \/ queue' = <<>>
                                                             \/ plan.instances = <<>>
                                  /\ worker[j].pc # "off" => worker'[j].pc # "off"
        PROVE  Drained'
    <2>1. Up' <=> Up BY <1>k DEF Up
    <2>2. Up /\ asked[dir].workers > 0 => 1 \in Threads
      <3>1. asked[dir].workers \in 0 .. MaxWorkers BY <1>t, LaunchConstants
      <3>2. QED BY <3>1, LaunchConstants DEF Threads
    <2>3. QED BY <1>k, <2>1, <2>2 DEF Drained
  <1>s. ASSUME UNCHANGED <<plan, code, asked, dir>>, queue = <<>> => queue' = <<>>, NEW i \in Threads, NEW w, Set(i, w),
               w.pc # "off", w.pc = "end" => queue' = <<>> \/ plan.instances = <<>>
        PROVE  Drained'
    <2>1. \A j \in Threads : worker'[j] = IF j = i THEN w ELSE worker[j] BY <1>s, <1>t DEF Set
    <2>2. QED BY <1>s, <1>k, <2>1
  <1>g. ASSUME NEW c \in Codes, c # "running", code' = [code EXCEPT ![dir] = c], Gone, UNCHANGED dir
        PROVE  Drained'
    <2>1. ~Up' BY <1>g, <1>t DEF OneLaunch, Up
    <2>2. \A i \in Threads : worker'[i].pc = "off" BY <1>g, <1>o DEF Gone
    <2>3. QED BY <2>1, <2>2 DEF Drained
  <1>1. CASE UNCHANGED vars
    BY <1>1, <1>k DEF vars, history, launcher
  <1>2. ASSUME NEW a \in Arms, NEW o \in Options, Launch(a, o) PROVE Drained'
    <2>1. ~Up BY <1>2 DEF Launch
    <2>2. CASE Refused(a, o) \/ Nothing(a, o)
      <3>1. ~Up' BY <2>1, <2>2, <1>t DEF Refused, Nothing, Up
      <3>2. \A i \in Threads : worker'[i].pc = "off" BY <2>1, <2>2 DEF Refused, Nothing, launcher, OneLaunch
      <3>3. QED BY <3>1, <3>2 DEF Drained
    <2>3. CASE Starts(a, o)
      <3>1. dir' = a /\ asked'[a] = o BY <1>2, <2>3, <1>t DEF Launch, Starts
      <3>2. \A i \in Threads : worker'[i] = IF i <= o.workers THEN At("get") ELSE Off BY <2>3 DEF Starts
      <3>3. \A i \in Threads : worker'[i].pc # "end" BY <3>2, <1>o
      <3>4. ASSUME o.workers > 0 PROVE worker'[1].pc # "off"
        <4>1. o.workers \in 0 .. MaxWorkers BY LaunchConstants
        <4>2. 1 \in Threads /\ 1 <= o.workers BY <3>4, <4>1, LaunchConstants DEF Threads
        <4>3. QED BY <4>2, <3>2, <1>o
      <3>5. QED BY <3>1, <3>3, <3>4 DEF Drained
    <2>4. QED BY <1>2, <2>2, <2>3 DEF Launch
  <1>3. CASE Join BY <1>3, <1>g DEF Join, ExitCode, Codes
  <1>4. CASE MachineDies BY <1>4, <1>g DEF MachineDies, Codes
  <1>5. ASSUME NEW i \in Threads, QueueEmpty(i) PROVE Drained'
    BY <1>5, <1>s, <1>o DEF QueueEmpty, history
  <1>6. ASSUME NEW i \in Threads, NEW job, ThreadDies(i, job) PROVE Drained'
    <2>1. job \in JobsOf(plan) BY <1>6, TakeFacts DEF ThreadDies
    <2>2. plan.instances = <<>> BY <1>6, <2>1, <1>t, JobFacts DEF ThreadDies
    <2>3. QED BY <1>6, <2>2, <1>s, <1>o DEF ThreadDies, Takes, history
  <1>7. ASSUME NEW i \in Threads, NEW job, DryRun(i, job) PROVE Drained'
    BY <1>7, <1>k DEF DryRun, Takes, history
  <1>8. ASSUME NEW i \in Threads, NEW job, EvaluatorStarts(i, job) PROVE Drained'
    <2> DEFINE w == [pc |-> "run", job |-> job, left |-> Course(BuildCommand(job)), writing |-> FALSE, bad |-> FALSE]
    <2>1. Set(i, w) /\ w.pc = "run" BY <1>8 DEF EvaluatorStarts
    <2> HIDE DEF w
    <2>2. QED BY <1>8, <2>1, <1>s DEF EvaluatorStarts, Takes, history
  <1>9. ASSUME NEW i \in Threads, NEW job, RunJobRaises(i, job) PROVE Drained'
    BY <1>9, <1>k DEF RunJobRaises, Takes, history
  <1>10. ASSUME NEW i \in Threads, WriteBegins(i) PROVE Drained'
    <2> DEFINE w == [worker[i] EXCEPT !.writing = TRUE]
    <2>1. Set(i, w) /\ w.pc = "run" BY <1>10, <1>t DEF WriteBegins, Running, Thread
    <2> HIDE DEF w
    <2>2. QED BY <1>10, <2>1, <1>s DEF WriteBegins, history
  <1>11. ASSUME NEW i \in Threads, NEW outcome \in Outcomes, WriteEnds(i, outcome) PROVE Drained'
    <2> DEFINE w == [worker[i] EXCEPT !.writing = FALSE, !.left = Tail(@)]
    <2>1. Set(i, w) BY <1>11 DEF WriteEnds
    <2>2. w.pc = "run" BY <1>11, <1>t DEF WriteEnds, Running, Thread
    <2> HIDE DEF w
    <2>3. QED BY <1>11, <2>1, <2>2, <1>s DEF WriteEnds, history
  <1>12. ASSUME NEW i \in Threads, RolloutFails(i) PROVE Drained'
    <2> DEFINE w == [worker[i] EXCEPT !.bad = TRUE, !.left = Tail(@)]
    <2>1. Set(i, w) BY <1>12 DEF RolloutFails
    <2>2. w.pc = "run" BY <1>12, <1>t DEF RolloutFails, Running, Thread
    <2> HIDE DEF w
    <2>3. QED BY <1>12, <2>1, <2>2, <1>s DEF RolloutFails, history
  <1>13. ASSUME NEW i \in Threads, NEW rc, Returns(i, rc) PROVE Drained'
    BY <1>13, <1>s, <1>o DEF Returns, history
  <1>14. QED BY <1>1, <1>2, <1>3, <1>4, <1>5, <1>6, <1>7, <1>8, <1>9, <1>10, <1>11, <1>12, <1>13
             DEF Next, Working, Failing, GetNowait, EvaluatorExits, EvaluatorKilled

LEMMA AccountedStep ==
    Typed /\ OneLaunch /\ JobsApart /\ OwnFiles /\ Accounted /\ [Next]_vars => Accounted'
  <1> SUFFICES ASSUME Typed, OneLaunch, JobsApart, OwnFiles, Accounted, [Next]_vars PROVE Accounted' OBVIOUS
  <1>t. /\ worker \in [Threads -> Thread(plan)] /\ plan \in Plans /\ dir \in Arms
        /\ code \in [Arms -> Codes] /\ asked \in [Arms -> Options] /\ queue \in Seq(JobsOf(plan))
        /\ disk \in [Arms -> [Files(plan) -> Marks]]
    BY DEF Typed
  <1>o. \A pc : At(pc).pc = pc BY AtFacts
  <1>k. ASSUME UNCHANGED history, UNCHANGED dir,
               \A u \in Units(plan) : ~asked[dir].dry /\ Pending(u) => Pending(u)'
        PROVE  Accounted'
    <2>1. Up' <=> Up BY <1>k DEF Up, history
    <2>2. UNCHANGED <<plan, asked, dir>> BY <1>k DEF history
    <2>3. Units(plan)' = Units(plan) BY <2>2 DEF Units
    <2>4. QED BY <1>k, <2>1, <2>2, <2>3 DEF Accounted
  <1>d. ASSUME UNCHANGED history, UNCHANGED <<dir, disk>>, NEW u, Done(dir, u) PROVE Done(dir, u)'
    BY <1>d, DoneKept DEF history
  <1>s. ASSUME NEW i \in Threads, NEW w, Set(i, w)
        PROVE  worker'[i] = w /\ \A j \in Threads : j # i => worker'[j] = worker[j]
    BY <1>s, <1>t DEF Set
  <1>q. ASSUME NEW i \in Threads, NEW job, Takes(i, job), NEW u, \E n \in DOMAIN queue : u \in JobUnits(queue[n])
        PROVE  u \in JobUnits(job) \/ \E n \in DOMAIN queue' : u \in JobUnits(queue'[n])
    <2>1. PICK n \in DOMAIN queue : u \in JobUnits(queue[n]) BY <1>q
    <2>2. queue[n] = job \/ queue[n] \in InSeq(queue') BY <1>q, TakeFacts DEF InSeq
    <2>3. QED BY <2>1, <2>2 DEF InSeq
  <1>1. CASE UNCHANGED vars
    <2>1. \A u \in Units(plan) : Pending(u) => Pending(u)'
      BY <1>1, <1>d DEF Pending, Running, vars, launcher
    <2>2. QED BY <1>1, <2>1, <1>k DEF vars, launcher
  <1>2. ASSUME NEW a \in Arms, NEW o \in Options, Launch(a, o) PROVE Accounted'
    <2>1. ~Up /\ UNCHANGED <<plan, disk>> BY <1>2 DEF Launch
    <2>2. CASE Refused(a, o) \/ Nothing(a, o)
      <3>1. ~Up' BY <2>1, <2>2, <1>t DEF Refused, Nothing, Up
      <3>2. QED BY <3>1 DEF Accounted
    <2>3. CASE Starts(a, o)
      <3>1. dir' = a /\ asked'[a] = o /\ queue' = ToLaunch(plan, o, disk[a])
        BY <1>2, <2>3, <1>t DEF Launch, Starts
      <3>2. ASSUME NEW u \in Units(plan) PROVE Pending(u)'
        <4>1. (\E n \in DOMAIN queue' : u \in JobUnits(queue'[n])) \/ (o.resume /\ u \in CompletedKeys(disk[a]))
          BY <3>1, <1>t, LaunchedFacts
        <4>2. ASSUME o.resume, u \in CompletedKeys(disk[a]) PROVE Done(dir, u)'
          <5>1. disk[a] \in [Files(plan) -> Marks] /\ disk'[a] = disk[a] BY <2>1, <1>t
          <5>2. Done(a, u)' BY <5>1, <4>2, <3>1, <2>1, <1>t, ResumedDone
          <5>3. QED BY <5>2, <3>1 DEF Done, Whole
        <4>3. QED BY <4>1, <4>2 DEF Pending
      <3>3. Units(plan)' = Units(plan) BY <2>1 DEF Units
      <3>4. QED BY <3>2, <3>3 DEF Accounted
    <2>4. QED BY <1>2, <2>2, <2>3 DEF Launch
  <1>g. ASSUME NEW c, c # "running", code' = [code EXCEPT ![dir] = c] PROVE Accounted'
    <2>1. ~Up' BY <1>g, <1>t DEF OneLaunch, Up
    <2>2. QED BY <2>1 DEF Accounted
  <1>3. CASE Join BY <1>3, <1>g DEF Join, ExitCode
  <1>4. CASE MachineDies BY <1>4, <1>g DEF MachineDies
  <1>5. ASSUME NEW i \in Threads, QueueEmpty(i) PROVE Accounted'
    <2>1. UNCHANGED history /\ UNCHANGED <<dir, disk, queue, results>> /\ Set(i, At("end")) /\ ~Running(i)
      BY <1>5 DEF QueueEmpty, Running
    <2>2. \A u \in Units(plan) : Pending(u) => Pending(u)' BY <2>1, <1>d, <1>s DEF Pending, Running
    <2>3. QED BY <2>1, <2>2, <1>k
  <1>6. ASSUME NEW i \in Threads, NEW job, ThreadDies(i, job) PROVE Accounted'
    <2>1. /\ UNCHANGED history /\ UNCHANGED <<dir, disk, results>> /\ Set(i, At("end")) /\ ~Running(i)
          /\ Takes(i, job) /\ job.instances = <<>>
      BY <1>6 DEF ThreadDies, Takes, Running
    <2>2. JobUnits(job) = {} BY <2>1 DEF JobUnits, InSeq
    <2>3. \A u \in Units(plan) : Pending(u) => Pending(u)' BY <2>1, <2>2, <1>d, <1>s, <1>q DEF Pending, Running
    <2>4. QED BY <2>1, <2>3, <1>k
  <1>7. ASSUME NEW i \in Threads, NEW job, DryRun(i, job) PROVE Accounted'
    BY <1>7, <1>k DEF DryRun
  <1>8. ASSUME NEW i \in Threads, NEW job, EvaluatorStarts(i, job) PROVE Accounted'
    <2> DEFINE w == [pc |-> "run", job |-> job, left |-> Course(BuildCommand(job)), writing |-> FALSE, bad |-> FALSE]
    <2>1. /\ UNCHANGED history /\ UNCHANGED <<dir, disk, results>> /\ Set(i, w) /\ ~Running(i)
          /\ Takes(i, job) /\ w.pc = "run" /\ w.job = job
      BY <1>8 DEF EvaluatorStarts, Takes, Running
    <2> HIDE DEF w
    <2>2. Running(i)' /\ worker'[i].job = job BY <2>1, <1>s DEF Running
    <2>3. \A j \in Threads : Running(j) => Running(j)' /\ worker'[j].job = worker[j].job
      BY <2>1, <1>s DEF Running
    <2>4. \A u \in Units(plan) : Pending(u) => Pending(u)' BY <2>1, <2>2, <2>3, <1>d, <1>q DEF Pending
    <2>5. QED BY <2>1, <2>4, <1>k
  <1>r. ASSUME NEW job, NEW rc, rc # "ok", Report(job, rc) PROVE \A u : Pending(u)'
    <2>1. [job |-> job, rc |-> rc] \in results' /\ [job |-> job, rc |-> rc].rc # "ok" BY <1>r DEF Report
    <2>2. QED BY <2>1 DEF Pending
  <1>9. ASSUME NEW i \in Threads, NEW job, RunJobRaises(i, job) PROVE Accounted'
    <2>1. \A u : Pending(u)' BY <1>9, <1>r DEF RunJobRaises
    <2>2. QED BY <1>9, <2>1, <1>k DEF RunJobRaises
  \* A file of a job at work is of a unit that is still pending.
  <1>w. ASSUME NEW i \in Threads, Running(i), NEW w, Set(i, w), w.pc = "run", w.job = worker[i].job,
               UNCHANGED history, UNCHANGED <<dir, queue, results>>,
               NEW f \in JobFiles(plan, worker[i].job),
               \A g \in Files(plan) : g # f => disk'[dir][g] = disk[dir][g]
        PROVE  Accounted'
    <2>1. \A j \in Threads : Running(j) => Running(j)' /\ worker'[j].job = worker[j].job
      BY <1>w, <1>s DEF Running
    <2>2. ASSUME NEW u \in Units(plan), Pending(u) PROVE Pending(u)'
      <3>1. CASE u \in JobUnits(worker[i].job) BY <3>1, <2>1, <1>w DEF Pending
      <3>2. CASE u \notin JobUnits(worker[i].job)
        <4>1. <<f[1], f[2]>> # u BY <3>2 DEF JobFiles
        <4>2. \A g \in Files(plan) : <<g[1], g[2]>> = u => disk'[dir][g] = disk[dir][g] BY <4>1, <1>w
        <4>3. Done(dir, u) => Done(dir, u)'
          <5>1. UNCHANGED plan /\ asked'[dir] = asked[dir] /\ dir' = dir BY <1>w DEF history
          <5>2. ASSUME Done(dir, u) PROVE Done(dir, u)' BY <5>1, <5>2, <4>2, DoneKept
          <5>3. QED BY <5>2
        <4>4. QED BY <2>2, <4>3, <2>1, <1>w DEF Pending
      <3>3. QED BY <3>1, <3>2
    <2>3. QED BY <2>2, <1>k, <1>w
  <1>10. ASSUME NEW i \in Threads, WriteBegins(i) PROVE Accounted'
    <2> DEFINE w == [worker[i] EXCEPT !.writing = TRUE]  f == Target(i)
    <2>1. Set(i, w) /\ Running(i) /\ w.pc = "run" /\ w.job = worker[i].job /\ worker[i].left # <<>>
      BY <1>10, <1>t DEF WriteBegins, Running, Thread
    <2>2. f \in Files(plan) /\ f \in JobFiles(plan, worker[i].job) BY <2>1, TargetFacts
    <2>3. "part" \in Marks /\ disk' = [disk EXCEPT ![dir][f] = "part"] BY <1>10 DEF WriteBegins, Marks
    <2> HIDE DEF w, f
    <2>4. \A g \in Files(plan) : g # f => disk'[dir][g] = disk[dir][g] BY <2>2, <2>3, <1>t, Written
    <2>5. UNCHANGED history /\ UNCHANGED <<dir, queue, results>> BY <1>10 DEF WriteBegins
    <2>6. QED BY <2>1, <2>2, <2>4, <2>5, <1>w
  <1>11. ASSUME NEW i \in Threads, NEW outcome \in Outcomes, WriteEnds(i, outcome) PROVE Accounted'
    <2> DEFINE l == Tail(worker[i].left)  w == [worker[i] EXCEPT !.writing = FALSE, !.left = l]  f == Target(i)
    <2>1. Set(i, w) /\ Running(i) /\ worker[i].left # <<>> BY <1>11 DEF WriteEnds, OwnFiles, Owns
    <2>2. w.pc = "run" /\ w.job = worker[i].job BY <2>1, <1>t DEF Running, Thread
    <2>3. f \in Files(plan) /\ f \in JobFiles(plan, worker[i].job) BY <2>1, TargetFacts
    <2>4. outcome \in Marks /\ disk' = [disk EXCEPT ![dir][f] = outcome] BY <1>11 DEF WriteEnds, Marks
    <2> HIDE DEF w, f, l
    <2>5. \A g \in Files(plan) : g # f => disk'[dir][g] = disk[dir][g] BY <2>3, <2>4, <1>t, Written
    <2>6. UNCHANGED history /\ UNCHANGED <<dir, queue, results>> BY <1>11 DEF WriteEnds
    <2>7. QED BY <2>1, <2>2, <2>3, <2>5, <2>6, <1>w
  <1>12. ASSUME NEW i \in Threads, RolloutFails(i) PROVE Accounted'
    <2> DEFINE l == Tail(worker[i].left)  w == [worker[i] EXCEPT !.bad = TRUE, !.left = l]  f == Target(i)
    <2>1. Set(i, w) /\ Running(i) /\ worker[i].left # <<>> BY <1>12 DEF RolloutFails
    <2>2. w.pc = "run" /\ w.job = worker[i].job BY <2>1, <1>t DEF Running, Thread
    <2>3. f \in JobFiles(plan, worker[i].job) BY <2>1, TargetFacts
    <2> HIDE DEF w, f, l
    <2>4. UNCHANGED history /\ UNCHANGED <<dir, disk, queue, results>> BY <1>12 DEF RolloutFails
    <2>5. QED BY <2>1, <2>2, <2>3, <2>4, <1>w
  <1>13. ASSUME NEW i \in Threads, EvaluatorExits(i) PROVE Accounted'
    <2>1. CASE worker[i].bad
      <3>1. \A u : Pending(u)' BY <1>13, <2>1, <1>r DEF EvaluatorExits, Returns
      <3>2. QED BY <1>13, <3>1, <1>k DEF EvaluatorExits, Returns
    <2>2. CASE ~worker[i].bad
      <3>1. /\ UNCHANGED history /\ UNCHANGED <<dir, disk, queue>> /\ Set(i, At("get")) /\ Running(i)
            /\ worker[i].left = <<>> /\ results \subseteq results'
        BY <1>13 DEF EvaluatorExits, Returns, Report
      <3>2. \A f \in JobFiles(plan, worker[i].job) : Whole(dir, f) BY <2>2, <3>1 DEF OwnFiles, Owns, InSeq
      <3>3. \A j \in Threads : j # i /\ Running(j) => Running(j)' /\ worker'[j].job = worker[j].job
        BY <3>1, <1>s DEF Running
      <3>4. ASSUME NEW u \in Units(plan), Pending(u) PROVE Pending(u)'
        <4>1. CASE u \in JobUnits(worker[i].job)
          <5>1. \A f \in Files(plan) : <<f[1], f[2]>> = u => Whole(dir, f) BY <4>1, <3>2 DEF JobFiles
          <5>2. Done(dir, u) BY <5>1, <1>t, AllWhole
          <5>3. QED BY <5>2, <3>1, <1>d DEF Pending
        <4>2. CASE u \notin JobUnits(worker[i].job) BY <3>1, <3>3, <3>4, <4>2, <1>d DEF Pending
        <4>3. QED BY <4>1, <4>2
      <3>5. QED BY <3>1, <3>4, <1>k
    <2>3. QED BY <2>1, <2>2
  <1>14. ASSUME NEW i \in Threads, EvaluatorKilled(i) PROVE Accounted'
    <2>1. \A u : Pending(u)' BY <1>14, <1>r DEF EvaluatorKilled, Returns
    <2>2. QED BY <1>14, <2>1, <1>k DEF EvaluatorKilled, Returns
  <1>15. QED BY <1>1, <1>2, <1>3, <1>4, <1>5, <1>6, <1>7, <1>8, <1>9, <1>10, <1>11, <1>12, <1>13, <1>14
             DEF Next, Working, Failing, GetNowait

LEMMA CoverStep ==
    Typed /\ OneLaunch /\ Accounted /\ Drained /\ ExitZeroMeansCovered /\ [Next]_vars => ExitZeroMeansCovered'
  <1> SUFFICES ASSUME Typed, OneLaunch, Accounted, Drained, ExitZeroMeansCovered, [Next]_vars
               PROVE  ExitZeroMeansCovered'
    OBVIOUS
  <1>t. /\ worker \in [Threads -> Thread(plan)] /\ plan \in Plans /\ dir \in Arms
        /\ code \in [Arms -> Codes] /\ asked \in [Arms -> Options]
        /\ disk \in [Arms -> [Files(plan) -> Marks]]
    BY DEF Typed
  <1>k. ASSUME UNCHANGED plan,
               NEW a \in Arms, code[a] = "0" /\ asked'[a] = asked[a] /\ disk'[a] = disk[a],
               asked'[a].workers > 0 /\ ~asked'[a].dry
        PROVE  Covered(a)'
    <2>1. Covered(a) BY <1>k DEF ExitZeroMeansCovered, EndedWell
    <2>2. \A u \in Units(plan) : Done(a, u)' BY <2>1, <1>k, DoneKept DEF Covered
    <2>3. Units(plan)' = Units(plan) BY <1>k DEF Units
    <2>4. QED BY <2>2, <2>3 DEF Covered
  <1>f. ASSUME UNCHANGED plan,
               \A a \in Arms : code'[a] = "0" => code[a] = "0" /\ asked'[a] = asked[a] /\ disk'[a] = disk[a]
        PROVE  ExitZeroMeansCovered'
    BY <1>f, <1>k DEF ExitZeroMeansCovered, EndedWell
  \* A thread at work changes the disk of the arm that is running, if any.
  <1>h. ASSUME UNCHANGED history, NEW i \in Threads, worker[i].pc # "off",
               \A a \in Arms : a # dir => disk'[a] = disk[a]
        PROVE  ExitZeroMeansCovered'
    <2>1. code[dir] = "running" BY <1>h DEF OneLaunch, Up
    <2>2. QED BY <1>h, <2>1, <1>f DEF history
  <1>1. CASE UNCHANGED vars BY <1>1, <1>f DEF vars, history
  <1>2. ASSUME NEW a \in Arms, NEW o \in Options, Launch(a, o) PROVE ExitZeroMeansCovered'
    <2>1. UNCHANGED <<plan, disk>> /\ asked' = [asked EXCEPT ![a] = o] BY <1>2 DEF Launch
    <2>2. \A b \in Arms : b # a => asked'[b] = asked[b] BY <2>1, <1>t
    <2>3. CASE Refused(a, o) \/ Starts(a, o)
      <3>1. \A b \in Arms : code'[b] = "0" => code[b] = "0" /\ b # a BY <2>3, <1>t DEF Refused, Starts
      <3>2. QED BY <3>1, <2>1, <2>2, <1>f
    <2>4. CASE Nothing(a, o)
      <3>1. \A b \in Arms : code'[b] = "0" => b = a \/ code[b] = "0" BY <2>4, <1>t DEF Nothing
      <3>2. ToLaunch(plan, o, disk[a]) = <<>> BY <2>4 DEF Nothing
      <3>3. ASSUME NEW u \in Units(plan) PROVE Done(a, u)'
        <4>1. o.resume /\ u \in CompletedKeys(disk[a]) BY <3>2, <1>t, LaunchedFacts
        <4>2. disk[a] \in [Files(plan) -> Marks] /\ disk'[a] = disk[a] /\ asked'[a] = o BY <2>1, <1>t
        <4>3. QED BY <4>1, <4>2, <2>1, <1>t, ResumedDone
      <3>4. Units(plan)' = Units(plan) BY <2>1 DEF Units
      <3>5. Covered(a)' BY <3>3, <3>4 DEF Covered
      <3>6. QED BY <3>1, <3>5, <2>1, <2>2, <1>k DEF ExitZeroMeansCovered, EndedWell
    <2>5. QED BY <1>2, <2>3, <2>4 DEF Launch
  <1>3. CASE Join
    <2>1. /\ UNCHANGED <<plan, asked, disk, dir>> /\ code' = [code EXCEPT ![dir] = ExitCode]
          /\ Up /\ \A i \in Threads : worker[i].pc \in {"off", "end"}
      BY <1>3 DEF Join
    <2>2. \A b \in Arms : code'[b] = "0" => code[b] = "0" \/ (b = dir /\ ExitCode = "0") BY <2>1, <1>t
    <2>3. ASSUME ExitCode = "0", asked[dir].workers > 0, ~asked[dir].dry PROVE Covered(dir)'
      <3>1. \A r \in results : r.rc = "ok" BY <2>3 DEF ExitCode
      <3>2. 1 \in Threads
        <4>1. asked[dir].workers \in 0 .. MaxWorkers BY <1>t, LaunchConstants
        <4>2. QED BY <2>3, <4>1, LaunchConstants DEF Threads
      <3>3. worker[1].pc = "end" BY <3>2, <2>1, <2>3 DEF Drained
      <3>4. queue = <<>> \/ plan.instances = <<>> BY <3>2, <3>3 DEF Drained
      <3>5. ASSUME NEW u \in Units(plan) PROVE Done(dir, u)
        <4>1. CASE queue = <<>>
          <5>1. Pending(u) BY <2>1, <2>3 DEF Accounted
          <5>2. ~\E n \in DOMAIN queue : u \in JobUnits(queue[n]) BY <4>1
          <5>3. QED BY <5>1, <5>2, <2>1, <3>1 DEF Pending, Running
        <4>2. CASE plan.instances = <<>> BY <4>2 DEF Units, InSeq
        <4>3. QED BY <4>1, <4>2, <3>4
      <3>6. \A u \in Units(plan) : Done(dir, u)' BY <3>5, <2>1, DoneKept
      <3>7. Units(plan)' = Units(plan) BY <2>1 DEF Units
      <3>8. QED BY <3>6, <3>7, <2>1 DEF Covered
    <2>4. ASSUME NEW b \in Arms, code'[b] = "0", asked'[b].workers > 0, ~asked'[b].dry PROVE Covered(b)'
      <3>1. CASE code[b] = "0" BY <3>1, <2>1, <2>4, <1>k
      <3>2. CASE b = dir /\ ExitCode = "0"
        <4>1. Covered(dir)' BY <3>2, <2>1, <2>3, <2>4
        <4>2. QED BY <4>1, <3>2, <2>1 DEF Covered, Done, Whole
      <3>3. QED BY <2>2, <2>4, <3>1, <3>2
    <2>5. QED BY <2>4 DEF ExitZeroMeansCovered, EndedWell
  <1>4. CASE MachineDies
    <2>1. UNCHANGED <<plan, asked, disk>> /\ \A b \in Arms : code'[b] = "0" => code[b] = "0"
      BY <1>4, <1>t DEF MachineDies
    <2>2. QED BY <2>1, <1>f
  <1>5. ASSUME NEW i \in Threads, Working(i) \/ Failing(i) PROVE ExitZeroMeansCovered'
    <2>1. UNCHANGED history
      BY <1>5 DEF Working, Failing, GetNowait, QueueEmpty, ThreadDies, DryRun, EvaluatorStarts, RunJobRaises,
                  WriteBegins, WriteEnds, RolloutFails, EvaluatorExits, EvaluatorKilled, Returns
    <2>2. worker[i].pc # "off"
      <3>1. ASSUME NEW outcome, WriteEnds(i, outcome) PROVE Running(i) BY <3>1 DEF WriteEnds
      <3>2. QED BY <1>5, <3>1 DEF Working, Failing, GetNowait, QueueEmpty, ThreadDies, DryRun, EvaluatorStarts, RunJobRaises,
                     WriteBegins, RolloutFails, EvaluatorExits, EvaluatorKilled, Takes, Running
    <2>3. disk' = disk \/ \E f, v : disk' = [disk EXCEPT ![dir][f] = v]
      BY <1>5 DEF Working, Failing, GetNowait, QueueEmpty, ThreadDies, DryRun, EvaluatorStarts, RunJobRaises,
                  WriteBegins, WriteEnds, RolloutFails, EvaluatorExits, EvaluatorKilled, Returns
    <2>4. \A a \in Arms : a # dir => disk'[a] = disk[a] BY <2>3, <1>t
    <2>5. QED BY <2>1, <2>2, <2>4, <1>h
  <1>6. QED BY <1>1, <1>2, <1>3, <1>4, <1>5 DEF Next

-----------------------------------------------------------------------------
(* What follows *)

LEMMA SweepAlways == Spec => []SweepInv
  <1>1. Init => SweepInv BY TypedInit, LaunchInit, CoverInit DEF SweepInv
  <1>2. SweepInv /\ [Next]_vars => SweepInv'
    BY TypedStep, OneLaunchStep, JobsApartStep, OwnFilesStep, AccountedStep, DrainedStep, CoverStep DEF SweepInv
  <1>3. QED BY <1>1, <1>2, PTL DEF Spec

\* Every reachable state of the launcher has the declared types: a thread has a job
\* only while its evaluator runs, and a file being written is truncated.
THEOREM SweepTypeCorrect == Spec => []TypeOK
  <1>1. ASSUME SweepInv PROVE TypeOK
    <2>1. Typed /\ OneLaunch /\ JobsApart /\ OwnFiles BY <1>1 DEF SweepInv
    <2>2. \A i \in Threads : worker[i].pc \in {"off", "get", "run", "end"} BY <2>1 DEF Typed, Thread
    <2>3. \A i \in Threads : worker[i].pc # "run" => worker[i].job = NoJob /\ ~worker[i].writing
      BY <2>1, AtFacts DEF OneLaunch
    <2>4. \A i \in Threads : worker[i].writing => disk[dir][Target(i)] = "part"
      BY <2>1, <2>3 DEF OwnFiles, Owns, Running
    <2>5. QED BY <2>1, <2>2, <2>3, <2>4 DEF TypeOK, Typed, JobsApart, Codes, Marks
  <1>2. QED BY <1>1, SweepAlways, PTL

\* Two evaluators at work never have a result file in common.
THEOREM WritersApart == Spec => []OneWriterPerFile
  <1>1. ASSUME SweepInv PROVE OneWriterPerFile
    <2>1. Typed /\ OneLaunch /\ JobsApart /\ OwnFiles BY <1>1 DEF SweepInv
    <2>2. ASSUME NEW i \in Threads, ~Running(i) PROVE InSeq(worker[i].left) = {}
      BY <2>1, <2>2, AtFacts DEF OneLaunch, Running, InSeq
    <2>3. ASSUME NEW i \in Threads, NEW j \in Threads, i # j, Running(i), Running(j)
          PROVE  InSeq(worker[i].left) \cap InSeq(worker[j].left) = {}
      <3>1. JobFiles(plan, worker[i].job) \cap JobFiles(plan, worker[j].job) = {} BY <2>1, <2>3, OthersFiles
      <3>2. QED BY <2>1, <2>3, <3>1 DEF OwnFiles, Owns
    <2>4. QED BY <2>2, <2>3 DEF OneWriterPerFile
  <1>2. QED BY <1>1, SweepAlways, PTL

\* What exit code 0 of a launch that had a worker and was no dry run promises,
\* whatever failed, was killed, died or was resumed before: no instance of the plan is
\* without a result; and when it was not resumed, or had one rollout per instance, no
\* rollout is.  That no rollout is in any case (launch.py:268) is false: the run
\* sweep_whole refutes ExitZeroMeansWhole.
THEOREM ExitZeroCovers == Spec => []ExitZeroMeansCovered
  BY SweepAlways, PTL DEF SweepInv

-----------------------------------------------------------------------------
(* What is read from the directories *)

\* The sum over a finite set of integers is one: the recursive function inside
\* MapThenSumSet exists and is integer, by induction over the size of the set.
LEMMA TotalType ==
    ASSUME NEW d, NEW files, NEW S, S = Scored(d, files), IsFiniteSet(S), \A f \in S : QScore(d, f) \in Int
    PROVE  TotalQ(d, files) \in Int
  <1> DEFINE pick(s) == CHOOSE x \in s : TRUE
             body(f, s) == IF s = {} THEN 0 ELSE QScore(d, pick(s)) + f[s \ {pick(s)}]
             IsSum(f, T) == f = [s \in T |-> body(f, s)]
             N == Cardinality(S)
             Level(n) == {s \in SUBSET S : Cardinality(s) <= n}
             Fine(n) == /\ \E f : IsSum(f, Level(n))
                        /\ \A f : IsSum(f, SUBSET S) => \A s \in Level(n) : f[s] \in Int
  <1>1. TotalQ(d, files) = (CHOOSE f : IsSum(f, SUBSET S))[S] BY DEF TotalQ, MapThenSumSet, MapThenFoldSet
  <1>2. N \in Nat BY FS_CardinalityType
  <1>3. \A s \in SUBSET S : Cardinality(s) \in Nat /\ Cardinality(s) <= N /\ (Cardinality(s) = 0 <=> s = {})
    <2>1. TAKE s \in SUBSET S
    <2>2. IsFiniteSet(s) /\ Cardinality(s) <= N BY FS_Subset
    <2>3. QED BY <2>2, FS_CardinalityType, FS_EmptySet
  <1>4. ASSUME NEW s \in SUBSET S, s # {}
        PROVE  /\ pick(s) \in S /\ s \ {pick(s)} \in SUBSET S
               /\ Cardinality(s \ {pick(s)}) = Cardinality(s) - 1
    <2>1. pick(s) \in s BY <1>4
    <2>2. IsFiniteSet(s) BY FS_Subset
    <2>3. QED BY <2>1, <2>2, FS_RemoveElement
  <1> HIDE DEF N, pick
  <1>5. Level(N) = SUBSET S BY <1>3
  <1>6. Level(0) = {{}}
    <2>1. {} \in SUBSET S OBVIOUS
    <2>2. \A s \in SUBSET S : Cardinality(s) <= 0 <=> s = {} BY <1>3
    <2>3. QED BY <2>1, <2>2
  <1>7. Fine(0)
    <2> DEFINE f == [s \in {{}} |-> 0]
    <2>1. f = [s \in {{}} |-> body(f, s)] BY Zenon
    <2>2. IsSum(f, Level(0)) BY <2>1, <1>6, Zenon
    <2>3. ASSUME NEW g, IsSum(g, SUBSET S) PROVE g[{}] = 0
      <3>1. {} \in SUBSET S OBVIOUS
      <3>2. g[{}] = body(g, {}) BY <2>3, <3>1, Zenon
      <3>3. QED BY <3>2
    <2> HIDE DEF f, IsSum
    <2>4. \A g : IsSum(g, SUBSET S) => g[{}] \in Int
      <3>1. ASSUME NEW g, IsSum(g, SUBSET S) PROVE g[{}] \in Int
        <4>1. g[{}] = 0 BY <2>3, <3>1, Zenon
        <4>2. QED BY <4>1
      <3>2. QED BY <3>1, Zenon
    <2>5. \A g : IsSum(g, SUBSET S) => \A s \in Level(0) : g[s] \in Int BY <1>6, <2>4, Zenon
    <2>6. QED BY <2>2, <2>5, Zenon
  <1>8. ASSUME NEW k \in 0 .. N - 1, Fine(k) PROVE Fine(k + 1)
    <2>1. k \in Nat /\ k + 1 \in Nat BY <1>2
    <2>2. Level(k) \subseteq Level(k + 1) BY <1>3, <2>1
    <2>3. \A s \in Level(k + 1) : s # {} => pick(s) \in S /\ s \ {pick(s)} \in Level(k) /\ s \in SUBSET S
      <3>1. TAKE s \in Level(k + 1)
      <3>2. HAVE s # {}
      <3>3. Cardinality(s) \in Nat /\ Cardinality(s) <= k + 1 /\ s \in SUBSET S BY <1>3
      <3>4. /\ Cardinality(s \ {pick(s)}) = Cardinality(s) - 1
            /\ pick(s) \in S /\ s \ {pick(s)} \in SUBSET S
        BY <1>4, <3>2, <3>3
      <3>5. Cardinality(s) - 1 <= k BY <3>3, <2>1
      <3>6. QED BY <3>3, <3>4, <3>5
    <2>4. Level(k + 1) \subseteq SUBSET S OBVIOUS
    <2> HIDE DEF Level
    <2>5. \E f : IsSum(f, Level(k + 1))
      <3>1. PICK f : IsSum(f, Level(k)) BY <1>8, Zenon
      <3> DEFINE g == [s \in Level(k + 1) |-> body(f, s)]
      <3>2. \A s \in Level(k) : f[s] = body(f, s) BY <3>1, Zenon
      <3>3. \A s \in Level(k) : g[s] = f[s] BY <3>2, <2>2
      <3>4. \A s \in Level(k + 1) : g[s] = body(f, s) BY Zenon
      <3>5. g = [s \in Level(k + 1) |-> g[s]] OBVIOUS
      <3> HIDE DEF g
      <3>6. \A s \in Level(k + 1) : body(g, s) = body(f, s) BY <2>3, <3>3
      <3>7. \A s \in Level(k + 1) : g[s] = body(g, s) BY <3>4, <3>6
      <3>8. IsSum(g, Level(k + 1)) BY <3>5, <3>7, Zenon
      <3>9. QED BY <3>8
    <2>6. ASSUME NEW f, IsSum(f, SUBSET S), NEW s \in Level(k + 1) PROVE f[s] \in Int
      <3>1. f[s] = body(f, s) BY <2>6, <2>4, Zenon
      <3>2. CASE s = {} BY <3>1, <3>2
      <3>3. CASE s # {}
        <4>1. pick(s) \in S /\ s \ {pick(s)} \in Level(k) BY <2>3, <3>3
        <4>2. f[s \ {pick(s)}] \in Int
          <5> HIDE DEF IsSum
          <5>1. QED BY <1>8, <2>6, <4>1, Zenon
        <4>3. QED BY <3>1, <3>3, <4>1, <4>2
      <3>4. QED BY <3>2, <3>3
    <2> HIDE DEF IsSum
    <2>7. QED BY <2>5, <2>6, Zenon
  <1>9. Fine(N)
    <2> DEFINE F == {n \in Nat : Fine(n)}
    <2> HIDE DEF Fine
    <2>1. 0 \in F BY <1>7
    <2>2. \A k \in 0 .. N - 1 : k \in F => k + 1 \in F BY <1>8, <1>2
    <2> HIDE DEF F
    <2>3. N \in F BY <1>2, <2>1, <2>2, Climb
    <2>4. QED BY <2>3 DEF F
  <1>10. S \in Level(N) BY <1>5
  <1> HIDE DEF Level
  <1>11. QED
    <2>1. \E f : IsSum(f, SUBSET S) BY <1>5, <1>9, Zenon
    <2> HIDE DEF IsSum
    <2>2. QED BY <2>1, <1>1, <1>9, <1>10, Zenon

LEMMA ElementsFinite == ASSUME NEW S, NEW s \in Seq(S) PROVE IsFiniteSet(InSeq(s))
  <1>1. Len(s) \in Nat /\ DOMAIN s = 1 .. Len(s) OBVIOUS
  <1>2. s \in Surjection(1 .. Len(s), InSeq(s)) BY <1>1 DEF Surjection, InSeq
  <1>3. IsFiniteSet(1 .. Len(s)) BY <1>1, FS_Interval
  <1>4. QED BY <1>2, <1>3, FS_Surjection

\* A grid of triples is as large as the grid of nested pairs.
LEMMA Triples ==
    ASSUME NEW A, NEW B, NEW C, IsFiniteSet(A), IsFiniteSet(B), IsFiniteSet(C)
    PROVE  /\ IsFiniteSet(A \X B \X C)
           /\ Cardinality(A \X B \X C) = Cardinality(A) * Cardinality(B) * Cardinality(C)
  <1> DEFINE P == A \X B \X C  Q == (A \X B) \X C  f == [x \in P |-> <<<<x[1], x[2]>>, x[3]>>]
  <1>1. IsFiniteSet(Q) /\ Cardinality(Q) = Cardinality(A) * Cardinality(B) * Cardinality(C)
    <2>1. IsFiniteSet(A \X B) /\ Cardinality(A \X B) = Cardinality(A) * Cardinality(B) BY FS_Product
    <2>2. QED BY <2>1, FS_Product
  <1>2. \A x \in P : x = <<x[1], x[2], x[3]>> /\ x[1] \in A /\ x[2] \in B /\ x[3] \in C OBVIOUS
  <1>3. f \in [P -> Q] /\ \A x \in P : f[x] = <<<<x[1], x[2]>>, x[3]>> BY <1>2
  <1>4. \A x, y \in P : f[x] = f[y] => x = y
    <2>1. TAKE x, y \in P
    <2>2. HAVE f[x] = f[y]
    <2>3. x[1] = y[1] /\ x[2] = y[2] /\ x[3] = y[3] BY <1>3, <2>2
    <2>4. QED BY <1>2, <2>3
  <1>5. \A z \in Q : \E x \in P : f[x] = z
    <2>1. TAKE z \in Q
    <2>2. z = <<<<z[1][1], z[1][2]>>, z[2]>> /\ z[1][1] \in A /\ z[1][2] \in B /\ z[2] \in C OBVIOUS
    <2> DEFINE x == <<z[1][1], z[1][2], z[2]>>
    <2>3. x \in P /\ x[1] = z[1][1] /\ x[2] = z[1][2] /\ x[3] = z[2] BY <2>2
    <2>4. f[x] = z BY <1>3, <2>2, <2>3
    <2>5. QED BY <2>3, <2>4
  <1> HIDE DEF P, Q, f
  <1>6. f \in Injection(P, Q) /\ f \in Surjection(P, Q) BY <1>3, <1>4, <1>5 DEF Injection, Surjection, IsInjective
  <1>7. IsFiniteSet(P) /\ Cardinality(P) = Cardinality(Q) BY <1>1, <1>6, FS_Injection
  <1>8. QED BY <1>1, <1>7 DEF P

\* What the readers see of a directory the launcher filled.
LEMMA DirectoryFacts ==
    ASSUME Typed, NEW a \in Arms, NEW d, d = disk[a]
    PROVE  /\ d \in [Files(plan) -> Marks] /\ OnDisk(d) \subseteq Files(plan) /\ Rows(d) \subseteq OnDisk(d)
           /\ IsFiniteSet(Files(plan))
           /\ \A f \in Files(plan) : f \in Rows(d) <=> Whole(a, f)
           /\ \A f \in Rows(d) : QScore(d, f) \in Int
           /\ \A f \in Files(plan) : f = <<f[1], f[2], f[3]>> /\ <<f[1], f[2]>> \in Units(plan)
  <1>1. d \in [Files(plan) -> Marks] /\ plan \in Plans BY DEF Typed
  <1>2. DOMAIN d = Files(plan) BY <1>1
  <1>3. OnDisk(d) \subseteq Files(plan) /\ Rows(d) \subseteq OnDisk(d) BY <1>2 DEF OnDisk, Rows
  <1>4. IsFiniteSet(Files(plan))
    <2>1. IsFiniteSet(InSeq(plan.tasks)) /\ IsFiniteSet(InSeq(plan.instances))
      BY <1>1, PlanFacts, ElementsFinite
    <2>2. plan.rollouts - 1 \in Int BY <1>1, PlanFacts
    <2>3. IsFiniteSet(0 .. plan.rollouts - 1) BY <2>2, FS_Interval
    <2>4. QED BY <2>1, <2>3, Triples DEF Files
  <1>5. \A f \in Files(plan) : f \in Rows(d) <=> Whole(a, f)
    BY <1>2, SweepAssumption, LaunchConstants DEF Rows, OnDisk, Whole
  <1>6. \A f \in Rows(d) : QScore(d, f) \in Int
    BY ResultsAssumption DEF Rows, QScore, Num, Missing, NoField, NoKey, Null, FullQ
  <1>7. \A f \in Files(plan) : f = <<f[1], f[2], f[3]>> /\ <<f[1], f[2]>> \in Units(plan) BY DEF Files, Units
  <1>8. QED BY <1>1, <1>3, <1>4, <1>5, <1>6, <1>7

\* failures.py calls CRASHED what parse.py marks q_missing.
LEMMA CrashedIsMissing == ASSUME NEW d, NEW f \in Rows(d) PROVE Tag(d, f) = "CRASHED" <=> QMissing(d, f)
  <1> DEFINE r == Outcome[d[f]]
  <1>1. r.q \in Missing \union {0, 1, 2} /\ Num(r.left) + Num(r.right) \in Int
    BY ResultsAssumption DEF Rows, Missing, NoField, NoKey, Null, FullQ, Num
  <1> DEFINE arms == Num(r.left) + Num(r.right)
  <1>2. CASE r.q \in Missing BY <1>1, <1>2 DEF Tag, QMissing, Missing, NoField, NoKey, Null, FullQ, ArmMoved
  <1>3. CASE r.q = 0 BY <1>1, <1>3 DEF Tag, QMissing, Missing, NoField, NoKey, Null, FullQ, ArmMoved
  <1>4. CASE r.q = 1 BY <1>1, <1>4 DEF Tag, QMissing, Missing, NoField, NoKey, Null, FullQ, ArmMoved
  <1>5. CASE r.q = 2 BY <1>1, <1>5 DEF Tag, QMissing, Missing, NoField, NoKey, Null, FullQ, ArmMoved
  <1>6. QED BY <1>1, <1>2, <1>3, <1>4, <1>5

LEMMA CollapseFacts ==
    ASSUME Typed, NEW a \in Arms, NEW c, c = Collapse(disk[a])
    PROVE  /\ DOMAIN c = UnitsOf(disk[a])
           /\ \A u \in UnitsOf(disk[a]) :
                 /\ c[u].sum \in Int /\ c[u].n \in Int
                 /\ c[u].missing = Cardinality({f \in Rows(disk[a]) :
                       <<f[1], f[2]>> = u /\ Tag(disk[a], f) = "CRASHED"})
  <1> DEFINE d == disk[a]  rows(u) == {f \in Rows(d) : <<f[1], f[2]>> = u}
  <1>1. c = [u \in UnitsOf(d) |-> [sum |-> TotalQ(d, rows(u)), n |-> Cardinality(Scored(d, rows(u))),
                                   seeds |-> Cardinality(rows(u)),
                                   missing |-> Cardinality({f \in rows(u) : QMissing(d, f)})]]
    BY DEF Collapse
  <1>2. ASSUME NEW u \in UnitsOf(d)
        PROVE  /\ c[u].sum \in Int /\ c[u].n \in Int
               /\ c[u].missing = Cardinality({f \in Rows(d) : <<f[1], f[2]>> = u /\ Tag(d, f) = "CRASHED"})
    <2>1. rows(u) \subseteq Files(plan) /\ IsFiniteSet(Files(plan)) BY DirectoryFacts
    <2>2. IsFiniteSet(rows(u)) BY <2>1, FS_Subset
    <2>3. \A f \in rows(u) : QScore(d, f) \in Int BY DirectoryFacts
    <2>4. {f \in rows(u) : QMissing(d, f)} = {f \in Rows(d) : <<f[1], f[2]>> = u /\ Tag(d, f) = "CRASHED"}
      BY CrashedIsMissing
    <2> HIDE DEF rows, d
    <2>5. Scored(d, rows(u)) \subseteq rows(u) BY DEF Scored
    <2>6. IsFiniteSet(Scored(d, rows(u))) BY <2>2, <2>5, FS_Subset
    <2>7. TotalQ(d, rows(u)) \in Int BY <2>3, <2>5, <2>6, TotalType
    <2>8. Cardinality(Scored(d, rows(u))) \in Int BY <2>6, FS_CardinalityType
    <2>9. QED BY <1>1, <2>4, <2>7, <2>8
  <1>3. QED BY <1>1, <1>2

\* Two sweeps of one plan that both ended well cover the same units: the plan's.
LEMMA CoveredUnits ==
    ASSUME Typed, NEW a \in Arms, Covered(a)
    PROVE  UnitsOf(disk[a]) = Units(plan)
  <1>1. UnitsOf(disk[a]) \subseteq Units(plan) BY DirectoryFacts DEF UnitsOf
  <1>2. ASSUME NEW u \in Units(plan) PROVE u \in UnitsOf(disk[a])
    <2>1. Done(a, u) BY DEF Covered
    <2>2. PICK f \in Files(plan) : <<f[1], f[2]>> = u /\ Whole(a, f) BY <2>1 DEF Done
    <2>3. f \in Rows(disk[a]) BY <2>2, DirectoryFacts
    <2>4. QED BY <2>2, <2>3 DEF UnitsOf
  <1>3. QED BY <1>1, <1>2

\* What a comparison of two directories reports, and when it exits 0.
Crashed(d, u) == Cardinality({f \in Rows(d) : <<f[1], f[2]>> = u /\ Tag(d, f) = "CRASHED"})
Compares(it, d, e) ==
    LET ud == UnitsOf(d)  ue == UnitsOf(e) IN
    /\ it.report.dq = [u \in ud \cap ue |-> Dq(Collapse(d)[u], Collapse(e)[u])]
    /\ \A u \in ud \cap ue : it.report.missingA[u] = Crashed(d, u)
    /\ it.exit = IF ud \cap ue = {} THEN "error" ELSE IF ud # ue THEN "1" ELSE "0"

LEMMA CompareFacts ==
    ASSUME Typed, NEW a \in Arms, NEW b \in Arms
    PROVE  Compares(Compare(disk[a], disk[b], FALSE), disk[a], disk[b])
  <1> DEFINE ca == Collapse(disk[a])  cb == Collapse(disk[b])
             ua == UnitsOf(disk[a])  ub == UnitsOf(disk[b])  pair == LoadPair(disk[a], disk[b])
             crashed(u) == Crashed(disk[a], u)  there == Compare(disk[a], disk[b], FALSE)
  <1>1. DOMAIN ca = ua /\ DOMAIN cb = ub /\ \A u \in ua : ca[u].missing = crashed(u)
    BY CollapseFacts DEF Crashed
  <1>2. /\ pair.dq = [k \in DOMAIN ca \cap DOMAIN cb |-> Dq(ca[k], cb[k])]
        /\ pair.missingA = [k \in DOMAIN ca \cap DOMAIN cb |-> ca[k].missing]
        /\ pair.onlyA = DOMAIN ca \ DOMAIN cb /\ pair.onlyB = DOMAIN cb \ DOMAIN ca
    BY DEF LoadPair
  <1>3. /\ there.report = pair
        /\ there.exit = IF DOMAIN pair.dq = {} THEN "error"
                        ELSE IF pair.onlyA \union pair.onlyB # {} THEN "1" ELSE "0"
    BY DEF Compare
  <1> HIDE DEF ca, cb, ua, ub, pair, crashed, there
  <1>4. pair.dq = [u \in ua \cap ub |-> Dq(ca[u], cb[u])] /\ DOMAIN pair.dq = ua \cap ub BY <1>1, <1>2
  <1>5. \A u \in ua \cap ub : pair.missingA[u] = crashed(u) BY <1>1, <1>2
  <1>6. pair.onlyA \union pair.onlyB = {} <=> ua = ub BY <1>1, <1>2
  <1>7. /\ there.report.dq = [u \in ua \cap ub |-> Dq(ca[u], cb[u])]
        /\ \A u \in ua \cap ub : there.report.missingA[u] = crashed(u)
        /\ there.exit = IF ua \cap ub = {} THEN "error" ELSE IF ua # ub THEN "1" ELSE "0"
    BY <1>3, <1>4, <1>5, <1>6
  <1>8. QED BY <1>7, Zenon DEF ca, cb, ua, ub, crashed, there, Compares

\* Whatever the two directories hold, what compare.py prints is over the units of
\* both, be it before a refusal; its differences change sign with the order of the
\* arms; what it counts as missing is what failures.py calls CRASHED; it exits 0 only
\* for two sweeps of the same units, and does for two launches of the plan that ended
\* well (compare.py:329, failures.py:84).
THEOREM ComparisonsAreFair == Spec => []ComparisonsHold
  <1>1. ASSUME SweepInv PROVE ComparisonsHold
    <2>t. Typed /\ ExitZeroMeansCovered BY <1>1 DEF SweepInv
    <2>1. ASSUME NEW a \in Arms, NEW b \in Arms
          PROVE  LET there == Compare(disk[a], disk[b], FALSE)  back == Compare(disk[b], disk[a], FALSE) IN
                 /\ there.exit = back.exit
                 /\ there.exit # "error" =>
                       \A u \in UnitsOf(disk[a]) \cap UnitsOf(disk[b]) :
                          /\ back.report.dq[u] = Negated(there.report.dq[u])
                          /\ there.report.missingA[u] = Crashed(disk[a], u)
                 /\ there.exit = "0" => UnitsOf(disk[a]) = UnitsOf(disk[b])
                 /\ Units(plan) # {} /\ EndedWell(a) /\ EndedWell(b)
                       => there.exit = "0" /\ UnitsOf(disk[a]) = Units(plan)
      <3> DEFINE ua == UnitsOf(disk[a])  ub == UnitsOf(disk[b])  ca == Collapse(disk[a])  cb == Collapse(disk[b])
                 crashed(u) == Crashed(disk[a], u)
                 there == Compare(disk[a], disk[b], FALSE)  back == Compare(disk[b], disk[a], FALSE)
      <3>1. /\ there.report.dq = [u \in ua \cap ub |-> Dq(ca[u], cb[u])]
            /\ \A u \in ua \cap ub : there.report.missingA[u] = crashed(u)
            /\ there.exit = IF ua \cap ub = {} THEN "error" ELSE IF ua # ub THEN "1" ELSE "0"
        BY <2>t, CompareFacts, Zenon DEF Compares
      <3>2. /\ back.report.dq = [u \in ub \cap ua |-> Dq(cb[u], ca[u])]
            /\ back.exit = IF ub \cap ua = {} THEN "error" ELSE IF ub # ua THEN "1" ELSE "0"
        BY <2>t, CompareFacts, Zenon DEF Compares
      <3>3. \A u \in ua : ca[u].sum \in Int /\ ca[u].n \in Int BY <2>t, CollapseFacts
      <3>4. \A u \in ub : cb[u].sum \in Int /\ cb[u].n \in Int BY <2>t, CollapseFacts
      <3>5. EndedWell(a) /\ EndedWell(b) => ua = Units(plan) /\ ub = Units(plan)
        BY <2>t, CoveredUnits DEF ExitZeroMeansCovered
      <3> HIDE DEF ua, ub, ca, cb, crashed, there, back
      <3>6. ASSUME NEW u \in ua \cap ub PROVE back.report.dq[u] = Negated(there.report.dq[u])
        <4>1. there.report.dq[u] = Dq(ca[u], cb[u]) /\ back.report.dq[u] = Dq(cb[u], ca[u]) BY <3>1, <3>2
        <4> DEFINE sa == ca[u].sum  sb == cb[u].sum  na == ca[u].n  nb == cb[u].n
        <4>2. sa \in Int /\ sb \in Int /\ na \in Int /\ nb \in Int BY <3>3, <3>4
        <4>3. /\ Dq(ca[u], cb[u]) = [num |-> sb * na - sa * nb, den |-> na * nb]
              /\ Dq(cb[u], ca[u]) = [num |-> sa * nb - sb * na, den |-> nb * na]
          BY DEF Dq
        <4> HIDE DEF sa, sb, na, nb
        <4>4. sa * nb - sb * na = -(sb * na - sa * nb) /\ nb * na = na * nb BY <4>2
        <4>5. Negated([num |-> sb * na - sa * nb, den |-> na * nb]) = [num |-> -(sb * na - sa * nb), den |-> na * nb]
          BY DEF Negated
        <4>6. QED BY <4>1, <4>3, <4>4, <4>5
      <3>7. there.exit = back.exit /\ (there.exit = "0" => ua = ub) BY <3>1, <3>2
      <3>8. Units(plan) # {} /\ EndedWell(a) /\ EndedWell(b) => there.exit = "0" /\ ua = Units(plan)
        BY <3>1, <3>5
      <3>9. \A u \in ua \cap ub : back.report.dq[u] = Negated(there.report.dq[u])
                                   /\ there.report.missingA[u] = crashed(u)
        BY <3>1, <3>6
      <3>10. QED BY <3>7, <3>8, <3>9, Zenon DEF ua, ub, crashed, there, back
    <2>2. QED BY <2>1, Zenon DEF ComparisonsHold, Crashed
  <1>2. QED BY <1>1, SweepAlways, PTL

\* As many files as the grid has places, and none outside it: the whole grid.
LEMMA FullGrid ==
    ASSUME NEW A, NEW B, NEW files, IsFiniteSet(A), IsFiniteSet(B), files \subseteq A \X B \X {0},
           Cardinality(files) >= Cardinality(A) * Cardinality(B)
    PROVE  files = A \X B \X {0}
  <1> DEFINE grid == A \X B \X {0}
  <1>1. IsFiniteSet({0}) /\ Cardinality({0}) = 1 BY FS_Singleton
  <1>2. IsFiniteSet(grid) /\ Cardinality(grid) = Cardinality(A) * Cardinality(B) * 1
    BY <1>1, Triples
  <1>3. Cardinality(A) \in Nat /\ Cardinality(B) \in Nat BY FS_CardinalityType
  <1>4. Cardinality(A) * Cardinality(B) * 1 = Cardinality(A) * Cardinality(B) BY <1>3
  <1> HIDE DEF grid
  <1>5. files \in SUBSET grid BY DEF grid
  <1>6. Cardinality(files) <= Cardinality(grid) /\ (Cardinality(grid) = Cardinality(files) => grid = files)
    BY <1>2, <1>5, FS_Subset
  <1>7. IsFiniteSet(files) /\ Cardinality(files) \in Nat /\ Cardinality(grid) \in Nat
    BY <1>2, <1>5, FS_Subset, FS_CardinalityType
  <1>8. Cardinality(files) >= Cardinality(grid) BY <1>2, <1>4, Zenon
  <1>9. Cardinality(grid) = Cardinality(files) BY <1>6, <1>7, <1>8
  <1>10. QED BY <1>6, <1>9 DEF grid

\* What is true when a package was built and none of the warnings was given.
LEMMA Unwarned ==
    ASSUME NEW d, NEW testset, NEW intended,
           Warnings(d, testset, intended) \subseteq {"PARTIAL"}
    PROVE  LET ids == TestIdsOf(testset)  files == OnDisk(d)  tasks == {f[1] : f \in files} IN
           /\ files = Rows(d) /\ \A f \in files : f[2] \in ids
           /\ \A f \in files : Outcome[d[f]].q \in (0 .. FullQ) \union {Null}
           /\ intended # {} => /\ tasks = intended
                               /\ ~(Cardinality(files) < Cardinality(intended) * Cardinality(ids))
           /\ intended = {} => /\ ~(Cardinality(tasks) < Cardinality(Universe))
                               /\ ~(Cardinality(files) < Cardinality(Universe) * Cardinality(PublicTest))
  <1> DEFINE ids == TestIdsOf(testset)  files == OnDisk(d)  tasks == {f[1] : f \in files}
             W == Warnings(d, testset, intended)
  <1>1. /\ "malformed" \notin W /\ "shortfall" \notin W /\ "outside the split" \notin W
        /\ "no rollouts at all" \notin W /\ "not intended" \notin W /\ "tasks absent" \notin W
        /\ "no final" \notin W
    OBVIOUS
  <1>2. /\ files # Rows(d) => "malformed" \in W
        /\ OffSplit(files, ids) => "outside the split" \in W
        /\ (\E f \in Rows(d) : Outcome[d[f]].q \in {NoField, NoKey}) => "no final" \in W
        /\ intended # {} /\ intended \ tasks # {} => "no rollouts at all" \in W
        /\ intended # {} /\ tasks \ intended # {} => "not intended" \in W
        /\ intended = {} /\ Cardinality(tasks) < Cardinality(Universe) => "tasks absent" \in W
        /\ intended # {} /\ Cardinality(files) < Cardinality(intended) * Cardinality(ids) => "shortfall" \in W
        /\ intended = {} /\ Cardinality(files) < Cardinality(Universe) * Cardinality(PublicTest) => "shortfall" \in W
    BY DEF Warnings
  <1> HIDE DEF W, ids, files, tasks
  <1>3. \A f \in files : f[2] \in ids BY <1>1, <1>2 DEF OffSplit
  <1>4. intended # {} => tasks = intended BY <1>1, <1>2
  <1>5. \A f \in files : Outcome[d[f]].q \in (0 .. FullQ) \union {Null}
    <2>1. \A f \in Rows(d) : Outcome[d[f]].q \notin {NoField, NoKey} BY <1>1, <1>2
    <2>2. \A f \in Rows(d) : Outcome[d[f]].q \in (0 .. FullQ) \union Missing BY ResultsAssumption DEF Rows
    <2>3. QED BY <1>1, <1>2, <2>1, <2>2 DEF Missing
  <1>6. QED BY <1>1, <1>2, <1>3, <1>4, <1>5 DEF ids, files, tasks

\* A package the builder writes without a warning is the whole grid of the tasks
\* and the split's instances, each with a readable result that has a q_score.final
\* (build.py:64).  Of each task, the scores and the nulls among them make up the grid,
\* and with no null the scorer's sum is the one parse.py's mean is taken of: nothing
\* but a null, of which no warning speaks, comes between the two means.
THEOREM PackageIsComplete == Spec => []CleanPackageIsComplete
  <1>1. ASSUME SweepInv PROVE CleanPackageIsComplete
    <2>t. Typed BY <1>1 DEF SweepInv
    <2>a. SUFFICES ASSUME plan.rollouts = 1,
                          NEW a \in Arms, NEW testset \in {"public", "hidden"}, NEW intended \in SUBSET Universe
                   PROVE  LET d == disk[a]  files == Build(d, testset, intended, FALSE)
                              tasks == IF intended = {} THEN Universe ELSE intended
                          IN Warnings(d, testset, intended) \subseteq {"PARTIAL"} /\ files # {} =>
                             /\ files = tasks \X TestIdsOf(testset) \X {0} /\ files = Rows(d)
                             /\ \A f \in files : Outcome[d[f]].q \in (0 .. FullQ) \union {Null}
                             /\ \A t \in tasks :
                                   LET nulls == {f \in files : f[1] = t /\ Outcome[d[f]].q = Null} IN
                                   /\ PerTask(d)[t].n + Cardinality(nulls) = Cardinality(TestIdsOf(testset))
                                   /\ nulls = {} => ScorerSum(files, d, t) = PerTask(d)[t].sum
      BY Zenon DEF CleanPackageIsComplete
    <2>s. SUFFICES ASSUME Build(disk[a], testset, intended, FALSE) # {},
                          Warnings(disk[a], testset, intended) \subseteq {"PARTIAL"}
                   PROVE  LET d == disk[a]  files == Build(d, testset, intended, FALSE)
                              tasks == IF intended = {} THEN Universe ELSE intended
                          IN /\ files = tasks \X TestIdsOf(testset) \X {0} /\ files = Rows(d)
                             /\ \A f \in files : Outcome[d[f]].q \in (0 .. FullQ) \union {Null}
                             /\ \A t \in tasks :
                                   LET nulls == {f \in files : f[1] = t /\ Outcome[d[f]].q = Null} IN
                                   /\ PerTask(d)[t].n + Cardinality(nulls) = Cardinality(TestIdsOf(testset))
                                   /\ nulls = {} => ScorerSum(files, d, t) = PerTask(d)[t].sum
      BY Zenon
    <2> DEFINE d == disk[a]  files == Build(d, testset, intended, FALSE)  ids == TestIdsOf(testset)
               tasks == IF intended = {} THEN Universe ELSE intended
               seen == {f[1] : f \in OnDisk(d)}
    <2>1. files = OnDisk(d) BY <2>s DEF Build
    <2>2. /\ files = Rows(d) /\ \A f \in files : f[2] \in ids
          /\ \A f \in files : Outcome[d[f]].q \in (0 .. FullQ) \union {Null}
          /\ intended # {} => seen = intended /\ ~(Cardinality(files) < Cardinality(intended) * Cardinality(ids))
          /\ intended = {} => /\ ~(Cardinality(seen) < Cardinality(Universe))
                              /\ ~(Cardinality(files) < Cardinality(Universe) * Cardinality(PublicTest))
      <3>1. Warnings(d, testset, intended) \subseteq {"PARTIAL"} BY <2>s
      <3> HIDE DEF d, files
      <3>2. LET I == TestIdsOf(testset)  F == OnDisk(d)  T == {f[1] : f \in F} IN
            /\ F = Rows(d) /\ \A f \in F : f[2] \in I
            /\ \A f \in F : Outcome[d[f]].q \in (0 .. FullQ) \union {Null}
            /\ intended # {} => T = intended /\ ~(Cardinality(F) < Cardinality(intended) * Cardinality(I))
            /\ intended = {} => /\ ~(Cardinality(T) < Cardinality(Universe))
                                /\ ~(Cardinality(F) < Cardinality(Universe) * Cardinality(PublicTest))
        BY <3>1, Unwarned, Zenon
      <3>3. QED BY <2>1, <3>2
    <2>3. /\ IsFiniteSet(Universe) /\ IsFiniteSet(tasks) /\ IsFiniteSet(ids) /\ IsFiniteSet(PublicTest)
          /\ Cardinality(ids) <= Cardinality(PublicTest)
      <3>1. IsFiniteSet(Universe) /\ IsFiniteSet(PublicTest) /\ IsFiniteSet(HiddenTest)
            /\ Cardinality(HiddenTest) <= Cardinality(PublicTest)
        BY ResultsAssumption
      <3>2. Cardinality(PublicTest) \in Nat BY <3>1, FS_CardinalityType
      <3>3. IsFiniteSet(tasks) BY <3>1, FS_Subset
      <3>4. QED BY <3>1, <3>2, <3>3 DEF TestIdsOf
    <2>4. /\ IsFiniteSet(files) /\ seen \subseteq Universe
          /\ \A f \in files : f = <<f[1], f[2], 0>> /\ f[1] \in seen
      <3>1. files \subseteq Files(plan) /\ IsFiniteSet(Files(plan))
            /\ \A f \in Files(plan) : f = <<f[1], f[2], f[3]>>
        BY <2>t, <2>1, DirectoryFacts
      <3>2. \A f \in Files(plan) : f[1] \in Universe /\ f[3] = 0
        <4>1. plan \in Plans BY <2>t DEF Typed
        <4>2. InSeq(plan.tasks) \subseteq Universe BY <4>1, SweepAssumption
        <4>3. \A f \in Files(plan) : f[1] \in InSeq(plan.tasks) /\ f[3] \in 0 .. plan.rollouts - 1 BY DEF Files
        <4>4. QED BY <2>a, <4>2, <4>3
      <3>3. IsFiniteSet(files) BY <3>1, FS_Subset
      <3>4. QED BY <2>1, <3>1, <3>2, <3>3
    <2> HIDE DEF d, files, ids, seen
    <2>5. seen = tasks
      <3>1. CASE intended # {} BY <2>2, <3>1
      <3>2. CASE intended = {}
        <4>1. /\ IsFiniteSet(seen) /\ Cardinality(seen) <= Cardinality(Universe)
              /\ Cardinality(Universe) = Cardinality(seen) => Universe = seen
          BY <2>3, <2>4, FS_Subset
        <4>2. Cardinality(seen) \in Nat /\ Cardinality(Universe) \in Nat BY <2>3, <4>1, FS_CardinalityType
        <4>3. Cardinality(Universe) = Cardinality(seen) BY <2>2, <3>2, <4>1, <4>2
        <4>4. QED BY <3>2, <4>1, <4>3
      <3>3. QED BY <3>1, <3>2
    <2>6. files \subseteq tasks \X ids \X {0} BY <2>2, <2>4, <2>5
    <2>7. Cardinality(files) >= Cardinality(tasks) * Cardinality(ids)
      <3>1. /\ Cardinality(files) \in Nat /\ Cardinality(tasks) \in Nat /\ Cardinality(ids) \in Nat
            /\ Cardinality(PublicTest) \in Nat
        BY <2>3, <2>4, FS_CardinalityType
      <3>2. CASE intended # {} BY <2>2, <3>1, <3>2
      <3>3. CASE intended = {}
        <4> DEFINE u == Cardinality(tasks)  i == Cardinality(ids)  p == Cardinality(PublicTest)  n == Cardinality(files)
        <4>1. ~(n < u * p) /\ i <= p /\ u \in Nat /\ i \in Nat /\ p \in Nat /\ n \in Nat BY <2>2, <2>3, <3>1, <3>3
        <4> HIDE DEF u, i, p, n
        <4>2. u * i <= u * p BY <4>1
        <4>3. u * i \in Nat /\ u * p \in Nat BY <4>1
        <4>4. n >= u * i BY <4>1, <4>2, <4>3
        <4>5. QED BY <4>4 DEF u, i, n
      <3>4. QED BY <3>2, <3>3
    <2> HIDE DEF tasks
    <2>8. files = tasks \X ids \X {0} BY <2>3, <2>6, <2>7, FullGrid
    <2>9. ASSUME NEW t \in tasks
          PROVE  LET nulls == {f \in files : f[1] = t /\ Outcome[d[f]].q = Null} IN
                 /\ PerTask(d)[t].n + Cardinality(nulls) = Cardinality(ids)
                 /\ ScorerSum(files, d, t) = PerTask(d)[t].sum
      <3> DEFINE rows == {f \in Rows(d) : f[1] = t}  scored == Scored(d, rows)
                 nulls == {f \in files : f[1] = t /\ Outcome[d[f]].q = Null}
      <3>1. t \in {f[1] : f \in Rows(d)} BY <2>1, <2>2, <2>5 DEF seen
      <3>2. PerTask(d)[t] = [sum |-> TotalQ(d, rows), n |-> Cardinality(scored)] BY <3>1 DEF PerTask
      <3>3. ScorerSum(files, d, t) = TotalQ(d, rows) BY <2>2 DEF ScorerSum
      <3>4. rows = {t} \X ids \X {0}
        <4>1. \A f \in rows : f \in {t} \X ids \X {0} BY <2>2, <2>8
        <4>2. \A f \in {t} \X ids \X {0} : f \in tasks \X ids \X {0} /\ f[1] = t OBVIOUS
        <4>3. \A f \in {t} \X ids \X {0} : f \in rows BY <2>2, <2>8, <4>2
        <4>4. QED BY <4>1, <4>3
      <3>5. IsFiniteSet({t}) /\ Cardinality({t}) = 1 /\ IsFiniteSet({0}) /\ Cardinality({0}) = 1 BY FS_Singleton
      <3>6. IsFiniteSet({t} \X ids \X {0}) /\ Cardinality({t} \X ids \X {0}) = 1 * Cardinality(ids) * 1
        <4> DEFINE A == {t}  C == {0}
        <4>1. IsFiniteSet(A) /\ IsFiniteSet(C) /\ IsFiniteSet(ids) /\ Cardinality(A) = 1 /\ Cardinality(C) = 1
          BY <2>3, <3>5
        <4> HIDE DEF A, C
        <4>2. IsFiniteSet(A \X ids \X C) /\ Cardinality(A \X ids \X C) = Cardinality(A) * Cardinality(ids) * Cardinality(C)
          BY <4>1, Triples
        <4>3. QED BY <4>1, <4>2 DEF A, C
      <3>7. Cardinality(ids) \in Nat BY <2>3, FS_CardinalityType
      <3>8. rows = scored \union nulls /\ scored \cap nulls = {}
        <4>1. \A f : f \in nulls <=> f \in rows /\ Outcome[d[f]].q = Null BY <2>2, Zenon
        <4> HIDE DEF rows, nulls
        <4>2. \A f : f \in scored <=> f \in rows /\ Outcome[d[f]].q # Null BY DEF Scored
        <4> HIDE DEF scored
        <4>3. QED BY <4>1, <4>2
      <3>9. IsFiniteSet(rows) /\ Cardinality(rows) = Cardinality(ids)
        <4> DEFINE grid == {t} \X ids \X {0}
        <4>1. rows = grid BY <3>4
        <4>2. IsFiniteSet(grid) /\ Cardinality(grid) = 1 * Cardinality(ids) * 1 BY <3>6
        <4> HIDE DEF rows, grid
        <4>3. QED BY <4>1, <4>2, <3>7
      <3> HIDE DEF rows, scored, nulls
      <3>10. IsFiniteSet(scored) /\ IsFiniteSet(nulls) BY <3>8, <3>9, FS_Subset
      <3>11. Cardinality(rows) = Cardinality(scored) + Cardinality(nulls)
        <4>1. Cardinality(scored \union nulls)
                 = Cardinality(scored) + Cardinality(nulls) - Cardinality(scored \cap nulls)
          BY <3>10, FS_Union
        <4>2. Cardinality(scored \cap nulls) = 0 BY <3>8, FS_EmptySet
        <4>3. Cardinality(scored) \in Nat /\ Cardinality(nulls) \in Nat BY <3>10, FS_CardinalityType
        <4>4. QED BY <3>8, <4>1, <4>2, <4>3
      <3>12. PerTask(d)[t].n + Cardinality(nulls) = Cardinality(ids)
        <4>1. PerTask(d)[t].n = Cardinality(scored) BY <3>2
        <4>2. QED BY <4>1, <3>9, <3>11
      <3>13. ScorerSum(files, d, t) = PerTask(d)[t].sum BY <3>2, <3>3
      <3>14. QED BY <3>12, <3>13 DEF nulls
    <2>10. QED BY <2>2, <2>8, <2>9 DEF d, files, ids, tasks
  <1>2. QED BY <1>1, SweepAlways, PTL
====
