------------------------- MODULE AcceptedRootProofs -------------------------
(* The scripts build such a root, file by file, through every crash and new    *)
(* pod, with exactly the fully labelled demonstrations in it, and the arms     *)
(* train on no other.                                                          *)
EXTENDS RootLayoutProofs

-----------------------------------------------------------------------------
(* The rows of the corpus *)

\* The frames a data file holds of one demonstration, and of a task.
Piece(c, e, f) == Chosen([n \in DOMAIN c[e].at |-> <<e, n - 1>>], {n \in DOMAIN c[e].at : c[e].at[n] = f})
Source(c, t, f) ==
    LET g == Ascending(EpisodesOf(c, t)) IN FlattenSeq([n \in DOMAIN g |-> Piece(c, g[n], f)])
Touches(c, e, f) == \E n \in DOMAIN c[e].at : c[e].at[n] = f
Entirely(c, e, f) == \A n \in DOMAIN c[e].at : c[e].at[n] = f

LEMMA SourceIs == \A f : SourceRows(f) = Source(corpus, T, f)
  BY DEF SourceRows, Source, Piece

LEMMA CorpusFacts ==
    ASSUME NEW c \in Corpora, NEW t
    PROVE  /\ EpisodesOf(c, t) \subseteq Nat /\ IsFiniteSet(EpisodesOf(c, t)) /\ Cardinality(EpisodesOf(c, t)) \in Nat
           /\ Played(c, EpisodesOf(c, t))
           /\ \A e \in EpisodesOf(c, t) :
                  /\ c[e].at = [n \in 1 .. Frames(c, e) |-> c[e].at[n]]
                  /\ \A n \in 1 .. Frames(c, e) : c[e].at[n] \in 1 .. Files
  <1>1. EpisodesOf(c, t) \subseteq Nat /\ IsFiniteSet(EpisodesOf(c, t))
    <2>1. DOMAIN c \subseteq Nat /\ IsFiniteSet(DOMAIN c) /\ EpisodesOf(c, t) \subseteq DOMAIN c
      BY TrainingAssumption DEF EpisodesOf
    <2>2. QED BY <2>1, FS_Subset
  <1>2. ASSUME NEW e \in EpisodesOf(c, t)
        PROVE  /\ Frames(c, e) \in Nat \ {0} /\ c[e].at = [n \in 1 .. Frames(c, e) |-> c[e].at[n]]
               /\ \A n \in 1 .. Frames(c, e) : c[e].at[n] \in 1 .. Files
    <2>1. Collected(c[e]) BY TrainingAssumption DEF EpisodesOf
    <2>2. c[e].rewards \in Seq(Int) /\ c[e].rewards # <<>> /\ c[e].at \in [DOMAIN c[e].rewards -> 1 .. Files]
      BY <2>1 DEF Collected
    <2>3. \A q \in Seq(Int) : DOMAIN q = 1 .. Len(q) /\ Len(q) \in Nat /\ (q # <<>> => Len(q) # 0) OBVIOUS
    <2>4. DOMAIN c[e].rewards = 1 .. Frames(c, e) /\ Frames(c, e) \in Nat \ {0} BY <2>2, <2>3 DEF Frames
    <2>5. QED BY <2>2, <2>4
  <1>3. QED BY <1>1, <1>2, FS_CardinalityType DEF Played

\* What a file holds of one demonstration.
LEMMA PieceFacts ==
    ASSUME NEW c \in Corpora, NEW t, NEW e \in EpisodesOf(c, t), NEW f
    PROVE  /\ Piece(c, e, f) \in Seq(Nat \X Nat)
           /\ \A x \in Range(Piece(c, e, f)) : x[1] = e
           /\ Touches(c, e, f) => Range(Piece(c, e, f)) # {}
           /\ ~Touches(c, e, f) => Piece(c, e, f) = <<>>
           /\ Entirely(c, e, f) => LaidOut(c, Piece(c, e, f), {e})
  <1> DEFINE at == c[e].at  F == Frames(c, e)  O == Nat \X Nat
             s == [n \in DOMAIN at |-> <<e, n - 1>>]  P == {n \in DOMAIN at : at[n] = f}
  <1>1. e \in Nat /\ F \in Nat \ {0} /\ DOMAIN at = 1 .. F
    <2>1. e \in Nat /\ Played(c, EpisodesOf(c, t)) BY CorpusFacts
    <2>2. at = [n \in 1 .. F |-> at[n]] BY CorpusFacts
    <2>3. QED BY <2>1, <2>2 DEF Played
  <1>2. /\ DOMAIN s = 1 .. F /\ P \subseteq 1 .. F /\ Piece(c, e, f) = Chosen(s, P)
        /\ (Touches(c, e, f) <=> P # {}) /\ (Entirely(c, e, f) <=> P = 1 .. F)
    <2>1. DOMAIN s = 1 .. F /\ P \subseteq 1 .. F BY <1>1
    <2>2. Piece(c, e, f) = Chosen(s, P) BY DEF Piece
    <2>3. Touches(c, e, f) <=> P # {} BY DEF Touches
    <2>4. Entirely(c, e, f) <=> P = 1 .. F BY <1>1 DEF Entirely
    <2>5. QED BY <2>1, <2>2, <2>3, <2>4
  <1>3. \A n \in 1 .. F : s[n] = <<e, n - 1>> BY <1>1
  <1> HIDE DEF at, F, P
  <1>4. s \in Seq(O) /\ Len(s) = F
    <2>1. \A n \in 1 .. F : s[n] \in O BY <1>1, <1>3
    <2>2. s = [n \in 1 .. F |-> s[n]] BY <1>2
    <2> HIDE DEF s, O
    <2>3. s \in [1 .. F -> O] BY <2>1, <2>2
    <2>4. QED BY <1>1, <2>3
  <1> HIDE DEF s, O
  <1>5. /\ Chosen(s, P) \in Seq(O)
        /\ \A p \in P : Position(P, p) + 1 \in DOMAIN Chosen(s, P) /\ Chosen(s, P)[Position(P, p) + 1] = s[p]
        /\ \A n \in DOMAIN Chosen(s, P) : \E p \in P : n = Position(P, p) + 1
    <2>1. P \subseteq DOMAIN s BY <1>2, <1>4
    <2>2. QED BY <1>4, <2>1, ChosenAt
  <1>6. \A x \in Range(Chosen(s, P)) : x[1] = e
    <2>1. ASSUME NEW n \in DOMAIN Chosen(s, P) PROVE Chosen(s, P)[n][1] = e
      <3>1. PICK p \in P : n = Position(P, p) + 1 BY <1>5
      <3>2. Chosen(s, P)[n] = s[p] BY <1>5, <3>1
      <3>3. QED BY <1>2, <1>3, <3>2
    <2>2. QED BY <2>1 DEF Range
  <1>7. P # {} => Range(Chosen(s, P)) # {} BY <1>5 DEF Range
  <1>8. P = {} => Chosen(s, P) = <<>> BY <1>4, ChosenAll
  <1>9. ASSUME P = 1 .. F PROVE LaidOut(c, Chosen(s, P), {e})
    <2>1. Chosen(s, P) = s BY <1>2, <1>4, <1>9, ChosenAll
    <2> DEFINE from == [x \in {e} |-> 0]
    <2>2. from \in [{e} -> Nat] /\ from[e] = 0 OBVIOUS
    <2> HIDE DEF from
    <2>3. HoldsAt(c, s, e, 0)
      <3>1. ASSUME NEW j \in 0 .. F - 1 PROVE 0 + j + 1 \in DOMAIN s /\ s[0 + j + 1] = <<e, j>>
        <4>1. 0 + j + 1 \in 1 .. F /\ 0 + j + 1 - 1 = j BY <1>1
        <4>2. QED BY <1>2, <1>3, <4>1
      <3>2. QED BY <3>1 DEF HoldsAt, F
    <2>4. \A p \in DOMAIN s : \E j \in 0 .. F - 1 : p = from[e] + j + 1
      <3>1. TAKE p \in DOMAIN s
      <3>2. p - 1 \in 0 .. F - 1 /\ p = 0 + (p - 1) + 1 BY <1>1, <1>2
      <3>3. QED BY <2>2, <3>2
    <2>5. Laid(c, s, {e}, from) BY <2>2, <2>3, <2>4 DEF Laid, F
    <2>6. QED BY <2>1, <2>5 DEF LaidOut
  <1>10. QED BY <1>2, <1>5, <1>6, <1>7, <1>8, <1>9 DEF O

\* What a file holds of a task.
LEMMA SourceFacts ==
    ASSUME NEW c \in Corpora, NEW t, NEW f
    PROVE  /\ Source(c, t, f) \in Seq(Nat \X Nat)
           /\ Demos(Source(c, t, f)) = {e \in EpisodesOf(c, t) : Touches(c, e, f)}
           /\ (\A e \in EpisodesOf(c, t) : Touches(c, e, f) => Entirely(c, e, f)) =>
                  LaidOut(c, Source(c, t, f), {e \in EpisodesOf(c, t) : Touches(c, e, f)})
  <1> DEFINE es == EpisodesOf(c, t)  g == Ascending(es)  N == Cardinality(es)  O == Nat \X Nat
             ss == [n \in 1 .. N |-> Piece(c, g[n], f)]  D == {e \in es : Touches(c, e, f)}
             flat == FlattenSeq(ss)
  <1>1. es \subseteq Nat /\ IsFiniteSet(es) /\ N \in Nat BY CorpusFacts
  <1>2. /\ \A n \in 1 .. N : g[n] \in es /\ Position(es, g[n]) = n - 1
        /\ \A x \in es : Position(es, x) + 1 \in 1 .. N /\ g[Position(es, x) + 1] = x
    <2>1. \A n \in 1 .. N : g[n] \in es /\ Position(es, g[n]) = n - 1 BY <1>1, RankFacts
    <2>2. \A x \in es : Position(es, x) \in 0 .. N - 1 /\ g[Position(es, x) + 1] = x BY <1>1, RankFacts
    <2> HIDE DEF es, g, N
    <2>3. \A k \in 0 .. N - 1 : k + 1 \in 1 .. N BY <1>1
    <2>4. QED BY <2>1, <2>2, <2>3
  <1>3. Source(c, t, f) = flat BY DEF Source, Ascending
  <1>p. \A e \in es : /\ Piece(c, e, f) \in Seq(O) /\ \A x \in Range(Piece(c, e, f)) : x[1] = e
                      /\ Touches(c, e, f) => Range(Piece(c, e, f)) # {}
                      /\ ~Touches(c, e, f) => Piece(c, e, f) = <<>>
                      /\ Entirely(c, e, f) => LaidOut(c, Piece(c, e, f), {e})
    BY PieceFacts
  <1>d. D \subseteq es /\ \A e \in es : e \in D <=> Touches(c, e, f) OBVIOUS
  <1>4. DOMAIN ss = 1 .. N /\ ss = [n \in 1 .. N |-> ss[n]] /\ \A n \in 1 .. N : ss[n] = Piece(c, g[n], f) OBVIOUS
  <1> HIDE DEF es, g, N, O, ss, D
  <1>5. ss \in Seq(Seq(O))
    <2> DEFINE Q == Seq(O)
    <2>1. \A n \in 1 .. N : ss[n] \in Q BY <1>2, <1>4, <1>p
    <2> HIDE DEF Q
    <2>2. ss \in [1 .. N -> Q] BY <1>4, <2>1
    <2>3. ss \in Seq(Q) BY <1>1, <2>2
    <2>4. QED BY <2>3 DEF Q
  <1>6. flat \in Seq(O) /\ Range(flat) = UNION {Range(ss[i]) : i \in DOMAIN ss} BY <1>5, Flattened
  <1> HIDE DEF flat
  <1>7. Demos(flat) = D
    <2>1. ASSUME NEW x \in Range(flat) PROVE x[1] \in D
      <3>1. PICK n \in 1 .. N : x \in Range(ss[n]) BY <1>4, <1>6
      <3>2. x[1] = g[n] /\ g[n] \in es BY <1>2, <1>4, <1>p, <3>1
      <3>3. Range(<<>>) = {} BY DEF Range
      <3>4. Touches(c, g[n], f) BY <1>4, <1>p, <3>1, <3>2, <3>3
      <3>5. QED BY <1>d, <3>2, <3>4
    <2>2. ASSUME NEW e \in D PROVE \E x \in Range(flat) : x[1] = e
      <3>1. e \in es /\ Touches(c, e, f) BY <1>d
      <3>2. PICK x : x \in Range(Piece(c, e, f)) BY <1>p, <3>1
      <3>3. PICK n \in 1 .. N : g[n] = e BY <1>2, <3>1
      <3>4. x \in Range(ss[n]) BY <1>4, <3>2, <3>3
      <3>5. x \in Range(flat) BY <1>4, <1>6, <3>4
      <3>6. x[1] = e BY <1>p, <3>1, <3>2
      <3>7. QED BY <3>5, <3>6
    <2>3. \A k \in DOMAIN flat : flat[k] \in Range(flat) BY DEF Range
    <2>4. \A x \in Range(flat) : \E k \in DOMAIN flat : flat[k] = x BY DEF Range
    <2>5. QED BY <2>1, <2>2, <2>3, <2>4 DEF Demos
  <1>8. ASSUME \A e \in es : Touches(c, e, f) => Entirely(c, e, f) PROVE LaidOut(c, flat, D)
    <2> DEFINE DD == [n \in 1 .. N |-> IF g[n] \in D THEN {g[n]} ELSE {}]
    <2>1. \A n \in 1 .. N : DD[n] = IF g[n] \in D THEN {g[n]} ELSE {} OBVIOUS
    <2> HIDE DEF DD
    <2>2. ASSUME NEW n \in 1 .. N PROVE LaidOut(c, ss[n], DD[n])
      <3>0. g[n] \in es /\ ss[n] = Piece(c, g[n], f) BY <1>2, <1>4
      <3>1. CASE g[n] \in D
        <4>1. Entirely(c, g[n], f) BY <1>8, <1>d, <3>0, <3>1
        <4>2. LaidOut(c, ss[n], {g[n]}) BY <1>p, <3>0, <4>1
        <4>3. QED BY <2>1, <3>1, <4>2
      <3>2. CASE g[n] \notin D
        <4>1. ss[n] = <<>> BY <1>d, <1>p, <3>0, <3>2
        <4>2. DD[n] = {} BY <2>1, <3>2
        <4>3. QED BY <4>1, <4>2, LaidEmpty
      <3>3. QED BY <3>1, <3>2
    <2>3. \A n, m \in 1 .. N : n # m => DD[n] \cap DD[m] = {}
      <3>1. TAKE n, m \in 1 .. N
      <3>2. g[n] = g[m] => n - 1 = m - 1 BY <1>2
      <3>3. g[n] = g[m] => n = m BY <1>1, <3>2
      <3>4. QED BY <2>1, <3>3
    <2>4. D = UNION {DD[n] : n \in 1 .. N}
      <3>1. ASSUME NEW e \in D PROVE \E n \in 1 .. N : e \in DD[n]
        <4>1. e \in es BY <1>d
        <4>2. PICK n \in 1 .. N : g[n] = e BY <1>2, <4>1
        <4>3. e \in DD[n] BY <2>1, <4>2
        <4>4. QED BY <4>3
      <3>2. \A n \in 1 .. N : \A e \in DD[n] : e \in D BY <2>1
      <3>3. QED BY <3>1, <3>2
    <2>5. Pieces(c, ss, DD, D) BY <1>4, <2>2, <2>3, <2>4 DEF Pieces
    <2>6. LaidOut(c, FlattenSeq(ss), D) BY <1>5, <2>5, LaidFlat
    <2>7. QED BY <2>6 DEF flat
  <1>9. QED BY <1>3, <1>6, <1>7, <1>8 DEF D, es, O

\* No demonstration in two files: each is whole in one.
Apart(c, t) ==
    \A f, h \in 1 .. Files : f # h => Demos(Source(c, t, f)) \cap Demos(Source(c, t, h)) = {}

LEMMA ApartWhole ==
    ASSUME NEW c \in Corpora, NEW t, Apart(c, t)
    PROVE  /\ \A f \in 1 .. Files : LaidOut(c, Source(c, t, f), Demos(Source(c, t, f)))
           /\ UNION {Demos(Source(c, t, f)) : f \in 1 .. Files} = EpisodesOf(c, t)
  <1> DEFINE es == EpisodesOf(c, t)
  <1>1. \A f : Demos(Source(c, t, f)) = {e \in es : Touches(c, e, f)} BY SourceFacts
  <1>2. ASSUME NEW e \in es PROVE 1 \in DOMAIN c[e].at /\ \A n \in DOMAIN c[e].at : c[e].at[n] \in 1 .. Files
    <2> DEFINE F == Frames(c, e)
    <2>1. F \in Nat \ {0} /\ DOMAIN c[e].at = 1 .. F /\ \A n \in 1 .. F : c[e].at[n] \in 1 .. Files
      <3>1. Played(c, es) BY CorpusFacts
      <3>2. c[e].at = [n \in 1 .. F |-> c[e].at[n]] /\ \A n \in 1 .. F : c[e].at[n] \in 1 .. Files BY CorpusFacts
      <3>3. QED BY <3>1, <3>2 DEF Played
    <2> HIDE DEF F
    <2>2. 1 \in 1 .. F BY <2>1
    <2>3. QED BY <2>1, <2>2
  <1>3. ASSUME NEW f \in 1 .. Files, NEW e \in es, Touches(c, e, f) PROVE Entirely(c, e, f)
    <2>1. ASSUME NEW n \in DOMAIN c[e].at, c[e].at[n] # f PROVE FALSE
      <3> DEFINE h == c[e].at[n]
      <3>1. h \in 1 .. Files /\ Touches(c, e, h) BY <1>2 DEF Touches
      <3>2. e \in Demos(Source(c, t, f)) /\ e \in Demos(Source(c, t, h)) BY <1>1, <1>3, <3>1
      <3>3. QED BY <2>1, <3>1, <3>2 DEF Apart
    <2>2. QED BY <2>1 DEF Entirely
  <1>4. ASSUME NEW f \in 1 .. Files PROVE LaidOut(c, Source(c, t, f), Demos(Source(c, t, f)))
    <2>1. LaidOut(c, Source(c, t, f), {e \in es : Touches(c, e, f)}) BY <1>3, SourceFacts
    <2>2. QED BY <1>1, <2>1
  <1>5. \A e \in es : \E f \in 1 .. Files : Touches(c, e, f) BY <1>2 DEF Touches
  <1> HIDE DEF es
  <1>6. UNION {Demos(Source(c, t, f)) : f \in 1 .. Files} = es BY <1>1, <1>5
  <1>7. QED BY <1>4, <1>6 DEF es

-----------------------------------------------------------------------------
(* A task at work: what its slice and its root hold at every step *)

\* The episodes that have a label for every frame.
Full(c, l, t) ==
    {e \in EpisodesOf(c, t) : \A n \in DOMAIN c[e].rewards : \E x \in l : x.ep = e /\ x.frame = n - 1}

\* The slice: its files before the k-th, then the whole of it with its table.
SlicedFile(c, t, s, f) ==
    Obs(s.data[f]) = Source(c, t, f) /\ FileNumbered(s.data, f) /\ Ranks(s.data[f], EpisodesOf(c, t))
SlicedSoFar(c, t, s, k) ==
    /\ k \in 1 .. Files + 1
    /\ \A f \in 1 .. Files : f < k => SlicedFile(c, t, s, f)
    /\ \A f, h \in 1 .. Files : f < k /\ h < k /\ f # h => Demos(Source(c, t, f)) \cap Demos(Source(c, t, h)) = {}

WholeSlice(c, t, s) ==
    /\ Tidy(c, s.data, EpisodesOf(c, t))
    /\ \A f \in 1 .. Files : FileNumbered(s.data, f) /\ Ranks(s.data[f], EpisodesOf(c, t))
    /\ Table(c, s.eps, EpisodesOf(c, t), Obs(AllRows(s)))
\* info.json, and its counts.
IsInfo(i) == i = [episodes |-> i.episodes, frames |-> i.frames, progress |-> i.progress, streams |-> i.streams]
Counted(r, S) == IsInfo(r.info) /\ r.info.episodes = Cardinality(S) /\ r.info.frames = Len(AllRows(r))

\* A file after the join: the fully labelled demonstrations of the slice's file.
JoinedFile(c, t, l, s, r, f, dr) ==
    /\ LaidOut(c, Obs(r.data[f]), DemosOf(s.data, f) \cap Full(c, l, t))
    /\ Stamped(r.data[f]) /\ Ranks(r.data[f], EpisodesOf(c, t))
    /\ dr = {} => Obs(r.data[f]) = Obs(s.data[f]) /\ \A n \in DOMAIN r.data[f] : r.data[f][n].i = s.data[f][n].i
JoinedSoFar(c, t, l, s, r, k, dr) ==
    k \in 1 .. Files + 1 /\ \A f \in 1 .. Files : f < k => JoinedFile(c, t, l, s, r, f, dr)

\* Compaction: what it renumbers to, the root with the files before the k-th done, and after it.
Renumbers(re, S, K) == DOMAIN re = {Position(S, g) : g \in K} /\ \A g \in K : re[Position(S, g)] = Position(K, g)
CompactSoFar(c, r, k, re, S, K) ==
    /\ k \in 1 .. Files + 1 /\ Tidy(c, r.data, K) /\ Listed(r.eps, S) /\ Renumbers(re, S, K)
    /\ \A f \in 1 .. Files : Stamped(r.data[f])
    /\ \A f \in 1 .. Files : f < k => FileNumbered(r.data, f) /\ Ranks(r.data[f], K)
    /\ \A f \in 1 .. Files : f >= k => Ranks(r.data[f], S)
Compacted(c, r, K) ==
    /\ Built(c, AllRows(r), K) /\ Table(c, r.eps, K, Obs(AllRows(r))) /\ Stamped(AllRows(r))
    /\ IsInfo(r.info) /\ r.info.progress

\* The slice s and the root r of the task that is worked on, at step p and file k:
\* what a step needs to know of what the steps before it wrote.
AtWork(c, t, l, s, r, p, k, dr, re) ==
    LET S == EpisodesOf(c, t)  K == Full(c, l, t)  open == r.filter = NoFilter
        whole == WholeSlice(c, t, s) /\ Counted(s, S) IN
    /\ p = "slice" => SlicedSoFar(c, t, s, k)
    /\ p = "slice info" => WholeSlice(c, t, s)
    /\ p = "merge" => whole
    /\ p = "join" => open /\ whole /\ ValidLabels(l) /\ JoinedSoFar(c, t, l, s, r, k, dr)
    /\ p = "register" => open /\ whole /\ JoinedSoFar(c, t, l, s, r, Files + 1, dr) /\ r.eps = s.eps /\ r.info = s.info
    /\ p = "compact" => open /\ dr # {} /\ IsInfo(r.info) /\ r.info.progress /\ CompactSoFar(c, r, k, re, S, K)
    /\ p = "compact info" => open /\ dr # {} /\ Compacted(c, r, K) /\ DOMAIN re = {Position(S, g) : g \in K}
    /\ p = "filter" => open /\ (dr = {} => K = S) /\ Compacted(c, r, K) /\ Counted(r, K)

LEMMA FullFacts ==
    ASSUME NEW c \in Corpora, NEW t, NEW l
    PROVE  /\ Full(c, l, t) \subseteq EpisodesOf(c, t) /\ Full(c, l, t) \subseteq Nat /\ IsFiniteSet(Full(c, l, t))
           /\ Cardinality(Full(c, l, t)) \in Nat /\ Played(c, Full(c, l, t))
  <1>1. Full(c, l, t) \subseteq EpisodesOf(c, t) BY DEF Full
  <1>2. QED BY <1>1, CorpusFacts, FS_Subset, FS_CardinalityType DEF Played

\* The rows before a file do not depend on it.
LEMMA BeforeKept ==
    ASSUME NEW r, WellFormed(r), NEW s, WellFormed(s), NEW k \in 1 .. Files,
           \A f \in 1 .. Files : f # k => s.data[f] = r.data[f]
    PROVE  \A f \in 1 .. Files : f <= k => Before(s.data, f) = Before(r.data, f)
  <1> DEFINE d == r.data  e == s.data
             S == (UNION {Range(d[f]) : f \in 1 .. Files}) \union (UNION {Range(e[f]) : f \in 1 .. Files})
  <1>1. (\A f \in 1 .. Files : Range(d[f]) \subseteq S) /\ \A f \in 1 .. Files : Range(e[f]) \subseteq S
    <2>1. ASSUME NEW f \in 1 .. Files PROVE Range(d[f]) \subseteq S /\ Range(e[f]) \subseteq S
      <3> HIDE DEF d, e
      <3>1. QED OBVIOUS
    <2>2. QED BY <2>1
  <1>5. \A f \in 1 .. Files : f # k => e[f] = d[f] OBVIOUS
  <1> HIDE DEF S
  <1>2. d \in Seq(Seq(S)) /\ Len(d) = Files /\ Files \in Nat BY <1>1, TreeSeq
  <1>3. e \in Seq(Seq(S)) /\ Len(e) = Files BY <1>1, TreeSeq
  <1> HIDE DEF d, e
  <1>4. ASSUME NEW f \in 1 .. Files, f <= k PROVE Before(e, f) = Before(d, f)
    <2> DEFINE Q == Seq(S)
    <2>1. d \in Seq(Q) /\ e \in Seq(Q) BY <1>2, <1>3
    <2> HIDE DEF Q
    <2>2. SubSeq(e, 1, f - 1) = SubSeq(d, 1, f - 1)
      <3> DEFINE a == SubSeq(e, 1, f - 1)  b == SubSeq(d, 1, f - 1)
      <3>0. f - 1 \in 0 .. Files BY <1>2
      <3>1. a \in Seq(Q) /\ b \in Seq(Q) /\ Len(a) = f - 1 /\ Len(b) = f - 1
            /\ \A i \in 1 .. f - 1 : a[i] = e[i] /\ b[i] = d[i]
        <4>1. \A q \in Seq(Q) : \A n \in 0 .. Len(q) :
                 SubSeq(q, 1, n) \in Seq(Q) /\ Len(SubSeq(q, 1, n)) = n /\ \A i \in 1 .. n : SubSeq(q, 1, n)[i] = q[i]
          OBVIOUS
        <4>2. QED BY <1>2, <1>3, <2>1, <3>0, <4>1
      <3>2. \A i \in 1 .. f - 1 : e[i] = d[i] BY <1>2, <1>4, <1>5
      <3> HIDE DEF a, b
      <3>3. a = b BY <3>0, <3>1, <3>2
      <3>4. QED BY <3>3 DEF a, b
    <2>3. QED BY <2>2 DEF Before
  <1>6. QED BY <1>4 DEF d, e

-----------------------------------------------------------------------------
(* slice_task_dataset.py *)

LEMMA SliceFileWorks ==
    ASSUME corpus \in Corpora, WellFormed(slice[T]), SlicedSoFar(corpus, T, slice[T], file), file <= Files,
           EpisodesIn(SlicedRows(file)) \cap EpisodesIn(AllRows(slice[T])) = {},
           NEW s, WellFormed(s), s.data[file] = SlicedRows(file),
           \A f \in 1 .. Files : f # file => s.data[f] = slice[T].data[f]
    PROVE  SlicedSoFar(corpus, T, s, file + 1)
  <1> DEFINE c == corpus  es == EpisodesOf(c, T)  old == slice[T]  o == Source(c, T, file)  new == SlicedRows(file)
  <1>0. Files \in Nat /\ file \in 1 .. Files /\ file \in Nat BY RootsAssumption DEF SlicedSoFar
  <1>1. es \subseteq Nat /\ IsFiniteSet(es) BY CorpusFacts
  <1>2. SourceRows(file) = o BY SourceIs
  <1>3. /\ DOMAIN new = DOMAIN o
        /\ \A n \in DOMAIN o : /\ new[n].obs = o[n] /\ new[n].e = Position(es, o[n][1])
                               /\ new[n].i = Before(old.data, file) + n - 1
    BY <1>2 DEF SlicedRows, RowsBefore, Before
  <1>4. Obs(new) = o
    <2>1. o \in Seq(Nat \X Nat) BY SourceFacts
    <2> DEFINE O == Nat \X Nat
    <2>2. o \in Seq(O) BY <2>1
    <2> HIDE DEF o, O, new
    <2>3. o = [n \in DOMAIN o |-> o[n]] BY <2>2
    <2>4. QED BY <1>3, <2>3, SMTT(40) DEF Obs
  <1>5. Demos(o) = {e \in es : Touches(c, e, file)} /\ Demos(o) \subseteq es
    <2>1. Demos(Source(c, T, file)) = {e \in EpisodesOf(c, T) : Touches(c, e, file)} BY SourceFacts
    <2>2. QED BY <2>1
  <1>6. \A f \in 1 .. Files : f <= file => Before(s.data, f) = Before(old.data, f) BY <1>0, BeforeKept
  <1> HIDE DEF new, o, es
  <1>7. \A f \in 1 .. Files : f < file => SlicedFile(c, T, s, f)
    <2>1. TAKE f \in 1 .. Files
    <2>2. HAVE f < file
    <2>3. f # file /\ f <= file BY <1>0, <2>2
    <2>4. s.data[f] = old.data[f] /\ Before(s.data, f) = Before(old.data, f) BY <1>6, <2>3
    <2>5. SlicedFile(c, T, old, f) BY <2>2 DEF SlicedSoFar
    <2>6. QED BY <2>4, <2>5 DEF SlicedFile, FileNumbered
  <1>8. SlicedFile(c, T, s, file)
    <2>1. s.data[file] = new BY DEF new
    <2>2. Obs(s.data[file]) = Source(c, T, file) BY <1>4, <2>1 DEF o
    <2>3. Before(s.data, file) = Before(old.data, file) BY <1>0, <1>6
    <2>4. FileNumbered(s.data, file) BY <1>3, <2>1, <2>3 DEF FileNumbered
    <2>5. Ranks(s.data[file], EpisodesOf(c, T)) BY <1>3, <2>1 DEF Ranks, es
    <2>6. QED BY <2>2, <2>4, <2>5 DEF SlicedFile
  <1>9. ASSUME NEW h \in 1 .. Files, h < file, NEW e \in Demos(o), e \in Demos(Source(c, T, h)) PROVE FALSE
    <2>1. SlicedFile(c, T, old, h) BY <1>9 DEF SlicedSoFar
    <2>2. PICK m \in DOMAIN Source(c, T, h) : Source(c, T, h)[m][1] = e BY <1>9 DEF Demos
    <2>3. m \in DOMAIN old.data[h] /\ old.data[h][m].obs[1] = e BY <2>1, <2>2 DEF SlicedFile, Obs
    <2>4. old.data[h][m].e = Position(es, e) BY <2>1, <2>3 DEF SlicedFile, Ranks, es
    <2>5. \E p \in DOMAIN AllRows(old) : AllRows(old)[p] = old.data[h][m]
      <3>1. Placed(old.data, AllRows(old), Files) BY TreeRows
      <3>2. QED BY <2>3, <3>1 DEF Placed
    <2>6. Position(es, e) \in EpisodesIn(AllRows(old)) BY <2>4, <2>5 DEF EpisodesIn, Range
    <2>7. PICK n \in DOMAIN o : o[n][1] = e BY <1>9 DEF Demos
    <2>8. Position(es, e) \in EpisodesIn(new) BY <1>3, <2>7 DEF EpisodesIn, Range
    <2>9. QED BY <2>6, <2>8 DEF new
  <1>10. ASSUME NEW f \in 1 .. Files, NEW h \in 1 .. Files, f < file + 1, h < file + 1, f # h
         PROVE  Demos(Source(c, T, f)) \cap Demos(Source(c, T, h)) = {}
    <2>1. CASE f = file
      <3>1. h < file BY <1>0, <1>10, <2>1
      <3>2. QED BY <1>9, <2>1, <3>1 DEF o
    <2>2. CASE h = file
      <3>1. f < file BY <1>0, <1>10, <2>2
      <3>2. QED BY <1>9, <2>2, <3>1 DEF o
    <2>3. CASE f # file /\ h # file
      <3>1. f < file /\ h < file BY <1>0, <1>10, <2>3
      <3>2. QED BY <1>10, <3>1 DEF SlicedSoFar
    <2>4. QED BY <2>1, <2>2, <2>3
  <1>11. file + 1 \in 1 .. Files + 1 /\ \A f \in 1 .. Files : f < file + 1 => f < file \/ f = file BY <1>0
  <1>12. QED BY <1>7, <1>8, <1>10, <1>11 DEF SlicedSoFar

\* After the last file the slice is the task, whole.
LEMMA SliceMetaWorks ==
    ASSUME corpus \in Corpora, WellFormed(slice[T]), SlicedSoFar(corpus, T, slice[T], file), file > Files,
           NEW s, WellFormed(s), s.data = slice[T].data, s.eps = SlicedEpisodes
    PROVE  WholeSlice(corpus, T, s)
  <1> DEFINE c == corpus  es == EpisodesOf(c, T)  N == Cardinality(es)  rows == AllRows(s)
  <1>1. es \subseteq Nat /\ IsFiniteSet(es) /\ Played(c, es) /\ N \in Nat BY CorpusFacts
  <1>2. \A f \in 1 .. Files : f < file BY RootsAssumption DEF SlicedSoFar
  <1>3. \A f \in 1 .. Files : /\ Obs(s.data[f]) = Source(c, T, f) /\ FileNumbered(s.data, f) /\ Ranks(s.data[f], es)
    BY <1>2 DEF SlicedSoFar, SlicedFile
  <1>4. Apart(c, T) BY <1>2 DEF SlicedSoFar, Apart
  <1>5. \A f \in 1 .. Files : DemosOf(s.data, f) = Demos(Source(c, T, f)) BY <1>3 DEF DemosOf
  <1>6. Tidy(c, s.data, es)
    <2>1. \A f \in 1 .. Files : LaidOut(c, Source(c, T, f), Demos(Source(c, T, f))) BY <1>4, ApartWhole
    <2>2. UNION {Demos(Source(c, T, f)) : f \in 1 .. Files} = es BY <1>4, ApartWhole
    <2> HIDE DEF es
    <2>3. \A f \in 1 .. Files : LaidOut(c, Obs(s.data[f]), DemosOf(s.data, f)) BY <1>3, <1>5, <2>1
    <2>4. \A f, h \in 1 .. Files : f # h => DemosOf(s.data, f) \cap DemosOf(s.data, h) = {} BY <1>4, <1>5 DEF Apart
    <2>5. UNION {DemosOf(s.data, f) : f \in 1 .. Files} = es BY <1>5, <2>2
    <2>6. QED BY <2>3, <2>4, <2>5 DEF Tidy
  <1>7. Built(c, rows, es)
    <2> HIDE DEF es
    <2>1. QED BY <1>1, <1>3, <1>6, BuiltRows
  <1>8. rows = AllRows(slice[T]) BY DEF AllRows
  <1>9. s.eps = [k \in 1 .. N |-> Entry(k - 1, Ascending(es)[k], IndexRange(rows, k - 1))]
    BY <1>8 DEF SlicedEpisodes, Ascending
  <1> HIDE DEF rows, N, es
  <1>10. s.eps = [k \in 1 .. N |-> s.eps[k]]
         /\ \A k \in DOMAIN s.eps : s.eps[k] = Entry(k - 1, Ascending(es)[k], IndexRange(rows, k - 1))
    BY <1>9
  <1>11. Table(c, s.eps, es, Obs(rows))
    <2>1. s.eps = [k \in 1 .. Cardinality(es) |-> s.eps[k]] BY <1>10 DEF N
    <2>2. QED BY <1>1, <1>7, <1>10, <2>1, TableOf
  <1>12. QED BY <1>3, <1>6, <1>11 DEF WholeSlice, es, rows

-----------------------------------------------------------------------------
(* merge_progress_labels.py *)

\* rows joined with labels l, the episodes the join drops, what it leaves.
HasLabel(l, o) == \E x \in l : x.ep = o[1] /\ x.frame = o[2]
IsJoin(l, rows, j) ==
    /\ j \in Seq(Range(j)) /\ DOMAIN j = DOMAIN rows
    /\ \A n \in DOMAIN rows :
          /\ j[n].obs = rows[n].obs /\ j[n].e = rows[n].e /\ j[n].i = rows[n].i
          /\ j[n].p # NoLabel <=> HasLabel(l, rows[n].obs)
Unlabelled(j) == {x.e : x \in {y \in Range(j) : y.p = NoLabel}}
Without(j, bad) == Chosen(j, {n \in DOMAIN j : j[n].e \notin bad})

LEMMA JoinKept ==
    ASSUME NEW rows, Sliced(rows), ValidLabels(labels[T])
    PROVE  IsJoin(labels[T], rows, Joined(rows))
  <1> DEFINE found(n) == {l \in labels[T] : <<l.ep, l.frame>> = JoinKey(rows[n])}
             p(n) == IF found(n) = {} THEN NoLabel ELSE (CHOOSE l \in found(n) : TRUE).progress
             j == Joined(rows)
  <1>1. DOMAIN j = DOMAIN rows /\ \A n \in DOMAIN rows : j[n] = [rows[n] EXCEPT !.p = p(n)] BY DEF Joined
  <1>2. \A n \in DOMAIN rows : Own(rows[n]) BY DEF Sliced, Range
  <1>3. ASSUME NEW n \in DOMAIN rows PROVE p(n) # NoLabel <=> HasLabel(labels[T], rows[n].obs)
    <2>1. rows[n].g = rows[n].obs[1] /\ rows[n].f = rows[n].obs[2] BY <1>2 DEF Own
    <2>2. found(n) # {} <=> HasLabel(labels[T], rows[n].obs) BY <2>1 DEF HasLabel, JoinKey
    <2>3. \A l \in labels[T] : l.progress # NoLabel BY LabelsAssumption DEF ValidLabels, NoLabel
    <2>4. found(n) # {} => (CHOOSE l \in found(n) : TRUE) \in labels[T] OBVIOUS
    <2>5. QED BY <2>2, <2>3, <2>4
  <1> HIDE DEF p, j
  <1>4. \A n \in DOMAIN rows : j[n].obs = rows[n].obs /\ j[n].e = rows[n].e /\ j[n].i = rows[n].i /\ j[n].p = p(n)
    BY <1>1, <1>2 DEF Own, IsRow
  <1>5. Sliced(j) BY JoinedRows DEF j
  <1>6. QED BY <1>1, <1>3, <1>4, <1>5 DEF j, Sliced, IsJoin

\* The join keeps a demonstration of a file just when it is fully labelled.
LEMMA JoinFileWorks ==
    ASSUME NEW c \in Corpora, NEW t, NEW l, NEW rows, NEW j,
           Sliced(rows), Ranks(rows, EpisodesOf(c, t)), NEW D, D \subseteq EpisodesOf(c, t), LaidOut(c, Obs(rows), D),
           IsJoin(l, rows, j), NEW bad, bad = Unlabelled(j), NEW out, out = Without(j, bad)
    PROVE  /\ LaidOut(c, Obs(out), D \cap Full(c, l, t)) /\ Stamped(out) /\ Ranks(out, EpisodesOf(c, t))
           /\ bad = {} => Obs(out) = Obs(rows) /\ \A n \in DOMAIN out : out[n].i = rows[n].i
  <1> DEFINE es == EpisodesOf(c, t)  K == D \cap Full(c, l, t)  o == Obs(rows)  P == {n \in DOMAIN j : j[n].e \notin bad}
  <1>a. /\ j \in Seq(Range(j)) /\ DOMAIN j = DOMAIN rows
        /\ \A n \in DOMAIN rows : /\ j[n].obs = rows[n].obs /\ j[n].e = rows[n].e /\ j[n].i = rows[n].i
                                  /\ j[n].p # NoLabel <=> HasLabel(l, rows[n].obs)
    BY DEF IsJoin
  <1>b. bad = {x.e : x \in {y \in Range(j) : y.p = NoLabel}} BY DEF Unlabelled
  <1>1. es \subseteq Nat /\ IsFiniteSet(es) /\ Played(c, es) BY CorpusFacts
  <1>2. DOMAIN o = DOMAIN j /\ \A n \in DOMAIN j : o[n] = rows[n].obs BY <1>a DEF Obs
  <1>3. Obs(j) = o BY <1>2, <1>a DEF Obs
  <1>4. PICK from : Laid(c, o, D, from) BY DEF LaidOut
  <1>5. \A n \in DOMAIN j : /\ o[n][1] \in D /\ o[n][2] \in 0 .. Frames(c, o[n][1]) - 1
                            /\ n = from[o[n][1]] + o[n][2] + 1 /\ o[n] = <<o[n][1], o[n][2]>>
    BY <1>2, <1>4, LaidUnique
  <1>6. \A n \in DOMAIN j : j[n].e = Position(es, o[n][1]) /\ (j[n].p # NoLabel <=> HasLabel(l, o[n]))
    BY <1>2, <1>a DEF Ranks
  <1>7. \A e \in D : \A k \in 0 .. Frames(c, e) - 1 : from[e] + k + 1 \in DOMAIN j /\ o[from[e] + k + 1] = <<e, k>>
    BY <1>2, <1>4 DEF Laid, HoldsAt
  <1>8. \A e \in D : e \in Full(c, l, t) <=> \A k \in 0 .. Frames(c, e) - 1 : HasLabel(l, <<e, k>>)
    <2>1. TAKE e \in D
    <2> DEFINE F == Frames(c, e)
    <2>2. F \in Nat /\ DOMAIN c[e].rewards = 1 .. F
      <3>1. e \in es OBVIOUS
      <3>2. F \in Nat BY <1>1, <3>1 DEF Played
      <3>3. Collected(c[e]) BY <3>1, TrainingAssumption DEF EpisodesOf
      <3>4. c[e].rewards \in Seq(Int) BY <3>3 DEF Collected
      <3>5. \A q \in Seq(Int) : DOMAIN q = 1 .. Len(q) OBVIOUS
      <3>6. QED BY <3>2, <3>4, <3>5 DEF Frames
    <2>3. e \in Full(c, l, t) <=> \A n \in 1 .. F : \E x \in l : x.ep = e /\ x.frame = n - 1 BY <2>2 DEF Full
    <2> HIDE DEF F
    <2>4. (\A n \in 1 .. F : \E x \in l : x.ep = e /\ x.frame = n - 1)
             => \A k \in 0 .. F - 1 : \E x \in l : x.ep = e /\ x.frame = k
      <3>1. HAVE \A n \in 1 .. F : \E x \in l : x.ep = e /\ x.frame = n - 1
      <3>2. TAKE k \in 0 .. F - 1
      <3>3. k + 1 \in 1 .. F /\ (k + 1) - 1 = k BY <2>2
      <3>4. QED BY <3>1, <3>3
    <2>5. (\A k \in 0 .. F - 1 : \E x \in l : x.ep = e /\ x.frame = k)
             => \A n \in 1 .. F : \E x \in l : x.ep = e /\ x.frame = n - 1
      <3>1. HAVE \A k \in 0 .. F - 1 : \E x \in l : x.ep = e /\ x.frame = k
      <3>2. TAKE n \in 1 .. F
      <3>3. n - 1 \in 0 .. F - 1 BY <2>2
      <3>4. QED BY <3>1, <3>3
    <2>6. \A k : HasLabel(l, <<e, k>>) <=> \E x \in l : x.ep = e /\ x.frame = k BY DEF HasLabel
    <2>7. QED BY <2>3, <2>4, <2>5, <2>6 DEF F
  <1>r. j \in Seq(Range(j)) /\ \A y \in Range(j) : \E m \in DOMAIN j : y = j[m] BY <1>a DEF Range
  <1>s. \A m \in DOMAIN j : j[m] \in Range(j) BY DEF Range
  <1> HIDE DEF o, es
  <1>9. ASSUME NEW n \in DOMAIN j PROVE j[n].e \in bad <=> o[n][1] \notin K
    <2> DEFINE g == o[n][1]
    <2>1. g \in D /\ g \in es BY <1>5 DEF es
    <2>2. ASSUME j[n].e \in bad PROVE g \notin K
      <3>1. PICK y \in Range(j) : y.p = NoLabel /\ y.e = j[n].e BY <1>b, <2>2
      <3>2. PICK m \in DOMAIN j : y = j[m] BY <1>r
      <3> DEFINE h == o[m][1]  k == o[m][2]
      <3>3. h \in D /\ k \in 0 .. Frames(c, h) - 1 /\ o[m] = <<h, k>> BY <1>5
      <3>4. Position(es, h) = Position(es, g) BY <1>6, <3>1, <3>2
      <3>5. ~HasLabel(l, <<h, k>>) BY <1>6, <3>1, <3>2, <3>3
      <3> HIDE DEF h, k, g
      <3>6. h \in es BY <3>3 DEF es
      <3>7. h = g BY <1>1, <2>1, <3>4, <3>6, SameRank
      <3>8. QED BY <1>8, <2>1, <3>3, <3>5, <3>7
    <2>3. ASSUME g \notin K PROVE j[n].e \in bad
      <3>1. PICK k \in 0 .. Frames(c, g) - 1 : ~HasLabel(l, <<g, k>>) BY <1>8, <2>1, <2>3
      <3> DEFINE m == from[g] + k + 1
      <3>2. m \in DOMAIN j /\ o[m] = <<g, k>> BY <1>7, <2>1
      <3> HIDE DEF m
      <3>3. j[m].p = NoLabel /\ j[m] \in Range(j) BY <1>6, <1>s, <3>1, <3>2
      <3>4. j[m].e = Position(es, o[m][1]) /\ o[m][1] = g BY <1>6, <3>2
      <3>5. j[n].e = Position(es, g) BY <1>6
      <3>6. QED BY <1>b, <3>3, <3>4, <3>5
    <2>4. QED BY <2>2, <2>3
  <1>10. P = {n \in DOMAIN o : o[n][1] \in K}
    <2>1. DOMAIN o = DOMAIN j BY <1>2
    <2> HIDE DEF K
    <2>2. QED BY <1>9, <2>1
  <1>t. P \subseteq DOMAIN j /\ \A n \in P : j[n].e \notin bad OBVIOUS
  <1>u. out = Chosen(j, P) BY DEF Without
  <1>v. bad = {} => P = DOMAIN j OBVIOUS
  <1>w. K \subseteq D OBVIOUS
  <1> HIDE DEF P, K
  <1>11. LaidOut(c, Obs(out), K)
    <2>1. Obs(out) = Chosen(o, P) BY <1>3, <1>r, <1>t, <1>u, ObsChosen
    <2>2. \E O : o \in Seq(O)
      <3> DEFINE R == Range(j)  O == {x.obs : x \in R}
      <3>1. Observes(R, O) BY DEF Observes
      <3>2. j \in Seq(R) BY <1>r
      <3> HIDE DEF R, O
      <3>3. Obs(j) \in Seq(O) BY <3>1, <3>2, ObsTyped
      <3>4. QED BY <1>3, <3>3
    <2>3. PICK O : o \in Seq(O) BY <2>2
    <2>4. LaidOut(c, o, D) BY DEF o
    <2>5. \A e \in D : Frames(c, e) \in Nat \ {0} BY <1>1 DEF Played, es
    <2>6. LaidOut(c, Chosen(o, {n \in DOMAIN o : o[n][1] \in K}), K) BY <1>w, <2>3, <2>4, <2>5, LaidChosen
    <2>7. QED BY <1>10, <2>1, <2>6
  <1>12. ASSUME NEW n \in DOMAIN out PROVE \E p \in P : out[n] = j[p]
    <2> DEFINE R == Range(j)
    <2>1. j \in Seq(R) BY <1>r
    <2> HIDE DEF R
    <2>2. /\ \A p \in P : Position(P, p) + 1 \in DOMAIN Chosen(j, P) /\ Chosen(j, P)[Position(P, p) + 1] = j[p]
          /\ \A k \in DOMAIN Chosen(j, P) : \E p \in P : k = Position(P, p) + 1
      <3>1. P \subseteq DOMAIN j BY <1>t
      <3>2. QED BY <2>1, <3>1, ChosenAt
    <2>3. PICK p \in P : n = Position(P, p) + 1 BY <1>u, <2>2
    <2>4. QED BY <1>u, <2>2, <2>3
  <1>13. Stamped(out) /\ Ranks(out, es)
    <2>1. ASSUME NEW n \in DOMAIN out PROVE out[n].p # NoLabel /\ out[n].e = Position(es, out[n].obs[1])
      <3>1. PICK p \in P : out[n] = j[p] BY <1>12
      <3>2. p \in DOMAIN j /\ j[p].e \notin bad BY <1>t
      <3>3. j[p].p # NoLabel BY <1>b, <1>s, <3>2
      <3>4. j[p].e = Position(es, j[p].obs[1])
        <4>1. j[p].obs = rows[p].obs BY <1>a, <3>2
        <4>2. QED BY <1>2, <1>6, <3>2, <4>1
      <3>5. QED BY <3>1, <3>3, <3>4
    <2>2. QED BY <2>1 DEF Stamped, Ranks
  <1>14. ASSUME bad = {} PROVE Obs(out) = o /\ \A n \in DOMAIN out : out[n].i = rows[n].i
    <2> DEFINE R == Range(j)
    <2>1. j \in Seq(R) BY <1>r
    <2> HIDE DEF R
    <2>2. out = j BY <1>14, <1>u, <1>v, <2>1, ChosenAll
    <2>3. QED BY <1>3, <1>a, <2>2
  <1>15. QED BY <1>11, <1>13, <1>14 DEF K, es, o

LEMMA MergeFileWorks ==
    ASSUME corpus \in Corpora, WellFormed(slice[T]), WholeSlice(corpus, T, slice[T]), ValidLabels(labels[T]),
           NEW rows, rows = Joined(slice[T].data[file]),
           NEW bad, bad = Unlabelled(rows),
           NEW old, NEW new, JoinedSoFar(corpus, T, labels[T], slice[T], old, file, dropped), file <= Files,
           new.data[file] = Without(rows, bad),
           \A f \in 1 .. Files : f # file => new.data[f] = old.data[f]
    PROVE  JoinedSoFar(corpus, T, labels[T], slice[T], new, file + 1, dropped \union bad)
  <1> DEFINE c == corpus  es == EpisodesOf(c, T)  l == labels[T]  s == slice[T]  cut == s.data[file]  D == DemosOf(s.data, file)
             out == new.data[file]
  <1>0. Files \in Nat /\ file \in 1 .. Files BY RootsAssumption DEF JoinedSoFar
  <1>1. Sliced(cut) BY <1>0 DEF WellFormed
  <1>2. Ranks(cut, es) /\ LaidOut(c, Obs(cut), D) BY <1>0 DEF WholeSlice, Tidy
  <1>3. D \subseteq es
    <2>1. UNION {DemosOf(s.data, f) : f \in 1 .. Files} = es BY DEF WholeSlice, Tidy
    <2> HIDE DEF es
    <2>2. QED BY <1>0, <2>1
  <1>4. IsJoin(l, cut, rows)
    BY <1>1, JoinKept
  <1>5. /\ LaidOut(c, Obs(out), D \cap Full(c, l, T)) /\ Stamped(out) /\ Ranks(out, es)
        /\ bad = {} => Obs(out) = Obs(cut) /\ \A n \in DOMAIN out : out[n].i = cut[n].i
    <2> HIDE DEF D
    <2>1. Sliced(cut) /\ Ranks(cut, EpisodesOf(c, T)) /\ D \subseteq EpisodesOf(c, T) /\ LaidOut(c, Obs(cut), D)
      BY <1>1, <1>2, <1>3
    <2>2. out = Without(rows, bad) OBVIOUS
    <2> HIDE DEF cut, out, l
    <2>3. QED BY <1>4, <2>1, <2>2, JoinFileWorks
  <1>6. JoinedFile(c, T, l, s, new, file, dropped \union bad) BY <1>5 DEF JoinedFile
  <1>7. ASSUME NEW f \in 1 .. Files, f < file PROVE JoinedFile(c, T, l, s, new, f, dropped \union bad)
    <2>1. JoinedFile(c, T, l, s, old, f, dropped) BY <1>7 DEF JoinedSoFar
    <2>2. new.data[f] = old.data[f] BY <1>0, <1>7
    <2>3. dropped \union bad = {} => dropped = {} OBVIOUS
    <2>4. QED BY <2>1, <2>2, <2>3 DEF JoinedFile
  <1>8. file + 1 \in 1 .. Files + 1 /\ \A f \in 1 .. Files : f < file + 1 => f < file \/ f = file BY <1>0
  <1>9. QED BY <1>6, <1>7, <1>8 DEF JoinedSoFar

LEMMA StampedRows ==
    ASSUME NEW r, WellFormed(r), \A f \in 1 .. Files : Stamped(r.data[f]) PROVE Stamped(AllRows(r))
  <1>1. Placed(r.data, AllRows(r), Files) BY TreeRows
  <1>2. QED BY <1>1 DEF Placed, Stamped

\* After the join the root's files hold the fully labelled demonstrations.
LEMMA JoinedTidy ==
    ASSUME NEW c \in Corpora, NEW t, NEW l, NEW s, NEW r, WholeSlice(c, t, s), NEW dr,
           JoinedSoFar(c, t, l, s, r, Files + 1, dr)
    PROVE  /\ Tidy(c, r.data, Full(c, l, t))
           /\ \A f \in 1 .. Files : /\ DemosOf(r.data, f) = DemosOf(s.data, f) \cap Full(c, l, t)
                                    /\ JoinedFile(c, t, l, s, r, f, dr)
  <1> DEFINE K == Full(c, l, t)  es == EpisodesOf(c, t)
  <1>1. K \subseteq es /\ Played(c, K) BY FullFacts
  <1>2. \A f \in 1 .. Files : JoinedFile(c, t, l, s, r, f, dr)
    <2>1. \A f \in 1 .. Files : f < Files + 1 BY RootsAssumption
    <2>2. QED BY <2>1 DEF JoinedSoFar
  <1>3. ASSUME NEW f \in 1 .. Files
        PROVE  DemosOf(r.data, f) = DemosOf(s.data, f) \cap K /\ LaidOut(c, Obs(r.data[f]), DemosOf(r.data, f))
    <2> DEFINE D == DemosOf(s.data, f) \cap K  o == Obs(r.data[f])
    <2>1. LaidOut(c, o, D) BY <1>2 DEF JoinedFile
    <2>2. \A e \in D : Frames(c, e) \in Nat \ {0} BY <1>1 DEF Played
    <2> HIDE DEF D, o
    <2>3. Demos(o) = D BY <2>1, <2>2, LaidDemos
    <2>4. QED BY <2>1, <2>3 DEF DemosOf, D, o
  <1>4. UNION {DemosOf(s.data, f) : f \in 1 .. Files} = es BY DEF WholeSlice, Tidy
  <1>5. \A f, h \in 1 .. Files : f # h => DemosOf(s.data, f) \cap DemosOf(s.data, h) = {} BY DEF WholeSlice, Tidy
  <1> HIDE DEF K, es
  <1>6. \A f, h \in 1 .. Files : f # h => DemosOf(r.data, f) \cap DemosOf(r.data, h) = {}
    <2>1. TAKE f, h \in 1 .. Files
    <2>2. HAVE f # h
    <2>3. DemosOf(s.data, f) \cap DemosOf(s.data, h) = {} BY <1>5, <2>2
    <2>4. QED BY <1>3, <2>3
  <1>7. UNION {DemosOf(r.data, f) : f \in 1 .. Files} = K
    <2>1. ASSUME NEW g \in K PROVE \E f \in 1 .. Files : g \in DemosOf(r.data, f)
      <3>1. PICK f \in 1 .. Files : g \in DemosOf(s.data, f) BY <1>1, <1>4
      <3>2. QED BY <1>3, <3>1
    <2>2. ASSUME NEW f \in 1 .. Files PROVE DemosOf(r.data, f) \subseteq K BY <1>3
    <2>3. QED BY <2>1, <2>2
  <1>8. Tidy(c, r.data, K) BY <1>3, <1>6, <1>7 DEF Tidy
  <1>9. QED BY <1>2, <1>3, <1>8 DEF K

\* Nothing dropped: the root is the slice with its labels.
LEMMA RegisterAll ==
    ASSUME NEW c \in Corpora, NEW t, NEW l, NEW s, WellFormed(s), NEW r, WellFormed(r), WholeSlice(c, t, s),
           JoinedSoFar(c, t, l, s, r, Files + 1, {}), r.eps = s.eps
    PROVE  /\ Full(c, l, t) = EpisodesOf(c, t) /\ Len(AllRows(r)) = Len(AllRows(s)) /\ Stamped(AllRows(r))
           /\ Built(c, AllRows(r), Full(c, l, t)) /\ Table(c, r.eps, Full(c, l, t), Obs(AllRows(r)))
  <1> DEFINE K == Full(c, l, t)  es == EpisodesOf(c, t)
  <1>1. Tidy(c, r.data, K) /\ \A f \in 1 .. Files : JoinedFile(c, t, l, s, r, f, {}) BY JoinedTidy
  <1>2. \A f \in 1 .. Files : /\ Obs(r.data[f]) = Obs(s.data[f]) /\ Stamped(r.data[f]) /\ Ranks(r.data[f], es)
                              /\ \A n \in DOMAIN r.data[f] : r.data[f][n].i = s.data[f][n].i
    BY <1>1 DEF JoinedFile
  <1>3. K = es
    <2>1. \A f \in 1 .. Files : DemosOf(r.data, f) = DemosOf(s.data, f) BY <1>2 DEF DemosOf
    <2>2. K = UNION {DemosOf(r.data, f) : f \in 1 .. Files} BY <1>1 DEF Tidy
    <2>3. es = UNION {DemosOf(s.data, f) : f \in 1 .. Files} BY DEF WholeSlice, Tidy
    <2> HIDE DEF K, es
    <2>4. QED BY <2>1, <2>2, <2>3
  <1>4. /\ Obs(AllRows(r)) = Obs(AllRows(s)) /\ Len(AllRows(r)) = Len(AllRows(s))
        /\ \A f \in 1 .. Files : Before(r.data, f) = Before(s.data, f)
    BY <1>2, SameFrames
  <1>5. ASSUME NEW f \in 1 .. Files PROVE FileNumbered(r.data, f)
    <2>1. FileNumbered(s.data, f) BY DEF WholeSlice
    <2>2. DOMAIN r.data[f] = DOMAIN s.data[f]
      <3>1. DOMAIN Obs(r.data[f]) = DOMAIN r.data[f] /\ DOMAIN Obs(s.data[f]) = DOMAIN s.data[f] BY DEF Obs
      <3>2. QED BY <1>2, <3>1
    <2>3. QED BY <1>2, <1>4, <2>1, <2>2 DEF FileNumbered
  <1>6. Played(c, es) BY CorpusFacts
  <1>7. Built(c, AllRows(r), es)
    <2>1. Tidy(c, r.data, es) BY <1>1, <1>3
    <2>2. \A f \in 1 .. Files : FileNumbered(r.data, f) /\ Ranks(r.data[f], es) BY <1>2, <1>5
    <2> HIDE DEF es
    <2>3. QED BY <1>6, <2>1, <2>2, BuiltRows
  <1>8. Stamped(AllRows(r)) BY <1>2, StampedRows
  <1>9. Table(c, r.eps, es, Obs(AllRows(r))) BY <1>4 DEF WholeSlice
  <1>10. QED BY <1>3, <1>4, <1>7, <1>8, <1>9

\* Some dropped: how those that are left will be renumbered.
LEMMA RegisterSome ==
    ASSUME NEW c \in Corpora, NEW t, NEW l, NEW s, NEW r, WellFormed(r), WholeSlice(c, t, s), NEW dr,
           JoinedSoFar(c, t, l, s, r, Files + 1, dr), NEW kept, kept = EpisodesIn(AllRows(r)),
           NEW re, re = [e \in kept |-> Position(kept, e)]
    PROVE  /\ Tidy(c, r.data, Full(c, l, t)) /\ Renumbers(re, EpisodesOf(c, t), Full(c, l, t))
           /\ \A f \in 1 .. Files : Stamped(r.data[f]) /\ Ranks(r.data[f], EpisodesOf(c, t))
  <1> DEFINE K == Full(c, l, t)  es == EpisodesOf(c, t)  rows == AllRows(r)
  <1>1. Tidy(c, r.data, K) /\ \A f \in 1 .. Files : Stamped(r.data[f]) /\ Ranks(r.data[f], es)
    BY JoinedTidy DEF JoinedFile
  <1>2. K \subseteq es /\ K \subseteq Nat /\ IsFiniteSet(K) /\ es \subseteq Nat /\ IsFiniteSet(es) BY FullFacts, CorpusFacts
  <1>3. K = UNION {DemosOf(r.data, f) : f \in 1 .. Files} BY <1>1 DEF Tidy
  <1>4. kept = {Position(es, g) : g \in K}
    <2>1. Placed(r.data, rows, Files) BY TreeRows
    <2>2. ASSUME NEW x \in Range(rows) PROVE \E g \in K : x.e = Position(es, g)
      <3>1. PICK p \in DOMAIN rows : x = rows[p] BY DEF Range
      <3>2. PICK f \in 1 .. Files : \E n \in DOMAIN r.data[f] : rows[p] = r.data[f][n] BY <2>1 DEF Placed
      <3>3. PICK n \in DOMAIN r.data[f] : rows[p] = r.data[f][n] BY <3>2
      <3>4. x.e = Position(es, x.obs[1]) BY <1>1, <3>1, <3>3 DEF Ranks
      <3>5. x.obs[1] \in DemosOf(r.data, f) BY <3>1, <3>3 DEF DemosOf, Demos, Obs
      <3> HIDE DEF K
      <3>6. x.obs[1] \in K BY <1>3, <3>5
      <3>7. QED BY <3>4, <3>6
    <2>3. ASSUME NEW g \in K PROVE \E x \in Range(rows) : x.e = Position(es, g)
      <3> HIDE DEF K
      <3>1. PICK f \in 1 .. Files : g \in DemosOf(r.data, f) BY <1>3
      <3>2. PICK n \in DOMAIN Obs(r.data[f]) : Obs(r.data[f])[n][1] = g BY <3>1 DEF DemosOf, Demos
      <3>3. n \in DOMAIN r.data[f] /\ r.data[f][n].obs[1] = g BY <3>2 DEF Obs
      <3>4. r.data[f][n].e = Position(es, g) BY <1>1, <3>3 DEF Ranks
      <3>5. r.data[f][n] \in Range(rows) BY <2>1, <3>3 DEF Placed, Range
      <3>6. QED BY <3>4, <3>5
    <2> HIDE DEF rows, K, es
    <2>4. kept = {x.e : x \in Range(rows)} BY DEF EpisodesIn, rows
    <2>5. QED BY <2>2, <2>3, <2>4
  <1>5. Renumbers(re, es, K)
    <2> DEFINE h == [g \in K |-> Position(es, g)]
    <2>1. \A g \in K : h[g] = Position(es, g) OBVIOUS
    <2> HIDE DEF h, K, es
    <2>2. \A g \in es : Position(es, g) \in 0 .. Cardinality(es) - 1 BY <1>2, RankFacts
    <2>3. \A x, y \in es : x < y <=> Position(es, x) < Position(es, y) BY <1>2, RankFacts
    <2>4. \A g \in K : h[g] \in Nat BY <1>2, <2>1, <2>2
    <2>5. \A x, y \in K : x < y <=> h[x] < h[y] BY <1>2, <2>1, <2>3
    <2>6. kept = Image(K, h) BY <1>4, <2>1 DEF Image
    <2>r. Rising(K, h) BY <2>4, <2>5 DEF Rising
    <2>k. \A x \in K : Position(Image(K, h), h[x]) = Position(K, x) BY <1>2, <2>r, RankImage
    <2>7. \A x \in K : Position(kept, h[x]) = Position(K, x) BY <2>6, <2>k
    <2>8. DOMAIN re = {Position(es, g) : g \in K} BY <1>4
    <2>9. \A g \in K : Position(es, g) \in kept BY <1>4
    <2>10. \A g \in K : re[Position(es, g)] = Position(K, g) BY <2>1, <2>7, <2>9
    <2>11. QED BY <2>8, <2>10 DEF Renumbers
  <1>6. QED BY <1>1, <1>5

\* A file compacted.
Renumbered(rows, re, before) == [n \in DOMAIN rows |-> [rows[n] EXCEPT !.e = re[@], !.i = before + n - 1]]

LEMMA CompactFileWorks ==
    ASSUME NEW c \in Corpora, NEW t, NEW l, NEW r, WellFormed(r), NEW k, NEW re,
           CompactSoFar(c, r, k, re, EpisodesOf(c, t), Full(c, l, t)), k <= Files,
           NEW new, WellFormed(new), new.eps = r.eps,
           \A f \in 1 .. Files : f # k => new.data[f] = r.data[f],
           new.data[k] = Renumbered(r.data[k], re, RowsBefore(r, k))
    PROVE  CompactSoFar(c, new, k + 1, re, EpisodesOf(c, t), Full(c, l, t))
  <1> DEFINE K == Full(c, l, t)  es == EpisodesOf(c, t)  old == r.data[k]  out == new.data[k]
  <1>0. Files \in Nat /\ k \in 1 .. Files
    <2>1. k \in 1 .. Files + 1 BY DEF CompactSoFar
    <2>2. QED BY <2>1, RootsAssumption
  <1>1. \A n \in DOMAIN old : Own(old[n]) BY <1>0 DEF WellFormed, Sliced, Range
  <1>2. /\ DOMAIN out = DOMAIN old
        /\ \A n \in DOMAIN old : /\ out[n].obs = old[n].obs /\ out[n].p = old[n].p
                                 /\ out[n].e = re[old[n].e] /\ out[n].i = Before(r.data, k) + n - 1
    <2>1. out = [n \in DOMAIN old |-> [old[n] EXCEPT !.e = re[@], !.i = RowsBefore(r, k) + n - 1]] BY DEF Renumbered
    <2>2. RowsBefore(r, k) = Before(r.data, k) BY DEF RowsBefore, Before
    <2> HIDE DEF out, old
    <2>3. ASSUME NEW n \in DOMAIN old
          PROVE  /\ out[n].obs = old[n].obs /\ out[n].p = old[n].p
                 /\ out[n].e = re[old[n].e] /\ out[n].i = Before(r.data, k) + n - 1
      <3> DEFINE x == old[n]  y == out[n]  a == re[x.e]  b == RowsBefore(r, k) + n - 1
      <3>1. IsRow(x) /\ Own(x) BY <1>1 DEF Own
      <3>2. y = [x EXCEPT !.e = re[@], !.i = b] BY <2>1
      <3>3. y = [x EXCEPT !.e = a, !.i = b]
        <4> HIDE DEF y, b
        <4>1. QED BY <3>1, <3>2 DEF IsRow
      <3> HIDE DEF x, y, a, b
      <3>4. y.obs = x.obs /\ y.p = x.p BY <3>1, <3>3, RowRenumbered
      <3>5. y.e = a /\ y.i = b BY <3>1, <3>3 DEF IsRow
      <3>6. QED BY <2>2, <3>4, <3>5 DEF x, y, a, b
    <2>4. DOMAIN out = DOMAIN old BY <2>1
    <2> HIDE DEF out, old
    <2>5. QED BY <2>3, <2>4
  <1>3. \A f \in 1 .. Files : Obs(new.data[f]) = Obs(r.data[f])
    <2>1. Obs(out) = Obs(old) BY <1>2 DEF Obs
    <2>2. QED BY <2>1
  <1>4. Tidy(c, r.data, K) /\ Renumbers(re, es, K) BY DEF CompactSoFar
  <1>5. Tidy(c, new.data, K)
    <2>1. \A f \in 1 .. Files : DemosOf(new.data, f) = DemosOf(r.data, f) BY <1>3 DEF DemosOf
    <2> HIDE DEF K
    <2>2. \A f \in 1 .. Files : LaidOut(c, Obs(new.data[f]), DemosOf(new.data, f)) BY <1>3, <1>4, <2>1 DEF Tidy
    <2>3. \A f, h \in 1 .. Files : f # h => DemosOf(new.data, f) \cap DemosOf(new.data, h) = {} BY <1>4, <2>1 DEF Tidy
    <2>4. UNION {DemosOf(r.data, f) : f \in 1 .. Files} = K BY <1>4 DEF Tidy
    <2>5. UNION {DemosOf(new.data, f) : f \in 1 .. Files} = K BY <2>1, <2>4
    <2>6. QED BY <2>2, <2>3, <2>5 DEF Tidy
  <1>6. \A f \in 1 .. Files : Before(new.data, f) = Before(r.data, f) BY <1>3, SameFrames
  <1>7. FileNumbered(new.data, k) BY <1>0, <1>2, <1>6 DEF FileNumbered
  <1>8. Ranks(out, K)
    <2>1. ASSUME NEW n \in DOMAIN old PROVE re[old[n].e] = Position(K, old[n].obs[1])
      <3> DEFINE g == old[n].obs[1]
      <3>1. old[n].e = Position(es, g)
        <4>1. Ranks(old, es) BY <1>0 DEF CompactSoFar
        <4>2. QED BY <4>1 DEF Ranks
      <3>2. g \in DemosOf(r.data, k) BY DEF DemosOf, Demos, Obs
      <3>3. UNION {DemosOf(r.data, f) : f \in 1 .. Files} = K BY <1>4 DEF Tidy
      <3> HIDE DEF g, K
      <3>4. g \in K BY <1>0, <3>2, <3>3
      <3>5. QED BY <1>4, <3>1, <3>4 DEF Renumbers, g
    <2> HIDE DEF out, old, K
    <2>2. QED BY <1>2, <2>1 DEF Ranks
  <1>9. Stamped(out)
    <2>1. Stamped(old) BY <1>0 DEF CompactSoFar
    <2> HIDE DEF out, old
    <2>2. QED BY <1>2, <2>1 DEF Stamped
  <1>10. \A f \in 1 .. Files : Stamped(new.data[f])
    <2>1. \A f \in 1 .. Files : Stamped(r.data[f]) BY DEF CompactSoFar
    <2>2. QED BY <1>9, <2>1
  <1>11. \A f \in 1 .. Files : f < k + 1 => FileNumbered(new.data, f) /\ Ranks(new.data[f], K)
    <2>1. TAKE f \in 1 .. Files
    <2>2. HAVE f < k + 1
    <2>3. CASE f = k BY <1>7, <1>8, <2>3
    <2>4. CASE f # k
      <3>1. f < k BY <1>0, <2>2, <2>4
      <3>2. FileNumbered(r.data, f) /\ Ranks(r.data[f], K) BY <3>1 DEF CompactSoFar
      <3>3. new.data[f] = r.data[f] BY <2>4
      <3>4. QED BY <1>6, <3>2, <3>3 DEF FileNumbered
    <2>5. QED BY <2>3, <2>4
  <1>12. \A f \in 1 .. Files : f >= k + 1 => Ranks(new.data[f], es)
    <2>1. TAKE f \in 1 .. Files
    <2>2. HAVE f >= k + 1
    <2>3. f # k /\ f >= k BY <1>0, <2>2
    <2>4. Ranks(r.data[f], es) BY <2>3 DEF CompactSoFar
    <2>5. QED BY <2>3, <2>4
  <1>13. k + 1 \in 1 .. Files + 1 BY <1>0
  <1>14. Listed(new.eps, es) BY DEF CompactSoFar
  <1> HIDE DEF K, es
  <1>15. CompactSoFar(c, new, k + 1, re, es, K) BY <1>4, <1>5, <1>10, <1>11, <1>12, <1>13, <1>14 DEF CompactSoFar
  <1>16. QED BY <1>15 DEF K, es

\* The places, in the table of all episodes, of those that are kept.
Places(S, K) == {Position(S, g) + 1 : g \in K}

Aligned(S, K, P) ==
    \A n \in 1 .. Cardinality(K) : /\ Ascending(P)[n] = Position(S, Ascending(K)[n]) + 1
                                   /\ Ascending(S)[Ascending(P)[n]] = Ascending(K)[n]

LEMMA KeptPlaces ==
    ASSUME NEW S, S \subseteq Nat, IsFiniteSet(S), NEW K, K \subseteq S, IsFiniteSet(K),
           NEW P, P = Places(S, K)
    PROVE  /\ P \subseteq 1 .. Cardinality(S) /\ Cardinality(P) = Cardinality(K)
           /\ Aligned(S, K, P)
  <1> DEFINE h == [g \in K |-> Position(S, g) + 1]
  <1>1. \A g \in K : h[g] = Position(S, g) + 1 OBVIOUS
  <1> HIDE DEF h
  <1>2. Cardinality(S) \in Nat /\ Cardinality(K) \in Nat /\ K \subseteq Nat BY FS_CardinalityType
  <1>3. \A g \in S : Position(S, g) \in 0 .. Cardinality(S) - 1 /\ Ascending(S)[Position(S, g) + 1] = g BY RankFacts
  <1>4. \A x, y \in S : x < y <=> Position(S, x) < Position(S, y) BY RankFacts
  <1>5. \A g \in K : h[g] \in Nat /\ h[g] \in 1 .. Cardinality(S)
    <2>1. TAKE g \in K
    <2>2. Position(S, g) \in 0 .. Cardinality(S) - 1 BY <1>3
    <2> DEFINE a == Position(S, g)
    <2> HIDE DEF a
    <2>3. a \in 0 .. Cardinality(S) - 1 => a + 1 \in Nat /\ a + 1 \in 1 .. Cardinality(S) BY <1>2
    <2>4. QED BY <1>1, <2>2, <2>3 DEF a
  <1>6. \A x, y \in K : x < y <=> h[x] < h[y]
    <2>1. TAKE x, y \in K
    <2> DEFINE a == Position(S, x)  b == Position(S, y)
    <2>2. a \in Nat /\ b \in Nat /\ (x < y <=> a < b) /\ h[x] = a + 1 /\ h[y] = b + 1 BY <1>1, <1>2, <1>3, <1>4
    <2> HIDE DEF a, b
    <2>3. QED BY <2>2
  <1>7. P = Image(K, h) BY <1>1 DEF Places, Image
  <1>8. \A x \in K : h[x] \in Nat BY <1>5
  <1>9. /\ P \subseteq Nat /\ IsFiniteSet(P) /\ Cardinality(P) = Cardinality(K)
        /\ \A x \in K : Position(P, h[x]) = Position(K, x)
    <2>1. K \subseteq Nat /\ IsFiniteSet(K) BY <1>2
    <2>2. Rising(K, h) BY <1>6, <1>8 DEF Rising
    <2>3. /\ Image(K, h) \subseteq Nat /\ IsFiniteSet(Image(K, h)) /\ Cardinality(Image(K, h)) = Cardinality(K)
          /\ \A x \in K : Position(Image(K, h), h[x]) = Position(K, x)
      BY <2>1, <2>2, RankImage
    <2>4. QED BY <1>7, <2>3
  <1>10. ASSUME NEW n \in 1 .. Cardinality(K)
         PROVE  Ascending(P)[n] = Position(S, Ascending(K)[n]) + 1 /\ Ascending(S)[Ascending(P)[n]] = Ascending(K)[n]
    <2> DEFINE g == Ascending(K)[n]
    <2>1. g \in K /\ Position(K, g) = n - 1 BY <1>2, RankFacts
    <2> HIDE DEF g
    <2>2. h[g] \in P /\ Position(P, h[g]) = n - 1 BY <1>7, <1>9, <2>1 DEF Image
    <2>3. Ascending(P)[Position(P, h[g]) + 1] = h[g] BY <1>9, <2>2, RankFacts
    <2>4. (n - 1) + 1 = n BY <1>2
    <2>5. Ascending(P)[n] = h[g] BY <2>2, <2>3, <2>4
    <2>6. h[g] = Position(S, g) + 1 /\ Ascending(S)[Position(S, g) + 1] = g BY <1>1, <1>3, <2>1
    <2>7. QED BY <2>5, <2>6 DEF g
  <1>11. P \subseteq 1 .. Cardinality(S) BY <1>5, <1>7 DEF Image
  <1>12. QED BY <1>9, <1>10, <1>11 DEF Aligned

LEMMA CompactedTable ==
    ASSUME NEW c, NEW S, S \subseteq Nat, IsFiniteSet(S), NEW K, K \subseteq S, IsFiniteSet(K), Played(c, K),
           NEW eps, Listed(eps, S), Renumbers(remap, S, K), NEW rows, Built(c, rows, K)
    PROVE  Table(c, CompactedEpisodes(eps, rows), K, Obs(rows))
  <1> DEFINE N == Cardinality(S)  M == Cardinality(K)  P == {n \in DOMAIN eps : eps[n].e \in DOMAIN remap}
             kept == Chosen(eps, P)  new == CompactedEpisodes(eps, rows)
  <1>1. N \in Nat /\ M \in Nat /\ K \subseteq Nat BY FS_CardinalityType
  <1>2. eps = [k \in 1 .. N |-> eps[k]] /\ \A k \in 1 .. N : eps[k].e = k - 1 /\ eps[k].g = Ascending(S)[k]
    BY DEF Listed
  <1>3. DOMAIN remap = {Position(S, g) : g \in K} /\ \A g \in K : remap[Position(S, g)] = Position(K, g)
    BY DEF Renumbers
  <1>r. \A g \in S : Position(S, g) \in 0 .. N - 1 BY RankFacts
  <1>4. P = {Position(S, g) + 1 : g \in K}
    <2>1. DOMAIN eps = 1 .. N BY <1>2
    <2>2. ASSUME NEW n \in P PROVE \E g \in K : n = Position(S, g) + 1
      <3>1. n \in 1 .. N /\ n - 1 \in DOMAIN remap BY <1>2, <2>1
      <3>2. PICK g \in K : n - 1 = Position(S, g) BY <1>3, <3>1
      <3>3. n = (n - 1) + 1 BY <1>1, <3>1
      <3>4. QED BY <3>2, <3>3
    <2>3. ASSUME NEW g \in K PROVE Position(S, g) + 1 \in P
      <3> DEFINE a == Position(S, g)
      <3>1. a \in 0 .. N - 1 /\ a \in DOMAIN remap BY <1>3, <1>r
      <3> HIDE DEF a, N
      <3>2. a + 1 \in 1 .. N /\ (a + 1) - 1 = a BY <1>1, <3>1
      <3>3. a + 1 \in DOMAIN eps /\ eps[a + 1].e = a BY <1>2, <2>1, <3>2 DEF N
      <3>4. QED BY <3>1, <3>3 DEF a
    <2> HIDE DEF P
    <2>4. QED BY <2>2, <2>3
  <1>n. new = [n \in DOMAIN kept |-> Entry(remap[kept[n].e], kept[n].g, IndexRange(rows, remap[kept[n].e]))]
    BY DEF CompactedEpisodes
  <1>k. DOMAIN kept = 1 .. Cardinality(P) /\ \A n \in 1 .. Cardinality(P) : kept[n] = eps[Ascending(P)[n]] BY DEF Chosen
  <1> HIDE DEF P, kept, new
  <1>5. /\ P \subseteq 1 .. N /\ Cardinality(P) = M
        /\ \A n \in 1 .. M : /\ Ascending(P)[n] = Position(S, Ascending(K)[n]) + 1
                             /\ Ascending(S)[Ascending(P)[n]] = Ascending(K)[n]
    <2>1. P = Places(S, K) BY <1>4 DEF Places
    <2>2. P \subseteq 1 .. Cardinality(S) BY <2>1, KeptPlaces
    <2>3. Cardinality(P) = Cardinality(K) BY <2>1, KeptPlaces
    <2>4. \A n \in 1 .. Cardinality(K) : /\ Ascending(P)[n] = Position(S, Ascending(K)[n]) + 1
                                           /\ Ascending(S)[Ascending(P)[n]] = Ascending(K)[n]
      <3>1. Aligned(S, K, P) BY <2>1, KeptPlaces
      <3>2. QED BY <3>1 DEF Aligned
    <2>5. QED BY <2>2, <2>3, <2>4 DEF N, M
  <1>6. ASSUME NEW n \in 1 .. M PROVE kept[n].g = Ascending(K)[n] /\ remap[kept[n].e] = n - 1
    <2> DEFINE g == Ascending(K)[n]  a == Position(S, g)
    <2>1. g \in K /\ Position(K, g) = n - 1 BY <1>1, RankFacts
    <2>2. a \in 0 .. N - 1 BY <1>r, <2>1
    <2>3. kept[n] = eps[a + 1] /\ Ascending(S)[a + 1] = g BY <1>k, <1>5
    <2>m. remap[a] = n - 1 BY <1>3, <2>1
    <2> HIDE DEF a, g, N
    <2>4. a + 1 \in 1 .. N /\ (a + 1) - 1 = a BY <1>1, <2>2
    <2>5. eps[a + 1].e = a /\ eps[a + 1].g = g BY <1>2, <2>3, <2>4 DEF N
    <2>6. QED BY <2>3, <2>5, <2>m DEF g
  <1>7. DOMAIN new = 1 .. M /\ new = [n \in 1 .. M |-> new[n]] BY <1>5, <1>k, <1>n
  <1>8. \A n \in DOMAIN new : new[n] = Entry(n - 1, Ascending(K)[n], IndexRange(rows, n - 1))
    BY <1>5, <1>6, <1>7, <1>k, <1>n
  <1>9. new = [k \in 1 .. Cardinality(K) |-> new[k]] BY <1>7 DEF M
  <1>10. Table(c, new, K, Obs(rows)) BY <1>1, <1>8, <1>9, TableOf
  <1>11. QED BY <1>10 DEF new

LEMMA CompactMetaWorks ==
    ASSUME NEW c \in Corpora, NEW t, NEW l, NEW r, WellFormed(r), NEW k,
           CompactSoFar(c, r, k, remap, EpisodesOf(c, t), Full(c, l, t)), k > Files,
           NEW new, WellFormed(new), new.data = r.data, new.eps = CompactedEpisodes(r.eps, AllRows(r))
    PROVE  /\ Built(c, AllRows(new), Full(c, l, t)) /\ Stamped(AllRows(new))
           /\ Table(c, new.eps, Full(c, l, t), Obs(AllRows(new)))
           /\ DOMAIN remap = {Position(EpisodesOf(c, t), g) : g \in Full(c, l, t)}
  <1> DEFINE K == Full(c, l, t)  es == EpisodesOf(c, t)
  <1>0. \A f \in 1 .. Files : f < k
    <2>1. k \in 1 .. Files + 1 BY DEF CompactSoFar
    <2>2. QED BY <2>1, RootsAssumption
  <1>1. K \subseteq es /\ K \subseteq Nat /\ IsFiniteSet(K) /\ Played(c, K) /\ es \subseteq Nat /\ IsFiniteSet(es)
    BY FullFacts, CorpusFacts
  <1>2. AllRows(new) = AllRows(r) BY DEF AllRows
  <1>3. Tidy(c, r.data, K) /\ Listed(r.eps, es) /\ Renumbers(remap, es, K)
        /\ \A f \in 1 .. Files : Stamped(r.data[f]) /\ FileNumbered(r.data, f) /\ Ranks(r.data[f], K)
    BY <1>0 DEF CompactSoFar
  <1> DEFINE rows == AllRows(r)  eps == r.eps
  <1> HIDE DEF K, es
  <1>4. Built(c, AllRows(r), K) BY <1>1, <1>3, BuiltRows
  <1>5. Stamped(AllRows(r)) BY <1>3, StampedRows
  <1>6. Table(c, CompactedEpisodes(eps, rows), K, Obs(rows))
    <2>1. Listed(eps, es) /\ Built(c, rows, K) BY <1>3, <1>4
    <2> HIDE DEF rows, eps
    <2>2. QED BY <1>1, <1>3, <2>1, CompactedTable
  <1>7. DOMAIN remap = {Position(es, g) : g \in K} BY <1>3 DEF Renumbers
  <1>8. QED BY <1>2, <1>4, <1>5, <1>6, <1>7 DEF K, es

LEMMA RemapSize ==
    ASSUME NEW c \in Corpora, NEW t, NEW l, NEW I, I = {Position(EpisodesOf(c, t), g) : g \in Full(c, l, t)}
    PROVE  Cardinality(I) = Cardinality(Full(c, l, t))
  <1> DEFINE K == Full(c, l, t)  es == EpisodesOf(c, t)  h == [g \in K |-> Position(es, g)]
  <1>1. K \subseteq es /\ IsFiniteSet(K) /\ es \subseteq Nat /\ IsFiniteSet(es) BY FullFacts, CorpusFacts
  <1>2. \A g \in K : h[g] = Position(es, g) OBVIOUS
  <1>i. I = {Position(es, g) : g \in K} OBVIOUS
  <1> HIDE DEF K, es, h
  <1>3. \A x, y \in K : h[x] = h[y] => x = y
    <2>1. TAKE x, y \in K
    <2>2. HAVE h[x] = h[y]
    <2>3. Position(es, x) = Position(es, y) /\ x \in es /\ y \in es BY <1>1, <1>2, <2>2
    <2>4. QED BY <1>1, <2>3, SameRank
  <1>4. Cardinality({h[x] : x \in K}) = Cardinality(K) BY <1>1, <1>3, ImageSize
  <1>5. I = {h[x] : x \in K} BY <1>2, <1>i
  <1>6. QED BY <1>4, <1>5 DEF K

-----------------------------------------------------------------------------
(* The inductive invariant *)

\* The steps that work on one task, and those after the last.
Phases == {"slice", "slice info", "merge", "join", "register", "compact", "compact info", "filter"}
After == {"streams", "check streams", "fingerprint", "arms", "train"}

\* The episodes a root keeps, according to its filter.
Keeps(c, t, filter) == IF filter.dropped = {} THEN EpisodesOf(c, t) ELSE {x[1] : x \in filter.kept}
\* What a root with a filter is: complete, with exactly the fully labelled demonstrations.
Finished(c, t, l, r) ==
    Complete(c, r, Full(c, l, t)) /\ IsInfo(r.info) /\ Keeps(c, t, r.filter) = Full(c, l, t)

\* A root with its filter is finished, whoever wrote it and when, for the labels of then.
BuiltRoots == \A t \in Range(Tasks) : root[t].filter # NoFilter => Finished(corpus, t, used[t], root[t])
\* The labels of a merge do not change under it.
Joins == {"join", "register", "compact", "compact info", "filter"}
FromLabels == used = [t \in Range(Tasks) |-> used[t]] /\ (pc \in Joins => used[T] = labels[T])
\* Where the script is, the roots behind it have their filters.
Progress ==
    /\ pc \notin {"off", "failed"} => nth \in DOMAIN Tasks
    /\ pc \in Phases \union {"data"} => \A n \in 1 .. nth - 1 : root[Tasks[n]].filter # NoFilter
    /\ pc \in After => \A t \in Range(Tasks) : root[t].filter # NoFilter
\* The task at work.
Working == pc \in Phases => AtWork(corpus, T, labels[T], slice[T], root[T], pc, file, dropped, remap)
\* What the arms accepted is what the fingerprint on the volume says, also after a new pod
\* has rebuilt the roots from other labels.
TrainedOn ==
    /\ pc \in {"fingerprint", "arms", "train"} => \A t \in Range(Tasks) : AllRows(root[t]) # <<>>
    /\ pc \in {"arms", "train"} => fingerprint = FP
    /\ trained # <<>> =>
          /\ fingerprint # NoFingerprint
          /\ trained = [n \in DOMAIN Tasks |-> Keeps(corpus, Tasks[n], fingerprint[n])]
    /\ pc = "train" => trained # <<>>
RootsHold == BuiltRoots /\ FromLabels /\ Progress /\ Working /\ TrainedOn
\* What a step may use.
Good == Tasks # <<>> /\ KnownData /\ RootsHold

LEMMA TasksFacts ==
    ASSUME Tasks # <<>>
    PROVE  /\ Len(Tasks) \in Nat \ {0} /\ DOMAIN Tasks = 1 .. Len(Tasks)
           /\ \A n \in DOMAIN Tasks : Tasks[n] \in Range(Tasks)
           /\ \A t \in Range(Tasks) : \E n \in DOMAIN Tasks : t = Tasks[n]
           /\ \A m, n \in DOMAIN Tasks : Tasks[m] = Tasks[n] => m = n
  <1>1. Tasks \in Seq(STRING) BY RootsAssumption
  <1>2. Len(Tasks) \in Nat \ {0} /\ DOMAIN Tasks = 1 .. Len(Tasks) BY <1>1
  <1>3. \A m, n \in DOMAIN Tasks : Tasks[m] = Tasks[n] => m = n BY RootsAssumption DEF IsInjective
  <1>4. QED BY <1>2, <1>3 DEF Range

LEMMA TreesKnown ==
    ASSUME Trees
    PROVE  /\ slice = [t \in Range(Tasks) |-> slice[t]] /\ root = [t \in Range(Tasks) |-> root[t]]
           /\ \A t \in Range(Tasks) : WellFormed(slice[t]) /\ WellFormed(root[t])
  BY DEF Trees, WellFormed, Merged

\* A step in the work on a task leaves the other roots alone.
LEMMA StaysJoining ==
    ASSUME Good, pc \in Phases \union {"data"}, pc' \in Phases \union {"failed"},
           UNCHANGED <<corpus, labels, fingerprint, trained, nth>>,
           \A t \in Range(Tasks) : t # T => root'[t] = root[t] /\ used'[t] = used[t],
           (root'[T] = root[T] /\ UNCHANGED used) \/ root'[T].filter = NoFilter, FromLabels',
           pc' \in Phases => AtWork(corpus, T, labels[T], slice'[T], root'[T], pc', file', dropped', remap')
    PROVE  RootsHold'
  <1>1. T' = T /\ nth \in DOMAIN Tasks BY DEF T, Good, RootsHold, Progress, Phases
  <1>2. BuiltRoots'
    <2>1. ASSUME NEW t \in Range(Tasks), root'[t].filter # NoFilter PROVE Finished(corpus, t, used'[t], root'[t])
      <3>1. root'[t] = root[t] /\ used'[t] = used[t] BY <2>1
      <3>2. QED BY <2>1, <3>1 DEF Good, RootsHold, BuiltRoots
    <2>2. QED BY <2>1 DEF BuiltRoots
  <1>3. Progress'
    <2>1. \A n \in 1 .. nth - 1 : root[Tasks[n]].filter # NoFilter BY DEF Good, RootsHold, Progress
    <2>2. ASSUME NEW n \in 1 .. nth - 1 PROVE root'[Tasks[n]].filter # NoFilter
      <3>1. n \in DOMAIN Tasks /\ n # nth BY <1>1, TasksFacts DEF Good
      <3>2. Tasks[n] \in Range(Tasks) /\ Tasks[n] # T BY <1>1, <3>1, TasksFacts DEF Good, T
      <3>3. QED BY <2>1, <3>2
    <2>3. pc' \notin After BY DEF Phases, After
    <2>4. QED BY <1>1, <2>2, <2>3 DEF Progress
  <1>4. Working' BY <1>1 DEF Working
  <1>5. TrainedOn'
    <2>1. pc' \notin {"fingerprint", "arms", "train"} BY DEF Phases
    <2>2. QED BY <2>1 DEF Good, RootsHold, TrainedOn
  <1>6. QED BY <1>2, <1>3, <1>4, <1>5 DEF RootsHold

LEMMA Stays ==
    ASSUME Good, pc \in Phases \union {"data"}, pc' \in Phases \union {"failed"}, pc' \in Joins => pc \in Joins,
           UNCHANGED <<corpus, labels, used, fingerprint, trained, nth>>,
           \A t \in Range(Tasks) : t # T => root'[t] = root[t],
           root'[T] = root[T] \/ root'[T].filter = NoFilter,
           pc' \in Phases => AtWork(corpus, T, labels[T], slice'[T], root'[T], pc', file', dropped', remap')
    PROVE  RootsHold'
  <1>1. FromLabels' BY DEF Good, RootsHold, FromLabels, T
  <1>2. QED BY <1>1, StaysJoining

\* What is known in every phase.
InSlice(c, t, l, s, r, k, dr, re) ==
    SlicedSoFar(c, t, s, k)
InSliceInfo(c, t, l, s, r, k, dr, re) ==
    WholeSlice(c, t, s)
InMerge(c, t, l, s, r, k, dr, re) ==
    WholeSlice(c, t, s) /\ Counted(s, EpisodesOf(c, t))
InJoin(c, t, l, s, r, k, dr, re) ==
    /\ r.filter = NoFilter /\ WholeSlice(c, t, s) /\ Counted(s, EpisodesOf(c, t)) /\ ValidLabels(l)
    /\ JoinedSoFar(c, t, l, s, r, k, dr)
InRegister(c, t, l, s, r, k, dr, re) ==
    /\ r.filter = NoFilter /\ WholeSlice(c, t, s) /\ Counted(s, EpisodesOf(c, t))
    /\ JoinedSoFar(c, t, l, s, r, Files + 1, dr) /\ r.eps = s.eps /\ r.info = s.info
InCompact(c, t, l, s, r, k, dr, re) ==
    /\ r.filter = NoFilter /\ dr # {} /\ IsInfo(r.info) /\ r.info.progress
    /\ CompactSoFar(c, r, k, re, EpisodesOf(c, t), Full(c, l, t))
InCompactInfo(c, t, l, s, r, k, dr, re) ==
    /\ r.filter = NoFilter /\ dr # {} /\ Compacted(c, r, Full(c, l, t))
    /\ DOMAIN re = {Position(EpisodesOf(c, t), g) : g \in Full(c, l, t)}
InFilter(c, t, l, s, r, k, dr, re) ==
    /\ r.filter = NoFilter /\ (dr = {} => Full(c, l, t) = EpisodesOf(c, t))
    /\ Compacted(c, r, Full(c, l, t)) /\ Counted(r, Full(c, l, t))

LEMMA WorkSlice ==
    \A c, t, l, s, r, p, k, dr, re :
        p = "slice" => (AtWork(c, t, l, s, r, p, k, dr, re) <=> InSlice(c, t, l, s, r, k, dr, re))
  BY DEF AtWork, InSlice
LEMMA WorkSliceInfo ==
    \A c, t, l, s, r, p, k, dr, re :
        p = "slice info" => (AtWork(c, t, l, s, r, p, k, dr, re) <=> InSliceInfo(c, t, l, s, r, k, dr, re))
  <1>1. TAKE c, t, l, s, r, p, k, dr, re
  <1>2. HAVE p = "slice info"
  <1>3. QED BY <1>2 DEF AtWork, InSliceInfo
LEMMA WorkMerge ==
    \A c, t, l, s, r, p, k, dr, re :
        p = "merge" => (AtWork(c, t, l, s, r, p, k, dr, re) <=> InMerge(c, t, l, s, r, k, dr, re))
  BY DEF AtWork, InMerge
LEMMA WorkJoin ==
    \A c, t, l, s, r, p, k, dr, re :
        p = "join" => (AtWork(c, t, l, s, r, p, k, dr, re) <=> InJoin(c, t, l, s, r, k, dr, re))
  BY DEF AtWork, InJoin
LEMMA WorkRegister ==
    \A c, t, l, s, r, p, k, dr, re :
        p = "register" => (AtWork(c, t, l, s, r, p, k, dr, re) <=> InRegister(c, t, l, s, r, k, dr, re))
  BY DEF AtWork, InRegister
LEMMA WorkCompact ==
    \A c, t, l, s, r, p, k, dr, re :
        p = "compact" => (AtWork(c, t, l, s, r, p, k, dr, re) <=> InCompact(c, t, l, s, r, k, dr, re))
  BY DEF AtWork, InCompact
LEMMA WorkCompactInfo ==
    \A c, t, l, s, r, p, k, dr, re :
        p = "compact info" => (AtWork(c, t, l, s, r, p, k, dr, re) <=> InCompactInfo(c, t, l, s, r, k, dr, re))
  <1>1. TAKE c, t, l, s, r, p, k, dr, re
  <1>2. HAVE p = "compact info"
  <1>3. QED BY <1>2 DEF AtWork, InCompactInfo
LEMMA WorkFilter ==
    \A c, t, l, s, r, p, k, dr, re :
        p = "filter" => (AtWork(c, t, l, s, r, p, k, dr, re) <=> InFilter(c, t, l, s, r, k, dr, re))
  BY DEF AtWork, InFilter

LEMMA WorkingNow ==
    ASSUME Good, pc \in Phases PROVE AtWork(corpus, T, labels[T], slice[T], root[T], pc, file, dropped, remap)
  BY DEF Good, RootsHold, Working

LEMMA GoodTask ==
    ASSUME Good, pc \notin {"off", "failed"}
    PROVE  /\ T \in Range(Tasks) /\ nth \in DOMAIN Tasks /\ corpus \in Corpora
           /\ WellFormed(slice[T]) /\ WellFormed(root[T]) /\ IsTree(slice[T]) /\ IsTree(root[T])
           /\ slice = [t \in Range(Tasks) |-> slice[t]] /\ root = [t \in Range(Tasks) |-> root[t]]
  <1>1. nth \in DOMAIN Tasks BY DEF Good, RootsHold, Progress
  <1>2. T \in Range(Tasks) BY <1>1, TasksFacts DEF Good, T
  <1>3. Trees /\ corpus \in Corpora BY DEF Good, KnownData
  <1>4. /\ slice = [t \in Range(Tasks) |-> slice[t]] /\ root = [t \in Range(Tasks) |-> root[t]]
        /\ \A t \in Range(Tasks) : WellFormed(slice[t]) /\ WellFormed(root[t])
    BY <1>3, TreesKnown
  <1>5. WellFormed(slice[T]) /\ WellFormed(root[T]) BY <1>2, <1>4
  <1>6. QED BY <1>1, <1>2, <1>3, <1>4, <1>5 DEF WellFormed

\* The task's tree replaced.
LEMMA SliceReplaced ==
    ASSUME Good, pc \notin {"off", "failed"}, NEW new, slice' = [slice EXCEPT ![T] = new], UNCHANGED nth, KnownData'
    PROVE  slice'[T] = new /\ WellFormed(new)
  <1>1. T \in Range(Tasks) /\ slice = [t \in Range(Tasks) |-> slice[t]] BY GoodTask
  <1>2. slice'[T] = new BY <1>1
  <1>3. \A t \in Range(Tasks) : WellFormed(slice'[t]) BY DEF KnownData, Trees, WellFormed
  <1>4. QED BY <1>1, <1>2, <1>3

LEMMA RootReplaced ==
    ASSUME Good, pc \notin {"off", "failed"}, NEW new, root' = [root EXCEPT ![T] = new], KnownData'
    PROVE  root'[T] = new /\ WellFormed(new) /\ \A t \in Range(Tasks) : t # T => root'[t] = root[t]
  <1>1. T \in Range(Tasks) /\ root = [t \in Range(Tasks) |-> root[t]] BY GoodTask
  <1>2. root'[T] = new /\ \A t \in Range(Tasks) : t # T => root'[t] = root[t] BY <1>1
  <1>3. \A t \in Range(Tasks) : WellFormed(root'[t]) BY DEF KnownData, Trees, WellFormed, Merged
  <1>4. QED BY <1>1, <1>2, <1>3

-----------------------------------------------------------------------------
(* Every step keeps it *)

\* Fields of trees and infos after an update.
InfoIs(i, e, f, p, q) == i = [episodes |-> e, frames |-> f, progress |-> p, streams |-> q]
LEMMA EpisodesReplaced ==
    ASSUME NEW i, NEW e, NEW f, NEW p, NEW q, InfoIs(i, e, f, p, q), NEW v, NEW j, j = [i EXCEPT !.episodes = v]
    PROVE  InfoIs(j, v, f, p, q)
  BY DEF InfoIs
LEMMA FramesReplaced ==
    ASSUME NEW i, NEW e, NEW f, NEW p, NEW q, InfoIs(i, e, f, p, q), NEW v, NEW j, j = [i EXCEPT !.frames = v]
    PROVE  InfoIs(j, e, v, p, q)
  BY DEF InfoIs
LEMMA ProgressReplaced ==
    ASSUME NEW i, NEW e, NEW f, NEW p, NEW q, InfoIs(i, e, f, p, q), NEW v, NEW j, j = [i EXCEPT !.progress = v]
    PROVE  InfoIs(j, e, f, v, q)
  BY DEF InfoIs

WithCounts(r, a, b) == [r EXCEPT !.info.episodes = a, !.info.frames = b]
WithProgress(r, a, b, c) == [r EXCEPT !.info.progress = c, !.info.episodes = a, !.info.frames = b]

LEMMA NewCounts ==
    ASSUME NEW r, IsTree(r), IsInfo(r.info), NEW a, NEW b, NEW new, new = WithCounts(r, a, b)
    PROVE  /\ new.data = r.data /\ new.eps = r.eps /\ new.filter = r.filter /\ IsInfo(new.info)
           /\ new.info.episodes = a /\ new.info.frames = b /\ new.info.progress = r.info.progress
  <1> DEFINE i == r.info  x == [i EXCEPT !.episodes = a]  j == [x EXCEPT !.frames = b]
  <1>1. new = [r EXCEPT !.info = j] BY DEF IsTree, WithCounts
  <1>2. InfoIs(i, i.episodes, i.frames, i.progress, i.streams) BY DEF IsInfo, InfoIs
  <1>3. InfoIs(x, a, i.frames, i.progress, i.streams)
    <2>1. x = [i EXCEPT !.episodes = a] OBVIOUS
    <2> HIDE DEF i, x
    <2>2. QED BY <1>2, <2>1, EpisodesReplaced
  <1>4. InfoIs(j, a, b, i.progress, i.streams)
    <2>1. j = [x EXCEPT !.frames = b] OBVIOUS
    <2> HIDE DEF i, x, j
    <2>2. QED BY <1>3, <2>1, FramesReplaced
  <1> HIDE DEF j
  <1>5. new.info = j /\ new.data = r.data /\ new.eps = r.eps /\ new.filter = r.filter BY <1>1 DEF IsTree
  <1>6. IsInfo(j) /\ j.episodes = a /\ j.frames = b /\ j.progress = i.progress
    <2> HIDE DEF i
    <2>1. QED BY <1>4 DEF IsInfo, InfoIs
  <1>7. QED BY <1>5, <1>6

LEMMA NewRegistered ==
    ASSUME NEW r, IsTree(r), IsInfo(r.info), NEW a, NEW b, NEW c,
           NEW new, new = WithProgress(r, a, b, c)
    PROVE  /\ new.data = r.data /\ new.eps = r.eps /\ new.filter = r.filter /\ IsInfo(new.info)
           /\ new.info.episodes = a /\ new.info.frames = b /\ new.info.progress = c
  <1> DEFINE i == r.info  x == [i EXCEPT !.progress = c]  y == [x EXCEPT !.episodes = a]  j == [y EXCEPT !.frames = b]
  <1>1. new = [r EXCEPT !.info = j] BY DEF IsTree, WithProgress
  <1>2. InfoIs(i, i.episodes, i.frames, i.progress, i.streams) BY DEF IsInfo, InfoIs
  <1>3. InfoIs(x, i.episodes, i.frames, c, i.streams)
    <2>1. x = [i EXCEPT !.progress = c] OBVIOUS
    <2> HIDE DEF i, x
    <2>2. QED BY <1>2, <2>1, ProgressReplaced
  <1>4. InfoIs(y, a, i.frames, c, i.streams)
    <2>1. y = [x EXCEPT !.episodes = a] OBVIOUS
    <2> HIDE DEF i, x, y
    <2>2. QED BY <1>3, <2>1, EpisodesReplaced
  <1>5. InfoIs(j, a, b, c, i.streams)
    <2>1. j = [y EXCEPT !.frames = b] OBVIOUS
    <2> HIDE DEF i, x, y, j
    <2>2. QED BY <1>4, <2>1, FramesReplaced
  <1> HIDE DEF j
  <1>6. new.info = j /\ new.data = r.data /\ new.eps = r.eps /\ new.filter = r.filter BY <1>1 DEF IsTree
  <1>7. IsInfo(j) /\ j.episodes = a /\ j.frames = b /\ j.progress = c
    <2> HIDE DEF i
    <2>1. QED BY <1>5 DEF IsInfo, InfoIs
  <1>8. QED BY <1>6, <1>7

WithStreams(r, a) == [r EXCEPT !.info.streams = a]
LEMMA NewStreams ==
    \A new, r, a : IsTree(r) /\ IsInfo(r.info) /\ new = WithStreams(r, a) =>
        /\ new.data = r.data /\ new.eps = r.eps /\ new.filter = r.filter /\ IsInfo(new.info)
        /\ new.info.episodes = r.info.episodes /\ new.info.frames = r.info.frames
        /\ new.info.progress = r.info.progress
  BY DEF IsTree, IsInfo, WithStreams

LEMMA StepSliceBegins == ASSUME Good, KnownData', SliceBegins PROVE RootsHold'
  <1>1. pc = "data" /\ UNCHANGED <<corpus, labels, used, root, fingerprint, trained, nth>> /\ slice' = [slice EXCEPT ![T] = NoRoot]
    BY DEF SliceBegins, Fails, Goto
  <1>2. pc' = "failed" \/ (pc' = "slice" /\ file' = 1) BY DEF SliceBegins, Fails, Goto
  <1>3. SlicedSoFar(corpus, T, slice'[T], 1)
    <2>1. Files \in Nat BY RootsAssumption
    <2>2. 1 \in 1 .. Files + 1 /\ \A f \in 1 .. Files : ~(f < 1) BY <2>1
    <2>3. QED BY <2>2 DEF SlicedSoFar
  <1>4. pc' \in Phases => AtWork(corpus, T, labels[T], slice'[T], root'[T], pc', file', dropped', remap')
    BY <1>2, <1>3, WorkSlice DEF InSlice, Phases
  <1>5. QED BY <1>1, <1>2, <1>4, Stays DEF Phases, Joins

LEMMA StepSliceFile == ASSUME Good, KnownData', SliceFile PROVE RootsHold'
  <1>1. pc = "slice" /\ file <= Files /\ UNCHANGED <<corpus, labels, used, root, fingerprint, trained, nth>>
    BY DEF SliceFile, Fails, NextFile
  <1>2. SlicedSoFar(corpus, T, slice[T], file)
    <2>1. AtWork(corpus, T, labels[T], slice[T], root[T], pc, file, dropped, remap) BY <1>1, WorkingNow DEF Phases
    <2>2. QED BY <1>1, <2>1, WorkSlice DEF InSlice
  <1>3. corpus \in Corpora /\ WellFormed(slice[T]) /\ IsTree(slice[T]) BY <1>1, GoodTask
  <1>4. CASE pc' = "failed" BY <1>1, <1>4, Stays DEF Phases, Joins
  <1>5. CASE pc' # "failed"
    <2> DEFINE new == [slice[T] EXCEPT !.data[file] = SlicedRows(file)]
    <2>1. /\ EpisodesIn(SlicedRows(file)) \cap EpisodesIn(AllRows(slice[T])) = {} /\ slice' = [slice EXCEPT ![T] = new]
          /\ pc' = pc /\ file' = file + 1
      BY <1>5 DEF SliceFile, Fails, NextFile
    <2>2. new = [slice[T] EXCEPT !.data[file] = SlicedRows(file)] OBVIOUS
    <2> HIDE DEF new
    <2>3. slice'[T] = new /\ WellFormed(new) BY <1>1, <2>1, SliceReplaced
    <2>4. \A f \in 1 .. Files : new.data[f] = IF f = file THEN SlicedRows(file) ELSE slice[T].data[f]
      BY <1>3, <2>2 DEF IsTree
    <2>5. file \in 1 .. Files BY <1>1, <1>2, RootsAssumption DEF SlicedSoFar
    <2>6. new.data[file] = SlicedRows(file) /\ \A f \in 1 .. Files : f # file => new.data[f] = slice[T].data[f]
      BY <2>4, <2>5
    <2>7. SlicedSoFar(corpus, T, new, file + 1) BY <1>1, <1>2, <1>3, <2>1, <2>3, <2>6, SliceFileWorks
    <2>8. AtWork(corpus, T, labels[T], slice'[T], root'[T], pc', file', dropped', remap')
      BY <1>1, <2>1, <2>3, <2>7, WorkSlice DEF InSlice
    <2>9. QED BY <1>1, <2>1, <2>8, Stays DEF Phases, Joins
  <1>6. QED BY <1>4, <1>5

LEMMA StepSliceMeta == ASSUME Good, KnownData', SliceMeta PROVE RootsHold'
  <1>1. pc = "slice" /\ file > Files /\ UNCHANGED <<corpus, labels, used, root, fingerprint, trained, nth>>
    BY DEF SliceMeta, Fails, Goto
  <1>2. SlicedSoFar(corpus, T, slice[T], file)
    <2>1. AtWork(corpus, T, labels[T], slice[T], root[T], pc, file, dropped, remap) BY <1>1, WorkingNow DEF Phases
    <2>2. QED BY <1>1, <2>1, WorkSlice DEF InSlice
  <1>3. corpus \in Corpora /\ WellFormed(slice[T]) /\ IsTree(slice[T]) BY <1>1, GoodTask
  <1>4. CASE pc' = "failed" BY <1>1, <1>4, Stays DEF Phases, Joins
  <1>5. CASE pc' # "failed"
    <2> DEFINE new == [slice[T] EXCEPT !.eps = SlicedEpisodes]
    <2>1. slice' = [slice EXCEPT ![T] = new] /\ pc' = "slice info" BY <1>5 DEF SliceMeta, Fails, Goto
    <2>2. new = [slice[T] EXCEPT !.eps = SlicedEpisodes] OBVIOUS
    <2> HIDE DEF new
    <2>3. slice'[T] = new /\ WellFormed(new) BY <1>1, <2>1, SliceReplaced
    <2>4. new.data = slice[T].data /\ new.eps = SlicedEpisodes BY <1>3, <2>2 DEF IsTree
    <2>5. WholeSlice(corpus, T, new) BY <1>1, <1>2, <1>3, <2>3, <2>4, SliceMetaWorks
    <2>6. AtWork(corpus, T, labels[T], slice'[T], root'[T], pc', file', dropped', remap')
      BY <2>1, <2>3, <2>5, WorkSliceInfo DEF InSliceInfo
    <2>7. QED BY <1>1, <2>1, <2>6, Stays DEF Phases, Joins
  <1>6. QED BY <1>4, <1>5

LEMMA SameSlice ==
    ASSUME NEW c, NEW t, NEW s, WholeSlice(c, t, s), NEW new, new.data = s.data, new.eps = s.eps
    PROVE  WholeSlice(c, t, new) /\ AllRows(new) = AllRows(s)
  <1>1. AllRows(new) = AllRows(s) BY DEF AllRows
  <1>2. QED BY <1>1 DEF WholeSlice

LEMMA StepSliceInfo == ASSUME Good, KnownData', SliceInfo PROVE RootsHold'
  <1> DEFINE info == [episodes |-> Cardinality(EpisodesOf(corpus, T)), frames |-> Len(AllRows(slice[T])),
                      progress |-> FALSE, streams |-> Streams]
             new == [slice[T] EXCEPT !.info = info]
  <1>1. pc = "slice info" /\ pc' = "merge" /\ UNCHANGED <<corpus, labels, used, root, fingerprint, trained, nth>>
        /\ slice' = [slice EXCEPT ![T] = new]
    BY DEF SliceInfo, Goto
  <1>2. WholeSlice(corpus, T, slice[T])
    <2>1. AtWork(corpus, T, labels[T], slice[T], root[T], pc, file, dropped, remap) BY <1>1, WorkingNow DEF Phases
    <2>2. QED BY <1>1, <2>1, WorkSliceInfo DEF InSliceInfo
  <1>3. IsTree(slice[T]) BY <1>1, GoodTask
  <1>4. IsInfo(info) /\ info.episodes = Cardinality(EpisodesOf(corpus, T)) /\ info.frames = Len(AllRows(slice[T]))
    BY DEF IsInfo
  <1>5. new = [slice[T] EXCEPT !.info = info] OBVIOUS
  <1> HIDE DEF info, new
  <1>6. slice'[T] = new BY <1>1, SliceReplaced
  <1>7. new.data = slice[T].data /\ new.eps = slice[T].eps /\ new.info = info BY <1>3, <1>5 DEF IsTree
  <1>8. WholeSlice(corpus, T, new) /\ AllRows(new) = AllRows(slice[T]) BY <1>2, <1>7, SameSlice
  <1>9. Counted(new, EpisodesOf(corpus, T)) BY <1>4, <1>7, <1>8 DEF Counted
  <1>10. AtWork(corpus, T, labels[T], slice'[T], root'[T], pc', file', dropped', remap')
    BY <1>1, <1>6, <1>8, <1>9, WorkMerge DEF InMerge
  <1>11. QED BY <1>1, <1>10, Stays DEF Phases, Joins

LEMMA StepMergeBegins == ASSUME Good, KnownData', MergeBegins PROVE RootsHold'
  <1>1. pc = "merge" /\ UNCHANGED <<corpus, labels, slice, fingerprint, trained, nth>>
        /\ root' = [root EXCEPT ![T] = NoRoot] /\ dropped' = {} /\ used' = [used EXCEPT ![T] = labels[T]]
    BY DEF MergeBegins, Fails, Goto
  <1>2. pc' = "failed" \/ (pc' = "join" /\ file' = 1 /\ ValidLabels(labels[T])) BY DEF MergeBegins, Fails, Goto
  <1>3. WholeSlice(corpus, T, slice[T]) /\ Counted(slice[T], EpisodesOf(corpus, T))
    <2>1. AtWork(corpus, T, labels[T], slice[T], root[T], pc, file, dropped, remap) BY <1>1, WorkingNow DEF Phases
    <2>2. QED BY <1>1, <2>1, WorkMerge DEF InMerge
  <1>4. root'[T] = NoRoot /\ \A t \in Range(Tasks) : t # T => root'[t] = root[t] BY <1>1, RootReplaced
  <1>5. root'[T].filter = NoFilter BY <1>4 DEF NoRoot
  <1>6. JoinedSoFar(corpus, T, labels[T], slice[T], root'[T], 1, {})
    <2>1. Files \in Nat BY RootsAssumption
    <2>2. 1 \in 1 .. Files + 1 /\ \A f \in 1 .. Files : ~(f < 1) BY <2>1
    <2>3. QED BY <2>2 DEF JoinedSoFar
  <1>7. pc' = "join" => AtWork(corpus, T, labels[T], slice'[T], root'[T], pc', file', dropped', remap')
    BY <1>1, <1>2, <1>3, <1>5, <1>6, WorkJoin DEF InJoin
  <1>8. /\ used' = [t \in Range(Tasks) |-> IF t = T THEN labels[T] ELSE used[t]] /\ T \in Range(Tasks) /\ T' = T
    <2>1. used = [t \in Range(Tasks) |-> used[t]] BY DEF Good, RootsHold, FromLabels
    <2>2. T \in Range(Tasks) BY <1>1, GoodTask
    <2>3. QED BY <1>1, <2>1, <2>2 DEF T
  <1>9. used'[T] = labels[T] /\ \A t \in Range(Tasks) : t # T => used'[t] = used[t] BY <1>8
  <1>10. FromLabels' BY <1>1, <1>8, <1>9 DEF FromLabels
  <1>11. QED BY <1>1, <1>2, <1>4, <1>5, <1>7, <1>9, <1>10, StaysJoining DEF Phases

LEMMA StepMergeFile == ASSUME Good, KnownData', MergeFile PROVE RootsHold'
  <1> DEFINE rows == Joined(slice[T].data[file])  bad == Unlabelled(rows)  out == Without(rows, bad)
             new == [root[T] EXCEPT !.data[file] = out]
  <1>1. pc = "join" /\ pc' = "join" /\ file <= Files /\ file' = file + 1
        /\ UNCHANGED <<corpus, labels, used, slice, fingerprint, trained, nth>>
        /\ root' = [root EXCEPT ![T] = new] /\ dropped' = dropped \union bad
    BY DEF MergeFile, NextFile, Unlabelled, Without
  <1>2. /\ root[T].filter = NoFilter /\ WholeSlice(corpus, T, slice[T]) /\ Counted(slice[T], EpisodesOf(corpus, T))
        /\ ValidLabels(labels[T]) /\ JoinedSoFar(corpus, T, labels[T], slice[T], root[T], file, dropped)
    <2>1. AtWork(corpus, T, labels[T], slice[T], root[T], pc, file, dropped, remap) BY <1>1, WorkingNow DEF Phases
    <2>2. QED BY <1>1, <2>1, WorkJoin DEF InJoin
  <1>3. corpus \in Corpora /\ WellFormed(slice[T]) /\ IsTree(root[T]) BY <1>1, GoodTask
  <1>4. new = [root[T] EXCEPT !.data[file] = out] OBVIOUS
  <1>k. rows = Joined(slice[T].data[file]) /\ bad = Unlabelled(rows) /\ out = Without(rows, bad) OBVIOUS
  <1> HIDE DEF new, out, bad, rows
  <1>5. root'[T] = new /\ \A t \in Range(Tasks) : t # T => root'[t] = root[t] BY <1>1, RootReplaced
  <1>6. new.filter = root[T].filter /\ \A f \in 1 .. Files : new.data[f] = IF f = file THEN out ELSE root[T].data[f]
    BY <1>3, <1>4 DEF IsTree
  <1>7. file \in 1 .. Files BY <1>1, <1>2, RootsAssumption DEF JoinedSoFar
  <1>8. new.data[file] = Without(rows, bad) /\ \A f \in 1 .. Files : f # file => new.data[f] = root[T].data[f]
    BY <1>6, <1>7, <1>k
  <1>9. JoinedSoFar(corpus, T, labels[T], slice[T], new, file + 1, dropped \union bad)
    BY <1>1, <1>2, <1>3, <1>8, <1>k, MergeFileWorks
  <1>10. AtWork(corpus, T, labels[T], slice'[T], root'[T], pc', file', dropped', remap')
    BY <1>1, <1>2, <1>5, <1>6, <1>9, WorkJoin DEF InJoin
  <1>11. QED BY <1>1, <1>2, <1>5, <1>6, <1>10, Stays DEF Phases, Joins

LEMMA StepMergeMeta == ASSUME Good, KnownData', MergeMeta PROVE RootsHold'
  <1> DEFINE eps == slice[T].eps  info == slice[T].info  new == [root[T] EXCEPT !.eps = eps, !.info = info]
  <1>1. pc = "join" /\ pc' = "register" /\ file > Files
        /\ UNCHANGED <<corpus, labels, used, slice, fingerprint, trained, nth, dropped>>
        /\ root' = [root EXCEPT ![T] = new]
    BY DEF MergeMeta, Goto, local
  <1>2. /\ root[T].filter = NoFilter /\ WholeSlice(corpus, T, slice[T]) /\ Counted(slice[T], EpisodesOf(corpus, T))
        /\ JoinedSoFar(corpus, T, labels[T], slice[T], root[T], file, dropped)
    <2>1. AtWork(corpus, T, labels[T], slice[T], root[T], pc, file, dropped, remap) BY <1>1, WorkingNow DEF Phases
    <2>2. QED BY <1>1, <2>1, WorkJoin DEF InJoin
  <1>3. IsTree(root[T]) BY <1>1, GoodTask
  <1>4. new = [root[T] EXCEPT !.eps = eps, !.info = info] /\ eps = slice[T].eps /\ info = slice[T].info OBVIOUS
  <1> HIDE DEF new, eps, info
  <1>5. root'[T] = new /\ \A t \in Range(Tasks) : t # T => root'[t] = root[t] BY <1>1, RootReplaced
  <1>6. new.data = root[T].data /\ new.eps = slice[T].eps /\ new.info = slice[T].info /\ new.filter = root[T].filter
    BY <1>3, <1>4 DEF IsTree
  <1>7. file = Files + 1 BY <1>1, <1>2, RootsAssumption DEF JoinedSoFar
  <1>8. JoinedSoFar(corpus, T, labels[T], slice[T], new, Files + 1, dropped)
    BY <1>2, <1>6, <1>7 DEF JoinedSoFar, JoinedFile
  <1>9. AtWork(corpus, T, labels[T], slice'[T], root'[T], pc', file', dropped', remap')
    BY <1>1, <1>2, <1>5, <1>6, <1>8, WorkRegister DEF InRegister
  <1>10. QED BY <1>1, <1>2, <1>5, <1>6, <1>9, Stays DEF Phases, Joins

LEMMA SameCompacted ==
    ASSUME NEW c, NEW r, NEW new, new.data = r.data, new.eps = r.eps, NEW K,
           Built(c, AllRows(r), K), Table(c, r.eps, K, Obs(AllRows(r))), Stamped(AllRows(r)),
           IsInfo(new.info), new.info.progress
    PROVE  Compacted(c, new, K) /\ AllRows(new) = AllRows(r)
  <1>1. AllRows(new) = AllRows(r) BY DEF AllRows
  <1>2. QED BY <1>1 DEF Compacted

LEMMA StepRegister == ASSUME Good, KnownData', Register PROVE RootsHold'
  <1> DEFINE c == corpus  es == EpisodesOf(c, T)  l == labels[T]  K == Full(c, l, T)  s == slice[T]  r == root[T]
             eps == r.info.episodes - Cardinality(dropped)
             frames == IF dropped = {} THEN r.info.frames ELSE Len(AllRows(r))
             new == [r EXCEPT !.info.progress = TRUE, !.info.episodes = eps, !.info.frames = frames]
  <1>1. pc = "register" /\ UNCHANGED <<corpus, labels, used, slice, fingerprint, trained, nth, dropped>>
    BY DEF Register, Goto
  <1>2. root' = [root EXCEPT ![T] = new]
    <2>1. root' = [root EXCEPT ![T].info.progress = TRUE, ![T].info.episodes = eps, ![T].info.frames = frames]
      BY DEF Register
    <2> HIDE DEF eps, frames
    <2>2. QED BY <2>1
  <1>3. IF dropped = {} THEN pc' = "filter" ELSE
            /\ pc' = "compact" /\ file' = 1
            /\ remap' = [e \in EpisodesIn(AllRows(r)) |-> Position(EpisodesIn(AllRows(r)), e)]
    BY DEF Register, Goto
  <1>4. /\ r.filter = NoFilter /\ WholeSlice(c, T, s) /\ Counted(s, es)
        /\ JoinedSoFar(c, T, l, s, r, Files + 1, dropped) /\ r.eps = s.eps /\ r.info = s.info
    <2>1. AtWork(corpus, T, labels[T], slice[T], root[T], pc, file, dropped, remap) BY <1>1, WorkingNow DEF Phases
    <2>2. QED BY <1>1, <2>1, WorkRegister DEF InRegister
  <1>5. c \in Corpora /\ WellFormed(s) /\ WellFormed(r) /\ IsTree(r) BY <1>1, GoodTask
  <1>6. IsInfo(r.info) /\ r.info.episodes = Cardinality(es) /\ r.info.frames = Len(AllRows(s)) BY <1>4 DEF Counted
  <1>7. new = WithProgress(r, eps, frames, TRUE) BY DEF WithProgress
  <1>e. eps = r.info.episodes - Cardinality(dropped)
        /\ frames = IF dropped = {} THEN r.info.frames ELSE Len(AllRows(r))
    OBVIOUS
  <1> HIDE DEF new, eps, frames
  <1>8. /\ new.data = r.data /\ new.eps = r.eps /\ new.filter = r.filter /\ IsInfo(new.info)
        /\ new.info.episodes = eps /\ new.info.frames = frames /\ new.info.progress = TRUE
    <2> DEFINE x == TRUE
    <2>1. IsTree(r) /\ IsInfo(r.info) BY <1>5, <1>6
    <2>2. new = WithProgress(r, eps, frames, x) BY <1>7
    <2>3. x = TRUE OBVIOUS
    <2> HIDE DEF r, x
    <2>4. /\ new.data = r.data /\ new.eps = r.eps /\ new.filter = r.filter /\ IsInfo(new.info)
          /\ new.info.episodes = eps /\ new.info.frames = frames /\ new.info.progress = x
      BY <2>1, <2>2, NewRegistered
    <2>5. QED BY <2>3, <2>4
  <1>9. root'[T] = new /\ \A t \in Range(Tasks) : t # T => root'[t] = root[t] BY <1>1, <1>2, RootReplaced
  <1>10. CASE dropped = {}
    <2>1. JoinedSoFar(c, T, l, s, r, Files + 1, {}) BY <1>4, <1>10
    <2>2. /\ K = es /\ Len(AllRows(r)) = Len(AllRows(s)) /\ Stamped(AllRows(r))
          /\ Built(c, AllRows(r), K) /\ Table(c, r.eps, K, Obs(AllRows(r)))
      <3> HIDE DEF c, l, s, r
      <3>1. QED BY <1>4, <1>5, <2>1, RegisterAll
    <2>3. Compacted(c, new, K) /\ AllRows(new) = AllRows(r)
      <3> HIDE DEF K, r
      <3>1. QED BY <1>8, <2>2, SameCompacted
    <2>4. eps = Cardinality(K)
      <3>1. Cardinality(es) \in Nat BY <1>5, CorpusFacts
      <3>2. Cardinality(dropped) = 0 BY <1>10, FS_EmptySet
      <3> HIDE DEF es, K
      <3>3. QED BY <1>6, <1>e, <2>2, <3>1, <3>2
    <2>5. frames = Len(AllRows(new)) BY <1>6, <1>10, <1>e, <2>2, <2>3
    <2>6. Counted(new, K) BY <1>8, <2>4, <2>5 DEF Counted
    <2>7. InFilter(corpus, T, labels[T], slice'[T], root'[T], file', dropped', remap')
      BY <1>1, <1>4, <1>8, <1>9, <2>2, <2>3, <2>6 DEF InFilter
    <2>8. pc' = "filter" BY <1>3, <1>10
    <2>9. AtWork(corpus, T, labels[T], slice'[T], root'[T], pc', file', dropped', remap') BY <2>7, <2>8, WorkFilter
    <2>10. QED BY <1>1, <1>4, <1>8, <1>9, <2>8, <2>9, Stays DEF Phases, Joins
  <1>11. CASE dropped # {}
    <2>1. pc' = "compact" /\ file' = 1 BY <1>3, <1>11
    <2> DEFINE kept == EpisodesIn(AllRows(r))
    <2>2. remap' = [e \in kept |-> Position(kept, e)] BY <1>3, <1>11
    <2>k. kept = EpisodesIn(AllRows(r)) OBVIOUS
    <2>3. /\ Tidy(c, r.data, K) /\ Renumbers(remap', es, K)
          /\ \A f \in 1 .. Files : Stamped(r.data[f]) /\ Ranks(r.data[f], es)
      <3> HIDE DEF kept
      <3>1. /\ Tidy(c, r.data, Full(c, l, T)) /\ Renumbers(remap', EpisodesOf(c, T), Full(c, l, T))
            /\ \A f \in 1 .. Files : Stamped(r.data[f]) /\ Ranks(r.data[f], EpisodesOf(c, T))
        <4> DEFINE re == remap'
        <4>1. re = [e \in kept |-> Position(kept, e)] BY <2>2
        <4> HIDE DEF re, c, l, s, r
        <4>2. /\ Tidy(c, r.data, Full(c, l, T)) /\ Renumbers(re, EpisodesOf(c, T), Full(c, l, T))
              /\ \A f \in 1 .. Files : Stamped(r.data[f]) /\ Ranks(r.data[f], EpisodesOf(c, T))
          BY <1>4, <1>5, <2>k, <4>1, RegisterSome
        <4>3. QED BY <4>2 DEF re
      <3>2. QED BY <3>1
    <2>4. Listed(r.eps, es)
      <3>1. Table(c, s.eps, es, Obs(AllRows(s))) BY <1>4 DEF WholeSlice
      <3>2. QED BY <1>4, <3>1 DEF Table
    <2>5. CompactSoFar(c, new, 1, remap', es, K)
      <3>1. Files \in Nat BY RootsAssumption
      <3>2. 1 \in 1 .. Files + 1 /\ \A f \in 1 .. Files : ~(f < 1) BY <3>1
      <3>3. new.data = r.data /\ new.eps = r.eps BY <1>8
      <3>t. Tidy(c, new.data, K) /\ Listed(new.eps, es) BY <2>3, <2>4, <3>3
      <3>4. \A f \in 1 .. Files : Stamped(new.data[f]) /\ Ranks(new.data[f], es) BY <2>3, <3>3
      <3> HIDE DEF K, es, r, c, s, l
      <3>5. QED BY <2>3, <3>2, <3>t, <3>4 DEF CompactSoFar
    <2>6. InCompact(corpus, T, labels[T], slice'[T], root'[T], file', dropped', remap')
      BY <1>1, <1>4, <1>8, <1>9, <1>11, <2>1, <2>5 DEF InCompact
    <2>7. AtWork(corpus, T, labels[T], slice'[T], root'[T], pc', file', dropped', remap') BY <2>1, <2>6, WorkCompact
    <2>8. QED BY <1>1, <1>4, <1>8, <1>9, <2>1, <2>7, Stays DEF Phases, Joins
  <1>12. QED BY <1>10, <1>11

LEMMA StepCompactFile == ASSUME Good, KnownData', CompactFile PROVE RootsHold'
  <1> DEFINE c == corpus  es == EpisodesOf(c, T)  K == Full(c, labels[T], T)  r == root[T]
             out == Renumbered(r.data[file], remap, RowsBefore(r, file))
             new == [r EXCEPT !.data[file] = out]
  <1>1. pc = "compact" /\ pc' = "compact" /\ file <= Files /\ file' = file + 1
        /\ UNCHANGED <<corpus, labels, used, slice, fingerprint, trained, nth, dropped, remap>>
        /\ root' = [root EXCEPT ![T] = new]
    BY DEF CompactFile, NextFile, local, Renumbered
  <1>2. /\ r.filter = NoFilter /\ dropped # {} /\ IsInfo(r.info) /\ r.info.progress
        /\ CompactSoFar(c, r, file, remap, es, K)
    <2>1. AtWork(corpus, T, labels[T], slice[T], root[T], pc, file, dropped, remap) BY <1>1, WorkingNow DEF Phases
    <2>2. QED BY <1>1, <2>1, WorkCompact DEF InCompact
  <1>3. c \in Corpora /\ WellFormed(r) /\ IsTree(r) BY <1>1, GoodTask
  <1>4. new = [r EXCEPT !.data[file] = out] /\ out = Renumbered(r.data[file], remap, RowsBefore(r, file)) OBVIOUS
  <1> HIDE DEF new, out
  <1>5. root'[T] = new /\ WellFormed(new) /\ \A t \in Range(Tasks) : t # T => root'[t] = root[t] BY <1>1, RootReplaced
  <1>6. /\ new.eps = r.eps /\ new.info = r.info /\ new.filter = r.filter
        /\ \A f \in 1 .. Files : new.data[f] = IF f = file THEN out ELSE r.data[f]
    <2> HIDE DEF r
    <2>1. QED BY <1>3, <1>4 DEF IsTree
  <1>7. file \in 1 .. Files BY <1>1, <1>2, RootsAssumption DEF CompactSoFar
  <1>8. new.data[file] = Renumbered(r.data[file], remap, RowsBefore(r, file))
        /\ \A f \in 1 .. Files : f # file => new.data[f] = r.data[f]
    BY <1>4, <1>6, <1>7
  <1>9. CompactSoFar(c, new, file + 1, remap, es, K)
    <2> DEFINE l == labels[T]
    <2>1. CompactSoFar(c, r, file, remap, EpisodesOf(c, T), Full(c, l, T)) BY <1>2
    <2> HIDE DEF c, l, r
    <2>2. CompactSoFar(c, new, file + 1, remap, EpisodesOf(c, T), Full(c, l, T))
      BY <1>1, <1>3, <1>5, <1>6, <1>8, <2>1, CompactFileWorks
    <2>3. QED BY <2>2 DEF l
  <1>10. InCompact(corpus, T, labels[T], slice'[T], root'[T], file', dropped', remap')
    BY <1>1, <1>2, <1>5, <1>6, <1>9 DEF InCompact
  <1>11. AtWork(corpus, T, labels[T], slice'[T], root'[T], pc', file', dropped', remap') BY <1>1, <1>10, WorkCompact
  <1>12. QED BY <1>1, <1>2, <1>5, <1>6, <1>11, Stays DEF Phases, Joins

LEMMA StepCompactMeta == ASSUME Good, KnownData', CompactMeta PROVE RootsHold'
  <1> DEFINE c == corpus  es == EpisodesOf(c, T)  l == labels[T]  K == Full(c, l, T)  r == root[T]
             eps == CompactedEpisodes(r.eps, AllRows(r))  new == [r EXCEPT !.eps = eps]
  <1>1. pc = "compact" /\ pc' = "compact info" /\ file > Files
        /\ UNCHANGED <<corpus, labels, used, slice, fingerprint, trained, nth, dropped, remap>>
        /\ root' = [root EXCEPT ![T] = new]
    BY DEF CompactMeta, Goto, local
  <1>2. /\ r.filter = NoFilter /\ dropped # {} /\ IsInfo(r.info) /\ r.info.progress
        /\ CompactSoFar(c, r, file, remap, es, K)
    <2>1. AtWork(corpus, T, labels[T], slice[T], root[T], pc, file, dropped, remap) BY <1>1, WorkingNow DEF Phases
    <2>2. QED BY <1>1, <2>1, WorkCompact DEF InCompact
  <1>3. c \in Corpora /\ WellFormed(r) /\ IsTree(r) BY <1>1, GoodTask
  <1>4. new = [r EXCEPT !.eps = eps] /\ eps = CompactedEpisodes(r.eps, AllRows(r)) OBVIOUS
  <1> HIDE DEF new, eps
  <1>5. root'[T] = new /\ WellFormed(new) /\ \A t \in Range(Tasks) : t # T => root'[t] = root[t] BY <1>1, RootReplaced
  <1>6. new.data = r.data /\ new.eps = eps /\ new.info = r.info /\ new.filter = r.filter
    <2> HIDE DEF r
    <2>1. QED BY <1>3, <1>4 DEF IsTree
  <1>7. /\ Built(c, AllRows(new), K) /\ Stamped(AllRows(new)) /\ Table(c, new.eps, K, Obs(AllRows(new)))
        /\ DOMAIN remap = {Position(es, g) : g \in K}
    <2>1. new.eps = CompactedEpisodes(r.eps, AllRows(r)) BY <1>4, <1>6
    <2> HIDE DEF c, l, r
    <2>2. QED BY <1>1, <1>2, <1>3, <1>5, <1>6, <2>1, CompactMetaWorks
  <1>8. Compacted(c, new, K) BY <1>2, <1>6, <1>7 DEF Compacted
  <1>9. InCompactInfo(corpus, T, labels[T], slice'[T], root'[T], file', dropped', remap')
    BY <1>1, <1>2, <1>5, <1>6, <1>7, <1>8 DEF InCompactInfo
  <1>10. AtWork(corpus, T, labels[T], slice'[T], root'[T], pc', file', dropped', remap') BY <1>1, <1>9, WorkCompactInfo
  <1>11. QED BY <1>1, <1>2, <1>5, <1>6, <1>10, Stays DEF Phases, Joins

LEMMA StepCompactInfo == ASSUME Good, KnownData', CompactInfo PROVE RootsHold'
  <1> DEFINE c == corpus  es == EpisodesOf(c, T)  l == labels[T]  K == Full(c, l, T)  r == root[T]
             eps == Cardinality(DOMAIN remap)  frames == Len(AllRows(r))
             new == [r EXCEPT !.info.episodes = eps, !.info.frames = frames]
  <1>1. pc = "compact info" /\ pc' = "filter"
        /\ UNCHANGED <<corpus, labels, used, slice, fingerprint, trained, nth, dropped, remap>>
    BY DEF CompactInfo, Goto, local
  <1>r. root' = [root EXCEPT ![T] = new]
    <2>1. root' = [root EXCEPT ![T].info.episodes = eps, ![T].info.frames = frames] BY DEF CompactInfo
    <2> HIDE DEF eps, frames
    <2>2. QED BY <2>1
  <1>2. /\ r.filter = NoFilter /\ dropped # {} /\ Compacted(c, r, K)
        /\ DOMAIN remap = {Position(es, g) : g \in K}
    <2>1. AtWork(corpus, T, labels[T], slice[T], root[T], pc, file, dropped, remap) BY <1>1, WorkingNow DEF Phases
    <2>2. InCompactInfo(corpus, T, labels[T], slice[T], root[T], file, dropped, remap) BY <1>1, <2>1, WorkCompactInfo
    <2>3. QED BY <2>2 DEF InCompactInfo
  <1>3. c \in Corpora /\ IsTree(r) BY <1>1, GoodTask
  <1>4. new = WithCounts(r, eps, frames) BY DEF WithCounts
  <1>e. eps = Cardinality(K)
    <2> DEFINE I == DOMAIN remap
    <2>1. I = {Position(EpisodesOf(c, T), g) : g \in Full(c, l, T)} BY <1>2
    <2> HIDE DEF I, c, l
    <2>2. Cardinality(I) = Cardinality(Full(c, l, T)) BY <1>3, <2>1, RemapSize
    <2>3. QED BY <2>2 DEF I
  <1>f. frames = Len(AllRows(r)) OBVIOUS
  <1> HIDE DEF new, eps, frames
  <1>5. root'[T] = new /\ \A t \in Range(Tasks) : t # T => root'[t] = root[t] BY <1>1, <1>r, RootReplaced
  <1>6. /\ new.data = r.data /\ new.eps = r.eps /\ new.filter = r.filter /\ IsInfo(new.info)
        /\ new.info.episodes = eps /\ new.info.frames = frames /\ new.info.progress = r.info.progress
    <2>1. IsTree(r) /\ IsInfo(r.info) BY <1>2, <1>3 DEF Compacted
    <2> HIDE DEF r
    <2>2. QED BY <2>1, <1>4, NewCounts
  <1>7. Compacted(c, new, K) /\ AllRows(new) = AllRows(r)
    <2> HIDE DEF K, r
    <2>1. QED BY <1>2, <1>6, SameCompacted DEF Compacted
  <1>8. Counted(new, K) BY <1>6, <1>7, <1>e, <1>f DEF Counted
  <1>9. InFilter(corpus, T, labels[T], slice'[T], root'[T], file', dropped', remap')
    BY <1>1, <1>2, <1>5, <1>6, <1>7, <1>8 DEF InFilter
  <1>10. AtWork(corpus, T, labels[T], slice'[T], root'[T], pc', file', dropped', remap') BY <1>1, <1>9, WorkFilter
  <1>11. QED BY <1>1, <1>2, <1>5, <1>6, <1>10, Stays DEF Phases, Joins

\* On to the next task, or to the streams.
LEMMA NextTask ==
    ASSUME Good, pc \in Phases \union {"data"}, EachTask("data", "streams"),
           UNCHANGED <<corpus, labels, used, fingerprint, trained>>,
           \A t \in Range(Tasks) : t # T => root'[t] = root[t],
           root'[T].filter # NoFilter, Finished(corpus, T, used[T], root'[T])
    PROVE  RootsHold'
  <1>1. nth \in DOMAIN Tasks /\ pc \notin {"off", "failed"} BY DEF Good, RootsHold, Progress, Phases
  <1>2. BuiltRoots'
    <2>1. ASSUME NEW t \in Range(Tasks), root'[t].filter # NoFilter PROVE Finished(corpus, t, used'[t], root'[t])
      <3>1. CASE t = T BY <3>1
      <3>2. CASE t # T
        <4>1. root'[t] = root[t] BY <3>2
        <4>2. QED BY <2>1, <4>1 DEF Good, RootsHold, BuiltRoots
      <3>3. QED BY <3>1, <3>2
    <2>2. QED BY <2>1 DEF BuiltRoots
  <1>3. \A n \in 1 .. nth : root'[Tasks[n]].filter # NoFilter
    <2>1. \A n \in 1 .. nth - 1 : root[Tasks[n]].filter # NoFilter BY DEF Good, RootsHold, Progress
    <2>2. TAKE n \in 1 .. nth
    <2>3. CASE Tasks[n] = T BY <2>3
    <2>4. CASE Tasks[n] # T
      <3>1. n \in DOMAIN Tasks /\ n # nth BY <1>1, <2>4, TasksFacts DEF Good, T
      <3>2. n \in 1 .. nth - 1 BY <1>1, <3>1, TasksFacts DEF Good
      <3>3. root'[Tasks[n]] = root[Tasks[n]] BY <2>4, <3>1, TasksFacts DEF Good
      <3>4. QED BY <2>1, <3>2, <3>3
    <2>5. QED BY <2>3, <2>4
  <1>4. Progress'
    <2>1. CASE nth < Len(Tasks)
      <3>1. nth' = nth + 1 /\ pc' = "data" BY <2>1 DEF EachTask
      <3>2. nth' \in DOMAIN Tasks /\ nth' - 1 = nth BY <1>1, <2>1, <3>1, TasksFacts DEF Good
      <3>3. QED BY <1>3, <3>1, <3>2 DEF Progress, After
    <2>2. CASE ~(nth < Len(Tasks))
      <3>1. nth' = 1 /\ pc' = "streams" BY <2>2 DEF EachTask
      <3>2. nth = Len(Tasks) /\ nth' \in DOMAIN Tasks BY <1>1, <2>2, <3>1, TasksFacts DEF Good
      <3>3. \A t \in Range(Tasks) : root'[t].filter # NoFilter BY <1>3, <3>2, TasksFacts DEF Good
      <3>4. QED BY <3>1, <3>2, <3>3 DEF Progress, Phases
    <2>3. QED BY <2>1, <2>2
  <1>5. pc' \in {"data", "streams"} BY DEF EachTask
  <1>6. Working' BY <1>5 DEF Working, Phases
  <1>7. TrainedOn'
    <2>1. pc' \notin {"fingerprint", "arms", "train"} BY <1>5
    <2>2. QED BY <2>1 DEF Good, RootsHold, TrainedOn
  <1>8. FromLabels' BY <1>5 DEF Good, RootsHold, FromLabels, Joins
  <1>9. QED BY <1>2, <1>4, <1>6, <1>7, <1>8 DEF RootsHold

LEMMA StepAlreadyMerged == ASSUME Good, KnownData', AlreadyMerged PROVE RootsHold'
  <1>1. pc = "data" /\ root[T].filter # NoFilter /\ EachTask("data", "streams")
        /\ UNCHANGED <<corpus, labels, used, root, fingerprint, trained>>
    BY DEF AlreadyMerged
  <1>2. T \in Range(Tasks) BY <1>1, GoodTask
  <1>3. Finished(corpus, T, used[T], root[T]) BY <1>1, <1>2 DEF Good, RootsHold, BuiltRoots
  <1>4. QED BY <1>1, <1>3, NextTask

LEMMA FilterWritten ==
    \A new, r, a : IsTree(r) /\ new = [r EXCEPT !.filter = a] =>
        new.data = r.data /\ new.eps = r.eps /\ new.info = r.info /\ new.filter = a
  BY DEF IsTree

LEMMA KeptDemos ==
    ASSUME NEW c, NEW r, NEW K, Complete(c, r, K)
    PROVE  {x[1] : x \in {<<y.g, y.e>> : y \in Range(AllRows(r))}} = K
  <1>1. Demos(Obs(AllRows(r))) = K BY LaidDemos DEF Complete, Built, Played
  <1>2. \A x \in Range(AllRows(r)) : x.g = x.obs[1] BY RowEntry
  <1>3. K = {x.obs[1] : x \in Range(AllRows(r))}
    <2>1. /\ DOMAIN Obs(AllRows(r)) = DOMAIN AllRows(r)
          /\ \A n \in DOMAIN AllRows(r) : Obs(AllRows(r))[n] = AllRows(r)[n].obs
      BY DEF Obs
    <2>2. QED BY <1>1, <2>1 DEF Demos, Range
  <1> DEFINE R == Range(AllRows(r))  pairs == {<<y.g, y.e>> : y \in R}
  <1>4. \A y \in R : <<y.g, y.e>>[1] = y.obs[1] /\ <<y.g, y.e>> \in pairs BY <1>2
  <1>5. \A x \in pairs : \E y \in R : x = <<y.g, y.e>> OBVIOUS
  <1> HIDE DEF R, pairs
  <1>6. \A x \in pairs : x[1] \in {y.obs[1] : y \in R} BY <1>4, <1>5
  <1>7. \A y \in R : \E x \in pairs : x[1] = y.obs[1] BY <1>4
  <1>8. {x[1] : x \in pairs} = {y.obs[1] : y \in R} BY <1>6, <1>7
  <1>9. QED BY <1>3, <1>8 DEF R, pairs

LEMMA StepWriteFilter == ASSUME Good, KnownData', WriteFilter PROVE RootsHold'
  <1> DEFINE c == corpus  l == labels[T]  K == Full(c, l, T)  r == root[T]  new == [r EXCEPT !.filter = Filter]
  <1>1. pc = "filter" /\ EachTask("data", "streams") /\ UNCHANGED <<corpus, labels, used, fingerprint, trained>>
        /\ root' = [root EXCEPT ![T] = new]
    BY DEF WriteFilter
  <1>2. (dropped = {} => K = EpisodesOf(c, T)) /\ Compacted(c, r, K) /\ Counted(r, K)
    <2>1. AtWork(corpus, T, labels[T], slice[T], root[T], pc, file, dropped, remap) BY <1>1, WorkingNow DEF Phases
    <2>2. InFilter(corpus, T, labels[T], slice[T], root[T], file, dropped, remap) BY <1>1, <2>1, WorkFilter
    <2>3. QED BY <2>2 DEF InFilter
  <1>3. T \in Range(Tasks) /\ c \in Corpora /\ IsTree(r) BY <1>1, GoodTask
  <1>4. new = [r EXCEPT !.filter = Filter] OBVIOUS
  <1> HIDE DEF new
  <1>5. root'[T] = new /\ WellFormed(new) /\ \A t \in Range(Tasks) : t # T => root'[t] = root[t] BY <1>1, RootReplaced
  <1>6. new.data = r.data /\ new.eps = r.eps /\ new.info = r.info /\ new.filter = Filter
    <2> HIDE DEF r
    <2>1. QED BY <1>3, <1>4, FilterWritten
  <1>7. AllRows(new) = AllRows(r) BY <1>6 DEF AllRows
  <1>8. /\ Filter.out = r.info.episodes /\ Filter.dropped = dropped
        /\ Filter.kept = IF dropped = {} THEN {} ELSE {<<y.g, y.e>> : y \in Range(AllRows(r))}
    BY DEF Filter
  <1>9. Cardinality(K) \in Nat /\ K \subseteq Nat /\ IsFiniteSet(K) /\ Played(c, K)
    <2> HIDE DEF c, l
    <2>1. QED BY <1>3, FullFacts
  <1>10. Filter.out = Cardinality(K) BY <1>2, <1>8 DEF Counted
  <1>11. Filter # NoFilter
    <2>1. NoFilter.out = -1 BY DEF NoFilter
    <2> HIDE DEF K
    <2>2. QED BY <1>9, <1>10, <2>1
  <1>12. Complete(c, new, K)
    <2> HIDE DEF c, r, K
    <2>1. /\ Built(c, AllRows(new), K) /\ Table(c, new.eps, K, Obs(AllRows(new)))
          /\ Stamped(AllRows(new)) /\ new.info.progress
      BY <1>2, <1>6, <1>7 DEF Compacted
    <2>2. new.info.episodes = Cardinality(K) /\ new.info.frames = Len(AllRows(new)) /\ new.filter.out = Cardinality(K)
      BY <1>2, <1>6, <1>7, <1>10 DEF Counted
    <2>3. QED BY <1>5, <1>9, <2>1, <2>2 DEF Complete
  <1>13. Keeps(c, T, new.filter) = K
    <2>1. CASE dropped = {} BY <1>2, <1>6, <1>8, <2>1 DEF Keeps
    <2>2. CASE dropped # {}
      <3>1. {x[1] : x \in {<<y.g, y.e>> : y \in Range(AllRows(new))}} = K
        <4> HIDE DEF c, K
        <4>1. QED BY <1>12, KeptDemos
      <3>2. Filter.kept = {<<y.g, y.e>> : y \in Range(AllRows(new))} BY <1>7, <1>8, <2>2
      <3> HIDE DEF K
      <3>3. {x[1] : x \in Filter.kept} = K BY <3>1, <3>2
      <3>4. QED BY <1>6, <1>8, <2>2, <3>3 DEF Keeps
    <2>3. QED BY <2>1, <2>2
  <1>14. Finished(corpus, T, used[T], root'[T])
    <2>1. Finished(corpus, T, labels[T], root'[T]) BY <1>2, <1>5, <1>6, <1>12, <1>13 DEF Finished, Compacted
    <2>2. used[T] = labels[T] BY <1>1 DEF Good, RootsHold, FromLabels, Joins
    <2>3. QED BY <2>1, <2>2
  <1>15. root'[T].filter # NoFilter BY <1>5, <1>6, <1>11
  <1>16. QED BY <1>1, <1>5, <1>14, <1>15, NextTask DEF Phases

LEMMA StepDropStreams == ASSUME Good, KnownData', DropStreams PROVE RootsHold'
  <1>1. pc = "streams" /\ UNCHANGED <<corpus, labels, used, fingerprint, trained>> BY DEF DropStreams
  <1>2. /\ nth \in DOMAIN Tasks /\ T \in Range(Tasks) /\ IsTree(root[T])
        /\ \A t \in Range(Tasks) : root[t].filter # NoFilter
    BY <1>1, GoodTask DEF Good, RootsHold, Progress, After
  <1>3. \A t \in Range(Tasks) : Finished(corpus, t, used[t], root[t]) BY <1>2 DEF Good, RootsHold, BuiltRoots
  <1>4. CASE pc' = "failed" /\ UNCHANGED root
    BY <1>1, <1>4 DEF Good, RootsHold, BuiltRoots, FromLabels, Progress, Working, TrainedOn, Phases, After, Joins
  <1>5. CASE ~(pc' = "failed" /\ UNCHANGED root)
    <2> DEFINE keep == root[T].info.streams \ Depth  new == [root[T] EXCEPT !.info.streams = keep]
    <2>1. EachTask("streams", "check streams") /\ root' = [root EXCEPT ![T] = new]
      BY <1>5 DEF DropStreams, Fails
    <2>2. new = WithStreams(root[T], keep) BY DEF WithStreams
    <2> HIDE DEF new, keep
    <2>3. root'[T] = new /\ WellFormed(new) /\ \A t \in Range(Tasks) : t # T => root'[t] = root[t]
      BY <1>1, <2>1, RootReplaced
    <2>4. /\ new.data = root[T].data /\ new.eps = root[T].eps /\ new.filter = root[T].filter /\ IsInfo(new.info)
          /\ new.info.episodes = root[T].info.episodes /\ new.info.frames = root[T].info.frames
          /\ new.info.progress = root[T].info.progress
      <3>1. IsInfo(root[T].info) BY <1>2, <1>3 DEF Finished
      <3>2. QED BY <1>2, <2>2, <3>1, NewStreams
    <2>5. Finished(corpus, T, used[T], new)
      <3>1. Finished(corpus, T, used[T], root[T]) BY <1>2, <1>3
      <3>2. AllRows(new) = AllRows(root[T]) BY <2>4 DEF AllRows
      <3>3. Complete(corpus, new, Full(corpus, used[T], T)) BY <2>3, <2>4, <3>1, <3>2 DEF Finished, Complete
      <3>4. QED BY <2>4, <3>1, <3>3 DEF Finished
    <2>6. BuiltRoots' BY <1>1, <1>3, <2>3, <2>5 DEF BuiltRoots
    <2>7. pc' \in {"streams", "check streams"} /\ nth' \in DOMAIN Tasks
      <3>1. Len(Tasks) \in Nat \ {0} /\ DOMAIN Tasks = 1 .. Len(Tasks) BY TasksFacts DEF Good
      <3>2. CASE nth < Len(Tasks) BY <1>2, <2>1, <3>1, <3>2 DEF EachTask
      <3>3. CASE ~(nth < Len(Tasks))
        <4>1. nth' = 1 /\ pc' = "check streams" BY <2>1, <3>3 DEF EachTask
        <4>2. 1 \in DOMAIN Tasks BY <3>1
        <4>3. QED BY <4>1, <4>2
      <3>4. QED BY <3>2, <3>3
    <2>8. \A t \in Range(Tasks) : root'[t].filter # NoFilter BY <1>2, <2>3, <2>4
    <2>9. Progress' BY <2>7, <2>8 DEF Progress, Phases
    <2>10. Working' BY <2>7 DEF Working, Phases
    <2>11. TrainedOn'
      <3>1. pc' \notin {"fingerprint", "arms", "train"} BY <2>7
      <3>2. QED BY <1>1, <3>1 DEF Good, RootsHold, TrainedOn
    <2>12. FromLabels' BY <1>1, <2>7 DEF Good, RootsHold, FromLabels, Joins
    <2>13. QED BY <2>6, <2>9, <2>10, <2>11, <2>12 DEF RootsHold
  <1>6. QED BY <1>4, <1>5

\* The steps that only read the roots.
LEMMA Reads ==
    ASSUME Good, pc \in After, UNCHANGED <<corpus, labels, used, root, nth>>, pc' \in After \union {"failed"}, TrainedOn'
    PROVE  RootsHold'
  <1>1. BuiltRoots' BY DEF Good, RootsHold, BuiltRoots
  <1>2. Progress' BY DEF Good, RootsHold, Progress, Phases, After
  <1>3. Working' BY DEF Working, Phases, After
  <1>4. FromLabels' BY DEF Good, RootsHold, FromLabels, Joins, After
  <1>5. QED BY <1>1, <1>2, <1>3, <1>4 DEF RootsHold

LEMMA StepCheckStreams == ASSUME Good, KnownData', CheckStreams PROVE RootsHold'
  <1>1. pc = "check streams" /\ UNCHANGED <<corpus, labels, used, root, nth, fingerprint, trained>>
    BY DEF CheckStreams, disk, Goto, Fails
  <1>2. pc' = "failed" \/ (pc' = "fingerprint" /\ \A t \in Range(Tasks) : Opens(root[t]))
    BY DEF CheckStreams, Goto, Fails
  <1>3. pc' = "fingerprint" => \A t \in Range(Tasks) : AllRows(root[t]) # <<>> BY <1>2 DEF Opens
  <1>4. \A t \in Range(Tasks) : AllRows(root'[t]) = AllRows(root[t]) BY <1>1
  <1>5. TrainedOn' BY <1>1, <1>2, <1>3, <1>4 DEF Good, RootsHold, TrainedOn
  <1>6. QED BY <1>1, <1>2, <1>5, Reads DEF After

LEMMA StepFingerprint == ASSUME Good, KnownData', Fingerprint PROVE RootsHold'
  <1>1. pc = "fingerprint" /\ UNCHANGED <<corpus, labels, used, root, nth, trained>>
    BY DEF Fingerprint, disk, Goto, Fails
  <1>2. /\ pc' = "failed" \/ (pc' = "arms" /\ fingerprint' = FP)
        /\ fingerprint # NoFingerprint => fingerprint' = fingerprint
    BY DEF Fingerprint, Goto, Fails
  <1>3. FP' = FP BY <1>1 DEF FP
  <1>4. \A t \in Range(Tasks) : AllRows(root'[t]) # <<>> BY <1>1 DEF Good, RootsHold, TrainedOn
  <1>5. trained' # <<>> =>
          /\ fingerprint' # NoFingerprint
          /\ trained' = [n \in DOMAIN Tasks |-> Keeps(corpus', Tasks[n], fingerprint'[n])]
    BY <1>1, <1>2 DEF Good, RootsHold, TrainedOn
  <1>6. TrainedOn' BY <1>2, <1>3, <1>4, <1>5 DEF TrainedOn
  <1>7. QED BY <1>1, <1>2, <1>6, Reads DEF After

LEMMA StepCheckArms == ASSUME Good, KnownData', CheckArms PROVE RootsHold'
  <1>1. pc = "arms" /\ UNCHANGED <<corpus, labels, used, root, nth, fingerprint>> BY DEF CheckArms, disk, Goto, Fails
  <1>2. /\ pc' = "failed" \/ pc' = "train"
        /\ trained # <<>> \/ pc' = "failed" => trained' = trained
        /\ trained = <<>> /\ pc' = "train" => trained' = [n \in DOMAIN Tasks |-> EpisodesKept(Tasks[n])]
    BY DEF CheckArms, Goto, Fails
  <1>3. /\ \A t \in Range(Tasks) : root[t].filter # NoFilter /\ AllRows(root[t]) # <<>>
        /\ fingerprint = FP
    BY <1>1 DEF Good, RootsHold, Progress, TrainedOn, After
  <1>4. \A n \in DOMAIN Tasks : EpisodesKept(Tasks[n]) = Keeps(corpus, Tasks[n], fingerprint[n])
    <2>1. TAKE n \in DOMAIN Tasks
    <2> DEFINE t == Tasks[n]
    <2>2. t \in Range(Tasks) BY TasksFacts DEF Good
    <2>3. Finished(corpus, t, used[t], root[t]) BY <1>3, <2>2 DEF Good, RootsHold, BuiltRoots
    <2>4. EpisodesKept(t) = Full(corpus, used[t], t)
      <3> HIDE DEF t
      <3>1. Complete(corpus, root[t], Full(corpus, used[t], t)) BY <2>3 DEF Finished
      <3>2. AllRows(root[t]) # <<>> BY <1>3, <2>2
      <3>3. {x.obs[1] : x \in Range(AllRows(root[t]))} = Full(corpus, used[t], t) BY <3>1, <3>2, PassesTheRest
      <3>4. QED BY <3>3 DEF EpisodesKept
    <2>5. fingerprint[n] = root[t].filter BY <1>3 DEF FP
    <2>6. QED BY <2>3, <2>4, <2>5 DEF Finished
  <1>5. 1 \in DOMAIN Tasks BY TasksFacts DEF Good
  <1>6. fingerprint # NoFingerprint
    <2>1. DOMAIN fingerprint = DOMAIN Tasks BY <1>3 DEF FP
    <2>2. DOMAIN NoFingerprint = {} BY DEF NoFingerprint
    <2>3. QED BY <1>5, <2>1, <2>2
  <1>7. CASE trained = <<>> /\ pc' = "train"
    <2>1. trained' = [n \in DOMAIN Tasks |-> Keeps(corpus, Tasks[n], fingerprint[n])] BY <1>2, <1>4, <1>7
    <2>2. trained' # <<>>
      <3>1. DOMAIN trained' = DOMAIN Tasks BY <2>1
      <3>2. QED BY <1>5, <3>1
    <2>3. FP' = FP BY <1>1 DEF FP
    <2>4. \A t \in Range(Tasks) : AllRows(root'[t]) # <<>> BY <1>1, <1>3
    <2>5. TrainedOn' BY <1>1, <1>3, <1>6, <1>7, <2>1, <2>2, <2>3, <2>4 DEF TrainedOn
    <2>6. QED BY <1>1, <1>7, <2>5, Reads DEF After
  <1>8. CASE ~(trained = <<>> /\ pc' = "train")
    <2>1. trained' = trained /\ (pc' = "train" => trained # <<>>) BY <1>2, <1>8
    <2>2. FP' = FP BY <1>1 DEF FP
    <2>3. \A t \in Range(Tasks) : AllRows(root'[t]) # <<>> BY <1>1, <1>3
    <2>4. TrainedOn' BY <1>1, <1>2, <1>3, <2>1, <2>2, <2>3 DEF Good, RootsHold, TrainedOn
    <2>5. QED BY <1>1, <1>2, <2>4, Reads DEF After
  <1>9. QED BY <1>7, <1>8

-----------------------------------------------------------------------------
(* The script's life *)

\* The script's place given up: what is on disk stays.
LEMMA StepLeaves ==
    ASSUME Good, NEW step \in {"off", "data"}, Leaves(step), UNCHANGED <<corpus, used, root, fingerprint, trained>>
    PROVE  RootsHold'
  <1>1. pc' \in {"off", "data"} /\ nth' = 1 BY DEF Leaves
  <1>2. BuiltRoots' BY DEF Good, RootsHold, BuiltRoots
  <1>3. Progress'
    <2>1. 1 \in DOMAIN Tasks BY TasksFacts DEF Good
    <2>2. \A n \in 1 .. nth' - 1 : FALSE BY <1>1
    <2>3. QED BY <1>1, <2>1, <2>2 DEF Progress, After
  <1>4. Working' BY <1>1 DEF Working, Phases
  <1>5. TrainedOn' BY <1>1 DEF Good, RootsHold, TrainedOn
  <1>6. FromLabels' BY <1>1 DEF Good, RootsHold, FromLabels, Joins
  <1>7. QED BY <1>2, <1>3, <1>4, <1>5, <1>6 DEF RootsHold

LEMMA StepNewPod == ASSUME Good, NewPod PROVE RootsHold'
  <1>1. /\ pc' = "off" /\ root' = [t \in Range(Tasks) |-> NoRoot] /\ UNCHANGED <<corpus, fingerprint, trained>>
        /\ used' = [t \in Range(Tasks) |-> NoLabels]
    BY DEF NewPod, Leaves
  <1>2. BuiltRoots'
    <2>1. \A t \in Range(Tasks) : root'[t].filter = NoFilter BY <1>1 DEF NoRoot
    <2>2. QED BY <2>1 DEF BuiltRoots
  <1>3. Progress' BY <1>1 DEF Progress, Phases, After
  <1>4. Working' BY <1>1 DEF Working, Phases
  <1>5. TrainedOn' BY <1>1 DEF Good, RootsHold, TrainedOn
  <1>6. FromLabels' BY <1>1 DEF FromLabels, Joins
  <1>7. QED BY <1>2, <1>3, <1>4, <1>5, <1>6 DEF RootsHold

LEMMA StepSame == ASSUME Good, UNCHANGED roots PROVE RootsHold'
  <1>1. UNCHANGED <<corpus, labels, slice, root, fingerprint, pc, nth, file, dropped, remap, used, trained>> BY DEF roots
  <1>2. T' = T /\ FP' = FP BY <1>1 DEF T, FP
  <1>3. BuiltRoots' BY <1>1 DEF Good, RootsHold, BuiltRoots
  <1>4. Progress' BY <1>1 DEF Good, RootsHold, Progress
  <1>5. Working' BY <1>1, <1>2 DEF Good, RootsHold, Working
  <1>6. TrainedOn' BY <1>1, <1>2 DEF Good, RootsHold, TrainedOn
  <1>7. FromLabels' BY <1>1, <1>2 DEF Good, RootsHold, FromLabels
  <1>8. QED BY <1>3, <1>4, <1>5, <1>6, <1>7 DEF RootsHold

-----------------------------------------------------------------------------
\* Everything the script knows of the roots it writes, for at least one task.
RootsKnown == KnownData /\ (Tasks # <<>> => RootsHold)

LEMMA RootsKnownInit == Init => RootsKnown
  <1> SUFFICES ASSUME Init PROVE RootsKnown OBVIOUS
  <1>1. KnownData BY LabelsInit
  <1>2. pc = "off" /\ trained = <<>> /\ root = [t \in Range(Tasks) |-> NoRoot] BY DEF Init, RootsInit
  <1>3. BuiltRoots
    <2>1. \A t \in Range(Tasks) : root[t].filter = NoFilter BY <1>2 DEF NoRoot
    <2>2. QED BY <2>1 DEF BuiltRoots
  <1>4. FromLabels
    <2>1. used = [t \in Range(Tasks) |-> NoLabels] BY DEF Init, RootsInit
    <2>2. QED BY <1>2, <2>1 DEF FromLabels, Joins
  <1>5. Progress /\ Working /\ TrainedOn BY <1>2 DEF Progress, Working, TrainedOn, Phases, After
  <1>6. QED BY <1>1, <1>3, <1>4, <1>5 DEF RootsKnown, RootsHold

LEMMA RootsKnownStep == RootsKnown /\ [Next]_vars => RootsKnown'
  <1> SUFFICES ASSUME RootsKnown, [Next]_vars PROVE RootsKnown' OBVIOUS
  <1>1. KnownData' BY LabelsStep DEF RootsKnown
  <1> SUFFICES ASSUME Tasks # <<>> PROVE RootsHold' BY <1>1 DEF RootsKnown
  <1>2. Good BY DEF Good, RootsKnown
  <1>3. CASE Data
    <2>1. CASE Build
      BY <1>1, <1>2, <2>1, StepAlreadyMerged, StepSliceBegins, StepSliceFile, StepSliceMeta, StepSliceInfo,
         StepMergeBegins, StepMergeFile, StepMergeMeta, StepRegister, StepCompactFile, StepCompactMeta,
         StepCompactInfo, StepWriteFilter, StepDropStreams, StepCheckStreams, StepFingerprint, StepCheckArms
         DEF Build
    <2>2. CASE Start BY <1>2, <2>2, StepLeaves DEF Start, disk
    <2>3. CASE Dies BY <1>2, <2>3, StepLeaves DEF Dies, disk
    <2>4. CASE NewPod BY <1>2, <2>4, StepNewPod
    <2>5. QED BY <1>3, <2>1, <2>2, <2>3, <2>4 DEF Data
  <1>4. CASE BeginTraining BY <1>2, <1>4, StepSame DEF BeginTraining
  <1>5. CASE LogStep BY <1>2, <1>5, StepSame DEF LogStep
  <1>6. CASE Resume BY <1>2, <1>6, StepSame DEF Resume
  <1>7. CASE UNCHANGED vars BY <1>2, <1>7, StepSame DEF vars
  <1>8. QED BY <1>3, <1>4, <1>5, <1>6, <1>7 DEF Next

LEMMA KnownRootsTrain == RootsKnown => AcceptedRootTrains
  <1> SUFFICES ASSUME RootsKnown, pc = "train", NEW n \in DOMAIN Tasks
               PROVE  LET t == Tasks[n]  r == root[t]  rows == AllRows(r) IN
            /\ Check5(r) /\ Check1(r) /\ Check2(r) /\ Verify(r)
            /\ \A k \in DOMAIN r.eps :
                  LET m == r.eps[k] IN
                  /\ m.e = k - 1 /\ m.to - m.from = Len(corpus[m.g].rewards)
                  /\ \A i \in m.from .. m.to - 1 : rows[i + 1].obs = <<m.g, i - m.from>>
            /\ EpisodesKept(t) = {e \in EpisodesOf(corpus, t) : FullyLabelled(e, t)}
            /\ EpisodesKept(t) = trained[n]
    BY DEF AcceptedRootTrains
  <1> DEFINE t == Tasks[n]  r == root[t]  K == Full(corpus, used[t], t)
  <1>1. Tasks # <<>> OBVIOUS
  <1>2. Good BY <1>1 DEF Good, RootsKnown
  <1>3. t \in Range(Tasks) BY <1>2, TasksFacts DEF Good
  <1>4. r.filter # NoFilter /\ AllRows(r) # <<>> /\ fingerprint = FP /\ trained # <<>>
    BY <1>2, <1>3 DEF Good, RootsHold, Progress, TrainedOn, After
  <1>5. Complete(corpus, r, K) /\ Keeps(corpus, t, r.filter) = K
    BY <1>2, <1>3, <1>4 DEF Good, RootsHold, BuiltRoots, Finished
  <1>6. trained[n] = K
    <2>1. trained[n] = Keeps(corpus, Tasks[n], fingerprint[n]) BY <1>2, <1>4 DEF Good, RootsHold, TrainedOn
    <2>2. fingerprint[n] = r.filter BY <1>4 DEF FP
    <2>3. QED BY <1>5, <2>1, <2>2
  <1>7. K = {e \in EpisodesOf(corpus, t) : FullyLabelled(e, t)} BY DEF Full, FullyLabelled
  <1>8. /\ Check5(r) /\ Check1(r) /\ Check2(r) /\ Verify(r) /\ EpisodesKept(t) = K
        /\ \A k \in DOMAIN r.eps :
              LET m == r.eps[k] IN
              /\ m.e = k - 1 /\ m.to - m.from = Len(corpus[m.g].rewards)
              /\ \A i \in m.from .. m.to - 1 : AllRows(r)[i + 1].obs = <<m.g, i - m.from>>
    <2>1. EpisodesKept(t) = {x.obs[1] : x \in Range(AllRows(r))} BY DEF EpisodesKept
    <2> HIDE DEF r, K
    <2>2. Check5(r) BY <1>5, PassesCheck5
    <2>3. Check1(r) BY <1>5, PassesCheck1
    <2>4. Check2(r) /\ Verify(r) /\ {x.obs[1] : x \in Range(AllRows(r))} = K BY <1>4, <1>5, PassesTheRest
    <2>5. \A k \in DOMAIN r.eps :
              LET m == r.eps[k] IN
              /\ m.e = k - 1 /\ m.to - m.from = Len(corpus[m.g].rewards)
              /\ \A i \in m.from .. m.to - 1 : AllRows(r)[i + 1].obs = <<m.g, i - m.from>>
      BY <1>4, <1>5, PassesTheRest
    <2>6. QED BY <2>1, <2>2, <2>3, <2>4, <2>5
  <1>9. QED BY <1>6, <1>7, <1>8

\* A root both arms have accepted passes validate_slice.py and verify, keeps exactly
\* the episodes fully labelled by the labels it was joined with, frame by frame, and
\* a resumed run the episodes it began with (shot_one.sh:150, 195, 236): for every
\* corpus, number of tasks and files, death and new pod, whatever labels each start
\* checks out over the roots of earlier ones.
THEOREM AcceptedRootsTrain == Spec => []AcceptedRootTrains
  <1>1. Spec => []RootsKnown BY RootsKnownInit, RootsKnownStep, PTL DEF Spec
  <1>2. QED BY <1>1, KnownRootsTrain, PTL
=============================================================================
