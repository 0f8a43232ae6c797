---------------------------- MODULE TrainingData ----------------------------
(* From demonstrations to a training that is judged: the data of Roots is      *)
(* built, perhaps several times, both arms accept it, and an arm trains on it, *)
(* is killed and resumed, while the health gate of HealthGate reads its log.   *)
EXTENDS Roots, HealthGate

CONSTANTS
    Lines,          \* the losses a step may log: records [action, progress]
    TrainedCorpora, \* bound: the corpora whose training is explored
    SaveEvery, MaxResumes   \* the checkpoint interval; bound: resumes

\* A demonstration keeps the true number of satisfied units over time (truth, in
\* Scale-ths, truth[1] after the first frame and start at reset) beside the
\* rewards the collector wrote: the changes of the truth, except where a rollback
\* debits more than was ever satisfied (labels.py:85).
Collected(demo) ==
    /\ demo.rewards \in Seq(Int) \ {<<>>} /\ demo.start \in 0 .. Scale
    /\ demo.truth \in [DOMAIN demo.rewards -> 0 .. Scale] /\ demo.at \in [DOMAIN demo.rewards -> 1 .. Files]
    /\ \A t \in DOMAIN demo.rewards :
          LET before == IF t = 1 THEN demo.start ELSE demo.truth[t - 1] IN
          \/ demo.rewards[t] = demo.truth[t] - before
          \/ demo.rollback /\ demo.truth[t] = before /\ before + demo.rewards[t] < 0

\* train_b1k.main logs the action loss with every step.
ASSUME TrainingAssumption ==
    /\ \A c \in Corpora : DOMAIN c \subseteq Nat /\ IsFiniteSet(DOMAIN c) /\ \A e \in DOMAIN c : Collected(c[e])
    /\ SaveEvery \in Nat \ {0} /\ MaxResumes \in Nat /\ TrainedCorpora \subseteq Corpora
    /\ Lines \subseteq [action : Nat \union {NaN}, progress : Nat \union {NaN}]

VARIABLES
    arm,        \* the arm that trains, "none" before
    log,        \* its train_arm<X>.log, appended to by every resume
    run,        \* the lines of the training that survives (history)
    resumes
training == <<arm, log, run, resumes>>
vars == <<roots, training>>

Untrained == arm = "none" /\ log = <<>> /\ run = <<>> /\ resumes = 0

Init == RootsInit /\ Untrained

Data == arm = "none" /\ (Build \/ Start \/ Dies \/ NewPod) /\ UNCHANGED training

BeginTraining ==
    /\ pc = "train" /\ arm = "none" /\ corpus \in TrainedCorpora
    /\ arm' \in DOMAIN Args /\ UNCHANGED <<log, run, resumes, roots>>

\* The progress loss exists where the labels are read: its term is skipped
\* without a label column (train_b1k_rooted.py:185).
Line(losses) ==
    [s |-> Len(run), action |-> losses.action,
     progress |-> IF Args[arm].head /\ Args[arm].key THEN losses.progress ELSE NotLogged]

LogStep ==
    /\ arm # "none" /\ Len(run) < Check
    /\ \E losses \in Lines : log' = Append(log, Line(losses)) /\ run' = Append(run, Line(losses))
    /\ UNCHANGED <<arm, resumes, roots>>

\* Killed and resumed: the steps after the last checkpoint are trained and logged again.
Resume ==
    /\ arm # "none" /\ resumes < MaxResumes /\ resumes' = resumes + 1
    /\ run' = SubSeq(run, 1, (Len(run) \div SaveEvery) * SaveEvery)
    /\ UNCHANGED <<arm, log, roots>>

Next == Data \/ BeginTraining \/ LogStep \/ Resume

Spec == Init /\ [][Next]_vars

-----------------------------------------------------------------------------
(* What the data and the verdict must be. *)

\* The prior of the census is the demonstration's own, or it is too high and a
\* demonstration without rollbacks reaches the goal, which caps it.
Sound(demo) ==
    LET D == MeasuredD(corpus, demo.task)  prior == Prior(demo.task, D) * (Scale \div D) IN
    \/ prior = demo.start
    \/ prior > demo.start /\ ~demo.rollback /\ Highest(demo.truth) = Scale

\* Wherever a label is on disk (in the sidecar, in a root half merged or half
\* compacted, after a crash, on a new pod), it is the truth of the frame whose
\* observation it stands beside, after two renumberings and a join
\* (merge_progress_labels.py:168), for every demonstration whose prior is sound.
LabelsStayWithTheirDemos ==
    \A e \in DOMAIN corpus : Sound(corpus[e]) =>
        /\ \A t \in Range(Tasks) : \A l \in labels[t] : l.ep = e => l.progress = corpus[e].truth[l.frame + 1]
        /\ \A t \in Range(Tasks) : \A r \in Range(AllRows(root[t])) :
              r.obs[1] = e => r.p = corpus[e].truth[r.obs[2] + 1]

\* Every frame of the episode has a label among those the root was joined with,
\* at this start of the script or, where it found the root finished, an earlier one.
FullyLabelled(e, t) == \A n \in DOMAIN corpus[e].rewards : \E l \in used[t] : l.ep = e /\ l.frame = n - 1

\* validate_slice.py, on a root: counts and action chunks (1a, 1c; every row is
\* probed), the demonstrations' own indices (2), compaction and manifest (5, 5b
\* without its demand that something was dropped).
Horizon == 2
Check1(r) ==
    LET rows == AllRows(r)
        In(e) == {x.i : x \in {y \in Range(rows) : y.e = e}}
        Reader(i, k, m) == rows[Max({m.from, Min({m.to - 1, i + k})}) + 1]     \* clamped, then a row position
    IN /\ r.info.frames = Len(rows) /\ r.info.episodes = Cardinality(EpisodesIn(rows))
       /\ \A i \in 0 .. Len(rows) - 1, k \in 0 .. Horizon - 1 :
             LET e == rows[i + 1].e  j == Max({Min(In(e)), Min({Max(In(e)), i + k})})
             IN \A x \in Range(rows) : x.e = e /\ x.i = j => Reader(i, k, r.eps[e + 1]).obs = x.obs
Check2(r) == \A x, y \in Range(AllRows(r)) : x.e = y.e => x.g = y.g
Check5(r) ==
    LET rows == AllRows(r) IN
    /\ EpisodesIn(rows) = 0 .. Cardinality(EpisodesIn(rows)) - 1
    /\ {x.i : x \in Range(rows)} = 0 .. Len(rows) - 1
    /\ Len(r.eps) = Cardinality(EpisodesIn(rows)) /\ r.info.episodes = Len(r.eps)
    /\ \A m \in Range(r.eps) : {x.i : x \in {y \in Range(rows) : y.e = m.e}} = m.from .. m.to - 1
    /\ r.filter.out = Len(r.eps)

\* verify of merge_progress_labels.py, whose exit status the script does not look
\* at: the registered features are the columns of the data, progress among them.
Verify(r) == AllRows(r) # <<>> /\ r.info.progress /\ \A x \in Range(AllRows(r)) : x.p # NoLabel

\* A root both arms have accepted passes every check the repository has for it,
\* those the script does not run included; its k-th episode holds the frames of
\* one demonstration in order; it keeps exactly the episodes fully labelled when
\* it was joined, whatever start that was and whatever labels each start checked
\* out (shot_one.sh:150, 195), and a resumed run keeps those it began with (:236).
AcceptedRootTrains ==
    pc = "train" =>
        \A n \in DOMAIN Tasks :
            LET t == Tasks[n]  r == root[t]  rows == AllRows(r) IN
            /\ Check5(r) /\ Check1(r) /\ Check2(r) /\ Verify(r)
            /\ \A k \in DOMAIN r.eps :
                  LET m == r.eps[k] IN
                  /\ m.e = k - 1 /\ m.to - m.from = Len(corpus[m.g].rewards)
                  /\ \A i \in m.from .. m.to - 1 : rows[i + 1].obs = <<m.g, i - m.from>>
            /\ EpisodesKept(t) = {e \in EpisodesOf(corpus, t) : FullyLabelled(e, t)}
            /\ EpisodesKept(t) = trained[n]

\* The verdict on a log is the verdict on the training that survived: whatever
\* was logged by steps a resume threw away, once the surviving training reached
\* the check step the gate says what it would say of an uninterrupted run, unless
\* a loss was not finite (health_gate.py:55); and arm B passes only with labels.
VerdictOfTheSurvivingRun ==
    \A warm \in BOOLEAN :
        /\ Len(run) >= Check /\ ~NotFinite(log) => Decide(log, arm, warm) = Decide(run, arm, warm)
        /\ arm = "B" /\ Decide(log, arm, warm) = "PASS" => \A t \in Range(Tasks) : root[t].info.progress
=============================================================================
