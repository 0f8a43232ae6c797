------------------------------ MODULE Results ------------------------------
(* What is read from a finished sweep: analysis/parse.py, analysis/failures.py, *)
(* analysis/compare.py and submission/build.py, as functions of a directory d, *)
(* which maps the files <<task, instance, rollout>> to "none", "part"          *)
(* (truncated) or the name of what the JSON holds.                             *)
EXTENDS Integers, Sequences, FiniteSets, FiniteSetsExt

CONSTANTS
    Outcome,    \* name -> [q, base, left, right, time], each a number or a member of Missing
    PublicTest, HiddenTest, \* PUBLIC_INSTANCES, HIDDEN_INSTANCES
    Universe    \* the tasks of the benchmark (N_TASKS of them)

\* How a number may be missing: its field (q_score, time, agent_distance) is not
\* there, the field holds no key (`final`, `normalized_time`), or the key holds null.
NoField == -1
NoKey == -2
Null == -3
Missing == {NoField, NoKey, Null}
FullQ == 2                      \* q_score in halves
BaseMoved == 1                  \* thresholds of failures.py, each at its own scale
ArmMoved == 2
TimedOut == 1                   \* timeout_ratio reached

\* A distance or a time is not negative; 20 of the 40 test instances are public, 20 hidden.
ASSUME ResultsAssumption ==
    /\ \A name \in DOMAIN Outcome :
          Outcome[name] \in [q : (0 .. FullQ) \union Missing, base : Nat \union Missing,
                            left : Nat \union Missing, right : Nat \union Missing,
                            time : Nat \union Missing]
    /\ IsFiniteSet(Universe) /\ IsFiniteSet(PublicTest) /\ IsFiniteSet(HiddenTest)
    /\ Cardinality(HiddenTest) <= Cardinality(PublicTest)

OnDisk(d) == {f \in DOMAIN d : d[f] # "none"}
Rows(d) == {f \in OnDisk(d) : d[f] \in DOMAIN Outcome}      \* load_rollouts skips what does not parse
Num(x) == IF x \in Missing THEN 0 ELSE x

\* A score that is not there is 0.0, one that is null stays null; q_missing is both.
QMissing(d, f) == Outcome[d[f]].q \in Missing
QScore(d, f) == Num(Outcome[d[f]].q)

\* A null is not a number to pandas: a mean leaves it out.
Scored(d, files) == {f \in files : Outcome[d[f]].q # Null}

TotalQ(d, files) == LET q(f) == QScore(d, f) IN MapThenSumSet(q, Scored(d, files))

\* Per task the sum of q_score and the number of scores: their quotient is the task's
\* mean, NaN when there is none.
PerTask(d) ==
    [t \in {f[1] : f \in Rows(d)} |->
        LET rows == {f \in Rows(d) : f[1] = t} IN [sum |-> TotalQ(d, rows), n |-> Cardinality(Scored(d, rows))]]

-----------------------------------------------------------------------------
(* failures.py *)

Tag(d, f) ==
    LET r == Outcome[d[f]]  arms == Num(r.left) + Num(r.right) IN
    CASE r.q \in Missing -> "CRASHED"
      [] r.q = FullQ -> "SOLVED"
      [] r.q \in 1 .. FullQ - 1 -> "PARTIAL"
      [] r.q = 0 /\ arms < ArmMoved -> IF Num(r.base) < BaseMoved THEN "IMMOBILE" ELSE "NO_MANIPULATION"
      [] r.q = 0 /\ arms >= ArmMoved -> IF r.time >= TimedOut THEN "TIMEOUT" ELSE "ACTIVE_NO_PROGRESS"

-----------------------------------------------------------------------------
(* compare.py *)

UnitsOf(d) == {<<f[1], f[2]>> : f \in Rows(d)}

\* One row per (task, instance).
Collapse(d) ==
    [u \in UnitsOf(d) |->
        LET rows == {f \in Rows(d) : <<f[1], f[2]>> = u}
        IN [sum |-> TotalQ(d, rows), n |-> Cardinality(Scored(d, rows)), seeds |-> Cardinality(rows),
            missing |-> Cardinality({f \in rows : QMissing(d, f)})]]

\* d_i = mean Q_B(i) - mean Q_A(i), as a fraction; x/0 is NaN.
Dq(ua, ub) == [num |-> ub.sum * ua.n - ua.sum * ub.n, den |-> ua.n * ub.n]

LoadPair(a, b) ==
    LET ua == Collapse(a)  ub == Collapse(b)
        seeds(u) == {u[k].seeds : k \in DOMAIN u}
    IN [dq |-> [k \in DOMAIN ua \cap DOMAIN ub |-> Dq(ua[k], ub[k])],
        missingA |-> [k \in DOMAIN ua \cap DOMAIN ub |-> ua[k].missing],
        onlyA |-> DOMAIN ua \ DOMAIN ub, onlyB |-> DOMAIN ub \ DOMAIN ua,
        balanced |-> Cardinality(seeds(ua)) = 1 /\ seeds(ua) = seeds(ub)]

\* Mutant: the intersection is compared whatever was asked.
CompareIntersection(a, b, allowMismatch) ==
    [report |-> LoadPair(a, b), exit |-> IF DOMAIN LoadPair(a, b).dq = {} THEN "error" ELSE "0"]

\* What main prints and how it ends: an error before any statistic when there is no
\* unit in common (no readable result on a side included); else the statistics over the
\* units in common, and only then the refusal of two sweeps that cover different ones.
Compare(a, b, allowMismatch) ==
    LET pair == LoadPair(a, b)  differ == pair.onlyA \union pair.onlyB # {} IN
    [report |-> pair,
     exit |-> IF DOMAIN pair.dq = {} THEN "error" ELSE IF differ /\ ~allowMismatch THEN "1" ELSE "0"]

-----------------------------------------------------------------------------
(* submission/build.py.  The evaluator names its files by their contents, so  *)
(* the checks for a bad name, a stray file, a duplicate and a name that       *)
(* disagrees with its contents find nothing in what a sweep leaves.           *)

TestIdsOf(testset) == IF testset = "public" THEN PublicTest ELSE HiddenTest

\* Mutant: a filename's instance is never looked up in the split.
AnySplit(files, ids) == FALSE

OffSplit(files, ids) == \E f \in files : f[2] \notin ids

\* validate_rollouts: intended = {} is no --intended-task.
Warnings(d, testset, intended) ==
    LET ids == TestIdsOf(testset)  files == OnDisk(d)  rows == Rows(d)  tasks == {f[1] : f \in files}
        partial == intended # {}
        expected == IF partial THEN Cardinality(intended) * Cardinality(ids)
                    ELSE Cardinality(Universe) * Cardinality(PublicTest)    \* EXPECTED_ROLLOUTS
        of(t) == {f \in files : f[1] = t}
        When(condition, warning) == IF condition THEN {warning} ELSE {}
    IN UNION {
        When(Cardinality(files) > expected, "exceeds"),
        When(Cardinality(files) < expected, "shortfall"),
        When(files # rows, "malformed"),
        When(\E f \in rows : Outcome[d[f]].q = NoField, "missing required field"),
        When(\E f \in rows : Outcome[d[f]].q \in {NoField, NoKey}, "no final"),
        When(\E f \in rows : Outcome[d[f]].time \in {NoField, NoKey}, "no normalized_time"),
        When(OffSplit(files, ids), "outside the split"),
        When(partial /\ intended \ tasks # {}, "no rollouts at all"),
        When(partial /\ tasks \ intended # {}, "not intended"),
        When(partial /\ \E t \in intended \cap tasks : Cardinality(of(t)) < Cardinality(ids), "task short"),
        When(partial, "PARTIAL"),
        When(~partial /\ Cardinality(tasks) < Cardinality(Universe), "tasks absent")}

Blocking == {"malformed", "missing required field"}

\* main: the files of the package, {} when none is built.
Build(d, testset, intended, force) ==
    IF OnDisk(d) = {} \/ (Warnings(d, testset, intended) \cap Blocking # {} /\ ~force) THEN {}
    ELSE OnDisk(d)
=============================================================================
