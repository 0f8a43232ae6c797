------------------------------- MODULE Sweep -------------------------------
(* Sweeps and what is made of them: the launcher of Launch fills two output    *)
(* directories over several launches, and the readers of Results compare them, *)
(* tag them and package them whenever no launcher is at work.                  *)
EXTENDS Launch, Results

\* tests/test_dev_loop_config.py: a config names tasks of the benchmark.
ASSUME SweepAssumption == Outcomes = DOMAIN Outcome /\ \A p \in Plans : InSeq(p.tasks) \subseteq Universe

Quiet(a) == code[a] # "running"
Whole(a, f) == disk[a][f] \in Outcomes

\* Types of the launcher's state, and what the pieces always have in common: a
\* thread has a job only while its evaluator runs, a file being written is truncated.
TypeOK ==
    /\ plan \in Plans /\ disk \in [Arms -> [Files(plan) -> Outcomes \union {"none", "part"}]]
    /\ code \in [Arms -> {"never", "running", "died", "refused", "0", "1"}]
    /\ asked \in [Arms -> Options] /\ dir \in Arms
    /\ \A i \in Threads : worker[i].pc \in {"off", "get", "run", "end"}
    /\ \A i \in Threads : worker[i].pc # "run" => worker[i].job = NoJob /\ ~worker[i].writing
    /\ \A i \in Threads : worker[i].writing => disk[dir][Target(i)] = "part"
    /\ {r.job : r \in results} \subseteq InSeq(jobs) /\ InSeq(queue) \subseteq InSeq(jobs)
    /\ faults \in 0 .. MaxFaults /\ launches \in 0 .. MaxLaunches

\* Two evaluators at work never have a result file in common: build_jobs cuts
\* the grid into disjoint jobs and a job leaves the queue once (launch.py:182).
OneWriterPerFile ==
    \A i, j \in Threads : i # j => InSeq(worker[i].left) \cap InSeq(worker[j].left) = {}

\* A launch of arm a that ran something and reported no failure.
EndedWell(a) == code[a] = "0" /\ asked[a].workers > 0 /\ ~asked[a].dry

\* "Partially-completed jobs re-run in full. ... the expensive [mistake] is skipping a
\* rollout that never happened" (launch.py:268): after such a launch every rollout of
\* the plan has its result.
ExitZeroMeansWhole == \A a \in Arms : EndedWell(a) => \A f \in Files(plan) : Whole(a, f)

\* What the launcher makes sure of for a task's instance: with one rollout each, or
\* without --resume, every rollout; with --resume, which knows instances but not
\* rollouts (completed_keys), no more than one of them.
Done(a, u) ==
    LET mine == {f \in Files(plan) : <<f[1], f[2]>> = u} IN
    /\ \E f \in mine : Whole(a, f)
    /\ plan.rollouts = 1 \/ ~asked[a].resume => \A f \in mine : Whole(a, f)

Covered(a) == \A u \in Units(plan) : Done(a, u)

\* What remains true of exit code 0 (launch.py:482), whatever failed, was killed, died
\* or was resumed before: no instance of the plan is without a result, and without
\* --resume, or with one rollout per instance, no rollout is.
ExitZeroMeansCovered == \A a \in Arms : EndedWell(a) => Covered(a)

Negated(x) == [x EXCEPT !.num = -@]

\* The paired comparison (compare.py) of two sweeps at rest.  What it prints, be it
\* before a refusal, is over the units of both; naming the sweeps the other way round
\* gives the opposite differences; it counts as missing what failures.py calls CRASHED.
\* It exits 0 only when both cover the same units, and always does, over the units of
\* the plan, when both launches ended well.
ComparisonsHold ==
    \A a, b \in Arms :
        LET there == Compare(disk[a], disk[b], FALSE)  back == Compare(disk[b], disk[a], FALSE) IN
        a # b /\ Quiet(a) /\ Quiet(b) =>
            /\ there.exit = back.exit
            /\ there.exit # "error" =>
                  \A u \in UnitsOf(disk[a]) \cap UnitsOf(disk[b]) :
                     /\ back.report.dq[u] = Negated(there.report.dq[u])
                     /\ there.report.missingA[u] = Cardinality({f \in Rows(disk[a]) :
                            <<f[1], f[2]>> = u /\ Tag(disk[a], f) = "CRASHED"})
            /\ there.exit = "0" => UnitsOf(disk[a]) = UnitsOf(disk[b])
            /\ Units(plan) # {} /\ EndedWell(a) /\ EndedWell(b)
                  => there.exit = "0" /\ UnitsOf(disk[a]) = Units(plan)

\* compute_final_q_score: a fixed denominator, every file by its name.
ScorerSum(files, d, t) == TotalQ(d, {f \in files : f[1] = t})

\* A package built without --force and without any warning but the one that says
\* it is partial holds a readable result with a q_score.final of every intended task
\* and test instance (build.py:64).  A null final raises no warning: the scorer's mean
\* of a task, over the fixed number of instances, is the one analysis/parse.py
\* reports for the tasks that have none, and parse.py leaves the nulls out.
CleanPackageIsComplete ==
    ~Up /\ plan.rollouts = 1 => \A a \in Arms, testset \in {"public", "hidden"}, intended \in SUBSET Universe :
        LET d == disk[a]  files == Build(d, testset, intended, FALSE)
            tasks == IF intended = {} THEN Universe ELSE intended
        IN Warnings(d, testset, intended) \subseteq {"PARTIAL"} /\ files # {} =>
            /\ files = tasks \X TestIdsOf(testset) \X {0} /\ files = Rows(d)
            /\ \A f \in files : Outcome[d[f]].q \in (0 .. FullQ) \union {Null}
            /\ \A t \in tasks :
                  LET nulls == {f \in files : f[1] = t /\ Outcome[d[f]].q = Null} IN
                  /\ PerTask(d)[t].n + Cardinality(nulls) = Cardinality(TestIdsOf(testset))
                  /\ nulls = {} => ScorerSum(files, d, t) = PerTask(d)[t].sum

\* A launch ends: every thread comes to an empty queue or dies, whatever its jobs
\* do, as long as the evaluators themselves come to an end (launch.py:358).
SweepEnds == Up ~> ~Up
=============================================================================
