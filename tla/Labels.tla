------------------------------- MODULE Labels -------------------------------
(* analysis/reward/labels.py: from the rewards of a task's demonstrations to   *)
(* the sidecar of progress labels.  Rewards and progress are integers, one     *)
(* whole goal being Scale; a demonstration is a record [task, rewards,         *)
(* terminated, truncated, ...], a corpus maps episode indices to them.         *)
EXTENDS Integers, Sequences, FiniteSets, FiniteSetsExt, Functions

CONSTANTS
    Scale,          \* the reward of the whole goal
    Census,         \* task -> its goal literals, "true", "false" or "unknown" at reset
    RewardMap,      \* task -> [D, instrumentation, completion, phi0, phi0Init, valid, never]
    FullCorpus      \* the tasks measure_corpus.py had all the data of

ASSUME LabelsAssumption ==
    /\ Scale \in Nat \ {0}
    /\ \A t \in DOMAIN Census : Census[t] \in Seq({"true", "false", "unknown"})

Unmeasured == -1    \* None, NaN or an absent field
Whole == 10000      \* a rate of 1: rates are rounded to four digits

Count(literals, mark) == Cardinality({n \in DOMAIN literals : literals[n] = mark})

-----------------------------------------------------------------------------
(* One episode. *)

\* Mutant: a floor of 0, right only when the goal is entirely false at reset.
SumsAboveZero(rewards, floor) ==
    LET sum[t \in DOMAIN rewards] ==
            LET before == IF t = 1 THEN 0 ELSE sum[t - 1]
            IN IF rewards[t] < 0 /\ before + rewards[t] < 0 THEN before ELSE before + rewards[t]
    IN sum

\* The running sums of the repaired rewards: a debit below the floor is dropped.
Sums(rewards, floor) ==
    LET sum[t \in DOMAIN rewards] ==
            LET before == IF t = 1 THEN 0 ELSE sum[t - 1]
            IN IF rewards[t] < 0 /\ before + rewards[t] < floor THEN before ELSE before + rewards[t]
    IN sum

Passes == 8
Highest(curve) == Max(Range(curve))

\* What is left of a prior s when the trace credits up to its highest sum.
Capped(rewards, s) == Max({0, Min({s, Scale - Highest(Sums(rewards, -s))})})

\* Satisfied units over time, in Scale-ths, anchored at reset by the capped prior.
Curve(rewards, prior) ==
    LET s[n \in 0 .. Passes] == IF n = 0 THEN prior ELSE Capped(rewards, s[n - 1])
        sums == Sums(rewards, -s[Passes - 1])
    IN [t \in DOMAIN rewards |-> s[Passes] + sums[t]]

\* The historical recipe, anchored at a goal taken to be reached at the end.
TerminalCurve(rewards) ==
    LET sums == Sums(rewards, 0) IN [t \in DOMAIN rewards |-> Scale - sums[Len(rewards)] + sums[t]]

\* The first gate an episode fails, "" when it is valid.
DropReason(demo, curve, unit) ==
    LET peak == Highest(curve)  low == Min(Range(curve))
        gates == << <<"not_terminated", ~demo.terminated>>, <<"truncated", demo.truncated>>,
                    <<"phi0_out_of_range", curve[1] \notin 0 .. Scale>>,
                    <<"phi0_not_integral", curve[1] % unit # 0>>, <<"over_credited", peak > Scale>>,
                    <<"no_headroom", peak = low>>, <<"progress_out_of_range", low < 0>> >>
        failed == {n \in DOMAIN gates : gates[n][2]}
    IN IF failed = {} THEN "" ELSE gates[Min(failed)][1]

-----------------------------------------------------------------------------
(* One task. *)

EpisodesOf(corpus, task) == {e \in DOMAIN corpus : corpus[e].task = task}

Magnitudes(corpus, task) ==
    UNION {{IF r < 0 THEN -r ELSE r : r \in Range(corpus[e].rewards) \ {0}} : e \in EpisodesOf(corpus, task)}

MeasuredD(corpus, task) ==
    LET m == Magnitudes(corpus, task)
    IN IF m = {} THEN Unmeasured ELSE (2 * Scale + Min(m)) \div (2 * Min(m))

\* Goal units the BDDL says are true at reset; none when literals are not units.
Prior(task, D) ==
    IF task \in DOMAIN Census /\ Len(Census[task]) = D THEN Count(Census[task], "true") ELSE 0

\* A task's row, from the episodes' curves with the prior and with the old anchor.
Measured(corpus, D, curves, pasts, valid) ==
    LET Mean(total, n, one) == IF n = 0 THEN Unmeasured ELSE (total * Whole) \div (n * one)
        done == {e \in valid : curves[e][Len(curves[e])] >= Scale}
        pastValid == {e \in DOMAIN pasts : DropReason(corpus[e], pasts[e], Scale \div D) = ""}
        start(e) == curves[e][1]  pastStart(e) == pasts[e][1]  missing(e) == Scale - Highest(curves[e])
    IN [D |-> D, valid |-> Mean(Cardinality(valid), Cardinality(DOMAIN curves), 1),
        completion |-> Mean(Cardinality(done), Cardinality(valid), 1),
        phi0 |-> Mean(MapThenSumSet(pastStart, pastValid), Cardinality(pastValid), Scale),
        phi0Init |-> Mean(MapThenSumSet(start, valid), Cardinality(valid), Scale),
        never |-> IF valid = {} THEN Unmeasured ELSE MapThenSumSet(missing, valid)]   \* only its sign is used

\* The curves of a task's episodes, anchored by the prior.
Curves(corpus, task, D) ==
    [e \in EpisodesOf(corpus, task) |-> Curve(corpus[e].rewards, Prior(task, D) * (Scale \div D))]
Valid(corpus, curves, unit) == {e \in DOMAIN curves : DropReason(corpus[e], curves[e], unit) = ""}

\* measure_corpus.py: a task's row of full_corpus_remeasure.csv.
Remeasure(corpus, task, D) ==
    IF D = Unmeasured THEN [D |-> D]
    ELSE Measured(corpus, D, Curves(corpus, task, D),
                  [e \in EpisodesOf(corpus, task) |-> TerminalCurve(corpus[e].rewards)],
                  Valid(corpus, Curves(corpus, task, D), Scale \div D))

\* What the full corpus measured wins over the sample.
Overlay(rec, full) ==
    LET Wins(f) == \/ f \in {"D", "phi0", "valid"}
                   \/ f \in {"completion", "phi0Init", "never"} /\ full[f] # Unmeasured
    IN IF full.D = Unmeasured THEN rec ELSE [f \in DOMAIN rec |-> IF Wins(f) THEN full[f] ELSE rec[f]]

LoadRewardMap(corpus) ==
    [t \in DOMAIN RewardMap |->
        IF t \in FullCorpus THEN Overlay(RewardMap[t], Remeasure(corpus, t, MeasuredD(corpus, t))) ELSE RewardMap[t]]

\* check_task_usable, for the thresholds of the command line.
Usable(rec, opts) ==
    /\ rec.D > 0 /\ rec.instrumentation \in {"ok", "absent"}
    /\ IF rec.completion = Unmeasured THEN rec.phi0 * 20 <= Whole ELSE rec.completion > opts.minCompletion
    /\ opts.maxPhi0 # Unmeasured =>
          (IF rec.phi0Init = Unmeasured THEN rec.phi0 ELSE rec.phi0Init) <= opts.maxPhi0
    /\ rec.valid = Unmeasured \/ rec.valid >= opts.minValid

Denominator(task, rec) ==
    IF task \notin DOMAIN Census THEN "UNKNOWN"
    ELSE LET must == Len(Census[task]) - Count(Census[task], "true") IN
         IF rec.D < must THEN "COLLAPSED"
         ELSE IF rec.never > 0 /\ rec.completion \in {Unmeasured, 0} THEN "DEAD_UNITS"
         ELSE IF rec.completion \in 0 .. Whole - 1 THEN "ENDS_SHORT" ELSE "CONSISTENT"

Refuses(corpus, task, rec, opts) ==
    \/ ~Usable(rec, opts)
    \/ MeasuredD(corpus, task) # rec.D
    \/ \E m \in Magnitudes(corpus, task) : (m * rec.D) % Scale # 0
    \/ opts.refuseCollapsed /\ Denominator(task, rec) = "COLLAPSED"

\* The first maxEpisodes episodes of the task, in order.
Considered(corpus, task, opts) ==
    {e \in EpisodesOf(corpus, task) :
        opts.maxEpisodes = Unmeasured
        \/ Cardinality({x \in EpisodesOf(corpus, task) : x < e}) < opts.maxEpisodes}

NoLabels == {}
Clip(x) == Max({0, Min({x, Scale})})

\* The labels of one task: a set of [ep, frame, progress], frames from 0.
TaskLabels(corpus, curves, unit, considered, opts) ==
    LET Used(e) == opts.dropIncomplete => curves[e][Len(curves[e])] >= Scale
    IN UNION {{[ep |-> e, frame |-> t - 1, progress |-> Clip(curves[e][t])] : t \in DOMAIN curves[e]} :
                e \in {x \in considered \cap Valid(corpus, curves, unit) : Used(x)}}

\* build_task_labels for a task of the map with its record.
BuildTaskLabels(corpus, task, rec, opts) ==
    IF Refuses(corpus, task, rec, opts) THEN [refused |-> TRUE, labels |-> NoLabels]
    ELSE [refused |-> FALSE,
          labels |-> TaskLabels(corpus, Curves(corpus, task, rec.D), Scale \div rec.D,
                                Considered(corpus, task, opts), opts)]

\* main over a sequence of tasks: a refused task, and one with nothing to emit,
\* keeps the labels.parquet of an earlier run.  main ends early at the first
\* refusal under --strict, and by an exception after a task with nothing to emit:
\* the line it prints formats a mean that is None.
Written(built, tasks, strict, old) ==
    LET EndsAt(t) == IF built[t].refused THEN strict ELSE built[t].labels = NoLabels
        Reached(t) == \A m \in DOMAIN tasks : (\E n \in DOMAIN tasks : tasks[n] = t /\ m < n) => ~EndsAt(tasks[m])
    IN [t \in Range(tasks) |-> IF Reached(t) /\ built[t].labels # NoLabels THEN built[t].labels ELSE old[t]]

LabelAll(corpus, tasks, opts, old) ==
    Written([t \in Range(tasks) |->
                IF t \in DOMAIN RewardMap THEN BuildTaskLabels(corpus, t, LoadRewardMap(corpus)[t], opts)
                ELSE [refused |-> TRUE, labels |-> NoLabels]],
            tasks, opts.strict, old)
=============================================================================
