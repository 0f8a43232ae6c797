----------------------------- MODULE HealthGate -----------------------------
(* analysis/health_gate.py and what it takes from analysis/rung_report.py: the  *)
(* verdict on a training log.  A log is the sequence of its step lines, records *)
(* [s, action, progress] of a step and two losses; means are compared as       *)
(* fractions, so that no value is rounded.                                     *)
EXTENDS Integers, Sequences, FiniteSets, FiniteSetsExt, Functions

CONSTANTS
    Check, EarlyFrom, EarlyTo, Window, MinPoints,   \* CHECK, EARLY, WINDOW, the 20 of "too sparsely"
    WarmOpening, WarmMax

ASSUME GateAssumption == /\ {Check, EarlyFrom, EarlyTo, WarmOpening, WarmMax} \subseteq Nat
                         /\ Window \in Nat \ {0, 1} /\ MinPoints \in Nat \ {0, 1}

NotLogged == -1     \* the line does not carry the key
NaN == -2           \* not finite

\* Mutant: the first line of a step counts, also when a resume superseded it.
FirstLogged(log, key) ==
    LET carrying == {n \in DOMAIN log : log[n][key] # NotLogged}
    IN [s \in {log[n].s : n \in carrying} |-> log[Min({n \in carrying : log[n].s = s})][key]]

\* step -> value, of the lines that carry the key: a dict in which a step that is
\* logged again gets the later value.
ByStep(log, key) ==
    LET carrying == {n \in DOMAIN log : log[n][key] # NotLogged}
    IN [s \in {log[n].s : n \in carrying} |-> log[Max({n \in carrying : log[n].s = s})][key]]

\* Over the values v of a set of steps.
Total(v, steps) == LET value(s) == v[s] IN MapThenSumSet(value, steps)
Sum2(v, steps) == LET square(s) == v[s] * v[s] IN MapThenSumSet(square, steps)

\* The mean over xs is above that over ys by more than two standard errors of the
\* difference; with no spread at all z is infinite, whatever the means are.
Above(v, xs, ys) ==
    LET n == Cardinality(xs)  m == Cardinality(ys)
        dx == n * Sum2(v, xs) - Total(v, xs) * Total(v, xs) \* n^2 (n-1) times the squared error of the mean
        dy == m * Sum2(v, ys) - Total(v, ys) * Total(v, ys)
        gap == Total(v, xs) * m - Total(v, ys) * n
    IN \/ dx = 0 /\ dy = 0
       \/ gap > 0 /\ gap * gap * (n - 1) * (m - 1) > 4 * (dx * m * m * (m - 1) + dy * n * n * (n - 1))

\* branch0 of rung_report.py: the first Window steps that have a value against the last.
Branch0(p) ==
    LET steps == DOMAIN p
        first == {s \in steps : Cardinality({t \in steps : t < s}) < Window}
        last == {s \in steps : Cardinality({t \in steps : t > s}) < Window}
    IN IF steps = {} \/ NaN \in Range(p) THEN "BROKEN"
       ELSE IF Cardinality(steps) < 2 * Window THEN "INCONCLUSIVE"
       ELSE IF Above(p, first, last) THEN "LEARNING" ELSE "BROKEN"

\* _windowed: the steps before CHECK.
Windowed(p) == Restrict(p, {s \in DOMAIN p : s < Check})

LastStep(log) == IF log = <<>> THEN 0 ELSE Max({log[n].s : n \in DOMAIN log})
NotFinite(log) == \E n \in DOMAIN log : NaN \in {log[n].action, log[n].progress}

\* The verdict on the action losses a, the progress losses p and the last step:
\* the first rule that applies.
Verdict(a, p, last, broken, arm, warm) ==
    LET Steps(lo, hi) == {s \in DOMAIN a : s \in lo .. hi - 1}
        opening == Steps(0, WarmOpening)
        early == Steps(EarlyFrom, EarlyTo)
        late == Steps(Check - Window, Check)
        High(steps) == Total(a, steps) >= WarmMax * Cardinality(steps)
        rules == <<
            <<"FAIL", broken>>,
            <<"WAIT", warm /\ last < WarmOpening - 1>>,
            <<"FAIL", warm /\ High(opening)>>,         \* also when the opening holds nothing
            <<"WAIT", last < Check - 1>>,
            <<"FAIL", Cardinality(early) < MinPoints \/ Cardinality(late) < MinPoints>>,
            <<"FAIL", IF warm THEN High(late) ELSE ~Above(a, early, late)>>,
            <<"FAIL", arm = "B" /\ Branch0(Windowed(p)) # "LEARNING">>,
            <<"PASS", TRUE>> >>
    IN rules[Min({n \in DOMAIN rules : rules[n][2]})][1]

\* decide(text, arm, CHECK, warm)
Decide(log, arm, warm) ==
    Verdict(ByStep(log, "action"), ByStep(log, "progress"), LastStep(log), NotFinite(log), arm, warm)
=============================================================================
