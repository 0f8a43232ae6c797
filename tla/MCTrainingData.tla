--------------------------- MODULE MCTrainingData ---------------------------
(* TrainingData for TLC: two tasks whose episodes alternate in two data files. *)
EXTENDS TrainingData

\* The rewards that go with a truth, a start and the rollback debits.
Demo(task, at, start, truth, debit, terminated, truncated, length) ==
    [task |-> task, at |-> at, start |-> start, truth |-> truth, rollback |-> \E n \in DOMAIN debit : debit[n] # 0,
     rewards |-> [n \in DOMAIN truth |-> truth[n] - (IF n = 1 THEN start ELSE truth[n - 1]) - debit[n]],
     terminated |-> terminated, truncated |-> truncated, length |-> length]
Clean(task, at, start, truth) == Demo(task, at, start, truth, [n \in DOMAIN truth |-> 0], TRUE, FALSE, Len(truth))

None == <<0, 0, 0>>
In1 == <<1, 1, 1>>
In2 == <<2, 2, 2>>
Split == <<1, 1, 2>>

\* t1 has two units, one of them true at reset according to the census.
Kinds(at) == {
    Clean("t1", at, 1, <<1, 1, 2>>),
    Clean("t1", at, 1, <<0, 1, 2>>),                                   \* broken, then restored
    Clean("t1", at, 1, <<1, 0, 1>>),                                   \* ends short
    Demo("t1", at, 1, <<1, 1, 2>>, <<0, 2, 0>>, TRUE, FALSE, 3),       \* a rollback debit
    Clean("t1", at, 0, <<0, 1, 2>>),                                   \* the census is wrong here
    Clean("t1", at, 1, <<1, 1, 1>>),                                   \* no headroom
    Demo("t1", at, 1, <<1, 2, 2>>, None, FALSE, FALSE, 3),             \* not terminated
    Demo("t1", at, 1, <<1, 2, 2>>, None, TRUE, TRUE, 3)}               \* truncated
Later == {demo \in Kinds(In2) : demo.rollback \/ demo.start = 0 \/ ~demo.terminated \/ demo.truth = <<1, 1, 2>>}
Short == Demo("t1", In1, 1, <<1, 1, 2>>, None, TRUE, FALSE, 4)         \* listed a frame longer

\* Episode 0 and 2 of t2, 1 and 3 of t1.
Corpus(a, b, c) == (0 :> Clean("t2", <<1, 1>>, 0, <<0, 2>>)) @@ (1 :> a) @@ (2 :> b) @@ (3 :> c)
Plain == Clean("t2", <<2, 2>>, 0, <<0, 2>>)
Idle == Clean("t2", <<2, 2>>, 0, <<0, 0>>)
MCTrained == {Corpus(Clean("t1", In1, 1, <<0, 1, 2>>), Idle, Clean("t1", In2, 1, <<1, 1, 2>>))}
MCCorpora ==
    {Corpus(a, Plain, c) : a \in Kinds(In1), c \in Later}
    \union {Corpus(a, Idle, Clean("t1", In2, 1, <<1, 1, 2>>)) : a \in Kinds(In1)}
    \union {Corpus(a, Plain, Clean("t1", In2, 1, <<1, 1, 2>>)) : a \in {Short, Clean("t1", Split, 1, <<1, 1, 2>>)}}

Rec(D, completion) ==
    [D |-> D, instrumentation |-> "ok", completion |-> completion, phi0 |-> 0, phi0Init |-> 0, valid |-> 9000, never |-> 0]
MCCensus == [t1 |-> <<"true", "unknown">>, t2 |-> <<"false">>]
MCRewardMap == [t1 |-> Rec(2, -1), t2 |-> Rec(1, 5000)]

\* Half of two episodes may be invalid under the first command line.
Options(maxEpisodes, dropIncomplete, strict, minValid) ==
    [maxEpisodes |-> maxEpisodes, dropIncomplete |-> dropIncomplete, strict |-> strict, minValid |-> minValid,
     minCompletion |-> 0, maxPhi0 |-> -1, refuseCollapsed |-> FALSE]
MCLabelOptions == {Options(-1, FALSE, FALSE, 5000), Options(1, TRUE, TRUE, 5000), Options(-1, FALSE, FALSE, 7000)}

MCTasks == <<"t1", "t2">>
Arm(key, weight, head) ==
    [key |-> key, weight |-> weight, head |-> head, resume |-> FALSE, overwrite |-> FALSE,
     absolute |-> TRUE, decay |-> 10, warmup |-> 1, stats |-> TRUE]
MCArgs == [A |-> Arm(FALSE, -1, FALSE), B |-> Arm(TRUE, 15, TRUE)]

Loss(action, progress) == [action |-> action, progress |-> progress]
MCLines == {Loss(9, 9), Loss(1, 1), Loss(0, 9), Loss(0, -2)}
=============================================================================
