------------------------------ MODULE MCSweep ------------------------------
(* Sweep for TLC: plans of at most two jobs, test splits of two and one.     *)
EXTENDS Sweep

Result(q, base, left, right, time) == [q |-> q, base |-> base, left |-> left, right |-> right, time |-> time]
MCOutcome == [noscore |-> Result(NoField, NoField, NoField, NoField, NoField),
              null |-> Result(Null, 0, Null, 1, 0),
              half |-> Result(1, 0, NoField, 1, 1)]
MCOutcomes == DOMAIN MCOutcome

Plan(tasks, instances, mode, rollouts) ==
    [tasks |-> tasks, instances |-> instances, mode |-> mode, rollouts |-> rollouts]
MCPlans == {
    Plan(<<"t1">>, <<12, 11>>, "public_test", 1),
    Plan(<<"t1", "t2">>, <<21>>, "hidden_test", 1),
    Plan(<<"t1">>, <<1>>, "train", 2),
    Plan(<<"t1", "t2">>, <<>>, "train", 1),
    Plan(<<"t1">>, <<11>>, "train", 1)}
Args(workers, perJob, resume, dry) == [workers |-> workers, perJob |-> perJob, resume |-> resume, dry |-> dry]
MCOptions == {Args(2, 1, TRUE, FALSE), Args(1, 0, FALSE, FALSE),
              Args(1, 0, TRUE, FALSE), Args(0, 0, FALSE, FALSE), Args(1, 1, FALSE, TRUE)}
MCPublicIds == <<11, 12>>
MCHiddenIds == <<21>>
MCPublicTest == {11, 12}
MCHiddenTest == {21}
=============================================================================
