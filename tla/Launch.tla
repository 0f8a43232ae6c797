------------------------------- MODULE Launch -------------------------------
(* harness/launch.py: a sweep is cut into jobs, and worker threads take them   *)
(* from one queue, each running the official evaluator as a subprocess.  The   *)
(* launcher may be started again on an output directory, with or without       *)
(* --resume, after it ended or after its machine died.  A sweep is one         *)
(* directory; there are several (the arms of a comparison), one launched at a  *)
(* time.  All processes of a launch die together.                              *)
EXTENDS Integers, Sequences, FiniteSets

CONSTANTS
    PublicIds, HiddenIds,  \* PUBLIC_TEST_IDS, HIDDEN_TEST_IDS
    Arms,                  \* output directories
    Plans,                 \* the config files: [tasks, instances, mode, rollouts]
    MaxWorkers,            \* bound on --workers
    Options,               \* the command lines: [workers, perJob, resume, dry]
    Outcomes,              \* what a rollout's JSON can hold
    MaxFaults,             \* bound: failed rollouts and jobs, killed evaluators, dead machines
    MaxLaunches            \* bound

InSeq(s) == {s[n] : n \in DOMAIN s}
Distinct(s) == \A m, n \in DOMAIN s : s[m] = s[n] => m = n

\* tests/test_dev_loop_config.py: the configs name no task or instance twice.
ASSUME LaunchConstants ==
    /\ PublicIds \in Seq(Nat) /\ HiddenIds \in Seq(Nat)
    /\ Distinct(PublicIds \o HiddenIds) /\ Arms # {} /\ Plans # {}
    /\ Plans \subseteq [tasks : Seq(STRING), instances : Seq(Nat), mode : STRING, rollouts : Nat \ {0}]
    /\ \A p \in Plans : Distinct(p.tasks) /\ Distinct(p.instances)
    /\ MaxWorkers \in Nat /\ Options # {}
    /\ Options \subseteq [workers : 0 .. MaxWorkers, perJob : Nat, resume : BOOLEAN, dry : BOOLEAN]
    /\ Outcomes # {} /\ {"none", "part"} \cap Outcomes = {}
    /\ MaxFaults \in Nat /\ MaxLaunches \in Nat

TestIds == InSeq(PublicIds \o HiddenIds)
Modes == {"train", "public_test", "hidden_test"}
SplitIds(mode) == IF mode = "public_test" THEN PublicIds ELSE HiddenIds

\* load_config refuses the others.
Accepted(p) ==
    /\ p.mode \in Modes
    /\ IF p.mode = "train" THEN InSeq(p.instances) \cap TestIds = {}
                           ELSE InSeq(p.instances) \subseteq InSeq(SplitIds(p.mode))

IndicesForIds(ids, mode) ==
    IF mode = "train" THEN ids
    ELSE [n \in DOMAIN ids |-> (CHOOSE k \in DOMAIN SplitIds(mode) : SplitIds(mode)[k] = ids[n]) - 1]

\* The evaluator's way back.
ResolveIds(indices, mode) ==
    IF mode = "train" THEN indices ELSE [n \in DOMAIN indices |-> SplitIds(mode)[indices[n] + 1]]

Units(p) == InSeq(p.tasks) \X InSeq(p.instances)
Files(p) == InSeq(p.tasks) \X InSeq(p.instances) \X (0 .. p.rollouts - 1)

\* Mutant: the slices run one instance over.
OverlappingChunks(p, k) ==
    IF k = 0 THEN <<p.instances>>
    ELSE LET n == Len(p.instances) IN
         [c \in 1 .. (n + k - 1) \div k |->
             SubSeq(p.instances, (c - 1) * k + 1, IF c * k < n THEN c * k + 1 ELSE n)]

\* The slices range(0, len, per_job) of a task's instances; one when per_job is 0.
Chunks(p, k) ==
    IF k = 0 THEN <<p.instances>>
    ELSE LET n == Len(p.instances) IN
         [c \in 1 .. (n + k - 1) \div k |->
             SubSeq(p.instances, (c - 1) * k + 1, IF c * k < n THEN c * k ELSE n)]

Job(p, task, chunk) == [task |-> task, instances |-> chunk, indices |-> IndicesForIds(chunk, p.mode)]

BuildJobs(p, k) ==
    LET cs == Chunks(p, k) IN
    [n \in 1 .. Len(p.tasks) * Len(cs) |->
        Job(p, p.tasks[((n - 1) \div Len(cs)) + 1], cs[((n - 1) % Len(cs)) + 1])]

\* Mutant: a file that exists is a result.
KeysOfNames(d) == {<<f[1], f[2]>> : f \in {g \in DOMAIN d : d[g] # "none"}}

\* Read from the contents: a truncated file is not a result.
CompletedKeys(d) == {<<f[1], f[2]>> : f \in {g \in DOMAIN d : d[g] \in Outcomes}}

AlreadyDone(job, done) == \A i \in InSeq(job.instances) : <<job.task, i>> \in done

\* The list comprehension of main, over the first n jobs.
Kept(all, resume, done) ==
    LET kept[n \in 0 .. Len(all)] ==
            IF n = 0 THEN <<>>
            ELSE IF resume /\ AlreadyDone(all[n], done) THEN kept[n - 1] ELSE Append(kept[n - 1], all[n])
    IN kept[Len(all)]

ToLaunch(p, o, d) == Kept(BuildJobs(p, o.perJob), o.resume, CompletedKeys(d))

-----------------------------------------------------------------------------
VARIABLES
    plan,       \* the config file
    disk,       \* per arm and file <task>_<instance>_<rollout>.json: "none", "part" (truncated) or what it holds
    manifest,   \* per arm: timing_manifest.json
    code,       \* per arm: the last launch is "never", "running", "died" or its exit code
    asked,      \* per arm: the arguments of the last launch
    \* the launcher
    dir,        \* the arm being run
    jobs,       \* what this launch put into job_q
    queue,      \* job_q
    worker,     \* per thread: [pc, job, left (files its evaluator has yet to come to), writing, bad]
    results,    \* results: {[job, rc]}
    \* bounds
    faults, launches

launcher == <<dir, jobs, queue, worker, results>>
history == <<plan, manifest, code, asked>>
bounds == <<faults, launches>>
vars == <<history, disk, launcher, bounds>>

Threads == 1 .. MaxWorkers
NoJob == [task |-> "none", instances |-> <<>>, indices |-> <<>>]
Off == [pc |-> "off", job |-> NoJob, left |-> <<>>, writing |-> FALSE, bad |-> FALSE]
At(pc) == [Off EXCEPT !.pc = pc]
NoManifest == [rollouts |-> 0, completed |-> 0, failed |-> 0]

Init ==
    /\ plan \in Plans
    /\ disk = [a \in Arms |-> [f \in Files(plan) |-> "none"]]
    /\ manifest = [a \in Arms |-> NoManifest] /\ code = [a \in Arms |-> "never"]
    /\ asked = [a \in Arms |-> CHOOSE o \in Options : TRUE]
    /\ dir = CHOOSE a \in Arms : TRUE
    /\ jobs = <<>> /\ queue = <<>> /\ worker = [i \in Threads |-> Off] /\ results = {}
    /\ faults = 0 /\ launches = 0

Up == \E a \in Arms : code[a] = "running"
Gone == jobs' = <<>> /\ queue' = <<>> /\ worker' = [i \in Threads |-> Off] /\ results' = {}
Fault == faults < MaxFaults /\ faults' = faults + 1
Set(i, w) == worker' = [worker EXCEPT ![i] = w]
Report(job, rc) == results' = results \union {[job |-> job, rc |-> rc]}

-----------------------------------------------------------------------------
(* main *)

Refused(a, o) == /\ ~Accepted(plan) /\ code' = [code EXCEPT ![a] = "refused"]
                 /\ UNCHANGED launcher

\* "nothing to do."
Nothing(a, o) == /\ Accepted(plan) /\ ToLaunch(plan, o, disk[a]) = <<>>
                 /\ code' = [code EXCEPT ![a] = "0"]
                 /\ UNCHANGED launcher

Starts(a, o) ==
    /\ Accepted(plan) /\ ToLaunch(plan, o, disk[a]) # <<>>
    /\ code' = [code EXCEPT ![a] = "running"] /\ dir' = a
    /\ jobs' = ToLaunch(plan, o, disk[a]) /\ queue' = jobs' /\ results' = {}
    /\ worker' = [i \in Threads |-> IF i <= o.workers THEN At("get") ELSE Off]

Launch(a, o) ==
    /\ ~Up /\ launches < MaxLaunches /\ launches' = launches + 1
    /\ asked' = [asked EXCEPT ![a] = o]
    /\ Refused(a, o) \/ Nothing(a, o) \/ Starts(a, o)
    /\ UNCHANGED <<plan, disk, manifest, faults>>

Succeeded == {r \in results : r.rc = "ok"}

\* write_timing_manifest: an instance counts as one rollout.
TimingManifest ==
    [rollouts |-> Cardinality({x \in Succeeded \X (1 .. Len(plan.instances)) : x[2] <= Len(x[1].job.instances)}),
     completed |-> Cardinality(Succeeded),
     failed |-> Cardinality(results) - Cardinality(Succeeded)]

ExitCode == IF \E r \in results : r.rc # "ok" THEN "1" ELSE "0"

\* Every thread has ended, however it ended.
Join ==
    /\ Up /\ \A i \in Threads : worker[i].pc \in {"off", "end"}
    /\ manifest' = [manifest EXCEPT ![dir] = IF asked[dir].dry THEN @ ELSE TimingManifest]
    /\ code' = [code EXCEPT ![dir] = ExitCode] /\ Gone
    /\ UNCHANGED <<plan, asked, disk, dir, bounds>>

MachineDies ==
    /\ Up /\ Fault /\ code' = [code EXCEPT ![dir] = "died"] /\ Gone
    /\ UNCHANGED <<plan, manifest, asked, disk, dir, launches>>

\* Mutant: get instead of get_nowait.
QueueBlocks(i) == worker[i].pc = "get" /\ queue # <<>> /\ UNCHANGED vars

-----------------------------------------------------------------------------
(* worker_loop and run_job *)

QueueEmpty(i) ==
    /\ worker[i].pc = "get" /\ queue = <<>> /\ Set(i, At("end"))
    /\ UNCHANGED <<history, disk, dir, jobs, queue, results, bounds>>

Takes(i, job) == worker[i].pc = "get" /\ queue # <<>> /\ job = Head(queue) /\ queue' = Tail(queue)

\* Job.key takes the min of no instances; the handler asks for it again and the thread is gone.
ThreadDies(i, job) ==
    /\ Takes(i, job) /\ job.instances = <<>> /\ Set(i, At("end"))
    /\ UNCHANGED <<history, disk, dir, jobs, results, bounds>>

DryRun(i, job) ==
    /\ Takes(i, job) /\ job.instances # <<>> /\ asked[dir].dry /\ Report(job, "ok")
    /\ UNCHANGED <<history, disk, dir, jobs, worker, bounds>>

BuildCommand(job) ==
    [task |-> job.task, indices |-> job.indices, rollouts |-> plan.rollouts, mode |-> plan.mode]

\* The evaluator's rollouts: instance by instance, each one rollout after the other.
Course(cmd) ==
    LET ids == ResolveIds(cmd.indices, cmd.mode)  r == cmd.rollouts
    IN [n \in 1 .. Len(ids) * r |-> <<cmd.task, ids[((n - 1) \div r) + 1], (n - 1) % r>>]

EvaluatorStarts(i, job) ==
    /\ Takes(i, job) /\ job.instances # <<>> /\ ~asked[dir].dry
    /\ Set(i, [pc |-> "run", job |-> job, left |-> Course(BuildCommand(job)), writing |-> FALSE, bad |-> FALSE])
    /\ UNCHANGED <<history, disk, dir, jobs, results, bounds>>

\* The log or the subprocess cannot be opened: caught, returncode -1.
RunJobRaises(i, job) ==
    /\ Takes(i, job) /\ job.instances # <<>> /\ ~asked[dir].dry /\ Fault /\ Report(job, "raised")
    /\ UNCHANGED <<history, disk, dir, jobs, worker, launches>>

GetNowait(i, job) == ThreadDies(i, job) \/ DryRun(i, job) \/ EvaluatorStarts(i, job)

\* Mutant: what the thread knew of its evaluator is not dropped.
ReturnsDirty(i, rc) ==
    /\ Report(worker[i].job, rc) /\ Set(i, [worker[i] EXCEPT !.pc = "get"])
    /\ UNCHANGED <<history, disk, dir, jobs, queue, launches>>

\* subprocess.run returns, and the result is appended under the lock.
Returns(i, rc) ==
    /\ Report(worker[i].job, rc) /\ Set(i, At("get"))
    /\ UNCHANGED <<history, disk, dir, jobs, queue, launches>>

-----------------------------------------------------------------------------
(* The evaluator *)

Running(i) == worker[i].pc = "run"
Target(i) == Head(worker[i].left)

WriteBegins(i) ==
    /\ Running(i) /\ worker[i].left # <<>> /\ ~worker[i].writing
    /\ disk' = [disk EXCEPT ![dir][Target(i)] = "part"]
    /\ Set(i, [worker[i] EXCEPT !.writing = TRUE])
    /\ UNCHANGED <<history, dir, jobs, queue, results, bounds>>

WriteEnds(i, outcome) ==
    /\ Running(i) /\ worker[i].writing
    /\ disk' = [disk EXCEPT ![dir][Target(i)] = outcome]
    /\ Set(i, [worker[i] EXCEPT !.writing = FALSE, !.left = Tail(@)])
    /\ UNCHANGED <<history, dir, jobs, queue, results, bounds>>

RolloutFails(i) ==
    /\ Running(i) /\ worker[i].left # <<>> /\ ~worker[i].writing /\ Fault
    /\ Set(i, [worker[i] EXCEPT !.bad = TRUE, !.left = Tail(@)])
    /\ UNCHANGED <<history, disk, dir, jobs, queue, results, launches>>

EvaluatorExits(i) ==
    /\ Running(i) /\ worker[i].left = <<>> /\ UNCHANGED faults
    /\ Returns(i, IF worker[i].bad THEN "failed" ELSE "ok")

EvaluatorKilled(i) == Running(i) /\ Fault /\ Returns(i, "killed")

Working(i) ==
    \/ QueueEmpty(i) \/ \E job \in InSeq(queue) : GetNowait(i, job)
    \/ WriteBegins(i) \/ \E outcome \in Outcomes : WriteEnds(i, outcome)
    \/ EvaluatorExits(i)

Failing(i) == RolloutFails(i) \/ EvaluatorKilled(i) \/ \E job \in InSeq(queue) : RunJobRaises(i, job)

Next ==
    \/ \E a \in Arms, o \in Options : Launch(a, o)
    \/ Join \/ MachineDies
    \/ \E i \in Threads : Working(i) \/ Failing(i)

Spec == Init /\ [][Next]_vars

\* The threads are scheduled and the evaluator does not hang: subprocess.run waits without a timeout.
FairSpec == Spec /\ WF_vars(Join) /\ \A i \in Threads : WF_vars(Working(i))
=============================================================================
