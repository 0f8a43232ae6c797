# TLA+ models of behavior26

behavior26 trains two arms of a robot policy on a rented GPU pod, evaluates them
in a simulator and compares them. Nobody sits at the pod: shell scripts drive it
for half a day, a supervisor subshell inside the script stops what goes wrong, a
volume keeps the files when the pod dies, and a watchdog on the owner's laptop
ends the billing. Before that, rewards become labels and labels are joined with
renumbered data; after it, result files are paired, tagged and packaged. What is
hard to get right is how the processes, files and signals meet, and what each
file still means after a death, a restart or a renumbering. That is what the
modules here model.

## The system

| Part (source) | State it keeps | Operations | Talks to |
|---|---|---|---|
| `scripts/shot_one.sh`, main shell | `STATUS`, `.done` markers, `trainer.pgid`, resume-test files, loop variables of `run_arm` | stages 0-6, launch, retry, reap, traps | trainer (process group), supervisor (files), watchdog (`STATUS`, logs) |
| its supervisor subshell | `gate.txt`, `health_arm?.txt`, orphan counter | one pass a minute: reap, hang, cap, stall gate, health gate, resume test | trainer (signals), main shell (`STATUS`) |
| trainer (`scripts/train_b1k_rooted.py`, openpi, orbax) | checkpoint directory, log | resume, train, save, exit | both shells |
| `analysis/stall_gate.py` | none | judge a log | supervisor |
| `scripts/watchdog.sh` | start time, last reads | poll pod, read `STATUS` and log age, terminate, retry | pod provider, pod over SSH |
| `scripts/eval_arms.sh` | results on the volume and on scratch disk, `eval.pg`, `STATUS` | per unit: serve, evaluate, collect, retry; supervisor: sync, cap, hang | policy server, evaluator, watchdog |
| `scripts/shot_two_chain.sh` | its own `STATUS` | wait for training, evaluate a block, stop rule, evaluate all | `STATUS` of the two scripts above |
| `harness/launch.py` | job queue, result files, summary | plan jobs, run with workers, resume | evaluator processes |
| `policy/wire.py`, `null_server.py`, `server.py` | connection, episode | metadata frame, reply per observation, silent reset | evaluator |
| `analysis/reward/labels.py`, `measure_corpus.py` | `labels.parquet` per task | repair, anchor, gate, refuse, write | the corpus, merge |
| `scripts/slice_task_dataset.py`, `merge_progress_labels.py`, `drop_video_streams.py`, `b1k_roots.py` | dataset trees, `progress_filter.json`, fingerprint | select, renumber, join, drop, compact, check | labels, trainer |
| `analysis/health_gate.py`, `rung_report.py` | none | judge a log | supervisor |
| `analysis/compare.py`, `parse.py`, `failures.py` | none | pair, classify, report | result files |
| `submission/build.py` | output tree | select, check, refuse, write | result files |
| statistics, installers, probes | - | numeric or straight-line code | - |

What makes each part correct:

- *Training script.* DONE means both arms trained to the end; one trainer at a
  time; a stop by a safeguard is final or at least visible; retries are bounded
  although crashes, the resume test and new pods share one loop; the run never
  hangs on a dead trainer's pipe; the resume test proves what it says and costs
  no checkpoint; `TERMINAL` is the last line of `STATUS`.
- *Watchdog.* No billing pod is left unwatched, no healthy run is stopped, the
  bill ends whatever fails.
- *Evaluation.* Results of one arm never come from the other's server, a
  finished result is kept, an incomplete unit is not called DONE, the hours cap
  holds.
- *Launcher.* No two evaluators write one file; exit code 0 means that nothing of
  the plan is missing, also after failures, deaths and `--resume` (true of instances,
  not of rollouts: finding 4); a launch ends.
- *Wire.* The n-th action answers the n-th observation, and no chunk of actions
  outlives the episode it was inferred in.
- *Labels and datasets.* A label stands beside the frame it was computed for
  after two renumberings and a join; a root both arms accept is whole and holds
  the episodes the run began with, wherever an earlier start died.
- *Gates.* The verdict is that of the training that survives, not of what was
  logged.
- *Results.* What a comparison prints is over the same instances of both sweeps, and
  it is refused when they cover different ones; a package without warnings has a result
  for everything it claims.

The hard behaviours, each at its line, are the `hazards` of `PROJECT.json`.

## Modules

| Module | Models | Uses |
|---|---|---|
| `PodRun` | abstract: what a script on a pod promises about `STATUS` | - |
| `ShotOne` | `shot_one.sh`: main shell, supervisor, trainer group, volume, pod deaths | implements `PodRun` |
| `EvalArms` | `eval_arms.sh`: main shell, supervisor, policy servers, evaluator, results | implements `PodRun` |
| `Watchdog` | `watchdog.sh` against any run `PodRun` allows | extends `PodRun` |
| `Launch` | `launch.py` and the evaluator it starts, over several launches and directories | - |
| `Results` | `parse.py`, `failures.py`, `compare.py`, `build.py` as functions of a directory | - |
| `Sweep` | what the two have in common: their properties | extends `Launch`, `Results` |
| `LockStep` | abstract: one answer per observation, in order | - |
| `PolicyWire` | `null_server.py`, `wire.py`, the chunked policy, two evaluators | implements `LockStep` |
| `Labels` | rewards to labels, as functions of a corpus | - |
| `Roots` | stage 1 of `shot_one.sh`: slice, merge, compaction, streams, fingerprint, root checks | extends `Labels` |
| `HealthGate` | `health_gate.py` and the branch-0 rule, as a function of a log | - |
| `TrainingData` | the data, then a training that is resumed and judged | extends `Roots`, `HealthGate` |
| `ShotOneProofs`, `WatchdogProofs`, `EvalArmsProofs`, `SweepProofs`, `PolicyWireProofs`, `TrainingDataProofs`, `RootLayoutProofs`, `AcceptedRootProofs` | proofs | the modules above |
| `MCShotOne`, `MCEvalArms`, `MCWatchdog`, `MCSweep`, `MCPolicyWire`, `MCTrainingData` | instances for TLC | |

`PodRun` is where the two halves meet: `ShotOne` and `EvalArms` are shown, by TLC
and by proof, to change `STATUS` only as `PodRun` says, and `Watchdog` is checked
and proved against `PodRun` alone. What the watchdog guarantees it therefore
guarantees for the training script and for the evaluation, without a product of
the state spaces.

A failure and a signal write `STATUS` in two steps in both scripts: `[ -f STATUS ]`,
and, when there is none, a write that truncates whatever is there by then. `PodRun`
has a phase for it, `"failing"`: the script has looked (`Looks`) and will write
(`Fails`); a signal in that phase looks again. A reason the supervisor writes in that
phase is lost, and this is all that can be lost: `FailureKeepsReason` says that a
reason found on disk by the failure survives it. `finish` kills the supervisor before
its own test, so there is no such gap at the end. A single `echo` is one step.

### ShotOne and its code

The main shell's position is `mpc`; its local variables are `arm`, `attempt`,
`rc`; `sig` is a signal bash has not yet handled (a trap runs only between
commands, so not while the pipeline of `run_arm` is in the foreground). Each
value of `mpc` is a stretch of the script between two points where another
process can be seen or can see it. The supervisor's position is `spc`; a call of
`kill_trainer` is two steps (TERM, then poll and KILL) that return to `ret`.
The trainer's process group is a leader (`lead`) and workers that outlive it
(`kids`), with or without the log pipe: `setsid` runs only after the shell has
forked, so a leader is first `"forming"` and no signal to the group reaches it.
Logs are abstracted to what the gates read: the highest step, whether a bad loss
was printed, whether a restart marker waits for its first step.

Time is counted in supervisor passes. Two facts about pace are assumed and
nothing else: a training unit of the model (SAVE_EVERY / `SaveEvery` optimiser
steps, about an hour) is longer than a pass, and a supervisor that exists goes on
making passes. `Paced` states the first; `TestKillSparesSave` depends on it, and
`NeverWedged`, a count of passes, on neither.

Every fault (crash, hang, bad loss, broken resume, signal, pod death) may
happen at any step, `MaxFaults` times. An invocation finds a new pod and the old
volume; logs may be fresh or old.

Not modelled: a second invocation on a pod where the previous one's trainer still
lives (a signal during the smoke test leaves it), SIGKILL of the main shell
alone, a signal during `finish`, reuse of process ids, the contents of stages
0-3. The stall gate's verdict is a free choice of GO or NOGO.

### EvalArms and its code

`mpc` walks the loop `for TASK; for ARM; while`; a unit is a pair of a task and an
arm. `srv` and `port` are the policy servers and the one that answers on port
8000: whoever binds first is whom the wait loop and the evaluator talk to. A
result file on the scratch disk (`scr`) and on the volume (`vol`) is absent, half
written or whole; `missing_instances` counts the last two alike. The
supervisor's pass is sync, cap, hang; its kills are two steps, as in `ShotOne`,
and go to the group `eval.pg` names, which is written one step after the
evaluator starts. The hang check reads `eval.pg` and `eval.current` in one step
(`HangReads`) and judges group and log in another (`CheckHang`): the main shell may
have gone on to the next evaluator, to which group and log do not belong (`mine`). bash runs a trap at once in `wait`, but only after the
foreground `wait_for_policy_server.sh` has returned. A dead pod loses the scratch
disk and leaves `eval.pg` behind.

Not modelled: reuse of process ids, processes that survive the evaluator in its
group, a signal between a fork and the assignment of its process id, the videos,
and the contents of stages 0-2. No pace is assumed: an evaluator may be slower
than the hang limit and is then killed.

### Watchdog and its code

`wpc` is the position in the loop; one pass is `PodState`, `ReadOk` or
`ReadFails`, `Judge`, and perhaps a delete. What was read is judged later, when
it may be stale. The pod runs `PodRun`; its newest log has an mtime (`wrote`)
that may be older than the run. An API call may fail, a delete may succeed and
its answer be lost. Two things are assumed of a healthy run: it writes a line at
least every `Quiet` ticks (its own supervisor ends a longer silence, see
`NeverWedged`) and its first line comes within `SetupMax`, both below
`STALL_MIN`. The second can fail in practice (hazard at `watchdog.sh:119`). The
watchdog is started after the script has removed the old `STATUS`, the order
the hand-off document prescribes.

### Launch, Results, Sweep and their code

A launch is `main`: build the jobs, drop those `--resume` finds done, start
threads, join them. `worker` is a thread with the evaluator it waits for: `left`
are the rollouts still to come, `writing` says that the result file of the first
is half written. A killed evaluator, a dead machine and a failed rollout leave
what was written. A job without instances kills its thread (`Job.key` takes a
minimum twice). Instance ids go to the evaluator as indices of a split and come
back as ids (`IndicesForIds`, `ResolveIds`).

`Results` reads such a directory: a result is a name whose record holds the
fields the readers look at. A score may be missing in three ways the readers tell
apart: no `q_score` (`NoField`), a `q_score` without `final` or that is null
(`NoKey`), and a `final` that is null (`Null`). The first two count as 0 and raise a
warning of the package builder, which blocks only for the first; a null is left out of
every mean and raises no warning. Scores are in halves, differences of means are
fractions. `Compare` is what `main` prints together with its exit code: on mismatched
coverage the report over the intersection comes first and the refusal after it.
Filenames are not modelled
because the evaluator derives them from the contents; so the package builder's
checks of names find nothing here.

### PolicyWire and its code

asyncio changes handlers only at an await, so one step of a handler goes from one
await to the next; a frame is in `up` or `down` until it is taken. A port's
connections share `chunk`. `mixed` remembers ports where an old connection's frame
was handled after a newer connection began: there, and only there, a chunk can
cross episodes. The official evaluator is modelled from what the server's
comments say of it (no time limit, resets unanswered); the repository's mock has
time-outs. A client's stages map to `LockStep`'s.

### Labels, Roots, HealthGate, TrainingData and their code

Rewards are integers, a whole goal being `Scale`. A demonstration carries the
true number of satisfied units, which the code never sees, and the rewards a
collector would have written for it, rollback debits included; `Labels` computes
from the rewards alone and the properties compare with the truth. The census
prior may be wrong: `Sound` says when a label can be expected to be right.

In `Roots` every written file is a step and the script may die between any two;
a new start finds the container's disk, a new pod only the volume. Every start checks
out `origin/main`, whose labels may be new, also on a disk whose roots were joined with
the old ones and are kept: after it one task may stand on old labels and the other on
new ones. `used` is a history variable, the labels a root was joined with, and
`AcceptedRootTrains` is stated with it. A row keeps `obs`, the frame it came from,
beside the indices the code renumbers, so that a row can be compared with its
origin. A file is written whole (the code writes parquet in one call; a torn
file would not open).

`HealthGate.ByStep` is the dict from a step to its value that `decide` and
`branch0` start from, and `Verdict` lists the rules of `decide` in order; the
first that applies is the verdict. Standard errors are compared as squares of fractions, so nothing
is rounded. In `TrainingData` an arm logs, is killed, and logs the steps after
its last checkpoint a second time.

Not modelled: merge `--in-place` and its other variants (the script does not use
them), statistics and video files, the manifests beside the labels. The
fingerprint covers `progress_filter.json`, not label values: other labels for
the same episodes are the same data to it, and `AcceptedRootTrains` claims no
more.

## Runs

| Run | Question | Bounds |
|---|---|---|
| `shot_one_safety` | all safety properties, refinement of `PodRun` | 2 steps, a save each step, 1 retry, hang after 2 passes, cap after 5, 1 fault, 2 invocations; 3.0 M states |
| `shot_one_ends` | does every invocation end? | same, warm start, 1 invocation |
| `shot_one_stop_retried` | is a deliberate stop never retried? *violated* | same, 1 invocation |
| `shot_one_false_hang` | does "hung" mean silent for that long? *violated* | as `shot_one_safety` |
| `eval_arms_units` | safety of units, servers, cap and hang check; refinement of `PodRun` | 2 tasks, 2 arms, 1 instance, no retry, hang after 1 pass, cap after 2, 1 fault, 2 invocations; 2.0 M states |
| `eval_arms_results` | is only what is missing evaluated again, and does the script end? | 1 unit, 2 instances of 2 rollouts, 1 retry, 1 fault |
| `eval_arms_kept` | are results on the volume kept? *violated* | 1 unit, 1 instance of 2 rollouts |
| `watchdog` | safety and liveness against any `PodRun` run | hang after 2 ticks, deadlines 4 and 7, horizon 6 |
| `sweep` | workers, resume, exit code, comparison, tags, package | 5 plans of at most 2 jobs, 5 command lines, 2 workers, 2 directories, 2 launches, 1 fault, results with a score, a null one and none; 0.4 M states |
| `sweep_whole` | does a resumed launch that exits 0 leave no rollout out? *violated* | same, 1 directory |
| `policy_wire` | lock step, clean episodes, does a rollout end? | 1 port, 2 rollouts of 3 steps, chunks of 2, 1 reset, 2 faults, 6 command lines, both clients |
| `training_data` | labels, accepted roots, verdict | 2 tasks, 4 episodes in 2 files, 42 corpora, 3 label command lines, new labels or none at each of 2 starts, 2 pods; log of 4 steps from 4 kinds of line, 1 resume; 127 k states |

Why the bounds suffice: two steps with a save each give a checkpoint that is not
the last one, so that the resume test, a resume from the middle and a finished
arm all occur; the cap at five passes falls before, during and after every stage
of an arm; one retry separates "retry" from "give up"; two invocations let every
file of a dead pod be read by a new one. Two faults
over two invocations were also explored (16.8 M states) and showed nothing new. For the watchdog, deadline 4 is within and 7
beyond the horizon of 6, so the silence backstop is also tested with no deadline.
For the evaluation the two questions need different data: the order of units, the
servers and the resume over two invocations need several units, and one file each
is enough to be missing or there; partial instances and retries need several
files and one unit (hang after 2 passes, cap after 3). The first also passed with
those limits (4.0 M states).

For the sweep, one fault decides every outcome of a rollout, job or launch and the
second launch meets what it left; two workers are the least that can collide.
For the wire, two rollouts on a port are the least that share a policy, three
steps outlast a chunk of two. For the data, the tasks' episodes alternate, so that
both renumberings are not the identity, the labels of a second start may differ from
those a kept root was joined with, and the corpora hold every reason to drop
an episode, a wrong prior, a rollback, an episode cut over two files and one
listed a frame too long; two starts let a half-built root of each kind be found.

`CHECK_DEADLOCK FALSE` everywhere: scripts end and pods go.

Fairness. The two shells of `shot_one.sh` and a live trainer are scheduled by the
operating system: weak fairness of `Main`, `Supervisor`, `Trainer`; nothing is
assumed of faults or of a hung trainer. The launcher's threads and a live evaluator,
the server's event loop and a client that can go on are fair in the same way. In `EvalArms` likewise the two shells, a
loading server and a live evaluator. The watchdog's loop has weak fairness;
an SSH read or a delete repeated for ever does not fail for ever (strong
fairness). `InvocationEnds` excepts the attempt a missed kill leaves without a
supervisor (finding 1): there only the watchdog ends the bill.

## Findings

1. `shot_one_stop_retried`: `STATUS` is read once after an attempt; a stop
   recorded in the following 30 s sleep, or after an arm that ended well, is not
   read before the next launch. That attempt has no supervisor, and if it
   succeeds DONE replaces the reason. `OneLateLaunchPerArm` (proved) bounds the
   damage: one more attempt per arm.
2. `shot_one_false_hang`: the hang check trusts the mtime of a log the new trainer
   has not written to yet.
3. `eval_arms_kept`: an instance with some of its rollouts done is evaluated whole
   again, and the plain `cp` replaces the results that were kept. It concerns the
   experiment with four rollouts per instance. A cap that fires while a server
   loads leaves the next evaluator without supervision; `OneLateUnit` bounds it to
   one unit.
4. `sweep_whole`: `--resume` asks for each instance of a job whether it has a result,
   and an instance has one as soon as one of its rollouts has. With several rollouts
   per instance a job is skipped although a rollout never happened, and the launch
   exits 0, where `launch.py:268` calls just that the expensive mistake. What remains
   true is `ExitZeroMeansCovered` (checked and proved): every instance has a result,
   and with one rollout per instance or without `--resume` every rollout has.

Met while modelling, without a run of their own:

- `shot_one.sh:105`, `:121` and `eval_arms.sh:66`, `:84`: a reason the supervisor writes
  between a failure's test of `STATUS` and its write is replaced by FAILED_AT or KILLED,
  where `shot_one.sh:103` says "the failure that follows must not overwrite that
  reason". Stated without the exception for that moment, the property is refuted by a
  signal whose trap has found no `STATUS` when the stall gate writes GATE_NOGO. The gap
  is that of two shell commands; the watchdog stops the pod on either word.
- `watchdog.sh:57`: "command not found" matches the pattern for a pod that is gone, so
  a watchdog started where `runpodctl` is not on the path logs that the pod is gone and
  exits 0 while it bills. Running the script that way confirms it. `ToolMissing` is
  that case in the model; the run and `NothingBillsUnwatched` assume it away.
- `compare.py:332`: the difference, its interval and the SIGNIFICANT line are printed
  over the intersection before "refusing to report a paired result on mismatched
  coverage"; only the exit code and the last lines say that they do not count.
- `build.py:151`: a `q_score.final` that is null raises no warning, so a package without
  any may hold rollouts without a score; `CleanPackageIsComplete` says that this is the
  only way its scores can differ from those `parse.py` reports.
- `shot_one.sh:150`, `:195`: a restart on the same pod checks out new labels and keeps
  the roots that were joined with the old ones, so the tasks of one run may stand on
  labels of two commits. `data_fingerprint` sees it only when it changes which episodes
  are kept. `AcceptedRootTrains` speaks of the labels each root was joined with.
- `health_gate.py:94` and `rung_report.py:116` set z to infinity when neither
  window has any spread: a constant loss is LEARNING and PASS, where both
  docstrings let a flat loss fail.
- `labels.py:815` formats a mean that is None for a task with no episode to label:
  the run ends with a TypeError after writing that task's manifest.
- `labels.py:139` bounds the over-credit of a prior that is too low by the number
  of unknown literals; a debit of several units is dropped whole and can exceed it.
- `validate_slice.py:188` demands `compacted`, which the merge writes as false when
  nothing was dropped: a fully labelled slice fails the check.
- `launch.py:376`: the timing manifest counts an instance as one rollout.

## Proofs

All proofs are for every value of the constants that satisfies the modules'
assumptions, which TLC evaluates in the runs. They say of what kind a constant is
(`LabelsAssumption`, `RootsAssumption`, `GateAssumption`, `TrainingAssumption`:
the action loss is on every line, and a reward is the change of the truth or, where
the collector rolled back, a debit larger than what was true: `Collected`, after
the docstring of `repair_negatives`), that a limit is not zero (`ConstantsOK`,
`EvalConstants`), that a plan names no task or instance twice
(`LaunchConstants`), that reasons and TERMINAL differ
(`ReasonsOK`), that the public test split is no smaller than the hidden one and
every outcome of an evaluator is a record the readers know (`ResultsAssumption`,
`SweepAssumption`), and the two facts about a healthy run given above
(`WatchdogConstants`); `WireConstants` gives types only.

- `ShotOneProofs`: `TypeCorrect`. Then `AttemptInv`, the inductive invariant of
  one attempt: while an attempt runs its arm is not done; a leader that exited
  with 0 has its last checkpoint final; after `kill_trainer` the group is empty
  until the next launch. It gives `DoneMeansTrained`, `AttemptsNeverOverlap`
  and `ArmsInOrder`. `DoneIsTrained` alone is not inductive: it needs to know
  where the 0 of `rc` came from. `StopInv` ties the supervisor's life to the main shell's:
  it is only ever gone because it wrote a reason or because the shell is
  finishing. It gives `NeverSilentlyUnsupervised`, `StopIsLateOnce`,
  `TerminalStaysLast`, `ReasonSurvives` (only DONE, and only over arms that are all
  trained, or a failure that had found no `STATUS`, replaces a reason), and the step
  simulation `ImplementsPodRun`, which maps a failure's test to `Looks` and its write
  to `Fails`. `BudgetInv` counts launches against attempts and the one
  free restart (`RetriesBounded`); `TestInv` orders the resume test's kill, the
  checkpoint, the marker and the first step after it (`VerdictTrue`). `Spared`
  follows the pass that first finds the checkpoint final: it began at most once
  since the trainer's last step, so its kill lands before the next save
  (`KillSparesSave`, the one theorem that needs `Paced`). `Bounded` says that the
  passes that found the attempt stuck are passes its log was silent in, and where
  the supervisor is when it has counted enough of them (`WedgesEnd`).
- `WatchdogProofs`: `DogInv` says what a stale read still implies when it is used
  (a TERMINAL that was seen means the script is over; an age that was read bounds
  the silence of the run now), which gives `WatchTypeCorrect` and
  `HealthyRunsSpared`; with the tool installed, `NothingBillsUnwatched`.
- `EvalArmsProofs`: `Typed` (`EvalTypeCorrect`; the range of `attempt` needs to
  know where in the loop the script is). `Ordered` says of every unit behind the
  current one that it is complete or counted as given up, and that nothing was
  written ahead of it: `TasksInOrder`, `DoneMeansComplete`. `Served` ties every
  server to the current unit: `NeverTheOtherPolicy`. `Supervised` says that the
  supervisor of the loop is there or has written the cap, and `LateOnce` that the
  next unit then ends the loop: `CapIsLateOnce`. `KeepInv` carries what
  `missing_instances` found up to the moment the evaluator starts, while the
  supervisor still syncs: `CompleteInstancesKept`. `HangsAreSilent` is the action
  property of the hang check, and `EvalImplementsPodRun` the step simulation.
- `SweepProofs`: first the arithmetic of `build_jobs`: every position of the
  instance list falls into one slice, so the jobs partition the grid
  (`JobsPartition`), whatever `--shards` is; and `IndicesForIds` followed by
  `ResolveIds` is the identity (`RoundTrip`). `JobsApart` keeps queue and threads
  disjoint, `OwnFiles` says that an evaluator's files still ahead are unwritten
  by anyone else: together `WritersApart`. `Accounted` says that while a launch
  runs a unit is done, queued, or ahead of a live evaluator, unless a failure is
  already counted; with `Drained` (a thread ends only at an empty queue) it gives
  `ExitZeroCovers`: no instance is without a result, and no rollout where instances
  and rollouts are one or nothing was resumed. Over the same invariant, the readers:
  `DirectoryFacts` (what a directory the launcher filled may hold), from which
  `ComparisonsAreFair` (of what is printed, before a refusal too, and of the exit code)
  and, by counting files against the grid, `PackageIsComplete`: a result with a
  `final` for each, and no difference between the scorer's means and `parse.py`'s but
  for the nulls.
- `PolicyWireProofs`: `WireTypes`, then `WireInv`: on every connection at most one
  question or one answer is on its way, it is the current one, and every earlier
  observation has its answer. Resets may lie between them in any number, which is
  why the invariant speaks of the frames that are not resets. It gives
  `AnswersInStep`, that `PolicyWire` implements `LockStep`. `CleanInv` says where
  each connection's question, answer or chunk is as long as no other connection's
  frame was mixed in (`EpisodesStartClean`).
- `TrainingDataProofs`: `Logged` says that the log is all of one arm's kind and
  that its last line of a step is the surviving training's; `Checked` that what
  both arms were checked for still holds while one trains. Then the dict of the
  whole log is the dict of the survivor, and an arm B without labels never
  passes rule 7: `VerdictSurvives`. `LabelsStay` has two halves. The labels: the
  running sums of the repaired rewards are what was gained since reset
  (`SumsOfTruth`: a change of the truth is never below the floor, a rollback's
  debit always), the first pass caps a prior that is too high to what was true and
  the other seven leave it (`CurveIsTruth`), so every label ever written is the
  truth of its frame, also of the tasks a strict run leaves as they were
  (`LabelAllTrue`). The rows: `Trees` says that a row, sliced, joined or
  renumbered, still knows its frame by the two columns the slice adds and that a
  merged one carries a label of that frame; it holds file by file, which is
  what makes it inductive while a root is half written.

- `RootLayoutProofs`: what a finished root is, for any number of demonstrations and
  files, and that it passes the repository's checks. The frames of a demonstration
  stand in the rows of all files one after the other, each demonstration once and
  nothing else (`LaidOut`); `index` is the place and `episode_index` the rank of the
  demonstration (`Built`); the table has an entry for each with its range (`Table`).
  The ground is three facts: ranks of a finite set of numbers are 0, 1, ... and
  survive a renumbering that keeps the order (`RankImage`), every row of the files
  put together has its place (`FlatIndex`), and files without a common demonstration,
  each laid out, are laid out together (`LaidFlat`). Then `PassesCheck5`,
  `PassesCheck1` and `PassesTheRest`: `validate_slice.py` and `verify` find nothing.
- `AcceptedRootProofs`: `AcceptedRootsTrain`. `AcceptedRootTrains` speaks of one
  moment only, so the inductive invariant `RootsKnown` says what every moment leaves
  behind. `BuiltRoots`: a root with a filter is finished and keeps exactly the
  demonstrations fully labelled by the labels it was joined with (`used`), whoever wrote
  it and when (the filter is written last, a new pod takes root and filter away
  together, and a start that checks out other labels touches neither). `Working`: what the step the
  script is at may rely on (`AtWork`): the files before the current one are cut,
  joined or renumbered, and during the compaction those after it still carry the
  slice's numbers; of what a build that died left nothing is said, since the next one
  begins with an empty tree. `Progress`: the roots
  of the tasks behind have their filters. `TrainedOn`: the episodes of the first
  accepted data are those the fingerprint on the volume names, which is why a pod with
  new labels cannot train on others. One lemma per file operation carries the
  content (`SliceFileWorks`, `MergeFileWorks`, `CompactFileWorks`,
  `CompactMetaWorks`), one per action the step.

Recursive functions (`Kept` in `Launch`, the fold inside `MapThenSumSet`, `Sums` and
`Curve` in `Labels`, `FlattenSeq`) are unfolded without the library's induction
theorems, which cannot be used here: `Climb` states induction up to N for a set in
place of a predicate, proved by a least counterexample.

Model-checked only: liveness (`InvocationEnds`, `BillingEnds`, `StuckEnds`, `RolloutsEnd`,
`SweepEnds`), which is beyond the prover.

## Plan

In this order, most important first.

1. `ShotTwoChain`: a client of two `STATUS` files.
2. The stall gate's window arithmetic, beside the health gate's.

## Not modelled

- `shot_two_chain.sh`: a loop over two `STATUS` files; next in the plan.
- Power, noise floor, lambda calibration, goal census, bootstrap intervals, tables:
  real arithmetic over finished data, without state.
- Installers, preflight, probes, benchmarks: straight-line commands on one machine.
- Norm statistics and their comparison: numeric passes over real data.
- merge `--in-place`, video files, label manifests, the stall gate: see above.
- The simulator, openpi, LeRobot, orbax: external, modelled only as the scripts use
  them.
