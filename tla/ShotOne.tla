------------------------------- MODULE ShotOne -------------------------------
(* One volume, the script scripts/shot_one.sh that trains two arms on it, the *)
(* script's background supervisor and the trainer's process group.  The       *)
(* script (main), the supervisor (sup) and the trainer run concurrently and    *)
(* meet only in files on the volume and in signals to the process group.  A    *)
(* pod may die between any two steps; the next invocation finds the volume.    *)
(*                                                                            *)
(* Units: a training step here is SAVE_EVERY/SaveEvery optimiser steps; time   *)
(* is counted in supervisor passes (`sleep 60`).                               *)
EXTENDS Integers, Sequences, FiniteSets

CONSTANTS
    Steps,          \* STEPS, in training steps of the model
    SaveEvery,      \* SAVE_EVERY
    HealthStep,     \* HEALTH_CHECK_STEP
    MaxRetries,     \* MAX_RETRIES
    StallPasses,    \* STALL_MINUTES, in supervisor passes
    Deadline,       \* MAX_HOURS, in supervisor passes
    GateEnforce,    \* GATE_ENFORCE = 1
    WarmStart,      \* INIT_PARAMS is set: stage 3b runs
    MaxFaults,      \* bound: crashes, hangs, bad losses, signals, pod deaths
    MaxInvocations  \* bound: times the script is started on this volume

ASSUME ConstantsOK ==
    /\ Steps \in Nat /\ SaveEvery \in Nat \ {0} /\ SaveEvery < Steps
    /\ HealthStep \in Nat /\ MaxRetries \in Nat
    /\ StallPasses \in Nat \ {0} /\ Deadline \in Nat \ {0}
    /\ GateEnforce \in BOOLEAN /\ WarmStart \in BOOLEAN
    /\ MaxFaults \in Nat /\ MaxInvocations \in Nat

Arms == {"A", "B"}
Jobs == Arms \union {"smoke"}      \* what a trainer process group trains
NoDir == -1                        \* no checkpoint directory yet
NoStep == -1                       \* no step logged

\* Why the supervisor stops a run; the other words STATUS can start with.
StopReasons == {"CAP_HIT", "GATE_NOGO", "HEALTH_FAIL", "RESUME_BROKEN"}
Endings == {"DONE", "FAILED_AT", "KILLED", "EXITED"}

VARIABLES
    \* files on the volume
    status,     \* STATUS: its lines, <<>> when the file does not exist
    done,       \* the arms with a .done marker
    ckpt,       \* per arm: the finalised checkpoint (0: an empty directory)
    stale,      \* per arm: an orbax tmp directory left by a dead trainer
    log,        \* per arm: what the gates read from train_arm?.log
    gate,       \* gate.txt
    health,     \* per arm: health_arm?.txt
    killed, restarted, verdict,   \* resume_test.killed, .restarted, .txt
    smoked,     \* smoke_armB.ok
    \* the main shell
    mpc, arm, attempt, rc, sig,
    \* the trainer's process group, the one trainer.pgid names
    lead,       \* its leader
    kids,       \* dataloader workers that outlived the leader
    job, cur, saving, trc,
    \* the supervisor subshell
    spc, ret, orphans, mine,
    clock,      \* passes since T_START
    quiet,      \* per arm: passes since train_arm?.log was written
    gap,        \* passes begun since the trainer's last step
    \* history
    leftover,   \* a launch found processes of an earlier trainer
    launches,   \* trainer launches by run_arm in this invocation
    free,       \* restarts that spent no retry, over the life of the volume
    missed,     \* a stop's kill found no trainer in the group
    late,       \* per arm: launches after a stop reason was recorded
    age,        \* passes since the trainer was launched
    wedged,     \* passes in a row that found the trainer hung, or dead but holding the pipe
    restarts,   \* how arm A's trainers restarted once the resume test had fired
    faults, invocations

files == <<status, done, ckpt, stale, log, gate, health, killed, restarted, verdict, smoked>>
main == <<mpc, arm, attempt, rc, sig>>
group == <<lead, kids, job, cur, saving, trc>>
sup == <<spc, ret, orphans, mine>>
time == <<clock, quiet, gap, age, wedged>>
counts == <<leftover, launches, free, missed, late, restarts>>
bounds == <<faults, invocations>>
vars == <<files, main, group, sup, time, counts, bounds>>

NewLog == [open |-> FALSE, top |-> NoStep, bad |-> FALSE, mark |-> FALSE, first |-> NoStep]

Init ==
    /\ status = <<>> /\ done = {} /\ gate = "none" /\ smoked = FALSE
    /\ ckpt = [a \in Arms |-> NoDir] /\ stale = [a \in Arms |-> FALSE]
    /\ log = [a \in Arms |-> NewLog] /\ health = [a \in Arms |-> "none"]
    /\ killed = FALSE /\ restarted = FALSE /\ verdict = "none"
    /\ mpc = "down" /\ arm = "A" /\ attempt = 0 /\ rc = 1 /\ sig = FALSE
    /\ lead = "none" /\ kids = "none" /\ job = "A" /\ cur = 0 /\ saving = FALSE /\ trc = 1
    /\ spc = "off" /\ ret = "off" /\ orphans = 0 /\ mine = FALSE
    /\ clock = 0 /\ quiet = [a \in Arms |-> 0] /\ gap = 0 /\ age = 0 /\ wedged = 0
    /\ leftover = FALSE /\ launches = 0 /\ free = 0 /\ missed = FALSE /\ late = [a \in Arms |-> 0] /\ restarts = {}
    /\ faults = 0 /\ invocations = 0

Min2(m, n) == IF m < n THEN m ELSE n

-----------------------------------------------------------------------------
(* The trainer's process group *)

\* A group member exists under the recorded pgid.  A trainer that has not yet
\* called setsid ("forming") is not in that group: kill -- -$g misses it.
LeaderAlive == lead \in {"starting", "live", "hung"}
GroupAlive == LeaderAlive \/ kids # "none"

\* Workers that outlive their leader: none, some that hold the output pipe,
\* some that do not.
Orphans == {"none", "pipe", "silent"}

\* An unfinished save leaves its tmp directory.
LeavesTmp == IF saving /\ job \in Arms THEN [stale EXCEPT ![job] = TRUE] ELSE stale

\* The leader ends with status r.
LeaderEnds(r, orphanage) ==
    /\ lead' = "dead" /\ trc' = r /\ kids' = orphanage /\ saving' = FALSE
    /\ stale' = LeavesTmp

GroupSpared == UNCHANGED <<group, stale>>

\* kill -KILL: nothing of the group remains.
GroupKilled ==
    /\ IF LeaderAlive THEN LeaderEnds(1, "none")
                      ELSE kids' = "none" /\ UNCHANGED <<lead, trc, saving, stale>>
    /\ UNCHANGED <<job, cur>>

\* exec setsid: the recorded pid becomes a group leader.
TrainerSetsid ==
    /\ lead = "forming" /\ lead' = "starting"
    /\ UNCHANGED <<files, main, kids, job, cur, saving, trc, sup, time, counts, bounds>>

\* The trainer is up and logs.  --resume was passed iff the directory existed;
\* a broken resume restarts from step 0 (what the resume test looks for).
TrainerUp ==
    /\ lead = "starting" /\ lead' = "live"
    /\ IF job \in Arms
       THEN \E good \in BOOLEAN, cleaned \in BOOLEAN :
              /\ good \/ (ckpt[job] > 0 /\ faults < MaxFaults)
              /\ faults' = IF good THEN faults ELSE faults + 1
              /\ cur' = IF good /\ ckpt[job] > 0 THEN ckpt[job] ELSE 0
              /\ restarts' = IF job = "A" /\ killed
                             THEN restarts \union {IF good THEN "good" ELSE "broken"}
                             ELSE restarts
              /\ ckpt' = [ckpt EXCEPT ![job] = IF @ = NoDir THEN 0 ELSE @]
              /\ stale' = IF cleaned THEN [stale EXCEPT ![job] = FALSE] ELSE stale
              /\ quiet' = [quiet EXCEPT ![job] = 0] /\ gap' = 0
       ELSE cur' = 1 /\ UNCHANGED <<restarts, ckpt, stale, quiet, gap, faults>>
    /\ UNCHANGED <<status, done, log, gate, health, killed, restarted, verdict, smoked,
                   main, kids, job, saving, trc, sup, clock, age, wedged,
                   leftover, launches, free, missed, late, invocations>>

\* A step lasts longer than a supervisor pass: a whole pass separates two steps
\* unless nobody supervises.
Paced == gap >= 2 \/ spc \in {"off", "gone"}

\* A step's line in the log; only a step after a restart marker counts as first.
LoggedUnmarked(l, bad) ==
    [open |-> TRUE, mark |-> l.mark, bad |-> l.bad \/ bad,
     top |-> IF cur > l.top THEN cur ELSE l.top,
     first |-> IF l.first = NoStep THEN cur ELSE l.first]
Logged(l, bad) ==
    [open |-> TRUE, mark |-> l.mark, bad |-> l.bad \/ bad,
     top |-> IF cur > l.top THEN cur ELSE l.top,
     first |-> IF l.mark /\ l.first = NoStep THEN cur ELSE l.first]

TrainStep ==
    /\ lead = "live" /\ job \in Arms /\ cur < Steps /\ ~saving /\ Paced
    /\ \E bad \in BOOLEAN :
         /\ bad => faults < MaxFaults
         /\ faults' = IF bad THEN faults + 1 ELSE faults
         /\ log' = [log EXCEPT ![job] = Logged(@, bad)]
    /\ cur' = cur + 1 /\ gap' = 0
    /\ saving' = (cur' % SaveEvery = 0 \/ cur' = Steps)
    /\ quiet' = [quiet EXCEPT ![job] = 0]
    /\ UNCHANGED <<status, done, ckpt, stale, gate, health, killed, restarted, verdict, smoked,
                   main, lead, kids, job, trc, sup, clock, age, wedged, counts, invocations>>

\* orbax renames the finished tmp directory; max_to_keep = 1 drops the older one.
SaveFinal ==
    /\ lead = "live" /\ job \in Arms /\ saving
    /\ saving' = FALSE /\ ckpt' = [ckpt EXCEPT ![job] = cur] /\ gap' = 0
    /\ stale' = [stale EXCEPT ![job] = FALSE]
    /\ UNCHANGED <<status, done, log, gate, health, killed, restarted, verdict, smoked,
                   main, lead, kids, job, cur, trc, sup, clock, quiet, age, wedged, counts, bounds>>

\* train_b1k_rooted.py returns 0 only after the last step is trained and saved.
TrainerExit ==
    /\ lead = "live" /\ job \in Arms /\ cur = Steps /\ ~saving
    /\ \E o \in Orphans : LeaderEnds(0, o)
    /\ UNCHANGED <<status, done, ckpt, log, gate, health, killed, restarted, verdict, smoked,
                   main, job, cur, sup, time, counts, bounds>>

TrainerCrash ==
    /\ lead \in {"starting", "live"} /\ faults < MaxFaults /\ faults' = faults + 1
    /\ \E o \in Orphans : LeaderEnds(1, o)
    /\ UNCHANGED <<status, done, ckpt, log, gate, health, killed, restarted, verdict, smoked,
                   main, job, cur, sup, time, counts, invocations>>

TrainerHang ==
    /\ lead \in {"starting", "live"} /\ faults < MaxFaults /\ faults' = faults + 1
    /\ lead' = "hung"
    /\ UNCHANGED <<files, main, kids, job, cur, saving, trc, sup, time, counts, invocations>>

Trainer == TrainerSetsid \/ TrainerUp \/ TrainStep \/ SaveFinal \/ TrainerExit
Faults == TrainerCrash \/ TrainerHang

-----------------------------------------------------------------------------
(* The main shell *)

Note(word) == status' = Append(status, word)
Overwrite(word) == status' = <<word>>                    \* status ()

FailOverwrites == Overwrite("FAILED_AT") /\ mpc' = "exit"

\* fail (), its test: a STATUS that is there gets a line more (the supervisor, which
\* writes one reason and returns, does not come between).
Fail == IF status = <<>> THEN mpc' = "failing" /\ UNCHANGED status
                         ELSE Note("FAILED_AT") /\ mpc' = "exit"

\* fail (), its write, when the test found none: the supervisor may have come between.
FailWrites ==
    /\ mpc = "failing" /\ Overwrite("FAILED_AT") /\ mpc' = "exit"
    /\ UNCHANGED <<done, ckpt, stale, log, gate, health, killed, restarted, verdict, smoked,
                   arm, attempt, rc, sig, group, sup, time, counts, bounds>>

\* mkdir, traps, rm -f STATUS.  The pod is a new one; the logs it finds on the
\* volume may be old.
Invoke ==
    /\ mpc \in {"down", "ended"} /\ invocations < MaxInvocations
    /\ invocations' = invocations + 1
    /\ mpc' = "prepare" /\ status' = <<>> /\ sig' = FALSE
    /\ clock' = 0 /\ gap' = 0 /\ wedged' = 0 /\ launches' = 0
    /\ missed' = FALSE /\ late' = [a \in Arms |-> 0]
    /\ \E old \in BOOLEAN :
         quiet' = [a \in Arms |-> IF old /\ log[a].open THEN StallPasses ELSE quiet[a]]
    /\ lead' = "none" /\ kids' = "none" /\ saving' = FALSE
    /\ stale' = LeavesTmp
    /\ UNCHANGED <<done, ckpt, log, gate, health, killed, restarted, verdict, smoked,
                   arm, attempt, rc, job, cur, trc, sup, age,
                   leftover, free, restarts, faults>>

\* Stages 0-3: set up, data, norm stats, both configs proven.
Prepare ==
    /\ mpc = "prepare"
    /\ \/ mpc' = "smoke" /\ UNCHANGED status
       \/ Fail
    /\ UNCHANGED <<done, ckpt, stale, log, gate, health, killed, restarted, verdict, smoked,
                   arm, attempt, rc, sig, group, sup, time, counts, bounds>>

\* Stage 3b: a short real run of arm B into a scratch directory, in the background.
SmokeStart ==
    /\ mpc = "smoke"
    /\ IF WarmStart /\ ~smoked
       THEN mpc' = "smoking" /\ lead' = "forming" /\ kids' = "none" /\ job' = "smoke" /\ cur' = 0
       ELSE mpc' = "supervise" /\ UNCHANGED <<lead, kids, job, cur>>
    /\ UNCHANGED <<files, arm, attempt, rc, sig, saving, trc, sup, time, counts, bounds>>

\* The step was logged (cur = 1), the trainer died or 30 minutes passed: kill it and judge.
SmokeEnd ==
    /\ mpc = "smoking" /\ lead # "forming"
    /\ lead' = "none" /\ kids' = "none"
    /\ \/ cur = 1 /\ smoked' = TRUE /\ mpc' = "supervise" /\ UNCHANGED status
       \/ Fail /\ UNCHANGED smoked
    /\ UNCHANGED <<done, ckpt, stale, log, gate, health, killed, restarted, verdict,
                   arm, attempt, rc, sig, job, cur, saving, trc, sup, time, counts, bounds>>

\* supervise & ; then run_arm armA.
Supervise ==
    /\ mpc = "supervise" /\ mpc' = "arm" /\ arm' = "A"
    /\ spc' = "sleep" /\ ret' = "sleep" /\ orphans' = 0 /\ mine' = FALSE
    /\ UNCHANGED <<files, attempt, rc, sig, group, time, counts, bounds>>

NextStage(a) == IF a = "A" THEN mpc' = "arm" /\ arm' = "B" ELSE mpc' = "manifest" /\ arm' = a

ArmBegin ==
    /\ mpc = "arm"
    /\ IF arm \in done
       THEN NextStage(arm) /\ UNCHANGED <<attempt, rc>>
       ELSE mpc' = "launch" /\ attempt' = 0 /\ rc' = 1 /\ UNCHANGED arm
    /\ UNCHANGED <<files, sig, group, sup, time, counts, bounds>>

Opened(l) == [l EXCEPT !.open = TRUE]
Marked(l) == [l EXCEPT !.open = TRUE, !.mark = TRUE]      \* RESUME_TEST_RESTART

\* The top of run_arm's loop: the trainer pipeline starts in the foreground.
\* Opening an existing log to append does not touch its mtime.
Launch ==
    /\ mpc = "launch" /\ mpc' = "wait"
    /\ IF ckpt[arm] # NoDir /\ killed /\ verdict = "none"
       THEN log' = [log EXCEPT ![arm] = Marked(@)] /\ quiet' = [quiet EXCEPT ![arm] = 0]
       ELSE log' = [log EXCEPT ![arm] = Opened(@)] /\ UNCHANGED quiet
    /\ lead' = "forming" /\ kids' = "none" /\ job' = arm /\ saving' = FALSE /\ mine' = FALSE
    /\ leftover' = (leftover \/ GroupAlive)
    /\ launches' = launches + 1 /\ age' = 0 /\ gap' = 0 /\ wedged' = 0
    /\ late' = IF status # <<>> THEN [late EXCEPT ![arm] = @ + 1] ELSE late
    /\ UNCHANGED <<status, done, ckpt, stale, gate, health, killed, restarted, verdict, smoked,
                   arm, attempt, rc, sig, cur, trc, spc, ret, orphans, clock,
                   free, missed, restarts, bounds>>

\* pipefail: the pipeline's status is the trainer's, not the timestamper's.
TimestamperStatus == 0
PipelineStatus == trc

\* The pipeline ends when its last writer is gone.
PipelineEnds ==
    /\ mpc = "wait" /\ lead = "dead" /\ kids # "pipe"
    /\ rc' = PipelineStatus /\ mpc' = "reap"
    /\ UNCHANGED <<files, arm, attempt, sig, group, sup, time, counts, bounds>>

GroupLeft == UNCHANGED <<lead, kids>>
GroupReaped == lead' = "none" /\ kids' = "none"

\* kill_trainer after every attempt.
ReapAttempt ==
    /\ mpc = "reap" /\ mpc' = "decide"
    /\ GroupReaped
    /\ UNCHANGED <<files, arm, attempt, rc, sig, job, cur, saving, trc, sup, time, counts, bounds>>

\* rc 0: leave the loop and write the .done marker, without looking at STATUS.
Succeeded ==
    /\ mpc = "decide" /\ rc = 0
    /\ done' = done \union {arm} /\ NextStage(arm)
    /\ UNCHANGED <<status, ckpt, stale, log, gate, health, killed, restarted, verdict, smoked,
                   attempt, rc, sig, group, sup, time, counts, bounds>>

NeverStopping == FALSE
Stopping == status # <<>>

\* A stop reason is on disk: no retry.
Stopped ==
    /\ mpc = "decide" /\ rc # 0 /\ Stopping /\ mpc' = "armfailed"
    /\ UNCHANGED <<files, arm, attempt, rc, sig, group, sup, time, counts, bounds>>

RestartUnrecorded == UNCHANGED restarted
TouchRestarted == restarted' = TRUE

\* The resume test's own kill: restart without spending a retry, once.
TestRestart ==
    /\ mpc = "decide" /\ rc # 0 /\ ~Stopping /\ killed /\ ~restarted
    /\ TouchRestarted /\ free' = free + 1 /\ mpc' = "launch"
    /\ log' = [log EXCEPT ![arm] = Marked(@)] /\ quiet' = [quiet EXCEPT ![arm] = 0]
    /\ UNCHANGED <<status, done, ckpt, stale, gate, health, killed, verdict, smoked,
                   arm, attempt, rc, sig, group, sup, clock, gap, age, wedged,
                   leftover, launches, missed, late, restarts, bounds>>

\* A crash: AUTO_RESUME and sleep 30, MAX_RETRIES times.
Retry ==
    /\ mpc = "decide" /\ rc # 0 /\ ~Stopping /\ ~(killed /\ ~restarted)
    /\ attempt' = attempt + 1
    /\ IF attempt' <= MaxRetries
       THEN mpc' = "sleep" /\ quiet' = [quiet EXCEPT ![arm] = 0]
       ELSE mpc' = "armfailed" /\ UNCHANGED quiet
    /\ UNCHANGED <<files, arm, rc, sig, group, sup, clock, gap, age, wedged, counts, bounds>>

Awake ==
    /\ mpc = "sleep" /\ mpc' = "launch"
    /\ UNCHANGED <<files, arm, attempt, rc, sig, group, sup, time, counts, bounds>>

ArmFailsGoOn ==
    /\ mpc = "armfailed" /\ NextStage(arm)
    /\ UNCHANGED <<files, attempt, rc, sig, group, sup, time, counts, bounds>>

\* run_arm ... || fail
ArmFails ==
    /\ mpc = "armfailed" /\ Fail
    /\ UNCHANGED <<done, ckpt, stale, log, gate, health, killed, restarted, verdict, smoked,
                   arm, attempt, rc, sig, group, sup, time, counts, bounds>>

\* Stage 6: the manifest, then status DONE.
Manifest ==
    /\ mpc = "manifest" /\ Overwrite("DONE") /\ mpc' = "exit"
    /\ UNCHANGED <<done, ckpt, stale, log, gate, health, killed, restarted, verdict, smoked,
                   arm, attempt, rc, sig, group, sup, time, counts, bounds>>

SupervisorLeft == UNCHANGED spc
SupervisorKilled == spc' = "off"

\* trap finish EXIT: stop the supervisor, then leave TERMINAL.
FinishKill ==
    /\ mpc = "exit" /\ mpc' = "finish" /\ SupervisorKilled
    /\ UNCHANGED <<files, arm, attempt, rc, sig, group, ret, orphans, mine, time, counts, bounds>>

FinishStatus ==
    /\ mpc = "finish" /\ mpc' = "ended"
    /\ status' = Append(IF status = <<>> THEN <<"EXITED">> ELSE status, "TERMINAL")
    /\ UNCHANGED <<done, ckpt, stale, log, gate, health, killed, restarted, verdict, smoked,
                   arm, attempt, rc, sig, group, sup, time, counts, bounds>>

\* SIGTERM to the shell: the trap runs once no foreground command is running.
Signal ==
    /\ mpc \notin {"down", "trapping", "exit", "finish", "ended"} /\ ~sig /\ faults < MaxFaults
    /\ sig' = TRUE /\ faults' = faults + 1
    /\ UNCHANGED <<files, mpc, arm, attempt, rc, group, sup, time, counts, invocations>>

Trap ==
    /\ sig /\ mpc \notin {"down", "wait", "trapping", "exit", "finish", "ended"}
    /\ mpc' = IF status = <<>> THEN "trapping" ELSE "exit"
    /\ UNCHANGED <<files, arm, attempt, rc, sig, group, sup, time, counts, bounds>>

\* The trap's write, as late as fail's.
TrapWrites ==
    /\ mpc = "trapping" /\ Overwrite("KILLED") /\ mpc' = "exit"
    /\ UNCHANGED <<done, ckpt, stale, log, gate, health, killed, restarted, verdict, smoked,
                   arm, attempt, rc, sig, group, sup, time, counts, bounds>>

\* The pod dies: every process is gone, the volume stays.
PodDies ==
    /\ mpc \notin {"down", "ended"} /\ faults < MaxFaults /\ faults' = faults + 1
    /\ mpc' = "down" /\ spc' = "off" /\ lead' = "none" /\ kids' = "none" /\ saving' = FALSE
    /\ stale' = LeavesTmp
    /\ UNCHANGED <<status, done, ckpt, log, gate, health, killed, restarted, verdict, smoked,
                   arm, attempt, rc, sig, job, cur, trc, ret, orphans, mine, time, counts,
                   invocations>>

\* A pending signal is handled before the next command.
Working == \/ Prepare \/ SmokeStart \/ SmokeEnd \/ Supervise \/ ArmBegin \/ Launch
           \/ ReapAttempt \/ Succeeded \/ Stopped \/ TestRestart \/ Retry
           \/ Awake \/ ArmFails \/ FailWrites \/ Manifest
Main == (~sig /\ Working) \/ PipelineEnds \/ Trap \/ TrapWrites \/ FinishKill \/ FinishStatus

-----------------------------------------------------------------------------
(* The supervisor: one pass per `sleep 60` *)

\* A step of the supervisor that only moves to the next check.
Goto(from, to) == spc = from /\ spc' = to

\* kill_trainer, called from one check and returning to another.
CallKill(then) == spc' = "term" /\ ret' = then

StopSilently(reason) == CallKill("gone") /\ UNCHANGED status

\* A deliberate stop: STATUS first, then kill_trainer, then return.
StopRun(reason) == Overwrite(reason) /\ CallKill("gone")

Wake ==
    /\ Goto("sleep", "reap")
    /\ clock' = Min2(clock + 1, Deadline) /\ gap' = Min2(gap + 1, 2)
    /\ age' = Min2(age + 1, StallPasses)
    /\ quiet' = [a \in Arms |-> IF ~log[a].open \/ (lead = "live" /\ job = a) THEN 0
                                ELSE Min2(quiet[a] + 1, StallPasses)]
    /\ wedged' = IF lead = "hung" \/ (lead = "dead" /\ kids = "pipe")
                 THEN Min2(wedged + 1, StallPasses + 3) ELSE 0
    /\ UNCHANGED <<files, main, group, ret, orphans, mine, counts, bounds>>

OrphansUncleared(n) == n + 1
OrphansSeen(n) == IF n + 1 >= 2 THEN 0 ELSE n + 1        \* ORPHAN_GRACE_LOOPS = 2

\* reap_orphans: the leader is gone, the group is not, for two passes.
ReapOrphans ==
    /\ Goto("reap", "hung")
    /\ IF lead = "dead" /\ kids # "none"
       THEN /\ orphans' = OrphansSeen(orphans)
            /\ IF orphans + 1 >= 2 THEN kids' = "none" ELSE UNCHANGED kids
       ELSE orphans' = 0 /\ UNCHANGED kids
    /\ UNCHANGED <<files, main, lead, job, cur, saving, trc, ret, mine, time, counts, bounds>>

\* The log the hang check reads: that of the first arm not done.
LiveArm == IF "A" \in done THEN "B" ELSE "A"
NeverSilent == FALSE
Silent == GroupAlive /\ done # Arms /\ quiet[LiveArm] >= StallPasses

CheckHung ==
    /\ spc = "hung"
    /\ IF Silent THEN CallKill("cap") ELSE spc' = "cap" /\ UNCHANGED ret
    /\ UNCHANGED <<files, main, group, orphans, mine, time, counts, bounds>>

CheckCap ==
    /\ spc = "cap"
    /\ IF clock >= Deadline THEN StopRun("CAP_HIT")
                            ELSE spc' = "gate" /\ UNCHANGED <<status, ret>>
    /\ UNCHANGED <<done, ckpt, stale, log, gate, health, killed, restarted, verdict, smoked,
                   main, group, orphans, mine, time, counts, bounds>>

\* stall_gate: 3 WAIT until GATE_STEP is logged, then GO or NOGO, once.
CheckGate ==
    /\ spc = "gate"
    /\ IF gate = "none" /\ log["A"].top # NoStep
       THEN \E v \in {"GO", "NOGO"} :
              /\ gate' = v
              /\ IF v = "NOGO" /\ GateEnforce
                 THEN StopRun("GATE_NOGO")
                 ELSE spc' = "healthA" /\ UNCHANGED <<status, ret>>
       ELSE spc' = "healthA" /\ UNCHANGED <<gate, status, ret>>
    /\ UNCHANGED <<done, ckpt, stale, log, health, killed, restarted, verdict, smoked,
                   main, group, orphans, mine, time, counts, bounds>>

\* health_gate on an arm that is not done: FAIL on a bad loss, PASS at the check step.
HealthVerdict(a) == IF log[a].bad THEN "FAIL"
                    ELSE IF log[a].top >= HealthStep THEN "PASS" ELSE "WAIT"

CheckHealth(a, from, failed, next) ==
    /\ spc = from
    /\ IF a \notin done /\ HealthVerdict(a) = "FAIL"
       THEN spc' = failed /\ UNCHANGED health
       ELSE /\ spc' = next
            /\ IF a \notin done /\ HealthVerdict(a) = "PASS" /\ health[a] = "none"
               THEN health' = [health EXCEPT ![a] = "PASS"] ELSE UNCHANGED health
    /\ UNCHANGED <<status, done, ckpt, stale, log, gate, killed, restarted, verdict, smoked,
                   main, group, ret, orphans, mine, time, counts, bounds>>

\* The gate's process has exited 1: record it and stop, whatever happened meanwhile.
HealthFails(a, failed) ==
    /\ spc = failed
    /\ health' = [health EXCEPT ![a] = "FAIL"] /\ StopRun("HEALTH_FAIL")
    /\ UNCHANGED <<done, ckpt, stale, log, gate, killed, restarted, verdict, smoked,
                   main, group, orphans, mine, time, counts, bounds>>

CheckHealths == \/ CheckHealth("A", "healthA", "failA", "healthB")
                \/ CheckHealth("B", "healthB", "failB", "test")
                \/ HealthFails("A", "failA") \/ HealthFails("B", "failB")

\* Arm A's first checkpoint is final and no save is in flight: kill once.
CheckpointReached == cur = SaveEvery /\ job = "A" /\ lead = "live"
CheckpointFinal ==
    ckpt["A"] = SaveEvery /\ ~stale["A"] /\ ~(saving /\ job = "A")

ResumeTestKill ==
    /\ spc = "test"
    /\ IF ~killed /\ CheckpointFinal
       THEN killed' = TRUE /\ CallKill("verify")
       ELSE spc' = "verify" /\ UNCHANGED <<killed, ret>>
    /\ UNCHANGED <<status, done, ckpt, stale, log, gate, health, restarted, verdict, smoked,
                   main, group, orphans, mine, time, counts, bounds>>

\* The first step logged after a restart marker must be past the checkpoint.
FirstStep == log["A"].first

ResumeTestVerify ==
    /\ spc = "verify"
    /\ IF killed /\ verdict = "none" /\ FirstStep # NoStep
       THEN IF FirstStep >= SaveEvery
            THEN verdict' = "PASS" /\ spc' = "sleep" /\ UNCHANGED <<status, ret>>
            ELSE verdict' = "FAIL" /\ StopRun("RESUME_BROKEN")
       ELSE spc' = "sleep" /\ UNCHANGED <<verdict, status, ret>>
    /\ UNCHANGED <<done, ckpt, stale, log, gate, health, killed, restarted, smoked,
                   main, group, orphans, mine, time, counts, bounds>>

\* kill_trainer, first half: TERM.  Any member may outlive it, and a trainer
\* still "forming" is not in the group at all.
KillTerm ==
    /\ spc = "term"
    /\ IF GroupAlive
       THEN /\ spc' = "poll" /\ mine' = TRUE
            /\ \/ UNCHANGED <<lead, kids, trc, saving, stale>>
               \/ LeaderAlive /\ \E o \in Orphans : LeaderEnds(1, o)
               \/ ~LeaderAlive /\ kids' = "none" /\ UNCHANGED <<lead, trc, saving, stale>>
       ELSE spc' = ret /\ UNCHANGED <<mine, lead, kids, trc, saving, stale>>
    /\ missed' = (missed \/ (ret = "gone" /\ ~GroupAlive))
    /\ UNCHANGED <<status, done, ckpt, log, gate, health, killed, restarted, verdict, smoked,
                   main, job, cur, ret, orphans, time, leftover, launches, free, late,
                   restarts, bounds>>

\* Second half: poll for 30 s, then KILL the group read at the start, which a
\* launch since then is not part of.
KillPoll ==
    /\ spc = "poll" /\ spc' = ret /\ mine' = FALSE
    /\ IF mine /\ GroupAlive THEN GroupKilled
                             ELSE UNCHANGED <<group, stale>>
    /\ UNCHANGED <<status, done, ckpt, log, gate, health, killed, restarted, verdict, smoked,
                   main, ret, orphans, time, counts, bounds>>

Supervisor == \/ Wake \/ ReapOrphans \/ CheckHung \/ CheckCap \/ CheckGate \/ CheckHealths
              \/ ResumeTestKill \/ ResumeTestVerify \/ KillTerm \/ KillPoll

Next == Invoke \/ Main \/ Supervisor \/ Trainer \/ Faults \/ Signal \/ PodDies

Spec == Init /\ [][Next]_vars

-----------------------------------------------------------------------------
(* Properties *)

\* The type invariant: every variable holds a value the script can give it.
StatusType == status \in Seq(StopReasons \union Endings \union {"TERMINAL"})
LogRecord == [open : BOOLEAN, top : Int, bad : BOOLEAN, mark : BOOLEAN, first : Int]
FilesType ==
    /\ done \subseteq Arms /\ ckpt \in [Arms -> Int] /\ stale \in [Arms -> BOOLEAN]
    /\ log \in [Arms -> LogRecord]
    /\ gate \in {"none", "GO", "NOGO"} /\ health \in [Arms -> {"none", "PASS", "FAIL"}]
    /\ killed \in BOOLEAN /\ restarted \in BOOLEAN /\ verdict \in {"none", "PASS", "FAIL"}
    /\ smoked \in BOOLEAN
MainType ==
    /\ mpc \in {"down", "prepare", "smoke", "smoking", "supervise", "arm", "launch", "wait",
                "reap", "decide", "sleep", "armfailed", "failing", "manifest", "trapping",
                "exit", "finish", "ended"}
    /\ arm \in Arms /\ attempt \in Nat /\ rc \in {0, 1} /\ sig \in BOOLEAN
GroupType ==
    /\ lead \in {"none", "forming", "starting", "live", "hung", "dead"}
    /\ kids \in Orphans /\ job \in Jobs /\ cur \in Nat /\ saving \in BOOLEAN /\ trc \in {0, 1}
SupType ==
    /\ spc \in {"off", "gone", "sleep", "reap", "hung", "cap", "gate", "healthA", "failA",
                "healthB", "failB", "test", "verify", "term", "poll"}
    /\ ret \in {"off", "gone", "sleep", "cap", "verify"}
    /\ orphans \in {0, 1} /\ mine \in BOOLEAN
CountsType ==
    /\ clock \in Nat /\ quiet \in [Arms -> Nat] /\ gap \in Nat /\ age \in Nat /\ wedged \in Nat
    /\ leftover \in BOOLEAN /\ missed \in BOOLEAN /\ launches \in Nat /\ free \in Nat
    /\ late \in [Arms -> Nat] /\ restarts \subseteq {"good", "broken"}
    /\ faults \in Nat /\ invocations \in Nat
TypeOK == StatusType /\ FilesType /\ MainType /\ GroupType /\ SupType /\ CountsType

\* "A failed run must not read as done": whatever crashes, kills, hangs, retries
\* and pod deaths came between, an arm's .done marker stands for a finalised
\* checkpoint of its last step.
DoneIsTrained == \A a \in done : ckpt[a] = Steps

\* Nothing of an attempt survives into the next one of the same invocation (GPU
\* memory, the pipe), whoever killed it and however it died.
NoOverlap == ~leftover

\* Arm B is only ever trained after arm A finished.
ArmOrder == GroupAlive /\ job = "B" => "A" \in done

\* Retries per invocation are bounded, and the restart that costs none happens
\* once in the life of the volume, pod deaths and re-invocations included.
RetryBudget == free <= 1 /\ launches <= 2 * (MaxRetries + 1) + free

\* A trainer runs without a supervisor only if a stop reason is on disk.
UnsupervisedOnlyAfterStop ==
    mpc = "wait" /\ spc \in {"off", "gone"} => status # <<>>

\* The stop a missed kill loses costs at most one more attempt per arm: the next
\* failure reads STATUS and ends the run.
OneLateLaunchPerArm == \A a \in Arms : late[a] <= 1

\* The resume test's verdict is about a restart that happened: PASS only if some
\* trainer really continued from the checkpoint, FAIL only if one did not.
VerdictIsTrue ==
    /\ verdict = "PASS" => "good" \in restarts
    /\ verdict = "FAIL" => "broken" \in restarts

\* The resume test's kill never hits a save in flight ("could corrupt the only
\* checkpoint"), although the check and the kill are separate steps.
TestKillSparesSave == spc \in {"term", "poll"} /\ ret = "verify" => ~(saving /\ job = "A")

\* The 14.5 h deadlock: a supervised run never waits on a hung trainer, or on a
\* dead one whose workers hold the pipe, past the hang limit.
NeverWedged == spc \in {"off", "gone"} \/ wedged <= StallPasses

\* Nothing is written to STATUS after TERMINAL until the next invocation, so the
\* watchdog's reason is the run's last word.
TerminalIsLast ==
    [][status # <<>> /\ status[Len(status)] = "TERMINAL" => status' \in {status, <<>>}]_vars

\* Main has found no STATUS and is about to write one.
Committed == mpc \in {"failing", "trapping"}

\* "The failure that follows must not overwrite that reason": a reason that is on
\* disk when main begins to fail, is signalled or exits survives all of it, and only
\* an arm that was trained to its end replaces it, by DONE.  What the code does not
\* keep is a reason written while main is between its test of STATUS and its write.
FailureKeepsReason ==
    [][/\ status # <<>> /\ status[1] \in StopReasons /\ status' # <<>> /\ status'[1] # status[1]
          => Committed \/ (done = Arms /\ status' = <<"DONE">>)
       /\ ~Committed /\ Committed' => status = <<>>]_vars

\* The script as the watchdog sees it: running, in its EXIT trap, or not there.
Phase == CASE mpc \in {"down", "ended"} -> "off"
           [] mpc \in {"exit", "finish"} -> "ending"
           [] Committed -> "failing"
           [] OTHER -> "running"

Run == INSTANCE PodRun WITH Reasons <- StopReasons, Outcomes <- {"DONE"}, phase <- Phase

\* Every change of STATUS is one the watchdog was promised.
KeepsPodRun == Run!RunSpec

\* "A deliberate stop ... wrote STATUS first: never retry it."
StopIsNotRetried == [][mpc = "launch" /\ mpc' = "wait" /\ attempt > 0 => status = <<>>]_vars

\* "hung: a trainer group is alive but has written nothing for STALL_MINUTES": a
\* trainer killed as hung has been running that long.
HungMeansSilent == [][spc = "hung" /\ spc' = "term" => age >= StallPasses]_vars

\* What the operating system and the code schedule: both shells run on, a live
\* trainer makes progress.  Nothing is assumed of faults.
Fairness == WF_vars(Main) /\ WF_vars(Supervisor) /\ WF_vars(Trainer)
FairSpec == Spec /\ Fairness

\* Every invocation ends with TERMINAL, or its pod dies, or a stop the kill missed
\* left an attempt with no supervisor.
InvocationEnds ==
    mpc = "prepare" ~> \/ mpc \in {"ended", "down"}
                       \/ spc = "gone" /\ (missed \/ \E a \in Arms : late[a] > 0)
=============================================================================
