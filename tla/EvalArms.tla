------------------------------ MODULE EvalArms ------------------------------
(* scripts/eval_arms.sh: both arms evaluated on every task, unit by unit.  The *)
(* main shell starts a policy server and an evaluator for a unit, waits for    *)
(* the evaluator and collects its results; the supervisor copies results to    *)
(* the volume every minute, ends the run at the hours cap and kills an         *)
(* evaluator that has gone silent.  They meet in files (STATUS, eval.pg, the   *)
(* results) and in signals.  The volume outlives the pod, the scratch disk     *)
(* does not.  Time is counted in supervisor passes (`sleep 60`).               *)
EXTENDS Integers, Sequences, FiniteSets

CONSTANTS
    NTasks, NArms,  \* the tasks of the experiment and ARMS, in order
    Instances,      \* INSTANCES
    Rollouts,       \* ROLLOUTS
    MaxReinvoke,    \* MAX_REINVOKE
    StallPasses,    \* STALL_MINUTES, in supervisor passes
    Deadline,       \* MAX_HOURS, in supervisor passes
    MaxFaults,      \* bound: crashes, hangs, failures, signals, pod deaths
    MaxInvocations  \* bound: times the script is started on this volume

ASSUME EvalConstants ==
    /\ NTasks \in Nat \ {0} /\ NArms \in Nat \ {0}
    /\ Instances \subseteq Nat /\ IsFiniteSet(Instances) /\ Rollouts \in Nat \ {0}
    /\ MaxReinvoke \in Nat /\ StallPasses \in Nat \ {0} /\ Deadline \in Nat \ {0}
    /\ MaxFaults \in Nat /\ MaxInvocations \in Nat

Units == (1 .. NTasks) \X (1 .. NArms)           \* <<task, arm>>
Nobody == <<0, 0>>
Files == Instances \X (0 .. Rollouts - 1)        \* <task>_<instance>_<rollout>.json
NoFiles == [f \in Files |-> "none"]

VARIABLES
    \* on the volume
    status,     \* STATUS: its lines, <<>> when the file does not exist
    vol,        \* per unit and file: "none", "part" (being written when copied), "whole"
    marked,     \* units with a .done marker
    pgfile,     \* eval.pg: "none", "now" (this evaluator's group), "old" (of a dead pod)
    \* on the pod's scratch disk
    scr,        \* per unit and file
    \* the main shell
    mpc, task, arm, attempt, todo, failed, sig,
    \* the policy servers and the evaluator
    srv,        \* per unit: its server is "none", "loading" or "up"
    port,       \* the unit whose server answers on port 8000
    ev,         \* the evaluator: "none", "live", "hung", "dead"
    tried,      \* files it has come past
    \* the supervisor subshell
    spc, ret, mine,
    clock,      \* passes since T_START
    quiet,      \* passes since the evaluator's log was written
    \* history
    age,        \* passes since the evaluator was launched
    late,       \* evaluators the cap's kill did not reach
    kept,       \* the unit's whole results on the volume when its evaluator was launched
    gaveup,     \* units some invocation left incomplete
    faults, invocations

volume == <<status, vol, marked, pgfile>>
main == <<mpc, task, arm, attempt, todo, failed, sig>>
procs == <<srv, port, ev, tried>>
sup == <<spc, ret, mine>>
time == <<clock, quiet, age>>
history == <<late, kept, gaveup>>
bounds == <<faults, invocations>>
vars == <<volume, scr, main, procs, sup, time, history, bounds>>

Unit == <<task, arm>>

Init ==
    /\ status = <<>> /\ vol = [u \in Units |-> NoFiles] /\ marked = {} /\ pgfile = "none"
    /\ scr = [u \in Units |-> NoFiles]
    /\ mpc = "down" /\ task = 1 /\ arm = 1 /\ attempt = 0 /\ todo = {} /\ failed = 0 /\ sig = FALSE
    /\ srv = [u \in Units |-> "none"] /\ port = Nobody /\ ev = "none" /\ tried = {}
    /\ spc = "off" /\ ret = "gone" /\ mine = FALSE
    /\ clock = 0 /\ quiet = 0 /\ age = 0
    /\ late = 0 /\ kept = {} /\ gaveup = {}
    /\ faults = 0 /\ invocations = 0

Fault == faults < MaxFaults /\ faults' = faults + 1
Upto(n, max) == IF n < max THEN n + 1 ELSE n

-----------------------------------------------------------------------------
(* The servers and the evaluator *)

EvAlive == ev \in {"live", "hung"}

\* The server that binds the port first keeps it; a later one exits.
ServerUp(u) ==
    /\ srv[u] = "loading"
    /\ IF port = Nobody THEN port' = u /\ srv' = [srv EXCEPT ![u] = "up"]
                        ELSE srv' = [srv EXCEPT ![u] = "none"] /\ UNCHANGED port
    /\ UNCHANGED <<volume, scr, main, ev, tried, sup, time, history, bounds>>

ServerDies(u) ==
    /\ srv[u] # "none" /\ Fault
    /\ srv' = [srv EXCEPT ![u] = "none"] /\ port' = IF port = u THEN Nobody ELSE port
    /\ UNCHANGED <<volume, scr, main, ev, tried, sup, time, history, invocations>>

\* The evaluator's order: instance by instance, rollout by rollout.
Ahead == {f \in Files : f[1] \in todo} \ tried
Upcoming == CHOOSE f \in Ahead :
    \A g \in Ahead : f[1] < g[1] \/ (f[1] = g[1] /\ f[2] <= g[2])

WriteBegins ==
    /\ ev = "live" /\ Ahead # {} /\ port # Nobody
    /\ scr[Unit][Upcoming] = "none" /\ scr' = [scr EXCEPT ![Unit][Upcoming] = "part"]
    /\ UNCHANGED <<volume, main, procs, sup, time, history, bounds>>

WriteEnds ==
    /\ ev = "live" /\ Ahead # {} /\ scr[Unit][Upcoming] = "part"
    /\ scr' = [scr EXCEPT ![Unit][Upcoming] = "whole"]
    /\ tried' = tried \union {Upcoming} /\ quiet' = 0
    /\ UNCHANGED <<volume, main, srv, port, ev, sup, clock, age, history, bounds>>

\* A rollout fails, as all do without a server: the evaluator goes on.
RolloutFails ==
    /\ ev = "live" /\ Ahead # {} /\ scr[Unit][Upcoming] = "none"
    /\ IF port = Nobody THEN UNCHANGED faults ELSE Fault
    /\ tried' = tried \union {Upcoming} /\ quiet' = 0
    /\ UNCHANGED <<volume, scr, main, srv, port, ev, sup, clock, age, history, invocations>>

EvalExits ==
    /\ ev = "live" /\ Ahead = {} /\ ev' = "dead"
    /\ UNCHANGED <<volume, scr, main, srv, port, tried, sup, time, history, bounds>>

EvalCrashes ==
    /\ ev = "live" /\ Fault /\ ev' = "dead"
    /\ UNCHANGED <<volume, scr, main, srv, port, tried, sup, time, history, invocations>>

EvalHangs ==
    /\ ev = "live" /\ Fault /\ ev' = "hung"
    /\ UNCHANGED <<volume, scr, main, srv, port, tried, sup, time, history, invocations>>

Evaluator == WriteBegins \/ WriteEnds \/ RolloutFails \/ EvalExits

-----------------------------------------------------------------------------
(* The main shell *)

Overwrite(word) == status' = <<word>>                    \* status ()

\* fail (), its test: a STATUS that is there gets a line more.
Fail == IF status = <<>> THEN mpc' = "failing" /\ UNCHANGED status
                         ELSE status' = Append(status, "FAILED_AT") /\ mpc' = "exit"

\* fail (), its write, when the test found none: the cap may have fired in between.
FailWrites ==
    /\ mpc = "failing" /\ Overwrite("FAILED_AT") /\ mpc' = "exit"
    /\ UNCHANGED <<vol, marked, pgfile, scr, task, arm, attempt, todo, failed, sig, procs,
                   sup, time, history, bounds>>

\* traps, rm -f STATUS; on a new pod the scratch disk is empty.
Invoke ==
    /\ mpc \in {"down", "ended"} /\ invocations < MaxInvocations
    /\ invocations' = invocations + 1
    /\ mpc' = "prepare" /\ status' = <<>> /\ sig' = FALSE /\ failed' = 0
    /\ pgfile' = IF pgfile = "none" THEN "none" ELSE "old"
    /\ \/ mpc = "ended" /\ UNCHANGED scr
       \/ scr' = [u \in Units |-> NoFiles]
    /\ clock' = 0 /\ late' = 0
    /\ UNCHANGED <<vol, marked, task, arm, attempt, todo, procs, sup, quiet, age,
                   kept, gaveup, faults>>

\* Stages 0-2: checks, setup, each checkpoint answers; then supervise &.
Prepare ==
    /\ mpc = "prepare"
    /\ \/ Fail /\ UNCHANGED <<task, arm, attempt, spc, mine>>
       \/ /\ mpc' = "unit" /\ task' = 1 /\ arm' = 1 /\ attempt' = 0
          /\ spc' = "sleep" /\ mine' = FALSE /\ UNCHANGED status
    /\ UNCHANGED <<vol, marked, pgfile, scr, todo, failed, sig, procs, ret, time, history, bounds>>

\* missing_instances: those with fewer than ROLLOUTS result files, whole or not.
MissingAll(u) == IF \E f \in Files : vol[u][f] = "none" THEN Instances ELSE {}
Missing(u) == {i \in Instances : \E r \in 0 .. Rollouts - 1 : vol[u][<<i, r>>] = "none"}

\* for TASK; for ARM.
ArmMajor ==
    /\ attempt' = 0
    /\ IF task < NTasks THEN task' = task + 1 /\ mpc' = "unit" /\ UNCHANGED arm
       ELSE IF arm < NArms THEN arm' = arm + 1 /\ task' = 1 /\ mpc' = "unit"
       ELSE mpc' = "compare" /\ UNCHANGED <<task, arm>>
NextUnit ==
    /\ attempt' = 0
    /\ IF arm < NArms THEN arm' = arm + 1 /\ mpc' = "unit" /\ UNCHANGED task
       ELSE IF task < NTasks THEN arm' = 1 /\ task' = task + 1 /\ mpc' = "unit"
       ELSE mpc' = "compare" /\ UNCHANGED <<task, arm>>

UnitComplete ==
    /\ mpc = "unit" /\ Missing(Unit) = {}
    /\ marked' = marked \union {Unit} /\ NextUnit
    /\ UNCHANGED <<status, vol, pgfile, scr, todo, failed, sig, procs, sup, time, history, bounds>>

ForgetsFailure == UNCHANGED failed
CountsFailure == failed' = failed + 1

GivesUpLate == attempt > MaxReinvoke + 1
GivesUp == attempt > MaxReinvoke

UnitGivenUp ==
    /\ mpc = "unit" /\ Missing(Unit) # {} /\ GivesUp
    /\ CountsFailure /\ gaveup' = gaveup \union {Unit} /\ NextUnit
    /\ UNCHANGED <<volume, scr, todo, sig, procs, sup, time, late, kept, bounds>>

UnitBegins ==
    /\ mpc = "unit" /\ Missing(Unit) # {} /\ ~GivesUp
    /\ todo' = Missing(Unit) /\ scr' = [scr EXCEPT ![Unit] = NoFiles]
    /\ mpc' = "port"
    /\ UNCHANGED <<volume, task, arm, attempt, failed, sig, procs, sup, time, history, bounds>>

\* Something answers on port 8000: a server of ours that is left, or a stranger's.
PortBusy ==
    /\ mpc = "port" /\ Fail
    /\ IF port # Nobody THEN UNCHANGED faults ELSE Fault
    /\ UNCHANGED <<vol, marked, pgfile, scr, task, arm, attempt, todo, failed, sig, procs,
                   sup, time, history, invocations>>

ServerStarts ==
    /\ mpc = "port" /\ port = Nobody /\ mpc' = "await"
    /\ srv' = [srv EXCEPT ![Unit] = "loading"]
    /\ UNCHANGED <<volume, scr, task, arm, attempt, todo, failed, sig, port, ev, tried,
                   sup, time, history, bounds>>

\* wait_for_policy_server.sh: anything that answers, no server process, or TIMEOUT.
WaitOk ==
    /\ mpc = "await" /\ port # Nobody /\ mpc' = "evaluate"
    /\ UNCHANGED <<volume, scr, task, arm, attempt, todo, failed, sig, procs,
                   sup, time, history, bounds>>

WaitFails ==
    /\ mpc = "await" /\ port = Nobody /\ mpc' = "noserver"
    /\ IF srv[Unit] = "none" THEN UNCHANGED faults ELSE Fault
    /\ UNCHANGED <<volume, scr, task, arm, attempt, todo, failed, sig, procs,
                   sup, time, history, invocations>>

\* kill_group "$SERVER_PG"
ServerLeft == UNCHANGED <<srv, port>>
ServerKilled ==
    /\ srv' = [srv EXCEPT ![Unit] = "none"] /\ port' = IF port = Unit THEN Nobody ELSE port

\* continue: the next attempt, without a look at STATUS.
NoServer ==
    /\ mpc = "noserver" /\ ServerKilled
    /\ attempt' = attempt + 1 /\ mpc' = "unit"
    /\ UNCHANGED <<volume, scr, task, arm, todo, failed, sig, ev, tried, sup, time, history, bounds>>

\* The line "=== attempt" is appended to the log before the evaluator starts.
LogOld == UNCHANGED quiet
LogTouched == quiet' = 0

\* The cap's kill has read eval.pg: what is launched now it does not reach.
CapKillBegun == spc = "gone" \/ (spc \in {"term", "poll"} /\ ret = "gone")

EvalLaunched ==
    /\ mpc = "evaluate" /\ mpc' = "record"
    /\ LogTouched /\ age' = 0
    /\ ev' = "live" /\ tried' = {} /\ mine' = FALSE
    /\ kept' = {f \in Files : vol[Unit][f] = "whole"}
    /\ late' = IF CapKillBegun THEN late + 1 ELSE late
    /\ UNCHANGED <<volume, scr, task, arm, attempt, todo, failed, sig, srv, port,
                   spc, ret, clock, gaveup, bounds>>

PgRecorded ==
    /\ mpc = "record" /\ mpc' = "wait" /\ pgfile' = "now"
    /\ UNCHANGED <<status, vol, marked, scr, task, arm, attempt, todo, failed, sig, procs,
                   sup, time, history, bounds>>

\* wait returns: rm eval.pg, and the unit's server is killed.
EvalReaped ==
    /\ mpc = "wait" /\ ev = "dead" /\ mpc' = "collect"
    /\ ev' = "none" /\ pgfile' = "none" /\ ServerKilled /\ tried' = {} /\ age' = 0
    /\ UNCHANGED <<status, vol, marked, scr, task, arm, attempt, todo, failed, sig,
                   sup, clock, quiet, history, bounds>>

\* cp of every result file the evaluator left, over what is there.
Collect ==
    /\ mpc = "collect" /\ mpc' = "check"
    /\ vol' = [vol EXCEPT ![Unit] =
                 [f \in Files |-> IF scr[Unit][f] # "none" THEN scr[Unit][f] ELSE @[f]]]
    /\ kept' = {}
    /\ UNCHANGED <<status, marked, pgfile, scr, task, arm, attempt, todo, failed, sig, procs,
                   sup, time, late, gaveup, bounds>>

\* "the cap fired: stop here"
CapIgnored == FALSE
CapFired == status # <<>>

Check ==
    /\ mpc = "check"
    /\ IF CapFired THEN mpc' = "exit" /\ UNCHANGED attempt
                   ELSE mpc' = "unit" /\ attempt' = attempt + 1
    /\ UNCHANGED <<volume, scr, task, arm, todo, failed, sig, procs, sup, time, history, bounds>>

\* Stage 4: the comparison, then the outcome.
Compare ==
    /\ mpc = "compare" /\ mpc' = "exit"
    /\ Overwrite(IF failed > 0 THEN "PARTIAL" ELSE "DONE")
    /\ UNCHANGED <<vol, marked, pgfile, scr, task, arm, attempt, todo, failed, sig, procs,
                   sup, time, history, bounds>>

\* trap finish EXIT: the supervisor, then both groups, then TERMINAL.
SupervisorLeft == UNCHANGED spc
SupervisorKilled == spc' = "off"

FinishKill ==
    /\ mpc = "exit" /\ mpc' = "finish" /\ SupervisorKilled
    /\ ev' = "none" /\ srv' = [srv EXCEPT ![Unit] = "none"]
    /\ port' = IF port = Unit THEN Nobody ELSE port
    /\ UNCHANGED <<volume, scr, task, arm, attempt, todo, failed, sig, tried, ret, mine,
                   time, history, bounds>>

FinishStatus ==
    /\ mpc = "finish" /\ mpc' = "ended"
    /\ status' = Append(IF status = <<>> THEN <<"EXITED">> ELSE status, "TERMINAL")
    /\ UNCHANGED <<vol, marked, pgfile, scr, task, arm, attempt, todo, failed, sig, procs,
                   sup, time, history, bounds>>

\* SIGTERM: the trap runs between commands, or at once in bash's own `wait`.
Signal ==
    /\ mpc \notin {"down", "trapping", "exit", "finish", "ended"} /\ ~sig /\ Fault /\ sig' = TRUE
    /\ UNCHANGED <<volume, scr, mpc, task, arm, attempt, todo, failed, procs, sup, time,
                   history, invocations>>

Trap ==
    /\ sig /\ mpc \notin {"down", "await", "trapping", "exit", "finish", "ended"}
    /\ mpc' = IF status = <<>> THEN "trapping" ELSE "exit"
    /\ UNCHANGED <<volume, scr, task, arm, attempt, todo, failed, sig, procs, sup, time,
                   history, bounds>>

\* The trap's write, as late as fail's.
TrapWrites ==
    /\ mpc = "trapping" /\ Overwrite("KILLED") /\ mpc' = "exit"
    /\ UNCHANGED <<vol, marked, pgfile, scr, task, arm, attempt, todo, failed, sig, procs,
                   sup, time, history, bounds>>

\* The pod dies: processes and scratch disk are gone, the volume stays.
PodDies ==
    /\ mpc \notin {"down", "ended"} /\ Fault
    /\ mpc' = "down" /\ spc' = "off" /\ ev' = "none"
    /\ srv' = [u \in Units |-> "none"] /\ port' = Nobody /\ scr' = [u \in Units |-> NoFiles]
    /\ UNCHANGED <<volume, task, arm, attempt, todo, failed, sig, tried, ret, mine, time,
                   history, invocations>>

Working == \/ Prepare \/ UnitComplete \/ UnitGivenUp \/ UnitBegins \/ PortBusy \/ FailWrites
           \/ ServerStarts \/ NoServer \/ EvalLaunched \/ PgRecorded \/ EvalReaped
           \/ Collect \/ Check \/ Compare
Main == (~sig /\ Working) \/ WaitOk \/ WaitFails \/ Trap \/ TrapWrites \/ FinishKill \/ FinishStatus

-----------------------------------------------------------------------------
(* The supervisor: one pass per `sleep 60` *)

Wake ==
    /\ spc = "sleep" /\ spc' = "sync"
    /\ clock' = Upto(clock, Deadline)
    /\ quiet' = Upto(quiet, StallPasses)
    /\ age' = IF EvAlive THEN Upto(age, StallPasses) ELSE age
    /\ UNCHANGED <<volume, scr, main, procs, ret, mine, history, bounds>>

\* sync_results: cp -n of whatever is in the json directories, written out or not.
Sync ==
    /\ spc = "sync" /\ spc' = "cap"
    /\ vol' = [u \in Units |-> [f \in Files |-> IF vol[u][f] = "none" THEN scr[u][f] ELSE vol[u][f]]]
    /\ UNCHANGED <<status, marked, pgfile, scr, main, procs, ret, mine, time, history, bounds>>

CheckCap ==
    /\ spc = "cap"
    /\ IF clock >= Deadline THEN Overwrite("CAP_HIT") /\ spc' = "capkill"
                            ELSE spc' = "hang" /\ UNCHANGED status
    /\ UNCHANGED <<vol, marked, pgfile, scr, main, procs, ret, mine, time, history, bounds>>

\* kill_group on the group eval.pg names, then to the pc `then`.
CallKill(then) == ret' = then /\ spc' = "term" /\ mine' = TRUE

\* The cap's kill: eval.pg may not be there, or name a group of a dead pod.
CapSpares ==
    /\ spc = "capkill" /\ spc' = "gone"
    /\ UNCHANGED <<volume, scr, main, procs, ret, mine, time, history, bounds>>
CapKill ==
    /\ spc = "capkill"
    /\ IF pgfile = "now" THEN CallKill("gone") ELSE spc' = "gone" /\ UNCHANGED <<ret, mine>>
    /\ late' = IF pgfile # "now" /\ EvAlive THEN late + 1 ELSE late
    /\ UNCHANGED <<volume, scr, main, procs, time, kept, gaveup, bounds>>

\* eval.pg and eval.current are read here ...
HangReads ==
    /\ spc = "hang" /\ spc' = "judge" /\ mine' = (pgfile = "now")
    /\ UNCHANGED <<volume, scr, main, procs, ret, time, history, bounds>>

\* ... and judged here, after the main shell may have gone on: pgrep and the kill
\* are for the group that was read, whose log is the one that was read.
Silent == mine /\ EvAlive /\ quiet >= StallPasses

CheckHang ==
    /\ spc = "judge"
    /\ IF Silent THEN CallKill("sleep") ELSE spc' = "sleep" /\ UNCHANGED <<ret, mine>>
    /\ UNCHANGED <<volume, scr, main, procs, time, history, bounds>>

\* kill_group: TERM, which a group may survive, a wait of 30 s, then KILL.
KillTerm ==
    /\ spc = "term"
    /\ \/ mine /\ EvAlive /\ spc' = "poll" /\ UNCHANGED ev
       \/ mine /\ EvAlive /\ ev' = "dead" /\ spc' = ret
       \/ ~(mine /\ EvAlive) /\ spc' = ret /\ UNCHANGED ev
    /\ UNCHANGED <<volume, scr, main, srv, port, tried, ret, mine, time, history, bounds>>

KillPoll ==
    /\ spc = "poll" /\ spc' = ret
    /\ ev' = IF mine /\ EvAlive THEN "dead" ELSE ev
    /\ UNCHANGED <<volume, scr, main, srv, port, tried, ret, mine, time, history, bounds>>

Supervisor == Wake \/ Sync \/ CheckCap \/ CapKill \/ HangReads \/ CheckHang \/ KillTerm \/ KillPoll

Server == \E u \in Units : ServerUp(u)
Faults == (\E u \in Units : ServerDies(u)) \/ EvalCrashes \/ EvalHangs

Next == Invoke \/ Main \/ Supervisor \/ Server \/ Evaluator \/ Faults \/ Signal \/ PodDies

Spec == Init /\ [][Next]_vars

-----------------------------------------------------------------------------
(* Properties *)

Reasons == {"CAP_HIT"}
Outcomes == {"DONE", "PARTIAL"}
FileStates == [Files -> {"none", "part", "whole"}]

\* The type invariant: every variable holds a value the script can give it.
VolumeType ==
    /\ status \in Seq(Reasons \union Outcomes \union {"FAILED_AT", "KILLED", "EXITED", "TERMINAL"})
    /\ vol \in [Units -> FileStates] /\ scr \in [Units -> FileStates]
    /\ marked \subseteq Units /\ pgfile \in {"none", "now", "old"}
MainType ==
    /\ mpc \in {"down", "prepare", "unit", "port", "await", "noserver", "evaluate", "record",
                "wait", "collect", "check", "compare", "failing", "trapping",
                "exit", "finish", "ended"}
    /\ Unit \in Units /\ attempt \in 0 .. MaxReinvoke + 1 /\ todo \subseteq Instances
    /\ failed \in Nat /\ sig \in BOOLEAN
ProcType ==
    /\ srv \in [Units -> {"none", "loading", "up"}] /\ port \in Units \union {Nobody}
    /\ ev \in {"none", "live", "hung", "dead"} /\ tried \subseteq Files
    /\ spc \in {"off", "gone", "sleep", "sync", "cap", "capkill", "hang", "judge", "term", "poll"}
    /\ ret \in {"gone", "sleep"} /\ mine \in BOOLEAN
CountType ==
    /\ clock \in 0 .. Deadline /\ quiet \in 0 .. StallPasses /\ age \in 0 .. StallPasses
    /\ late \in Nat /\ kept \subseteq Files /\ gaveup \subseteq Units
    /\ faults \in Nat /\ invocations \in Nat
TypeOK == VolumeType /\ MainType /\ ProcType /\ CountType

\* DONE, and a unit's marker, mean that every rollout of the plan has its file on
\* the volume, over all crashes, caps, kills and pods it took.
DoneIsComplete ==
    /\ \A u \in marked : Missing(u) = {}
    /\ status # <<>> /\ status[1] = "DONE" => \A u \in Units : Missing(u) = {}

\* "the previous arm's server must be gone, or this unit would talk to it": an
\* evaluator is never served by another unit's policy.
ServedByItsArm == EvAlive => port \in {Unit, Nobody}

\* The hours cap costs at most one more unit, the one that was about to start when
\* the cap fired, and only the cap leaves an evaluator without supervision.
OneLateUnit ==
    /\ late <= 1
    /\ ev = "live" /\ mpc \in {"record", "wait"} /\ spc \in {"off", "gone"}
         => status = <<"CAP_HIT">>

\* "evaluator silent this long = hung": the hang check never takes the silence of
\* the unit or of the pod before for this evaluator's.
HungMeansSilent ==
    [][spc = "judge" /\ spc' = "term" => age >= StallPasses]_vars

\* An instance with all its results on the volume is not evaluated again.
CompleteKept ==
    mpc \in {"record", "wait", "collect"} => \A i \in todo : \E r \in 0 .. Rollouts - 1 : <<i, r>> \notin kept

\* "task-major order: ... what finishes is complete PAIRS": results of a task mean
\* that both arms of every earlier task were finished or given up.
PairsFirst ==
    \A u, v \in Units : u[1] < v[1] /\ vol[v] # NoFiles => Missing(u) = {} \/ u \in gaveup

\* The script as the watchdog sees it.
Phase == CASE mpc \in {"down", "ended"} -> "off"
           [] mpc \in {"exit", "finish"} -> "ending"
           [] mpc \in {"failing", "trapping"} -> "failing"
           [] OTHER -> "running"

Run == INSTANCE PodRun WITH phase <- Phase

\* Every change of STATUS is one the watchdog was promised.
KeepsPodRun == Run!RunSpec

\* "Results already on the volume are kept: a crashed or capped unit resumes with
\* only the instances still missing": no evaluator writes a result anew.
ResultsKept == mpc = "collect" => \A f \in kept : scr[Unit][f] = "none"

\* What the operating system schedules.  Nothing is assumed of faults.
Fairness == WF_vars(Main) /\ WF_vars(Supervisor) /\ WF_vars(Server) /\ WF_vars(Evaluator)
FairSpec == Spec /\ Fairness

\* Every invocation ends with TERMINAL, or its pod dies, or an evaluator
\* the cap's kill did not reach hangs with nobody to see it.
InvocationEnds ==
    mpc = "prepare" ~> mpc \in {"ended", "down"} \/ (ev = "hung" /\ late > 0)
=============================================================================
