------------------------------ MODULE Watchdog ------------------------------
(* scripts/watchdog.sh, which runs on the owner's laptop and is the only thing *)
(* that can stop a pod's billing, and the pod it watches.  Of the script on the *)
(* pod it knows the STATUS file (PodRun) and the age of the newest log; it sees *)
(* both late and over connections that fail.                                   *)
EXTENDS PodRun, Integers

CONSTANTS
    StallMin,      \* STALL_MIN, in ticks of the clock
    Quiet,         \* longest silence of a run whose own supervisor lives
    SetupMax,      \* longest time from the script's start to the trainer's first line
    Deadlines,     \* the values DEADLINE_EPOCH may have
    OldLogs,       \* mtimes a log left on the volume may have; NoLog: there is none
    Horizon,       \* bound: the clock stops here
    ToolMissing    \* runpodctl is not on the laptop's PATH

NoLog == -100
NotYet == -1

ASSUME WatchdogConstants ==
    /\ StallMin \in Nat /\ Quiet \in Nat /\ SetupMax \in Nat /\ Horizon \in Nat
    /\ Quiet < StallMin /\ SetupMax < StallMin
    /\ Deadlines \subseteq Nat /\ Deadlines # {}
    /\ OldLogs \subseteq {n \in Int : n <= 0}
    /\ ToolMissing \in BOOLEAN

VARIABLES
    \* the pod
    pod,        \* "billing" or "gone"
    now,
    begun,      \* when the script started
    wrote,      \* mtime of the newest log LOG_GLOB matches
    fresh,      \* this run has written to it
    stuck,      \* a run that will never write again, with no supervisor to end it
    \* the watchdog
    wpc, wstart, deadline,
    seen,       \* the last read of STATUS had a line TERMINAL
    age,        \* the last read of the log's age; NoLog: none
    cause       \* why it terminates

run == <<podrun, begun, wrote, fresh, stuck>>
dog == <<wpc, wstart, deadline, seen, age, cause>>
vars == <<run, dog, pod, now>>

Init ==
    /\ status \in {<<>>, <<"DONE", "TERMINAL">>} /\ phase = "off"
    /\ pod = "billing" /\ now = 0 /\ begun = NotYet
    /\ wrote \in OldLogs /\ fresh = FALSE /\ stuck = FALSE
    /\ wpc = "off" /\ wstart = 0 /\ deadline \in Deadlines
    /\ seen = FALSE /\ age = NoLog /\ cause = "none"

-----------------------------------------------------------------------------
(* The pod.  A run that is not stuck writes a line every Quiet ticks (its      *)
(* supervisor ends any longer silence) once the trainer has printed its first. *)

ScriptBegins ==
    /\ pod = "billing" /\ begun = NotYet /\ Begin /\ begun' = now
    /\ UNCHANGED <<wrote, fresh, stuck, dog, pod, now>>

RunWrites ==
    /\ phase = "running" /\ ~stuck /\ wrote' = now /\ fresh' = TRUE
    /\ UNCHANGED <<podrun, begun, stuck, dog, pod, now>>

RunSticks ==
    /\ phase = "running" /\ ~stuck /\ stuck' = TRUE
    /\ UNCHANGED <<podrun, begun, wrote, fresh, dog, pod, now>>

RunReports ==
    /\ ~stuck /\ (Stop \/ Return \/ Looks)
    /\ UNCHANGED <<begun, wrote, fresh, stuck, dog, pod, now>>

RunFails == Fails /\ UNCHANGED <<begun, wrote, fresh, stuck, dog, pod, now>>

RunEnds == End /\ UNCHANGED <<begun, wrote, fresh, stuck, dog, pod, now>>

\* The shell is killed: no trap runs, the pod bills on.
ScriptDies == Die /\ UNCHANGED <<begun, wrote, fresh, stuck, dog, pod, now>>

PodGoes == pod' = "gone" /\ phase' = "off" /\ UNCHANGED <<status, begun, wrote, fresh, stuck>>

\* The provider takes the pod.
PodLost == pod = "billing" /\ PodGoes /\ UNCHANGED <<dog, now>>

Healthy == phase # "off" /\ ~stuck

Tick ==
    /\ now < Horizon /\ now' = now + 1
    /\ Healthy => IF fresh THEN now - wrote < Quiet ELSE now - begun < SetupMax
    /\ UNCHANGED <<run, dog, pod>>

-----------------------------------------------------------------------------
(* The watchdog's loop *)

\* By procedure it is started after the script, whose first act is rm -f STATUS.
WatchStarts ==
    /\ wpc = "off" /\ begun # NotYet
    /\ wpc' = "pod" /\ wstart' = now
    /\ UNCHANGED <<run, deadline, seen, age, cause, pod, now>>

\* What `runpodctl pod get` says, and what pod_state makes of it: any error that
\* contains "not found" reads as a pod that is gone.
Answers == IF ToolMissing THEN {"command not found"}
           ELSE {"no answer", IF pod = "billing" THEN "exists" ELSE "404"}
NoAnswerMeansGone(answer) == answer # "exists"
MeansGone(answer) == answer \in {"404", "command not found"}

PodState ==
    /\ wpc = "pod"
    /\ \E answer \in Answers : wpc' = IF MeansGone(answer) THEN "exited" ELSE "read"
    /\ UNCHANGED <<run, wstart, deadline, seen, age, cause, pod, now>>

\* A log's age counts for no more than the time this watchdog has been watching.
RawAge == now - wrote
Age == LET watched == now - wstart IN IF now - wrote > watched THEN watched ELSE now - wrote

ReadOk ==
    /\ wpc = "read" /\ pod = "billing" /\ wpc' = "judge"
    /\ seen' = (\E i \in 1 .. Len(status) : status[i] = "TERMINAL")
    /\ age' = IF wrote = NoLog THEN NoLog ELSE Age
    /\ UNCHANGED <<run, wstart, deadline, cause, pod, now>>

\* ssh fails or times out: no STATUS line and no age.
ReadFails ==
    /\ wpc = "read" /\ wpc' = "judge" /\ seen' = FALSE /\ age' = NoLog
    /\ UNCHANGED <<run, wstart, deadline, cause, pod, now>>

MinutesAsSeconds == age # NoLog /\ age * 2 >= StallMin
NeverTooLong == FALSE
SilentTooLong == age # NoLog /\ age >= StallMin

\* The branches in the script's order.  What was read is not used again.
Judge ==
    /\ wpc = "judge"
    /\ cause' = CASE seen -> "terminal"
                  [] ~seen /\ now >= deadline -> "deadline"
                  [] ~seen /\ now < deadline /\ SilentTooLong -> "silent"
                  [] OTHER -> "none"
    /\ wpc' = IF cause' = "none" THEN "sleep" ELSE "delete"
    /\ seen' = FALSE /\ age' = NoLog
    /\ UNCHANGED <<run, wstart, deadline, pod, now>>

DeleteOk ==
    /\ wpc = "delete" /\ pod = "billing" /\ ~ToolMissing
    /\ PodGoes /\ wpc' = "exited"
    /\ UNCHANGED <<wstart, deadline, seen, age, cause, now>>

GivesUp == "exited"
RetriesLater == "sleep"

\* The call fails, or succeeds and its answer is lost: retried on the next pass.
DeleteFails ==
    /\ wpc = "delete" /\ wpc' = RetriesLater
    /\ \/ pod = "billing" /\ ~ToolMissing /\ PodGoes
       \/ UNCHANGED <<run, pod>>
    /\ cause' = "none"
    /\ UNCHANGED <<wstart, deadline, seen, age, now>>

NextPass ==
    /\ wpc = "sleep" /\ wpc' = "pod"
    /\ UNCHANGED <<run, wstart, deadline, seen, age, cause, pod, now>>

Pod == \/ ScriptBegins \/ RunWrites \/ RunSticks \/ RunReports \/ RunFails \/ RunEnds
       \/ ScriptDies \/ PodLost
Dog == WatchStarts \/ PodState \/ ReadOk \/ ReadFails \/ Judge \/ DeleteOk \/ DeleteFails \/ NextPass

Next == Pod \/ Tick \/ Dog

\* The clock runs, a healthy run writes, a failing one and the EXIT trap finish, the
\* watchdog's loop goes on, and calls that are repeated for ever do not fail for ever.
Fairness ==
    /\ WF_vars(Tick) /\ WF_vars(RunWrites) /\ WF_vars(RunFails) /\ WF_vars(RunEnds)
    /\ WF_vars(ScriptBegins) /\ WF_vars(Dog) /\ SF_vars(ReadOk) /\ SF_vars(DeleteOk)

Spec == Init /\ [][Next]_vars
FairSpec == Spec /\ Fairness

-----------------------------------------------------------------------------
(* Properties *)

\* The type invariant: every variable holds a value the pod or the watchdog can give it.
TypeOK ==
    /\ phase \in {"off", "running", "failing", "ending"} /\ pod \in {"billing", "gone"}
    /\ now \in 0 .. Horizon /\ begun \in {NotYet} \union (0 .. now) /\ wrote \in Int /\ wrote <= now
    /\ fresh \in BOOLEAN /\ stuck \in BOOLEAN
    /\ wpc \in {"off", "pod", "read", "judge", "delete", "sleep", "exited"}
    /\ wstart \in 0 .. now /\ deadline \in Deadlines /\ seen \in BOOLEAN
    /\ age \in {NoLog} \union (0 .. now)
    /\ cause \in {"none", "terminal", "deadline", "silent"}

\* "exit quietly if the pod is gone": when the watchdog stops watching, nothing bills.
ExitMeansGone == wpc = "exited" => pod = "gone"

\* A pod is only terminated for cause, however old the read it is judged by: its
\* script has ended, the deadline has passed, or its run is dead or stuck.  A run
\* that still writes is left alone, whatever logs an earlier run left.
HealthySpared ==
    wpc = "delete" => \/ cause = "terminal" /\ phase = "off"
                      \/ cause = "deadline" /\ now >= deadline
                      \/ cause = "silent" /\ ~Healthy

\* The deadline backstop: whatever the run does, the billing ends.
BillingEnds == deadline <= Horizon ~> pod = "gone"

\* The silence backstop needs no deadline: a watched run that hangs or dies after it
\* left a log does not bill on.
StuckEnds ==
    /\ wpc # "off" /\ ~Healthy /\ wrote # NoLog /\ now + StallMin <= Horizon
      ~> pod = "gone"
=============================================================================
