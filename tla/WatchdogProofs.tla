--------------------------- MODULE WatchdogProofs ---------------------------
(* Proofs about Watchdog for every StallMin, Quiet, SetupMax, deadline, old   *)
(* log and horizon.                                                           *)
EXTENDS Watchdog, TLAPS

Stages == {"off", "running", "failing", "ending"}
Lines == Reasons \union Outcomes \union {"DONE", "FAILED_AT", "KILLED", "EXITED", "TERMINAL"}
HasTerminal == \E i \in 1 .. Len(status) : status[i] = "TERMINAL"

\* The watchdog starts after the script, and the script runs once.
Begun ==
    /\ wpc # "off" => begun # NotYet /\ begun <= wstart
    /\ phase # "off" \/ fresh => begun # NotYet
\* TERMINAL is only there when the script has ended.
TerminalMeansOff ==
    /\ status \in Seq(Lines)
    /\ phase # "off" => ~HasTerminal
\* A healthy run has been silent for no longer than Quiet, or is still in SetupMax.
RunOnTime ==
    Healthy => IF fresh THEN now - wrote <= Quiet ELSE now - begun <= SetupMax
\* What was read is still true when it is used.
ReadHolds ==
    wpc = "judge" => /\ seen => phase = "off"
                     /\ SilentTooLong => ~Healthy

DogInv ==
    /\ TypeOK /\ Begun /\ TerminalMeansOff /\ RunOnTime /\ ReadHolds /\ HealthySpared
    /\ ~ToolMissing => ExitMeansGone

USE DEF NoLog, NotYet

\* What each writer of STATUS leaves.
LEMMA StatusAfter ==
    ASSUME status \in Seq(Lines), ~HasTerminal, NEW w \in Lines, w # "TERMINAL",
           status' = <<w>> \/ status' = Append(status, w)
    PROVE  status' \in Seq(Lines) /\ ~HasTerminal'
  <1>1. CASE status' = <<w>> BY <1>1 DEF HasTerminal
  <1>2. CASE status' = Append(status, w) BY <1>2 DEF HasTerminal
  <1> QED BY <1>1, <1>2

LEMMA DogInit == Init => DogInv
  <1> SUFFICES ASSUME Init PROVE DogInv
    OBVIOUS
  <1>1. status \in Seq(Lines)
    <2>1. <<>> \in Seq(Lines) /\ <<"DONE", "TERMINAL">> \in Seq(Lines) BY DEF Lines
    <2> QED BY <2>1 DEF Init
  <1>2. wrote \in Int /\ wrote <= 0
    <2>1. wrote \in {n \in Int : n <= 0} BY WatchdogConstants DEF Init
    <2> QED BY <2>1
  <1>3. TypeOK
    <2>1. now = 0 /\ Horizon \in Nat /\ deadline \in Deadlines BY WatchdogConstants DEF Init
    <2>2. /\ phase = "off" /\ pod = "billing" /\ begun = NotYet /\ fresh = FALSE
          /\ stuck = FALSE /\ wpc = "off" /\ wstart = 0 /\ seen = FALSE
          /\ age = NoLog /\ cause = "none"
      BY DEF Init
    <2>3. now \in 0 .. Horizon /\ wstart \in 0 .. now BY <2>1, <2>2
    <2>4. begun \in {NotYet} \union (0 .. now) BY <2>1, <2>2
    <2>5. age \in {NoLog} \union (0 .. now) BY <2>1, <2>2
    <2>6. wrote \in Int /\ wrote <= now BY <1>2, <2>1
    <2> QED BY <2>1, <2>2, <2>3, <2>4, <2>5, <2>6 DEF TypeOK
  <1> QED BY <1>1, <1>3
      DEF Init, DogInv, Begun, TerminalMeansOff, RunOnTime, ReadHolds, HealthySpared,
          ExitMeansGone, Healthy

LEMMA PodKeeps == DogInv /\ Pod => DogInv'
  <1> SUFFICES ASSUME DogInv, Pod PROVE DogInv'
    OBVIOUS
  <1> USE WatchdogConstants, ReasonsOK
          DEF DogInv, TypeOK, Begun, TerminalMeansOff, RunOnTime, ReadHolds, HealthySpared,
              ExitMeansGone, Healthy, SilentTooLong, dog, podrun
  <1>1. CASE ScriptBegins
    <2>1. status' \in Seq(Lines) /\ ~HasTerminal' BY <1>1 DEF ScriptBegins, Begin, HasTerminal
    <2> QED BY <1>1, <2>1 DEF ScriptBegins, Begin
  <1>2. CASE RunWrites BY <1>2 DEF RunWrites, HasTerminal
  <1>3. CASE RunSticks BY <1>3 DEF RunSticks, HasTerminal
  <1>4. CASE RunReports
    <2>1. phase \in {"running", "failing", "ending"} BY <1>4 DEF RunReports, Stop, Return, Looks
    <2>2. \/ status' = status
          \/ \E w \in Lines \ {"TERMINAL"} : status' = <<w>> \/ status' = Append(status, w)
      BY <1>4 DEF RunReports, Stop, Return, Looks, Lines
    <2>3. status' \in Seq(Lines) /\ ~HasTerminal'
      BY <2>1, <2>2, StatusAfter DEF HasTerminal
    <2> QED BY <1>4, <2>1, <2>3 DEF RunReports, Stop, Return, Looks
  <1>5. CASE RunEnds
    <2>1. status' \in Seq(Lines) BY <1>5 DEF RunEnds, End, Lines
    <2> QED BY <1>5, <2>1 DEF RunEnds, End
  <1>6. CASE ScriptDies BY <1>6 DEF ScriptDies, Die
  <1>7. CASE PodLost BY <1>7 DEF PodLost, PodGoes
  <1>8. CASE RunFails
    <2>1. status' = status \/ \E w \in Lines \ {"TERMINAL"} : status' = <<w>> BY <1>8 DEF RunFails, Fails, Lines
    <2>2. status' \in Seq(Lines) /\ ~HasTerminal'
      BY <1>8, <2>1, StatusAfter DEF HasTerminal, RunFails, Fails
    <2> QED BY <1>8, <2>2 DEF RunFails, Fails
  <1> QED BY <1>1, <1>2, <1>3, <1>4, <1>5, <1>6, <1>7, <1>8 DEF Pod

LEMMA TickKeeps == DogInv /\ Tick => DogInv'
  BY WatchdogConstants
  DEF DogInv, TypeOK, Begun, TerminalMeansOff, RunOnTime, ReadHolds, HealthySpared,
      ExitMeansGone, Healthy, SilentTooLong, HasTerminal, Tick, run, dog, podrun

LEMMA DogKeeps == DogInv /\ Dog => DogInv'
  <1> SUFFICES ASSUME DogInv, Dog PROVE DogInv'
    OBVIOUS
  <1> USE WatchdogConstants
          DEF DogInv, TypeOK, Begun, TerminalMeansOff, RunOnTime, ReadHolds, HealthySpared,
              ExitMeansGone, Healthy, SilentTooLong, HasTerminal, run, podrun
  <1>1. CASE WatchStarts BY <1>1 DEF WatchStarts
  <1>2. CASE PodState
    <2>1. PICK answer \in Answers : wpc' = IF MeansGone(answer) THEN "exited" ELSE "read"
      BY <1>2 DEF PodState
    <2>2. ~ToolMissing /\ MeansGone(answer) => pod = "gone" BY DEF Answers, MeansGone
    <2> QED BY <1>2, <2>1, <2>2 DEF PodState
  <1>3. CASE ReadOk
    <2>1. seen' => phase = "off" BY <1>3 DEF ReadOk
    <2>2. wrote # NoLog => Age \in 0 .. now /\ Age <= now - wrote /\ Age <= now - wstart
      BY DEF Age
    <2>3. age' \in {NoLog} \union (0 .. now) BY <1>3, <2>2 DEF ReadOk
    <2>4. age' # NoLog /\ age' >= StallMin => ~Healthy BY <1>3, <2>2 DEF ReadOk
    <2> QED BY <1>3, <2>1, <2>3, <2>4 DEF ReadOk
  <1>4. CASE ReadFails BY <1>4 DEF ReadFails
  <1>5. CASE Judge
    <2>1. /\ cause' \in {"none", "terminal", "deadline", "silent"}
          /\ cause' = "terminal" => seen
          /\ cause' = "deadline" => now >= deadline
          /\ cause' = "silent" => SilentTooLong
      BY <1>5 DEF Judge
    <2> QED BY <1>5, <2>1 DEF Judge
  <1>6. CASE DeleteOk BY <1>6 DEF DeleteOk, PodGoes
  <1>7. CASE DeleteFails BY <1>7 DEF DeleteFails, PodGoes, RetriesLater
  <1>8. CASE NextPass BY <1>8 DEF NextPass
  <1> QED BY <1>1, <1>2, <1>3, <1>4, <1>5, <1>6, <1>7, <1>8 DEF Dog

THEOREM DogCorrect == Spec => []DogInv
  <1>1. DogInv /\ UNCHANGED vars => DogInv'
    BY DEF DogInv, TypeOK, Begun, TerminalMeansOff, RunOnTime, ReadHolds, HealthySpared,
           ExitMeansGone, Healthy, SilentTooLong, HasTerminal, vars, run, dog, podrun
  <1>2. DogInv /\ [Next]_vars => DogInv'
    BY <1>1, PodKeeps, TickKeeps, DogKeeps DEF Next
  <1> QED BY DogInit, <1>2, PTL DEF Spec

\* Every reachable state of the watchdog, the pod and its STATUS has the declared types.
THEOREM WatchTypeCorrect == Spec => []TypeOK
  <1>1. DogInv => TypeOK BY DEF DogInv
  <1> QED BY <1>1, DogCorrect, PTL

\* A run that still writes is never terminated before its deadline.
THEOREM HealthyRunsSpared == Spec => []HealthySpared
  <1>1. DogInv => HealthySpared BY DEF DogInv
  <1> QED BY <1>1, DogCorrect, PTL

\* With runpodctl installed, the watchdog leaves only a pod that is gone.
THEOREM NothingBillsUnwatched == ASSUME ~ToolMissing PROVE Spec => []ExitMeansGone
  <1>1. DogInv => ExitMeansGone BY DEF DogInv
  <1> QED BY <1>1, DogCorrect, PTL
=============================================================================
