--------------------------- MODULE ShotOneProofs ----------------------------
(* Proofs about ShotOne for every value of its constants: attempts and arms,   *)
(* the reason a run ended and what STATUS says of it, the retry budget, the    *)
(* resume test and the passes of the supervisor.                               *)
EXTENDS ShotOne, TLAPS

Words == StopReasons \union Endings \union {"TERMINAL"}

LEMMA InitType == Init => TypeOK
  <1> SUFFICES ASSUME Init PROVE TypeOK
    OBVIOUS
  <1> USE DEF Init
  <1>1. StatusType BY DEF StatusType
  <1>2. FilesType
    <2>1. NewLog \in LogRecord BY DEF NewLog, LogRecord, NoStep
    <2>2. ckpt \in [Arms -> Int] BY DEF NoDir
    <2>3. log \in [Arms -> LogRecord] BY <2>1
    <2> QED BY <2>2, <2>3 DEF FilesType
  <1>3. MainType BY DEF MainType, Arms
  <1>4. GroupType BY DEF GroupType, Orphans, Jobs, Arms
  <1>5. SupType BY DEF SupType
  <1>6. CountsType BY DEF CountsType
  <1> QED BY <1>1, <1>2, <1>3, <1>4, <1>5, <1>6 DEF TypeOK

\* status (), fail () and finish () keep STATUS a sequence of known words.
LEMMA StatusWrites ==
    ASSUME StatusType, NEW w \in Words
    PROVE  <<w>> \in Seq(Words) /\ Append(status, w) \in Seq(Words)
  BY DEF StatusType, Words

\* What a trainer or the main shell writes to a log keeps it a log.
LEMMA LoggedType ==
    ASSUME NEW l \in LogRecord, NEW b \in BOOLEAN, cur \in Nat
    PROVE  Logged(l, b) \in LogRecord
  <1>1. l.mark \in BOOLEAN /\ (l.bad \/ b) \in BOOLEAN /\ l.top \in Int /\ l.first \in Int
    BY DEF LogRecord
  <1>2. (IF cur > l.top THEN cur ELSE l.top) \in Int BY <1>1
  <1>3. (IF l.mark /\ l.first = NoStep THEN cur ELSE l.first) \in Int BY <1>1
  <1> QED BY <1>1, <1>2, <1>3, Zenon DEF Logged, LogRecord

LEMMA MarkedType ==
    ASSUME NEW l \in LogRecord
    PROVE  Marked(l) \in LogRecord /\ Opened(l) \in LogRecord
  BY DEF Marked, Opened, LogRecord

LEMMA TrainerType == TypeOK /\ (Trainer \/ Faults) => TypeOK'
  <1> SUFFICES ASSUME TypeOK, Trainer \/ Faults PROVE TypeOK'
    OBVIOUS
  <1> USE DEF TypeOK, files, main, group, sup, time, counts, bounds
  <1>1. StatusType' BY DEF StatusType, Trainer, Faults, TrainerSetsid, TrainerUp, TrainStep,
                           SaveFinal, TrainerExit, TrainerCrash, TrainerHang
  <1>2. MainType' BY DEF MainType, Trainer, Faults, TrainerSetsid, TrainerUp, TrainStep,
                         SaveFinal, TrainerExit, TrainerCrash, TrainerHang
  <1>3. SupType' BY DEF SupType, Trainer, Faults, TrainerSetsid, TrainerUp, TrainStep, SaveFinal,
                        TrainerExit, TrainerCrash, TrainerHang
  <1>4. GroupType' 
    <2> USE DEF GroupType
    <2>1. CASE TrainerSetsid BY <2>1 DEF TrainerSetsid
    <2>2. CASE TrainerUp BY <2>2 DEF TrainerUp, FilesType
    <2>3. CASE TrainStep BY <2>3, ConstantsOK DEF TrainStep
    <2>4. CASE SaveFinal BY <2>4 DEF SaveFinal
    <2>5. CASE TrainerExit BY <2>5 DEF TrainerExit, LeaderEnds
    <2>6. CASE TrainerCrash BY <2>6 DEF TrainerCrash, LeaderEnds
    <2>7. CASE TrainerHang BY <2>7 DEF TrainerHang
    <2> QED BY <2>1, <2>2, <2>3, <2>4, <2>5, <2>6, <2>7 DEF Trainer, Faults
  <1>5. FilesType' 
    <2> USE DEF FilesType
    <2>1. CASE TrainerSetsid BY <2>1 DEF TrainerSetsid
    <2>2. CASE TrainerUp
      <3>1. ckpt' \in [Arms -> Int] BY <2>2 DEF TrainerUp, NoDir
      <3>2. stale' \in [Arms -> BOOLEAN] BY <2>2 DEF TrainerUp
      <3> QED BY <2>2, <3>1, <3>2 DEF TrainerUp
    <2>3. CASE TrainStep
      <3>1. PICK b \in BOOLEAN : log' = [log EXCEPT ![job] = Logged(log[job], b)]
        BY <2>3 DEF TrainStep
      <3>2. log' \in [Arms -> LogRecord] BY <2>3, <3>1, LoggedType DEF TrainStep, GroupType
      <3> QED BY <2>3, <3>2 DEF TrainStep
    <2>4. CASE SaveFinal BY <2>4 DEF SaveFinal, GroupType
    <2>5. CASE TrainerExit BY <2>5 DEF TrainerExit, LeaderEnds, LeavesTmp
    <2>6. CASE TrainerCrash BY <2>6 DEF TrainerCrash, LeaderEnds, LeavesTmp
    <2>7. CASE TrainerHang BY <2>7 DEF TrainerHang
    <2> QED BY <2>1, <2>2, <2>3, <2>4, <2>5, <2>6, <2>7 DEF Trainer, Faults
  <1>6. CountsType' 
    <2> USE DEF CountsType
    <2>1. CASE TrainerSetsid BY <2>1 DEF TrainerSetsid
    <2>2. CASE TrainerUp
      <3>1. quiet' \in [Arms -> Nat] /\ gap' \in Nat BY <2>2 DEF TrainerUp
      <3>2. restarts' \subseteq {"good", "broken"} BY <2>2 DEF TrainerUp
      <3>3. faults' \in Nat BY <2>2 DEF TrainerUp
      <3> QED BY <2>2, <3>1, <3>2, <3>3 DEF TrainerUp
    <2>3. CASE TrainStep BY <2>3, ConstantsOK DEF TrainStep
    <2>4. CASE SaveFinal BY <2>4 DEF SaveFinal
    <2>5. CASE TrainerExit BY <2>5 DEF TrainerExit
    <2>6. CASE TrainerCrash BY <2>6 DEF TrainerCrash
    <2>7. CASE TrainerHang BY <2>7 DEF TrainerHang
    <2> QED BY <2>1, <2>2, <2>3, <2>4, <2>5, <2>6, <2>7 DEF Trainer, Faults
  <1> QED BY <1>1, <1>2, <1>3, <1>4, <1>5, <1>6

\* Which of the main shell's steps write what.
LEMMA MainFrame ==
    ASSUME Invoke \/ Main \/ Signal \/ PodDies
    PROVE  /\ UNCHANGED log \/ Launch \/ TestRestart
           /\ UNCHANGED done \/ Succeeded
           /\ UNCHANGED quiet \/ Invoke \/ Launch \/ TestRestart \/ Retry
           /\ UNCHANGED late \/ Invoke \/ Launch
           /\ UNCHANGED stale \/ stale' = LeavesTmp
           /\ UNCHANGED <<ckpt, gate, health, killed, verdict, restarts>>
           /\ UNCHANGED smoked \/ smoked' = TRUE
           /\ UNCHANGED restarted \/ restarted' = TRUE
  BY DEF files, main, group, sup, time, counts, bounds,
         Invoke, Main, Working, Prepare, SmokeStart, SmokeEnd, Supervise, ArmBegin, Launch,
         ReapAttempt, Succeeded, Stopped, TestRestart, Retry, Awake, ArmFails, FailWrites, Manifest,
         PipelineEnds, Trap, TrapWrites, FinishKill, FinishStatus, Signal, PodDies, TouchRestarted

LEMMA MainStepType == TypeOK /\ (Invoke \/ Main \/ Signal \/ PodDies) => TypeOK'
  <1> SUFFICES ASSUME TypeOK, Invoke \/ Main \/ Signal \/ PodDies PROVE TypeOK'
    OBVIOUS
  <1> USE DEF TypeOK
  <1>1. StatusType'
    <2>1. \/ status' = status \/ status' = <<>>
          \/ \E w \in Words : status' = <<w>> \/ status' = Append(status, w)
          \/ status' = Append(<<"EXITED">>, "TERMINAL")
      BY DEF Overwrite, Note, Fail, Words, Endings, StatusType, files, main, group, sup, time,
             counts, bounds, Invoke, Main, Working, Prepare, SmokeStart, SmokeEnd, Supervise,
             ArmBegin, Launch, ReapAttempt, Succeeded, Stopped, TestRestart, Retry, Awake,
             ArmFails, FailWrites, Manifest, PipelineEnds, Trap, TrapWrites, FinishKill,
             FinishStatus, Signal, PodDies
    <2>2. <<>> \in Seq(Words) /\ Append(<<"EXITED">>, "TERMINAL") \in Seq(Words)
      BY DEF Words, Endings
    <2>3. ASSUME NEW w \in Words, status' = <<w>> \/ status' = Append(status, w)
          PROVE  StatusType'
      BY <2>3, StatusWrites DEF StatusType, Words
    <2> QED BY <2>1, <2>2, <2>3 DEF StatusType, Words
  <1>2. MainType'
    <2>1. CASE Invoke \/ Signal \/ PodDies BY <2>1 DEF MainType, Invoke, Signal, PodDies
    <2>2. CASE PipelineEnds \/ Trap \/ TrapWrites \/ FinishKill \/ FinishStatus
      BY <2>2 DEF MainType, PipelineEnds, Trap, TrapWrites, FinishKill, FinishStatus,
                  PipelineStatus, GroupType
    <2>3. CASE Prepare \/ SmokeStart \/ SmokeEnd \/ Supervise \/ ArmFails \/ FailWrites \/ Manifest
      BY <2>3 DEF MainType, Prepare, SmokeStart, SmokeEnd, Supervise, ArmFails, FailWrites,
                  Manifest, Fail, Arms
    <2>4. CASE ArmBegin \/ Succeeded BY <2>4 DEF MainType, ArmBegin, Succeeded, NextStage, Arms
    <2>5. CASE Launch \/ ReapAttempt \/ Stopped \/ TestRestart \/ Retry \/ Awake
      BY <2>5 DEF MainType, Launch, ReapAttempt, Stopped, TestRestart, Retry, Awake
    <2> QED BY <2>1, <2>2, <2>3, <2>4, <2>5 DEF Main, Working
  <1>3. SupType'
    BY DEF SupType, SupervisorKilled, files, main, group, sup, time, counts, bounds, Invoke, Main,
           Working, Prepare, SmokeStart, SmokeEnd, Supervise, ArmBegin, Launch, ReapAttempt,
           Succeeded, Stopped, TestRestart, Retry, Awake, ArmFails, FailWrites, Manifest,
           PipelineEnds, Trap, TrapWrites, FinishKill, FinishStatus, Signal, PodDies
  <1>4. GroupType'
    <2>1. CASE Invoke \/ PodDies \/ SmokeStart \/ SmokeEnd
      <3> USE DEF GroupType, Jobs, Orphans
      <3>1. CASE Invoke BY <3>1 DEF Invoke
      <3>2. CASE PodDies BY <3>2 DEF PodDies
      <3>3. CASE SmokeStart BY <3>3 DEF SmokeStart
      <3>4. CASE SmokeEnd BY <3>4 DEF SmokeEnd
      <3> QED BY <2>1, <3>1, <3>2, <3>3, <3>4
    <2>2. CASE Launch \/ ReapAttempt
      BY <2>2 DEF GroupType, Launch, ReapAttempt, GroupReaped, MainType, Jobs, Orphans
    <2> QED BY <2>1, <2>2
        DEF GroupType, files, main, group, sup, time, counts, bounds, Main, Working, Prepare,
            Supervise, ArmBegin, Succeeded, Stopped, TestRestart, Retry, Awake, ArmFails,
            FailWrites, Manifest, PipelineEnds, Trap, TrapWrites, FinishKill, FinishStatus, Signal
  <1>5. FilesType'
    <2> USE DEF FilesType
    <2>1. done' \subseteq Arms BY MainFrame DEF MainType, Succeeded
    <2>2. stale' \in [Arms -> BOOLEAN] BY MainFrame DEF LeavesTmp
    <2>3. log' \in [Arms -> LogRecord]
      <3>1. CASE Launch
        <4>1. log' = [log EXCEPT ![arm] = Marked(log[arm])] \/ log' = [log EXCEPT ![arm] = Opened(log[arm])]
          BY <3>1 DEF Launch
        <4>2. \A l \in LogRecord : Marked(l) \in LogRecord /\ Opened(l) \in LogRecord BY MarkedType
        <4> QED BY <4>1, <4>2 DEF MainType
      <3>2. CASE TestRestart BY <3>2, MarkedType DEF TestRestart, MainType
      <3>3. UNCHANGED log \/ Launch \/ TestRestart BY MainFrame
      <3> QED BY <3>1, <3>2, <3>3
    <2> QED BY <2>1, <2>2, <2>3, MainFrame
  <1>6. CountsType'
    <2> USE DEF CountsType
    <2>1. quiet' \in [Arms -> Nat]
      <3>1. CASE Invoke
        <4>1. PICK old \in BOOLEAN :
                quiet' = [a \in Arms |-> IF old /\ log[a].open THEN StallPasses ELSE quiet[a]]
          BY <3>1 DEF Invoke
        <4> QED BY <4>1, ConstantsOK
      <3>2. CASE Launch \/ TestRestart \/ Retry BY <3>2 DEF Launch, TestRestart, Retry, MainType
      <3> QED BY <3>1, <3>2, MainFrame
    <2>2. late' \in [Arms -> Nat]
      <3>1. CASE Invoke BY <3>1 DEF Invoke
      <3>2. CASE Launch BY <3>2 DEF Launch, MainType
      <3> QED BY <3>1, <3>2, MainFrame
    <2>3. leftover' \in BOOLEAN /\ missed' \in BOOLEAN
      <3>1. CASE Launch BY <3>1, Zenon DEF Launch
      <3> QED BY <3>1
          DEF files, main, group, sup, time, counts, bounds, Invoke, Main, Working, Prepare,
              SmokeStart, SmokeEnd, Supervise, ArmBegin, ReapAttempt, Succeeded, Stopped,
              TestRestart, Retry, Awake, ArmFails, FailWrites, Manifest, PipelineEnds, Trap,
              TrapWrites, FinishKill, FinishStatus, Signal, PodDies
    <2>4. /\ launches' \in Nat /\ free' \in Nat /\ faults' \in Nat /\ invocations' \in Nat
          /\ clock' \in Nat /\ gap' \in Nat /\ age' \in Nat /\ wedged' \in Nat
      <3>1. CASE Invoke BY <3>1 DEF Invoke
      <3>2. CASE Launch \/ TestRestart BY <3>2 DEF Launch, TestRestart, bounds
      <3>3. CASE Signal \/ PodDies BY <3>3 DEF Signal, PodDies, time, counts
      <3> QED BY <3>1, <3>2, <3>3
          DEF files, main, group, sup, time, counts, bounds, Main, Working, Prepare, SmokeStart,
              SmokeEnd, Supervise, ArmBegin, ReapAttempt, Succeeded, Stopped, Retry, Awake,
              ArmFails, FailWrites, Manifest, PipelineEnds, Trap, TrapWrites, FinishKill,
              FinishStatus
    <2> QED BY <2>1, <2>2, <2>3, <2>4, MainFrame
  <1> QED BY <1>1, <1>2, <1>3, <1>4, <1>5, <1>6

LEMMA SupervisorType == TypeOK /\ Supervisor => TypeOK'
  <1> SUFFICES ASSUME TypeOK, Supervisor PROVE TypeOK'
    OBVIOUS
  <1> USE DEF TypeOK, files, main, group, sup, time, counts, bounds,
              Supervisor, Wake, ReapOrphans, CheckHung, CheckCap, CheckGate, CheckHealths,
              CheckHealth, HealthFails, ResumeTestKill, ResumeTestVerify, KillTerm, KillPoll,
              Goto, CallKill, StopRun
  <1>1. StatusType'
    <2>1. status' = status \/ \E w \in Words : status' = <<w>>
      BY DEF Overwrite, Words, StopReasons
    <2> QED BY <2>1, StatusWrites DEF StatusType, Words
  <1>2. MainType' BY DEF MainType
  <1>3. SupType'
    <2>1. CASE Wake \/ ReapOrphans \/ CheckHung BY <2>1 DEF SupType, OrphansSeen
    <2>2. CASE CheckCap \/ CheckGate \/ CheckHealths BY <2>2 DEF SupType
    <2>3. CASE ResumeTestKill \/ ResumeTestVerify \/ KillTerm \/ KillPoll BY <2>3 DEF SupType
    <2> QED BY <2>1, <2>2, <2>3
  <1>4. GroupType' BY DEF GroupType, GroupKilled, LeaderEnds, Orphans
  <1>5. FilesType'
    <2>1. stale' \in [Arms -> BOOLEAN] BY DEF FilesType, LeavesTmp, GroupKilled, LeaderEnds
    <2>2. health' \in [Arms -> {"none", "PASS", "FAIL"}] BY DEF FilesType
    <2>3. gate' \in {"none", "GO", "NOGO"} /\ verdict' \in {"none", "PASS", "FAIL"}
          /\ killed' \in BOOLEAN
      BY DEF FilesType
    <2> QED BY <2>1, <2>2, <2>3 DEF FilesType
  <1>6. CountsType'
    <2>1. missed' \in BOOLEAN BY DEF CountsType
    <2>2. CASE Wake BY <2>2, ConstantsOK DEF CountsType, Min2
    <2> QED BY <2>1, <2>2 DEF CountsType
  <1> QED BY <1>1, <1>2, <1>3, <1>4, <1>5, <1>6

\* Every reachable state is one the script, its supervisor and the trainer can be in.
THEOREM TypeCorrect == Spec => []TypeOK
  <1>1. TypeOK /\ [Next]_vars => TypeOK'
    <2>1. TypeOK /\ UNCHANGED vars => TypeOK'
      BY DEF TypeOK, StatusType, FilesType, MainType, GroupType, SupType, CountsType,
             vars, files, main, group, sup, time, counts, bounds
    <2> QED BY <2>1, TrainerType, MainStepType, SupervisorType DEF Next
  <1> QED BY InitType, <1>1, PTL DEF Spec

-----------------------------------------------------------------------------
(* No attempt overlaps the next, and .done means trained.  The two need each *)
(* other: a leftover trainer could still move the checkpoint of a done arm.  *)

\* Between attempts no trainer process exists.
Idle ==
    mpc \in {"prepare", "smoke", "supervise", "arm", "launch", "decide", "sleep",
             "armfailed", "manifest"} => lead = "none" /\ kids = "none"
\* While run_arm waits, the group trains its arm; only then does one train at all.
Attempting ==
    /\ mpc = "wait" => job = arm
    /\ mpc = "reap" => lead = "dead"
    /\ lead \in {"forming", "starting", "live", "hung"} /\ job \in Arms => mpc = "wait"
\* run_arm only runs for an arm that is not done, and for arm B after arm A.
InProgress == mpc \in {"launch", "wait", "reap", "decide", "sleep"} => arm \notin done
Order == (arm = "B" \/ job = "B") => "A" \in done
\* Status 0, from the trainer to rc, stands for the final checkpoint.
ZeroIsTrained ==
    /\ lead = "live" /\ job \in Arms /\ cur = Steps /\ ~saving => ckpt[job] = Steps
    /\ lead = "dead" /\ mpc = "wait" /\ trc = 0 => ckpt[arm] = Steps
    /\ mpc \in {"reap", "decide"} /\ rc = 0 => ckpt[arm] = Steps

AttemptInv ==
    TypeOK /\ Idle /\ Attempting /\ InProgress /\ Order /\ ZeroIsTrained
    /\ NoOverlap /\ DoneIsTrained

\* The steps that touch none of the variables AttemptInv is about.
AttemptVars == <<mpc, arm, rc, done, ckpt, lead, kids, job, cur, saving, trc, leftover>>

LEMMA AttemptFrame == AttemptInv /\ TypeOK' /\ UNCHANGED AttemptVars => AttemptInv'
  BY DEF AttemptInv, AttemptVars, Idle, Attempting, InProgress, Order, ZeroIsTrained,
         NoOverlap, DoneIsTrained

LEMMA AttemptTrainer == AttemptInv /\ TypeOK' /\ (Trainer \/ Faults) => AttemptInv'
  <1> SUFFICES ASSUME AttemptInv, TypeOK', Trainer \/ Faults PROVE AttemptInv'
    OBVIOUS
  <1> USE DEF AttemptInv, Idle, Attempting, InProgress, Order, ZeroIsTrained, NoOverlap,
              DoneIsTrained, files, main, counts
  <1>t. done \subseteq Arms /\ ckpt \in [Arms -> Int] /\ arm \in Arms /\ cur \in Nat
    BY DEF TypeOK, FilesType, MainType, GroupType
  <1>1. CASE TrainerSetsid BY <1>1 DEF TrainerSetsid
  <1>2. CASE TrainerUp
    <2>1. CASE job \in Arms
      <3>1. PICK good \in BOOLEAN :
              /\ cur' = IF good /\ ckpt[job] > 0 THEN ckpt[job] ELSE 0
              /\ ckpt' = [ckpt EXCEPT ![job] = IF ckpt[job] = NoDir THEN 0 ELSE ckpt[job]]
        BY <1>2, <2>1 DEF TrainerUp
      <3>2. Steps > 0 BY ConstantsOK
      <3>3. \A a \in Arms : ckpt[a] = Steps => ckpt'[a] = Steps BY <1>t, <3>1, <3>2 DEF NoDir
      <3>4. cur' = Steps => ckpt'[job] = Steps BY <1>t, <2>1, <3>1, <3>2 DEF NoDir
      <3> QED BY <1>2, <1>t, <2>1, <3>3, <3>4 DEF TrainerUp
    <2>2. CASE job \notin Arms BY <1>2, <2>2 DEF TrainerUp
    <2> QED BY <2>1, <2>2
  <1>3. CASE TrainStep BY <1>3, <1>t DEF TrainStep
  <1>4. CASE SaveFinal BY <1>4, <1>t DEF SaveFinal
  <1>5. CASE TrainerExit BY <1>5 DEF TrainerExit, LeaderEnds
  <1>6. CASE TrainerCrash BY <1>6 DEF TrainerCrash, LeaderEnds
  <1>7. CASE TrainerHang BY <1>7 DEF TrainerHang
  <1> QED BY <1>1, <1>2, <1>3, <1>4, <1>5, <1>6, <1>7 DEF Trainer, Faults

LEMMA AttemptSupervisor == AttemptInv /\ TypeOK' /\ Supervisor => AttemptInv'
  <1> SUFFICES ASSUME AttemptInv, TypeOK', Supervisor PROVE AttemptInv'
    OBVIOUS
  <1>1. CASE ReapOrphans \/ KillTerm \/ KillPoll
    <2> USE DEF AttemptInv, Idle, Attempting, InProgress, Order, ZeroIsTrained, NoOverlap,
                DoneIsTrained, main, counts, group
    <2>1. CASE ReapOrphans BY <2>1 DEF ReapOrphans, files
    <2>2. CASE KillTerm BY <2>2 DEF KillTerm, GroupAlive, LeaderAlive, LeaderEnds
    <2>3. CASE KillPoll BY <2>3 DEF KillPoll, GroupKilled, GroupAlive, LeaderAlive, LeaderEnds
    <2> QED BY <1>1, <2>1, <2>2, <2>3
  <1>2. CASE ~(ReapOrphans \/ KillTerm \/ KillPoll)
    <2> UNCHANGED AttemptVars
      BY <1>2 DEF Supervisor, AttemptVars, files, main, group, counts, Wake, CheckHung, CheckCap,
                  CheckGate, CheckHealths, CheckHealth, HealthFails, ResumeTestKill,
                  ResumeTestVerify
    <2> QED BY AttemptFrame
  <1> QED BY <1>1, <1>2

LEMMA AttemptMain ==
    AttemptInv /\ TypeOK' /\ (Invoke \/ Main \/ Signal \/ PodDies) => AttemptInv'
  <1> SUFFICES ASSUME AttemptInv, TypeOK', Invoke \/ Main \/ Signal \/ PodDies PROVE AttemptInv'
    OBVIOUS
  <1> USE DEF AttemptInv, Idle, Attempting, InProgress, Order, ZeroIsTrained, NoOverlap,
              DoneIsTrained, files, group, counts
  <1>t. done \subseteq Arms /\ arm \in Arms /\ Arms = {"A", "B"}
    BY DEF TypeOK, FilesType, MainType, Arms
  <1>1. CASE Invoke BY <1>1 DEF Invoke
  <1>2. CASE Prepare BY <1>2 DEF Prepare, Fail
  <1>3. CASE SmokeStart BY <1>3, <1>t DEF SmokeStart
  <1>4. CASE SmokeEnd BY <1>4 DEF SmokeEnd, Fail
  <1>5. CASE Supervise BY <1>5 DEF Supervise
  <1>6. CASE ArmBegin BY <1>6, <1>t DEF ArmBegin, NextStage
  <1>7. CASE Launch BY <1>7, <1>t DEF Launch, GroupAlive, LeaderAlive
  <1>8. CASE PipelineEnds BY <1>8 DEF PipelineEnds, PipelineStatus
  <1>9. CASE ReapAttempt BY <1>9 DEF ReapAttempt, GroupReaped
  <1>10. CASE Succeeded BY <1>10, <1>t DEF Succeeded, NextStage
  <1>11. CASE Stopped BY <1>11 DEF Stopped
  <1>12. CASE TestRestart BY <1>12 DEF TestRestart
  <1>13. CASE Retry BY <1>13 DEF Retry
  <1>14. CASE Awake BY <1>14 DEF Awake
  <1>15. CASE ArmFails BY <1>15 DEF ArmFails, Fail
  <1>16. CASE Manifest BY <1>16 DEF Manifest
  <1>17. CASE Trap \/ TrapWrites \/ FailWrites BY <1>17 DEF Trap, TrapWrites, FailWrites
  <1>18. CASE FinishKill \/ FinishStatus BY <1>18 DEF FinishKill, FinishStatus
  <1>19. CASE Signal BY <1>19 DEF Signal
  <1>20. CASE PodDies BY <1>20 DEF PodDies
  <1> QED BY <1>1, <1>2, <1>3, <1>4, <1>5, <1>6, <1>7, <1>8, <1>9, <1>10, <1>11, <1>12, <1>13,
             <1>14, <1>15, <1>16, <1>17, <1>18, <1>19, <1>20 DEF Main, Working

THEOREM AttemptsCorrect == Spec => []AttemptInv
  <1>1. Init => AttemptInv
    BY InitType, ConstantsOK
    DEF Init, AttemptInv, Idle, Attempting, InProgress, Order, ZeroIsTrained, NoOverlap,
        DoneIsTrained
  <1>2. AttemptInv /\ TypeOK' /\ [Next]_vars => AttemptInv'
    <2>1. AttemptInv /\ TypeOK' /\ UNCHANGED vars => AttemptInv'
      BY AttemptFrame DEF AttemptVars, vars, files, main, group, counts
    <2> QED BY <2>1, AttemptTrainer, AttemptSupervisor, AttemptMain DEF Next
  <1> QED BY <1>1, <1>2, TypeCorrect, PTL DEF Spec

\* A .done marker always stands for a finalised last checkpoint.
THEOREM DoneMeansTrained == Spec => []DoneIsTrained
  <1>1. AttemptInv => DoneIsTrained BY DEF AttemptInv
  <1> QED BY <1>1, AttemptsCorrect, PTL

\* Whatever dies, hangs or is killed, no launch finds processes of an earlier attempt.
THEOREM AttemptsNeverOverlap == Spec => []NoOverlap
  <1>1. AttemptInv => NoOverlap BY DEF AttemptInv
  <1> QED BY <1>1, AttemptsCorrect, PTL

\* Arm B is trained only after arm A is done.
THEOREM ArmsInOrder == Spec => []ArmOrder
  <1>1. AttemptInv => ArmOrder BY DEF AttemptInv, Order, ArmOrder
  <1> QED BY <1>1, AttemptsCorrect, PTL

-----------------------------------------------------------------------------
Preparing == mpc \in {"prepare", "smoke", "smoking", "supervise"}

\* The supervisor has recorded a reason and is on its way out, or out.
Leaving == spc = "gone" \/ (spc \in {"term", "poll"} /\ ret = "gone")

-----------------------------------------------------------------------------
(* The reason, the supervisor and TERMINAL *)

\* The supervisor runs exactly while the arms do.
SupervisorLife ==
    /\ Preparing \/ mpc \in {"down", "finish", "ended"} => spc = "off"
    /\ mpc \in {"arm", "launch", "wait", "reap", "decide", "sleep", "armfailed", "manifest"}
         => spc # "off"
    /\ spc # "off" => ret # "off"
\* It leaves only with a reason on disk, and a reason is there only once it leaves.
ReasonRecorded ==
    /\ Leaving => status # <<>>
    /\ status # <<>> /\ status[1] \in StopReasons => spc = "off" \/ Leaving
    /\ Preparing => status = <<>>
\* TERMINAL is written when both shells are finished.
TerminalAtEnd == status # <<>> /\ status[Len(status)] = "TERMINAL" => mpc = "ended"
\* A launch after a stop is the arm's last.
LateOnce ==
    /\ \A a \in Arms : late[a] <= 1 /\ (late[a] > 0 => status # <<>>)
    /\ Preparing => late = [a \in Arms |-> 0]
    /\ mpc \in {"arm", "launch", "sleep"} => late[arm] = 0
    /\ arm = "A" /\ mpc \in {"arm", "launch", "wait", "reap", "decide", "sleep"}
         => late["B"] = 0

StopInv == TypeOK /\ SupervisorLife /\ ReasonRecorded /\ TerminalAtEnd /\ LateOnce

StopVars == <<status, mpc, arm, spc, ret, late>>

LEMMA StopFrame == StopInv /\ TypeOK' /\ UNCHANGED StopVars => StopInv'
  BY DEF StopInv, StopVars, SupervisorLife, ReasonRecorded, TerminalAtEnd, LateOnce,
         Preparing, Leaving

\* What the three ways of writing STATUS leave in its first and last line.
LEMMA StatusLines ==
    ASSUME TypeOK, NEW w \in Words
    PROVE  /\ <<w>> # <<>> /\ <<w>>[1] = w /\ <<w>>[Len(<<w>>)] = w
           /\ Append(status, w) # <<>>
           /\ Append(status, w)[Len(Append(status, w))] = w
           /\ status # <<>> => Append(status, w)[1] = status[1]
  BY DEF TypeOK, StatusType, Words

LEMMA StopSupervisor == StopInv /\ TypeOK' /\ Supervisor => StopInv'
  <1> SUFFICES ASSUME StopInv, TypeOK', Supervisor PROVE StopInv'
    OBVIOUS
  <1> USE DEF StopInv, SupervisorLife, ReasonRecorded, TerminalAtEnd, LateOnce, Preparing,
              Leaving, main, counts
  <1>1. ASSUME NEW r \in StopReasons, StopRun(r), spc # "off", UNCHANGED <<main, late>>
        PROVE  StopInv'
    <2>1. r \in Words /\ r # "TERMINAL" BY DEF Words, StopReasons
    <2>2. status' # <<>> /\ status'[1] = r /\ status'[Len(status')] = r
      BY <1>1, <2>1, StatusLines DEF StopRun, Overwrite
    <2> QED BY <1>1, <2>1, <2>2 DEF StopRun, CallKill
  <1>2. CASE Wake \/ ReapOrphans \/ CheckHung
    BY <1>2 DEF Wake, ReapOrphans, CheckHung, CallKill, Goto, files
  <1>3. CASE CheckCap BY <1>3, <1>1 DEF CheckCap, StopReasons
  <1>4. CASE CheckGate BY <1>4, <1>1 DEF CheckGate, StopReasons
  <1>5. CASE CheckHealths
    BY <1>5, <1>1 DEF CheckHealths, CheckHealth, HealthFails, StopReasons
  <1>6. CASE ResumeTestKill BY <1>6 DEF ResumeTestKill, CallKill
  <1>7. CASE ResumeTestVerify BY <1>7, <1>1 DEF ResumeTestVerify, StopReasons
  \* The kill: whichever half ends it goes where the caller said.
  <1>k. ASSUME spc \in {"term", "poll"}, spc' \in {ret, "poll"},
               UNCHANGED <<main, status, ret, late>>
        PROVE  StopInv'
    <2>1. ret \in {"gone", "sleep", "cap", "verify"}
      BY <1>k DEF TypeOK, SupType
    <2> QED BY <1>k, <2>1
  <1>8. CASE KillTerm BY <1>8, <1>k DEF KillTerm
  <1>9. CASE KillPoll BY <1>9, <1>k DEF KillPoll
  <1> QED BY <1>2, <1>3, <1>4, <1>5, <1>6, <1>7, <1>8, <1>9 DEF Supervisor

LEMMA StopMain == StopInv /\ TypeOK' /\ (Invoke \/ Main \/ Signal \/ PodDies) => StopInv'
  <1> SUFFICES ASSUME StopInv, TypeOK', Invoke \/ Main \/ Signal \/ PodDies PROVE StopInv'
    OBVIOUS
  <1> USE DEF StopInv, SupervisorLife, ReasonRecorded, TerminalAtEnd, LateOnce, Preparing,
              Leaving, files, group, sup, counts
  <1>t. TypeOK /\ arm \in Arms /\ Arms = {"A", "B"} /\ late \in [Arms -> Nat]
    BY DEF TypeOK, MainType, CountsType, Arms
  <1>w. {"FAILED_AT", "KILLED", "DONE", "EXITED", "TERMINAL"} \subseteq Words \ StopReasons
    BY DEF Words, Endings, StopReasons
  \* A failure, wherever it comes from, keeps the reason it finds and is not TERMINAL.
  <1>f. ASSUME Fail, mpc \notin {"down", "finish", "ended"}, UNCHANGED <<sup, late>> PROVE StopInv'
    <2>1. CASE status = <<>> BY <1>f, <2>1 DEF Fail
    <2>2. CASE status # <<>>
      <3>1. /\ status' # <<>> /\ status'[Len(status')] = "FAILED_AT" /\ status'[1] = status[1]
        BY <1>f, <2>2, <1>t, <1>w, StatusLines DEF Fail, Note
      <3> QED BY <1>f, <2>2, <3>1 DEF Fail
    <2> QED BY <2>1, <2>2
  \* A word written over STATUS is neither a reason nor TERMINAL.
  <1>o. ASSUME NEW w \in {"FAILED_AT", "KILLED", "DONE"}, Overwrite(w), mpc' = "exit",
               mpc \notin {"down", "finish", "ended"}, UNCHANGED <<sup, late>>
        PROVE  StopInv'
    <2>1. status' # <<>> /\ status'[1] = w /\ status'[Len(status')] = w
      BY <1>o, <1>t, <1>w, StatusLines DEF Overwrite
    <2> QED BY <1>o, <1>w, <2>1
  <1>1. CASE Invoke BY <1>1, <1>t DEF Invoke
  <1>2. CASE Prepare BY <1>2, <1>f DEF Prepare
  <1>3. CASE SmokeStart BY <1>3 DEF SmokeStart
  <1>4. CASE SmokeEnd BY <1>4, <1>f DEF SmokeEnd
  <1>5. CASE Supervise BY <1>5, <1>t DEF Supervise
  <1>6. CASE ArmBegin BY <1>6, <1>t DEF ArmBegin, NextStage
  <1>7. CASE Launch BY <1>7, <1>t DEF Launch
  <1>8. CASE PipelineEnds BY <1>8 DEF PipelineEnds
  <1>9. CASE ReapAttempt BY <1>9 DEF ReapAttempt
  <1>10. CASE Succeeded BY <1>10, <1>t DEF Succeeded, NextStage
  <1>11. CASE Stopped BY <1>11 DEF Stopped
  <1>12. CASE TestRestart BY <1>12, <1>t DEF TestRestart, Stopping
  <1>13. CASE Retry BY <1>13, <1>t DEF Retry, Stopping
  <1>14. CASE Awake BY <1>14 DEF Awake
  <1>15. CASE ArmFails BY <1>15, <1>f DEF ArmFails
  <1>16. CASE Manifest BY <1>16, <1>o DEF Manifest
  <1>17. CASE Trap BY <1>17 DEF Trap
  <1>22. CASE FailWrites \/ TrapWrites BY <1>22, <1>o DEF FailWrites, TrapWrites
  <1>18. CASE FinishKill BY <1>18 DEF FinishKill, SupervisorKilled
  <1>19. CASE FinishStatus BY <1>19 DEF FinishStatus
  <1>20. CASE Signal BY <1>20 DEF Signal, main
  <1>21. CASE PodDies BY <1>21 DEF PodDies
  <1> QED BY <1>1, <1>2, <1>3, <1>4, <1>5, <1>6, <1>7, <1>8, <1>9, <1>10, <1>11, <1>12, <1>13,
             <1>14, <1>15, <1>16, <1>17, <1>18, <1>19, <1>20, <1>21, <1>22 DEF Main, Working

LEMMA StopTrainer == StopInv /\ TypeOK' /\ (Trainer \/ Faults) => StopInv'
  <1>1. Trainer \/ Faults => UNCHANGED StopVars
    BY DEF Trainer, Faults, TrainerSetsid, TrainerUp, TrainStep, SaveFinal, TrainerExit,
           TrainerCrash, TrainerHang, StopVars, files, main, sup, counts
  <1> QED BY <1>1, StopFrame

THEOREM StopsCorrect == Spec => []StopInv
  <1>1. Init => StopInv
    BY InitType
    DEF Init, StopInv, SupervisorLife, ReasonRecorded, TerminalAtEnd, LateOnce, Preparing, Leaving
  <1>2. StopInv /\ TypeOK' /\ [Next]_vars => StopInv'
    <2>1. StopInv /\ TypeOK' /\ UNCHANGED vars => StopInv'
      BY StopFrame DEF StopVars, vars, files, main, sup, counts
    <2> QED BY <2>1, StopTrainer, StopSupervisor, StopMain DEF Next
  <1> QED BY <1>1, <1>2, TypeCorrect, PTL DEF Spec

\* No arm trains without a supervisor unless a stop reason is on disk.
THEOREM NeverSilentlyUnsupervised == Spec => []UnsupervisedOnlyAfterStop
  <1>1. StopInv => UnsupervisedOnlyAfterStop
    BY DEF StopInv, SupervisorLife, ReasonRecorded, Leaving, UnsupervisedOnlyAfterStop
  <1> QED BY <1>1, StopsCorrect, PTL

\* A stop that its kill missed costs at most one more attempt per arm.
THEOREM StopIsLateOnce == Spec => []OneLateLaunchPerArm
  <1>1. StopInv => OneLateLaunchPerArm BY DEF StopInv, LateOnce, OneLateLaunchPerArm
  <1> QED BY <1>1, StopsCorrect, PTL

\* The steps that write STATUS.
LEMMA StatusWriters ==
    ASSUME TypeOK, [Next]_vars
    PROVE  \/ status' \in {status, <<>>}
           \/ mpc # "ended" /\ \/ \E w \in Words : status' = Append(status, w)
                               \/ status = <<>> \/ Committed
                               \/ mpc = "manifest" /\ status' = <<"DONE">>
           \/ spc \notin {"off", "gone", "term", "poll"}
  <1>1. CASE Invoke \/ Signal \/ PodDies BY <1>1 DEF Invoke, Signal, PodDies, files
  <1>2. CASE Main
    <2>1. CASE Prepare \/ SmokeEnd \/ ArmFails \/ FailWrites \/ Manifest
      BY <2>1 DEF Prepare, SmokeEnd, ArmFails, FailWrites, Manifest, Fail, Overwrite, Note, Words,
                  Endings, Committed
    <2>2. CASE Trap \/ TrapWrites \/ FinishStatus
      BY <2>2 DEF Trap, TrapWrites, FinishStatus, Words, Committed, files
    <2> QED BY <1>2, <2>1, <2>2
        DEF Main, Working, files, SmokeStart, Supervise, ArmBegin, Launch, PipelineEnds,
            ReapAttempt, Succeeded, Stopped, TestRestart, Retry, Awake, FinishKill
  <1>3. CASE Supervisor
    BY <1>3 DEF Supervisor, files, Goto, Wake, ReapOrphans, CheckHung, CheckCap, CheckGate,
                CheckHealths, CheckHealth, HealthFails, ResumeTestKill, ResumeTestVerify,
                KillTerm, KillPoll
  <1>4. CASE Trainer \/ Faults
    BY <1>4 DEF Trainer, Faults, files, TrainerSetsid, TrainerUp, TrainStep, SaveFinal,
                TrainerExit, TrainerCrash, TrainerHang
  <1> QED BY <1>1, <1>2, <1>3, <1>4 DEF Next, vars, files

\* Once TERMINAL is the last line, nothing is written until the next invocation.
THEOREM TerminalStaysLast == Spec => TerminalIsLast
  <1>1. StopInv /\ [Next]_vars
          => [status # <<>> /\ status[Len(status)] = "TERMINAL" => status' \in {status, <<>>}]_vars
    BY StatusWriters DEF StopInv, TerminalAtEnd, SupervisorLife
  <1> QED BY <1>1, StopsCorrect, PTL DEF Spec, TerminalIsLast

\* A failure or a signal goes on to write only where it found no STATUS.
LEMMA CommitsUnread == [Next]_vars /\ ~Committed /\ Committed' => status = <<>>
  <1> SUFFICES ASSUME [Next]_vars, ~Committed, Committed' PROVE status = <<>>
    OBVIOUS
  <1> USE DEF Committed
  <1>1. CASE Main
    <2>1. CASE Prepare \/ SmokeEnd \/ ArmFails \/ FailWrites \/ Manifest
      BY <2>1 DEF Prepare, SmokeEnd, ArmFails, FailWrites, Manifest, Fail
    <2>2. CASE Trap \/ TrapWrites \/ FinishKill \/ FinishStatus
      BY <2>2 DEF Trap, TrapWrites, FinishKill, FinishStatus
    <2> QED BY <1>1, <2>1, <2>2
        DEF Main, Working, SmokeStart, Supervise, ArmBegin, NextStage, Launch, PipelineEnds,
            ReapAttempt, Succeeded, Stopped, TestRestart, Retry, Awake
  <1>2. CASE Invoke \/ Signal \/ PodDies BY <1>2 DEF Invoke, Signal, PodDies
  <1>3. CASE Supervisor \/ Trainer \/ Faults \/ UNCHANGED vars
    BY <1>3 DEF vars, main, Supervisor, Goto, Wake, ReapOrphans, CheckHung, CheckCap, CheckGate,
                CheckHealths, CheckHealth, HealthFails, ResumeTestKill, ResumeTestVerify,
                KillTerm, KillPoll, Trainer, Faults, TrainerSetsid, TrainerUp, TrainStep,
                SaveFinal, TrainerExit, TrainerCrash, TrainerHang
  <1> QED BY <1>1, <1>2, <1>3 DEF Next

\* The manifest is written when both arms are trained.
LEMMA AllTrained == Spec => [](mpc = "manifest" => done = Arms)
  <1> DEFINE Trained == AttemptInv /\ (mpc = "manifest" => done = Arms)
  <1>1. Init => Trained
    BY InitType, ConstantsOK
    DEF Init, AttemptInv, Idle, Attempting, InProgress, Order, ZeroIsTrained, NoOverlap,
        DoneIsTrained
  <1>2. ASSUME Trained, AttemptInv', [Next]_vars PROVE Trained'
    <2>t. arm \in Arms /\ done \subseteq Arms /\ Arms = {"A", "B"} /\ (arm = "B" => "A" \in done)
      BY <1>2 DEF AttemptInv, TypeOK, MainType, FilesType, Order, Arms
    <2>1. CASE Main
      <3>1. CASE ArmBegin \/ Succeeded BY <1>2, <2>t, <3>1 DEF ArmBegin, Succeeded, NextStage, files
      <3>2. CASE Prepare \/ SmokeEnd \/ ArmFails \/ FailWrites \/ Manifest
        BY <1>2, <3>2 DEF Prepare, SmokeEnd, ArmFails, FailWrites, Manifest, Fail
      <3>3. CASE Trap \/ TrapWrites \/ FinishKill \/ FinishStatus
        BY <1>2, <3>3 DEF Trap, TrapWrites, FinishKill, FinishStatus
      <3> QED BY <1>2, <2>1, <3>1, <3>2, <3>3
          DEF Main, Working, SmokeStart, Supervise, Launch, PipelineEnds, ReapAttempt, Stopped,
              TestRestart, Retry, Awake
    <2>2. CASE Invoke \/ Signal \/ PodDies BY <1>2, <2>2 DEF Invoke, Signal, PodDies, files
    <2>3. CASE Supervisor \/ Trainer \/ Faults \/ UNCHANGED vars
      BY <1>2, <2>3
      DEF vars, files, main, Supervisor, Goto, Wake, ReapOrphans, CheckHung, CheckCap, CheckGate,
          CheckHealths, CheckHealth, HealthFails, ResumeTestKill, ResumeTestVerify, KillTerm,
          KillPoll, Trainer, Faults, TrainerSetsid, TrainerUp, TrainStep, SaveFinal,
          TrainerExit, TrainerCrash, TrainerHang
    <2> QED BY <1>2, <2>1, <2>2, <2>3 DEF Next
  <1>3. Trained /\ AttemptInv' /\ [Next]_vars => Trained' BY <1>2
  <1> QED BY <1>1, <1>3, AttemptsCorrect, PTL DEF Spec

\* A reason on disk survives every failure, signal and exit that begins after it was
\* written; only DONE replaces it, when both arms are trained.  One that the
\* supervisor writes between main's test of STATUS and its write is lost.
THEOREM ReasonSurvives == Spec => FailureKeepsReason
  <1> DEFINE Trained == mpc = "manifest" => done = Arms
             Keeps ==
               /\ status # <<>> /\ status[1] \in StopReasons /\ status' # <<>> /\ status'[1] # status[1]
                    => Committed \/ (done = Arms /\ status' = <<"DONE">>)
               /\ ~Committed /\ Committed' => status = <<>>
  <1>1. ASSUME StopInv, Trained, [Next]_vars PROVE Keeps
    <2>1. TypeOK BY <1>1 DEF StopInv
    <2>2. \A w \in Words : status # <<>> => Append(status, w)[1] = status[1]
      BY <2>1, StatusLines
    <2>3. status # <<>> /\ status[1] \in StopReasons => spc \in {"off", "gone", "term", "poll"}
      BY <1>1 DEF StopInv, ReasonRecorded, Leaving
    <2> QED BY <1>1, <2>1, <2>2, <2>3, StatusWriters, CommitsUnread
  <1>2. StopInv /\ Trained /\ [Next]_vars => [Keeps]_vars BY <1>1
  <1> QED BY <1>2, StopsCorrect, AllTrained, PTL DEF Spec, FailureKeepsReason

-----------------------------------------------------------------------------
(* ShotOne implements PodRun *)

\* A step that writes neither STATUS nor the phase is a stutter of PodRun.
LEMMA QuietStep == UNCHANGED status /\ Phase' = Phase => UNCHANGED Run!podrun
  BY DEF Run!podrun

LEMMA SupervisorKeepsPodRun == StopInv /\ Supervisor => [Run!RunNext]_(Run!podrun)
  <1> SUFFICES ASSUME StopInv, Supervisor PROVE [Run!RunNext]_(Run!podrun)
    OBVIOUS
  <1>1. UNCHANGED main BY DEF Supervisor, Goto, Wake, ReapOrphans, CheckHung, CheckCap,
          CheckGate, CheckHealths, CheckHealth, HealthFails, ResumeTestKill, ResumeTestVerify,
          KillTerm, KillPoll
  <1>2. Phase' = Phase BY <1>1 DEF Phase, main
  <1>3. UNCHANGED status \/ \E r \in StopReasons : StopRun(r) /\ spc \notin {"off", "gone", "term", "poll"}
    BY DEF Supervisor, Goto, files, Wake, ReapOrphans, CheckHung, CheckCap, CheckGate,
           CheckHealths, CheckHealth, HealthFails, ResumeTestKill, ResumeTestVerify, KillTerm,
           KillPoll, StopReasons
  <1>4. ASSUME NEW r \in StopReasons, StopRun(r), spc \notin {"off", "gone", "term", "poll"}
        PROVE  Run!Stop
    <2>1. Phase # "off" BY <1>4 DEF StopInv, SupervisorLife, Preparing, Phase
    <2>2. status = <<>> \/ status[1] \notin StopReasons
      BY <1>4 DEF StopInv, ReasonRecorded, Leaving
    <2> QED BY <1>2, <1>4, <2>1, <2>2 DEF Run!Stop, StopRun, Overwrite
  <1> QED BY <1>2, <1>3, <1>4, QuietStep DEF Run!RunNext

LEMMA MainKeepsPodRun ==
    StopInv /\ (Invoke \/ Main \/ Signal \/ PodDies) => [Run!RunNext]_(Run!podrun)
  <1> SUFFICES ASSUME StopInv, Invoke \/ Main \/ Signal \/ PodDies
               PROVE  [Run!RunNext]_(Run!podrun)
    OBVIOUS
  <1> USE DEF Committed
  <1>f. ASSUME Fail, mpc \notin {"down", "ended", "exit", "finish", "failing", "trapping"}
        PROVE  Run!Return \/ Run!Looks
    <2>1. Phase = "running" BY <1>f DEF Phase
    <2>2. CASE status = <<>>
      <3>1. Phase' = "failing" BY <1>f, <2>2 DEF Fail, Phase
      <3> QED BY <1>f, <2>1, <2>2, <3>1 DEF Fail, Run!Looks
    <2>3. CASE status # <<>>
      <3>1. Phase' = "ending" BY <1>f, <2>3 DEF Fail, Phase
      <3> QED BY <1>f, <2>1, <2>3, <3>1 DEF Fail, Note, Run!Return
    <2> QED BY <2>2, <2>3
  <1>1. CASE Invoke
    <2>1. Phase = "off" /\ Phase' = "running" BY <1>1 DEF Invoke, Phase
    <2> QED BY <1>1, <2>1 DEF Invoke, Run!RunNext, Run!Begin
  <1>2. CASE Prepare \/ SmokeEnd \/ ArmFails
    <2>1. \/ Fail
          \/ UNCHANGED status /\ Phase' = Phase
      BY <1>2 DEF Prepare, SmokeEnd, ArmFails, Phase
    <2>2. mpc \notin {"down", "ended", "exit", "finish", "failing", "trapping"}
      BY <1>2 DEF Prepare, SmokeEnd, ArmFails
    <2> QED BY <1>f, <2>1, <2>2, QuietStep DEF Run!RunNext
  <1>3. CASE Manifest
    <2>1. Phase = "running" /\ Phase' = "ending" BY <1>3 DEF Manifest, Phase
    <2> QED BY <1>3, <2>1 DEF Manifest, Overwrite, Run!RunNext, Run!Return
  <1>7. CASE FailWrites \/ TrapWrites
    <2>1. Phase = "failing" /\ Phase' = "ending" BY <1>7 DEF FailWrites, TrapWrites, Phase
    <2> QED BY <1>7, <2>1 DEF FailWrites, TrapWrites, Overwrite, Run!RunNext, Run!Fails
  \* The signal's test: of a failure that was about to write it looks again.
  <1>8. CASE Trap
    <2>1. UNCHANGED status BY <1>8 DEF Trap, files
    <2>2. CASE status = <<>>
      <3>1. Phase \in {"running", "failing"} /\ Phase' = "failing" BY <1>8, <2>2 DEF Trap, Phase
      <3> QED BY <2>1, <2>2, <3>1, QuietStep DEF Run!RunNext, Run!Looks
    <2>3. CASE status # <<>>
      <3>1. Phase \in {"running", "failing"} /\ Phase' = "ending" BY <1>8, <2>3 DEF Trap, Phase
      <3> QED BY <2>1, <2>3, <3>1 DEF Run!RunNext, Run!Return, Run!Fails
    <2> QED BY <2>2, <2>3
  <1>4. CASE FinishStatus
    <2>1. Phase = "ending" /\ Phase' = "off" BY <1>4 DEF FinishStatus, Phase
    <2> QED BY <1>4, <2>1 DEF FinishStatus, Run!RunNext, Run!End
  <1>5. CASE PodDies
    <2>1. Phase # "off" /\ Phase' = "off" BY <1>5 DEF PodDies, Phase
    <2> QED BY <1>5, <2>1 DEF PodDies, Run!RunNext, Run!Die
  <1>6. CASE ~(Invoke \/ Prepare \/ SmokeEnd \/ ArmFails \/ FailWrites \/ Manifest \/ Trap
               \/ TrapWrites \/ FinishStatus \/ PodDies)
    <2>1. UNCHANGED status
      BY <1>6 DEF Main, Working, files, SmokeStart, Supervise, ArmBegin, Launch, PipelineEnds,
                  ReapAttempt, Succeeded, Stopped, TestRestart, Retry, Awake, FinishKill, Signal
    <2>2. Phase' = Phase
      BY <1>6 DEF Main, Working, Phase, NextStage, SmokeStart, Supervise, ArmBegin, Launch,
                  PipelineEnds, ReapAttempt, Succeeded, Stopped, TestRestart, Retry, Awake,
                  FinishKill, Signal
    <2> QED BY <2>1, <2>2, QuietStep
  <1> QED BY <1>1, <1>2, <1>3, <1>4, <1>5, <1>6, <1>7, <1>8

\* Whatever fails, stops, dies or is killed, STATUS changes as the watchdog was promised.
THEOREM ImplementsPodRun == Spec => KeepsPodRun
  <1>1. Init => Run!RunInit BY DEF Init, Run!RunInit, Phase, Committed
  <1>2. StopInv /\ [Next]_vars => [Run!RunNext]_(Run!podrun)
    <2>1. CASE Trainer \/ Faults \/ UNCHANGED vars
      <3>1. UNCHANGED <<status, mpc>>
        BY <2>1 DEF Trainer, Faults, vars, files, main, TrainerSetsid, TrainerUp, TrainStep,
                    SaveFinal, TrainerExit, TrainerCrash, TrainerHang
      <3> QED BY <3>1, QuietStep DEF Phase
    <2> QED BY <2>1, SupervisorKeepsPodRun, MainKeepsPodRun DEF Next
  <1> QED BY <1>1, <1>2, StopsCorrect, PTL DEF Spec, KeepsPodRun, Run!RunSpec

-----------------------------------------------------------------------------
(* Launches are counted against attempts *)

\* What arm A may have used when arm B runs.
Base == IF arm = "B" THEN MaxRetries + 1 ELSE 0

Budgeted ==
    /\ free = IF restarted THEN 1 ELSE 0
    /\ launches <= 2 * (MaxRetries + 1) + free
    /\ mpc \in {"prepare", "smoke", "smoking", "supervise"} => launches = 0
    /\ mpc = "arm" => launches <= Base + free
    /\ mpc \in {"launch", "sleep"} =>
         attempt <= MaxRetries /\ launches <= Base + free + attempt
    /\ mpc \in {"wait", "reap", "decide"} =>
         attempt <= MaxRetries /\ launches <= Base + free + attempt + 1

BudgetInv == TypeOK /\ Budgeted
BudgetVars == <<mpc, arm, attempt, launches, free, restarted>>

LEMMA BudgetStep == BudgetInv /\ TypeOK' /\ [Next]_vars => BudgetInv'
  <1> SUFFICES ASSUME BudgetInv, TypeOK', [Next]_vars PROVE BudgetInv'
    OBVIOUS
  <1>t. /\ MaxRetries \in Nat /\ arm \in {"A", "B"} /\ attempt \in Nat
        /\ launches \in Nat /\ free \in Nat /\ restarted \in BOOLEAN
    BY ConstantsOK DEF BudgetInv, TypeOK, MainType, CountsType, FilesType, Arms
  <1> USE DEF BudgetInv, Budgeted, Base
  <1>f. ASSUME UNCHANGED BudgetVars PROVE BudgetInv'
    BY <1>f DEF BudgetVars
  \* Steps that leave the loop for a state with no budget of its own.
  <1>l. ASSUME mpc' \in {"down", "armfailed", "failing", "manifest", "trapping", "exit", "finish", "ended"},
               UNCHANGED <<launches, free, restarted>>
        PROVE  BudgetInv'
    BY <1>l
  <1>1. CASE Invoke BY <1>1, <1>t DEF Invoke
  <1>2. CASE Prepare \/ SmokeStart \/ SmokeEnd
    BY <1>2, <1>l DEF Prepare, SmokeStart, SmokeEnd, Fail, files, counts
  <1>3. CASE Supervise BY <1>3, <1>t DEF Supervise, files, counts
  <1>4. CASE ArmBegin BY <1>4, <1>t DEF ArmBegin, NextStage, files, counts
  <1>5. CASE Launch BY <1>5, <1>t DEF Launch
  <1>6. CASE PipelineEnds \/ ReapAttempt BY <1>6, <1>t DEF PipelineEnds, ReapAttempt, files, counts
  <1>7. CASE Succeeded BY <1>7, <1>t DEF Succeeded, NextStage, counts
  <1>8. CASE Stopped BY <1>8, <1>l DEF Stopped, files, counts
  <1>9. CASE TestRestart BY <1>9, <1>t DEF TestRestart, TouchRestarted
  <1>10. CASE Retry BY <1>10, <1>t DEF Retry, files, counts
  <1>11. CASE Awake BY <1>11, <1>t DEF Awake, files, counts
  <1>12. CASE ArmFails \/ FailWrites \/ Manifest \/ Trap \/ TrapWrites \/ FinishKill \/ FinishStatus \/ PodDies
    BY <1>12, <1>l DEF ArmFails, FailWrites, Manifest, Trap, TrapWrites, FinishKill, FinishStatus,
                       PodDies, Fail, files, counts
  <1>13. CASE Supervisor \/ Trainer \/ Faults \/ Signal \/ UNCHANGED vars
    <2> UNCHANGED BudgetVars
      BY <1>13 DEF BudgetVars, vars, files, main, counts, Supervisor, Goto, Wake, ReapOrphans,
           CheckHung, CheckCap, CheckGate, CheckHealths, CheckHealth, HealthFails,
           ResumeTestKill, ResumeTestVerify, KillTerm, KillPoll, Trainer, Faults, TrainerSetsid,
           TrainerUp, TrainStep, SaveFinal, TrainerExit, TrainerCrash, TrainerHang, Signal
    <2> QED BY <1>f
  <1> QED BY <1>1, <1>2, <1>3, <1>4, <1>5, <1>6, <1>7, <1>8, <1>9, <1>10, <1>11, <1>12, <1>13
          DEF Next, Main, Working

\* Retries are bounded per invocation; the restart that costs none happens once.
THEOREM RetriesBounded == Spec => []RetryBudget
  <1>1. Init => BudgetInv
    BY InitType, ConstantsOK DEF Init, BudgetInv, Budgeted
  <1>2. BudgetInv => RetryBudget
    BY DEF BudgetInv, Budgeted, RetryBudget, TypeOK, FilesType
  <1> QED BY <1>1, <1>2, BudgetStep, TypeCorrect, PTL DEF Spec

-----------------------------------------------------------------------------
(* The resume test *)

\* A first step at or past the checkpoint is a good restart's, an earlier one a
\* broken one's.
Explains(step) ==
    /\ step >= SaveEvery => "good" \in restarts
    /\ step < SaveEvery => "broken" \in restarts

TestOrder ==
    /\ log["A"].mark => killed
    /\ killed => ckpt["A"] >= SaveEvery
    /\ saving /\ job \in Arms => lead \notin {"forming", "starting"} /\ cur >= SaveEvery
    /\ verdict # "none" => killed
Judged ==
    /\ lead = "live" /\ job = "A" /\ log["A"].mark /\ log["A"].first = NoStep => Explains(cur)
    /\ log["A"].first # NoStep => Explains(log["A"].first)
    /\ VerdictIsTrue

TestInv == AttemptInv /\ TestOrder /\ Judged

TestVars == <<log, killed, ckpt, saving, job, lead, cur, verdict, restarts>>

LEMMA TestFrame == TestInv /\ AttemptInv' /\ UNCHANGED TestVars => TestInv'
  BY DEF TestInv, TestVars, TestOrder, Judged, Explains, VerdictIsTrue

\* A save is only ever started at SAVE_EVERY or later.
LEMMA SaveStep ==
    ASSUME NEW c \in Nat, c % SaveEvery = 0 \/ c = Steps, c > 0
    PROVE  c >= SaveEvery
  <1>1. SaveEvery \in Nat \ {0} /\ SaveEvery < Steps /\ Steps \in Nat BY ConstantsOK
  <1>2. CASE c % SaveEvery = 0 BY <1>1, <1>2
  <1>3. CASE c = Steps BY <1>1, <1>3
  <1> QED BY <1>2, <1>3

LEMMA TestTrainer == TestInv /\ AttemptInv' /\ (Trainer \/ Faults) => TestInv'
  <1> SUFFICES ASSUME TestInv, AttemptInv', Trainer \/ Faults PROVE TestInv'
    OBVIOUS
  <1> USE DEF TestInv, TestOrder, Judged, Explains, VerdictIsTrue
  <1>t. /\ ckpt \in [Arms -> Int] /\ log \in [Arms -> LogRecord] /\ cur \in Nat
        /\ "A" \in Arms /\ SaveEvery \in Nat \ {0}
    BY ConstantsOK DEF AttemptInv, TypeOK, FilesType, GroupType, Arms
  <1>1. CASE TrainerSetsid BY <1>1 DEF TrainerSetsid, files, counts
  <1>2. CASE TrainerUp
    <2>1. CASE job \in Arms
      <3>1. PICK good \in BOOLEAN :
              /\ cur' = IF good /\ ckpt[job] > 0 THEN ckpt[job] ELSE 0
              /\ ckpt' = [ckpt EXCEPT ![job] = IF ckpt[job] = NoDir THEN 0 ELSE ckpt[job]]
              /\ restarts' = IF job = "A" /\ killed
                             THEN restarts \union {IF good THEN "good" ELSE "broken"}
                             ELSE restarts
        BY <1>2, <2>1 DEF TrainerUp
      <3>2. UNCHANGED <<log, killed, verdict, saving, job>> /\ lead = "starting"
        BY <1>2, <2>1 DEF TrainerUp
      <3>3. killed => ckpt'["A"] >= SaveEvery BY <1>t, <3>1 DEF NoDir
      <3>4. ~saving BY <2>1, <3>2
      <3>5. job = "A" /\ killed => Explains(cur)'
        <4> SUFFICES ASSUME job = "A", killed PROVE Explains(cur)'
          OBVIOUS
        <4>1. CASE good BY <1>t, <3>1, <4>1
        <4>2. CASE ~good BY <1>t, <3>1, <4>2
        <4> QED BY <4>1, <4>2
      <3>6. restarts \subseteq restarts' BY <3>1
      <3> QED BY <3>2, <3>3, <3>4, <3>5, <3>6
    <2>2. CASE job \notin Arms BY <1>2, <1>t, <2>2 DEF TrainerUp
    <2> QED BY <2>1, <2>2
  <1>3. CASE TrainStep
    <2>1. PICK b \in BOOLEAN : log' = [log EXCEPT ![job] = Logged(log[job], b)]
      BY <1>3 DEF TrainStep
    <2>2. UNCHANGED <<killed, ckpt, verdict, restarts, job, lead>> /\ lead = "live"
      BY <1>3 DEF TrainStep, counts
    <2>3. saving' => cur' >= SaveEvery
      <3>1. cur' \in Nat /\ cur' > 0 BY <1>3, <1>t DEF TrainStep
      <3>2. saving' => cur' % SaveEvery = 0 \/ cur' = Steps BY <1>3 DEF TrainStep
      <3> QED BY <3>1, <3>2, SaveStep
    <2>4. CASE job = "A"
      <3>1. /\ log'["A"].mark = log["A"].mark
            /\ log'["A"].first = IF log["A"].mark /\ log["A"].first = NoStep
                                 THEN cur ELSE log["A"].first
        BY <1>t, <2>1, <2>4 DEF Logged
      <3> QED BY <1>t, <2>2, <2>3, <2>4, <3>1 DEF NoStep
    <2>5. CASE job # "A"
      <3>1. log'["A"] = log["A"] BY <1>t, <2>1, <2>5
      <3> QED BY <2>2, <2>3, <2>5, <3>1
    <2> QED BY <2>4, <2>5
  <1>4. CASE SaveFinal BY <1>4, <1>t DEF SaveFinal, counts
  <1>5. CASE TrainerExit BY <1>5 DEF TrainerExit, LeaderEnds, counts
  <1>6. CASE TrainerCrash BY <1>6 DEF TrainerCrash, LeaderEnds, counts
  <1>7. CASE TrainerHang BY <1>7 DEF TrainerHang, files, counts
  <1> QED BY <1>1, <1>2, <1>3, <1>4, <1>5, <1>6, <1>7 DEF Trainer, Faults

LEMMA TestSupervisor == TestInv /\ AttemptInv' /\ Supervisor => TestInv'
  <1> SUFFICES ASSUME TestInv, AttemptInv', Supervisor PROVE TestInv'
    OBVIOUS
  <1>t. log \in [Arms -> LogRecord] /\ log["A"].mark \in BOOLEAN /\ log["A"].first \in Int
        /\ SaveEvery \in Nat
    BY ConstantsOK DEF TestInv, AttemptInv, TypeOK, FilesType, LogRecord, Arms
  <1> USE DEF TestInv, TestOrder, Judged, Explains, VerdictIsTrue, counts, group
  <1>1. CASE ResumeTestKill BY <1>1, <1>t DEF ResumeTestKill, CheckpointFinal
  <1>2. CASE ResumeTestVerify BY <1>2, <1>t DEF ResumeTestVerify, FirstStep
  <1>3. CASE KillTerm BY <1>3 DEF KillTerm, LeaderEnds, LeaderAlive
  <1>4. CASE KillPoll BY <1>4 DEF KillPoll, GroupKilled, LeaderEnds
  <1>5. CASE ~(ResumeTestKill \/ ResumeTestVerify \/ KillTerm \/ KillPoll)
    <2> UNCHANGED TestVars
      BY <1>5 DEF Supervisor, TestVars, files, main, Wake, ReapOrphans, CheckHung, CheckCap,
                  CheckGate, CheckHealths, CheckHealth, HealthFails
    <2> QED BY TestFrame
  <1> QED BY <1>1, <1>2, <1>3, <1>4, <1>5

LEMMA TestMain ==
    TestInv /\ AttemptInv' /\ (Invoke \/ Main \/ Signal \/ PodDies) => TestInv'
  <1> SUFFICES ASSUME TestInv, AttemptInv', Invoke \/ Main \/ Signal \/ PodDies PROVE TestInv'
    OBVIOUS
  <1>t. log \in [Arms -> LogRecord] /\ arm \in Arms /\ "A" \in Arms
    BY DEF TestInv, AttemptInv, TypeOK, FilesType, MainType, Arms
  <1>i. mpc \in {"launch", "decide"} => lead = "none" BY DEF TestInv, AttemptInv, Idle
  <1>m. UNCHANGED <<ckpt, killed, verdict, restarts>> BY MainFrame
  <1> USE DEF TestInv, TestOrder, Judged, Explains, VerdictIsTrue
  <1>1. CASE Launch
    <2>1. log'["A"].first = log["A"].first /\ (log'["A"].mark => log["A"].mark \/ killed)
      <3>1. ASSUME NEW l \in LogRecord
            PROVE  Marked(l).first = l.first /\ Opened(l).first = l.first
                   /\ Opened(l).mark = l.mark
        BY <3>1 DEF Marked, Opened, LogRecord
      <3>2. log["A"] \in LogRecord BY <1>t
      <3>3. \/ log' = [log EXCEPT ![arm] = Marked(log[arm])] /\ killed
            \/ log' = [log EXCEPT ![arm] = Opened(log[arm])]
        BY <1>1 DEF Launch
      <3> QED BY <1>t, <3>1, <3>2, <3>3
    <2> QED BY <1>1, <1>m, <2>1 DEF Launch
  <1>2. CASE TestRestart
    <2>1. log'["A"].first = log["A"].first /\ killed
      BY <1>2, <1>t DEF TestRestart, Marked, LogRecord
    <2> QED BY <1>2, <1>i, <1>m, <2>1 DEF TestRestart, group
  <1>3. CASE Invoke BY <1>3 DEF Invoke
  <1>4. CASE SmokeStart BY <1>4, <1>m DEF SmokeStart, Arms, files
  <1>5. CASE SmokeEnd BY <1>5, <1>m DEF SmokeEnd
  <1>6. CASE ReapAttempt BY <1>6, <1>m DEF ReapAttempt, GroupReaped, files
  <1>7. CASE PodDies BY <1>7 DEF PodDies, counts
  <1>8. CASE ~(Launch \/ TestRestart \/ Invoke \/ SmokeStart \/ SmokeEnd \/ ReapAttempt \/ PodDies)
    <2> UNCHANGED <<log, group>>
      BY <1>8 DEF Main, Working, files, Prepare, Supervise, ArmBegin, Succeeded, Stopped, Retry,
                  Awake, ArmFails, FailWrites, Manifest, PipelineEnds, Trap, TrapWrites,
                  FinishKill, FinishStatus, Signal
    <2> QED BY <1>m, TestFrame DEF TestVars, group
  <1> QED BY <1>1, <1>2, <1>3, <1>4, <1>5, <1>6, <1>7, <1>8

\* The resume test passes only if a trainer continued from the checkpoint, and fails
\* only if one did not.
THEOREM VerdictTrue == Spec => []VerdictIsTrue
  <1>1. Init => TestInv
    <2>1. Init => TestOrder /\ Judged
      BY DEF Init, TestOrder, Judged, VerdictIsTrue, NewLog, NoStep, Arms
    <2>2. Init => AttemptInv
      BY InitType, ConstantsOK
      DEF Init, AttemptInv, Idle, Attempting, InProgress, Order, ZeroIsTrained, NoOverlap,
          DoneIsTrained
    <2> QED BY <2>1, <2>2 DEF TestInv
  <1>2. TestInv /\ AttemptInv' /\ [Next]_vars => TestInv'
    <2>1. TestInv /\ AttemptInv' /\ UNCHANGED vars => TestInv'
      BY TestFrame DEF TestVars, vars, files, group, counts
    <2> QED BY <2>1, TestTrainer, TestSupervisor, TestMain DEF Next
  <1>3. TestInv => VerdictIsTrue BY DEF TestInv, Judged
  <1> QED BY <1>1, <1>2, <1>3, AttemptsCorrect, PTL DEF Spec

-----------------------------------------------------------------------------
(* The resume test's kill and the save in flight *)

\* The checks of a pass up to the resume test's, and a kill that returns to one.
BeforeTest ==
    \/ spc \in {"reap", "hung", "cap", "gate", "healthA", "failA", "healthB", "failB", "test"}
    \/ spc \in {"term", "poll"} /\ ret = "cap"
TestKilling == spc \in {"term", "poll"} /\ ret = "verify"
AwaitsTest == ~killed /\ CheckpointFinal

\* The pass that first finds the checkpoint final began at most once since the
\* trainer's last step, so its kill comes before the trainer's next one.
Spared ==
    /\ spc \in {"term", "poll"} => ret \in {"gone", "cap", "verify"}
    /\ Preparing => gap = 0
    /\ AwaitsTest /\ spc \in {"sleep", "verify"} => gap = 0
    /\ AwaitsTest /\ BeforeTest => gap <= 1
    /\ TestKilling => killed /\ gap <= 1 /\ ~(saving /\ job = "A")

SpareVars == <<mpc, spc, ret, killed, gap, ckpt, stale, saving, job>>

LEMMA SpareFrame == Spared /\ UNCHANGED SpareVars => Spared'
  BY DEF Spared, SpareVars, Preparing, BeforeTest, TestKilling, AwaitsTest, CheckpointFinal

LEMMA SpareTrainer == Spared /\ TypeOK /\ (Trainer \/ Faults) => Spared'
  <1> SUFFICES ASSUME Spared, TypeOK, Trainer \/ Faults PROVE Spared'
    OBVIOUS
  <1> USE DEF Spared, Preparing, BeforeTest, TestKilling, AwaitsTest, CheckpointFinal,
              files, main, sup, time
  <1>t. stale \in [Arms -> BOOLEAN] /\ "A" \in Arms /\ gap \in Nat /\ saving \in BOOLEAN
    BY DEF TypeOK, FilesType, CountsType, GroupType, Arms
  <1>1. CASE TrainerSetsid \/ TrainerHang BY <1>1, SpareFrame
      DEF SpareVars, TrainerSetsid, TrainerHang
  <1>2. CASE TrainerUp
    <2>1. CASE job \in Arms
      <3>1. gap' = 0 /\ UNCHANGED <<mpc, spc, ret, killed, saving, job>> BY <1>2, <2>1 DEF TrainerUp
      <3> QED BY <3>1
    <2>2. CASE job \notin Arms BY <1>2, <2>2, SpareFrame DEF SpareVars, TrainerUp
    <2> QED BY <2>1, <2>2
  <1>3. CASE TrainStep
    <2>1. gap' = 0 /\ UNCHANGED <<mpc, spc, ret, killed, job>> BY <1>3 DEF TrainStep
    <2>2. ~TestKilling BY <1>3, <1>t DEF TrainStep, Paced
    <2> QED BY <2>1, <2>2
  <1>4. CASE SaveFinal BY <1>4 DEF SaveFinal
  <1>5. CASE TrainerExit \/ TrainerCrash
    <2>1. ~saving' /\ stale' = LeavesTmp /\ UNCHANGED <<mpc, spc, ret, killed, gap, ckpt, job>>
      BY <1>5 DEF TrainerExit, TrainerCrash, LeaderEnds
    <2>2. CheckpointFinal' => CheckpointFinal BY <2>1, <1>t DEF LeavesTmp
    <2> QED BY <2>1, <2>2
  <1> QED BY <1>1, <1>2, <1>3, <1>4, <1>5 DEF Trainer, Faults

LEMMA SpareSupervisor == Spared /\ StopInv /\ Supervisor => Spared'
  <1> SUFFICES ASSUME Spared, StopInv, Supervisor PROVE Spared'
    OBVIOUS
  <1>t. stale \in [Arms -> BOOLEAN] /\ "A" \in Arms /\ gap \in Nat /\ saving \in BOOLEAN
        /\ (Preparing => spc = "off")
    BY DEF StopInv, SupervisorLife, TypeOK, FilesType, CountsType, GroupType, Arms
  <1> USE DEF Spared, BeforeTest, TestKilling, AwaitsTest, CheckpointFinal,
              files, main, group, time, Preparing
  \* A step that calls a kill, or goes on, without moving past the test.
  <1>1. CASE Wake BY <1>1, <1>t DEF Wake, Goto, Min2
  <1>2. CASE ReapOrphans BY <1>2, <1>t DEF ReapOrphans, Goto
  <1>3. CASE CheckHung BY <1>3, <1>t DEF CheckHung, CallKill
  <1>4. CASE CheckCap BY <1>4, <1>t DEF CheckCap, StopRun, CallKill
  <1>5. CASE CheckGate BY <1>5, <1>t DEF CheckGate, StopRun, CallKill
  <1>6. CASE CheckHealths BY <1>6, <1>t
      DEF CheckHealths, CheckHealth, HealthFails, StopRun, CallKill
  <1>7. CASE ResumeTestKill BY <1>7, <1>t DEF ResumeTestKill, CallKill
  <1>8. CASE ResumeTestVerify BY <1>8, <1>t DEF ResumeTestVerify, StopRun, CallKill
  <1>k. /\ LeavesTmp["A"] = (stale["A"] \/ (saving /\ job = "A"))
    BY <1>t DEF LeavesTmp
  <1>9. CASE KillTerm
    <2>1. UNCHANGED <<mpc, ret, killed, gap, ckpt, job>> /\ spc' \in {"poll", ret} /\ spc = "term"
      BY <1>9 DEF KillTerm
    <2>2. (UNCHANGED <<saving, stale>>) \/ (~saving' /\ stale' = LeavesTmp)
      BY <1>9 DEF KillTerm, LeaderEnds
    <2>3. CheckpointFinal' => CheckpointFinal BY <2>1, <2>2, <1>k
    <2> QED BY <2>1, <2>2, <2>3, <1>t
  <1>10. CASE KillPoll
    <2>1. UNCHANGED <<mpc, ret, killed, gap, ckpt, job>> /\ spc' = ret /\ spc = "poll"
      BY <1>10 DEF KillPoll, GroupKilled
    <2>2. (UNCHANGED <<saving, stale>>) \/ (~saving' /\ stale' = LeavesTmp)
      BY <1>10 DEF KillPoll, GroupKilled, LeaderEnds
    <2>3. CheckpointFinal' => CheckpointFinal BY <2>1, <2>2, <1>k
    <2> QED BY <2>1, <2>2, <2>3, <1>t
  <1> QED BY <1>1, <1>2, <1>3, <1>4, <1>5, <1>6, <1>7, <1>8, <1>9, <1>10 DEF Supervisor

LEMMA SpareMain == Spared /\ StopInv /\ StopInv' /\ (Invoke \/ Main \/ Signal \/ PodDies) => Spared'
  <1> SUFFICES ASSUME Spared, StopInv, StopInv', Invoke \/ Main \/ Signal \/ PodDies PROVE Spared'
    OBVIOUS
  <1>t. /\ Preparing \/ mpc \in {"down", "finish", "ended"} => spc = "off"
        /\ Preparing' \/ mpc' \in {"down", "finish", "ended"} => spc' = "off"
    BY DEF StopInv, SupervisorLife, Preparing
  <1>m. UNCHANGED <<ckpt, killed>> BY MainFrame
  <1> USE DEF Spared, TestKilling
  \* With no supervisor only the passes before the first are spoken of.
  <1>o. ASSUME spc' = "off", Preparing' => gap' = 0 PROVE Spared'
    BY <1>o DEF BeforeTest
  <1>1. CASE Invoke BY <1>1, <1>t, <1>o DEF Invoke, Preparing, sup
  <1>2. CASE Prepare \/ SmokeStart \/ SmokeEnd
    BY <1>2, <1>t, <1>o DEF Prepare, SmokeStart, SmokeEnd, Preparing, sup, time, Fail
  <1>3. CASE Supervise
    BY <1>3, <1>t DEF Supervise, Preparing, time, BeforeTest, group, files, AwaitsTest
  <1>4. CASE PodDies \/ FinishKill \/ FinishStatus
    BY <1>4, <1>t, <1>o DEF PodDies, FinishKill, FinishStatus, SupervisorKilled, Preparing, sup,
                            time
  <1>5. CASE Launch
    <2>1. gap' = 0 /\ ~saving' /\ UNCHANGED <<spc, ret>> /\ mpc' = "wait" BY <1>5 DEF Launch
    <2> QED BY <2>1, <1>m DEF Preparing
  <1>6. CASE ~(\/ Invoke \/ Prepare \/ SmokeStart \/ SmokeEnd \/ Supervise \/ PodDies
               \/ FinishKill \/ FinishStatus \/ Launch)
    <2>1. UNCHANGED <<spc, ret, gap, stale, saving, job>>
      BY <1>6 DEF Main, Working, ArmBegin, ReapAttempt, Succeeded, Stopped, TestRestart, Retry,
                  Awake, ArmFails, FailWrites, Manifest, PipelineEnds, Trap, TrapWrites, Signal,
                  files, group, sup, time
    <2>2. Preparing' => Preparing
      BY <1>6 DEF Main, Working, ArmBegin, ReapAttempt, Succeeded, Stopped, TestRestart, Retry,
                  Awake, ArmFails, FailWrites, Manifest, PipelineEnds, Trap, TrapWrites, Signal,
                  NextStage, Fail, Preparing
    <2> QED BY <2>1, <2>2, <1>m DEF BeforeTest, AwaitsTest, CheckpointFinal
  <1> QED BY <1>1, <1>2, <1>3, <1>4, <1>5, <1>6

\* The resume test's kill never interrupts a save.
THEOREM KillSparesSave == Spec => []TestKillSparesSave
  <1>1. Init => Spared
    BY DEF Init, Spared, Preparing, AwaitsTest, BeforeTest, TestKilling
  <1>2. Spared /\ StopInv /\ StopInv' /\ [Next]_vars => Spared'
    <2>1. Spared /\ UNCHANGED vars => Spared'
      BY SpareFrame DEF SpareVars, vars, files, main, group, sup, time
    <2> QED BY <2>1, SpareTrainer, SpareSupervisor, SpareMain DEF Next, StopInv
  <1>3. Spared => TestKillSparesSave BY DEF Spared, TestKilling, TestKillSparesSave
  <1> QED BY <1>1, <1>2, <1>3, StopsCorrect, PTL DEF Spec

-----------------------------------------------------------------------------
(* The supervisor ends what the main shell cannot get past *)

\* What keeps the pipeline from ending: a trainer that hangs, a worker on the pipe.
Stuck == lead = "hung" \/ (lead = "dead" /\ kids = "pipe")
Supervised == spc \notin {"off", "gone"}

\* The passes that found the attempt stuck are passes its log was silent in, and the
\* pass that finds the last one allowed kills it.
Bounded ==
    /\ Preparing \/ lead \in {"forming", "starting", "live"} => wedged = 0
    /\ wedged <= StallPasses
    /\ mpc = "wait" => log[arm].open
    /\ Supervised /\ (lead \notin {"none", "dead"} \/ Stuck) => mpc = "wait"
    /\ Supervised /\ Stuck => wedged <= quiet[arm]
    /\ Stuck /\ wedged = StallPasses =>
         spc \in {"off", "gone", "reap", "hung", "term", "poll"}
    /\ spc = "poll" /\ GroupAlive /\ ~mine => wedged = 0

WedgeVars == <<mpc, arm, lead, kids, wedged, quiet, log, spc, mine>>

LEMMA WedgeFrame == Bounded /\ UNCHANGED WedgeVars => Bounded'
  BY DEF Bounded, WedgeVars, Preparing, Stuck, Supervised, GroupAlive, LeaderAlive

\* A supervised attempt that is stuck is the one whose log the hang check reads.
LEMMA StuckIsLive ==
    ASSUME AttemptInv, Bounded, Supervised, Stuck
    PROVE  LiveArm = arm /\ arm \in Arms /\ arm \notin done /\ done # Arms /\ GroupAlive
  BY DEF AttemptInv, Bounded, TypeOK, FilesType, MainType, InProgress, Order, LiveArm, Arms,
         Stuck, GroupAlive, LeaderAlive

LEMMA WedgeTrainer == Bounded /\ AttemptInv /\ (Trainer \/ Faults) => Bounded'
  <1> SUFFICES ASSUME Bounded, AttemptInv, Trainer \/ Faults PROVE Bounded'
    OBVIOUS
  <1> USE DEF Bounded, Preparing, Stuck, Supervised, GroupAlive, LeaderAlive
  <1>t. /\ quiet \in [Arms -> Nat] /\ log \in [Arms -> LogRecord] /\ arm \in Arms
        /\ StallPasses \in Nat \ {0} /\ wedged \in Nat /\ wedged' = wedged
    BY ConstantsOK DEF AttemptInv, TypeOK, CountsType, FilesType, MainType, SupType, time,
       Trainer, Faults, TrainerSetsid, TrainerUp, TrainStep, SaveFinal, TrainerExit, TrainerCrash,
       TrainerHang
  <1>m. UNCHANGED <<main, spc, mine>>
    BY DEF Trainer, Faults, TrainerSetsid, TrainerUp, TrainStep, SaveFinal, TrainerExit,
           TrainerCrash, TrainerHang, sup
  <1> USE DEF main
  \* While a trainer is on its way nothing was counted yet.
  <1>z. ASSUME lead \in {"forming", "starting", "live"}, log[arm].open => log'[arm].open,
               quiet' \in [Arms -> Nat], lead' # "none",
               lead = "forming" => lead' = "starting"
        PROVE  Bounded'
    BY <1>z, <1>t, <1>m
  <1>1. CASE TrainerSetsid BY <1>1, <1>t, <1>z DEF TrainerSetsid, files, time
  <1>2. CASE TrainerUp
    <2>1. quiet' \in [Arms -> Nat] /\ log' = log BY <1>2, <1>t DEF TrainerUp
    <2> QED BY <1>2, <2>1, <1>z DEF TrainerUp
  <1>3. CASE TrainStep
    <2>1. quiet' \in [Arms -> Nat] BY <1>3, <1>t DEF TrainStep
    <2>2. log[arm].open => log'[arm].open
      <3>1. PICK b \in BOOLEAN : log' = [log EXCEPT ![job] = Logged(log[job], b)]
        BY <1>3 DEF TrainStep
      <3>2. Logged(log[job], b).open BY DEF Logged
      <3> QED BY <3>1, <3>2, <1>t
    <2> QED BY <1>3, <2>1, <2>2, <1>z DEF TrainStep
  <1>4. CASE SaveFinal BY <1>4, <1>t, <1>z DEF SaveFinal
  <1>5. CASE TrainerExit \/ TrainerCrash
    BY <1>5, <1>t, <1>z DEF TrainerExit, TrainerCrash, LeaderEnds, time
  <1>6. CASE TrainerHang BY <1>6, <1>t, <1>z DEF TrainerHang, files, time
  <1> QED BY <1>1, <1>2, <1>3, <1>4, <1>5, <1>6 DEF Trainer, Faults

LEMMA WedgeSupervisor == Bounded /\ AttemptInv /\ Supervisor => Bounded'
  <1> SUFFICES ASSUME Bounded, AttemptInv, Supervisor PROVE Bounded'
    OBVIOUS
  <1>t. /\ quiet \in [Arms -> Nat] /\ log \in [Arms -> LogRecord] /\ arm \in Arms
        /\ StallPasses \in Nat \ {0} /\ wedged \in Nat
    BY ConstantsOK DEF AttemptInv, TypeOK, CountsType, FilesType, MainType
  <1>s. Supervised /\ Stuck => LiveArm = arm /\ done # Arms /\ GroupAlive
    BY StuckIsLive
  <1> USE DEF Bounded, Preparing, Stuck, Supervised, GroupAlive, LeaderAlive, main, files
  <1>1. CASE Wake
    <2>1. spc = "sleep" /\ spc' = "reap" /\ UNCHANGED <<mpc, arm, lead, kids, log, mine>>
      BY <1>1 DEF Wake, Goto, group
    <2>2. wedged' = IF Stuck THEN Min2(wedged + 1, StallPasses + 3) ELSE 0
      BY <1>1 DEF Wake
    <2>3. Stuck => wedged < StallPasses BY <2>1, <1>t
    <2>4. Stuck => quiet'[arm] = Min2(quiet[arm] + 1, StallPasses)
      BY <1>1, <2>1, <1>t DEF Wake
    <2> QED BY <2>1, <2>2, <2>3, <2>4, <1>t DEF Min2
  <1>2. CASE ReapOrphans BY <1>2, <1>t DEF ReapOrphans, Goto, time
  <1>3. CASE CheckHung
    <2>1. Silent \/ ~(Stuck /\ wedged = StallPasses)
      BY <1>3, <1>s, <1>t DEF CheckHung, Silent
    <2> QED BY <1>3, <1>t, <2>1 DEF CheckHung, CallKill, group, time
  <1>4. CASE CheckCap BY <1>4, <1>t DEF CheckCap, StopRun, CallKill, group, time
  <1>5. CASE CheckGate BY <1>5, <1>t DEF CheckGate, StopRun, CallKill, group, time
  <1>6. CASE CheckHealths
    BY <1>6, <1>t DEF CheckHealths, CheckHealth, HealthFails, StopRun, CallKill, group, time
  <1>7. CASE ResumeTestKill BY <1>7, <1>t DEF ResumeTestKill, CallKill, group, time
  <1>8. CASE ResumeTestVerify BY <1>8, <1>t DEF ResumeTestVerify, StopRun, CallKill, group, time
  <1>9. CASE KillTerm BY <1>9, <1>t DEF KillTerm, LeaderEnds, time
  <1>10. CASE KillPoll BY <1>10, <1>t DEF KillPoll, GroupKilled, LeaderEnds, group, time
  <1> QED BY <1>1, <1>2, <1>3, <1>4, <1>5, <1>6, <1>7, <1>8, <1>9, <1>10 DEF Supervisor

LEMMA WedgeMain ==
    Bounded /\ AttemptInv /\ StopInv /\ StopInv' /\ (Invoke \/ Main \/ Signal \/ PodDies) => Bounded'
  <1> SUFFICES ASSUME Bounded, AttemptInv, StopInv, StopInv',
                      Invoke \/ Main \/ Signal \/ PodDies
               PROVE  Bounded'
    OBVIOUS
  <1>t. /\ quiet \in [Arms -> Nat] /\ log \in [Arms -> LogRecord] /\ arm \in Arms
        /\ StallPasses \in Nat \ {0} /\ wedged \in Nat
    BY ConstantsOK DEF AttemptInv, TypeOK, CountsType, FilesType, MainType
  <1>s. /\ Preparing \/ mpc \in {"down", "finish", "ended"} => spc = "off"
        /\ Preparing' \/ mpc' \in {"down", "finish", "ended"} => spc' = "off"
    BY DEF StopInv, SupervisorLife, Preparing
  <1>i. mpc \in {"prepare", "smoke", "supervise", "arm", "launch", "decide", "sleep",
                 "armfailed", "manifest"} => lead = "none" /\ kids = "none"
    BY DEF AttemptInv, Idle
  <1> USE DEF Bounded, Preparing, Stuck, Supervised, GroupAlive, LeaderAlive
  <1>1. CASE Invoke BY <1>1, <1>s, <1>t DEF Invoke
  <1>2. CASE Prepare \/ SmokeStart \/ SmokeEnd
    BY <1>2, <1>s, <1>t DEF Prepare, SmokeStart, SmokeEnd, Fail, group, sup, time, files
  <1>3. CASE Supervise BY <1>3, <1>i, <1>t DEF Supervise, group, time, files
  <1>4. CASE ArmBegin \/ Succeeded
    BY <1>4, <1>i, <1>t DEF ArmBegin, Succeeded, NextStage, group, sup, time, files
  <1>5. CASE Launch
    <2>1. \A l \in LogRecord : Marked(l).open /\ Opened(l).open
      BY DEF Marked, Opened, LogRecord
    <2>2. log' = [log EXCEPT ![arm] = Marked(log[arm])] \/ log' = [log EXCEPT ![arm] = Opened(log[arm])]
      BY <1>5 DEF Launch
    <2>3. log'[arm].open BY <1>t, <2>1, <2>2
    <2> QED BY <1>5, <2>3, <1>t DEF Launch
  <1>6. CASE PipelineEnds BY <1>6, <1>t DEF PipelineEnds, group, sup, time, files
  <1>7. CASE ReapAttempt BY <1>7, <1>t DEF ReapAttempt, GroupReaped, sup, time, files
  <1>8. CASE Stopped \/ TestRestart \/ Retry \/ Awake
    BY <1>8, <1>i, <1>t DEF Stopped, TestRestart, Retry, Awake, group, sup, time
  <1>9. CASE ArmFails \/ FailWrites \/ Manifest
    BY <1>9, <1>i, <1>t DEF ArmFails, FailWrites, Manifest, Fail, group, sup, time
  <1>10. CASE Trap \/ TrapWrites BY <1>10, <1>s, <1>t, <1>i DEF Trap, TrapWrites, group, sup, time
  <1>11. CASE FinishKill \/ FinishStatus \/ PodDies
    BY <1>11, <1>s, <1>t DEF FinishKill, FinishStatus, SupervisorKilled, PodDies, group, sup, time
  <1>12. CASE Signal BY <1>12, <1>t, WedgeFrame DEF Signal, WedgeVars, group, sup, time, files
  <1> QED BY <1>1, <1>2, <1>3, <1>4, <1>5, <1>6, <1>7, <1>8, <1>9, <1>10, <1>11, <1>12
          DEF Main, Working

\* A supervised run is never stuck on a hung trainer or an orphan past the hang limit.
THEOREM WedgesEnd == Spec => []NeverWedged
  <1>1. Init => Bounded
    BY ConstantsOK DEF Init, Bounded, Preparing, Supervised, Stuck, LeaderAlive
  <1>2. Bounded /\ AttemptInv /\ StopInv /\ StopInv' /\ [Next]_vars => Bounded'
    <2>1. Bounded /\ UNCHANGED vars => Bounded'
      BY WedgeFrame DEF WedgeVars, vars, files, main, group, sup, time
    <2> QED BY <2>1, WedgeTrainer, WedgeSupervisor, WedgeMain DEF Next
  <1>3. Bounded => NeverWedged BY DEF Bounded, NeverWedged
  <1> QED BY <1>1, <1>2, <1>3, StopsCorrect, AttemptsCorrect, PTL DEF Spec
=============================================================================
