--------------------------- MODULE EvalArmsProofs ---------------------------
(* Proofs about EvalArms, for every number of tasks, arms, instances, rollouts *)
(* and attempts, every cap and every number of faults and invocations.         *)
EXTENDS EvalArms, TLAPS, WellFoundedInduction

Words == Reasons \union Outcomes \union {"FAILED_AT", "KILLED", "EXITED", "TERMINAL"}

-----------------------------------------------------------------------------
(* The inductive invariants *)

\* While a unit is being tried it has an attempt to spare, or one more would
\* leave the range of TypeOK.
InUnit == mpc \in {"port", "await", "noserver", "evaluate", "record", "wait", "collect", "check"}
InLoop == InUnit \/ mpc \in {"unit", "compare"}
Typed == TypeOK /\ (InUnit => attempt <= MaxReinvoke)

\* Task-major order, and the count of what was given up.
Behind(u) == u[1] < task \/ (u[1] = task /\ u[2] < arm)
Settled(u) == Missing(u) = {} \/ u \in gaveup
Complete(u) == Missing(u) = {}
Ordered ==
    /\ \A u \in Units : Behind(u) => Settled(u)
    /\ \A u, v \in Units : u[1] < v[1] /\ (vol[v] # NoFiles \/ scr[v] # NoFiles) => Settled(u)
    /\ InLoop /\ failed = 0 => \A u \in Units : Behind(u) => Complete(u)
    /\ mpc = "compare" /\ failed = 0 => Complete(Unit) /\ task = NTasks /\ arm = NArms

\* Only the current unit has a server, and only while it is being served.
Serving == mpc \in {"await", "noserver", "evaluate", "record", "wait", "trapping", "exit"}
Served ==
    /\ \A u \in Units : srv[u] # "none" => u = Unit /\ Serving
    /\ port # Nobody => srv[port] = "up"
    /\ EvAlive => mpc \in {"record", "wait", "trapping", "exit"}

\* The supervisor lives as long as the loop, and leaves only for the cap.
CapSeen == CapKillBegun \/ spc = "capkill"
Supervised ==
    /\ mpc \in {"down", "prepare", "finish", "ended"} => spc = "off"
    /\ InLoop => spc # "off"
    /\ InLoop /\ CapSeen => status = <<"CAP_HIT">>
    /\ InLoop /\ ~CapSeen => status = <<>>
    /\ mpc = "prepare" => status = <<>>
    /\ spc # "off" /\ ~CapSeen => status = <<>> \/ status[1] # "CAP_HIT"

LateOnce ==
    /\ late <= 1 /\ (late > 0 => CapKillBegun \/ spc = "off")
    /\ mpc \in {"prepare", "unit", "port", "await", "noserver", "evaluate"} => late = 0


-----------------------------------------------------------------------------
(* Types *)

\* The evaluator's next file is one of those ahead of it.
LEMMA UpcomingAhead == ASSUME TypeOK, Ahead # {} PROVE Upcoming \in Ahead
  <1> DEFINE Less == OpToRel(<, Nat)  Before == LexPairOrdering(Less, Less, Nat, Nat)
  <1>1. Ahead \subseteq Nat \X Nat
    <2>1. 0 .. Rollouts - 1 \subseteq Nat /\ Instances \subseteq Nat BY EvalConstants
    <2>2. Files \subseteq Nat \X Nat BY <2>1 DEF Files
    <2> QED BY <2>2 DEF Ahead
  <1>2. IsWellFoundedOn(Before, Nat \X Nat) BY NatLessThanWellFounded, WFLexPairOrdering
  <1> HIDE DEF Before
  <1>3. PICK f \in Ahead : \A g \in Ahead : <<g, f>> \notin Before BY <1>1, <1>2, WFMin
  <1>4. ASSUME NEW g \in Ahead PROVE f[1] < g[1] \/ (f[1] = g[1] /\ f[2] <= g[2])
    <2> DEFINE pair == <<g, f>>
    <2>1. /\ f \in Nat \X Nat /\ g \in Nat \X Nat /\ pair \in (Nat \X Nat) \X (Nat \X Nat)
          /\ pair[1] = g /\ pair[2] = f
      BY <1>1, <1>3, <1>4
    <2> HIDE DEF pair
    <2>2. <<g[1], f[1]>> \notin Less /\ (g[1] = f[1] => <<g[2], f[2]>> \notin Less)
      <3>1. pair \notin Before BY <1>3, <1>4 DEF pair
      <3> QED BY <2>1, <3>1 DEF Before, LexPairOrdering
    <2>3. \A m, n \in Nat : m < n => <<m, n>> \in Less BY DEF OpToRel
    <2>4. f[1] \in Nat /\ f[2] \in Nat /\ g[1] \in Nat /\ g[2] \in Nat BY <2>1
    <2> HIDE DEF Less
    <2>5. ~(g[1] < f[1]) /\ (g[1] = f[1] => ~(g[2] < f[2])) BY <2>2, <2>3, <2>4
    <2> QED BY <2>4, <2>5
  <1> QED BY <1>3, <1>4 DEF Upcoming

\* status () and fail () keep STATUS a sequence of known words.
LEMMA StatusWrites ==
    ASSUME TypeOK, NEW w \in Words
    PROVE  /\ <<w>> \in Seq(Words) /\ Append(status, w) \in Seq(Words) /\ status \in Seq(Words)
           /\ Append(<<"EXITED">>, w) \in Seq(Words)
  BY DEF TypeOK, VolumeType, Words

LEMMA FilesTyped ==
    ASSUME NEW d \in FileStates, NEW f, NEW x \in {"none", "part", "whole"}
    PROVE  /\ NoFiles \in FileStates /\ [d EXCEPT ![f] = x] \in FileStates
           /\ \A g \in Files : d[g] \in {"none", "part", "whole"}
  BY DEF FileStates, NoFiles

\* STATUS and the disks.
LEMMA DiskWriters ==
    ASSUME [Next]_vars
    PROVE  \/ UNCHANGED <<status, vol, scr, marked, pgfile>>
           \/ Invoke \/ Prepare \/ UnitComplete \/ UnitBegins \/ PortBusy \/ PgRecorded \/
              EvalReaped \/ Collect \/ Compare \/ FailWrites \/ TrapWrites \/ FinishStatus \/
              PodDies \/ Sync \/ CheckCap \/ WriteBegins \/ WriteEnds
  BY DEF Next, Main, Working, Supervisor, Server, Evaluator, Faults, vars, volume, main, procs,
         sup, time, history, bounds, UnitGivenUp, ServerStarts, NoServer, EvalLaunched, Check,
         WaitOk, WaitFails, FinishKill, Signal, Wake, CapKill, HangReads, CheckHang, KillTerm,
         KillPoll, Trap, ServerUp, ServerDies, RolloutFails, EvalExits, EvalCrashes, EvalHangs,
         Fault

LEMMA VolumeTyped == TypeOK /\ [Next]_vars => VolumeType'
  <1> SUFFICES ASSUME TypeOK, [Next]_vars PROVE VolumeType'
    OBVIOUS
  <1> DEFINE D == FileStates
  <1>t. /\ status \in Seq(Words) /\ marked \subseteq Units /\ pgfile \in {"none", "now", "old"}
        /\ vol \in [Units -> D] /\ scr \in [Units -> D] /\ Unit \in Units
    BY DEF TypeOK, VolumeType, MainType, Words
  <1>n. NoFiles \in D /\ [u \in Units |-> NoFiles] \in [Units -> D] BY DEF NoFiles, FileStates
  <1>w. {"FAILED_AT", "KILLED", "EXITED", "TERMINAL", "CAP_HIT", "DONE", "PARTIAL"} \subseteq Words
    BY DEF Words, Reasons, Outcomes
  <1>f. Fail => status' \in Seq(Words) BY <1>t, <1>w, StatusWrites DEF Fail
  <1>s. ASSUME status' \in Seq(Words), marked' \subseteq Units, pgfile' \in {"none", "now", "old"},
               vol' \in [Units -> D], scr' \in [Units -> D]
        PROVE  VolumeType'
    BY <1>s DEF VolumeType, Words
  <1> HIDE DEF D
  <1> USE <1>t
  <1>1. CASE UNCHANGED <<status, vol, scr, marked, pgfile>> BY <1>1, <1>s
  <1>2. CASE Invoke
    <2>1. status' \in Seq(Words) BY <1>2 DEF Invoke
    <2> QED BY <1>2, <1>n, <1>s, <2>1 DEF Invoke
  <1>3. CASE Prepare BY <1>3, <1>f, <1>s DEF Prepare
  <1>4. CASE UnitComplete BY <1>4, <1>s DEF UnitComplete
  <1>5. CASE UnitBegins
    <2>1. scr' \in [Units -> D] BY <1>5, <1>n DEF UnitBegins
    <2> QED BY <1>5, <2>1, <1>s DEF UnitBegins, volume
  <1>6. CASE PortBusy BY <1>6, <1>f, <1>s DEF PortBusy
  <1>7. CASE PgRecorded \/ EvalReaped BY <1>7, <1>s DEF PgRecorded, EvalReaped
  <1>8. CASE Collect
    <2>1. \A u \in Units : vol[u] \in D /\ scr[u] \in D OBVIOUS
    <2>2. [f \in Files |-> IF scr[Unit][f] # "none" THEN scr[Unit][f] ELSE vol[Unit][f]] \in D
      BY <2>1 DEF D, FileStates
    <2>3. vol' \in [Units -> D] BY <1>8, <2>2 DEF Collect
    <2> QED BY <1>8, <2>3, <1>s DEF Collect
  <1>9. CASE Compare BY <1>9, <1>w, <1>s, StatusWrites DEF Compare, Overwrite
  <1>10. CASE FailWrites \/ TrapWrites
    BY <1>10, <1>w, <1>s, StatusWrites DEF FailWrites, TrapWrites, Overwrite
  <1>11. CASE FinishStatus BY <1>11, <1>w, <1>s, StatusWrites DEF FinishStatus
  <1>12. CASE PodDies BY <1>12, <1>n, <1>s DEF PodDies, volume
  <1>13. CASE Sync
    <2>1. vol' \in [Units -> D] BY <1>13 DEF Sync, D, FileStates
    <2> QED BY <1>13, <2>1, <1>s DEF Sync
  <1>14. CASE CheckCap BY <1>14, <1>w, <1>s, StatusWrites DEF CheckCap, Overwrite
  <1>15. CASE WriteBegins \/ WriteEnds
    <2>1. PICK x \in {"none", "part", "whole"} : scr' = [scr EXCEPT ![Unit][Upcoming] = x]
      BY <1>15 DEF WriteBegins, WriteEnds
    <2>2. [scr[Unit] EXCEPT ![Upcoming] = x] \in D BY FilesTyped DEF D
    <2>3. scr' \in [Units -> D] BY <2>1, <2>2
    <2> QED BY <1>15, <2>3, <1>s DEF WriteBegins, WriteEnds, volume
  <1> QED BY <1>1, <1>2, <1>3, <1>4, <1>5, <1>6, <1>7, <1>8, <1>9, <1>10, <1>11, <1>12, <1>13,
             <1>14, <1>15, DiskWriters

\* The main shell's variables.
LEMMA MainWriters ==
    ASSUME [Next]_vars
    PROVE  \/ UNCHANGED main
           \/ Invoke \/ Prepare \/ UnitComplete \/ UnitGivenUp \/ UnitBegins \/ PortBusy \/
              ServerStarts \/ NoServer \/ EvalLaunched \/ PgRecorded \/ EvalReaped \/
              Collect \/ Check \/ Compare \/ WaitOk \/ WaitFails \/ FailWrites \/ Trap \/
              TrapWrites \/ FinishKill \/ FinishStatus \/ Signal \/ PodDies
  BY DEF Next, Main, Working, Supervisor, Server, Evaluator, Faults, vars, volume, main, procs,
        sup, time, history, bounds, Wake, Sync, CheckCap, CapKill, HangReads, CheckHang, KillTerm,
        KillPoll, ServerUp, ServerDies, WriteBegins, WriteEnds, RolloutFails, EvalExits,
        EvalCrashes, EvalHangs

LEMMA MainTyped == Typed /\ [Next]_vars => MainType' /\ (InUnit => attempt <= MaxReinvoke)'
  <1> SUFFICES ASSUME Typed, [Next]_vars PROVE MainType' /\ (InUnit => attempt <= MaxReinvoke)'
    OBVIOUS
  <1> USE EvalConstants DEF Typed, TypeOK, MainType, InUnit, Unit, Units, main
  <1>1. CASE UNCHANGED main BY <1>1
  <1>2. CASE Invoke BY <1>2 DEF Invoke
  <1>3. CASE Prepare BY <1>3 DEF Prepare, Fail
  <1>4. CASE UnitComplete BY <1>4 DEF UnitComplete, NextUnit
  <1>5. CASE UnitGivenUp BY <1>5 DEF UnitGivenUp, CountsFailure, NextUnit
  <1>6. CASE UnitBegins BY <1>6 DEF UnitBegins, GivesUp, Missing
  <1>7. CASE PortBusy BY <1>7 DEF PortBusy, Fail
  <1>8. CASE ServerStarts BY <1>8 DEF ServerStarts
  <1>9. CASE NoServer BY <1>9 DEF NoServer
  <1>10. CASE EvalLaunched BY <1>10 DEF EvalLaunched
  <1>11. CASE PgRecorded BY <1>11 DEF PgRecorded
  <1>12. CASE EvalReaped BY <1>12 DEF EvalReaped
  <1>13. CASE Collect BY <1>13 DEF Collect
  <1>14. CASE Check BY <1>14 DEF Check
  <1>15. CASE Compare BY <1>15 DEF Compare
  <1>16. CASE WaitOk BY <1>16 DEF WaitOk
  <1>17. CASE WaitFails BY <1>17 DEF WaitFails
  <1>18. CASE FailWrites \/ Trap \/ TrapWrites BY <1>18 DEF FailWrites, Trap, TrapWrites
  <1>19. CASE FinishKill BY <1>19 DEF FinishKill
  <1>20. CASE FinishStatus BY <1>20 DEF FinishStatus
  <1>21. CASE Signal BY <1>21 DEF Signal
  <1>22. CASE PodDies BY <1>22 DEF PodDies
  <1> QED BY <1>1, <1>2, <1>3, <1>4, <1>5, <1>6, <1>7, <1>8, <1>9, <1>10, <1>11, <1>12, <1>13,
             <1>14, <1>15, <1>16, <1>17, <1>18, <1>19, <1>20, <1>21, <1>22, MainWriters

\* The servers, the evaluator and the supervisor.
LEMMA ProcWriters ==
    ASSUME [Next]_vars
    PROVE  \/ UNCHANGED <<procs, sup>>
           \/ (\E u \in Units : ServerUp(u)) \/ (\E u \in Units : ServerDies(u)) \/
              WriteEnds \/ RolloutFails \/ EvalExits \/ EvalCrashes \/ EvalHangs \/ Prepare \/
              ServerStarts \/ NoServer \/ EvalLaunched \/ EvalReaped \/ FinishKill \/
              PodDies \/ Wake \/ Sync \/ CheckCap \/ CapKill \/ HangReads \/ CheckHang \/
              KillTerm \/ KillPoll
  BY DEF Next, Main, Working, Supervisor, Server, Evaluator, Faults, vars, volume, main, procs,
         sup, time, history, bounds, Invoke, UnitComplete, UnitGivenUp, UnitBegins, PortBusy,
         PgRecorded, Collect, Check, Compare, WaitOk, WaitFails, FailWrites, Trap, TrapWrites,
         FinishStatus, Signal, WriteBegins

LEMMA ProcTyped == Typed /\ [Next]_vars => ProcType'
  <1> SUFFICES ASSUME Typed, [Next]_vars PROVE ProcType'
    OBVIOUS
  <1> USE DEF Typed, TypeOK, ProcType, procs, sup
  <1>t. Unit \in Units BY DEF MainType
  <1> USE <1>t
  <1>1. CASE UNCHANGED <<procs, sup>> BY <1>1
  <1>2. ASSUME NEW u \in Units, ServerUp(u) PROVE ProcType' BY <1>2 DEF ServerUp
  <1>3. ASSUME NEW u \in Units, ServerDies(u) PROVE ProcType' BY <1>3 DEF ServerDies
  <1>4. CASE WriteEnds BY <1>4, UpcomingAhead DEF WriteEnds, Ahead
  <1>5. CASE RolloutFails BY <1>5, UpcomingAhead DEF RolloutFails, Ahead
  <1>6. CASE EvalExits BY <1>6 DEF EvalExits
  <1>7. CASE EvalCrashes BY <1>7 DEF EvalCrashes
  <1>8. CASE EvalHangs BY <1>8 DEF EvalHangs
  <1>9. CASE Prepare BY <1>9 DEF Prepare
  <1>10. CASE ServerStarts BY <1>10 DEF ServerStarts
  <1>11. CASE NoServer BY <1>11 DEF NoServer, ServerKilled
  <1>12. CASE EvalLaunched BY <1>12 DEF EvalLaunched
  <1>13. CASE EvalReaped BY <1>13 DEF EvalReaped, ServerKilled
  <1>14. CASE FinishKill BY <1>14 DEF FinishKill, SupervisorKilled
  <1>15. CASE PodDies BY <1>15 DEF PodDies
  <1>16. CASE Wake BY <1>16 DEF Wake
  <1>17. CASE Sync BY <1>17 DEF Sync
  <1>18. CASE CheckCap BY <1>18 DEF CheckCap
  <1>19. CASE CapKill BY <1>19 DEF CapKill, CallKill
  <1>20. CASE HangReads \/ CheckHang BY <1>20 DEF HangReads, CheckHang, CallKill
  <1>21. CASE KillTerm BY <1>21 DEF KillTerm
  <1>22. CASE KillPoll BY <1>22 DEF KillPoll
  <1> QED BY <1>1, <1>2, <1>3, <1>4, <1>5, <1>6, <1>7, <1>8, <1>9, <1>10, <1>11, <1>12, <1>13,
             <1>14, <1>15, <1>16, <1>17, <1>18, <1>19, <1>20, <1>21, <1>22, ProcWriters

\* Clocks, histories and bounds.
LEMMA CountWriters ==
    ASSUME [Next]_vars
    PROVE  \/ UNCHANGED <<time, history, bounds>>
           \/ Invoke \/ UnitGivenUp \/ PortBusy \/ WaitFails \/ EvalLaunched \/ EvalReaped \/
              Collect \/ Signal \/ PodDies \/ Wake \/ CapKill \/ WriteEnds \/ RolloutFails \/
              (\E u \in Units : ServerDies(u)) \/ EvalCrashes \/ EvalHangs
  BY DEF Next, Main, Working, Supervisor, Server, Evaluator, Faults, vars, volume, main, procs,
         sup, time, history, bounds, Prepare, FailWrites, UnitComplete, UnitBegins, ServerStarts,
         NoServer, PgRecorded, Check, Compare, WaitOk, Trap, TrapWrites, FinishKill, FinishStatus,
         Sync, CheckCap, HangReads, CheckHang, KillTerm, KillPoll, ServerUp, WriteBegins,
         EvalExits

LEMMA CountTyped == Typed /\ [Next]_vars => CountType'
  <1> SUFFICES ASSUME Typed, [Next]_vars PROVE CountType'
    OBVIOUS
  <1> USE EvalConstants DEF Typed, TypeOK, CountType, time, history, bounds, Fault
  <1>t. Unit \in Units BY DEF MainType
  <1> USE <1>t
  <1>1. CASE UNCHANGED <<time, history, bounds>> BY <1>1
  <1>2. CASE Invoke BY <1>2 DEF Invoke
  <1>3. CASE UnitGivenUp BY <1>3 DEF UnitGivenUp, NextUnit
  <1>4. CASE PortBusy BY <1>4 DEF PortBusy
  <1>5. CASE WaitFails BY <1>5 DEF WaitFails
  <1>6. CASE EvalLaunched BY <1>6 DEF EvalLaunched, LogTouched
  <1>7. CASE EvalReaped BY <1>7 DEF EvalReaped
  <1>8. CASE Collect BY <1>8 DEF Collect
  <1>9. CASE Signal BY <1>9 DEF Signal
  <1>10. CASE PodDies BY <1>10 DEF PodDies
  <1>11. CASE Wake BY <1>11 DEF Wake, Upto
  <1>12. CASE CapKill BY <1>12 DEF CapKill
  <1>13. CASE WriteEnds BY <1>13 DEF WriteEnds
  <1>14. CASE RolloutFails BY <1>14 DEF RolloutFails
  <1>15. ASSUME NEW u \in Units, ServerDies(u) PROVE CountType' BY <1>15 DEF ServerDies
  <1>16. CASE EvalCrashes BY <1>16 DEF EvalCrashes
  <1>17. CASE EvalHangs BY <1>17 DEF EvalHangs
  <1> QED BY <1>1, <1>2, <1>3, <1>4, <1>5, <1>6, <1>7, <1>8, <1>9, <1>10, <1>11, <1>12, <1>13,
             <1>14, <1>15, <1>16, <1>17, CountWriters

LEMMA InitTyped == Init => Typed
  <1> SUFFICES ASSUME Init PROVE Typed
    OBVIOUS
  <1>n. NoFiles \in FileStates BY DEF NoFiles, FileStates
  <1>1. VolumeType BY <1>n DEF Init, VolumeType
  <1>2. MainType /\ ~InUnit
    <2>1. 1 \in 1 .. NTasks /\ 1 \in 1 .. NArms /\ 0 \in 0 .. MaxReinvoke + 1 BY EvalConstants
    <2> QED BY <2>1 DEF Init, MainType, InUnit, Unit, Units
  <1>3. ProcType BY DEF Init, ProcType
  <1>4. CountType BY EvalConstants DEF Init, CountType
  <1> QED BY <1>1, <1>2, <1>3, <1>4 DEF Typed, TypeOK

LEMMA AlwaysTyped == Spec => []Typed
  <1>1. Typed /\ [Next]_vars => Typed'
    BY VolumeTyped, MainTyped, ProcTyped, CountTyped DEF Typed, TypeOK
  <1> QED BY InitTyped, <1>1, PTL DEF Spec

\* Every reachable state of the evaluation has the declared types; a unit is never
\* tried more often than MAX_REINVOKE allows.
THEOREM EvalTypeCorrect == Spec => []TypeOK
  <1>1. Typed => TypeOK BY DEF Typed
  <1> QED BY <1>1, AlwaysTyped, PTL

-----------------------------------------------------------------------------
(* Order and completeness *)

\* Nothing that is on the volume leaves it.
LEMMA FilesStay ==
    ASSUME Typed, [Next]_vars, NEW u \in Units
    PROVE  /\ \A f \in Files : vol[u][f] # "none" => vol'[u][f] # "none"
           /\ Complete(u) => Complete(u)'
           /\ Settled(u) => Settled(u)'
  <1>t. vol \in [Units -> FileStates] /\ scr \in [Units -> FileStates] /\ Unit \in Units
    BY DEF Typed, TypeOK, VolumeType, MainType
  <1>1. \A f \in Files : vol[u][f] # "none" => vol'[u][f] # "none"
    <2>1. CASE vol' = vol BY <2>1
    <2>2. CASE Collect BY <2>2, <1>t DEF Collect, FileStates
    <2>3. CASE Sync BY <2>3, <1>t DEF Sync, FileStates
    <2> QED BY <2>1, <2>2, <2>3, DiskWriters
        DEF Invoke, Prepare, FailWrites, UnitComplete, UnitBegins, PortBusy, PgRecorded,
            EvalReaped, Compare, Trap, TrapWrites, FinishStatus, PodDies, CheckCap, WriteBegins,
            WriteEnds, volume
  <1>2. Complete(u) => Complete(u)'
    <2>1. \A i \in Instances, r \in 0 .. Rollouts - 1 : <<i, r>> \in Files BY DEF Files
    <2> QED BY <1>1, <2>1 DEF Complete, Missing
  <1>3. gaveup \subseteq gaveup'
    BY CountWriters
    DEF history, Invoke, UnitGivenUp, PortBusy, WaitFails, EvalLaunched, EvalReaped, Collect,
        Signal, PodDies, Wake, CapKill, WriteEnds, RolloutFails, ServerDies, EvalCrashes,
        EvalHangs
  <1> QED BY <1>1, <1>2, <1>3 DEF Settled, Complete

\* The path goes through the units in task-major order, one at a time.
LEMMA OneUnitFurther ==
    ASSUME Typed, NextUnit, NEW u \in Units
    PROVE  /\ Behind(u)' => Behind(u) \/ u = Unit
           /\ mpc' = "unit" \/ (mpc' = "compare" /\ Unit' = Unit /\ task = NTasks /\ arm = NArms)
  <1>1. /\ task \in 1 .. NTasks /\ arm \in 1 .. NArms /\ u = <<u[1], u[2]>>
        /\ u[1] \in 1 .. NTasks /\ u[2] \in 1 .. NArms /\ NTasks \in Nat /\ NArms \in Nat
    BY EvalConstants DEF Typed, TypeOK, MainType, Unit, Units
  <1> QED BY <1>1 DEF NextUnit, Behind, Unit

LEMMA PathWriters ==
    ASSUME [Next]_vars
    PROVE  \/ UNCHANGED <<task, arm, failed>> /\ (InLoop' => InLoop) /\ (mpc' = "compare" => mpc = "compare")
           \/ UNCHANGED <<task, arm>> /\ ~InLoop'
           \/ Prepare \/ UnitComplete \/ UnitGivenUp
  BY DEF Next, Main, Working, Supervisor, Server, Evaluator, Faults, vars, volume, main, procs,
         sup, time, history, bounds, InLoop, InUnit, Invoke, UnitBegins, PortBusy, ServerStarts,
         NoServer, EvalLaunched, PgRecorded, EvalReaped, Collect, Check, Compare, WaitOk,
         WaitFails, FailWrites, Trap, TrapWrites, FinishKill, FinishStatus, Signal, PodDies, Wake,
         Sync, CheckCap, CapKill, HangReads, CheckHang, KillTerm, KillPoll, ServerUp, ServerDies,
         WriteBegins, WriteEnds, RolloutFails, EvalExits, EvalCrashes, EvalHangs, Fail

\* A file appears only for the current unit, or where the other disk has it.
LEMMA NewFiles ==
    ASSUME Typed, [Next]_vars, NEW v \in Units, vol'[v] # NoFiles \/ scr'[v] # NoFiles
    PROVE  vol[v] # NoFiles \/ scr[v] # NoFiles \/ v = Unit
  <1>t. vol \in [Units -> FileStates] /\ scr \in [Units -> FileStates] /\ Unit \in Units
    BY DEF Typed, TypeOK, VolumeType, MainType
  <1> SUFFICES ASSUME vol[v] = NoFiles, scr[v] = NoFiles, v # Unit PROVE FALSE
    OBVIOUS
  <1>1. vol'[v] = NoFiles
    <2>1. CASE vol' = vol BY <2>1
    <2>2. CASE Collect BY <2>2, <1>t DEF Collect
    <2>3. CASE Sync BY <2>3, <1>t DEF Sync, NoFiles
    <2> QED BY <2>1, <2>2, <2>3, DiskWriters
        DEF Invoke, Prepare, FailWrites, UnitComplete, UnitBegins, PortBusy, PgRecorded,
            EvalReaped, Compare, Trap, TrapWrites, FinishStatus, PodDies, CheckCap, WriteBegins,
            WriteEnds, volume
  <1>2. scr'[v] = NoFiles
    <2>1. CASE scr' = scr BY <2>1
    <2>2. CASE Invoke \/ PodDies BY <2>2 DEF Invoke, PodDies
    <2>3. CASE UnitBegins BY <2>3, <1>t DEF UnitBegins
    <2>4. CASE WriteBegins \/ WriteEnds BY <2>4, <1>t DEF WriteBegins, WriteEnds
    <2> QED BY <2>1, <2>2, <2>3, <2>4, DiskWriters
        DEF Prepare, FailWrites, UnitComplete, PortBusy, PgRecorded, EvalReaped, Compare, Collect,
            Sync, Trap, TrapWrites, FinishStatus, CheckCap
  <1> QED BY <1>1, <1>2

LEMMA OrderedHolds == Typed /\ Ordered /\ [Next]_vars => Ordered'
  <1> SUFFICES ASSUME Typed, Ordered, [Next]_vars PROVE Ordered'
    OBVIOUS
  <1>t. Unit \in Units /\ failed \in Nat BY DEF Typed, TypeOK, MainType
  \* What a step that ends a unit leaves behind is settled.
  <1>b. ASSUME NEW u \in Units PROVE (Behind(u) => Settled(u))'
    <2>1. CASE UNCHANGED <<task, arm>> BY <2>1, FilesStay DEF Ordered, Behind
    <2>2. CASE Prepare
      <3>1. UNCHANGED <<task, arm>> \/ (task' = 1 /\ arm' = 1) BY <2>2 DEF Prepare
      <3>2. u[1] \in 1 .. NTasks /\ u[2] \in 1 .. NArms /\ NTasks \in Nat /\ NArms \in Nat
        BY EvalConstants DEF Units
      <3> QED BY <2>1, <3>1, <3>2 DEF Behind
    <2>3. CASE UnitComplete
      <3>1. Settled(Unit) BY <2>3 DEF UnitComplete, Settled
      <3> QED BY <2>3, <3>1, <1>t, OneUnitFurther, FilesStay DEF UnitComplete, Ordered
    <2>4. CASE UnitGivenUp
      <3>1. Unit \in gaveup' BY <2>4 DEF UnitGivenUp
      <3>2. u = Unit => Settled(u)' BY <3>1 DEF Settled
      <3> QED BY <2>4, <3>2, <1>t, OneUnitFurther, FilesStay DEF UnitGivenUp, Ordered
    <2> QED BY <2>1, <2>2, <2>3, <2>4, PathWriters
  <1>1. (\A u \in Units : Behind(u) => Settled(u))' BY <1>b
  <1>2. (\A u, v \in Units : u[1] < v[1] /\ (vol[v] # NoFiles \/ scr[v] # NoFiles) => Settled(u))'
    <2> SUFFICES ASSUME NEW u \in Units, NEW v \in Units, u[1] < v[1],
                        vol'[v] # NoFiles \/ scr'[v] # NoFiles
                 PROVE  Settled(u)'
      OBVIOUS
    <2>1. v = Unit => Behind(u) BY DEF Behind, Unit
    <2> QED BY <2>1, NewFiles, FilesStay DEF Ordered
  <1>3. ASSUME InLoop', failed' = 0, NEW u \in Units, Behind(u)' PROVE Complete(u)'
    <2>1. CASE UNCHANGED <<task, arm, failed>> /\ InLoop
      <3>1. Behind(u) BY <2>1, <1>3 DEF Behind
      <3> QED BY <2>1, <1>3, <3>1, FilesStay DEF Ordered
    <2>2. CASE Prepare
      <3>1. task' = 1 /\ arm' = 1 BY <1>3, <2>2 DEF Prepare, Fail, InLoop, InUnit
      <3>2. u[1] \in 1 .. NTasks /\ u[2] \in 1 .. NArms /\ NTasks \in Nat /\ NArms \in Nat
        BY EvalConstants DEF Units
      <3> QED BY <1>3, <3>1, <3>2 DEF Behind
    <2>3. CASE UnitComplete
      <3>1. failed = 0 /\ InLoop /\ Complete(Unit) BY <2>3, <1>3 DEF UnitComplete, InLoop, Complete
      <3>2. Behind(u) \/ u = Unit BY <2>3, <1>3, OneUnitFurther DEF UnitComplete
      <3> QED BY <3>1, <3>2, FilesStay DEF Ordered
    <2>4. CASE UnitGivenUp BY <2>4, <1>3, <1>t DEF UnitGivenUp, CountsFailure
    <2> QED BY <1>3, <2>1, <2>2, <2>3, <2>4, PathWriters
  <1>4. ASSUME mpc' = "compare", failed' = 0 PROVE (Complete(Unit) /\ task = NTasks /\ arm = NArms)'
    <2>1. CASE UNCHANGED <<task, arm, failed>> /\ mpc = "compare"
      <3>1. Unit' = Unit BY <2>1 DEF Unit
      <3>2. Complete(Unit) /\ task = NTasks /\ arm = NArms BY <2>1, <1>4 DEF Ordered
      <3>3. \A u \in Units : Complete(u) => Complete(u)' BY FilesStay
      <3>4. Complete(Unit)'
        <4>1. PICK u \in Units : u = Unit BY <1>t
        <4>2. Complete(u)' BY <3>2, <3>3, <4>1
        <4> QED BY <4>1, <4>2, <3>1 DEF Complete, Missing
      <3> QED BY <2>1, <3>2, <3>4
    <2>2. CASE Prepare BY <1>4, <2>2 DEF Prepare, Fail
    <2>3. CASE UnitComplete
      <3>1. Unit' = Unit /\ task = NTasks /\ arm = NArms /\ UNCHANGED <<task, arm>>
        BY <2>3, <1>4, <1>t, OneUnitFurther DEF UnitComplete, NextUnit, Unit
      <3>2. vol' = vol /\ Missing(Unit) = {} BY <2>3 DEF UnitComplete
      <3> QED BY <3>1, <3>2 DEF Complete, Missing
    <2>4. CASE UnitGivenUp BY <2>4, <1>4, <1>t DEF UnitGivenUp, CountsFailure
    <2> QED BY <1>4, <2>1, <2>2, <2>3, <2>4, PathWriters DEF InLoop
  <1> QED BY <1>1, <1>2, <1>3, <1>4 DEF Ordered

\* Order is kept from the first invocation on, whatever dies.
LEMMA AlwaysOrdered == Spec => [](Typed /\ Ordered)
  <1>1. Init => Ordered
    <2> SUFFICES ASSUME Init PROVE Ordered
      OBVIOUS
    <2>1. \A u \in Units : ~Behind(u)
      <3>1. \A u \in Units : u[1] \in 1 .. NTasks /\ u[2] \in 1 .. NArms /\ NTasks \in Nat /\ NArms \in Nat
        BY EvalConstants DEF Units
      <3> QED BY <3>1 DEF Init, Behind
    <2>2. \A v \in Units : vol[v] = NoFiles /\ scr[v] = NoFiles BY DEF Init
    <2>3. mpc = "down" BY DEF Init
    <2> QED BY <2>1, <2>2, <2>3 DEF Ordered
  <1> QED BY <1>1, AlwaysTyped, OrderedHolds, PTL DEF Spec

\* "What finishes is complete PAIRS": a task has results only when every unit of
\* every earlier task was finished or given up.
THEOREM TasksInOrder == Spec => []PairsFirst
  <1>1. Ordered => PairsFirst BY DEF Ordered, PairsFirst, Settled
  <1> QED BY <1>1, AlwaysOrdered, PTL

\* How STATUS is written: anew, with one more line, or with a first line.
LEMMA StatusSteps ==
    ASSUME TypeOK, [Next]_vars
    PROVE  \/ UNCHANGED status
           \/ Invoke /\ status' = <<>>
           \/ /\ \E w \in {"FAILED_AT", "TERMINAL"} : status' = Append(status, w)
              /\ status # <<>> /\ status'[1] = status[1]
           \/ status' # <<>> /\ status'[1] \in {"FAILED_AT", "EXITED", "KILLED"}
           \/ Compare \/ CheckCap
  <1>t. status \in Seq(Words) BY DEF TypeOK, VolumeType, Words
  <1>a. ASSUME NEW w \in Words, status # <<>> PROVE Append(status, w)[1] = status[1]
    BY <1>t, <1>a
  <1>w. {"FAILED_AT", "KILLED", "EXITED", "TERMINAL"} \subseteq Words BY DEF Words
  <1>f. ASSUME Fail
        PROVE  \/ status' = Append(status, "FAILED_AT") /\ status # <<>> /\ status'[1] = status[1]
               \/ UNCHANGED status
    BY <1>f, <1>a, <1>w DEF Fail
  <1>1. CASE Prepare \/ PortBusy BY <1>1, <1>f DEF Prepare, PortBusy
  <1>2. CASE FailWrites \/ TrapWrites
    <2>1. status' \in {<<"FAILED_AT">>, <<"KILLED">>} BY <1>2 DEF FailWrites, TrapWrites, Overwrite
    <2>2. \A w \in {"FAILED_AT", "KILLED"} : <<w>> # <<>> /\ <<w>>[1] = w OBVIOUS
    <2> QED BY <2>1, <2>2
  <1>3. CASE FinishStatus
    <2>1. CASE status = <<>>
      <3>1. status' = Append(<<"EXITED">>, "TERMINAL") BY <1>3, <2>1 DEF FinishStatus
      <3>2. Append(<<"EXITED">>, "TERMINAL") # <<>> /\ Append(<<"EXITED">>, "TERMINAL")[1] = "EXITED" OBVIOUS
      <3> QED BY <2>1, <3>1, <3>2
    <2>2. CASE status # <<>> BY <1>3, <2>2, <1>a, <1>w DEF FinishStatus
    <2> QED BY <2>1, <2>2
  <1>4. Invoke => status' = <<>> BY DEF Invoke
  <1> QED BY <1>1, <1>2, <1>3, <1>4
      DEF Next, Main, Working, Supervisor, Server, Evaluator, Faults, vars, volume, main, procs,
          sup, time, history, bounds, UnitComplete, UnitGivenUp, UnitBegins, ServerStarts,
          NoServer, EvalLaunched, PgRecorded, EvalReaped, Collect, Check, WaitOk, WaitFails, Trap,
          FinishKill, Signal, PodDies, Wake, Sync, CapKill, HangReads, CheckHang, KillTerm,
          KillPoll, ServerUp, ServerDies, WriteBegins, WriteEnds, RolloutFails, EvalExits,
          EvalCrashes, EvalHangs

\* DONE, and a unit's marker, are true of the volume: whatever died or was killed
\* on the way, every rollout of the unit has its file there.
THEOREM DoneMeansComplete == Spec => []DoneIsComplete
  <1>1. Init => DoneIsComplete BY DEF Init, DoneIsComplete
  <1>2. Typed /\ Ordered /\ DoneIsComplete /\ [Next]_vars => DoneIsComplete'
    <2> SUFFICES ASSUME Typed, Ordered, DoneIsComplete, [Next]_vars PROVE DoneIsComplete'
      OBVIOUS
    <2>t. TypeOK /\ Unit \in Units /\ failed \in Nat /\ marked \subseteq Units
      BY DEF Typed, TypeOK, MainType, VolumeType
    <2>1. ASSUME NEW u \in marked' PROVE Missing(u)' = {}
      <3>1. u \in marked \/ (UnitComplete /\ u = Unit)
        BY DEF Next, Main, Working, Supervisor, Server, Evaluator, Faults, vars, volume, main,
               procs, sup, time, history, bounds, Invoke, Prepare, UnitGivenUp, UnitBegins,
               PortBusy, ServerStarts, NoServer, EvalLaunched, PgRecorded, EvalReaped, Collect,
               Check, Compare, WaitOk, WaitFails, FailWrites, Trap, TrapWrites, FinishKill,
               FinishStatus, Signal, PodDies, Wake, Sync, CheckCap, CapKill, HangReads, CheckHang,
               KillTerm, KillPoll, ServerUp, ServerDies, WriteBegins, WriteEnds, RolloutFails,
               EvalExits, EvalCrashes, EvalHangs, UnitComplete
      <3>2. u \in Units /\ Complete(u)
        BY <3>1, <2>t DEF DoneIsComplete, UnitComplete, Complete
      <3> QED BY <3>2, FilesStay DEF Complete
    <2>2. ASSUME status' # <<>>, status'[1] = "DONE", NEW u \in Units PROVE Missing(u)' = {}
      <3>1. CASE status # <<>> /\ status[1] = "DONE" BY <3>1, FilesStay DEF DoneIsComplete, Complete
      <3>2. CASE Compare
        <4>1. mpc = "compare" /\ failed = 0
          <5>1. <<"PARTIAL">>[1] = "PARTIAL" OBVIOUS
          <5> QED BY <3>2, <2>2, <2>t, <5>1 DEF Compare, Overwrite
        <4>2. Complete(Unit) /\ task = NTasks /\ arm = NArms BY <4>1 DEF Ordered
        <4>3. Behind(u) \/ u = Unit
          <5>1. u = <<u[1], u[2]>> /\ u[1] \in 1 .. NTasks /\ u[2] \in 1 .. NArms /\ NTasks \in Nat /\ NArms \in Nat
            BY EvalConstants DEF Units
          <5> QED BY <4>2, <5>1 DEF Behind, Unit
        <4>4. Complete(u) BY <4>1, <4>2, <4>3 DEF Ordered, InLoop
        <4> QED BY <4>4, FilesStay DEF Complete
      <3>3. CASE CheckCap
        <4>1. <<"CAP_HIT">>[1] = "CAP_HIT" OBVIOUS
        <4> QED BY <3>3, <3>1, <2>2, <4>1 DEF CheckCap, Overwrite
      <3> QED BY <3>1, <3>2, <3>3, <2>2, <2>t, StatusSteps
    <2> QED BY <2>1, <2>2 DEF DoneIsComplete
  <1> QED BY <1>1, <1>2, AlwaysOrdered, PTL DEF Spec

-----------------------------------------------------------------------------
(* Servers *)

LEMMA ServedHolds == Typed /\ Served /\ [Next]_vars => Served'
  <1> SUFFICES ASSUME Typed, Served, [Next]_vars PROVE Served'
    OBVIOUS
  <1>t. /\ Unit \in Units /\ srv \in [Units -> {"none", "loading", "up"}]
        /\ port \in Units \union {Nobody} /\ Nobody \notin Units
    BY EvalConstants DEF Typed, TypeOK, MainType, ProcType, Units, Nobody
  <1> USE <1>t DEF Served, Serving, EvAlive, Unit, volume, main, procs, sup
  <1>1. CASE UNCHANGED <<main, srv, port, ev>> BY <1>1
  <1>2. CASE Invoke BY <1>2 DEF Invoke
  <1>3. CASE Prepare BY <1>3 DEF Prepare, Fail
  <1>4. CASE UnitComplete BY <1>4 DEF UnitComplete, NextUnit
  <1>5. CASE UnitGivenUp BY <1>5 DEF UnitGivenUp, NextUnit
  <1>6. CASE UnitBegins BY <1>6 DEF UnitBegins
  <1>7. CASE PortBusy BY <1>7 DEF PortBusy, Fail
  <1>8. CASE ServerStarts BY <1>8 DEF ServerStarts
  <1>9. CASE NoServer BY <1>9 DEF NoServer, ServerKilled
  <1>10. CASE EvalLaunched BY <1>10 DEF EvalLaunched
  <1>11. CASE PgRecorded BY <1>11 DEF PgRecorded
  <1>12. CASE EvalReaped BY <1>12 DEF EvalReaped, ServerKilled
  <1>13. CASE Collect BY <1>13 DEF Collect
  <1>14. CASE Check BY <1>14 DEF Check
  <1>15. CASE Compare BY <1>15 DEF Compare
  <1>16. CASE WaitOk BY <1>16 DEF WaitOk
  <1>17. CASE WaitFails BY <1>17 DEF WaitFails
  <1>18. CASE FailWrites \/ Trap \/ TrapWrites BY <1>18 DEF FailWrites, Trap, TrapWrites
  <1>19. CASE FinishKill BY <1>19 DEF FinishKill
  <1>20. CASE FinishStatus BY <1>20 DEF FinishStatus
  <1>21. CASE Signal BY <1>21 DEF Signal
  <1>22. CASE PodDies BY <1>22 DEF PodDies
  <1>23. ASSUME NEW u \in Units, ServerUp(u) PROVE Served' BY <1>23 DEF ServerUp
  <1>24. ASSUME NEW u \in Units, ServerDies(u) PROVE Served' BY <1>24 DEF ServerDies
  <1>25. CASE EvalCrashes BY <1>25 DEF EvalCrashes
  <1>26. CASE EvalHangs BY <1>26 DEF EvalHangs
  <1>27. CASE EvalExits BY <1>27 DEF EvalExits
  <1>28. CASE KillTerm BY <1>28 DEF KillTerm
  <1>29. CASE KillPoll BY <1>29 DEF KillPoll
  <1> QED BY <1>1, <1>2, <1>3, <1>4, <1>5, <1>6, <1>7, <1>8, <1>9, <1>10, <1>11, <1>12, <1>13,
             <1>14, <1>15, <1>16, <1>17, <1>18, <1>19, <1>20, <1>21, <1>22, <1>23, <1>24, <1>25,
             <1>26, <1>27, <1>28, <1>29
      DEF Next, Main, Working, Supervisor, Server, Evaluator, Faults, vars, WriteBegins,
          WriteEnds, RolloutFails, Wake, Sync, CheckCap, CapKill, HangReads, CheckHang

LEMMA AlwaysServed == Spec => [](Typed /\ Served)
  <1>1. Init => Served BY DEF Init, Served, Serving, EvAlive
  <1> QED BY <1>1, AlwaysTyped, ServedHolds, PTL DEF Spec

\* "The previous arm's server must be gone, or this unit would talk to it": an
\* evaluator is never served by another unit's policy.
THEOREM NeverTheOtherPolicy == Spec => []ServedByItsArm
  <1>1. Typed /\ Served => ServedByItsArm
    BY DEF Typed, TypeOK, ProcType, Served, ServedByItsArm
  <1> QED BY <1>1, AlwaysServed, PTL

-----------------------------------------------------------------------------
(* The cap and the supervisor *)

LEMMA SupervisedHolds == Typed /\ Supervised /\ [Next]_vars => Supervised'
  <1> SUFFICES ASSUME Typed, Supervised, [Next]_vars PROVE Supervised'
    OBVIOUS
  <1>t. TypeOK /\ status \in Seq(Words) /\ ret \in {"gone", "sleep"}
    BY DEF Typed, TypeOK, VolumeType, ProcType, Words
  <1>h. \A w \in {"DONE", "PARTIAL", "KILLED", "FAILED_AT"} : <<w>> # <<>> /\ <<w>>[1] # "CAP_HIT"
    OBVIOUS
  <1>a. \A w \in {"FAILED_AT"} : status # <<>> => Append(status, w)[1] = status[1] BY <1>t DEF Words
  <1> USE <1>t DEF Supervised, InLoop, InUnit, CapSeen, CapKillBegun, volume, main, procs, sup
  <1>1. CASE UNCHANGED <<status, mpc, spc, ret>> BY <1>1
  <1>2. CASE Invoke BY <1>2 DEF Invoke
  <1>3. CASE Prepare BY <1>3, <1>h, <1>a DEF Prepare, Fail
  <1>4. CASE UnitComplete BY <1>4 DEF UnitComplete, NextUnit
  <1>5. CASE UnitGivenUp BY <1>5 DEF UnitGivenUp, NextUnit
  <1>6. CASE UnitBegins BY <1>6 DEF UnitBegins
  <1>7. CASE PortBusy BY <1>7, <1>h, <1>a DEF PortBusy, Fail
  <1>8. CASE ServerStarts BY <1>8 DEF ServerStarts
  <1>9. CASE NoServer BY <1>9 DEF NoServer
  <1>10. CASE EvalLaunched BY <1>10 DEF EvalLaunched
  <1>11. CASE PgRecorded BY <1>11 DEF PgRecorded
  <1>12. CASE EvalReaped BY <1>12 DEF EvalReaped
  <1>13. CASE Collect BY <1>13 DEF Collect
  <1>14. CASE Check BY <1>14 DEF Check, CapFired
  <1>15. CASE Compare BY <1>15, <1>h DEF Compare, Overwrite
  <1>16. CASE WaitOk BY <1>16 DEF WaitOk
  <1>17. CASE WaitFails BY <1>17 DEF WaitFails
  <1>18. CASE FailWrites \/ Trap \/ TrapWrites
    BY <1>18, <1>h DEF FailWrites, Trap, TrapWrites, Overwrite
  <1>19. CASE FinishKill BY <1>19 DEF FinishKill, SupervisorKilled
  <1>20. CASE FinishStatus BY <1>20 DEF FinishStatus
  <1>21. CASE Signal BY <1>21 DEF Signal
  <1>22. CASE PodDies BY <1>22 DEF PodDies
  <1>23. CASE Wake BY <1>23 DEF Wake
  <1>24. CASE Sync BY <1>24 DEF Sync
  <1>25. CASE CheckCap BY <1>25 DEF CheckCap, Overwrite
  <1>26. CASE CapKill BY <1>26 DEF CapKill, CallKill
  <1>27. CASE HangReads \/ CheckHang BY <1>27 DEF HangReads, CheckHang, CallKill
  <1>28. CASE KillTerm BY <1>28 DEF KillTerm
  <1>29. CASE KillPoll BY <1>29 DEF KillPoll
  <1> QED BY <1>1, <1>2, <1>3, <1>4, <1>5, <1>6, <1>7, <1>8, <1>9, <1>10, <1>11, <1>12, <1>13,
             <1>14, <1>15, <1>16, <1>17, <1>18, <1>19, <1>20, <1>21, <1>22, <1>23, <1>24, <1>25,
             <1>26, <1>27, <1>28, <1>29
      DEF Next, Main, Working, Supervisor, Server, Evaluator, Faults, vars, volume, main, procs,
          sup, time, history, bounds, ServerUp, ServerDies, WriteBegins, WriteEnds,
          RolloutFails, EvalExits, EvalCrashes, EvalHangs, time, history, bounds


LEMMA AlwaysSupervised == Spec => [](Typed /\ Supervised)
  <1>1. Init => Supervised BY DEF Init, Supervised, InLoop, InUnit
  <1> QED BY <1>1, AlwaysTyped, SupervisedHolds, PTL DEF Spec

LEMMA LateOnceHolds == Typed /\ Supervised /\ Served /\ LateOnce /\ [Next]_vars => LateOnce'
  <1> SUFFICES ASSUME Typed, Supervised, Served, LateOnce, [Next]_vars PROVE LateOnce'
    OBVIOUS
  <1>t. late \in Nat /\ ret \in {"gone", "sleep"} BY DEF Typed, TypeOK, CountType, ProcType
  <1>s. /\ InLoop /\ status = <<>> => ~CapSeen
        /\ mpc = "prepare" => spc = "off"
        /\ InLoop => spc # "off"
        /\ EvAlive => mpc \in {"record", "wait", "trapping", "exit"}
    <2>1. <<"CAP_HIT">> # <<>> OBVIOUS
    <2> QED BY <2>1 DEF Supervised, Served
  <1> USE <1>t, <1>s DEF LateOnce, InLoop, InUnit, CapSeen, CapKillBegun, volume, main, procs,
                         sup, history
  <1>1. CASE UNCHANGED <<status, mpc, spc, ret, late>> BY <1>1
  <1>2. CASE Invoke BY <1>2 DEF Invoke
  <1>3. CASE Prepare BY <1>3 DEF Prepare, Fail
  <1>4. CASE UnitComplete BY <1>4 DEF UnitComplete, NextUnit
  <1>5. CASE UnitGivenUp BY <1>5 DEF UnitGivenUp, NextUnit
  <1>6. CASE UnitBegins BY <1>6 DEF UnitBegins
  <1>7. CASE PortBusy BY <1>7 DEF PortBusy, Fail
  <1>8. CASE ServerStarts BY <1>8 DEF ServerStarts
  <1>9. CASE NoServer BY <1>9 DEF NoServer
  <1>10. CASE EvalLaunched BY <1>10 DEF EvalLaunched
  <1>11. CASE PgRecorded BY <1>11 DEF PgRecorded
  <1>12. CASE EvalReaped BY <1>12 DEF EvalReaped
  <1>13. CASE Collect BY <1>13 DEF Collect
  <1>14. CASE Check BY <1>14 DEF Check, CapFired
  <1>15. CASE Compare BY <1>15 DEF Compare, Overwrite
  <1>16. CASE WaitOk BY <1>16 DEF WaitOk
  <1>17. CASE WaitFails BY <1>17 DEF WaitFails
  <1>18. CASE FailWrites \/ Trap \/ TrapWrites BY <1>18 DEF FailWrites, Trap, TrapWrites
  <1>19. CASE FinishKill BY <1>19 DEF FinishKill, SupervisorKilled
  <1>20. CASE FinishStatus BY <1>20 DEF FinishStatus
  <1>21. CASE Signal BY <1>21 DEF Signal
  <1>22. CASE PodDies BY <1>22 DEF PodDies
  <1>23. CASE Wake BY <1>23 DEF Wake
  <1>24. CASE Sync BY <1>24 DEF Sync
  <1>25. CASE CheckCap BY <1>25 DEF CheckCap, Overwrite
  <1>26. CASE CapKill BY <1>26 DEF CapKill, CallKill
  <1>27. CASE HangReads \/ CheckHang BY <1>27 DEF HangReads, CheckHang, CallKill
  <1>28. CASE KillTerm BY <1>28 DEF KillTerm
  <1>29. CASE KillPoll BY <1>29 DEF KillPoll
  <1> QED BY <1>1, <1>2, <1>3, <1>4, <1>5, <1>6, <1>7, <1>8, <1>9, <1>10, <1>11, <1>12, <1>13,
             <1>14, <1>15, <1>16, <1>17, <1>18, <1>19, <1>20, <1>21, <1>22, <1>23, <1>24, <1>25,
             <1>26, <1>27, <1>28, <1>29
      DEF Next, Main, Working, Supervisor, Server, Evaluator, Faults, vars, volume, main, procs,
          sup, time, history, bounds, ServerUp, ServerDies, WriteBegins, WriteEnds,
          RolloutFails, EvalExits, EvalCrashes, EvalHangs, time, bounds


LEMMA AlwaysLateOnce == Spec => [](Typed /\ Supervised /\ LateOnce)
  <1>1. Init => LateOnce BY DEF Init, LateOnce
  <1> QED BY <1>1, AlwaysSupervised, AlwaysServed, LateOnceHolds, PTL DEF Spec

\* The hours cap costs at most one more unit, and only the cap leaves an evaluator
\* of the running loop without a supervisor.
THEOREM CapIsLateOnce == Spec => []OneLateUnit
  <1>1. Supervised /\ LateOnce => OneLateUnit
    BY DEF Supervised, LateOnce, OneLateUnit, InLoop, InUnit, CapSeen, CapKillBegun
  <1> QED BY <1>1, AlwaysLateOnce, PTL

-----------------------------------------------------------------------------
(* Silence *)

\* The log of a running evaluator has not been silent for longer than it ran.
QuietWithinAge == EvAlive => quiet <= age

LEMMA QuietHolds == Typed /\ QuietWithinAge /\ [Next]_vars => QuietWithinAge'
  <1> SUFFICES ASSUME Typed, QuietWithinAge, [Next]_vars PROVE QuietWithinAge'
    OBVIOUS
  <1>t. quiet \in 0 .. StallPasses /\ age \in 0 .. StallPasses /\ StallPasses \in Nat
    BY EvalConstants DEF Typed, TypeOK, CountType
  <1> USE <1>t DEF QuietWithinAge, EvAlive
  <1>1. CASE ~EvAlive' BY <1>1
  <1>2. CASE EvAlive /\ UNCHANGED <<quiet, age>> BY <1>2
  <1>3. CASE Wake BY <1>3 DEF Wake, Upto, procs
  <1>4. CASE WriteEnds \/ RolloutFails BY <1>4 DEF WriteEnds, RolloutFails
  <1>5. CASE EvalLaunched BY <1>5 DEF EvalLaunched, LogTouched
  <1> QED BY <1>1, <1>2, <1>3, <1>4, <1>5
      DEF Next, Main, Working, Supervisor, Server, Evaluator, Faults, vars, volume, main, procs,
          sup, time, history, bounds, Invoke, Prepare, FailWrites, UnitComplete, UnitGivenUp,
          UnitBegins, PortBusy, ServerStarts, NoServer, PgRecorded, EvalReaped, Collect, Check,
          Compare, WaitOk, WaitFails, Trap, TrapWrites, FinishKill, FinishStatus, Signal, PodDies,
          Sync, CheckCap, CapKill, HangReads, CheckHang, KillTerm, KillPoll, ServerUp, ServerDies,
          WriteBegins, EvalExits, EvalCrashes, EvalHangs, ServerKilled, SupervisorKilled

\* The hang check acts on this evaluator's silence, never on what the log held
\* before it was launched.
THEOREM HangsAreSilent == Spec => HungMeansSilent
  <1>1. Init => QuietWithinAge BY DEF Init, QuietWithinAge, EvAlive
  <1>2. Typed /\ QuietWithinAge /\ [Next]_vars => [spc = "judge" /\ spc' = "term" => age >= StallPasses]_vars
    <2> SUFFICES ASSUME Typed, QuietWithinAge, [Next]_vars, spc = "judge", spc' = "term"
                 PROVE  age >= StallPasses
      OBVIOUS
    <2>1. CheckHang
      BY DEF Next, Main, Working, Supervisor, Server, Evaluator, Faults, vars, volume, main,
             procs, sup, time, history, bounds, Invoke, Prepare, FailWrites, UnitComplete,
             UnitGivenUp, UnitBegins, PortBusy, ServerStarts, NoServer, EvalLaunched, PgRecorded,
             EvalReaped, Collect, Check, Compare, WaitOk, WaitFails, Trap, TrapWrites, FinishKill,
             FinishStatus, Signal, PodDies, Wake, Sync, CheckCap, CapKill, HangReads, KillTerm,
             KillPoll, ServerUp, ServerDies, WriteBegins, WriteEnds, RolloutFails, EvalExits,
             EvalCrashes, EvalHangs, Fail, SupervisorKilled
    <2>2. EvAlive /\ quiet >= StallPasses BY <2>1 DEF CheckHang, Silent
    <2>3. quiet \in Nat /\ age \in Nat /\ StallPasses \in Nat BY EvalConstants
        DEF Typed, TypeOK, CountType
    <2> QED BY <2>2, <2>3 DEF QuietWithinAge
  <1> QED BY <1>1, <1>2, AlwaysTyped, QuietHolds, PTL DEF Spec, HungMeansSilent

-----------------------------------------------------------------------------
(* What is kept *)

\* Until its evaluator runs, a unit's scratch directory is empty and its instances
\* to do are still incomplete on the volume.
KeepInv ==
    /\ mpc \in {"port", "await", "evaluate"} => scr[Unit] = NoFiles /\ todo \subseteq Missing(Unit)
    /\ CompleteKept

LEMMA KeepHolds == Typed /\ Served /\ KeepInv /\ [Next]_vars => KeepInv'
  <1> SUFFICES ASSUME Typed, Served, KeepInv, [Next]_vars PROVE KeepInv'
    OBVIOUS
  <1>t. Unit \in Units /\ vol \in [Units -> FileStates] /\ scr \in [Units -> FileStates]
    BY DEF Typed, TypeOK, VolumeType, MainType
  <1>e. EvAlive => mpc \in {"record", "wait", "trapping", "exit"} BY DEF Served
  <1> USE <1>t, <1>e DEF KeepInv, CompleteKept, EvAlive, Unit, volume, main, procs, sup, history
  <1>1. CASE UNCHANGED <<mpc, task, arm, todo, vol, scr, kept>> BY <1>1 DEF Missing
  <1>2. CASE mpc' \notin {"port", "await", "evaluate", "record", "wait", "collect"} BY <1>2
  <1>3. CASE UnitBegins BY <1>3 DEF UnitBegins, Missing
  <1>4. CASE ServerStarts \/ WaitOk BY <1>4 DEF ServerStarts, WaitOk, Missing
  <1>5. CASE EvalLaunched
    <2>1. \A i \in todo : \E r \in 0 .. Rollouts - 1 : vol[Unit][<<i, r>>] = "none"
      BY <1>5 DEF EvalLaunched, Missing
    <2> QED BY <1>5, <2>1 DEF EvalLaunched
  <1>6. CASE PgRecorded BY <1>6 DEF PgRecorded
  <1>7. CASE EvalReaped BY <1>7 DEF EvalReaped
  <1>8. CASE Sync
    <2>1. scr[Unit] = NoFiles => vol'[Unit] = vol[Unit]
      <3>1. vol[Unit] \in FileStates BY <1>t
      <3>2. vol'[Unit] = [f \in Files |-> IF vol[Unit][f] = "none" THEN scr[Unit][f] ELSE vol[Unit][f]]
        BY <1>8 DEF Sync
      <3>3. ASSUME scr[Unit] = NoFiles PROVE \A f \in Files : vol'[Unit][f] = vol[Unit][f]
        BY <3>2, <3>3 DEF NoFiles
      <3> QED BY <3>1, <3>2, <3>3 DEF FileStates
    <2>2. Unit' = Unit /\ UNCHANGED <<mpc, task, arm, todo, scr, kept>> BY <1>8 DEF Sync
    <2>3. ASSUME mpc \in {"port", "await", "evaluate"} PROVE todo' \subseteq Missing(Unit)'
      BY <2>1, <2>2, <2>3 DEF Missing
    <2> QED BY <2>2, <2>3
  <1>9. CASE WriteBegins \/ WriteEnds
    <2>1. mpc \in {"record", "wait", "trapping", "exit"} BY <1>9 DEF WriteBegins, WriteEnds
    <2> QED BY <1>9, <2>1 DEF WriteBegins, WriteEnds
  <1>10. CASE Signal BY <1>10 DEF Signal, Missing
  <1> QED BY <1>1, <1>2, <1>3, <1>4, <1>5, <1>6, <1>7, <1>8, <1>9, <1>10
      DEF Next, Main, Working, Supervisor, Server, Evaluator, Faults, vars, volume, main, procs,
          sup, Invoke, Prepare, FailWrites, UnitComplete, UnitGivenUp, PortBusy, NoServer,
          Collect, Check, Compare, WaitFails, Trap, TrapWrites, FinishKill, FinishStatus, PodDies,
          Wake, CheckCap, CapKill, HangReads, CheckHang, KillTerm, KillPoll, ServerUp, ServerDies,
          RolloutFails, EvalExits, EvalCrashes, EvalHangs, Fail, NextUnit

\* An instance all of whose results are on the volume is not evaluated again.
THEOREM CompleteInstancesKept == Spec => []CompleteKept
  <1>1. Init => KeepInv BY DEF Init, KeepInv, CompleteKept
  <1>2. KeepInv => CompleteKept BY DEF KeepInv
  <1> QED BY <1>1, <1>2, AlwaysServed, KeepHolds, PTL DEF Spec

-----------------------------------------------------------------------------
(* EvalArms implements PodRun *)

\* A step that writes neither STATUS nor the phase is a stutter of PodRun.
LEMMA QuietStep == UNCHANGED status /\ Phase' = Phase => UNCHANGED Run!podrun
  BY DEF Run!podrun

\* The steps that PodRun can see.
LEMMA RunWriters ==
    ASSUME [Next]_vars
    PROVE  \/ UNCHANGED status /\ Phase' = Phase
           \/ (Fail /\ Phase = "running") \/ FailWrites \/ Invoke \/ Compare \/ Trap
           \/ TrapWrites \/ Check
           \/ FinishStatus \/ PodDies \/ CheckCap
  BY DEF Next, Main, Working, Supervisor, Server, Evaluator, Faults, vars, volume, main, procs,
        sup, time, history, bounds, Phase, NextUnit, Prepare, PortBusy, UnitComplete,
        UnitGivenUp, UnitBegins, ServerStarts, NoServer, EvalLaunched, PgRecorded, EvalReaped,
        Collect, WaitOk, WaitFails, FinishKill, Signal, Wake, Sync, CapKill, HangReads, CheckHang,
        KillTerm, KillPoll, ServerUp, ServerDies, WriteBegins, WriteEnds, RolloutFails,
        EvalExits, EvalCrashes, EvalHangs

LEMMA StepsOfPodRun == Typed /\ Supervised /\ [Next]_vars => [Run!RunNext]_(Run!podrun)
  <1> SUFFICES ASSUME Typed, Supervised, [Next]_vars PROVE [Run!RunNext]_(Run!podrun)
    OBVIOUS
  <1>1. CASE UNCHANGED status /\ Phase' = Phase BY <1>1, QuietStep
  <1>2. CASE Fail /\ Phase = "running"
    <2>1. CASE status = <<>>
      <3>1. Phase' = "failing" BY <1>2, <2>1 DEF Fail, Phase
      <3> QED BY <1>2, <2>1, <3>1 DEF Fail, Run!RunNext, Run!Looks
    <2>2. CASE status # <<>>
      <3>1. Phase' = "ending" BY <1>2, <2>2 DEF Fail, Phase
      <3> QED BY <1>2, <2>2, <3>1 DEF Fail, Run!RunNext, Run!Return
    <2> QED BY <2>1, <2>2
  <1>3. CASE Invoke
    <2>1. Phase = "off" /\ Phase' = "running" BY <1>3 DEF Invoke, Phase
    <2> QED BY <1>3, <2>1 DEF Invoke, Run!RunNext, Run!Begin
  <1>4. CASE Compare
    <2>1. Phase = "running" /\ Phase' = "ending" BY <1>4 DEF Compare, Phase
    <2> QED BY <1>4, <2>1 DEF Compare, Overwrite, Outcomes, Run!RunNext, Run!Return
  <1>9. CASE FailWrites \/ TrapWrites
    <2>1. Phase = "failing" /\ Phase' = "ending" BY <1>9 DEF FailWrites, TrapWrites, Phase
    <2> QED BY <1>9, <2>1 DEF FailWrites, TrapWrites, Overwrite, Run!RunNext, Run!Fails
  \* The signal's test: of a failure that was about to write it looks again.
  <1>10. CASE Trap
    <2>1. UNCHANGED status BY <1>10 DEF Trap, volume
    <2>2. CASE status = <<>>
      <3>1. Phase \in {"running", "failing"} /\ Phase' = "failing" BY <1>10, <2>2 DEF Trap, Phase
      <3> QED BY <2>1, <2>2, <3>1, QuietStep DEF Run!RunNext, Run!Looks
    <2>3. CASE status # <<>>
      <3>1. Phase \in {"running", "failing"} /\ Phase' = "ending" BY <1>10, <2>3 DEF Trap, Phase
      <3> QED BY <2>1, <2>3, <3>1 DEF Run!RunNext, Run!Return, Run!Fails
    <2> QED BY <2>2, <2>3
  <1>5. CASE FinishStatus
    <2>1. Phase = "ending" /\ Phase' = "off" BY <1>5 DEF FinishStatus, Phase
    <2> QED BY <1>5, <2>1 DEF FinishStatus, Run!RunNext, Run!End
  <1>6. CASE PodDies
    <2>1. Phase # "off" /\ Phase' = "off" BY <1>6 DEF PodDies, Phase
    <2> QED BY <1>6, <2>1 DEF PodDies, volume, Run!RunNext, Run!Die
  <1>7. CASE CheckCap
    <2>1. Phase' = Phase BY <1>7 DEF CheckCap, main, Phase
    <2>2. CASE clock >= Deadline
      <3>1. Phase # "off" BY <1>7 DEF CheckCap, Supervised, Phase
      <3>2. status = <<>> \/ status[1] # "CAP_HIT"
        BY <1>7 DEF CheckCap, Supervised, CapSeen, CapKillBegun
      <3> QED BY <1>7, <2>1, <2>2, <3>1, <3>2
          DEF CheckCap, Overwrite, Reasons, Run!RunNext, Run!Stop
    <2>3. CASE ~(clock >= Deadline) BY <1>7, <2>1, <2>3, QuietStep DEF CheckCap
    <2> QED BY <2>2, <2>3
  <1>8. CASE Check
    <2>1. CASE CapFired
      <3>1. Phase = "running" /\ Phase' = "ending" BY <1>8, <2>1 DEF Check, Phase
      <3> QED BY <1>8, <2>1, <3>1 DEF Check, CapFired, volume, Run!RunNext, Run!Return
    <2>2. CASE ~CapFired
      <3>1. UNCHANGED status /\ Phase' = Phase BY <1>8, <2>2 DEF Check, volume, Phase
      <3> QED BY <3>1, QuietStep
    <2> QED BY <2>1, <2>2
  <1> QED BY <1>1, <1>2, <1>3, <1>4, <1>5, <1>6, <1>7, <1>8, <1>9, <1>10, RunWriters

\* Whatever fails, is capped or dies, the evaluation changes STATUS as the watchdog
\* was promised: what is proved of the watchdog against PodRun holds for it too.
THEOREM EvalImplementsPodRun == Spec => KeepsPodRun
  <1>1. Init => Run!RunInit BY DEF Init, Run!RunInit, Phase
  <1> QED BY <1>1, StepsOfPodRun, AlwaysSupervised, PTL DEF Spec, KeepsPodRun, Run!RunSpec
=============================================================================
