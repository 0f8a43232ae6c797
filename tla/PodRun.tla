------------------------------- MODULE PodRun -------------------------------
(* What a script on a pod promises to whoever watches the pod: how the STATUS  *)
(* file on the volume may change from the script's start to its end.  ShotOne  *)
(* implements it; Watchdog relies on it and on nothing else of the script.     *)
EXTENDS Sequences

CONSTANTS
    Reasons,     \* why the script's own safeguards stop a run
    Outcomes     \* what a body that ran to its end may report

ASSUME ReasonsOK == "TERMINAL" \notin Reasons \union Outcomes

VARIABLES status,    \* STATUS, as a sequence of lines
          phase      \* of the script: "off", "running", "ending" (in its EXIT trap), or
               \* "failing": it has looked for STATUS, found none and will write one

podrun == <<status, phase>>

RunInit == status = <<>> /\ phase = "off"

\* A run starts from a volume without STATUS, whatever an earlier run left.
Begin == phase = "off" /\ phase' = "running" /\ status' = <<>>

\* A safeguard records its reason.  It may replace an outcome written a moment
\* before, never another safeguard's reason.
Stop ==
    /\ phase # "off" /\ ~(status # <<>> /\ status[1] \in Reasons)
    /\ \E r \in Reasons : status' = <<r>>
    /\ UNCHANGED phase

\* The script's body is over.  A failure or a signal that finds a STATUS keeps it.
Return ==
    /\ phase = "running" /\ phase' = "ending"
    /\ \/ \E w \in Outcomes : status' = <<w>>
       \/ status # <<>> /\ status' \in {status, Append(status, "FAILED_AT")}

\* One that finds none has yet to write its own word, over whatever is there by
\* then; a signal in between looks again.
Looks == phase = "running" /\ status = <<>> /\ phase' = "failing" /\ UNCHANGED status
Fails ==
    /\ phase = "failing" /\ phase' = "ending"
    /\ \/ \E w \in {"FAILED_AT", "KILLED"} : status' = <<w>>
       \/ status # <<>> /\ UNCHANGED status

\* The EXIT trap: TERMINAL is the last line, and never the only one.
End ==
    /\ phase = "ending" /\ phase' = "off"
    /\ status' = Append(IF status = <<>> THEN <<"EXITED">> ELSE status, "TERMINAL")

\* The pod or the shell dies where no trap runs.
Die == phase # "off" /\ phase' = "off" /\ UNCHANGED status

RunNext == Begin \/ Stop \/ Return \/ Looks \/ Fails \/ End \/ Die
RunSpec == RunInit /\ [][RunNext]_podrun
=============================================================================
