----------------------------- MODULE MCWatchdog -----------------------------
(* Instances of Watchdog for TLC. *)
EXTENDS Watchdog

\* No log, the log of an earlier run, a log written as the pod came up.
MCOldLogs == {NoLog, -9, 0}
=============================================================================
