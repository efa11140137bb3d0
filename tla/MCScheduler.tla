----------------------------- MODULE MCScheduler -----------------------------
(* Small instances of Scheduler for TLC. *)
EXTENDS Scheduler, TLC

\* One job with an interval of three ticks
OneInterval == <<3>>

\* Two jobs, the first due more often than the second
TwoIntervals == <<3, 4>>

Processes == Permutations(Process)
=============================================================================
