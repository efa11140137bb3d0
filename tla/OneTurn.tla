------------------------------- MODULE OneTurn -------------------------------
(***************************************************************************)
(* What the scheduler promises about one job: at any time it runs in at    *)
(* most one process (app/models/scheduler.py, "the row is claimed before a *)
(* run, so a job runs once at a time").                                    *)
(***************************************************************************)
CONSTANTS Process, Job

VARIABLE runner   \* runner[j]: the set of processes that run job j

Init == runner = [j \in Job |-> {}]

Take(j, p) ==
    /\ runner[j] = {}
    /\ runner' = [runner EXCEPT ![j] = {p}]

Leave(j) ==
    /\ runner[j] # {}
    /\ runner' = [runner EXCEPT ![j] = {}]

Next == \E j \in Job : Leave(j) \/ \E p \in Process : Take(j, p)

Spec == Init /\ [][Next]_runner
=============================================================================
