------------------------------ MODULE Scheduler ------------------------------
(***************************************************************************)
(* The job scheduler of the web processes (app/scheduler.py).              *)
(*                                                                         *)
(* Every web process runs scheduler_loop: it walks through JOBS in order,  *)
(* one job after the other, then sleeps for a tick.  A job belongs to the  *)
(* process whose conditional UPDATE of the row in scheduler_runs matched.  *)
(* The database is the only thing the processes share; each statement with *)
(* its commit is one step, and any number of steps of other processes may  *)
(* happen between reading the clock, looking for the row, inserting it and *)
(* the UPDATE.                                                             *)
(*                                                                         *)
(* Jobs are the positions 1..NumJobs in JOBS.  Time is the wall clock in   *)
(* ticks, the same for all processes.                                      *)
(***************************************************************************)
EXTENDS Integers, FiniteSets

CONSTANTS
    Process,     \* web processes (workers and containers)
    NumJobs,     \* length of the tuple JOBS
    Interval,    \* Interval[j]: seconds between two turns of job j
    MaxStall,    \* bound: longest time from reading the clock to the UPDATE of the claim
    MaxRun,      \* bound: longest time from the claim to the UPDATE that finishes the run
    MaxTime      \* bound: the clock stops here

Job == 1 .. NumJobs

ASSUME ConstantsAssumption ==
    /\ NumJobs \in Nat \ {0}
    /\ Interval \in [Job -> Nat \ {0}]
    /\ MaxStall \in Nat
    /\ MaxRun \in Nat
    /\ MaxTime \in Nat

\* NULL in last_started_at
Never == -1

VARIABLES
    clock,       \* wall clock
    row,         \* jobs that have a row in scheduler_runs
    last,        \* last_started_at of each row
    status,      \* last_status of each row
    pc,          \* where each process is in scheduler_loop / run_job
    at,          \* the job a process works on
    now,         \* the local variable now of run_job
    outcome,     \* the local variable status of run_job
    from,        \* history: when the claim of the current run was committed
    begun        \* history: when the latest claim of each job was committed

rows == <<row, last, status>>
vars == <<clock, row, last, status, pc, at, now, outcome, from, begun>>

\* A process between reading the clock and the UPDATE of the claim
Claiming(p) == pc[p] \in {"check", "insert", "update"}

\* A process that owns a turn it has not finished
Busy(p) == pc[p] \in {"work", "finish"}

\* A process that owns the turn of job j
Running(p, j) == Busy(p) /\ at[p] = j

TypeOK ==
    /\ clock \in 0 .. MaxTime
    /\ row \subseteq Job
    /\ last \in [Job -> Nat \cup {Never}]
    /\ status \in [Job -> {"none", "running", "ok", "failed"}]
    /\ pc \in [Process -> {"sleep", "loop", "check", "insert", "update", "work", "finish", "down"}]
    /\ at \in [Process -> Job]
    /\ now \in [Process -> Nat]
    /\ outcome \in [Process -> {"ok", "failed"}]
    /\ from \in [Process -> Nat]
    /\ begun \in [Job -> Nat \cup {Never}]

-----------------------------------------------------------------------------
(* The rows exist from the first run of a job on; a fresh database has none. *)
Init ==
    /\ clock = 0
    /\ row = {}
    /\ last = [j \in Job |-> Never]
    /\ status = [j \in Job |-> "none"]
    /\ pc = [p \in Process |-> "sleep"]
    /\ at = [p \in Process |-> 1]
    /\ now = [p \in Process |-> 0]
    /\ outcome = [p \in Process |-> "ok"]
    /\ from = [p \in Process |-> 0]
    /\ begun = [j \in Job |-> Never]

\* Forgotten interval: the row only has to exist
DueIgnoringInterval(j, t) == TRUE

\* Off by one: the turn comes a tick early
DueOffByOne(j, t) == last[j] = Never \/ last[j] <= t + 1 - Interval[j]

\* A claim that waits for the previous run to be finished
DueUnlessRunning(j, t) == status[j] # "running" /\ (last[j] = Never \/ last[j] <= t - Interval[j])

\* The WHERE clause of the claim: never started, or the interval has passed
Due(j, t) == last[j] = Never \/ last[j] <= t - Interval[j]

\* The local variables of run_job are gone
Forget(p) ==
    /\ now' = [now EXCEPT ![p] = 0]
    /\ outcome' = [outcome EXCEPT ![p] = "ok"]
    /\ from' = [from EXCEPT ![p] = 0]

\* run_job returns: the process goes on with the next job of JOBS, or sleeps after the last one
Advance(p) ==
    /\ pc' = [pc EXCEPT ![p] = IF at[p] < NumJobs THEN "loop" ELSE "sleep"]
    /\ at' = [at EXCEPT ![p] = IF at[p] < NumJobs THEN @ + 1 ELSE 1]
    /\ Forget(p)

\* scheduler_loop: the tick is over, the round begins with the first job
Wake(p) ==
    /\ pc[p] = "sleep"
    /\ pc' = [pc EXCEPT ![p] = "loop"]
    /\ UNCHANGED <<clock, rows, at, now, outcome, from, begun>>

\* run_job: now = utcnow()
ReadClock(p) ==
    /\ pc[p] = "loop"
    /\ pc' = [pc EXCEPT ![p] = "check"]
    /\ now' = [now EXCEPT ![p] = clock]
    /\ UNCHANGED <<clock, rows, at, outcome, from, begun>>

\* claim: db.get(SchedulerRun, name)
CheckRow(p) ==
    /\ pc[p] = "check"
    /\ pc' = [pc EXCEPT ![p] = IF at[p] \in row THEN "update" ELSE "insert"]
    /\ UNCHANGED <<clock, rows, at, now, outcome, from, begun>>

\* claim: INSERT of an empty row; another process may have been faster, its IntegrityError is swallowed
InsertRow(p) ==
    /\ pc[p] = "insert"
    /\ pc' = [pc EXCEPT ![p] = "update"]
    /\ row' = row \cup {at[p]}
    /\ UNCHANGED <<clock, last, status, at, now, outcome, from, begun>>

\* claim: the conditional UPDATE and its commit, rowcount 1
Claim(p) ==
    /\ pc[p] = "update"
    /\ Due(at[p], now[p])
    /\ pc' = [pc EXCEPT ![p] = "work"]
    /\ last' = [last EXCEPT ![at[p]] = now[p]]
    /\ status' = [status EXCEPT ![at[p]] = "running"]
    /\ from' = [from EXCEPT ![p] = clock]
    /\ begun' = [begun EXCEPT ![at[p]] = clock]
    /\ UNCHANGED <<clock, row, at, now, outcome>>

\* claim: rowcount 0, run_job returns False
NotDue(p) ==
    /\ pc[p] = "update"
    /\ ~Due(at[p], now[p])
    /\ Advance(p)
    /\ UNCHANGED <<clock, rows, begun>>

\* job.run and its commit, or the rollback after an exception
Work(p) ==
    /\ pc[p] = "work"
    /\ pc' = [pc EXCEPT ![p] = "finish"]
    /\ \E o \in {"ok", "failed"} : outcome' = [outcome EXCEPT ![p] = o]
    /\ UNCHANGED <<clock, rows, at, now, from, begun>>

\* A finish that hands the turn back instead of keeping the mark
FinishReleasing(p) ==
    /\ pc[p] = "finish"
    /\ status' = [status EXCEPT ![at[p]] = outcome[p]]
    /\ last' = [last EXCEPT ![at[p]] = Never]
    /\ Advance(p)
    /\ UNCHANGED <<clock, row, begun>>

\* run_job: the unconditional UPDATE with the outcome
Finish(p) ==
    /\ pc[p] = "finish"
    /\ status' = [status EXCEPT ![at[p]] = outcome[p]]
    /\ Advance(p)
    /\ UNCHANGED <<clock, row, last, begun>>

\* The database refuses a statement of run_job itself (in the claim, in the rollback of a failed job, in the
\* finish); scheduler_loop logs it and goes on with the next job
DatabaseError(p) ==
    /\ Claiming(p) \/ Busy(p)
    /\ Advance(p)
    /\ UNCHANGED <<clock, rows, begun>>

\* The process dies, or is stopped after the job it runs
Crash(p) ==
    /\ pc[p] # "down"
    /\ pc' = [pc EXCEPT ![p] = "down"]
    /\ at' = [at EXCEPT ![p] = 1]
    /\ Forget(p)
    /\ UNCHANGED <<clock, rows, begun>>

\* A new process starts its loop with the first job
Restart(p) ==
    /\ pc[p] = "down"
    /\ pc' = [pc EXCEPT ![p] = "sleep"]
    /\ UNCHANGED <<clock, rows, at, now, outcome, from, begun>>

\* Time passes, but not beyond what MaxStall and MaxRun allow a process that is up
Tick ==
    /\ clock < MaxTime
    /\ \A p \in Process :
        /\ Claiming(p) => clock < now[p] + MaxStall
        /\ Busy(p) => clock < from[p] + MaxRun
    /\ clock' = clock + 1
    /\ UNCHANGED <<rows, pc, at, now, outcome, from, begun>>

\* What a process does as long as it is up and its database answers
Step(p) ==
    \/ Wake(p) \/ ReadClock(p) \/ CheckRow(p) \/ InsertRow(p)
    \/ Claim(p) \/ NotDue(p) \/ Work(p) \/ Finish(p)

Next ==
    \/ \E p \in Process : Step(p) \/ DatabaseError(p) \/ Crash(p) \/ Restart(p)
    \/ Tick

Spec == Init /\ [][Next]_vars

\* A process dies or a statement fails, with another effect than a regular step would have
Fault == \E p \in Process : (DatabaseError(p) \/ Crash(p)) /\ ~Step(p)

\* Containers restart by themselves (restart: unless-stopped), the loop of a process never ends and no job
\* hangs for ever: every connection it opens has a timeout.  Any number of faults may happen, but they end;
\* a process that dies before every claim would never run anything.
Fairness ==
    /\ \A p \in Process : WF_vars(Step(p)) /\ WF_vars(Restart(p))
    /\ <>[][~Fault]_vars

FairSpec == Spec /\ Fairness

-----------------------------------------------------------------------------
(* Properties *)

\* Two runs of one job that are in progress at the same time belong to turns that are at least one interval
\* apart: no two processes ever got the same turn (test_two_sessions_compete).
TurnsApart ==
    \A p, q \in Process : \A j \in Job :
        p # q /\ Running(p, j) /\ Running(q, j) =>
            now[p] >= now[q] + Interval[j] \/ now[q] >= now[p] + Interval[j]

\* As long as every run ends before the next turn of its job, a job runs in one process at a time
\* ("a job runs once at a time", app/models/scheduler.py).
OneAtATime ==
    \A p, q \in Process : \A j \in Job : Running(p, j) /\ Running(q, j) => p = q

\* The time that really passes between two starts of a job is the interval, less what a process may lose
\* between reading the clock and its UPDATE ("never run the same job twice in one interval").
StartsSpaced ==
    [][\A j \in Job : begun[j] # Never /\ last'[j] # last[j] =>
            begun'[j] - begun[j] >= Interval[j] - MaxStall]_vars

\* The status page shows a job as running while a process runs it; a run that ended never covers it up.
StatusShowsRun == \A p \in Process : \A j \in Job : Running(p, j) => status[j] = "running"

\* A job that is due gets its next turn, also when the process that had the last one died with it.
Overdue(j) == last[j] = Never \/ clock >= last[j] + Interval[j]

EveryTurnComes == \A j \in Job : Overdue(j) ~> ~Overdue(j)

\* The abstract promise: with the processes that run a job read off their program counters.
Promise == INSTANCE OneTurn WITH runner <- [j \in Job |-> {p \in Process : Running(p, j)}]

\* The scheduler implements the promise of one running process per job, step by step.
ImplementsOneTurn == Promise!Spec
=============================================================================
