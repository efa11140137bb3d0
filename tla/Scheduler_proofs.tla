--------------------------- MODULE Scheduler_proofs ---------------------------
(***************************************************************************)
(* Proofs about Scheduler for every number of processes and jobs, every    *)
(* interval and every bound.                                               *)
(***************************************************************************)
EXTENDS Scheduler, TLAPS

\* The variables have their types in every reachable state of the scheduler.
THEOREM TypeCorrect == Spec => []TypeOK
<1>1. Init => TypeOK
  BY ConstantsAssumption DEF Init, TypeOK, Job, Never
<1>2. TypeOK /\ [Next]_vars => TypeOK'
  <2> SUFFICES ASSUME TypeOK, [Next]_vars PROVE TypeOK'
    OBVIOUS
  <2> USE ConstantsAssumption DEF TypeOK, Job, rows
  <2>1. ASSUME NEW p \in Process, Wake(p) PROVE TypeOK'
    BY <2>1 DEF Wake
  <2>2. ASSUME NEW p \in Process, ReadClock(p) PROVE TypeOK'
    BY <2>2 DEF ReadClock
  <2>3. ASSUME NEW p \in Process, CheckRow(p) PROVE TypeOK'
    BY <2>3 DEF CheckRow
  <2>4. ASSUME NEW p \in Process, InsertRow(p) PROVE TypeOK'
    BY <2>4 DEF InsertRow
  <2>5. ASSUME NEW p \in Process, Claim(p) PROVE TypeOK'
    BY <2>5 DEF Claim
  <2>6. ASSUME NEW p \in Process, NotDue(p) PROVE TypeOK'
    BY <2>6 DEF NotDue, Advance, Forget
  <2>7. ASSUME NEW p \in Process, Work(p) PROVE TypeOK'
    BY <2>7 DEF Work
  <2>8. ASSUME NEW p \in Process, Finish(p) PROVE TypeOK'
    BY <2>8 DEF Finish, Advance, Forget
  <2>9. ASSUME NEW p \in Process, DatabaseError(p) PROVE TypeOK'
    BY <2>9 DEF DatabaseError, Advance, Forget
  <2>10. ASSUME NEW p \in Process, Crash(p) PROVE TypeOK'
    BY <2>10 DEF Crash, Forget
  <2>11. ASSUME NEW p \in Process, Restart(p) PROVE TypeOK'
    BY <2>11 DEF Restart
  <2>12. CASE Tick
    BY <2>12 DEF Tick
  <2>13. CASE UNCHANGED vars
    BY <2>13 DEF vars
  <2>14. QED
    BY <2>1, <2>2, <2>3, <2>4, <2>5, <2>6, <2>7, <2>8, <2>9, <2>10, <2>11, <2>12, <2>13 DEF Next, Step
<1>3. QED
  BY <1>1, <1>2, PTL DEF Spec

-----------------------------------------------------------------------------
(* The inductive invariant: a claim is at most MaxStall old, a run knows when it began, its turn is not newer   *)
(* than the mark in the row, and the mark lags the commit by at most MaxStall.                                  *)
ClaimFresh == \A p \in Process : Claiming(p) => now[p] <= clock /\ clock <= now[p] + MaxStall

RunDated ==
    \A p \in Process : Busy(p) =>
        /\ now[p] <= from[p] /\ from[p] <= now[p] + MaxStall
        /\ from[p] <= clock /\ clock <= from[p] + MaxRun
        /\ now[p] <= last[at[p]]

MarkDated == \A j \in Job : begun[j] # Never => last[j] # Never /\ begun[j] <= last[j] + MaxStall

IInv == TypeOK /\ ClaimFresh /\ RunDated /\ MarkDated /\ TurnsApart

\* What a step of process p leaves alone: the clock and everything of the other processes.
Local(p) ==
    /\ clock' = clock
    /\ \A q \in Process \ {p} : pc'[q] = pc[q] /\ at'[q] = at[q] /\ now'[q] = now[q] /\ from'[q] = from[q]

\* A step that is no claim: the marks stay, a run goes on unchanged or ends, a claim ages or is made new.
NoClaim(p) ==
    /\ Local(p)
    /\ last' = last /\ begun' = begun
    /\ Busy(p)' => Busy(p) /\ at'[p] = at[p] /\ now'[p] = now[p] /\ from'[p] = from[p]
    /\ Claiming(p)' => now'[p] = clock \/ (Claiming(p) /\ now'[p] = now[p])

\* Every step of a process is a claim or a step that is none.
LEMMA ProcessSteps ==
    ASSUME TypeOK, NEW p \in Process, Step(p) \/ DatabaseError(p) \/ Crash(p) \/ Restart(p)
    PROVE  Claim(p) \/ NoClaim(p)
<1> USE DEF TypeOK, NoClaim, Local, Busy, Claiming, rows
<1>1. CASE Wake(p)
  BY <1>1 DEF Wake
<1>2. CASE ReadClock(p)
  BY <1>2 DEF ReadClock
<1>3. CASE CheckRow(p)
  BY <1>3 DEF CheckRow
<1>4. CASE InsertRow(p)
  BY <1>4 DEF InsertRow
<1>5. CASE NotDue(p)
  BY <1>5 DEF NotDue, Advance, Forget
<1>6. CASE Work(p)
  BY <1>6 DEF Work
<1>7. CASE Finish(p)
  BY <1>7 DEF Finish, Advance, Forget
<1>8. CASE DatabaseError(p)
  BY <1>8 DEF DatabaseError, Advance, Forget
<1>9. CASE Crash(p)
  BY <1>9 DEF Crash, Forget
<1>10. CASE Restart(p)
  BY <1>10 DEF Restart
<1>11. QED
  BY <1>1, <1>2, <1>3, <1>4, <1>5, <1>6, <1>7, <1>8, <1>9, <1>10 DEF Step

\* The invariant is inductive, whatever the intervals, the stalls and the length of the runs.
LEMMA InductiveInvariant == Spec => []IInv
<1>1. Init => IInv
  BY ConstantsAssumption
  DEF Init, IInv, TypeOK, ClaimFresh, RunDated, MarkDated, TurnsApart, Claiming, Busy, Running, Job, Never
<1>2. IInv /\ TypeOK' /\ [Next]_vars => IInv'
  <2> SUFFICES ASSUME IInv, TypeOK', [Next]_vars PROVE IInv'
    OBVIOUS
  <2> USE ConstantsAssumption DEF IInv, Job, Never
  <2>1. ASSUME NEW p \in Process, Claim(p) PROVE IInv'
    <3> USE <2>1
    <3>1. Local(p) /\ pc[p] = "update" /\ pc'[p] = "work" /\ at'[p] = at[p] /\ now'[p] = now[p] /\ from'[p] = clock
      BY DEF Claim, Local, TypeOK
    <3>2. now[p] <= clock /\ clock <= now[p] + MaxStall
      BY DEF Claim, ClaimFresh, Claiming
    <3>3. /\ last'[at[p]] = now[p] /\ begun'[at[p]] = clock
          /\ \A j \in Job \ {at[p]} : last'[j] = last[j] /\ begun'[j] = begun[j]
      BY DEF Claim, TypeOK
    <3>4. ASSUME NEW q \in Process \ {p}, Busy(q), at[q] = at[p]
          PROVE  now[q] <= last[at[p]] /\ now[q] + Interval[at[p]] <= now[p]
      <4>1. now[q] <= last[at[p]]
        BY <3>4 DEF RunDated
      <4>2. last[at[p]] <= now[p] - Interval[at[p]]
        BY <3>4, <4>1 DEF Claim, Due, TypeOK
      <4>3. now[p] \in Int /\ now[q] \in Int /\ last[at[p]] \in Int /\ Interval[at[p]] \in Int
        BY DEF TypeOK
      <4>4. QED
        BY <4>1, <4>2, <4>3
    <3>5. ClaimFresh'
      BY <3>1 DEF ClaimFresh, Claiming, Local
    <3>6. RunDated'
      <4> SUFFICES ASSUME NEW q \in Process, Busy(q)'
                   PROVE  (/\ now[q] <= from[q] /\ from[q] <= now[q] + MaxStall
                           /\ from[q] <= clock /\ clock <= from[q] + MaxRun
                           /\ now[q] <= last[at[q]])'
        BY DEF RunDated
      <4>1. CASE q = p
        BY <4>1, <3>1, <3>2, <3>3 DEF Local, TypeOK
      <4>2. CASE q # p /\ at[q] = at[p]
        BY <4>2, <3>1, <3>3, <3>4 DEF Local, TypeOK, RunDated, Busy
      <4>3. CASE q # p /\ at[q] # at[p]
        BY <4>3, <3>1, <3>3 DEF Local, TypeOK, RunDated, Busy
      <4>4. QED
        BY <4>1, <4>2, <4>3
    <3>7. MarkDated'
      <4> SUFFICES ASSUME NEW j \in Job, begun'[j] # Never
                   PROVE  last'[j] # Never /\ begun'[j] <= last'[j] + MaxStall
        BY DEF MarkDated
      <4>1. CASE j = at[p]
        BY <4>1, <3>2, <3>3 DEF TypeOK
      <4>2. CASE j # at[p]
        BY <4>2, <3>3 DEF MarkDated
      <4>3. QED
        BY <4>1, <4>2
    <3>8. TurnsApart'
      BY <3>1, <3>4 DEF TurnsApart, Running, Busy, Local
    <3>9. QED
      BY <3>5, <3>6, <3>7, <3>8
  <2>2. ASSUME NEW p \in Process, NoClaim(p) PROVE IInv'
    <3> USE <2>2
    <3>1. ClaimFresh'
      <4> SUFFICES ASSUME NEW q \in Process, Claiming(q)'
                   PROVE  now'[q] <= clock' /\ clock' <= now'[q] + MaxStall
        BY DEF ClaimFresh
      <4>1. clock' = clock /\ clock \in Nat /\ MaxStall \in Nat
        BY DEF NoClaim, Local, TypeOK
      <4>2. now'[q] = clock \/ (Claiming(q) /\ now'[q] = now[q])
        BY DEF NoClaim, Local, Claiming
      <4>3. QED
        BY <4>1, <4>2 DEF ClaimFresh
    <3>2. RunDated'
      BY DEF RunDated, NoClaim, Local, Busy
    <3>3. MarkDated'
      BY DEF MarkDated, NoClaim
    <3>4. TurnsApart'
      BY DEF TurnsApart, NoClaim, Local, Running, Busy
    <3>5. QED
      BY <3>1, <3>2, <3>3, <3>4
  <2>3. CASE Tick
    <3>1. ClaimFresh'
      BY <2>3 DEF ClaimFresh, Claiming, Tick, TypeOK
    <3>2. RunDated'
      BY <2>3 DEF RunDated, Busy, Tick, TypeOK, rows
    <3>3. MarkDated' /\ TurnsApart'
      BY <2>3 DEF MarkDated, TurnsApart, Running, Busy, Tick, rows
    <3>4. QED
      BY <3>1, <3>2, <3>3
  <2>4. CASE UNCHANGED vars
    BY <2>4 DEF vars, rows, TypeOK, ClaimFresh, RunDated, MarkDated, TurnsApart, Claiming, Busy, Running
  <2>5. QED
    BY <2>1, <2>2, <2>3, <2>4, ProcessSteps DEF Next
<1>3. QED
  BY <1>1, <1>2, TypeCorrect, PTL DEF Spec

\* No two processes ever get the same turn of a job, however long runs take and whoever crashes.
THEOREM TurnsNeverShared == Spec => []TurnsApart
  BY InductiveInvariant, PTL DEF IInv

\* Two starts of a job are really an interval apart, less the time a process may lose inside its claim.
THEOREM StartsAreSpaced == Spec => StartsSpaced
<1>1. IInv /\ [Next]_vars => [\A j \in Job : begun[j] # Never /\ last'[j] # last[j] =>
                                 begun'[j] - begun[j] >= Interval[j] - MaxStall]_vars
  <2> SUFFICES ASSUME IInv, Next, NEW j \in Job, begun[j] # Never, last'[j] # last[j]
               PROVE  begun'[j] - begun[j] >= Interval[j] - MaxStall
    OBVIOUS
  <2>1. PICK p \in Process : Claim(p) /\ at[p] = j
    <3>1. PICK p \in Process : Claim(p)
      BY ProcessSteps DEF Next, Tick, NoClaim, rows, IInv
    <3>2. QED
      BY <3>1 DEF Claim, IInv, TypeOK
  <2>2. begun'[j] = clock /\ now[p] <= clock
    BY <2>1 DEF Claim, IInv, TypeOK, ClaimFresh, Claiming
  <2>3. last[j] <= now[p] - Interval[j] /\ begun[j] <= last[j] + MaxStall
    BY <2>1 DEF Claim, Due, IInv, MarkDated
  <2>4. /\ begun[j] \in Int /\ begun'[j] \in Int /\ last[j] \in Int /\ now[p] \in Int
        /\ clock \in Int /\ MaxStall \in Int /\ Interval[j] \in Int
    BY <2>2, ConstantsAssumption DEF IInv, TypeOK, Never, Job
  <2>5. QED
    BY <2>2, <2>3, <2>4
<1>2. QED
  BY <1>1, InductiveInvariant, PTL DEF Spec, StartsSpaced

-----------------------------------------------------------------------------
(* Runs that end in time.                                                  *)

\* Every run, with the stall before it, ends before the next turn of its job can begin.
RunsEndInTime == \A j \in Job : MaxStall + MaxRun < Interval[j]

\* When runs end in time, no state that satisfies the invariant has two processes in one job.
LEMMA InTimeExcludes ==
    ASSUME RunsEndInTime, IInv
    PROVE  OneAtATime
<1> SUFFICES ASSUME NEW p \in Process, NEW q \in Process, NEW j \in Job,
                    Running(p, j), Running(q, j), now[p] >= now[q] + Interval[j]
             PROVE  FALSE
  BY DEF OneAtATime, IInv, TurnsApart
<1>1. now[p] <= clock /\ clock <= now[q] + MaxStall + MaxRun
  BY ConstantsAssumption DEF Running, IInv, RunDated, TypeOK
<1>2. /\ now[p] \in Int /\ now[q] \in Int /\ clock \in Int
      /\ MaxStall \in Int /\ MaxRun \in Int /\ Interval[j] \in Int
  BY ConstantsAssumption DEF IInv, TypeOK
<1>3. QED
  BY <1>1, <1>2 DEF RunsEndInTime

\* A job runs in one process at a time as long as every run ends within its interval: the claim and the clock
\* alone give the mutual exclusion, no process waits for another one to finish.
THEOREM JobsRunOnce == ASSUME RunsEndInTime PROVE Spec => []OneAtATime
<1>1. IInv => OneAtATime
  BY InTimeExcludes
<1>2. QED
  BY <1>1, InductiveInvariant, PTL

\* Under the same condition the row shows "running" exactly as long as somebody may rely on it.
THEOREM StatusIsHonest == ASSUME RunsEndInTime PROVE Spec => []StatusShowsRun
<1>1. Init => StatusShowsRun
  BY DEF Init, StatusShowsRun, Running, Busy
<1>2. IInv /\ StatusShowsRun /\ [Next]_vars => StatusShowsRun'
  <2> SUFFICES ASSUME IInv, StatusShowsRun, [Next]_vars, NEW q \in Process, NEW j \in Job, Running(q, j)'
               PROVE  status'[j] = "running"
    BY DEF StatusShowsRun
  <2> USE DEF rows
  <2>1. ASSUME NEW p \in Process, Claim(p) PROVE status'[j] = "running"
    BY <2>1 DEF Claim, StatusShowsRun, Running, Busy, IInv, TypeOK
  <2>2. ASSUME NEW p \in Process, Finish(p) PROVE status'[j] = "running"
    <3>1. Running(p, at[p]) /\ at[p] \in Job
      BY <2>2 DEF Finish, Running, Busy, IInv, TypeOK
    <3>2. ~Busy(p)'
      BY <2>2 DEF Finish, Advance, Busy, IInv, TypeOK
    <3>3. p # q /\ Running(q, j)
      BY <2>2, <3>2 DEF Finish, Advance, Running, Busy, IInv, TypeOK
    <3>4. j # at[p]
      BY <3>1, <3>3, InTimeExcludes DEF OneAtATime
    <3>5. QED
      BY <2>2, <3>3, <3>4 DEF Finish, StatusShowsRun, IInv, TypeOK
  <2>3. ASSUME NEW p \in Process, NoClaim(p), status' = status PROVE status'[j] = "running"
    BY <2>3 DEF NoClaim, Local, StatusShowsRun, Running, Busy
  <2>4. ASSUME NEW p \in Process, Step(p) \/ DatabaseError(p) \/ Crash(p) \/ Restart(p)
        PROVE  Claim(p) \/ Finish(p) \/ (NoClaim(p) /\ status' = status)
    BY <2>4, ProcessSteps DEF IInv, Step, Wake, ReadClock, CheckRow, InsertRow, NotDue, Work, DatabaseError,
                              Crash, Restart
  <2>5. CASE Tick \/ UNCHANGED vars
    BY <2>5 DEF Tick, vars, StatusShowsRun, Running, Busy
  <2>6. QED
    BY <2>1, <2>2, <2>3, <2>4, <2>5 DEF Next
<1>3. QED
  BY <1>1, <1>2, InductiveInvariant, PTL DEF Spec

-----------------------------------------------------------------------------
(* Refinement.                                                             *)

\* The processes that run job j: the value of the abstract variable for this job.
Runners(j) == {p \in Process : Running(p, j)}

\* When runs end in time, the scheduler implements the abstract promise: a claim maps to Take, the end or the
\* death of a run to Leave, everything else to a step that changes nothing.
THEOREM SchedulerImplementsOneTurn == ASSUME RunsEndInTime PROVE Spec => ImplementsOneTurn
<1> DEFINE runner == [j \in Job |-> Runners(j)]
<1>1. Init => Promise!Init
  BY DEF Init, Promise!Init, Running, Busy
<1>2. TypeOK /\ OneAtATime /\ OneAtATime' /\ [Next]_vars => [Promise!Next]_runner
  <2> SUFFICES ASSUME TypeOK, OneAtATime, OneAtATime', [Next]_vars
               PROVE  Promise!Next \/ runner' = runner
    BY DEF Runners
  <2>1. ASSUME NEW p \in Process, Claim(p) PROVE Promise!Next
    <3>0. PICK i \in Job : i = at[p]
      BY DEF TypeOK
    <3>1. at'[p] = i /\ ~Busy(p) /\ Busy(p)'
      BY <2>1, <3>0 DEF Claim, Busy, TypeOK
    <3>2. Local(p)
      BY <2>1 DEF Claim, Local, TypeOK
    <3>3. \A q \in Process \ {p} : \A j \in Job : Running(q, j)' <=> Running(q, j)
      BY <3>2 DEF Local, Running, Busy
    <3>4. Running(p, i)' /\ \A j \in Job : ~Running(p, j) /\ (Running(p, j)' => j = i)
      BY <3>0, <3>1 DEF Running
    <3>5. \A q \in Process : ~Running(q, i)
      BY <3>1, <3>3, <3>4 DEF OneAtATime
    <3>6. Runners(i) = {} /\ Runners(i)' = {p} /\ \A j \in Job \ {i} : Runners(j)' = Runners(j)
      <4>1. Runners(i) = {} /\ Runners(i)' = {p}
        BY <3>3, <3>4, <3>5 DEF Runners
      <4>2. ASSUME NEW j \in Job \ {i} PROVE Runners(j)' = Runners(j)
        BY <3>3, <3>4 DEF Runners
      <4>3. QED
        BY <4>1, <4>2
    <3>7. runner[i] = {} /\ runner' = [runner EXCEPT ![i] = {p}]
      BY <3>1, <3>6
    <3>8. Promise!Take(i, p)
      BY <3>7 DEF Promise!Take, Runners
    <3>9. QED
      BY <3>1, <3>8 DEF Promise!Next
  <2>2. ASSUME NEW p \in Process, NoClaim(p) PROVE Promise!Next \/ runner' = runner
    <3>1. PICK i \in Job : i = at[p]
      BY DEF TypeOK
    <3>2. \A q \in Process \ {p} : \A j \in Job : Running(q, j)' <=> Running(q, j)
      BY <2>2 DEF NoClaim, Local, Running, Busy
    <3>3. CASE Busy(p) /\ ~Busy(p)'
      <4>1. Running(p, i) /\ \A j \in Job : ~Running(p, j)' /\ (Running(p, j) => j = i)
        BY <3>1, <3>3 DEF Running
      <4>2. \A q \in Process : Running(q, i) => q = p
        BY <3>1, <4>1 DEF OneAtATime
      <4>3. Runners(i) # {} /\ Runners(i)' = {} /\ \A j \in Job \ {i} : Runners(j)' = Runners(j)
        <5>1. Runners(i) # {} /\ Runners(i)' = {}
          BY <3>2, <4>1, <4>2 DEF Runners
        <5>2. ASSUME NEW j \in Job \ {i} PROVE Runners(j)' = Runners(j)
          BY <3>2, <4>1 DEF Runners
        <5>3. QED
          BY <5>1, <5>2
      <4>4. runner[i] # {} /\ runner' = [runner EXCEPT ![i] = {}]
        BY <3>1, <4>3
      <4>5. Promise!Leave(i)
        BY <4>4 DEF Promise!Leave, Runners
      <4>6. QED
        BY <3>1, <4>5 DEF Promise!Next
    <3>4. CASE ~(Busy(p) /\ ~Busy(p)')
      <4>1. \A j \in Job : Running(p, j)' <=> Running(p, j)
        BY <2>2, <3>4 DEF NoClaim, Running
      <4>2. \A j \in Job : Runners(j)' = Runners(j)
        BY <3>2, <4>1 DEF Runners
      <4>3. QED
        BY <4>2
    <3>5. QED
      BY <3>3, <3>4
  <2>3. CASE Tick \/ UNCHANGED vars
    BY <2>3 DEF Tick, vars, Runners, Running, Busy
  <2>4. QED
    BY <2>1, <2>2, <2>3, ProcessSteps DEF Next
<1>3. QED
  BY <1>1, <1>2, TypeCorrect, JobsRunOnce, PTL DEF Spec, ImplementsOneTurn, Promise!Spec, Runners
=============================================================================
