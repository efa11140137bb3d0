------------------------------ MODULE DnsCheck ------------------------------
(***************************************************************************)
(* When a domain is checked and which result stays                         *)
(* (app/services/dns_check.py from gather_input on, the job in             *)
(* app/scheduler.py, the buttons in app/routers/domains.py and api/v1.py). *)
(*                                                                         *)
(* A check on request and the job read, look and write in sessions of      *)
(* their own, and nothing but one UPDATE keeps two checks of a domain      *)
(* apart.  What the lookups find, be it no answer, is the version of the   *)
(* zone at that moment; DnsRecords says what follows.  Times are ages: of  *)
(* dns_checked_at, of the last accepted request, and of the "now" that a   *)
(* session works with.                                                     *)
(***************************************************************************)
EXTENDS Integers, FiniteSets, Sequences, SequencesExt

CONSTANTS
    Domain,      \* domains
    Request,     \* sessions that check on request
    Run,         \* runs of the job; two of them may overlap
    MaxAge,      \* DNS_CHECK_MAX_AGE_SECONDS, in ticks
    Cooldown,    \* DNS_CHECK_MANUAL_COOLDOWN_SECONDS, in ticks
    Parallel,    \* DNS_CHECK_MANUAL_PARALLEL
    BatchSize,   \* DNS_CHECK_BATCH_SIZE
    Old,         \* bound on ages: no domain stays due for longer
    Slow,        \* bound on the time a session takes
    MaxVersion,  \* bound on changes of a zone
    MaxFaults,   \* bound on rollbacks and restarts
    Never        \* NULL

ASSUME DnsNumbers ==
    /\ {MaxAge, Cooldown, Old, Slow, MaxVersion, MaxFaults} \subseteq Nat /\ Slow + Cooldown <= Old /\ MaxAge < Old
    /\ {Parallel, BatchSize} \subseteq Nat \ {0}
    /\ {Never} \cap Nat = {} /\ Request \cap Run = {} /\ IsFiniteSet(Request)

VARIABLES
    version,    \* version[d] of the records of its zone
    active,     \* domains that are active in active organisations
    age,        \* age[d] of dns_checked_at
    result,     \* result[d]: the version that dns_status and dns_results tell of
    running,    \* _manual_running
    pc,         \* pc[s]: where a session is
    todo,       \* todo[s]: the list of domains it checks
    seen,       \* seen[s][d]: what its lookups found, Never before
    lag,        \* lag[s]: time since its "now"
    fault,      \* rollbacks and restarts so far
    claimed,    \* history: claimed[d], time since the "now" of the last accepted request
    undercut,   \* history: domains checked since that request by a session whose "now" was earlier
    overtaken   \* history: overtaken[s], domains whose result another session stored since s looked

dnsVars == <<version, active, age, result, running, pc, todo, seen, lag, fault, claimed, undercut, overtaken>>

Session == Request \cup Run
Checking == {s \in Request : pc[s] \in {"claim", "look"}}

DnsTypeOK ==
    /\ version \in [Domain -> 0 .. MaxVersion] /\ active \subseteq Domain
    /\ age \in [Domain -> 0 .. Old \cup {Never}] /\ result \in [Domain -> 0 .. MaxVersion \cup {Never}]
    /\ running \in Nat
    /\ pc \in [Session -> {"idle", "claim", "look"}] /\ (\A s \in Run : pc[s] # "claim") /\ lag \in [Session -> 0 .. Slow]
    /\ todo \in [Session -> SeqOf(Domain, BatchSize)] /\ overtaken \in [Session -> SUBSET Domain]
    /\ seen \in [Session -> [Domain -> 0 .. MaxVersion \cup {Never}]]
    /\ fault \in 0 .. MaxFaults /\ claimed \in [Domain -> 0 .. Old \cup {Never}] /\ undercut \subseteq Domain

DnsInit ==
    /\ version = [d \in Domain |-> 0] /\ active \in SUBSET Domain
    /\ age = [d \in Domain |-> Never] /\ result = [d \in Domain |-> Never]
    /\ running = 0
    /\ pc = [s \in Session |-> "idle"] /\ todo = [s \in Session |-> <<>>] /\ lag = [s \in Session |-> 0]
    /\ seen = [s \in Session |-> [d \in Domain |-> Never]]
    /\ fault = 0
    /\ claimed = [d \in Domain |-> Never] /\ undercut = {} /\ overtaken = [s \in Session |-> {}]

\* A session begins with a new "now"
Enter(s, domains, where) ==
    /\ pc' = [pc EXCEPT ![s] = where] /\ todo' = [todo EXCEPT ![s] = domains] /\ lag' = [lag EXCEPT ![s] = 0]

\* Plausible slip: what was found for an earlier check is kept for the next one
LeaveWithCache(s) ==
    /\ pc' = [pc EXCEPT ![s] = "idle"] /\ todo' = [todo EXCEPT ![s] = <<>>] /\ lag' = [lag EXCEPT ![s] = 0]
    /\ UNCHANGED seen

Leave(s) ==
    /\ pc' = [pc EXCEPT ![s] = "idle"] /\ todo' = [todo EXCEPT ![s] = <<>>] /\ lag' = [lag EXCEPT ![s] = 0]
    /\ seen' = [seen EXCEPT ![s] = [d \in Domain |-> Never]]

-----------------------------------------------------------------------------
(* On request *)

\* Under _manual_lock; with the counter at its limit the request is refused and nothing changes
run_manual_check(s, d) ==
    /\ pc[s] = "idle" /\ running < Parallel
    /\ running' = running + 1
    /\ Enter(s, <<d>>, "claim")
    /\ UNCHANGED <<version, active, age, result, seen, fault, claimed, undercut, overtaken>>

\* The condition of the UPDATE, with the "now" of the session; a cooldown of 0 accepts everything
Rested(s, d) == Cooldown # 0 /\ age[d] # Never => age[d] - lag[s] >= Cooldown

\* Plausible slip: only the result marks the domain as checked
ClaimUnmarked(s, d) ==
    /\ Rested(s, d)
    /\ pc' = [pc EXCEPT ![s] = "look"]
    /\ UNCHANGED <<age, running, todo, seen, lag>>

\* One UPDATE, committed at once; who is refused gives its slot back
Claim(s, d) ==
    /\ Rested(s, d)
    /\ pc' = [pc EXCEPT ![s] = "look"]
    /\ age' = IF Cooldown = 0 THEN age ELSE [age EXCEPT ![d] = lag[s]]
    /\ UNCHANGED <<running, todo, seen, lag>>

\* Plausible slip: the counter goes back only after a check
RefuseKeepingSlot(s, d) ==
    /\ ~Rested(s, d) /\ Leave(s)
    /\ UNCHANGED <<age, running>>

Refuse(s, d) ==
    /\ ~Rested(s, d)
    /\ running' = running - 1 /\ Leave(s)
    /\ UNCHANGED age

_claim(s, d) ==
    /\ pc[s] = "claim" /\ todo[s] = <<d>>
    /\ \/ Claim(s, d) /\ claimed' = [claimed EXCEPT ![d] = lag[s]] /\ undercut' = undercut \ {d}
       \/ Refuse(s, d) /\ UNCHANGED <<claimed, undercut>>
    /\ UNCHANGED <<version, active, result, fault, overtaken>>

-----------------------------------------------------------------------------
(* The job *)

Due == {d \in active : age[d] = Never \/ age[d] >= MaxAge}

Older(d, e) == age[e] # Never /\ (age[d] = Never \/ age[d] > age[e])

\* Lists of due domains in this order, as many as a batch holds
Lists(Before(_, _)) ==
    {L \in SeqOf(Due, BatchSize) :
        /\ IsInjective(L) /\ \A i, j \in DOMAIN L : i < j => ~Before(L[j], L[i])
        /\ Len(L) = BatchSize \/ ToSet(L) = Due
        /\ \A d \in ToSet(L), e \in Due \ ToSet(L) : ~Before(e, d)}

\* Plausible slip: the newest result first
NewestFirst == Lists(LAMBDA d, e : Older(e, d))

\* Unchecked domains first, then the oldest results
due_domains == Lists(Older)

run_due_checks(s, L) ==
    /\ pc[s] = "idle" /\ L # <<>>
    /\ Enter(s, L, "look")
    /\ UNCHANGED <<version, active, age, result, running, seen, fault, claimed, undercut, overtaken>>

-----------------------------------------------------------------------------
(* Both *)

\* check_domain, outside of any transaction
Look(s, d) ==
    /\ pc[s] = "look" /\ d \in ToSet(todo[s]) /\ seen[s][d] = Never
    /\ seen' = [seen EXCEPT ![s][d] = version[d]]
    /\ UNCHANGED <<version, active, age, result, running, pc, todo, lag, fault, claimed, undercut, overtaken>>

\* The domains a session has looked at
Done(s) == {d \in ToSet(todo[s]) : seen[s][d] # Never}

\* Nothing is left, or DNS_CHECK_JOB_BUDGET_SECONDS is over and the rest of the list stays due
Looked(s) == Done(s) # {} /\ \E n \in DOMAIN todo[s] : Done(s) = {todo[s][i] : i \in 1 .. n}

\* store_result and the commit: status, results and time are written in any case, whatever was stored meanwhile.
\* The finally of run_manual_check gives the slot back
Store(s) ==
    /\ pc[s] = "look" /\ Looked(s)
    /\ age' = [d \in Domain |-> IF d \in Done(s) THEN lag[s] ELSE age[d]]
    /\ result' = [d \in Domain |-> IF d \in Done(s) THEN seen[s][d] ELSE result[d]]
    /\ undercut' = undercut \cup {d \in Done(s) : claimed[d] # Never /\ lag[s] > claimed[d]}
    /\ overtaken' = [t \in Session |-> IF t = s THEN {} ELSE overtaken[t] \cup {d \in Done(s) : pc[t] = "look" /\ seen[t][d] # Never}]
    /\ running' = IF s \in Request THEN running - 1 ELSE running
    /\ Leave(s)
    /\ UNCHANGED <<version, active, fault, claimed>>

-----------------------------------------------------------------------------
(* The world *)

\* An error ends a session with a rollback; the claim of a request stays, its slot comes back
Rollback(s) ==
    /\ pc[s] # "idle" /\ fault < MaxFaults /\ fault' = fault + 1
    /\ running' = IF s \in Checking THEN running - 1 ELSE running
    /\ Leave(s) /\ overtaken' = [overtaken EXCEPT ![s] = {}]
    /\ UNCHANGED <<version, active, age, result, claimed, undercut>>

Restart ==
    /\ fault < MaxFaults /\ fault' = fault + 1
    /\ running' = 0 /\ pc' = [s \in Session |-> "idle"] /\ todo' = [s \in Session |-> <<>>] /\ lag' = [s \in Session |-> 0]
    /\ seen' = [s \in Session |-> [d \in Domain |-> Never]] /\ overtaken' = [s \in Session |-> {}]
    /\ UNCHANGED <<version, active, age, result, claimed, undercut>>

ZoneChanges(d) ==
    /\ version[d] < MaxVersion /\ version' = [version EXCEPT ![d] = @ + 1]
    /\ UNCHANGED <<active, age, result, running, pc, todo, seen, lag, fault, claimed, undercut, overtaken>>

\* People switch a domain off and on; one that is switched on again may have been due for long
domain_toggle(d) ==
    /\ active' = IF d \in active THEN active \ {d} ELSE active \cup {d}
    /\ UNCHANGED <<version, age, result, running, pc, todo, seen, lag, fault, claimed, undercut, overtaken>>

\* Ages stop at Old, which tells no two times apart that matter; the job and the time limits keep active domains and
\* sessions from getting there
Tick ==
    LET Later(t) == IF t \in Nat /\ t < Old THEN t + 1 ELSE t
    IN  /\ \A d \in Due : age[d] \in Nat => age[d] < Old
        /\ \A s \in Session : pc[s] # "idle" => lag[s] < Slow
        /\ age' = [d \in Domain |-> Later(age[d])] /\ claimed' = [d \in Domain |-> Later(claimed[d])]
        /\ lag' = [s \in Session |-> IF pc[s] = "idle" THEN lag[s] ELSE lag[s] + 1]
        /\ UNCHANGED <<version, active, result, running, pc, todo, seen, fault, undercut, overtaken>>

Step(s) ==
    \/ \E d \in Domain : _claim(s, d) \/ Look(s, d)
    \/ Store(s)

DnsNext ==
    \/ \E s \in Request, d \in Domain : run_manual_check(s, d)
    \/ \E s \in Run : \E L \in due_domains : run_due_checks(s, L)
    \/ \E s \in Session : Step(s) \/ Rollback(s)
    \/ Restart \/ Tick
    \/ \E d \in Domain : ZoneChanges(d) \/ domain_toggle(d)

DnsSpec == DnsInit /\ [][DnsNext]_dnsVars

-----------------------------------------------------------------------------
(* Properties *)

(* The counter of the requests is their number and stays within the limit, whatever ends them (the finally of
   run_manual_check, a start). *)
SlotsComeBack == running = Cardinality(Checking) /\ running <= Parallel

(* A result gives way to an older one only if another session stored its own between the lookup and the commit of the
   session that writes (store_result writes whatever is there). *)
NewestResultStays ==
    [][\A d \in Domain : result[d] \in Nat /\ result'[d] \in Nat /\ result'[d] < result[d] =>
          \E s \in Session : pc[s] = "look" /\ pc'[s] = "idle" /\ d \in overtaken[s]]_dnsVars

(* Two accepted requests for a domain are a cooldown apart (_claim), unless a check that began before the first of
   them ended in between and set dns_checked_at back.  A cooldown of 0 asks for no distance. *)
CooldownHolds ==
    [][\A s \in Request, d \in Domain :
          pc[s] = "claim" /\ pc'[s] = "look" /\ todo[s] = <<d>> /\ claimed[d] # Never /\ d \notin undercut /\ Cooldown # 0 =>
              claimed[d] - lag[s] >= Cooldown]_dnsVars

(* The job comes to every domain that stays active, however many are due and whatever their checks end in. *)
DomainsAreChecked ==
    \A d \in Domain : <>[](d \in active) => []<>(result[d] = version[d])
=============================================================================
