--------------------------- MODULE Upkeep_proofs ----------------------------
(***************************************************************************)
(* Proofs about what the jobs do to keep the data in order: DnsCheck for any *)
(* domains, requests and runs, Digest for any recipients, rows and requests, *)
(* Retention for any rows, ages and files, and any limits and bounds.      *)
(* The mails of the digest also together with OneTurn, the promise that    *)
(* Scheduler keeps for jobs that keep to their time.                       *)
(***************************************************************************)
EXTENDS DnsCheck, Digest, Retention, FiniteSetTheorems, TLAPS

-----------------------------------------------------------------------------
(* The DNS check *)

\* A list of one domain, and every list of due domains, fits a batch
LEMMA ListsFit ==
    /\ \A d \in Domain : <<d>> \in SeqOf(Domain, BatchSize)
    /\ <<>> \in SeqOf(Domain, BatchSize)
    /\ DnsTypeOK => due_domains \subseteq SeqOf(Domain, BatchSize)
<1>1. ASSUME NEW d \in Domain PROVE <<d>> \in SeqOf(Domain, BatchSize)
  <2>1. <<d>> \in [1 .. 1 -> Domain] /\ 1 \in 0 .. BatchSize
    BY DnsNumbers
  <2>2. QED
    BY <2>1 DEF SeqOf
<1>2. <<>> \in SeqOf(Domain, BatchSize)
  <2>1. <<>> \in [1 .. 0 -> Domain] /\ 0 \in 0 .. BatchSize
    BY DnsNumbers
  <2>2. QED
    BY <2>1 DEF SeqOf
<1>3. ASSUME DnsTypeOK, NEW L \in due_domains PROVE L \in SeqOf(Domain, BatchSize)
  <2>1. L \in SeqOf(Due, BatchSize) /\ Due \subseteq Domain
    BY <1>3 DEF due_domains, Lists, Due, DnsTypeOK
  <2>2. PICK n \in 0 .. BatchSize : L \in [1 .. n -> Due]
    BY <2>1 DEF SeqOf
  <2>3. L \in [1 .. n -> Domain]
    BY <2>1, <2>2
  <2>4. QED
    BY <2>3 DEF SeqOf
<1>4. QED
  BY <1>1, <1>2, <1>3

\* The slots in use change with the requests under way
LEMMA SlotsCounted ==
    ASSUME NEW P \in [Session -> {"idle", "claim", "look"}], NEW Q \in [Session -> {"idle", "claim", "look"}],
           NEW s \in Session, \A t \in Session \ {s} : Q[t] = P[t]
    PROVE  LET Before == {t \in Request : P[t] \in {"claim", "look"}}
               After == {t \in Request : Q[t] \in {"claim", "look"}}
           IN  /\ IsFiniteSet(Before) /\ IsFiniteSet(After) /\ {Cardinality(Before), Cardinality(After)} \subseteq Nat
               /\ s \in After \ Before => Cardinality(After) = Cardinality(Before) + 1
               /\ s \in Before \ After => Cardinality(After) = Cardinality(Before) - 1
               /\ (s \in Before <=> s \in After) => Cardinality(After) = Cardinality(Before)
<1> DEFINE Before == {t \in Request : P[t] \in {"claim", "look"}}
           After == {t \in Request : Q[t] \in {"claim", "look"}}
<1>1. IsFiniteSet(Before) /\ IsFiniteSet(After)
  BY FS_Subset, DnsNumbers
<1>2. s \in After \ Before => After = Before \cup {s} /\ s \notin Before
  BY DEF Session
<1>3. s \in Before \ After => After = Before \ {s} /\ s \in Before
  BY DEF Session
<1>4. (s \in Before <=> s \in After) => After = Before
  BY DEF Session
<1>5. {Cardinality(Before), Cardinality(After)} \subseteq Nat
  BY <1>1, FS_CardinalityType
<1> HIDE DEF Before, After
<1>6. s \in After \ Before => Cardinality(After) = Cardinality(Before) + 1
  BY <1>1, <1>2, FS_AddElement
<1>7. s \in Before \ After => Cardinality(After) = Cardinality(Before) - 1
  BY <1>1, <1>3, FS_RemoveElement
<1>8. QED
  BY <1>1, <1>4, <1>5, <1>6, <1>7 DEF Before, After

\* What is in a list of domains is a domain
LEMMA ElementsOfList == ASSUME NEW L \in SeqOf(Domain, BatchSize) PROVE ToSet(L) \subseteq Domain
<1>1. PICK n \in 0 .. BatchSize : L \in [1 .. n -> Domain]
  BY DEF SeqOf
<1>2. QED
  BY <1>1 DEF ToSet

DnsInv == DnsTypeOK /\ SlotsComeBack

\* What a step does to the sessions keeps the number of slots, takes one below the limit, or gives one back
LEMMA SlotsStep ==
    ASSUME DnsInv, pc' \in [Session -> {"idle", "claim", "look"}], NEW s \in Session,
           \A t \in Session \ {s} : pc'[t] = pc[t],
           \/ s \in Checking' \ Checking /\ running < Parallel /\ running' = running + 1
           \/ s \in Checking \ Checking' /\ running' = running - 1
           \/ (s \in Checking <=> s \in Checking') /\ running' = running
    PROVE  SlotsComeBack' /\ running' \in Nat
<1>1. pc \in [Session -> {"idle", "claim", "look"}]
  BY DEF DnsInv, DnsTypeOK
<1>2. /\ {Cardinality(Checking), Cardinality(Checking')} \subseteq Nat
      /\ s \in Checking' \ Checking => Cardinality(Checking') = Cardinality(Checking) + 1
      /\ s \in Checking \ Checking' => Cardinality(Checking') = Cardinality(Checking) - 1
      /\ (s \in Checking <=> s \in Checking') => Cardinality(Checking') = Cardinality(Checking)
  BY <1>1, SlotsCounted DEF Checking
<1>3. running = Cardinality(Checking) /\ running <= Parallel /\ Checking' = {t \in Request : pc'[t] \in {"claim", "look"}}
  BY DEF DnsInv, SlotsComeBack, Checking
<1>4. QED
  BY <1>2, <1>3, DnsNumbers DEF SlotsComeBack

\* The variables have their types, and the counter of the requests is their number
LEMMA DnsInvariant == DnsSpec => []DnsInv
<1>1. DnsInit => DnsInv
  <2> SUFFICES ASSUME DnsInit PROVE DnsInv
    OBVIOUS
  <2>1. Checking = {}
    BY DEF DnsInit, Checking, Session
  <2>2. running = Cardinality(Checking) /\ running <= Parallel
    BY <2>1, FS_EmptySet, DnsNumbers DEF DnsInit
  <2>3. todo \in [Session -> SeqOf(Domain, BatchSize)]
    <3>1. <<>> \in SeqOf(Domain, BatchSize)
      BY ListsFit
    <3>2. QED
      BY <3>1 DEF DnsInit
  <2>4. pc \in [Session -> {"idle", "claim", "look"}] /\ \A s \in Run : pc[s] # "claim"
    BY DEF DnsInit, Session
  <2>5. QED
    BY <2>2, <2>3, <2>4, DnsNumbers DEF DnsInit, DnsInv, DnsTypeOK, SlotsComeBack
<1>2. DnsInv /\ [DnsNext]_dnsVars => DnsInv'
  <2> SUFFICES ASSUME DnsInv, [DnsNext]_dnsVars PROVE DnsInv'
    OBVIOUS
  <2> USE DnsNumbers
  <2>1. ASSUME NEW s \in Request, NEW d \in Domain, run_manual_check(s, d) PROVE DnsInv'
    <3>1. <<d>> \in SeqOf(Domain, BatchSize)
      BY ListsFit
    <3>2. s \in Session /\ s \in Checking' \ Checking /\ pc' \in [Session -> {"idle", "claim", "look"}]
      BY <2>1 DEF run_manual_check, Enter, Session, Checking, DnsInv, DnsTypeOK
    <3>3. SlotsComeBack' /\ running' \in Nat
      BY <2>1, <3>2, SlotsStep DEF run_manual_check, Enter, DnsInv, DnsTypeOK
    <3>4. QED
      BY <2>1, <3>1, <3>2, <3>3 DEF run_manual_check, Enter, DnsInv, DnsTypeOK, SlotsComeBack
  <2>2. ASSUME NEW s \in Run, NEW L \in due_domains, run_due_checks(s, L) PROVE DnsInv'
    <3>1. L \in SeqOf(Domain, BatchSize)
      BY ListsFit DEF DnsInv
    <3>2. s \in Session /\ s \notin Checking' /\ s \notin Checking /\ pc' \in [Session -> {"idle", "claim", "look"}]
      BY <2>2 DEF run_due_checks, Enter, Session, Checking, DnsInv, DnsTypeOK
    <3>3. SlotsComeBack' /\ running' \in Nat
      BY <2>2, <3>2, SlotsStep DEF run_due_checks, Enter, DnsInv, DnsTypeOK
    <3>4. QED
      BY <2>2, <3>1, <3>2, <3>3 DEF run_due_checks, Enter, DnsInv, DnsTypeOK, SlotsComeBack
  <2>3. ASSUME NEW s \in Session, NEW d \in Domain, _claim(s, d) PROVE DnsInv'
    <3>0. <<>> \in SeqOf(Domain, BatchSize)
      BY ListsFit
    <3>1. CASE Claim(s, d) /\ claimed' = [claimed EXCEPT ![d] = lag[s]] /\ undercut' = undercut \ {d}
      <4>1. (s \in Checking <=> s \in Checking') /\ pc' \in [Session -> {"idle", "claim", "look"}]
        BY <2>3, <3>1 DEF _claim, Claim, Checking, DnsInv, DnsTypeOK
      <4>2. SlotsComeBack' /\ running' \in Nat
        BY <2>3, <3>1, <4>1, SlotsStep DEF _claim, Claim, DnsInv, DnsTypeOK
      <4>3. QED
        BY <2>3, <3>1, <4>1, <4>2 DEF _claim, Claim, DnsInv, DnsTypeOK, SlotsComeBack
    <3>2. CASE Refuse(s, d) /\ UNCHANGED <<claimed, undercut>>
      <4>1. pc' = [pc EXCEPT ![s] = "idle"] /\ running' = running - 1 /\ pc[s] = "claim"
        BY <2>3, <3>2 DEF _claim, Refuse, Leave
      <4>2. s \in Request
        BY <4>1 DEF Session, DnsInv, DnsTypeOK
      <4>3. s \in Checking \ Checking' /\ pc' \in [Session -> {"idle", "claim", "look"}]
        BY <4>1, <4>2 DEF Checking, DnsInv, DnsTypeOK
      <4>4. SlotsComeBack' /\ running' \in Nat
        BY <4>1, <4>3, SlotsStep DEF DnsInv, DnsTypeOK
      <4>5. QED
        BY <2>3, <3>0, <3>2, <4>3, <4>4 DEF _claim, Refuse, Leave, DnsInv, DnsTypeOK
    <3>3. QED
      BY <2>3, <3>1, <3>2 DEF _claim
  <2>4. ASSUME NEW s \in Session, NEW d \in Domain, Look(s, d) PROVE DnsInv'
    BY <2>4 DEF Look, DnsInv, DnsTypeOK, SlotsComeBack, Checking
  <2>5. ASSUME NEW s \in Session, Store(s) PROVE DnsInv'
    <3>1. <<>> \in SeqOf(Domain, BatchSize)
      BY ListsFit
    <3>2. Done(s) \subseteq Domain
      BY <2>5, ElementsOfList DEF Done, DnsInv, DnsTypeOK
    <3>3. age' \in [Domain -> 0 .. Old \cup {Never}] /\ result' \in [Domain -> 0 .. MaxVersion \cup {Never}]
      BY <2>5 DEF Store, DnsInv, DnsTypeOK
    <3>4. undercut' \subseteq Domain /\ overtaken' \in [Session -> SUBSET Domain]
      BY <2>5, <3>2 DEF Store, DnsInv, DnsTypeOK
    <3>5. /\ pc' = [pc EXCEPT ![s] = "idle"] /\ pc[s] = "look"
          /\ running' = IF s \in Request THEN running - 1 ELSE running
      BY <2>5 DEF Store, Leave
    <3>6. pc' \in [Session -> {"idle", "claim", "look"}] /\ s \notin Checking' /\ (s \in Checking <=> s \in Request)
      BY <3>5 DEF Checking, DnsInv, DnsTypeOK
    <3>7. SlotsComeBack' /\ running' \in Nat
      BY <3>5, <3>6, SlotsStep DEF DnsInv, DnsTypeOK
    <3>8. QED
      BY <2>5, <3>1, <3>3, <3>4, <3>6, <3>7 DEF Store, Leave, DnsInv, DnsTypeOK, SlotsComeBack
  <2>6. ASSUME NEW s \in Session, Rollback(s) PROVE DnsInv'
    <3>1. <<>> \in SeqOf(Domain, BatchSize)
      BY ListsFit
    <3>2. pc' = [pc EXCEPT ![s] = "idle"] /\ running' = IF s \in Checking THEN running - 1 ELSE running
      BY <2>6 DEF Rollback, Leave
    <3>3. pc' \in [Session -> {"idle", "claim", "look"}] /\ s \notin Checking'
      BY <3>2 DEF Checking, DnsInv, DnsTypeOK
    <3>4. SlotsComeBack' /\ running' \in Nat
      BY <3>2, <3>3, SlotsStep DEF DnsInv, DnsTypeOK
    <3>5. QED
      BY <2>6, <3>1, <3>3, <3>4 DEF Rollback, Leave, DnsInv, DnsTypeOK
  <2>7. CASE Restart
    <3>1. <<>> \in SeqOf(Domain, BatchSize)
      BY ListsFit
    <3>2. Checking' = {}
      BY <2>7 DEF Restart, Checking, Session
    <3>3. SlotsComeBack' /\ running' \in Nat
      BY <2>7, <3>2, FS_EmptySet DEF Restart, SlotsComeBack
    <3>4. todo' \in [Session -> SeqOf(Domain, BatchSize)]
      BY <2>7, <3>1 DEF Restart
    <3>5. pc' \in [Session -> {"idle", "claim", "look"}] /\ \A s \in Run : pc'[s] # "claim"
      BY <2>7 DEF Restart, Session
    <3>6. seen' \in [Session -> [Domain -> 0 .. MaxVersion \cup {Never}]] /\ overtaken' \in [Session -> SUBSET Domain]
      BY <2>7 DEF Restart
    <3>7. lag' \in [Session -> 0 .. Slow] /\ fault' \in 0 .. MaxFaults
      BY <2>7 DEF Restart, DnsInv, DnsTypeOK
    <3>8. UNCHANGED <<version, active, age, result, claimed, undercut>>
      BY <2>7 DEF Restart
    <3>9. QED
      BY <3>3, <3>4, <3>5, <3>6, <3>7, <3>8 DEF DnsInv, DnsTypeOK
  <2>8. CASE Tick
    BY <2>8 DEF Tick, DnsInv, DnsTypeOK, SlotsComeBack, Checking
  <2>9. ASSUME NEW d \in Domain, ZoneChanges(d) PROVE DnsInv'
    BY <2>9 DEF ZoneChanges, DnsInv, DnsTypeOK, SlotsComeBack, Checking
  <2>10. ASSUME NEW d \in Domain, domain_toggle(d) PROVE DnsInv'
    BY <2>10 DEF domain_toggle, DnsInv, DnsTypeOK, SlotsComeBack, Checking
  <2>11. CASE UNCHANGED dnsVars
    BY <2>11 DEF dnsVars, DnsInv, DnsTypeOK, SlotsComeBack, Checking
  <2>12. QED
    BY <2>1, <2>2, <2>3, <2>4, <2>5, <2>6, <2>7, <2>8, <2>9, <2>10, <2>11 DEF DnsNext, Step
<1>3. QED
  BY <1>1, <1>2, PTL DEF DnsSpec

\* The variables of the DNS check keep their types.
THEOREM DnsTypeCorrect == DnsSpec => []DnsTypeOK
<1>1. DnsInv => DnsTypeOK
  BY DEF DnsInv
<1>2. QED
  BY <1>1, DnsInvariant, PTL

(* Every slot of _manual_running belongs to one request under way, and no more are taken than there are: a refusal, an error, the
   end of a check and a restart give back what they must, and nothing twice. *)
THEOREM SlotsReturn == DnsSpec => []SlotsComeBack
<1>1. DnsInv => SlotsComeBack
  BY DEF DnsInv
<1>2. QED
  BY <1>1, DnsInvariant, PTL

-----------------------------------------------------------------------------
(* Results *)

\* What the lookups found is not newer than the zone and not older than the result, unless another session has stored
\* its own since; only a session that looks has found anything
Found ==
    \A s \in Session, d \in Domain : seen[s][d] \in Nat =>
        /\ pc[s] = "look" /\ seen[s][d] <= version[d]
        /\ d \in overtaken[s] \/ result[d] = Never \/ result[d] <= seen[s][d]

\* Nor is a result newer than the zone
ResultsReal == \A d \in Domain : result[d] \in Nat => result[d] <= version[d]

LookupTypes ==
    /\ pc \in [Session -> {"idle", "claim", "look"}]
    /\ version \in [Domain -> Nat] /\ result \in [Domain -> Nat \cup {Never}]
    /\ seen \in [Session -> [Domain -> Nat \cup {Never}]] /\ DOMAIN overtaken = Session

ResultInv == LookupTypes /\ ResultsReal /\ Found

LEMMA ResultInit == DnsInit => ResultInv
BY DnsNumbers DEF DnsInit, ResultInv, LookupTypes, ResultsReal, Found

LEMMA ResultStep == ResultInv /\ [DnsNext]_dnsVars => ResultInv'
<1> SUFFICES ASSUME ResultInv, [DnsNext]_dnsVars PROVE ResultInv'
  OBVIOUS
<1> USE DnsNumbers DEF ResultInv, LookupTypes, ResultsReal, Found
<1>1. ASSUME NEW s \in Request, NEW d \in Domain, run_manual_check(s, d) PROVE ResultInv'
  BY <1>1 DEF run_manual_check, Enter, Session
<1>2. ASSUME NEW s \in Run, NEW L \in due_domains, run_due_checks(s, L) PROVE ResultInv'
  BY <1>2 DEF run_due_checks, Enter, Session
<1>3. ASSUME NEW s \in Session, NEW d \in Domain, _claim(s, d) PROVE ResultInv'
  <2>1. CASE Claim(s, d)
    BY <1>3, <2>1 DEF _claim, Claim
  <2>2. CASE Refuse(s, d)
    BY <1>3, <2>2 DEF _claim, Refuse, Leave
  <2>3. QED
    BY <1>3, <2>1, <2>2 DEF _claim
<1>4. ASSUME NEW s \in Session, NEW d \in Domain, Look(s, d) PROVE ResultInv'
  BY <1>4 DEF Look
<1>5. ASSUME NEW s \in Session, Store(s) PROVE ResultInv'
  <2>1. LookupTypes'
    <3>1. result' \in [Domain -> Nat \cup {Never}]
      BY <1>5 DEF Store
    <3>2. QED
      BY <1>5, <3>1 DEF Store, Leave
  <2>2. ResultsReal'
    BY <1>5 DEF Store, Leave, Done
  <2>3. ASSUME NEW t \in Session, NEW d \in Domain, seen'[t][d] \in Nat
        PROVE  /\ pc'[t] = "look" /\ seen'[t][d] <= version'[d]
               /\ d \in overtaken'[t] \/ result'[d] = Never \/ result'[d] <= seen'[t][d]
    <3>1. t # s /\ seen'[t] = seen[t] /\ pc'[t] = pc[t] /\ version' = version
      BY <1>5, <2>3 DEF Store, Leave
    <3>2. CASE d \in Done(s)
      BY <1>5, <2>3, <3>1, <3>2 DEF Store
    <3>3. CASE d \notin Done(s)
      BY <1>5, <2>3, <3>1, <3>3 DEF Store
    <3>4. QED
      BY <3>2, <3>3
  <2>4. QED
    BY <2>1, <2>2, <2>3
<1>6. ASSUME NEW s \in Session, Rollback(s) PROVE ResultInv'
  BY <1>6 DEF Rollback, Leave
<1>7. CASE Restart
  BY <1>7 DEF Restart
<1>8. CASE Tick
  BY <1>8 DEF Tick
<1>9. ASSUME NEW d \in Domain, ZoneChanges(d) PROVE ResultInv'
  BY <1>9 DEF ZoneChanges
<1>10. ASSUME NEW d \in Domain, domain_toggle(d) PROVE ResultInv'
  BY <1>10 DEF domain_toggle
<1>11. CASE UNCHANGED dnsVars
  BY <1>11 DEF dnsVars
<1>12. QED
  BY <1>1, <1>2, <1>3, <1>4, <1>5, <1>6, <1>7, <1>8, <1>9, <1>10, <1>11 DEF DnsNext, Step

\* A result gives way to an older one only when another session stored its own between the lookup and the commit of the
\* session that writes.
THEOREM ResultsGrow == DnsSpec => NewestResultStays
<1>1. ResultInv /\ [DnsNext]_dnsVars =>
        [\A d \in Domain : result[d] \in Nat /\ result'[d] \in Nat /\ result'[d] < result[d] =>
            \E s \in Session : pc[s] = "look" /\ pc'[s] = "idle" /\ d \in overtaken[s]]_dnsVars
  <2> SUFFICES ASSUME ResultInv, DnsNext, NEW d \in Domain, result[d] \in Nat, result'[d] \in Nat, result'[d] < result[d]
               PROVE  \E s \in Session : pc[s] = "look" /\ pc'[s] = "idle" /\ d \in overtaken[s]
    OBVIOUS
  <2>1. PICK s \in Session : Store(s)
    <3>1. result' # result
      OBVIOUS
    <3>2. QED
      BY <3>1 DEF DnsNext, Step, run_manual_check, run_due_checks, _claim, Look, Rollback, Restart, Tick, ZoneChanges,
                  domain_toggle
  <2>2. d \in Done(s) /\ result'[d] = seen[s][d]
    BY <2>1 DEF Store
  <2>3. pc[s] = "look" /\ pc'[s] = "idle"
    BY <2>1 DEF Store, Leave, ResultInv, LookupTypes
  <2>4. d \in overtaken[s]
    BY <2>2, DnsNumbers DEF ResultInv, Found
  <2>5. QED
    BY <2>3, <2>4
<1>2. QED
  BY <1>1, ResultInit, ResultStep, PTL DEF DnsSpec, NewestResultStays

-----------------------------------------------------------------------------
(* The cooldown *)

AgeTypes ==
    /\ age \in [Domain -> 0 .. Old \cup {Never}] /\ claimed \in [Domain -> 0 .. Old \cup {Never}]
    /\ lag \in [Session -> 0 .. Slow]

\* dns_checked_at is not older than the last accepted request
ClaimMarked ==
    Cooldown # 0 =>
        \A d \in Domain : claimed[d] # Never /\ d \notin undercut => age[d] # Never /\ age[d] <= claimed[d]

AgeInv == AgeTypes /\ ClaimMarked

LEMMA AgeStart == DnsInit => AgeInv
BY DnsNumbers DEF DnsInit, AgeInv, AgeTypes, ClaimMarked

LEMMA AgeStep == AgeInv /\ [DnsNext]_dnsVars => AgeInv'
<1> SUFFICES ASSUME AgeInv, [DnsNext]_dnsVars PROVE AgeInv'
  OBVIOUS
<1> USE DnsNumbers DEF AgeInv, AgeTypes, ClaimMarked
<1>1. ASSUME NEW s \in Request, NEW d \in Domain, run_manual_check(s, d) PROVE AgeInv'
  BY <1>1 DEF run_manual_check, Enter, Session
<1>2. ASSUME NEW s \in Run, NEW L \in due_domains, run_due_checks(s, L) PROVE AgeInv'
  BY <1>2 DEF run_due_checks, Enter, Session
<1>3. ASSUME NEW s \in Session, NEW d \in Domain, _claim(s, d) PROVE AgeInv'
  <2>1. CASE Claim(s, d) /\ claimed' = [claimed EXCEPT ![d] = lag[s]] /\ undercut' = undercut \ {d}
    BY <2>1 DEF Claim
  <2>2. CASE Refuse(s, d) /\ UNCHANGED <<claimed, undercut>>
    BY <2>2 DEF Refuse, Leave
  <2>3. QED
    BY <1>3, <2>1, <2>2 DEF _claim
<1>4. ASSUME NEW s \in Session, NEW d \in Domain, Look(s, d) PROVE AgeInv'
  BY <1>4 DEF Look
<1>5. ASSUME NEW s \in Session, Store(s) PROVE AgeInv'
  <2>1. AgeTypes'
    BY <1>5 DEF Store, Leave
  <2>2. ClaimMarked'
    BY <1>5 DEF Store
  <2>3. QED
    BY <2>1, <2>2
<1>6. ASSUME NEW s \in Session, Rollback(s) PROVE AgeInv'
  BY <1>6 DEF Rollback, Leave
<1>7. CASE Restart
  BY <1>7 DEF Restart
<1>8. CASE Tick
  BY <1>8 DEF Tick
<1>9. ASSUME NEW d \in Domain, ZoneChanges(d) PROVE AgeInv'
  BY <1>9 DEF ZoneChanges
<1>10. ASSUME NEW d \in Domain, domain_toggle(d) PROVE AgeInv'
  BY <1>10 DEF domain_toggle
<1>11. CASE UNCHANGED dnsVars
  BY <1>11 DEF dnsVars
<1>12. QED
  BY <1>1, <1>2, <1>3, <1>4, <1>5, <1>6, <1>7, <1>8, <1>9, <1>10, <1>11 DEF DnsNext, Step

\* Only a claim turns a request that waits for its claim into one that looks
LEMMA ClaimRested ==
    ASSUME LookupTypes, AgeInv, DnsNext, NEW s \in Request, NEW d \in Domain, Cooldown # 0,
           pc[s] = "claim", pc'[s] = "look", todo[s] = <<d>>, claimed[d] # Never, d \notin undercut
    PROVE  claimed[d] - lag[s] >= Cooldown
<1> s \in Session
  BY DEF Session
<1>1. PICK t \in Session, e \in Domain : _claim(t, e)
  <2>1. ASSUME NEW t \in Request, NEW e \in Domain, run_manual_check(t, e) PROVE FALSE
    BY <2>1 DEF run_manual_check, Enter, Session, LookupTypes
  <2>2. ASSUME NEW t \in Run, NEW L \in due_domains, run_due_checks(t, L) PROVE FALSE
    BY <2>2, DnsNumbers DEF run_due_checks, Enter, Session, LookupTypes
  <2>3. ASSUME NEW t \in Session, NEW e \in Domain, Look(t, e) PROVE FALSE
    BY <2>3 DEF Look
  <2>4. ASSUME NEW t \in Session, Store(t) \/ Rollback(t) PROVE FALSE
    BY <2>4 DEF Store, Rollback, Leave, LookupTypes
  <2>5. ~Restart /\ ~Tick
    BY DEF Restart, Tick
  <2>6. ASSUME NEW e \in Domain, ZoneChanges(e) \/ domain_toggle(e) PROVE FALSE
    BY <2>6 DEF ZoneChanges, domain_toggle
  <2>7. QED
    BY <2>1, <2>2, <2>3, <2>4, <2>5, <2>6 DEF DnsNext, Step
<1>2. Claim(t, e) /\ t = s
  BY <1>1 DEF _claim, Claim, Refuse, Leave, LookupTypes
<1>3. e = d
  BY <1>1, <1>2 DEF _claim
<1>4. age[d] # Never /\ age[d] <= claimed[d]
  BY DEF AgeInv, ClaimMarked
<1>5. age[d] - lag[s] >= Cooldown
  BY <1>2, <1>3, <1>4 DEF Claim, Rested
<1>6. QED
  BY <1>4, <1>5, DnsNumbers DEF AgeInv, AgeTypes

\* Two accepted requests for a domain are a cooldown apart, unless a check that began before the first of them set
\* dns_checked_at back in between.
THEOREM CooldownKept == DnsSpec => CooldownHolds
<1>1. ResultInv /\ AgeInv /\ [DnsNext]_dnsVars =>
        [\A s \in Request, d \in Domain :
          pc[s] = "claim" /\ pc'[s] = "look" /\ todo[s] = <<d>> /\ claimed[d] # Never /\ d \notin undercut /\ Cooldown # 0 =>
              claimed[d] - lag[s] >= Cooldown]_dnsVars
  BY ClaimRested DEF ResultInv
<1>2. QED
  BY <1>1, ResultInit, ResultStep, AgeStart, AgeStep, PTL DEF DnsSpec, CooldownHolds

-----------------------------------------------------------------------------
(* The weekly digest *)

Own == Listed \cup Admin

\* Nothing is dated later than now
NotAhead ==
    /\ mark <= week /\ \A s \in Sender : dweek[s] <= week
    /\ \A r \in Entry : rowMark[r] <= week
    /\ \A x \in Marked : newest[x] <= week

\* What a session holds belongs to what it is doing
Phases ==
    \A s \in Sender :
        /\ dpc[s] = "idle" => sent[s] = {}
        /\ dpc[s] = "org" => left[s] \subseteq Own /\ sent[s] \subseteq Own \ left[s]
        /\ dpc[s] = "groups" => s \in Job /\ left[s] \subseteq Further /\ sent[s] \subseteq Further

\* Who got the digest of the organisation has been told of its slot
Told == \A s \in Sender : dpc[s] = "org" => \A a \in sent[s] : newest[a] >= dweek[s]

BaseInv == DigestTypeOK /\ NotAhead /\ Phases /\ Told /\ SomebodyGotIt

-----------------------------------------------------------------------------
LEMMA Disjoint ==
    /\ Own \cap Further = {} /\ Own \cap Entry = {} /\ Own \subseteq Marked /\ Own \subseteq Address /\ Further \subseteq Address
    /\ Entry \subseteq Marked /\ \A s \in Job : s \notin Page
BY DigestSets DEF Own, Marked, Address

\* Whom a digest of the organisation goes to
LEMMA Recipients == DigestTypeOK => digest_recipients \subseteq Own
BY DEF digest_recipients, DigestTypeOK, Own

\* What a mail is for
LEMMA Covered ==
    ASSUME DigestTypeOK, NEW s \in Sender, NEW a \in Address
    PROVE  /\ Covers(s, a) \subseteq Marked
           /\ a \in Own => Covers(s, a) = {a}
           /\ a \in Further => Covers(s, a) = Group(s, a) /\ Group(s, a) \subseteq Entry
BY Disjoint DEF Covers, Group, DigestTypeOK, Address, Own

\* A mail that works dates what it covers, and nothing goes back
LEMMA MailDates ==
    ASSUME DigestTypeOK, NEW s \in Sender, NEW a \in left[s], send_mail(s, a)
    PROVE  /\ newest' \in [Marked -> 0 .. MaxWeek] /\ excused' \subseteq Marked /\ orders' \in 0 .. MaxOrders
           /\ \A t \in Sender \ {s} : left'[t] = left[t] /\ sent'[t] = sent[t]
           /\ left' \in [Sender -> SUBSET Address] /\ sent' \in [Sender -> SUBSET Address]
           /\ left'[s] = left[s] \ {a}
           /\ \/ sent' = sent /\ newest' = newest /\ excused' = excused
              \/ /\ sent'[s] = sent[s] \cup {a}
                 /\ \A x \in Marked :
                       IF x \in Covers(s, a) /\ newest[x] <= dweek[s] THEN newest'[x] = dweek[s] ELSE newest'[x] = newest[x]
                 /\ \A x \in Marked : x \in excused /\ x \notin excused' => x \in Covers(s, a) /\ newest'[x] = dweek[s]
<1> DEFINE told == {x \in Covers(s, a) : newest[x] <= dweek[s]}
<1>1. a \in Address /\ told \subseteq Marked
  BY Covered DEF DigestTypeOK
<1>2. /\ \A t \in Sender \ {s} : left'[t] = left[t]
      /\ left' \in [Sender -> SUBSET Address] /\ left'[s] = left[s] \ {a}
  BY DEF send_mail, DigestTypeOK
<1>3. CASE /\ sent' = [sent EXCEPT ![s] = @ \cup {a}]
           /\ newest' = [x \in Marked |-> IF x \in told THEN dweek[s] ELSE newest[x]]
           /\ excused' = excused \ told /\ UNCHANGED orders
  <2>1. newest' \in [Marked -> 0 .. MaxWeek] /\ excused' \subseteq Marked /\ orders' \in 0 .. MaxOrders
    BY <1>3 DEF DigestTypeOK
  <2>2. /\ sent' \in [Sender -> SUBSET Address] /\ sent'[s] = sent[s] \cup {a}
        /\ \A t \in Sender \ {s} : sent'[t] = sent[t]
    BY <1>1, <1>3 DEF DigestTypeOK
  <2>3. \A x \in Marked :
            IF x \in Covers(s, a) /\ newest[x] <= dweek[s] THEN newest'[x] = dweek[s] ELSE newest'[x] = newest[x]
    BY <1>3
  <2>4. \A x \in Marked : x \in excused /\ x \notin excused' => x \in Covers(s, a) /\ newest'[x] = dweek[s]
    BY <1>3
  <2>5. QED
    BY <1>2, <2>1, <2>2, <2>3, <2>4
<1>4. CASE orders < MaxOrders /\ orders' = orders + 1 /\ UNCHANGED <<sent, newest, excused>>
  <2>1. orders' \in 0 .. MaxOrders
    BY <1>4, DigestSets DEF DigestTypeOK
  <2>2. QED
    BY <1>2, <1>4, <2>1 DEF DigestTypeOK
<1>5. QED
  BY <1>3, <1>4 DEF send_mail

\* Loading further recipients
LEMMA LoadTypes ==
    ASSUME DigestTypeOK, NEW s \in Sender, Load(s)
    PROVE  /\ dpc' \in [Sender -> {"idle", "org", "groups"}] /\ dpc'[s] = "groups"
           /\ left' \in [Sender -> SUBSET Address] /\ left'[s] \subseteq Further
           /\ loaded' \in [Sender -> SUBSET Entry]
           /\ \A t \in Sender \ {s} : dpc'[t] = dpc[t] /\ left'[t] = left[t] /\ loaded'[t] = loaded[t]
<1>1. {Owner[r] : r \in {q \in Entry : entry[q] = "on"}} \subseteq Further /\ Further \subseteq Address
  BY Disjoint DEF Further
<1>2. QED
  BY <1>1 DEF Load, DigestTypeOK

LEMMA IdleTypes ==
    ASSUME DigestTypeOK, NEW s \in Sender, Idle(s)
    PROVE  /\ dpc' \in [Sender -> {"idle", "org", "groups"}] /\ dpc'[s] = "idle"
           /\ left' \in [Sender -> SUBSET Address] /\ loaded' \in [Sender -> SUBSET Entry]
           /\ \A t \in Sender \ {s} : dpc'[t] = dpc[t] /\ left'[t] = left[t] /\ loaded'[t] = loaded[t]
BY DEF Idle, DigestTypeOK

LEMMA BeginKeeps ==
    ASSUME BaseInv, NEW s \in Sender, Begin(s), dpc[s] = "idle", UNCHANGED_table, UNCHANGED <<sent, loaded, newest, excused>>,
           orders' \in 0 .. MaxOrders
    PROVE  BaseInv'
<1>1. /\ dpc' \in [Sender -> {"idle", "org", "groups"}] /\ dpc'[s] = "org"
      /\ left' \in [Sender -> SUBSET Address] /\ left'[s] \subseteq Own
      /\ dweek' \in [Sender -> 0 .. MaxWeek] /\ dweek'[s] = week
      /\ \A t \in Sender \ {s} : dpc'[t] = dpc[t] /\ left'[t] = left[t] /\ dweek'[t] = dweek[t]
  BY Recipients, Disjoint DEF Begin, BaseInv, DigestTypeOK
<1>2. joined' \subseteq Sender
  BY DEF Begin, BaseInv, DigestTypeOK
<1>3. sent'[s] = {}
  BY DEF BaseInv, Phases
<1>4. DigestTypeOK'
  BY <1>1, <1>2 DEF BaseInv, DigestTypeOK, UNCHANGED_table
<1>5. NotAhead'
  BY <1>1 DEF BaseInv, NotAhead, UNCHANGED_table, DigestTypeOK
<1>6. Phases' /\ Told'
  BY <1>1, <1>3 DEF BaseInv, Phases, Told
<1>7. SomebodyGotIt'
  BY DEF BaseInv, SomebodyGotIt, UNCHANGED_table
<1>8. QED
  BY <1>4, <1>5, <1>6, <1>7 DEF BaseInv

\* A mail of either digest
LEMMA MailKeeps ==
    ASSUME BaseInv, NEW s \in Sender, NEW a \in left[s], send_mail(s, a), UNCHANGED_table,
           UNCHANGED <<dpc, dweek, loaded, joined>>, dpc[s] \in {"org", "groups"}
    PROVE  BaseInv'
<1> USE DEF BaseInv
<1>1. DigestTypeOK'
  BY MailDates DEF DigestTypeOK, UNCHANGED_table
<1>2. \A x \in Marked : newest'[x] >= newest[x] /\ (newest'[x] = newest[x] \/ newest'[x] = dweek[s])
  BY MailDates DEF DigestTypeOK
<1>3. NotAhead'
  BY <1>2 DEF NotAhead, UNCHANGED_table
<1>4. Phases'
  BY MailDates DEF Phases
<1>5. Told'
  <2>1. ASSUME NEW t \in Sender, dpc[t] = "org", NEW b \in sent'[t] PROVE newest'[b] >= dweek[t]
    <3>1. b \in Marked
      BY <1>1, <1>4, <2>1, Disjoint DEF Phases
    <3>2. CASE b \in sent[t]
      BY <1>2, <2>1, <3>1, <3>2 DEF Told, DigestTypeOK
    <3>3. CASE b \notin sent[t]
      <4>1. t = s /\ b = a /\ sent' # sent
        BY <2>1, <3>3, MailDates
      <4>2. a \in Own /\ Covers(s, a) = {a}
        BY <2>1, <4>1, Covered, Disjoint DEF Phases
      <4>3. b \in Covers(s, a) /\ sent' # sent
        BY <2>1, <3>3, <4>1, <4>2
      <4>4. QED
        BY <3>1, <4>1, <4>3, MailDates DEF DigestTypeOK
    <3>4. QED
      BY <3>2, <3>3
  <2>2. QED
    BY <2>1 DEF Told
<1>6. SomebodyGotIt'
  <2>1. ASSUME mark > 0 PROVE \E b \in Listed \cup Admin : newest'[b] >= mark
    <3>1. PICK b \in Listed \cup Admin : newest[b] >= mark
      BY <2>1 DEF SomebodyGotIt
    <3>2. b \in Marked
      BY DEF Marked
    <3>3. QED
      BY <1>1, <1>2, <3>1, <3>2 DEF DigestTypeOK
  <2>2. QED
    BY <2>1 DEF SomebodyGotIt, UNCHANGED_table
<1>7. QED
  BY <1>1, <1>3, <1>4, <1>5, <1>6

\* A session that ends
LEMMA LostKeeps == ASSUME BaseInv, NEW s \in Sender, Lost(s), orders' \in 0 .. MaxOrders PROVE BaseInv'
<1> USE DEF BaseInv
<1>1. UNION {Covers(s, a) : a \in sent[s]} \subseteq Marked
  BY Covered DEF DigestTypeOK
<1>2. /\ sent' = [sent EXCEPT ![s] = {}] /\ excused' \subseteq Marked
      /\ UNCHANGED <<dweek, newest, joined>> /\ UNCHANGED_table /\ Idle(s)
  BY <1>1 DEF Lost, DigestTypeOK
<1>3. sent' \in [Sender -> SUBSET Address] /\ sent'[s] = {} /\ \A t \in Sender \ {s} : sent'[t] = sent[t]
  BY <1>2 DEF DigestTypeOK
<1>4. DigestTypeOK'
  BY <1>2, <1>3, IdleTypes DEF DigestTypeOK, UNCHANGED_table
<1>5. NotAhead' /\ SomebodyGotIt'
  BY <1>2 DEF NotAhead, SomebodyGotIt, UNCHANGED_table
<1>6. Phases' /\ Told'
  BY <1>2, <1>3, IdleTypes DEF Phases, Told
<1>7. QED
  BY <1>4, <1>5, <1>6

\* After the digest of the organisation
LEMMA GoOnKeeps ==
    ASSUME BaseInv, NEW s \in Sender, GoOn(s), dpc[s] = "org", UNCHANGED <<week, enabled, entered, entry, rowMark, dweek, orders, newest, joined>>,
           mark' = mark \/ (sent[s] # {} /\ mark' = dweek[s]), excused' \subseteq Marked
    PROVE  BaseInv'
<1> USE DEF BaseInv
<1>1. sent' \in [Sender -> SUBSET Address] /\ sent'[s] = {} /\ \A t \in Sender \ {s} : sent'[t] = sent[t]
  BY DEF GoOn, DigestTypeOK
<1>2. /\ dpc' \in [Sender -> {"idle", "org", "groups"}] /\ dpc'[s] # "org"
      /\ dpc'[s] = "groups" => s \in Job /\ left'[s] \subseteq Further
      /\ left' \in [Sender -> SUBSET Address] /\ loaded' \in [Sender -> SUBSET Entry]
      /\ \A t \in Sender \ {s} : dpc'[t] = dpc[t] /\ left'[t] = left[t] /\ loaded'[t] = loaded[t]
  BY LoadTypes, IdleTypes DEF GoOn
<1>3. mark' \in 0 .. MaxWeek /\ mark' <= week
  BY DEF DigestTypeOK, NotAhead
<1>4. DigestTypeOK'
  BY <1>1, <1>2, <1>3 DEF DigestTypeOK
<1>5. NotAhead'
  BY <1>3 DEF NotAhead
<1>6. Phases' /\ Told'
  BY <1>1, <1>2 DEF Phases, Told
<1>7. SomebodyGotIt'
  <2>1. CASE mark' = mark
    BY <2>1 DEF SomebodyGotIt
  <2>2. CASE sent[s] # {} /\ mark' = dweek[s]
    <3>1. PICK a \in sent[s] : newest[a] >= dweek[s]
      BY <2>2 DEF Told
    <3>2. a \in Listed \cup Admin
      BY DEF Phases, Own
    <3>3. QED
      BY <2>2, <3>1, <3>2 DEF SomebodyGotIt
  <2>3. QED
    BY <2>1, <2>2
<1>8. QED
  BY <1>4, <1>5, <1>6, <1>7

LEMMA BaseStart == DigestInit => BaseInv
<1> SUFFICES ASSUME DigestInit PROVE BaseInv
  OBVIOUS
<1>1. /\ week \in 0 .. MaxWeek /\ mark \in 0 .. MaxWeek /\ orders \in 0 .. MaxOrders
      /\ rowMark \in [Entry -> 0 .. MaxWeek] /\ dweek \in [Sender -> 0 .. MaxWeek] /\ newest \in [Marked -> 0 .. MaxWeek]
  BY DigestSets DEF DigestInit
<1>2. /\ enabled \in BOOLEAN /\ entered \subseteq Listed /\ entry \in [Entry -> {"on", "off", "gone"}]
      /\ excused \subseteq Marked /\ joined \subseteq Sender
  BY DEF DigestInit
<1>3. /\ dpc \in [Sender -> {"idle", "org", "groups"}] /\ left \in [Sender -> SUBSET Address]
      /\ sent \in [Sender -> SUBSET Address] /\ loaded \in [Sender -> SUBSET Entry]
  BY DEF DigestInit
<1>4. DigestTypeOK
  BY <1>1, <1>2, <1>3 DEF DigestTypeOK
<1>5. NotAhead /\ Phases /\ Told /\ SomebodyGotIt
  BY DEF DigestInit, NotAhead, Phases, Told, SomebodyGotIt
<1>6. QED
  BY <1>4, <1>5 DEF BaseInv

LEMMA BaseStep == BaseInv /\ [DigestNext]_digestVars => BaseInv'
<1> SUFFICES ASSUME BaseInv, [DigestNext]_digestVars PROVE BaseInv'
  OBVIOUS
<1> USE DigestSets
<1> orders \in 0 .. MaxOrders /\ (orders < MaxOrders => orders + 1 \in 0 .. MaxOrders)
  BY DEF BaseInv, DigestTypeOK
<1>1. ASSUME NEW s \in Sender, s \in Job, send_due_digests(s) PROVE BaseInv'
  <2>1. CASE Begin(s) /\ UNCHANGED loaded
    BY <1>1, <2>1, BeginKeeps DEF send_due_digests
  <2>2. CASE Load(s) /\ dweek' = [dweek EXCEPT ![s] = week] /\ UNCHANGED joined
    <3>1. /\ dpc[s] = "idle" /\ UNCHANGED <<sent, orders, newest, excused>>
          /\ UNCHANGED <<week, enabled, entered, mark, entry, rowMark>>
      BY <1>1 DEF send_due_digests, UNCHANGED_table
    <3>2. dweek' \in [Sender -> 0 .. MaxWeek] /\ dweek'[s] = week /\ \A t \in Sender \ {s} : dweek'[t] = dweek[t]
      BY <2>2 DEF BaseInv, DigestTypeOK
    <3>3. DigestTypeOK'
      BY <2>2, <3>1, <3>2, LoadTypes DEF BaseInv, DigestTypeOK
    <3>4. NotAhead' /\ SomebodyGotIt'
      BY <3>1, <3>2 DEF BaseInv, NotAhead, SomebodyGotIt, DigestTypeOK
    <3>5. Phases' /\ Told'
      BY <1>1, <2>2, <3>1, <3>2, LoadTypes DEF BaseInv, Phases, Told
    <3>6. QED
      BY <3>3, <3>4, <3>5 DEF BaseInv
  <2>3. QED
    BY <1>1, <2>1, <2>2 DEF send_due_digests
<1>2. ASSUME NEW s \in Sender, send_digest_now(s) PROVE BaseInv'
  BY <1>2, BeginKeeps DEF send_digest_now
<1>3. ASSUME NEW s \in Sender, send_digest(s) PROVE BaseInv'
  BY <1>3, MailKeeps DEF send_digest
<1>4. ASSUME NEW s \in Sender, DigestSent(s) PROVE BaseInv'
  <2>1. excused' \subseteq Marked
    BY <1>4 DEF DigestSent, Mark, BaseInv, DigestTypeOK, Marked
  <2>2. QED
    BY <1>4, <2>1, GoOnKeeps DEF DigestSent, Mark
<1>5. ASSUME NEW s \in Sender, DigestFailed(s) PROVE BaseInv'
  <2>1. GoOn(s) /\ dpc[s] = "org" /\ UNCHANGED <<week, enabled, entered, entry, rowMark, dweek, orders, newest, joined>>
    BY <1>5 DEF DigestFailed, UNCHANGED_table
  <2>2. mark' = mark /\ excused' = excused
    BY <1>5 DEF DigestFailed, UNCHANGED_table
  <2>3. excused' \subseteq Marked
    BY <2>2 DEF BaseInv, DigestTypeOK
  <2>4. mark' = mark \/ (sent[s] # {} /\ mark' = dweek[s])
    BY <2>2
  <2>5. QED
    BY <2>1, <2>3, <2>4, GoOnKeeps
<1>6. ASSUME NEW s \in Sender, NEW a \in Further, send_domain_digest(s, a) PROVE BaseInv'
  <2>1. CASE send_mail(s, a)
    BY <1>6, <2>1, MailKeeps DEF send_domain_digest
  <2>2. CASE left' = [left EXCEPT ![s] = @ \ {a}] /\ UNCHANGED <<sent, orders, newest, excused>>
    <3>1. left' \in [Sender -> SUBSET Address] /\ left'[s] \subseteq left[s] /\ \A t \in Sender \ {s} : left'[t] = left[t]
      BY <2>2 DEF BaseInv, DigestTypeOK
    <3>2. UNCHANGED <<dpc, dweek, loaded, joined, week, enabled, entered, mark, entry, rowMark>>
      BY <1>6 DEF send_domain_digest, UNCHANGED_table
    <3>3. DigestTypeOK'
      BY <2>2, <3>1, <3>2 DEF BaseInv, DigestTypeOK
    <3>4. NotAhead' /\ Phases' /\ Told' /\ SomebodyGotIt'
      BY <2>2, <3>1, <3>2 DEF BaseInv, NotAhead, Phases, Told, SomebodyGotIt
    <3>5. QED
      BY <3>3, <3>4 DEF BaseInv
  <2>3. QED
    BY <1>6, <2>1, <2>2 DEF send_domain_digest
<1>7. ASSUME NEW s \in Sender, NEW a \in Further, GroupSent(s, a) PROVE BaseInv'
  <2>1. /\ sent' \in [Sender -> SUBSET Address] /\ sent'[s] = {} /\ \A t \in Sender \ {s} : sent'[t] = sent[t]
        /\ rowMark' \in [Entry -> 0 .. MaxWeek] /\ \A r \in Entry : rowMark'[r] <= week
    BY <1>7 DEF GroupSent, BaseInv, DigestTypeOK, NotAhead
  <2>2. UNCHANGED <<week, enabled, entered, mark, entry, dpc, dweek, left, loaded, orders, newest, excused, joined>>
    BY <1>7 DEF GroupSent
  <2>3. DigestTypeOK'
    BY <2>1, <2>2 DEF BaseInv, DigestTypeOK
  <2>4. NotAhead' /\ Phases' /\ Told' /\ SomebodyGotIt'
    BY <2>1, <2>2 DEF BaseInv, NotAhead, Phases, Told, SomebodyGotIt
  <2>5. QED
    BY <2>3, <2>4 DEF BaseInv
<1>8. ASSUME NEW s \in Sender, NEW a \in Further, RunBreaks(s, a) PROVE BaseInv'
  BY <1>8, LostKeeps DEF RunBreaks
<1>9. ASSUME NEW s \in Sender, RunEnds(s) PROVE BaseInv'
  <2>1. Idle(s) /\ sent[s] = {} /\ UNCHANGED <<dweek, sent, orders, newest, excused, joined, week, enabled, entered, mark, entry, rowMark>>
    BY <1>9 DEF RunEnds, UNCHANGED_table
  <2>2. DigestTypeOK'
    BY <2>1, IdleTypes DEF BaseInv, DigestTypeOK
  <2>3. NotAhead' /\ Phases' /\ Told' /\ SomebodyGotIt'
    BY <2>1, IdleTypes DEF BaseInv, NotAhead, Phases, Told, SomebodyGotIt
  <2>4. QED
    BY <2>2, <2>3 DEF BaseInv
<1>10. ASSUME NEW s \in Sender, SessionLost(s) PROVE BaseInv'
  BY <1>10, LostKeeps DEF SessionLost
<1>11. ASSUME NEW on \in BOOLEAN, NEW who \in SUBSET Listed, save_digest_settings(on, who) PROVE BaseInv'
  BY <1>11 DEF save_digest_settings, Order, BaseInv, DigestTypeOK, NotAhead, Phases, Told, SomebodyGotIt
<1>12. ASSUME NEW r \in Entry, add_recipient(r) PROVE BaseInv'
  BY <1>12 DEF add_recipient, Order, BaseInv, DigestTypeOK, NotAhead, Phases, Told, SomebodyGotIt
<1>13. ASSUME NEW r \in Entry, update_recipient(r) PROVE BaseInv'
  BY <1>13 DEF update_recipient, Order, BaseInv, DigestTypeOK, NotAhead, Phases, Told, SomebodyGotIt
<1>14. ASSUME NEW r \in Entry, domain_delete_recipient(r) PROVE BaseInv'
  BY <1>14 DEF domain_delete_recipient, Order, BaseInv, DigestTypeOK, NotAhead, Phases, Told, SomebodyGotIt
<1>15. CASE NextSlot
  BY <1>15 DEF NextSlot, BaseInv, DigestTypeOK, NotAhead, Phases, Told, SomebodyGotIt
<1>16. CASE UNCHANGED digestVars
  BY <1>16 DEF digestVars, BaseInv, DigestTypeOK, NotAhead, Phases, Told, SomebodyGotIt
<1>17. QED
  BY <1>1, <1>2, <1>3, <1>4, <1>5, <1>6, <1>7, <1>8, <1>9, <1>10, <1>11, <1>12, <1>13, <1>14, <1>15, <1>16
     DEF DigestNext, Sender

\* The variables have their types.
THEOREM DigestTypeCorrect == DigestSpec => []DigestTypeOK
<1>1. BaseInv => DigestTypeOK
  BY DEF BaseInv
<1>2. QED
  BY <1>1, BaseStart, BaseStep, PTL DEF DigestSpec

\* A slot passes as done only if somebody got its digest.
THEOREM MarkIsTrue == DigestSpec => []SomebodyGotIt
<1>1. BaseInv => SomebodyGotIt
  BY DEF BaseInv
<1>2. QED
  BY <1>1, BaseStart, BaseStep, PTL DEF DigestSpec

-----------------------------------------------------------------------------
(* The mails of the job *)

\* Who has a digest newer than the mark was excused, or got it from a session that is still sending
MarksFollow ==
    \A a \in Own : \/ newest[a] <= mark \/ a \in excused
                   \/ \E t \in Sender : dpc[t] = "org" /\ a \in sent[t] /\ newest[a] <= dweek[t]

\* A run that sends alone does so for a slot that is not marked yet
Alone ==
    \A s \in Job : dpc[s] = "org" /\ s \notin joined => mark < dweek[s] /\ \A t \in Sender \ {s} : dpc[t] # "org"

\* The same for rows, whose digests the job alone sends
RowsFollow ==
    \A r \in Entry : \/ newest[r] <= rowMark[r] \/ r \in excused
                     \/ \E t \in Job : dpc[t] = "groups" /\ r \in loaded[t] /\ Owner[r] \in sent[t]

\* No row has had a digest from after the run that is under way
RunsDate == \A s \in Job : dpc[s] # "idle" => \A r \in Entry : newest[r] <= dweek[s]

JobInv == BaseInv /\ MarksFollow /\ Alone /\ RowsFollow /\ RunsDate

\* One run of the job at a time, as Scheduler promises of jobs that keep to their time
OneRun == \A s, t \in Job : dpc[s] # "idle" /\ dpc[t] # "idle" => s = t

LEMMA JobStart == DigestInit => JobInv
<1> SUFFICES ASSUME DigestInit PROVE JobInv
  OBVIOUS
<1>1. BaseInv
  BY BaseStart
<1>2. MarksFollow /\ RowsFollow
  BY Disjoint DEF DigestInit, MarksFollow, RowsFollow
<1>3. Alone /\ RunsDate
  BY Disjoint DEF DigestInit, Alone, RunsDate, Sender
<1>4. QED
  BY <1>1, <1>2, <1>3 DEF JobInv

\* What a session does when it begins: for the job the digest is due
LEMMA BeginJob ==
    ASSUME JobInv, NEW s \in Sender, Begin(s), dpc[s] = "idle", UNCHANGED_table, UNCHANGED <<sent, loaded, newest, excused>>,
           s \in Job => mark < week
    PROVE  MarksFollow' /\ Alone' /\ RowsFollow' /\ RunsDate'
<1> USE DEF JobInv, BaseInv
<1>1. /\ dpc' = [dpc EXCEPT ![s] = "org"] /\ dweek' = [dweek EXCEPT ![s] = week]
      /\ dpc \in [Sender -> {"idle", "org", "groups"}] /\ dweek \in [Sender -> 0 .. MaxWeek] /\ week \in 0 .. MaxWeek
      /\ UNCHANGED <<mark, rowMark, sent, loaded, newest, excused>>
  BY DEF Begin, DigestTypeOK, UNCHANGED_table
<1>2. MarksFollow'
  BY <1>1 DEF MarksFollow
<1>3. Alone'
  <2> DEFINE others == {t \in Sender \ {s} : dpc[t] = "org"}
  <2>1. joined' = IF others = {} THEN joined \ {s} ELSE joined \cup {s} \cup others
    BY DEF Begin
  <2>2. ASSUME NEW u \in Job, dpc'[u] = "org", u \notin joined'
        PROVE  mark' < dweek'[u] /\ \A t \in Sender \ {u} : dpc'[t] # "org"
    <3>1. u \in Sender
      BY DEF Sender
    <3>2. CASE u = s
      BY <1>1, <2>1, <2>2, <3>2
    <3>3. CASE u # s
      BY <1>1, <2>1, <2>2, <3>1, <3>3
    <3>4. QED
      BY <3>2, <3>3
  <2>3. QED
    BY <2>2 DEF Alone
<1>4. RowsFollow'
  BY <1>1 DEF RowsFollow, Sender
<1>5. RunsDate'
  BY <1>1, Disjoint DEF RunsDate, NotAhead, DigestTypeOK, Sender
<1>6. QED
  BY <1>2, <1>3, <1>4, <1>5

LEMMA MailJob ==
    ASSUME OneRun, JobInv, NEW s \in Sender, NEW a \in left[s], send_mail(s, a), UNCHANGED_table,
           UNCHANGED <<dpc, dweek, loaded, joined>>, dpc[s] \in {"org", "groups"}
    PROVE  MarksFollow' /\ Alone' /\ RowsFollow' /\ RunsDate'
<1> USE DEF JobInv, BaseInv
<1>0. /\ newest \in [Marked -> 0 .. MaxWeek] /\ dweek \in [Sender -> 0 .. MaxWeek] /\ DigestTypeOK
      /\ UNCHANGED <<mark, rowMark, dpc, dweek, loaded, joined>>
  BY DEF DigestTypeOK, UNCHANGED_table
<1>1. CASE sent' = sent /\ newest' = newest /\ excused' = excused
  BY <1>0, <1>1 DEF MarksFollow, Alone, RowsFollow, RunsDate
<1>2. CASE /\ sent'[s] = sent[s] \cup {a} /\ \A t \in Sender \ {s} : sent'[t] = sent[t]
           /\ \A x \in Marked :
                 IF x \in Covers(s, a) /\ newest[x] <= dweek[s] THEN newest'[x] = dweek[s] ELSE newest'[x] = newest[x]
           /\ \A x \in Marked : x \in excused /\ x \notin excused' => x \in Covers(s, a) /\ newest'[x] = dweek[s]
  <2>1. /\ dpc[s] = "org" => a \in Own /\ Covers(s, a) = {a}
        /\ dpc[s] = "groups" => s \in Job /\ a \in Further /\ Covers(s, a) = Group(s, a) /\ Group(s, a) \subseteq Entry
    BY <1>0, Covered, Disjoint DEF Phases
  <2>2. ASSUME NEW b \in Own
        PROVE  \/ newest'[b] <= mark \/ b \in excused'
               \/ \E t \in Sender : dpc[t] = "org" /\ b \in sent'[t] /\ newest'[b] <= dweek[t]
    <3>1. b \in Marked
      BY Disjoint
    <3>2. CASE b \in Covers(s, a) /\ newest[b] <= dweek[s]
      <4>1. dpc[s] = "org" /\ b = a
        BY <2>1, <3>2, Disjoint
      <4>2. b \in sent'[s] /\ newest'[b] <= dweek[s]
        BY <1>0, <1>2, <3>1, <3>2, <4>1
      <4>3. QED
        BY <4>1, <4>2
    <3>3. CASE ~(b \in Covers(s, a) /\ newest[b] <= dweek[s])
      <4>1. newest'[b] = newest[b]
        BY <1>2, <3>1, <3>3
      <4>2. b \in excused => b \in excused'
        BY <1>0, <1>2, <3>1, <3>3, <4>1
      <4>3. ASSUME NEW t \in Sender, b \in sent[t] PROVE b \in sent'[t]
        BY <1>2, <4>3
      <4>4. QED
        BY <4>1, <4>2, <4>3 DEF MarksFollow
    <3>4. QED
      BY <3>2, <3>3
  <2>3. MarksFollow'
    BY <1>0, <2>2 DEF MarksFollow
  <2>4. ASSUME NEW r \in Entry
        PROVE  /\ \/ newest'[r] <= rowMark[r] \/ r \in excused'
                  \/ \E t \in Job : dpc[t] = "groups" /\ r \in loaded[t] /\ Owner[r] \in sent'[t]
               /\ \A t \in Job : dpc[t] # "idle" => newest'[r] <= dweek[t]
    <3>1. r \in Marked
      BY Disjoint
    <3>2. CASE r \in Covers(s, a) /\ newest[r] <= dweek[s]
      <4>1. s \in Job /\ dpc[s] = "groups" /\ r \in Group(s, a)
        BY <2>1, <3>2, Disjoint
      <4>2. r \in loaded[s] /\ Owner[r] \in sent'[s] /\ newest'[r] = dweek[s]
        BY <1>2, <3>1, <3>2, <4>1 DEF Group
      <4>3. \A t \in Job : dpc[t] # "idle" => newest'[r] <= dweek[t]
        BY <1>0, <4>1, <4>2 DEF OneRun
      <4>4. QED
        BY <4>1, <4>2, <4>3
    <3>3. CASE ~(r \in Covers(s, a) /\ newest[r] <= dweek[s])
      <4>1. newest'[r] = newest[r]
        BY <1>2, <3>1, <3>3
      <4>2. r \in excused => r \in excused'
        BY <1>0, <1>2, <3>1, <3>3, <4>1
      <4>3. ASSUME NEW t \in Job, Owner[r] \in sent[t] PROVE Owner[r] \in sent'[t]
        BY <1>2, <4>3 DEF Sender
      <4>4. QED
        BY <4>1, <4>2, <4>3 DEF RowsFollow, RunsDate
    <3>4. QED
      BY <3>2, <3>3
  <2>5. RowsFollow' /\ RunsDate'
    BY <1>0, <2>4 DEF RowsFollow, RunsDate
  <2>6. Alone'
    BY <1>0 DEF Alone
  <2>7. QED
    BY <2>3, <2>5, <2>6
<1>3. QED
  BY <1>0, <1>1, <1>2, MailDates

\* A session that ends, or goes on to the further recipients: who holds its mails is excused
LEMMA EndJob ==
    ASSUME JobInv, NEW s \in Sender, UNCHANGED <<mark, rowMark, dweek, newest, joined>>, excused \subseteq excused',
           dpc'[s] # "org", sent'[s] = {}, dpc'[s] = "idle" \/ dpc[s] # "idle",
           \A t \in Sender \ {s} : dpc'[t] = dpc[t] /\ sent'[t] = sent[t] /\ loaded'[t] = loaded[t],
           \A a \in sent[s] : Covers(s, a) \subseteq excused'
    PROVE  MarksFollow' /\ Alone' /\ RowsFollow' /\ RunsDate'
<1> USE DEF JobInv, BaseInv
<1>1. ASSUME NEW a \in Own
      PROVE  \/ newest[a] <= mark \/ a \in excused'
             \/ \E t \in Sender : dpc'[t] = "org" /\ a \in sent'[t] /\ newest[a] <= dweek[t]
  <2>1. ASSUME NEW t \in Sender, dpc[t] = "org", a \in sent[t], newest[a] <= dweek[t]
        PROVE  a \in excused' \/ (dpc'[t] = "org" /\ a \in sent'[t])
    <3>1. CASE t = s
      BY <2>1, <3>1, Covered, Disjoint
    <3>2. CASE t # s
      BY <2>1, <3>2
    <3>3. QED
      BY <3>1, <3>2
  <2>2. QED
    BY <2>1 DEF MarksFollow
<1>2. ASSUME NEW r \in Entry
      PROVE  \/ newest[r] <= rowMark[r] \/ r \in excused'
             \/ \E t \in Job : dpc'[t] = "groups" /\ r \in loaded'[t] /\ Owner[r] \in sent'[t]
  <2>1. ASSUME NEW t \in Job, dpc[t] = "groups", r \in loaded[t], Owner[r] \in sent[t]
        PROVE  r \in excused' \/ (dpc'[t] = "groups" /\ r \in loaded'[t] /\ Owner[r] \in sent'[t])
    <3>1. CASE t = s
      <4>1. r \in Group(s, Owner[r]) /\ Owner[r] \in Further
        BY <2>1, <3>1 DEF Group, Further
      <4>2. QED
        BY <2>1, <3>1, <4>1 DEF Covers
    <3>2. CASE t # s
      BY <2>1, <3>2 DEF Sender
    <3>3. QED
      BY <3>1, <3>2
  <2>2. QED
    BY <2>1 DEF RowsFollow
<1>3. MarksFollow' /\ RowsFollow'
  BY <1>1, <1>2 DEF MarksFollow, RowsFollow
<1>4. RunsDate'
  BY DEF RunsDate, Sender
<1>5. Alone'
  BY DEF Alone, Sender
<1>6. QED
  BY <1>3, <1>4, <1>5

LEMMA LostJob == ASSUME JobInv, NEW s \in Sender, Lost(s) PROVE MarksFollow' /\ Alone' /\ RowsFollow' /\ RunsDate'
<1>1. /\ DigestTypeOK /\ Idle(s) /\ UNCHANGED <<mark, rowMark, dweek, newest, joined>>
      /\ sent' = [sent EXCEPT ![s] = {}] /\ excused' = excused \cup UNION {Covers(s, a) : a \in sent[s]}
  BY DEF JobInv, BaseInv, Lost, UNCHANGED_table
<1>2. dpc'[s] = "idle" /\ \A t \in Sender \ {s} : dpc'[t] = dpc[t] /\ loaded'[t] = loaded[t]
  BY <1>1, IdleTypes
<1>3. sent'[s] = {} /\ \A t \in Sender \ {s} : sent'[t] = sent[t]
  BY <1>1 DEF DigestTypeOK
<1>4. excused \subseteq excused' /\ \A a \in sent[s] : Covers(s, a) \subseteq excused'
  BY <1>1
<1>5. QED
  BY <1>1, <1>2, <1>3, <1>4, EndJob

\* The mark of a session that sent the digest of the organisation
LEMMA SentJob == ASSUME JobInv, NEW s \in Sender, DigestSent(s) PROVE MarksFollow' /\ Alone' /\ RowsFollow' /\ RunsDate'
<1> USE DEF JobInv, BaseInv
<1>1. /\ DigestTypeOK /\ dpc[s] = "org" /\ UNCHANGED <<rowMark, dweek, newest, joined>> /\ mark' = dweek[s]
      /\ excused' = IF dweek[s] < mark THEN excused \cup Listed \cup Admin ELSE excused
      /\ GoOn(s) /\ sent' = [sent EXCEPT ![s] = {}]
  BY DEF DigestSent, Mark, GoOn
<1>2. dpc'[s] # "org" /\ \A t \in Sender \ {s} : dpc'[t] = dpc[t] /\ loaded'[t] = loaded[t]
  BY <1>1, LoadTypes, IdleTypes DEF GoOn
<1>3. sent'[s] = {} /\ \A t \in Sender \ {s} : sent'[t] = sent[t]
  BY <1>1 DEF DigestTypeOK
<1>4. excused \subseteq excused' /\ (dweek[s] < mark => Own \subseteq excused')
  BY <1>1 DEF Own
<1>5. ASSUME NEW a \in Own
      PROVE  \/ newest[a] <= mark' \/ a \in excused'
             \/ \E t \in Sender : dpc'[t] = "org" /\ a \in sent'[t] /\ newest[a] <= dweek[t]
  <2>1. CASE newest[a] <= mark
    <3>1. newest[a] \in Int /\ mark \in Int /\ dweek[s] \in Int
      BY <1>1, Disjoint DEF DigestTypeOK
    <3>2. QED
      BY <1>1, <1>4, <2>1, <3>1
  <2>2. ASSUME NEW t \in Sender, dpc[t] = "org", a \in sent[t], newest[a] <= dweek[t]
        PROVE  newest[a] <= mark' \/ (dpc'[t] = "org" /\ a \in sent'[t])
    <3>1. CASE t = s
      BY <1>1, <2>2, <3>1
    <3>2. CASE t # s
      BY <1>2, <1>3, <2>2, <3>2
    <3>3. QED
      BY <3>1, <3>2
  <2>3. QED
    BY <1>4, <2>1, <2>2 DEF MarksFollow
<1>6. MarksFollow'
  BY <1>1, <1>5 DEF MarksFollow
<1>7. RowsFollow'
  BY <1>1, <1>2, <1>3, <1>4 DEF RowsFollow, Sender
<1>8. RunsDate'
  BY <1>1, <1>2 DEF RunsDate, Sender
<1>9. Alone'
  BY <1>1, <1>2 DEF Alone, Sender
<1>10. QED
  BY <1>6, <1>7, <1>8, <1>9

LEMMA GroupJob ==
    ASSUME OneRun, JobInv, NEW s \in Sender, NEW a \in Further, GroupSent(s, a)
    PROVE  MarksFollow' /\ Alone' /\ RowsFollow' /\ RunsDate'
<1> USE DEF JobInv, BaseInv
<1>1. /\ DigestTypeOK /\ dpc[s] = "groups" /\ s \in Job /\ sent[s] = {a}
      /\ rowMark' = [r \in Entry |-> IF r \in Group(s, a) THEN dweek[s] ELSE rowMark[r]]
      /\ UNCHANGED <<mark, dpc, dweek, loaded, newest, excused, joined>>
      /\ sent'[s] = {} /\ \A t \in Sender \ {s} : sent'[t] = sent[t]
  BY DEF GroupSent, Phases, DigestTypeOK
<1>2. MarksFollow' /\ Alone' /\ RunsDate'
  BY <1>1 DEF MarksFollow, Alone, RunsDate
<1>3. ASSUME NEW r \in Entry PROVE newest[r] <= rowMark'[r] \/ r \in excused
  <2>1. CASE r \in Group(s, a)
    BY <1>1, <2>1 DEF RunsDate
  <2>2. CASE r \notin Group(s, a)
    <3>1. rowMark'[r] = rowMark[r]
      BY <1>1, <2>2
    <3>2. ~ \E t \in Job : dpc[t] = "groups" /\ r \in loaded[t] /\ Owner[r] \in sent[t]
      BY <1>1, <2>2 DEF OneRun, Group
    <3>3. QED
      BY <3>1, <3>2 DEF RowsFollow
  <2>3. QED
    BY <2>1, <2>2
<1>4. RowsFollow'
  BY <1>1, <1>3 DEF RowsFollow
<1>5. QED
  BY <1>2, <1>4

LEMMA JobStep == ASSUME OneRun, JobInv, [DigestNext]_digestVars PROVE JobInv'
<1> USE DEF JobInv
<1> DEFINE Goal == MarksFollow' /\ Alone' /\ RowsFollow' /\ RunsDate'
<1>1. BaseInv' /\ DigestTypeOK
  BY BaseStep DEF BaseInv
<1>2. ASSUME NEW s \in Sender, s \in Job, send_due_digests(s) PROVE Goal
  <2>1. CASE digest_due /\ Begin(s) /\ UNCHANGED loaded
    BY <1>2, <2>1, BeginJob DEF send_due_digests, digest_due
  <2>2. CASE Load(s) /\ dweek' = [dweek EXCEPT ![s] = week] /\ UNCHANGED joined
    <3>1. /\ dpc[s] = "idle" /\ UNCHANGED <<sent, newest, excused, mark, rowMark, joined>>
          /\ dweek'[s] = week /\ \A t \in Sender \ {s} : dweek'[t] = dweek[t]
      BY <1>1, <1>2, <2>2 DEF send_due_digests, UNCHANGED_table, DigestTypeOK
    <3>2. dpc'[s] = "groups" /\ \A t \in Sender \ {s} : dpc'[t] = dpc[t] /\ loaded'[t] = loaded[t]
      BY <1>1, <2>2, LoadTypes
    <3>3. MarksFollow' /\ RowsFollow'
      BY <3>1, <3>2 DEF MarksFollow, RowsFollow, Sender
    <3>4. Alone'
      BY <3>1, <3>2 DEF Alone, Sender
    <3>5. RunsDate'
      BY <3>1, <3>2, Disjoint DEF RunsDate, BaseInv, NotAhead, Sender
    <3>6. QED
      BY <3>3, <3>4, <3>5
  <2>3. QED
    BY <1>2, <2>1, <2>2 DEF send_due_digests
<1>3. ASSUME NEW s \in Sender, s \in Page, send_digest_now(s) PROVE Goal
  BY <1>3, BeginJob, Disjoint DEF send_digest_now
<1>4. ASSUME NEW s \in Sender, send_digest(s) PROVE Goal
  BY <1>4, MailJob DEF send_digest
<1>5. ASSUME NEW s \in Sender, DigestSent(s) PROVE Goal
  BY <1>5, SentJob
<1>6. ASSUME NEW s \in Sender, DigestFailed(s) PROVE Goal
  <2>1. /\ UNCHANGED <<mark, rowMark, dweek, newest, joined>> /\ excused \subseteq excused' /\ sent[s] = {}
        /\ GoOn(s) /\ sent' = [sent EXCEPT ![s] = {}] /\ dpc[s] = "org"
    BY <1>6 DEF DigestFailed, GoOn, UNCHANGED_table
  <2>2. dpc'[s] # "org" /\ \A t \in Sender \ {s} : dpc'[t] = dpc[t] /\ loaded'[t] = loaded[t]
    BY <1>1, <2>1, LoadTypes, IdleTypes DEF GoOn
  <2>3. sent'[s] = {} /\ \A t \in Sender \ {s} : sent'[t] = sent[t]
    BY <1>1, <2>1 DEF DigestTypeOK
  <2>4. QED
    BY <2>1, <2>2, <2>3, EndJob
<1>7. ASSUME NEW s \in Sender, NEW a \in Further, send_domain_digest(s, a) PROVE Goal
  <2>1. CASE send_mail(s, a)
    BY <1>7, <2>1, MailJob DEF send_domain_digest
  <2>2. CASE UNCHANGED <<sent, orders, newest, excused>>
    BY <1>7, <2>2 DEF send_domain_digest, UNCHANGED_table, MarksFollow, Alone, RowsFollow, RunsDate
  <2>3. QED
    BY <1>7, <2>1, <2>2 DEF send_domain_digest
<1>8. ASSUME NEW s \in Sender, NEW a \in Further, GroupSent(s, a) PROVE Goal
  BY <1>8, GroupJob
<1>9. ASSUME NEW s \in Sender, NEW a \in Further, RunBreaks(s, a) PROVE Goal
  BY <1>9, LostJob DEF RunBreaks
<1>10. ASSUME NEW s \in Sender, RunEnds(s) PROVE Goal
  <2>1. /\ UNCHANGED <<mark, rowMark, dweek, newest, joined>> /\ excused \subseteq excused'
        /\ sent[s] = {} /\ sent' = sent /\ Idle(s)
    BY <1>10 DEF RunEnds, UNCHANGED_table
  <2>2. dpc'[s] = "idle" /\ \A t \in Sender \ {s} : dpc'[t] = dpc[t] /\ loaded'[t] = loaded[t]
    BY <1>1, <2>1, IdleTypes
  <2>3. QED
    BY <2>1, <2>2, EndJob
<1>11. ASSUME NEW s \in Sender, SessionLost(s) PROVE Goal
  BY <1>11, LostJob DEF SessionLost
<1>12. ASSUME NEW on \in BOOLEAN, NEW who \in SUBSET Listed, save_digest_settings(on, who) PROVE Goal
  BY <1>12 DEF save_digest_settings, Order, MarksFollow, Alone, RowsFollow, RunsDate
<1>13. ASSUME NEW r \in Entry, add_recipient(r) PROVE Goal
  <2>1. /\ UNCHANGED <<mark, dpc, dweek, sent, loaded, newest, joined, excused>>
        /\ rowMark' = [rowMark EXCEPT ![r] = week]
    BY <1>13 DEF add_recipient, Order
  <2>2. MarksFollow' /\ Alone' /\ RunsDate'
    BY <2>1 DEF MarksFollow, Alone, RunsDate
  <2>3. \A q \in Entry : rowMark'[q] = IF q = r THEN week ELSE rowMark[q]
    BY <1>1, <2>1 DEF DigestTypeOK
  <2>4. newest[r] <= week
    BY Disjoint DEF BaseInv, NotAhead
  <2>5. RowsFollow'
    BY <2>1, <2>3, <2>4 DEF RowsFollow
  <2>6. QED
    BY <2>2, <2>5
<1>14. ASSUME NEW r \in Entry, update_recipient(r) PROVE Goal
  BY <1>14 DEF update_recipient, Order, MarksFollow, Alone, RowsFollow, RunsDate
<1>15. ASSUME NEW r \in Entry, domain_delete_recipient(r) PROVE Goal
  BY <1>15 DEF domain_delete_recipient, Order, MarksFollow, Alone, RowsFollow, RunsDate
<1>16. ASSUME NextSlot PROVE Goal
  BY <1>16 DEF NextSlot, MarksFollow, Alone, RowsFollow, RunsDate
<1>17. ASSUME UNCHANGED digestVars PROVE Goal
  BY <1>17 DEF digestVars, MarksFollow, Alone, RowsFollow, RunsDate
<1>18. Goal
  BY <1>2, <1>3, <1>4, <1>5, <1>6, <1>7, <1>8, <1>9, <1>10, <1>11, <1>12, <1>13, <1>14, <1>15, <1>16, <1>17
     DEF DigestNext, Sender
<1>19. QED
  BY <1>1, <1>18

\* What a mail of the job says
LEMMA MailsSayNew ==
    ASSUME OneRun, JobInv, DigestNext, NEW s \in Job, NEW a \in Address, a \in sent'[s] \ sent[s]
    PROVE  (\E x \in Covers(s, a) : newest[x] < dweek[s] \/ x \in excused) \/ (s \in joined /\ dpc[s] = "org")
<1> USE DEF JobInv, BaseInv
<1>1. DigestTypeOK /\ s \in Sender
  BY DEF Sender
<1>2. \/ send_digest(s) /\ a \in left[s]
      \/ dpc[s] = "groups" /\ a \in left[s] /\ sent[s] = {} /\ domain_digest_due(s, a)
  <2>1. ASSUME NEW t \in Sender, sent' = [sent EXCEPT ![t] = {}] PROVE FALSE
    BY <1>1, <2>1 DEF DigestTypeOK
  <2>2. ASSUME NEW t \in Sender, NEW b \in left[t], send_mail(t, b) PROVE t = s /\ b = a
    BY <1>1, <2>2, MailDates
  <2>3. ~UNCHANGED sent
    OBVIOUS
  <2>4. ASSUME NEW t \in Sender PROVE ~DigestSent(t) /\ ~DigestFailed(t) /\ ~SessionLost(t) /\ ~RunEnds(t)
    BY <2>1, <2>3 DEF DigestSent, DigestFailed, SessionLost, RunEnds, Lost, GoOn
  <2>5. ASSUME NEW t \in Sender, NEW b \in Further PROVE ~GroupSent(t, b) /\ ~RunBreaks(t, b)
    BY <2>1 DEF GroupSent, RunBreaks, Lost
  <2>6. ASSUME NEW t \in Sender PROVE ~send_due_digests(t) /\ ~send_digest_now(t)
    BY <2>3 DEF send_due_digests, send_digest_now
  <2>7. /\ \A on \in BOOLEAN, who \in SUBSET Listed : ~save_digest_settings(on, who)
        /\ \A r \in Entry : ~add_recipient(r) /\ ~update_recipient(r) /\ ~domain_delete_recipient(r)
        /\ ~NextSlot
    BY <2>3 DEF save_digest_settings, add_recipient, update_recipient, domain_delete_recipient, Order, NextSlot
  <2>8. ASSUME NEW t \in Sender, send_digest(t) PROVE t = s /\ a \in left[s]
    BY <2>2, <2>8 DEF send_digest
  <2>9. ASSUME NEW t \in Sender, NEW b \in Further, send_domain_digest(t, b)
        PROVE  dpc[s] = "groups" /\ a \in left[s] /\ sent[s] = {} /\ domain_digest_due(s, a)
    BY <2>2, <2>3, <2>9 DEF send_domain_digest
  <2>10. QED
    BY <2>4, <2>5, <2>6, <2>7, <2>8, <2>9 DEF DigestNext, Sender
<1>3. CASE send_digest(s) /\ a \in left[s] /\ s \notin joined
  <2>1. dpc[s] = "org" /\ a \in Own /\ Covers(s, a) = {a}
    BY <1>1, <1>3, Covered DEF send_digest, Phases
  <2>2. mark < dweek[s] /\ \A t \in Sender \ {s} : dpc[t] # "org"
    BY <1>3, <2>1 DEF Alone
  <2>3. newest[a] <= mark \/ a \in excused
    BY <1>1, <2>1, <2>2 DEF MarksFollow
  <2>4. newest[a] \in Int /\ mark \in Int /\ dweek[s] \in Int
    BY <1>1, <2>1, Disjoint DEF DigestTypeOK
  <2>5. QED
    BY <2>1, <2>2, <2>3, <2>4
<1>4. CASE dpc[s] = "groups" /\ a \in left[s] /\ sent[s] = {} /\ domain_digest_due(s, a)
  <2>1. a \in Further /\ Covers(s, a) = Group(s, a) /\ Group(s, a) \subseteq Entry
    BY <1>1, <1>4, Covered DEF Phases
  <2>2. PICK r \in Group(s, a) : rowMark[r] < dweek[s]
    BY <1>4 DEF domain_digest_due
  <2>3. r \in Entry /\ newest[r] \in Int /\ rowMark[r] \in Int /\ dweek[s] \in Int
    BY <1>1, <2>1, <2>2, Disjoint DEF DigestTypeOK
  <2>4. newest[r] <= rowMark[r] \/ r \in excused
    BY <1>4, <2>3 DEF RowsFollow, OneRun
  <2>5. newest[r] < dweek[s] \/ r \in excused
    BY <2>2, <2>3, <2>4
  <2>6. QED
    BY <2>1, <2>2, <2>5
<1>5. QED
  BY <1>2, <1>3, <1>4 DEF send_digest

(* A mail of the job tells its reader something new, or there is an excuse, for any number of processes that run the job as
   long as no two runs are under way at once. *)
THEOREM JobMailsNews == DigestSpec /\ []OneRun => OneMailASlot
<1> DEFINE News == \A s \in Job, a \in Address :
                      Mails(s, a) => \/ \E x \in Covers(s, a) : newest[x] < dweek[s] \/ x \in excused
                                     \/ s \in joined /\ dpc[s] = "org"
<1>1. OneRun /\ JobInv /\ [DigestNext]_digestVars => JobInv'
  BY JobStep
<1>2. OneRun /\ JobInv /\ [DigestNext]_digestVars => [News]_digestVars
  BY MailsSayNew DEF Mails
<1>3. QED
  BY <1>1, <1>2, JobStart, PTL DEF DigestSpec, OneMailASlot

\* Who has the turn of the digest, as the scheduler promises it (Scheduler implements OneTurn)
VARIABLE runner
DigestTurn == "digest"
Turns == INSTANCE OneTurn WITH Process <- Job, Job <- {DigestTurn}

\* run_job: the job is at work only in a process that has the turn
RunsInTurn == \A s \in Job : dpc[s] # "idle" => s \in runner[DigestTurn]

(* Whatever scheduler gives the turn of the digest to one process at a time makes its mails say something new: with
   SchedulerImplementsOneTurn this is what run_job and send_due_digests promise together. *)
THEOREM MailsOfTurnsNews == Turns!Spec /\ DigestSpec /\ []RunsInTurn => OneMailASlot
<1> DEFINE OneRunner == /\ DOMAIN runner = {DigestTurn}
                        /\ \A s, t \in runner[DigestTurn] : s = t
<1>1. Turns!Init => OneRunner
  BY DEF Turns!Init
<1>2. OneRunner /\ [Turns!Next]_runner => OneRunner'
  BY DEF Turns!Next, Turns!Take, Turns!Leave
<1>3. Turns!Spec => []OneRunner
  BY <1>1, <1>2, PTL DEF Turns!Spec
<1>4. OneRunner /\ RunsInTurn => OneRun
  BY DEF RunsInTurn, OneRun
<1>5. QED
  BY <1>3, <1>4, JobMailsNews, PTL

-----------------------------------------------------------------------------
(* Retention *)

\* What a transaction is about to take away is there, and a row that names a file has been received
WorkReal ==
    /\ \A i \in unnamed : stored[i] = "kept"
    /\ \A i \in named : stored[i] # "none"

\* A row without its file has the content of one that has been overdue
MissingFilesExplained ==
    \A i \in named : stored[i] \in {"open", "kept"} /\ Path[i] \notin disk =>
        \E k \in Filed : Path[k] = Path[i] /\ Overdue(k)

\* Without mishaps every file has a row that no transaction is about to take from it
FilesHaveRows ==
    mishaps = 0 =>
        \A f \in disk : \E i \in named \ (doomed \cup unnamed) : Path[i] = f /\ stored[i] \in {"open", "kept"}

RetentionInv == RetentionTypeOK /\ WorkReal /\ MissingFilesExplained /\ FilesHaveRows

LEMMA RetentionStart == RetentionInit => RetentionInv
<1> SUFFICES ASSUME RetentionInit PROVE RetentionInv
  OBVIOUS
<1> USE DEF RetentionInit
<1>1. RetentionTypeOK
  BY RetentionNumbers DEF RetentionTypeOK
<1>2. WorkReal /\ MissingFilesExplained /\ FilesHaveRows
  BY DEF WorkReal, MissingFilesExplained, FilesHaveRows
<1> QED
  BY <1>1, <1>2 DEF RetentionInv

(* What is overdue stays so. *)
LEMMA OverdueStays ==
    ASSUME RetentionTypeOK, RetentionTypeOK', NEW k \in Filed, Overdue(k), since' = since \/ Day
    PROVE  Overdue(k)'
<1>1. k \in Item
  BY DEF Item
<1>2. since[k] \in Int /\ since'[k] \in Int /\ since[k] <= since'[k] /\ RawDays \in Int /\ Keep[k] \in Int
  BY <1>1, RetentionNumbers DEF RetentionTypeOK, Day
<1> QED
  BY <1>2 DEF Overdue, Expired

(* Files that come, and statuses that change without a row coming back, explain themselves. *)
LEMMA ExplainedStays ==
    ASSUME RetentionInv, RetentionTypeOK', since' = since \/ Day, named' \subseteq named, disk \subseteq disk',
           \A i \in named' : stored'[i] \in {"open", "kept"} => stored[i] \in {"open", "kept"}
    PROVE  MissingFilesExplained'
<1> SUFFICES ASSUME NEW i \in named', stored'[i] \in {"open", "kept"}, Path[i] \notin disk'
             PROVE  \E k \in Filed : Path[k] = Path[i] /\ Overdue(k)'
  BY DEF MissingFilesExplained
<1>1. PICK k \in Filed : Path[k] = Path[i] /\ Overdue(k)
  BY DEF RetentionInv, MissingFilesExplained
<1> QED
  BY <1>1, OverdueStays DEF RetentionInv

(* Files that go are those of rows that are overdue. *)
LEMMA ExplainedAfterRemoval ==
    ASSUME RetentionInv, RetentionTypeOK', UNCHANGED <<since, named, stored>>, NEW B \in SUBSET Filed,
           \A k \in B : Overdue(k), disk \ {Path[i] : i \in B} \subseteq disk'
    PROVE  MissingFilesExplained'
<1> SUFFICES ASSUME NEW i \in named, stored[i] \in {"open", "kept"}, Path[i] \notin disk'
             PROVE  \E k \in Filed : Path[k] = Path[i] /\ Overdue(k)
  BY DEF MissingFilesExplained, Overdue, Expired
<1>1. CASE Path[i] \notin disk
  BY <1>1 DEF RetentionInv, MissingFilesExplained
<1>2. CASE Path[i] \in disk
  <2>1. PICK k \in B : Path[k] = Path[i]
    BY <1>2
  <2> QED
    BY <2>1
<1> QED
  BY <1>1, <1>2

(* Rows that have their files, or lose them with them, keep the account. *)
LEMMA RowsStay ==
    ASSUME RetentionInv, RetentionTypeOK', mishaps \in Nat,
           mishaps' = 0 => mishaps = 0 /\ disk' \subseteq disk /\
              \A i \in named : Path[i] \in disk' /\ i \notin doomed \cup unnamed /\ stored[i] \in {"open", "kept"} =>
                  i \in named' /\ i \notin doomed' \cup unnamed' /\ stored'[i] \in {"open", "kept"}
    PROVE  FilesHaveRows'
<1> SUFFICES ASSUME mishaps' = 0, NEW f \in disk'
             PROVE  \E i \in named' \ (doomed' \cup unnamed') : Path[i] = f /\ stored'[i] \in {"open", "kept"}
  BY DEF FilesHaveRows
<1>1. PICK i \in named \ (doomed \cup unnamed) : Path[i] = f /\ stored[i] \in {"open", "kept"}
  BY DEF RetentionInv, FilesHaveRows
<1> QED
  BY <1>1

LEMMA MishapCounts == ASSUME RetentionTypeOK, Mishap PROVE mishaps' # 0 /\ mishaps' \in 0 .. MaxMishaps
BY RetentionNumbers DEF RetentionTypeOK, Mishap

LEMMA PurgeKeeps ==
    ASSUME RetentionInv, NEW B \in SUBSET Visible, Purge(B), RetentionTypeOK'
    PROVE  WorkReal'
BY DEF RetentionInv, WorkReal, Purge

LEMMA RetentionStepInv == RetentionInv /\ [RetentionNext]_retentionVars => RetentionInv'
<1> SUFFICES ASSUME RetentionInv, [RetentionNext]_retentionVars PROVE RetentionInv'
  OBVIOUS
<1>0. RetentionTypeOK /\ WorkReal /\ mishaps \in Nat /\ Filed \subseteq Item /\ stored \in [Item -> {"none", "open", "kept", "gone"}]
  BY RetentionNumbers DEF RetentionInv, RetentionTypeOK, Item
<1>1. CASE UNCHANGED retentionVars
  BY <1>1 DEF retentionVars, RetentionInv, RetentionTypeOK, WorkReal, MissingFilesExplained, FilesHaveRows, Overdue, Expired
<1>2. ASSUME NEW i \in Filed, Receive(i) PROVE RetentionInv'
  <2>1. RetentionTypeOK'
    <3>1. Path[i] \in {Path[k] : k \in Filed}
      OBVIOUS
    <3> QED
      BY <1>0, <1>2, <3>1 DEF Receive, RetentionTypeOK
  <2>2. /\ stored[i] = "none" /\ i \notin named /\ i \notin doomed \cup unnamed
        /\ stored'[i] = "open" /\ \A k \in Item \ {i} : stored'[k] = stored[k]
    BY <1>0, <1>2 DEF Receive, WorkReal, RetentionTypeOK
  <2>3. WorkReal'
    BY <1>0, <1>2, <2>2 DEF Receive, WorkReal, RetentionTypeOK
  <2>4. MissingFilesExplained'
    <3>1. CASE named' = named /\ disk' = disk
      BY <1>0, <1>2, <2>1, <2>2, <3>1, ExplainedStays DEF Receive, RetentionTypeOK
    <3>2. CASE named' = named \cup {i} /\ disk' = disk \cup {Path[i]}
      <4> SUFFICES ASSUME NEW j \in named', stored'[j] \in {"open", "kept"}, Path[j] \notin disk'
                   PROVE  \E k \in Filed : Path[k] = Path[j] /\ Overdue(k)'
        BY DEF MissingFilesExplained
      <4>1. j \in named /\ j # i /\ j \in Item /\ Path[j] \notin disk
        BY <1>0, <3>2, <2>2 DEF RetentionTypeOK
      <4>2. stored[j] \in {"open", "kept"}
        BY <2>2, <4>1
      <4>3. PICK k \in Filed : Path[k] = Path[j] /\ Overdue(k)
        BY <4>1, <4>2 DEF RetentionInv, MissingFilesExplained
      <4> QED
        BY <1>0, <1>2, <2>1, <4>3, OverdueStays DEF Receive
    <3> QED
      BY <1>2, <3>1, <3>2 DEF Receive
  <2>5. FilesHaveRows'
    <3> SUFFICES ASSUME mishaps' = 0, NEW f \in disk'
                 PROVE  \E k \in named' \ (doomed' \cup unnamed') : Path[k] = f /\ stored'[k] \in {"open", "kept"}
      BY DEF FilesHaveRows
    <3>1. UNCHANGED <<mishaps, doomed, unnamed>> /\ named \subseteq named' /\ named \subseteq Item
      BY <1>0, <1>2 DEF Receive, RetentionTypeOK
    <3>2. CASE f \in disk
      <4>1. PICK k \in named \ (doomed \cup unnamed) : Path[k] = f /\ stored[k] \in {"open", "kept"}
        BY <3>1, <3>2 DEF RetentionInv, FilesHaveRows
      <4> QED
        BY <2>2, <3>1, <4>1
    <3>3. CASE f \notin disk
      <4>1. i \in named' /\ Path[i] = f
        BY <1>2, <3>3 DEF Receive
      <4> QED
        BY <2>2, <3>1, <4>1
    <3> QED
      BY <3>2, <3>3
  <2> QED
    BY <2>1, <2>3, <2>4, <2>5 DEF RetentionInv
<1>3. ASSUME NEW i \in Filed, process_import_job(i) PROVE RetentionInv'
  <2>1. /\ UNCHANGED <<since, named, disk, step, doomed, unnamed, mishaps>>
        /\ stored' \in [Item -> {"none", "open", "kept", "gone"}] /\ stored[i] = "open"
        /\ \A k \in Item : stored'[k] = stored[k] \/ stored'[k] = "kept"
        /\ \A k \in Filed \ {i} : stored'[k] = stored[k]
    BY <1>0, <1>3, RetentionNumbers DEF process_import_job
  <2>2. RetentionTypeOK'
    BY <1>0, <2>1 DEF RetentionTypeOK
  <2>3. WorkReal'
    BY <1>0, <2>1 DEF WorkReal, RetentionTypeOK
  <2>4. named \subseteq Filed
    BY <1>0 DEF RetentionTypeOK
  <2>5. MissingFilesExplained'
    BY <2>1, <2>2, <2>4, ExplainedStays
  <2>6. FilesHaveRows'
    BY <1>0, <2>1, <2>2, <2>4, RowsStay
  <2> QED
    BY <2>2, <2>3, <2>5, <2>6 DEF RetentionInv
<1>4. ASSUME NEW i \in Filed, Lose(i) PROVE RetentionInv'
  <2>1. mishaps' # 0 /\ mishaps' \in 0 .. MaxMishaps
    BY <1>0, <1>4, MishapCounts DEF Lose
  <2>2. RetentionTypeOK'
    BY <1>0, <1>4, <2>1 DEF Lose, RetentionTypeOK
  <2>3. WorkReal'
    BY <1>0, <1>4 DEF Lose, WorkReal, RetentionTypeOK
  <2>4. MissingFilesExplained'
    BY <1>0, <1>4, <2>2, ExplainedStays DEF Lose, RetentionTypeOK
  <2>5. FilesHaveRows'
    BY <2>1 DEF FilesHaveRows
  <2> QED
    BY <2>2, <2>3, <2>4, <2>5 DEF RetentionInv
<1>5. ASSUME NEW i \in Loose \cup Log, Note(i) PROVE RetentionInv'
  <2>1. /\ UNCHANGED <<since, named, disk, step, doomed, unnamed, mishaps>>
        /\ stored' \in [Item -> {"none", "open", "kept", "gone"}] /\ stored[i] = "none"
        /\ \A k \in Item : stored'[k] = stored[k] \/ stored'[k] = "kept"
        /\ \A k \in Filed : stored'[k] = stored[k]
    BY <1>0, <1>5, RetentionNumbers DEF Note, Item
  <2>2. RetentionTypeOK'
    BY <1>0, <2>1 DEF RetentionTypeOK
  <2>3. WorkReal'
    BY <1>0, <2>1 DEF WorkReal, RetentionTypeOK
  <2>4. named \subseteq Filed
    BY <1>0 DEF RetentionTypeOK
  <2>5. MissingFilesExplained'
    BY <2>1, <2>2, <2>4, ExplainedStays
  <2>6. FilesHaveRows'
    BY <1>0, <2>1, <2>2, <2>4, RowsStay
  <2> QED
    BY <2>2, <2>3, <2>5, <2>6 DEF RetentionInv
<1>6. CASE Day
  <2>1. UNCHANGED <<stored, named, disk, step, doomed, unnamed, mishaps>>
    BY <1>6 DEF Day
  <2>2. since' \in [Item -> 0 .. Eldest]
    BY <1>0, <1>6, RetentionNumbers DEF Day, RetentionTypeOK
  <2>3. RetentionTypeOK' /\ WorkReal'
    BY <1>0, <2>1, <2>2 DEF RetentionTypeOK, WorkReal
  <2>4. MissingFilesExplained'
    BY <1>6, <2>1, <2>3, ExplainedStays
  <2>5. FilesHaveRows'
    BY <1>0, <2>1, <2>3, RowsStay
  <2> QED
    BY <2>3, <2>4, <2>5 DEF RetentionInv
<1>7. CASE run_retention
  <2>1. UNCHANGED <<stored, since, named, disk, doomed, unnamed, mishaps>> /\ step' = "reports"
    BY <1>7 DEF run_retention, At
  <2>2. RetentionTypeOK' /\ WorkReal'
    BY <1>0, <2>1 DEF RetentionTypeOK, WorkReal
  <2>3. MissingFilesExplained'
    BY <2>1, <2>2, ExplainedStays
  <2>4. FilesHaveRows'
    BY <1>0, <2>1, <2>2, RowsStay
  <2> QED
    BY <2>2, <2>3, <2>4 DEF RetentionInv
<1>8. CASE _purge_reports \/ _purge_loose \/ _purge_log
  <2>1. PICK B \in SUBSET Visible : Purge(B) /\ B \cap Filed = {}
    <3>1. ASSUME NEW C, NEW B \in OldestFirst(C) PROVE B \subseteq C
      BY DEF OldestFirst, Batches
    <3>2. CASE _purge_reports
      BY <3>1, <3>2, RetentionNumbers DEF _purge_reports
    <3>3. CASE _purge_loose
      BY <3>1, <3>3, RetentionNumbers DEF _purge_loose
    <3>4. CASE _purge_log
      BY <3>4, RetentionNumbers DEF _purge_log
    <3> QED
      BY <1>8, <3>2, <3>3, <3>4
  <2>2. UNCHANGED <<disk, mishaps>> /\ step' \in {"loose", "imports", "commit"}
    BY <1>8 DEF _purge_reports, _purge_loose, _purge_log, At
  <2>3. RetentionTypeOK'
    BY <1>0, <2>1, <2>2 DEF Purge, Visible, RetentionTypeOK
  <2>4. WorkReal'
    BY <2>1, <2>3, PurgeKeeps
  <2>5. MissingFilesExplained'
    BY <2>1, <2>2, <2>3, ExplainedStays DEF Purge
  <2>6. named \subseteq Filed
    BY <1>0 DEF RetentionTypeOK
  <2>7. FilesHaveRows'
    BY <1>0, <2>1, <2>2, <2>3, <2>6, RowsStay DEF Purge
  <2> QED
    BY <2>3, <2>4, <2>5, <2>7 DEF RetentionInv
<1>9. ASSUME NEW B \in SUBSET Visible, NEW F \in SUBSET Filed, Purge(B), _remove_file(F), F \subseteq B, B \cap named \subseteq F,
             \A i \in B : Expired(i), step' \in {"mails", "raw"}
      PROVE  RetentionInv'
  <2>1. disk \ {Path[i] : i \in F} \subseteq disk' /\ disk' \subseteq disk
    BY <1>9 DEF _remove_file
  <2>2. mishaps' \in 0 .. MaxMishaps /\ (mishaps' = 0 => mishaps = 0 /\ disk' = disk \ {Path[i] : i \in F})
    BY <1>0, <1>9, MishapCounts DEF _remove_file, RetentionTypeOK
  <2>3. RetentionTypeOK'
    BY <1>0, <1>9, <2>1, <2>2 DEF Purge, Visible, RetentionTypeOK
  <2>4. WorkReal'
    BY <1>9, <2>3, PurgeKeeps
  <2>5. MissingFilesExplained'
    BY <1>9, <2>1, <2>3, ExplainedAfterRemoval DEF Purge, Overdue
  <2>6. FilesHaveRows'
    BY <1>0, <1>9, <2>2, <2>3, RowsStay DEF Purge
  <2> QED
    BY <2>3, <2>4, <2>5, <2>6 DEF RetentionInv
<1>10. CASE _purge_import_jobs
  <2>1. PICK B \in Batches({i \in Import \cap Visible : Expired(i) /\ \A r \in Report \cap Visible : From[r] # i}) :
               Purge(B) /\ _remove_file(B)
    BY <1>10 DEF _purge_import_jobs
  <2>2. B \subseteq {i \in Import \cap Visible : Expired(i)} /\ step' = "mails"
    BY <1>10, <2>1 DEF Batches, _purge_import_jobs, At
  <2> QED
    BY <1>9, <2>1, <2>2 DEF Filed
<1>11. CASE _purge_messages
  <2>1. PICK B \in Batches({i \in Received \cap Visible : Expired(i)}) : Purge(B) /\ _remove_file(B \cap named)
    BY <1>11 DEF _purge_messages
  <2>2. B \subseteq {i \in Received \cap Visible : Expired(i)} /\ step' = "raw"
    BY <1>11, <2>1 DEF Batches, _purge_messages, At
  <2> QED
    BY <1>9, <2>1, <2>2 DEF Filed
<1>12. CASE _purge_raw_mails
  <2>1. PICK B \in Batches({i \in Received \cap Visible \cap named : since[i] > RawDays}) : unnamed' = B /\ _remove_file(B)
    BY <1>12 DEF _purge_raw_mails
  <2>2. B \subseteq {i \in Received \cap Visible \cap named : since[i] > RawDays} /\ B \subseteq Filed
    BY <2>1 DEF Batches, Filed
  <2>3. step' = "log" /\ UNCHANGED <<stored, since, named, doomed>>
    BY <1>12 DEF _purge_raw_mails, At
  <2>4. disk \ {Path[i] : i \in B} \subseteq disk' /\ disk' \subseteq disk
    BY <2>1 DEF _remove_file
  <2>5. mishaps' \in 0 .. MaxMishaps /\ (mishaps' = 0 => mishaps = 0 /\ disk' = disk \ {Path[i] : i \in B})
    BY <1>0, <2>1, MishapCounts DEF _remove_file, RetentionTypeOK
  <2>6. RetentionTypeOK'
    BY <1>0, <2>1, <2>2, <2>3, <2>4, <2>5 DEF RetentionTypeOK
  <2>7. WorkReal'
    BY <1>0, <2>1, <2>2, <2>3 DEF WorkReal, Visible
  <2>8. MissingFilesExplained'
    BY <2>2, <2>3, <2>4, <2>6, ExplainedAfterRemoval DEF Overdue
  <2>9. FilesHaveRows'
    BY <1>0, <2>1, <2>3, <2>5, <2>6, RowsStay
  <2> QED
    BY <2>6, <2>7, <2>8, <2>9 DEF RetentionInv
<1>13. CASE RunSucceeds
  <2>1. /\ step' = "idle" /\ UNCHANGED <<since, disk, mishaps>> /\ doomed' = {} /\ unnamed' = {}
        /\ named' = named \ (doomed \cup unnamed)
        /\ \A i \in Item : stored'[i] = IF i \in doomed THEN "gone" ELSE stored[i]
        /\ stored' \in [Item -> {"none", "open", "kept", "gone"}]
    BY <1>0, <1>13 DEF RunSucceeds, At
  <2>2. RetentionTypeOK'
    BY <1>0, <2>1 DEF RetentionTypeOK
  <2>3. named \subseteq Item
    BY <1>0 DEF RetentionTypeOK
  <2>4. WorkReal'
    BY <1>0, <2>1, <2>3 DEF WorkReal
  <2>5. MissingFilesExplained'
    BY <2>1, <2>2, <2>3, ExplainedStays
  <2>6. FilesHaveRows'
    BY <1>0, <2>1, <2>2, <2>3, RowsStay
  <2> QED
    BY <2>2, <2>4, <2>5, <2>6 DEF RetentionInv
<1>14. CASE RunFails
  <2>1. mishaps' # 0 /\ mishaps' \in 0 .. MaxMishaps
    BY <1>0, <1>14, MishapCounts DEF RunFails
  <2>2. UNCHANGED <<stored, since, named, disk>> /\ step' = "idle" /\ doomed' = {} /\ unnamed' = {}
    BY <1>14 DEF RunFails
  <2>3. RetentionTypeOK' /\ WorkReal'
    BY <1>0, <2>1, <2>2 DEF RetentionTypeOK, WorkReal
  <2>4. MissingFilesExplained'
    BY <2>2, <2>3, ExplainedStays
  <2>5. FilesHaveRows'
    BY <2>1 DEF FilesHaveRows
  <2> QED
    BY <2>3, <2>4, <2>5 DEF RetentionInv
<1> QED
  BY <1>1, <1>2, <1>3, <1>4, <1>5, <1>6, <1>7, <1>8, <1>10, <1>11, <1>12, <1>13, <1>14 DEF RetentionNext, RetentionStep

(* Retention removes a file only with what is overdue, or with the rows of it that are (_purge_import_jobs,
   _purge_messages, _purge_raw_mails of app/services/retention.py): a row that is there misses its file only if a row with
   the same content has been overdue, and without a lost transaction or a file that cannot be deleted no file outlives all
   its rows, whatever comes in during a run. *)
THEOREM FilesAreAccountedFor == RetentionSpec => []FilesFollowRows
<1>1. RetentionInv => FilesFollowRows
  BY DEF RetentionInv, MissingFilesExplained, FilesHaveRows, FilesFollowRows
<1> QED
  BY <1>1, RetentionStart, RetentionStepInv, PTL DEF RetentionSpec

(* The variables of retention keep their types, and with them what a run is about to delete are stored rows. *)
THEOREM RetentionTypeCorrect == RetentionSpec => []RetentionTypeOK
<1>1. RetentionInv => RetentionTypeOK
  BY DEF RetentionInv
<1> QED
  BY <1>1, RetentionStart, RetentionStepInv, PTL DEF RetentionSpec
=============================================================================
