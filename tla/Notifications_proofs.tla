------------------------- MODULE Notifications_proofs -------------------------
(* Proofs about Notifications, for any alerts, channels, addresses, batch size, window and number of faults. *)
EXTENDS Notifications, TLAPS

\* Between two runs nothing is left of the last one.
IdleIsEmpty == ~running => todo = {} /\ draft = NoDraft

\* Deliveries come with their alert; retries are counted on deliveries that were attempted, and an attempt
\* needs one to be left.
TriesCount ==
    \A d \in Delivery :
        /\ alert[d[1]] = "none" => status[d] = "none"
        /\ status[d] \in {"none", "pending"} => tries[d] = 0
        /\ status[d] = "sent" => tries[d] <= RetryMax

\* The run holds only deliveries that may be attempted, and looks at each of them once.
HeldIsOpen ==
    \A d \in Delivery :
        /\ d \in todo => draft[d] = "none"
        /\ d \in todo \/ draft[d] # "none" => status[d] \in {"pending", "failed"} /\ tries[d] <= RetryMax

\* The outcome of the run, or of an earlier one
IsSent(d) == status[d] = "sent" \/ draft[d] = "sent"
IsTried(d) == status[d] = "sent" \/ draft[d] \in {"sent", "failed"}

\* Every message that arrived is accounted for by an outcome or by a fault.
Arrivals ==
    \A d \in Delivery :
        /\ received[d] <= faults + (IF IsSent(d) THEN 1 ELSE 0)
        /\ IsSent(d) => received[d] >= 1

\* Every attempt is accounted for by the retry counter, an outcome or a fault.
Trials == \A d \in Delivery : attempts[d] <= faults + tries[d] + (IF IsTried(d) THEN 1 ELSE 0)

\* What the run knows of a delivery it has yet to send is still true, or people changed it since.
Knowledge ==
    \A d \in todo :
        /\ alert[d[1]] \in Skippable => seen[d[1]] \in Skippable \/ d[1] \in late
        /\ target[d[2]] # "on" => d[2] \in late

Inv ==
    /\ TypeOK
    /\ IdleIsEmpty
    /\ TriesCount
    /\ HeldIsOpen
    /\ Arrivals
    /\ Trials
    /\ Knowledge

-----------------------------------------------------------------------------
(* The pause before the next attempt is a number, whatever the counter says. *)
LEMMA PauseIsNumber ==
    ASSUME NEW n \in 0 .. RetryMax
    PROVE  _retry_delay(n + 1) \in Nat
<1>1. RetryMax \in Nat
  BY ConstantsAssumption
<1>2. (n + 1) - 1 = n
  BY <1>1
<1>3. RetryDelay * 2^n \in Nat
  BY PausesAreNumbers
<1> QED
  BY <1>2, <1>3 DEF _retry_delay

(* What goes out together is part of what the run has yet to send. *)
LEMMA TogetherIsTodo ==
    ASSUME NEW d \in todo
    PROVE  Together(d) \subseteq todo
BY DEF Together

(* The first state satisfies the invariant. *)
LEMMA InitInv == Init => Inv
<1> SUFFICES ASSUME Init PROVE Inv
  OBVIOUS
<1> USE DEF Init, NoDraft, NoAlert, Zero
<1>1. TypeOK
  <2>1. 0 \in 0 .. MaxTime /\ 0 \in 0 .. RetryMax + 1 /\ 0 \in Nat
    BY ConstantsAssumption
  <2> QED
    BY <2>1 DEF TypeOK, AlertStatus
<1>2. IdleIsEmpty /\ TriesCount /\ HeldIsOpen /\ Knowledge
  BY DEF IdleIsEmpty, TriesCount, HeldIsOpen, Knowledge
<1>3. Arrivals /\ Trials
  BY DEF Arrivals, Trials, IsSent, IsTried
<1> QED
  BY <1>1, <1>2, <1>3 DEF Inv

(* Raising an alert queues new deliveries and leaves all others alone. *)
LEMMA RaiseInv ==
    ASSUME Inv, NEW e \in Event, raise_event(e)
    PROVE  Inv'
<1>1. TypeOK'
  BY DEF Inv, TypeOK, raise_event, AlertStatus, run, mail
<1>2. \A d \in Delivery : status'[d] = status[d] \/ (status[d] = "none" /\ status'[d] = "pending")
  BY DEF Inv, TriesCount, raise_event
<1>3. IdleIsEmpty'
  BY DEF Inv, IdleIsEmpty, raise_event, run, NoDraft
<1>4. TriesCount'
  BY <1>2 DEF Inv, TriesCount, raise_event, TypeOK, Delivery
<1>5. HeldIsOpen'
  BY <1>2 DEF Inv, HeldIsOpen, raise_event, run
<1>6. Arrivals' /\ Trials'
  BY <1>2 DEF Inv, Arrivals, Trials, IsSent, IsTried, raise_event, run, mail
<1>7. Knowledge'
  BY ConstantsAssumption DEF Inv, Knowledge, raise_event, run, TypeOK, Delivery
<1> QED
  BY <1>1, <1>3, <1>4, <1>5, <1>6, <1>7 DEF Inv

(* Closing or acknowledging an alert: the run remembers that it happened. *)
LEMMA AlertInv ==
    ASSUME Inv, NEW e \in Event, acknowledge_event(e) \/ resolve_event(e)
    PROVE  Inv'
<1> USE DEF acknowledge_event, resolve_event, queue, mail
<1>1. TypeOK'
  BY DEF Inv, TypeOK, AlertStatus, Late
<1>2. IdleIsEmpty'
  BY DEF Inv, IdleIsEmpty, NoDraft
<1>3. TriesCount'
  BY DEF Inv, TriesCount, TypeOK, Delivery
<1>4. HeldIsOpen'
  BY DEF Inv, HeldIsOpen
<1>5. Arrivals' /\ Trials'
  BY DEF Inv, Arrivals, Trials, IsSent, IsTried
<1>6. Knowledge'
  <2>1. \A d \in todo : late \subseteq late' /\ (d[1] = e /\ alert'[e] \in Skippable => e \in late')
    BY DEF Late, Inv, TypeOK
  <2> QED
    BY <2>1 DEF Inv, Knowledge, TypeOK, Delivery
<1> QED
  BY <1>1, <1>2, <1>3, <1>4, <1>5, <1>6 DEF Inv

(* The same for a channel or an address. *)
LEMMA TargetInv ==
    ASSUME Inv, NEW t \in Target, toggle_channel(t) \/ (t \in Channel /\ delete_channel(t))
    PROVE  Inv'
<1> USE DEF toggle_channel, delete_channel, queue, mail
<1>1. TypeOK'
  BY DEF Inv, TypeOK, Late
<1>2. IdleIsEmpty'
  BY DEF Inv, IdleIsEmpty, NoDraft
<1>3. TriesCount'
  BY DEF Inv, TriesCount
<1>4. HeldIsOpen'
  BY DEF Inv, HeldIsOpen
<1>5. Arrivals' /\ Trials'
  BY DEF Inv, Arrivals, Trials, IsSent, IsTried
<1>6. Knowledge'
  <2>1. \A d \in todo : late \subseteq late' /\ (d[2] = t => t \in late')
    BY DEF Late, Inv, TypeOK
  <2> QED
    BY <2>1 DEF Inv, Knowledge, TypeOK, Delivery
<1> QED
  BY <1>1, <1>2, <1>3, <1>4, <1>5, <1>6 DEF Inv

(* A run starts with open deliveries it has read just now. *)
LEMMA DispatchInv ==
    ASSUME Inv, dispatch_pending
    PROVE  Inv'
<1> USE DEF dispatch_pending, queue, mail
<1>1. PICK B \in Batches :
        /\ seen' = [e \in Event |-> IF \E d \in B : d[1] = e THEN alert[e] ELSE "none"]
        /\ todo' = {d \in {o \in B : Reachable(o)} : ~Collecting({o \in B : Reachable(o)}, d)}
        /\ draft' = [d \in Delivery |-> IF d \in B \ {o \in B : Reachable(o)} THEN "skipped" ELSE "none"]
  OBVIOUS
<1>2. B \subseteq Due
  BY DEF Batches
<1>3. \A d \in B : d \in Delivery /\ status[d] \in {"pending", "failed"} /\ tries[d] <= RetryMax
  BY <1>2, ConstantsAssumption DEF Due, due_filter, Inv, TriesCount
<1>4. todo' \subseteq B /\ (\A d \in todo' : Reachable(d))
  BY <1>1
<1>5. TypeOK'
  BY <1>1, <1>3, <1>4 DEF Inv, TypeOK, AlertStatus
<1>6. IdleIsEmpty'
  BY DEF IdleIsEmpty
<1>7. TriesCount'
  BY DEF Inv, TriesCount
<1>8. HeldIsOpen'
  BY <1>1, <1>3, <1>4 DEF HeldIsOpen
<1>9. Arrivals' /\ Trials'
  <2>1. \A d \in Delivery : draft'[d] \in {"none", "skipped"}
    BY <1>1
  <2>2. \A d \in Delivery : draft[d] = "none"
    BY DEF Inv, IdleIsEmpty, NoDraft
  <2> QED
    BY <2>1, <2>2 DEF Inv, Arrivals, Trials, IsSent, IsTried
<1>10. Knowledge'
  BY <1>1, <1>3, <1>4 DEF Knowledge, Reachable, Delivery
<1> QED
  BY <1>5, <1>6, <1>7, <1>8, <1>9, <1>10 DEF Inv

(* An attempt: each delivery it sends was open and gets an outcome; a lost answer is a fault. *)
LEMMA AttemptInv ==
    ASSUME Inv, NEW d \in Delivery, NEW o \in {"ok", "refused", "lost"}, _attempt(d, o)
    PROVE  Inv'
<1> DEFINE members == {m \in Together(d) : ~Closed(m)}
<1>1. /\ running /\ running' = running
      /\ todo' = todo \ Together(d)
      /\ draft' = [m \in Delivery |->
                    IF m \in members THEN (IF o = "ok" THEN "sent" ELSE "failed")
                    ELSE IF m \in Together(d) THEN "skipped" ELSE draft[m]]
      /\ attempts' = [m \in Delivery |-> IF m \in members THEN attempts[m] + 1 ELSE attempts[m]]
      /\ received' = [m \in Delivery |-> IF m \in members /\ o # "refused" THEN received[m] + 1 ELSE received[m]]
      /\ faults' = IF o = "lost" THEN faults + 1 ELSE faults
      /\ UNCHANGED <<clock, alert, created, target, status, tries, nextAt, now, seen, late>>
  BY DEF _attempt, queue
<1>2. Together(d) \subseteq todo /\ members \subseteq Together(d)
  <2>1. d \in todo
    BY DEF _attempt, Front
  <2> QED
    BY <2>1, TogetherIsTodo
<1>3. \A m \in Together(d) : /\ m \in Delivery /\ draft[m] = "none"
                             /\ status[m] \in {"pending", "failed"} /\ tries[m] <= RetryMax
  BY <1>2 DEF Inv, HeldIsOpen, TypeOK
<1> HIDE DEF members
<1>4. TypeOK'
  BY <1>1 DEF Inv, TypeOK
<1>5. IdleIsEmpty'
  BY <1>1 DEF IdleIsEmpty
<1>6. TriesCount'
  BY <1>1 DEF Inv, TriesCount
<1>7. HeldIsOpen'
  BY <1>1, <1>2, <1>3 DEF Inv, HeldIsOpen
<1>8. Arrivals'
  BY <1>1, <1>2, <1>3 DEF Inv, TypeOK, Arrivals, IsSent
<1>9. Trials'
  BY <1>1, <1>2, <1>3 DEF Inv, TypeOK, Trials, IsTried
<1>10. Knowledge'
  BY <1>1 DEF Inv, Knowledge
<1> QED
  BY <1>4, <1>5, <1>6, <1>7, <1>8, <1>9, <1>10 DEF Inv

(* Skipping what was closed changes nothing but the draft. *)
LEMMA SkipInv ==
    ASSUME Inv, NEW d \in Delivery, _skip_if_closed(d)
    PROVE  Inv'
<1> USE DEF _skip_if_closed, queue, mail
<1>1. Together(d) \subseteq todo
  BY TogetherIsTodo DEF Front
<1>2. \A m \in Together(d) : m \in Delivery /\ draft[m] = "none" /\ status[m] \in {"pending", "failed"} /\ tries[m] <= RetryMax
  BY <1>1 DEF Inv, HeldIsOpen, TypeOK
<1>3. TypeOK'
  BY DEF Inv, TypeOK
<1>4. IdleIsEmpty' /\ TriesCount'
  BY DEF Inv, IdleIsEmpty, TriesCount
<1>5. HeldIsOpen'
  BY <1>1, <1>2 DEF Inv, HeldIsOpen
<1>6. Arrivals' /\ Trials'
  BY <1>1, <1>2 DEF Inv, TypeOK, Arrivals, Trials, IsSent, IsTried
<1>7. Knowledge'
  BY DEF Inv, Knowledge
<1> QED
  BY <1>3, <1>4, <1>5, <1>6, <1>7 DEF Inv

(* The commit turns drafts into outcomes. *)
LEMMA CommitInv ==
    ASSUME Inv, Commit
    PROVE  Inv'
<1> USE DEF Commit, EndRun, mail
<1>1. running' = FALSE /\ todo' = {} /\ draft' = NoDraft /\ (\A d \in Delivery : draft'[d] = "none")
  BY DEF NoDraft
<1>2. \A d \in Delivery : draft[d] = "failed" => tries[d] \in 0 .. RetryMax
  BY ConstantsAssumption DEF Inv, HeldIsOpen, TypeOK
<1>3. TypeOK'
  <2>1. status' \in [Delivery -> {"none", "pending", "sent", "failed", "skipped"}]
    BY DEF Inv, TypeOK
  <2>2. tries' \in [Delivery -> 0 .. RetryMax + 1]
    BY <1>2, ConstantsAssumption DEF Inv, TypeOK
  <2>3. ASSUME NEW n \in Nat, NEW m \in 0 .. MaxTime
        PROVE  (IF m + n < MaxTime THEN m + n ELSE MaxTime) \in 0 .. MaxTime
    BY ConstantsAssumption
  <2>4. \A d \in Delivery : draft[d] = "failed" => _retry_delay(tries[d] + 1) \in Nat
    BY <1>2, PauseIsNumber
  <2>5. now \in 0 .. MaxTime /\ 0 \in 0 .. MaxTime /\ nextAt \in [Delivery -> 0 .. MaxTime]
    BY ConstantsAssumption DEF Inv, TypeOK
  <2>6. nextAt' \in [Delivery -> 0 .. MaxTime]
    BY <2>3, <2>4, <2>5
  <2>7. /\ seen' \in [Event -> AlertStatus] /\ now' \in 0 .. MaxTime
        /\ draft' \in [Delivery -> {"none", "sent", "failed", "skipped"}]
    BY <2>5 DEF NoAlert, AlertStatus, NoDraft
  <2>8. UNCHANGED <<clock, alert, created, target, received, attempts, faults>> /\ late' = {}
    OBVIOUS
  <2> HIDE DEF Commit, EndRun, mail
  <2> QED
    BY <2>1, <2>2, <2>6, <2>7, <2>8, <1>1 DEF Inv, TypeOK
<1>4. IdleIsEmpty' /\ HeldIsOpen' /\ Knowledge'
  BY <1>1 DEF IdleIsEmpty, HeldIsOpen, Knowledge, NoDraft
<1>5. TriesCount'
  BY ConstantsAssumption DEF Inv, TypeOK, TriesCount, HeldIsOpen, Delivery
<1>6. Arrivals'
  BY <1>1 DEF Inv, TypeOK, Arrivals, IsSent, HeldIsOpen
<1>7. Trials'
  BY <1>1, ConstantsAssumption DEF Inv, TypeOK, Trials, IsTried, HeldIsOpen
<1> QED
  BY <1>3, <1>4, <1>5, <1>6, <1>7 DEF Inv

(* A run that is lost leaves its messages to the fault it is. *)
LEMMA LostRunInv ==
    ASSUME Inv, StaleRun \/ Abort
    PROVE  Inv'
<1> USE DEF StaleRun, Abort, EndRun, queue, mail
<1>1. running' = FALSE /\ todo' = {} /\ draft' = NoDraft /\ (\A d \in Delivery : draft'[d] = "none")
  BY DEF NoDraft
<1>2. TypeOK'
  <2>1. 0 \in 0 .. MaxTime
    BY ConstantsAssumption
  <2>2. faults' \in Nat /\ seen' \in [Event -> AlertStatus]
    BY DEF Inv, TypeOK, NoAlert, AlertStatus
  <2> QED
    BY <1>1, <2>1, <2>2 DEF Inv, TypeOK, NoDraft
<1>3. IdleIsEmpty' /\ HeldIsOpen' /\ Knowledge'
  BY <1>1 DEF IdleIsEmpty, HeldIsOpen, Knowledge, NoDraft
<1>4. TriesCount'
  BY DEF Inv, TriesCount
<1>5. Arrivals' /\ Trials'
  BY <1>1 DEF Inv, TypeOK, Arrivals, Trials, IsSent, IsTried
<1> QED
  BY <1>2, <1>3, <1>4, <1>5 DEF Inv

(* The clock alone changes nothing the invariant speaks of, nor does a stuttering step. *)
LEMMA TickInv ==
    ASSUME Inv, Tick \/ UNCHANGED vars
    PROVE  Inv'
<1> USE DEF Tick, vars, queue, run, mail
<1>1. TypeOK'
  BY ConstantsAssumption DEF Inv, TypeOK
<1> QED
  BY <1>1 DEF Inv, IdleIsEmpty, TriesCount, HeldIsOpen, Arrivals, Trials, Knowledge, IsSent, IsTried, NoDraft

(* The invariant holds in every reachable state. *)
THEOREM InductiveInvariant == Spec => []Inv
<1>1. Inv /\ [Next]_vars => Inv'
  <2> SUFFICES ASSUME Inv, [Next]_vars PROVE Inv'
    OBVIOUS
  <2>1. CASE \E e \in Event : raise_event(e) \/ acknowledge_event(e) \/ resolve_event(e)
    BY <2>1, RaiseInv, AlertInv
  <2>2. CASE \E t \in Target : toggle_channel(t) \/ (t \in Channel /\ delete_channel(t))
    BY <2>2, TargetInv
  <2>3. CASE dispatch_pending
    BY <2>3, DispatchInv
  <2>4. CASE Send
    BY <2>4, AttemptInv, SkipInv DEF Send
  <2>5. CASE Commit
    BY <2>5, CommitInv
  <2>6. CASE StaleRun \/ Abort
    BY <2>6, LostRunInv
  <2>7. CASE Tick \/ UNCHANGED vars
    BY <2>7, TickInv
  <2> QED
    BY <2>1, <2>2, <2>3, <2>4, <2>5, <2>6, <2>7 DEF Next, Target
<1> QED
  BY <1>1, InitInv, PTL DEF Spec

-----------------------------------------------------------------------------
(* The variables keep their types. *)
THEOREM TypeCorrect == Spec => []TypeOK
BY InductiveInvariant, PTL DEF Inv

(* A message arrives once, and once more for every fault: no retry, no bundle and no later run repeats it. *)
THEOREM MessagesArriveOnce == Spec => []ArrivesOnce
<1>1. Inv => ArrivesOnce
  BY DEF Inv, TypeOK, Arrivals, ArrivesOnce
<1> QED
  BY <1>1, InductiveInvariant, PTL

(* Between two runs the stored status of every delivery is what happened to it. *)
THEOREM StatusIsHonest == Spec => []StatusIsTrue
<1>1. Inv => StatusIsTrue
  BY DEF Inv, TypeOK, Arrivals, IdleIsEmpty, NoDraft, StatusIsTrue, IsSent
<1> QED
  BY <1>1, InductiveInvariant, PTL

(* No delivery is attempted more than once plus its retries plus the runs that were lost. *)
THEOREM AttemptsAreBounded == Spec => []RetriesEnd
<1>1. Inv => RetriesEnd
  <2> SUFFICES ASSUME Inv, NEW d \in Delivery PROVE attempts[d] <= 1 + RetryMax + faults
    BY DEF RetriesEnd
  <2>1. attempts[d] \in Nat /\ faults \in Nat /\ tries[d] \in 0 .. RetryMax + 1 /\ RetryMax \in Nat
    BY ConstantsAssumption DEF Inv, TypeOK
  <2>2. attempts[d] <= faults + tries[d] + (IF IsTried(d) THEN 1 ELSE 0)
    BY DEF Inv, Trials
  <2>3. IsTried(d) => tries[d] <= RetryMax
    BY DEF Inv, TriesCount, HeldIsOpen, IsTried
  <2> QED
    BY <2>1, <2>2, <2>3
<1> QED
  BY <1>1, InductiveInvariant, PTL

(* An outcome that is final is never written again. *)
THEOREM OutcomesAreFinal == Spec => OutcomesStay
<1>1. Inv /\ [Next]_vars => [\A d \in Delivery : Final(d) => status'[d] = status[d] /\ tries'[d] = tries[d]]_vars
  <2> SUFFICES ASSUME Inv, Next, NEW d \in Delivery, Final(d) PROVE status'[d] = status[d] /\ tries'[d] = tries[d]
    OBVIOUS
  <2>1. status[d] # "none" /\ status[d] # "pending" /\ draft[d] = "none"
    BY ConstantsAssumption DEF Inv, TypeOK, HeldIsOpen, Final
  <2>2. CASE \E e \in Event : raise_event(e)
    BY <2>1, <2>2 DEF raise_event, Inv, TypeOK, TriesCount
  <2>3. CASE Commit
    BY <2>1, <2>3 DEF Commit, Inv, TypeOK
  <2>4. CASE UNCHANGED queue
    BY <2>4 DEF queue
  <2> QED
    BY <2>2, <2>3, <2>4 DEF Next, Send, acknowledge_event, resolve_event, toggle_channel, delete_channel,
        dispatch_pending, _skip_if_closed, _attempt, StaleRun, Abort, Tick
<1> QED
  BY <1>1, InductiveInvariant, PTL DEF Spec, OutcomesStay

(* What arrives in a step is what that step attempts, out of the deliveries the run still had to send. *)
LEMMA SendsAreAttempts ==
    ASSUME Inv, [Next]_vars, NEW d \in Delivery, Sends(d)
    PROVE  d \in todo /\ ~Closed(d)
<1>1. PICK m \in Delivery, o \in {"ok", "refused", "lost"} : _attempt(m, o)
  <2>1. received[d] \in Nat
    BY DEF Inv, TypeOK
  <2>2. received' # received
    BY <2>1 DEF Sends
  <2> QED
    BY <2>2 DEF Next, Send, vars, mail, EndRun, raise_event, acknowledge_event, resolve_event, toggle_channel,
        delete_channel, dispatch_pending, _skip_if_closed, Commit, StaleRun, Abort, Tick
<1>2. Together(m) \subseteq todo
  BY <1>1, TogetherIsTodo DEF _attempt, Front
<1>3. d \in Together(m) /\ ~Closed(d)
  BY <1>1 DEF _attempt, Inv, TypeOK, Sends
<1> QED
  BY <1>2, <1>3

(* A closed alert sends nothing, unless it was closed under the hands of the run. *)
THEOREM ClosedAlertsAreSilent == Spec => ClosedStaysSilent
<1>1. Inv /\ [Next]_vars => [\A d \in Delivery : Sends(d) /\ alert[d[1]] \in Skippable => d[1] \in late]_vars
  BY SendsAreAttempts DEF Closed, Inv, Knowledge
<1> QED
  BY <1>1, InductiveInvariant, PTL DEF Spec, ClosedStaysSilent

(* A channel that is off or gone and an address that was removed get nothing, with the same exception. *)
THEOREM LostTargetsAreSilent == Spec => LostStaysSilent
<1>1. Inv /\ [Next]_vars => [\A d \in Delivery : Sends(d) /\ target[d[2]] # "on" => d[2] \in late]_vars
  BY SendsAreAttempts DEF Inv, Knowledge
<1> QED
  BY <1>1, InductiveInvariant, PTL DEF Spec, LostStaysSilent

-----------------------------------------------------------------------------
(* Notifications implement the outbox: the fate of a delivery is read off its row *)

Fates == [d \in Delivery |-> Fate(d)]

\* A step of the outbox, in the words of this module
FatesSettle ==
    /\ \A d \in Delivery : \/ Fate(d)' = Fate(d)
                           \/ Fate(d) = "none" /\ Fate(d)' = "waiting"
                           \/ /\ Fate(d) = "waiting" /\ Fate(d)' \in {"sent", "skipped", "dropped"}
                              /\ IF Fate(d)' = "sent" THEN received[d] >= 1 ELSE received[d] <= faults
    /\ UNCHANGED <<received, faults>>

MessagesArrive ==
    /\ \A d \in Delivery : \/ received'[d] = received[d]
                           \/ received'[d] = received[d] + 1 /\ Fate(d) = "waiting" /\ received[d] <= faults
    /\ faults' \in {faults, faults + 1}
    /\ UNCHANGED queue

LEMMA FateIsOfRow == UNCHANGED queue => UNCHANGED Fates
BY DEF queue, Fates, Fate

LEMMA SettleMaps ==
  ASSUME FatesSettle
  PROVE Promise!Settle
<1>1. \A d \in Delivery : Fates[d] = Fate(d) /\ Fates'[d] = Fate(d)'
  BY DEF Fates
<1>2. Fates' = [d \in Delivery |-> Fates'[d]]
  BY DEF Fates
<1> HIDE DEF Fate
<1>3. QED
  BY <1>1, <1>2 DEF FatesSettle, Promise!Settle, Promise!True, Promise!Outcome, Fates

LEMMA ArriveMaps ==
  ASSUME Inv, Inv', MessagesArrive
  PROVE Promise!Arrive
<1>1. \A d \in Delivery : Fates[d] = Fate(d)
  BY DEF Fates
<1>2. received' = [d \in Delivery |-> received'[d]]
  BY DEF Inv, TypeOK
<1>3. UNCHANGED Fates
  BY FateIsOfRow DEF MessagesArrive
<1>4. QED
  BY <1>1, <1>2, <1>3 DEF MessagesArrive, Promise!Arrive, Fates

(* The messages of an attempt arrive for deliveries that wait. *)
LEMMA AttemptArrives ==
  ASSUME Inv, NEW d \in Delivery, NEW o \in {"ok", "refused", "lost"}, _attempt(d, o)
  PROVE MessagesArrive
<1>1. Together(d) \subseteq todo
  BY TogetherIsTodo DEF _attempt, Front
<1>2. ASSUME NEW m \in Together(d) PROVE m \in Delivery /\ Fate(m) = "waiting" /\ received[m] <= faults
  <2>1. m \in Delivery /\ draft[m] = "none" /\ status[m] \in {"pending", "failed"} /\ tries[m] <= RetryMax
    BY <1>1, <1>2 DEF Inv, HeldIsOpen, TypeOK
  <2>2. ~IsSent(m) /\ received[m] \in Nat /\ faults \in Nat
    BY <2>1 DEF IsSent, Inv, TypeOK
  <2>3. ~(tries[m] > RetryMax)
    BY <2>1, ConstantsAssumption DEF Inv, TypeOK
  <2> QED
    BY <2>1, <2>2, <2>3 DEF Fate, Inv, Arrivals
<1>3. \A m \in Delivery : received'[m] = received[m] \/ (received'[m] = received[m] + 1 /\ m \in Together(d))
  BY DEF _attempt
<1>4. faults' \in {faults, faults + 1} /\ UNCHANGED queue
  BY DEF _attempt
<1>5. QED
  BY <1>2, <1>3, <1>4 DEF MessagesArrive

(* A commit settles the deliveries of the run, and those that failed too often. *)
LEMMA CommitSettles ==
  ASSUME Inv, Commit
  PROVE FatesSettle
<1>1. UNCHANGED <<received, faults>>
  BY DEF Commit, EndRun, mail
<1>2. ASSUME NEW d \in Delivery
      PROVE \/ Fate(d)' = Fate(d)
            \/ /\ Fate(d) = "waiting" /\ Fate(d)' \in {"sent", "skipped", "dropped"}
               /\ IF Fate(d)' = "sent" THEN received[d] >= 1 ELSE received[d] <= faults
  <2>1. CASE draft[d] = "none"
    BY <2>1 DEF Commit, Fate, Inv, TypeOK
  <2>2. CASE draft[d] # "none"
    <3>1. status[d] \in {"pending", "failed"} /\ tries[d] <= RetryMax /\ tries[d] \in Nat /\ RetryMax \in Nat
      BY <2>2, ConstantsAssumption DEF Inv, HeldIsOpen, TypeOK
    <3>2. Fate(d) = "waiting"
      BY <3>1 DEF Fate
    <3>3. draft[d] \in {"sent", "failed", "skipped"} /\ status'[d] = draft[d]
      BY <2>2 DEF Commit, Inv, TypeOK
    <3>4. Fate(d)' \in {"waiting", "sent", "skipped", "dropped"} /\ (Fate(d)' = "sent" <=> draft[d] = "sent")
      BY <3>3 DEF Fate
    <3>5. IF draft[d] = "sent" THEN received[d] >= 1 ELSE received[d] <= faults
      BY <3>1 DEF Inv, Arrivals, IsSent, TypeOK
    <3> QED
      BY <3>2, <3>4, <3>5
  <2> QED
    BY <2>1, <2>2
<1>3. QED
  BY <1>1, <1>2 DEF FatesSettle

(* What notifications promise about each delivery (Outbox): it waits for one outcome, which is true and stays, and every
   message beyond the first is owed to a fault, whatever is bundled, retried or rolled back. *)
THEOREM NotificationsImplementOutbox == Spec => ImplementsOutbox
<1>1. Init => Promise!Init
  BY DEF Init, Promise!Init, Fate, Zero
<1>2. Inv /\ Inv' /\ [Next]_vars => [Promise!Next]_<<Fates, received, faults>>
  <2> SUFFICES ASSUME Inv, Inv', [Next]_vars PROVE Promise!Settle \/ Promise!Arrive \/ UNCHANGED <<Fates, received, faults>>
    BY DEF Promise!Next
  <2>1. CASE \E e \in Event : raise_event(e)
    <3>1. PICK e \in Event : raise_event(e)
      BY <2>1
    <3>2. \A d \in Delivery : tries'[d] = tries[d] /\ (status'[d] = status[d] \/ (status[d] = "none" /\ status'[d] = "pending"))
      BY <3>1 DEF raise_event, Inv, TypeOK, TriesCount
    <3>3. FatesSettle
      BY <3>1, <3>2 DEF FatesSettle, Fate, raise_event, mail
    <3> QED
      BY <3>3, SettleMaps
  <2>2. CASE Commit
    BY <2>2, CommitSettles, SettleMaps
  <2>3. CASE \E d \in Delivery : \E o \in {"ok", "refused", "lost"} : _attempt(d, o)
    BY <2>3, AttemptArrives, ArriveMaps
  <2>4. CASE StaleRun \/ Abort
    <3>1. MessagesArrive
      BY <2>4 DEF StaleRun, Abort, EndRun, MessagesArrive, mail
    <3> QED
      BY <3>1, ArriveMaps
  <2>5. CASE UNCHANGED <<queue, received, faults>>
    BY <2>5, FateIsOfRow
  <2> QED
    BY <2>1, <2>2, <2>3, <2>4, <2>5 DEF Next, Send, acknowledge_event, resolve_event, toggle_channel, delete_channel,
        dispatch_pending, _skip_if_closed, Tick, vars, mail
<1> HIDE DEF Fates
<1>3. QED
  BY <1>1, <1>2, InductiveInvariant, PTL DEF Spec, ImplementsOutbox, Promise!Spec, Fates
=============================================================================
