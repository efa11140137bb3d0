---------------------------- MODULE Notifications ----------------------------
(***************************************************************************)
(* Alert notifications (app/services/notification.py, raise_event in       *)
(* app/services/alert_service.py, app/routers/alerts.py).                  *)
(*                                                                         *)
(* An alert queues one delivery per channel and per further recipient of   *)
(* its domain.  A scheduler job, dispatch_pending, reads a batch of due    *)
(* deliveries, sends them one after the other over the network and writes  *)
(* all outcomes at its end, in one transaction.  While it sends, people    *)
(* close alerts and switch off or delete channels; it may die or be rolled *)
(* back after the messages are out.                                        *)
(*                                                                         *)
(* One run at a time: that is what the module Scheduler shows of a job     *)
(* whose runs end within their interval.                                   *)
(***************************************************************************)
EXTENDS Integers, FiniteSets

CONSTANTS
    Event,           \* alerts
    WithDomain,      \* the alerts that are about a domain
    Channel,         \* channels of the organisation
    MailChannel,     \* the channels of type email
    Address,         \* further recipients of the domain
    Chosen,          \* Chosen[e]: channels in notification_channel_ids of the rule; all for system alerts
    Skippable,       \* NOTIFICATION_SKIP_ALERT_STATUSES
    BatchSize,       \* NOTIFICATION_BATCH_SIZE
    Window,          \* NOTIFICATION_EMAIL_BUNDLE_SECONDS
    RetryMax,        \* NOTIFICATION_RETRY_MAX
    RetryDelay,      \* NOTIFICATION_RETRY_DELAY_SECONDS
    MaxTime,         \* bound: the clock stops here, and no pause ends later
    MaxFaults        \* bound: faults of the run or of the network that Abort and a lost answer may add

Target == Channel \cup Address
Delivery == Event \X Target

ASSUME ConstantsAssumption ==
    /\ WithDomain \subseteq Event
    /\ MailChannel \subseteq Channel
    /\ Channel \cap Address = {}
    /\ Chosen \in [Event -> SUBSET Channel]
    /\ Skippable \subseteq {"acknowledged", "resolved", "ignored"}
    /\ BatchSize \in Nat \ {0}
    /\ Window \in Nat
    /\ RetryMax \in Nat
    /\ RetryDelay \in Nat \ {0}
    /\ MaxTime \in Nat
    /\ MaxFaults \in Nat

\* The provers know nothing of powers
ASSUME PausesAreNumbers == \A n \in 0 .. RetryMax : RetryDelay * 2^n \in Nat

VARIABLES
    clock,       \* wall clock
    alert,       \* status of each alert
    created,     \* created_at of each alert and of its deliveries
    target,      \* channels and addresses: on, off, or gone with their deliveries
    status,      \* status of each delivery
    tries,       \* retry_count
    nextAt,      \* next_attempt_at
    running,     \* dispatch_pending is at work
    now,         \* its parameter now
    seen,        \* status of the alerts as the session of the run read them
    todo,        \* deliveries it still has to look at
    draft,       \* outcomes it has assigned, not yet in the database
    late,        \* history: alerts closed and targets lost while the run still has messages of theirs to send
    received,    \* history: how often a message arrived
    attempts,    \* history: how often a message was sent, whether it arrived or not
    faults       \* history: runs lost after they sent, and answers lost on the way

queue == <<status, tries, nextAt>>
run == <<running, now, seen, todo, draft, late>>
mail == <<received, attempts>>
vars == <<clock, alert, created, target, queue, run, mail, faults>>

AlertStatus == {"none", "open", "acknowledged", "resolved"}

TypeOK ==
    /\ clock \in 0 .. MaxTime
    /\ alert \in [Event -> AlertStatus]
    /\ created \in [Event -> 0 .. MaxTime]
    /\ target \in [Target -> {"on", "off", "gone"}]
    /\ status \in [Delivery -> {"none", "pending", "sent", "failed", "skipped"}]
    /\ tries \in [Delivery -> 0 .. RetryMax + 1]
    /\ nextAt \in [Delivery -> 0 .. MaxTime]
    /\ running \in BOOLEAN
    /\ now \in 0 .. MaxTime
    /\ seen \in [Event -> AlertStatus]
    /\ todo \subseteq Delivery
    /\ draft \in [Delivery -> {"none", "sent", "failed", "skipped"}]
    /\ late \subseteq Event \cup Target
    /\ received \in [Delivery -> Nat]
    /\ attempts \in [Delivery -> Nat]
    /\ faults \in Nat

-----------------------------------------------------------------------------
NoDraft == [d \in Delivery |-> "none"]
NoAlert == [e \in Event |-> "none"]
Zero == [d \in Delivery |-> 0]

Init ==
    /\ clock = 0
    /\ alert = NoAlert
    /\ created = [e \in Event |-> 0]
    /\ target = [t \in Target |-> "on"]
    /\ status = [d \in Delivery |-> "none"]
    /\ tries = Zero
    /\ nextAt = Zero
    /\ running = FALSE
    /\ now = 0
    /\ seen = NoAlert
    /\ todo = {}
    /\ draft = NoDraft
    /\ late = {}
    /\ received = Zero
    /\ attempts = Zero
    /\ faults = 0

\* The rows of notification_deliveries: deleting a channel deletes its deliveries.  status, tries and nextAt
\* keep the last values of a deleted row.
Row(d) == status[d] # "none" /\ target[d[2]] # "gone"

\* What people change while the run still has deliveries of it to send
Late(x) == IF \E d \in todo : x \in {d[1], d[2]} THEN late \cup {x} ELSE late

-----------------------------------------------------------------------------
(* The alerts and the channels, as requests and other jobs change them *)

\* _channel_ids_for
ActiveChosen(e) == {c \in Channel : target[c] = "on" /\ c \in Chosen[e]}

\* alert_addresses
AlertAddresses(e) == {a \in Address : target[a] = "on" /\ e \in WithDomain}

\* raise_event.  Bound: late alerts are left out, so that every mail gets through its window.
raise_event(e) ==
    /\ alert[e] = "none"
    /\ clock + Window <= MaxTime
    /\ alert' = [alert EXCEPT ![e] = "open"]
    /\ created' = [created EXCEPT ![e] = clock]
    /\ status' = [d \in Delivery |->
                    IF d[1] = e /\ d[2] \in ActiveChosen(e) \cup AlertAddresses(e) THEN "pending" ELSE status[d]]
    /\ UNCHANGED <<clock, target, tries, nextAt, run, mail, faults>>

\* acknowledge_event: whatever the status was
acknowledge_event(e) ==
    /\ alert[e] # "none"
    /\ alert' = [alert EXCEPT ![e] = "acknowledged"]
    /\ late' = IF "acknowledged" \in Skippable THEN Late(e) ELSE late
    /\ UNCHANGED <<clock, created, target, queue, running, now, seen, todo, draft, mail, faults>>

\* resolve_event
resolve_event(e) ==
    /\ alert[e] # "none"
    /\ alert' = [alert EXCEPT ![e] = "resolved"]
    /\ late' = IF "resolved" \in Skippable THEN Late(e) ELSE late
    /\ UNCHANGED <<clock, created, target, queue, running, now, seen, todo, draft, mail, faults>>

\* toggle_channel; for an address, its row in domain_recipients changes, goes or comes back
toggle_channel(t) ==
    /\ target[t] # "gone"
    /\ target' = [target EXCEPT ![t] = IF @ = "on" THEN "off" ELSE "on"]
    /\ late' = Late(t)
    /\ UNCHANGED <<clock, alert, created, queue, running, now, seen, todo, draft, mail, faults>>

\* delete_channel: the channel goes with all its deliveries
delete_channel(c) ==
    /\ target[c] # "gone"
    /\ target' = [target EXCEPT ![c] = "gone"]
    /\ late' = Late(c)
    /\ UNCHANGED <<clock, alert, created, queue, running, now, seen, todo, draft, mail, faults>>

-----------------------------------------------------------------------------
(* dispatch_pending *)

\* A filter that forgets to ask for failed deliveries
due_filter_any_status(d) ==
    \/ status[d] = "pending"
    \/ tries[d] <= RetryMax /\ nextAt[d] <= clock

\* No second attempt
due_filter_pending_only(d) == status[d] = "pending"

\* due_filter
due_filter(d) ==
    \/ status[d] = "pending"
    \/ status[d] = "failed" /\ tries[d] <= RetryMax /\ nextAt[d] <= clock

Due == {d \in Delivery : Row(d) /\ due_filter(d)}

\* ORDER BY created_at LIMIT: the oldest, in any order among those of one alert
Batches ==
    {B \in SUBSET Due :
        /\ Cardinality(B) = IF Cardinality(Due) < BatchSize THEN Cardinality(Due) ELSE BatchSize
        /\ \A d \in B, o \in Due \ B : created[d[1]] <= created[o[1]]}

\* Mail deliveries are collected per channel or address
_mailbox(d) == Window > 0 /\ d[2] \in MailChannel \cup Address

\* The mails of a batch for one target, as long as the oldest of them is younger than the window
Collecting(B, d) == _mailbox(d) /\ \A o \in B : o[2] = d[2] => clock - created[o[1]] < Window

\* A channel that was on when the alert was raised
ReachableForEver(d) == Row(d)

\* The channel is active, or the address still wants the alerts of the domain
Reachable(d) == target[d[2]] = "on"

\* dispatch_pending, up to its first attempt: reads the batch and, in the same session, its alerts and channels;
\* skips what has no target any more and leaves what is still collected
dispatch_pending ==
    /\ ~running
    /\ \E B \in Batches :
        LET wanted == {d \in B : Reachable(d)}
        IN  /\ seen' = [e \in Event |-> IF \E d \in B : d[1] = e THEN alert[e] ELSE "none"]
            /\ todo' = {d \in wanted : ~Collecting(wanted, d)}
            /\ draft' = [d \in Delivery |-> IF d \in B \ wanted THEN "skipped" ELSE "none"]
    /\ running' = TRUE
    /\ now' = clock
    /\ late' = {}
    /\ UNCHANGED <<clock, alert, created, target, queue, mail, faults>>

\* What one attempt sends: the mails for one target together, anything else alone
Together(d) == IF _mailbox(d) THEN {o \in todo : o[2] = d[2]} ELSE {d}

\* First the single deliveries, then the mailboxes, each from the oldest to the youngest
Front(d) ==
    /\ d \in todo
    /\ \A o \in todo :
        \/ _mailbox(o) /\ ~_mailbox(d)
        \/ (_mailbox(o) <=> _mailbox(d)) /\ created[d[1]] <= created[o[1]]

\* A run that sends whatever the status of the alert
NeverClosed(d) == FALSE

\* _skip_if_closed: on the status the session holds
Closed(d) == seen[d[1]] \in Skippable

\* _attempt: one delivery, or the open ones of a mailbox in one mail.  The receiver takes the message, refuses
\* it, or takes it while the answer gets lost, which looks like a failure.
_attempt(d, o) ==
    LET members == {m \in Together(d) : ~Closed(m)}
    IN  /\ running
        /\ Front(d)
        /\ members # {}
        /\ todo' = todo \ Together(d)
        /\ draft' = [m \in Delivery |->
                        IF m \in members THEN (IF o = "ok" THEN "sent" ELSE "failed")
                        ELSE IF m \in Together(d) THEN "skipped" ELSE draft[m]]
        /\ attempts' = [m \in Delivery |-> IF m \in members THEN attempts[m] + 1 ELSE attempts[m]]
        /\ received' = [m \in Delivery |-> IF m \in members /\ o # "refused" THEN received[m] + 1 ELSE received[m]]
        /\ o = "lost" => faults < MaxFaults
        /\ faults' = IF o = "lost" THEN faults + 1 ELSE faults
        /\ UNCHANGED <<clock, alert, created, target, queue, running, now, seen, late>>

\* Nothing left to send: every alert of the delivery or of the mailbox was closed
_skip_if_closed(d) ==
    /\ running
    /\ Front(d)
    /\ \A m \in Together(d) : Closed(m)
    /\ todo' = todo \ Together(d)
    /\ draft' = [m \in Delivery |-> IF m \in Together(d) THEN "skipped" ELSE draft[m]]
    /\ UNCHANGED <<clock, alert, created, target, queue, running, now, seen, late, mail, faults>>

_retry_delay(n) == RetryDelay * 2^(n - 1)

\* The session of the run is gone with everything it had not written
EndRun ==
    /\ running' = FALSE
    /\ now' = 0
    /\ seen' = NoAlert
    /\ todo' = {}
    /\ draft' = NoDraft
    /\ late' = {}
    /\ UNCHANGED <<clock, alert, created, target, mail>>

\* Deliveries the run wrote on that were deleted in the meantime
Vanished == {d \in Delivery : draft[d] # "none" /\ ~Row(d)}

\* A failure that is not counted
CommitWithoutCount ==
    /\ running
    /\ todo = {}
    /\ Vanished = {}
    /\ status' = [d \in Delivery |-> IF draft[d] = "none" THEN status[d] ELSE draft[d]]
    /\ UNCHANGED <<tries, nextAt, faults>>
    /\ EndRun

\* db.flush and the commit of run_job: all outcomes of the run
Commit ==
    /\ running
    /\ todo = {}
    /\ Vanished = {}
    /\ status' = [d \in Delivery |-> IF draft[d] = "none" THEN status[d] ELSE draft[d]]
    /\ tries' = [d \in Delivery |-> IF draft[d] = "failed" THEN tries[d] + 1 ELSE tries[d]]
    /\ nextAt' = [d \in Delivery |->
                    IF draft[d] = "failed"
                    THEN LET t == now + _retry_delay(tries[d] + 1) IN IF t < MaxTime THEN t ELSE MaxTime
                    ELSE IF draft[d] = "sent" THEN 0 ELSE nextAt[d]]
    /\ UNCHANGED faults
    /\ EndRun

\* db.flush updates a row that is no longer there: StaleDataError, and run_job rolls the whole run back
StaleRun ==
    /\ running
    /\ todo = {}
    /\ Vanished # {}
    /\ faults' = faults + 1
    /\ UNCHANGED queue
    /\ EndRun

\* The process dies at any point of the run, or the database fails it
Abort ==
    /\ running
    /\ faults < MaxFaults
    /\ faults' = faults + 1
    /\ UNCHANGED queue
    /\ EndRun

Tick ==
    /\ clock < MaxTime
    /\ clock' = clock + 1
    /\ UNCHANGED <<alert, created, target, queue, run, mail, faults>>

Send == \E d \in Delivery : _skip_if_closed(d) \/ (\E o \in {"ok", "refused", "lost"} : _attempt(d, o))

Next ==
    \/ \E e \in Event : raise_event(e) \/ acknowledge_event(e) \/ resolve_event(e)
    \/ \E t \in Target : toggle_channel(t)
    \/ \E c \in Channel : delete_channel(c)
    \/ dispatch_pending
    \/ Send
    \/ Commit
    \/ StaleRun
    \/ Abort
    \/ Tick

Spec == Init /\ [][Next]_vars

\* The scheduler starts the job again and again (EveryTurnComes of Scheduler), every request of a run has a
\* timeout, and time passes.  Nothing is assumed of people, of the receivers or of faults.
Fairness == WF_vars(dispatch_pending) /\ WF_vars(Send) /\ WF_vars(Commit \/ StaleRun) /\ WF_vars(Tick)

FairSpec == Spec /\ Fairness

-----------------------------------------------------------------------------
(* Properties *)

\* A message arrives once, and again only when a run was lost after it had sent or an answer got lost: no retry
\* and no bundle repeats what is out.
ArrivesOnce == \A d \in Delivery : received[d] <= 1 + faults

\* What the alert page shows between two runs is what happened: a delivery that counts as sent has arrived, and
\* one that counts as failed, waiting or skipped has not, unless a fault hid it.
StatusIsTrue ==
    ~running => \A d \in Delivery : IF status[d] = "sent" THEN received[d] >= 1 ELSE received[d] <= faults

\* Retries stop: RetryMax after the first attempt, and one more for every run that was lost.
RetriesEnd == \A d \in Delivery : attempts[d] <= 1 + RetryMax + faults

\* Sent and skipped are final, and a failed delivery never waits again: a late commit overwrites no outcome.
Final(d) == status[d] \in {"sent", "skipped"} \/ (status[d] = "failed" /\ tries[d] > RetryMax)

OutcomesStay == [][\A d \in Delivery : Final(d) => status'[d] = status[d] /\ tries'[d] = tries[d]]_vars

\* What the outbox shows of a delivery: a failed one waits as long as it has a retry left
Fate(d) ==
    IF status[d] = "none" THEN "none"
    ELSE IF status[d] \in {"sent", "skipped"} THEN status[d]
    ELSE IF status[d] = "failed" /\ tries[d] > RetryMax THEN "dropped"
    ELSE "waiting"

\* The abstract promise, with the fate of each delivery read off its row
Promise == INSTANCE Outbox WITH state <- [d \in Delivery |-> Fate(d)], copies <- received, mishaps <- faults

\* Batches, bundles, retries and lost runs come to no more than the promise: one outcome that is true and final for
\* every delivery, and no message twice but for a fault.
ImplementsOutbox == Promise!Spec

\* A closed alert sends no message, except from a run that had read it before it was closed; that holds for
\* retries and for the members of a bundle as well.
Sends(d) == received'[d] > received[d]

ClosedStaysSilent ==
    [][\A d \in Delivery : Sends(d) /\ alert[d[1]] \in Skippable => d[1] \in late]_vars

\* Nobody gets a message on a channel that is off or gone or at an address that was removed, except from a run
\* that had read it before.
LostStaysSilent ==
    [][\A d \in Delivery : Sends(d) /\ target[d[2]] # "on" => d[2] \in late]_vars

\* Every delivery that was queued ends: sent, skipped, given up after its retries, or deleted with its channel,
\* however long mails are collected and however small a batch is.
Settled(d) == target[d[2]] = "gone" \/ Final(d)

EveryDeliverySettles == <>[](\A d \in Delivery : status[d] = "none" \/ Settled(d))

\* The comment of _skip_if_closed: the status is checked right before sending.
SilentOnceClosed == [][\A d \in Delivery : Sends(d) => alert[d[1]] \notin Skippable]_vars
=============================================================================
