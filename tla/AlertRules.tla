------------------------------ MODULE AlertRules ------------------------------
(***************************************************************************)
(* Alert rules (evaluate_rules_for_org in app/services/alert_service.py,   *)
(* app/routers/alerts.py).                                                 *)
(*                                                                         *)
(* A rule is evaluated by the scheduler, by every upload and by changes of *)
(* a sender, in any number of sessions at a time.  Each session checks     *)
(* rule after rule against what is committed, keeps the alerts it raises   *)
(* to itself and commits them together (READ COMMITTED); nothing in the    *)
(* schema keeps two sessions from raising the same alert.                  *)
(*                                                                         *)
(* A subject is the pair of domain and source a finding is about.  Time    *)
(* is kept as the age of an alert and as the lag of a session behind the   *)
(* clock it read, so that a behaviour may go on for ever.                  *)
(***************************************************************************)
EXTENDS Integers, FiniteSets

CONSTANTS
    Rule,        \* alert rules of the organisation
    Subject,     \* what findings are about
    Id,          \* bound: the alerts that may ever be raised
    Evaluator,   \* sessions that evaluate rules: scheduler, uploads, requests
    Cooldown,    \* cooldown_minutes of the rules
    MaxLag,      \* bound: longest time from reading the clock to the commit of a session
    MaxFaults,   \* bound: rules that break and sessions that are rolled back
    NoRule       \* NULL in rule_id

ASSUME ConstantsAssumption ==
    /\ Subject # {}
    /\ NoRule \notin Rule \cup (Rule \X {"cut", "loaded"})
    /\ Cooldown \in Nat
    /\ MaxLag \in Nat
    /\ MaxFaults \in Nat

\* An alert of this age is out of every pause, however far a session lags behind
Old == Cooldown + MaxLag

VARIABLES
    rule,        \* is_active of each rule, or gone
    bad,         \* what the evaluator of each rule would find in the data now
    status,      \* status of each alert: free ids are not used yet, lost ones were deleted
    owner,       \* rule_id of each alert
    about,       \* the subject of each alert
    age,         \* time since created_at of each alert
    pc,          \* what each session does
    left,        \* rules a session has loaded and not checked
    draft,       \* alerts a session has raised and not committed, by rule and subject
    lag,         \* time since a session read its clock
    deleting,    \* the rule delete_rule is at, and how far it is
    cut,         \* alerts whose rule_id it has set to NULL
    doomed,      \* alerts it has found below the rule
    fresh,       \* history: alerts that came or came back after a session looked for them
    faults       \* history: rules that broke and sessions that were rolled back

alerts == <<status, owner, about, age>>
session == <<pc, left, draft, lag, fresh>>
deletion == <<deleting, cut, doomed>>
vars == <<rule, bad, alerts, session, deletion, faults>>

TypeOK ==
    /\ rule \in [Rule -> {"on", "off", "gone"}]
    /\ bad \subseteq Rule \X Subject
    /\ status \in [Id -> {"free", "open", "acknowledged", "resolved", "lost"}]
    /\ owner \in [Id -> Rule \cup {NoRule}]
    /\ about \in [Id -> Subject]
    /\ age \in [Id -> 0 .. Old]
    /\ pc \in [Evaluator -> {"idle", "checking"}]
    /\ left \in [Evaluator -> SUBSET Rule]
    /\ draft \in [Evaluator -> SUBSET (Rule \X Subject)]
    /\ lag \in [Evaluator -> 0 .. MaxLag]
    /\ deleting \in (Rule \X {"cut", "loaded"}) \cup {NoRule}
    /\ cut \subseteq Id
    /\ doomed \subseteq Id
    /\ fresh \in [Evaluator -> SUBSET Id]
    /\ faults \in 0 .. MaxFaults

-----------------------------------------------------------------------------
Init ==
    /\ rule = [r \in Rule |-> "on"]
    /\ bad = {}
    /\ status = [i \in Id |-> "free"]
    /\ owner = [i \in Id |-> NoRule]
    /\ about = [i \in Id |-> CHOOSE s \in Subject : TRUE]
    /\ age = [i \in Id |-> 0]
    /\ pc = [w \in Evaluator |-> "idle"]
    /\ left = [w \in Evaluator |-> {}]
    /\ draft = [w \in Evaluator |-> {}]
    /\ lag = [w \in Evaluator |-> 0]
    /\ deleting = NoRule
    /\ cut = {}
    /\ doomed = {}
    /\ fresh = [w \in Evaluator |-> {}]
    /\ faults = 0

Exists(i) == status[i] \in {"open", "acknowledged", "resolved"}

\* ACTIVE_STATUSES
Active(i) == status[i] \in {"open", "acknowledged"}

\* _same_subject, for the alerts of a rule
Twins(r, s) == {i \in Id : Exists(i) /\ owner[i] = r /\ about[i] = s}

-----------------------------------------------------------------------------
(* What people and new data change *)

\* A report arrives, or leaves the time window of a rule
Change(r, s) ==
    /\ bad' = IF <<r, s>> \in bad THEN bad \ {<<r, s>>} ELSE bad \cup {<<r, s>>}
    /\ UNCHANGED <<rule, alerts, session, deletion, faults>>

\* Alerts that a session has looked for in vain and that are there now
Remember(new) ==
    fresh' = [w \in Evaluator |-> fresh[w] \cup {i \in new : <<owner'[i], about'[i]>> \in draft[w]}]

\* acknowledge_event: whatever the status was, so a resolved alert is active again
acknowledge_event(i) ==
    /\ Exists(i)
    /\ status' = [status EXCEPT ![i] = "acknowledged"]
    /\ UNCHANGED <<rule, bad, owner, about, age, pc, left, draft, lag, deletion, faults>>
    /\ Remember({i})

\* resolve_event.  Bound: only as long as the model has an id left for the next alert.
resolve_event(i) ==
    /\ Exists(i)
    /\ \E j \in Id : status[j] = "free"
    /\ status' = [status EXCEPT ![i] = "resolved"]
    /\ UNCHANGED <<rule, bad, owner, about, age, session, deletion, faults>>

\* toggle_rule
toggle_rule(r) ==
    /\ rule[r] # "gone"
    /\ rule' = [rule EXCEPT ![r] = IF @ = "on" THEN "off" ELSE "on"]
    /\ UNCHANGED <<bad, alerts, session, deletion, faults>>

-----------------------------------------------------------------------------
(* delete_rule, statement by statement *)

\* A DELETE that nothing holds up
NobodyInHand(r) == FALSE

\* A session has flushed alerts of the rule; their foreign key holds the row of the rule
InHand(r) == \E w \in Evaluator, s \in Subject : <<r, s>> \in draft[w]

\* UPDATE of rule_id, not committed
delete_rule(r) ==
    /\ deleting = NoRule
    /\ rule[r] # "gone"
    /\ deleting' = <<r, "cut">>
    /\ cut' = {i \in Id : Exists(i) /\ owner[i] = r}
    /\ UNCHANGED <<rule, bad, alerts, session, doomed, faults>>

\* db.delete: the ORM cascade reads the alerts the rule has now
CascadeReads(r) ==
    /\ deleting = <<r, "cut">>
    /\ deleting' = <<r, "loaded">>
    /\ doomed' = {i \in Id \ cut : Exists(i) /\ owner[i] = r}
    /\ UNCHANGED <<rule, bad, alerts, session, cut, faults>>

\* The DELETEs and the commit.  The foreign key makes them wait for sessions that have alerts of the rule in
\* hand; what these commit loses its rule by ON DELETE SET NULL.
CommitDeletion(r) ==
    /\ deleting = <<r, "loaded">>
    /\ ~InHand(r)
    /\ rule' = [rule EXCEPT ![r] = "gone"]
    /\ status' = [i \in Id |-> IF i \in doomed THEN "lost" ELSE status[i]]
    /\ owner' = [i \in Id |-> IF owner[i] = r THEN NoRule ELSE owner[i]]
    /\ deleting' = NoRule
    /\ cut' = {}
    /\ doomed' = {}
    /\ UNCHANGED <<bad, about, age, session, faults>>

-----------------------------------------------------------------------------
(* evaluate_rules_for_org *)

\* The session reads the clock and loads the active rules
evaluate_rules_for_org(w) ==
    /\ pc[w] = "idle"
    /\ pc' = [pc EXCEPT ![w] = "checking"]
    /\ left' = [left EXCEPT ![w] = {r \in Rule : rule[r] = "on"}]
    /\ UNCHANGED <<rule, bad, alerts, draft, lag, fresh, deletion, faults>>

\* A check that only knows open alerts
OnlyOpenBlocks(w, r, s) == \E i \in Twins(r, s) : status[i] = "open"

\* _is_duplicate
_is_duplicate(w, r, s) == \E i \in Twins(r, s) : Active(i)

\* A pause without its limit: one alert and never again
PauseForEver(w, r, s) == Cooldown > 0 /\ Twins(r, s) # {}

\* A pause that forgets how old the clock of the session is
PauseByTheWall(w, r, s) == Cooldown > 0 /\ \E i \in Twins(r, s) : age[i] < Cooldown

\* _in_pause: an alert younger than the pause, on the clock of the session
_in_pause(w, r, s) == Cooldown > 0 /\ \E i \in Twins(r, s) : age[i] - lag[w] < Cooldown

\* One rule in its savepoint: the findings in the data, perhaps more in the import the session has not yet
\* committed, less what is reported already.  A rule that was deleted in the meantime fails on the foreign key.
CheckRule(w, r) ==
    /\ r \in left[w]
    /\ left' = [left EXCEPT ![w] = @ \ {r}]
    /\ \E found \in SUBSET Subject :
        /\ {s \in Subject : <<r, s>> \in bad} \subseteq found
        /\ draft' = [draft EXCEPT ![w] =
            @ \cup {<<r, s>> : s \in {x \in found : rule[r] # "gone" /\ ~_is_duplicate(w, r, x) /\ ~_in_pause(w, r, x)}}]
    /\ UNCHANGED <<rule, bad, alerts, pc, lag, fresh, deletion, faults>>

\* A rule that breaks is logged and left out
RuleBreaks(w, r) ==
    /\ r \in left[w]
    /\ faults < MaxFaults
    /\ faults' = faults + 1
    /\ left' = [left EXCEPT ![w] = @ \ {r}]
    /\ UNCHANGED <<rule, bad, alerts, pc, draft, lag, fresh, deletion>>

\* The session is over
Leave(w) ==
    /\ pc' = [pc EXCEPT ![w] = "idle"]
    /\ left' = [left EXCEPT ![w] = {}]
    /\ draft' = [draft EXCEPT ![w] = {}]
    /\ lag' = [lag EXCEPT ![w] = 0]

\* The rule and the subject of an alert a session has raised
RuleOf(x) == x[1]

SubjectOf(x) == x[2]

\* The commit: each alert gets an id of its own
Commit(w) ==
    /\ pc[w] = "checking"
    /\ left[w] = {}
    /\ \E id \in [draft[w] -> {i \in Id : status[i] = "free"}] :
        /\ \A x, y \in draft[w] : id[x] = id[y] => x = y
        /\ LET new == {id[x] : x \in draft[w]}
               of(i) == CHOOSE x \in draft[w] : id[x] = i
           IN  /\ status' = [i \in Id |-> IF i \in new THEN "open" ELSE status[i]]
               /\ owner' = [i \in Id |-> IF i \in new THEN RuleOf(of(i)) ELSE owner[i]]
               /\ about' = [i \in Id |-> IF i \in new THEN SubjectOf(of(i)) ELSE about[i]]
               /\ age' = [i \in Id |-> IF i \in new THEN lag[w] ELSE age[i]]
               /\ fresh' = [v \in Evaluator |->
                    IF v = w THEN {} ELSE fresh[v] \cup {i \in new : of(i) \in draft[v]}]
    /\ Leave(w)
    /\ UNCHANGED <<rule, bad, deletion, faults>>

\* The session is rolled back
Rollback(w) ==
    /\ pc[w] = "checking"
    /\ faults < MaxFaults
    /\ faults' = faults + 1
    /\ Leave(w)
    /\ fresh' = [fresh EXCEPT ![w] = {}]
    /\ UNCHANGED <<rule, bad, alerts, deletion>>

\* Time passes for the alerts and for the sessions that are at work
Tick ==
    /\ \A w \in Evaluator : pc[w] = "checking" => lag[w] < MaxLag
    /\ age' = [i \in Id |-> IF Exists(i) /\ age[i] < Old THEN age[i] + 1 ELSE age[i]]
    /\ lag' = [w \in Evaluator |-> IF pc[w] = "checking" THEN lag[w] + 1 ELSE lag[w]]
    /\ UNCHANGED <<rule, bad, status, owner, about, pc, left, draft, fresh, deletion, faults>>

Evaluate(w) == evaluate_rules_for_org(w) \/ (\E r \in Rule : CheckRule(w, r)) \/ Commit(w)

Next ==
    \/ \E r \in Rule, s \in Subject : Change(r, s)
    \/ \E i \in Id : acknowledge_event(i) \/ resolve_event(i)
    \/ \E r \in Rule : toggle_rule(r) \/ delete_rule(r) \/ CascadeReads(r) \/ CommitDeletion(r)
    \/ \E w \in Evaluator : Evaluate(w) \/ Rollback(w) \/ (\E r \in Rule : RuleBreaks(w, r))
    \/ Tick

Spec == Init /\ [][Next]_vars

\* The alerts job gets its turn again and again (EveryTurnComes of Scheduler), a session that began goes on, and
\* time passes.
Fairness ==
    /\ WF_vars(Tick)
    /\ \A w \in Evaluator : WF_vars(Evaluate(w))

FairSpec == Spec /\ Fairness

-----------------------------------------------------------------------------
(* Properties *)

\* The alerts a commit adds
Comes(i) == status[i] = "free" /\ status'[i] = "open"

\* i and j report the same finding of the same rule
Same(i, j) == i # j /\ owner'[i] = owner[j] /\ about'[i] = about[j] /\ Exists(j)

\* A session remembers j as new since it checked the rule; read before the step that commits
New(j) == \E w \in Evaluator : pc[w] = "checking" /\ pc'[w] = "idle" /\ j \in fresh[w]

\* A finding is reported again only if its last alert is resolved; the one way around it is an alert that came,
\* or was activated again, between the check of a session and its commit (README, "erst wieder, wenn der vorige
\* Alarm erledigt ist").
RepeatsAreRaces ==
    [][\A i, j \in Id : Comes(i) /\ Same(i, j) /\ Active(j) => New(j)]_vars

\* The same for the pause of a rule that has one: created_at of two alerts about one finding are a pause apart.
PauseIsKept ==
    [][\A i, j \in Id : Cooldown > 0 /\ Comes(i) /\ Same(i, j) => age[j] - age'[i] >= Cooldown \/ New(j)]_vars

\* No alert points to a rule that is gone, and none was raised for it in the end: the rule waits for the sessions
\* that have alerts of it in hand.
NoAlertWithoutRule ==
    /\ \A i \in Id : owner[i] \in Rule => rule[owner[i]] # "gone"
    /\ \A w \in Evaluator : \A x \in draft[w] : rule[x[1]] # "gone"

\* A finding that lasts is reported: while the rule is on, an alert of it becomes active, or the finding or the
\* rule goes away.  Pauses end, and a rule that broke once is checked again.
FindingIsReported ==
    \A r \in Rule, s \in Subject :
        <<r, s>> \in bad ~> (<<r, s>> \notin bad \/ rule[r] # "on" \/ (\E i \in Twins(r, s) : Active(i)))

\* delete_rule: alarms stay in the history without their rule.
HistoryStays == \A i \in Id : status[i] # "lost"
=============================================================================
