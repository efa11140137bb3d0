-------------------------- MODULE AlertRules_proofs --------------------------
(* Proofs about AlertRules, for any rules, subjects, sessions, pause and lag. *)
EXTENDS AlertRules, TLAPS

\* A session that is not at work holds nothing.
IdleIsEmpty == \A w \in Evaluator : pc[w] = "idle" => draft[w] = {} /\ left[w] = {} /\ lag[w] = 0

\* What a session has raised was missing when it looked: every alert about the same finding is new to it, or
\* resolved and older than the pause on the clock of the session.
DraftsWereMissing ==
    \A w \in Evaluator, i \in Id :
        Exists(i) /\ <<owner[i], about[i]>> \in draft[w] /\ i \notin fresh[w] =>
            ~Active(i) /\ (Cooldown > 0 => age[i] - lag[w] >= Cooldown)

Inv == TypeOK /\ IdleIsEmpty /\ DraftsWereMissing /\ NoAlertWithoutRule

-----------------------------------------------------------------------------
(* The first state satisfies the invariant. *)
LEMMA InitInv == Init => Inv
<1> SUFFICES ASSUME Init PROVE Inv
  OBVIOUS
<1> USE DEF Init
<1>1. TypeOK
  <2>1. 0 \in 0 .. Old /\ 0 \in 0 .. MaxLag /\ 0 \in 0 .. MaxFaults
    BY ConstantsAssumption DEF Old
  <2>2. (CHOOSE s \in Subject : TRUE) \in Subject
    BY ConstantsAssumption
  <2> QED
    BY <2>1, <2>2 DEF TypeOK
<1>2. IdleIsEmpty /\ DraftsWereMissing
  BY DEF IdleIsEmpty, DraftsWereMissing
<1>3. NoAlertWithoutRule
  BY ConstantsAssumption DEF NoAlertWithoutRule
<1> QED
  BY <1>1, <1>2, <1>3 DEF Inv

(* New data and the switch of a rule do not touch the alerts or the sessions. *)
LEMMA OutsideInv ==
    ASSUME Inv, UNCHANGED vars \/ (\E r \in Rule, s \in Subject : Change(r, s)) \/ (\E r \in Rule : toggle_rule(r))
    PROVE  Inv'
<1> USE DEF vars, Change, toggle_rule, alerts, session, deletion
<1>0. /\ UNCHANGED <<alerts, session, deletion, faults>>
      /\ bad' \subseteq Rule \X Subject
      /\ rule' \in [Rule -> {"on", "off", "gone"}]
      /\ \A r \in Rule : rule'[r] = "gone" => rule[r] = "gone"
  <2>1. CASE UNCHANGED vars
    BY <2>1 DEF Inv, TypeOK
  <2>2. CASE \E r \in Rule, s \in Subject : Change(r, s)
    BY <2>2 DEF Inv, TypeOK
  <2>3. CASE \E r \in Rule : toggle_rule(r)
    BY <2>3 DEF Inv, TypeOK
  <2> QED
    BY <2>1, <2>2, <2>3
<1> HIDE DEF vars, Change, toggle_rule
<1>1. TypeOK'
  BY <1>0 DEF Inv, TypeOK
<1>2. IdleIsEmpty'
  BY <1>0 DEF Inv, IdleIsEmpty
<1>3. DraftsWereMissing'
  BY <1>0 DEF Inv, DraftsWereMissing, Exists, Active
<1>4. NoAlertWithoutRule'
  <2>1. \A w \in Evaluator : \A x \in draft[w] : x[1] \in Rule
    BY DEF Inv, TypeOK
  <2> QED
    BY <1>0, <2>1 DEF Inv, NoAlertWithoutRule, TypeOK
<1> QED
  BY <1>1, <1>2, <1>3, <1>4 DEF Inv

(* Closing an alert only helps; one that is activated again is new to the sessions that have it in hand. *)
LEMMA AlertInv ==
    ASSUME Inv, NEW i \in Id, acknowledge_event(i) \/ resolve_event(i)
    PROVE  Inv'
<1> USE DEF acknowledge_event, resolve_event, session, deletion
<1>1. TypeOK'
  <2>1. fresh' \in [Evaluator -> SUBSET Id]
    <3>1. CASE resolve_event(i)
      BY <3>1 DEF Inv, TypeOK
    <3>2. CASE acknowledge_event(i)
      <4>1. fresh' = [w \in Evaluator |-> fresh[w] \cup {j \in {i} : <<owner'[j], about'[j]>> \in draft[w]}]
        BY <3>2 DEF Remember
      <4> HIDE DEF acknowledge_event, resolve_event
      <4> QED
        BY <4>1 DEF Inv, TypeOK
    <3> QED
      BY <3>1, <3>2
  <2>2. status' \in [Id -> {"free", "open", "acknowledged", "resolved", "lost"}]
    BY DEF Inv, TypeOK
  <2>3. UNCHANGED <<rule, bad, owner, about, age, pc, left, draft, lag, deleting, cut, doomed, faults>>
    OBVIOUS
  <2> QED
    BY <2>1, <2>2, <2>3 DEF Inv, TypeOK
<1>2. IdleIsEmpty'
  BY DEF Inv, IdleIsEmpty
<1>3. DraftsWereMissing'
  BY DEF Inv, TypeOK, DraftsWereMissing, Exists, Active, Remember
<1>4. NoAlertWithoutRule'
  BY DEF Inv, NoAlertWithoutRule
<1> QED
  BY <1>1, <1>2, <1>3, <1>4 DEF Inv

(* delete_rule waits for the sessions and takes the rule from all alerts that point to it. *)
LEMMA DeleteInv ==
    ASSUME Inv, NEW r \in Rule, delete_rule(r) \/ CascadeReads(r) \/ CommitDeletion(r)
    PROVE  Inv'
<1> USE DEF delete_rule, CascadeReads, CommitDeletion, alerts, session
<1>1. TypeOK'
  BY DEF Inv, TypeOK
<1>2. IdleIsEmpty'
  BY DEF Inv, IdleIsEmpty
<1>3. DraftsWereMissing'
  <2>1. CASE CommitDeletion(r)
    <3> SUFFICES ASSUME NEW w \in Evaluator, NEW i \in Id,
                        Exists(i)', <<owner'[i], about'[i]>> \in draft'[w], i \notin fresh'[w]
                 PROVE  (~Active(i) /\ (Cooldown > 0 => age[i] - lag[w] >= Cooldown))'
      BY DEF DraftsWereMissing
    <3>1. draft[w] \subseteq Rule \X Subject
      BY DEF Inv, TypeOK
    <3>2. owner'[i] \in Rule
      BY <2>1, <3>1
    <3>3. owner'[i] = owner[i]
      BY <2>1, <3>2, ConstantsAssumption DEF Inv, TypeOK
    <3> QED
      BY <2>1, <3>3 DEF Inv, TypeOK, DraftsWereMissing, Exists, Active
  <2>2. CASE UNCHANGED <<alerts, session>>
    BY <2>2 DEF Inv, DraftsWereMissing, Exists, Active
  <2> QED
    BY <2>1, <2>2
<1>4. NoAlertWithoutRule'
  <2>1. CASE CommitDeletion(r)
    <3>1. \A w \in Evaluator : \A x \in draft[w] : x[1] # r
      <4> SUFFICES ASSUME NEW w \in Evaluator, NEW x \in draft[w], x[1] = r PROVE FALSE
        OBVIOUS
      <4>1. x[2] \in Subject /\ x = <<r, x[2]>>
        BY DEF Inv, TypeOK
      <4> QED
        BY <2>1, <4>1 DEF InHand
    <3> QED
      BY <2>1, <3>1, ConstantsAssumption DEF Inv, TypeOK, NoAlertWithoutRule
  <2>2. CASE UNCHANGED <<rule, alerts, session>>
    BY <2>2 DEF Inv, NoAlertWithoutRule
  <2> QED
    BY <2>1, <2>2
<1> QED
  BY <1>1, <1>2, <1>3, <1>4 DEF Inv

(* A session begins, leaves a rule out or is rolled back: it holds no more than before. *)
LEMMA SessionInv ==
    ASSUME Inv, NEW w \in Evaluator,
           evaluate_rules_for_org(w) \/ Rollback(w) \/ (\E r \in Rule : RuleBreaks(w, r))
    PROVE  Inv'
<1> USE DEF evaluate_rules_for_org, Rollback, RuleBreaks, Leave, alerts, deletion
<1>1. TypeOK'
  BY ConstantsAssumption DEF Inv, TypeOK
<1>2. IdleIsEmpty'
  BY DEF Inv, IdleIsEmpty, TypeOK
<1>3. DraftsWereMissing'
  BY DEF Inv, TypeOK, DraftsWereMissing, Exists, Active
<1>4. NoAlertWithoutRule'
  BY DEF Inv, TypeOK, NoAlertWithoutRule
<1> QED
  BY <1>1, <1>2, <1>3, <1>4 DEF Inv

(* What a session adds to its draft is missing at that moment. *)
LEMMA CheckInv ==
    ASSUME Inv, NEW w \in Evaluator, NEW r \in Rule, CheckRule(w, r)
    PROVE  Inv'
<1> USE DEF alerts, deletion
<1>1. PICK found \in SUBSET Subject :
        draft' = [draft EXCEPT ![w] =
            @ \cup {<<r, s>> : s \in {x \in found : rule[r] # "gone" /\ ~_is_duplicate(w, r, x) /\ ~_in_pause(w, r, x)}}]
  BY DEF CheckRule
<1>2. \A v \in Evaluator, x \in Rule \X Subject : x \in draft'[v] =>
        \/ x \in draft[v]
        \/ /\ v = w /\ x[1] = r /\ rule[r] # "gone"
           /\ ~_is_duplicate(w, r, x[2]) /\ ~_in_pause(w, r, x[2])
  BY <1>1 DEF Inv, TypeOK
<1>3. TypeOK'
  BY <1>1 DEF Inv, TypeOK, CheckRule
<1>4. IdleIsEmpty'
  BY <1>1 DEF Inv, IdleIsEmpty, TypeOK, CheckRule
<1>5. DraftsWereMissing'
  <2> SUFFICES ASSUME NEW v \in Evaluator, NEW i \in Id,
                      Exists(i)', <<owner'[i], about'[i]>> \in draft'[v], i \notin fresh'[v]
               PROVE  (~Active(i) /\ (Cooldown > 0 => age[i] - lag[v] >= Cooldown))'
    BY DEF DraftsWereMissing
  <2>1. UNCHANGED <<status, owner, about, age, lag, fresh>>
    BY DEF CheckRule
  <2>2. CASE <<owner[i], about[i]>> \in draft[v]
    BY <2>1, <2>2 DEF Inv, DraftsWereMissing, Exists, Active
  <2>3. CASE <<owner[i], about[i]>> \notin draft[v]
    <3>1. <<owner[i], about[i]>> \in Rule \X Subject
      BY <1>3, <2>1 DEF TypeOK
    <3>2. v = w /\ owner[i] = r /\ ~_is_duplicate(w, r, about[i]) /\ ~_in_pause(w, r, about[i])
      BY <1>2, <2>1, <2>3, <3>1
    <3>3. i \in Twins(r, about[i])
      BY <2>1, <3>2 DEF Twins, Exists
    <3>4. age[i] \in Int /\ lag[w] \in Int /\ Cooldown \in Int
      BY ConstantsAssumption DEF Inv, TypeOK
    <3> QED
      BY <2>1, <3>2, <3>3, <3>4 DEF _is_duplicate, _in_pause, Active
  <2> QED
    BY <2>2, <2>3
<1>6. NoAlertWithoutRule'
  BY <1>2, <1>3 DEF Inv, NoAlertWithoutRule, TypeOK, CheckRule
<1> QED
  BY <1>3, <1>4, <1>5, <1>6 DEF Inv

(* A commit makes drafts of the session into alerts of its own rules and subjects, each with one free id. *)
LEMMA CommitAdds ==
    ASSUME Inv, NEW w \in Evaluator, Commit(w)
    PROVE  \E new \in SUBSET Id :
            /\ \A i \in new : /\ status[i] = "free" /\ status'[i] = "open" /\ age'[i] = lag[w]
                              /\ <<owner'[i], about'[i]>> \in draft[w] /\ owner'[i] \in Rule /\ about'[i] \in Subject
                              /\ \A v \in Evaluator : v # w /\ <<owner'[i], about'[i]>> \in draft[v] => i \in fresh'[v]
            /\ \A i \in Id \ new : /\ status'[i] = status[i] /\ owner'[i] = owner[i]
                                   /\ about'[i] = about[i] /\ age'[i] = age[i]
            /\ status' \in [Id -> {"free", "open", "acknowledged", "resolved", "lost"}]
            /\ owner' \in [Id -> Rule \cup {NoRule}]
            /\ about' \in [Id -> Subject]
            /\ age' \in [Id -> 0 .. Old]
            /\ fresh' \in [Evaluator -> SUBSET Id]
            /\ fresh'[w] = {} /\ \A v \in Evaluator \ {w} : fresh[v] \subseteq fresh'[v]
<1>1. PICK id \in [draft[w] -> {i \in Id : status[i] = "free"}] :
        LET new == {id[x] : x \in draft[w]}
            of(i) == CHOOSE x \in draft[w] : id[x] = i
        IN  /\ status' = [i \in Id |-> IF i \in new THEN "open" ELSE status[i]]
            /\ owner' = [i \in Id |-> IF i \in new THEN RuleOf(of(i)) ELSE owner[i]]
            /\ about' = [i \in Id |-> IF i \in new THEN SubjectOf(of(i)) ELSE about[i]]
            /\ age' = [i \in Id |-> IF i \in new THEN lag[w] ELSE age[i]]
            /\ fresh' = [v \in Evaluator |-> IF v = w THEN {} ELSE fresh[v] \cup {i \in new : of(i) \in draft[v]}]
  BY DEF Commit
<1> DEFINE new == {id[x] : x \in draft[w]}
           of(i) == CHOOSE x \in draft[w] : id[x] = i
<1>2. \A i \in new : of(i) \in draft[w] /\ i \in Id /\ status[i] = "free"
  OBVIOUS
<1>3. draft[w] \subseteq Rule \X Subject
  BY DEF Inv, TypeOK
<1>4. \A i \in new : /\ RuleOf(of(i)) \in Rule /\ SubjectOf(of(i)) \in Subject
                     /\ of(i) = <<RuleOf(of(i)), SubjectOf(of(i))>>
  BY <1>2, <1>3 DEF RuleOf, SubjectOf
<1>5. lag[w] \in 0 .. Old
  BY ConstantsAssumption DEF Inv, TypeOK, Old
<1>6. /\ status' = [i \in Id |-> IF i \in new THEN "open" ELSE status[i]]
      /\ owner' = [i \in Id |-> IF i \in new THEN RuleOf(of(i)) ELSE owner[i]]
      /\ about' = [i \in Id |-> IF i \in new THEN SubjectOf(of(i)) ELSE about[i]]
      /\ age' = [i \in Id |-> IF i \in new THEN lag[w] ELSE age[i]]
      /\ fresh' = [v \in Evaluator |-> IF v = w THEN {} ELSE fresh[v] \cup {i \in new : of(i) \in draft[v]}]
  BY <1>1
<1> HIDE DEF new, of
<1>7. new \in SUBSET Id
  BY <1>2
<1>8. \A i \in new : <<owner'[i], about'[i]>> = of(i)
  BY <1>4, <1>6, <1>7
<1> WITNESS new \in SUBSET Id
<1> QED
  BY <1>2, <1>4, <1>5, <1>6, <1>7, <1>8 DEF Inv, TypeOK

(* A commit keeps the invariant: its alerts are new to every other session that has raised the same. *)
LEMMA CommitInv ==
    ASSUME Inv, NEW w \in Evaluator, Commit(w)
    PROVE  Inv'
<1>1. PICK new \in SUBSET Id :
            /\ \A i \in new : /\ status[i] = "free" /\ status'[i] = "open" /\ age'[i] = lag[w]
                              /\ <<owner'[i], about'[i]>> \in draft[w] /\ owner'[i] \in Rule /\ about'[i] \in Subject
                              /\ \A v \in Evaluator : v # w /\ <<owner'[i], about'[i]>> \in draft[v] => i \in fresh'[v]
            /\ \A i \in Id \ new : /\ status'[i] = status[i] /\ owner'[i] = owner[i]
                                   /\ about'[i] = about[i] /\ age'[i] = age[i]
            /\ status' \in [Id -> {"free", "open", "acknowledged", "resolved", "lost"}]
            /\ owner' \in [Id -> Rule \cup {NoRule}]
            /\ about' \in [Id -> Subject]
            /\ age' \in [Id -> 0 .. Old]
            /\ fresh' \in [Evaluator -> SUBSET Id]
            /\ fresh'[w] = {} /\ \A v \in Evaluator \ {w} : fresh[v] \subseteq fresh'[v]
  BY CommitAdds
<1>2. /\ UNCHANGED <<rule, bad, deleting, cut, doomed, faults>>
      /\ pc' = [pc EXCEPT ![w] = "idle"]
      /\ left' = [left EXCEPT ![w] = {}]
      /\ draft' = [draft EXCEPT ![w] = {}]
      /\ lag' = [lag EXCEPT ![w] = 0]
  BY DEF Commit, Leave, deletion
<1>3. TypeOK'
  BY <1>1, <1>2, ConstantsAssumption DEF Inv, TypeOK
<1>4. IdleIsEmpty'
  BY <1>2 DEF Inv, IdleIsEmpty, TypeOK
<1>5. DraftsWereMissing'
  <2> SUFFICES ASSUME NEW v \in Evaluator, NEW i \in Id,
                      Exists(i)', <<owner'[i], about'[i]>> \in draft'[v], i \notin fresh'[v]
               PROVE  (~Active(i) /\ (Cooldown > 0 => age[i] - lag[v] >= Cooldown))'
    BY DEF DraftsWereMissing
  <2>1. v # w /\ draft'[v] = draft[v] /\ lag'[v] = lag[v]
    BY <1>2 DEF Inv, TypeOK
  <2>2. i \notin new
    BY <1>1, <2>1
  <2> QED
    BY <1>1, <2>1, <2>2 DEF Inv, DraftsWereMissing, Exists, Active
<1>6. NoAlertWithoutRule'
  <2>1. \A i \in new : rule[owner'[i]] # "gone"
    <3> SUFFICES ASSUME NEW i \in new PROVE rule[owner'[i]] # "gone"
      OBVIOUS
    <3>1. PICK x \in draft[w] : x = <<owner'[i], about'[i]>>
      BY <1>1
    <3> QED
      BY <3>1 DEF Inv, NoAlertWithoutRule
  <2> QED
    BY <1>1, <1>2, <2>1 DEF Inv, TypeOK, NoAlertWithoutRule
<1> QED
  BY <1>3, <1>4, <1>5, <1>6 DEF Inv

(* Alerts and sessions grow older together; an alert that has stopped ageing is older than any lag. *)
LEMMA TickInv ==
    ASSUME Inv, Tick
    PROVE  Inv'
<1>1. TypeOK'
  BY ConstantsAssumption DEF Inv, TypeOK, Tick, deletion, Old
<1>2. IdleIsEmpty'
  BY DEF Inv, IdleIsEmpty, Tick, TypeOK
<1>3. DraftsWereMissing'
  <2> SUFFICES ASSUME NEW w \in Evaluator, NEW i \in Id,
                      Exists(i)', <<owner'[i], about'[i]>> \in draft'[w], i \notin fresh'[w]
               PROVE  (~Active(i) /\ (Cooldown > 0 => age[i] - lag[w] >= Cooldown))'
    BY DEF DraftsWereMissing
  <2>1. Exists(i) /\ <<owner[i], about[i]>> \in draft[w] /\ i \notin fresh[w] /\ status'[i] = status[i]
    BY DEF Tick, Exists
  <2>2. pc[w] = "checking"
    BY <2>1 DEF Inv, IdleIsEmpty, TypeOK
  <2>3. age[i] \in 0 .. Old /\ lag[w] \in 0 .. MaxLag /\ Cooldown \in Nat /\ MaxLag \in Nat
    BY ConstantsAssumption DEF Inv, TypeOK
  <2>4. lag[w] < MaxLag /\ lag'[w] = lag[w] + 1
    BY <2>2 DEF Tick
  <2>5. age'[i] = IF age[i] < Old THEN age[i] + 1 ELSE age[i]
    BY <2>1 DEF Tick
  <2>6. ~Active(i) /\ (Cooldown > 0 => age[i] - lag[w] >= Cooldown)
    BY <2>1 DEF Inv, DraftsWereMissing
  <2> QED
    BY <2>1, <2>3, <2>4, <2>5, <2>6 DEF Active, Old
<1>4. NoAlertWithoutRule'
  BY DEF Inv, NoAlertWithoutRule, Tick
<1> QED
  BY <1>1, <1>2, <1>3, <1>4 DEF Inv

(* The invariant holds in every reachable state. *)
THEOREM InductiveInvariant == Spec => []Inv
<1>1. Inv /\ [Next]_vars => Inv'
  BY OutsideInv, AlertInv, DeleteInv, SessionInv, CheckInv, CommitInv, TickInv DEF Next, Evaluate
<1> QED
  BY <1>1, InitInv, PTL DEF Spec

-----------------------------------------------------------------------------
(* The variables keep their types. *)
THEOREM TypeCorrect == Spec => []TypeOK
BY InductiveInvariant, PTL DEF Inv

(* No alert, committed or in the hands of a session, belongs to a rule that was deleted. *)
THEOREM RulesOutliveTheirAlerts == Spec => []NoAlertWithoutRule
BY InductiveInvariant, PTL DEF Inv

(* An alert comes by the commit of a session that had raised it, at the time on the clock of that session. *)
LEMMA ComesByCommit ==
    ASSUME Inv, [Next]_vars, NEW i \in Id, Comes(i)
    PROVE  \E w \in Evaluator : /\ pc[w] = "checking" /\ pc'[w] = "idle"
                                /\ <<owner'[i], about'[i]>> \in draft[w]
                                /\ age'[i] = lag[w]
<1>1. PICK w \in Evaluator : Commit(w)
  BY DEF Comes, Next, vars, alerts, Change, acknowledge_event, resolve_event, toggle_rule, delete_rule, CascadeReads,
     CommitDeletion, Evaluate, evaluate_rules_for_org, CheckRule, Rollback, RuleBreaks, Tick, Exists, Inv, TypeOK
<1>2. \A j \in Id : status[j] = "free" /\ status'[j] = "open" =>
        <<owner'[j], about'[j]>> \in draft[w] /\ age'[j] = lag[w]
  BY <1>1, CommitAdds
<1>3. pc[w] = "checking" /\ pc'[w] = "idle"
  BY <1>1 DEF Commit, Leave, Inv, TypeOK
<1> QED
  BY <1>2, <1>3 DEF Comes

(* A finding is reported while an alert of it is active only if that alert came, or came back, after the check. *)
THEOREM RepeatsComeFromRaces == Spec => RepeatsAreRaces
<1>1. Inv /\ [Next]_vars => [\A i, j \in Id : Comes(i) /\ Same(i, j) /\ Active(j) => New(j)]_vars
  <2> SUFFICES ASSUME Inv, [Next]_vars, NEW i \in Id, NEW j \in Id, Comes(i), Same(i, j), Active(j)
               PROVE  New(j)
    OBVIOUS
  <2>1. PICK w \in Evaluator : /\ pc[w] = "checking" /\ pc'[w] = "idle"
                               /\ <<owner'[i], about'[i]>> \in draft[w]
    BY ComesByCommit
  <2> QED
    BY <2>1 DEF Inv, DraftsWereMissing, Same, New
<1> QED
  BY <1>1, InductiveInvariant, PTL DEF Spec, RepeatsAreRaces

(* Two alerts about one finding are a pause apart, with the same exception. *)
THEOREM PausesAreKept == Spec => PauseIsKept
<1>1. Inv /\ [Next]_vars => [\A i, j \in Id : Cooldown > 0 /\ Comes(i) /\ Same(i, j) =>
                                age[j] - age'[i] >= Cooldown \/ New(j)]_vars
  <2> SUFFICES ASSUME Inv, [Next]_vars, NEW i \in Id, NEW j \in Id, Cooldown > 0, Comes(i), Same(i, j), ~New(j)
               PROVE  age[j] - age'[i] >= Cooldown
    OBVIOUS
  <2>1. PICK w \in Evaluator : /\ pc[w] = "checking" /\ pc'[w] = "idle"
                               /\ <<owner'[i], about'[i]>> \in draft[w]
                               /\ age'[i] = lag[w]
    BY ComesByCommit
  <2> QED
    BY <2>1 DEF Inv, DraftsWereMissing, Same, New
<1> QED
  BY <1>1, InductiveInvariant, PTL DEF Spec, PauseIsKept
=============================================================================
