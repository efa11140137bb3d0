-------------------------------- MODULE Outbox --------------------------------
(***************************************************************************)
(* What notifications promise about each delivery                          *)
(* (app/models/notification.py, app/services/notification.py): it waits    *)
(* until it gets one outcome, which is true and stays, and only faults     *)
(* send it more than once.                                                 *)
(***************************************************************************)
EXTENDS Integers

CONSTANT Delivery

VARIABLES
    state,      \* what became of each delivery
    copies,     \* how often its message arrived
    mishaps     \* runs that were lost after they had sent, and answers that were

Outcome == {"sent", "skipped", "dropped"}

Init ==
    /\ state = [d \in Delivery |-> "none"]
    /\ copies = [d \in Delivery |-> 0]
    /\ mishaps = 0

\* Without a mishap a message arrived exactly if its delivery counts as sent
True(d, outcome) == IF outcome = "sent" THEN copies[d] >= 1 ELSE copies[d] <= mishaps

\* Deliveries are queued, or get their outcomes, at once or in groups
Settle ==
    /\ \A d \in Delivery : \/ state'[d] = state[d]
                           \/ state[d] = "none" /\ state'[d] = "waiting"
                           \/ state[d] = "waiting" /\ state'[d] \in Outcome /\ True(d, state'[d])
    /\ state' = [d \in Delivery |-> state'[d]]
    /\ UNCHANGED <<copies, mishaps>>

\* Messages arrive, once for a delivery that waits and once more after every mishap; the answer may get lost
Arrive ==
    /\ \A d \in Delivery : \/ copies'[d] = copies[d]
                           \/ copies'[d] = copies[d] + 1 /\ state[d] = "waiting" /\ copies[d] <= mishaps
    /\ copies' = [d \in Delivery |-> copies'[d]]
    /\ mishaps' \in {mishaps, mishaps + 1}
    /\ UNCHANGED state

Next == Settle \/ Arrive

Spec == Init /\ [][Next]_<<state, copies, mishaps>>
===============================================================================
