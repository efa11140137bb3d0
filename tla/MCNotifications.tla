--------------------------- MODULE MCNotifications ---------------------------
(* Small instances of Notifications for TLC. *)
EXTENDS Notifications

\* Every rule sends to every channel
AllChosen == [e \in Event |-> Channel]
=============================================================================
