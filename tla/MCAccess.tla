------------------------------- MODULE MCAccess -------------------------------
(* The accounts alone, for TLC. *)
EXTENDS Accounts

OneAddress == [b \in Browser |-> "ip"]
=============================================================================
