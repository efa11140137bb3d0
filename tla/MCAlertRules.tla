----------------------------- MODULE MCAlertRules -----------------------------
(* Small instances of AlertRules for TLC. *)
EXTENDS AlertRules
=============================================================================
