----------------------------- MODULE MCReception -----------------------------
(* Small instances of Reception for TLC. *)
EXTENDS Reception

CONSTANTS tm, fm, dm, up, a, b, d1, d2, d3, t1, f1

\* A TLS report, a failure report, an aggregate report for two organisations with a file that cannot be read, and
\* an upload with the same aggregate report and another one
Recipients == [m \in Mail |-> IF m = dm THEN {a, b} ELSE {a}]

Everyone == [m \in Mail |-> {a, b}]

Attached == [m \in Mail |-> CASE m = tm -> {{t1}} [] m = fm -> {{f1}} [] m = dm -> {{d1}, {d3}} [] OTHER -> {{d1}, {d2}}]

\* Nothing goes wrong but that the transaction of a recipient fails, for which handle_DATA answers 451
OnlyTransactionsFail == faults' = faults \/ \E s \in Session : org[s] # NoOrg /\ Abort(s)

TwiceSpec == Init /\ [][Next /\ OnlyTransactionsFail]_vars
=============================================================================
