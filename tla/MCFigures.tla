------------------------------ MODULE MCFigures ------------------------------
(* A small organisation with its reports, limits and rules for Agreement, for MCParts. *)
EXTENDS Agreement

DefaultsOf == [high_volume_source |-> 3]

RecordOf(ip, count, spf, dkim) ==
    [ip |-> ip, count |-> count, spf |-> spf, dkim |-> dkim, disposition |-> IF spf \/ dkim THEN "none" ELSE "reject"]

\* All mail passes, or half of it; a row may count nothing
EntriesOf == {<<RecordOf(2, 1, TRUE, FALSE), RecordOf(1, 0, FALSE, FALSE)>>, <<RecordOf(1, 2, FALSE, TRUE), RecordOf(1, 2, FALSE, FALSE)>>}

PolicyTags == {[p |-> p, pct |-> -1, testing |-> FALSE, rfc9990 |-> FALSE] : p \in {"none", "quarantine"}}

ElsewhereOf == {[address |-> TRUE, alerts |-> {[domain |-> "a"]}, tls |-> {}, imports |-> {}, rejections |-> {}]}

SenderNames == {Nobody}

\* In percent; the passing and the failing shares of a pair leave no gap, as those of the .env do not.  Those for a stricter policy
\* are in order, with the shares of one report of each kind, or the other way round, as only a .env can have them, with the
\* shares of a report of the second kind.
LimitSets == {[WINDOW_DAYS |-> 2, STALE_REPORT_DAYS |-> 1, MIN_MESSAGES |-> 2, FAIL_MIN_MESSAGES |-> 2, QUARANTINE_PASS_RATE |-> 51,
               REJECT_PASS_RATE |-> strict, HIGH_FAIL_RATE |-> high, ENFORCED_FAIL_RATE |-> 100 - strict, SPF_ONLY_SHARE |-> 5]
              : <<strict, high>> \in {<<60, 49>>, <<50, 50>>}}

\* Rules for all domains, those about volumes also for one, and those that a page of advice has to know of
RuleSets ==
    {RuleOf("dmarc_fail_rate", Whole, n, 50, 2) : n \in 1 .. 3}
    \cup {RuleOf("spf_fail_rate", Whole, 1, 50, 2), RuleOf("dkim_fail_rate", Whole, 3, 50, 2)}
    \cup {RuleOf(t, Whole, n, 4, 0) : t \in {"new_unknown_source", "high_volume_source"}, n \in 1 .. 3}
    \cup {RuleOf(t, of[1], of[2], k, 0) : t \in {"volume_spike", "volume_drop"}, of \in {<<"a", 1>>, <<Whole, 2>>}, k \in {0, 50}}
    \cup {RuleOf("reports_missing", Whole, 1, 0, 0), RuleOf("policy_tighten_ready", Whole, 1, 0, 0)}
=============================================================================
