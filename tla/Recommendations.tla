--------------------------- MODULE Recommendations ---------------------------
(***************************************************************************)
(* What to do about a domain (app/services/recommendation.py), and the     *)
(* numbers of the weekly digest (build_digest of app/services/digest.py),  *)
(* which repeats what is urgent of it.                                     *)
(*                                                                         *)
(* limits are the thresholds of the organisation, those of                 *)
(* RECOMMENDATION_* without the prefix; the numbers of messages are at     *)
(* least one.                                                              *)
(***************************************************************************)
EXTENDS Figures

CONSTANTS
    PeriodDays,    \* DIGEST_PERIOD_DAYS
    ListLimit      \* DIGEST_LIST_LIMIT

ENFORCING_POLICIES == {"quarantine", "reject"}

\* pct is -1 where the record has none
_policy_tag_recommendations(d) ==
    IF d.policy \notin ENFORCING_POLICIES THEN {}
    ELSE {c \in {"PCT_ZERO_WITHOUT_TESTING"} : d.pct = 0 /\ ~d.testing}
         \cup {c \in {"PCT_PARTIAL"} : d.pct \in 1 .. 99}
         \cup {c \in {"TESTING_MODE"} : d.testing}

\* Hints about the traffic of the window, if there was any
Traffic(w, d, limits, rows) ==
    LET total == Messages(rows)
        failed == Messages(Failing(rows))
        unknown == {s \in Classified(w, "unknown") : s.ip \in Sending(rows)}
        spf_only == Messages({r \in rows : r.spf /\ ~r.dkim})
        AtLeast(some, percent) == some * 100 >= percent * total
        FailsOver(percent) == total >= limits.FAIL_MIN_MESSAGES /\ failed * 100 > percent * total
        enough == total >= limits.MIN_MESSAGES
    IN  {c \in {"READY_FOR_QUARANTINE"} : d.policy = "none" /\ enough /\ AtLeast(total - failed, limits.QUARANTINE_PASS_RATE)}
        \cup {c \in {"READY_FOR_REJECT"} : d.policy = "quarantine" /\ enough /\ unknown = {} /\ AtLeast(total - failed, limits.REJECT_PASS_RATE)}
        \cup {c \in {"HIGH_FAIL_RATE"} : FailsOver(limits.HIGH_FAIL_RATE)}
        \cup {c \in {"POLICY_ACTIVE_FAILURES"} : d.policy \in ENFORCING_POLICIES /\ FailsOver(limits.ENFORCED_FAIL_RATE)}
        \cup {c \in {"UNKNOWN_SOURCES"} : unknown # {}}
        \cup {c \in {"DKIM_MISSING_FOR_SPF_SENDERS"} : spf_only > 0 /\ AtLeast(spf_only, limits.SPF_ONLY_SHARE)}

\* An address of the domain or of the organisation
get_recommendations_for_domain(w, d, limits, time) ==
    LET rows == _records(w, {d.name}, time - limits.WINDOW_DAYS, time + 1)
        all == _reports(w, {d.name}, 0, time + 1)
        recent == _reports(w, {d.name}, time - limits.STALE_REPORT_DAYS, time + 1)
    IN  {c \in {"NO_INBOUND_ADDRESS"} : ~d.address /\ ~w.address}
        \cup {c \in {"NO_REPORTS_EVER"} : all = {}}
        \cup {c \in {"REPORTS_STALE"} : all # {} /\ recent = {}}
        \cup _policy_tag_recommendations(d)
        \cup (IF rows = {} THEN {} ELSE Traffic(w, d, limits, rows))

severity(code) ==
    CASE code = "POLICY_ACTIVE_FAILURES" -> 0
      [] code \in {"NO_INBOUND_ADDRESS", "NO_REPORTS_EVER", "PCT_ZERO_WITHOUT_TESTING", "HIGH_FAIL_RATE", "UNKNOWN_SOURCES"} -> 1
      [] OTHER -> 2

-----------------------------------------------------------------------------
(* The weekly digest *)

NOTABLE_INFO_CODES == {"READY_FOR_QUARANTINE", "READY_FOR_REJECT"}

\* What of a list is shown; which of several that are equal is left to CHOOSE, the code goes by name
Cut(rank) ==
    CHOOSE some \in SUBSET DOMAIN rank : /\ Cardinality(some) = Min({ListLimit, Cardinality(DOMAIN rank)})
                                         /\ \A x \in some, y \in DOMAIN rank \ some : rank[x] <= rank[y]

Line(name, rows) == [name |-> name, total |-> Messages(rows), failed |-> Messages(Failing(rows))]

\* The end, which is the present, does not belong to the period.  D is every domain or the scope of a further recipient
build_digest(w, D, end, limits) ==
    LET start == end - PeriodDays
        rows == _records(w, D, start, end)
        before == _records(w, D, start - PeriodDays, start)
        scoped == D # Scope(w, Whole)
        watched == {d \in w.domains : d.active /\ d.name \in D}
        fresh == {s \in Within({[at |-> x.first, row |-> x] : x \in w.sources}, start, end) : scoped => s.row.ip \in Sending(rows)}
        failing == {Line(ip, {r \in rows : r.ip = ip}) : ip \in Sending({r \in Failing(rows) : r.count > 0})}
        advice == UNION {{[domain |-> d.name, code |-> c] : c \in get_recommendations_for_domain(w, d, limits, end)} : d \in watched}
    IN  [total |-> Messages(rows), failed |-> Messages(Failing(rows)),
         previous_total |-> Messages(before), previous_failed |-> Messages(Failing(before)),
         reports |-> Cardinality(_reports(w, D, start, end)),
         domains |-> {Line(d.name, _records(w, {d.name}, start, end)) : d \in watched},
         failing_sources |-> Cut([l \in failing |-> -l.failed]),
         new_sources |-> {s.row.ip : s \in fresh},
         open_alerts |-> {a \in w.alerts : scoped => a.domain \in D},
         advice |-> Cut([a \in {x \in advice : severity(x.code) < 2 \/ x.code \in NOTABLE_INFO_CODES} |-> severity(a.code)])]
=============================================================================
