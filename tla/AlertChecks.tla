----------------------------- MODULE AlertChecks -----------------------------
(***************************************************************************)
(* What the alert rules look for: the evaluators of                        *)
(* app/services/alert_service.py.  AlertRules has what happens with their  *)
(* findings.                                                               *)
(*                                                                         *)
(* A rule has a type, a domain or Whole, a window, a threshold (Default    *)
(* where it is NULL) and a minimum of messages.  Findings have what their  *)
(* metrics say.                                                            *)
(***************************************************************************)
EXTENDS Recommendations

CONSTANTS
    Baseline,     \* ALERT_VOLUME_BASELINE_WINDOWS
    Defaults,     \* Defaults[type]: the threshold where a rule has none
    Scheduled     \* SCHEDULER_ENABLED

Default == -1

_threshold(rule) == IF rule.threshold = Default THEN Defaults[rule.type] ELSE rule.threshold

Past(rule, time) == time - rule.window

\* Plausible slip: the second that just passed is left out
RecentBefore(w, rule, time) == _records(w, Scope(w, rule.domain), Past(rule, time), time)

Recent(w, rule, time) == _records(w, Scope(w, rule.domain), Past(rule, time), time + 1)

\* A share of at least the threshold, of enough messages
TooMuch(rule, failed, total) == total > 0 /\ total >= rule.least /\ failed * 100 >= _threshold(rule) * total

Found(holds, finding) == IF holds THEN {finding} ELSE {}

_eval_fail_rate(w, rule, time) ==
    LET rows == Recent(w, rule, time)
        failed == Messages(FAILING(rule.type, rows))
    IN  Found(TooMuch(rule, failed, Messages(rows)),
              [domain |-> rule.domain, ip |-> Nobody, failed |-> failed, total |-> Messages(rows), window |-> rule.window,
               causes |-> analyze(w, rule.domain, rule.type, Nobody, Past(rule, time), time).causes])

_eval_tls_failure_rate(w, rule, time) ==
    LET summary == summarize(w, Scope(w, rule.domain), Past(rule, time), time + 1)
    IN  Found(TooMuch(rule, summary.failed, summary.total),
              [domain |-> rule.domain, ip |-> Nobody, failed |-> summary.failed, total |-> summary.total, reason |-> summary.top_result])

-----------------------------------------------------------------------------
(* Volumes *)

\* This window and those before it; a window begins where the one before it ends
_volumes(w, rule, time) ==
    LET Of(i) == Messages(_records(w, Scope(w, rule.domain), time - (i + 1) * rule.window, time - i * rule.window))
    IN  [current |-> Messages(Recent(w, rule, time)), history |-> {[window |-> i, messages |-> Of(i)] : i \in 1 .. Baseline}]

\* The average of the windows before is earlier / Baseline
Earlier(volumes) == Total("messages", volumes.history)

Volume(rule, volumes) == [domain |-> rule.domain, ip |-> Nobody, current |-> volumes.current, earlier |-> Earlier(volumes)]

_eval_volume_spike(w, rule, time) ==
    LET v == _volumes(w, rule, time)
    IN  Found(Earlier(v) > 0 /\ v.current >= rule.least
                 /\ v.current * Baseline * 100 >= Earlier(v) * (100 + _threshold(rule)), Volume(rule, v))

_eval_volume_drop(w, rule, time) ==
    LET v == _volumes(w, rule, time)
    IN  Found(Earlier(v) > 0 /\ Earlier(v) >= rule.least * Baseline
                 /\ v.current * Baseline * 100 <= Earlier(v) * (100 - _threshold(rule)), Volume(rule, v))

\* A domain that never had a report is not missed by a rule for all domains
_eval_reports_missing(w, rule, time) ==
    LET D == Scope(w, rule.domain)
    IN  Found(_reports(w, D, Past(rule, time), time + 1) = {} /\ (rule.each => _reports(w, D, 0, time + 1) # {}),
              [domain |-> rule.domain, ip |-> Nobody])

-----------------------------------------------------------------------------
(* New sources *)

_new_sources(w, rule, time) ==
    {s \in w.sources : /\ Past(rule, time) <= s.first /\ s.first <= time
                       /\ rule.domain # Whole => s.ip \in Sending(Recent(w, rule, time))}

Sources(rule, found) == {[domain |-> rule.domain, ip |-> s.ip, total |-> s.total, failed |-> s.total - s.passed] : s \in found}

\* The scheduler names a sender first
_eval_new_unknown_source(w, rule, time) ==
    Sources(rule, {s \in _new_sources(w, rule, time) : s.classification = "unknown" /\ (Scheduled => s.enriched)})

_eval_high_volume_source(w, rule, time) == Sources(rule, {s \in _new_sources(w, rule, time) : s.total >= _threshold(rule)})

_eval_new_source_dmarc_fail(w, rule, time) ==
    Sources(rule, {s \in _new_sources(w, rule, time) : s.total - s.passed >= _threshold(rule)})

-----------------------------------------------------------------------------
(* Others *)

\* Active domains in the scope of a rule
Domains(w, rule) == {d \in w.domains : d.active /\ rule.domain \in {Whole, d.name}}

_eval_dns_problem(w, rule) == {[domain |-> d.name, ip |-> Nobody] : d \in {x \in Domains(w, rule) : x.dns_status = "error"}}

\* Failed imports of the organisation, and refused recipients of the whole server
TooMany(found, rule) == Found(Cardinality(found) >= _threshold(rule), [domain |-> Whole, ip |-> Nobody, count |-> Cardinality(found)])

_eval_import_failed(w, rule, time) == TooMany({j \in w.imports : j.status = "failed" /\ j.at >= Past(rule, time)}, rule)

_eval_smtp_rejections(w, rule, time) ==
    LET wanted == IF rule.type = "smtp_rate_limit" THEN {421} ELSE 500 .. 599
    IN  TooMany({r \in w.rejections : r.code \in wanted /\ r.at >= Past(rule, time)}, rule)

_eval_policy_tighten_ready(w, rule, limits, time) ==
    UNION {{[domain |-> d.name, ip |-> Nobody, recommendation |-> c] :
              c \in get_recommendations_for_domain(w, d, limits, time) \cap {"READY_FOR_QUARANTINE", "READY_FOR_REJECT"}} : d \in Domains(w, rule)}

EVALUATORS(w, rule, limits, time) ==
    CASE rule.type \in {"dmarc_fail_rate", "spf_fail_rate", "dkim_fail_rate"} -> _eval_fail_rate(w, rule, time)
      [] rule.type = "tls_failure_rate" -> _eval_tls_failure_rate(w, rule, time)
      [] rule.type = "volume_spike" -> _eval_volume_spike(w, rule, time)
      [] rule.type = "volume_drop" -> _eval_volume_drop(w, rule, time)
      [] rule.type = "reports_missing" -> _eval_reports_missing(w, rule, time)
      [] rule.type = "new_unknown_source" -> _eval_new_unknown_source(w, rule, time)
      [] rule.type = "high_volume_source" -> _eval_high_volume_source(w, rule, time)
      [] rule.type = "new_source_dmarc_fail" -> _eval_new_source_dmarc_fail(w, rule, time)
      [] rule.type = "import_failed" -> _eval_import_failed(w, rule, time)
      [] rule.type = "dns_problem" -> _eval_dns_problem(w, rule)
      [] rule.type = "policy_tighten_ready" -> _eval_policy_tighten_ready(w, rule, limits, time)
      [] rule.type \in {"smtp_invalid_recipient", "smtp_rate_limit"} -> _eval_smtp_rejections(w, rule, time)

PER_DOMAIN_TYPES ==
    {"dmarc_fail_rate", "spf_fail_rate", "dkim_fail_rate", "tls_failure_rate", "volume_spike", "volume_drop", "reports_missing",
     "new_unknown_source", "high_volume_source", "new_source_dmarc_fail", "dns_problem"}

\* _DomainView: a rule for all domains, for one of them
_findings(w, rule, limits, time) ==
    LET views == IF rule.domain # Whole \/ rule.type \notin PER_DOMAIN_TYPES THEN {rule}
                 ELSE {[rule EXCEPT !.domain = d.name, !.each = TRUE] : d \in Domains(w, rule)}
    IN  UNION {EVALUATORS(w, view, limits, time) : view \in views}

-----------------------------------------------------------------------------
(* The texts of open alerts, as the facts they state (refresh_event_texts) *)

\* An alert about a source says what is known about it now, the others what was counted up to the alert.  The window of the rule
\* of an alert may have changed; rules and sources may be gone
refresh_event_text(w, event, rule) ==
    CASE event.type \in SourceType /\ SourceOf(w, event.ip) # {} -> [event EXCEPT !.facts = source_context(w, event.ip)]
      [] event.type \in {"dmarc_fail_rate", "spf_fail_rate", "dkim_fail_rate"} /\ rule # {} ->
           LET window == (CHOOSE r \in rule : TRUE).window
           IN  [event EXCEPT !.window = window, !.facts = analyze(w, event.domain, event.type, Nobody, event.at - window, event.at).causes]
      [] OTHER -> event
=============================================================================
