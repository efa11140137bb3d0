------------------------------- MODULE Figures -------------------------------
(***************************************************************************)
(* What the stored reports amount to: the numbers of the dashboard         *)
(* (app/services/dashboard.py) and of TLS reports                          *)
(* (app/services/tls_reports.py), and the causes behind failing mail       *)
(* (app/services/alert_details.py).                                        *)
(*                                                                         *)
(* Each of them is a query of its own over the same rows.  A world w has   *)
(* the reports with their rows, the TLS reports, the sources, the domains  *)
(* and the open alerts of one organisation.  Rates are compared as         *)
(* fractions; texts and the order of lists are left out, so that lists are *)
(* sets.                                                                   *)
(***************************************************************************)
EXTENDS Integers, FiniteSets, FiniteSetsExt

-----------------------------------------------------------------------------
(* Rows *)

\* No domain: the whole organisation; no sender, source or domain
Whole == ""
Nobody == ""

\* The whole organisation has reports that name no domain as well
Scope(w, domain) == IF domain = Whole THEN {d.name : d \in w.domains} \cup {Nobody} ELSE {domain}

Within(moments, start, end) == {m \in moments : start <= m.at /\ m.at < end}

_reports(w, D, start, end) == {r \in Within(w.reports, start, end) : r.domain \in D}

_records(w, D, start, end) == UNION {r.rows : r \in _reports(w, D, start, end)}

\* The sum of a column
Total(column, rows) == MapThenSumSet(LAMBDA r : r[column], rows)

Messages(rows) == Total("count", rows)

Sending(rows) == {r.ip : r \in rows}

\* dmarc_pass of evaluate_record
dmarc_pass(r) == r.spf \/ r.dkim

FAILING(kind, rows) ==
    {r \in rows : CASE kind = "spf_fail_rate" -> ~r.spf [] kind = "dkim_fail_rate" -> ~r.dkim [] OTHER -> ~dmarc_pass(r)}

Failing(rows) == FAILING("dmarc_fail_rate", rows)

Classified(w, class) == {s \in w.sources : s.classification = class}

-----------------------------------------------------------------------------
(* Causes *)

SourceType == {"new_unknown_source", "high_volume_source", "new_source_dmarc_fail"}

SourceOf(w, ip) == {s \in w.sources : s.ip = ip}

categorize(item) ==
    LET trusted == \E s \in item.source : s.classification = "trusted"
        neither == ~item.spf /\ ~item.dkim
    IN  CASE item.failed = 0                         -> "passing"
          [] item.failed # 0 /\ neither /\ trusted   -> "trusted"
          [] item.failed # 0 /\ neither /\ ~trusted  -> IF item.sender # Nobody THEN "service"
                                                     ELSE IF \E s \in item.source : s.passed = 0 THEN "spoof" ELSE "unknown"
          [] item.failed # 0 /\ ~item.spf /\ item.dkim -> "spf"
          [] item.failed # 0 /\ item.spf /\ ~item.dkim -> "dkim"
          [] item.failed # 0 /\ item.spf /\ item.dkim  -> "other"

\* Half of the messages decide what holds for a source
FailedSource(w, kind, ip, entries) ==
    LET bad == FAILING(kind, entries)
        shown == IF bad = {} THEN entries ELSE bad
        Mostly(some) == 2 * Messages(some) >= Max({1, Messages(shown)})
        known == SourceOf(w, ip)
    IN  [ip |-> ip, failed |-> Messages(bad), total |-> Messages(entries), source |-> known,
         sender |-> IF known = {} THEN Nobody ELSE (CHOOSE s \in known : TRUE).sender,
         spf |-> Mostly({r \in shown : r.spf}), dkim |-> Mostly({r \in shown : r.dkim})]

summarize_causes(items) ==
    {[key |-> k, messages |-> Total("failed", {i \in items : categorize(i) = k}),
      sources |-> Cardinality({i \in items : categorize(i) = k})] : k \in {categorize(i) : i \in items}}

\* The end belongs to the window
analyze(w, domain, kind, ip, start, end) ==
    LET all == _records(w, Scope(w, domain), start, end + 1)
        rows == IF kind \in SourceType THEN {r \in all : r.ip = ip} ELSE all
        Of(a) == {r \in rows : r.ip = a}
        items == {FailedSource(w, kind, a, Of(a)) :
                    a \in {b \in Sending(rows) : kind \in SourceType \/ FAILING(kind, Of(b)) # {}}}
    IN  [failed |-> Total("failed", items), total |-> Messages(rows),
         items |-> items, causes |-> summarize_causes(items)]

\* The page of an alert; the window is stored with the event, or comes from the rule, or is a day
window_minutes(event, rule) ==
    CASE event.window > 0 -> event.window [] event.window <= 0 /\ rule # {} -> (CHOOSE r \in rule : TRUE).window [] OTHER -> 1440

build(w, event, rule) == analyze(w, event.domain, event.type, event.ip, event.at - window_minutes(event, rule), event.at)

\* Over all reports
source_context(w, ip) ==
    LET rows == {r \in UNION {x.rows : x \in w.reports} : r.ip = ip}
    IN  [domains |-> {x.domain : x \in {y \in w.reports : ip \in Sending(y.rows)}}, messages |-> Messages(rows),
         passed |-> Messages(rows) - Messages(Failing(rows))]

-----------------------------------------------------------------------------
(* TLS reports *)

\* The most frequent reason, the first by name of several
summarize(w, D, from, until) ==
    LET reports == {t \in Within(w.tls, from, until) : t.domain \in D}
        failures == UNION {t.failures : t \in reports}
        reasons == {f.result : f \in failures}
        Sessions(r) == Total("sessions", {f \in failures : f.result = r})
        failed == Total("failed", reports)
        top == {x \in reasons : \A y \in reasons : Sessions(x) > Sessions(y) \/ (Sessions(x) = Sessions(y) /\ x <= y)}
    IN  [total |-> failed + Total("successful", reports), failed |-> failed,
         top_result |-> IF failed = 0 THEN {} ELSE top]

-----------------------------------------------------------------------------
(* The dashboard *)

get_dashboard_stats(w, time, days, stale) ==
    LET rows == _records(w, Scope(w, Whole), time - days, time + 1)
    IN  [total |-> Messages(rows), pass |-> Messages({r \in rows : dmarc_pass(r)}), fail |-> Messages(rows) - Messages({r \in rows : dmarc_pass(r)}),
         spf_pass |-> Messages({r \in rows : r.spf}), dkim_pass |-> Messages({r \in rows : r.dkim}),
         unknown |-> Cardinality(Classified(w, "unknown")), active_alerts |-> Cardinality(w.alerts),
         domains_no_reports |-> {d \in w.domains : d.active /\ _reports(w, {d.name}, time - stale, time + 1) = {}}]

\* By the day the traffic happened
get_pass_fail_over_time(w, D, time, days) ==
    LET arrived == {r \in w.reports : r.begin >= time - days /\ r.domain \in D}
        Of(day) == UNION {r.rows : r \in {x \in arrived : x.begin = day}}
    IN  {[day |-> t, pass |-> Messages({r \in Of(t) : dmarc_pass(r)}), fail |-> Messages(Failing(Of(t)))] : t \in {r.begin : r \in arrived}}

\* Days without a row count as zero, and rows of other days are not drawn
day_chart(series, time, days) ==
    LET shown == {p \in series : p.day \in time - days + 1 .. time}
    IN  [pass |-> Total("pass", shown), fail |-> Total("fail", shown)]

get_disposition_counts(w, time, days) ==
    LET rows == _records(w, Scope(w, Whole), time - days, time + 1)
    IN  {[disposition |-> p, messages |-> Messages({r \in rows : r.disposition = p})] : p \in {r.disposition : r \in rows}}

get_failure_split(w, time, days) ==
    LET bad == Failing(_records(w, Scope(w, Whole), time - days, time + 1))
        forged == {r \in bad : \E s \in SourceOf(w, r.ip) : s.classification \in {"suspicious", "ignored"}}
    IN  [forged |-> Messages(forged), to_check |-> Messages(bad \ forged), check |-> Sending(bad \ forged)]
=============================================================================
