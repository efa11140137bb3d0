------------------------------ MODULE Agreement ------------------------------
(***************************************************************************)
(* Where the dashboard, the weekly digest, the alerts, their pages and the *)
(* recommendations have to agree: each of them is a query of its own over  *)
(* the same rows, at any moment of ReportStore.                            *)
(*                                                                         *)
(* A result that is used several times is bound as the only member of a    *)
(* set, so that TLC computes it once.                                      *)
(***************************************************************************)
EXTENDS ReportStore

CONSTANTS
    Limits,     \* thresholds the organisation may have
    Rule        \* alert rules

RuleOf(type, domain, window, threshold, least) ==
    [type |-> type, domain |-> domain, window |-> window, threshold |-> threshold, least |-> least, each |-> FALSE]

\* Shares are in percent.  The two for a stricter policy need not be in order: org_settings.py asks for that only when an
\* organisation sets one of them itself, and config.py does not of those in the .env
ASSUME ThresholdsAreNumbers ==
    \A l \in Limits :
        /\ {l.WINDOW_DAYS, l.STALE_REPORT_DAYS, l.MIN_MESSAGES, l.FAIL_MIN_MESSAGES} \subseteq Nat \ {0}
        /\ {l.QUARANTINE_PASS_RATE, l.REJECT_PASS_RATE, l.HIGH_FAIL_RATE, l.ENFORCED_FAIL_RATE} \subseteq 0 .. 100

ASSUME RulesAreRows ==
    \A r \in Rule : /\ r = RuleOf(r.type, r.domain, r.window, r.threshold, r.least)
                    /\ r.window \in Nat \ {0} /\ r.least \in Nat /\ _threshold(r) \in Nat

ASSUME NumbersArePositive == PeriodDays \in Nat \ {0} /\ ListLimit \in Nat \ {0} /\ Baseline \in Nat \ {0}

-----------------------------------------------------------------------------
(* Numbers *)

Week(D, limits) == build_digest(world, D, today + 1, limits)

\* The rows of the days a digest is about
InPeriod(D) == _records(world, D, today + 1 - PeriodDays, today + 1)

TotalOf(lines) == [total |-> Total("total", lines), failed |-> Total("failed", lines)]

\* The dashboard, its shares, its dispositions and the digest of the organisation count the same messages
DashboardAgrees ==
    \A limits \in Limits :
       \A stats \in {get_dashboard_stats(world, today, PeriodDays - 1, limits.STALE_REPORT_DAYS)},
          split \in {get_failure_split(world, today, PeriodDays - 1)},
          digest \in {Week(Scope(world, Whole), limits)} :
             /\ stats.total = digest.total /\ stats.fail = digest.failed
             /\ split.forged + split.to_check = stats.fail
             /\ Total("messages", get_disposition_counts(world, today, PeriodDays - 1)) = stats.total

\* So does the chart, which goes by the day of the traffic, where reports arrive on that day
ChartAgrees ==
    (\A r \in world.reports : r.begin = r.at) =>
       \A stats \in {get_dashboard_stats(world, today, PeriodDays - 1, 1)},
          chart \in {day_chart(get_pass_fail_over_time(world, Scope(world, Whole), today, PeriodDays), today, PeriodDays)} :
             chart.pass + chart.fail = stats.total /\ chart.fail = stats.fail

\* The lines of a digest add up to it, with those of mail that it has no line for, and if no source is cut off
LinesAgree ==
    \A limits \in Limits :
       \A digest \in {Week(Scope(world, Whole), limits)},
          others \in {{Line(n, InPeriod({n})) : n \in {Nobody} \cup {d.name : d \in {x \in world.domains : ~x.active}}}} :
             /\ TotalOf(digest.domains \cup others) = [total |-> digest.total, failed |-> digest.failed]
             /\ Cardinality(digest.failing_sources) < ListLimit => TotalOf(digest.failing_sources).failed = digest.failed

\* The digests of the single domains have together what that of the organisation has, but for mail that names no domain; it
\* compares itself with what that of the period before said
DigestsAgree ==
    \A limits \in Limits : \A names \in {{d.name : d \in world.domains}}, all \in {Week(Scope(world, Whole), limits)} :
       \A single \in {[n \in names |-> Week({n}, limits)]},
          earlier \in {build_digest(world, Scope(world, Whole), today + 1 - PeriodDays, limits)} :
             /\ Total("total", {[name |-> n, total |-> single[n].total] : n \in names}) + Messages(InPeriod({Nobody})) = all.total
             /\ \A n \in names : single[n].new_sources \subseteq all.new_sources
             /\ PeriodDays <= KeepDays => all.new_sources \subseteq (UNION {single[n].new_sources : n \in names}) \cup Sending(InPeriod({Nobody}))
             /\ earlier.total = all.previous_total /\ earlier.failed = all.previous_failed

SumsAgree == DashboardAgrees /\ ChartAgrees /\ LinesAgree /\ DigestsAgree

-----------------------------------------------------------------------------
(* Alerts *)

RulesOf(types) == {r \in Rule : r.type \in types}

EventOf(type, f) == [type |-> type, domain |-> f.domain, ip |-> f.ip, at |-> today, window |-> f.window, facts |-> f.causes]

\* The causes of an alert account for what it counts, and tell what to do; its page shows the same, also after the
\* rule has another window, and so does the text after a start
CausesExplain ==
    \A rule \in RulesOf({"dmarc_fail_rate", "spf_fail_rate", "dkim_fail_rate"}) : \A f \in _findings(world, rule, {}, today) :
       \A event \in {EventOf(rule.type, f)} : \A page \in {build(world, event, {[rule EXCEPT !.window = @ + 1]})} :
          /\ Total("messages", f.causes) = f.failed
          /\ \A c \in f.causes : c.key # "other" /\ (c.messages = 0 <=> c.key = "passing")
          /\ page.failed = f.failed /\ page.total = f.total /\ page.causes = f.causes
          /\ refresh_event_text(world, event, {rule}) = event

\* A new source that nobody has classified is found by the rule for all domains, for each active one that it sends for,
\* and the busiest of them by the rule for many messages, unless retention is shorter than the window of the rule
SourcesAreFound ==
    \A rule \in {r \in RulesOf({"new_unknown_source", "high_volume_source"}) : r.domain = Whole /\ r.window <= KeepDays} :
       \A found \in {_findings(world, rule, {}, today)} :
          LET Due(s) == IF rule.type = "new_unknown_source" THEN s.classification = "unknown" /\ (Scheduled => s.enriched)
                        ELSE source_context(world, s.ip).messages >= _threshold(rule)
              Active(s) == {d \in world.domains : d.active /\ \E r \in world.reports : r.domain = d.name /\ s.ip \in Sending(r.rows)}
          IN  {<<f.ip, f.domain>> : f \in found}
                 = UNION {{<<s.ip, d.name>> : d \in Active(s)} : s \in {x \in world.sources : x.first >= today - rule.window /\ Due(x)}}

\* Every message counts in one window; the volume does not rise and fall at the same time unless both thresholds are zero
VolumesAreOnce ==
    \A up \in RulesOf({"volume_spike"}) :
       /\ \A v \in {_volumes(world, up, today)} :
             v.current + Earlier(v) = Messages(_records(world, Scope(world, up.domain), today - (Baseline + 1) * up.window, today + 1))
       /\ \A down \in RulesOf({"volume_drop"}) :
             /\ up.domain = down.domain /\ up.window = down.window
             /\ _eval_volume_spike(world, up, today) # {} /\ _eval_volume_drop(world, down, today) # {}
             => _threshold(up) = 0 /\ _threshold(down) = 0

-----------------------------------------------------------------------------
(* Advice *)

\* The domains a rule for all of them finds something about
FoundBy(rule, limits) == {f.domain : f \in _findings(world, rule, limits, today)}

\* Reports that stay away: the page of a domain, the dashboard and the alerts say the same
SilenceAgrees(limits, d, given) ==
    /\ \A silent \in {get_dashboard_stats(world, today, PeriodDays, limits.STALE_REPORT_DAYS).domains_no_reports} :
          d \in silent <=> given \cap {"REPORTS_STALE", "NO_REPORTS_EVER"} # {}
    /\ \A rule \in RulesOf({"reports_missing"}) :
          rule.domain = Whole /\ rule.window = limits.STALE_REPORT_DAYS => (d.name \in FoundBy(rule, limits) <=> "REPORTS_STALE" \in given)

\* An alert about more failing mail than the page of the domain warns of comes with that warning
FailuresAgree(limits, d, given) ==
    \A rule \in RulesOf({"dmarc_fail_rate"}) :
       /\ rule.domain = Whole /\ rule.window = limits.WINDOW_DAYS
       /\ _threshold(rule) > limits.HIGH_FAIL_RATE /\ rule.least >= limits.FAIL_MIN_MESSAGES
       => (d.name \in FoundBy(rule, limits) => "HIGH_FAIL_RATE" \in given)

\* What makes a domain ready for a stricter policy comes without a warning about failing mail, if the shares that pass and that
\* fail leave no gap; who is ready for the stricter of the two would be for the other, if their shares are in order
ReadinessAgrees(limits, d, given) ==
    /\ \A rule \in RulesOf({"policy_tighten_ready"}) :
          /\ rule.domain = Whole
          /\ \A share \in {limits.QUARANTINE_PASS_RATE, limits.REJECT_PASS_RATE} : share + limits.HIGH_FAIL_RATE >= 100
          => (d.name \in FoundBy(rule, limits) => "HIGH_FAIL_RATE" \notin given)
    /\ "READY_FOR_REJECT" \in given =>
          /\ limits.QUARANTINE_PASS_RATE <= limits.REJECT_PASS_RATE
                => "READY_FOR_QUARANTINE" \in get_recommendations_for_domain(world, [d EXCEPT !.policy = "none"], limits, today)
          /\ limits.REJECT_PASS_RATE + limits.ENFORCED_FAIL_RATE >= 100 => "POLICY_ACTIVE_FAILURES" \notin given

AdviceFits ==
    \A limits \in Limits : \A d \in {x \in world.domains : x.active} :
       \A given \in {get_recommendations_for_domain(world, d, limits, today)} :
          SilenceAgrees(limits, d, given) /\ FailuresAgree(limits, d, given) /\ ReadinessAgrees(limits, d, given)

(* The dashboard, the digest, the alerts, their pages and the recommendations are queries of their own over the same rows:
   they count the same messages, name the same sources and give no advice against each other.  Before the first domain and the
   first report there is nothing to ask. *)
FiguresAgree ==
    world.domains # {} \/ world.sources # {} => SumsAgree /\ CausesExplain /\ SourcesAreFound /\ VolumesAreOnce /\ AdviceFits
=============================================================================
