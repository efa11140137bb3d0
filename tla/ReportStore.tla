----------------------------- MODULE ReportStore -----------------------------
(***************************************************************************)
(* What one organisation has stored of its reports, and how it gets there: *)
(* reports come in (store_parsed_report of app/services/import_service.py),*)
(* retention removes old ones (app/services/retention.py), people classify *)
(* sources and switch domains, and the scheduler names sources and checks  *)
(* DNS.                                                                    *)
(*                                                                         *)
(* world has the rows that Figures, Recommendations and AlertChecks read.  *)
(* A transaction is one step at one moment: what two of them do to the row *)
(* of a source is in Reception and Senders.                                *)
(***************************************************************************)
EXTENDS AlertChecks

CONSTANTS
    ReportId,     \* numbers that reporters give to reports (report_id)
    Zone,   \* names of domains
    Moment,       \* moments, from the first day on
    Begun,        \* when else the traffic of a report may have begun
    Entries,      \* what a report may list: functions from 1 .. n to entries
    Policy,       \* what a report may say of the DMARC record (policy_published)
    Class,        \* classifications a person can choose
    SenderName,   \* senders the catalog may name, Nobody among them
    DnsStatus,    \* verdicts of the DNS check
    Elsewhere,    \* what else is stored: alerts, TLS reports, imports, refused mail and the address of the organisation
    KeepDays,     \* report_retention_days of the organisation
    PurgeLimit,   \* RETENTION_BATCH_SIZE
    MaxChanges    \* bound: things that people, the scheduler and other parts change

ASSUME StoreAssumption ==
    /\ Whole \notin Zone /\ Nobody \notin Zone
    /\ Moment \subseteq Nat /\ Begun \subseteq Int
    /\ \A e \in Entries : IsFiniteSet(DOMAIN e) /\ \A i \in DOMAIN e : e[i].count \in Nat
    /\ KeepDays \in Nat \ {0} /\ PurgeLimit \in Nat /\ MaxChanges \in Nat

VARIABLES
    world,        \* the rows
    today,        \* the present
    changed       \* bound: how much was changed

storeVars == <<world, today, changed>>

StoreInit ==
    /\ \E o \in Elsewhere :
          world = [reports |-> {}, sources |-> {}, domains |-> {}, address |-> o.address, alerts |-> o.alerts, tls |-> o.tls,
                   imports |-> o.imports, rejections |-> o.rejections]
    /\ today = 0
    /\ changed = 0

-----------------------------------------------------------------------------
(* Reports *)

NewDomain(name) == [name |-> name, active |-> TRUE, policy |-> "none", pct |-> -1, testing |-> FALSE, address |-> FALSE, dns_status |-> "unknown"]

\* Rows are those of one report; entries may be alike
RecordsOf(id, entries) ==
    {[report |-> id, entry |-> i, ip |-> entries[i].ip, count |-> entries[i].count, spf |-> entries[i].spf, dkim |-> entries[i].dkim,
      disposition |-> entries[i].disposition] : i \in DOMAIN entries}

RowsFrom(rows, ip) == {r \in rows : r.ip = ip}

Passing(rows) == {r \in rows : dmarc_pass(r)}

\* Plausible slip: a source counts the messages of the last report only
ForgetfulUpsert(source, rows) ==
    [source EXCEPT !.total = Messages(RowsFrom(rows, source.ip)), !.passed = Messages(Passing(RowsFrom(rows, source.ip)))]

\* One call for each row of the address
_upsert_source_ip(source, rows) ==
    [source EXCEPT !.total = @ + Messages(RowsFrom(rows, source.ip)), !.passed = @ + Messages(Passing(RowsFrom(rows, source.ip)))]

NewSource(ip, time) ==
    [ip |-> ip, first |-> time, enriched |-> FALSE, sender |-> Nobody, classification |-> "unknown", total |-> 0, passed |-> 0]

\* The sources after these rows
Upserted(sources, rows, time) ==
    LET fresh == {NewSource(ip, time) : ip \in Sending(rows) \ {s.ip : s \in sources}}
    IN  {_upsert_source_ip(s, rows) : s \in sources \cup fresh}

\* The tags a report tells of the record; each format knows its own
Told(d, policy) ==
    [d EXCEPT !.policy = policy.p, !.testing = IF policy.rfc9990 THEN policy.testing ELSE @, !.pct = IF policy.rfc9990 THEN @ ELSE policy.pct]

get_or_create_domain(domains, name) ==
    domains \cup {NewDomain(n) : n \in {name} \ ({d.name : d \in domains} \cup {Nobody})}

IsStored(id) == \E r \in world.reports : r.id = id

\* A report may name no domain
import_report(id, name, begin, entries, policy) ==
    /\ ~IsStored(id)
    /\ world' = [world EXCEPT
          !.reports = @ \cup {[id |-> id, at |-> today, begin |-> begin, domain |-> name, rows |-> RecordsOf(id, entries)]},
          !.sources = Upserted(@, RecordsOf(id, entries), today),
          !.domains = {IF d.name = name THEN Told(d, policy) ELSE d : d \in get_or_create_domain(@, name)}]
    /\ UNCHANGED <<today, changed>>

\* The oldest of those whose time is over, as many as a run may remove; sources stay
purge_reports ==
    \E old \in {{r \in world.reports : r.at < today - KeepDays}} : \E gone \in SUBSET old \ {{}} :
        /\ Cardinality(gone) = Min({PurgeLimit, Cardinality(old)})
        /\ \A r \in gone, q \in old \ gone : r.at <= q.at
        /\ world' = [world EXCEPT !.reports = @ \ gone]
        /\ UNCHANGED <<today, changed>>

-----------------------------------------------------------------------------
(* Domains, sources and the rest *)

Change(next) == changed < MaxChanges /\ changed' = changed + 1 /\ world' = next /\ UNCHANGED today

\* A name that is there already keeps its domain; either way it has an address in the end
create_domain_api(name) ==
    Change([world EXCEPT !.domains = {IF d.name = name THEN [d EXCEPT !.address = TRUE] ELSE d : d \in get_or_create_domain(@, name)}])

toggle(d) == Change([world EXCEPT !.domains = (@ \ {d}) \cup {[d EXCEPT !.active = ~@]}])

store_result(d, status) == Change([world EXCEPT !.domains = (@ \ {d}) \cup {[d EXCEPT !.dns_status = status]}])

classify(s, class) == Change([world EXCEPT !.sources = (@ \ {s}) \cup {[s EXCEPT !.classification = class]}])

\* A decision about the sender or a source rule may classify it
identify_source(s, sender, class) ==
    Change([world EXCEPT !.sources = (@ \ {s}) \cup {[s EXCEPT !.enriched = TRUE, !.sender = sender, !.classification = class]}])

\* What other parts write
Others(o) ==
    Change([world EXCEPT !.address = o.address, !.alerts = o.alerts, !.tls = o.tls, !.imports = o.imports, !.rejections = o.rejections])

Pass == \E t \in Moment : t > today /\ today' = t /\ UNCHANGED <<world, changed>>

StoreNext ==
    \/ \E id \in ReportId, name \in Zone \cup {Nobody}, begin \in {today} \cup Begun, entries \in Entries, policy \in Policy :
          import_report(id, name, begin, entries, policy)
    \/ purge_reports
    \/ \E name \in Zone : create_domain_api(name)
    \/ \E d \in world.domains : toggle(d)
    \/ \E d \in world.domains, status \in DnsStatus : store_result(d, status)
    \/ \E s \in world.sources, class \in Class : classify(s, class)
    \/ \E s \in world.sources : \E sender \in SenderName, class \in Class \cup {s.classification} : identify_source(s, sender, class)
    \/ \E o \in Elsewhere : Others(o)
    \/ Pass

StoreSpec == StoreInit /\ [][StoreNext]_storeVars
=============================================================================
