------------------------------ MODULE MCParts -------------------------------
(* The DNS check, the digest, retention, the accounts, the members, the first setup, the windows of the receiver and the
   settings next to each other, for TLC, with what is stored of reports, and the checks of the pure functions.
   They share no row, so a behaviour runs one of them while the others stand still.  The DNS check has two parts:
   "queue", the job and the domains it comes to, and "race", people and the job at one domain.  The members have three:
   "members", and "tokens" and "domains" of an organisation whose members stay.  In "verdicts" nothing moves:
   there the pure functions are asked. *)
EXTENDS MCVerdicts, MCFigures, DnsCheck, Digest, Retention, Accounts, Members, FirstSetup, RateWindows, Thresholds

CONSTANTS d1, x1, i1, i2, q1, q2, e1, old, f, g, s1, s2

OwnerOf == [r \in Entry |-> x1]
PathOf == [i \in Filed |-> IF i = i2 THEN i1 ELSE i]
FromOf == [r \in Report |-> IF r = q1 THEN i1 ELSE i2]
KeepOf == [i \in Item |-> 1]

IpOf == [b \in Browser |-> "ip"]
RowBounds == [members |-> 3, tokens |-> 4, domains |-> 4]

VARIABLE part

upkeepVars == <<dnsVars, digestVars, retentionVars>>
accessVars == <<accountVars, memberVars, setupVars>>
limitVars == <<rateVars, thresholdVars>>
vars == <<part, storeVars, upkeepVars, accessVars, limitVars>>

\* The values of the .env to start with, and those of both .env
FirstEnv == {e \in [Field -> Value] : e["lower"] < e["upper"]}
OtherEnv == FirstEnv \cup {e \in [Field -> Value] : \A k \in Field : e[k] = Max(Value)}

\* The rows of further recipients are alike: the first ones are on
FurtherRows == SetToSeq(Entry)

Init ==
    /\ part \in {"queue", "race", "digest", "retention", "accounts", "members", "tokens", "domains", "setup", "windows", "settings", "figures", "verdicts"}
    /\ DnsInit /\ DigestInit /\ RetentionInit /\ AccountsInit /\ MembersInit /\ SetupInit
    /\ WindowsInit /\ ThresholdsInit /\ StoreInit
    /\ active = IF part = "queue" THEN Domain ELSE {d1}
    /\ part # "digest" => entered = {} /\ \A r \in Entry : entry[r] = "on"
    /\ part = "digest" => \A i, j \in DOMAIN FurtherRows : i < j /\ entry[FurtherRows[j]] = "on" => entry[FurtherRows[i]] = "on"
    /\ user.email = e1 /\ user.password = old
    /\ part # "members" => accounts = {Operator}
    /\ dotenv \in FirstEnv
    /\ \A k \in Kind : limit[k] = 1 \/ (part = "members" /\ k = part /\ limit[k] = 2)

\* All domains of the queue stay active and nobody asks
Queue == active' = active /\ running' = 0

Requests == SetToSeq(Request)

\* Requests are alike while they do nothing: of those that are free, the first begins
InTurn(free, still) ==
    \A i, j \in DOMAIN Requests : i < j /\ Requests[j] \in free \ still => Requests[i] \notin free

\* One domain, whatever happens to it
Race ==
    /\ active' \subseteq {d1} /\ \A s \in Request : ToSet(todo'[s]) \subseteq {d1}
    /\ InTurn({s \in Request : pc[s] = "idle"}, {s \in Request : pc'[s] = "idle"})

DnsPart(what) ==
    /\ what /\ UNCHANGED <<part, storeVars, digestVars, retentionVars, accessVars, limitVars>>
    /\ (part = "queue" => Queue) /\ (part = "race" => Race)

\* Requests of the part, and no others
About(what) == \A h \in Handler : task'[h].do \in what \cup {"nothing"}

\* Of the limits, only that of the kind is changed
Limited(k) == \A j \in Kind \ {k} : limit'[j] = limit[j]

\* People are alike: f is invited first
FirstComes ==
    \A h \in Handler : task'[h].do = "invite" /\ task'[h].person = g =>
        RowsOf(f) # {} \/ \E j \in Handler : task[j].do = "invite" /\ task[j].person \in {f, g}

\* So are imports of the same file: i1 comes first
ImportsInTurn == stored'[i2] # "none" => stored[i1] # "none"

MembersPart ==
    /\ MembersNext /\ FirstComes
    /\ part = "members" => About({"invite", "remove"}) /\ tokens' = tokens /\ domains' = domains /\ limit' = limit
    /\ part = "tokens" => About({"token"}) /\ Limited("tokens") /\ UNCHANGED <<members, domains>>
    /\ part = "domains" => About({"domain", "import"}) /\ Limited("domains") /\ UNCHANGED <<members, tokens>>

\* Reports are alike, and so are domains: s1 and "a" come first
Firsts ==
    /\ \A r \in world'.reports : r.id = s2 => IsStored(s1) \/ IsStored(s2)
    /\ \A d \in world'.domains : d.name = "b" => world.domains # {}

\* A change that changes nothing (Elsewhere has one member) uses up MaxChanges at the end only, when no report is left
FiguresPart ==
    /\ StoreNext /\ Firsts
    /\ changed' # changed /\ world' = world => today = Max(Moment) /\ world.reports = {}

Next ==
    \/ part \in {"queue", "race"} /\ DnsPart(DnsNext)
    \/ part = "digest" /\ DigestNext /\ UNCHANGED <<part, storeVars, dnsVars, retentionVars, accessVars, limitVars>>
    \/ part = "retention" /\ RetentionNext /\ ImportsInTurn /\ UNCHANGED <<part, storeVars, dnsVars, digestVars, accessVars, limitVars>>
    \/ part = "accounts" /\ AccountsNext /\ UNCHANGED <<part, storeVars, upkeepVars, limitVars, memberVars, setupVars>>
    \/ part \in {"members", "tokens", "domains"} /\ MembersPart /\ UNCHANGED <<part, storeVars, upkeepVars, limitVars, accountVars, setupVars>>
    \/ part = "setup" /\ SetupNext /\ UNCHANGED <<part, storeVars, upkeepVars, limitVars, accountVars, memberVars>>
    \/ part = "windows" /\ WindowsNext /\ UNCHANGED <<part, storeVars, upkeepVars, accessVars, thresholdVars>>
    \/ part = "settings" /\ ThresholdsNext /\ dotenv' \in OtherEnv /\ UNCHANGED <<part, storeVars, upkeepVars, accessVars, rateVars>>
    \/ part = "figures" /\ FiguresPart /\ UNCHANGED <<part, upkeepVars, accessVars, limitVars>>
    \/ part = "setup" /\ SetupRests /\ UNCHANGED vars
    \/ part = "figures" /\ today = Max(Moment) /\ UNCHANGED vars
    \/ part = "verdicts" /\ UNCHANGED vars

\* Time passes, a session that began comes to its end, and the scheduler begins the next one
Spec ==
    /\ Init /\ [][Next]_vars
    /\ \A s \in Session : WF_vars(part = "queue" /\ DnsPart(Step(s)))
    /\ WF_vars(part = "queue" /\ DnsPart(Tick))
    /\ WF_vars(part = "queue" /\ DnsPart(\E s \in Run : \E L \in due_domains : run_due_checks(s, L)))
    /\ WF_vars(part = "retention" /\ (run_retention \/ RetentionStep) /\ UNCHANGED <<part, storeVars, dnsVars, digestVars, accessVars, limitVars>>)

-----------------------------------------------------------------------------
(* Properties *)

(* However much is due and however little a run may take, the jobs come to it: every domain is checked, and everything
   overdue is removed (DNS_CHECK_BATCH_SIZE, RETENTION_BATCH_SIZE). *)
JobsCatchUp ==
    /\ part = "queue" => DomainsAreChecked
    /\ part = "retention" => ExpiredRowsGo

(* What pure functions promise for bounded inputs: OwnersAreTold and RecordsAreJudged. *)
VerdictsHold == part = "verdicts" => OwnersAreTold /\ RecordsAreJudged
=============================================================================
