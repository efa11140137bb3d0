# DMARC Analyzer in TLA+

This directory holds models of the DMARC Analyzer, their TLC configurations and proofs. It is written for a
reader who has the repository at hand. Paths like `app/scheduler.py` are relative to the root of the repository.

## The system

The application collects DMARC aggregate reports, TLS reports and failure reports for several organisations,
evaluates them, raises alerts and sends notifications. It consists of

* **web processes** (one or more containers, `app/main.py`): the pages and the JSON API, and in each of them the
  scheduler loop, which runs six jobs in a worker thread;
* **the SMTP container** (`smtp_inbound/`): receives report mails and imports them while the sender waits;
* **one database** (SQLite in WAL mode or PostgreSQL), the only thing the processes share, besides a directory of
  stored files. Sessions do not flush on their own (`autoflush=False`); what a request or a job does becomes
  visible when it commits.

| Component | State it keeps | Operations | What makes it correct |
|---|---|---|---|
| Scheduler `app/scheduler.py` | `scheduler_runs` | claim, run, finish, crash, restart | a turn belongs to one process; a job runs in one process at a time if it ends in time; a due job gets its turn |
| Notifications `app/services/notification.py` | `notification_deliveries` | load a batch, skip, send, retry, commit | bounded attempts, no second message for a delivered one, nothing about closed alerts, every delivery settles |
| Alert rules `app/services/alert_service.py`, `app/routers/alerts.py` | `alert_rules`, `alert_events` | evaluate, raise, acknowledge, resolve, bulk, toggle and delete rules | one active alert per rule and subject, the pause, the history outlives its rules, a finding that lasts is reported |
| SMTP reception `smtp_inbound/` | messages, rejections, rate windows | RCPT, DATA, redelivery | a mail answered with 250 is stored; every mail is settled; a mail is stored again only after a fault |
| Import `app/services/import_service.py`, `tls_reports.py`, `failure_reports.py` | import jobs, reports, source IP totals | process a job, store a report | no report gets lost; a TLS report is stored once, an aggregate report again only in a race; totals match the reports |
| Senders `app/services/senders.py`, `source_rules.py`, `sender_lookup.py` | classification of source addresses, decisions about senders | refresh, decide, classify by hand, catalog and rules | a person's word outranks the job, and gives way only to sessions that had not seen it; a forged name is no evidence |
| DNS check `app/services/dns_check.py`, `dmarc_record.py` | last result and time per domain, the counter of manual checks | scheduled check, manual check | cooldown, parallel limit, newest result wins, every domain gets its turn; owners are told of what is wrong |
| Weekly digest `app/services/digest.py`, `domain_recipients.py` | `digest_last_sent_at` of organisations and of further recipients | send due digests, send now, settings | a mail says something new; a slot passes as done only if somebody got it |
| Retention `app/services/retention.py` | everything with an age, files on disk | delete in batches | only what is old goes, files go with their rows, everything old goes in the end |
| Accounts `app/services/account.py`, `auth.py`, `login_guard.py`, `app/dependencies.py` | users, session cookies, login attempts | log in, change password or address, lock | old sessions end with the password; guesses within the window are bounded |
| Organisations and members `app/routers/users.py`, `api_tokens.py`, `app/org_limits.py`, `app/services/domains.py` | members, tokens, domains | invite, remove, create, revoke; imports add domains | limits hold for what people ask for, rows are single, an administrator remains |
| First setup `app/services/setup.py`, `app/setup_code.py` | the setup code | make, show, use | one first administrator |
| Windows of reception `smtp_inbound/validator.py` | sliding windows in memory | judge a recipient | no hour has more than its limit, nobody is put off too early |
| Thresholds `app/services/org_settings.py` | `app_settings` | save, reset, read | what applies is what was saved last, in order |
| DMARC evaluation `app/services/dmarc_evaluator.py` | none (pure) | alignment, verdict | agrees with alignment by registered domains |
| Statistics and advice `dashboard.py`, `alert_details.py`, `recommendation.py`, evaluators of `alert_service.py` | none (queries) | numbers, causes, advice, findings | different queries over the same rows agree; advice fits the numbers |
| Parsers `dmarc_parser.py`, `mime_parser.py`, `archive.py` | none (pure) | parse, unpack | limits on size hold (not modelled) |
| Pages, rendering, API, configuration, migrations | none of their own | queries and formatting | not modelled |

Components interact through rows: an import or the scheduler evaluates rules, a rule raises an event with one
delivery per channel, the notification job of the scheduler picks the deliveries up, a user closes events and
switches channels while the job runs, retention deletes what the others refer to.

### What is hard

* Several processes run the same code on the same rows. Checks are followed by writes in another statement
  (claim of a job, duplicate alert, duplicate report, limits), and long network calls lie between reading rows and
  writing them (notifications, DNS, sender lookup).
* A whole batch of notifications is one transaction around real deliveries: a crash or an error at its end undoes
  the records but not the messages.
* Mail is delivered again by the sender when reception answers 451, also after part of it was stored.
* Time decides a lot: intervals, pauses, retry delays, windows that collect mails, retention, cooldowns. Each
  process reads the clock once at the beginning of a job and uses this value until its end.
* A file is named by the hash of its content, so several rows share it, and it is deleted before the transaction that
  removes the rows has committed.
* Every transaction is READ COMMITTED and most lists of rows have no unique constraint: two sessions that look before
  either commits both act on what they saw.

`PROJECT.json` lists every such place with its line under "hazards", with the properties that watch it.

## The modules

| Module | What it is | Extended by |
|---|---|---|
| `Scheduler` | the scheduler loops of any number of web processes over one table | `MCScheduler`, `Scheduler_proofs` |
| `OneTurn` | the abstract promise about a job: it runs in at most one process | instantiated by `Scheduler` (`Promise`) and `Upkeep_proofs` (`Turns`) |
| `Notifications` | alerts, channels, the delivery queue and a run of the dispatch job | `MCNotifications`, `Notifications_proofs` |
| `Outbox` | the abstract promise about a delivery: one outcome, which is true and stays | instantiated by `Notifications` |
| `AlertRules` | sessions that evaluate rules while people change rules and alerts | `MCAlertRules`, `AlertRules_proofs` |
| `Reception` | senders, SMTP sessions, uploads and the imports in their transactions | `MCReception`, `Reception_proofs` |
| `Senders` | who classifies a source address: people, decisions about senders, the refresh job | `MCSenders`, `Senders_proofs` |
| `SenderCatalog` | what names a sender and what lists an address (functions) | `Evidence` |
| `Evidence` | what these functions promise together (`EvidenceIsWeighed`) | `MCSenders`, `Senders_proofs` |
| `DnsCheck` | when a domain is checked and which result stays | `MCParts`, `Upkeep_proofs` |
| `DmarcEvaluator` | the verdict on a row of a report (functions) | `DnsRecords`, `Reception_proofs` |
| `DnsRecords` | what the records of a zone amount to (functions) | `MCVerdicts` |
| `Digest` | the weekly digest of an organisation and of further recipients of its domains | `MCParts`, `Upkeep_proofs` |
| `Retention` | a retention run, with uploads and mails that come in meanwhile | `MCParts`, `Upkeep_proofs` |
| `Accounts` | signing in, sessions, changes of an account, the lock against guessing | `MCParts`, `MCAccess`, `Accounts_proofs` |
| `Members` | members, tokens, domains and limits of one organisation | `MCParts`, `Members_proofs` |
| `FirstSetup` | the code that makes the first administrator | `MCParts`, `Members_proofs` |
| `RateWindows` | the windows of the receiver | `MCParts`, `Accounts_proofs` |
| `Thresholds` | settings of an organisation over those of the `.env` | `MCParts`, `Members_proofs` |
| `Figures`, `Recommendations`, `AlertChecks` | the numbers, the advice and what rules look for (functions, each extending the one before) | `ReportStore` |
| `ReportStore` | what an organisation has stored of its reports, and how that changes | `Agreement` |
| `Agreement` | where the queries over it have to agree (`FiguresAgree`) | `MCFigures`, `Reception_proofs` |
| `MCVerdicts`, `MCFigures` | bounded inputs for the verdicts, and what their results promise; a small organisation for the figures | `MCParts` |
| `MCParts` | the modules above from `DnsCheck` on, next to each other | run `parts_apart` |

Names of actions are names of functions where an action is one function (`claim` is split into `CheckRow`,
`InsertRow` and `Claim`, because other processes act between its statements). Definitions that sit directly before
the one they resemble and carry a comment like "an off-by-one" (`DueOffByOne` before `Due`) are plausible bugs of that
definition. No specification uses them; each is known to violate the property named with it in `PROJECT.json` and
shows that the property says something about the code.

### Scheduler

`row`, `last` and `status` are the columns of `scheduler_runs`; `pc`, `at`, `now` and `outcome` are the locals of
`scheduler_loop` and `run_job`; `from` and `begun` are history. Each statement with its commit is one step. Any
number of processes crash and restart, the database may fail any statement of a run, and time passes at any point
within two bounds: `MaxStall` for the time a process spends inside the claim and `MaxRun` for a run.

* `scheduler_timely` (2 processes, 2 jobs with intervals 3 and 4): runs end within their interval. A job runs in one
  process at a time, its row says "running" while it does, the scheduler implements `OneTurn`, and every turn that is
  due is taken. The clock goes to 4, so that both jobs come to a second turn.
* `scheduler_overrun` (1 job, runs up to 7 ticks at an interval of 3): runs may outlive their interval. Then two
  processes do run the job at once, but on different turns (`TurnsApart`), and starts are an interval apart in real
  time, less the stall between reading the clock and the UPDATE (`StartsSpaced`).

The docstring of `app/models/scheduler.py` says that a job runs once at a time. The claim alone does not give that:
nothing in the WHERE clause asks for the status, so a run that outlives its interval is joined by the next.
`OneAtATime` therefore holds under the condition `RunsEndInTime` of the proofs, `MaxStall + MaxRun` shorter than
every interval; the job that comes closest to the limit in practice is the one that sends notifications, every minute.

Fairness: a process that is up goes on, a process that is down comes back, and faults end at some point. The loop has
no exit besides the stop event, containers restart on their own, and all connections have timeouts. Without the last
assumption a process that dies before every claim would starve a job for ever.

### Notifications

`status`, `tries` and `nextAt` are columns of `notification_deliveries` (`status`, `retry_count`,
`next_attempt_at`), `alert` and `created` of `alert_events`, `target` stands for channels and for further recipients
of a domain. A run of `dispatch_pending` is three kinds of steps: it loads the batch with alerts and channels, sends
message after message over the network, and commits all outcomes at its end. People close alerts and change channels
at any point of it. A receiver takes a message, refuses it, or takes it while the answer gets lost.

* `notifications_bundle`: two alerts that are bundled in one mailbox. Notifications implement `Outbox`: a delivery waits until it
  gets one outcome, which stays and is true of what arrived, and a message arrives once and once more for every lost answer or
  lost run. Retries end, a closed alert is silent unless it was closed under the hands of the run, every delivery settles.
* `notifications_batch`: one alert, a channel that sends singly and a further recipient by mail, a batch of one. The
  collected mail and the failed delivery do not keep each other out for ever; nothing is sent to what was off when
  the run began.
* `notifications_closed` (violation): the comment in `_skip_if_closed` says that the status is checked right before
  sending. The session read it with the batch and never refreshes it, so an alert that is closed during a run still
  sends.

Abstractions: one run at a time (that is `OneAtATime` of the scheduler), a retry that would come after the end of the
clock comes at its end, deleted rows keep their last values (`Row` tells them apart), a test message of a channel is
left out.

Fairness: the job is started again and again (`EveryTurnComes` of the scheduler), a run that began goes on because
every request has a timeout, and time passes. Nothing is assumed of people, receivers and faults.

### Alert rules

`rule` is `is_active` of a rule, or gone; `status`, `owner`, `about` and `age` belong to alerts; a session of
`evaluate_rules_for_org` has the rules it has loaded and not checked (`left`), the alerts it has raised and not
committed (`draft`) and how far its clock is behind (`lag`). What a rule finds is an input (`bad`, and perhaps more in
a session's own import). `delete_rule` is three steps: the UPDATE that cuts alerts off, the reads of the ORM
cascade, the DELETE with its commit, which the foreign key makes wait for sessions that have alerts of the rule in hand.

* `alertrules_race` (2 sessions, 1 rule, 2 alerts): an alert is repeated while the last one is active, or before the
  pause is over, only if the other one was committed between the check and the commit of a session; no alert belongs
  to a deleted rule; a finding that lasts is reported.
* `alertrules_history` (violation): the comment in `delete_rule` says that alerts stay in the history. One that is
  committed between the UPDATE and the cascade is deleted with the rule.

Abstractions: times are ages that stop growing at `Old`, when no pause can tell them apart, so that behaviours go on
for ever; alerts are resolved only while an id is left for the next one.

Fairness: a session that began goes on and the job comes again; time passes.

### Reception

`pending` and `acked` are what the sender knows; a session has a `mail`, the recipients `chosen` at RCPT and those
that are left (`rcpts`), and, inside the transaction of one recipient (`org`), the reports it has still to look at
(`left`) and has stored (`draft`). `copies`, `kept`, `failed` and `totals` are what is committed. `InsertTls` and
`Conflict` are the two ends of an insert under a unique constraint: it waits for a transaction that has inserted the
same key, and fails with its whole transaction when that one commits or waits for it in turn. `base` is the row of
`source_ips` as the session read it; the UPDATE writes absolute numbers.

* `reception_mails`: a TLS report, a failure report, an aggregate report for two recipients with a file that cannot be
  read, an upload with the same report and another one; two sessions; a domain switched off and on; one fault (a lost
  connection, a lost transaction or an import that breaks). What a sender has 250 for is stored, and its reports are
  stored or their attachment is marked as failed; TLS reports are stored once; an aggregate report is stored twice only
  by a transaction that looked before the other committed; a mail is stored once, and once more for each fault; the
  totals of a source match the reports unless two transactions were at it at once; every mail is settled.
* `reception_twice` (violation): the comment in `handle_DATA` says that nothing was saved when it answers 451. Each
  recipient has a transaction of its own, so those before the one that fails are committed, and the redelivered mail
  stores a failure report a second time for them: `store_failure_report` looks for no duplicate. Nothing else goes wrong
  in this run (`OnlyTransactionsFail`), so TLC's trace is that of the comment: two recipients, the first committed, the
  second rolled back, the mail again, the first stored twice. The run may stop once the mail is settled.

One session more would only repeat what two do: each race is between a look and the commit of one other session, and
the proofs hold for any number. One fault is enough to bring a mail back after part of it was stored, the case the
retry is about. `MailsStoredOnce` counts faults, so more of them only add more of the same.

Abstractions: READ COMMITTED as on PostgreSQL (SQLite serialises writers and allows less); a report is one message
from one source; a mail holds reports of one kind, as the handler looks for one kind after the other; attachments of
a mail have no report in common; the order of attachments makes no difference; rate limits put recipients off at any
time; a sender has one connection at a time for a mail, as far as it knows. Mails without reports, archive bombs and
unreadable mails are stored and answered without any import and are left out, as is a mail over the size limit.

Fairness: a transaction goes on, and a sender comes back until it has 250 or 550 and gets through in the end (strong
fairness, because an address that is switched off and on makes either answer possible only now and then).

### Senders

A session has the rows it `loaded`, the fresh evidence it looked up, and writes back only the columns it changed, with
no version column: READ COMMITTED. People classify an address, decide about a sender and with it about all its
addresses, or reset either; the job names senders, follows decisions and applies the rules. History is which rows a session
loaded before another one changed them (`stale`) and which were written by sessions that overlapped (`torn`).

* `senders_rows` (1 address, 1 sender, 2 sessions, 2 orders of people, 1 change of the world): `DecisionsStay`, the word
  of a person gives way only to people, and to a session that had read the row before; `SourcesSettle`, every address
  ends in agreement with decisions, evidence and rules, except for torn rows, which nothing repairs by itself;
  `EvidenceIsWeighed`, in three parts: a catalog says what its two files say (`RightCatalog`), a sender is named by the strongest
  evidence (`RightSender`), and the rules list an address by the last answers of DNS about it (`RightRule`), over catalogs of up
  to three entries, lists of up to two domains and pairs of lookups. The functions read no state, so one state is asked.

One address is enough, because sessions touch rows independently of each other and the batch is any set; two sessions
are, because a race is between a read and the commit of one other session; the proof holds for any number of each.

Fairness: a session that began ends, and the job comes again. Nothing is assumed of people, of the evidence or of lost
transactions, which are bounded.

### Parts that stand apart

The DNS check, the digest, retention, accounts, members, the first setup, the windows and the thresholds share no row,
so interleaving them would multiply states and show nothing. `MCParts` composes them with a variable `part` that is
chosen in the initial state: that part moves and all others stand still. Two modules have several kinds of behaviours:
the DNS check is a `queue` (the job, two domains that stay active, a batch of one) or a `race` (three requests and the job
at one domain); an organisation has its `members` (invitations and removals), its `tokens` or its `domains` (requests and imports). In `figures` the stored reports move, and in `verdicts`
nothing does; there the pure functions are asked. The run `parts_apart` checks them all:

* DnsCheck: `SlotsComeBack`, `NewestResultStays`, `CooldownHolds`.
* Digest: `SomebodyGotIt` and `OneMailASlot`, what the marks say of mails that were sent is so, and a mail says something new.
* Retention: `FilesFollowRows`, what rows say of files is so.
* Accounts: `OldSessionsEnd` and `GuessesAreBounded`. FirstSetup: `OneFirstAdmin`. Members: `AdminRemains`, and
  `AnswersHold`, what a request was told about limits and about rows that are there still holds when it has committed. It says
  nothing of the domains that imports add: `get_or_create_domain` of `import_service.py` knows no limit.
* RateWindows: `WindowsHold`. Thresholds: `SettingsHold`.
* `JobsCatchUp`: `DomainsAreChecked` (every domain that stays active gets its turn with a batch of one) and
  `ExpiredRowsGo` (all that is overdue goes, with one row per run and kind).
* `VerdictsHold`: `OwnersAreTold` and `RecordsAreJudged` (MCVerdicts). `FiguresAgree`: see below.

Each module has a type invariant (`DnsTypeOK`, `MembersTypeOK`, ...). Those are theorems, so the runs do not repeat them.

Several properties name excuses, which are history variables that say which race happened. They are what the code does
not rule out, found by TLC as a behaviour first: `overtaken` (a DNS result older than the one it replaces, because
another session stored its own between lookup and commit), `undercut` (`dns_checked_at` set back by a check that began
earlier), `joined` (two sessions send the digest of the organisation at once), `excused` (a digest whose mark was lost
or set back), `spared` (a session that began while the password was being changed), `raced` (two requests or imports make the same
member or domain), `demoted` (an administrator who was let in and has lost the role before his request commits), `doubled` (two
setup codes), `mixed` (two saves at once, or rows for one field that
two have left).

**DNS check.** `lag` is the age of a session's "now", `pc` its phase; the job's claim is one UPDATE (`_claim`). Ages stop
at `Old`. *Bounds*: two domains and a batch of one for the queue, one domain with three requests and the job for the race (one more request
than may check at once, so that the limit turns one away; they are alike, so the first that is free begins), cooldown and interval of one tick, one fault. *Fairness*: a session goes on (all lookups have a time budget), the job comes again (`EveryTurnComes`), time
passes.

**Digest.** Time is the number of slots up to a moment, because `digest_due` compares nothing else. Mails leave one by
one; the mark is committed after the last. *Bounds*: one listed address, one administrator, one further recipient with
two rows, the job and one page, two slots, two orders or faults (the rows are alike: at the start the first ones are on): enough for a mark that is set back and for a row that
is deleted under the job. A digest of which some mails fail counts as sent; the others wait for the next slot, which
`SomebodyGotIt` states as what the mark means.

**Retention.** A run is one transaction, but files go at once. `i1` and `i2` share one file, a mail and two reports refer to them,
everything stays one day; the two imports are alike, so `i1` comes first. A rollback leaves rows without files; `FilesFollowRows` admits that only where a row of the
same content was overdue. *Fairness*: a run that began ends and the job comes again.

**Accounts.** One account, two browsers at one address, four attempts, a clock of two windows at most. A request reads, spends
its time with the hash, and commits. `GuessesAreBounded` allows for attempts that asked for the lock before it was
there, one per browser at most.
`access_lock` (violation): the docstring of `login_guard.py` says that a lock lasts `LOGIN_LOCKOUT_SECONDS` from the last
failure. The window moves on with the clock, so the lock ends once the first counted failure leaves it.

**Members.** A request reads what it decides on and commits later, or fails (`RequestLost`). An import does the same with the domain of
a report, but asks for no limit and nobody's leave (`import_domain`); an import with several new domains is as many imports here. `LimitsHold`
therefore counts what requests made (`Requested`), while what imports made counts when a request asks (`Used`). `AdminRemains` is
about the step that takes the last administrator: it is the operator's, an invitation of oneself, or that of somebody who has
been `demoted` since he was let in, as two administrators do who remove each other.
*Bounds*: three people of whom one is the operator (the others are alike, so the first invited is always the same), two requests
or imports at a time, two names, limits from 0 to 2 (0 for tokens only, as `LIMITS` in `org_limits.py` has it), three rows of members,
four of tokens and of domains. Members begin with a limit of 1 or 2 and one row, the others with a limit of 1, so each limit
is reached, and exceeded by two requests that counted at the same time.

**First setup.** Two tools that may make a code at the same time, two visitors, two codes and one lost request. The DELETE of the code
is what two visitors meet at; rows of codes are locked one after the other.

**Windows.** A look into a window and its entry are one step under the lock; the lookup in the database lies between the two
windows, and time passes there. They live in memory and are empty after a restart. Three calls by two threads are one more than either limit.

**Thresholds.** Two administrators, three rows, three saves, values one and two. Nothing makes rows of `app_settings` unique: two saves at a time
may leave two rows for a field, of which later saves change only one. `SettingsHold` is about everything else.

### Functions

* `DmarcEvaluator`: `OwnersAreTold` compares relaxed alignment with "one owner holds both names" over a small list of
  public suffixes, one of them with two labels, and says that a verdict follows the evidence: more evidence never turns a
  pass into a failure, strict alignment never a failure into a pass.
* `DnsRecords`: `RecordsAreJudged` says that publishing what a check suggests settles it and keeps the policy and the other
  receivers, for all DMARC records of up to three tags; that SPF lookups are counted as a walk over all includes
  counts them, in zones with loops; that keys are measured by their bits; and that a group of checks whose lookups fail
  changes nothing in the others. It is the only module with RECURSIVE operators (the SPF includes), and no proof uses it.

### Figures

`ReportStore` says what an organisation has stored at some moment: `world` has the reports with their rows, the sources, the domains and
what else the queries look at. Reports come in (`import_report`, with the domain and the sources they create and the tags they
tell), retention takes the oldest ones in batches, people and jobs change domains and sources, and time passes. A transaction is one
step at one moment, which makes `first_seen_at` of a source the `created_at` of its first report; what two
transactions do to one row is in `Reception` and `Senders`. A domain at its limit, which the code refuses, is left out, as it changes nothing.

`Figures`, `Recommendations` and `AlertChecks` are the queries over it. Each has windows and boundaries of its own: a week by the moment a
report came in or by the day of its traffic, with or without the end, per domain or per organisation. `FiguresAgree`:

* `SumsAgree`: the dashboard, its split of failing mail, its dispositions and the digest of the same period count the same messages; so does
  the chart where traffic arrives on its day; the lines of a digest, and the digests of the single domains, add up to that of the
  organisation, but for mail that names no domain; what it compares itself with is what the digest of the period before said.
* `CausesExplain`: the causes of an alert account for what it counts, and its page and its text after a start say the same.
* `SourcesAreFound`: a new source is found for each active domain it sends for, and no other. This needs that retention is no
  shorter than the window of the rule: `high_volume_source` goes by `total_messages`, which retention leaves alone, the page by the
  stored rows, and the domains of a source are those of its stored reports.
* `VolumesAreOnce`: every message counts in one window, and volume does not rise and fall at once unless both thresholds are zero.
* `AdviceFits`: dashboard, advice and alerts agree on reports that stay away, and on failing mail where the limits of a pair leave no gap.
  Who is ready for `reject` is ready for `quarantine` only where `QUARANTINE_PASS_RATE <= REJECT_PASS_RATE`: `save_thresholds` checks
  that pair when an organisation sets one of the two, and nothing checks it in a `.env` (`_rate_order` of `config.py` knows other pairs).

In the part `figures` of `parts_apart` up to two reports of two kinds (all mail passes, half of it) are stored, for two domains or none, with a retention of
two days in batches of one, moments on both sides of every window, one change meanwhile (`MaxChanges`), and rules of the types the properties ask about, with windows of one to three days.
Two reports are enough to meet each boundary from both sides, and for a report that is gone while its source stays; the reports are alike, so
`s2` comes only when one is there, and the first domain is `a`. The thresholds are such that shares fall on them or next to them, with the pair for a stricter policy in either order. The proof holds for any number of everything.

What was met on the way and has no run of its own:

* `refresh_event_texts` explains open alerts anew at a start with the rule's present window and stores it as
  `window_minutes`, while title and prefix keep the old numbers; the check of the causes therefore refreshes with an unchanged window.
* A comment in `evaluate_record` calls the DKIM result of the row a fallback for missing detailed results; it also applies when there are such results and none of them is aligned.
* Rates are exact fractions here. The code rounds doubles: 57 of 100 times 100 is less than 57 there.
* With both thresholds at 0 the volume rule finds a spike and a drop at once.
* The advice in `build_digest` is that of the present and not of the week the mail is about.
* The order of pairs is checked for the `.env` at a start only for the pass rates of the pages; `Thresholds` models that pair.
* TLS, import and rejection evaluators are translated, but the part stores none of these, and no property is about their sums.

## What is proved

The theorems hold for every value of the constants that satisfies the named assumptions: any number of processes, jobs,
alerts, channels, rules, sessions, mails, reports and requests, any bounds. The assumptions say what the constants are
(sets, numbers, which subsets are disjoint). Two hypotheses go further, and the theorems that need them name them:
`RunsEndInTime` (three theorems of the scheduler) and "one run of the digest job at a time", as `OneRun` or as the promise
of `OneTurn`. `PausesAreNumbers` tells the provers that a power of two times a delay is a number.

Each of the following is an inductive invariant that starts true, that every action keeps, and that implies the property.
The type invariant of every module is a theorem as well; it comes first, because nearly every other step needs it.

**Scheduler** (`Scheduler_proofs`). The invariant adds to the types that a claim is at most `MaxStall` old (`ClaimFresh`),
that a run knows when it began and holds a turn no newer than the mark in the row (`RunDated`), and that the mark lags the
commit of the claim by at most `MaxStall` (`MarkDated`). From it follow `TurnsApart` and `StartsSpaced` for runs of any
length and, under `RunsEndInTime`, `OneAtATime` (`JobsRunOnce`), `StatusShowsRun` and the refinement of `OneTurn`: a claim is
`Take`, the end or the death of a run is `Leave`, everything else changes nothing there. `OneAtATime` is what the refinement
says in a state, so no run checks it apart from `ImplementsOneTurn`.

**Notifications** (`Notifications_proofs`). The invariant relates what was received and attempted to the stored
counters, to the outcomes a run holds and to the faults: a delivery that is neither sent nor in the hands of a run
was received at most as often as there were faults. It also says that what a run knows of an alert or a target is
right unless it changed since (`late`). All safety properties of the runs follow, and the refinement of `Outbox`
(`NotificationsImplementOutbox`): its state is the status of a row with its outcome, a commit settles the deliveries of a run at once,
a sent message arrives there, whatever the answer, and everything else, the loss of a run included, changes nothing or adds a
mishap. That a delivery arrives once, and that outcomes stay, is what `Outbox` says, so no run checks it apart from `ImplementsOutbox`.

**Alert rules** (`AlertRules_proofs`). `DraftsWereMissing`: what a session has in hand is not active in the table, nor
in its pause, except for alerts that came since it looked (`fresh`). This is what makes repeats races.

**Reception and import** (`Reception_proofs`).
* Sessions without a mail have nothing (`SessionsTidy`), a TLS report in one transaction is in no other and not committed
  (`TlsApart`), what was committed under the hands of a transaction is remembered (`RacesRemembered`), a report of the mail is
  still left, stored, known or unreadable as long as its attachment did not break (`WorkKept`), and what the loop over the
  recipients has behind it is stored (`RecipientsKept`). These five give `AcceptedIsStored`, `TlsReportsOnce` and `DuplicatesAreRaces`.
* `MailsStoredOnce` needs to count sessions (`DeliveriesCounted`, `RecipientsOnce`): the copies of a mail, and the sessions that may
  still store one, are together at most one more than the faults, because only a fault makes a sender come again.
* `TotalsAddUp` compares a stored number with a sum. `SourcesCurrent` says that the row a transaction has read is the committed one
  unless another session wrote since, `TotalsFollow` that the committed number is the sum over the committed copies. How a sum over
  a finite set changes when one summand does is proved by taking a smallest counterexample (`WFMin`), as the induction theorems of the
  library are out of reach.

**The verdict on a row** (`Reception_proofs`, next to last section). For every public suffix list: two names are aligned in the relaxed mode
exactly if they are the same or one registration below a public suffix holds both (`AlignedNamesHaveOneOwner`); the proof is about the
longest listed ending, and about a name without an owner, which is never what another name's owner registered (`OwnersAreOwned`). From it,
a pass is earned by a domain of the same owner (`PassesAreEarned`), and more evidence or a laxer mode never makes a pass fail
(`VerdictFollowsEvidence`).

**Figures** (`Reception_proofs`, last sections). `FiguresAlwaysAgree`: `FiguresAgree` holds at every moment, for any reports, entries, domains,
moments, thresholds and rules. It rests on an invariant of the tables, `StoreInv` (`TablesInOrder`): the rows of a report are its own, finite and
count in natural numbers; its domain is stored; whoever sends in a report has one source, no younger than the report; and a source
that is younger than retention has in its total exactly the messages stored of it and has its first report still (`SourcesKept`).
The last part is what `SourcesAreFound` needs and what retention could break: it takes reports that are older than `KeepDays` only, and those are
older than any report of such a source (`PurgeKeeps`).

From there each part of `FiguresAgree` is an argument about one state.
* *Sums.* One line for each key, with the sum of its rows, adds up to the sum of all rows (`TotalOfGroups`, and `ReportGroups` for the
  reports of a domain or a day). It needs that the element with which a sum begins makes no difference (`SumRemove`), by
  a smallest counterexample. The dashboard, the dispositions (`DashboardAddsUp`), the lines, the single digests and the days of the chart are groupings of
  the same rows, and two windows that meet share no report.
* *Causes.* Sources and causes both account for exactly the failing messages (`CausesAddUp`); the page is the same query as the alert,
  since the window of the event and not that of the rule decides.
* *Sources and volumes.* A source whose first report is stored is seen by every query that looks back as far; the windows of the volume
  rules partition the days they look at.
* *Advice.* Comparisons of shares become comparisons of products of natural numbers, which are shown by monotonicity.

The assumptions say what thresholds and rules are: positive windows, and shares in percent (`ThresholdsAreNumbers`). No pair of them is
assumed to be in order; where the order matters, it is a condition of the property (`ReadinessAgrees`).

**Senders** (`Senders_proofs`). Because writes go column by column, the invariant of `DecisionsStay` is about columns: what a person
classified is seen as such by every session whose copy is not stale (`PeopleSeen`), and such a session has no column of it in hand
(`PeopleSpared`). The types need that a patch laid over any row is a row (`PatchesFit`, `RestTyped`), whatever was committed in between.

`EvidenceWeighed` is `EvidenceIsWeighed` for any files, names, answers and settings.
* *Catalog* (`CatalogSaysWhatFilesSay`): along the entries of a file, what is in the catalog is what the entries so far say, keys are single,
  and each entry takes the place of one with its key or comes last; the extra file goes on from the built-in one.
* *Sender* (`StrongestEvidenceNames`, `CatalogsNameSenders`): a host name counts only if it resolves back, and before signatures, these before SPF,
  within one kind the first name and the first sender, and nobody is named without evidence. Comparing the ends of names comes to
  "the domain or one below it".
* *Rules* (`RulesFollowAnswers`): what two lookups leave of name, network and country is the last answer of each kind, so a failed lookup
  takes nothing back.

The assumptions of `Evidence` say that files, names and answers are lists of what they should be.

**Upkeep** (`Upkeep_proofs`).
* *DNS check.* `SlotsComeBack`: the counter of manual checks is the number of checks under way, counted over finite sets of requests through
  every way a check ends (`DnsInv`). `NewestResultStays`, from "a result found is at least as new as the stored one
  unless the session was overtaken"; `CooldownHolds`, from how the ages of `dns_checked_at`, of the last claim and of a session's "now" relate.
* *Digest.* `SomebodyGotIt` for any sessions at once: who is in a session's hands has been told of its slot (`Told`).
  `OneMailASlot` (`JobMailsNews`) for any number of processes that run the job, as long as no two runs are under way at once
  (`OneRun`): whoever has a digest newer than the mark is excused or in the hands of the session that sent it (`MarksFollow`,
  `RowsFollow`), and a run that sends alone does so for a slot that is not marked (`Alone`). Pages that send now may come at any time.
  `MailsOfTurnsNews` replaces the hypothesis by a scheduler: conjoined with `OneTurn`, whose turn every run of the job holds,
  the mails say something new. That `Scheduler` implements `OneTurn`, if runs end in time, is `SchedulerImplementsOneTurn`.
* *Retention.* `FilesFollowRows`: what a run is about to delete is there (`WorkReal`), a row whose file is gone shares its content with one
  that was overdue (`MissingFilesExplained`), and without mishaps each file has a row that keeps it (`FilesHaveRows`).

**Accounts and windows** (`Accounts_proofs`).
* `OldSessionsEnd`: no stamp of a row, cookie or request is ahead of the clock (`StampsPast`), a login that found the password right knows
  the present one unless a change crossed it (`RightsKnown`), and a session younger than a change that is still under way
  is known as such (`LateSpared`).
* `GuessesAreBounded` counts the failures within the window together with the requests about to record one (`GuessBound`): each
  other browser may have asked for the lock before it was there, and no more than that.
* `WindowsHold` (`LimitsPerHour`): from any time of the last hour on a window has as many entries as the history has calls let in
  (`Counted`); a call comes to each window once (`Progress`, `CallsApart`). The lemmas are about sequences that lose their old head.

**Members, setup, thresholds** (`Members_proofs`).
* `AdminRemains`: whoever is about to change a membership administers the organisation, unless he has been demoted meanwhile
  (`ActorsAdminister`), and a change leaves those alone whom its row is not about (`OthersStay`), so the author of the change remains
  unless it is about himself. `AnswersHold`: a person has one
  membership and a name one domain unless two requests or imports raced (`PersonSingle`, `NameSingle`), and what requests made
  of a kind, with the requests under way, exceeds its limit by less than the number of requests at a time (`Balance`). That imports add domains
  beside them only makes requests stop earlier.
* `OneFirstAdmin`: a code is in the table or was used, once, unless two tools made one each (`Numbered`, `RowsGuarded`).
* `SettingsHold`: unless saves `mixed`, a field that is set has one row, with the value saved last, and the others have none (`Exactly`); a save
  under way holds rows of its own for the fields it changes, and values in order (`SavingInv`).

**Only checked by TLC.** The liveness properties (`EveryTurnComes`, `EveryDeliverySettles`, `FindingIsReported`,
`EveryMailSettles`, `SourcesSettle`, `JobsCatchUp`), because fairness and ENABLED are out of this prover's reach. `VerdictsHold`
asks also for `RecordsAreJudged`: the functions of `DnsRecords` are recursive, and their reference definitions are computed for
bounded inputs; the other half, `OwnersAreTold`, is the subject of the theorems about the verdict. The findings: that a comment
does not hold is shown by one behaviour.

## What is not modelled

`PROJECT.json` gives the reason for every component. In short: configuration enters as constants, parsers and archives
as inputs (a report that is readable or not), mail transport as an outcome; rendering, pages and the API read, or
repeat writes that are modelled; start, health checks and migrations run alone. Of components that are modelled in part
these are left out: the test message of a channel; creating and editing alert rules; mails without reports or in
quarantine; the pages of organisations; tables and labels of the statistics; rotating inbound
addresses, which nothing calls.

## What is left

1. The composition of the scheduler with Notifications, as it is done for the digest: there a run is a variable of its own (`pc`)
   without the process that executes it.
2. The import of mails that cannot be read (quarantine).
3. Theorems about the sums of TLS reports, and about `DnsRecords` once its recursion over SPF includes is a recursive function.

## Running

`tlc -config <run>.cfg <module>.tla` with the pairs listed under "runs" in `PROJECT.json`, and `tlapm <module>.tla` for
the modules whose name ends in `_proofs`. `parts_apart` is the longest run, about three minutes with two workers.
