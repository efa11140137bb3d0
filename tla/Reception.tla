------------------------------ MODULE Reception ------------------------------
(***************************************************************************)
(* Receiving and importing reports (smtp_inbound/, import_service.py,      *)
(* upload.py, and the store functions of TLS and failure reports).         *)
(*                                                                         *)
(* A mail goes to the report addresses of one or more organisations.  The  *)
(* sender keeps it until it has read 250 for a recipient and delivers it   *)
(* again otherwise.  handle_DATA stores the mail for one recipient after   *)
(* the other, each in a thread and a transaction of its own, and answers   *)
(* once, at the end.  When the connection breaks, the thread at work goes  *)
(* on, and the sender may be back before it is done.  Uploads run the same *)
(* import in the web process.                                              *)
(*                                                                         *)
(* Sessions see what is committed and their own work (READ COMMITTED).  A  *)
(* report counts as one message from one source address, the same for all *)
(* reports, so that the rows of source_ips are the totals of that source.  *)
(***************************************************************************)
EXTENDS Integers, Sequences, FiniteSets, Functions

CONSTANTS
    Mail,        \* mails on their way, and files to be uploaded
    Upload,      \* the files among them
    Org,         \* organisations, each with one report address
    OfDomain,    \* those whose report address belongs to a domain
    To,          \* To[m]: the organisations a mail is addressed to
    Report,      \* reports by their ID
    Dmarc,       \* aggregate reports
    Tls,         \* TLS reports; all others are failure reports
    Bad,         \* reports that cannot be parsed or have no ID
    Contents,    \* Contents[m]: attachments of a mail, each the set of reports in it
    Session,     \* connections of senders and requests of people
    NoMail, NoOrg, NoReport,
    MaxFaults    \* bound: lost connections, lost transactions and imports that break

Failure == Report \ (Dmarc \cup Tls)

ASSUME ConstantsAssumption ==
    /\ Upload \subseteq Mail
    /\ OfDomain \subseteq Org
    /\ To \in [Mail -> SUBSET Org]
    /\ Dmarc \subseteq Report /\ Tls \subseteq Report /\ Dmarc \cap Tls = {}
    /\ Bad \subseteq Report
    /\ Contents \in [Mail -> SUBSET SUBSET Report]
    /\ \A m \in Mail : \A j, k \in Contents[m] : j # k => j \cap k = {}
    /\ \A m \in Mail : \E kind \in {Dmarc, Tls, Failure} : \A j \in Contents[m] : j \subseteq kind
    /\ IsFiniteSet(Report) /\ IsFiniteSet(Session)
    /\ NoMail \notin Mail /\ NoOrg \notin Org /\ NoReport \notin Report
    /\ MaxFaults \in Nat

VARIABLES
    pending,     \* recipients a sender still has a mail for
    acked,       \* recipients it has read 250 for
    active,      \* organisations whose report address takes mails
    mail,        \* the mail a session is about
    linked,      \* the sender of it is still there
    chosen,      \* recipients accepted at RCPT
    rcpts,       \* those handle_DATA has not come to
    org,         \* the recipient whose transaction is open
    left,        \* reports of the mail it has not come to
    inserting,   \* a TLS report looked up and not yet inserted
    draft,       \* reports this transaction has stored
    broken,      \* attachments whose import broke
    base,        \* the row of source_ips it has read and the total in it
    copies,      \* committed: how often a report is stored for an organisation
    kept,        \* committed: rows of smtp_inbound_messages for a mail and an organisation
    failed,      \* committed: attachments marked as failed for an organisation
    totals,      \* committed: total_messages of each row of source_ips
    fresh,       \* history: reports others committed since this transaction looked for them
    stale,       \* history: others wrote totals since this transaction read them
    drift,       \* history: organisations whose totals were written from a stale value
    faults       \* history: lost connections, transactions and imports, refused inserts

sender == <<pending, acked, active>>
connection == <<mail, linked, chosen, rcpts>>
transaction == <<org, left, inserting, draft, broken, base, fresh, stale>>
database == <<copies, kept, failed, totals>>
vars == <<sender, connection, transaction, database, drift, faults>>

\* Nothing read from source_ips yet; row 0 is one that does not exist yet
Unread == <<0 - 1, 0>>

TypeOK ==
    /\ pending \in [Mail -> SUBSET Org]
    /\ acked \in [Mail -> SUBSET Org]
    /\ active \subseteq Org
    /\ mail \in [Session -> Mail \cup {NoMail}]
    /\ linked \in [Session -> BOOLEAN]
    /\ chosen \in [Session -> SUBSET Org]
    /\ rcpts \in [Session -> SUBSET Org]
    /\ org \in [Session -> Org \cup {NoOrg}]
    /\ left \in [Session -> SUBSET Report]
    /\ inserting \in [Session -> Tls \cup {NoReport}]
    /\ draft \in [Session -> SUBSET Report]
    /\ broken \in [Session -> SUBSET SUBSET Report]
    /\ base \in [Session -> {Unread} \cup (Nat \X Nat)]
    /\ copies \in [Org -> [Report -> Nat]]
    /\ kept \in [Mail -> [Org -> Nat]]
    /\ failed \subseteq Mail \X Org \X SUBSET Report
    /\ totals \in [Org -> Seq(Nat)]
    /\ fresh \in [Session -> SUBSET Report]
    /\ stale \in [Session -> BOOLEAN]
    /\ drift \subseteq Org
    /\ faults \in Nat

Init ==
    /\ pending = To
    /\ acked = [m \in Mail |-> {}]
    /\ active = Org
    /\ mail = [s \in Session |-> NoMail]
    /\ linked = [s \in Session |-> FALSE]
    /\ chosen = [s \in Session |-> {}]
    /\ rcpts = [s \in Session |-> {}]
    /\ org = [s \in Session |-> NoOrg]
    /\ left = [s \in Session |-> {}]
    /\ inserting = [s \in Session |-> NoReport]
    /\ draft = [s \in Session |-> {}]
    /\ broken = [s \in Session |-> {}]
    /\ base = [s \in Session |-> Unread]
    /\ copies = [o \in Org |-> [r \in Report |-> 0]]
    /\ kept = [m \in Mail |-> [o \in Org |-> 0]]
    /\ failed = {}
    /\ totals = [o \in Org |-> <<>>]
    /\ fresh = [s \in Session |-> {}]
    /\ stale = [s \in Session |-> FALSE]
    /\ drift = {}
    /\ faults = 0

-----------------------------------------------------------------------------
(* The sender and its connection *)

\* People switch a domain off and on, and its report address with it; the address of an organisation stays
domain_toggle(o) ==
    /\ o \in OfDomain
    /\ active' = IF o \in active THEN active \ {o} ELSE active \cup {o}
    /\ UNCHANGED <<pending, acked, connection, transaction, database, drift, faults>>

\* A sender has one connection at a time for a mail, as far as it knows
InTransit(m) == \E s \in Session : mail[s] = m /\ linked[s]

\* handle_RCPT for the recipients of a mail: those whose address is active, less those a rate limit puts off, are
\* taken down with their organisation
handle_RCPT(s, m) ==
    /\ mail[s] = NoMail
    /\ ~InTransit(m)
    /\ \E accepted \in SUBSET (IF m \in Upload THEN pending[m] ELSE pending[m] \cap active) :
        /\ accepted # {}
        /\ chosen' = [chosen EXCEPT ![s] = accepted]
        /\ rcpts' = [rcpts EXCEPT ![s] = accepted]
    /\ mail' = [mail EXCEPT ![s] = m]
    /\ linked' = [linked EXCEPT ![s] = TRUE]
    /\ UNCHANGED <<sender, transaction, database, drift, faults>>

\* An answer that makes the sender come back for a recipient that stays off
RejectForNow(m, o) ==
    /\ m \notin Upload
    /\ ~InTransit(m)
    /\ o \in pending[m] \ active
    /\ UNCHANGED vars

\* handle_RCPT: 550, the sender gives this recipient up
Reject(m, o) ==
    /\ m \notin Upload
    /\ ~InTransit(m)
    /\ o \in pending[m] \ active
    /\ pending' = [pending EXCEPT ![m] = @ \ {o}]
    /\ UNCHANGED <<acked, active, connection, transaction, database, drift, faults>>

\* The connection breaks; the thread at work does not notice
LoseConnection(s) ==
    /\ linked[s]
    /\ faults < MaxFaults
    /\ faults' = faults + 1
    /\ linked' = [linked EXCEPT ![s] = FALSE]
    /\ UNCHANGED <<sender, mail, chosen, rcpts, transaction, database, drift>>

Disconnect(s) ==
    /\ mail' = [mail EXCEPT ![s] = NoMail]
    /\ linked' = [linked EXCEPT ![s] = FALSE]
    /\ chosen' = [chosen EXCEPT ![s] = {}]
    /\ rcpts' = [rcpts EXCEPT ![s] = {}]

\* The transaction is over, one way or the other
EndTransaction(s) ==
    /\ org' = [org EXCEPT ![s] = NoOrg]
    /\ left' = [left EXCEPT ![s] = {}]
    /\ inserting' = [inserting EXCEPT ![s] = NoReport]
    /\ draft' = [draft EXCEPT ![s] = {}]
    /\ broken' = [broken EXCEPT ![s] = {}]
    /\ base' = [base EXCEPT ![s] = Unread]

-----------------------------------------------------------------------------
(* handle_DATA *)

\* The next recipient: its transaction begins with the row of the mail
_persist_and_process(s) ==
    /\ mail[s] # NoMail
    /\ org[s] = NoOrg
    /\ linked[s]
    /\ \E o \in rcpts[s] :
        /\ org' = [org EXCEPT ![s] = o]
        /\ rcpts' = [rcpts EXCEPT ![s] = @ \ {o}]
    /\ left' = [left EXCEPT ![s] = UNION Contents[mail[s]]]
    /\ UNCHANGED <<sender, mail, linked, chosen, inserting, draft, broken, base, fresh, stale, database,
                   drift, faults>>

\* A server that says 451 as long as a recipient of the mail is put off
AnswerWhenComplete(s) ==
    /\ mail[s] # NoMail
    /\ org[s] = NoOrg
    /\ linked[s] => rcpts[s] = {}
    /\ LET done == linked[s] /\ chosen[s] = pending[mail[s]]
       IN  /\ acked' = IF done THEN [acked EXCEPT ![mail[s]] = @ \cup chosen[s]] ELSE acked
           /\ pending' = IF done THEN [pending EXCEPT ![mail[s]] = {}] ELSE pending
    /\ Disconnect(s)
    /\ UNCHANGED <<active, transaction, database, drift, faults>>

\* 250, once every recipient is stored; a sender that is gone does not read it
Answer(s) ==
    /\ mail[s] # NoMail
    /\ org[s] = NoOrg
    /\ linked[s] => rcpts[s] = {}
    /\ acked' = IF linked[s] THEN [acked EXCEPT ![mail[s]] = @ \cup chosen[s]] ELSE acked
    /\ pending' = IF linked[s] THEN [pending EXCEPT ![mail[s]] = @ \ chosen[s]] ELSE pending
    /\ Disconnect(s)
    /\ UNCHANGED <<active, transaction, database, drift, faults>>

\* The transaction is rolled back; the answer is 451 for all recipients, those stored before included
Rollback(s) ==
    /\ EndTransaction(s)
    /\ fresh' = [fresh EXCEPT ![s] = {}]
    /\ stale' = [stale EXCEPT ![s] = FALSE]
    /\ faults' = faults + 1
    /\ Disconnect(s)
    /\ UNCHANGED <<sender, database, drift>>

\* A loop over the recipients that overlooks that one was not stored
AbortUnnoticed(s) ==
    /\ mail[s] # NoMail
    /\ faults < MaxFaults
    /\ EndTransaction(s)
    /\ fresh' = [fresh EXCEPT ![s] = {}]
    /\ stale' = [stale EXCEPT ![s] = FALSE]
    /\ faults' = faults + 1
    /\ UNCHANGED <<sender, connection, database, drift>>

\* The database fails a statement, or the process dies
Abort(s) ==
    /\ mail[s] # NoMail
    /\ faults < MaxFaults
    /\ Rollback(s)

-----------------------------------------------------------------------------
(* Importing, within the transaction of a recipient or a request; the order of attachments and reports makes no  *)
(* difference to what process_import_job commits                                                                 *)

\* process_import_job: the import of an attachment breaks (an archive that cannot be unpacked, a file that is gone,
\* an error in between); it counts as failed, its other reports are left out, and what it has stored stays
ImportBreaks(s) ==
    /\ left[s] \cap Dmarc # {}
    /\ faults < MaxFaults
    /\ faults' = faults + 1
    /\ \E j \in Contents[mail[s]] :
        /\ left[s] \cap j # {}
        /\ left' = [left EXCEPT ![s] = @ \ j]
        /\ broken' = [broken EXCEPT ![s] = @ \cup {j}]
    /\ UNCHANGED <<sender, connection, org, inserting, draft, base, fresh, stale, database, drift>>

\* An import without check_duplicate
KnownTls(s, r) == r \in Tls /\ (copies[org[s]][r] > 0 \/ r \in draft[s])

\* check_duplicate, the look of store_tls_report, and none for failure reports
Known(s, r) == r \notin Failure /\ (copies[org[s]][r] > 0 \/ r \in draft[s])

\* A report that cannot be read, or is stored already
Skip(s) ==
    /\ inserting[s] = NoReport
    /\ \E r \in left[s] :
        /\ r \in Bad \/ Known(s, r)
        /\ left' = [left EXCEPT ![s] = @ \ {r}]
    /\ UNCHANGED <<sender, connection, org, inserting, draft, broken, base, fresh, stale, database, drift, faults>>

Stored(s, r) ==
    /\ draft' = [draft EXCEPT ![s] = @ \cup {r}]
    /\ left' = [left EXCEPT ![s] = @ \ {r}]

\* store_parsed_report, with the row of the source as _upsert_source_ip finds it at its first report
store_parsed_report(s) ==
    /\ inserting[s] = NoReport
    /\ \E r \in left[s] \cap Dmarc : r \notin Bad /\ ~Known(s, r) /\ Stored(s, r)
    /\ \/ base[s] # Unread /\ UNCHANGED base
       \/ /\ base[s] = Unread
          /\ LET rows == totals[org[s]]
             IN  \/ rows = <<>> /\ base' = [base EXCEPT ![s] = <<0, 0>>]
                 \/ \E k \in DOMAIN rows : base' = [base EXCEPT ![s] = <<k, rows[k]>>]
    /\ UNCHANGED <<sender, connection, org, inserting, broken, fresh, stale, database, drift, faults>>

\* store_failure_report
store_failure_report(s) ==
    /\ inserting[s] = NoReport
    /\ \E r \in left[s] \cap Failure : r \notin Bad /\ Stored(s, r)
    /\ UNCHANGED <<sender, connection, org, inserting, broken, base, fresh, stale, database, drift, faults>>

\* store_tls_report: the report is not there yet
store_tls_report(s) ==
    /\ inserting[s] = NoReport
    /\ \E r \in left[s] \cap Tls :
        /\ r \notin Bad /\ ~Known(s, r)
        /\ inserting' = [inserting EXCEPT ![s] = r]
    /\ UNCHANGED <<sender, connection, org, left, draft, broken, base, fresh, stale, database, drift, faults>>

\* Another transaction has inserted the same report and is not over; the unique constraint makes this one wait
Holds(t, s) == t # s /\ org[t] = org[s] /\ inserting[s] \in draft[t]

\* A table without the unique constraint
InsertUnchecked(s) ==
    /\ inserting[s] # NoReport
    /\ Stored(s, inserting[s])
    /\ inserting' = [inserting EXCEPT ![s] = NoReport]
    /\ UNCHANGED <<sender, connection, org, broken, base, fresh, stale, database, drift, faults>>

\* The insert gets through
InsertTls(s) ==
    /\ inserting[s] # NoReport
    /\ copies[org[s]][inserting[s]] = 0
    /\ \A t \in Session : ~Holds(t, s)
    /\ Stored(s, inserting[s])
    /\ inserting' = [inserting EXCEPT ![s] = NoReport]
    /\ UNCHANGED <<sender, connection, org, broken, base, fresh, stale, database, drift, faults>>

\* The constraint, or a deadlock of two transactions, fails the insert and the transaction with it
Conflict(s) ==
    /\ inserting[s] # NoReport
    /\ \/ copies[org[s]][inserting[s]] > 0
       \/ \E t \in Session : inserting[t] # NoReport /\ Holds(t, s) /\ Holds(s, t)
    /\ Rollback(s)

\* Attachments without any readable report, and those that broke
FailedJobs(s) ==
    broken[s] \cup {j \in Contents[mail[s]] : j \cap Bad # {} /\ j \cap draft[s] = {}}

\* Totals counted once for each of the two results, SPF and DKIM
TotalsPerResult(s) ==
    IF base[s] = Unread THEN totals[org[s]] ELSE Append(totals[org[s]], 2 * Cardinality(draft[s] \cap Dmarc))

\* total_messages of the row that was read, plus what the transaction adds, as the UPDATE writes it
NewTotals(s) ==
    LET o == org[s]
        n == Cardinality(draft[s] \cap Dmarc)
    IN  IF base[s] = Unread THEN totals[o]
        ELSE IF base[s][1] = 0 THEN Append(totals[o], n)
        ELSE [totals[o] EXCEPT ![base[s][1]] = base[s][2] + n]

\* The commit of the transaction
Commit(s) ==
    /\ org[s] # NoOrg
    /\ left[s] = {}
    /\ LET o == org[s]
           m == mail[s]
           others == {t \in Session : t # s /\ org[t] = o}
       IN  /\ copies' = [copies EXCEPT ![o] =
                            [r \in Report |-> IF r \in draft[s] THEN @[r] + 1 ELSE @[r]]]
           /\ kept' = IF m \in Upload THEN kept ELSE [kept EXCEPT ![m][o] = @ + 1]
           /\ failed' = failed \cup {<<m, o, j>> : j \in FailedJobs(s)}
           /\ totals' = [totals EXCEPT ![o] = NewTotals(s)]
           /\ drift' = IF stale[s] THEN drift \cup {o} ELSE drift
           /\ fresh' = [t \in Session |-> IF t = s THEN {}
                                          ELSE IF t \in others THEN fresh[t] \cup (draft[s] \cap draft[t])
                                          ELSE fresh[t]]
           /\ stale' = [t \in Session |-> IF t = s THEN FALSE
                                          ELSE stale[t] \/ (t \in others /\ base[t] # Unread /\ base[s] # Unread)]
    /\ EndTransaction(s)
    /\ UNCHANGED <<sender, connection, faults>>

\* What a session does as long as nothing breaks
Step(s) ==
    \/ _persist_and_process(s) \/ Answer(s)
    \/ Skip(s) \/ store_parsed_report(s) \/ store_failure_report(s)
    \/ store_tls_report(s) \/ InsertTls(s) \/ Conflict(s) \/ Commit(s)

Next ==
    \/ \E o \in Org : domain_toggle(o)
    \/ \E m \in Mail, o \in Org : Reject(m, o)
    \/ \E s \in Session : Step(s) \/ LoseConnection(s) \/ Abort(s) \/ ImportBreaks(s)
    \/ \E s \in Session, m \in Mail : handle_RCPT(s, m)

Spec == Init /\ [][Next]_vars

\* A transaction that began goes on, and a sender comes back with its mail as long as it has to.  It gets through
\* in the end: reception has no limit on connections.  People need not upload anything again.
Deliver == \E m \in Mail \ Upload : (\E s \in Session : handle_RCPT(s, m)) \/ (\E o \in Org : Reject(m, o))

Fairness ==
    /\ \A s \in Session : WF_vars(Step(s))
    /\ SF_vars(Deliver)

FairSpec == Spec /\ Fairness

-----------------------------------------------------------------------------
(* Properties *)

\* A mail is stored for a recipient, and each report in it is stored for the organisation or its attachment is
\* marked as failed
StoredFor(m, o) ==
    /\ m \notin Upload => kept[m][o] > 0
    /\ \A j \in Contents[m] : <<m, o, j>> \in failed \/ \A r \in j \ Bad : copies[o][r] > 0

\* A sender that has read 250 may forget the mail: it is stored for that recipient, with what is in it.
AcceptedIsStored == \A m \in Mail : \A o \in acked[m] : StoredFor(m, o)

\* A TLS report is stored once for an organisation, however often it is delivered and however many
\* transactions race (README, "bleibt einmal gespeichert").
TlsReportsOnce == \A o \in Org : \A r \in Tls : copies[o][r] <= 1

\* An aggregate report is stored again only by a transaction that looked for it before the other one committed it.
DuplicatesAreRaces ==
    [][\A s \in Session : \A r \in draft[s] \cap Dmarc :
        org[s] # NoOrg /\ copies[org[s]][r] > 0 /\ copies'[org[s]][r] > copies[org[s]][r] => r \in fresh[s]]_vars

\* A mail is stored once for a recipient, and once more for every fault that kept its answer from the sender.
MailsStoredOnce == \A m \in Mail : \A o \in Org : kept[m][o] <= 1 + faults

\* The source has one row with the number of messages of the stored reports, unless two transactions were at it
\* at the same time.
TotalsAddUp ==
    \A o \in Org \ drift :
        /\ Len(totals[o]) <= 1
        /\ SumFunction(totals[o]) = SumFunctionOnSet(copies[o], Dmarc)

\* Every recipient of every mail is settled: its sender has read 250 or 550 and has nothing left to deliver.
EveryMailSettles == <>(\A m \in Mail \ Upload : pending[m] = {})

\* The comment in handle_DATA: after 451 nothing was saved, and a mail that comes again imports nothing twice.
NothingSavedTwice == \A o \in Org : \A r \in Failure : copies[o][r] <= 1
=============================================================================
