------------------------------- MODULE Digest -------------------------------
(***************************************************************************)
(* The weekly digest of one organisation and of the further recipients of  *)
(* its domains (app/services/digest.py, domain_recipients.py, the pages    *)
(* in app/routers/alerts.py and domains.py).                               *)
(*                                                                         *)
(* A digest is due when the last one went out before the last slot, so a   *)
(* time is the number of slots up to it.  Mails leave one by one, the mark *)
(* is committed after them.  A row enters an address for a domain; one     *)
(* mail covers all rows of an address.                                     *)
(***************************************************************************)
EXTENDS Integers, FiniteSets

CONSTANTS
    Listed,      \* addresses that may be entered for the organisation
    Admin,       \* addresses of its administrators
    Entry,       \* rows of domain_recipients
    Owner,       \* Owner[r]: the address of a row
    Job,         \* runs of the job
    Page,        \* requests that send now
    MaxWeek,     \* bound on slots
    MaxOrders    \* bound on what people change, on lost sessions and on mails that fail

Further == {Owner[r] : r \in Entry}

ASSUME DigestSets ==
    /\ Admin # {} /\ Admin \cap Listed = {} /\ (Admin \cup Listed) \cap Further = {} /\ Job \cap Page = {}
    /\ Entry \cap (Listed \cup Admin) = {}
    /\ MaxWeek \in Nat /\ MaxOrders \in Nat

VARIABLES
    week,       \* slots so far
    enabled,    \* digest_enabled
    entered,    \* digest_recipients
    mark,       \* digest_last_sent_at of the organisation, or its created_at
    entry,      \* entry[r]: "on", "off" (no digest, or the domain is inactive) or "gone"
    rowMark,    \* rowMark[r]: digest_last_sent_at of the row, or its created_at
    dpc,        \* dpc[s]: "idle", "org" while its digest is sent, "groups" while the job is at the further recipients
    dweek,      \* dweek[s]: the slot of the "now" of a session
    left,       \* left[s]: recipients still to come, of the organisation or further ones
    sent,       \* sent[s]: who got a mail that is not marked yet
    loaded,     \* loaded[s]: rows the job has loaded
    orders,     \* what has happened so far within MaxOrders
    newest,     \* history: newest[x], the last slot whose digest went to an address, or covered a row
    excused,    \* history: addresses and rows whose mark of that slot was lost or set back
    joined      \* history: sessions that were sending the digest of the organisation while another one was

digestVars == <<week, enabled, entered, mark, entry, rowMark, dpc, dweek, left, sent, loaded, orders, newest, excused, joined>>

Sender == Job \cup Page
Address == Listed \cup Admin \cup Further
Marked == Listed \cup Admin \cup Entry

DigestTypeOK ==
    /\ week \in 0 .. MaxWeek /\ mark \in 0 .. MaxWeek /\ enabled \in BOOLEAN /\ entered \subseteq Listed
    /\ entry \in [Entry -> {"on", "off", "gone"}] /\ rowMark \in [Entry -> 0 .. MaxWeek]
    /\ dpc \in [Sender -> {"idle", "org", "groups"}] /\ dweek \in [Sender -> 0 .. MaxWeek]
    /\ left \in [Sender -> SUBSET Address] /\ sent \in [Sender -> SUBSET Address] /\ loaded \in [Sender -> SUBSET Entry]
    /\ orders \in 0 .. MaxOrders /\ newest \in [Marked -> 0 .. MaxWeek] /\ excused \subseteq Marked /\ joined \subseteq Sender

DigestInit ==
    /\ week = 0 /\ mark = 0 /\ enabled = TRUE /\ entered \in SUBSET Listed
    /\ entry \in [Entry -> {"on", "off"}] /\ rowMark = [r \in Entry |-> 0]
    /\ dpc = [s \in Sender |-> "idle"] /\ dweek = [s \in Sender |-> 0]
    /\ left = [s \in Sender |-> {}] /\ sent = [s \in Sender |-> {}] /\ loaded = [s \in Sender |-> {}]
    /\ orders = 0 /\ newest = [x \in Marked |-> 0] /\ excused = {} /\ joined = {}

UNCHANGED_table == UNCHANGED <<week, enabled, entered, mark, entry, rowMark>>

-----------------------------------------------------------------------------
(* The digest of the organisation *)

\* Entered recipients; without any, the administrators
digest_recipients == IF entered = {} THEN Admin ELSE entered

\* Plausible slip: due as soon as a week has begun that the session does not know of
DueAgain == enabled /\ mark <= week

digest_due == enabled /\ mark < week

Begin(s) ==
    /\ dpc' = [dpc EXCEPT ![s] = "org"] /\ dweek' = [dweek EXCEPT ![s] = week]
    /\ left' = [left EXCEPT ![s] = digest_recipients]
    /\ LET others == {t \in Sender \ {s} : dpc[t] = "org"}
       IN  joined' = IF others = {} THEN joined \ {s} ELSE joined \cup {s} \cup others

\* domain_digest_groups: rows that want the digest, of active domains
Load(s) ==
    /\ dpc' = [dpc EXCEPT ![s] = "groups"]
    /\ loaded' = [loaded EXCEPT ![s] = {r \in Entry : entry[r] = "on"}]
    /\ left' = [left EXCEPT ![s] = {Owner[r] : r \in {q \in Entry : entry[q] = "on"}}]

\* The job comes to the organisation: its digest, if it is due, and the further recipients after it
send_due_digests(s) ==
    /\ dpc[s] = "idle"
    /\ \/ digest_due /\ Begin(s) /\ UNCHANGED loaded
       \/ ~digest_due /\ Load(s) /\ dweek' = [dweek EXCEPT ![s] = week] /\ UNCHANGED joined
    /\ UNCHANGED <<sent, orders, newest, excused>> /\ UNCHANGED_table

\* "Send now" asks for no slot
send_digest_now(s) ==
    /\ dpc[s] = "idle" /\ Begin(s)
    /\ orders < MaxOrders /\ orders' = orders + 1
    /\ UNCHANGED <<sent, loaded, newest, excused>> /\ UNCHANGED_table

Idle(s) ==
    /\ dpc' = [dpc EXCEPT ![s] = "idle"] /\ left' = [left EXCEPT ![s] = {}] /\ loaded' = [loaded EXCEPT ![s] = {}]

Group(s, a) == {r \in loaded[s] : Owner[r] = a}

\* What a mail to an address is for
Covers(s, a) == IF a \in Further THEN Group(s, a) ELSE {a}

\* send_mail to one recipient, which works or fails
send_mail(s, a) ==
    /\ left' = [left EXCEPT ![s] = @ \ {a}]
    /\ \/ /\ sent' = [sent EXCEPT ![s] = @ \cup {a}]
          /\ LET told == {x \in Covers(s, a) : newest[x] <= dweek[s]}
             IN  /\ newest' = [x \in Marked |-> IF x \in told THEN dweek[s] ELSE newest[x]]
                 /\ excused' = excused \ told
          /\ UNCHANGED orders
       \/ /\ orders < MaxOrders /\ orders' = orders + 1
          /\ UNCHANGED <<sent, newest, excused>>

send_digest(s) ==
    /\ dpc[s] = "org" /\ \E a \in left[s] : send_mail(s, a)
    /\ UNCHANGED <<dpc, dweek, loaded, joined>> /\ UNCHANGED_table

\* After the last recipient: the job goes on with further recipients, a request is over
GoOn(s) ==
    /\ IF s \in Job THEN Load(s) ELSE Idle(s)
    /\ sent' = [sent EXCEPT ![s] = {}]

\* Plausible slip: the mark is set whether somebody got it or not
MarkAnyway(s) == mark' = dweek[s] /\ UNCHANGED excused

\* Somebody got it: the mark is committed, with the "now" of the session, whatever another session has set
Mark(s) ==
    /\ sent[s] # {} /\ mark' = dweek[s]
    /\ excused' = IF dweek[s] < mark THEN excused \cup Listed \cup Admin ELSE excused

DigestSent(s) ==
    /\ dpc[s] = "org" /\ left[s] = {} /\ Mark(s) /\ GoOn(s)
    /\ UNCHANGED <<week, enabled, entered, entry, rowMark, dweek, orders, newest, joined>>

\* Nobody got it: DigestError and a rollback; the next run tries again
DigestFailed(s) ==
    /\ dpc[s] = "org" /\ left[s] = {} /\ sent[s] = {} /\ GoOn(s)
    /\ UNCHANGED <<dweek, orders, newest, excused, joined>> /\ UNCHANGED_table

-----------------------------------------------------------------------------
(* Further recipients *)

\* Any row of the address is due
domain_digest_due(s, a) == \E r \in Group(s, a) : rowMark[r] < dweek[s]

Deleted(s, a) == \E r \in Group(s, a) : entry[r] = "gone"

\* The job comes to an address; rows are read again after the commit or rollback before
send_domain_digest(s, a) ==
    /\ dpc[s] = "groups" /\ sent[s] = {} /\ a \in left[s] /\ ~Deleted(s, a)
    /\ IF domain_digest_due(s, a) THEN send_mail(s, a)
       ELSE left' = [left EXCEPT ![s] = @ \ {a}] /\ UNCHANGED <<sent, orders, newest, excused>>
    /\ UNCHANGED <<dpc, dweek, loaded, joined>> /\ UNCHANGED_table

\* All rows of the address are marked
GroupSent(s, a) ==
    /\ dpc[s] = "groups" /\ sent[s] = {a} /\ ~Deleted(s, a)
    /\ rowMark' = [r \in Entry |-> IF r \in Group(s, a) THEN dweek[s] ELSE rowMark[r]]
    /\ sent' = [sent EXCEPT ![s] = {}]
    /\ UNCHANGED <<week, enabled, entered, mark, entry, dpc, dweek, left, loaded, orders, newest, excused, joined>>

\* Without a commit who got a mail gets it again
Lost(s) ==
    /\ Idle(s) /\ sent' = [sent EXCEPT ![s] = {}] /\ excused' = excused \cup UNION {Covers(s, a) : a \in sent[s]}
    /\ UNCHANGED <<dweek, newest, joined>> /\ UNCHANGED_table

\* A row that was deleted since it was loaded can be neither read nor marked; that ends the run
RunBreaks(s, a) ==
    /\ dpc[s] = "groups" /\ Deleted(s, a)
    /\ (a \in left[s] /\ sent[s] = {}) \/ sent[s] = {a}
    /\ Lost(s) /\ UNCHANGED orders

RunEnds(s) ==
    /\ dpc[s] = "groups" /\ left[s] = {} /\ sent[s] = {}
    /\ Idle(s) /\ UNCHANGED <<dweek, sent, orders, newest, excused, joined>> /\ UNCHANGED_table

-----------------------------------------------------------------------------
(* The world *)

SessionLost(s) ==
    /\ dpc[s] # "idle" /\ orders < MaxOrders /\ orders' = orders + 1
    /\ Lost(s)

Order == orders < MaxOrders /\ orders' = orders + 1 /\ UNCHANGED <<week, mark, dpc, dweek, left, sent, loaded, newest, joined>>

save_digest_settings(on, who) ==
    /\ Order /\ enabled' = on /\ entered' = who
    /\ UNCHANGED <<entry, rowMark, excused>>

\* A new row counts from now; it is none that a session has loaded
add_recipient(r) ==
    /\ Order /\ entry[r] = "gone" /\ \A s \in Sender : r \notin loaded[s]
    /\ \E e \in {"on", "off"} : entry' = [entry EXCEPT ![r] = e]
    /\ rowMark' = [rowMark EXCEPT ![r] = week]
    /\ UNCHANGED <<enabled, entered, excused>>

\* update_recipient, or the switch of the domain
update_recipient(r) ==
    /\ Order /\ entry[r] # "gone"
    /\ entry' = [entry EXCEPT ![r] = IF @ = "on" THEN "off" ELSE "on"]
    /\ UNCHANGED <<enabled, entered, rowMark, excused>>

domain_delete_recipient(r) ==
    /\ Order /\ entry[r] # "gone" /\ entry' = [entry EXCEPT ![r] = "gone"]
    /\ UNCHANGED <<enabled, entered, rowMark, excused>>

NextSlot ==
    /\ week < MaxWeek /\ week' = week + 1
    /\ UNCHANGED <<enabled, entered, mark, entry, rowMark, dpc, dweek, left, sent, loaded, orders, newest, excused, joined>>

DigestNext ==
    \/ \E s \in Job : \/ send_due_digests(s) \/ RunEnds(s)
                      \/ \E a \in Further : send_domain_digest(s, a) \/ GroupSent(s, a) \/ RunBreaks(s, a)
    \/ \E s \in Page : send_digest_now(s)
    \/ \E s \in Sender : send_digest(s) \/ DigestSent(s) \/ DigestFailed(s) \/ SessionLost(s)
    \/ \E on \in BOOLEAN, who \in SUBSET Listed : save_digest_settings(on, who)
    \/ \E r \in Entry : add_recipient(r) \/ update_recipient(r) \/ domain_delete_recipient(r)
    \/ NextSlot

DigestSpec == DigestInit /\ [][DigestNext]_digestVars

-----------------------------------------------------------------------------
(* Properties *)

\* A run of the job sends somebody a digest
Mails(s, a) == a \in sent'[s] \ sent[s]

(* A mail of the job tells its reader something new: a slot that the address, or one of the rows it stands for, has had
   no digest of.  It repeats a digest only if a session that had sent it ended before its mark was committed, if the
   mark was set back by a session from an earlier slot, or if another session was sending at the same time
   (send_due_digests, domain_digest_due). *)
OneMailASlot ==
    [][\A s \in Job, a \in Address :
          Mails(s, a) => \/ \E x \in Covers(s, a) : newest[x] < dweek[s] \/ x \in excused
                         \/ s \in joined /\ dpc[s] = "org"]_digestVars

(* A slot passes as done only if somebody got its digest, however many others missed it (send_digest). *)
SomebodyGotIt == mark > 0 => \E a \in Listed \cup Admin : newest[a] >= mark
=============================================================================
