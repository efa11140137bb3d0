------------------------------- MODULE Senders -------------------------------
(***************************************************************************)
(* Who classifies a source address (app/services/senders.py,               *)
(* app/services/source_rules.py, app/routers/senders.py,                   *)
(* app/routers/source_ips.py).                                             *)
(*                                                                         *)
(* Three parties write the same rows of source_ips: a person about one     *)
(* address, a person about a sender and with it about all its addresses,   *)
(* and the job that names senders and applies the source rules.  Each      *)
(* works in a session of its own that loads rows, decides, and writes back *)
(* when it commits only those columns whose value it changed (READ         *)
(* COMMITTED, no version column).  The job looks addresses up between      *)
(* loading and deciding, which takes long.                                 *)
(*                                                                         *)
(* What the evidence and the network of an address say are inputs; the     *)
(* functions that read them are in SenderCatalog.  One organisation.       *)
(***************************************************************************)
EXTENDS Integers, FiniteSets

CONSTANTS
    Source,      \* rows of source_ips
    Sender,      \* keys of the catalog
    Session,     \* database sessions: the job and requests
    Decision,    \* DECISIONS, the classifications a person can choose besides unknown
    Listed,      \* SOURCE_RULE_CLASSIFICATION
    Batch,       \* SENDER_LOOKUP_BATCH_SIZE
    Network,     \* addresses whose network, country or host name a source rule lists
    ForAddress,  \* bound: what people choose for an address
    ForSender,   \* bound: what people choose for a sender
    MaxOrders,   \* bound: things people ask for
    MaxChanges,  \* bound: things that mail, DNS, settings and failures change
    NoSender     \* NULL in sender_key

ASSUME ConstantsAssumption ==
    /\ NoSender \notin Sender /\ Sender # {}
    /\ "unknown" \notin Decision /\ "none" \notin Decision /\ "reset" \notin Decision
    /\ Listed \in Decision
    /\ Network \subseteq Source
    /\ ForAddress \subseteq Decision \cup {"unknown"}
    /\ ForSender \subseteq Decision \cup {"reset"}
    /\ Batch \in Nat \ {0}
    /\ MaxOrders \in Nat /\ MaxChanges \in Nat

VARIABLES
    row,         \* the committed rows
    approval,    \* the decision about each sender, "none" without a row
    evidence,    \* the sender that identify names for an address now
    rules,       \* SOURCE_RULES_ENABLED
    applied,     \* _applied is the signature of the settings
    pc,          \* what each session does
    task,        \* what it was asked for
    seen,        \* the rows as it loaded them or last flushed them
    patch,       \* the columns it has changed, per row
    held,        \* rows it has flushed: others wait with theirs until it ends
    decided,     \* the decision about a sender it loaded or flushed
    stale,       \* history: rows another session changed since it loaded them
    torn,        \* history: rows written by sessions that overlapped
    orders,      \* bound: things people asked for
    changes      \* bound: things that mail, DNS, settings and failures changed

session == <<pc, task, seen, patch, held, decided, stale>>
world == <<evidence, rules>>
vars == <<row, approval, world, applied, session, torn, orders, changes>>

Origin == {"none", "manual", "sender", "rule"}

Row == [cls: Decision \cup {"unknown"}, by: Origin, sender: Sender \cup {NoSender},
        listed: BOOLEAN, passed: BOOLEAN]

Task == [kind: {"none"}]
        \cup [kind: {"refresh"}, batch: SUBSET Source]
        \cup [kind: {"classify"}, source: Source, as: ForAddress]
        \cup [kind: {"decide"}, sender: Sender, as: ForSender]

Nothing == [kind |-> "none"]
NoRows == [s \in {} |-> 0]

\* The columns of an UPDATE over those of a row or of an earlier UPDATE (@@ of TLC, written out for the proofs)
Over(columns, others) ==
    [c \in DOMAIN columns \cup DOMAIN others |-> IF c \in DOMAIN columns THEN columns[c] ELSE others[c]]

TypeOK ==
    /\ row \in [Source -> Row]
    /\ approval \in [Sender -> Decision \cup {"none"}]
    /\ evidence \in [Source -> Sender \cup {NoSender}]
    /\ rules \in BOOLEAN
    /\ applied \in BOOLEAN
    /\ pc \in [Session -> {"idle", "loaded", "commit"}]
    /\ task \in [Session -> Task]
    /\ \A p \in Session : /\ DOMAIN seen[p] \subseteq Source
                          /\ \A s \in DOMAIN seen[p] : seen[p][s] \in Row
                          /\ DOMAIN patch[p] \subseteq Source
                          /\ \A s \in DOMAIN patch[p] : Over(patch[p][s], row[s]) \in Row
    /\ held \in [Session -> SUBSET Source]
    /\ decided \in [Session -> Decision \cup {"none"}]
    /\ stale \in [Session -> SUBSET Source]
    /\ torn \subseteq Source
    /\ orders \in 0 .. MaxOrders
    /\ changes \in 0 .. MaxChanges

-----------------------------------------------------------------------------
(* Decisions about one row, as each session sees it *)

Unclassified(r) == [r EXCEPT !.cls = "unknown", !.by = "none"]

\* Plausible slip: the decision of a person about the address is not looked at
DecideOverPeople(r, verdict) ==
    IF verdict # "none" THEN [r EXCEPT !.cls = verdict, !.by = "sender"]
    ELSE IF r.by = "sender" THEN Unclassified(r) ELSE r

\* The decision about the sender is taken over, unless a person decided about the address
apply_decision(r, verdict) ==
    IF r.by = "manual" THEN r
    ELSE IF verdict # "none" THEN [r EXCEPT !.cls = verdict, !.by = "sender"]
    ELSE IF r.by = "sender" THEN Unclassified(r) ELSE r

\* A rule lists the address and it never passed DMARC
Matches(r) == rules /\ r.listed /\ ~r.passed

\* The rules decide where nobody else did, and hand back what they decided before
apply_rules(r) ==
    IF \/ r.by \in {"manual", "sender"}
       \/ r.cls # "unknown" /\ r.by # "rule" THEN r
    ELSE IF Matches(r) THEN [r EXCEPT !.cls = Listed, !.by = "rule"]
    ELSE IF r.by = "rule" THEN Unclassified(r) ELSE r

\* The decision about the sender of a row
Verdict(r) == IF r.sender = NoSender THEN "none" ELSE approval[r.sender]

classify_manually(r, as) ==
    IF as = "unknown" THEN apply_rules(apply_decision(Unclassified(r), Verdict(r)))
    ELSE [r EXCEPT !.cls = as, !.by = "manual"]

\* Plausible slip: the rules are not asked about an address that gets its name
NamesOnly(s, r, failed) ==
    LET named == [r EXCEPT !.sender = evidence[s], !.listed = IF failed THEN @ ELSE s \in Network]
    IN  apply_decision(named, Verdict(named))

\* A failed lookup keeps what an earlier one found
identify_source(s, r, failed) ==
    LET named == [r EXCEPT !.sender = evidence[s], !.listed = IF failed THEN @ ELSE s \in Network]
    IN  apply_rules(apply_decision(named, Verdict(named)))

-----------------------------------------------------------------------------
Init ==
    /\ row = [s \in Source |-> [cls |-> "unknown", by |-> "none", sender |-> NoSender,
                                listed |-> FALSE, passed |-> FALSE]]
    /\ approval = [k \in Sender |-> "none"]
    /\ evidence = [s \in Source |-> CHOOSE k \in Sender : TRUE]
    /\ rules = TRUE
    /\ applied = FALSE
    /\ pc = [p \in Session |-> "idle"]
    /\ task = [p \in Session |-> Nothing]
    /\ seen = [p \in Session |-> NoRows]
    /\ patch = [p \in Session |-> NoRows]
    /\ held = [p \in Session |-> {}]
    /\ decided = [p \in Session |-> "none"]
    /\ stale = [p \in Session |-> {}]
    /\ torn = {}
    /\ orders = 0
    /\ changes = 0

Change == changes < MaxChanges /\ changes' = changes + 1 /\ UNCHANGED orders

Order == orders < MaxOrders /\ orders' = orders + 1 /\ UNCHANGED changes

\* The columns of the rows where now differs from before: all that an UPDATE names
Diff(now, before) ==
    LET Columns(s) == {c \in DOMAIN now[s] : now[s][c] # before[s][c]} IN
    [s \in {t \in DOMAIN now : now[t] # before[t]} |-> [c \in Columns(s) |-> now[s][c]]]

\* Session p takes up a task with these rows
Take(p, what, rows) ==
    /\ pc[p] = "idle"
    /\ pc' = [pc EXCEPT ![p] = "loaded"]
    /\ task' = [task EXCEPT ![p] = what]
    /\ seen' = [seen EXCEPT ![p] = rows]
    /\ stale' = [stale EXCEPT ![p] = {}]

\* Session p flushes what it made of its rows, on top of what it has flushed before, and is about to commit
Flush(p, rows, before) ==
    LET new == Diff(rows, before)
        both == [s \in DOMAIN new \cup DOMAIN patch[p] |->
                   IF s \notin DOMAIN patch[p] THEN new[s]
                   ELSE IF s \notin DOMAIN new THEN patch[p][s] ELSE Over(new[s], patch[p][s])]
    IN  /\ pc' = [pc EXCEPT ![p] = "commit"]
        /\ seen' = [seen EXCEPT ![p] = NoRows]
        /\ patch' = [patch EXCEPT ![p] = both]
        /\ stale' = [stale EXCEPT ![p] = @ \cap DOMAIN both]

Only(S) == [s \in S |-> row[s]]

(* A person classifies one address *)

classify_ip(p, s, as) ==
    /\ Order
    /\ Take(p, [kind |-> "classify", source |-> s, as |-> as], Only({s}))
    /\ UNCHANGED <<row, approval, world, applied, patch, held, decided, torn>>

\* Choosing what is chosen already changes nothing
ClassifyDecides(p) ==
    /\ pc[p] = "loaded" /\ task[p].kind = "classify"
    /\ LET s == task[p].source
           as == task[p].as
           r == seen[p][s]
       IN  Flush(p, [seen[p] EXCEPT ![s] = IF as = r.cls /\ r.by = "manual" THEN r ELSE classify_manually(r, as)], seen[p])
    /\ UNCHANGED <<row, approval, world, applied, task, held, decided, torn, orders, changes>>

(* A person decides about a sender *)

decide_sender(p, k, as) ==
    /\ Order
    /\ Take(p, [kind |-> "decide", sender |-> k, as |-> as], NoRows)
    /\ decided' = [decided EXCEPT ![p] = approval[k]]
    /\ UNCHANGED <<row, approval, world, applied, patch, held, torn>>

\* Nobody else has flushed a decision about sender k
Undisputed(p, k) ==
    \A q \in Session \ {p} : ~(pc[q] = "commit" /\ task[q].kind = "decide" /\ task[q].sender = k)

Addresses(k) == {s \in Source : row[s].sender = k}

\* The flush finds the row as it was loaded: still missing for an INSERT, still there for an UPDATE
FlushWorks(p) ==
    LET k == task[p].sender IN (task[p].as = "reset") \/ (decided[p] = "none" <=> approval[k] = "none")

\* The decision is flushed, then the addresses of the sender are loaded and follow it
decide(p) ==
    /\ pc[p] = "loaded" /\ task[p].kind = "decide"
    /\ Undisputed(p, task[p].sender)
    /\ FlushWorks(p)
    /\ LET k == task[p].sender
           verdict == IF task[p].as = "reset" THEN "none" ELSE task[p].as
           \* only a changed classification is written
           stored == IF verdict # decided[p] THEN verdict ELSE approval[k]
       IN  /\ Flush(p, [s \in Addresses(k) |-> apply_rules(apply_decision(row[s], verdict))], row)
           /\ decided' = [decided EXCEPT ![p] = stored]
    /\ UNCHANGED <<row, approval, world, applied, task, held, torn, orders, changes>>

(* The job, and "refresh now" of an organisation *)

\* Rows without a decision that a full pass of the rules would change
Affected == {s \in Source : apply_rules(row[s]) # row[s] /\ (row[s].cls = "unknown" \/ row[s].by = "rule")}

\* The job first applies changed settings to all rows (its flush keeps them until the commit); then it loads a batch
\* of rows that have not been looked at for a while, which may be any
refresh_sources(p, everywhere, S) ==
    LET swept == IF everywhere /\ ~applied THEN Affected ELSE {}
        after == [s \in S \cup swept |-> IF s \in swept THEN apply_rules(row[s]) ELSE row[s]]
    IN  /\ S \cup swept # {} /\ Cardinality(S) <= Batch
        /\ \A q \in Session \ {p} : held[q] \cap swept = {}
        /\ Take(p, [kind |-> "refresh", batch |-> S], after)
        /\ patch' = [patch EXCEPT ![p] = Diff(after, row)]
        /\ held' = [held EXCEPT ![p] = swept]
        /\ applied' = (applied \/ everywhere)
        /\ UNCHANGED <<row, approval, world, decided, torn, orders, changes>>

\* After the lookups the decisions are read and every address of the batch gets its name
RefreshDecides(p) ==
    /\ pc[p] = "loaded" /\ task[p].kind = "refresh"
    /\ \E failed \in SUBSET task[p].batch :
          Flush(p, [s \in DOMAIN seen[p] |-> IF s \in task[p].batch THEN identify_source(s, seen[p][s], s \in failed) ELSE seen[p][s]],
                seen[p])
    /\ UNCHANGED <<row, approval, world, applied, task, held, decided, torn, orders, changes>>

(* How a session ends *)

End(p) ==
    /\ pc' = [pc EXCEPT ![p] = "idle"]
    /\ task' = [task EXCEPT ![p] = Nothing]
    /\ seen' = [seen EXCEPT ![p] = NoRows]
    /\ patch' = [patch EXCEPT ![p] = NoRows]
    /\ held' = [held EXCEPT ![p] = {}]
    /\ decided' = [decided EXCEPT ![p] = "none"]

\* An UPDATE waits for the rows others have flushed
Commit(p) ==
    /\ pc[p] = "commit"
    /\ \A q \in Session \ {p} : held[q] \cap DOMAIN patch[p] = {}
    /\ row' = [s \in Source |-> IF s \in DOMAIN patch[p] THEN Over(patch[p][s], row[s]) ELSE row[s]]
    /\ approval' = IF task[p].kind = "decide" THEN [approval EXCEPT ![task[p].sender] = decided[p]] ELSE approval
    /\ stale' = [q \in Session |-> IF q = p THEN {} ELSE stale[q] \cup {s \in DOMAIN seen[q] \cup DOMAIN patch[q] : row'[s] # row[s]}]
    /\ torn' = torn \cup (DOMAIN patch[p] \cap stale[p])
    /\ End(p)
    /\ UNCHANGED <<world, applied, orders, changes>>

\* What the session did is gone; what it noted in the process stays
Lose(p) ==
    /\ End(p)
    /\ stale' = [stale EXCEPT ![p] = {}]
    /\ UNCHANGED <<row, approval, world, applied, torn>>

\* The unique key of the decisions refuses a second row, or the row to change is gone: the page shows an error
DecideFails(p) ==
    /\ pc[p] = "loaded" /\ task[p].kind = "decide"
    /\ Undisputed(p, task[p].sender)
    /\ ~FlushWorks(p)
    /\ Lose(p)
    /\ UNCHANGED <<orders, changes>>

Rollback(p) ==
    /\ pc[p] # "idle"
    /\ Change
    /\ Lose(p)

(* Mail, DNS, settings and time *)

\* Reports or DNS name another sender
EvidenceChanges(s, k) ==
    /\ Change
    /\ k # evidence[s]
    /\ evidence' = [evidence EXCEPT ![s] = k]
    /\ UNCHANGED <<row, approval, rules, applied, session, torn>>

\* A report counts messages of the address that passed DMARC; that column is written by the import alone
MailPasses(s) ==
    /\ Change
    /\ ~row[s].passed
    /\ row' = [row EXCEPT ![s].passed = TRUE]
    /\ UNCHANGED <<approval, world, applied, session, torn>>

\* The process starts again, perhaps with other rules: what it noted is gone and so are its sessions
Restart(on) ==
    /\ Change
    /\ rules' = on
    /\ applied' = FALSE
    /\ pc' = [p \in Session |-> "idle"]
    /\ task' = [p \in Session |-> Nothing]
    /\ seen' = [p \in Session |-> NoRows]
    /\ patch' = [p \in Session |-> NoRows]
    /\ held' = [p \in Session |-> {}]
    /\ decided' = [p \in Session |-> "none"]
    /\ stale' = [p \in Session |-> {}]
    /\ UNCHANGED <<row, approval, evidence, torn>>

-----------------------------------------------------------------------------
Works(p) == ClassifyDecides(p) \/ decide(p) \/ RefreshDecides(p) \/ Commit(p) \/ DecideFails(p)

Next ==
    \/ \E p \in Session :
          \/ \E s \in Source, as \in ForAddress : classify_ip(p, s, as)
          \/ \E k \in Sender, as \in ForSender : decide_sender(p, k, as)
          \/ \E everywhere \in BOOLEAN, S \in SUBSET Source : refresh_sources(p, everywhere, S)
          \/ Works(p)
          \/ Rollback(p)
    \/ \E s \in Source :
          \/ \E k \in Sender \cup {NoSender} : EvidenceChanges(s, k)
          \/ MailPasses(s)
    \/ \E on \in BOOLEAN : Restart(on)

Spec == Init /\ [][Next]_vars

\* The scheduler runs the job again and again, sessions finish what they began, and time passes
FairSpec ==
    /\ Spec
    /\ \A p \in Session : WF_vars(Works(p))
    /\ \A s \in Source : WF_vars(\E p \in Session, S \in SUBSET Source : s \in S /\ refresh_sources(p, TRUE, S))

-----------------------------------------------------------------------------
(* A person's decision about one address gives way only to a person who decides about that address again, or to a
   session that loaded the row before that decision was committed. *)
DecisionsStay ==
    [][\A s \in Source :
          row[s].by = "manual" /\ <<row'[s].cls, row'[s].by>> # <<row[s].cls, row[s].by>> =>
             \E p \in Session : /\ pc[p] = "commit" /\ pc'[p] = "idle"
                                /\ task[p].kind = "classify" \/ s \in stale[p]]_vars

\* Who has the say about an address: a person, else the decision about its sender, else the rules
Precedence(s) ==
    LET r == row[s] IN
    IF r.by = "manual" THEN TRUE
    ELSE IF Verdict(r) # "none" THEN r.cls = Verdict(r) /\ r.by = "sender"
    ELSE IF Matches(r) THEN r.cls = Listed /\ r.by = "rule"
    ELSE r.cls = "unknown" /\ r.by = "none"

(* Once people, mail and settings come to rest, every address ends up with the sender its evidence names and with the
   classification of whoever has the say about it, whatever was rolled back or lost on the way; only a row that two
   sessions wrote without seeing each other may stay mixed. *)
SourcesSettle ==
    <>[](\A s \in Source : (row[s].sender = evidence[s] /\ Precedence(s)) \/ s \in torn)
=============================================================================
