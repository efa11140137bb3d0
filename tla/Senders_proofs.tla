---------------------------- MODULE Senders_proofs ----------------------------
(***************************************************************************)
(* Proofs about Senders for any addresses, senders, sessions, rules and    *)
(* bounds.                                                                 *)
(***************************************************************************)
EXTENDS MCSenders, FiniteSetTheorems, WellFoundedInduction, TLAPS

\* The columns that say what an address is classified as, and by whom
Say == {"cls", "by"}

Shaped ==
    /\ DOMAIN row = Source /\ \A s \in Source : Say \subseteq DOMAIN row[s]
    /\ DOMAIN pc = Session /\ DOMAIN task = Session /\ DOMAIN stale = Session
    /\ DOMAIN patch = Session /\ DOMAIN seen = Session
    /\ \A p \in Session : DOMAIN patch[p] \subseteq Source /\ DOMAIN seen[p] \subseteq Source
    /\ \A p \in Session : \A s \in DOMAIN seen[p] : Say \subseteq DOMAIN seen[p][s]

\* Between two tasks a session has nothing to write
IdleClean == \A p \in Session : pc[p] = "idle" => DOMAIN patch[p] = {}

\* Who has loaded a row that a person decided about, and has missed nothing since, knows of the person
PeopleSeen ==
    \A p \in Session : \A s \in DOMAIN seen[p] :
        s \notin stale[p] /\ row[s].by = "manual" => seen[p][s].by = "manual"

\* ... and means to leave that decision alone, unless it acts for a person that decides about this address
PeopleSpared ==
    \A p \in Session : \A s \in DOMAIN patch[p] :
        task[p].kind # "classify" /\ s \notin stale[p] /\ row[s].by = "manual" => Say \cap DOMAIN patch[p][s] = {}

PeopleInv == Shaped /\ IdleClean /\ PeopleSeen /\ PeopleSpared

-----------------------------------------------------------------------------
(* What the functions on a row do to a decision of a person *)

LEMMA DecisionKeepsPeople == \A r, v : r.by = "manual" => apply_decision(r, v) = r
BY DEF apply_decision

LEMMA RulesKeepPeople == \A r : r.by = "manual" => apply_rules(r) = r
BY DEF apply_rules

LEMMA RulesKeepColumns == \A r : DOMAIN apply_rules(r) = DOMAIN r
BY DEF apply_rules, Unclassified

LEMMA IdentifyKeepsPeople ==
    ASSUME NEW s, NEW r, Say \subseteq DOMAIN r, r.by = "manual", NEW failed
    PROVE  identify_source(s, r, failed).cls = r.cls /\ identify_source(s, r, failed).by = r.by
<1> DEFINE named == [r EXCEPT !.sender = evidence[s], !.listed = IF failed THEN @ ELSE s \in Network]
<1>1. named.cls = r.cls /\ named.by = r.by
  BY DEF Say
<1>2. identify_source(s, r, failed) = apply_rules(apply_decision(named, Verdict(named)))
  BY DEF identify_source
<1> HIDE DEF named
<1>3. identify_source(s, r, failed) = named
  BY <1>1, <1>2, DecisionKeepsPeople, RulesKeepPeople
<1>4. QED
  BY <1>1, <1>3

\* A flush adds to what a session means to write only the columns in which the rows differ
LEMMA FlushSpares ==
    ASSUME Shaped, NEW p \in Session, NEW rows, NEW before, Flush(p, rows, before),
           NEW s \in DOMAIN patch'[p],
           s \in DOMAIN rows => rows[s].cls = before[s].cls /\ rows[s].by = before[s].by,
           s \in DOMAIN patch[p] => Say \cap DOMAIN patch[p][s] = {}
    PROVE  Say \cap DOMAIN patch'[p][s] = {}
<1> DEFINE new == Diff(rows, before)
<1>1. DOMAIN patch'[p] = DOMAIN new \cup DOMAIN patch[p]
  BY DEF Flush, Shaped
<1>2. patch'[p][s] = IF s \notin DOMAIN patch[p] THEN new[s]
                     ELSE IF s \notin DOMAIN new THEN patch[p][s] ELSE Over(new[s], patch[p][s])
  BY <1>1 DEF Flush, Shaped
<1>3. s \in DOMAIN new => s \in DOMAIN rows /\ DOMAIN new[s] = {c \in DOMAIN rows[s] : rows[s][c] # before[s][c]}
  BY DEF Diff
<1>4. s \in DOMAIN new => Say \cap DOMAIN new[s] = {}
  BY <1>3 DEF Say
<1> HIDE DEF new
<1>5. s \in DOMAIN new /\ s \in DOMAIN patch[p] => DOMAIN Over(new[s], patch[p][s]) = DOMAIN new[s] \cup DOMAIN patch[p][s]
  BY DEF Over
<1>6. QED
  BY <1>1, <1>2, <1>4, <1>5

\* A row that a session loads for itself is the one that is there
LEMMA TakeSees ==
    ASSUME PeopleInv, NEW p \in Session, NEW what, NEW rows, Take(p, what, rows), UNCHANGED row,
           DOMAIN rows \subseteq Source,
           \A s \in DOMAIN rows : Say \subseteq DOMAIN rows[s] /\ (row[s].by = "manual" => rows[s].by = "manual"),
           DOMAIN patch' = Session, \A q \in Session \ {p} : patch'[q] = patch[q],
           DOMAIN patch'[p] \subseteq Source,
           \A s \in DOMAIN patch'[p] : row[s].by = "manual" => Say \cap DOMAIN patch'[p][s] = {}
    PROVE  PeopleInv'
<1>1. Shaped'
  BY DEF Take, PeopleInv, Shaped
<1>2. IdleClean'
  BY DEF Take, PeopleInv, Shaped, IdleClean
<1>3. PeopleSeen'
  BY DEF Take, PeopleInv, Shaped, PeopleSeen
<1>4. PeopleSpared'
  BY DEF Take, PeopleInv, Shaped, PeopleSpared
<1>5. QED
  BY <1>1, <1>2, <1>3, <1>4 DEF PeopleInv

\* A flush that leaves alone what it knows people decided keeps the invariant
LEMMA FlushKeeps ==
    ASSUME PeopleInv, NEW p \in Session, NEW rows, NEW before, Flush(p, rows, before), UNCHANGED <<row, task>>,
           DOMAIN rows \subseteq Source,
           \A s \in DOMAIN rows : task[p].kind # "classify" /\ s \notin stale[p] /\ row[s].by = "manual" =>
                                      rows[s].cls = before[s].cls /\ rows[s].by = before[s].by
    PROVE  PeopleInv'
<1>1. Shaped'
  BY DEF Flush, PeopleInv, Shaped, Diff, NoRows
<1>2. IdleClean'
  BY DEF Flush, PeopleInv, Shaped, IdleClean
<1>3. PeopleSeen'
  BY DEF Flush, PeopleInv, Shaped, PeopleSeen, NoRows
<1>4. ASSUME NEW q \in Session, NEW s \in DOMAIN patch'[q],
             task[q].kind # "classify", s \notin stale'[q], row[s].by = "manual"
      PROVE  Say \cap DOMAIN patch'[q][s] = {}
  <2>1. CASE q # p
    BY <1>4, <2>1 DEF Flush, PeopleInv, Shaped, PeopleSpared
  <2>2. CASE q = p
    <3>1. s \notin stale[p]
      BY <1>4, <2>2 DEF Flush, PeopleInv, Shaped
    <3>2. s \in DOMAIN patch[p] => Say \cap DOMAIN patch[p][s] = {}
      BY <1>4, <2>2, <3>1 DEF PeopleInv, PeopleSpared
    <3>3. QED
      BY <1>4, <2>2, <3>1, <3>2, FlushSpares DEF PeopleInv
  <2>3. QED
    BY <2>1, <2>2
<1>5. PeopleSpared'
  BY <1>4 DEF PeopleSpared
<1>6. QED
  BY <1>1, <1>2, <1>3, <1>5 DEF PeopleInv

\* A session that loses its work leaves the others as they are
LEMMA LoseKeeps == ASSUME PeopleInv, NEW p \in Session, Lose(p) PROVE PeopleInv'
<1> USE DEF Lose, End, PeopleInv, Shaped, NoRows
<1>1. Shaped'
  OBVIOUS
<1>2. IdleClean'
  BY DEF IdleClean
<1>3. PeopleSeen'
  BY DEF PeopleSeen
<1>4. PeopleSpared'
  BY DEF PeopleSpared
<1>5. QED
  BY <1>1, <1>2, <1>3, <1>4

-----------------------------------------------------------------------------
LEMMA PeopleInit == Init => PeopleInv
BY DEF Init, PeopleInv, Shaped, IdleClean, PeopleSeen, PeopleSpared, NoRows, Say

LEMMA CommitKeeps == ASSUME PeopleInv, NEW p \in Session, Commit(p) PROVE PeopleInv'
<1> USE DEF PeopleInv, Shaped
<1>1. row' = [s \in Source |-> IF s \in DOMAIN patch[p] THEN Over(patch[p][s], row[s]) ELSE row[s]]
  BY DEF Commit
<1>2. ASSUME NEW s \in Source PROVE Say \subseteq DOMAIN row'[s]
  BY <1>1 DEF Over
<1>3. /\ pc' = [pc EXCEPT ![p] = "idle"] /\ task' = [task EXCEPT ![p] = Nothing]
      /\ seen' = [seen EXCEPT ![p] = NoRows] /\ patch' = [patch EXCEPT ![p] = NoRows]
      /\ stale' = [q \in Session |-> IF q = p THEN {} ELSE stale[q] \cup {s \in DOMAIN seen[q] \cup DOMAIN patch[q] : row'[s] # row[s]}]
  BY DEF Commit, End
<1>4. DOMAIN NoRows = {}
  BY DEF NoRows
<1>5. Shaped'
  BY <1>1, <1>2, <1>3, <1>4
<1>6. IdleClean'
  BY <1>3, <1>4 DEF IdleClean
<1>7. PeopleSeen'
  BY <1>3, <1>4 DEF PeopleSeen
<1>8. PeopleSpared'
  BY <1>3, <1>4 DEF PeopleSpared
<1>9. QED
  BY <1>5, <1>6, <1>7, <1>8

LEMMA PeopleStep == PeopleInv /\ [Next]_vars => PeopleInv'
<1> SUFFICES ASSUME PeopleInv, [Next]_vars PROVE PeopleInv'
  OBVIOUS
<1>1. ASSUME NEW p \in Session, NEW s \in Source, NEW as \in ForAddress, classify_ip(p, s, as) PROVE PeopleInv'
  <2>1. DOMAIN patch[p] = {}
    BY <1>1 DEF classify_ip, Take, PeopleInv, IdleClean
  <2>2. QED
    BY <1>1, <2>1, TakeSees DEF classify_ip, Only, PeopleInv, Shaped
<1>2. ASSUME NEW p \in Session, ClassifyDecides(p) PROVE PeopleInv'
  <2> DEFINE s == task[p].source
             as == task[p].as
             r == seen[p][s]
             rows == [seen[p] EXCEPT ![s] = IF as = r.cls /\ r.by = "manual" THEN r ELSE classify_manually(r, as)]
  <2>1. Flush(p, rows, seen[p]) /\ UNCHANGED <<row, task>> /\ task[p].kind = "classify"
    BY <1>2 DEF ClassifyDecides
  <2>2. DOMAIN rows \subseteq Source
    BY DEF PeopleInv, Shaped
  <2>3. QED
    BY <2>1, <2>2, FlushKeeps
<1>3. ASSUME NEW p \in Session, NEW k \in Sender, NEW as \in ForSender, decide_sender(p, k, as) PROVE PeopleInv'
  <2>1. DOMAIN patch[p] = {}
    BY <1>3 DEF decide_sender, Take, PeopleInv, IdleClean
  <2>2. QED
    BY <1>3, <2>1, TakeSees DEF decide_sender, NoRows, PeopleInv, Shaped
<1>4. ASSUME NEW p \in Session, decide(p) PROVE PeopleInv'
  <2>1. PICK verdict : Flush(p, [s \in Addresses(task[p].sender) |-> apply_rules(apply_decision(row[s], verdict))], row)
    BY <1>4 DEF decide
  <2> DEFINE rows == [s \in Addresses(task[p].sender) |-> apply_rules(apply_decision(row[s], verdict))]
  <2>2. UNCHANGED <<row, task>>
    BY <1>4 DEF decide
  <2>3. DOMAIN rows \subseteq Source
    BY DEF Addresses
  <2>4. ASSUME NEW s \in DOMAIN rows, row[s].by = "manual" PROVE rows[s] = row[s]
    BY <2>4, DecisionKeepsPeople, RulesKeepPeople
  <2>5. QED
    BY <2>1, <2>2, <2>3, <2>4, FlushKeeps
<1>5. ASSUME NEW p \in Session, NEW everywhere \in BOOLEAN, NEW S \in SUBSET Source, refresh_sources(p, everywhere, S)
      PROVE  PeopleInv'
  <2>1. PICK swept \in SUBSET Source :
             LET after == [s \in S \cup swept |-> IF s \in swept THEN apply_rules(row[s]) ELSE row[s]]
             IN  /\ Take(p, [kind |-> "refresh", batch |-> S], after)
                 /\ patch' = [patch EXCEPT ![p] = Diff(after, row)]
                 /\ UNCHANGED row
    <3>1. (IF everywhere /\ ~applied THEN Affected ELSE {}) \in SUBSET Source
      BY DEF Affected
    <3>2. QED
      BY <1>5, <3>1 DEF refresh_sources
  <2> DEFINE after == [s \in S \cup swept |-> IF s \in swept THEN apply_rules(row[s]) ELSE row[s]]
  <2>2. ASSUME NEW s \in DOMAIN after
        PROVE  Say \subseteq DOMAIN after[s] /\ (row[s].by = "manual" => after[s] = row[s])
    BY RulesKeepColumns, RulesKeepPeople DEF PeopleInv, Shaped
  <2>3. DOMAIN after \subseteq Source
    OBVIOUS
  <2>4. DOMAIN Diff(after, row) \subseteq {s \in Source : row[s].by # "manual"}
    BY <2>2, <2>3 DEF Diff
  <2>5. Take(p, [kind |-> "refresh", batch |-> S], after) /\ patch' = [patch EXCEPT ![p] = Diff(after, row)] /\ UNCHANGED row
    BY <2>1
  <2> HIDE DEF after
  <2>6. /\ DOMAIN patch' = Session /\ patch'[p] = Diff(after, row)
        /\ \A q \in Session \ {p} : patch'[q] = patch[q]
    BY <2>5 DEF PeopleInv, Shaped
  <2>7. \A s \in DOMAIN after : Say \subseteq DOMAIN after[s] /\ (row[s].by = "manual" => after[s].by = "manual")
    BY <2>2
  <2>8. DOMAIN patch'[p] \subseteq Source /\ \A s \in DOMAIN patch'[p] : row[s].by # "manual"
    BY <2>4, <2>6
  <2>9. QED
    BY <2>3, <2>5, <2>6, <2>7, <2>8, TakeSees
<1>6. ASSUME NEW p \in Session, RefreshDecides(p) PROVE PeopleInv'
  <2>1. PICK failed \in SUBSET task[p].batch :
             Flush(p, [s \in DOMAIN seen[p] |-> IF s \in task[p].batch THEN identify_source(s, seen[p][s], s \in failed)
                                                                      ELSE seen[p][s]], seen[p])
    BY <1>6 DEF RefreshDecides
  <2> DEFINE rows == [s \in DOMAIN seen[p] |-> IF s \in task[p].batch THEN identify_source(s, seen[p][s], s \in failed)
                                                                      ELSE seen[p][s]]
  <2>2. UNCHANGED <<row, task>>
    BY <1>6 DEF RefreshDecides
  <2>3. DOMAIN rows \subseteq Source
    BY DEF PeopleInv, Shaped
  <2>4. ASSUME NEW s \in DOMAIN rows, s \notin stale[p], row[s].by = "manual"
        PROVE  rows[s].cls = seen[p][s].cls /\ rows[s].by = seen[p][s].by
    <3>1. Say \subseteq DOMAIN seen[p][s] /\ seen[p][s].by = "manual"
      BY <2>4 DEF PeopleInv, Shaped, PeopleSeen
    <3>2. QED
      BY <2>4, <3>1, IdentifyKeepsPeople
  <2>5. QED
    BY <2>1, <2>2, <2>3, <2>4, FlushKeeps
<1>7. ASSUME NEW p \in Session, Commit(p) PROVE PeopleInv'
  BY <1>7, CommitKeeps
<1>8. ASSUME NEW p \in Session, DecideFails(p) \/ Rollback(p) PROVE PeopleInv'
  BY <1>8, LoseKeeps DEF DecideFails, Rollback
<1>9. ASSUME NEW s \in Source, NEW k \in Sender \cup {NoSender}, EvidenceChanges(s, k) PROVE PeopleInv'
  BY <1>9 DEF EvidenceChanges, session, PeopleInv, Shaped, IdleClean, PeopleSeen, PeopleSpared
<1>10. ASSUME NEW s \in Source, MailPasses(s) PROVE PeopleInv'
  <2>1. \A t \in Source : DOMAIN row'[t] = DOMAIN row[t] /\ row'[t].by = row[t].by
    BY <1>10 DEF MailPasses, PeopleInv, Shaped, Say
  <2>2. DOMAIN row' = Source /\ UNCHANGED session
    BY <1>10 DEF MailPasses, PeopleInv, Shaped
  <2>3. QED
    BY <2>1, <2>2 DEF session, PeopleInv, Shaped, IdleClean, PeopleSeen, PeopleSpared
<1>11. ASSUME NEW on \in BOOLEAN, Restart(on) PROVE PeopleInv'
  BY <1>11 DEF Restart, NoRows, PeopleInv, Shaped, IdleClean, PeopleSeen, PeopleSpared
<1>12. CASE UNCHANGED vars
  BY <1>12 DEF vars, session, PeopleInv, Shaped, IdleClean, PeopleSeen, PeopleSpared
<1>13. QED
  BY <1>1, <1>2, <1>3, <1>4, <1>5, <1>6, <1>7, <1>8, <1>9, <1>10, <1>11, <1>12 DEF Next, Works

\* A person's decision about an address gives way only to a person that decides about that address again, or to a
\* session that loaded the row before the decision was committed.
THEOREM PeopleDecide == Spec => DecisionsStay
<1>1. ASSUME PeopleInv, Next, NEW s \in Source, row[s].by = "manual", <<row'[s].cls, row'[s].by>> # <<row[s].cls, row[s].by>>
      PROVE  \E p \in Session : /\ pc[p] = "commit" /\ pc'[p] = "idle"
                                /\ task[p].kind = "classify" \/ s \in stale[p]
  <2>1. PICK p \in Session : Commit(p)
    <3>1. \A t \in Source : ~MailPasses(t)
      BY <1>1 DEF MailPasses, PeopleInv, Shaped, Say
    <3>2. row' # row
      BY <1>1
    <3>3. \A p \in Session, t \in Source, as \in ForAddress : ~classify_ip(p, t, as)
      BY <3>2 DEF classify_ip
    <3>4. \A p \in Session, k \in Sender, as \in ForSender : ~decide_sender(p, k, as)
      BY <3>2 DEF decide_sender
    <3>5. \A p \in Session, everywhere \in BOOLEAN, S \in SUBSET Source : ~refresh_sources(p, everywhere, S)
      BY <3>2 DEF refresh_sources
    <3>6. \A p \in Session : ~ClassifyDecides(p) /\ ~decide(p) /\ ~RefreshDecides(p) /\ ~DecideFails(p) /\ ~Rollback(p)
      BY <3>2 DEF ClassifyDecides, decide, RefreshDecides, DecideFails, Rollback, Lose
    <3>7. \A on \in BOOLEAN : ~Restart(on)
      BY <3>2 DEF Restart
    <3>8. \A t \in Source, k \in Sender \cup {NoSender} : ~EvidenceChanges(t, k)
      BY <3>2 DEF EvidenceChanges
    <3>9. QED
      BY <1>1, <3>1, <3>3, <3>4, <3>5, <3>6, <3>7, <3>8 DEF Next, Works
  <2>2. pc[p] = "commit" /\ pc'[p] = "idle"
    BY <1>1, <2>1 DEF Commit, End, PeopleInv, Shaped
  <2>3. row'[s] = IF s \in DOMAIN patch[p] THEN Over(patch[p][s], row[s]) ELSE row[s]
    BY <2>1 DEF Commit
  <2>4. s \in DOMAIN patch[p] /\ ~(Say \cap DOMAIN patch[p][s] = {})
    <3>1. Say \subseteq DOMAIN row[s]
      BY <1>1 DEF PeopleInv, Shaped
    <3>2. QED
      BY <1>1, <2>3, <3>1 DEF Over, Say
  <2>5. task[p].kind = "classify" \/ s \in stale[p]
    BY <1>1, <2>4 DEF PeopleInv, PeopleSpared
  <2>6. QED
    BY <2>2, <2>5
<1>2. PeopleInv /\ [Next]_vars =>
        [\A s \in Source :
          row[s].by = "manual" /\ <<row'[s].cls, row'[s].by>> # <<row[s].cls, row[s].by>> =>
             \E p \in Session : /\ pc[p] = "commit" /\ pc'[p] = "idle"
                                /\ task[p].kind = "classify" \/ s \in stale[p]]_vars
  BY <1>1
<1>3. QED
  BY <1>2, PeopleInit, PeopleStep, PTL DEF Spec, DecisionsStay

-----------------------------------------------------------------------------
(* Types, where what a session means to write is typed column by column *)

\* What each column may hold
Column == [cls |-> Decision \cup {"unknown"}, by |-> Origin, sender |-> Sender \cup {NoSender}, listed |-> BOOLEAN, passed |-> BOOLEAN]

\* The columns of an UPDATE have values of their types
Fits(columns) == DOMAIN columns \subseteq DOMAIN Column /\ \A c \in DOMAIN columns : columns[c] \in Column[c]

\* Everything but the patches, which are said to have their types column by column
RestTyped ==
    /\ row \in [Source -> Row]
    /\ approval \in [Sender -> Decision \cup {"none"}]
    /\ evidence \in [Source -> Sender \cup {NoSender}]
    /\ rules \in BOOLEAN /\ applied \in BOOLEAN
    /\ pc \in [Session -> {"idle", "loaded", "commit"}]
    /\ task \in [Session -> Task]
    /\ DOMAIN seen = Session
    /\ \A p \in Session : DOMAIN seen[p] \subseteq Source /\ \A s \in DOMAIN seen[p] : seen[p][s] \in Row
    /\ held \in [Session -> SUBSET Source]
    /\ decided \in [Session -> Decision \cup {"none"}]
    /\ stale \in [Session -> SUBSET Source]
    /\ torn \subseteq Source
    /\ orders \in 0 .. MaxOrders
    /\ changes \in 0 .. MaxChanges

PatchesFit ==
    /\ DOMAIN patch = Session
    /\ \A p \in Session : DOMAIN patch[p] \subseteq Source /\ \A s \in DOMAIN patch[p] : Fits(patch[p][s])

SendersInv == RestTyped /\ PatchesFit

LEMMA RowColumns ==
    ASSUME NEW r
    PROVE  r \in Row <=> /\ r = [c \in DOMAIN Column |-> r[c]]
                         /\ \A c \in DOMAIN Column : r[c] \in Column[c]
<1>1. DOMAIN Column = {"cls", "by", "sender", "listed", "passed"}
  BY DEF Column
<1>2. ASSUME r \in Row PROVE r = [c \in DOMAIN Column |-> r[c]] /\ \A c \in DOMAIN Column : r[c] \in Column[c]
  BY <1>1, <1>2 DEF Row, Column
<1>3. ASSUME r = [c \in DOMAIN Column |-> r[c]], \A c \in DOMAIN Column : r[c] \in Column[c] PROVE r \in Row
  <2>1. r = [cls |-> r.cls, by |-> r.by, sender |-> r.sender, listed |-> r.listed, passed |-> r.passed]
    BY <1>1, <1>3
  <2>2. /\ r.cls \in Decision \cup {"unknown"} /\ r.by \in Origin /\ r.sender \in Sender \cup {NoSender}
        /\ r.listed \in BOOLEAN /\ r.passed \in BOOLEAN
    BY <1>1, <1>3 DEF Column
  <2> QED
    BY <2>1, <2>2 DEF Row
<1> QED
  BY <1>2, <1>3

(* An UPDATE of typed columns leaves a typed row. *)
LEMMA OverFits ==
    ASSUME NEW columns, Fits(columns), NEW r \in Row
    PROVE  Over(columns, r) \in Row
<1>1. r = [c \in DOMAIN Column |-> r[c]] /\ \A c \in DOMAIN Column : r[c] \in Column[c]
  BY RowColumns
<1>2. DOMAIN columns \cup DOMAIN r = DOMAIN Column
  BY <1>1 DEF Fits
<1>3. Over(columns, r) = [c \in DOMAIN Column |-> IF c \in DOMAIN columns THEN columns[c] ELSE r[c]]
  BY <1>2 DEF Over
<1>4. \A c \in DOMAIN Column : Over(columns, r)[c] \in Column[c]
  BY <1>1, <1>3 DEF Fits
<1> HIDE DEF Column
<1>5. Over(columns, r) = [c \in DOMAIN Column |-> Over(columns, r)[c]]
  BY <1>3
<1> QED
  BY <1>4, <1>5, RowColumns

LEMMA BothFit ==
    ASSUME NEW columns, NEW others, Fits(columns), Fits(others)
    PROVE  Fits(Over(columns, others))
BY DEF Fits, Over

LEMMA DiffFits ==
    ASSUME NEW now, NEW before, \A s \in DOMAIN now : now[s] \in Row
    PROVE  DOMAIN Diff(now, before) \subseteq DOMAIN now /\ \A s \in DOMAIN Diff(now, before) : Fits(Diff(now, before)[s])
<1>1. DOMAIN Diff(now, before) \subseteq DOMAIN now
  BY DEF Diff
<1>2. ASSUME NEW s \in DOMAIN Diff(now, before) PROVE Fits(Diff(now, before)[s])
  <2>1. Diff(now, before)[s] = [c \in {d \in DOMAIN now[s] : now[s][d] # before[s][d]} |-> now[s][c]]
    BY <1>2 DEF Diff
  <2>2. now[s] = [c \in DOMAIN Column |-> now[s][c]] /\ \A c \in DOMAIN Column : now[s][c] \in Column[c]
    BY <1>1, RowColumns
  <2>3. DOMAIN now[s] = DOMAIN Column
    BY <2>2
  <2> QED
    BY <2>1, <2>2, <2>3 DEF Fits
<1> QED
  BY <1>1, <1>2

(* Decisions about a typed row *)

LEMMA DecisionTyped == \A r \in Row, v \in Decision \cup {"none"} : apply_decision(r, v) \in Row
BY DEF apply_decision, Unclassified, Row, Origin

LEMMA RulesTyped == \A r \in Row : apply_rules(r) \in Row
BY ConstantsAssumption DEF apply_rules, Unclassified, Row, Origin

LEMMA VerdictTyped == ASSUME RestTyped, NEW r \in Row PROVE Verdict(r) \in Decision \cup {"none"}
BY DEF RestTyped, Verdict, Row

LEMMA IdentifyTyped ==
    ASSUME RestTyped, NEW s \in Source, NEW r \in Row, NEW failed \in BOOLEAN
    PROVE  identify_source(s, r, failed) \in Row
<1> DEFINE named == [r EXCEPT !.sender = evidence[s], !.listed = IF failed THEN @ ELSE s \in Network]
<1>1. named \in Row
  <2> DEFINE x == IF failed THEN r.listed ELSE s \in Network
  <2>0. r.listed \in BOOLEAN /\ (s \in Network) \in BOOLEAN
    <3>1. r.listed \in BOOLEAN
      BY DEF Row
    <3> QED
      BY <3>1
  <2>1. x \in BOOLEAN /\ evidence[s] \in Sender \cup {NoSender}
    <3>1. x \in BOOLEAN
      BY <2>0, Zenon
    <3>2. evidence[s] \in Sender \cup {NoSender}
      BY DEF RestTyped
    <3> QED
      BY <3>1, <3>2
  <2>2. named = [r EXCEPT !.sender = evidence[s], !.listed = x]
    BY DEF Row
  <2> HIDE DEF x
  <2> QED
    BY <2>1, <2>2 DEF Row
<1>2. identify_source(s, r, failed) = apply_rules(apply_decision(named, Verdict(named)))
  BY DEF identify_source
<1> HIDE DEF named
<1> QED
  BY <1>1, <1>2, VerdictTyped, DecisionTyped, RulesTyped

LEMMA ManualTyped ==
    ASSUME RestTyped, NEW r \in Row, NEW as \in ForAddress
    PROVE  classify_manually(r, as) \in Row
<1>1. Unclassified(r) \in Row
  BY DEF Unclassified, Row, Origin
<1>2. apply_rules(apply_decision(Unclassified(r), Verdict(r))) \in Row
  BY <1>1, VerdictTyped, DecisionTyped, RulesTyped
<1>3. as # "unknown" => [r EXCEPT !.cls = as, !.by = "manual"] \in Row
  BY ConstantsAssumption DEF Row, Origin
<1> QED
  BY <1>2, <1>3 DEF classify_manually

(* A session that takes up a task with typed rows *)
LEMMA TakeTyped ==
    ASSUME RestTyped, NEW p \in Session, NEW what \in Task, NEW rows, Take(p, what, rows),
           DOMAIN rows \subseteq Source, \A s \in DOMAIN rows : rows[s] \in Row
    PROVE  /\ pc' \in [Session -> {"idle", "loaded", "commit"}] /\ task' \in [Session -> Task]
           /\ DOMAIN seen' = Session
           /\ \A q \in Session : DOMAIN seen'[q] \subseteq Source /\ \A s \in DOMAIN seen'[q] : seen'[q][s] \in Row
           /\ stale' \in [Session -> SUBSET Source]
BY DEF RestTyped, Take

(* A session that flushes typed rows *)
LEMMA FlushTyped ==
    ASSUME SendersInv, NEW p \in Session, NEW rows, NEW before, Flush(p, rows, before),
           DOMAIN rows \subseteq Source, \A s \in DOMAIN rows : rows[s] \in Row
    PROVE  /\ pc' \in [Session -> {"idle", "loaded", "commit"}]
           /\ DOMAIN seen' = Session
           /\ \A q \in Session : DOMAIN seen'[q] \subseteq Source /\ \A s \in DOMAIN seen'[q] : seen'[q][s] \in Row
           /\ stale' \in [Session -> SUBSET Source]
           /\ PatchesFit'
<1> DEFINE new == Diff(rows, before)
           both == [s \in DOMAIN new \cup DOMAIN patch[p] |->
                      IF s \notin DOMAIN patch[p] THEN new[s]
                      ELSE IF s \notin DOMAIN new THEN patch[p][s] ELSE Over(new[s], patch[p][s])]
<1>1. DOMAIN new \subseteq Source /\ \A s \in DOMAIN new : Fits(new[s])
  BY DiffFits
<1>2. pc' = [pc EXCEPT ![p] = "commit"] /\ seen' = [seen EXCEPT ![p] = NoRows] /\ patch' = [patch EXCEPT ![p] = both]
      /\ stale' = [stale EXCEPT ![p] = @ \cap DOMAIN both]
  BY DEF Flush
<1> HIDE DEF new
<1>3. DOMAIN both \subseteq Source /\ \A s \in DOMAIN both : Fits(both[s])
  <2>1. DOMAIN patch[p] \subseteq Source /\ \A s \in DOMAIN patch[p] : Fits(patch[p][s])
    BY DEF SendersInv, PatchesFit
  <2>2. DOMAIN both = DOMAIN new \cup DOMAIN patch[p]
    OBVIOUS
  <2>3. ASSUME NEW s \in DOMAIN both PROVE Fits(both[s])
    BY <1>1, <2>1, <2>2, <2>3, BothFit
  <2> QED
    BY <1>1, <2>1, <2>2, <2>3
<1> HIDE DEF both
<1>4. PatchesFit'
  BY <1>2, <1>3 DEF SendersInv, PatchesFit
<1>5. DOMAIN NoRows = {}
  BY DEF NoRows
<1> QED
  BY <1>2, <1>4, <1>5 DEF SendersInv, RestTyped

(* A session that ends *)
LEMMA EndTyped ==
    ASSUME SendersInv, NEW p \in Session, End(p)
    PROVE  /\ pc' \in [Session -> {"idle", "loaded", "commit"}] /\ task' \in [Session -> Task]
           /\ DOMAIN seen' = Session
           /\ \A q \in Session : DOMAIN seen'[q] \subseteq Source /\ \A s \in DOMAIN seen'[q] : seen'[q][s] \in Row
           /\ held' \in [Session -> SUBSET Source] /\ decided' \in [Session -> Decision \cup {"none"}]
           /\ PatchesFit'
<1>1. DOMAIN NoRows = {}
  BY DEF NoRows
<1>2. Nothing \in Task
  BY DEF Nothing, Task
<1>3. PatchesFit'
  BY <1>1 DEF End, SendersInv, PatchesFit
<1>4. task' \in [Session -> Task]
  BY <1>2 DEF End, SendersInv, RestTyped
<1> QED
  BY <1>1, <1>3, <1>4 DEF End, SendersInv, RestTyped

LEMMA TypesStart == Init => SendersInv
<1> SUFFICES ASSUME Init PROVE SendersInv
  OBVIOUS
<1>1. DOMAIN NoRows = {} /\ Nothing \in Task
  BY DEF NoRows, Nothing, Task
<1>2. (CHOOSE k \in Sender : TRUE) \in Sender
  BY ConstantsAssumption
<1>3. row \in [Source -> Row]
  BY DEF Init, Row, Origin
<1>4. orders \in 0 .. MaxOrders /\ changes \in 0 .. MaxChanges
  BY ConstantsAssumption DEF Init
<1>5. evidence \in [Source -> Sender \cup {NoSender}]
  BY <1>2 DEF Init
<1>6. PatchesFit
  BY <1>1 DEF Init, PatchesFit
<1> QED
  BY <1>1, <1>3, <1>4, <1>5, <1>6 DEF Init, SendersInv, RestTyped

LEMMA TypesStep == SendersInv /\ [Next]_vars => SendersInv'
<1> SUFFICES ASSUME SendersInv, [Next]_vars PROVE SendersInv'
  OBVIOUS
<1>0. RestTyped /\ PatchesFit
  BY DEF SendersInv
<1>c. MaxOrders \in Nat /\ MaxChanges \in Nat
  BY ConstantsAssumption
<1>1. CASE UNCHANGED vars
  BY <1>0, <1>1 DEF vars, session, world, SendersInv, RestTyped, PatchesFit
<1>2. ASSUME NEW p \in Session, NEW s \in Source, NEW as \in ForAddress, classify_ip(p, s, as) PROVE SendersInv'
  <2>1. [kind |-> "classify", source |-> s, as |-> as] \in Task
    BY DEF Task
  <2>2. DOMAIN Only({s}) \subseteq Source /\ \A t \in DOMAIN Only({s}) : Only({s})[t] \in Row
    BY <1>0 DEF Only, RestTyped
  <2>3. orders' \in 0 .. MaxOrders /\ changes' = changes
    BY <1>0, <1>2, <1>c DEF classify_ip, Order, RestTyped
  <2>4. Take(p, [kind |-> "classify", source |-> s, as |-> as], Only({s}))
        /\ UNCHANGED <<row, approval, world, applied, patch, held, decided, torn>>
    BY <1>2 DEF classify_ip
  <2> QED
    BY <1>0, <2>1, <2>2, <2>3, <2>4, TakeTyped DEF world, SendersInv, RestTyped, PatchesFit
<1>3. ASSUME NEW p \in Session, ClassifyDecides(p) PROVE SendersInv'
  <2> DEFINE s == task[p].source
             as == task[p].as
             r == seen[p][s]
             rows == [seen[p] EXCEPT ![s] = IF as = r.cls /\ r.by = "manual" THEN r ELSE classify_manually(r, as)]
  <2>1. Flush(p, rows, seen[p]) /\ UNCHANGED <<row, approval, world, applied, task, held, decided, torn, orders, changes>>
        /\ task[p].kind = "classify"
    BY <1>3 DEF ClassifyDecides
  <2>2. as \in ForAddress
    BY <1>0, <2>1 DEF RestTyped, Task
  <2>3. DOMAIN rows = DOMAIN seen[p] /\ DOMAIN seen[p] \subseteq Source /\ \A t \in DOMAIN seen[p] : seen[p][t] \in Row
    BY <1>0 DEF RestTyped
  <2>4. ASSUME NEW t \in DOMAIN rows PROVE rows[t] \in Row
    <3>1. CASE t = s
      <4>1. r \in Row
        BY <2>3, <2>4, <3>1
      <4>2. classify_manually(r, as) \in Row
        BY <1>0, <2>2, <4>1, ManualTyped
      <4>3. rows[t] = r \/ rows[t] = classify_manually(r, as)
        BY <2>3, <2>4, <3>1
      <4> QED
        BY <4>1, <4>2, <4>3
    <3>2. CASE t # s
      BY <2>3, <2>4, <3>2
    <3> QED
      BY <3>1, <3>2
  <2> HIDE DEF rows
  <2> QED
    BY <1>0, <2>1, <2>3, <2>4, FlushTyped DEF world, SendersInv, RestTyped
<1>4. ASSUME NEW p \in Session, NEW k \in Sender, NEW as \in ForSender, decide_sender(p, k, as) PROVE SendersInv'
  <2>1. [kind |-> "decide", sender |-> k, as |-> as] \in Task /\ DOMAIN NoRows = {}
    BY DEF Task, NoRows
  <2>2. orders' \in 0 .. MaxOrders /\ changes' = changes
    BY <1>0, <1>4, <1>c DEF decide_sender, Order, RestTyped
  <2>3. Take(p, [kind |-> "decide", sender |-> k, as |-> as], NoRows)
        /\ UNCHANGED <<row, approval, world, applied, patch, held, torn>>
    BY <1>4 DEF decide_sender
  <2>4. decided' \in [Session -> Decision \cup {"none"}]
    BY <1>0, <1>4 DEF decide_sender, RestTyped
  <2> QED
    BY <1>0, <2>1, <2>2, <2>3, <2>4, TakeTyped DEF world, SendersInv, RestTyped, PatchesFit
<1>5. ASSUME NEW p \in Session, decide(p) PROVE SendersInv'
  <2> DEFINE k == task[p].sender
             verdict == IF task[p].as = "reset" THEN "none" ELSE task[p].as
             rows == [s \in Addresses(k) |-> apply_rules(apply_decision(row[s], verdict))]
  <2>1. Flush(p, rows, row) /\ UNCHANGED <<row, approval, world, applied, task, held, torn, orders, changes>>
        /\ task[p].kind = "decide"
        /\ decided' = [decided EXCEPT ![p] = IF verdict # decided[p] THEN verdict ELSE approval[k]]
    BY <1>5 DEF decide
  <2>2. k \in Sender /\ task[p].as \in ForSender
    BY <1>0, <2>1 DEF RestTyped, Task
  <2>3. verdict \in Decision \cup {"none"}
    BY <2>2, ConstantsAssumption
  <2> HIDE DEF verdict
  <2>4. DOMAIN rows \subseteq Source /\ \A s \in DOMAIN rows : rows[s] \in Row
    BY <1>0, <2>3, DecisionTyped, RulesTyped DEF RestTyped, Addresses
  <2>5. decided' \in [Session -> Decision \cup {"none"}]
    BY <1>0, <2>1, <2>2, <2>3 DEF RestTyped
  <2> HIDE DEF rows
  <2> QED
    BY <1>0, <2>1, <2>4, <2>5, FlushTyped DEF world, SendersInv, RestTyped
<1>6. ASSUME NEW p \in Session, NEW everywhere \in BOOLEAN, NEW S \in SUBSET Source, refresh_sources(p, everywhere, S)
      PROVE  SendersInv'
  <2> DEFINE swept == IF everywhere /\ ~applied THEN Affected ELSE {}
             after == [s \in S \cup swept |-> IF s \in swept THEN apply_rules(row[s]) ELSE row[s]]
             what == [kind |-> "refresh", batch |-> S]
  <2>1. /\ Take(p, what, after) /\ patch' = [patch EXCEPT ![p] = Diff(after, row)]
        /\ held' = [held EXCEPT ![p] = swept] /\ applied' = (applied \/ everywhere)
        /\ UNCHANGED <<row, approval, world, decided, torn, orders, changes>>
    BY <1>6 DEF refresh_sources
  <2>2. what \in Task
    BY DEF Task
  <2>3. swept \subseteq Source
    BY DEF Affected
  <2> HIDE DEF swept
  <2>4. DOMAIN after \subseteq Source /\ \A s \in DOMAIN after : after[s] \in Row
    BY <1>0, <2>3, RulesTyped DEF RestTyped
  <2> HIDE DEF after, what
  <2>5. PatchesFit'
    <3>1. DOMAIN Diff(after, row) \subseteq Source /\ \A s \in DOMAIN Diff(after, row) : Fits(Diff(after, row)[s])
      BY <2>4, DiffFits
    <3> QED
      BY <1>0, <2>1, <3>1 DEF PatchesFit
  <2>6. held' \in [Session -> SUBSET Source] /\ applied' \in BOOLEAN
    BY <1>0, <2>1, <2>3 DEF RestTyped
  <2> QED
    BY <1>0, <2>1, <2>2, <2>4, <2>5, <2>6, TakeTyped DEF world, SendersInv, RestTyped
<1>7. ASSUME NEW p \in Session, RefreshDecides(p) PROVE SendersInv'
  <2>1. PICK failed \in SUBSET task[p].batch :
          Flush(p, [s \in DOMAIN seen[p] |-> IF s \in task[p].batch THEN identify_source(s, seen[p][s], s \in failed) ELSE seen[p][s]],
                seen[p])
    BY <1>7 DEF RefreshDecides
  <2> DEFINE rows == [s \in DOMAIN seen[p] |-> IF s \in task[p].batch THEN identify_source(s, seen[p][s], s \in failed) ELSE seen[p][s]]
  <2>2. UNCHANGED <<row, approval, world, applied, task, held, decided, torn, orders, changes>>
    BY <1>7 DEF RefreshDecides
  <2>3. DOMAIN rows \subseteq Source
    BY <1>0 DEF RestTyped
  <2>4. ASSUME NEW s \in DOMAIN rows PROVE rows[s] \in Row
    <3>1. seen[p][s] \in Row /\ s \in Source
      BY <1>0, <2>4 DEF RestTyped
    <3>2. identify_source(s, seen[p][s], s \in failed) \in Row
      <4>1. (s \in failed) \in BOOLEAN
        OBVIOUS
      <4> QED
        BY <1>0, <3>1, <4>1, IdentifyTyped
    <3> QED
      BY <2>4, <3>1, <3>2
  <2>5. Flush(p, rows, seen[p])
    BY <2>1
  <2> HIDE DEF rows
  <2> QED
    BY <1>0, <2>2, <2>3, <2>4, <2>5, FlushTyped DEF world, SendersInv, RestTyped
<1>8. ASSUME NEW p \in Session, Commit(p) PROVE SendersInv'
  <2>1. row' \in [Source -> Row]
    <3>1. row' = [s \in Source |-> IF s \in DOMAIN patch[p] THEN Over(patch[p][s], row[s]) ELSE row[s]]
      BY <1>8 DEF Commit
    <3>2. ASSUME NEW s \in Source PROVE row'[s] \in Row
      BY <1>0, <3>1, <3>2, OverFits DEF RestTyped, PatchesFit
    <3> QED
      BY <3>1, <3>2
  <2>2. approval' \in [Sender -> Decision \cup {"none"}]
    BY <1>0, <1>8 DEF Commit, RestTyped
  <2>3. stale' \in [Session -> SUBSET Source] /\ torn' \subseteq Source
    BY <1>0, <1>8 DEF Commit, RestTyped, PatchesFit
  <2>4. End(p) /\ UNCHANGED <<world, applied, orders, changes>>
    BY <1>8 DEF Commit
  <2> QED
    BY <1>0, <2>1, <2>2, <2>3, <2>4, EndTyped DEF world, SendersInv, RestTyped
<1>9. ASSUME NEW p \in Session, Lose(p), orders' = orders, changes' \in 0 .. MaxChanges PROVE SendersInv'
  <2>1. End(p) /\ UNCHANGED <<row, approval, world, applied, torn>>
    BY <1>9 DEF Lose
  <2>2. stale' \in [Session -> SUBSET Source]
    BY <1>0, <1>9 DEF Lose, RestTyped
  <2> QED
    BY <1>0, <1>9, <2>1, <2>2, EndTyped DEF world, SendersInv, RestTyped
<1>10. ASSUME Change PROVE orders' = orders /\ changes' \in 0 .. MaxChanges
  BY <1>0, <1>10, <1>c DEF Change, RestTyped
<1>11. ASSUME NEW p \in Session, DecideFails(p) \/ Rollback(p) PROVE SendersInv'
  <2>1. orders' = orders /\ changes' \in 0 .. MaxChanges
    BY <1>0, <1>10, <1>11 DEF DecideFails, Rollback, RestTyped
  <2>2. Lose(p)
    BY <1>11 DEF DecideFails, Rollback
  <2> QED
    BY <1>9, <2>1, <2>2
<1>12. ASSUME NEW s \in Source, NEW k \in Sender \cup {NoSender}, EvidenceChanges(s, k) PROVE SendersInv'
  <2>1. evidence' \in [Source -> Sender \cup {NoSender}]
    BY <1>0, <1>12 DEF EvidenceChanges, RestTyped
  <2> QED
    BY <1>0, <1>10, <1>12, <2>1 DEF EvidenceChanges, session, SendersInv, RestTyped, PatchesFit
<1>13. ASSUME NEW s \in Source, MailPasses(s) PROVE SendersInv'
  <2>1. row' \in [Source -> Row]
    <3> DEFINE q == [row[s] EXCEPT !.passed = TRUE]
    <3>1. row \in [Source -> Row]
      BY <1>0 DEF RestTyped
    <3>2. q \in Row
      <4>1. row[s] \in Row
        BY <3>1
      <4> QED
        BY <4>1 DEF Row
    <3>3. row' = [row EXCEPT ![s] = q]
      BY <1>13 DEF MailPasses
    <3> HIDE DEF q
    <3> QED
      BY <3>1, <3>2, <3>3
  <2> QED
    BY <1>0, <1>10, <1>13, <2>1 DEF MailPasses, world, session, SendersInv, RestTyped, PatchesFit
<1>14. ASSUME NEW on \in BOOLEAN, Restart(on) PROVE SendersInv'
  <2>1. DOMAIN NoRows = {} /\ Nothing \in Task
    BY DEF NoRows, Nothing, Task
  <2>2. PatchesFit'
    BY <1>14, <2>1 DEF Restart, PatchesFit
  <2>3. task' \in [Session -> Task]
    BY <1>14, <2>1 DEF Restart
  <2> QED
    BY <1>0, <1>10, <1>14, <2>1, <2>2, <2>3 DEF Restart, SendersInv, RestTyped
<1> QED
  BY <1>1, <1>2, <1>3, <1>4, <1>5, <1>6, <1>7, <1>8, <1>11, <1>12, <1>13, <1>14 DEF Next, Works

(* Rows, decisions, tasks and what sessions have loaded or mean to write keep their types: whatever sessions overlap, a
   commit leaves rows with values of their columns (apply_decision, apply_rules, classify_manually, identify_source). *)
THEOREM SendersTypeCorrect == Spec => []TypeOK
<1>1. SendersInv => TypeOK
  <2> SUFFICES ASSUME SendersInv PROVE TypeOK
    OBVIOUS
  <2>1. ASSUME NEW p \in Session, NEW s \in DOMAIN patch[p] PROVE Over(patch[p][s], row[s]) \in Row
    BY OverFits DEF SendersInv, PatchesFit, RestTyped
  <2> QED
    BY <2>1 DEF SendersInv, PatchesFit, RestTyped, TypeOK
<1> QED
  BY <1>1, TypesStart, TypesStep, PTL DEF Spec

-----------------------------------------------------------------------------
(* Who sends, for any catalog (identify) *)

Least(S) == CHOOSE i \in S : \A j \in S : i <= j

LEMMA LeastIsFirst ==
  ASSUME NEW S \in SUBSET Nat, S # {}
  PROVE Least(S) \in S /\ \A j \in S : Least(S) <= j
<1> DEFINE Less == {ss \in Nat \X Nat : ss[1] < ss[2]}
<1>1. IsWellFoundedOn(Less, Nat)
  BY NatLessThanWellFounded DEF OpToRel
<1>2. PICK x \in S : \A y \in S : <<y, x>> \notin Less
  BY <1>1, WFMin
<1>3. \A y \in S : ~(y < x)
  BY <1>2
<1>4. \A y \in S : x <= y
  BY <1>3
<1>5. QED
  BY <1>4 DEF Least

\* Senders that claim a name
Claimants(catalog, name, k) == {i \in DOMAIN catalog : _match(name, Claimed(catalog[i], k))}

\* Names that some sender claims
Hits(catalog, domains, k) == {n \in DOMAIN domains : Claimants(catalog, domains[n], k) # {}}

ByName(catalog, name, k) ==
    IF Claimants(catalog, name, k) = {} THEN None ELSE catalog[Least(Claimants(catalog, name, k))].key

ByNames(catalog, domains, k) ==
    IF Hits(catalog, domains, k) = {} THEN None ELSE ByName(catalog, domains[Least(Hits(catalog, domains, k))], k)

\* What parse_catalog makes of the entries: senders with keys
Catalogue(catalog) == \E n \in Nat : DOMAIN catalog = 1 .. n /\ \A i \in 1 .. n : catalog[i].key # None

KeysSingle(catalog) == \A i, j \in DOMAIN catalog : catalog[i].key = catalog[j].key => i = j

(* An entry that is put into a catalog takes the place of the one with its key or comes last, so that keys stay single (the dict of
   parse_catalog and load_catalog). *)
LEMMA PutKeepsCatalogue ==
  ASSUME NEW Item, NEW catalog \in Seq(Item), Catalogue(catalog), KeysSingle(catalog), NEW s \in Item, s.key # None
  PROVE Put(catalog, s) \in Seq(Item) /\ Catalogue(Put(catalog, s)) /\ KeysSingle(Put(catalog, s))
<1>1. DOMAIN catalog = 1 .. Len(catalog) /\ Len(catalog) \in Nat /\ \A i \in DOMAIN catalog : catalog[i].key # None
  BY DEF Catalogue
<1>2. CASE Known(catalog, s.key) = {}
  <2>1. Put(catalog, s) = Append(catalog, s)
    BY <1>2 DEF Put
  <2>2. \A i \in DOMAIN catalog : catalog[i].key # s.key
    BY <1>2 DEF Known
  <2>3. /\ Append(catalog, s) \in Seq(Item) /\ DOMAIN Append(catalog, s) = 1 .. Len(catalog) + 1
        /\ \A i \in 1 .. Len(catalog) + 1 : Append(catalog, s)[i] = IF i \in DOMAIN catalog THEN catalog[i] ELSE s
        /\ \A i \in 1 .. Len(catalog) + 1 : i \in DOMAIN catalog \/ i = Len(catalog) + 1
    BY <1>1
  <2>4. Catalogue(Append(catalog, s))
    BY <1>1, <2>3 DEF Catalogue
  <2>5. KeysSingle(Append(catalog, s))
    BY <2>2, <2>3 DEF KeysSingle
  <2> QED
    BY <2>1, <2>3, <2>4, <2>5
<1>3. CASE Known(catalog, s.key) # {}
  <2> DEFINE new == [i \in DOMAIN catalog |-> IF catalog[i].key = s.key THEN s ELSE catalog[i]]
  <2>1. Put(catalog, s) = new
    BY <1>3 DEF Put
  <2>2. new \in Seq(Item)
    BY <1>1
  <2>3. DOMAIN new = DOMAIN catalog /\ \A i \in DOMAIN catalog : new[i].key = catalog[i].key
    OBVIOUS
  <2> HIDE DEF new
  <2>4. Catalogue(new) /\ KeysSingle(new)
    BY <1>1, <2>3 DEF Catalogue, KeysSingle
  <2> QED
    BY <2>1, <2>2, <2>4
<1>4. QED
  BY <1>2, <1>3

LEMMA FirstOfIs ==
  ASSUME NEW catalog, NEW name
  PROVE /\ FirstOf(catalog, name, LAMBDA s : s.rdns) = ByName(catalog, name, 1)
        /\ FirstOf(catalog, name, LAMBDA s : s.dkim) = ByName(catalog, name, 2)
        /\ FirstOf(catalog, name, LAMBDA s : s.spf) = ByName(catalog, name, 3)
BY DEF FirstOf, ByName, Claimants, Claimed, Least

LEMMA FirstInIs ==
  ASSUME NEW catalog, Catalogue(catalog), NEW domains
  PROVE /\ FirstIn(catalog, domains, LAMBDA s : s.dkim) = ByNames(catalog, domains, 2)
        /\ FirstIn(catalog, domains, LAMBDA s : s.spf) = ByNames(catalog, domains, 3)
<1>1. ASSUME NEW name, NEW k PROVE ByName(catalog, name, k) = None <=> Claimants(catalog, name, k) = {}
  <2>1. Claimants(catalog, name, k) \in SUBSET Nat /\ Claimants(catalog, name, k) \subseteq DOMAIN catalog
    BY DEF Claimants, Catalogue
  <2>2. Claimants(catalog, name, k) # {} => Least(Claimants(catalog, name, k)) \in DOMAIN catalog
    BY <2>1, LeastIsFirst
  <2> QED
    BY <2>2 DEF ByName, Catalogue
<1>2. {n \in DOMAIN domains : ByName(catalog, domains[n], 2) # None} = Hits(catalog, domains, 2)
  BY <1>1 DEF Hits
<1>3. {n \in DOMAIN domains : ByName(catalog, domains[n], 3) # None} = Hits(catalog, domains, 3)
  BY <1>1 DEF Hits
<1>4. FirstIn(catalog, domains, LAMBDA s : s.dkim) = ByNames(catalog, domains, 2)
  BY <1>2, FirstOfIs DEF FirstIn, ByNames, Least
<1>5. FirstIn(catalog, domains, LAMBDA s : s.spf) = ByNames(catalog, domains, 3)
  BY <1>3, FirstOfIs DEF FirstIn, ByNames, Least
<1>6. QED
  BY <1>4, <1>5

LEMMA BestOfKind ==
  ASSUME NEW catalog, Catalogue(catalog), NEW domains, DOMAIN domains \subseteq Nat, NEW k
  PROVE /\ Hits(catalog, domains, k) = {} => ByNames(catalog, domains, k) = None
        /\ Hits(catalog, domains, k) # {} =>
              \E n \in DOMAIN domains : \E i \in Claimants(catalog, domains[n], k) :
                 /\ ByNames(catalog, domains, k) = catalog[i].key /\ catalog[i].key # None
                 /\ \A m \in DOMAIN domains : \A j \in Claimants(catalog, domains[m], k) : n < m \/ (n = m /\ i <= j)
<1> DEFINE H == Hits(catalog, domains, k)
           n == Least(H)
           C == Claimants(catalog, domains[n], k)
           i == Least(C)
<1>1. H = {} => ByNames(catalog, domains, k) = None
  BY DEF ByNames
<1>2. ASSUME H # {}
      PROVE /\ n \in DOMAIN domains /\ i \in C
            /\ ByNames(catalog, domains, k) = catalog[i].key /\ catalog[i].key # None
            /\ \A m \in DOMAIN domains : \A j \in Claimants(catalog, domains[m], k) : n < m \/ (n = m /\ i <= j)
  <2>1. H \in SUBSET Nat /\ H \subseteq DOMAIN domains
    BY DEF Hits
  <2>2. n \in H /\ \A m \in H : n <= m
    BY <1>2, <2>1, LeastIsFirst
  <2>3. C # {} /\ C \in SUBSET Nat
    BY <2>2 DEF Hits, Claimants, Catalogue
  <2>4. i \in C /\ \A j \in C : i <= j
    BY <2>3, LeastIsFirst
  <2>5. ByNames(catalog, domains, k) = catalog[i].key
    BY <1>2, <2>3 DEF ByNames, ByName
  <2>6. catalog[i].key # None
    BY <2>4 DEF Claimants, Catalogue
  <2>7. ASSUME NEW m \in DOMAIN domains, NEW j \in Claimants(catalog, domains[m], k) PROVE n < m \/ (n = m /\ i <= j)
    <3>1. m \in H
      BY <2>7 DEF Hits
    <3>2. n \in Nat /\ m \in Nat /\ n <= m
      BY <2>1, <2>2, <3>1
    <3> HIDE DEF H, n, i
    <3>3. CASE n = m
      BY <2>4, <2>7, <3>3
    <3>4. CASE n # m
      BY <3>2, <3>4
    <3> QED
      BY <3>3, <3>4
  <2> HIDE DEF H, n, C, i
  <2> QED
    BY <2>1, <2>2, <2>4, <2>5, <2>6, <2>7
<1>3. QED
  BY <1>1, <1>2

LEMMA IdentifyIs ==
  ASSUME NEW catalog, Catalogue(catalog), NEW host, NEW confirmed \in BOOLEAN, NEW dkim, NEW spf
  PROVE LET names == Names(host, confirmed, dkim, spf)
            By(k) == ByNames(catalog, names[k], k)
        IN  identify(catalog, host, confirmed, dkim, spf) =
               IF By(1) # None THEN By(1) ELSE IF By(2) # None THEN By(2) ELSE By(3)
<1> DEFINE names == Names(host, confirmed, dkim, spf)
           byHost == IF host = None \/ ~confirmed THEN None ELSE ByName(catalog, host, 1)
<1>1. names[2] = dkim /\ names[3] = spf /\ names[1] = IF confirmed /\ host # None THEN <<host>> ELSE <<>>
  BY DEF Names
<1>2. ByNames(catalog, <<>>, 1) = None
  BY DEF ByNames, Hits
<1>3. ByNames(catalog, <<host>>, 1) = ByName(catalog, host, 1)
  <2>1. DOMAIN <<host>> = {1} /\ <<host>>[1] = host
    OBVIOUS
  <2>2. CASE Claimants(catalog, host, 1) = {}
    <3>1. Hits(catalog, <<host>>, 1) = {}
      BY <2>1, <2>2 DEF Hits
    <3> QED
      BY <2>2, <3>1 DEF ByNames, ByName
  <2>3. CASE Claimants(catalog, host, 1) # {}
    <3>1. Hits(catalog, <<host>>, 1) = {1}
      BY <2>1, <2>3 DEF Hits
    <3>2. Least({1}) = 1
      BY LeastIsFirst
    <3> QED
      BY <2>1, <3>1, <3>2 DEF ByNames
  <2> QED
    BY <2>2, <2>3
<1>4. ByNames(catalog, names[1], 1) = byHost
  BY <1>1, <1>2, <1>3
<1>5. identify(catalog, host, confirmed, dkim, spf) =
        LET byDkim == ByNames(catalog, dkim, 2)
            bySpf == ByNames(catalog, spf, 3)
        IN  IF byHost # None THEN byHost ELSE IF byDkim # None THEN byDkim ELSE bySpf
  BY FirstOfIs, FirstInIs DEF identify
<1> HIDE DEF names, byHost
<1>6. QED
  BY <1>1, <1>4, <1>5 DEF names

\* The strongest evidence, and none at all, as the code matches names
StrongestClaim(catalog, names, found) ==
    \E k \in Proof : \E n \in DOMAIN names[k] : \E i \in Claimants(catalog, names[k][n], k) :
        /\ found = catalog[i].key /\ found # None
        /\ \A l \in Proof : \A m \in DOMAIN names[l] : \A j \in Claimants(catalog, names[l][m], l) :
              k < l \/ (k = l /\ (n < m \/ (n = m /\ i <= j)))

NoClaim(catalog, names) == \A k \in Proof : \A n \in DOMAIN names[k] : Claimants(catalog, names[k][n], k) = {}

(* A sender is named by the strongest evidence, and nobody is named without any (identify), for every catalog and every list of
   domains: a host name counts only if it resolves back, and before signatures, these before SPF; among names of one kind the
   first that is claimed counts, and among senders that claim it the first of the catalog. *)
THEOREM StrongestEvidenceNames ==
  ASSUME NEW catalog, Catalogue(catalog), NEW host, NEW confirmed \in BOOLEAN,
         NEW Domain, NEW dkim \in Seq(Domain), NEW spf \in Seq(Domain)
  PROVE LET names == Names(host, confirmed, dkim, spf)
            found == identify(catalog, host, confirmed, dkim, spf)
        IN  (found = None /\ NoClaim(catalog, names)) \/ StrongestClaim(catalog, names, found)
<1> DEFINE names == Names(host, confirmed, dkim, spf)
           found == identify(catalog, host, confirmed, dkim, spf)
           By(k) == ByNames(catalog, names[k], k)
           Claims(k) == Hits(catalog, names[k], k) # {}
           Best(k) == \E n \in DOMAIN names[k] : \E i \in Claimants(catalog, names[k][n], k) :
                         /\ By(k) = catalog[i].key /\ catalog[i].key # None
                         /\ \A m \in DOMAIN names[k] : \A j \in Claimants(catalog, names[k][m], k) : n < m \/ (n = m /\ i <= j)
           Result(k) == \E n \in DOMAIN names[k] : \E i \in Claimants(catalog, names[k][n], k) :
                  /\ found = catalog[i].key /\ found # None
                  /\ \A l \in Proof : \A m \in DOMAIN names[l] : \A j \in Claimants(catalog, names[l][m], l) :
                        k < l \/ (k = l /\ (n < m \/ (n = m /\ i <= j)))
<1>1. found = IF By(1) # None THEN By(1) ELSE IF By(2) # None THEN By(2) ELSE By(3)
  BY IdentifyIs
<1>2. \A k \in Proof : DOMAIN names[k] \subseteq Nat
  <2>1. DOMAIN dkim \subseteq Nat /\ DOMAIN spf \subseteq Nat /\ DOMAIN <<host>> \subseteq Nat /\ DOMAIN <<>> \subseteq Nat
    OBVIOUS
  <2>2. names[2] = dkim /\ names[3] = spf /\ names[1] \in {<<host>>, <<>>}
    BY DEF Names
  <2> QED
    BY <2>1, <2>2 DEF Proof
<1>3. ASSUME NEW k \in Proof PROVE (~Claims(k) => By(k) = None) /\ (Claims(k) => Best(k))
  BY <1>2, BestOfKind
<1>4. ASSUME NEW k \in Proof, Claims(k) PROVE By(k) # None
  BY <1>3, <1>4
<1>5. \A k \in Proof : ~Claims(k) <=> \A n \in DOMAIN names[k] : Claimants(catalog, names[k][n], k) = {}
  BY DEF Hits
<1> HIDE DEF names, found, By, Claims
<1>6. ASSUME NEW k \in Proof, Claims(k), \A l \in Proof : l < k => ~Claims(l) PROVE Result(k)
  <2>1. found = By(k) /\ By(k) # None
    BY <1>1, <1>3, <1>4, <1>6 DEF Proof
  <2>2. PICK n \in DOMAIN names[k] : \E i \in Claimants(catalog, names[k][n], k) :
                         /\ By(k) = catalog[i].key /\ catalog[i].key # None
                         /\ \A m \in DOMAIN names[k] : \A j \in Claimants(catalog, names[k][m], k) : n < m \/ (n = m /\ i <= j)
    BY <1>3, <1>6
  <2>3. PICK i \in Claimants(catalog, names[k][n], k) :
                         /\ By(k) = catalog[i].key /\ catalog[i].key # None
                         /\ \A m \in DOMAIN names[k] : \A j \in Claimants(catalog, names[k][m], k) : n < m \/ (n = m /\ i <= j)
    BY <2>2
  <2>4. ASSUME NEW l \in Proof, NEW m \in DOMAIN names[l], NEW j \in Claimants(catalog, names[l][m], l)
        PROVE k < l \/ (k = l /\ (n < m \/ (n = m /\ i <= j)))
    <3>1. Claims(l)
      BY <1>5, <2>4
    <3>2. k < l \/ k = l
      BY <1>6, <3>1 DEF Proof
    <3> QED
      BY <2>3, <2>4, <3>2
  <2> QED
    BY <2>1, <2>3, <2>4
<1>7. (\A k \in Proof : ~Claims(k)) \/ \E k \in Proof : Result(k)
  <2>1. CASE Claims(1)
    BY <1>6, <2>1 DEF Proof
  <2>2. CASE ~Claims(1) /\ Claims(2)
    BY <1>6, <2>2 DEF Proof
  <2>3. CASE ~Claims(1) /\ ~Claims(2) /\ Claims(3)
    BY <1>6, <2>3 DEF Proof
  <2>4. CASE ~Claims(1) /\ ~Claims(2) /\ ~Claims(3)
    BY <2>4 DEF Proof
  <2> QED
    BY <2>1, <2>2, <2>3, <2>4
<1>8. (\A k \in Proof : ~Claims(k)) => found = None
  BY <1>1, <1>3 DEF Proof
<1>9. (\A k \in Proof : ~Claims(k)) => NoClaim(catalog, names)
  BY <1>5 DEF NoClaim
<1>10. (\E k \in Proof : Result(k)) => StrongestClaim(catalog, names, found)
  BY DEF StrongestClaim
<1>11. QED
  BY <1>7, <1>8, <1>9, <1>10 DEF names, found

-----------------------------------------------------------------------------
(* Which names are below a domain (_match) *)

\* The last labels of the name are those of the domain
EndsIn(name, domain) == Len(domain) <= Len(name) /\ \A j \in 1 .. Len(domain) : domain[j] = name[Len(name) - Len(domain) + j]

LEMMA BelowEndsIn ==
  ASSUME NEW L, NEW name \in Seq(L), NEW domain \in Seq(L)
  PROVE  Below(name, domain) <=> EndsIn(name, domain)
<1>1. Len(name) \in Nat /\ Len(domain) \in Nat /\ domain = [j \in 1 .. Len(domain) |-> domain[j]]
  OBVIOUS
<1>2. ASSUME NEW i \in 0 .. Len(name)
      PROVE  SubSeq(name, i + 1, Len(name)) = [j \in 1 .. Len(name) - i |-> name[i + j]]
  <2>1. \A p, q \in Nat : SubSeq(name, p, q) = [j \in 1 .. (1 + q) - p |-> name[j + p - 1]]
    OBVIOUS
  <2>2. SubSeq(name, i + 1, Len(name)) = [j \in 1 .. (1 + Len(name)) - (i + 1) |-> name[j + (i + 1) - 1]]
    <3>1. i + 1 \in Nat
      OBVIOUS
    <3> QED
      BY Zenon, <1>1, <2>1, <3>1
  <2>3. /\ (1 + Len(name)) - (i + 1) = Len(name) - i
        /\ \A j \in 1 .. Len(name) - i : j + (i + 1) - 1 = i + j
    BY <1>1
  <2> QED
    BY <2>2, <2>3
<1>3. ASSUME Below(name, domain) PROVE EndsIn(name, domain)
  <2>1. PICK i \in 0 .. Len(name) : domain = [j \in 1 .. Len(name) - i |-> name[i + j]]
    BY <1>2, <1>3 DEF Below
  <2>2. Len(name) - i \in Nat
    BY <1>1
  <2>3. Len(domain) = Len(name) - i
    BY <1>1, <2>1, <2>2
  <2>4. i = Len(name) - Len(domain) /\ Len(domain) <= Len(name)
    BY <1>1, <2>3
  <2> QED
    BY <2>1, <2>3, <2>4 DEF EndsIn
<1>4. ASSUME EndsIn(name, domain) PROVE Below(name, domain)
  <2> DEFINE i == Len(name) - Len(domain)
  <2>1. i \in 0 .. Len(name) /\ Len(name) - i = Len(domain)
    BY <1>1, <1>4 DEF EndsIn
  <2>2. \A j \in 1 .. Len(domain) : domain[j] = name[i + j]
    BY <1>4 DEF EndsIn
  <2> HIDE DEF i
  <2>3. domain = [j \in 1 .. Len(name) - i |-> name[i + j]]
    BY <1>1, <2>1, <2>2
  <2> QED
    BY <1>2, <2>1, <2>3 DEF Below
<1> QED
  BY <1>3, <1>4

LEMMA SuffixEndsIn ==
  ASSUME NEW L, NEW name \in Seq(L), NEW domain \in Seq(L)
  PROVE  IsSuffix(domain, name) <=> EndsIn(name, domain)
<1> DEFINE n == Len(name)
           m == Len(domain)
           a == Reverse(domain)
           b == Reverse(name)
<1>1. n \in Nat /\ m \in Nat
  OBVIOUS
<1>2. /\ a \in Seq(L) /\ Len(a) = m /\ \A j \in 1 .. m : a[j] = domain[(m - j) + 1]
      /\ b \in Seq(L) /\ Len(b) = n /\ \A j \in 1 .. n : b[j] = name[(n - j) + 1]
  <2>1. \A j \in 1 .. m : (m - j) + 1 \in 1 .. m
    BY <1>1
  <2>2. \A j \in 1 .. n : (n - j) + 1 \in 1 .. n
    BY <1>1
  <2>3. a \in [1 .. m -> L] /\ b \in [1 .. n -> L]
    BY <1>1, <2>1, <2>2 DEF Reverse
  <2> QED
    BY <1>1, <2>3 DEF Reverse
<1> HIDE DEF a, b
<1>3. m <= n => (SubSeq(a, 1, m) = SubSeq(b, 1, m) <=> \A j \in 1 .. m : a[j] = b[j])
  <2> SUFFICES ASSUME m <= n PROVE SubSeq(a, 1, m) = SubSeq(b, 1, m) <=> \A j \in 1 .. m : a[j] = b[j]
    OBVIOUS
  <2>1. /\ SubSeq(a, 1, m) = [j \in 1 .. m |-> a[j]]
        /\ SubSeq(b, 1, m) = [j \in 1 .. m |-> b[j]]
    <3>1. \A s : SubSeq(s, 1, m) = [j \in 1 .. (1 + m) - 1 |-> s[1 + j - 1]]
      OBVIOUS
    <3>2. (1 + m) - 1 = m /\ \A j \in 1 .. m : 1 + j - 1 = j
      BY <1>1
    <3> QED
      BY <3>1, <3>2
  <2> QED
    BY <2>1
<1>4. IsSuffix(domain, name) <=> m <= n /\ \A j \in 1 .. m : a[j] = b[j]
  BY <1>2, <1>3 DEF IsSuffix, IsPrefix, a, b
<1>5. m <= n => \A j \in 1 .. m : /\ (m - j) + 1 \in 1 .. m /\ (m - ((m - j) + 1)) + 1 = j
                                  /\ (n - ((m - j) + 1)) + 1 = n - m + j
                                  /\ j \in 1 .. n
  BY <1>1
<1>6. ASSUME m <= n
      PROVE (\A j \in 1 .. m : a[j] = b[j]) <=> \A j \in 1 .. m : domain[j] = name[n - m + j]
  <2>1. \A j \in 1 .. m : a[j] = domain[(m - j) + 1] /\ b[j] = name[(n - j) + 1]
    BY <1>2, <1>5, <1>6
  <2>2. \A j \in 1 .. m : a[(m - j) + 1] = domain[j] /\ b[(m - j) + 1] = name[n - m + j]
    <3> SUFFICES ASSUME NEW j \in 1 .. m PROVE a[(m - j) + 1] = domain[j] /\ b[(m - j) + 1] = name[n - m + j]
      OBVIOUS
    <3>1. (m - j) + 1 \in 1 .. m
      BY <1>5, <1>6
    <3>2. /\ a[(m - j) + 1] = domain[(m - ((m - j) + 1)) + 1]
          /\ b[(m - j) + 1] = name[(n - ((m - j) + 1)) + 1]
      BY <2>1, <3>1
    <3> QED
      BY <1>5, <1>6, <3>2
  <2>3. ASSUME \A j \in 1 .. m : a[j] = b[j], NEW j \in 1 .. m PROVE domain[j] = name[n - m + j]
    <3>1. a[(m - j) + 1] = b[(m - j) + 1]
      BY <1>5, <1>6, <2>3
    <3> QED
      BY <2>2, <3>1
  <2>4. ASSUME \A j \in 1 .. m : domain[j] = name[n - m + j], NEW j \in 1 .. m PROVE a[j] = b[j]
    <3> DEFINE i == (m - j) + 1
    <3>1. i \in 1 .. m /\ (m - i) + 1 = j
      BY <1>5, <1>6
    <3> HIDE DEF i
    <3>2. a[(m - i) + 1] = domain[i] /\ b[(m - i) + 1] = name[n - m + i] /\ domain[i] = name[n - m + i]
      BY <2>2, <2>4, <3>1
    <3> QED
      BY <3>1, <3>2
  <2> QED
    BY <2>3, <2>4
<1>7. QED
  BY <1>4, <1>6 DEF EndsIn

-----------------------------------------------------------------------------
(* What a catalog holds, for any files (parse_catalog, load_catalog) *)

(* The entries are gone through one after the other: FoldLeft is a function on sets of places, which takes the last place of a set
   after all others. *)
FillStep(base, entries, it, s) == IF s = {} THEN base ELSE Add(it[s \ {Max(s)}], entries[Max(s)])
IsFill(base, entries, it) == it = [s \in SUBSET DOMAIN entries |-> FillStep(base, entries, it, s)]

LEMMA UnfoldFill ==
  ASSUME NEW base, NEW entries
  PROVE  FoldLeft(Add, base, entries) = (CHOOSE it : IsFill(base, entries, it))[DOMAIN entries]
BY DEF FoldLeft, MapThenFoldSet, IsFill, FillStep

LEMMA LastPlace == ASSUME NEW n \in Nat PROVE Max(1 .. n + 1) = n + 1 /\ (1 .. n + 1) \ {n + 1} = 1 .. n
<1>1. n + 1 \in 1 .. n + 1 /\ \A y \in 1 .. n + 1 : n + 1 >= y
  OBVIOUS
<1>2. \A x \in 1 .. n + 1 : (\A y \in 1 .. n + 1 : x >= y) => x = n + 1
  BY <1>1
<1>3. Max(1 .. n + 1) = n + 1
  BY <1>1, <1>2 DEF Max
<1> QED
  BY <1>3

LEMMA LastInside ==
  ASSUME NEW n \in Nat, NEW s \in SUBSET (1 .. n), s # {}
  PROVE  Max(s) \in s /\ \A y \in s : Max(s) >= y
<1> DEFINE Above == {n - x : x \in s}
<1>1. Above \in SUBSET Nat /\ Above # {}
  <2>1. \A x \in s : x \in 1 .. n
    OBVIOUS
  <2>2. \A x \in s : n - x \in Nat
    BY <2>1
  <2> QED
    BY <2>2
<1>2. PICK d \in Above : \A e \in Above : d <= e
  <2> HIDE DEF Above
  <2> QED BY <1>1, LeastIsFirst
<1>3. PICK x \in s : d = n - x
  BY <1>2
<1>4. ASSUME NEW y \in s PROVE x >= y
  <2>1. n - x <= n - y
    BY <1>2, <1>3
  <2>2. x \in 1 .. n /\ y \in 1 .. n
    OBVIOUS
  <2> QED
    BY <2>1, <2>2
<1> QED
  BY <1>4 DEF Max

(* There is such a function: the least number of places for which there were none is not 0, and has no predecessor. *)
LEMMA FillExists ==
  ASSUME NEW base, NEW entries, NEW n \in Nat, DOMAIN entries = 1 .. n
  PROVE  \E it : IsFill(base, entries, it)
<1> DEFINE S == 1 .. n
           Good(k, g) == \A s \in SUBSET S : Cardinality(s) <= k => g[s] = FillStep(base, entries, g, s)
           Missing == {k \in Nat : ~ \E g : Good(k, g)}
<1>1. IsFiniteSet(S) /\ \A s \in SUBSET S : IsFiniteSet(s) /\ Cardinality(s) \in Nat
  <2>1. IsFiniteSet(S)
    BY FS_Interval
  <2> HIDE DEF S
  <2>2. \A s \in SUBSET S : IsFiniteSet(s)
    BY <2>1, FS_Subset
  <2>3. \A s \in SUBSET S : Cardinality(s) \in Nat
    BY <2>2, FS_CardinalityType
  <2> QED
    BY <2>1, <2>2, <2>3
<1> HIDE DEF S
<1>2. Missing = {}
  <2> SUFFICES ASSUME Missing # {} PROVE FALSE
    OBVIOUS
  <2>1. PICK k \in Missing : \A l \in Missing : k <= l
    <3>1. Missing \in SUBSET Nat
      OBVIOUS
    <3> HIDE DEF Missing
    <3> QED BY <3>1, LeastIsFirst
  <2>2. k \in Nat /\ ~ \E g : Good(k, g)
    OBVIOUS
  <2>3. ASSUME k = 0 PROVE FALSE
    <3> DEFINE g == [s \in SUBSET S |-> base]
    <3>1. ASSUME NEW s \in SUBSET S, Cardinality(s) <= k PROVE g[s] = FillStep(base, entries, g, s)
      <4>1. s = {}
        BY <1>1, <2>3, <3>1, FS_EmptySet
      <4> QED BY <4>1 DEF FillStep
    <3>2. Good(k, g)
      BY <3>1
    <3> QED BY <2>2, <3>2
  <2>4. ASSUME k # 0 PROVE FALSE
    <3>1. k - 1 \in Nat /\ k - 1 \notin Missing
      BY <2>1, <2>2, <2>4
    <3>2. PICK h : Good(k - 1, h)
      BY <3>1
    <3> DEFINE g == [s \in SUBSET S |-> FillStep(base, entries, h, s)]
    <3>3. ASSUME NEW s \in SUBSET S, Cardinality(s) <= k PROVE g[s] = FillStep(base, entries, g, s)
      <4>1. CASE s = {}
        BY <4>1 DEF FillStep
      <4>2. CASE s # {}
        <5> DEFINE r == s \ {Max(s)}
        <5>1. PICK x : x = Max(s) /\ x \in s
          BY <4>2, LastInside DEF S
        <5>2. Cardinality(s \ {x}) = Cardinality(s) - 1 /\ Cardinality(s) \in Nat
          BY <1>1, <5>1, FS_RemoveElement
        <5>3. r \in SUBSET S /\ Cardinality(r) <= k - 1
          <6>1. Cardinality(s \ {x}) <= k - 1
            <7> HIDE DEF Missing
            <7> QED BY <2>2, <3>3, <5>2
          <6> QED BY <5>1, <6>1
        <5>4. g[r] = h[r]
          BY <3>2, <5>3
        <5> QED BY <4>2, <5>4 DEF FillStep
      <4> QED BY <4>1, <4>2
    <3>4. Good(k, g)
      BY <3>3
    <3> QED BY <2>2, <3>4
  <2> QED BY <2>3, <2>4
<1>3. Cardinality(S) \in Nat /\ \A s \in SUBSET S : Cardinality(s) <= Cardinality(S)
  BY <1>1, FS_Subset
<1>4. PICK g : Good(Cardinality(S), g)
  BY <1>2, <1>3
<1> DEFINE it == [s \in SUBSET S |-> g[s]]
<1>5. \A s \in SUBSET S : it[s] = FillStep(base, entries, it, s)
  <2> SUFFICES ASSUME NEW s \in SUBSET S PROVE it[s] = FillStep(base, entries, it, s)
    OBVIOUS
  <2>1. g[s] = FillStep(base, entries, g, s)
    BY <1>3, <1>4
  <2>2. s \ {Max(s)} \in SUBSET S
    OBVIOUS
  <2> QED BY <2>1, <2>2 DEF FillStep
<1>6. IsFill(base, entries, it)
  BY <1>5 DEF IsFill, S
<1> QED BY <1>6

\* The catalogs after the first entries
Filling(base, entries, n, f) ==
    f[0] = base /\ \A k \in Nat : k < n => f[k + 1] = Add(f[k], entries[k + 1])

(* The last of them is what the entries make of the catalog. *)
LEMMA FillGoesOn ==
  ASSUME NEW base, NEW entries, NEW n \in Nat, DOMAIN entries = 1 .. n
  PROVE  \E f : Filling(base, entries, n, f) /\ f[n] = FoldLeft(Add, base, entries)
<1>1. PICK it : IsFill(base, entries, it) /\ FoldLeft(Add, base, entries) = it[1 .. n]
  BY FillExists, UnfoldFill
<1> DEFINE f == [k \in 0 .. n |-> it[1 .. k]]
<1>2. \A s \in SUBSET (1 .. n) : it[s] = FillStep(base, entries, it, s)
  BY <1>1 DEF IsFill
<1>3. f[0] = base
  <2>1. 1 .. 0 = {} /\ 0 \in 0 .. n /\ {} \in SUBSET (1 .. n)
    OBVIOUS
  <2> QED
    BY <1>2, <2>1 DEF FillStep
<1>4. f[n] = FoldLeft(Add, base, entries)
  BY <1>1
<1>5. ASSUME NEW k \in Nat, k < n PROVE f[k + 1] = Add(f[k], entries[k + 1])
  <2>1. 1 .. k + 1 \in SUBSET (1 .. n) /\ 1 .. k + 1 # {} /\ k + 1 \in 0 .. n /\ k \in 0 .. n
    <3>1. \A x \in 1 .. k + 1 : x \in 1 .. n
      BY <1>5
    <3>2. 1 \in 1 .. k + 1
      OBVIOUS
    <3>3. k + 1 \in 0 .. n /\ k \in 0 .. n
      BY <1>5
    <3> QED
      BY <3>1, <3>2, <3>3
  <2>2. it[1 .. k + 1] = Add(it[1 .. k], entries[k + 1])
    BY <1>2, <2>1, LastPlace DEF FillStep
  <2> QED
    BY <2>1, <2>2
<1>6. Filling(base, entries, n, f)
  BY <1>3, <1>5 DEF Filling
<1> QED
  BY <1>4, <1>6

(* The entry put into a catalog is in it afterwards; all other senders stay what they are. *)
LEMMA PutDoes ==
  ASSUME NEW Item, NEW catalog \in Seq(Item), NEW s \in Item
  PROVE  /\ \E i \in DOMAIN Put(catalog, s) : Put(catalog, s)[i].key = s.key
         /\ \A i \in DOMAIN Put(catalog, s) :
               \/ Put(catalog, s)[i] = s
               \/ i \in DOMAIN catalog /\ Put(catalog, s)[i] = catalog[i] /\ catalog[i].key # s.key
         /\ \A j \in DOMAIN catalog : \E i \in DOMAIN Put(catalog, s) : Put(catalog, s)[i].key = catalog[j].key
<1>1. CASE Known(catalog, s.key) = {}
  <2> DEFINE new == Append(catalog, s)
  <2>1. Put(catalog, s) = new
    BY <1>1 DEF Put
  <2>2. \A i \in DOMAIN catalog : catalog[i].key # s.key
    BY <1>1 DEF Known
  <2>3. /\ DOMAIN new = 1 .. Len(catalog) + 1 /\ Len(catalog) + 1 \in DOMAIN new /\ new[Len(catalog) + 1] = s
        /\ DOMAIN catalog \subseteq DOMAIN new
        /\ \A i \in DOMAIN new : IF i \in DOMAIN catalog THEN new[i] = catalog[i] ELSE new[i] = s
    OBVIOUS
  <2> HIDE DEF new
  <2> QED
    BY <2>1, <2>2, <2>3
<1>2. CASE Known(catalog, s.key) # {}
  <2> DEFINE new == [i \in DOMAIN catalog |-> IF catalog[i].key = s.key THEN s ELSE catalog[i]]
  <2>1. Put(catalog, s) = new
    BY <1>2 DEF Put
  <2>2. DOMAIN new = DOMAIN catalog /\ \A i \in DOMAIN catalog : new[i] = IF catalog[i].key = s.key THEN s ELSE catalog[i]
    OBVIOUS
  <2>3. \E i \in DOMAIN catalog : catalog[i].key = s.key
    BY <1>2 DEF Known
  <2> HIDE DEF new
  <2>4. \A i \in DOMAIN catalog : new[i].key = catalog[i].key
    BY <2>2
  <2> QED
    BY <2>1, <2>2, <2>3, <2>4
<1> QED
  BY <1>1, <1>2

\* The first n entries that are about a sender
SoFar(entries, n, key) == {i \in 1 .. n : Usable(entries[i]) /\ entries[i].key = key}

\* The catalog after n entries: every sender once, as the last entry about it says or else as before
FilledWith(Item, base, entries, n, c) ==
    /\ c \in Seq(Item) /\ Catalogue(c) /\ KeysSingle(c)
    /\ \A i \in DOMAIN c :
        \/ SoFar(entries, n, c[i].key) # {} /\ c[i] = SenderOf(entries[Max(SoFar(entries, n, c[i].key))])
        \/ SoFar(entries, n, c[i].key) = {} /\ \E j \in DOMAIN base : c[i] = base[j]
    /\ \A m \in 1 .. n : Usable(entries[m]) => \E i \in DOMAIN c : c[i].key = entries[m].key
    /\ \A j \in DOMAIN base : \E i \in DOMAIN c : c[i].key = base[j].key

LEMMA FilledWithNone ==
  ASSUME NEW Item, NEW base \in Seq(Item), Catalogue(base), KeysSingle(base), NEW entries
  PROVE  FilledWith(Item, base, entries, 0, base)
<1>1. 1 .. 0 = {}
  OBVIOUS
<1> QED
  BY <1>1 DEF FilledWith, SoFar

LEMMA FilledWithNext ==
  ASSUME NEW Item, \A s \in Item : s.key # None, NEW base, NEW entries, NEW n \in Nat, NEW c,
         Usable(entries[n + 1]) => SenderOf(entries[n + 1]) \in Item,
         FilledWith(Item, base, entries, n, c)
  PROVE  FilledWith(Item, base, entries, n + 1, Add(c, entries[n + 1]))
<1> DEFINE e == entries[n + 1]
           new == Add(c, e)
<1>1. 1 .. n + 1 = (1 .. n) \cup {n + 1} /\ n + 1 \notin 1 .. n
  OBVIOUS
<1>2. ASSUME NEW key, ~(Usable(e) /\ e.key = key) PROVE SoFar(entries, n + 1, key) = SoFar(entries, n, key)
  BY <1>1, <1>2 DEF SoFar
<1>3. c \in Seq(Item) /\ Catalogue(c) /\ KeysSingle(c)
  BY DEF FilledWith
<1>4. \A m \in 1 .. n : Usable(entries[m]) => \E i \in DOMAIN c : c[i].key = entries[m].key
  BY DEF FilledWith
<1>5. \A j \in DOMAIN base : \E i \in DOMAIN c : c[i].key = base[j].key
  BY DEF FilledWith
<1>6. CASE ~Usable(e)
  <2>1. new = c
    BY <1>6 DEF Add
  <2>2. \A key : SoFar(entries, n + 1, key) = SoFar(entries, n, key)
    BY <1>2, <1>6
  <2>3. \A i \in DOMAIN c :
        \/ SoFar(entries, n + 1, c[i].key) # {} /\ c[i] = SenderOf(entries[Max(SoFar(entries, n + 1, c[i].key))])
        \/ SoFar(entries, n + 1, c[i].key) = {} /\ \E j \in DOMAIN base : c[i] = base[j]
    BY <2>2 DEF FilledWith
  <2>4. \A m \in 1 .. n + 1 : Usable(entries[m]) => \E i \in DOMAIN c : c[i].key = entries[m].key
    BY <1>1, <1>4, <1>6
  <2>5. FilledWith(Item, base, entries, n + 1, c)
    BY <1>3, <1>5, <2>3, <2>4 DEF FilledWith
  <2> QED
    BY <2>1, <2>5
<1>7. CASE Usable(e)
  <2> DEFINE s == SenderOf(e)
  <2>1. s \in Item /\ s.key = e.key /\ s.key # None
    BY <1>7 DEF SenderOf
  <2>2. new = Put(c, s)
    BY <1>7 DEF Add
  <2> HIDE DEF s, new
  <2>3. new \in Seq(Item) /\ Catalogue(new) /\ KeysSingle(new)
    BY <1>3, <2>1, <2>2, PutKeepsCatalogue
  <2>4. /\ \E i \in DOMAIN new : new[i].key = s.key
        /\ \A i \in DOMAIN new : new[i] = s \/ (i \in DOMAIN c /\ new[i] = c[i] /\ c[i].key # s.key)
        /\ \A j \in DOMAIN c : \E i \in DOMAIN new : new[i].key = c[j].key
    BY <1>3, <2>1, <2>2, PutDoes
  <2>5. Max(SoFar(entries, n + 1, s.key)) = n + 1 /\ SoFar(entries, n + 1, s.key) # {}
    <3> DEFINE A == SoFar(entries, n + 1, s.key)
    <3>1. n + 1 \in A /\ \A y \in A : n + 1 >= y
      BY <1>1, <1>7, <2>1 DEF SoFar
    <3>2. \A x \in A : (\A y \in A : x >= y) => x = n + 1
      <4>1. \A x \in A : x \in Nat
        BY DEF SoFar
      <4> QED
        BY <3>1, <4>1
    <3> HIDE DEF A
    <3>3. Max(A) = n + 1
      BY <3>1, <3>2 DEF Max
    <3> QED
      BY <3>1, <3>3 DEF A
  <2>6. ASSUME NEW i \in DOMAIN new
        PROVE  \/ SoFar(entries, n + 1, new[i].key) # {} /\ new[i] = SenderOf(entries[Max(SoFar(entries, n + 1, new[i].key))])
               \/ SoFar(entries, n + 1, new[i].key) = {} /\ \E j \in DOMAIN base : new[i] = base[j]
    <3>1. CASE new[i] = s
      BY <2>5, <3>1 DEF s
    <3>2. CASE i \in DOMAIN c /\ new[i] = c[i] /\ c[i].key # s.key
      <4>1. SoFar(entries, n + 1, c[i].key) = SoFar(entries, n, c[i].key)
        BY <1>2, <2>1, <3>2
      <4>2. \/ SoFar(entries, n, c[i].key) # {} /\ c[i] = SenderOf(entries[Max(SoFar(entries, n, c[i].key))])
            \/ SoFar(entries, n, c[i].key) = {} /\ \E j \in DOMAIN base : c[i] = base[j]
        BY <3>2 DEF FilledWith
      <4> QED
        BY <3>2, <4>1, <4>2
    <3> QED
      BY <2>4, <3>1, <3>2
  <2>7. \A m \in 1 .. n + 1 : Usable(entries[m]) => \E i \in DOMAIN new : new[i].key = entries[m].key
    BY <1>1, <1>4, <2>1, <2>4
  <2>8. \A j \in DOMAIN base : \E i \in DOMAIN new : new[i].key = base[j].key
    BY <1>5, <2>4
  <2> QED
    BY <2>3, <2>6, <2>7, <2>8 DEF FilledWith, new
<1> QED
  BY <1>6, <1>7

(* What a file makes of a catalog (parse_catalog, load_catalog). *)
LEMMA FillHolds ==
  ASSUME NEW Item, \A s \in Item : s.key # None, NEW base \in Seq(Item), Catalogue(base), KeysSingle(base),
         NEW file, file # None => file \in Seq(Range(file)),
         \A i \in DOMAIN Entries(file) : Usable(Entries(file)[i]) => SenderOf(Entries(file)[i]) \in Item
  PROVE  FilledWith(Item, base, Entries(file), Len(Entries(file)), Fill(base, file))
<1> DEFINE entries == Entries(file)
           n == Len(entries)
<1>1. CASE file = None
  <2>1. n = 0 /\ Fill(base, file) = base
    BY <1>1 DEF Entries, Fill
  <2> QED
    BY <2>1, FilledWithNone
<1>2. CASE file # None
  <2>1. n \in Nat /\ DOMAIN entries = 1 .. n /\ Fill(base, file) = FoldLeft(Add, base, entries)
    BY <1>2 DEF Entries, Fill
  <2> HIDE DEF entries, n
  <2>2. PICK f : Filling(base, entries, n, f) /\ f[n] = FoldLeft(Add, base, entries)
    BY Zenon, <2>1, FillGoesOn
  <2> DEFINE Bad == {k \in 0 .. n : ~FilledWith(Item, base, entries, k, f[k])}
  <2>3. Bad = {}
    <3> SUFFICES ASSUME Bad # {} PROVE FALSE
      OBVIOUS
    <3>1. Bad \in SUBSET Nat
      OBVIOUS
    <3>2. PICK k \in Bad : \A l \in Bad : k <= l
      <4> HIDE DEF Bad
      <4> QED BY <3>1, LeastIsFirst
    <3>3. k # 0
      BY <2>2, FilledWithNone DEF Filling
    <3>4. k - 1 \in Nat /\ k - 1 < n /\ k - 1 \in 0 .. n /\ (k - 1) + 1 = k /\ k \in 1 .. n
      BY <2>1, <3>3
    <3>5. PICK j \in Nat : j = k - 1
      BY <3>4
    <3>6. j < n /\ j \in 0 .. n /\ j + 1 = k
      BY <3>4, <3>5
    <3>7. FilledWith(Item, base, entries, j, f[j])
      <4>1. j \notin Bad
        <5> HIDE DEF Bad
        <5> QED BY <3>2, <3>4, <3>5
      <4> QED BY <3>6, <4>1
    <3>8. Usable(entries[j + 1]) => SenderOf(entries[j + 1]) \in Item
      BY <2>1, <3>4, <3>6 DEF entries
    <3>9. FilledWith(Item, base, entries, j + 1, Add(f[j], entries[j + 1]))
      <4> HIDE DEF Bad
      <4> QED BY <3>7, <3>8, FilledWithNext
    <3> QED
      BY <2>2, <3>6, <3>9 DEF Filling
  <2>4. FilledWith(Item, base, entries, n, f[n])
    BY <2>1, <2>3
  <2> QED
    BY <2>1, <2>2, <2>4 DEF entries, n
<1> QED
  BY <1>1, <1>2

\* The senders that files describe
ItemOf(builtin, extra) == {SenderOf(e) : e \in {x \in Range(Entries(builtin)) \cup Range(Entries(extra)) : Usable(x)}}

LEMMA ItemsHaveKeys == ASSUME NEW builtin, NEW extra PROVE \A s \in ItemOf(builtin, extra) : s.key # None
BY DEF ItemOf, SenderOf, Usable

\* Each file that is read is a list
Readable(file) == file # None => file \in Seq(Range(file))

LEMMA LoadedCatalog ==
  ASSUME NEW builtin, NEW extra, Readable(builtin), Readable(extra)
  PROVE  LET Item == ItemOf(builtin, extra)
             base == parse_catalog(builtin)
         IN  /\ FilledWith(Item, <<>>, Entries(builtin), Len(Entries(builtin)), base)
             /\ FilledWith(Item, base, Entries(extra), Len(Entries(extra)), load_catalog(builtin, extra))
<1> DEFINE Item == ItemOf(builtin, extra)
           base == parse_catalog(builtin)
<1>1. \A s \in Item : s.key # None
  BY ItemsHaveKeys
<1>2. /\ \A i \in DOMAIN Entries(builtin) : Usable(Entries(builtin)[i]) => SenderOf(Entries(builtin)[i]) \in Item
      /\ \A i \in DOMAIN Entries(extra) : Usable(Entries(extra)[i]) => SenderOf(Entries(extra)[i]) \in Item
  BY DEF ItemOf, Range
<1>3. <<>> \in Seq(Item) /\ Catalogue(<<>>) /\ KeysSingle(<<>>)
  <2>1. DOMAIN <<>> = 1 .. 0 /\ 1 .. 0 = {} /\ 0 \in Nat
    OBVIOUS
  <2>2. <<>> \in Seq(Item)
    OBVIOUS
  <2>3. Catalogue(<<>>)
    BY <2>1 DEF Catalogue
  <2> QED
    BY <2>1, <2>2, <2>3 DEF KeysSingle
<1>4. parse_catalog(builtin) = Fill(<<>>, builtin) /\ load_catalog(builtin, extra) = Fill(base, extra)
  BY DEF parse_catalog, load_catalog
<1> HIDE DEF Item, base
<1>5. FilledWith(Item, <<>>, Entries(builtin), Len(Entries(builtin)), base)
  BY <1>1, <1>2, <1>3, <1>4, FillHolds DEF Readable, base
<1>6. base \in Seq(Item) /\ Catalogue(base) /\ KeysSingle(base)
  BY <1>5 DEF FilledWith
<1>7. FilledWith(Item, base, Entries(extra), Len(Entries(extra)), load_catalog(builtin, extra))
  BY <1>1, <1>2, <1>4, <1>6, FillHolds DEF Readable
<1> QED
  BY <1>5, <1>7 DEF Item, base

LEMMA AboutIsSoFar ==
  ASSUME NEW file, Readable(file)
  PROVE  /\ \A key : About(file, key) = SoFar(Entries(file), Len(Entries(file)), key)
         /\ DOMAIN Entries(file) = 1 .. Len(Entries(file))
<1>1. DOMAIN Entries(file) = 1 .. Len(Entries(file))
  BY DEF Entries, Readable
<1> QED
  BY <1>1 DEF About, SoFar

(* The catalog says what the files say (parse_catalog, load_catalog), for any files: every sender that an entry describes is in it
   once, as the last entry of the extra file about it says or else the last one of the built-in file, and nobody else is in it. *)
THEOREM CatalogSaysWhatFilesSay ==
  ASSUME NEW builtin, NEW extra, Readable(builtin), Readable(extra)
  PROVE  SaysWhatFilesSay(load_catalog(builtin, extra), builtin, extra)
<1> DEFINE Item == ItemOf(builtin, extra)
           base == parse_catalog(builtin)
           c == load_catalog(builtin, extra)
<1>1. /\ FilledWith(Item, <<>>, Entries(builtin), Len(Entries(builtin)), base)
      /\ FilledWith(Item, base, Entries(extra), Len(Entries(extra)), c)
  BY LoadedCatalog
<1> HIDE DEF Item, base, c
<1>2. \A key : /\ About(extra, key) = SoFar(Entries(extra), Len(Entries(extra)), key)
               /\ About(builtin, key) = SoFar(Entries(builtin), Len(Entries(builtin)), key)
  BY AboutIsSoFar
<1>3. \A i \in DOMAIN base : About(builtin, base[i].key) # {} /\ base[i] = Newest(builtin, base[i].key)
  <2>1. DOMAIN <<>> = {}
    OBVIOUS
  <2>2. \A i \in DOMAIN base :
          /\ SoFar(Entries(builtin), Len(Entries(builtin)), base[i].key) # {}
          /\ base[i] = SenderOf(Entries(builtin)[Max(SoFar(Entries(builtin), Len(Entries(builtin)), base[i].key))])
    BY <1>1, <2>1 DEF FilledWith
  <2> QED
    BY <1>2, <2>2 DEF Newest
<1>4. \A i, j \in DOMAIN c : c[i].key = c[j].key => i = j
  BY <1>1 DEF FilledWith, KeysSingle
<1>5. ASSUME NEW i \in DOMAIN c
      PROVE  \/ About(extra, c[i].key) # {} /\ c[i] = Newest(extra, c[i].key)
             \/ About(extra, c[i].key) = {} /\ About(builtin, c[i].key) # {} /\ c[i] = Newest(builtin, c[i].key)
  <2>1. \/ SoFar(Entries(extra), Len(Entries(extra)), c[i].key) # {}
           /\ c[i] = SenderOf(Entries(extra)[Max(SoFar(Entries(extra), Len(Entries(extra)), c[i].key))])
        \/ SoFar(Entries(extra), Len(Entries(extra)), c[i].key) = {} /\ \E j \in DOMAIN base : c[i] = base[j]
    BY <1>1 DEF FilledWith
  <2>2. CASE About(extra, c[i].key) # {}
    BY <1>2, <2>1, <2>2 DEF Newest
  <2>3. CASE About(extra, c[i].key) = {}
    BY <1>2, <1>3, <2>1, <2>3
  <2> QED
    BY <2>2, <2>3
<1>6. ASSUME NEW e \in Range(Entries(extra)), Usable(e) PROVE \E i \in DOMAIN c : c[i].key = e.key
  <2>1. PICK m \in 1 .. Len(Entries(extra)) : e = Entries(extra)[m]
    BY AboutIsSoFar DEF Range
  <2> QED
    BY <1>1, <1>6, <2>1 DEF FilledWith
<1>7. ASSUME NEW e \in Range(Entries(builtin)), Usable(e) PROVE \E i \in DOMAIN c : c[i].key = e.key
  <2>1. PICK m \in 1 .. Len(Entries(builtin)) : e = Entries(builtin)[m]
    BY AboutIsSoFar DEF Range
  <2>2. PICK j \in DOMAIN base : base[j].key = e.key
    BY <1>1, <1>7, <2>1 DEF FilledWith
  <2> QED
    BY <1>1, <2>2 DEF FilledWith
<1>8. SaysWhatFilesSay(c, builtin, extra)
  BY <1>4, <1>5, <1>6, <1>7 DEF SaysWhatFilesSay
<1> QED
  BY <1>8 DEF c

-----------------------------------------------------------------------------
(* The names of senders, for the catalogs of any files *)

LEMMA FilesReadable == \A file \in Builtin \cup Extra : Readable(file)
BY FilesAreLists DEF Readable

\* What a sender claims are domains
LEMMA ClaimsAreDomains ==
  ASSUME NEW builtin \in Builtin, NEW extra \in Extra, NEW s \in ItemOf(builtin, extra), NEW k \in Proof
  PROVE  Claimed(s, k) \subseteq Seq(Label)
<1>1. PICK e \in Range(Entries(builtin)) \cup Range(Entries(extra)) : Usable(e) /\ s = SenderOf(e)
  BY DEF ItemOf
<1>2. Range(Entries(None)) = {}
  BY DEF Entries, Range
<1>3. Domains(e.rdns) /\ Domains(e.dkim) /\ Domains(e.spf)
  <2>1. e # None
    BY <1>1 DEF Usable
  <2>2. PICK file \in Builtin \cup Extra : file # None /\ e \in Range(file)
    BY <1>2 DEF Entries
  <2> QED
    BY <2>1, <2>2, FilesAreLists
<1>4. \A values : Domains(values) => _suffixes(values) \subseteq Seq(Label)
  BY DEF Domains, _suffixes
<1>5. s.rdns = _suffixes(e.rdns) /\ s.dkim = _suffixes(e.dkim) /\ s.spf = _suffixes(e.spf)
  BY <1>1 DEF SenderOf
<1> QED
  BY <1>3, <1>4, <1>5 DEF Claimed

(* A sender is named by the strongest evidence, and nobody is named without any, in the catalogs of all the files (identify). *)
THEOREM CatalogsNameSenders == RightSender
<1> SUFFICES ASSUME NEW catalog \in Catalogs, NEW host \in HostName, NEW confirmed \in BOOLEAN, NEW dkim \in Lists, NEW spf \in Lists
             PROVE  LET names == Names(host, confirmed, dkim, spf)
                        found == identify(catalog, host, confirmed, dkim, spf)
                    IN  Strongest(catalog, names, found) \/ (found = None /\ NoEvidence(catalog, names))
  BY Zenon DEF RightSender
<1> DEFINE names == Names(host, confirmed, dkim, spf)
           found == identify(catalog, host, confirmed, dkim, spf)
<1>1. PICK builtin \in Builtin, extra \in Extra : catalog = load_catalog(builtin, extra)
  BY DEF Catalogs
<1>2. catalog \in Seq(ItemOf(builtin, extra)) /\ Catalogue(catalog)
  BY <1>1, LoadedCatalog, FilesReadable DEF FilledWith
<1>3. \A k \in Proof : \A n \in DOMAIN names[k] : names[k][n] \in Seq(Label)
  <2>1. dkim \in Seq(Seq(Label)) /\ spf \in Seq(Seq(Label)) /\ (host # None => host \in Seq(Label))
    BY NamesAreDomains
  <2>2. names[2] = dkim /\ names[3] = spf /\ names[1] = IF confirmed /\ host # None THEN <<host>> ELSE <<>>
    BY DEF Names
  <2>3. /\ \A n \in DOMAIN dkim : dkim[n] \in Seq(Label)
        /\ \A n \in DOMAIN spf : spf[n] \in Seq(Label)
        /\ host # None => \A n \in DOMAIN <<host>> : <<host>>[n] \in Seq(Label)
        /\ DOMAIN <<>> = {}
    BY <2>1
  <2> HIDE DEF names
  <2> QED
    BY <2>2, <2>3 DEF Proof
<1>4. ASSUME NEW k \in Proof, NEW name \in Seq(Label)
      PROVE  Claimants(catalog, name, k) = Owners(catalog, name, k)
  <2>1. ASSUME NEW i \in DOMAIN catalog
        PROVE  _match(name, Claimed(catalog[i], k)) <=> \E domain \in Claimed(catalog[i], k) : Below(name, domain)
    <3>1. Claimed(catalog[i], k) \subseteq Seq(Label)
      BY <1>2, ClaimsAreDomains
    <3>2. \A domain \in Claimed(catalog[i], k) : IsSuffix(domain, name) <=> Below(name, domain)
      BY <3>1, SuffixEndsIn, BelowEndsIn
    <3> QED
      BY <3>2 DEF _match
  <2> QED
    BY <2>1 DEF Claimants, Owners
<1>5. \A k \in Proof : \A n \in DOMAIN names[k] : Claimants(catalog, names[k][n], k) = Owners(catalog, names[k][n], k)
  BY <1>3, <1>4
<1>6. (found = None /\ NoClaim(catalog, names)) \/ StrongestClaim(catalog, names, found)
  <2>1. dkim \in Seq(Seq(Label)) /\ spf \in Seq(Seq(Label))
    BY NamesAreDomains
  <2> QED
    BY Zenon, <1>2, <2>1, StrongestEvidenceNames
<1> HIDE DEF names, found
<1>7. ASSUME NoClaim(catalog, names) PROVE NoEvidence(catalog, names)
  BY <1>5, <1>7 DEF NoEvidence, NoClaim
<1>8. ASSUME StrongestClaim(catalog, names, found) PROVE Strongest(catalog, names, found)
  <2>1. PICK k, n, i :
            /\ k \in Proof /\ n \in DOMAIN names[k] /\ i \in Claimants(catalog, names[k][n], k)
            /\ found = catalog[i].key /\ found # None
            /\ \A l \in Proof : \A m \in DOMAIN names[l] : \A j \in Claimants(catalog, names[l][m], l) :
                  k < l \/ (k = l /\ (n < m \/ (n = m /\ i <= j)))
    BY <1>8 DEF StrongestClaim
  <2>2. i \in Owners(catalog, names[k][n], k)
    BY <1>5, <2>1
  <2>3. \A l \in Proof : \A m \in DOMAIN names[l] : \A j \in Owners(catalog, names[l][m], l) :
                  k < l \/ (k = l /\ (n < m \/ (n = m /\ i <= j)))
    BY <1>5, <2>1
  <2> QED
    BY <2>1, <2>2, <2>3 DEF Strongest
<1> QED
  BY <1>6, <1>7, <1>8 DEF names, found

-----------------------------------------------------------------------------
(* What lists an address, for any answers of DNS (lookup, _update_lookup, match) *)

\* The row of an address as far as lookups write it
Found(host, confirmed, asn, country) == [host |-> host, confirmed |-> confirmed, asn |-> asn, country |-> country]
SourceRow(host, confirmed, asn, country, passed) ==
    [host |-> host, confirmed |-> confirmed, asn |-> asn, country |-> country, passed |-> passed]

\* The PTR name resolves back
Resolves(a) == "ip" \in Forward[Head(a.ptr)]

\* What a lookup that found something says, or else what was there
Update(thing, new, old) == IF thing # None THEN new ELSE old

LEMMA UpdatedLookup ==
  ASSUME NEW host, NEW confirmed, NEW asn, NEW country, NEW passed, NEW h, NEW c, NEW n, NEW k
  PROVE _update_lookup(SourceRow(host, confirmed, asn, country, passed), Found(h, c, n, k)) =
           SourceRow(Update(h, h, host), Update(h, c, confirmed), Update(n, n, asn), Update(k, k, country), passed)
<1> DEFINE source == SourceRow(host, confirmed, asn, country, passed)
           found == Found(h, c, n, k)
           hh == IF found.host # None THEN found.host ELSE source.host
           cc == IF found.host # None THEN found.confirmed ELSE source.confirmed
           nn == IF found.asn # None THEN found.asn ELSE source.asn
           kk == IF found.country # None THEN found.country ELSE source.country
<1>1. _update_lookup(source, found) = [source EXCEPT !.host = hh, !.confirmed = cc, !.asn = nn, !.country = kk]
  BY Zenon DEF _update_lookup
<1>2. hh = Update(h, h, host) /\ cc = Update(h, c, confirmed) /\ nn = Update(n, n, asn) /\ kk = Update(k, k, country)
  BY DEF SourceRow, Found, Update
<1> HIDE DEF hh, cc, nn, kk
<1>3. [source EXCEPT !.host = hh, !.confirmed = cc, !.asn = nn, !.country = kk] = SourceRow(hh, cc, nn, kk, passed)
  <2>1. [source EXCEPT !.host = hh] = SourceRow(hh, confirmed, asn, country, passed)
    BY DEF SourceRow
  <2>2. [SourceRow(hh, confirmed, asn, country, passed) EXCEPT !.confirmed = cc] = SourceRow(hh, cc, asn, country, passed)
    BY DEF SourceRow
  <2>3. [SourceRow(hh, cc, asn, country, passed) EXCEPT !.asn = nn] = SourceRow(hh, cc, nn, country, passed)
    BY DEF SourceRow
  <2>4. [SourceRow(hh, cc, nn, country, passed) EXCEPT !.country = kk] = SourceRow(hh, cc, nn, kk, passed)
    BY DEF SourceRow
  <2> QED
    BY <2>1, <2>2, <2>3, <2>4
<1>4. QED
  BY Zenon, <1>1, <1>2, <1>3

LEMMA NamedByPtr ==
  ASSUME NEW a, NEW c, c = Resolves(a)
  PROVE reverse_name("ip", a.ptr, Forward) = IF a.ptr = <<>> THEN [host |-> None, confirmed |-> FALSE] ELSE [host |-> Head(a.ptr), confirmed |-> c]
BY Zenon DEF reverse_name, Resolves

Confirms(a) == IF a.ptr = <<>> THEN FALSE ELSE Resolves(a)

LEMMA LookedUp ==
  ASSUME NEW a, NEW confirms, confirms = Confirms(a)
  PROVE lookup("ip", TRUE, TRUE, a.ptr, Forward, a.txt) = Found(Said(a).host, confirms, Said(a).network, Said(a).country)
<1>1. PICK c : c = Resolves(a)
  BY Zenon
<1>2. PICK f : f = FALSE
  BY Zenon
<1> DEFINE name == reverse_name("ip", a.ptr, Forward)
           operator == network_operator(a.txt)
<1>3. name = IF a.ptr = <<>> THEN [host |-> None, confirmed |-> f] ELSE [host |-> Head(a.ptr), confirmed |-> c]
  BY <1>1, <1>2, NamedByPtr
<1>4. name.host = Said(a).host /\ name.confirmed = IF a.ptr = <<>> THEN f ELSE c
  <2> HIDE DEF name
  <2> QED BY <1>3 DEF Said
<1>5. operator.asn = Said(a).network /\ operator.country = Said(a).country
  BY DEF network_operator, Said
<1>6. lookup("ip", TRUE, TRUE, a.ptr, Forward, a.txt) = Found(name.host, name.confirmed, operator.asn, operator.country)
  BY Zenon DEF lookup, Found
<1>7. confirms = IF a.ptr = <<>> THEN f ELSE c
  <2>1. CASE a.ptr = <<>>
    BY Zenon, <1>2, <2>1 DEF Confirms
  <2>2. CASE a.ptr # <<>>
    BY Zenon, <1>1, <2>2 DEF Confirms, Update
  <2> QED BY <2>1, <2>2
<1>8. QED
  <2> HIDE DEF name, operator
  <2> QED BY Zenon, <1>4, <1>5, <1>6, <1>7

LEMMA LookedIs ==
  ASSUME NEW a, NEW confirms, confirms = Confirms(a), NEW host, NEW confirmed, NEW asn, NEW country, NEW passed
  PROVE Looked(SourceRow(host, confirmed, asn, country, passed), a) =
           SourceRow(Update(Said(a).host, Said(a).host, host), Update(Said(a).host, confirms, confirmed),
                     Update(Said(a).network, Said(a).network, asn), Update(Said(a).country, Said(a).country, country), passed)
<1>1. PICK h, n, k : h = Said(a).host /\ n = Said(a).network /\ k = Said(a).country
  BY Zenon
<1>2. lookup("ip", TRUE, TRUE, a.ptr, Forward, a.txt) = Found(h, confirms, n, k)
  BY Zenon, <1>1, LookedUp
<1>3. Looked(SourceRow(host, confirmed, asn, country, passed), a) =
        _update_lookup(SourceRow(host, confirmed, asn, country, passed), Found(h, confirms, n, k))
  BY Zenon, <1>2 DEF Looked
<1>4. _update_lookup(SourceRow(host, confirmed, asn, country, passed), Found(h, confirms, n, k)) =
        SourceRow(Update(h, h, host), Update(h, confirms, confirmed), Update(n, n, asn), Update(k, k, country), passed)
  BY UpdatedLookup
<1>5. QED
  BY <1>1, <1>3, <1>4

Thing == {"network", "country", "host"}

\* The value of each thing in a row
Value(source, k) == CASE k = "network" -> source.asn [] k = "country" -> source.country [] k = "host" -> source.host

\* A rule about the thing applies
Applies(source, set, k) == Value(source, k) # None /\ IsListed(set, k, Value(source, k))

LEMMA MatchIs ==
  ASSUME NEW source, source.passed \in Nat, NEW set \in Settings
  PROVE match(source, set) # None <=> set.enabled /\ source.passed <= set.maxPassed /\ \E k \in Thing : Applies(source, set, k)
<1>1. set.maxPassed \in Nat /\ set.enabled \in BOOLEAN /\ None \notin Thing
  BY AnswersHaveNames DEF Thing
<1>2. source.passed > set.maxPassed <=> ~(source.passed <= set.maxPassed)
  BY <1>1
<1>3. /\ Applies(source, set, "network") <=> source.asn # None /\ source.asn \in set.asns
      /\ Applies(source, set, "country") <=> source.country # None /\ source.country \in set.countries
      /\ Applies(source, set, "host") <=> source.host # None /\ \E p \in set.patterns : _host_matches(source.host, p)
  BY DEF Value, IsListed, Applies
<1>4. match(source, set) = IF ~set.enabled \/ source.passed > set.maxPassed THEN None
                           ELSE IF Applies(source, set, "network") THEN "network"
                           ELSE IF Applies(source, set, "country") THEN "country"
                           ELSE IF Applies(source, set, "host") THEN "host" ELSE None
  BY <1>3, Zenon DEF match
<1>5. (\E k \in Thing : Applies(source, set, k)) <=>
         Applies(source, set, "network") \/ Applies(source, set, "country") \/ Applies(source, set, "host")
  BY DEF Thing
<1>6. QED
  BY <1>1, <1>2, <1>4, <1>5 DEF Thing

(* The rules list an address by the last answers about it: after any two lookups, by the last that said anything of a thing; and its
   name counts as confirmed exactly if the last one resolves back (_update_lookup, match). *)
THEOREM RulesFollowAnswers == RightRule
<1> SUFFICES ASSUME NEW first \in Answer, NEW second \in Answer, NEW passed \in Passed
             PROVE  FollowsAnswers(Looked(Looked(Blank(passed), first), second), first, second)
  BY DEF RightRule
<1> DEFINE source == Looked(Looked(Blank(passed), first), second)
<1>1. PICK c, d, f : c = Confirms(first) /\ d = Confirms(second) /\ f = FALSE
  BY Zenon
<1>2. PICK h, g, n, k : /\ source = SourceRow(h, g, n, k, passed)
                        /\ h = Update(Said(second).host, Said(second).host, Said(first).host)
                        /\ n = Update(Said(second).network, Said(second).network, Said(first).network)
                        /\ k = Update(Said(second).country, Said(second).country, Said(first).country)
                        /\ g = Update(Said(second).host, d, Update(Said(first).host, c, f))
  <2>1. Blank(passed) = SourceRow(None, f, None, None, passed)
    BY Zenon, <1>1 DEF Blank, SourceRow
  <2>2. \A x : Update(x, x, None) = x
    BY DEF Update
  <2>3. PICK h, g, n, k : h = Said(first).host /\ n = Said(first).network /\ k = Said(first).country
                          /\ g = Update(Said(first).host, c, f)
    BY Zenon
  <2>4. Looked(SourceRow(None, f, None, None, passed), first) =
           SourceRow(Update(Said(first).host, Said(first).host, None), Update(Said(first).host, c, f),
                     Update(Said(first).network, Said(first).network, None),
                     Update(Said(first).country, Said(first).country, None), passed)
    BY <1>1, LookedIs
  <2>5. Looked(Blank(passed), first) = SourceRow(h, g, n, k, passed)
    BY <2>1, <2>2, <2>3, <2>4
  <2>6. Looked(SourceRow(h, g, n, k, passed), second) =
           SourceRow(Update(Said(second).host, Said(second).host, h), Update(Said(second).host, d, g),
                     Update(Said(second).network, Said(second).network, n),
                     Update(Said(second).country, Said(second).country, k), passed)
    BY <1>1, LookedIs
  <2> QED
    BY Zenon, <2>3, <2>5, <2>6
<1>3. /\ Value(source, "network") = n /\ Value(source, "country") = k /\ Value(source, "host") = h
      /\ source.passed = passed /\ source.confirmed = g
  <2>1. LET s == SourceRow(h, g, n, k, passed)
        IN  Value(s, "network") = n /\ Value(s, "country") = k /\ Value(s, "host") = h /\ s.passed = passed /\ s.confirmed = g
    BY DEF Value, SourceRow
  <2> HIDE DEF source
  <2> QED BY <1>2, <2>1
<1>4. ASSUME NEW t \in Thing PROVE Value(source, t) = IF Said(second)[t] # None THEN Said(second)[t] ELSE Said(first)[t]
  <2>1. \A a : /\ Said(a)["network"] = Said(a).network /\ Said(a)["country"] = Said(a).country /\ Said(a)["host"] = Said(a).host
    OBVIOUS
  <2> HIDE DEF source
  <2> QED
    BY <1>2, <1>3, <2>1 DEF Thing, Update
<1>5. ASSUME NEW set, NEW t \in Thing
      PROVE Applies(source, set, t) <=> \E a \in {first, second} : Said(a)[t] # None /\ IsListed(set, t, Said(a)[t]) /\ (a = second \/ Said(second)[t] = None)
  <2> HIDE DEF source
  <2>1. CASE Said(second)[t] # None
    BY Zenon, <1>4, <2>1 DEF Applies
  <2>2. CASE Said(second)[t] = None
    BY Zenon, <1>4, <2>2 DEF Applies
  <2> QED
    BY <2>1, <2>2
<1>6. source.confirmed <=> \E a \in {first, second} : Confirms(a) /\ (a = second \/ second.ptr = <<>>)
  <2>1. \A a \in {first, second} : Said(a).host # None <=> a.ptr # <<>>
    BY AnswersHaveNames DEF Said
  <2> HIDE DEF source
  <2>2. CASE second.ptr # <<>>
    BY Zenon, <1>1, <1>2, <1>3, <2>1, <2>2 DEF Confirms, Update
  <2>3. CASE second.ptr = <<>>
    BY Zenon, <1>1, <1>2, <1>3, <2>1, <2>3 DEF Confirms, Update
  <2> QED
    BY <2>2, <2>3
<1> HIDE DEF source
<1>7. ASSUME NEW set \in Settings
      PROVE match(source, set) # None <=>
               /\ set.enabled /\ source.passed <= set.maxPassed
               /\ \E t \in Thing : \E a \in {first, second} : Said(a)[t] # None /\ IsListed(set, t, Said(a)[t]) /\ (a = second \/ Said(second)[t] = None)
  <2>1. source.passed \in Nat
    BY <1>3, AnswersHaveNames
  <2> QED
    BY Zenon, <1>5, <2>1, MatchIs
<1>8. FollowsAnswers(source, first, second)
  BY Zenon, <1>6, <1>7 DEF FollowsAnswers, Thing, Confirms, Resolves
<1>9. QED
  BY <1>8 DEF source

(* An address gets the name and the listing its evidence deserves, for any files, names and answers of DNS. *)
THEOREM EvidenceWeighed == Spec => []EvidenceIsWeighed
<1>1. RightCatalog
  BY CatalogSaysWhatFilesSay, FilesReadable DEF RightCatalog
<1>2. EvidenceIsWeighed
  BY <1>1, CatalogsNameSenders, RulesFollowAnswers DEF EvidenceIsWeighed
<1>3. []EvidenceIsWeighed
  BY <1>2, PTL
<1> QED
  BY <1>3
=============================================================================
