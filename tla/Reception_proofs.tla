--------------------------- MODULE Reception_proofs ---------------------------
(* Proofs about Reception, for any mails, organisations, reports and sessions, and then about what becomes of the rows of a report:
   the verdict (DmarcEvaluator), for any public suffix list, what is stored at any moment (ReportStore), and that the numbers, the
   alerts and the advice agree about it (Agreement), for any reports. *)
EXTENDS Reception, DmarcEvaluator, Agreement, FiniteSetTheorems, SequenceTheorems, WellFoundedInduction, TLAPS

\* A session without a mail has nothing, and one without an open transaction has no work in hand.
SessionsTidy ==
    \A s \in Session :
        /\ mail[s] = NoMail => linked[s] = FALSE /\ chosen[s] = {} /\ rcpts[s] = {} /\ org[s] = NoOrg
        /\ org[s] = NoOrg => draft[s] = {} /\ left[s] = {} /\ inserting[s] = NoReport

\* A TLS report in the hands of a transaction is in nobody else's and not committed.
TlsApart ==
    \A s \in Session : org[s] # NoOrg =>
        \A r \in draft[s] \cap Tls :
            /\ copies[org[s]][r] = 0
            /\ \A t \in Session \ {s} : org[t] = org[s] => r \notin draft[t]

\* What is committed under the hands of a transaction is remembered.
RacesRemembered ==
    \A s \in Session : org[s] # NoOrg =>
        \A r \in draft[s] \cap Dmarc : copies[org[s]][r] > 0 => r \in fresh[s]

\* No report gets lost on the way through a transaction.
WorkKept ==
    \A s \in Session : org[s] # NoOrg =>
        \A j \in Contents[mail[s]] :
            j \in broken[s] \/ \A r \in j : r \in left[s] \/ r \in Bad \/ r \in draft[s] \/ copies[org[s]][r] > 0

\* What handle_DATA has behind it is stored.
RecipientsKept == \A s \in Session : \A o \in chosen[s] \ rcpts[s] : o # org[s] => StoredFor(mail[s], o)

Inv ==
    /\ TypeOK
    /\ SessionsTidy
    /\ TlsApart
    /\ TlsReportsOnce
    /\ RacesRemembered
    /\ WorkKept
    /\ RecipientsKept
    /\ AcceptedIsStored

-----------------------------------------------------------------------------
(* The first state satisfies the invariant. *)
LEMMA InitInv == Init => Inv
<1> SUFFICES ASSUME Init PROVE Inv
  OBVIOUS
<1> USE DEF Init
<1>1. TypeOK
  BY ConstantsAssumption DEF TypeOK, Unread
<1>2. SessionsTidy /\ TlsApart /\ RacesRemembered /\ WorkKept
  BY DEF SessionsTidy, TlsApart, RacesRemembered, WorkKept
<1>3. TlsReportsOnce
  BY ConstantsAssumption DEF TlsReportsOnce
<1>4. RecipientsKept /\ AcceptedIsStored
  BY DEF RecipientsKept, AcceptedIsStored
<1> QED
  BY <1>1, <1>2, <1>3, <1>4 DEF Inv

(* What is stored for a recipient depends on the database alone. *)
LEMMA StoredStays ==
    ASSUME UNCHANGED database, NEW m, NEW o, StoredFor(m, o)
    PROVE  StoredFor(m, o)'
BY DEF StoredFor, database

(* Steps that leave transactions and database alone keep what is said about them. *)
LEMMA SameTransactions ==
    ASSUME Inv, UNCHANGED <<transaction, database, mail>>
    PROVE  TlsApart' /\ TlsReportsOnce' /\ RacesRemembered' /\ WorkKept'
BY DEF Inv, transaction, database, TlsApart, TlsReportsOnce, RacesRemembered, WorkKept

LEMMA ToggleInv == ASSUME Inv, NEW o \in Org, domain_toggle(o) PROVE Inv'
<1> USE DEF Inv, domain_toggle, connection, transaction, database
<1>1. TypeOK'
  BY DEF TypeOK
<1>2. SessionsTidy'
  BY DEF SessionsTidy
<1>3. TlsApart' /\ TlsReportsOnce' /\ RacesRemembered' /\ WorkKept'
  BY SameTransactions
<1>4. RecipientsKept' /\ AcceptedIsStored'
  BY StoredStays DEF RecipientsKept, AcceptedIsStored
<1> QED
  BY <1>1, <1>2, <1>3, <1>4

LEMMA ConnectInv == ASSUME Inv, NEW s \in Session, NEW m \in Mail, handle_RCPT(s, m) PROVE Inv'
<1> USE DEF Inv, sender, connection, transaction, database
<1>1. PICK accepted \in SUBSET Org :
        /\ accepted \subseteq pending[m]
        /\ chosen' = [chosen EXCEPT ![s] = accepted]
        /\ rcpts' = [rcpts EXCEPT ![s] = accepted]
  BY DEF handle_RCPT, TypeOK
<1>2. /\ mail[s] = NoMail /\ mail' = [mail EXCEPT ![s] = m] /\ linked' = [linked EXCEPT ![s] = TRUE]
      /\ UNCHANGED <<sender, transaction, database, drift, faults>>
  BY DEF handle_RCPT
<1>3. m # NoMail
  BY ConstantsAssumption
<1>4. TypeOK'
  BY <1>1, <1>2 DEF TypeOK
<1>5. org[s] = NoOrg
  BY <1>2 DEF SessionsTidy
<1>6. SessionsTidy'
  BY <1>1, <1>2, <1>3 DEF SessionsTidy, TypeOK
<1>7. TlsApart' /\ TlsReportsOnce' /\ RacesRemembered'
  BY <1>2 DEF TlsApart, TlsReportsOnce, RacesRemembered
<1>8. WorkKept'
  BY <1>2, <1>5 DEF WorkKept, TypeOK
<1>9. RecipientsKept'
  BY <1>1, <1>2, StoredStays DEF RecipientsKept, TypeOK
<1>10. AcceptedIsStored'
  BY <1>2, StoredStays DEF AcceptedIsStored
<1> QED
  BY <1>4, <1>6, <1>7, <1>8, <1>9, <1>10

LEMMA RejectInv == ASSUME Inv, NEW m \in Mail, NEW o \in Org, Reject(m, o) PROVE Inv'
<1> USE DEF Inv, Reject, connection, transaction, database
<1>1. TypeOK'
  BY DEF TypeOK
<1>2. SessionsTidy'
  BY DEF SessionsTidy
<1>3. TlsApart' /\ TlsReportsOnce' /\ RacesRemembered' /\ WorkKept'
  BY SameTransactions
<1>4. RecipientsKept' /\ AcceptedIsStored'
  BY StoredStays DEF RecipientsKept, AcceptedIsStored
<1> QED
  BY <1>1, <1>2, <1>3, <1>4

LEMMA LoseInv == ASSUME Inv, NEW s \in Session, LoseConnection(s) PROVE Inv'
<1> USE DEF Inv, LoseConnection, sender, transaction, database
<1>1. TypeOK'
  BY DEF TypeOK
<1>2. SessionsTidy'
  BY DEF SessionsTidy, TypeOK
<1>3. TlsApart' /\ TlsReportsOnce' /\ RacesRemembered' /\ WorkKept'
  BY SameTransactions
<1>4. RecipientsKept' /\ AcceptedIsStored'
  BY StoredStays DEF RecipientsKept, AcceptedIsStored
<1> QED
  BY <1>1, <1>2, <1>3, <1>4

LEMMA BeginInv == ASSUME Inv, NEW s \in Session, _persist_and_process(s) PROVE Inv'
<1> USE DEF Inv, sender, transaction, database
<1>1. PICK o \in rcpts[s] : /\ org' = [org EXCEPT ![s] = o] /\ rcpts' = [rcpts EXCEPT ![s] = @ \ {o}]
  BY DEF _persist_and_process
<1>2. /\ mail[s] # NoMail /\ org[s] = NoOrg
      /\ left' = [left EXCEPT ![s] = UNION Contents[mail[s]]]
      /\ UNCHANGED <<sender, mail, linked, chosen, inserting, draft, broken, base, fresh, stale, database, drift,
                     faults>>
  BY DEF _persist_and_process
<1>3. mail[s] \in Mail /\ o \in Org /\ o # NoOrg
  BY <1>2, ConstantsAssumption DEF TypeOK
<1>4. UNION Contents[mail[s]] \subseteq Report
  BY <1>3, ConstantsAssumption
<1>5. draft[s] = {}
  BY <1>2 DEF SessionsTidy
<1>6. TypeOK'
  BY <1>1, <1>2, <1>3, <1>4 DEF TypeOK
<1>7. SessionsTidy'
  BY <1>1, <1>2, <1>3 DEF SessionsTidy, TypeOK
<1>8. TlsApart' /\ TlsReportsOnce' /\ RacesRemembered'
  BY <1>1, <1>2, <1>5 DEF TlsApart, TlsReportsOnce, RacesRemembered, TypeOK
<1>9. WorkKept'
  BY <1>1, <1>2 DEF WorkKept, TypeOK
<1>10. RecipientsKept'
  <2> SUFFICES ASSUME NEW t \in Session, NEW p \in (chosen[t] \ rcpts[t])', p # org'[t]
               PROVE  StoredFor(mail[t], p)'
    BY <1>2 DEF RecipientsKept
  <2>1. StoredFor(mail[t], p)
    <3>1. CASE t = s
      <4>1. p \in chosen[s] /\ p \in Org
        BY <1>2, <3>1 DEF TypeOK
      <4>2. rcpts'[s] = rcpts[s] \ {o} /\ org'[s] = o
        BY <1>1 DEF TypeOK
      <4>3. p \notin rcpts[s] /\ p # org[s]
        BY <1>2, <3>1, <4>1, <4>2, ConstantsAssumption
      <4> QED
        BY <3>1, <4>1, <4>3 DEF RecipientsKept
    <3>2. CASE t # s
      BY <1>1, <1>2, <3>2 DEF RecipientsKept, TypeOK
    <3> QED
      BY <3>1, <3>2
  <2> QED
    BY <1>2, <2>1 DEF StoredFor
<1>11. AcceptedIsStored'
  BY <1>2, StoredStays DEF AcceptedIsStored
<1> QED
  BY <1>6, <1>7, <1>8, <1>9, <1>10, <1>11

LEMMA AnswerInv == ASSUME Inv, NEW s \in Session, Answer(s) PROVE Inv'
<1> USE DEF Inv, Answer, Disconnect, transaction, database
<1>1. TypeOK'
  BY DEF TypeOK
<1>2. SessionsTidy'
  BY DEF SessionsTidy, TypeOK
<1>3. TlsApart' /\ TlsReportsOnce' /\ RacesRemembered'
  BY DEF TlsApart, TlsReportsOnce, RacesRemembered
<1>4. WorkKept'
  BY DEF WorkKept, TypeOK
<1>5. RecipientsKept'
  BY StoredStays DEF RecipientsKept, TypeOK
<1>6. AcceptedIsStored'
  <2>1. ASSUME linked[s] PROVE \A o \in chosen[s] : StoredFor(mail[s], o)
    <3>1. chosen[s] \subseteq Org /\ NoOrg \notin Org
      BY ConstantsAssumption DEF TypeOK
    <3>2. rcpts[s] = {} /\ org[s] = NoOrg
      BY <2>1
    <3> QED
      BY <3>1, <3>2 DEF RecipientsKept
  <2>2. ASSUME NEW m \in Mail, NEW o \in acked'[m] PROVE StoredFor(m, o)
    <3>1. CASE o \in acked[m]
      BY <3>1 DEF AcceptedIsStored
    <3>2. CASE o \notin acked[m]
      BY <2>1, <2>2, <3>2 DEF TypeOK
    <3> QED
      BY <3>1, <3>2
  <2> QED
    BY <2>2, StoredStays DEF AcceptedIsStored
<1> QED
  BY <1>1, <1>2, <1>3, <1>4, <1>5, <1>6

(* A transaction that is rolled back takes nothing along. *)
LEMMA RollbackInv == ASSUME Inv, NEW s \in Session, Rollback(s) PROVE Inv'
<1> USE DEF Inv, Rollback, Disconnect, EndTransaction, sender, database
<1>1. TypeOK'
  BY DEF TypeOK
<1>2. SessionsTidy'
  BY DEF SessionsTidy, TypeOK
<1>3. TlsApart' /\ TlsReportsOnce' /\ RacesRemembered'
  BY DEF TlsApart, TlsReportsOnce, RacesRemembered, TypeOK
<1>4. WorkKept'
  BY DEF WorkKept, TypeOK
<1>5. RecipientsKept'
  BY StoredStays DEF RecipientsKept, TypeOK
<1>6. AcceptedIsStored'
  BY StoredStays DEF AcceptedIsStored
<1> QED
  BY <1>1, <1>2, <1>3, <1>4, <1>5, <1>6

(* Work on a mail that is not yet committed changes nothing for what is stored. *)
LEMMA SameStore ==
    ASSUME Inv, UNCHANGED <<sender, connection, org, database>>
    PROVE  TlsReportsOnce' /\ RecipientsKept' /\ AcceptedIsStored'
BY StoredStays DEF Inv, sender, connection, database, TlsReportsOnce, RecipientsKept, AcceptedIsStored

LEMMA BreakInv == ASSUME Inv, NEW s \in Session, ImportBreaks(s) PROVE Inv'
<1> USE DEF Inv, sender, connection, database
<1>1. PICK j \in Contents[mail[s]] :
        /\ left' = [left EXCEPT ![s] = @ \ j]
        /\ broken' = [broken EXCEPT ![s] = @ \cup {j}]
  BY DEF ImportBreaks
<1>2. /\ left[s] # {} /\ faults' = faults + 1
      /\ UNCHANGED <<sender, connection, org, inserting, draft, base, fresh, stale, database, drift>>
  BY DEF ImportBreaks
<1>3. org[s] # NoOrg /\ mail[s] \in Mail
  BY <1>2 DEF SessionsTidy, TypeOK
<1>4. j \in SUBSET Report
  BY <1>3, ConstantsAssumption
<1>5. TypeOK'
  BY <1>1, <1>2, <1>4 DEF TypeOK
<1>6. SessionsTidy'
  BY <1>1, <1>2, <1>3 DEF SessionsTidy, TypeOK
<1>7. TlsApart' /\ RacesRemembered'
  BY <1>2 DEF TlsApart, RacesRemembered
<1>8. WorkKept'
  <2> SUFFICES ASSUME NEW t \in Session, org[t] # NoOrg, NEW k \in Contents[mail[t]], k \notin broken'[t]
               PROVE  \A r \in k : r \in left'[t] \/ r \in Bad \/ r \in draft[t] \/ copies[org[t]][r] > 0
    BY <1>2 DEF WorkKept
  <2>1. CASE t # s
    BY <1>1, <2>1 DEF WorkKept, TypeOK
  <2>2. CASE t = s
    <3>1. k # j /\ k \notin broken[s]
      BY <1>1, <2>2 DEF TypeOK
    <3>2. k \cap j = {}
      BY <1>3, <2>2, <3>1, ConstantsAssumption
    <3>3. left'[s] = left[s] \ j
      BY <1>1 DEF TypeOK
    <3> QED
      BY <2>2, <3>1, <3>2, <3>3 DEF WorkKept
  <2> QED
    BY <2>1, <2>2
<1> QED
  BY <1>2, <1>5, <1>6, <1>7, <1>8, SameStore

LEMMA SkipInv == ASSUME Inv, NEW s \in Session, Skip(s) PROVE Inv'
<1> USE DEF Inv, sender, connection, database
<1>1. PICK r \in left[s] : (r \in Bad \/ Known(s, r)) /\ left' = [left EXCEPT ![s] = @ \ {r}]
  BY DEF Skip
<1>2. UNCHANGED <<sender, connection, org, inserting, draft, broken, base, fresh, stale, database, drift, faults>>
  BY DEF Skip
<1>3. org[s] # NoOrg
  BY <1>1 DEF SessionsTidy
<1>4. TypeOK'
  BY <1>1, <1>2 DEF TypeOK
<1>5. SessionsTidy'
  BY <1>1, <1>2, <1>3 DEF SessionsTidy, TypeOK
<1>6. TlsApart' /\ RacesRemembered'
  BY <1>2 DEF TlsApart, RacesRemembered
<1>7. WorkKept'
  BY <1>1, <1>2 DEF WorkKept, Known, TypeOK
<1> QED
  BY <1>2, <1>4, <1>5, <1>6, <1>7, SameStore

(* A report that goes from what is left to what is stored keeps all that is said about the work. *)
LEMMA StoredWork ==
    ASSUME Inv, NEW s \in Session, NEW r \in left[s], Stored(s, r),
           UNCHANGED <<sender, connection, org, broken, fresh, database>>,
           inserting' \in [Session -> Tls \cup {NoReport}],
           \A t \in Session : inserting'[t] \in {inserting[t], NoReport}
    PROVE  SessionsTidy' /\ WorkKept'
<1> USE DEF Inv, Stored, sender, connection, database
<1>1. org[s] # NoOrg
  BY DEF SessionsTidy
<1>2. SessionsTidy'
  BY <1>1 DEF SessionsTidy, TypeOK
<1>3. WorkKept'
  BY DEF WorkKept, TypeOK
<1> QED
  BY <1>2, <1>3

LEMMA StoreFailureInv == ASSUME Inv, NEW s \in Session, store_failure_report(s) PROVE Inv'
<1> USE DEF Inv, sender, connection, database
<1>1. PICK r \in left[s] \cap Failure : Stored(s, r)
  BY DEF store_failure_report
<1>2. UNCHANGED <<sender, connection, org, inserting, broken, base, fresh, stale, database, drift, faults>>
  BY DEF store_failure_report
<1>3. r \in Report /\ r \notin Tls /\ r \notin Dmarc
  BY <1>1 DEF Failure
<1>4. TypeOK'
  BY <1>1, <1>2, <1>3 DEF TypeOK, Stored
<1>5. SessionsTidy' /\ WorkKept'
  BY <1>1, <1>2, StoredWork DEF TypeOK
<1>6. TlsApart'
  BY <1>1, <1>2, <1>3 DEF TlsApart, Stored, TypeOK
<1>7. RacesRemembered'
  BY <1>1, <1>2, <1>3 DEF RacesRemembered, Stored, TypeOK
<1> QED
  BY <1>2, <1>4, <1>5, <1>6, <1>7, SameStore

LEMMA LookForTlsInv == ASSUME Inv, NEW s \in Session, store_tls_report(s) PROVE Inv'
<1> USE DEF Inv, sender, connection, database
<1>1. PICK r \in left[s] \cap Tls : inserting' = [inserting EXCEPT ![s] = r]
  BY DEF store_tls_report
<1>2. UNCHANGED <<sender, connection, org, left, draft, broken, base, fresh, stale, database, drift, faults>>
  BY DEF store_tls_report
<1>3. org[s] # NoOrg
  BY <1>1 DEF SessionsTidy
<1>4. TypeOK'
  BY <1>1, <1>2 DEF TypeOK
<1>5. SessionsTidy'
  BY <1>1, <1>2, <1>3 DEF SessionsTidy, TypeOK
<1>6. TlsApart' /\ RacesRemembered' /\ WorkKept'
  BY <1>2 DEF TlsApart, RacesRemembered, WorkKept
<1> QED
  BY <1>2, <1>4, <1>5, <1>6, SameStore

LEMMA InsertTlsInv == ASSUME Inv, NEW s \in Session, InsertTls(s) PROVE Inv'
<1> USE DEF Inv, sender, connection, database
<1> DEFINE r == inserting[s]
<1>1. /\ r # NoReport
      /\ copies[org[s]][r] = 0
      /\ \A t \in Session : ~Holds(t, s)
      /\ Stored(s, r)
      /\ inserting' = [inserting EXCEPT ![s] = NoReport]
      /\ UNCHANGED <<sender, connection, org, broken, base, fresh, stale, database, drift, faults>>
  BY DEF InsertTls
<1>2. r \in Tls /\ r \in Report /\ r \notin Dmarc
  BY <1>1, ConstantsAssumption DEF TypeOK
<1>3. org[s] # NoOrg
  BY <1>1 DEF SessionsTidy
<1>4. TypeOK'
  BY <1>1, <1>2 DEF TypeOK, Stored
<1>5. SessionsTidy'
  BY <1>1, <1>3 DEF SessionsTidy, Stored, TypeOK
<1>6. WorkKept'
  BY <1>1 DEF WorkKept, Stored, TypeOK
<1>7. TlsApart'
  BY <1>1, <1>2, <1>3 DEF TlsApart, Stored, Holds, TypeOK
<1>8. RacesRemembered'
  BY <1>1, <1>2 DEF RacesRemembered, Stored, TypeOK
<1> QED
  BY <1>1, <1>4, <1>5, <1>6, <1>7, <1>8, SameStore

LEMMA StoreReportInv == ASSUME Inv, NEW s \in Session, store_parsed_report(s) PROVE Inv'
<1> USE DEF Inv, sender, connection, database
<1>1. PICK r \in left[s] \cap Dmarc : r \notin Bad /\ ~Known(s, r) /\ Stored(s, r)
  BY DEF store_parsed_report
<1>2. UNCHANGED <<sender, connection, org, inserting, broken, fresh, stale, database, drift, faults>>
  BY DEF store_parsed_report
<1>3. r \in Report /\ r \notin Tls
  BY <1>1, ConstantsAssumption
<1>4. org[s] # NoOrg /\ org[s] \in Org
  BY <1>1 DEF SessionsTidy, TypeOK
<1>5. base' \in [Session -> {Unread} \cup (Nat \X Nat)]
  <2> DEFINE rows == totals[org[s]]
  <2>1. rows \in Seq(Nat)
    BY <1>4 DEF TypeOK
  <2>2. \A k \in DOMAIN rows : <<k, rows[k]>> \in Nat \X Nat
    BY <2>1
  <2>3. CASE UNCHANGED base
    BY <2>3 DEF TypeOK
  <2>4. CASE base' = [base EXCEPT ![s] = <<0, 0>>]
    BY <2>4 DEF TypeOK
  <2>5. CASE \E k \in DOMAIN rows : base' = [base EXCEPT ![s] = <<k, rows[k]>>]
    BY <2>2, <2>5 DEF TypeOK
  <2> QED
    BY <2>3, <2>4, <2>5 DEF store_parsed_report
<1>6. TypeOK'
  BY <1>1, <1>2, <1>3, <1>5 DEF TypeOK, Stored
<1>7. SessionsTidy' /\ WorkKept'
  BY <1>1, <1>2, StoredWork DEF TypeOK
<1>8. TlsApart'
  BY <1>1, <1>2, <1>3 DEF TlsApart, Stored, TypeOK
<1>9. RacesRemembered'
  <2>1. ~(copies[org[s]][r] > 0)
    BY <1>1, <1>3 DEF Known, Failure
  <2> QED
    BY <1>1, <1>2, <2>1 DEF RacesRemembered, Stored, TypeOK
<1> QED
  BY <1>2, <1>6, <1>7, <1>8, <1>9, SameStore

(* A total written to a row, whether the row is there or not, leaves a list of totals. *)
LEMMA WriteTotal ==
    ASSUME NEW rows \in Seq(Nat), NEW k, NEW e \in Nat
    PROVE  [rows EXCEPT ![k] = e] \in Seq(Nat)
<1>1. CASE k \in 1 .. Len(rows)
  BY <1>1, ExceptSeq
<1>2. CASE k \notin 1 .. Len(rows)
  <2>1. /\ DOMAIN rows = 1 .. Len(rows)
        /\ rows = [i \in 1 .. Len(rows) |-> rows[i]]
    OBVIOUS
  <2>2. [rows EXCEPT ![k] = e] = [i \in 1 .. Len(rows) |-> rows[i]]
    BY <1>2, <2>1
  <2> QED
    BY <2>1, <2>2
<1> QED
  BY <1>1, <1>2

(* What a commit writes to source_ips are totals again. *)
LEMMA NewTotalsType == ASSUME TypeOK, NEW s \in Session, org[s] \in Org PROVE NewTotals(s) \in Seq(Nat)
<1> DEFINE rows == totals[org[s]]
           n == Cardinality(draft[s] \cap Dmarc)
<1>1. rows \in Seq(Nat)
  BY DEF TypeOK
<1>2. n \in Nat
  <2>1. draft[s] \cap Dmarc \subseteq Report
    BY DEF TypeOK
  <2> QED
    BY <2>1, ConstantsAssumption, FS_Subset, FS_CardinalityType
<1>3. CASE base[s] = Unread
  BY <1>1, <1>3 DEF NewTotals
<1>4. CASE base[s] # Unread
  <2>1. base[s] \in Nat \X Nat
    BY <1>4 DEF TypeOK
  <2>2. base[s][1] \in Nat /\ base[s][2] + n \in Nat
    BY <1>2, <2>1
  <2> HIDE DEF rows, n
  <2>3. Append(rows, n) \in Seq(Nat)
    BY <1>1, <1>2
  <2>4. [rows EXCEPT ![base[s][1]] = base[s][2] + n] \in Seq(Nat)
    BY <1>1, <2>2, WriteTotal
  <2> QED
    BY <1>4, <2>3, <2>4 DEF NewTotals, rows, n
<1> QED
  BY <1>3, <1>4

LEMMA CommitInv == ASSUME Inv, NEW s \in Session, Commit(s) PROVE Inv'
<1> USE DEF Inv, sender, connection
<1> DEFINE o == org[s]
           m == mail[s]
           others == {t \in Session : t # s /\ org[t] = o}
<1>1. /\ o # NoOrg
      /\ left[s] = {}
      /\ copies' = [copies EXCEPT ![o] = [r \in Report |-> IF r \in draft[s] THEN @[r] + 1 ELSE @[r]]]
      /\ kept' = IF m \in Upload THEN kept ELSE [kept EXCEPT ![m][o] = @ + 1]
      /\ failed' = failed \cup {<<m, o, j>> : j \in FailedJobs(s)}
      /\ totals' = [totals EXCEPT ![o] = NewTotals(s)]
      /\ drift' = IF stale[s] THEN drift \cup {o} ELSE drift
      /\ fresh' = [t \in Session |-> IF t = s THEN {}
                                     ELSE IF t \in others THEN fresh[t] \cup (draft[s] \cap draft[t])
                                     ELSE fresh[t]]
      /\ stale' = [t \in Session |-> IF t = s THEN FALSE
                                     ELSE stale[t] \/ (t \in others /\ base[t] # Unread /\ base[s] # Unread)]
      /\ EndTransaction(s)
      /\ UNCHANGED <<sender, connection, faults>>
  BY DEF Commit
<1>2. o \in Org /\ m \in Mail
  BY <1>1 DEF SessionsTidy, TypeOK
<1>3. /\ org' = [org EXCEPT ![s] = NoOrg]
      /\ left' = [left EXCEPT ![s] = {}]
      /\ inserting' = [inserting EXCEPT ![s] = NoReport]
      /\ draft' = [draft EXCEPT ![s] = {}]
      /\ broken' = [broken EXCEPT ![s] = {}]
      /\ base' = [base EXCEPT ![s] = Unread]
  BY <1>1 DEF EndTransaction
<1>4. \A p \in Org, r \in Report :
        copies'[p][r] = IF p = o /\ r \in draft[s] THEN copies[p][r] + 1 ELSE copies[p][r]
  BY <1>1, <1>2 DEF TypeOK
<1>5. \A p \in Org, r \in Report : copies[p][r] > 0 \/ (p = o /\ r \in draft[s]) => copies'[p][r] > 0
  <2>1. copies \in [Org -> [Report -> Nat]]
    BY DEF TypeOK
  <2> SUFFICES ASSUME NEW p \in Org, NEW r \in Report, copies[p][r] > 0 \/ (p = o /\ r \in draft[s])
               PROVE  copies'[p][r] > 0
    OBVIOUS
  <2>2. copies[p][r] \in Nat
    BY <2>1
  <2> QED
    BY <1>4, <2>2
<1> HIDE DEF Inv
<1>6. TypeOK /\ SessionsTidy /\ TlsApart /\ TlsReportsOnce /\ RacesRemembered /\ WorkKept /\ RecipientsKept
      /\ AcceptedIsStored
  BY DEF Inv
<1>7. TypeOK'
  <2>1. totals' \in [Org -> Seq(Nat)]
    BY <1>1, <1>2, <1>6, NewTotalsType DEF TypeOK
  <2>2. FailedJobs(s) \subseteq SUBSET Report
    BY <1>2, <1>6, ConstantsAssumption DEF FailedJobs, TypeOK
  <2>3. failed' \subseteq Mail \X Org \X SUBSET Report
    BY <1>1, <1>2, <1>6, <2>2 DEF TypeOK
  <2>4. copies' \in [Org -> [Report -> Nat]]
    BY <1>1, <1>2, <1>6 DEF TypeOK
  <2>5. kept' \in [Mail -> [Org -> Nat]]
    BY <1>1, <1>2, <1>6 DEF TypeOK
  <2>6. fresh' \in [Session -> SUBSET Report]
    BY <1>1, <1>6 DEF TypeOK
  <2>7. stale' \in [Session -> BOOLEAN]
    BY <1>1, <1>6 DEF TypeOK
  <2>8. drift' \subseteq Org
    BY <1>1, <1>2, <1>6 DEF TypeOK
  <2>9. /\ org' \in [Session -> Org \cup {NoOrg}]
        /\ left' \in [Session -> SUBSET Report]
        /\ inserting' \in [Session -> Tls \cup {NoReport}]
        /\ draft' \in [Session -> SUBSET Report]
        /\ broken' \in [Session -> SUBSET SUBSET Report]
        /\ base' \in [Session -> {Unread} \cup (Nat \X Nat)]
    BY <1>3, <1>6 DEF TypeOK
  <2>10. UNCHANGED <<pending, acked, active, mail, linked, chosen, rcpts, faults>>
    BY <1>1
  <2> QED
    BY <1>6, <2>1, <2>3, <2>4, <2>5, <2>6, <2>7, <2>8, <2>9, <2>10 DEF TypeOK
<1>8. SessionsTidy'
  BY <1>1, <1>3, <1>6 DEF SessionsTidy, TypeOK
<1>9. TlsReportsOnce'
  <2> SUFFICES ASSUME NEW p \in Org, NEW r \in Tls PROVE copies'[p][r] <= 1
    BY DEF TlsReportsOnce
  <2>1. r \in Report
    BY ConstantsAssumption
  <2>2. CASE p = o /\ r \in draft[s]
    BY <1>1, <1>4, <1>6, <2>1, <2>2 DEF TlsApart
  <2>3. CASE ~(p = o /\ r \in draft[s])
    BY <1>4, <1>6, <2>1, <2>3 DEF TlsReportsOnce
  <2> QED
    BY <2>2, <2>3
<1>10. TlsApart'
  <2> SUFFICES ASSUME NEW t \in Session, org'[t] # NoOrg, NEW r \in draft'[t] \cap Tls
               PROVE  /\ copies'[org'[t]][r] = 0
                      /\ \A u \in Session \ {t} : org'[u] = org'[t] => r \notin draft'[u]
    BY DEF TlsApart
  <2>1. t # s /\ org'[t] = org[t] /\ org[t] \in Org /\ draft'[t] = draft[t]
    BY <1>3, <1>6 DEF TypeOK
  <2>2. r \in draft[t] \cap Tls /\ r \in Report
    BY <2>1, ConstantsAssumption
  <2>3. copies[org[t]][r] = 0 /\ \A u \in Session \ {t} : org[u] = org[t] => r \notin draft[u]
    BY <1>6, <2>1, <2>2 DEF TlsApart
  <2>4. copies'[org[t]][r] = 0
    BY <1>4, <2>1, <2>2, <2>3
  <2>5. \A u \in Session \ {t} : org'[u] = org'[t] => r \notin draft'[u]
    BY <1>3, <1>6, <2>1, <2>3 DEF TypeOK
  <2> QED
    BY <2>1, <2>4, <2>5
<1>11. RacesRemembered'
  <2> SUFFICES ASSUME NEW t \in Session, org'[t] # NoOrg, NEW r \in draft'[t] \cap Dmarc, copies'[org'[t]][r] > 0
               PROVE  r \in fresh'[t]
    BY DEF RacesRemembered
  <2>1. t # s /\ org'[t] = org[t] /\ org[t] \in Org /\ draft'[t] = draft[t]
    BY <1>3, <1>6 DEF TypeOK
  <2>2. r \in draft[t] \cap Dmarc /\ r \in Report
    BY <2>1, ConstantsAssumption
  <2>3. CASE copies[org[t]][r] > 0
    BY <1>1, <1>6, <2>1, <2>2, <2>3 DEF RacesRemembered
  <2>4. CASE ~(copies[org[t]][r] > 0)
    <3>1. org[t] = o /\ r \in draft[s]
      BY <1>4, <2>1, <2>2, <2>4
    <3> QED
      BY <1>1, <2>1, <2>2, <3>1
  <2> QED
    BY <2>3, <2>4
<1>12. WorkKept'
  <2> SUFFICES ASSUME NEW t \in Session, org'[t] # NoOrg, NEW j \in Contents[mail[t]], j \notin broken'[t], NEW r \in j
               PROVE  r \in left'[t] \/ r \in Bad \/ r \in draft'[t] \/ copies'[org'[t]][r] > 0
    BY <1>1 DEF WorkKept
  <2>1. /\ t # s /\ org'[t] = org[t] /\ org[t] \in Org
        /\ draft'[t] = draft[t] /\ left'[t] = left[t] /\ broken'[t] = broken[t]
    BY <1>3, <1>6 DEF TypeOK
  <2>2. mail[t] \in Mail
    BY <1>6, <2>1, ConstantsAssumption DEF SessionsTidy, TypeOK
  <2>3. r \in Report
    BY <2>2, ConstantsAssumption
  <2>4. r \in left[t] \/ r \in Bad \/ r \in draft[t] \/ copies[org[t]][r] > 0
    BY <1>6, <2>1, ConstantsAssumption DEF WorkKept
  <2>5. copies[org[t]][r] > 0 => copies'[org[t]][r] > 0
    BY <1>5, <2>1, <2>3
  <2> QED
    BY <2>1, <2>4, <2>5
<1>13. ASSUME NEW n \in Mail, NEW p \in Org, StoredFor(n, p) PROVE StoredFor(n, p)'
  <2>1. n \notin Upload => kept'[n][p] > 0
    BY <1>1, <1>2, <1>6, <1>13 DEF StoredFor, TypeOK
  <2>2. ASSUME NEW j \in Contents[n] PROVE <<n, p, j>> \in failed' \/ \A r \in j \ Bad : copies'[p][r] > 0
    <3>1. j \subseteq Report
      BY ConstantsAssumption
    <3> QED
      BY <1>1, <1>5, <1>13, <3>1 DEF StoredFor
  <2> QED
    BY <2>1, <2>2 DEF StoredFor
<1>14. ASSUME NEW n, NEW p, n = m, p = o PROVE StoredFor(n, p)'
  <2>1. n \notin Upload => kept'[n][p] > 0
    <3>1. kept[m][o] \in Nat
      BY <1>2, <1>6 DEF TypeOK
    <3> QED
      BY <1>1, <1>2, <1>6, <1>14, <3>1 DEF TypeOK
  <2>2. ASSUME NEW j \in Contents[n] PROVE <<n, p, j>> \in failed' \/ \A r \in j \ Bad : copies'[p][r] > 0
    <3>1. CASE j \in broken[s]
      BY <1>1, <1>14, <3>1 DEF FailedJobs
    <3>2. CASE j \notin broken[s]
      <4> SUFFICES ASSUME NEW r \in j \ Bad PROVE copies'[p][r] > 0
        OBVIOUS
      <4>1. r \in Report
        BY <1>2, <1>14, ConstantsAssumption
      <4>2. r \in draft[s] \/ copies[o][r] > 0
        BY <1>1, <1>6, <1>14, <3>2 DEF WorkKept
      <4> QED
        BY <1>2, <1>5, <1>14, <4>1, <4>2
    <3> QED
      BY <3>1, <3>2
  <2> QED
    BY <2>1, <2>2 DEF StoredFor
<1>15. RecipientsKept'
  <2> SUFFICES ASSUME NEW t \in Session, NEW p \in chosen[t] \ rcpts[t], p # org'[t], NEW n, n = mail[t]
               PROVE  StoredFor(n, p)'
    BY <1>1 DEF RecipientsKept, StoredFor
  <2>1. p \in Org /\ n \in Mail
    BY <1>6 DEF SessionsTidy, TypeOK
  <2>2. CASE t = s /\ p = o
    BY <1>14, <2>2
  <2>3. CASE ~(t = s /\ p = o)
    <3>1. p # org[t]
      BY <1>3, <1>6, <2>3 DEF TypeOK
    <3>2. StoredFor(n, p)
      BY <1>6, <3>1 DEF RecipientsKept
    <3> QED
      BY <1>13, <2>1, <3>2
  <2> QED
    BY <2>2, <2>3
<1>16. AcceptedIsStored'
  BY <1>1, <1>6, <1>13 DEF AcceptedIsStored, TypeOK
<1> QED
  BY <1>7, <1>8, <1>9, <1>10, <1>11, <1>12, <1>15, <1>16 DEF Inv

-----------------------------------------------------------------------------
(* Every step keeps the invariant, and so does a stutter. *)
LEMMA NextInv == Inv /\ [Next]_vars => Inv'
<1> SUFFICES ASSUME Inv, [Next]_vars PROVE Inv'
  OBVIOUS
<1>1. CASE UNCHANGED vars
  <2> USE <1>1 DEF vars, sender, connection, transaction, database, Inv
  <2>1. TypeOK' /\ SessionsTidy'
    BY DEF TypeOK, SessionsTidy
  <2>2. TlsApart' /\ TlsReportsOnce' /\ RacesRemembered' /\ WorkKept'
    BY SameTransactions
  <2>3. RecipientsKept' /\ AcceptedIsStored'
    BY SameStore
  <2> QED
    BY <2>1, <2>2, <2>3
<1>2. CASE \E o \in Org : domain_toggle(o)
  BY <1>2, ToggleInv
<1>3. CASE \E m \in Mail, o \in Org : Reject(m, o)
  BY <1>3, RejectInv
<1>4. CASE \E s \in Session, m \in Mail : handle_RCPT(s, m)
  BY <1>4, ConnectInv
<1>5. ASSUME NEW s \in Session, Step(s) PROVE Inv'
  <2>1. CASE _persist_and_process(s)
    BY <2>1, BeginInv
  <2>2. CASE Answer(s)
    BY <2>2, AnswerInv
  <2>3. CASE Skip(s)
    BY <2>3, SkipInv
  <2>4. CASE store_parsed_report(s)
    BY <2>4, StoreReportInv
  <2>5. CASE store_failure_report(s)
    BY <2>5, StoreFailureInv
  <2>6. CASE store_tls_report(s)
    BY <2>6, LookForTlsInv
  <2>7. CASE InsertTls(s)
    BY <2>7, InsertTlsInv
  <2>8. CASE Conflict(s)
    BY <2>8, RollbackInv DEF Conflict
  <2>9. CASE Commit(s)
    BY <2>9, CommitInv
  <2> QED
    BY <1>5, <2>1, <2>2, <2>3, <2>4, <2>5, <2>6, <2>7, <2>8, <2>9 DEF Step
<1>6. ASSUME NEW s \in Session, LoseConnection(s) PROVE Inv'
  BY <1>6, LoseInv
<1>7. ASSUME NEW s \in Session, Abort(s) PROVE Inv'
  BY <1>7, RollbackInv DEF Abort
<1>8. ASSUME NEW s \in Session, ImportBreaks(s) PROVE Inv'
  BY <1>8, BreakInv
<1> QED
  BY <1>1, <1>2, <1>3, <1>4, <1>5, <1>6, <1>7, <1>8 DEF Next

(* In every behaviour the sessions, their transactions and what is committed fit together: the inductive invariant *)
(* the other theorems follow from. *)
THEOREM InductiveInvariant == Spec => []Inv
<1>1. Init => Inv
  BY InitInv
<1>2. Inv /\ [Next]_vars => Inv'
  BY NextInv
<1> QED
  BY <1>1, <1>2, PTL DEF Spec

(* Every variable keeps its type. *)
THEOREM TypeCorrect == Spec => []TypeOK
<1>1. Inv => TypeOK
  BY DEF Inv
<1> QED
  BY <1>1, InductiveInvariant, PTL

(* A recipient whose 250 the sender has read has the mail and its reports in the database, whatever broke and *)
(* whoever raced (handle_DATA answers after the last commit). *)
THEOREM AcceptedMailsAreStored == Spec => []AcceptedIsStored
<1>1. Inv => AcceptedIsStored
  BY DEF Inv
<1> QED
  BY <1>1, InductiveInvariant, PTL

(* A TLS report is in the database at most once per organisation (store_tls_report and its unique constraint). *)
THEOREM TlsStoredOnce == Spec => []TlsReportsOnce
<1>1. Inv => TlsReportsOnce
  BY DEF Inv
<1> QED
  BY <1>1, InductiveInvariant, PTL

(* A second copy of an aggregate report always comes from a transaction that looked before the first was committed *)
(* (check_duplicate and no unique constraint). *)
THEOREM DuplicatesComeFromRaces == Spec => DuplicatesAreRaces
<1> DEFINE Race == \A s \in Session : \A r \in draft[s] \cap Dmarc :
                     org[s] # NoOrg /\ copies[org[s]][r] > 0 /\ copies'[org[s]][r] > copies[org[s]][r]
                        => r \in fresh[s]
<1>1. Inv => Race
  BY DEF Inv, RacesRemembered
<1>2. Inv => [Race]_vars
  BY <1>1
<1> QED
  BY <1>2, InductiveInvariant, PTL DEF DuplicatesAreRaces

-----------------------------------------------------------------------------
(* A mail comes once. *)

\* Sessions that store the mail for the recipient, or will unless their connection breaks
Working(m, o) == {s \in Session : mail[s] = m /\ (org[s] = o \/ (linked[s] /\ o \in rcpts[s]))}

\* A sender that has the mail for the recipient and has it in no connection comes with it once more
Due(m, o) == o \in pending[m] /\ ~ \E s \in Session : mail[s] = m /\ linked[s] /\ o \in chosen[s]

\* What is stored and what will be is paid for by the first delivery and by faults.
DeliveriesCounted ==
    \A m \in Mail, o \in Org :
        kept[m][o] + Cardinality(Working(m, o)) + (IF Due(m, o) THEN 1 ELSE 0) <= 1 + faults

\* The recipient at work is not among those to come.
RecipientsOnce == \A s \in Session : org[s] \notin rcpts[s]

DeliveryInv == Inv /\ DeliveriesCounted /\ RecipientsOnce

LEMMA WorkingFinite ==
    ASSUME NEW m, NEW o
    PROVE  IsFiniteSet(Working(m, o)) /\ Cardinality(Working(m, o)) \in Nat
<1>1. Working(m, o) \in SUBSET Session
  BY DEF Working
<1> QED
  BY <1>1, ConstantsAssumption, FS_Subset, FS_CardinalityType

LEMMA InitDeliveries == Init => DeliveriesCounted /\ RecipientsOnce
<1> SUFFICES ASSUME Init PROVE DeliveriesCounted /\ RecipientsOnce
  OBVIOUS
<1>1. RecipientsOnce
  BY DEF Init, RecipientsOnce
<1>2. ASSUME NEW m \in Mail, NEW o \in Org
      PROVE  kept[m][o] + Cardinality(Working(m, o)) + (IF Due(m, o) THEN 1 ELSE 0) <= 1 + faults
  <2>1. Working(m, o) = {}
    BY <1>2, ConstantsAssumption DEF Init, Working
  <2>2. Cardinality(Working(m, o)) = 0
    BY <2>1, FS_EmptySet
  <2>3. kept[m][o] = 0 /\ faults = 0
    BY DEF Init
  <2> QED
    BY <2>2, <2>3
<1> QED
  BY <1>1, <1>2 DEF DeliveriesCounted

(* Steps that touch neither connections nor stored mails leave the account as it is, or add a fault to it. *)
LEMMA SameDeliveries ==
    ASSUME DeliveryInv, UNCHANGED <<pending, connection, org, kept>>, faults' \in {faults, faults + 1}
    PROVE  DeliveriesCounted' /\ RecipientsOnce'
<1>1. RecipientsOnce'
  BY DEF DeliveryInv, RecipientsOnce, connection
<1>2. ASSUME NEW m \in Mail, NEW o \in Org
      PROVE  (kept[m][o] + Cardinality(Working(m, o)) + (IF Due(m, o) THEN 1 ELSE 0) <= 1 + faults)'
  <2>1. Working(m, o)' = Working(m, o) /\ Due(m, o)' = Due(m, o)
    BY DEF Working, Due, connection
  <2>2. kept[m][o] + Cardinality(Working(m, o)) + (IF Due(m, o) THEN 1 ELSE 0) <= 1 + faults
    BY DEF DeliveryInv, DeliveriesCounted
  <2>3. kept[m][o] \in Nat /\ Cardinality(Working(m, o)) \in Nat /\ faults \in Nat
    BY WorkingFinite DEF DeliveryInv, Inv, TypeOK
  <2> QED
    BY <2>1, <2>2, <2>3
<1> QED
  BY <1>1, <1>2 DEF DeliveriesCounted

(* One account: nothing is stored, and what is at work or due becomes more only by a fault. *)
LEMMA AccountBalances ==
    ASSUME DeliveryInv, NEW m \in Mail, NEW o \in Org, kept' = kept, faults' \in {faults, faults + 1},
           \/ Working(m, o)' \subseteq Working(m, o) /\ (Due(m, o)' => Due(m, o) \/ faults' = faults + 1)
           \/ Due(m, o) /\ ~Due(m, o)' /\ \E s \in Session : Working(m, o)' \subseteq Working(m, o) \cup {s}
    PROVE  (kept[m][o] + Cardinality(Working(m, o)) + (IF Due(m, o) THEN 1 ELSE 0) <= 1 + faults)'
<1> DEFINE w == Cardinality(Working(m, o))
           v == Cardinality(Working(m, o)')
<1>1. kept[m][o] + w + (IF Due(m, o) THEN 1 ELSE 0) <= 1 + faults
  BY DEF DeliveryInv, DeliveriesCounted
<1>2. kept[m][o] \in Nat /\ w \in Nat /\ faults \in Nat
  BY WorkingFinite DEF DeliveryInv, Inv, TypeOK
<1>3. Working(m, o)' \in SUBSET Session
  BY DEF Working
<1>4. v \in Nat
  BY <1>3, ConstantsAssumption, FS_Subset, FS_CardinalityType
<1>5. CASE Working(m, o)' \subseteq Working(m, o) /\ (Due(m, o)' => Due(m, o) \/ faults' = faults + 1)
  <2>1. v <= w
    BY <1>5, WorkingFinite, FS_Subset
  <2> HIDE DEF v, w
  <2>2. kept[m][o] + v + (IF Due(m, o)' THEN 1 ELSE 0) <= 1 + faults'
    BY <1>1, <1>2, <1>4, <1>5, <2>1
  <2> QED
    BY <2>2 DEF v
<1>6. ASSUME Due(m, o), ~Due(m, o)', NEW s \in Session, Working(m, o)' \subseteq Working(m, o) \cup {s}
      PROVE  (kept[m][o] + Cardinality(Working(m, o)) + (IF Due(m, o) THEN 1 ELSE 0) <= 1 + faults)'
  <2>1. IsFiniteSet(Working(m, o) \cup {s}) /\ Cardinality(Working(m, o) \cup {s}) <= w + 1
    <3>1. IsFiniteSet(Working(m, o))
      BY WorkingFinite
    <3>2. IsFiniteSet(Working(m, o) \cup {s})
      BY <3>1, FS_AddElement
    <3>3. Cardinality(Working(m, o) \cup {s}) = IF s \in Working(m, o) THEN w ELSE w + 1
      BY <3>1, FS_AddElement, Zenon
    <3> HIDE DEF w
    <3> QED
      BY <1>2, <3>2, <3>3
  <2>2. v <= w + 1
    <3>1. v <= Cardinality(Working(m, o) \cup {s}) /\ Cardinality(Working(m, o) \cup {s}) \in Nat
      BY <1>6, <2>1, FS_Subset, FS_CardinalityType
    <3> QED
      BY <1>2, <1>4, <2>1, <3>1
  <2> HIDE DEF v, w
  <2>3. kept[m][o] + v + (IF Due(m, o)' THEN 1 ELSE 0) <= 1 + faults'
    BY <1>1, <1>2, <1>4, <1>6, <2>2
  <2> QED
    BY <2>3 DEF v
<1> QED
  BY <1>5, <1>6

LEMMA ConnectCounted ==
    ASSUME DeliveryInv, NEW s \in Session, NEW n \in Mail, handle_RCPT(s, n)
    PROVE  DeliveriesCounted' /\ RecipientsOnce'
<1> USE DEF DeliveryInv, Inv
<1>1. PICK accepted \in SUBSET Org :
        /\ accepted \subseteq pending[n]
        /\ chosen' = [chosen EXCEPT ![s] = accepted]
        /\ rcpts' = [rcpts EXCEPT ![s] = accepted]
  BY DEF handle_RCPT, TypeOK
<1>2. /\ mail[s] = NoMail /\ mail' = [mail EXCEPT ![s] = n] /\ linked' = [linked EXCEPT ![s] = TRUE]
      /\ ~InTransit(n)
      /\ UNCHANGED <<pending, org, kept, faults>>
  BY DEF handle_RCPT, sender, transaction, database
<1>3. n # NoMail /\ org[s] = NoOrg /\ NoOrg \notin Org
  BY <1>2, ConstantsAssumption DEF SessionsTidy
<1>4. RecipientsOnce'
  BY <1>1, <1>2, <1>3 DEF RecipientsOnce, TypeOK
<1>5. ASSUME NEW m \in Mail, NEW o \in Org
      PROVE  (kept[m][o] + Cardinality(Working(m, o)) + (IF Due(m, o) THEN 1 ELSE 0) <= 1 + faults)'
  <2>0. m # NoMail
    BY ConstantsAssumption
  <2>1. CASE m = n /\ o \in accepted
    <3>1. Due(m, o)
      BY <1>1, <1>2, <2>1 DEF Due, InTransit
    <3>2. ~Due(m, o)'
      BY <1>1, <1>2, <2>1 DEF Due, TypeOK
    <3>3. Working(m, o)' \subseteq Working(m, o) \cup {s}
      BY <1>1, <1>2 DEF Working, TypeOK
    <3> QED
      BY <1>2, <3>1, <3>2, <3>3, AccountBalances
  <2>2. CASE ~(m = n /\ o \in accepted)
    <3>1. Working(m, o)' \subseteq Working(m, o)
      BY <1>1, <1>2, <1>3, <2>0, <2>2 DEF Working, TypeOK
    <3>2. Due(m, o)' => Due(m, o)
      BY <1>1, <1>2, <2>0, <2>2 DEF Due, TypeOK
    <3> QED
      BY <1>2, <3>1, <3>2, AccountBalances
  <2> QED
    BY <2>1, <2>2
<1> QED
  BY <1>4, <1>5 DEF DeliveriesCounted

LEMMA RejectCounted ==
    ASSUME DeliveryInv, NEW n \in Mail, NEW p \in Org, Reject(n, p)
    PROVE  DeliveriesCounted' /\ RecipientsOnce'
<1> USE DEF DeliveryInv, Inv, Reject, connection, transaction, database
<1>1. RecipientsOnce'
  BY DEF RecipientsOnce
<1>2. ASSUME NEW m \in Mail, NEW o \in Org
      PROVE  (kept[m][o] + Cardinality(Working(m, o)) + (IF Due(m, o) THEN 1 ELSE 0) <= 1 + faults)'
  <2>1. Working(m, o)' = Working(m, o)
    BY DEF Working
  <2>2. Due(m, o)' => Due(m, o)
    BY DEF Due, TypeOK
  <2> QED
    BY <2>1, <2>2, AccountBalances
<1> QED
  BY <1>1, <1>2 DEF DeliveriesCounted

LEMMA LoseCounted ==
    ASSUME DeliveryInv, NEW s \in Session, LoseConnection(s)
    PROVE  DeliveriesCounted' /\ RecipientsOnce'
<1> USE DEF DeliveryInv, Inv, LoseConnection, sender, transaction, database
<1>1. RecipientsOnce'
  BY DEF RecipientsOnce
<1>2. ASSUME NEW m \in Mail, NEW o \in Org
      PROVE  (kept[m][o] + Cardinality(Working(m, o)) + (IF Due(m, o) THEN 1 ELSE 0) <= 1 + faults)'
  <2>1. Working(m, o)' \subseteq Working(m, o)
    BY DEF Working, TypeOK
  <2> QED
    BY <2>1, AccountBalances
<1> QED
  BY <1>1, <1>2 DEF DeliveriesCounted

LEMMA BeginCounted ==
    ASSUME DeliveryInv, NEW s \in Session, _persist_and_process(s)
    PROVE  DeliveriesCounted' /\ RecipientsOnce'
<1> USE DEF DeliveryInv, Inv
<1>1. PICK p \in rcpts[s] : /\ org' = [org EXCEPT ![s] = p] /\ rcpts' = [rcpts EXCEPT ![s] = @ \ {p}]
  BY DEF _persist_and_process
<1>2. mail[s] # NoMail /\ org[s] = NoOrg /\ linked[s] /\ UNCHANGED <<pending, mail, linked, chosen, kept, faults>>
  BY DEF _persist_and_process, sender, database
<1>3. RecipientsOnce'
  BY <1>1, <1>2 DEF RecipientsOnce, TypeOK
<1>4. ASSUME NEW m \in Mail, NEW o \in Org
      PROVE  (kept[m][o] + Cardinality(Working(m, o)) + (IF Due(m, o) THEN 1 ELSE 0) <= 1 + faults)'
  <2>1. Working(m, o)' \subseteq Working(m, o)
    BY <1>1, <1>2 DEF Working, TypeOK
  <2>2. Due(m, o)' => Due(m, o)
    BY <1>2 DEF Due
  <2> QED
    BY <1>2, <2>1, <2>2, AccountBalances
<1> QED
  BY <1>3, <1>4 DEF DeliveriesCounted

LEMMA AnswerCounted ==
    ASSUME DeliveryInv, NEW s \in Session, Answer(s)
    PROVE  DeliveriesCounted' /\ RecipientsOnce'
<1> USE DEF DeliveryInv, Inv, Answer, Disconnect, transaction, database
<1>1. RecipientsOnce'
  BY DEF RecipientsOnce, TypeOK
<1>2. ASSUME NEW m \in Mail, NEW o \in Org
      PROVE  (kept[m][o] + Cardinality(Working(m, o)) + (IF Due(m, o) THEN 1 ELSE 0) <= 1 + faults)'
  <2>0. m # NoMail
    BY ConstantsAssumption
  <2>1. Working(m, o)' \subseteq Working(m, o)
    BY <2>0 DEF Working, TypeOK
  <2>2. Due(m, o)' => Due(m, o)
    BY <2>0 DEF Due, TypeOK
  <2> QED
    BY <2>1, <2>2, AccountBalances
<1> QED
  BY <1>1, <1>2 DEF DeliveriesCounted

LEMMA RollbackCounted ==
    ASSUME DeliveryInv, NEW s \in Session, Rollback(s)
    PROVE  DeliveriesCounted' /\ RecipientsOnce'
<1> USE DEF DeliveryInv, Inv, Rollback, Disconnect, EndTransaction, sender, database
<1>1. RecipientsOnce'
  BY DEF RecipientsOnce, TypeOK
<1>2. ASSUME NEW m \in Mail, NEW o \in Org
      PROVE  (kept[m][o] + Cardinality(Working(m, o)) + (IF Due(m, o) THEN 1 ELSE 0) <= 1 + faults)'
  <2>0. m # NoMail
    BY ConstantsAssumption
  <2>1. Working(m, o)' \subseteq Working(m, o)
    BY <2>0 DEF Working, TypeOK
  <2> QED
    BY <2>1, AccountBalances
<1> QED
  BY <1>1, <1>2 DEF DeliveriesCounted

LEMMA CommitCounted ==
    ASSUME DeliveryInv, NEW s \in Session, Commit(s)
    PROVE  DeliveriesCounted' /\ RecipientsOnce'
<1> USE DEF DeliveryInv, Inv
<1>1. /\ org[s] # NoOrg /\ org' = [org EXCEPT ![s] = NoOrg]
      /\ kept' = IF mail[s] \in Upload THEN kept ELSE [kept EXCEPT ![mail[s]][org[s]] = @ + 1]
      /\ UNCHANGED <<pending, mail, linked, chosen, rcpts, faults>>
  BY DEF Commit, EndTransaction, sender, connection
<1>2. org[s] \in Org /\ mail[s] \in Mail /\ NoOrg \notin Org
  BY <1>1, ConstantsAssumption DEF SessionsTidy, TypeOK
<1>3. RecipientsOnce'
  BY <1>1, <1>2 DEF RecipientsOnce, TypeOK
<1>4. ASSUME NEW m \in Mail, NEW o \in Org
      PROVE  (kept[m][o] + Cardinality(Working(m, o)) + (IF Due(m, o) THEN 1 ELSE 0) <= 1 + faults)'
  <2>1. Working(m, o)' \subseteq Working(m, o) /\ Due(m, o)' = Due(m, o)
    BY <1>1, <1>2 DEF Working, Due, TypeOK
  <2>2. CASE kept'[m][o] = kept[m][o]
    <3>1. kept[m][o] + Cardinality(Working(m, o)) + (IF Due(m, o) THEN 1 ELSE 0) <= 1 + faults
      BY DEF DeliveriesCounted
    <3>2. Cardinality(Working(m, o)') <= Cardinality(Working(m, o)) /\ Cardinality(Working(m, o)') \in Nat
      BY <2>1, WorkingFinite, FS_Subset, FS_CardinalityType
    <3>3. kept[m][o] \in Nat /\ Cardinality(Working(m, o)) \in Nat /\ faults \in Nat
      BY WorkingFinite DEF TypeOK
    <3> QED
      BY <1>1, <2>1, <2>2, <3>1, <3>2, <3>3
  <2>3. CASE kept'[m][o] # kept[m][o]
    <3>1. m = mail[s] /\ o = org[s] /\ kept'[m][o] = kept[m][o] + 1
      BY <1>1, <1>2, <2>3 DEF TypeOK
    <3>2. s \in Working(m, o) /\ s \notin Working(m, o)'
      BY <1>1, <1>2, <3>1 DEF Working, RecipientsOnce, TypeOK
    <3>3. Working(m, o)' \subseteq Working(m, o) \ {s}
      BY <2>1, <3>2
    <3>4. /\ IsFiniteSet(Working(m, o) \ {s})
          /\ Cardinality(Working(m, o) \ {s}) = Cardinality(Working(m, o)) - 1
      BY <3>2, WorkingFinite, FS_RemoveElement
    <3>5. Cardinality(Working(m, o)') <= Cardinality(Working(m, o)) - 1 /\ Cardinality(Working(m, o)') \in Nat
      BY <3>3, <3>4, FS_Subset, FS_CardinalityType
    <3>6. kept[m][o] + Cardinality(Working(m, o)) + (IF Due(m, o) THEN 1 ELSE 0) <= 1 + faults
      BY DEF DeliveriesCounted
    <3>7. kept[m][o] \in Nat /\ Cardinality(Working(m, o)) \in Nat /\ faults \in Nat
      BY WorkingFinite DEF TypeOK
    <3> QED
      BY <1>1, <2>1, <3>1, <3>5, <3>6, <3>7
  <2> QED
    BY <2>2, <2>3
<1> QED
  BY <1>3, <1>4 DEF DeliveriesCounted

LEMMA NextCounted == DeliveryInv /\ [Next]_vars => DeliveriesCounted' /\ RecipientsOnce'
<1> SUFFICES ASSUME DeliveryInv, [Next]_vars PROVE DeliveriesCounted' /\ RecipientsOnce'
  OBVIOUS
<1> USE DEF sender, transaction, database
<1>1. CASE UNCHANGED vars
  BY <1>1, SameDeliveries DEF vars
<1>2. CASE \E o \in Org : domain_toggle(o)
  BY <1>2, SameDeliveries DEF domain_toggle
<1>3. CASE \E m \in Mail, o \in Org : Reject(m, o)
  BY <1>3, RejectCounted
<1>4. CASE \E s \in Session, m \in Mail : handle_RCPT(s, m)
  BY <1>4, ConnectCounted
<1>5. ASSUME NEW s \in Session, Step(s) PROVE DeliveriesCounted' /\ RecipientsOnce'
  <2>1. CASE _persist_and_process(s)
    BY <2>1, BeginCounted
  <2>2. CASE Answer(s)
    BY <2>2, AnswerCounted
  <2>3. CASE Skip(s) \/ store_tls_report(s)
    BY <2>3, SameDeliveries DEF Skip, store_tls_report
  <2>4. CASE store_parsed_report(s) \/ store_failure_report(s) \/ InsertTls(s)
    BY <2>4, SameDeliveries DEF store_parsed_report, store_failure_report, InsertTls
  <2>5. CASE Conflict(s)
    BY <2>5, RollbackCounted DEF Conflict
  <2>6. CASE Commit(s)
    BY <2>6, CommitCounted
  <2> QED
    BY <1>5, <2>1, <2>2, <2>3, <2>4, <2>5, <2>6 DEF Step
<1>6. ASSUME NEW s \in Session, LoseConnection(s) PROVE DeliveriesCounted' /\ RecipientsOnce'
  BY <1>6, LoseCounted
<1>7. ASSUME NEW s \in Session, Abort(s) PROVE DeliveriesCounted' /\ RecipientsOnce'
  BY <1>7, RollbackCounted DEF Abort
<1>8. ASSUME NEW s \in Session, ImportBreaks(s) PROVE DeliveriesCounted' /\ RecipientsOnce'
  BY <1>8, SameDeliveries DEF ImportBreaks
<1> QED
  BY <1>1, <1>2, <1>3, <1>4, <1>5, <1>6, <1>7, <1>8 DEF Next

(* A mail is stored once for a recipient, and at most once more for every fault, however its deliveries and the *)
(* threads of lost connections interleave (handle_DATA stores per recipient and answers once). *)
THEOREM MailsComeOnce == Spec => []MailsStoredOnce
<1>1. Init => DeliveryInv
  BY InitInv, InitDeliveries DEF DeliveryInv
<1>2. DeliveryInv /\ [Next]_vars => DeliveryInv'
  BY NextInv, NextCounted DEF DeliveryInv
<1>3. DeliveryInv => MailsStoredOnce
  <2> SUFFICES ASSUME DeliveryInv, NEW m \in Mail, NEW o \in Org PROVE kept[m][o] <= 1 + faults
    BY DEF MailsStoredOnce
  <2>1. kept[m][o] + Cardinality(Working(m, o)) + (IF Due(m, o) THEN 1 ELSE 0) <= 1 + faults
    BY DEF DeliveryInv, DeliveriesCounted
  <2>2. kept[m][o] \in Nat /\ Cardinality(Working(m, o)) \in Nat /\ faults \in Nat
    BY WorkingFinite DEF DeliveryInv, Inv, TypeOK
  <2> QED
    BY <2>1, <2>2
<1> QED
  BY <1>1, <1>2, <1>3, PTL DEF Spec

-----------------------------------------------------------------------------
(* Sums over finite sets, by their definition in the community modules. *)

(* Every set of numbers that is not empty has a least one. *)
LEMMA LeastFirst ==
  ASSUME NEW T \in SUBSET Nat, T # {}
  PROVE \E x \in T : \A y \in T : x <= y
<1> DEFINE Less == {ss \in Nat \X Nat : ss[1] < ss[2]}
<1>1. IsWellFoundedOn(Less, Nat)
  BY NatLessThanWellFounded DEF OpToRel
<1>2. PICK x \in T : \A y \in T : <<y, x>> \notin Less
  BY <1>1, WFMin
<1>3. \A y \in T : ~(y < x)
  BY <1>2
<1>4. QED
  BY <1>3

\* The element with which the sum over a set begins
Chosen(S) == CHOOSE x \in S : TRUE

(* Induction over the subsets of a finite set: what holds of the empty set, and of a set when it holds without the element
   its sum begins with, holds of all. *)
LEMMA SetsGrow ==
  ASSUME NEW S, IsFiniteSet(S), NEW G, {} \in G,
         \A T \in SUBSET S : T # {} /\ T \ {Chosen(T)} \in G => T \in G
  PROVE  SUBSET S \subseteq G
<1> SUFFICES ASSUME NEW U \in SUBSET S, U \notin G PROVE FALSE
  OBVIOUS
<1> DEFINE Sizes == {n \in Nat : \E T \in SUBSET S : T \notin G /\ Cardinality(T) = n}
<1>1. \A T \in SUBSET S : IsFiniteSet(T) /\ Cardinality(T) \in Nat
  BY FS_Subset, FS_CardinalityType
<1>2. Sizes # {} /\ Sizes \in SUBSET Nat
  BY <1>1
<1>3. PICK n \in Sizes : \A k \in Sizes : n <= k
  <2> HIDE DEF Sizes
  <2> QED BY <1>2, LeastFirst
<1>4. PICK T \in SUBSET S : T \notin G /\ Cardinality(T) = n
  OBVIOUS
<1>5. T # {}
  BY <1>4
<1>6. Chosen(T) \in T
  BY <1>5 DEF Chosen
<1>7. Cardinality(T \ {Chosen(T)}) = n - 1 /\ T \ {Chosen(T)} \in SUBSET S
  BY <1>1, <1>4, <1>6, FS_RemoveElement
<1>8. T \ {Chosen(T)} \in G
  BY <1>1, <1>3, <1>7
<1>9. QED
  BY <1>4, <1>5, <1>8

\* A sum over s by the sums over its subsets, and the function of all these sums
Term(f, it, s) == IF s = {} THEN 0 ELSE f[Chosen(s)] + it[s \ {Chosen(s)}]
IsSum(f, S, it) == it = [s \in SUBSET S |-> Term(f, it, s)]

(* The sum of the community modules is the value of such a function at the whole set. *)
LEMMA Unfold == ASSUME NEW f, NEW S PROVE SumFunctionOnSet(f, S) = (CHOOSE it : IsSum(f, S, it))[S]
BY DEF SumFunctionOnSet, FoldFunctionOnSet, MapThenFoldSet, IsSum, Term, Chosen

(* There is such a function: the least number of elements for which there were none is not 0, and has no predecessor. *)
LEMMA SumExists ==
  ASSUME NEW f, NEW S, IsFiniteSet(S)
  PROVE  \E it : IsSum(f, S, it)
<1> DEFINE Good(n, g) == \A s \in SUBSET S : Cardinality(s) <= n => g[s] = Term(f, g, s)
           Missing == {n \in Nat : ~ \E g : Good(n, g)}
<1>1. \A T \in SUBSET S : IsFiniteSet(T) /\ Cardinality(T) \in Nat
  BY FS_Subset, FS_CardinalityType
<1>2. Missing = {}
  <2> SUFFICES ASSUME Missing # {} PROVE FALSE
    OBVIOUS
  <2>1. PICK n \in Missing : \A k \in Missing : n <= k
    <3>1. Missing \in SUBSET Nat
      OBVIOUS
    <3> HIDE DEF Missing
    <3> QED BY <3>1, LeastFirst
  <2>2. n \in Nat /\ ~ \E g : Good(n, g)
    OBVIOUS
  <2>3. ASSUME n = 0 PROVE FALSE
    <3> DEFINE g == [s \in SUBSET S |-> 0]
    <3>1. ASSUME NEW s \in SUBSET S, Cardinality(s) <= n PROVE g[s] = Term(f, g, s)
      <4>1. s = {}
        BY <1>1, <2>3, <3>1, FS_EmptySet
      <4> QED BY <4>1 DEF Term
    <3>2. Good(n, g)
      BY <3>1
    <3> QED BY <2>2, <3>2
  <2>4. ASSUME n # 0 PROVE FALSE
    <3>1. n - 1 \in Nat /\ n - 1 \notin Missing
      BY <2>1, <2>2, <2>4
    <3>2. PICK h : Good(n - 1, h)
      BY <3>1
    <3> DEFINE g == [s \in SUBSET S |-> Term(f, h, s)]
    <3>3. ASSUME NEW s \in SUBSET S, Cardinality(s) <= n PROVE g[s] = Term(f, g, s)
      <4>1. CASE s = {}
        BY <4>1 DEF Term
      <4>2. CASE s # {}
        <5> DEFINE r == s \ {Chosen(s)}
        <5>1. Chosen(s) \in s
          BY <4>2 DEF Chosen
        <5>2. r \in SUBSET S /\ Cardinality(r) <= n - 1
          BY <1>1, <2>2, <3>3, <5>1, FS_RemoveElement
        <5>3. g[r] = h[r]
          BY <3>2, <5>2
        <5> QED BY <4>2, <5>3 DEF Term
      <4> QED BY <4>1, <4>2
    <3>4. Good(n, g)
      BY <3>3
    <3> QED BY <2>2, <3>4
  <2> QED BY <2>3, <2>4
<1>3. Cardinality(S) \in Nat /\ \A s \in SUBSET S : Cardinality(s) <= Cardinality(S)
  BY <1>1, FS_Subset
<1>4. PICK g : Good(Cardinality(S), g)
  BY <1>2, <1>3
<1> DEFINE it == [s \in SUBSET S |-> g[s]]
<1>5. \A s \in SUBSET S : it[s] = Term(f, it, s)
  <2> SUFFICES ASSUME NEW s \in SUBSET S PROVE it[s] = Term(f, it, s)
    OBVIOUS
  <2>1. g[s] = Term(f, g, s)
    BY <1>3, <1>4
  <2>2. s \ {Chosen(s)} \in SUBSET S
    OBVIOUS
  <2> QED BY <2>1, <2>2 DEF Term
<1>6. IsSum(f, S, it)
  BY <1>5 DEF IsSum
<1> QED BY <1>6

(* Two of them agree wherever both are defined. *)
LEMMA SumUnique ==
  ASSUME NEW f, NEW S, IsFiniteSet(S), NEW T \in SUBSET S, NEW it, NEW jt, IsSum(f, S, it), IsSum(f, T, jt)
  PROVE  it[T] = jt[T]
<1> DEFINE G == {s \in SUBSET T : it[s] = jt[s]}
<1>1. \A s \in SUBSET T : it[s] = Term(f, it, s) /\ jt[s] = Term(f, jt, s)
  BY DEF IsSum
<1>2. {} \in G
  BY <1>1 DEF Term
<1>3. ASSUME NEW s \in SUBSET T, s # {}, s \ {Chosen(s)} \in G PROVE s \in G
  BY <1>1, <1>3 DEF Term
<1>4. IsFiniteSet(T)
  BY FS_Subset
<1>5. SUBSET T \subseteq G
  <2> HIDE DEF G
  <2> QED BY <1>2, <1>3, <1>4, SetsGrow
<1> QED BY <1>5

(* The sum over the empty set, and over all others by their first element. *)
LEMMA SumOfNone == ASSUME NEW f PROVE SumFunctionOnSet(f, {}) = 0
<1>1. PICK jt : IsSum(f, {}, jt)
  BY SumExists, FS_EmptySet
<1>2. IsSum(f, {}, CHOOSE it : IsSum(f, {}, it))
  BY <1>1
<1> QED BY <1>2, Unfold DEF IsSum, Term

LEMMA SumOfSome ==
  ASSUME NEW f, NEW S, IsFiniteSet(S), S # {}
  PROVE  SumFunctionOnSet(f, S) = f[Chosen(S)] + SumFunctionOnSet(f, S \ {Chosen(S)})
<1> DEFINE T == S \ {Chosen(S)}
           it == CHOOSE i : IsSum(f, S, i)
           jt == CHOOSE i : IsSum(f, T, i)
<1>1. IsFiniteSet(T) /\ T \in SUBSET S
  BY FS_Subset
<1>2. IsSum(f, S, it)
  BY SumExists
<1>3. IsSum(f, T, jt)
  BY SumExists, <1>1
<1>4. it[T] = jt[T]
  <2> HIDE DEF it, jt, T
  <2> QED BY <1>1, <1>2, <1>3, SumUnique
<1>5. it[S] = Term(f, it, S)
  <2> HIDE DEF it
  <2> QED BY <1>2 DEF IsSum
<1>6. SumFunctionOnSet(f, S) = it[S] /\ SumFunctionOnSet(f, T) = jt[T]
  BY Unfold
<1> QED
  <2> HIDE DEF it, jt
  <2> QED BY <1>4, <1>5, <1>6 DEF Term

(* When the values of d grow by one, the sum grows by their number. *)
LEMMA SumGrows ==
  ASSUME NEW S, IsFiniteSet(S), NEW f, NEW g, NEW d,
         \A x \in S : f[x] \in Nat /\ g[x] = IF x \in d THEN f[x] + 1 ELSE f[x]
  PROVE  /\ SumFunctionOnSet(f, S) \in Nat
         /\ SumFunctionOnSet(g, S) = SumFunctionOnSet(f, S) + Cardinality(d \cap S)
<1> DEFINE F(T) == SumFunctionOnSet(f, T)
           E(T) == SumFunctionOnSet(g, T)
           G == {T \in SUBSET S : F(T) \in Nat /\ E(T) = F(T) + Cardinality(d \cap T)}
<1>1. {} \in G
  BY SumOfNone, FS_EmptySet
<1>2. ASSUME NEW T \in SUBSET S, T # {}, T \ {Chosen(T)} \in G PROVE T \in G
  <2> DEFINE a == Chosen(T)
             R == T \ {a}
  <2>1. a \in T /\ IsFiniteSet(T) /\ IsFiniteSet(d \cap R)
    BY <1>2, FS_Subset DEF Chosen
  <2>2. F(T) = f[a] + F(R) /\ E(T) = g[a] + E(R)
    BY <1>2, <2>1, SumOfSome
  <2>3. F(R) \in Nat /\ E(R) = F(R) + Cardinality(d \cap R)
    BY <1>2
  <2>4. Cardinality(d \cap R) \in Nat
    BY <2>1, FS_CardinalityType
  <2>5. Cardinality(d \cap T) = IF a \in d THEN Cardinality(d \cap R) + 1 ELSE Cardinality(d \cap R)
    <3>1. CASE a \in d
      <4>1. d \cap T = (d \cap R) \cup {a} /\ a \notin d \cap R
        BY <2>1, <3>1
      <4> QED BY <2>1, <3>1, <4>1, FS_AddElement
    <3>2. CASE a \notin d
      <4>1. d \cap T = d \cap R
        BY <2>1, <3>2
      <4> QED BY <3>2, <4>1
    <3> QED BY <3>1, <3>2
  <2>6. f[a] \in Nat /\ g[a] = IF a \in d THEN f[a] + 1 ELSE f[a]
    BY <2>1
  <2>7. F(T) \in Nat /\ E(T) = F(T) + Cardinality(d \cap T)
    <3> HIDE DEF F, E, R, a
    <3> QED BY <2>2, <2>3, <2>4, <2>5, <2>6
  <2> QED BY <2>7
<1>3. S \in G
  <2> HIDE DEF G
  <2> QED BY <1>1, <1>2, SetsGrow
<1> QED BY <1>3

(* The sum over one element, and over elements that all count nothing. *)
LEMMA SumOfOne == ASSUME NEW f, NEW x, f[x] \in Nat PROVE SumFunctionOnSet(f, {x}) = f[x]
<1>1. IsFiniteSet({x}) /\ {x} # {} /\ Chosen({x}) = x /\ {x} \ {x} = {}
  BY FS_Singleton DEF Chosen
<1>2. SumFunctionOnSet(f, {x}) = f[x] + SumFunctionOnSet(f, {})
  BY <1>1, SumOfSome
<1> QED
  BY <1>2, SumOfNone

LEMMA SumOfNulls == ASSUME NEW S, IsFiniteSet(S), NEW f, \A x \in S : f[x] = 0 PROVE SumFunctionOnSet(f, S) = 0
<1> DEFINE G == {T \in SUBSET S : SumFunctionOnSet(f, T) = 0}
<1>1. {} \in G
  BY SumOfNone
<1>2. ASSUME NEW T \in SUBSET S, T # {}, T \ {Chosen(T)} \in G PROVE T \in G
  <2>1. Chosen(T) \in T /\ IsFiniteSet(T)
    BY <1>2, FS_Subset DEF Chosen
  <2> QED
    BY <1>2, <2>1, SumOfSome
<1>3. S \in G
  <2> HIDE DEF G
  <2> QED BY <1>1, <1>2, SetsGrow
<1> QED BY <1>3

-----------------------------------------------------------------------------
(* The totals of the source are those of its reports. *)

\* What a transaction has read of the source still holds, unless others wrote since or totals have drifted.
SourcesCurrent ==
    \A s \in Session :
        /\ base[s] = Unread => draft[s] \cap Dmarc = {}
        /\ base[s] # Unread => org[s] # NoOrg
        /\ base[s] # Unread /\ ~stale[s] /\ org[s] \notin drift =>
              base[s] = IF totals[org[s]] = <<>> THEN <<0, 0>> ELSE <<1, totals[org[s]][1]>>

\* One row at most, with the number of stored reports; no row is none.
TotalsFollow ==
    \A o \in Org \ drift :
        /\ Len(totals[o]) <= 1
        /\ SumFunctionOnSet(copies[o], Dmarc) = IF totals[o] = <<>> THEN 0 ELSE totals[o][1]

SourceInv == Inv /\ SourcesCurrent /\ TotalsFollow

LEMMA InitSources == Init => SourcesCurrent /\ TotalsFollow
<1> SUFFICES ASSUME Init PROVE SourcesCurrent /\ TotalsFollow
  OBVIOUS
<1>1. SourcesCurrent
  BY DEF Init, SourcesCurrent
<1>2. ASSUME NEW o \in Org PROVE Len(totals[o]) <= 1 /\ totals[o] = <<>> /\ SumFunctionOnSet(copies[o], Dmarc) = 0
  <2>1. totals[o] = <<>>
    BY DEF Init
  <2>2. \A r \in Dmarc : copies[o][r] \in Nat /\ copies[o][r] = 0
    BY ConstantsAssumption DEF Init
  <2>3. IsFiniteSet(Dmarc)
    BY ConstantsAssumption, FS_Subset
  <2>4. SumFunctionOnSet(copies[o], Dmarc) = 0
    BY <2>2, <2>3, SumOfNulls
  <2> QED
    BY <2>1, <2>4
<1> QED
  BY <1>1, <1>2 DEF TotalsFollow

(* Steps that leave what was read, stored and written alone. *)
LEMMA SameSources ==
    ASSUME SourceInv, UNCHANGED <<org, draft, base, stale, copies, totals, drift>>
    PROVE  SourcesCurrent' /\ TotalsFollow'
BY DEF SourceInv, SourcesCurrent, TotalsFollow

LEMMA BeginSources ==
    ASSUME SourceInv, NEW s \in Session, _persist_and_process(s)
    PROVE  SourcesCurrent' /\ TotalsFollow'
<1>1. org[s] = NoOrg /\ UNCHANGED <<draft, base, stale, copies, totals, drift>>
      /\ \A t \in Session : t # s => org'[t] = org[t]
  BY DEF _persist_and_process, database, SourceInv, Inv, TypeOK
<1>2. base[s] = Unread
  BY <1>1 DEF SourceInv, SourcesCurrent
<1> QED
  BY <1>1, <1>2 DEF SourceInv, SourcesCurrent, TotalsFollow

LEMMA RollbackSources ==
    ASSUME SourceInv, NEW s \in Session, Rollback(s)
    PROVE  SourcesCurrent' /\ TotalsFollow'
<1>1. /\ UNCHANGED <<copies, totals, drift>> /\ base'[s] = Unread /\ draft'[s] = {}
      /\ \A t \in Session : t # s => org'[t] = org[t] /\ draft'[t] = draft[t] /\ base'[t] = base[t] /\ stale'[t] = stale[t]
  BY DEF Rollback, EndTransaction, database, SourceInv, Inv, TypeOK
<1> QED
  BY <1>1 DEF SourceInv, SourcesCurrent, TotalsFollow

(* TLS and failure reports are none of the source's. *)
LEMMA OthersSources ==
    ASSUME SourceInv, NEW s \in Session, NEW r, r \notin Dmarc, Stored(s, r),
           UNCHANGED <<org, base, stale, copies, totals, drift>>
    PROVE  SourcesCurrent' /\ TotalsFollow'
<1>1. \A t \in Session : draft'[t] \cap Dmarc = draft[t] \cap Dmarc
  BY DEF Stored, SourceInv, Inv, TypeOK
<1> QED
  BY <1>1 DEF SourceInv, SourcesCurrent, TotalsFollow

LEMMA StoreReportSources ==
    ASSUME SourceInv, NEW s \in Session, store_parsed_report(s)
    PROVE  SourcesCurrent' /\ TotalsFollow'
<1> USE DEF SourceInv
<1>1. PICK r \in left[s] \cap Dmarc : Stored(s, r)
  BY DEF store_parsed_report
<1>2. UNCHANGED <<org, stale, copies, totals, drift>>
  BY DEF store_parsed_report, database
<1>3. org[s] # NoOrg /\ org[s] \in Org
  BY <1>1 DEF Inv, SessionsTidy, TypeOK
<1>4. TotalsFollow'
  BY <1>2 DEF TotalsFollow
<1> DEFINE rows == totals[org[s]]
<1>5. rows \in Seq(Nat)
  BY <1>3 DEF Inv, TypeOK
<1>6. \A t \in Session : t # s => base'[t] = base[t] /\ draft'[t] = draft[t]
  <2>1. base \in [Session -> {Unread} \cup (Nat \X Nat)] /\ draft \in [Session -> SUBSET Report]
    BY DEF Inv, TypeOK
  <2>2. \/ UNCHANGED base
        \/ base' = [base EXCEPT ![s] = <<0, 0>>]
        \/ \E k \in DOMAIN rows : base' = [base EXCEPT ![s] = <<k, rows[k]>>]
    BY DEF store_parsed_report
  <2> QED
    BY <1>1, <2>1, <2>2 DEF Stored
<1>7. /\ base'[s] # Unread
      /\ ~stale[s] /\ org[s] \notin drift => base'[s] = IF rows = <<>> THEN <<0, 0>> ELSE <<1, rows[1]>>
  <2>1. base \in [Session -> {Unread} \cup (Nat \X Nat)]
    BY DEF Inv, TypeOK
  <2>2. CASE base[s] # Unread /\ UNCHANGED base
    BY <2>2 DEF SourcesCurrent
  <2>3. CASE rows = <<>> /\ base' = [base EXCEPT ![s] = <<0, 0>>]
    BY <2>1, <2>3 DEF Unread
  <2>4. ASSUME NEW k \in DOMAIN rows, base' = [base EXCEPT ![s] = <<k, rows[k]>>]
        PROVE  /\ base'[s] # Unread
               /\ ~stale[s] /\ org[s] \notin drift => base'[s] = IF rows = <<>> THEN <<0, 0>> ELSE <<1, rows[1]>>
    <3>1. k \in Nat /\ k >= 1 /\ k <= Len(rows) /\ base'[s] = <<k, rows[k]>>
      BY <1>5, <2>1, <2>4
    <3>2. <<k, rows[k]>> # Unread
      BY <3>1 DEF Unread
    <3>3. org[s] \notin drift => Len(rows) <= 1
      BY <1>3 DEF TotalsFollow
    <3>4. rows # <<>>
      BY <1>5, <3>1
    <3>5. org[s] \notin drift => k = 1
      BY <1>5, <3>1, <3>3
    <3> HIDE DEF rows
    <3> QED
      BY <3>1, <3>2, <3>4, <3>5
  <2> QED
    BY <2>2, <2>3, <2>4 DEF store_parsed_report
<1>8. SourcesCurrent'
  BY <1>2, <1>3, <1>6, <1>7 DEF SourcesCurrent
<1> QED
  BY <1>4, <1>8

(* A list of at most one row that is not empty has one. *)
LEMMA OneRow == ASSUME NEW q \in Seq(Nat), q # <<>>, Len(q) <= 1 PROVE Len(q) = 1
<1>1. Len(q) \in Nat \ {0}
  BY EmptySeq
<1>2. \A n \in Nat \ {0} : n <= 1 => n = 1
  OBVIOUS
<1>3. QED
  BY <1>1, <1>2, Zenon

LEMMA CommitSources ==
    ASSUME SourceInv, NEW s \in Session, Commit(s)
    PROVE  SourcesCurrent' /\ TotalsFollow'
<1> DEFINE o == org[s]
           n == Cardinality(draft[s] \cap Dmarc)
           rows == totals[o]
<1>1. /\ o # NoOrg
      /\ copies' = [copies EXCEPT ![o] = [r \in Report |-> IF r \in draft[s] THEN @[r] + 1 ELSE @[r]]]
      /\ totals' = [totals EXCEPT ![o] = NewTotals(s)]
      /\ drift' = IF stale[s] THEN drift \cup {o} ELSE drift
      /\ stale' = [t \in Session |-> IF t = s THEN FALSE
                       ELSE stale[t] \/ (t \in {u \in Session : u # s /\ org[u] = o}
                                         /\ base[t] # Unread /\ base[s] # Unread)]
      /\ org' = [org EXCEPT ![s] = NoOrg] /\ draft' = [draft EXCEPT ![s] = {}] /\ base' = [base EXCEPT ![s] = Unread]
  BY DEF Commit, EndTransaction
<1>2. o \in Org
  BY <1>1 DEF SourceInv, Inv, TypeOK
<1>3. \A t \in Session : t # s => org'[t] = org[t] /\ draft'[t] = draft[t] /\ base'[t] = base[t]
  BY <1>1 DEF SourceInv, Inv, TypeOK
<1>4. org'[s] = NoOrg /\ draft'[s] = {} /\ base'[s] = Unread
  BY <1>1 DEF SourceInv, Inv, TypeOK
<1>5. \A p \in Org : p # o => totals'[p] = totals[p] /\ copies'[p] = copies[p]
  BY <1>1, <1>2 DEF SourceInv, Inv, TypeOK
<1>6. totals'[o] = NewTotals(s)
  BY <1>1, <1>2 DEF SourceInv, Inv, TypeOK
<1>7. base[s] = Unread => totals'[o] = totals[o]
  BY <1>6 DEF NewTotals
<1>8. SourcesCurrent'
  <2> SUFFICES ASSUME NEW t \in Session
               PROVE  (/\ base[t] = Unread => draft[t] \cap Dmarc = {}
                       /\ base[t] # Unread => org[t] # NoOrg
                       /\ base[t] # Unread /\ ~stale[t] /\ org[t] \notin drift =>
                             base[t] = IF totals[org[t]] = <<>> THEN <<0, 0>> ELSE <<1, totals[org[t]][1]>>)'
    BY DEF SourcesCurrent
  <2>1. CASE t = s
    BY <1>4, <2>1
  <2>2. CASE t # s
    <3>1. org'[t] = org[t] /\ draft'[t] = draft[t] /\ base'[t] = base[t]
      BY <1>3, <2>2
    <3>2. /\ base[t] = Unread => draft[t] \cap Dmarc = {}
          /\ base[t] # Unread => org[t] # NoOrg
          /\ base[t] # Unread /\ ~stale[t] /\ org[t] \notin drift =>
                base[t] = IF totals[org[t]] = <<>> THEN <<0, 0>> ELSE <<1, totals[org[t]][1]>>
      BY DEF SourceInv, SourcesCurrent
    <3>3. ASSUME base[t] # Unread, ~stale'[t], org[t] \notin drift'
          PROVE  ~stale[t] /\ org[t] \notin drift /\ totals'[org[t]] = totals[org[t]]
      <4>1. ~stale[t] /\ org[t] \notin drift
        BY <1>1, <2>2, <3>3
      <4>2. org[t] \in Org
        BY <3>2, <3>3 DEF SourceInv, Inv, TypeOK
      <4>3. org[t] = o => base[s] = Unread
        BY <1>1, <2>2, <3>3
      <4> QED
        BY <1>5, <1>7, <4>1, <4>2, <4>3
    <3> QED
      BY <3>1, <3>2, <3>3
  <2> QED
    BY <2>1, <2>2
<1>9. TotalsFollow'
  <2> SUFFICES ASSUME NEW p \in Org, p \notin drift'
               PROVE  /\ Len(totals'[p]) <= 1
                      /\ SumFunctionOnSet(copies'[p], Dmarc) = IF totals'[p] = <<>> THEN 0 ELSE totals'[p][1]
    BY DEF TotalsFollow
  <2>1. p \notin drift
    BY <1>1
  <2>2. /\ Len(totals[p]) <= 1
        /\ SumFunctionOnSet(copies[p], Dmarc) = IF totals[p] = <<>> THEN 0 ELSE totals[p][1]
    BY <2>1 DEF SourceInv, TotalsFollow
  <2>3. CASE p # o
    BY <1>5, <2>2, <2>3
  <2>4. CASE p = o
    <3>1. ~stale[s]
      BY <1>1, <2>4
    <3>2. IsFiniteSet(Dmarc)
      BY ConstantsAssumption, FS_Subset
    <3>3. \A r \in Dmarc : copies[o][r] \in Nat /\ copies'[o][r] = IF r \in draft[s] THEN copies[o][r] + 1 ELSE copies[o][r]
      BY <1>1, <1>2, ConstantsAssumption DEF SourceInv, Inv, TypeOK
    <3>4. /\ SumFunctionOnSet(copies[o], Dmarc) \in Nat
          /\ SumFunctionOnSet(copies'[o], Dmarc) = SumFunctionOnSet(copies[o], Dmarc) + n
      <4> DEFINE f == copies[o]
                 g == copies'[o]
      <4>1. \A r \in Dmarc : f[r] \in Nat /\ g[r] = IF r \in draft[s] THEN f[r] + 1 ELSE f[r]
        BY <3>3
      <4> HIDE DEF f, g
      <4>2. SumFunctionOnSet(f, Dmarc) \in Nat /\ SumFunctionOnSet(g, Dmarc) = SumFunctionOnSet(f, Dmarc) + n
        BY <3>2, <4>1, SumGrows
      <4> QED
        BY <4>2 DEF f, g
    <3>5. rows \in Seq(Nat) /\ n \in Nat
      <4>1. IsFiniteSet(draft[s] \cap Dmarc)
        BY <3>2, FS_Subset
      <4>2. n \in Nat
        BY <4>1, FS_CardinalityType
      <4>3. rows \in Seq(Nat)
        BY <1>2 DEF SourceInv, Inv, TypeOK
      <4> QED
        BY <4>2, <4>3
    <3>6. CASE base[s] = Unread
      <4>1. n = 0
        BY <3>6, FS_EmptySet DEF SourceInv, SourcesCurrent
      <4>2. totals'[o] = rows
        BY <1>7, <3>6
      <4> HIDE DEF n
      <4> QED
        BY <2>2, <2>4, <3>4, <4>1, <4>2
    <3>7. CASE base[s] # Unread
      <4>1. base[s] = IF rows = <<>> THEN <<0, 0>> ELSE <<1, rows[1]>>
        BY <2>1, <2>4, <3>1, <3>7 DEF SourceInv, SourcesCurrent
      <4>2. CASE rows = <<>>
        <5>1. totals'[o] = Append(<<>>, n)
          BY <1>6, <3>7, <4>1, <4>2 DEF NewTotals
        <5>2. Len(totals'[o]) = 1 /\ totals'[o][1] = n /\ totals'[o] # <<>>
          BY <3>5, <5>1
        <5>3. SumFunctionOnSet(copies'[o], Dmarc) = n
          <6> HIDE DEF n
          <6> QED
            BY <2>2, <2>4, <3>4, <3>5, <4>2
        <5> HIDE DEF n
        <5> QED
          BY <2>4, <5>2, <5>3
      <4>3. CASE rows # <<>>
        <5>1. totals'[o] = [rows EXCEPT ![1] = rows[1] + n]
          BY <1>6, <3>7, <4>1, <4>3 DEF NewTotals
        <5>2. Len(rows) = 1
          <6>1. Len(rows) <= 1
            BY <2>2, <2>4
          <6> HIDE DEF rows, n
          <6> QED
            BY <3>5, <4>3, <6>1, OneRow
        <5>3. Len(totals'[o]) = 1 /\ totals'[o][1] = rows[1] + n /\ totals'[o] # <<>>
          <6> HIDE DEF rows, n
          <6> QED
            BY <3>5, <5>1, <5>2
        <5> HIDE DEF n
        <5> QED
          BY <2>2, <2>4, <3>4, <4>3, <5>3
      <4> QED
        BY <4>2, <4>3
    <3> QED
      BY <3>6, <3>7
  <2> QED
    BY <2>3, <2>4
<1> QED
  BY <1>8, <1>9

LEMMA NextSources == SourceInv /\ [Next]_vars => SourcesCurrent' /\ TotalsFollow'
<1> SUFFICES ASSUME SourceInv, [Next]_vars PROVE SourcesCurrent' /\ TotalsFollow'
  OBVIOUS
<1> USE DEF transaction, database
<1>1. CASE UNCHANGED vars
  BY <1>1, SameSources DEF vars
<1>2. CASE \/ \E o \in Org : domain_toggle(o)
           \/ \E m \in Mail, o \in Org : Reject(m, o)
           \/ \E s \in Session, m \in Mail : handle_RCPT(s, m)
  BY <1>2, SameSources DEF domain_toggle, Reject, handle_RCPT
<1>3. ASSUME NEW s \in Session, LoseConnection(s) \/ ImportBreaks(s) \/ Answer(s) \/ Skip(s) \/ store_tls_report(s)
      PROVE  SourcesCurrent' /\ TotalsFollow'
  BY <1>3, SameSources DEF LoseConnection, ImportBreaks, Answer, Skip, store_tls_report
<1>4. ASSUME NEW s \in Session, _persist_and_process(s) PROVE SourcesCurrent' /\ TotalsFollow'
  BY <1>4, BeginSources
<1>5. ASSUME NEW s \in Session, Abort(s) \/ Conflict(s) PROVE SourcesCurrent' /\ TotalsFollow'
  BY <1>5, RollbackSources DEF Abort, Conflict
<1>6. ASSUME NEW s \in Session, store_parsed_report(s) PROVE SourcesCurrent' /\ TotalsFollow'
  BY <1>6, StoreReportSources
<1>7. ASSUME NEW s \in Session, store_failure_report(s) PROVE SourcesCurrent' /\ TotalsFollow'
  <2>1. PICK r \in left[s] \cap Failure : Stored(s, r)
    BY <1>7 DEF store_failure_report
  <2>2. r \notin Dmarc
    BY <2>1 DEF Failure
  <2> QED
    BY <1>7, <2>1, <2>2, OthersSources DEF store_failure_report
<1>8. ASSUME NEW s \in Session, InsertTls(s) PROVE SourcesCurrent' /\ TotalsFollow'
  <2>1. inserting[s] \notin Dmarc
    BY <1>8, ConstantsAssumption DEF InsertTls, SourceInv, Inv, TypeOK
  <2> QED
    BY <1>8, <2>1, OthersSources DEF InsertTls
<1>9. ASSUME NEW s \in Session, Commit(s) PROVE SourcesCurrent' /\ TotalsFollow'
  BY <1>9, CommitSources
<1> QED
  BY <1>1, <1>2, <1>3, <1>4, <1>5, <1>6, <1>7, <1>8, <1>9 DEF Next, Step

(* The totals of a source are those of its stored reports, and it has one row, unless two transactions were at it at *)
(* the same time (_upsert_source_ip adds to the total it has read). *)
THEOREM SourceTotalsAddUp == Spec => []TotalsAddUp
<1>1. Init => SourceInv
  BY InitInv, InitSources DEF SourceInv
<1>2. SourceInv /\ [Next]_vars => SourceInv'
  BY NextInv, NextSources DEF SourceInv
<1>3. SourceInv => TotalsAddUp
  <2> SUFFICES ASSUME SourceInv, NEW o \in Org \ drift
               PROVE  Len(totals[o]) <= 1 /\ SumFunction(totals[o]) = SumFunctionOnSet(copies[o], Dmarc)
    BY DEF TotalsAddUp
  <2>1. /\ Len(totals[o]) <= 1
        /\ SumFunctionOnSet(copies[o], Dmarc) = IF totals[o] = <<>> THEN 0 ELSE totals[o][1]
    BY DEF SourceInv, TotalsFollow
  <2>2. totals[o] \in Seq(Nat)
    BY DEF SourceInv, Inv, TypeOK
  <2>3. CASE totals[o] = <<>>
    <3>1. SumFunctionOnSet(totals[o], {}) = 0
      BY SumOfNone
    <3>2. DOMAIN totals[o] = {}
      BY <2>3
    <3> QED
      BY <2>1, <2>3, <3>1, <3>2 DEF SumFunction
  <2>4. CASE totals[o] # <<>>
    <3>1. DOMAIN totals[o] = {1} /\ totals[o][1] \in Nat
      BY <2>1, <2>2, <2>4
    <3>2. SumFunctionOnSet(totals[o], {1}) = totals[o][1]
      BY <3>1, SumOfOne
    <3> QED
      BY <2>1, <2>4, <3>1, <3>2 DEF SumFunction
  <2> QED
    BY <2>3, <2>4
<1> QED
  BY <1>1, <1>2, <1>3, PTL DEF Spec

-----------------------------------------------------------------------------
(* The verdict on a row of a report (evaluate_record), for every public suffix list. *)

\* Every set of numbers that is not empty and has a bound has a greatest one, and that is its Max.
LEMMA GreatestLast ==
  ASSUME NEW b \in Nat, NEW T \in SUBSET (0 .. b), T # {}
  PROVE Max(T) \in T /\ \A y \in T : y <= Max(T)
<1> DEFINE U == {b - t : t \in T}
<1>1. U \in SUBSET Nat /\ U # {}
  <2>1. \A t \in T : b - t \in Nat
    OBVIOUS
  <2>2. PICK t \in T : TRUE
    OBVIOUS
  <2>3. b - t \in U
    BY <2>2
  <2> QED
    BY <2>1, <2>3
<1>2. PICK u \in U : \A v \in U : u <= v
  BY <1>1, LeastFirst
<1>3. PICK x \in T : u = b - x
  BY <1>2
<1>4. \A y \in T : b - x <= b - y
  BY <1>2, <1>3
<1>5. \A y \in T : x >= y
  BY <1>4
<1>6. Max(T) \in T /\ \A y \in T : Max(T) >= y
  BY <1>5 DEF Max
<1>7. QED
  BY <1>6

\* The last labels of a name
Ending(labels, n) == SubSeq(labels, Len(labels) - n + 1, Len(labels))

\* The last n labels are what somebody registered: one label below a public suffix, and no longer ending of the name is a
\* public suffix.  A last label that is on no list is a public suffix too.
RegisteredAt(n, labels) ==
    /\ n \in 2 .. Len(labels)
    /\ n = 2 \/ Ending(labels, n - 1) \in Public
    /\ \A m \in n .. Len(labels) : Ending(labels, m) \notin Public

\* Who registered this holds the name
HeldBy(owner, labels) == \E n \in Nat : RegisteredAt(n, labels) /\ owner = Ending(labels, n)

LEMMA EndingsCounted ==
  ASSUME NEW Label, NEW labels \in Seq(Label), NEW n \in 1 .. Len(labels)
  PROVE Ending(labels, n) \in Seq(Label) /\ Len(Ending(labels, n)) = n
BY SubSeqProperties DEF Ending

LEMMA WholeEnding ==
  ASSUME NEW Label, NEW labels \in Seq(Label), labels # <<>>
  PROVE Ending(labels, Len(labels)) = labels
BY SubSeqProperties DEF Ending

(* suffix_length is the length of the longest listed ending, or one. *)
LEMMA LongestSuffix ==
  ASSUME NEW Label, NEW labels \in Seq(Label)
  PROVE /\ suffix_length(labels) \in Nat \ {0}
        /\ suffix_length(labels) # 1 =>
              suffix_length(labels) <= Len(labels) /\ Ending(labels, suffix_length(labels)) \in Public
        /\ \A m \in 1 .. Len(labels) : Ending(labels, m) \in Public => m <= suffix_length(labels)
<1> DEFINE Listed == {n \in 1 .. Len(labels) : Ending(labels, n) \in Public}
           T == {1} \cup Listed
<1>1. suffix_length(labels) = Max(T)
  BY DEF suffix_length, Ending
<1>2. Len(labels) \in Nat /\ Len(labels) + 1 \in Nat
  OBVIOUS
<1>3. T \in SUBSET (0 .. Len(labels) + 1) /\ T # {}
  BY <1>2
<1>4. Max(T) \in T /\ \A y \in T : y <= Max(T)
  <2> HIDE DEF T
  <2> QED
    BY <1>2, <1>3, GreatestLast
<1>5. QED
  BY <1>1, <1>2, <1>4

(* A name is registered one label below its longest suffix, if it is that long. *)
LEMMA RegisteredBelowSuffix ==
  ASSUME NEW Label, NEW labels \in Seq(Label), NEW n \in Nat
  PROVE RegisteredAt(n, labels) <=> n = suffix_length(labels) + 1 /\ n <= Len(labels)
<1> DEFINE s == suffix_length(labels)
<1>1. /\ s \in Nat \ {0}
      /\ s # 1 => s <= Len(labels) /\ Ending(labels, s) \in Public
      /\ \A m \in 1 .. Len(labels) : Ending(labels, m) \in Public => m <= s
  BY LongestSuffix
<1> HIDE DEF s
<1>2. Len(labels) \in Nat
  OBVIOUS
<1>3. ASSUME RegisteredAt(n, labels) PROVE n = s + 1 /\ n <= Len(labels)
  <2>1. n \in 2 .. Len(labels) /\ (n = 2 \/ Ending(labels, n - 1) \in Public)
    BY <1>3 DEF RegisteredAt
  <2>2. \A m \in n .. Len(labels) : Ending(labels, m) \notin Public
    BY <1>3 DEF RegisteredAt
  <2>3. n - 1 <= s
    BY <1>1, <1>2, <2>1
  <2>4. s < n
    BY <1>1, <1>2, <2>1, <2>2
  <2> QED
    BY <1>1, <2>1, <2>3, <2>4
<1>4. ASSUME n = s + 1, n <= Len(labels) PROVE RegisteredAt(n, labels)
  <2>1. n = 2 \/ Ending(labels, n - 1) \in Public
    BY <1>1, <1>4
  <2>2. \A m \in n .. Len(labels) : Ending(labels, m) \notin Public
    BY <1>1, <1>2, <1>4
  <2> QED
    BY <1>1, <1>2, <1>4, <2>1, <2>2 DEF RegisteredAt
<1>5. QED
  BY <1>3, <1>4 DEF s

(* _organizational_domain is what was registered, and the name itself where nobody registered anything. *)
LEMMA OrganizationIsOwner ==
  ASSUME NEW Label, NEW name \in [labels : Seq(Label), dot : BOOLEAN]
  PROVE LET n == suffix_length(name.labels) + 1
        IN  _organizational_domain(name) = IF n <= Len(name.labels) THEN Ending(name.labels, n) ELSE name.labels
<1> DEFINE l == name.labels
           n == suffix_length(l) + 1
<1>1. l \in Seq(Label) /\ Len(l) \in Nat
  OBVIOUS
<1>2. n \in Nat /\ n >= 2
  BY <1>1, LongestSuffix
<1> HIDE DEF n
<1>3. privatesuffix(l) = IF Len(l) < n THEN <<>> ELSE Ending(l, n)
  BY DEF privatesuffix, Ending, n
<1>4. n <= Len(l) => l # <<>> /\ Ending(l, n) # <<>>
  BY <1>1, <1>2, EndingsCounted
<1>5. _organizational_domain(name) = IF n <= Len(l) THEN Ending(l, n) ELSE l
  BY <1>1, <1>2, <1>3, <1>4 DEF _organizational_domain
<1>6. QED
  BY <1>5 DEF n

(* What somebody registered is nobody's public suffix: a name that has no owner is not the owner of another one. *)
LEMMA OwnersAreOwned ==
  ASSUME NEW Label, NEW l \in Seq(Label), NEW k \in Seq(Label), NEW n \in Nat, RegisteredAt(n, l), k = Ending(l, n)
  PROVE suffix_length(k) + 1 <= Len(k)
<1>1. n \in 2 .. Len(l) /\ Ending(l, n) \notin Public
  BY DEF RegisteredAt
<1>2. Len(k) = n /\ k # <<>>
  BY <1>1, EndingsCounted
<1>3. Ending(k, Len(k)) \notin Public
  BY <1>1, <1>2, WholeEnding
<1>4. /\ suffix_length(k) \in Nat \ {0}
      /\ suffix_length(k) # 1 => suffix_length(k) <= Len(k) /\ Ending(k, suffix_length(k)) \in Public
  BY LongestSuffix
<1>5. suffix_length(k) # Len(k)
  BY <1>1, <1>2, <1>3, <1>4
<1>6. QED
  BY <1>1, <1>2, <1>4, <1>5

\* Names of domains, as reports write them
ReportedName(Label) == [labels : Seq(Label), dot : BOOLEAN]

(* Relaxed alignment is what RFC 7489 means by it, for every public suffix list: two names are aligned exactly if they are
   the same or one registration below a public suffix holds them both (_domains_aligned, _organizational_domain). *)
THEOREM AlignedNamesHaveOneOwner ==
  ASSUME NEW Label, NEW d1 \in ReportedName(Label), NEW d2 \in ReportedName(Label), d1 # NoName, d2 # NoName
  PROVE _domains_aligned(d1, d2, "r") <=>
            d1.labels = d2.labels \/ \E owner \in Seq(Label) : HeldBy(owner, d1.labels) /\ HeldBy(owner, d2.labels)
<1> DEFINE k == d1.labels
           l == d2.labels
           m == suffix_length(k) + 1
           n == suffix_length(l) + 1
           O1 == _organizational_domain(d1)
           O2 == _organizational_domain(d2)
<1>1. k \in Seq(Label) /\ l \in Seq(Label) /\ Len(k) \in Nat /\ Len(l) \in Nat
  BY DEF ReportedName
<1>2. m \in Nat /\ n \in Nat /\ m >= 2 /\ n >= 2
  BY <1>1, LongestSuffix
<1>3. /\ O1 = IF m <= Len(k) THEN Ending(k, m) ELSE k
      /\ O2 = IF n <= Len(l) THEN Ending(l, n) ELSE l
  BY OrganizationIsOwner DEF ReportedName
<1>4. _domains_aligned(d1, d2, "r") <=> O1 = O2
  BY DEF _domains_aligned
<1>5. ASSUME NEW o PROVE HeldBy(o, k) <=> m <= Len(k) /\ o = Ending(k, m)
  BY <1>1, <1>2, RegisteredBelowSuffix DEF HeldBy
<1>6. ASSUME NEW o PROVE HeldBy(o, l) <=> n <= Len(l) /\ o = Ending(l, n)
  BY <1>1, <1>2, RegisteredBelowSuffix DEF HeldBy
<1>7. k = l => m = n
  OBVIOUS
<1>8. m <= Len(k) /\ ~(n <= Len(l)) => Ending(k, m) # l
  <2> SUFFICES ASSUME m <= Len(k), Ending(k, m) = l PROVE n <= Len(l)
    OBVIOUS
  <2>1. RegisteredAt(m, k)
    BY <1>1, <1>2, RegisteredBelowSuffix
  <2> QED
    BY <1>1, <1>2, <2>1, OwnersAreOwned
<1>9. n <= Len(l) /\ ~(m <= Len(k)) => Ending(l, n) # k
  <2> SUFFICES ASSUME n <= Len(l), Ending(l, n) = k PROVE m <= Len(k)
    OBVIOUS
  <2>1. RegisteredAt(n, l)
    BY <1>1, <1>2, RegisteredBelowSuffix
  <2> QED
    BY <1>1, <1>2, <2>1, OwnersAreOwned
<1>10. m <= Len(k) => Ending(k, m) \in Seq(Label)
  BY <1>1, <1>2, EndingsCounted
<1> HIDE DEF k, l, m, n, O1, O2
<1>11. O1 = O2 <=> k = l \/ (m <= Len(k) /\ n <= Len(l) /\ Ending(k, m) = Ending(l, n))
  <2>1. CASE m <= Len(k) /\ n <= Len(l)
    BY <1>3, <1>7, <2>1
  <2>2. CASE m <= Len(k) /\ ~(n <= Len(l))
    BY <1>3, <1>7, <1>8, <2>2
  <2>3. CASE ~(m <= Len(k)) /\ n <= Len(l)
    BY <1>3, <1>7, <1>9, <2>3
  <2>4. CASE ~(m <= Len(k)) /\ ~(n <= Len(l))
    BY <1>3, <2>4
  <2> QED
    BY <2>1, <2>2, <2>3, <2>4
<1>12. (\E owner \in Seq(Label) : HeldBy(owner, k) /\ HeldBy(owner, l)) <=>
           m <= Len(k) /\ n <= Len(l) /\ Ending(k, m) = Ending(l, n)
  BY <1>5, <1>6, <1>10
<1>13. QED
  BY <1>4, <1>11, <1>12 DEF k, l

\* Rows of a report and what a domain has published, as far as the verdict looks at them
ReportRow(Label) == [header_from : ReportedName(Label), envelope_from : ReportedName(Label), dkim_result : STRING, spf_result : STRING,
                     auth_results : SUBSET [auth_type : STRING, domain : ReportedName(Label), result : STRING]]
PublishedPolicy(Label) == [domain : ReportedName(Label), adkim : STRING, aspf : STRING, p : STRING, sp : STRING, testing : BOOLEAN]

\* A row passes by its DKIM result, by a detailed result, or by its envelope sender.
Passes(item, adkim, aspf) ==
    \/ Authenticated(item, "dkim", adkim) \/ item.dkim_result = "pass"
    \/ Authenticated(item, "spf", aspf)
    \/ item.spf_result = "pass" /\ _domains_aligned(item.envelope_from, item.header_from, aspf)

LEMMA VerdictPasses ==
  ASSUME NEW item, NEW policy
  PROVE evaluate_record(item, policy).dmarc_pass <=> Passes(item, policy.adkim, policy.aspf)
BY Zenon DEF evaluate_record, Passes

LEMMA StrictIsAligned ==
  ASSUME NEW d1, NEW d2, _domains_aligned(d1, d2, "s"), NEW mode
  PROVE _domains_aligned(d1, d2, mode)
BY DEF _domains_aligned

(* The verdict follows the evidence, for every public suffix list, row and policy: results that are added never turn a pass
   into a failure, and what passes in the strict mode passes in every mode (evaluate_record). *)
THEOREM VerdictFollowsEvidence ==
  ASSUME NEW Label, NEW item \in ReportRow(Label), NEW policy \in PublishedPolicy(Label),
         NEW more \in SUBSET [auth_type : STRING, domain : ReportedName(Label), result : STRING]
  PROVE /\ evaluate_record(item, policy).dmarc_pass =>
               evaluate_record([item EXCEPT !.auth_results = @ \cup more], policy).dmarc_pass
        /\ evaluate_record(item, [policy EXCEPT !.adkim = "s", !.aspf = "s"]).dmarc_pass => evaluate_record(item, policy).dmarc_pass
<1> DEFINE richer == [item EXCEPT !.auth_results = @ \cup more]
           strict == [policy EXCEPT !.adkim = "s", !.aspf = "s"]
<1>1. /\ richer.auth_results = item.auth_results \cup more
      /\ richer.header_from = item.header_from /\ richer.envelope_from = item.envelope_from
      /\ richer.dkim_result = item.dkim_result /\ richer.spf_result = item.spf_result
  BY DEF ReportRow
<1>2. strict.adkim = "s" /\ strict.aspf = "s"
  BY DEF PublishedPolicy
<1> HIDE DEF richer, strict
<1>3. Passes(item, policy.adkim, policy.aspf) => Passes(richer, policy.adkim, policy.aspf)
  BY <1>1 DEF Passes, Authenticated
<1>4. Passes(item, strict.adkim, strict.aspf) => Passes(item, policy.adkim, policy.aspf)
  BY <1>2, StrictIsAligned DEF Passes, Authenticated
<1>5. QED
  BY <1>3, <1>4, VerdictPasses DEF richer, strict

\* The domains that passed SPF or DKIM, according to a row
Proven(item) == {ar.domain : ar \in {r \in item.auth_results : r.result = "pass"}}
                \cup {d \in {item.envelope_from} : item.spf_result = "pass"}

(* A pass is earned: in the relaxed mode a row without a DKIM pass of its own passes only if a domain that passed is the
   domain of the sender, or one registration holds them both (evaluate_record), for every public suffix list. *)
THEOREM PassesAreEarned ==
  ASSUME NEW Label, NEW item \in ReportRow(Label), NEW policy \in PublishedPolicy(Label),
         policy.adkim = "r", policy.aspf = "r", item.dkim_result # "pass", evaluate_record(item, policy).dmarc_pass
  PROVE \E d \in Proven(item) :
            \/ d.labels = item.header_from.labels
            \/ \E owner \in Seq(Label) : HeldBy(owner, d.labels) /\ HeldBy(owner, item.header_from.labels)
<1>1. Passes(item, "r", "r")
  BY VerdictPasses
<1>2. PICK d \in Proven(item) : _domains_aligned(d, item.header_from, "r")
  BY <1>1 DEF Passes, Authenticated, Proven
<1>3. d \in ReportedName(Label) /\ item.header_from \in ReportedName(Label)
  BY DEF Proven, ReportRow
<1>4. d # NoName /\ item.header_from # NoName
  BY <1>2 DEF _domains_aligned
<1>5. QED
  BY <1>2, <1>3, <1>4, AlignedNamesHaveOneOwner

-----------------------------------------------------------------------------
(* The numbers of pages and alerts, for any reports (Figures). *)

(* The element with which a sum begins makes no difference: take the smallest set for which it would. *)
LEMMA SumRemove ==
  ASSUME NEW S, IsFiniteSet(S), NEW f, \A y \in S : f[y] \in Nat, NEW x \in S
  PROVE  SumFunctionOnSet(f, S) = f[x] + SumFunctionOnSet(f, S \ {x}) /\ SumFunctionOnSet(f, S) \in Nat
<1> DEFINE F(T) == SumFunctionOnSet(f, T)
           Fine(T) == F(T) \in Nat /\ \A y \in T : F(T) = f[y] + F(T \ {y})
           Sizes == {n \in Nat : \E T \in SUBSET S : ~Fine(T) /\ Cardinality(T) = n}
<1>1. \A T \in SUBSET S : IsFiniteSet(T) /\ Cardinality(T) \in Nat
  BY FS_Subset, FS_CardinalityType
<1>2. SUFFICES ASSUME NEW U \in SUBSET S, ~Fine(U) PROVE FALSE
  <2>1. Fine(S)
    BY <1>2
  <2> QED
    BY <2>1
<1>3. PICK n \in Sizes : \A k \in Sizes : n <= k
  <2>1. Sizes # {} /\ Sizes \in SUBSET Nat
    <3> HIDE DEF Fine
    <3> QED
      BY <1>1, <1>2
  <2> HIDE DEF Sizes
  <2> QED
    BY <2>1, LeastFirst
<1>4. PICK T \in SUBSET S : ~Fine(T) /\ Cardinality(T) = n
  <2> HIDE DEF Fine
  <2> QED
    OBVIOUS
<1>5. ASSUME NEW y \in T PROVE Fine(T \ {y})
  <2>1. Cardinality(T \ {y}) = n - 1 /\ T \ {y} \in SUBSET S
    BY <1>1, <1>4, FS_RemoveElement
  <2>2. n \in Nat /\ n - 1 \notin Sizes /\ Cardinality(T \ {y}) \in Nat
    <3> HIDE DEF Fine
    <3> QED
      BY <1>1, <1>3, <2>1
  <2> HIDE DEF Fine
  <2> QED
    BY <2>1, <2>2
<1>6. CASE T = {}
  <2>1. Fine(T)
    BY <1>6, SumOfNone
  <2> QED
    BY <1>4, <2>1
<1>7. CASE T # {}
  <2> DEFINE a == Chosen(T)
  <2>1. a \in T /\ F(T) = f[a] + F(T \ {a})
    BY <1>1, <1>7, SumOfSome DEF Chosen
  <2> HIDE DEF F, a
  <2>2. ASSUME NEW y \in T, y # a PROVE F(T) = f[y] + F(T \ {y})
    <3>1. F(T \ {a}) = f[y] + F((T \ {a}) \ {y}) /\ F(T \ {y}) = f[a] + F((T \ {y}) \ {a})
      BY <1>5, <2>1, <2>2
    <3>2. (T \ {a}) \ {y} = (T \ {y}) \ {a}
      OBVIOUS
    <3>3. F((T \ {a}) \ {y}) \in Int /\ f[a] \in Nat /\ f[y] \in Nat
      <4>1. F(T \ {a}) \in Nat /\ F(T \ {y}) \in Nat
        BY <1>5, <2>1, <2>2
      <4>2. f[a] \in Nat /\ f[y] \in Nat
        BY <2>1, <2>2
      <4>3. Fine((T \ {a}) \ {y})
        <5>1. Cardinality((T \ {a}) \ {y}) = n - 2 /\ (T \ {a}) \ {y} \in SUBSET S
          <6>1. Cardinality(T \ {a}) = n - 1 /\ IsFiniteSet(T \ {a}) /\ y \in T \ {a} /\ n \in Nat
            BY <1>1, <1>4, <2>1, <2>2, FS_RemoveElement
          <6>2. Cardinality((T \ {a}) \ {y}) = Cardinality(T \ {a}) - 1
            BY <6>1, FS_RemoveElement
          <6>3. (n - 1) - 1 = n - 2
            BY <6>1
          <6> QED
            BY <6>1, <6>2, <6>3
        <5>2. n - 2 \notin Sizes /\ Cardinality((T \ {a}) \ {y}) \in Nat
          <6> HIDE DEF Fine
          <6> QED
            BY <1>1, <1>3, <5>1
        <5> HIDE DEF Fine
        <5> QED
          BY <5>1, <5>2
      <4> QED
        BY <4>2, <4>3
    <3> QED
      BY <2>1, <3>1, <3>2, <3>3
  <2>3. F(T) \in Nat
    <3>1. F(T \ {a}) \in Nat /\ f[a] \in Nat
      BY <1>5, <2>1
    <3> QED
      BY <2>1, <3>1
  <2>4. Fine(T)
    BY <2>1, <2>2, <2>3
  <2> QED
    BY <1>4, <2>4
<1>8. QED
  BY <1>6, <1>7

(* A sum looks at the values of its elements only. *)
LEMMA SumOfSame ==
  ASSUME NEW S, IsFiniteSet(S), NEW f, NEW g, \A x \in S : f[x] = g[x]
  PROVE  SumFunctionOnSet(f, S) = SumFunctionOnSet(g, S)
<1> DEFINE G == {T \in SUBSET S : SumFunctionOnSet(f, T) = SumFunctionOnSet(g, T)}
<1>1. {} \in G
  BY SumOfNone
<1>2. ASSUME NEW T \in SUBSET S, T # {}, T \ {Chosen(T)} \in G PROVE T \in G
  <2>1. Chosen(T) \in T /\ IsFiniteSet(T)
    BY <1>2, FS_Subset DEF Chosen
  <2> QED
    BY <1>2, <2>1, SumOfSome
<1>3. S \in G
  <2> HIDE DEF G
  <2> QED
    BY <1>1, <1>2, SetsGrow
<1>4. QED
  BY <1>3

\* The function of all sums of a column
TotalTerm(column, it, s) == IF s = {} THEN 0 ELSE Chosen(s)[column] + it[s \ {Chosen(s)}]
IsTotal(column, R, it) == it = [s \in SUBSET R |-> TotalTerm(column, it, s)]

LEMMA UnfoldTotal == ASSUME NEW column, NEW R PROVE Total(column, R) = (CHOOSE it : IsTotal(column, R, it))[R]
BY DEF Total, MapThenSumSet, MapThenFoldSet, IsTotal, TotalTerm, Chosen

(* The sum of a column is the sum of the function that reads it. *)
LEMMA TotalIsSum ==
  ASSUME NEW column, NEW R, IsFiniteSet(R)
  PROVE  Total(column, R) = SumFunctionOnSet([r \in R |-> r[column]], R)
<1> DEFINE f == [r \in R |-> r[column]]
<1>1. ASSUME NEW it, NEW s \in SUBSET R PROVE TotalTerm(column, it, s) = Term(f, it, s)
  <2>1. s # {} => Chosen(s) \in R
    BY DEF Chosen
  <2> QED
    BY <2>1 DEF TotalTerm, Term
<1>2. ASSUME NEW it PROVE IsTotal(column, R, it) <=> IsSum(f, R, it)
  <2>1. [s \in SUBSET R |-> TotalTerm(column, it, s)] = [s \in SUBSET R |-> Term(f, it, s)]
    <3> HIDE DEF f
    <3> QED
      BY <1>1
  <2> QED
    BY <2>1 DEF IsTotal, IsSum
<1> HIDE DEF f
<1>3. IsSum(f, R, CHOOSE it : IsSum(f, R, it)) /\ IsSum(f, R, CHOOSE it : IsTotal(column, R, it))
  BY <1>2, SumExists
<1>4. (CHOOSE it : IsTotal(column, R, it))[R] = (CHOOSE it : IsSum(f, R, it))[R]
  BY <1>3, SumUnique
<1>5. QED
  BY <1>4, UnfoldTotal, Unfold DEF f

\* Rows that can be counted
Tallied(column, R) == IsFiniteSet(R) /\ \A r \in R : r[column] \in Nat

(* The sum over two parts is the sum of the parts. *)
LEMMA SumOfParts ==
  ASSUME NEW A, NEW B, IsFiniteSet(A), IsFiniteSet(B), A \cap B = {}, NEW f, \A x \in A \cup B : f[x] \in Nat
  PROVE  SumFunctionOnSet(f, A \cup B) = SumFunctionOnSet(f, A) + SumFunctionOnSet(f, B)
<1> DEFINE F(T) == SumFunctionOnSet(f, T)
           G == {T \in SUBSET B : F(A \cup T) = F(A) + F(T) /\ F(A) \in Nat /\ F(T) \in Nat}
<1>1. {} \in G
  <2>1. F(A) \in Nat
    <3>1. CASE A = {}
      BY <3>1, SumOfNone
    <3>2. CASE A # {}
      BY <3>2, SumRemove
    <3> QED
      BY <3>1, <3>2
  <2>2. A \cup {} = A /\ F({}) = 0
    BY SumOfNone
  <2> QED
    BY <2>1, <2>2
<1>2. ASSUME NEW T \in SUBSET B, T # {}, T \ {Chosen(T)} \in G PROVE T \in G
  <2> DEFINE a == Chosen(T)
  <2>1. a \in T /\ IsFiniteSet(T) /\ IsFiniteSet(A \cup T)
    BY <1>2, FS_Subset, FS_Union DEF Chosen
  <2>2. (A \cup T) \ {a} = A \cup (T \ {a})
    BY <2>1
  <2>3. F(T) = f[a] + F(T \ {a})
    BY <2>1, SumRemove
  <2>4. F(A \cup T) = f[a] + F(A \cup (T \ {a}))
    <3>1. a \in A \cup T /\ \A y \in A \cup T : f[y] \in Nat
      BY <2>1
    <3>2. F(A \cup T) = f[a] + F((A \cup T) \ {a})
      BY <2>1, <3>1, SumRemove
    <3> QED
      BY <2>2, <3>2
  <2>5. F(A \cup (T \ {a})) = F(A) + F(T \ {a}) /\ F(A) \in Nat /\ F(T \ {a}) \in Nat
    BY <1>2
  <2>6. f[a] \in Nat
    BY <2>1
  <2>7. F(A \cup T) = F(A) + F(T) /\ F(A) \in Nat /\ F(T) \in Nat
    <3> HIDE DEF F, a
    <3> QED
      BY <2>3, <2>4, <2>5, <2>6
  <2> QED
    BY <2>7
<1>3. B \in G
  <2> HIDE DEF G
  <2> QED
    BY <1>1, <1>2, SetsGrow
<1>4. QED
  BY <1>3

LEMMA TotalOfParts ==
  ASSUME NEW column, NEW A, NEW B, Tallied(column, A), Tallied(column, B), A \cap B = {}
  PROVE  /\ Total(column, A \cup B) = Total(column, A) + Total(column, B)
         /\ Total(column, A) \in Nat /\ Total(column, B) \in Nat
<1> DEFINE f == [r \in A \cup B |-> r[column]]
<1>1. IsFiniteSet(A) /\ IsFiniteSet(B) /\ IsFiniteSet(A \cup B) /\ \A x \in A \cup B : f[x] \in Nat
  BY FS_Union DEF Tallied
<1>2. ASSUME NEW R \in {A, B, A \cup B}
      PROVE  Total(column, R) = SumFunctionOnSet(f, R) /\ SumFunctionOnSet(f, R) \in Nat
  <2>1. IsFiniteSet(R) /\ \A x \in R : f[x] = [r \in R |-> r[column]][x]
    BY <1>1
  <2>2. SumFunctionOnSet(f, R) = SumFunctionOnSet([r \in R |-> r[column]], R)
    <3> HIDE DEF f
    <3> QED
      BY <2>1, SumOfSame
  <2>3. Total(column, R) = SumFunctionOnSet(f, R)
    BY <2>1, <2>2, TotalIsSum
  <2>4. \A x \in R : f[x] \in Nat
    BY <1>1
  <2> HIDE DEF f
  <2>5. CASE R = {}
    BY <2>3, <2>5, SumOfNone
  <2>6. CASE R # {}
    BY <2>1, <2>3, <2>4, <2>6, SumRemove
  <2> QED
    BY <2>5, <2>6
<1> HIDE DEF f
<1>3. SumFunctionOnSet(f, A \cup B) = SumFunctionOnSet(f, A) + SumFunctionOnSet(f, B)
  BY <1>1, SumOfParts
<1>4. QED
  BY <1>2, <1>3

LEMMA TotalOfNone == ASSUME NEW column PROVE Total(column, {}) = 0 /\ Tallied(column, {})
BY FS_EmptySet, TotalIsSum, SumOfNone DEF Tallied

LEMMA TotalOfOne ==
  ASSUME NEW column, NEW r, r[column] \in Nat
  PROVE  Total(column, {r}) = r[column] /\ Tallied(column, {r})
<1> DEFINE f == [q \in {r} |-> q[column]]
<1>1. IsFiniteSet({r}) /\ f[r] = r[column]
  BY FS_Singleton
<1>2. Total(column, {r}) = SumFunctionOnSet(f, {r})
  BY <1>1, TotalIsSum
<1> HIDE DEF f
<1>3. SumFunctionOnSet(f, {r}) = r[column]
  BY <1>1, SumOfOne
<1>4. QED
  BY <1>1, <1>2, <1>3 DEF Tallied

LEMMA TalliedPart ==
  ASSUME NEW column, NEW R, Tallied(column, R), NEW P \in SUBSET R
  PROVE  Tallied(column, P) /\ Total(column, P) \in Nat
<1>1. Tallied(column, P)
  BY FS_Subset DEF Tallied
<1>2. Tallied(column, {}) /\ P \cap {} = {}
  BY TotalOfNone
<1>3. QED
  BY <1>1, <1>2, TotalOfParts

Group(S, key, v) == {x \in S : key[x] = v}
LinesOf(line, K) == {line[v] : v \in K}

(* The query that groups: rows with a key, one line for each key with the sum of its rows.  The lines add up to all rows. *)
LEMMA TotalOfGroups ==
  ASSUME NEW column, NEW S, Tallied(column, S), NEW K, IsFiniteSet(K), NEW key, \A x \in S : key[x] \in K,
         NEW sums, NEW line, \A v \in K : line[v][sums] = Total(column, Group(S, key, v)),
         \A u, v \in K : line[u] = line[v] => u = v
  PROVE  Total(sums, LinesOf(line, K)) = Total(column, S) /\ Tallied(sums, LinesOf(line, K))
<1> DEFINE Lines(T) == {line[v] : v \in T}
           Of(T) == {x \in S : key[x] \in T}
           G == {T \in SUBSET K : Tallied(sums, Lines(T)) /\ Total(sums, Lines(T)) = Total(column, Of(T))}
<1>1. {} \in G
  <2>1. Lines({}) = {} /\ Of({}) = {}
    OBVIOUS
  <2> HIDE DEF Lines, Of
  <2> QED
    BY <2>1, TotalOfNone
<1>2. ASSUME NEW T \in SUBSET K, T # {}, T \ {Chosen(T)} \in G PROVE T \in G
  <2> DEFINE a == Chosen(T)
             R == T \ {a}
             One == {x \in S : key[x] = a}
  <2>1. a \in T
    BY <1>2 DEF Chosen
  <2>2. Of(T) = Of(R) \cup One /\ Of(R) \cap One = {} /\ Of(R) \in SUBSET S /\ One \in SUBSET S
    BY <2>1
  <2>3. Lines(T) = Lines(R) \cup {line[a]} /\ Lines(R) \cap {line[a]} = {}
    BY <2>1
  <2>4. line[a][sums] = Total(column, One)
    BY <2>1 DEF Group
  <2>5. Tallied(sums, Lines(R)) /\ Total(sums, Lines(R)) = Total(column, Of(R))
    BY <1>2
  <2> HIDE DEF Lines, Of, One, R, a
  <2>6. Tallied(column, Of(R)) /\ Tallied(column, One) /\ Total(column, One) \in Nat
    BY <2>2, TalliedPart
  <2>7. Total(column, Of(T)) = Total(column, Of(R)) + Total(column, One)
    BY <2>2, <2>6, TotalOfParts
  <2>8. Tallied(sums, {line[a]}) /\ Total(sums, {line[a]}) = Total(column, One)
    BY <2>4, <2>6, TotalOfOne
  <2>9. Total(sums, Lines(T)) = Total(sums, Lines(R)) + Total(sums, {line[a]})
    BY <2>3, <2>5, <2>8, TotalOfParts
  <2>10. Tallied(sums, Lines(T))
    <3> DEFINE P == Lines(R)
               Q == {line[a]}
    <3>1. Tallied(sums, P) /\ Tallied(sums, Q)
      BY <2>5, <2>8
    <3> HIDE DEF P, Q
    <3>2. Tallied(sums, P \cup Q)
      BY <3>1, FS_Union DEF Tallied
    <3> QED
      BY <2>3, <3>2 DEF P, Q
  <2> QED
    BY <2>5, <2>7, <2>8, <2>9, <2>10
<1>3. K \in G
  <2> HIDE DEF G
  <2> QED
    BY <1>1, <1>2, SetsGrow
<1>4. Of(K) = S
  OBVIOUS
<1>5. QED
  BY <1>3, <1>4 DEF LinesOf

\* The values of a function on a finite set
LEMMA FiniteImage == ASSUME NEW f, IsFiniteSet(DOMAIN f), f = [x \in DOMAIN f |-> f[x]] PROVE IsFiniteSet({f[x] : x \in DOMAIN f})
<1>1. f \in Surjection(DOMAIN f, {f[x] : x \in DOMAIN f})
  BY DEF Surjection
<1>2. QED
  BY <1>1, FS_Surjection

\* The reports of a world are finitely many, with finitely many rows that count messages.
ReportsTallied(w) == IsFiniteSet(w.reports) /\ \A r \in w.reports : Tallied("count", r.rows)

LEMMA RecordsTallied ==
  ASSUME NEW w, ReportsTallied(w), NEW D, NEW start, NEW end
  PROVE  Tallied("count", _records(w, D, start, end))
<1> DEFINE chosenReports == _reports(w, D, start, end)
           f == [r \in chosenReports |-> r.rows]
<1>1. chosenReports \in SUBSET w.reports
  BY DEF _reports, Within
<1>2. IsFiniteSet(chosenReports)
  BY <1>1, FS_Subset DEF ReportsTallied
<1> HIDE DEF chosenReports
<1>3. IsFiniteSet({f[r] : r \in DOMAIN f})
  BY <1>2, FiniteImage
<1>4. _records(w, D, start, end) = UNION {f[r] : r \in DOMAIN f}
  BY DEF _records, chosenReports
<1>5. \A T \in {f[r] : r \in DOMAIN f} : IsFiniteSet(T) /\ \A x \in T : x.count \in Nat
  BY <1>1 DEF ReportsTallied, Tallied
<1> HIDE DEF f
<1>6. IsFiniteSet(UNION {f[r] : r \in DOMAIN f})
  BY <1>3, <1>5, FS_UNION
<1>7. QED
  BY <1>4, <1>5, <1>6 DEF Tallied

(* The dashboard counts every message once, for all reports: failing mail is what did not pass, its two shares add up to it, and
   the dispositions to all messages (get_dashboard_stats, get_failure_split and get_disposition_counts, three queries). *)
THEOREM DashboardAddsUp ==
  ASSUME NEW w, ReportsTallied(w), NEW time \in Int, NEW days \in Nat, NEW old \in Nat
  PROVE LET stats == get_dashboard_stats(w, time, days, old)
            split == get_failure_split(w, time, days)
        IN  /\ stats.pass + stats.fail = stats.total
            /\ stats.fail = Messages(Failing(_records(w, Scope(w, Whole), time - days, time + 1)))
            /\ split.forged + split.to_check = stats.fail
            /\ Total("messages", get_disposition_counts(w, time, days)) = stats.total
<1> DEFINE rows == _records(w, Scope(w, Whole), time - days, time + 1)
           good == {r \in rows : dmarc_pass(r)}
           bad == Failing(rows)
           forged == {r \in bad : \E s \in SourceOf(w, r.ip) : s.classification \in {"suspicious", "ignored"}}
           stats == get_dashboard_stats(w, time, days, old)
           split == get_failure_split(w, time, days)
           counts == get_disposition_counts(w, time, days)
<1>1. Tallied("count", rows)
  BY RecordsTallied
<1>2. /\ stats.total = Messages(rows) /\ stats.pass = Messages(good) /\ stats.fail = Messages(rows) - Messages(good)
      /\ split.forged = Messages(forged) /\ split.to_check = Messages(bad \ forged)
  BY DEF get_dashboard_stats, get_failure_split
<1>3. bad = {r \in rows : ~dmarc_pass(r)}
  BY DEF Failing, FAILING
<1>4. counts = {[disposition |-> p, messages |-> Messages({r \in rows : r.disposition = p})] : p \in {r.disposition : r \in rows}}
  BY DEF get_disposition_counts
<1> HIDE DEF stats, split, counts, rows
<1>5. good \in SUBSET rows /\ bad \in SUBSET rows /\ good \cap bad = {} /\ good \cup bad = rows
  BY <1>3
<1> HIDE DEF good, bad
<1>6. Messages(rows) = Messages(good) + Messages(bad) /\ Messages(good) \in Nat /\ Messages(bad) \in Nat
  BY <1>1, <1>5, TalliedPart, TotalOfParts DEF Messages
<1>7. Messages(bad) = Messages(forged) + Messages(bad \ forged)
  <2>1. forged \in SUBSET bad
    OBVIOUS
  <2> HIDE DEF forged
  <2>2. forged \in SUBSET rows /\ bad \ forged \in SUBSET rows /\ forged \cap (bad \ forged) = {} /\ forged \cup (bad \ forged) = bad
    BY <1>5, <2>1
  <2> QED
    BY <1>1, <2>2, TalliedPart, TotalOfParts DEF Messages
<1>8. Total("messages", counts) = Messages(rows)
  <2> DEFINE key == [r \in rows |-> r.disposition]
             K == {key[r] : r \in DOMAIN key}
             line == [p \in K |-> [disposition |-> p, messages |-> Messages({r \in rows : r.disposition = p})]]
  <2>1. IsFiniteSet(DOMAIN key) /\ key = [x \in DOMAIN key |-> key[x]]
    BY <1>1 DEF Tallied
  <2>2. IsFiniteSet(K)
    <3> HIDE DEF key
    <3> QED
      BY <2>1, FiniteImage
  <2>3. \A r \in rows : key[r] = r.disposition /\ key[r] \in K
    OBVIOUS
  <2>4. counts = {line[p] : p \in K}
    <3>1. K = {r.disposition : r \in rows}
      OBVIOUS
    <3>2. \A p \in K : line[p] = [disposition |-> p, messages |-> Messages({r \in rows : r.disposition = p})]
      OBVIOUS
    <3>3. {line[p] : p \in K} = {[disposition |-> p, messages |-> Messages({r \in rows : r.disposition = p})] : p \in K}
      <4> HIDE DEF K, line
      <4> QED
        BY <3>2
    <3> HIDE DEF K, line
    <3> QED
      BY <1>4, <3>1, <3>3
  <2>5. \A p \in K : line[p].disposition = p /\ line[p].messages = Messages({r \in rows : r.disposition = p})
    OBVIOUS
  <2> HIDE DEF key, K, line
  <2>6. \A p \in K : line[p]["messages"] = Total("count", Group(rows, key, p))
    <3> SUFFICES ASSUME NEW p \in K PROVE line[p]["messages"] = Total("count", Group(rows, key, p))
      OBVIOUS
    <3>1. Group(rows, key, p) = {r \in rows : r.disposition = p}
      BY <2>3 DEF Group
    <3> QED
      BY <2>5, <3>1 DEF Messages
  <2>7. \A p, q \in K : line[p] = line[q] => p = q
    BY <2>5
  <2>8. Total("messages", LinesOf(line, K)) = Total("count", rows)
    <3>1. \A r \in rows : key[r] \in K
      BY <2>3
    <3> QED
      BY <1>1, <2>2, <3>1, <2>6, <2>7, TotalOfGroups
  <2> QED
    BY <2>4, <2>8 DEF Messages, LinesOf
<1> HIDE DEF forged
<1>9. /\ stats.pass + stats.fail = stats.total /\ stats.fail = Messages(bad)
      /\ split.forged + split.to_check = stats.fail /\ Total("messages", counts) = stats.total
  BY <1>2, <1>6, <1>7, <1>8
<1>10. QED
  BY <1>9 DEF stats, split, counts, bad, rows

\* What a row fails at is asked of the row alone.
Fails(kind, r) == r \in FAILING(kind, {r})

LEMMA FailingRows == ASSUME NEW kind, NEW R PROVE FAILING(kind, R) = {r \in R : Fails(kind, r)}
BY DEF FAILING, Fails

LEMMA SourceCounts ==
  ASSUME NEW w, NEW kind, NEW a, NEW entries
  PROVE  /\ FailedSource(w, kind, a, entries).ip = a
         /\ FailedSource(w, kind, a, entries).failed = Messages(FAILING(kind, entries))
BY Zenon DEF FailedSource

\* The rows a page is about
PageRows(w, domain, kind, ip, start, end) ==
    {r \in _records(w, Scope(w, domain), start, end + 1) : kind \in SourceType => r.ip = ip}

(* The sources of an alert and the causes behind it both account for the messages it counts, for all reports, kinds of alerts and
   windows (analyze, summarize_causes): none is lost and none is counted for two sources or causes. *)
THEOREM CausesAddUp ==
  ASSUME NEW w, ReportsTallied(w), NEW domain, NEW kind, NEW ip, NEW start \in Int, NEW end \in Int
  PROVE LET page == analyze(w, domain, kind, ip, start, end)
            rows == PageRows(w, domain, kind, ip, start, end)
        IN  /\ Total("messages", page.causes) = page.failed
            /\ page.failed = Messages(FAILING(kind, rows))
            /\ page.total = Messages(rows)
<1> DEFINE all == _records(w, Scope(w, domain), start, end + 1)
           rows == {r \in all : kind \in SourceType => r.ip = ip}
           Of(a) == {r \in rows : r.ip = a}
           bad == FAILING(kind, rows)
           K == {b \in Sending(rows) : kind \in SourceType \/ FAILING(kind, Of(b)) # {}}
           line == [b \in K |-> FailedSource(w, kind, b, Of(b))]
           items == LinesOf(line, K)
           page == analyze(w, domain, kind, ip, start, end)
<1>1. Tallied("count", all)
  BY RecordsTallied
<1>2. /\ page.failed = Total("failed", items) /\ page.total = Messages(rows)
      /\ page.causes = summarize_causes(items)
  <2>1. rows = IF kind \in SourceType THEN {r \in all : r.ip = ip} ELSE all
    OBVIOUS
  <2> HIDE DEF rows
  <2>2. items = {FailedSource(w, kind, a, Of(a)) : a \in K}
    <3>1. \A a \in K : line[a] = FailedSource(w, kind, a, Of(a))
      OBVIOUS
    <3> HIDE DEF K, line, Of
    <3> QED
      BY <3>1 DEF LinesOf
  <2> HIDE DEF items, line
  <2>3. page = [failed |-> Total("failed", items), total |-> Messages(rows), items |-> items, causes |-> summarize_causes(items)]
    BY <2>1, <2>2 DEF analyze
  <2> QED
    BY <2>3
<1>3. rows \in SUBSET all
  OBVIOUS
<1> HIDE DEF all, page
<1>4. Tallied("count", rows)
  <2> HIDE DEF rows
  <2> QED
    BY <1>1, <1>3, TalliedPart
<1> HIDE DEF rows
<1>5. bad \in SUBSET rows
  BY FailingRows
<1>6. Tallied("count", bad)
  <2> HIDE DEF bad
  <2> QED
    BY <1>4, <1>5, TalliedPart
<1>7. IsFiniteSet(K)
  <2> DEFINE f == [r \in rows |-> r.ip]
  <2>1. IsFiniteSet({f[r] : r \in DOMAIN f})
    <3>1. IsFiniteSet(DOMAIN f) /\ f = [x \in DOMAIN f |-> f[x]]
      BY <1>4 DEF Tallied
    <3> HIDE DEF f
    <3> QED
      BY <3>1, FiniteImage
  <2>2. K \in SUBSET {f[r] : r \in DOMAIN f}
    BY DEF Sending
  <2> HIDE DEF K, f
  <2> QED
    BY <2>1, <2>2, FS_Subset
<1> DEFINE key == [r \in bad |-> r.ip]
<1>8. \A r \in bad : key[r] = r.ip /\ key[r] \in K
  BY FailingRows DEF Sending
<1>9. \A a : Group(bad, key, a) = FAILING(kind, Of(a))
  BY FailingRows, <1>8 DEF Group
<1>10. \A a \in K : line[a].ip = a /\ line[a]["failed"] = Messages(FAILING(kind, Of(a)))
  <2>1. \A a \in K : line[a] = FailedSource(w, kind, a, Of(a))
    OBVIOUS
  <2> HIDE DEF K, line, Of
  <2> QED
    BY <2>1, SourceCounts
<1> HIDE DEF bad, K, key, line, Of
<1>11. \A a \in K : line[a]["failed"] = Total("count", Group(bad, key, a))
  BY <1>9, <1>10 DEF Messages
<1>12. \A a, b \in K : line[a] = line[b] => a = b
  BY <1>10
<1>13. Total("failed", items) = Total("count", bad) /\ Tallied("failed", items)
  BY <1>6, <1>7, <1>8, <1>11, <1>12, TotalOfGroups
<1> HIDE DEF items
<1>14. Total("messages", summarize_causes(items)) = Total("failed", items)
  <2> DEFINE kindOf == [i \in items |-> categorize(i)]
             C == {kindOf[i] : i \in DOMAIN kindOf}
             cause == [k \in C |-> [key |-> k, messages |-> Total("failed", {i \in items : categorize(i) = k}),
                                    sources |-> Cardinality({i \in items : categorize(i) = k})]]
  <2>1. IsFiniteSet(C)
    <3>1. IsFiniteSet(DOMAIN kindOf) /\ kindOf = [x \in DOMAIN kindOf |-> kindOf[x]]
      BY <1>13 DEF Tallied
    <3> HIDE DEF kindOf
    <3> QED
      BY <3>1, FiniteImage
  <2>2. \A i \in items : kindOf[i] = categorize(i) /\ kindOf[i] \in C
    OBVIOUS
  <2>3. C = {categorize(i) : i \in items}
    OBVIOUS
  <2>4. \A k \in C : cause[k] = [key |-> k, messages |-> Total("failed", {i \in items : categorize(i) = k}),
                                 sources |-> Cardinality({i \in items : categorize(i) = k})]
    OBVIOUS
  <2> HIDE DEF C, cause
  <2>5. summarize_causes(items) = LinesOf(cause, C)
    <3>1. LinesOf(cause, C) = {[key |-> k, messages |-> Total("failed", {i \in items : categorize(i) = k}),
                                sources |-> Cardinality({i \in items : categorize(i) = k})] : k \in C}
      BY <2>4 DEF LinesOf
    <3> QED
      BY <2>3, <3>1 DEF summarize_causes
  <2>6. \A k \in C : {i \in items : categorize(i) = k} = Group(items, kindOf, k)
    BY <2>2 DEF Group
  <2> HIDE DEF kindOf
  <2>7. \A k \in C : cause[k].key = k /\ cause[k]["messages"] = Total("failed", Group(items, kindOf, k))
    <3> SUFFICES ASSUME NEW k \in C PROVE cause[k].key = k /\ cause[k]["messages"] = Total("failed", Group(items, kindOf, k))
      OBVIOUS
    <3> DEFINE same == {i \in items : categorize(i) = k}
    <3>1. cause[k] = [key |-> k, messages |-> Total("failed", same), sources |-> Cardinality(same)] /\ same = Group(items, kindOf, k)
      BY <2>4, <2>6
    <3> HIDE DEF same
    <3> QED
      BY <3>1
  <2>8. \A j, k \in C : cause[j] = cause[k] => j = k
    BY <2>7
  <2>9. Total("messages", LinesOf(cause, C)) = Total("failed", items)
    BY <1>13, <2>1, <2>2, <2>7, <2>8, TotalOfGroups
  <2> QED
    BY <2>5, <2>9
<1>15. /\ Total("messages", page.causes) = page.failed
       /\ page.failed = Messages(bad) /\ page.total = Messages(rows)
  BY <1>2, <1>13, <1>14 DEF Messages
<1>16. QED
  BY <1>15 DEF page, bad, rows, all, PageRows

-----------------------------------------------------------------------------
(* What is stored (ReportStore), at any moment. *)

\* Rows of a table have these columns
IsRow(row, columns) == row = [k \in columns |-> row[k]]

Tables == {"reports", "sources", "domains", "address", "alerts", "tls", "imports", "rejections"}
DomainColumns == {"name", "active", "policy", "pct", "testing", "address", "dns_status"}
SourceColumns == {"ip", "first", "enriched", "sender", "classification", "total", "passed"}

Names(D) == {d.name : d \in D}

DomainsKept(D) == IsFiniteSet(D) /\ \A d \in D : IsRow(d, DomainColumns) /\ d.name \in Zone

\* A report came in by now, names a stored domain or none, and has rows of its own
ReportKept(r, N, t) ==
    /\ r.at \in Nat /\ r.at <= t /\ r.begin \in Int /\ r.domain \in N \cup {Nobody}
    /\ Tallied("count", r.rows) /\ \A x \in r.rows : x.report = r.id

ReportsKept(R, N, t) ==
    /\ IsFiniteSet(R) /\ \A r \in R : ReportKept(r, N, t)
    /\ \A r, q \in R : r.id = q.id => r = q

RowsAt(R, ip) == {x \in UNION {r.rows : r \in R} : x.ip = ip}

SourceKept(s, R, t) ==
    /\ IsRow(s, SourceColumns) /\ s.first \in Nat /\ s.first <= t /\ s.total \in Nat
    /\ s.first >= t - KeepDays =>
          s.total = Messages(RowsAt(R, s.ip)) /\ \E r \in R : r.at = s.first /\ s.ip \in Sending(r.rows)

\* One row for each source that reports name, from its first one on; retention leaves young sources their reports
SourcesKept(S, R, t) ==
    /\ IsFiniteSet(S) /\ \A s \in S : SourceKept(s, R, t)
    /\ \A s, q \in S : s.ip = q.ip => s = q
    /\ \A r \in R : \A ip \in Sending(r.rows) : \E s \in S : s.ip = ip /\ s.first <= r.at

Kept(w, t) ==
    /\ IsRow(w, Tables) /\ DomainsKept(w.domains)
    /\ ReportsKept(w.reports, Names(w.domains), t) /\ SourcesKept(w.sources, w.reports, t)

StoreInv == today \in Nat /\ Kept(world, today)

LEMMA RowExcept ==
  ASSUME NEW columns, NEW row, IsRow(row, columns), NEW k \in columns, NEW v
  PROVE  /\ IsRow([row EXCEPT ![k] = v], columns) /\ [row EXCEPT ![k] = v][k] = v
         /\ \A j \in columns : j # k => [row EXCEPT ![k] = v][j] = row[j]
<1> DEFINE new == [row EXCEPT ![k] = v]
<1>1. row = [j \in columns |-> row[j]]
  BY DEF IsRow
<1>2. DOMAIN row = columns
  BY <1>1
<1>3. new = [j \in columns |-> IF j = k THEN v ELSE row[j]]
  BY <1>1, <1>2
<1> HIDE DEF new
<1>4. /\ new = [j \in columns |-> new[j]] /\ new[k] = v
      /\ \A j \in columns : j # k => new[j] = row[j]
  BY <1>3
<1>5. QED
  BY <1>4 DEF new, IsRow

LEMMA StoreStarts == StoreInit => StoreInv
<1> SUFFICES ASSUME StoreInit PROVE StoreInv
  OBVIOUS
<1>1. PICK a, b, c, e, f : world = [reports |-> {}, sources |-> {}, domains |-> {}, address |-> a, alerts |-> b, tls |-> c,
                                    imports |-> e, rejections |-> f]
  BY Zenon DEF StoreInit
<1>2. IsRow(world, Tables) /\ world.reports = {} /\ world.sources = {} /\ world.domains = {}
  BY <1>1 DEF IsRow, Tables
<1>3. today = 0 /\ IsFiniteSet({})
  BY FS_EmptySet DEF StoreInit
<1>4. DomainsKept({}) /\ ReportsKept({}, Names({}), today) /\ SourcesKept({}, {}, today)
  BY <1>3 DEF DomainsKept, ReportsKept, SourcesKept
<1>5. QED
  BY <1>2, <1>3, <1>4 DEF StoreInv, Kept

(* Time passes: more sources are old ones. *)
LEMMA TimePasses == ASSUME NEW w, NEW t \in Nat, Kept(w, t), NEW u \in Nat, t <= u PROVE Kept(w, u)
<1>1. \A s \in w.sources : SourceKept(s, w.reports, u)
  <2> SUFFICES ASSUME NEW s \in w.sources PROVE SourceKept(s, w.reports, u)
    OBVIOUS
  <2>1. SourceKept(s, w.reports, t)
    BY DEF Kept, SourcesKept
  <2>2. s.first <= u /\ (s.first >= u - KeepDays => s.first >= t - KeepDays)
    BY <2>1, StoreAssumption DEF SourceKept
  <2>3. QED
    BY <2>1, <2>2 DEF SourceKept
<1>2. \A r \in w.reports : ReportKept(r, Names(w.domains), u)
  <2> SUFFICES ASSUME NEW r \in w.reports PROVE ReportKept(r, Names(w.domains), u)
    OBVIOUS
  <2>1. ReportKept(r, Names(w.domains), t)
    BY DEF Kept, ReportsKept
  <2>2. r.at <= u
    BY <2>1 DEF ReportKept
  <2>3. QED
    BY <2>1, <2>2 DEF ReportKept
<1>3. QED
  BY <1>1, <1>2 DEF Kept, ReportsKept, SourcesKept

(* Retention removes reports that no young source is in. *)
LEMMA PurgeKeeps ==
  ASSUME NEW w, NEW t \in Nat, Kept(w, t), NEW gone \in SUBSET w.reports, \A r \in gone : r.at < t - KeepDays
  PROVE  Kept([w EXCEPT !.reports = @ \ gone], t)
<1> DEFINE v == [w EXCEPT !.reports = @ \ gone]
           R == w.reports \ gone
<1>1. /\ IsRow(v, Tables) /\ v.reports = R /\ v.domains = w.domains /\ v.sources = w.sources
  BY RowExcept DEF Kept, Tables
<1> HIDE DEF v
<1>2. ReportsKept(R, Names(w.domains), t)
  BY FS_Subset DEF Kept, ReportsKept
<1>3. ASSUME NEW s \in w.sources PROVE SourceKept(s, R, t)
  <2>1. SourceKept(s, w.reports, t)
    BY DEF Kept, SourcesKept
  <2>2. CASE s.first >= t - KeepDays
    <3>1. ASSUME NEW r \in gone PROVE s.ip \notin Sending(r.rows)
      <4>1. r \in w.reports /\ r.at \in Nat /\ r.at < t - KeepDays
        BY DEF Kept, ReportsKept, ReportKept
      <4>2. SUFFICES ASSUME s.ip \in Sending(r.rows) PROVE FALSE
        OBVIOUS
      <4>3. PICK q \in w.sources : q.ip = s.ip /\ q.first <= r.at
        BY <4>1, <4>2 DEF Kept, SourcesKept
      <4>4. q = s
        BY <4>3 DEF Kept, SourcesKept
      <4>5. QED
        BY <2>1, <2>2, <4>1, <4>3, <4>4, StoreAssumption DEF SourceKept
    <3>2. RowsAt(R, s.ip) = RowsAt(w.reports, s.ip)
      BY <3>1 DEF RowsAt, Sending
    <3>3. PICK r \in w.reports : r.at = s.first /\ s.ip \in Sending(r.rows)
      BY <2>1, <2>2 DEF SourceKept
    <3>4. r \in R
      BY <3>1, <3>3
    <3>5. QED
      BY <2>1, <3>2, <3>3, <3>4 DEF SourceKept
  <2>3. CASE ~(s.first >= t - KeepDays)
    BY <2>1, <2>3 DEF SourceKept
  <2>4. QED
    BY <2>2, <2>3
<1>4. SourcesKept(w.sources, R, t)
  BY <1>3 DEF Kept, SourcesKept
<1>5. QED
  BY <1>1, <1>2, <1>4 DEF Kept, v

-----------------------------------------------------------------------------
(* A report comes in. *)

LEMMA RowsOfReport ==
  ASSUME NEW id, NEW entries \in Entries
  PROVE  Tallied("count", RecordsOf(id, entries)) /\ \A x \in RecordsOf(id, entries) : x.report = id
<1> DEFINE row(i) == [report |-> id, entry |-> i, ip |-> entries[i].ip, count |-> entries[i].count, spf |-> entries[i].spf,
                      dkim |-> entries[i].dkim, disposition |-> entries[i].disposition]
           f == [i \in DOMAIN entries |-> row(i)]
<1>1. RecordsOf(id, entries) = {f[i] : i \in DOMAIN f}
  BY DEF RecordsOf
<1>2. IsFiniteSet({f[i] : i \in DOMAIN f})
  <2>1. IsFiniteSet(DOMAIN f) /\ f = [x \in DOMAIN f |-> f[x]]
    BY StoreAssumption
  <2> HIDE DEF f
  <2>2. QED
    BY <2>1, FiniteImage
<1>3. ASSUME NEW i \in DOMAIN f PROVE f[i].count \in Nat /\ f[i].report = id
  <2>1. i \in DOMAIN entries /\ entries[i].count \in Nat
    BY StoreAssumption
  <2>2. PICK a, b, c : f[i] = [report |-> id, entry |-> i, ip |-> entries[i].ip, count |-> entries[i].count, spf |-> a, dkim |-> b,
                               disposition |-> c]
    BY <2>1, Zenon
  <2> HIDE DEF f
  <2>3. QED
    BY <2>1, <2>2
<1> HIDE DEF f
<1>4. QED
  BY <1>1, <1>2, <1>3 DEF Tallied

LEMMA ToldKeeps ==
  ASSUME NEW d, NEW policy, IsRow(d, DomainColumns), d.name \in Zone
  PROVE  IsRow(Told(d, policy), DomainColumns) /\ Told(d, policy).name = d.name
<1>1. PICK a, b, c : Told(d, policy) = [[[d EXCEPT !.policy = a] EXCEPT !.testing = b] EXCEPT !.pct = c]
  <2>1. Told(d, policy) = [[[d EXCEPT !.policy = policy.p] EXCEPT !.testing = IF policy.rfc9990 THEN policy.testing ELSE @]
                              EXCEPT !.pct = IF policy.rfc9990 THEN @ ELSE policy.pct]
    BY Zenon DEF Told
  <2>2. QED
    BY <2>1, Zenon
<1> DEFINE d1 == [d EXCEPT !.policy = a]
           d2 == [d1 EXCEPT !.testing = b]
           d3 == [d2 EXCEPT !.pct = c]
<1>2. IsRow(d1, DomainColumns) /\ d1.name = d.name
  BY RowExcept DEF DomainColumns
<1> HIDE DEF d1
<1>3. IsRow(d2, DomainColumns) /\ d2.name = d1.name
  BY <1>2, RowExcept DEF DomainColumns
<1> HIDE DEF d2
<1>4. IsRow(d3, DomainColumns) /\ d3.name = d2.name
  BY <1>3, RowExcept DEF DomainColumns
<1>5. QED
  BY <1>1, <1>2, <1>3, <1>4 DEF d1, d2

LEMMA NewDomainKept == ASSUME NEW n PROVE IsRow(NewDomain(n), DomainColumns) /\ NewDomain(n).name = n
<1>1. PICK a, b, c, e, f, g : NewDomain(n) = [name |-> n, active |-> a, policy |-> b, pct |-> c, testing |-> e, address |-> f, dns_status |-> g]
  BY Zenon DEF NewDomain
<1>2. QED
  BY <1>1 DEF IsRow, DomainColumns

LEMMA NewSourceKept ==
  ASSUME NEW ip, NEW t PROVE IsRow(NewSource(ip, t), SourceColumns) /\ NewSource(ip, t).ip = ip /\ NewSource(ip, t).first = t
                             /\ NewSource(ip, t).total = 0
<1>1. PICK a, b, c, e : NewSource(ip, t) = [ip |-> ip, first |-> t, enriched |-> a, sender |-> b, classification |-> c, total |-> 0, passed |-> e]
  BY Zenon DEF NewSource
<1>2. QED
  BY <1>1 DEF IsRow, SourceColumns

LEMMA UpsertKeeps ==
  ASSUME NEW s, NEW rows, IsRow(s, SourceColumns)
  PROVE  /\ IsRow(_upsert_source_ip(s, rows), SourceColumns)
         /\ _upsert_source_ip(s, rows).ip = s.ip /\ _upsert_source_ip(s, rows).first = s.first
         /\ _upsert_source_ip(s, rows).total = s.total + Messages(RowsFrom(rows, s.ip))
<1> DEFINE n == s.total + Messages(RowsFrom(rows, s.ip))
           s1 == [s EXCEPT !.total = n]
<1>1. PICK m : _upsert_source_ip(s, rows) = [[s EXCEPT !.total = n] EXCEPT !.passed = m]
  <2> HIDE DEF n
  <2>1. _upsert_source_ip(s, rows) = [[s EXCEPT !.total = n] EXCEPT !.passed = @ + Messages(Passing(RowsFrom(rows, s.ip)))]
    BY Zenon DEF _upsert_source_ip, n
  <2>2. QED
    BY <2>1, Zenon
<1> DEFINE s2 == [s1 EXCEPT !.passed = m]
<1>2. IsRow(s1, SourceColumns) /\ s1.total = n /\ s1.ip = s.ip /\ s1.first = s.first
  <2> HIDE DEF n
  <2> QED
    BY RowExcept DEF SourceColumns
<1>3. _upsert_source_ip(s, rows) = s2
  BY <1>1
<1> HIDE DEF s1
<1>4. IsRow(s2, SourceColumns) /\ s2.total = s1.total /\ s2.ip = s1.ip /\ s2.first = s1.first
  BY <1>2, RowExcept DEF SourceColumns
<1> HIDE DEF s2
<1>5. QED
  BY <1>2, <1>3, <1>4

LEMMA DomainsGrow ==
  ASSUME NEW D, DomainsKept(D), NEW name \in Zone \cup {Nobody}
  PROVE  DomainsKept(get_or_create_domain(D, name)) /\ Names(get_or_create_domain(D, name)) = Names(D) \cup ({name} \ {Nobody})
<1> DEFINE Fresh == {name} \ (Names(D) \cup {Nobody})
           New == {NewDomain(n) : n \in Fresh}
<1>1. get_or_create_domain(D, name) = D \cup New
  BY DEF get_or_create_domain, Names
<1>2. \A d \in New : IsRow(d, DomainColumns) /\ d.name \in Zone
  BY NewDomainKept
<1>3. IsFiniteSet(New)
  <2>1. New = {} \/ New = {NewDomain(name)}
    OBVIOUS
  <2> HIDE DEF New
  <2>2. QED
    BY <2>1, FS_EmptySet, FS_Singleton
<1>4. Names(New) = Fresh
  BY NewDomainKept DEF Names
<1>5. Names(D \cup New) = Names(D) \cup Names(New)
  <2> HIDE DEF New
  <2> QED
    BY DEF Names
<1> HIDE DEF New
<1>6. IsFiniteSet(D \cup New)
  BY <1>3, FS_Union DEF DomainsKept
<1>7. DomainsKept(D \cup New)
  BY <1>2, <1>6 DEF DomainsKept
<1>8. Names(D \cup New) = Names(D) \cup ({name} \ {Nobody})
  BY <1>4, <1>5
<1>9. QED
  BY <1>1, <1>7, <1>8

\* The domains after a report has told of its domain
Hearing(D, name, policy) == {IF d.name = name THEN Told(d, policy) ELSE d : d \in D}

\* The domains after a name has got its address
Addressed(D, name) == {IF d.name = name THEN [d EXCEPT !.address = TRUE] ELSE d : d \in D}

\* Domains whose rows change but for their names
LEMMA DomainsRewritten ==
  ASSUME NEW D, DomainsKept(D), NEW f, f = [d \in D |-> f[d]], \A d \in D : IsRow(f[d], DomainColumns) /\ f[d].name = d.name,
         NEW E, E = {f[d] : d \in D}
  PROVE  DomainsKept(E) /\ Names(E) = Names(D)
<1>1. IsFiniteSet(DOMAIN f) /\ DOMAIN f = D
  BY DEF DomainsKept
<1>2. IsFiniteSet(E)
  BY <1>1, FiniteImage
<1>3. QED
  BY <1>2 DEF DomainsKept, Names

LEMMA DomainsTold ==
  ASSUME NEW D, DomainsKept(D), NEW name, NEW policy
  PROVE  DomainsKept(Hearing(D, name, policy)) /\ Names(Hearing(D, name, policy)) = Names(D)
<1> DEFINE f == [d \in D |-> IF d.name = name THEN Told(d, policy) ELSE d]
<1>1. Hearing(D, name, policy) = {f[d] : d \in D} /\ f = [d \in D |-> f[d]]
  BY DEF Hearing
<1>2. ASSUME NEW d \in D PROVE IsRow(f[d], DomainColumns) /\ f[d].name = d.name
  <2>1. f[d] = Told(d, policy) \/ f[d] = d
    OBVIOUS
  <2> HIDE DEF f
  <2>2. QED
    BY <2>1, ToldKeeps DEF DomainsKept
<1> HIDE DEF f
<1>3. QED
  BY <1>1, <1>2, DomainsRewritten

LEMMA DomainsAddressed ==
  ASSUME NEW D, DomainsKept(D), NEW name
  PROVE  DomainsKept(Addressed(D, name)) /\ Names(Addressed(D, name)) = Names(D)
<1> DEFINE f == [d \in D |-> IF d.name = name THEN [d EXCEPT !.address = TRUE] ELSE d]
<1>1. Addressed(D, name) = {f[d] : d \in D} /\ f = [d \in D |-> f[d]]
  BY DEF Addressed
<1>2. ASSUME NEW d \in D PROVE IsRow(f[d], DomainColumns) /\ f[d].name = d.name
  <2>1. PICK v : v = TRUE
    OBVIOUS
  <2>2. f[d] = [d EXCEPT !.address = v] \/ f[d] = d
    BY <2>1, Zenon
  <2>3. "address" \in DomainColumns \ {"name"} /\ "name" \in DomainColumns
    BY DEF DomainColumns
  <2> HIDE DEF f
  <2>4. IsRow(d, DomainColumns)
    BY DEF DomainsKept
  <2> DEFINE e == [d EXCEPT !.address = v]
  <2>5. IsRow(e, DomainColumns) /\ e.name = d.name
    BY <2>3, <2>4, RowExcept
  <2>6. f[d] = e \/ f[d] = d
    BY <2>2
  <2> HIDE DEF e
  <2>7. QED
    BY <2>4, <2>5, <2>6
<1> HIDE DEF f
<1>3. QED
  BY <1>1, <1>2, DomainsRewritten

LEMMA RowsJoin ==
  ASSUME NEW R, NEW q, NEW ip
  PROVE  RowsAt(R \cup {q}, ip) = RowsAt(R, ip) \cup RowsFrom(q.rows, ip)
BY DEF RowsAt, RowsFrom

LEMMA RowsAtTallied ==
  ASSUME NEW R, NEW N, NEW t, ReportsKept(R, N, t), NEW ip PROVE Tallied("count", RowsAt(R, ip))
<1> DEFINE f == [r \in R |-> r.rows]
<1>1. IsFiniteSet(DOMAIN f) /\ f = [x \in DOMAIN f |-> f[x]] /\ UNION {r.rows : r \in R} = UNION {f[r] : r \in DOMAIN f}
  BY DEF ReportsKept
<1>2. \A T \in {f[r] : r \in DOMAIN f} : IsFiniteSet(T) /\ \A x \in T : x.count \in Nat
  BY DEF ReportsKept, ReportKept, Tallied
<1> HIDE DEF f
<1>3. IsFiniteSet({f[r] : r \in DOMAIN f})
  BY <1>1, FiniteImage
<1>4. IsFiniteSet(UNION {f[r] : r \in DOMAIN f})
  BY <1>2, <1>3, FS_UNION
<1>5. Tallied("count", UNION {r.rows : r \in R})
  BY <1>1, <1>2, <1>4 DEF Tallied
<1>6. QED
  BY <1>5, TalliedPart DEF RowsAt

\* The report that comes in
Incoming(id, t, begin, name, entries) == [id |-> id, at |-> t, begin |-> begin, domain |-> name, rows |-> RecordsOf(id, entries)]

LEMMA ReportComesIn ==
  ASSUME NEW w, NEW t \in Nat, Kept(w, t), NEW id, \A r \in w.reports : r.id # id, NEW name \in Zone \cup {Nobody},
         NEW begin \in Int, NEW entries \in Entries, NEW N, Names(w.domains) \cup ({name} \ {Nobody}) = N
  PROVE  LET R == w.reports \cup {Incoming(id, t, begin, name, entries)}
         IN  ReportsKept(R, N, t) /\ SourcesKept(Upserted(w.sources, RecordsOf(id, entries), t), R, t)
<1> DEFINE new == Incoming(id, t, begin, name, entries)
           rows == RecordsOf(id, entries)
           R == w.reports \cup {new}
<1>1. new.id = id /\ new.at = t /\ new.begin = begin /\ new.domain = name /\ new.rows = rows
  BY DEF Incoming
<1>2. Tallied("count", rows) /\ \A x \in rows : x.report = id
  BY RowsOfReport
<1> HIDE DEF new, rows
<1>3. ReportsKept(R, N, t)
  <2>1. ReportKept(new, N, t)
    BY <1>1, <1>2 DEF ReportKept
  <2>2. \A r \in w.reports : ReportKept(r, N, t)
    BY DEF Kept, ReportsKept, ReportKept
  <2>3. IsFiniteSet(R)
    BY FS_AddElement DEF Kept, ReportsKept
  <2>4. QED
    BY <1>1, <2>1, <2>2, <2>3 DEF Kept, ReportsKept
<1> DEFINE known == {s.ip : s \in w.sources}
           young == {NewSource(ip, t) : ip \in Sending(rows) \ known}
           S == w.sources \cup young
           up == [s \in S |-> _upsert_source_ip(s, rows)]
<1>4. Upserted(w.sources, rows, t) = {up[s] : s \in DOMAIN up} /\ DOMAIN up = S
  BY DEF Upserted
<1>5. IsFiniteSet(young)
  <2> DEFINE f == [ip \in Sending(rows) \ known |-> NewSource(ip, t)]
             g == [x \in rows |-> x.ip]
  <2>1. IsFiniteSet(DOMAIN g) /\ g = [x \in DOMAIN g |-> g[x]] /\ Sending(rows) = {g[x] : x \in DOMAIN g}
    BY <1>2 DEF Tallied, Sending
  <2>2. IsFiniteSet(Sending(rows) \ known)
    <3> HIDE DEF g, known
    <3>1. IsFiniteSet(Sending(rows))
      BY <2>1, FiniteImage
    <3>2. QED
      BY <3>1, FS_Subset
  <2>3. IsFiniteSet(DOMAIN f) /\ f = [x \in DOMAIN f |-> f[x]] /\ young = {f[ip] : ip \in DOMAIN f}
    BY <2>2
  <2> HIDE DEF f, young
  <2>4. QED
    BY <2>3, FiniteImage
<1>6. \A s \in young : /\ IsRow(s, SourceColumns) /\ s.ip \in Sending(rows) \ known /\ s.first = t /\ s.total = 0
                       /\ s = NewSource(s.ip, t)
  BY NewSourceKept
<1>7. \A s \in w.sources : SourceKept(s, w.reports, t)
  BY DEF Kept, SourcesKept
<1>8. ASSUME NEW s \in S
      PROVE  up[s].ip = s.ip /\ up[s].first = s.first /\ IsRow(up[s], SourceColumns) /\ up[s].total = s.total + Messages(RowsFrom(rows, s.ip))
  <2>1. IsRow(s, SourceColumns)
    <3> HIDE DEF young
    <3> QED
      BY <1>6, <1>7 DEF SourceKept
  <2>2. up[s] = _upsert_source_ip(s, rows)
    OBVIOUS
  <2> HIDE DEF up, S
  <2>3. QED
    BY <2>1, <2>2, UpsertKeeps
<1> HIDE DEF young, up
<1>9. \A s, q \in S : s.ip = q.ip => s = q
  <2>1. \A s \in young, q \in w.sources : s.ip # q.ip
    BY <1>6
  <2>2. \A s, q \in young : s.ip = q.ip => s = q
    BY <1>6
  <2>3. QED
    BY <2>1, <2>2 DEF Kept, SourcesKept
<1>10. \A ip : /\ RowsAt(R, ip) = RowsAt(w.reports, ip) \cup RowsFrom(rows, ip)
               /\ Messages(RowsAt(R, ip)) = Messages(RowsAt(w.reports, ip)) + Messages(RowsFrom(rows, ip))
               /\ Messages(RowsFrom(rows, ip)) \in Nat
  <2> SUFFICES ASSUME NEW ip
               PROVE /\ RowsAt(R, ip) = RowsAt(w.reports, ip) \cup RowsFrom(rows, ip)
                     /\ Messages(RowsAt(R, ip)) = Messages(RowsAt(w.reports, ip)) + Messages(RowsFrom(rows, ip))
                     /\ Messages(RowsFrom(rows, ip)) \in Nat
    OBVIOUS
  <2>1. RowsAt(R, ip) = RowsAt(w.reports, ip) \cup RowsFrom(rows, ip)
    BY <1>1, RowsJoin
  <2>2. RowsAt(w.reports, ip) \cap RowsFrom(rows, ip) = {}
    <3>1. \A x \in RowsAt(w.reports, ip) : \E r \in w.reports : x.report = r.id
      BY DEF RowsAt, Kept, ReportsKept, ReportKept
    <3>2. \A x \in RowsFrom(rows, ip) : x.report = id
      BY <1>2 DEF RowsFrom
    <3>3. QED
      BY <3>1, <3>2
  <2>3. Tallied("count", RowsAt(w.reports, ip))
    BY RowsAtTallied DEF Kept
  <2>4. Tallied("count", RowsFrom(rows, ip))
    BY <1>2, TalliedPart DEF RowsFrom
  <2>5. QED
    BY <2>1, <2>2, <2>3, <2>4, TotalOfParts DEF Messages
<1>11. \A s \in young : RowsAt(w.reports, s.ip) = {}
  BY <1>6 DEF RowsAt, Kept, SourcesKept, Sending
<1>12. ASSUME NEW s \in S PROVE SourceKept(up[s], R, t)
  <2>1. CASE s \in young
    <3>1. up[s].total = Messages(RowsAt(R, s.ip)) /\ up[s].total \in Nat
      <4>1. Messages({}) = 0
        BY TotalOfNone DEF Messages
      <4>2. RowsAt(w.reports, s.ip) = {} /\ s.total = 0
        BY <2>1, <1>6, <1>11
      <4>3. up[s].total = s.total + Messages(RowsFrom(rows, s.ip))
        BY <1>8
      <4>4. Messages(RowsAt(R, s.ip)) = Messages(RowsAt(w.reports, s.ip)) + Messages(RowsFrom(rows, s.ip)) /\ Messages(RowsFrom(rows, s.ip)) \in Nat
        BY <1>10
      <4>5. QED
        BY <4>1, <4>2, <4>3, <4>4
    <3>2. new \in R /\ new.at = up[s].first /\ up[s].ip \in Sending(new.rows) /\ up[s].first = t
      BY <2>1, <1>1, <1>6, <1>8
    <3>3. QED
      BY <1>8, <3>1, <3>2 DEF SourceKept
  <2>2. CASE s \in w.sources
    <3>1. SourceKept(s, w.reports, t) /\ up[s].ip = s.ip /\ up[s].first = s.first
      BY <2>2, <1>7, <1>8
    <3>2. up[s].total \in Nat
      BY <3>1, <1>8, <1>10 DEF SourceKept
    <3>3. ASSUME s.first >= t - KeepDays
          PROVE  up[s].total = Messages(RowsAt(R, s.ip)) /\ \E r \in R : r.at = s.first /\ s.ip \in Sending(r.rows)
      BY <3>1, <3>3, <1>8, <1>10 DEF SourceKept
    <3>4. QED
      BY <1>8, <3>1, <3>2, <3>3 DEF SourceKept
  <2>3. QED
    BY <2>1, <2>2
<1>13. ASSUME NEW r \in R, NEW ip \in Sending(r.rows) PROVE \E s \in S : s.ip = ip /\ s.first <= r.at
  <2>1. CASE r \in w.reports
    BY <2>1 DEF Kept, SourcesKept
  <2>2. CASE r = new
    <3>1. CASE ip \in known
      <4>1. PICK s \in w.sources : s.ip = ip
        BY <3>1
      <4>2. QED
        BY <4>1, <1>1, <1>7, <2>2 DEF SourceKept
    <3>2. CASE ip \notin known
      <4>1. NewSource(ip, t) \in young
        BY <1>1, <2>2, <3>2 DEF young
      <4>2. QED
        BY <4>1, <1>1, <2>2, NewSourceKept
    <3>3. QED
      BY <3>1, <3>2
  <2>3. QED
    BY <2>1, <2>2
<1>14. IsFiniteSet(S)
  BY <1>5, FS_Union DEF Kept, SourcesKept
<1> DEFINE U == {up[s] : s \in DOMAIN up}
<1>15. SourcesKept(U, R, t)
  <2> HIDE DEF S
  <2>1. IsFiniteSet(U)
    <3>1. up = [s \in DOMAIN up |-> up[s]]
      BY DEF up
    <3>2. QED
      BY <1>4, <1>14, <3>1, FiniteImage
  <2>2. \A s \in U : SourceKept(s, R, t)
    BY <1>4, <1>12
  <2>3. \A s, q \in U : s.ip = q.ip => s = q
    BY <1>4, <1>8, <1>9
  <2>4. \A r \in R : \A ip \in Sending(r.rows) : \E s \in U : s.ip = ip /\ s.first <= r.at
    BY <1>4, <1>8, <1>13
  <2>5. QED
    BY <2>1, <2>2, <2>3, <2>4 DEF SourcesKept
<1>16. QED
  BY <1>3, <1>4, <1>15 DEF new, rows

-----------------------------------------------------------------------------
(* Every step keeps the tables in order. *)

LEMMA RowChanges ==
  ASSUME NEW w, NEW t, Kept(w, t), NEW d \in w.domains, NEW k \in DomainColumns \ {"name"}, NEW v
  PROVE  Kept([w EXCEPT !.domains = (@ \ {d}) \cup {[d EXCEPT ![k] = v]}], t)
<1> DEFINE e == [d EXCEPT ![k] = v]
           D == (w.domains \ {d}) \cup {e}
<1>1. IsRow(d, DomainColumns) /\ d.name \in Zone
  BY DEF Kept, DomainsKept
<1>2. IsRow(e, DomainColumns) /\ e.name = d.name
  <2>1. "name" \in DomainColumns /\ k \in DomainColumns
    BY DEF DomainColumns
  <2>2. QED
    BY <1>1, <2>1, RowExcept
<1> HIDE DEF e
<1>3. DomainsKept(D) /\ Names(D) = Names(w.domains)
  <2>1. IsFiniteSet(D)
    <3>1. IsFiniteSet(w.domains \ {d})
      BY FS_Subset DEF Kept, DomainsKept
    <3>2. QED
      BY <3>1, FS_AddElement
  <2>2. \A x \in D : IsRow(x, DomainColumns) /\ x.name \in Zone
    BY <1>1, <1>2 DEF Kept, DomainsKept
  <2>3. QED
    BY <1>2, <2>1, <2>2 DEF DomainsKept, Names
<1> HIDE DEF D
<1> DEFINE u == [w EXCEPT !.domains = D]
<1>4. IsRow(u, Tables) /\ u.domains = D /\ u.reports = w.reports /\ u.sources = w.sources
  BY RowExcept DEF Kept, Tables
<1> HIDE DEF u
<1>5. Kept(u, t)
  BY <1>3, <1>4 DEF Kept
<1>6. QED
  BY <1>5 DEF u, D, e

LEMMA SourceChanges ==
  ASSUME NEW w, NEW t, Kept(w, t), NEW s \in w.sources, NEW e, IsRow(e, SourceColumns),
         e.ip = s.ip, e.first = s.first, e.total = s.total
  PROVE  Kept([w EXCEPT !.sources = (@ \ {s}) \cup {e}], t)
<1> DEFINE S == (w.sources \ {s}) \cup {e}
           u == [w EXCEPT !.sources = S]
<1>1. SourceKept(e, w.reports, t)
  BY DEF Kept, SourcesKept, SourceKept
<1>2. IsFiniteSet(S)
  <2>1. IsFiniteSet(w.sources \ {s})
    BY FS_Subset DEF Kept, SourcesKept
  <2>2. QED
    BY <2>1, FS_AddElement
<1>3. SourcesKept(S, w.reports, t)
  <2>1. \A x \in S : SourceKept(x, w.reports, t)
    BY <1>1 DEF Kept, SourcesKept
  <2>2. \A x, q \in S : x.ip = q.ip => x = q
    BY DEF Kept, SourcesKept
  <2>3. \A r \in w.reports : \A ip \in Sending(r.rows) : \E x \in S : x.ip = ip /\ x.first <= r.at
    <3> SUFFICES ASSUME NEW r \in w.reports, NEW ip \in Sending(r.rows) PROVE \E x \in S : x.ip = ip /\ x.first <= r.at
      OBVIOUS
    <3>1. PICK x \in w.sources : x.ip = ip /\ x.first <= r.at
      BY DEF Kept, SourcesKept
    <3>2. CASE x = s
      BY <3>1, <3>2
    <3>3. CASE x # s
      BY <3>1, <3>3
    <3>4. QED
      BY <3>2, <3>3
  <2> HIDE DEF S
  <2>4. QED
    BY <1>2, <2>1, <2>2, <2>3 DEF SourcesKept
<1> HIDE DEF S
<1>4. IsRow(u, Tables) /\ u.sources = S /\ u.reports = w.reports /\ u.domains = w.domains
  BY RowExcept DEF Kept, Tables
<1> HIDE DEF u
<1>5. Kept(u, t)
  BY <1>3, <1>4 DEF Kept
<1>6. QED
  BY <1>5 DEF u, S

LEMMA ImportKeeps ==
  ASSUME StoreInv, NEW id \in ReportId, NEW name \in Zone \cup {Nobody}, NEW begin \in {today} \cup Begun, NEW entries \in Entries,
         NEW policy \in Policy, import_report(id, name, begin, entries, policy)
  PROVE  StoreInv'
<1> DEFINE R == world.reports \cup {Incoming(id, today, begin, name, entries)}
           S == Upserted(world.sources, RecordsOf(id, entries), today)
           E == get_or_create_domain(world.domains, name)
           D == Hearing(E, name, policy)
           w1 == [world EXCEPT !.reports = R]
           w2 == [w1 EXCEPT !.sources = S]
           w3 == [w2 EXCEPT !.domains = D]
<1>1. world' = w3 /\ today' = today /\ \A r \in world.reports : r.id # id
  BY Zenon DEF import_report, Incoming, IsStored, Hearing
<1>2. Kept(world, today) /\ today \in Nat /\ begin \in Int
  BY StoreAssumption DEF StoreInv
<1>3. DomainsKept(E) /\ Names(E) = Names(world.domains) \cup ({name} \ {Nobody})
  BY <1>2, DomainsGrow DEF Kept
<1>4. DomainsKept(D) /\ Names(D) = Names(E)
  <2> HIDE DEF E
  <2> QED
    BY <1>3, DomainsTold
<1>5. ReportsKept(R, Names(D), today) /\ SourcesKept(S, R, today)
  <2> HIDE DEF D
  <2> QED
    BY <1>1, <1>2, <1>3, <1>4, ReportComesIn
<1> HIDE DEF R, S, E, D
<1>6. IsRow(w1, Tables) /\ w1.reports = R
  BY <1>2, RowExcept DEF Kept, Tables
<1> HIDE DEF w1
<1>7. IsRow(w2, Tables) /\ w2.reports = R /\ w2.sources = S
  BY <1>6, RowExcept DEF Tables
<1> HIDE DEF w2
<1>8. IsRow(w3, Tables) /\ w3.reports = R /\ w3.sources = S /\ w3.domains = D
  BY <1>7, RowExcept DEF Tables
<1> HIDE DEF w3
<1>9. Kept(w3, today)
  BY <1>4, <1>5, <1>8 DEF Kept
<1>10. QED
  BY <1>1, <1>2, <1>9 DEF StoreInv

LEMMA StoreSteps == StoreInv /\ [StoreNext]_storeVars => StoreInv'
<1> SUFFICES ASSUME StoreInv, [StoreNext]_storeVars PROVE StoreInv'
  OBVIOUS
<1>0. today \in Nat /\ Kept(world, today)
  BY DEF StoreInv
<1>1. ASSUME NEW id \in ReportId, NEW name \in Zone \cup {Nobody}, NEW begin \in {today} \cup Begun, NEW entries \in Entries,
             NEW policy \in Policy, import_report(id, name, begin, entries, policy)
      PROVE  StoreInv'
  BY <1>1, ImportKeeps
<1>2. CASE purge_reports
  <2>1. PICK gone \in SUBSET {r \in world.reports : r.at < today - KeepDays} : world' = [world EXCEPT !.reports = @ \ gone]
    BY <1>2 DEF purge_reports
  <2>2. today' = today
    BY <1>2 DEF purge_reports
  <2>3. gone \in SUBSET world.reports /\ \A r \in gone : r.at < today - KeepDays
    OBVIOUS
  <2>4. Kept(world', today)
    BY <1>0, <2>1, <2>3, PurgeKeeps
  <2>5. QED
    BY <1>0, <2>2, <2>4 DEF StoreInv
<1>3. ASSUME NEW name \in Zone, create_domain_api(name) PROVE StoreInv'
  <2> DEFINE E == get_or_create_domain(world.domains, name)
             D == Addressed(E, name)
             u == [world EXCEPT !.domains = D]
  <2>1. today' = today /\ world' = u
    BY <1>3, Zenon DEF create_domain_api, Change, Addressed
  <2>2. DomainsKept(E) /\ Names(world.domains) \subseteq Names(E)
    BY <1>0, DomainsGrow DEF Kept
  <2> HIDE DEF E
  <2>3. DomainsKept(D) /\ Names(world.domains) \subseteq Names(D)
    BY <2>2, DomainsAddressed
  <2> HIDE DEF D
  <2>4. ReportsKept(world.reports, Names(D), today)
    BY <1>0, <2>3 DEF Kept, ReportsKept, ReportKept
  <2>5. IsRow(u, Tables) /\ u.domains = D /\ u.reports = world.reports /\ u.sources = world.sources
    BY <1>0, RowExcept DEF Kept, Tables
  <2> HIDE DEF u
  <2>6. Kept(u, today)
    BY <1>0, <2>3, <2>4, <2>5 DEF Kept
  <2>7. QED
    BY <1>0, <2>1, <2>6 DEF StoreInv
<1>4. ASSUME NEW d \in world.domains, toggle(d) PROVE StoreInv'
  <2>1. PICK v : v = ~d.active
    OBVIOUS
  <2>2. today' = today /\ world' = [world EXCEPT !.domains = (@ \ {d}) \cup {[d EXCEPT !.active = v]}]
    BY <1>4, <2>1, Zenon DEF toggle, Change
  <2>3. "active" \in DomainColumns \ {"name"}
    BY DEF DomainColumns
  <2>4. QED
    BY <1>0, <2>2, <2>3, RowChanges DEF StoreInv
<1>5. ASSUME NEW d \in world.domains, NEW status \in DnsStatus, store_result(d, status) PROVE StoreInv'
  <2>1. today' = today /\ world' = [world EXCEPT !.domains = (@ \ {d}) \cup {[d EXCEPT !.dns_status = status]}]
    BY <1>5 DEF store_result, Change
  <2>2. "dns_status" \in DomainColumns \ {"name"}
    BY DEF DomainColumns
  <2>3. QED
    BY <1>0, <2>1, <2>2, RowChanges DEF StoreInv
<1>6. ASSUME NEW s \in world.sources, NEW class \in Class, classify(s, class) PROVE StoreInv'
  <2> DEFINE e == [s EXCEPT !.classification = class]
  <2>1. today' = today /\ world' = [world EXCEPT !.sources = (@ \ {s}) \cup {e}]
    BY <1>6 DEF classify, Change
  <2>2. IsRow(e, SourceColumns) /\ e.ip = s.ip /\ e.first = s.first /\ e.total = s.total
    BY <1>0, RowExcept DEF Kept, SourcesKept, SourceKept, SourceColumns
  <2> HIDE DEF e
  <2>3. QED
    BY <1>0, <2>1, <2>2, SourceChanges DEF StoreInv
<1>7. ASSUME NEW s \in world.sources, NEW key \in SenderName, NEW class \in Class \cup {s.classification}, identify_source(s, key, class)
      PROVE  StoreInv'
  <2>1. PICK v : v = TRUE
    OBVIOUS
  <2> DEFINE e1 == [s EXCEPT !.enriched = v]
             e2 == [e1 EXCEPT !.sender = key]
             e == [e2 EXCEPT !.classification = class]
  <2>2. today' = today /\ world' = [world EXCEPT !.sources = (@ \ {s}) \cup {e}]
    BY <1>7, <2>1, Zenon DEF identify_source, Change
  <2>3. IsRow(e1, SourceColumns) /\ e1.ip = s.ip /\ e1.first = s.first /\ e1.total = s.total
    BY <1>0, RowExcept DEF Kept, SourcesKept, SourceKept, SourceColumns
  <2> HIDE DEF e1
  <2>4. IsRow(e2, SourceColumns) /\ e2.ip = s.ip /\ e2.first = s.first /\ e2.total = s.total
    BY <2>3, RowExcept DEF SourceColumns
  <2> HIDE DEF e2
  <2>5. IsRow(e, SourceColumns) /\ e.ip = s.ip /\ e.first = s.first /\ e.total = s.total
    BY <2>4, RowExcept DEF SourceColumns
  <2> HIDE DEF e
  <2>6. QED
    BY <1>0, <2>2, <2>5, SourceChanges DEF StoreInv
<1>8. ASSUME NEW o \in Elsewhere, Others(o) PROVE StoreInv'
  <2>1. PICK a, b, c, e, f : world' = [[[[[world EXCEPT !.address = a] EXCEPT !.alerts = b] EXCEPT !.tls = c] EXCEPT !.imports = e]
                                            EXCEPT !.rejections = f]
    BY <1>8, Zenon DEF Others, Change
  <2>2. today' = today
    BY <1>8 DEF Others, Change
  <2> DEFINE Same(u) == IsRow(u, Tables) /\ u.reports = world.reports /\ u.sources = world.sources /\ u.domains = world.domains
  <2>3. Same(world)
    BY <1>0 DEF Kept
  <2>4. \A u, v : \A k \in {"address", "alerts", "tls", "imports", "rejections"} : Same(u) => Same([u EXCEPT ![k] = v])
    BY RowExcept DEF Tables
  <2>5. \A u, v : Same(u) => /\ Same([u EXCEPT !.address = v]) /\ Same([u EXCEPT !.alerts = v]) /\ Same([u EXCEPT !.tls = v])
                            /\ Same([u EXCEPT !.imports = v]) /\ Same([u EXCEPT !.rejections = v])
    <3> HIDE DEF Same
    <3> QED
      BY <2>4
  <2>6. Same(world')
    <3> HIDE DEF Same
    <3> QED
      BY <2>1, <2>3, <2>5, Zenon
  <2>7. QED
    BY <1>0, <2>2, <2>6 DEF StoreInv, Kept
<1>9. CASE Pass
  <2>1. PICK t \in Moment : t > today /\ today' = t /\ world' = world
    BY <1>9 DEF Pass
  <2>2. t \in Nat /\ today <= t
    BY <1>0, <2>1, StoreAssumption
  <2>3. Kept(world, t)
    BY <1>0, <2>2, TimePasses
  <2>4. QED
    BY <2>1, <2>2, <2>3 DEF StoreInv
<1>10. CASE UNCHANGED storeVars
  BY <1>10 DEF storeVars, StoreInv
<1>11. QED
  BY <1>1, <1>2, <1>3, <1>4, <1>5, <1>6, <1>7, <1>8, <1>9, <1>10 DEF StoreNext

(* At any moment a stored report names a domain of the organisation or none and has rows of its own, every address that sends in one
   has one row as a source, which is as old as its first report, and a source that is younger than retention has in its total what
   is stored of it (store_parsed_report, _upsert_source_ip, _purge_reports). *)
THEOREM TablesInOrder == StoreSpec => []StoreInv
<1>1. QED
  BY StoreStarts, StoreSteps, PTL DEF StoreSpec

-----------------------------------------------------------------------------
(* Rows by what holds of their report. *)

Tagged(R, tag, v) == UNION {r.rows : r \in {q \in R : tag[q] = v}}

RowsApart(R) == \A r, q \in R : \A x \in r.rows : x \in q.rows => r = q

RowsIn(R) == UNION {r.rows : r \in R}

LEMMA RowsInTallied ==
  ASSUME NEW R, IsFiniteSet(R), \A r \in R : Tallied("count", r.rows) PROVE Tallied("count", RowsIn(R))
<1> DEFINE f == [r \in R |-> r.rows]
<1>1. IsFiniteSet(DOMAIN f) /\ f = [x \in DOMAIN f |-> f[x]] /\ RowsIn(R) = UNION {f[r] : r \in DOMAIN f}
  BY DEF RowsIn
<1>2. \A T \in {f[r] : r \in DOMAIN f} : IsFiniteSet(T) /\ \A x \in T : x.count \in Nat
  BY DEF Tallied
<1> HIDE DEF f
<1>3. IsFiniteSet({f[r] : r \in DOMAIN f})
  BY <1>1, FiniteImage
<1>4. IsFiniteSet(UNION {f[r] : r \in DOMAIN f})
  BY <1>2, <1>3, FS_UNION
<1>5. QED
  BY <1>1, <1>2, <1>4 DEF Tallied

\* Reports with a tag, and one line for each tag with the messages of the rows in P
Grouped(R, K, tag, P, sums, line) ==
    /\ IsFiniteSet(R) /\ RowsApart(R) /\ \A r \in R : Tallied("count", r.rows) /\ tag[r] \in K
    /\ IsFiniteSet(K) /\ \A v \in K : line[v][sums] = Messages(Tagged(R, tag, v) \cap P)
    /\ \A u, v \in K : line[u] = line[v] => u = v

(* The lines add up to all of these messages. *)
LEMMA ReportGroups ==
  ASSUME NEW R, NEW K, NEW tag, NEW P, NEW sums, NEW line, Grouped(R, K, tag, P, sums, line)
  PROVE  Total(sums, LinesOf(line, K)) = Messages(RowsIn(R) \cap P) /\ Tallied(sums, LinesOf(line, K))
<1> DEFINE S == RowsIn(R) \cap P
           home(x) == CHOOSE r \in R : x \in r.rows
           key == [x \in S |-> tag[home(x)]]
<1>1. Tallied("count", S)
  <2>1. Tallied("count", RowsIn(R))
    BY RowsInTallied DEF Grouped
  <2>2. QED
    BY <2>1, TalliedPart
<1>2. \A r \in R : \A x \in r.rows : home(x) = r
  BY DEF RowsApart, Grouped
<1>3. ASSUME NEW x \in S PROVE home(x) \in R /\ x \in home(x).rows /\ key[x] = tag[home(x)]
  BY DEF RowsIn
<1>4. \A v : Group(S, key, v) = Tagged(R, tag, v) \cap P
  <2> SUFFICES ASSUME NEW v PROVE Group(S, key, v) = Tagged(R, tag, v) \cap P
    OBVIOUS
  <2>1. ASSUME NEW x \in Group(S, key, v) PROVE x \in Tagged(R, tag, v) \cap P
    <3>1. x \in S /\ key[x] = v
      BY DEF Group
    <3> HIDE DEF key, home
    <3>2. QED
      BY <1>3, <3>1 DEF Tagged
  <2>2. ASSUME NEW x \in Tagged(R, tag, v) \cap P PROVE x \in Group(S, key, v)
    <3>1. PICK r \in R : tag[r] = v /\ x \in r.rows
      BY DEF Tagged
    <3>2. x \in S /\ home(x) = r
      BY <1>2, <3>1 DEF RowsIn
    <3> HIDE DEF home
    <3>3. QED
      BY <3>1, <3>2 DEF Group
  <2>3. QED
    BY <2>1, <2>2
<1> HIDE DEF home, key
<1>5. \A x \in S : key[x] \in K
  BY <1>3 DEF Grouped
<1>6. \A v \in K : line[v][sums] = Total("count", Group(S, key, v))
  BY <1>4 DEF Messages, Grouped
<1> HIDE DEF S
<1>7. Total(sums, LinesOf(line, K)) = Total("count", S) /\ Tallied(sums, LinesOf(line, K))
  <2>1. IsFiniteSet(K)
    BY DEF Grouped
  <2>2. \A u, v \in K : line[u] = line[v] => u = v
    BY DEF Grouped
  <2>3. QED
    BY <1>1, <1>5, <1>6, <2>1, <2>2, TotalOfGroups
<1>8. QED
  BY <1>7 DEF Messages, S

\* What the figures need of the tables
LEMMA StoredReports ==
  ASSUME StoreInv
  PROVE  /\ ReportsTallied(world) /\ RowsApart(world.reports) /\ today \in Nat
         /\ \A r \in world.reports : /\ r.at \in Nat /\ r.at <= today /\ r.begin \in Int /\ Tallied("count", r.rows)
                                     /\ r.domain \in Scope(world, Whole)
         /\ IsFiniteSet(Scope(world, Whole)) /\ IsFiniteSet(world.reports)
<1>1. today \in Nat /\ DomainsKept(world.domains) /\ ReportsKept(world.reports, Names(world.domains), today)
  BY DEF StoreInv, Kept
<1>2. Scope(world, Whole) = Names(world.domains) \cup {Nobody}
  BY DEF Scope, Names
<1>3. \A r \in world.reports : ReportKept(r, Names(world.domains), today)
  BY <1>1 DEF ReportsKept
<1>4. RowsApart(world.reports)
  BY <1>1, <1>3 DEF RowsApart, ReportsKept, ReportKept
<1>5. IsFiniteSet(Names(world.domains))
  <2> DEFINE f == [d \in world.domains |-> d.name]
  <2>1. IsFiniteSet(DOMAIN f) /\ f = [x \in DOMAIN f |-> f[x]] /\ Names(world.domains) = {f[d] : d \in DOMAIN f}
    BY <1>1 DEF DomainsKept, Names
  <2> HIDE DEF f
  <2>2. QED
    BY <2>1, FiniteImage
<1>6. IsFiniteSet(Scope(world, Whole))
  BY <1>2, <1>5, FS_AddElement
<1>7. QED
  BY <1>1, <1>2, <1>3, <1>4, <1>6 DEF ReportsTallied, ReportsKept, ReportKept

\* The rows of the period that ends there
Period(w, D, end) == _records(w, D, end - PeriodDays, end)

LEMMA DigestCounts ==
  ASSUME NEW w, NEW D, NEW end, NEW limits
  PROVE  /\ build_digest(w, D, end, limits).total = Messages(Period(w, D, end))
         /\ build_digest(w, D, end, limits).failed = Messages(Failing(Period(w, D, end)))
         /\ build_digest(w, D, end, limits).previous_total = Messages(Period(w, D, end - PeriodDays))
         /\ build_digest(w, D, end, limits).previous_failed = Messages(Failing(Period(w, D, end - PeriodDays)))
BY Zenon DEF build_digest, Period

\* The lines of a digest
DomainLines(w, D, end) == {Line(d.name, Period(w, {d.name}, end)) : d \in {x \in w.domains : x.active /\ x.name \in D}}
SourceLines(w, D, end) ==
    {Line(ip, {r \in Period(w, D, end) : r.ip = ip}) : ip \in Sending({r \in Failing(Period(w, D, end)) : r.count > 0})}
NewSources(w, D, end) ==
    {s.row.ip : s \in {x \in Within({[at |-> y.first, row |-> y] : y \in w.sources}, end - PeriodDays, end) :
                          D # Scope(w, Whole) => x.row.ip \in Sending(Period(w, D, end))}}

LEMMA DigestLines ==
  ASSUME NEW w, NEW D, NEW end, NEW limits
  PROVE  /\ build_digest(w, D, end, limits).domains = DomainLines(w, D, end)
         /\ build_digest(w, D, end, limits).failing_sources = Cut([l \in SourceLines(w, D, end) |-> -l.failed])
         /\ build_digest(w, D, end, limits).new_sources = NewSources(w, D, end)
BY Zenon DEF build_digest, Period, DomainLines, SourceLines, NewSources

LEMMA DigestNew ==
  ASSUME NEW w, NEW D, NEW end, NEW limits PROVE build_digest(w, D, end, limits).new_sources = NewSources(w, D, end)
BY DigestLines

LEMMA DashboardHolds == StoreInv => DashboardAgrees
<1> SUFFICES ASSUME StoreInv, NEW limits \in Limits
             PROVE  LET stats == get_dashboard_stats(world, today, PeriodDays - 1, limits.STALE_REPORT_DAYS)
                        split == get_failure_split(world, today, PeriodDays - 1)
                        digest == Week(Scope(world, Whole), limits)
                    IN  /\ stats.total = digest.total /\ stats.fail = digest.failed
                        /\ split.forged + split.to_check = stats.fail
                        /\ Total("messages", get_disposition_counts(world, today, PeriodDays - 1)) = stats.total
  BY Zenon DEF DashboardAgrees
<1> DEFINE A == Scope(world, Whole)
           stats == get_dashboard_stats(world, today, PeriodDays - 1, limits.STALE_REPORT_DAYS)
           split == get_failure_split(world, today, PeriodDays - 1)
           digest == Week(A, limits)
           rows == Period(world, A, today + 1)
<1>1. today \in Int /\ PeriodDays - 1 \in Nat /\ limits.STALE_REPORT_DAYS \in Nat /\ ReportsTallied(world)
      /\ today - (PeriodDays - 1) = (today + 1) - PeriodDays
  BY StoredReports, NumbersArePositive, ThresholdsAreNumbers
<1>2. digest.total = Messages(rows) /\ digest.failed = Messages(Failing(rows))
  BY DigestCounts DEF Week
<1>3. rows = _records(world, A, today - (PeriodDays - 1), today + 1)
  BY <1>1, Zenon DEF Period
<1>4. /\ stats.fail = Messages(Failing(rows)) /\ split.forged + split.to_check = stats.fail
      /\ Total("messages", get_disposition_counts(world, today, PeriodDays - 1)) = stats.total
  <2> HIDE DEF rows, stats, split
  <2>1. QED
    BY <1>1, <1>3, DashboardAddsUp DEF stats, split
<1>5. stats.total = Messages(rows)
  BY <1>3 DEF get_dashboard_stats
<1> HIDE DEF stats, split, digest, rows
<1>6. QED
  BY <1>2, <1>4, <1>5 DEF stats, split, digest

(* The chart goes by the day of the traffic; the days it shows are those of the dashboard. *)
LEMMA ChartHolds == StoreInv => ChartAgrees
<1> DEFINE A == Scope(world, Whole)
           stats == get_dashboard_stats(world, today, PeriodDays - 1, 1)
           series == get_pass_fail_over_time(world, A, today, PeriodDays)
           chart == day_chart(series, today, PeriodDays)
<1> SUFFICES ASSUME StoreInv, \A r \in world.reports : r.begin = r.at
             PROVE  chart.pass + chart.fail = stats.total /\ chart.fail = stats.fail
  BY Zenon DEF ChartAgrees
<1> DEFINE rows == _records(world, A, today - (PeriodDays - 1), today + 1)
           R == _reports(world, A, today - (PeriodDays - 1), today + 1)
           arrived == {r \in world.reports : r.begin >= today - PeriodDays /\ r.domain \in A}
           Of(day) == UNION {r.rows : r \in {x \in arrived : x.begin = day}}
           point(t) == [day |-> t, pass |-> Messages({r \in Of(t) : dmarc_pass(r)}), fail |-> Messages(Failing(Of(t)))]
           K == {r.begin : r \in arrived} \cap (today - PeriodDays + 1 .. today)
           line == [t \in K |-> point(t)]
           tag == [r \in R |-> r.begin]
           good == {x \in rows : dmarc_pass(x)}
           bad == Failing(rows)
<1>1. today \in Int /\ PeriodDays \in Nat /\ PeriodDays - 1 \in Nat /\ ReportsTallied(world)
  BY StoredReports, NumbersArePositive
<1>2. \A r \in world.reports : r.at \in Int /\ r.begin \in Int /\ Tallied("count", r.rows) /\ RowsApart(world.reports) /\ r.domain \in A
  BY StoredReports
<1>3. /\ stats.total = Messages(rows) /\ stats.fail = Messages(bad) /\ Messages(rows) = Messages(good) + Messages(bad)
  <2>1. stats.pass + stats.fail = stats.total /\ stats.fail = Messages(bad)
    <3>1. 1 \in Nat
      OBVIOUS
    <3> HIDE DEF stats
    <3>2. QED
      BY <1>1, <3>1, DashboardAddsUp DEF stats
  <2>2. stats.total = Messages(rows) /\ stats.pass = Messages(good)
    BY DEF get_dashboard_stats
  <2>3. QED
    BY <2>1, <2>2
<1>4. chart = [pass |-> Total("pass", LinesOf(line, K)), fail |-> Total("fail", LinesOf(line, K))]
  <2>1. series = {point(t) : t \in {r.begin : r \in arrived}}
    BY DEF get_pass_fail_over_time
  <2>2. {p \in series : p.day \in today - PeriodDays + 1 .. today} = LinesOf(line, K)
    <3>1. \A t : point(t).day = t
      OBVIOUS
    <3>2. LinesOf(line, K) = {point(t) : t \in K}
      <4>1. \A t \in K : line[t] = point(t)
        OBVIOUS
      <4> HIDE DEF line, K, point
      <4>2. QED
        BY <4>1 DEF LinesOf
    <3> HIDE DEF point, series, line
    <3>3. QED
      BY <2>1, <3>1, <3>2
  <2> HIDE DEF series, line, K
  <2>3. QED
    BY <2>2 DEF day_chart
<1>5. /\ R \subseteq world.reports /\ IsFiniteSet(R) /\ RowsApart(R) /\ rows = RowsIn(R)
      /\ \A r \in R : Tallied("count", r.rows)
  <2>1. R \subseteq world.reports
    BY DEF _reports, Within
  <2>2. IsFiniteSet(R)
    BY <1>1, <2>1, FS_Subset DEF ReportsTallied
  <2>3. rows = RowsIn(R)
    BY DEF _records, RowsIn
  <2> HIDE DEF R
  <2>4. QED
    BY <1>2, <2>1, <2>2, <2>3 DEF RowsApart
<1>6. \A r \in world.reports : r \in R <=> r \in arrived /\ r.begin \in today - PeriodDays + 1 .. today
  <2>1. \A r \in world.reports : r \in R <=> today - (PeriodDays - 1) <= r.at /\ r.at < today + 1 /\ r.domain \in A
    BY DEF _reports, Within
  <2> HIDE DEF R, A
  <2>2. QED
    BY <1>1, <1>2, <2>1
<1>7. \A r \in R : tag[r] = r.begin /\ tag[r] \in K
  <2>1. \A r \in R : r \in arrived /\ r.begin \in today - PeriodDays + 1 .. today
    BY <1>5, <1>6
  <2> HIDE DEF R, arrived
  <2>2. QED
    BY <2>1
<1>8. IsFiniteSet(K)
  <2> DEFINE first == today - PeriodDays + 1
  <2>1. first \in Int
    BY <1>1
  <2>2. K \subseteq first .. today
    OBVIOUS
  <2> HIDE DEF first, K
  <2>3. IsFiniteSet(first .. today)
    BY <1>1, <2>1, FS_Interval
  <2>4. QED
    BY <2>2, <2>3, FS_Subset
<1>9. \A t \in K : Tagged(R, tag, t) = Of(t) /\ Of(t) \subseteq rows
  <2> SUFFICES ASSUME NEW t \in K PROVE Tagged(R, tag, t) = Of(t) /\ Of(t) \subseteq rows
    OBVIOUS
  <2>1. {q \in R : tag[q] = t} = {x \in arrived : x.begin = t}
    <3>1. t \in today - PeriodDays + 1 .. today /\ arrived \subseteq world.reports
      OBVIOUS
    <3> HIDE DEF R, arrived, tag, K
    <3>2. QED
      BY <1>5, <1>6, <1>7, <3>1
  <2>2. Tagged(R, tag, t) = Of(t)
    BY <2>1 DEF Tagged
  <2>3. Tagged(R, tag, t) \subseteq RowsIn(R)
    BY DEF Tagged, RowsIn
  <2> HIDE DEF Of, R, tag
  <2>4. QED
    BY <1>5, <2>2, <2>3
<1>10. \A t \in K : line[t].day = t /\ line[t]["pass"] = Messages({r \in Of(t) : dmarc_pass(r)}) /\ line[t]["fail"] = Messages(Failing(Of(t)))
  OBVIOUS
<1> HIDE DEF line, K, tag, R, Of
<1>11. \A t \in K : {r \in Of(t) : dmarc_pass(r)} = Tagged(R, tag, t) \cap good
  <2> HIDE DEF rows
  <2> QED
    BY <1>9
<1>12. \A t \in K : Failing(Of(t)) = Tagged(R, tag, t) \cap bad
  <2> HIDE DEF rows
  <2> QED
    BY <1>9, FailingRows DEF Failing
<1>13. \A u, v \in K : line[u] = line[v] => u = v
  BY <1>10
<1> HIDE DEF good, bad
<1>14. Grouped(R, K, tag, good, "pass", line) /\ Grouped(R, K, tag, bad, "fail", line)
  <2>1. \A t \in K : line[t]["pass"] = Messages(Tagged(R, tag, t) \cap good)
    BY <1>10, <1>11
  <2>2. \A t \in K : line[t]["fail"] = Messages(Tagged(R, tag, t) \cap bad)
    BY <1>10, <1>12
  <2>3. QED
    BY <1>5, <1>7, <1>8, <1>13, <2>1, <2>2 DEF Grouped
<1>15. Total("pass", LinesOf(line, K)) = Messages(RowsIn(R) \cap good)
  BY <1>14, ReportGroups
<1>16. Total("fail", LinesOf(line, K)) = Messages(RowsIn(R) \cap bad)
  BY <1>14, ReportGroups
<1>17. RowsIn(R) \cap good = good /\ RowsIn(R) \cap bad = bad
  <2>1. good \subseteq rows /\ bad \subseteq rows
    BY FailingRows DEF good, bad, Failing
  <2>2. QED
    BY <1>5, <2>1
<1>18. chart.pass = Messages(good) /\ chart.fail = Messages(bad)
  BY <1>4, <1>15, <1>16, <1>17
<1> HIDE DEF chart, stats, rows
<1>19. QED
  BY <1>3, <1>18

-----------------------------------------------------------------------------
(* The digest: lines by domain and by source. *)

LEMMA PeriodReports ==
  ASSUME StoreInv, NEW D, NEW end
  PROVE  LET R == _reports(world, D, end - PeriodDays, end)
         IN  /\ R \subseteq world.reports /\ IsFiniteSet(R) /\ RowsApart(R) /\ \A r \in R : Tallied("count", r.rows) /\ r.domain \in D
             /\ Period(world, D, end) = RowsIn(R) /\ Tallied("count", Period(world, D, end))
<1> DEFINE R == _reports(world, D, end - PeriodDays, end)
<1>1. R \subseteq world.reports /\ \A r \in R : r.domain \in D
  BY DEF _reports, Within
<1>2. Period(world, D, end) = RowsIn(R)
  BY DEF Period, _records, RowsIn
<1>3. Tallied("count", Period(world, D, end))
  BY StoredReports, RecordsTallied DEF Period
<1> HIDE DEF R
<1>4. IsFiniteSet(R) /\ RowsApart(R) /\ \A r \in R : Tallied("count", r.rows)
  BY <1>1, StoredReports, FS_Subset DEF RowsApart
<1>5. QED
  BY <1>1, <1>2, <1>3, <1>4 DEF R

\* One line for each name
LinesFor(N, end) == {Line(n, Period(world, {n}, end)) : n \in N}

LEMMA LineCounts == ASSUME NEW n, NEW rows
                    PROVE Line(n, rows).name = n /\ Line(n, rows)["total"] = Messages(rows) /\ Line(n, rows)["failed"] = Messages(Failing(rows))
BY DEF Line

(* The lines of all names have together what all of them have. *)
LEMMA NamesAddUp ==
  ASSUME StoreInv, NEW N, IsFiniteSet(N), NEW end
  PROVE  /\ Total("total", LinesFor(N, end)) = Messages(Period(world, N, end))
         /\ Total("failed", LinesFor(N, end)) = Messages(Failing(Period(world, N, end)))
<1> DEFINE R == _reports(world, N, end - PeriodDays, end)
           rows == Period(world, N, end)
           bad == Failing(rows)
           tag == [r \in R |-> r.domain]
           line == [n \in N |-> Line(n, Period(world, {n}, end))]
<1>1. /\ IsFiniteSet(R) /\ RowsApart(R) /\ rows = RowsIn(R)
      /\ \A r \in R : Tallied("count", r.rows) /\ r.domain \in N
  BY PeriodReports
<1>2. \A r \in R : tag[r] \in N /\ tag[r] = r.domain
  BY <1>1
<1>3. \A n \in N : Tagged(R, tag, n) = Period(world, {n}, end)
  <2>1. \A n \in N : {q \in R : tag[q] = n} = _reports(world, {n}, end - PeriodDays, end)
    BY DEF _reports
  <2> HIDE DEF R, tag
  <2>2. QED
    BY <2>1 DEF Tagged, Period, _records
<1>4. \A n \in N : Tagged(R, tag, n) \subseteq rows
  BY <1>1 DEF Tagged, RowsIn
<1>5. \A n \in N : line[n] = Line(n, Period(world, {n}, end))
  OBVIOUS
<1>6. LinesOf(line, N) = LinesFor(N, end)
  BY <1>5 DEF LinesOf, LinesFor
<1> HIDE DEF R, tag, line, rows
<1>7. \A n \in N : line[n].name = n /\ line[n]["total"] = Messages(Tagged(R, tag, n) \cap rows)
                   /\ line[n]["failed"] = Messages(Tagged(R, tag, n) \cap bad)
  <2> SUFFICES ASSUME NEW n \in N
               PROVE  line[n].name = n /\ line[n]["total"] = Messages(Tagged(R, tag, n) \cap rows)
                      /\ line[n]["failed"] = Messages(Tagged(R, tag, n) \cap bad)
    OBVIOUS
  <2> DEFINE T == Tagged(R, tag, n)
  <2>1. T \cap rows = T /\ T \cap bad = Failing(T)
    <3>1. T \subseteq rows
      BY <1>4
    <3> HIDE DEF T
    <3>2. QED
      BY <3>1, FailingRows DEF Failing
  <2>2. line[n] = Line(n, T)
    BY <1>3, <1>5
  <2> HIDE DEF T, bad
  <2>3. Line(n, T).name = n /\ Line(n, T)["total"] = Messages(T) /\ Line(n, T)["failed"] = Messages(Failing(T))
    BY LineCounts
  <2>4. line[n].name = n /\ line[n]["total"] = Messages(T \cap rows) /\ line[n]["failed"] = Messages(T \cap bad)
    BY <2>1, <2>2, <2>3
  <2>5. QED
    BY <2>4 DEF T
<1>8. \A u, v \in N : line[u] = line[v] => u = v
  BY <1>7
<1>9. Grouped(R, N, tag, rows, "total", line) /\ Grouped(R, N, tag, bad, "failed", line)
  <2>1. \A n \in N : line[n]["total"] = Messages(Tagged(R, tag, n) \cap rows)
    BY <1>7
  <2>2. \A n \in N : line[n]["failed"] = Messages(Tagged(R, tag, n) \cap bad)
    BY <1>7
  <2> HIDE DEF bad
  <2>3. QED
    BY <1>1, <1>2, <1>8, <2>1, <2>2 DEF Grouped
<1>10. rows \cap rows = rows /\ rows \cap bad = bad
  BY FailingRows DEF Failing
<1> HIDE DEF bad
<1>11. Total("total", LinesOf(line, N)) = Messages(RowsIn(R) \cap rows) /\ Total("failed", LinesOf(line, N)) = Messages(RowsIn(R) \cap bad)
  BY <1>9, ReportGroups
<1>12. Total("total", LinesFor(N, end)) = Messages(rows) /\ Total("failed", LinesFor(N, end)) = Messages(bad)
  BY <1>1, <1>6, <1>10, <1>11
<1>13. QED
  BY <1>12 DEF rows, bad

(* What a list is cut to exists, whatever the ranks are. *)
LEMMA CutExists ==
  ASSUME NEW rank, IsFiniteSet(DOMAIN rank), \A x \in DOMAIN rank : rank[x] \in Int, NEW n \in Nat, n <= Cardinality(DOMAIN rank)
  PROVE  \E some \in SUBSET DOMAIN rank : Cardinality(some) = n /\ \A x \in some, y \in DOMAIN rank \ some : rank[x] <= rank[y]
<1> DEFINE S == DOMAIN rank
           Best(some) == \A x \in some, y \in S \ some : rank[x] <= rank[y]
           Not == {k \in Nat : k <= Cardinality(S) /\ ~\E some \in SUBSET S : Cardinality(some) = k /\ Best(some)}
<1>1. SUFFICES ASSUME Not # {} PROVE FALSE
  BY <1>1
<1>2. PICK k \in Not : \A j \in Not : k <= j
  <2>1. Not \in SUBSET Nat
    OBVIOUS
  <2> HIDE DEF Not
  <2>2. QED
    BY <1>1, <2>1, LeastFirst
<1>3. k \in Nat /\ k <= Cardinality(S) /\ ~\E some \in SUBSET S : Cardinality(some) = k /\ Best(some)
  OBVIOUS
<1>4. k # 0
  <2>1. Cardinality({}) = 0 /\ Best({})
    BY FS_EmptySet
  <2>2. {} \in SUBSET S
    OBVIOUS
  <2> HIDE DEF Best, S
  <2>3. QED
    BY <1>3, <2>1, <2>2
<1>5. PICK T \in SUBSET S : Cardinality(T) = k - 1 /\ Best(T)
  <2>1. k - 1 \in Nat /\ Cardinality(S) \in Nat
    BY <1>3, <1>4, FS_CardinalityType
  <2>2. k - 1 \notin Not
    BY <1>2, <2>1
  <2>3. QED
    BY <1>3, <2>1, <2>2
<1> DEFINE rest == S \ T
<1>6. rest # {}
  BY <1>3, <1>5
<1>7. PICK y \in rest : \A z \in rest : rank[y] <= rank[z]
  <2> DEFINE G == {U \in SUBSET rest : U = {} \/ \E y \in U : \A z \in U : rank[y] <= rank[z]}
  <2>1. {} \in G
    OBVIOUS
  <2>2. ASSUME NEW U \in SUBSET rest, U # {}, U \ {Chosen(U)} \in G PROVE U \in G
    <3>1. Chosen(U) \in U
      BY <2>2 DEF Chosen
    <3>2. CASE U \ {Chosen(U)} = {}
      BY <3>1, <3>2
    <3>3. CASE U \ {Chosen(U)} # {}
      <4>1. PICK y \in U \ {Chosen(U)} : \A z \in U \ {Chosen(U)} : rank[y] <= rank[z]
        BY <2>2, <3>3
      <4>2. rank[y] \in Int /\ rank[Chosen(U)] \in Int
        BY <3>1
      <4>3. CASE rank[y] <= rank[Chosen(U)]
        BY <4>1, <4>3
      <4>4. CASE rank[Chosen(U)] <= rank[y]
        <5>1. \A z \in U : rank[Chosen(U)] <= rank[z]
          BY <3>1, <4>1, <4>2, <4>4
        <5>2. QED
          BY <3>1, <5>1
      <4>5. QED
        BY <4>2, <4>3, <4>4
    <3>4. QED
      BY <3>2, <3>3
  <2>3. rest \in G
    <3>1. IsFiniteSet(rest)
      BY FS_Subset
    <3> HIDE DEF G, rest
    <3>2. QED
      BY <2>1, <2>2, <3>1, SetsGrow
  <2>4. QED
    BY <1>6, <2>3
<1>8. Cardinality(T \cup {y}) = k
  <2>1. IsFiniteSet(T) /\ y \notin T
    BY <1>5, FS_Subset
  <2>2. Cardinality(T \cup {y}) = Cardinality(T) + 1
    BY <2>1, FS_AddElement
  <2>3. QED
    BY <1>3, <1>5, <2>2
<1>9. Best(T \cup {y})
  BY <1>5, <1>7
<1>10. T \cup {y} \in SUBSET S
  OBVIOUS
<1>11. QED
  <2> HIDE DEF Best
  <2>1. QED
    BY <1>3, <1>8, <1>9, <1>10

(* The lines of the sources have together what fails, whatever rows of no message are among it. *)
LEMMA SourcesAddUp ==
  ASSUME StoreInv, NEW D, NEW end
  PROVE  /\ Total("failed", SourceLines(world, D, end)) = Messages(Failing(Period(world, D, end)))
         /\ Tallied("failed", SourceLines(world, D, end)) /\ Tallied("total", SourceLines(world, D, end))
<1> DEFINE rows == Period(world, D, end)
           bad == Failing(rows)
           some == {r \in bad : r.count > 0}
           none == bad \ some
           At(ip) == {r \in rows : r.ip = ip}
           key == [r \in some |-> r.ip]
           K == Sending(some)
           line == [ip \in K |-> Line(ip, At(ip))]
<1>1. Tallied("count", rows)
  BY PeriodReports
<1>2. bad \subseteq rows
  BY FailingRows DEF Failing
<1>3. SourceLines(world, D, end) = LinesOf(line, K)
  <2>1. \A ip \in K : line[ip] = Line(ip, At(ip))
    OBVIOUS
  <2> HIDE DEF line, K, At
  <2>2. LinesOf(line, K) = {Line(ip, At(ip)) : ip \in K}
    BY <2>1 DEF LinesOf
  <2>3. QED
    BY <2>2 DEF SourceLines, K, At
<1> HIDE DEF rows
<1>4. \A ip : Failing(At(ip)) = {r \in bad : r.ip = ip} /\ At(ip) \subseteq rows
  BY FailingRows DEF Failing
<1>5. \A ip \in K : line[ip] = Line(ip, At(ip))
  OBVIOUS
<1> HIDE DEF bad, At
<1>6. Tallied("count", bad) /\ Tallied("count", some) /\ Tallied("count", none)
  <2>1. some \subseteq rows /\ none \subseteq rows
    BY <1>2
  <2> HIDE DEF some, none
  <2>2. QED
    BY <1>1, <1>2, <2>1, TalliedPart
<1>7. \A P \in SUBSET none : Messages(P) = 0
  <2> SUFFICES ASSUME NEW P \in SUBSET none PROVE Messages(P) = 0
    OBVIOUS
  <2>1. \A r \in P : r["count"] = 0
    BY <1>6 DEF Tallied
  <2>2. IsFiniteSet(P)
    BY <1>6, FS_Subset DEF Tallied
  <2> HIDE DEF none
  <2>3. Total("count", P) = SumFunctionOnSet([r \in P |-> r["count"]], P)
    BY <2>2, TotalIsSum
  <2> DEFINE f == [r \in P |-> r["count"]]
  <2>4. \A r \in P : f[r] = 0
    BY <2>1
  <2> HIDE DEF f
  <2>5. SumFunctionOnSet(f, P) = 0
    BY <2>2, <2>4, SumOfNulls
  <2>6. QED
    BY <2>3, <2>5 DEF f, Messages
<1>8. \A ip : Messages({r \in bad : r.ip = ip}) = Messages({r \in some : r.ip = ip})
  <2> SUFFICES ASSUME NEW ip PROVE Messages({r \in bad : r.ip = ip}) = Messages({r \in some : r.ip = ip})
    OBVIOUS
  <2> DEFINE X == {r \in some : r.ip = ip}
             Y == {r \in none : r.ip = ip}
             B == {r \in bad : r.ip = ip}
  <2>1. B = X \cup Y /\ X \cap Y = {} /\ X \subseteq some /\ Y \in SUBSET none
    OBVIOUS
  <2> HIDE DEF X, Y, B, some, none
  <2>2. Tallied("count", X) /\ Tallied("count", Y)
    BY <1>6, <2>1, TalliedPart
  <2>3. Total("count", X \cup Y) = Total("count", X) + Total("count", Y) /\ Total("count", X) \in Nat
    BY <2>1, <2>2, TotalOfParts
  <2>4. Total("count", Y) = 0
    BY <1>7, <2>1 DEF Messages
  <2>5. Messages(B) = Messages(X)
    BY <2>1, <2>3, <2>4 DEF Messages
  <2>6. QED
    BY <2>5 DEF B, X
<1>9. Messages(bad) = Messages(some)
  <2>1. bad = some \cup none /\ some \cap none = {}
    OBVIOUS
  <2> HIDE DEF some, none
  <2>2. Total("count", some \cup none) = Total("count", some) + Total("count", none) /\ Total("count", some) \in Nat
    BY <1>6, <2>1, TotalOfParts
  <2>3. Total("count", none) = 0
    BY <1>7 DEF Messages
  <2>4. QED
    BY <2>1, <2>2, <2>3 DEF Messages
<1>10. \A r \in some : key[r] = r.ip /\ key[r] \in K
  BY DEF Sending
<1>11. IsFiniteSet(K)
  <2>1. IsFiniteSet(DOMAIN key) /\ key = [x \in DOMAIN key |-> key[x]] /\ K = {key[r] : r \in DOMAIN key}
    BY <1>6 DEF Tallied, Sending
  <2> HIDE DEF key, K
  <2>2. QED
    BY <2>1, FiniteImage
<1> HIDE DEF key, K, line, some, none
<1>12. \A ip \in K : line[ip].name = ip /\ line[ip]["failed"] = Total("count", Group(some, key, ip))
  <2> SUFFICES ASSUME NEW ip \in K PROVE line[ip].name = ip /\ line[ip]["failed"] = Total("count", Group(some, key, ip))
    OBVIOUS
  <2>1. line[ip].name = ip /\ line[ip]["failed"] = Messages(Failing(At(ip)))
    <3>1. line[ip] = Line(ip, At(ip))
      BY <1>5
    <3>2. QED
      BY <3>1, LineCounts
  <2>2. Group(some, key, ip) = {r \in some : r.ip = ip}
    BY <1>10 DEF Group
  <2>3. Messages(Failing(At(ip))) = Messages({r \in some : r.ip = ip})
    BY <1>4, <1>8
  <2>4. QED
    BY <2>1, <2>2, <2>3 DEF Messages
<1>13. \A u, v \in K : line[u] = line[v] => u = v
  BY <1>12
<1>14. Total("failed", LinesOf(line, K)) = Total("count", some) /\ Tallied("failed", LinesOf(line, K))
  <2>1. \A r \in some : key[r] \in K
    BY <1>10
  <2>2. \A ip \in K : line[ip]["failed"] = Total("count", Group(some, key, ip))
    BY <1>12
  <2>3. QED
    BY <1>6, <1>11, <1>13, <2>1, <2>2, TotalOfGroups
<1>15. Tallied("total", LinesOf(line, K))
  <2>1. \A ip \in K : line[ip]["total"] \in Nat
    <3> SUFFICES ASSUME NEW ip \in K PROVE line[ip]["total"] \in Nat
      OBVIOUS
    <3>1. line[ip]["total"] = Messages(At(ip))
      <4>1. line[ip] = Line(ip, At(ip))
        BY <1>5
      <4>2. QED
        BY <4>1, LineCounts
    <3>2. Total("count", At(ip)) \in Nat
      BY <1>1, <1>4, TalliedPart
    <3>3. QED
      BY <3>1, <3>2 DEF Messages
  <2>2. IsFiniteSet(LinesOf(line, K))
    BY <1>14 DEF Tallied
  <2>3. QED
    BY <2>1, <2>2 DEF Tallied, LinesOf
<1>16. QED
  BY <1>3, <1>9, <1>14, <1>15 DEF bad, rows, Messages

LEMMA LinesHold == StoreInv => LinesAgree
<1> DEFINE A == Scope(world, Whole)
           Inactive == {d.name : d \in {x \in world.domains : ~x.active}}
           others == {Line(n, InPeriod({n})) : n \in {Nobody} \cup Inactive}
<1> SUFFICES ASSUME StoreInv, NEW limits \in Limits
             PROVE  LET digest == Week(A, limits)
                    IN  /\ TotalOf(digest.domains \cup others) = [total |-> digest.total, failed |-> digest.failed]
                        /\ Cardinality(digest.failing_sources) < ListLimit => TotalOf(digest.failing_sources).failed = digest.failed
  BY Zenon DEF LinesAgree
<1> DEFINE digest == Week(A, limits)
           end == today + 1
           S == SourceLines(world, A, end)
           rank == [l \in S |-> -l.failed]
<1>1. \A D : InPeriod(D) = Period(world, D, end)
  BY StoredReports, NumbersArePositive DEF InPeriod, Period
<1>2. /\ digest.total = Messages(Period(world, A, end)) /\ digest.failed = Messages(Failing(Period(world, A, end)))
      /\ digest.domains = DomainLines(world, A, end) /\ digest.failing_sources = Cut(rank)
  BY DigestCounts, DigestLines DEF Week
<1>3. digest.domains \cup others = LinesFor(A, end)
  <2>1. A = Names(world.domains) \cup {Nobody}
    BY DEF Scope, Names
  <2>2. others = {Line(n, Period(world, {n}, end)) : n \in {Nobody} \cup Inactive}
    <3> HIDE DEF end, Inactive
    <3> QED
      BY <1>1
  <2>3. digest.domains = {Line(n, Period(world, {n}, end)) : n \in {d.name : d \in {x \in world.domains : x.active}}}
    <3> HIDE DEF end, digest
    <3>1. \A d \in world.domains : d.name \in A
      BY <2>1 DEF Names
    <3> HIDE DEF A
    <3>2. {x \in world.domains : x.active /\ x.name \in A} = {x \in world.domains : x.active}
      BY <3>1
    <3>3. QED
      BY <1>2, <3>2 DEF DomainLines
  <2>4. {d.name : d \in {x \in world.domains : x.active}} \cup ({Nobody} \cup Inactive) = A
    BY <2>1 DEF Names
  <2> HIDE DEF end, digest, others, A, Inactive
  <2>5. QED
    BY <2>2, <2>3, <2>4 DEF LinesFor
<1>4. TotalOf(LinesFor(A, end)) = [total |-> digest.total, failed |-> digest.failed]
  <2>1. IsFiniteSet(A)
    BY StoredReports
  <2> HIDE DEF A, end, digest
  <2>2. Total("total", LinesFor(A, end)) = Messages(Period(world, A, end)) /\ Total("failed", LinesFor(A, end)) = Messages(Failing(Period(world, A, end)))
    BY <2>1, NamesAddUp
  <2>3. QED
    BY <1>2, <2>2 DEF TotalOf
<1>5. ASSUME Cardinality(digest.failing_sources) < ListLimit PROVE TotalOf(digest.failing_sources).failed = digest.failed
  <2>1. Tallied("failed", S) /\ Total("failed", S) = Messages(Failing(Period(world, A, end)))
    BY SourcesAddUp
  <2> HIDE DEF S
  <2>2. DOMAIN rank = S /\ IsFiniteSet(DOMAIN rank) /\ \A l \in DOMAIN rank : rank[l] \in Int
    BY <2>1 DEF Tallied
  <2> DEFINE n == IF ListLimit <= Cardinality(S) THEN ListLimit ELSE Cardinality(S)
  <2>3. n \in Nat /\ n <= Cardinality(S) /\ Cardinality(S) \in Nat /\ n = Min({ListLimit, Cardinality(S)})
    <3>1. Cardinality(S) \in Nat
      BY <2>2, FS_CardinalityType
    <3>2. QED
      BY <3>1, NumbersArePositive DEF Min
  <2> HIDE DEF rank, n
  <2>4. /\ digest.failing_sources \in SUBSET S /\ Cardinality(digest.failing_sources) = n
    <3>1. \E some \in SUBSET DOMAIN rank : Cardinality(some) = n /\ \A x \in some, y \in DOMAIN rank \ some : rank[x] <= rank[y]
      BY <2>2, <2>3, CutExists
    <3>2. Cut(rank) \in SUBSET S /\ Cardinality(Cut(rank)) = n
      <4>1. Cut(rank) = CHOOSE some \in SUBSET DOMAIN rank :
                           Cardinality(some) = n /\ \A x \in some, y \in DOMAIN rank \ some : rank[x] <= rank[y]
        BY <2>2, <2>3, Zenon DEF Cut
      <4>2. QED
        BY <2>2, <3>1, <4>1
    <3>3. QED
      BY <1>2, <3>2
  <2>5. n = Cardinality(S)
    BY <1>5, <2>3, <2>4, NumbersArePositive DEF n
  <2>6. digest.failing_sources = S
    BY <2>2, <2>4, <2>5, FS_Subset
  <2>7. QED
    BY <1>2, <2>1, <2>6 DEF TotalOf
<1> HIDE DEF others, digest
<1>6. QED
  BY <1>3, <1>4, <1>5 DEF digest

Pair(n, v) == [name |-> n, total |-> v]

LEMMA PairCounts == ASSUME NEW n, NEW v PROVE Pair(n, v).name = n /\ Pair(n, v)["total"] = v
BY DEF Pair

(* The digests of the single domains and that of the organisation; that of the period before. *)
LEMMA DigestsHold == StoreInv => DigestsAgree
<1> DEFINE A == Scope(world, Whole)
           end == today + 1
<1> SUFFICES ASSUME StoreInv, NEW limits \in Limits, NEW N \in {{d.name : d \in world.domains}}, NEW all \in {Week(A, limits)},
                    NEW single \in {[n \in N |-> Week({n}, limits)]}, NEW earlier \in {build_digest(world, A, today + 1 - PeriodDays, limits)}
             PROVE  /\ Total("total", {[name |-> n, total |-> single[n].total] : n \in N}) + Messages(InPeriod({Nobody})) = all.total
                    /\ \A n \in N : single[n].new_sources \subseteq all.new_sources
                    /\ PeriodDays <= KeepDays
                          => all.new_sources \subseteq (UNION {single[n].new_sources : n \in N}) \cup Sending(InPeriod({Nobody}))
                    /\ earlier.total = all.previous_total /\ earlier.failed = all.previous_failed
  BY DEF DigestsAgree
<1>0. /\ N = Names(world.domains) /\ all = Week(A, limits) /\ single = [n \in N |-> Week({n}, limits)]
      /\ earlier = build_digest(world, A, today + 1 - PeriodDays, limits)
  BY DEF Names
<1>1. today \in Nat /\ PeriodDays \in Nat \ {0} /\ KeepDays \in Nat /\ \A D : InPeriod(D) = Period(world, D, end)
  BY StoredReports, NumbersArePositive, StoreAssumption DEF InPeriod, Period
<1>2. A = N \cup {Nobody} /\ Nobody \notin N /\ IsFiniteSet(N)
  <2>1. A = N \cup {Nobody}
    BY <1>0 DEF Scope, Names
  <2>2. Nobody \notin N
    BY <1>0, StoreAssumption DEF StoreInv, Kept, DomainsKept, Names
  <2>3. IsFiniteSet(A)
    BY StoredReports
  <2> HIDE DEF A
  <2>4. QED
    BY <2>1, <2>2, <2>3, FS_Subset
<1>3. /\ all.total = Messages(Period(world, A, end)) /\ all.new_sources = NewSources(world, A, end)
      /\ all.previous_total = Messages(Period(world, A, end - PeriodDays))
      /\ all.previous_failed = Messages(Failing(Period(world, A, end - PeriodDays)))
  <2>1. all = build_digest(world, A, end, limits)
    BY <1>0 DEF Week
  <2> HIDE DEF A, end
  <2>2. /\ all.total = Messages(Period(world, A, end)) /\ all.previous_total = Messages(Period(world, A, end - PeriodDays))
        /\ all.previous_failed = Messages(Failing(Period(world, A, end - PeriodDays)))
    BY <2>1, DigestCounts
  <2>3. all.new_sources = NewSources(world, A, end)
    BY <2>1, DigestLines
  <2>4. QED
    BY <2>2, <2>3
<1>4. \A n \in N : single[n].total = Messages(Period(world, {n}, end)) /\ single[n].new_sources = NewSources(world, {n}, end)
  <2> SUFFICES ASSUME NEW n \in N PROVE single[n].total = Messages(Period(world, {n}, end)) /\ single[n].new_sources = NewSources(world, {n}, end)
    OBVIOUS
  <2>1. single[n] = build_digest(world, {n}, end, limits)
    BY <1>0 DEF Week
  <2> HIDE DEF end
  <2>2. single[n].total = Messages(Period(world, {n}, end))
    BY <2>1, DigestCounts
  <2>3. single[n].new_sources = NewSources(world, {n}, end)
    <3>1. build_digest(world, {n}, end, limits).new_sources = NewSources(world, {n}, end)
      BY DigestNew
    <3>2. QED
      BY <2>1, <3>1
  <2>4. QED
    BY <2>2, <2>3
<1>5. earlier.total = all.previous_total /\ earlier.failed = all.previous_failed
  <2>1. today + 1 - PeriodDays = end - PeriodDays
    BY <1>1
  <2>2. earlier = build_digest(world, A, end - PeriodDays, limits)
    BY <1>0, <2>1
  <2> HIDE DEF A, end
  <2>3. earlier.total = Messages(Period(world, A, end - PeriodDays)) /\ earlier.failed = Messages(Failing(Period(world, A, end - PeriodDays)))
    BY <2>2, DigestCounts
  <2>4. QED
    BY <1>3, <2>3
<1> DEFINE line == [n \in N |-> Pair(n, single[n].total)]
           nobody == Period(world, {Nobody}, end)
<1>6. Total("total", LinesOf(line, N)) + Messages(nobody) = all.total
  <2> DEFINE pair == [n \in {Nobody} |-> Line(n, nobody)]
  <2>1. Total("total", LinesFor(N, end)) = Messages(Period(world, N, end))
    BY <1>2, NamesAddUp
  <2>2. Period(world, A, end) = Period(world, N, end) \cup nobody
    <3> HIDE DEF A
    <3> QED
      BY <1>2 DEF Period, _records, _reports
  <2>3. Period(world, N, end) \cap nobody = {}
    <3> HIDE DEF end
    <3>1. \A x \in Period(world, N, end) : \E r \in world.reports : x \in r.rows /\ r.domain \in N
      BY DEF Period, _records, _reports, Within
    <3>2. \A x \in nobody : \E r \in world.reports : x \in r.rows /\ r.domain = Nobody
      BY DEF Period, _records, _reports, Within
    <3> HIDE DEF nobody
    <3>3. QED
      BY <1>2, <3>1, <3>2, StoredReports DEF RowsApart
  <2>4. Tallied("count", Period(world, N, end)) /\ Tallied("count", nobody)
    BY PeriodReports
  <2> HIDE DEF A, end, nobody
  <2>5. Messages(Period(world, A, end)) = Messages(Period(world, N, end)) + Messages(nobody)
    BY <2>2, <2>3, <2>4, TotalOfParts DEF Messages
  <2>6. Total("total", LinesOf(line, N)) = Total("total", LinesFor(N, end))
    <3> DEFINE long == [n \in N |-> Line(n, Period(world, {n}, end))]
               R == _reports(world, N, end - PeriodDays, end)
               rows == Period(world, N, end)
               tag == [r \in R |-> r.domain]
    <3>1. /\ IsFiniteSet(R) /\ RowsApart(R) /\ rows = RowsIn(R)
          /\ \A r \in R : Tallied("count", r.rows) /\ r.domain \in N
      BY PeriodReports
    <3>2. \A r \in R : tag[r] \in N /\ tag[r] = r.domain
      BY <3>1
    <3>3. \A n \in N : Tagged(R, tag, n) = Period(world, {n}, end)
      <4>1. \A n \in N : {q \in R : tag[q] = n} = _reports(world, {n}, end - PeriodDays, end)
        BY DEF _reports
      <4> HIDE DEF R, tag
      <4>2. QED
        BY <4>1 DEF Tagged, Period, _records
    <3>4. \A n \in N : Tagged(R, tag, n) \cap rows = Tagged(R, tag, n)
      BY <3>1 DEF Tagged, RowsIn
    <3> HIDE DEF R, tag, rows
    <3>5. \A n \in N : line[n].name = n /\ line[n]["total"] = Messages(Tagged(R, tag, n) \cap rows)
      <4> SUFFICES ASSUME NEW n \in N PROVE line[n].name = n /\ line[n]["total"] = Messages(Tagged(R, tag, n) \cap rows)
        OBVIOUS
      <4>1. line[n] = Pair(n, single[n].total)
        OBVIOUS
      <4>2. single[n].total = Messages(Tagged(R, tag, n) \cap rows)
        BY <1>4, <3>3, <3>4
      <4>3. QED
        BY <4>1, <4>2, PairCounts
    <3> HIDE DEF line
    <3>6. Grouped(R, N, tag, rows, "total", line)
      <4>1. \A n \in N : line[n]["total"] = Messages(Tagged(R, tag, n) \cap rows)
        BY <3>5
      <4>2. \A u, v \in N : line[u] = line[v] => u = v
        BY <3>5
      <4>3. QED
        BY <1>2, <3>1, <3>2, <4>1, <4>2 DEF Grouped
    <3>7. Total("total", LinesOf(line, N)) = Messages(RowsIn(R) \cap rows)
      BY <3>6, ReportGroups
    <3>8. RowsIn(R) \cap rows = rows
      BY <3>1
    <3>9. QED
      BY <2>1, <3>7, <3>8 DEF rows
  <2>7. QED
    BY <1>3, <2>1, <2>5, <2>6
<1>7. \A n \in N : single[n].new_sources \subseteq all.new_sources
  <2> SUFFICES ASSUME NEW n \in N PROVE NewSources(world, {n}, end) \subseteq NewSources(world, A, end)
    BY <1>3, <1>4
  <2>1. QED
    BY DEF NewSources
<1>8. ASSUME PeriodDays <= KeepDays PROVE all.new_sources \subseteq (UNION {single[n].new_sources : n \in N}) \cup Sending(nobody)
  <2> SUFFICES ASSUME NEW ip \in NewSources(world, A, end), ip \notin Sending(nobody) PROVE \E n \in N : ip \in NewSources(world, {n}, end)
    BY <1>3, <1>4
  <2>1. PICK s \in world.sources : s.ip = ip /\ end - PeriodDays <= s.first /\ s.first < end
    BY DEF NewSources, Within
  <2>2. SourceKept(s, world.reports, today)
    BY DEF StoreInv, Kept, SourcesKept
  <2>3. s.first >= today - KeepDays
    BY <1>1, <1>8, <2>1, <2>2 DEF SourceKept
  <2>4. PICK r \in world.reports : r.at = s.first /\ ip \in Sending(r.rows)
    BY <2>1, <2>2, <2>3 DEF SourceKept
  <2>5. \A D : r.domain \in D => ip \in Sending(Period(world, D, end))
    BY <2>1, <2>4 DEF Period, _records, _reports, Within, Sending
  <2>6. r.domain \in N
    <3>1. r.domain \in A
      BY StoredReports
    <3>2. r.domain # Nobody
      BY <2>5
    <3> HIDE DEF A
    <3>3. QED
      BY <1>2, <3>1, <3>2
  <2>7. ip \in NewSources(world, {r.domain}, end)
    <3> DEFINE X == {[at |-> y.first, row |-> y] : y \in world.sources}
               x == [at |-> s.first, row |-> s]
    <3>1. x \in X /\ x.at = s.first /\ x.row = s
      OBVIOUS
    <3> HIDE DEF X, x
    <3>2. x \in Within(X, end - PeriodDays, end)
      BY <2>1, <3>1 DEF Within
    <3>3. ip \in Sending(Period(world, {r.domain}, end))
      BY <2>5
    <3> HIDE DEF end
    <3>4. QED
      BY <2>1, <3>1, <3>2, <3>3 DEF NewSources, X
  <2> HIDE DEF end
  <2>8. QED
    BY <2>6, <2>7
<1>9. LinesOf(line, N) = {[name |-> n, total |-> single[n].total] : n \in N}
  <2>1. \A n \in N : line[n] = Pair(n, single[n].total)
    OBVIOUS
  <2> HIDE DEF line
  <2>2. LinesOf(line, N) = {Pair(n, single[n].total) : n \in N}
    BY <2>1 DEF LinesOf
  <2>3. QED
    BY <2>2 DEF Pair
<1>10. InPeriod({Nobody}) = nobody
  BY <1>1
<1> HIDE DEF line, nobody
<1>11. QED
  BY <1>5, <1>6, <1>7, <1>8, <1>9, <1>10

-----------------------------------------------------------------------------
(* Rules and what they find. *)

RuleColumns == {"type", "domain", "window", "threshold", "least", "each"}

\* A rule for all domains, for one of them
Spread(rule, n) == [rule EXCEPT !.domain = n, !.each = TRUE]

LEMMA RuleRow == ASSUME NEW rule \in Rule PROVE IsRow(rule, RuleColumns)
<1>1. rule = RuleOf(rule.type, rule.domain, rule.window, rule.threshold, rule.least)
  BY RulesAreRows
<1>2. ASSUME NEW a, NEW b, NEW c, NEW d, NEW e PROVE IsRow(RuleOf(a, b, c, d, e), RuleColumns)
  <2>1. PICK x : RuleOf(a, b, c, d, e) = [type |-> a, domain |-> b, window |-> c, threshold |-> d, least |-> e, each |-> x]
    BY Zenon DEF RuleOf
  <2>2. QED
    BY <2>1 DEF IsRow, RuleColumns
<1>3. IsRow(RuleOf(rule.type, rule.domain, rule.window, rule.threshold, rule.least), RuleColumns)
  BY <1>2
<1>4. QED
  BY <1>1, <1>3, Zenon

LEMMA SpreadRow ==
  ASSUME NEW rule \in Rule, NEW n
  PROVE  /\ Spread(rule, n).type = rule.type /\ Spread(rule, n).domain = n /\ Spread(rule, n).window = rule.window
         /\ Spread(rule, n).threshold = rule.threshold /\ Spread(rule, n).least = rule.least
<1> DEFINE v == [rule EXCEPT !.domain = n]
<1>1. PICK x : Spread(rule, n) = [v EXCEPT !.each = x]
  BY Zenon DEF Spread
<1>2. /\ IsRow(v, RuleColumns) /\ v.domain = n /\ v.type = rule.type /\ v.window = rule.window
      /\ v.threshold = rule.threshold /\ v.least = rule.least
  BY RuleRow, RowExcept DEF RuleColumns
<1> HIDE DEF v
<1>3. QED
  BY <1>1, <1>2, RowExcept DEF RuleColumns

\* What is asked for a rule
Views(w, rule) ==
    IF rule.domain # Whole \/ rule.type \notin PER_DOMAIN_TYPES THEN {rule}
    ELSE {Spread(rule, d.name) : d \in Domains(w, rule)}

LEMMA FindingsOf ==
  ASSUME NEW w, NEW rule, NEW limits, NEW t PROVE _findings(w, rule, limits, t) = UNION {EVALUATORS(w, v, limits, t) : v \in Views(w, rule)}
BY Zenon DEF _findings, Views, Spread

LEMMA ViewColumns ==
  ASSUME NEW rule \in Rule, NEW v \in Views(world, rule)
  PROVE  v.type = rule.type /\ v.window = rule.window /\ v.threshold = rule.threshold /\ v.least = rule.least
<1>1. v = rule \/ \E d \in Domains(world, rule) : v = Spread(rule, d.name)
  BY DEF Views
<1>2. QED
  BY <1>1, SpreadRow

FailTypes == {"dmarc_fail_rate", "spf_fail_rate", "dkim_fail_rate"}

LEMMA FailRates ==
  ASSUME NEW w, NEW v, v.type \in FailTypes, NEW limits, NEW t PROVE EVALUATORS(w, v, limits, t) = _eval_fail_rate(w, v, t)
BY DEF EVALUATORS, FailTypes

(* What a rule about failing mail finds. *)
FailFinding(v, f) ==
    LET rows == Recent(world, v, today)
    IN  /\ TooMuch(v, Messages(FAILING(v.type, rows)), Messages(rows))
        /\ f.domain = v.domain /\ f.ip = Nobody /\ f.failed = Messages(FAILING(v.type, rows)) /\ f.total = Messages(rows)
        /\ f.window = v.window
        /\ f.causes = analyze(world, v.domain, v.type, Nobody, today - v.window, today).causes

LEMMA FailsFound == ASSUME NEW v, NEW f \in _eval_fail_rate(world, v, today) PROVE FailFinding(v, f)
<1> DEFINE rows == Recent(world, v, today)
           fails == Messages(FAILING(v.type, rows))
           causes == analyze(world, v.domain, v.type, Nobody, today - v.window, today).causes
           g == [domain |-> v.domain, ip |-> Nobody, failed |-> fails, total |-> Messages(rows), window |-> v.window, causes |-> causes]
<1>1. _eval_fail_rate(world, v, today) = Found(TooMuch(v, fails, Messages(rows)), g)
  BY Zenon DEF _eval_fail_rate, Past
<1> HIDE DEF g
<1>2. f = g /\ TooMuch(v, fails, Messages(rows))
  BY <1>1 DEF Found
<1>3. /\ g.domain = v.domain /\ g.ip = Nobody /\ g.failed = fails /\ g.total = Messages(rows) /\ g.window = v.window
      /\ g.causes = causes
  <2> HIDE DEF rows, fails, causes
  <2> QED
    BY DEF g
<1>4. QED
  BY <1>2, <1>3, Zenon DEF FailFinding

-----------------------------------------------------------------------------
(* Causes. *)

LEMMA TotalIsNothing ==
  ASSUME NEW column, NEW S, Tallied(column, S), \A x \in S : x[column] = 0 PROVE Total(column, S) = 0
<1> DEFINE f == [x \in S |-> x[column]]
<1>1. IsFiniteSet(S)
  BY DEF Tallied
<1>2. Total(column, S) = SumFunctionOnSet(f, S)
  BY <1>1, TotalIsSum
<1>3. \A x \in S : f[x] = 0
  OBVIOUS
<1> HIDE DEF f
<1>4. SumFunctionOnSet(f, S) = 0
  BY <1>1, <1>3, SumOfNulls
<1>5. QED
  BY <1>2, <1>4

LEMMA TotalIsSomething ==
  ASSUME NEW column, NEW S, Tallied(column, S), NEW x \in S, x[column] # 0 PROVE Total(column, S) # 0
<1>1. x[column] \in Nat
  BY DEF Tallied
<1>2. Tallied(column, {x}) /\ Total(column, {x}) = x[column]
  BY <1>1, TotalOfOne
<1> DEFINE R == S \ {x}
<1>3. R \in SUBSET S /\ R \cap {x} = {} /\ R \cup {x} = S
  OBVIOUS
<1> HIDE DEF R
<1>4. Tallied(column, R) /\ Total(column, R) \in Nat
  BY <1>3, TalliedPart
<1>5. Total(column, R \cup {x}) = Total(column, R) + Total(column, {x})
  BY <1>2, <1>3, <1>4, TotalOfParts
<1>6. Total(column, S) = Total(column, R) + x[column]
  BY <1>2, <1>3, <1>5, Zenon
<1> DEFINE a == Total(column, R)
           b == x[column]
<1>7. a \in Nat /\ b \in Nat /\ b # 0 /\ Total(column, S) = a + b
  BY <1>1, <1>4, <1>6, Zenon
<1> HIDE DEF a, b
<1>8. QED
  BY <1>7

LEMMA Category ==
  ASSUME NEW item, ~(item.spf /\ item.dkim)
  PROVE  categorize(item) # "other" /\ (categorize(item) = "passing" <=> item.failed = 0)
BY DEF categorize

\* Half of the messages
Mostly(some, shown) == 2 * Messages(some) >= Max({1, Messages(shown)})

LEMMA ItemShares ==
  ASSUME NEW w, NEW kind, NEW a, NEW entries, FAILING(kind, entries) # {}
  PROVE  LET bad == FAILING(kind, entries)
         IN  /\ FailedSource(w, kind, a, entries).spf <=> Mostly({r \in bad : r.spf}, bad)
             /\ FailedSource(w, kind, a, entries).dkim <=> Mostly({r \in bad : r.dkim}, bad)
<1> DEFINE bad == FAILING(kind, entries)
           shown == IF bad = {} THEN entries ELSE bad
<1>1. shown = bad
  OBVIOUS
<1>2. /\ FailedSource(w, kind, a, entries).spf <=> Mostly({r \in shown : r.spf}, shown)
      /\ FailedSource(w, kind, a, entries).dkim <=> Mostly({r \in shown : r.dkim}, shown)
  BY Zenon DEF FailedSource, Mostly
<1>3. QED
  BY <1>1, <1>2, Zenon

LEMMA NoneIsNotMost == ASSUME NEW shown, Messages(shown) \in Nat PROVE ~Mostly({}, shown)
<1>1. Messages({}) = 0
  BY TotalOfNone DEF Messages
<1> DEFINE m == Messages(shown)
<1>2. Max({1, m}) \in Nat /\ Max({1, m}) >= 1
  <2> HIDE DEF m
  <2>1. m \in Nat
    BY DEF m
  <2>2. QED
    BY <2>1 DEF Max
<1>3. QED
  BY <1>1, <1>2 DEF Mostly

(* What fails at something does not mostly pass it. *)
LEMMA ItemFails ==
  ASSUME NEW w, NEW kind \in FailTypes, NEW a, NEW entries, Tallied("count", entries), FAILING(kind, entries) # {}
  PROVE  ~(FailedSource(w, kind, a, entries).spf /\ FailedSource(w, kind, a, entries).dkim)
<1> DEFINE bad == FAILING(kind, entries)
<1>1. bad \subseteq entries
  BY FailingRows
<1>2. {r \in bad : r.spf} = {} \/ {r \in bad : r.dkim} = {}
  BY DEF FAILING, dmarc_pass, FailTypes
<1>3. Messages(bad) \in Nat
  <2> HIDE DEF bad
  <2> QED
    BY <1>1, TalliedPart DEF Messages
<1>4. ~Mostly({}, bad)
  BY <1>3, NoneIsNotMost
<1>5. QED
  BY <1>2, <1>4, ItemShares

\* The entries of a page
ItemsAt(w, kind, rows) ==
    {FailedSource(w, kind, a, {r \in rows : r.ip = a}) :
       a \in {b \in Sending(rows) : kind \in SourceType \/ FAILING(kind, {r \in rows : r.ip = b}) # {}}}

LEMMA PageItems ==
  ASSUME NEW w, NEW domain, NEW kind \in FailTypes, NEW ip, NEW start, NEW end
  PROVE  analyze(w, domain, kind, ip, start, end).causes
            = summarize_causes(ItemsAt(w, kind, _records(w, Scope(w, domain), start, end + 1)))
<1> DEFINE all == _records(w, Scope(w, domain), start, end + 1)
<1>1. kind \notin SourceType
  BY DEF FailTypes, SourceType
<1> DEFINE rows == IF kind \in SourceType THEN {r \in all : r.ip = ip} ELSE all
<1>2. rows = all
  BY <1>1
<1>3. analyze(w, domain, kind, ip, start, end).causes = summarize_causes(ItemsAt(w, kind, rows))
  BY Zenon DEF analyze, ItemsAt
<1>4. QED
  BY <1>2, <1>3, Zenon

LEMMA ItemsHold ==
  ASSUME NEW w, NEW kind \in FailTypes, NEW rows, Tallied("count", rows)
  PROVE  /\ Tallied("failed", ItemsAt(w, kind, rows))
         /\ \A i \in ItemsAt(w, kind, rows) : ~(i.spf /\ i.dkim)
<1> DEFINE Of(a) == {r \in rows : r.ip = a}
           f == [r \in rows |-> FailedSource(w, kind, r.ip, Of(r.ip))]
<1>1. \A i \in ItemsAt(w, kind, rows) : \E a : i = FailedSource(w, kind, a, Of(a)) /\ FAILING(kind, Of(a)) # {}
  BY DEF ItemsAt, FailTypes, SourceType
<1>2. ItemsAt(w, kind, rows) \subseteq {f[r] : r \in DOMAIN f}
  <2>1. ItemsAt(w, kind, rows) \subseteq {FailedSource(w, kind, r.ip, Of(r.ip)) : r \in rows}
    BY DEF ItemsAt, Sending
  <2>2. \A r \in rows : f[r] = FailedSource(w, kind, r.ip, Of(r.ip)) /\ DOMAIN f = rows
    OBVIOUS
  <2> HIDE DEF f
  <2>3. QED
    BY <2>1, <2>2
<1>3. IsFiniteSet(DOMAIN f) /\ f = [x \in DOMAIN f |-> f[x]]
  BY DEF Tallied
<1> HIDE DEF f
<1>4. IsFiniteSet(ItemsAt(w, kind, rows))
  <2>1. IsFiniteSet({f[r] : r \in DOMAIN f})
    BY <1>3, FiniteImage
  <2>2. QED
    BY <1>2, <2>1, FS_Subset
<1>5. ASSUME NEW i \in ItemsAt(w, kind, rows) PROVE i["failed"] \in Nat /\ ~(i.spf /\ i.dkim)
  <2>1. PICK a : i = FailedSource(w, kind, a, Of(a)) /\ FAILING(kind, Of(a)) # {}
    BY <1>1
  <2>2. Tallied("count", Of(a))
    BY TalliedPart
  <2> HIDE DEF Of
  <2>3. ~(i.spf /\ i.dkim)
    BY <2>1, <2>2, ItemFails
  <2>4. i["failed"] = Messages(FAILING(kind, Of(a)))
    BY <2>1, SourceCounts
  <2>5. Messages(FAILING(kind, Of(a))) \in Nat
    <3>1. FAILING(kind, Of(a)) \subseteq Of(a)
      BY FailingRows
    <3>2. QED
      BY <2>2, <3>1, TalliedPart DEF Messages
  <2>6. QED
    BY <2>3, <2>4, <2>5
<1>6. QED
  BY <1>4, <1>5 DEF Tallied

(* Every cause tells what to do, and counts messages exactly if it is a cause of failing. *)
LEMMA CausesTell ==
  ASSUME NEW items, Tallied("failed", items), \A i \in items : ~(i.spf /\ i.dkim), NEW c \in summarize_causes(items)
  PROVE  c.key # "other" /\ (c.messages = 0 <=> c.key = "passing")
<1> DEFINE Of(k) == {i \in items : categorize(i) = k}
<1>1. PICK i \in items : c = [key |-> categorize(i), messages |-> Total("failed", Of(categorize(i))), sources |-> Cardinality(Of(categorize(i)))]
  BY DEF summarize_causes
<1> DEFINE k == categorize(i)
<1>2. c.key = k /\ c.messages = Total("failed", Of(k))
  <2> HIDE DEF k, Of
  <2>1. c = [key |-> k, messages |-> Total("failed", Of(k)), sources |-> Cardinality(Of(k))]
    BY <1>1 DEF k
  <2>2. QED
    BY <2>1
<1>3. \A j \in Of(k) : j \in items /\ (k = "passing" <=> j["failed"] = 0)
  BY Category
<1>4. k # "other" /\ i \in Of(k)
  BY Category
<1>5. Tallied("failed", Of(k))
  BY TalliedPart
<1> HIDE DEF Of, k
<1>6. CASE k = "passing"
  <2>1. Total("failed", Of(k)) = 0
    BY <1>3, <1>5, <1>6, TotalIsNothing
  <2>2. QED
    BY <1>2, <1>4, <1>6, <2>1
<1>7. CASE k # "passing"
  <2>1. i["failed"] # 0
    BY <1>3, <1>4, <1>7
  <2>2. Total("failed", Of(k)) # 0
    BY <1>4, <1>5, <2>1, TotalIsSomething
  <2>3. QED
    BY <1>2, <1>4, <1>7, <2>2
<1>8. QED
  BY <1>6, <1>7

LEMMA PageOf ==
  ASSUME NEW w, NEW event, event.window \in Nat \ {0}, NEW rule
  PROVE  build(w, event, rule) = analyze(w, event.domain, event.type, event.ip, event.at - event.window, event.at)
<1>1. window_minutes(event, rule) = event.window
  BY DEF window_minutes
<1>2. QED
  BY <1>1, Zenon DEF build

\* An alert as it is stored
AlertRow(type, domain, window, facts) == [type |-> type, domain |-> domain, ip |-> Nobody, at |-> today, window |-> window, facts |-> facts]

LEMMA AlertColumns ==
  ASSUME NEW a, NEW b, NEW c, NEW d
  PROVE  /\ AlertRow(a, b, c, d).type = a /\ AlertRow(a, b, c, d).domain = b /\ AlertRow(a, b, c, d).ip = Nobody
         /\ AlertRow(a, b, c, d).at = today /\ AlertRow(a, b, c, d).window = c /\ AlertRow(a, b, c, d).facts = d
BY DEF AlertRow

Rewritten(event, window, facts) == [event EXCEPT !.window = window, !.facts = facts]

LEMMA AlertSame ==
  ASSUME NEW a, NEW b, NEW c, NEW d PROVE Rewritten(AlertRow(a, b, c, d), c, d) = AlertRow(a, b, c, d)
<1> DEFINE columns == {"type", "domain", "ip", "at", "window", "facts"}
           e == AlertRow(a, b, c, d)
           e1 == [e EXCEPT !.window = c]
           e2 == [e1 EXCEPT !.facts = d]
<1>1. IsRow(e, columns)
  BY DEF AlertRow, IsRow
<1>2. e.window = c /\ e.facts = d
  BY AlertColumns
<1> HIDE DEF e
<1>3. IsRow(e1, columns) /\ \A k \in columns : e1[k] = e[k]
  BY <1>1, <1>2, RowExcept
<1> HIDE DEF e1
<1>4. IsRow(e2, columns) /\ \A k \in columns : e2[k] = e[k]
  BY <1>2, <1>3, RowExcept
<1> HIDE DEF e2
<1>5. e2 = e
  BY <1>1, <1>4 DEF IsRow
<1>6. QED
  BY <1>5 DEF e2, e1, e, Rewritten

\* The text after a start
TextOf(event, rule) == refresh_event_text(world, event, {rule})

\* What a rule about failing mail stores now
AlertOf(type, domain, window) == AlertRow(type, domain, window, analyze(world, domain, type, Nobody, today - window, today).causes)

LEMMA TextStays ==
  ASSUME NEW type \in FailTypes, NEW domain, NEW rule PROVE TextOf(AlertOf(type, domain, rule.window), rule) = AlertOf(type, domain, rule.window)
<1> DEFINE window == rule.window
           facts == analyze(world, domain, type, Nobody, today - window, today).causes
           event == AlertRow(type, domain, window, facts)
<1>1. event.type = type /\ event.domain = domain /\ event.at = today
  BY AlertColumns
<1>0. Rewritten(event, window, facts) = event
  BY AlertSame
<1> HIDE DEF event
<1>2. event.type \notin SourceType /\ event.type \in {"dmarc_fail_rate", "spf_fail_rate", "dkim_fail_rate"}
  BY <1>1 DEF FailTypes, SourceType
<1>3. (CHOOSE r \in {rule} : TRUE) = rule
  OBVIOUS
<1>4. analyze(world, event.domain, event.type, Nobody, event.at - window, event.at).causes = facts
  BY <1>1
<1> DEFINE span == (CHOOSE r \in {rule} : TRUE).window
           new == [event EXCEPT !.window = span, !.facts = analyze(world, event.domain, event.type, Nobody, event.at - span, event.at).causes]
<1>5. new = Rewritten(event, window, facts)
  BY <1>3, <1>4, Zenon DEF Rewritten
<1>6. refresh_event_text(world, event, {rule}) = new
  <2> HIDE DEF new
  <2>1. {rule} # {}
    OBVIOUS
  <2>2. refresh_event_text(world, event, {rule}) = 
          CASE event.type \in SourceType /\ SourceOf(world, event.ip) # {} -> [event EXCEPT !.facts = source_context(world, event.ip)]
            [] event.type \in {"dmarc_fail_rate", "spf_fail_rate", "dkim_fail_rate"} /\ {rule} # {} -> new
            [] OTHER -> event
    BY Zenon DEF refresh_event_text, new
  <2>3. QED
    BY <1>2, <2>1, <2>2
<1>7. QED
  BY <1>0, <1>5, <1>6, Zenon DEF event, TextOf, AlertOf

LEMMA CausesHold == StoreInv => CausesExplain
<1> SUFFICES ASSUME StoreInv, NEW rule \in RulesOf({"dmarc_fail_rate", "spf_fail_rate", "dkim_fail_rate"}), NEW f \in _findings(world, rule, {}, today),
                    NEW event \in {EventOf(rule.type, f)}, NEW page \in {build(world, event, {[rule EXCEPT !.window = @ + 1]})}
             PROVE  /\ Total("messages", f.causes) = f.failed
                    /\ \A c \in f.causes : c.key # "other" /\ (c.messages = 0 <=> c.key = "passing")
                    /\ page.failed = f.failed /\ page.total = f.total /\ page.causes = f.causes
                    /\ refresh_event_text(world, event, {rule}) = event
  BY Zenon DEF CausesExplain
<1>1. rule \in Rule /\ rule.type \in FailTypes
  BY DEF RulesOf, FailTypes
<1>2. PICK v \in Views(world, rule) : f \in _eval_fail_rate(world, v, today)
  <2>1. PICK v \in Views(world, rule) : f \in EVALUATORS(world, v, {}, today)
    <3>1. f \in UNION {EVALUATORS(world, v, {}, today) : v \in Views(world, rule)}
      BY FindingsOf
    <3>2. QED
      BY <3>1
  <2>2. v.type \in FailTypes
    BY <1>1, ViewColumns
  <2>3. EVALUATORS(world, v, {}, today) = _eval_fail_rate(world, v, today)
    BY <2>2, FailRates
  <2>4. QED
    BY <2>1, <2>3
<1>3. v.type = rule.type /\ v.window = rule.window
  BY <1>1, ViewColumns
<1> DEFINE kind == rule.type
           rows == Recent(world, v, today)
           start == today - v.window
           whole == analyze(world, v.domain, kind, Nobody, start, today)
<1>4. /\ f.domain = v.domain /\ f.ip = Nobody /\ f.failed = Messages(FAILING(kind, rows)) /\ f.total = Messages(rows)
      /\ f.window = v.window /\ f.causes = whole.causes
  <2>1. FailFinding(v, f)
    BY <1>2, FailsFound
  <2>2. QED
    BY <1>3, <2>1, Zenon DEF FailFinding
<1>5. today \in Int /\ v.window \in Nat \ {0} /\ start \in Int /\ ReportsTallied(world)
  BY <1>1, <1>3, StoredReports, RulesAreRows
<1>6. rows = _records(world, Scope(world, v.domain), start, today + 1)
  BY DEF Recent, Past
<1>7. Tallied("count", rows)
  <2> HIDE DEF rows
  <2> QED
    BY <1>5, <1>6, RecordsTallied
<1>8. kind \notin SourceType
  BY <1>1 DEF FailTypes, SourceType
<1> HIDE DEF rows, start, whole
<1>9. Total("messages", whole.causes) = whole.failed /\ whole.failed = Messages(FAILING(kind, rows)) /\ whole.total = Messages(rows)
  <2>1. PageRows(world, v.domain, kind, Nobody, start, today) = rows
    BY <1>6, <1>8 DEF PageRows
  <2>2. QED
    BY <1>5, <2>1, CausesAddUp DEF whole
<1>10. \A c \in whole.causes : c.key # "other" /\ (c.messages = 0 <=> c.key = "passing")
  <2>1. whole.causes = summarize_causes(ItemsAt(world, kind, rows))
    BY <1>1, <1>6, PageItems DEF whole
  <2>2. Tallied("failed", ItemsAt(world, kind, rows)) /\ \A i \in ItemsAt(world, kind, rows) : ~(i.spf /\ i.dkim)
    BY <1>1, <1>7, ItemsHold
  <2> DEFINE items == ItemsAt(world, kind, rows)
  <2> HIDE DEF items
  <2>3. Tallied("failed", items) /\ \A i \in items : ~(i.spf /\ i.dkim)
    BY <2>2 DEF items
  <2>4. whole.causes = summarize_causes(items)
    BY <2>1 DEF items
  <2>5. QED
    BY <2>3, <2>4, CausesTell
<1>11. event = AlertRow(kind, v.domain, v.window, f.causes)
  <2>1. event = [type |-> rule.type, domain |-> f.domain, ip |-> f.ip, at |-> today, window |-> f.window, facts |-> f.causes]
    BY Zenon DEF EventOf
  <2>2. QED
    BY <1>4, <2>1, Zenon DEF AlertRow
<1>12. /\ event.type = kind /\ event.domain = v.domain /\ event.ip = Nobody /\ event.at = today /\ event.window = v.window
  BY <1>11, AlertColumns
<1>13. page = whole
  <2> DEFINE later == {[rule EXCEPT !.window = @ + 1]}
  <2>1. page = build(world, event, later)
    OBVIOUS
  <2> HIDE DEF later
  <2>2. page = analyze(world, event.domain, event.type, event.ip, event.at - event.window, event.at)
    <3>1. event.window \in Nat \ {0}
      BY <1>5, <1>12
    <3>2. QED
      BY <2>1, <3>1, PageOf
  <2>3. QED
    BY <1>12, <2>2 DEF whole, start
<1>14. refresh_event_text(world, event, {rule}) = event
  <2>1. event = AlertOf(kind, v.domain, rule.window)
    BY <1>3, <1>4, <1>11, Zenon DEF AlertOf, whole, start
  <2>2. TextOf(AlertOf(kind, v.domain, rule.window), rule) = AlertOf(kind, v.domain, rule.window)
    BY <1>1, TextStays
  <2>3. QED
    BY <2>1, <2>2, Zenon DEF TextOf
<1>15. QED
  BY <1>4, <1>9, <1>10, <1>13, <1>14

-----------------------------------------------------------------------------
(* New sources. *)

Wanted(rule, s) ==
    IF rule.type = "new_unknown_source" THEN s.classification = "unknown" /\ (Scheduled => s.enriched) ELSE s.total >= _threshold(rule)

LEMMA SourceRules ==
  ASSUME NEW v, v.type \in {"new_unknown_source", "high_volume_source"}, NEW limits
  PROVE  EVALUATORS(world, v, limits, today) = Sources(v, {s \in _new_sources(world, v, today) : Wanted(v, s)})
<1> DEFINE S == _new_sources(world, v, today)
<1>1. CASE v.type = "new_unknown_source"
  <2>1. EVALUATORS(world, v, limits, today) = _eval_new_unknown_source(world, v, today)
    BY <1>1 DEF EVALUATORS
  <2>2. \A s \in S : Wanted(v, s) <=> s.classification = "unknown" /\ (Scheduled => s.enriched)
    BY <1>1, Zenon DEF Wanted
  <2> HIDE DEF S
  <2>3. {s \in S : Wanted(v, s)} = {s \in S : s.classification = "unknown" /\ (Scheduled => s.enriched)}
    BY <2>2
  <2>4. QED
    BY <2>1, <2>3, Zenon DEF _eval_new_unknown_source, S
<1>2. CASE v.type = "high_volume_source"
  <2>1. EVALUATORS(world, v, limits, today) = _eval_high_volume_source(world, v, today)
    BY <1>2 DEF EVALUATORS
  <2>2. v.type # "new_unknown_source"
    BY <1>2
  <2>3. \A s \in S : Wanted(v, s) <=> s.total >= _threshold(v)
    BY <2>2, Zenon DEF Wanted
  <2> HIDE DEF S
  <2>4. {s \in S : Wanted(v, s)} = {s \in S : s.total >= _threshold(v)}
    BY <2>3
  <2>5. QED
    BY <2>1, <2>4, Zenon DEF _eval_high_volume_source, S
<1>3. QED
  BY <1>1, <1>2

LineOf(rule, s) == [domain |-> rule.domain, ip |-> s.ip, total |-> s.total, failed |-> s.total - s.passed]

LEMMA LineColumns == ASSUME NEW rule, NEW s PROVE LineOf(rule, s).ip = s.ip /\ LineOf(rule, s).domain = rule.domain
BY DEF LineOf

LEMMA SourceLine ==
  ASSUME NEW rule, NEW found
  PROVE  /\ \A f \in Sources(rule, found) : \E s \in found : f.ip = s.ip /\ f.domain = rule.domain
         /\ \A s \in found : \E f \in Sources(rule, found) : f.ip = s.ip /\ f.domain = rule.domain
<1>1. Sources(rule, found) = {LineOf(rule, s) : s \in found}
  BY Zenon DEF Sources, LineOf
<1>2. QED
  BY <1>1, LineColumns

\* What is stored of a source that is younger than retention
LEMMA YoungSource ==
  ASSUME StoreInv, NEW s \in world.sources, s.first >= today - KeepDays
  PROVE  s.total = source_context(world, s.ip).messages /\ \A r \in world.reports : s.ip \in Sending(r.rows) => s.first <= r.at
<1>1. SourceKept(s, world.reports, today) /\ SourcesKept(world.sources, world.reports, today)
  BY DEF StoreInv, Kept, SourcesKept
<1>2. s.total = Messages(RowsAt(world.reports, s.ip))
  BY <1>1 DEF SourceKept
<1>3. source_context(world, s.ip).messages = Messages(RowsAt(world.reports, s.ip))
  BY Zenon DEF source_context, RowsAt
<1>4. \A r \in world.reports : s.ip \in Sending(r.rows) => s.first <= r.at
  BY <1>1 DEF SourcesKept
<1>5. QED
  BY <1>2, <1>3, <1>4

SendsFor(s, n) == \E r \in world.reports : r.domain = n /\ s.ip \in Sending(r.rows)

LEMMA SendsRecently ==
  ASSUME StoreInv, NEW v, v.window \in Nat, v.window <= KeepDays, v.domain # Whole,
         NEW s \in world.sources, s.first >= today - v.window
  PROVE  s.ip \in Sending(Recent(world, v, today)) <=> SendsFor(s, v.domain)
<1>1. today \in Nat /\ KeepDays \in Nat /\ s.first \in Nat /\ \A r \in world.reports : r.at \in Nat /\ r.at <= today
  BY StoredReports, StoreAssumption DEF StoreInv, Kept, SourcesKept, SourceKept
<1>2. s.first >= today - KeepDays
  BY <1>1
<1>3. \A r \in world.reports : s.ip \in Sending(r.rows) => today - v.window <= r.at /\ r.at < today + 1
  <2>1. \A r \in world.reports : s.ip \in Sending(r.rows) => s.first <= r.at
    BY <1>2, YoungSource
  <2>2. QED
    BY <1>1, <2>1
<1>4. Scope(world, v.domain) = {v.domain}
  BY DEF Scope
<1>5. Recent(world, v, today) = UNION {r.rows : r \in {q \in world.reports : today - v.window <= q.at /\ q.at < today + 1 /\ q.domain = v.domain}}
  BY <1>4 DEF Recent, Past, _records, _reports, Within
<1>6. QED
  BY <1>3, <1>5 DEF Sending, SendsFor

DueFor(rule, s) ==
    IF rule.type = "new_unknown_source" THEN s.classification = "unknown" /\ (Scheduled => s.enriched)
    ELSE source_context(world, s.ip).messages >= _threshold(rule)

LEMMA ViewThreshold ==
  ASSUME NEW rule \in Rule, NEW v \in Views(world, rule) PROVE _threshold(v) = _threshold(rule)
BY ViewColumns DEF _threshold

\* What a rule about sources finds for a domain
LEMMA SourceFound ==
  ASSUME StoreInv, NEW rule \in Rule, rule.type \in {"new_unknown_source", "high_volume_source"}, rule.window <= KeepDays,
         NEW v \in Views(world, rule), v.domain # Whole, NEW s \in world.sources
  PROVE  s \in _new_sources(world, v, today) /\ Wanted(v, s) <=> s.first >= today - rule.window /\ DueFor(rule, s) /\ SendsFor(s, v.domain)
<1>1. v.type = rule.type /\ v.window = rule.window /\ v.window \in Nat /\ _threshold(v) = _threshold(rule)
  BY ViewColumns, ViewThreshold, RulesAreRows
<1>2. today \in Nat /\ KeepDays \in Nat /\ s.first \in Nat /\ s.first <= today
  BY StoreAssumption DEF StoreInv, Kept, SourcesKept, SourceKept
<1>3. s \in _new_sources(world, v, today) <=> today - v.window <= s.first /\ s.ip \in Sending(Recent(world, v, today))
  BY <1>2 DEF _new_sources, Past
<1>4. CASE s.first >= today - v.window
  <2>1. s.ip \in Sending(Recent(world, v, today)) <=> SendsFor(s, v.domain)
    BY <1>1, <1>4, SendsRecently
  <2>2. s.total = source_context(world, s.ip).messages
    <3>1. s.first >= today - KeepDays
      BY <1>1, <1>2, <1>4
    <3>2. QED
      BY <3>1, YoungSource
  <2>3. Wanted(v, s) <=> DueFor(rule, s)
    BY <1>1, <2>2, Zenon DEF Wanted, DueFor
  <2>4. QED
    BY <1>1, <1>2, <1>3, <1>4, <2>1, <2>3
<1>5. CASE ~(s.first >= today - v.window)
  BY <1>1, <1>2, <1>3, <1>5
<1>6. QED
  BY <1>4, <1>5

LEMMA SourcesHold == StoreInv => SourcesAreFound
<1> DEFINE Active(s) == {d \in world.domains : d.active /\ \E r \in world.reports : r.domain = d.name /\ s.ip \in Sending(r.rows)}
<1> SUFFICES ASSUME StoreInv, NEW rule \in RulesOf({"new_unknown_source", "high_volume_source"}), rule.domain = Whole, rule.window <= KeepDays
             PROVE  {<<f.ip, f.domain>> : f \in _findings(world, rule, {}, today)}
                       = UNION {{<<s.ip, d.name>> : d \in Active(s)} :
                                  s \in {x \in world.sources : x.first >= today - rule.window /\ DueFor(rule, x)}}
  BY Zenon DEF SourcesAreFound, DueFor
<1>1. rule \in Rule /\ rule.type \in {"new_unknown_source", "high_volume_source"}
  BY DEF RulesOf
<1>2. Views(world, rule) = {Spread(rule, d.name) : d \in {x \in world.domains : x.active}}
  <2>1. rule.type \in PER_DOMAIN_TYPES
    BY <1>1 DEF PER_DOMAIN_TYPES
  <2>2. Domains(world, rule) = {x \in world.domains : x.active}
    BY DEF Domains
  <2>3. QED
    BY <2>1, <2>2 DEF Views
<1>3. \A d \in world.domains : d.name # Whole
  BY StoreAssumption DEF StoreInv, Kept, DomainsKept
<1>4. \A v \in Views(world, rule) : EVALUATORS(world, v, {}, today) = Sources(v, {s \in _new_sources(world, v, today) : Wanted(v, s)})
  BY <1>1, ViewColumns, SourceRules
<1>5. ASSUME NEW f \in _findings(world, rule, {}, today)
      PROVE  \E s \in world.sources : \E d \in Active(s) :
                s.first >= today - rule.window /\ DueFor(rule, s) /\ f.ip = s.ip /\ f.domain = d.name
  <2>1. PICK v \in Views(world, rule) : f \in EVALUATORS(world, v, {}, today)
    <3>1. f \in UNION {EVALUATORS(world, v, {}, today) : v \in Views(world, rule)}
      BY FindingsOf
    <3>2. QED
      BY <3>1
  <2>2. PICK d \in world.domains : d.active /\ v = Spread(rule, d.name)
    BY <1>2
  <2>3. v.domain = d.name /\ v.domain # Whole
    BY <1>1, <1>3, <2>2, SpreadRow
  <2> DEFINE T == {s \in _new_sources(world, v, today) : Wanted(v, s)}
  <2>4. PICK s \in T : f.ip = s.ip /\ f.domain = v.domain
    <3>1. f \in Sources(v, T)
      BY <1>4, <2>1
    <3> HIDE DEF T
    <3>2. QED
      BY <3>1, SourceLine
  <2>5. s \in world.sources
    BY DEF _new_sources
  <2>6. s.first >= today - rule.window /\ DueFor(rule, s) /\ SendsFor(s, v.domain)
    BY <1>1, <2>3, <2>5, SourceFound
  <2>7. d \in Active(s)
    BY <2>2, <2>3, <2>6 DEF SendsFor
  <2> HIDE DEF Active
  <2>8. QED
    BY <2>3, <2>4, <2>5, <2>6, <2>7
<1>6. ASSUME NEW s \in world.sources, NEW d \in Active(s), s.first >= today - rule.window, DueFor(rule, s)
      PROVE  \E f \in _findings(world, rule, {}, today) : f.ip = s.ip /\ f.domain = d.name
  <2> DEFINE v == Spread(rule, d.name)
             T == {x \in _new_sources(world, v, today) : Wanted(v, x)}
  <2>1. v \in Views(world, rule) /\ v.domain = d.name /\ v.domain # Whole
    BY <1>1, <1>2, <1>3, SpreadRow
  <2>2. SendsFor(s, v.domain)
    BY <2>1 DEF SendsFor
  <2> HIDE DEF v
  <2>3. s \in T
    BY <1>1, <1>6, <2>1, <2>2, SourceFound DEF _new_sources
  <2>4. PICK f \in Sources(v, T) : f.ip = s.ip /\ f.domain = v.domain
    <3> HIDE DEF T
    <3> QED
      BY <2>3, SourceLine
  <2>5. f \in EVALUATORS(world, v, {}, today)
    BY <1>4, <2>1
  <2>6. f \in _findings(world, rule, {}, today)
    <3>1. f \in UNION {EVALUATORS(world, u, {}, today) : u \in Views(world, rule)}
      BY <2>1, <2>5
    <3>2. QED
      BY <3>1, FindingsOf
  <2>7. QED
    BY <2>1, <2>4, <2>6
<1> HIDE DEF Active
<1>7. QED
  BY <1>5, <1>6

-----------------------------------------------------------------------------
(* Volumes. *)

LEMMA Longer == ASSUME NEW a \in Nat, NEW b \in Nat, a <= b, NEW k \in Nat PROVE a * k <= b * k
<1>1. PICK c \in Nat : b = a + c
  <2>1. b - a \in Nat /\ b = a + (b - a)
    OBVIOUS
  <2>2. QED
    BY <2>1
<1>2. b * k = a * k + c * k /\ c * k \in Nat /\ a * k \in Nat
  BY <1>1
<1>3. QED
  BY <1>2

\* The moments of a window of so many days; the first one is not over
InWindow(at, k, i) == today - (i + 1) * k <= at /\ (IF i = 0 THEN at < today + 1 ELSE at < today - i * k)

LEMMA OneWindow ==
  ASSUME today \in Nat, NEW k \in Nat \ {0}, NEW b \in Nat, NEW at \in Int, at < today + 1
  PROVE  /\ \A i \in 0 .. b, j \in 0 .. b : InWindow(at, k, i) /\ InWindow(at, k, j) => i = j
         /\ today - (b + 1) * k <= at <=> \E i \in 0 .. b : InWindow(at, k, i)
<1>1. ASSUME NEW i \in Nat, NEW j \in Nat, InWindow(at, k, i), InWindow(at, k, j), i < j PROVE FALSE
  <2>1. (i + 1) * k <= j * k /\ (i + 1) * k \in Int /\ j * k \in Int
    BY <1>1, Longer
  <2>2. today - (i + 1) * k <= at /\ at < today - j * k
    BY <1>1 DEF InWindow
  <2>3. QED
    <3> DEFINE x == (i + 1) * k
               y == j * k
    <3>1. x <= y /\ x \in Int /\ y \in Int /\ today - x <= at /\ at < today - y
      BY <2>1, <2>2
    <3> HIDE DEF x, y
    <3>2. QED
      BY <3>1
<1>2. \A i \in 0 .. b, j \in 0 .. b : InWindow(at, k, i) /\ InWindow(at, k, j) => i = j
  <2> SUFFICES ASSUME NEW i \in 0 .. b, NEW j \in 0 .. b, InWindow(at, k, i), InWindow(at, k, j) PROVE i = j
    OBVIOUS
  <2>1. i \in Nat /\ j \in Nat
    OBVIOUS
  <2>2. ~(i < j) /\ ~(j < i)
    BY <1>1, <2>1
  <2>3. QED
    BY <2>1, <2>2
<1>3. ASSUME NEW i \in 0 .. b, InWindow(at, k, i) PROVE today - (b + 1) * k <= at
  <2>1. i + 1 \in Nat /\ b + 1 \in Nat /\ i + 1 <= b + 1
    OBVIOUS
  <2>2. (i + 1) * k <= (b + 1) * k /\ (i + 1) * k \in Int /\ (b + 1) * k \in Int
    BY <2>1, Longer
  <2>3. today - (i + 1) * k <= at
    BY <1>3 DEF InWindow
  <2> DEFINE x == (i + 1) * k
             y == (b + 1) * k
  <2>4. x <= y /\ x \in Int /\ y \in Int /\ today - x <= at
    BY <2>2, <2>3
  <2> HIDE DEF x, y
  <2>5. today - y <= at
    BY <2>4
  <2>6. QED
    BY <2>5 DEF y
<1>4. ASSUME today - (b + 1) * k <= at PROVE \E i \in 0 .. b : InWindow(at, k, i)
  <2> DEFINE Open == {i \in Nat : today - (i + 1) * k <= at}
  <2>1. b \in Open /\ Open \in SUBSET Nat
    BY <1>4
  <2>2. PICK i \in Open : \A j \in Open : i <= j
    <3>1. Open # {}
      BY <2>1
    <3> HIDE DEF Open
    <3>2. QED
      BY <2>1, <3>1, LeastFirst
  <2>3. i \in 0 .. b
    BY <2>1, <2>2
  <2>4. CASE i = 0
    BY <2>2, <2>3, <2>4 DEF InWindow
  <2>5. CASE i # 0
    <3>1. i - 1 \in Nat /\ i - 1 \notin Open
      BY <2>2, <2>3, <2>5
    <3>2. ~(today - ((i - 1) + 1) * k <= at)
      BY <3>1
    <3>3. (i - 1) + 1 = i /\ i * k \in Int
      BY <2>3
    <3>4. at < today - i * k
      <4> DEFINE x == i * k
      <4>1. ~(today - x <= at) /\ x \in Int
        BY <3>2, <3>3
      <4> HIDE DEF x
      <4>2. at < today - x
        BY <4>1
      <4>3. QED
        BY <4>2 DEF x
    <3>5. QED
      BY <2>2, <2>3, <2>5, <3>4 DEF InWindow
  <2>6. QED
    BY <2>4, <2>5
<1>5. QED
  BY <1>2, <1>3, <1>4

\* A window of a rule and what it counts
Window(rule, i) == IF i = 0 THEN Recent(world, rule, today)
                   ELSE _records(world, Scope(world, rule.domain), today - (i + 1) * rule.window, today - i * rule.window)
Slot(i, m) == [window |-> i, messages |-> m]
Slots(rule, K) == {Slot(i, Messages(Window(rule, i))) : i \in K}

LEMMA SlotColumns == ASSUME NEW i, NEW m PROVE Slot(i, m).window = i /\ Slot(i, m)["messages"] = m
BY DEF Slot

LEMMA VolumeCounts ==
  ASSUME NEW rule
  PROVE  /\ _volumes(world, rule, today).current = Messages(Window(rule, 0))
         /\ Earlier(_volumes(world, rule, today)) = Total("messages", Slots(rule, 1 .. Baseline))
<1> DEFINE Of(i) == Messages(_records(world, Scope(world, rule.domain), today - (i + 1) * rule.window, today - i * rule.window))
<1>1. _volumes(world, rule, today) = [current |-> Messages(Recent(world, rule, today)), history |-> {[window |-> i, messages |-> Of(i)] : i \in 1 .. Baseline}]
  BY Zenon DEF _volumes
<1>2. \A i \in 1 .. Baseline : Slot(i, Messages(Window(rule, i))) = [window |-> i, messages |-> Of(i)]
  <2> SUFFICES ASSUME NEW i \in 1 .. Baseline PROVE Slot(i, Messages(Window(rule, i))) = [window |-> i, messages |-> Of(i)]
    OBVIOUS
  <2>1. i # 0
    BY NumbersArePositive
  <2>2. Messages(Window(rule, i)) = Of(i)
    BY <2>1, Zenon DEF Window
  <2> HIDE DEF Of
  <2>3. QED
    BY <2>2 DEF Slot
<1> HIDE DEF Of
<1>3. {[window |-> i, messages |-> Of(i)] : i \in 1 .. Baseline} = Slots(rule, 1 .. Baseline)
  BY <1>2 DEF Slots
<1>4. _volumes(world, rule, today).history = Slots(rule, 1 .. Baseline) /\ _volumes(world, rule, today).current = Messages(Recent(world, rule, today))
  BY <1>1, <1>3
<1>5. Window(rule, 0) = Recent(world, rule, today)
  BY DEF Window
<1>6. QED
  BY <1>4, <1>5 DEF Earlier

(* The windows have together what the whole time has. *)
LEMMA WindowsAddUp ==
  ASSUME StoreInv, NEW rule, rule.window \in Nat \ {0}
  PROVE  /\ Total("messages", Slots(rule, 0 .. Baseline))
               = Messages(_records(world, Scope(world, rule.domain), today - (Baseline + 1) * rule.window, today + 1))
         /\ Tallied("messages", Slots(rule, 0 .. Baseline))
<1> DEFINE D == Scope(world, rule.domain)
           k == rule.window
           first == today - (Baseline + 1) * k
           R == _reports(world, D, first, today + 1)
           rows == _records(world, D, first, today + 1)
           K == 0 .. Baseline
           In(r, i) == InWindow(r.at, k, i)
           tag == [r \in R |-> CHOOSE i \in K : In(r, i)]
           line == [i \in K |-> Slot(i, Messages(Window(rule, i)))]
<1>1. today \in Nat /\ k \in Nat \ {0} /\ Baseline \in Nat /\ ReportsTallied(world) /\ RowsApart(world.reports)
  BY StoredReports, NumbersArePositive
<1>2. \A r \in world.reports : r.at \in Int /\ r.at < today + 1 /\ Tallied("count", r.rows)
  BY StoredReports
<1>3. \A r \in world.reports : r \in R <=> first <= r.at /\ r.domain \in D
  <2>1. \A r \in world.reports : r \in R <=> first <= r.at /\ r.at < today + 1 /\ r.domain \in D
    BY DEF _reports, Within
  <2>2. QED
    BY <1>2, <2>1
<1>4. R \subseteq world.reports /\ rows = RowsIn(R)
  BY DEF _reports, Within, _records, RowsIn
<1> HIDE DEF R, D
<1>5. \A r \in world.reports : /\ \A i \in K, j \in K : In(r, i) /\ In(r, j) => i = j
                               /\ first <= r.at <=> \E i \in K : In(r, i)
  BY <1>1, <1>2, OneWindow
<1> HIDE DEF first, In, K
<1>6. \A r \in R : tag[r] \in K /\ In(r, tag[r])
  <2> SUFFICES ASSUME NEW r \in R PROVE tag[r] \in K /\ In(r, tag[r])
    OBVIOUS
  <2>1. \E i \in K : In(r, i)
    BY <1>3, <1>4, <1>5
  <2>2. tag[r] = CHOOSE i \in K : In(r, i)
    OBVIOUS
  <2> HIDE DEF tag
  <2>3. QED
    BY <2>1, <2>2
<1> HIDE DEF tag
<1>7. \A i \in K : {r \in R : tag[r] = i} = {r \in world.reports : In(r, i) /\ r.domain \in D}
  BY <1>3, <1>4, <1>5, <1>6
<1>8. \A i \in K : Window(rule, i) = UNION {r.rows : r \in {q \in world.reports : In(q, i) /\ q.domain \in D}}
  <2> SUFFICES ASSUME NEW i \in K PROVE Window(rule, i) = UNION {r.rows : r \in {q \in world.reports : In(q, i) /\ q.domain \in D}}
    OBVIOUS
  <2> DEFINE start == today - (i + 1) * k
             end == IF i = 0 THEN today + 1 ELSE today - i * k
  <2>1. Window(rule, i) = _records(world, D, start, end)
    <3>1. CASE i = 0
      <4>1. (i + 1) * k = k
        BY <1>1, <3>1
      <4>2. start = today - rule.window
        BY <4>1
      <4>3. end = today + 1
        BY <3>1
      <4>4. Window(rule, i) = Recent(world, rule, today)
        BY <3>1 DEF Window
      <4> HIDE DEF start, end
      <4>5. QED
        BY <4>2, <4>3, <4>4, Zenon DEF Recent, Past, D
    <3>2. CASE i # 0
      BY <3>2, Zenon DEF Window, D
    <3>3. QED
      BY <3>1, <3>2
  <2>2. \A q \in world.reports : In(q, i) <=> start <= q.at /\ q.at < end
    BY DEF In, InWindow
  <2> HIDE DEF start, end
  <2>3. {q \in world.reports : In(q, i) /\ q.domain \in D} = _reports(world, D, start, end)
    BY <2>2 DEF _reports, Within
  <2>4. QED
    BY <2>1, <2>3 DEF _records
<1>9. \A i \in K : Tagged(R, tag, i) = Window(rule, i)
  BY <1>7, <1>8 DEF Tagged
<1>10. \A i \in K : Tagged(R, tag, i) \cap rows = Tagged(R, tag, i)
  BY <1>4 DEF Tagged, RowsIn
<1>11. /\ IsFiniteSet(R) /\ RowsApart(R) /\ \A r \in R : Tallied("count", r.rows)
  BY <1>1, <1>2, <1>4, FS_Subset DEF ReportsTallied, RowsApart
<1>12. IsFiniteSet(K)
  BY <1>1, FS_Interval DEF K
<1>13. \A i \in K : line[i].window = i /\ line[i]["messages"] = Messages(Window(rule, i))
  BY SlotColumns
<1>14. LinesOf(line, K) = Slots(rule, K)
  <2>1. \A i \in K : line[i] = Slot(i, Messages(Window(rule, i)))
    OBVIOUS
  <2> HIDE DEF line
  <2>2. QED
    BY <2>1 DEF LinesOf, Slots
<1> HIDE DEF line, rows
<1>15. Grouped(R, K, tag, rows, "messages", line)
  <2>1. \A i \in K : line[i]["messages"] = Messages(Tagged(R, tag, i) \cap rows)
    <3> SUFFICES ASSUME NEW i \in K PROVE line[i]["messages"] = Messages(Tagged(R, tag, i) \cap rows)
      OBVIOUS
    <3>1. Tagged(R, tag, i) \cap rows = Window(rule, i)
      BY <1>9, <1>10
    <3>2. line[i]["messages"] = Messages(Window(rule, i))
      BY <1>13
    <3>3. QED
      BY <3>1, <3>2, Zenon
  <2>2. \A i, j \in K : line[i] = line[j] => i = j
    BY <1>13
  <2>3. \A r \in R : Tallied("count", r.rows) /\ tag[r] \in K
    BY <1>6, <1>11
  <2>4. QED
    BY <1>11, <1>12, <2>1, <2>2, <2>3 DEF Grouped
<1>16. Total("messages", LinesOf(line, K)) = Messages(RowsIn(R) \cap rows) /\ Tallied("messages", LinesOf(line, K))
  BY <1>15, ReportGroups
<1>17. RowsIn(R) \cap rows = rows
  BY <1>4
<1>18. QED
  BY <1>14, <1>16, <1>17 DEF rows, K, D, first

\* A rule about volumes: what it counts
LEMMA VolumesAddUp ==
  ASSUME StoreInv, NEW rule, rule.window \in Nat \ {0}
  PROVE  LET v == _volumes(world, rule, today)
         IN  /\ v.current \in Nat /\ Earlier(v) \in Nat
             /\ v.current + Earlier(v) = Messages(_records(world, Scope(world, rule.domain), today - (Baseline + 1) * rule.window, today + 1))
<1> DEFINE whole == Messages(_records(world, Scope(world, rule.domain), today - (Baseline + 1) * rule.window, today + 1))
           P == Slots(rule, {0})
           Q == Slots(rule, 1 .. Baseline)
           S == Slots(rule, 0 .. Baseline)
           v == _volumes(world, rule, today)
<1>1. v.current = Messages(Window(rule, 0)) /\ Earlier(v) = Total("messages", Q)
  BY VolumeCounts
<1>2. Total("messages", S) = whole /\ Tallied("messages", S)
  BY WindowsAddUp
<1>3. S = P \cup Q
  <2>1. 0 .. Baseline = {0} \cup (1 .. Baseline)
    BY NumbersArePositive
  <2>2. QED
    BY <2>1 DEF Slots
<1>4. P \cap Q = {}
  BY SlotColumns DEF Slots
<1>5. P = {Slot(0, Messages(Window(rule, 0)))}
  BY DEF Slots
<1> DEFINE one == Slot(0, Messages(Window(rule, 0)))
<1> HIDE DEF P, Q, S, whole, v
<1>6. Tallied("messages", P) /\ Tallied("messages", Q) /\ Total("messages", P) \in Nat /\ Total("messages", Q) \in Nat
  <2>1. P \in SUBSET S /\ Q \in SUBSET S
    BY <1>3
  <2>2. QED
    BY <1>2, <2>1, TalliedPart
<1>7. Total("messages", P \cup Q) = Total("messages", P) + Total("messages", Q)
  BY <1>4, <1>6, TotalOfParts
<1>8. Total("messages", P) = v.current
  <2>1. one["messages"] = Messages(Window(rule, 0))
    BY SlotColumns
  <2>2. one["messages"] \in Nat
    BY <1>5, <1>6 DEF Tallied
  <2> HIDE DEF one
  <2>3. Total("messages", {one}) = one["messages"]
    BY <2>2, TotalOfOne
  <2>4. QED
    BY <1>1, <1>5, <2>1, <2>3 DEF one
<1>9. v.current \in Nat /\ Earlier(v) \in Nat /\ v.current + Earlier(v) = whole
  BY <1>1, <1>2, <1>3, <1>6, <1>7, <1>8
<1>10. QED
  BY <1>9 DEF v, whole

LEMMA SameVolumes ==
  ASSUME NEW p, NEW q, p.domain = q.domain, p.window = q.window PROVE _volumes(world, p, today) = _volumes(world, q, today)
BY Zenon DEF _volumes, Recent, Past

LEMMA RisesAndFalls ==
  ASSUME NEW c \in Nat, NEW e \in Nat \ {0}, NEW b \in Nat, NEW x \in Nat, NEW y \in Nat,
         (c * b) * 100 >= e * (100 + x), (c * b) * 100 <= e * (100 - y)
  PROVE  x = 0 /\ y = 0
<1> DEFINE m == (c * b) * 100
<1>1. e * (100 + x) <= e * (100 - y)
  <2>1. m \in Int /\ e * (100 + x) \in Int /\ e * (100 - y) \in Int
    OBVIOUS
  <2> DEFINE u == e * (100 + x)
             w == e * (100 - y)
  <2>2. m >= u /\ m <= w /\ m \in Int /\ u \in Int /\ w \in Int
    BY <2>1
  <2> HIDE DEF m, u, w
  <2>3. u <= w
    BY <2>2
  <2>4. QED
    BY <2>3 DEF u, w
<1>2. e * (100 + x) = e * 100 + e * x /\ e * (100 - y) = e * 100 - e * y
  OBVIOUS
<1>3. e * x >= x /\ e * y >= y /\ e * x \in Nat /\ e * y \in Nat
  <2>1. \A z \in Nat : e * z >= z /\ e * z \in Nat
    <3> SUFFICES ASSUME NEW z \in Nat PROVE e * z >= z /\ e * z \in Nat
      OBVIOUS
    <3>1. 1 * z <= e * z
      BY Longer
    <3>2. QED
      BY <3>1
  <2>2. QED
    BY <2>1
<1>4. QED
  BY <1>1, <1>2, <1>3

LEMMA VolumesHold == StoreInv => VolumesAreOnce
<1> SUFFICES ASSUME StoreInv, NEW up \in RulesOf({"volume_spike"}) 
             PROVE  /\ LET v == _volumes(world, up, today)
                       IN  v.current + Earlier(v) = Messages(_records(world, Scope(world, up.domain), today - (Baseline + 1) * up.window, today + 1))
                    /\ \A down \in RulesOf({"volume_drop"}) :
                          /\ up.domain = down.domain /\ up.window = down.window
                          /\ _eval_volume_spike(world, up, today) # {} /\ _eval_volume_drop(world, down, today) # {}
                          => _threshold(up) = 0 /\ _threshold(down) = 0
  BY Zenon DEF VolumesAreOnce
<1> DEFINE v == _volumes(world, up, today)
<1>1. up \in Rule /\ up.window \in Nat \ {0} /\ _threshold(up) \in Nat
  BY RulesAreRows DEF RulesOf
<1>2. /\ v.current \in Nat /\ Earlier(v) \in Nat
      /\ v.current + Earlier(v) = Messages(_records(world, Scope(world, up.domain), today - (Baseline + 1) * up.window, today + 1))
  BY <1>1, VolumesAddUp
<1>3. ASSUME NEW down \in RulesOf({"volume_drop"}), up.domain = down.domain, up.window = down.window,
             _eval_volume_spike(world, up, today) # {}, _eval_volume_drop(world, down, today) # {}
      PROVE  _threshold(up) = 0 /\ _threshold(down) = 0
  <2>1. _threshold(down) \in Nat
    BY RulesAreRows DEF RulesOf
  <2>2. _volumes(world, down, today) = v
    BY <1>3, SameVolumes
  <2>3. Earlier(v) > 0 /\ v.current * Baseline * 100 >= Earlier(v) * (100 + _threshold(up))
    <3>1. _eval_volume_spike(world, up, today) =
             Found(Earlier(v) > 0 /\ v.current >= up.least /\ v.current * Baseline * 100 >= Earlier(v) * (100 + _threshold(up)), Volume(up, v))
      BY Zenon DEF _eval_volume_spike
    <3> HIDE DEF v
    <3>2. QED
      BY <1>3, <3>1, Zenon DEF Found
  <2>4. v.current * Baseline * 100 <= Earlier(v) * (100 - _threshold(down))
    <3>1. _eval_volume_drop(world, down, today) =
             Found(Earlier(v) > 0 /\ Earlier(v) >= down.least * Baseline
                      /\ v.current * Baseline * 100 <= Earlier(v) * (100 - _threshold(down)), Volume(down, v))
      BY <2>2, Zenon DEF _eval_volume_drop
    <3> HIDE DEF v
    <3>2. QED
      BY <1>3, <3>1, Zenon DEF Found
  <2> DEFINE c == v.current
             e == Earlier(v)
             x == _threshold(up)
             y == _threshold(down)
  <2>5. c \in Nat /\ e \in Nat \ {0} /\ Baseline \in Nat /\ x \in Nat /\ y \in Nat
    BY <1>1, <1>2, <2>1, <2>3, NumbersArePositive
  <2>6. (c * Baseline) * 100 >= e * (100 + x) /\ (c * Baseline) * 100 <= e * (100 - y)
    BY <2>3, <2>4
  <2> HIDE DEF c, e, x, y
  <2>7. x = 0 /\ y = 0
    BY <2>5, <2>6, RisesAndFalls
  <2>8. QED
    BY <2>7 DEF x, y
<1> HIDE DEF v
<1>4. QED
  BY <1>2, <1>3 DEF v

-----------------------------------------------------------------------------
(* Advice. *)

Over(limits, percent, rows) ==
    Messages(rows) >= limits.FAIL_MIN_MESSAGES /\ Messages(Failing(rows)) * 100 > percent * Messages(rows)

Under(limits, percent, rows) ==
    Messages(rows) >= limits.MIN_MESSAGES /\ (Messages(rows) - Messages(Failing(rows))) * 100 >= percent * Messages(rows)

\* Rows of a domain that advice and alerts are about
RowsFor(n, limits) == _records(world, {n}, today - limits.WINDOW_DAYS, today + 1)

Ever(n) == _reports(world, {n}, 0, today + 1)
Lately(n, limits) == _reports(world, {n}, today - limits.STALE_REPORT_DAYS, today + 1)

Given(d, limits) == get_recommendations_for_domain(world, d, limits, today)

LEMMA TrafficCodes ==
  ASSUME NEW d, NEW limits, NEW rows
  PROVE  /\ "READY_FOR_QUARANTINE" \in Traffic(world, d, limits, rows) <=> d.policy = "none" /\ Under(limits, limits.QUARANTINE_PASS_RATE, rows)
         /\ "READY_FOR_REJECT" \in Traffic(world, d, limits, rows) => d.policy = "quarantine" /\ Under(limits, limits.REJECT_PASS_RATE, rows)
         /\ "HIGH_FAIL_RATE" \in Traffic(world, d, limits, rows) <=> Over(limits, limits.HIGH_FAIL_RATE, rows)
         /\ "POLICY_ACTIVE_FAILURES" \in Traffic(world, d, limits, rows) => Over(limits, limits.ENFORCED_FAIL_RATE, rows)
<1> DEFINE unknown == {s \in Classified(world, "unknown") : s.ip \in Sending(rows)}
           spf_only == Messages({r \in rows : r.spf /\ ~r.dkim})
           many == spf_only > 0 /\ spf_only * 100 >= limits.SPF_ONLY_SHARE * Messages(rows)
<1>1. Traffic(world, d, limits, rows) =
          {c \in {"READY_FOR_QUARANTINE"} : d.policy = "none" /\ Under(limits, limits.QUARANTINE_PASS_RATE, rows)}
          \cup {c \in {"READY_FOR_REJECT"} : d.policy = "quarantine" /\ unknown = {} /\ Under(limits, limits.REJECT_PASS_RATE, rows)}
          \cup {c \in {"HIGH_FAIL_RATE"} : Over(limits, limits.HIGH_FAIL_RATE, rows)}
          \cup {c \in {"POLICY_ACTIVE_FAILURES"} : d.policy \in ENFORCING_POLICIES /\ Over(limits, limits.ENFORCED_FAIL_RATE, rows)}
          \cup {c \in {"UNKNOWN_SOURCES"} : unknown # {}}
          \cup {c \in {"DKIM_MISSING_FOR_SPF_SENDERS"} : many}
  BY DEF Traffic, Over, Under
<1> HIDE DEF unknown, many
<1>2. QED
  BY <1>1

LEMMA AdviceCodes ==
  ASSUME NEW d, NEW limits
  PROVE  /\ "NO_REPORTS_EVER" \in Given(d, limits) <=> Ever(d.name) = {}
         /\ "REPORTS_STALE" \in Given(d, limits) <=> Ever(d.name) # {} /\ Lately(d.name, limits) = {}
         /\ \A c \in {"READY_FOR_QUARANTINE", "READY_FOR_REJECT", "HIGH_FAIL_RATE", "POLICY_ACTIVE_FAILURES"} :
               c \in Given(d, limits) <=> RowsFor(d.name, limits) # {} /\ c \in Traffic(world, d, limits, RowsFor(d.name, limits))
<1> DEFINE rows == RowsFor(d.name, limits)
           traffic == Traffic(world, d, limits, rows)
           tags == _policy_tag_recommendations(d)
           none == {c \in {"NO_INBOUND_ADDRESS"} : ~d.address /\ ~world.address}
<1>1. Given(d, limits) =
         none \cup {c \in {"NO_REPORTS_EVER"} : Ever(d.name) = {}}
              \cup {c \in {"REPORTS_STALE"} : Ever(d.name) # {} /\ Lately(d.name, limits) = {}}
              \cup tags \cup (IF rows = {} THEN {} ELSE traffic)
  BY Zenon DEF Given, get_recommendations_for_domain, Ever, Lately, RowsFor
<1>2. tags \subseteq {"PCT_ZERO_WITHOUT_TESTING", "PCT_PARTIAL", "TESTING_MODE"}
  BY DEF _policy_tag_recommendations
<1>3. none \subseteq {"NO_INBOUND_ADDRESS"}
  OBVIOUS
<1>4. \A c \in traffic : c \in {"READY_FOR_QUARANTINE", "READY_FOR_REJECT", "HIGH_FAIL_RATE", "POLICY_ACTIVE_FAILURES", "UNKNOWN_SOURCES",
                                "DKIM_MISSING_FOR_SPF_SENDERS"}
  BY DEF Traffic
<1> HIDE DEF rows, traffic, tags, none
<1>5. QED
  BY <1>1, <1>2, <1>3, <1>4 DEF rows, traffic

LEMMA RowsOfDomain ==
  ASSUME StoreInv, NEW n, NEW limits
  PROVE  /\ Tallied("count", RowsFor(n, limits))
         /\ Messages(RowsFor(n, limits)) \in Nat /\ Messages(Failing(RowsFor(n, limits))) \in Nat
<1> DEFINE rows == RowsFor(n, limits)
<1>1. Tallied("count", rows)
  BY StoredReports, RecordsTallied DEF RowsFor
<1>2. Failing(rows) \in SUBSET rows /\ rows \in SUBSET rows
  BY FailingRows DEF Failing
<1> HIDE DEF rows
<1>3. Messages(rows) \in Nat /\ Messages(Failing(rows)) \in Nat
  BY <1>1, <1>2, TalliedPart DEF Messages
<1>4. QED
  BY <1>1, <1>3 DEF rows

\* Domains of which a view is found
LEMMA FoundFor ==
  ASSUME NEW rule \in Rule, rule.domain = Whole, rule.type \in PER_DOMAIN_TYPES, NEW limits
  PROVE  /\ \A f \in _findings(world, rule, limits, today) :
               \E e \in world.domains : e.active /\ f \in EVALUATORS(world, Spread(rule, e.name), limits, today)
         /\ \A e \in world.domains : e.active => EVALUATORS(world, Spread(rule, e.name), limits, today) \subseteq _findings(world, rule, limits, today)
<1>1. Views(world, rule) = {Spread(rule, e.name) : e \in {x \in world.domains : x.active}}
  BY DEF Views, Domains
<1>2. _findings(world, rule, limits, today) = UNION {EVALUATORS(world, v, limits, today) : v \in Views(world, rule)}
  BY FindingsOf
<1>3. QED
  BY <1>1, <1>2

LEMMA DomainScope == ASSUME StoreInv, NEW d \in world.domains PROVE d.name # Whole /\ Scope(world, d.name) = {d.name}
BY StoreAssumption DEF StoreInv, Kept, DomainsKept, Scope

LEMMA SpreadEach == ASSUME NEW rule \in Rule, NEW n PROVE Spread(rule, n).each
<1> DEFINE v == [rule EXCEPT !.domain = n]
<1>1. PICK x : x = TRUE /\ Spread(rule, n) = [v EXCEPT !.each = x]
  BY Zenon DEF Spread
<1>2. IsRow(v, RuleColumns)
  BY RuleRow, RowExcept DEF RuleColumns
<1> HIDE DEF v
<1>3. [v EXCEPT !.each = x].each = x
  BY <1>2, RowExcept DEF RuleColumns
<1>4. QED
  BY <1>1, <1>3, Zenon

(* Reports that stay away. *)
Missed(n, limits) == Ever(n) # {} /\ Lately(n, limits) = {}

LEMMA MissingFound ==
  ASSUME StoreInv, NEW rule \in Rule, rule.type = "reports_missing", NEW limits, rule.window = limits.STALE_REPORT_DAYS, NEW e \in world.domains
  PROVE  LET found == EVALUATORS(world, Spread(rule, e.name), limits, today)
         IN  (found # {} <=> Missed(e.name, limits)) /\ \A f \in found : f.domain = e.name
<1> DEFINE v == Spread(rule, e.name)
           finding == [domain |-> v.domain, ip |-> Nobody]
<1>1. v.type = "reports_missing" /\ v.domain = e.name /\ v.window = rule.window /\ v.each
  BY SpreadRow, SpreadEach
<1>2. EVALUATORS(world, v, limits, today) = _eval_reports_missing(world, v, today)
  <2> HIDE DEF v
  <2> QED
    BY <1>1 DEF EVALUATORS
<1>3. Scope(world, v.domain) = {e.name}
  BY <1>1, DomainScope
<1> HIDE DEF v
<1>4. _eval_reports_missing(world, v, today) =
         Found(_reports(world, Scope(world, v.domain), Past(v, today), today + 1) = {}
                  /\ (v.each => _reports(world, Scope(world, v.domain), 0, today + 1) # {}), finding)
  BY Zenon DEF _eval_reports_missing
<1>5. /\ _reports(world, Scope(world, v.domain), Past(v, today), today + 1) = Lately(e.name, limits)
      /\ _reports(world, Scope(world, v.domain), 0, today + 1) = Ever(e.name)
  BY <1>1, <1>3, Zenon DEF Past, Lately, Ever
<1>6. finding.domain = e.name
  BY <1>1
<1> HIDE DEF finding
<1>7. EVALUATORS(world, v, limits, today) = Found(Missed(e.name, limits), finding)
  <2>1. (_reports(world, Scope(world, v.domain), Past(v, today), today + 1) = {}
           /\ (v.each => _reports(world, Scope(world, v.domain), 0, today + 1) # {})) <=> Missed(e.name, limits)
    BY <1>1, <1>5, Zenon DEF Missed
  <2>2. QED
    BY <1>2, <1>4, <2>1, Zenon DEF Found
<1>8. QED
  BY <1>6, <1>7 DEF Found, v

LEMMA SilenceHolds ==
  ASSUME StoreInv, NEW limits \in Limits, NEW d \in world.domains, d.active PROVE SilenceAgrees(limits, d, Given(d, limits))
<1> DEFINE given == Given(d, limits)
<1>1. Ever(d.name) = {} => Lately(d.name, limits) = {}
  <2>1. \A r \in world.reports : 0 <= r.at
    BY StoredReports
  <2>2. QED
    BY <2>1 DEF Ever, Lately, _reports, Within
<1>2. given \cap {"REPORTS_STALE", "NO_REPORTS_EVER"} # {} <=> Lately(d.name, limits) = {}
  <2>1. "NO_REPORTS_EVER" \in given <=> Ever(d.name) = {}
    BY AdviceCodes
  <2>2. "REPORTS_STALE" \in given <=> Ever(d.name) # {} /\ Lately(d.name, limits) = {}
    BY AdviceCodes
  <2> HIDE DEF given
  <2>3. QED
    BY <1>1, <2>1, <2>2
<1>3. get_dashboard_stats(world, today, PeriodDays, limits.STALE_REPORT_DAYS).domains_no_reports
         = {x \in world.domains : x.active /\ Lately(x.name, limits) = {}}
  BY Zenon DEF get_dashboard_stats, Lately
<1>4. ASSUME NEW rule \in RulesOf({"reports_missing"}), rule.domain = Whole, rule.window = limits.STALE_REPORT_DAYS
      PROVE  d.name \in FoundBy(rule, limits) <=> "REPORTS_STALE" \in given
  <2>1. rule \in Rule /\ rule.type = "reports_missing" /\ rule.type \in PER_DOMAIN_TYPES
    BY DEF RulesOf, PER_DOMAIN_TYPES
  <2>2. "REPORTS_STALE" \in given <=> Missed(d.name, limits)
    BY AdviceCodes DEF Missed
  <2>3. ASSUME d.name \in FoundBy(rule, limits) PROVE Missed(d.name, limits)
    <3>1. PICK f \in _findings(world, rule, limits, today) : f.domain = d.name
      BY <2>3 DEF FoundBy
    <3>2. PICK e \in world.domains : e.active /\ f \in EVALUATORS(world, Spread(rule, e.name), limits, today)
      BY <1>4, <2>1, FoundFor
    <3>3. Missed(e.name, limits) /\ f.domain = e.name
      BY <1>4, <2>1, <3>2, MissingFound
    <3>4. QED
      BY <3>1, <3>3
  <2>4. ASSUME Missed(d.name, limits) PROVE d.name \in FoundBy(rule, limits)
    <3>1. PICK f \in EVALUATORS(world, Spread(rule, d.name), limits, today) : f.domain = d.name
      BY <1>4, <2>1, <2>4, MissingFound
    <3>2. f \in _findings(world, rule, limits, today)
      BY <1>4, <2>1, FoundFor
    <3>3. QED
      BY <3>1, <3>2 DEF FoundBy
  <2>5. QED
    BY <2>2, <2>3, <2>4
<1> HIDE DEF given
<1>5. \A silent \in {get_dashboard_stats(world, today, PeriodDays, limits.STALE_REPORT_DAYS).domains_no_reports} :
         d \in silent <=> given \cap {"REPORTS_STALE", "NO_REPORTS_EVER"} # {}
  BY <1>2, <1>3
<1>6. QED
  BY <1>4, <1>5 DEF SilenceAgrees, given

-----------------------------------------------------------------------------
(* Shares of the same messages. *)

LEMMA MoreThan ==
  ASSUME NEW share \in Nat, NEW high \in Nat, share > high, NEW total \in Nat \ {0}, NEW bad \in Nat, bad * 100 >= share * total
  PROVE  bad * 100 > high * total
<1>1. (high + 1) * total <= share * total
  BY Longer
<1>2. (high + 1) * total = high * total + total
  OBVIOUS
<1> DEFINE x == high * total
           y == share * total
<1>3. x \in Nat /\ y \in Nat /\ x + total <= y /\ bad * 100 >= y
  BY <1>1, <1>2
<1> HIDE DEF x, y
<1>4. bad * 100 > x
  BY <1>3
<1>5. QED
  BY <1>4 DEF x

LEMMA NotBoth ==
  ASSUME NEW share \in Nat, NEW high \in Nat, share + high >= 100, NEW total \in Nat, NEW bad \in Nat,
         (total - bad) * 100 >= share * total, bad * 100 > high * total
  PROVE  FALSE
<1>1. 100 * total <= (share + high) * total
  BY Longer
<1>2. (share + high) * total = share * total + high * total
  OBVIOUS
<1> DEFINE y == share * total
           z == high * total
<1>3. y \in Nat /\ z \in Nat /\ 100 * total <= y + z /\ (total - bad) * 100 >= y /\ bad * 100 > z
  BY <1>1, <1>2
<1> HIDE DEF y, z
<1>4. QED
  BY <1>3

LEMMA SharesApart ==
  ASSUME StoreInv, NEW limits \in Limits, NEW n, NEW share \in Nat, NEW high \in Nat, share + high >= 100,
         Under(limits, share, RowsFor(n, limits))
  PROVE  ~Over(limits, high, RowsFor(n, limits))
<1> DEFINE total == Messages(RowsFor(n, limits))
           bad == Messages(Failing(RowsFor(n, limits)))
<1>1. total \in Nat /\ bad \in Nat
  BY RowsOfDomain
<1>2. (total - bad) * 100 >= share * total
  BY DEF Under
<1> SUFFICES ASSUME bad * 100 > high * total PROVE FALSE
  BY DEF Over
<1> HIDE DEF total, bad
<1>3. QED
  BY <1>1, <1>2, NotBoth

(* Failing mail. *)
LEMMA FailuresHold ==
  ASSUME StoreInv, NEW limits \in Limits, NEW d \in world.domains PROVE FailuresAgree(limits, d, Given(d, limits))
<1> SUFFICES ASSUME NEW rule \in RulesOf({"dmarc_fail_rate"}), rule.domain = Whole, rule.window = limits.WINDOW_DAYS,
                    _threshold(rule) > limits.HIGH_FAIL_RATE, rule.least >= limits.FAIL_MIN_MESSAGES, d.name \in FoundBy(rule, limits)
             PROVE  "HIGH_FAIL_RATE" \in Given(d, limits)
  BY DEF FailuresAgree
<1> DEFINE rows == RowsFor(d.name, limits)
<1>1. rule \in Rule /\ rule.type = "dmarc_fail_rate" /\ rule.type \in PER_DOMAIN_TYPES /\ rule.type \in FailTypes
  BY DEF RulesOf, PER_DOMAIN_TYPES, FailTypes
<1>2. PICK f \in _findings(world, rule, limits, today) : f.domain = d.name
  BY DEF FoundBy
<1>3. PICK e \in world.domains : e.active /\ f \in EVALUATORS(world, Spread(rule, e.name), limits, today)
  BY <1>1, <1>2, FoundFor
<1> DEFINE v == Spread(rule, e.name)
<1>4. v.type = rule.type /\ v.domain = e.name /\ v.window = rule.window /\ v.threshold = rule.threshold /\ v.least = rule.least
  BY <1>1, SpreadRow
<1> HIDE DEF v
<1>5. f \in EVALUATORS(world, v, limits, today)
  BY <1>3 DEF v
<1>6. FailFinding(v, f)
  <2>1. v.type \in FailTypes
    BY <1>1, <1>4
  <2>2. EVALUATORS(world, v, limits, today) = _eval_fail_rate(world, v, today)
    BY <2>1, FailRates
  <2>3. f \in _eval_fail_rate(world, v, today)
    BY <1>5, <2>2
  <2>4. QED
    BY <2>3, FailsFound
<1>7. e.name = d.name
  BY <1>2, <1>4, <1>6 DEF FailFinding
<1>8. Recent(world, v, today) = rows
  <2>1. Scope(world, v.domain) = {d.name} /\ Past(v, today) = today - limits.WINDOW_DAYS
    BY <1>4, <1>7, DomainScope DEF Past
  <2>2. QED
    BY <2>1, Zenon DEF Recent, RowsFor
<1> DEFINE total == Messages(rows)
           bad == Messages(Failing(rows))
<1>9. TooMuch(v, bad, total)
  <2>1. TooMuch(v, Messages(FAILING(v.type, Recent(world, v, today))), Messages(Recent(world, v, today)))
    BY <1>6, Zenon DEF FailFinding
  <2>2. FAILING(v.type, Recent(world, v, today)) = Failing(rows)
    BY <1>1, <1>4, <1>8, Zenon DEF Failing
  <2>3. QED
    BY <1>8, <2>1, <2>2, Zenon
<1>10. total \in Nat /\ bad \in Nat
  BY RowsOfDomain
<1>11. _threshold(v) = _threshold(rule) /\ _threshold(rule) \in Nat /\ rule.least \in Nat
  BY <1>1, <1>4, RulesAreRows DEF _threshold
<1>12. limits.HIGH_FAIL_RATE \in Nat /\ limits.FAIL_MIN_MESSAGES \in Nat
  BY ThresholdsAreNumbers
<1> HIDE DEF total, bad
<1>13. total > 0 /\ total >= limits.FAIL_MIN_MESSAGES /\ bad * 100 >= _threshold(rule) * total
  BY <1>4, <1>9, <1>10, <1>11, <1>12 DEF TooMuch
<1>14. bad * 100 > limits.HIGH_FAIL_RATE * total
  BY <1>10, <1>11, <1>12, <1>13, MoreThan
<1>15. Over(limits, limits.HIGH_FAIL_RATE, rows)
  BY <1>13, <1>14, Zenon DEF Over, total, bad
<1>16. rows # {}
  <2>1. Messages({}) = 0
    BY TotalOfNone DEF Messages
  <2>2. QED
    BY <1>13, <2>1 DEF total
<1>17. QED
  BY <1>15, <1>16, AdviceCodes, TrafficCodes

(* Readiness. *)
LEMMA ReadyFound ==
  ASSUME NEW rule \in Rule, rule.type = "policy_tighten_ready", NEW limits, NEW f \in _findings(world, rule, limits, today)
  PROVE  \E e \in world.domains : f.domain = e.name /\ Given(e, limits) \cap {"READY_FOR_QUARANTINE", "READY_FOR_REJECT"} # {}
<1>1. Views(world, rule) = {rule}
  BY DEF Views, PER_DOMAIN_TYPES
<1>2. f \in EVALUATORS(world, rule, limits, today)
  BY <1>1, FindingsOf
<1>3. EVALUATORS(world, rule, limits, today) = _eval_policy_tighten_ready(world, rule, limits, today)
  BY DEF EVALUATORS
<1> DEFINE Ready(e) == Given(e, limits) \cap {"READY_FOR_QUARANTINE", "READY_FOR_REJECT"}
           finding(e, c) == [domain |-> e.name, ip |-> Nobody, recommendation |-> c]
<1>4. _eval_policy_tighten_ready(world, rule, limits, today) = UNION {{finding(e, c) : c \in Ready(e)} : e \in Domains(world, rule)}
  BY Zenon DEF _eval_policy_tighten_ready, Given
<1>5. \A e, c : finding(e, c).domain = e.name
  OBVIOUS
<1> HIDE DEF finding, Ready
<1>6. PICK e \in Domains(world, rule) : \E c \in Ready(e) : f = finding(e, c)
  BY <1>2, <1>3, <1>4
<1>7. e \in world.domains /\ f.domain = e.name /\ Ready(e) # {}
  BY <1>5, <1>6 DEF Domains
<1>8. QED
  BY <1>7 DEF Ready

LEMMA ReadyMeans ==
  ASSUME NEW limits \in Limits, NEW e, Given(e, limits) \cap {"READY_FOR_QUARANTINE", "READY_FOR_REJECT"} # {}
  PROVE  \E share \in {limits.QUARANTINE_PASS_RATE, limits.REJECT_PASS_RATE} : Under(limits, share, RowsFor(e.name, limits))
BY AdviceCodes, TrafficCodes

LEMMA PolicyRow == ASSUME NEW d, IsRow(d, DomainColumns), NEW p PROVE [d EXCEPT !.policy = p].policy = p /\ [d EXCEPT !.policy = p].name = d.name
BY RowExcept DEF DomainColumns

LEMMA ReadinessHolds ==
  ASSUME StoreInv, NEW limits \in Limits, NEW d \in world.domains PROVE ReadinessAgrees(limits, d, Given(d, limits))
<1> DEFINE rows == RowsFor(d.name, limits)
           low == limits.QUARANTINE_PASS_RATE
           strict == limits.REJECT_PASS_RATE
<1>1. low \in Nat /\ strict \in Nat /\ limits.HIGH_FAIL_RATE \in Nat /\ limits.ENFORCED_FAIL_RATE \in Nat
  BY ThresholdsAreNumbers
<1>2. ASSUME NEW rule \in RulesOf({"policy_tighten_ready"}), d.name \in FoundBy(rule, limits),
             \A share \in {low, strict} : share + limits.HIGH_FAIL_RATE >= 100
      PROVE  "HIGH_FAIL_RATE" \notin Given(d, limits)
  <2>1. rule \in Rule /\ rule.type = "policy_tighten_ready"
    BY DEF RulesOf
  <2>2. PICK f \in _findings(world, rule, limits, today) : f.domain = d.name
    BY <1>2 DEF FoundBy
  <2>3. PICK e \in world.domains : f.domain = e.name /\ Given(e, limits) \cap {"READY_FOR_QUARANTINE", "READY_FOR_REJECT"} # {}
    BY <2>1, ReadyFound
  <2>4. PICK share \in {low, strict} : Under(limits, share, rows)
    BY <2>2, <2>3, ReadyMeans
  <2>5. share \in Nat /\ share + limits.HIGH_FAIL_RATE >= 100
    BY <1>1, <1>2
  <2> HIDE DEF low, strict
  <2>6. ~Over(limits, limits.HIGH_FAIL_RATE, rows)
    BY <1>1, <2>4, <2>5, SharesApart
  <2>7. QED
    BY <2>6, AdviceCodes, TrafficCodes
<1>3. ASSUME "READY_FOR_REJECT" \in Given(d, limits)
      PROVE  /\ low <= strict => "READY_FOR_QUARANTINE" \in Given([d EXCEPT !.policy = "none"], limits)
             /\ strict + limits.ENFORCED_FAIL_RATE >= 100 => "POLICY_ACTIVE_FAILURES" \notin Given(d, limits)
  <2> DEFINE e == [d EXCEPT !.policy = "none"]
  <2>1. rows # {} /\ Under(limits, strict, rows)
    BY <1>3, AdviceCodes, TrafficCodes
  <2>2. e.policy = "none" /\ e.name = d.name
    BY PolicyRow DEF StoreInv, Kept, DomainsKept
  <2>3. ASSUME low <= strict PROVE Under(limits, low, rows)
    <3> DEFINE total == Messages(rows)
               bad == Messages(Failing(rows))
    <3>1. total \in Nat /\ bad \in Nat
      BY RowsOfDomain
    <3>2. total >= limits.MIN_MESSAGES /\ (total - bad) * 100 >= strict * total
      BY <2>1, Zenon DEF Under
    <3> HIDE DEF total, bad, low, strict
    <3>3. low * total <= strict * total /\ low * total \in Nat /\ strict * total \in Nat
      BY <1>1, <2>3, <3>1, Longer
    <3>4. (total - bad) * 100 >= low * total
      BY <3>1, <3>2, <3>3
    <3>5. QED
      BY <3>2, <3>4, Zenon DEF Under, total, bad
  <2> HIDE DEF e
  <2>4. ASSUME low <= strict PROVE "READY_FOR_QUARANTINE" \in Given(e, limits)
    <3>1. "READY_FOR_QUARANTINE" \in Traffic(world, e, limits, rows)
      BY <2>2, <2>3, <2>4, TrafficCodes
    <3>2. QED
      BY <2>1, <2>2, <3>1, AdviceCodes
  <2>5. ASSUME strict + limits.ENFORCED_FAIL_RATE >= 100 PROVE "POLICY_ACTIVE_FAILURES" \notin Given(d, limits)
    <3> HIDE DEF strict
    <3>1. ~Over(limits, limits.ENFORCED_FAIL_RATE, rows)
      BY <1>1, <2>1, <2>5, SharesApart
    <3>2. QED
      BY <3>1, AdviceCodes, TrafficCodes
  <2>6. QED
    BY <2>4, <2>5 DEF e
<1>4. QED
  BY <1>2, <1>3, Zenon DEF ReadinessAgrees, Given

LEMMA AdviceHolds == StoreInv => AdviceFits
<1> SUFFICES ASSUME StoreInv, NEW limits \in Limits, NEW d \in {x \in world.domains : x.active}
             PROVE  SilenceAgrees(limits, d, Given(d, limits)) /\ FailuresAgree(limits, d, Given(d, limits)) /\ ReadinessAgrees(limits, d, Given(d, limits))
  BY Zenon DEF AdviceFits, Given
<1>1. d \in world.domains /\ d.active
  OBVIOUS
<1>2. QED
  BY <1>1, SilenceHolds, FailuresHold, ReadinessHolds

-----------------------------------------------------------------------------
LEMMA FiguresHold == StoreInv => FiguresAgree
BY DashboardHolds, ChartHolds, LinesHold, DigestsHold, CausesHold, SourcesHold, VolumesHold, AdviceHolds DEF FiguresAgree, SumsAgree

(* Whatever reports came in and went, and whatever was changed meanwhile, for every rule, threshold and moment: the dashboard, the
   digest, the alerts, their pages and the recommendations count the same messages, name the same sources and give no advice
   against each other. *)
THEOREM FiguresAlwaysAgree == StoreSpec => []FiguresAgree
<1>1. StoreInit => StoreInv
  BY StoreStarts
<1>2. StoreInv /\ [StoreNext]_storeVars => StoreInv'
  BY StoreSteps
<1>3. StoreInv => FiguresAgree
  BY FiguresHold
<1>4. QED
  BY <1>1, <1>2, <1>3, PTL DEF StoreSpec
=============================================================================
