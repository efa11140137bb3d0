------------------------------ MODULE Retention ------------------------------
(***************************************************************************)
(* What retention removes (app/services/retention.py) while uploads and    *)
(* mails come in (app/routers/upload.py, smtp_inbound/handler.py), for one *)
(* organisation.                                                           *)
(*                                                                         *)
(* A run is one transaction; the files it deletes are gone at once.  The   *)
(* name of a file is the hash of its content, so what comes in twice has   *)
(* one file and two rows.  Ages are counted in days.  Foreign keys set      *)
(* references to removed rows to NULL with or without the statements of    *)
(* the code; references other than that of a report to its import are left *)
(* out.                                                                    *)
(***************************************************************************)
EXTENDS Integers, FiniteSets

CONSTANTS
    Import,      \* import jobs
    Received,    \* received mails
    Report,      \* DMARC reports
    Loose,       \* failure reports and TLS reports
    Log,         \* rejections and login attempts
    Path,        \* Path[i]: the file of an import or a mail
    From,        \* From[r]: the import that stores a report
    Keep,        \* Keep[i]: days that a row stays, from report_retention_days and the server settings
    RawDays,     \* SMTP_INBOUND_RAW_RETENTION_DAYS
    PerRun,      \* RETENTION_BATCH_SIZE
    Eldest,      \* bound on ages
    MaxMishaps   \* bound on lost transactions and files that cannot be deleted

Filed == Import \cup Received
Item == Filed \cup Report \cup Loose \cup Log

ASSUME RetentionNumbers ==
    /\ Keep \in [Item -> 1 .. Eldest - 1] /\ RawDays \in 1 .. Eldest - 1
    /\ PerRun \in Nat \ {0} /\ {Eldest, MaxMishaps} \subseteq Nat
    /\ From \in [Report -> Import]
    /\ Filed \cap (Report \cup Loose \cup Log) = {}

VARIABLES
    stored,      \* stored[i]: "none" yet, "open" in a transaction, "kept" or "gone"
    since,       \* since[i]: days since its created_at or received_at
    named,       \* rows whose file_path or raw_path is set
    disk,        \* files
    step,        \* the statement a run comes to
    doomed,      \* rows it has deleted and not yet committed
    unnamed,     \* mails whose raw_path it has set to NULL
    mishaps      \* so far

retentionVars == <<stored, since, named, disk, step, doomed, unnamed, mishaps>>

RetentionTypeOK ==
    /\ stored \in [Item -> {"none", "open", "kept", "gone"}] /\ since \in [Item -> 0 .. Eldest]
    /\ named \subseteq Filed /\ disk \subseteq {Path[i] : i \in Filed}
    /\ step \in {"idle", "reports", "loose", "imports", "mails", "raw", "log", "commit"}
    /\ doomed \subseteq {i \in Item : stored[i] = "kept"} /\ unnamed \subseteq Received \cap named
    /\ mishaps \in 0 .. MaxMishaps

RetentionInit ==
    /\ stored = [i \in Item |-> "none"] /\ since = [i \in Item |-> 0]
    /\ named = {} /\ disk = {}
    /\ step = "idle" /\ doomed = {} /\ unnamed = {}
    /\ mishaps = 0

Mishap == mishaps < MaxMishaps /\ mishaps' = mishaps + 1

-----------------------------------------------------------------------------
(* What comes in *)

\* upload_file or _persist_and_process: the file is written before the row is inserted; raw mails may not be stored
Receive(i) ==
    /\ stored[i] = "none" /\ stored' = [stored EXCEPT ![i] = "open"]
    /\ \/ named' = named \cup {i} /\ disk' = disk \cup {Path[i]}
       \/ i \in Received /\ UNCHANGED <<named, disk>>
    /\ UNCHANGED <<since, step, doomed, unnamed, mishaps>>

\* A report with the same ID is there
check_duplicate(i) == \E r \in Report : stored[r] = "kept" /\ Path[From[r]] = Path[i]

\* The import reads the file again; without it the job fails.  Then the transaction is committed
process_import_job(i) ==
    /\ stored[i] = "open"
    /\ stored' = [k \in Item |-> IF k = i \/ (k \in Report /\ From[k] = i /\ Path[i] \in disk /\ ~check_duplicate(i))
                              THEN "kept" ELSE stored[k]]
    /\ UNCHANGED <<since, named, disk, step, doomed, unnamed, mishaps>>

\* The transaction is lost, the file is not
Lose(i) ==
    /\ stored[i] = "open" /\ Mishap /\ stored' = [stored EXCEPT ![i] = "gone"]
    /\ UNCHANGED <<since, named, disk, step, doomed, unnamed>>

\* Rows without files
Note(i) ==
    /\ stored[i] = "none" /\ stored' = [stored EXCEPT ![i] = "kept"]
    /\ UNCHANGED <<since, named, disk, step, doomed, unnamed, mishaps>>

Day ==
    /\ since' = [i \in Item |-> IF stored[i] = "none" \/ since[i] = Eldest THEN since[i] ELSE since[i] + 1]
    /\ since' # since /\ \A i \in Item : stored[i] # "open"
    /\ UNCHANGED <<stored, named, disk, step, doomed, unnamed, mishaps>>

-----------------------------------------------------------------------------
(* A run *)

Expired(i) == since[i] > Keep[i]

\* What the statements of the run see
Visible == {i \in Item : stored[i] = "kept"} \ doomed

\* As many as a run may take
Batches(candidates) ==
    {B \in SUBSET candidates : IF Cardinality(candidates) <= PerRun THEN B = candidates ELSE Cardinality(B) = PerRun}

OldestFirst(candidates) ==
    {B \in Batches(candidates) : \A i \in B, k \in candidates \ B : since[i] >= since[k]}

At(here, next) == step = here /\ step' = next

run_retention == At("idle", "reports") /\ UNCHANGED <<stored, since, named, disk, doomed, unnamed, mishaps>>

Purge(B) ==
    /\ doomed' = doomed \cup B
    /\ UNCHANGED <<stored, since, named, unnamed>>

_purge_reports ==
    /\ At("reports", "loose")
    /\ \E B \in OldestFirst({r \in Report \cap Visible : Expired(r)}) : Purge(B)
    /\ UNCHANGED <<disk, mishaps>>

\* _purge_failure_reports and _purge_tls_reports
_purge_loose ==
    /\ At("loose", "imports")
    /\ \E B \in OldestFirst({i \in Loose \cap Visible : Expired(i)}) : Purge(B)
    /\ UNCHANGED <<disk, mishaps>>

\* The files go before the commit.  One that cannot be deleted stays, its row goes nevertheless
_remove_file(B) ==
    \/ disk' = disk \ {Path[i] : i \in B} /\ UNCHANGED mishaps
    \/ B # {} /\ disk' = disk /\ Mishap

\* Imports without a report, in no order
_purge_import_jobs ==
    /\ At("imports", "mails")
    /\ \E B \in Batches({i \in Import \cap Visible : Expired(i) /\ \A r \in Report \cap Visible : From[r] # i}) :
          Purge(B) /\ _remove_file(B)

\* Plausible slip: the files of mails are left to _purge_raw_mails, which finds no row any more
LeaveRawMail ==
    /\ At("mails", "raw")
    /\ \E B \in Batches({i \in Received \cap Visible : Expired(i)}) : Purge(B)
    /\ UNCHANGED <<disk, mishaps>>

_purge_messages ==
    /\ At("mails", "raw")
    /\ \E B \in Batches({i \in Received \cap Visible : Expired(i)}) : Purge(B) /\ _remove_file(B \cap named)

_purge_raw_mails ==
    /\ At("raw", "log")
    /\ \E B \in Batches({i \in Received \cap Visible \cap named : since[i] > RawDays}) :
          unnamed' = B /\ _remove_file(B)
    /\ UNCHANGED <<stored, since, named, doomed>>

\* _purge_rejections and _purge_login_attempts have no limit
_purge_log ==
    /\ At("log", "commit")
    /\ Purge({i \in Log \cap Visible : Expired(i)})
    /\ UNCHANGED <<disk, mishaps>>

RunSucceeds ==
    /\ At("commit", "idle")
    /\ stored' = [i \in Item |-> IF i \in doomed THEN "gone" ELSE stored[i]]
    /\ named' = named \ (doomed \cup unnamed) /\ doomed' = {} /\ unnamed' = {}
    /\ UNCHANGED <<since, disk, mishaps>>

\* An error or a restart: rows are back, files are not
RunFails ==
    /\ step # "idle" /\ Mishap
    /\ step' = "idle" /\ doomed' = {} /\ unnamed' = {}
    /\ UNCHANGED <<stored, since, named, disk>>

RetentionStep ==
    \/ _purge_reports \/ _purge_loose \/ _purge_import_jobs \/ _purge_messages \/ _purge_raw_mails \/ _purge_log
    \/ RunSucceeds

RetentionNext ==
    \/ \E i \in Filed : Receive(i) \/ process_import_job(i) \/ Lose(i)
    \/ \E i \in Loose \cup Log : Note(i)
    \/ Day \/ run_retention \/ RetentionStep \/ RunFails

RetentionSpec == RetentionInit /\ [][RetentionNext]_retentionVars

-----------------------------------------------------------------------------
(* Properties *)

Overdue(i) == Expired(i) \/ (i \in Received /\ since[i] > RawDays)

(* A stored row, or an import that is about to read, misses its file only if a row with the same content has been
   overdue, be it that stored itself after a rollback (_purge_import_jobs, _purge_messages, _purge_raw_mails).  And
   no file outlives all its rows unless a transaction was lost or the file could not be deleted. *)
FilesFollowRows ==
    /\ \A i \in named : stored[i] \in {"open", "kept"} /\ Path[i] \notin disk =>
          \E k \in Filed : Path[k] = Path[i] /\ Overdue(k)
    /\ mishaps = 0 => \A f \in disk : \E i \in named : Path[i] = f /\ stored[i] \in {"open", "kept"}

(* Retention comes to everything that is overdue, however small its batches are (RETENTION_BATCH_SIZE): again and again
   nothing is.  No row comes back and there are finitely many, so that each of them goes. *)
ExpiredRowsGo ==
    []<>(\A i \in Item : stored[i] = "kept" => ~Expired(i))
=============================================================================
