----------------------------- MODULE RawArchive -----------------------------
(***************************************************************************)
(* The archive of raw Codex log rows (raw_logs in analytics.sqlite) and    *)
(* the retention of their bodies: app/services/raw_log_retention.py,       *)
(* archive_raw_logs and insert_raw_log.  Every import first clears the     *)
(* bodies that have left the retained calendar-month window, batch by      *)
(* batch, each batch committed on its own, then records the cutoff, and    *)
(* then archives the new source rows in the transaction CodexImport        *)
(* describes.  The process may die at any point.                           *)
(*                                                                         *)
(* Time is counted in calendar months: a cutoff is the first day of a      *)
(* month, so a day is before it exactly when its month is.                 *)
(***************************************************************************)
EXTENDS Naturals, Sequences, FiniteSets, FiniteSetsExt

CONSTANTS
    BatchSize,      \* raw_log_retention_batch_size
    FirstMonth,     \* month of the installation
    InitialWindow,  \* raw_log_body_retention_months to begin with
    WindowEdits,    \* changes <<from, to>> of that setting its owner makes
    MaxMonth,       \* bound: months that pass
    MaxRows,        \* bound: rows Codex writes
    MaxFailures     \* bound: imports that fail, die or find no source

ASSUME BatchAssumption == BatchSize \in Nat \ {0}
ASSUME WindowAssumption ==
    /\ InitialWindow \in Nat \ {0}
    /\ WindowEdits \subseteq (Nat \ {0}) \X (Nat \ {0})
ASSUME MonthAssumption ==
    /\ FirstMonth \in Nat
    /\ MaxMonth \in Nat
    /\ InitialWindow < FirstMonth
    /\ \A e \in WindowEdits : e[2] < FirstMonth
ASSUME FailureAssumption == MaxRows \in Nat /\ MaxFailures \in Nat

VARIABLES
    source,     \* Codex log: row i has id i and was written in month source[i]
    now,        \* current month
    window,     \* raw_log_body_retention_months in the configuration
    db,         \* committed tables
    tx,         \* the tables as the import's transaction sees them
    pc,         \* where import_codex_logs stands
    cutoff,     \* cutoff_day of the running import, as a month
    last,       \* last_source_log_id of _clear_old_bodies (-1 is 0 here)
    failures    \* imports that did not archive (history, bounded)

vars == <<source, now, window, db, tx, pc, cutoff, last, failures>>

environment == <<source, now, window>>

(***************************************************************************)
(* raw_logs: its ids, and those with a body; raw_log_archive_state and     *)
(* raw_log_retention_state, 0 while they have no row.                      *)
(***************************************************************************)
Archive == [rows: SUBSET Nat, bodies: SUBSET Nat, archived: Nat, record: Nat]

TypeOK ==
    /\ source \in Seq(Nat)
    /\ now \in Nat
    /\ window \in Nat \ {0}
    /\ db \in Archive
    /\ tx \in Archive
    /\ pc \in {"idle", "clear", "archive", "commit"}
    /\ cutoff \in 0 .. now
    /\ last \in Nat
    /\ failures \in Nat

Init ==
    /\ source = <<>>
    /\ now = FirstMonth
    /\ window = InitialWindow
    /\ db = [rows |-> {}, bodies |-> {}, archived |-> 0, record |-> 0]
    /\ tx = db
    /\ pc = "idle"
    /\ cutoff = 0
    /\ last = 0
    /\ failures = 0

-----------------------------------------------------------------------------
(* Codex, the calendar and the configuration's owner.                      *)

\* A row may be written late: it carries the month of its event.
CodexWrites ==
    /\ Len(source) < MaxRows
    /\ \E m \in FirstMonth - 1 .. now : source' = Append(source, m)
    /\ UNCHANGED <<now, window, db, tx, pc, cutoff, last, failures>>

MonthPasses ==
    /\ now < MaxMonth
    /\ now' = now + 1
    /\ UNCHANGED <<source, window, db, tx, pc, cutoff, last, failures>>

OwnerEditsWindow ==
    /\ \E e \in WindowEdits : e[1] = window /\ window' = e[2]
    /\ UNCHANGED <<source, now, db, tx, pc, cutoff, last, failures>>

-----------------------------------------------------------------------------
(* apply_raw_log_retention.                                                *)

\* Mutant: the month index is taken as one-based.
CutoffMonth_OneBased == now - window + 2

\* retention_cutoff_day
CutoffMonth == now - window + 1

\* The recorded cutoff is compared before anything is cleared.
StartImport ==
    /\ pc = "idle"
    /\ cutoff' = CutoffMonth
    /\ last' = 0
    /\ pc' = IF db.record >= cutoff' THEN "archive" ELSE "clear"
    /\ UNCHANGED <<environment, db, tx, failures>>

OldBodies(after) == {i \in db.bodies : i > after /\ source[i] < cutoff}

\* rows[-1] of a SELECT that returns at most BatchSize of the old bodies
BatchEnds ==
    LET old == OldBodies(last)
    IN  {e \in old : \/ Cardinality({i \in old : i <= e}) = BatchSize
                     \/ Cardinality(old) < BatchSize /\ \A i \in old : i <= e}

\* Mutant: the batch starts behind the id it has to start from.
Batch_SkipsFirst(end) == {i \in OldBodies(last + 1) : i <= end}

Batch(end) == {i \in OldBodies(last) : i <= end}

\* One pass of the loop: UPDATE and COMMIT
ClearBatch ==
    /\ pc = "clear"
    /\ \E end \in BatchEnds :
         /\ db' = [db EXCEPT !.bodies = @ \ Batch(end)]
         /\ last' = end
    /\ tx' = db'
    /\ UNCHANGED <<environment, pc, cutoff, failures>>

\* Mutant: the cutoff is recorded before the bodies are cleared.
MayRecord_AtOnce == pc = "clear"

MayRecord == pc = "clear" /\ OldBodies(last) = {}

RecordCutoff ==
    /\ MayRecord
    /\ db' = [db EXCEPT !.record = cutoff]
    /\ tx' = db'
    /\ pc' = "archive"
    /\ UNCHANGED <<environment, cutoff, last, failures>>

-----------------------------------------------------------------------------
(* archive_raw_logs, and the end of the import.                            *)

NewRows == tx.archived + 1 .. Len(source)

\* Mutant: delayed rows keep their bodies.
WithBody_Always(rows) == rows

WithBody(rows) == {i \in rows : source[i] >= cutoff}

\* The first import only places the cursor, which moves with each insert.
ArchiveRawLogs ==
    /\ pc = "archive"
    /\ tx' = IF tx.archived = 0
             THEN [tx EXCEPT !.archived = Len(source)]
             ELSE [tx EXCEPT !.rows = @ \cup NewRows,
                             !.bodies = @ \cup WithBody(NewRows),
                             !.archived = Len(source)]
    /\ pc' = "commit"
    /\ UNCHANGED <<environment, db, cutoff, last, failures>>

Return == pc' = "idle" /\ cutoff' = 0 /\ last' = 0

CommitImport ==
    /\ pc = "commit"
    /\ db' = tx
    /\ tx' = db'
    /\ Return
    /\ UNCHANGED <<environment, failures>>

\* Mutant: the archive cursor is written outside the transaction.
AfterFailure_CursorKept == [db EXCEPT !.archived = tx.archived]

AfterFailure == db

\* An exception, a source that is not readable, or the end of the process
FailImport ==
    /\ pc # "idle"
    /\ failures < MaxFailures
    /\ failures' = failures + 1
    /\ db' = AfterFailure
    /\ tx' = db'
    /\ Return
    /\ UNCHANGED environment

ImportStep == StartImport \/ ClearBatch \/ RecordCutoff \/ ArchiveRawLogs \/ CommitImport

Next == CodexWrites \/ MonthPasses \/ OwnerEditsWindow \/ ImportStep \/ FailImport

Spec == Init /\ [][Next]_vars

\* auto_import_loop starts an import again and again, and each runs on.
FairSpec == Spec /\ WF_vars(ImportStep)
-----------------------------------------------------------------------------
(* Properties.                                                             *)

(***************************************************************************)
(* A row archived in the current month keeps its body, whatever imports    *)
(* run, fail or cross the turn of the month: no retained window excludes   *)
(* the current month (retention_cutoff_day, _clear_old_bodies).            *)
(***************************************************************************)
CurrentMonthKept == \A i \in db.rows : source[i] >= now => i \in db.bodies

(***************************************************************************)
(* Once a cutoff is recorded, no committed body is older, or a crash       *)
(* between two batches would leave bodies that no later import looks at.   *)
(* For a window that is never widened.                                     *)
(***************************************************************************)
RecordHonoured == \A i \in db.bodies : source[i] >= db.record

(***************************************************************************)
(* The archive has no gap: every row from the first archived one to the    *)
(* archive cursor is there, whatever imports failed on the way, and no     *)
(* body belongs to a row that is not.                                      *)
(***************************************************************************)
GapFree ==
    /\ db.rows \subseteq 1 .. db.archived
    /\ \A i \in db.rows : i .. db.archived \subseteq db.rows
    /\ db.bodies \subseteq db.rows

(***************************************************************************)
(* raw-log-archive-plan.md:28-29: bodies are retained "only for the        *)
(* configured current calendar-month window".  When an import has          *)
(* committed, no body is older than the cutoff it computed.  It holds as   *)
(* long as the window is never widened.                                    *)
(***************************************************************************)
OnlyWindowRetained ==
    [][pc = "commit" /\ pc' = "idle" /\ db' # db =>
          \A i \in db'.bodies : source[i] >= cutoff]_vars

(***************************************************************************)
(* A body that leaves the window is cleared in the end, although imports   *)
(* fail between batches (the restart of _clear_old_bodies).                *)
(***************************************************************************)
OldBodiesCleared ==
    \A i \in 1 .. MaxRows :
        i \in db.bodies /\ source[i] < CutoffMonth ~> i \notin db.bodies
=============================================================================
