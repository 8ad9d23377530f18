--------------------------- MODULE ResumeSelection ---------------------------
(***************************************************************************)
(* The resume a Hunt job is applied with: the tables that C2 (Fletcher)    *)
(* keeps of its attempts and of the version selected for C3, and the PDFs  *)
(* they name (fletcher/db.py, fletcher/resume/review_store.py).            *)
(*                                                                         *)
(* A pipeline run writes output.pdf into an attempt directory of its own;  *)
(* its record, if there is one, is one row of resume_attempts and one of   *)
(* resume_versions, both named here by the run.  A PDF is named by its     *)
(* path: <<r>> is the output of run r, Append(d, n) revision n of the      *)
(* document kept in the directory of d, and that directory is named by the *)
(* PDF it started from.                                                    *)
(***************************************************************************)
EXTENDS Naturals, Sequences, FiniteSets

CONSTANTS
  HuntJobs, NoJob,   \* rows of the jobs table; the job of an ad-hoc run
  Contents,          \* what a resume document can say
  OnePage,           \* the documents that compile to one page
  MaxRuns,           \* bound: pipeline runs
  MaxRevisions,      \* bound: revisions published in the directory of a run
  MaxOpened          \* bound: those opened in turn, and the revisions of each

ASSUME SelectionAssumption ==
  /\ NoJob \notin HuntJobs /\ Contents # {} /\ OnePage \subseteq Contents
  /\ MaxRuns \in Nat \ {0} /\ MaxRevisions \in Nat \ {0}
  /\ MaxOpened \in 0..MaxRevisions

Runs == 1..MaxRuns
Revisions == 1..MaxRevisions
Output(r) == <<r>>
Revision(d, n) == Append(d, n)
OfRun(p) == p[1]

\* Directories that hold a document: a run's, and that of a revision of it.
Dirs == {<<r>> : r \in Runs} \cup {<<r, n>> : r \in Runs, n \in 1..MaxOpened}
Limit(d) == IF Len(d) = 1 THEN MaxRevisions ELSE MaxOpened
Pdfs == {Output(r) : r \in Runs} \cup {Revision(d, n) : d \in Dirs, n \in Revisions}

VARIABLES
  attempts,   \* resume_attempts joined with resume_versions, by run
  selected,   \* jobs.selected_resume_version_id and _pdf_path
  ready,      \* the jobs that _job_is_ready_for_c3 accepts, as C1 leaves them
  disk,       \* the compiled PDFs: path and contents
  pending     \* resume_cleanup_pending: runs whose directory is to be removed

selection == <<attempts, selected, ready, disk, pending>>

Attempt == [job : HuntJobs, useful : BOOLEAN, flagged : BOOLEAN, pdf : Pdfs]
NoAttempt == [job |-> NoJob, useful |-> FALSE, flagged |-> FALSE, pdf |-> <<1>>]
NoSelection == [ver |-> 0, pdf |-> <<1>>]
Exists(r) == attempts[r].job # NoJob

SelectionTypeOK ==
  /\ attempts \in [Runs -> Attempt \cup {NoAttempt}]
  /\ selected \in [HuntJobs -> [ver : Runs \cup {0}, pdf : Pdfs]]
  /\ ready \subseteq HuntJobs
  /\ disk \subseteq [pdf : Pdfs, doc : Contents]
  /\ pending \subseteq Runs

SelectionInit ==
  /\ attempts = [r \in Runs |-> NoAttempt]
  /\ selected = [j \in HuntJobs |-> NoSelection]
  /\ ready \in SUBSET HuntJobs
  /\ disk = {} /\ pending = {}

OnDisk(p) == \E f \in disk : f.pdf = p

\* C1 verifies, suppresses or closes a job: jobs columns C2 only reads.
ReadinessChanges ==
  /\ \E j \in HuntJobs : ready' = IF j \in ready THEN ready \ {j} ELSE ready \cup {j}
  /\ UNCHANGED <<attempts, selected, disk, pending>>

-----------------------------------------------------------------------------
\* Mutant of RecordAttempt: an unselected result leaves the selection of the
\* job but withdraws its flag.
RecordAttemptKeepsSelection(r, j, useful, isReady) ==
  /\ attempts' = [a \in Runs |->
       IF a = r THEN [job |-> j, useful |-> useful, flagged |-> useful /\ isReady,
                      pdf |-> Output(r)]
       ELSE IF attempts[a].job = j THEN [attempts[a] EXCEPT !.flagged = FALSE]
       ELSE attempts[a]]
  /\ selected' = IF useful /\ isReady
                 THEN [selected EXCEPT ![j] = [ver |-> r, pdf |-> Output(r)]]
                 ELSE selected
  /\ UNCHANGED <<ready, disk, pending>>

\* record_resume_attempt() as the queue calls it: a result that is not
\* selected clears the selection there was (clear_existing_selection).
RecordAttempt(r, j, useful, isReady) ==
  LET pick == useful /\ isReady IN
  /\ attempts' = [a \in Runs |->
       IF a = r THEN [job |-> j, useful |-> useful, flagged |-> pick, pdf |-> Output(r)]
       ELSE IF attempts[a].job = j THEN [attempts[a] EXCEPT !.flagged = FALSE]
       ELSE attempts[a]]
  /\ selected' = [selected EXCEPT ![j] = IF pick THEN [ver |-> r, pdf |-> Output(r)]
                                         ELSE NoSelection]
  /\ UNCHANGED <<ready, disk, pending>>

\* Mutant of MayRefresh: any earlier choice of the attempt is replaced.
MayRefreshAnyPdf(d, n, j, v) ==
  /\ selected[j].ver = v /\ v # 0 /\ j \in ready
  /\ attempts[v].job = j /\ attempts[v].flagged /\ attempts[v].useful
  /\ attempts[v].pdf = selected[j].pdf

\* _update_job_selected_resume(): the conditions under which revision n of
\* directory d, compiled for job j and attempt v, replaces the selected PDF.
MayRefresh(d, n, j, v) ==
  /\ selected[j].ver = v /\ v # 0 /\ j \in ready
  /\ attempts[v].job = j /\ attempts[v].flagged /\ attempts[v].useful
  /\ \/ selected[j].pdf = d
     \/ \E m \in 1..(n - 1) : selected[j].pdf = Revision(d, m)
  /\ attempts[v].pdf = selected[j].pdf /\ OnDisk(selected[j].pdf)

RefreshSelected(d, n, j, v) ==
  /\ IF MayRefresh(d, n, j, v)
     THEN /\ attempts' = [attempts EXCEPT ![v].pdf = Revision(d, n)]
          /\ selected' = [selected EXCEPT ![j].pdf = Revision(d, n)]
     ELSE UNCHANGED <<attempts, selected>>
  /\ UNCHANGED <<ready, disk, pending>>

\* The transaction of clear_generated_resumes(), delete_artifacts left on: all
\* job-linked records go, and their directories and those of the reviews named
\* by the deleted queue rows are noted for removal.
ClearRecords(reviews) ==
  /\ attempts' = [r \in Runs |-> NoAttempt]
  /\ selected' = [j \in HuntJobs |-> NoSelection]
  /\ pending' = pending \cup {r \in Runs : Exists(r)} \cup reviews
  /\ UNCHANGED <<ready, disk>>

\* _retry_resume_cleanup() in the middle of a directory: its documents are gone.
WithoutRuns(gone) == {f \in disk : OfRun(f.pdf) \notin gone}
RemovePdfs(r) ==
  /\ disk' = WithoutRuns({r}) /\ disk' # disk
  /\ UNCHANGED <<attempts, selected, ready, pending>>

\* The directories it removed to the end.
RemoveDirs(gone) ==
  /\ disk' = WithoutRuns(gone)
  /\ pending' = pending \ gone
  /\ UNCHANGED <<attempts, selected, ready>>

-----------------------------------------------------------------------------
\* C0's hand-off of a job to C3 (backend/c3.py prepared_jobs) needs the selected
\* version to exist, to be the flagged one of its job, to name the selected PDF
\* and that PDF to be readable.  However records, recompilations, clearing and
\* removal of files interleave, a selection that is there can be served, and it
\* fits one page.
SelectedIsServable ==
  \A j \in HuntJobs : selected[j].ver # 0 =>
    LET v == selected[j].ver IN
    /\ attempts[v].job = j /\ attempts[v].useful /\ attempts[v].flagged
    /\ attempts[v].pdf = selected[j].pdf
    /\ \E f \in disk : f.pdf = selected[j].pdf /\ f.doc \in OnePage
    /\ \A a \in Runs : attempts[a].job = j /\ attempts[a].flagged => a = v
=============================================================================
