------------------------------ MODULE Fletcher ------------------------------
(***************************************************************************)
(* C2 as the backend runs it: the preparation queue with its worker, the   *)
(* review packages of what it prepared, and the records that decide which  *)
(* resume C3 is handed.  They share one database and one tree of files.    *)
(* The process may die at any time; what is on disk stays.                 *)
(***************************************************************************)
EXTENDS FletcherQueue, ResumeReview

CONSTANT MaxCrashes   \* bound: deaths of the process

ASSUME FletcherAssumption == MaxCrashes \in Nat /\ MaxRuns >= 1

VARIABLES
  crashes,      \* deaths so far
  stranded,     \* history: the rows that an error has left running, see Start
  cleared       \* history: the runs whose directory was ever noted for removal

history == <<crashes, stranded, cleared>>
vars == <<queue, selection, review, history>>

TypeOK ==
  /\ QueueTypeOK /\ SelectionTypeOK /\ ReviewTypeOK /\ crashes \in 0..MaxCrashes
  /\ stranded \subseteq Items /\ cleared \subseteq Runs

Init ==
  /\ QueueInit /\ SelectionInit /\ ReviewInit /\ crashes = 0
  /\ stranded = {} /\ cleared = {}

Offers(operation) == operation \in Operations
OnlyWorker == UNCHANGED <<selection, review, crashes, cleared>>
OnlyQueue == OnlyWorker /\ UNCHANGED stranded
NotReview == UNCHANGED <<review, history>>

Request(c) ==
  \/ /\ \/ Offers("enqueue") /\ (ReadEnd(c) \/ Insert(c))
        \/ Offers("cancel") /\ (ReadToCancel(c) \/ WriteCancelled(c))
        \/ Offers("move") /\ (ReadPosition(c) \/ ReadNeighbour(c) \/ Swap(c))
        \/ Offers("clear") /\ RetryClear(c)
     /\ OnlyQueue
  \/ /\ Offers("clear") /\ \E adHocToo \in BOOLEAN : Clear(c, adHocToo)
     /\ cleared' = cleared \cup pending'
     /\ UNCHANGED <<review, crashes, stranded>>
  \/ RemoveSome(c) /\ NotReview
  \/ /\ request[c].op = "cleanup" /\ \E d \in Dirs : PackageRemoved(d)
     /\ UNCHANGED <<queue, history>>
  \/ \E removed \in SUBSET pending :
       Cleanup(c, removed) /\ ReviewRemoved(removed) /\ UNCHANGED history

\* The package of a run that wrote a document; it is not linked to the job.
Prepare ==
  \E out \in {"broken", "compiled"}, doc \in Contents :
    /\ Produce(out, doc) /\ (out # "compiled" => doc = AnyVersion.doc)
    /\ package' = [package EXCEPT ![Output(nextRun)] = Fresh(doc, Unlinked)]
    /\ UNCHANGED <<lock, compiler, history>>

\* A row that is running when an error takes the worker away from it stays so until
\* the process has died and a recovery succeeds, or until it is cancelled.
Strands(items) == stranded' = {i \in items : St(i) = "running"}

WorkerStep ==
  \/ (Select \/ Claim \/ Begin \/ RowMissing \/ Raises \/ LoadJob \/ ReadStatus \/ Finish)
       /\ OnlyQueue
  \/ Escapes /\ Strands(stranded \cup {worker.item}) /\ OnlyWorker
  \/ Prepare
  \/ Record /\ NotReview

Review ==
  /\ \/ Offers("save") /\ \E d \in Dirs, doc \in Contents : Save(d, doc)
     \/ Offers("open") /\ \E c \in Compilers :
                              (\E j \in HuntJobs : OpenReads(c, j)) \/ OpenWrites(c)
     \/ Offers("compile") /\ \E c \in Compilers : CompilerStep(c)
     \/ \E c \in Compilers : GiveUp(c)
  /\ UNCHANGED <<queue, history>>

\* C1 goes on with its own work on the jobs table.
JobChanges ==
  Offers("ready") /\ ReadinessChanges /\ UNCHANGED <<queue, review, history>>

Start ==
  \/ StartWorker(TRUE) /\ stranded' = {} /\ OnlyWorker
  \/ StartWorker(FALSE) /\ Strands(Items) /\ OnlyWorker

\* The process dies: the worker and every request go with it.
Crash ==
  /\ crashes < MaxCrashes /\ crashes' = crashes + 1
  /\ worker' = [Idle EXCEPT !.pc = "down"]
  /\ request' = [c \in Clients |-> Done]
  /\ ReviewCrash
  /\ UNCHANGED <<selection, row, nextRun, stranded, cleared>>

Next ==
  \/ \E c \in Clients : Request(c)
  \/ Offers("delete") /\ Delete /\ OnlyQueue
  \/ Start \/ WorkerStep \/ Review \/ JobChanges \/ Crash

Spec == Init /\ [][Next]_vars

\* Later in such a behaviour: the first row has been prepared for a job that was
\* ready, and its result is the job's selected resume.
Prepared ==
  \E i \in Items, j \in HuntJobs, doc \in OnePage :
    /\ row = [k \in Items |-> IF k = i THEN [st |-> "succeeded", pos |-> 0, job |-> j,
                                            review |-> 1] ELSE NoRow("unused")]
    /\ \A k \in Items : i <= k
    /\ worker = Idle /\ request = [c \in Clients |-> Done] /\ nextRun = 2
    /\ attempts = [r \in Runs |-> IF r > 1 THEN NoAttempt ELSE
                     [job |-> j, useful |-> TRUE, flagged |-> TRUE, pdf |-> Output(1)]]
    /\ selected = [k \in HuntJobs |-> IF k = j THEN [ver |-> 1, pdf |-> Output(1)]
                                      ELSE NoSelection]
    /\ ready = {j} /\ pending = {}
    /\ disk = {[pdf |-> Output(1), doc |-> doc]}
    /\ package = [d \in Dirs |-> IF d = Output(1) THEN Fresh(doc, Unlinked) ELSE NoPackage]
    /\ lock = [d \in Dirs |-> Free] /\ compiler = [c \in Compilers |-> IdleCompiler]
    /\ crashes = 0 /\ stranded = {} /\ cleared = {}
SpecFromPrepared == Prepared /\ [][Next]_vars

\* The worker's loop is a thread that always runs on, and the page that shows the
\* queue polls the list endpoint, which starts the worker when there is none.
FairSpec == Spec /\ WF_vars(Start) /\ WF_vars(WorkerStep)

-----------------------------------------------------------------------------
\* A row marked running is the one the worker holds, or no worker has been
\* started since the process died.  Cancels, deletions, clearing and errors of the
\* preparation leave no other; a row stays running that nothing works on only when
\* the recovery itself failed at the start, the row could not be read back after its
\* claim, or the report of its failure failed in turn.
RunningHasWorker ==
  \A i \in Items : St(i) = "running" =>
    \/ worker.pc = "down"
    \/ worker.item = i /\ worker.pc \notin {"idle", "selected"}
    \/ i \in stranded

\* A row that has ended (or was cancelled, or deleted) is never active again: the
\* unguarded writes of cancel and finish, the recovery after a crash and a claim
\* of a row that was cancelled after it was read bring none back to the queue.
Ended == {"succeeded", "failed", "cancelled", "gone"}
NoRevival == [][\A i \in Items : St(i) \in Ended => St(i)' \in Ended]_vars

\* Every row that is enqueued or running ends one day or is one that an error has
\* left running: through failures of the pipeline, restarts and reordering, as long
\* as the process dies finitely often and every call of the pipeline returns.  A row
\* that a later recovery takes up again must end again.
EveryItemSettles ==
  \A i \in Items : St(i) \in Active ~> St(i) \in Ended \/ i \in stranded

\* A PDF that has been published is never overwritten: revisions and outputs keep
\* their contents as long as they are there (docs/resume-review-safety.md), also
\* when a publication died between its rename and the write of the package.
RevisionsAreImmutable ==
  [][\A f \in disk : \A g \in disk' : f.pdf = g.pdf => f = g]_vars

\* What a package shows as its compiled revision is what that revision holds: if
\* the document has not been edited since, it is the document.  Saves, overlapping
\* compilations and crashes may not attach a revision to another document's state.
\* Of a directory that was to be removed, and may be half gone, nothing is said.
PublishedIsCurrent ==
  \A d \in Dirs : There(d) /\ package[d].state.rev > 0 /\ OfRun(d) \notin cleared =>
    LET s == package[d].state IN
    /\ s.dirty <=> s.revDoc # s.docRev
    /\ ~s.dirty => \E f \in disk : f.pdf = Revision(d, s.rev) /\ f.doc = s.doc

\* Reviewing never takes another version than the one that was chosen: a compile
\* only moves a job's selected PDF on, to a later revision of the same directory.
Later(p, q) ==
  \/ \E n \in Revisions : q = Revision(p, n)
  \/ \E m, n \in Revisions : m < n /\ \E d \in Dirs : p = Revision(d, m) /\ q = Revision(d, n)
RefreshKeepsChoice ==
  [][Review => \A j \in HuntJobs :
       /\ selected[j].ver = selected'[j].ver
       /\ \/ selected[j].pdf = selected'[j].pdf
          \/ Later(selected[j].pdf, selected'[j].pdf)]_vars
=============================================================================
