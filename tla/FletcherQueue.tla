---------------------------- MODULE FletcherQueue ----------------------------
(***************************************************************************)
(* The queue of resume preparations: rows of fletcher_jobs (fletcher/db.py) *)
(* that requests of the backend add, cancel, reorder, delete and clear,    *)
(* and the one worker thread of the process that prepares them             *)
(* (backend/app.py).  Each function opens its own connection and reads     *)
(* before it writes; only clear_generated_resumes takes the write lock     *)
(* first.  Every other read and the write after it are two steps here.     *)
(* The texts of a row, its progress and its log are left out.              *)
(***************************************************************************)
EXTENDS ResumeSelection

CONSTANTS
  Items,         \* ids of the rows that are ever enqueued
  Clients,       \* requests in progress at once
  Operations     \* the operations that are offered

ASSUME QueueAssumption ==
  /\ IsFiniteSet(Items) /\ Items \subseteq Nat \ {0}

VARIABLES
  row,        \* fletcher_jobs; review is the run of its review_id, 0 for none
  worker,     \* the worker thread; "down" before it is started
  request,    \* where each request is, and what it has read
  nextRun     \* the attempt directories made so far, plus one

queue == <<row, worker, request, nextRun>>

Status == {"unused", "queued", "running", "succeeded", "failed", "cancelled", "gone"}
Active == {"queued", "running"}   \* and cancel_requested, which nothing sets
Absent == {"unused", "gone"}
Jobs == HuntJobs \cup {NoJob}

WorkerPc == {"down", "idle", "selected", "claimed", "preparing", "produced", "loaded",
             "ending", "finishing"}
Idle == [pc |-> "idle", item |-> 0, job |-> NoJob, run |-> 0, isReady |-> FALSE, end |-> "failed"]
Done == [op |-> "none", item |-> 0, pos |-> 0, other |-> 0, otherPos |-> 0]

NoRow(st) == [st |-> st, pos |-> 0, job |-> NoJob, review |-> 0]

QueueTypeOK ==
  /\ row \in [Items -> [st : Status, pos : Nat, job : Jobs, review : Runs \cup {0}]]
  /\ worker \in [pc : WorkerPc, item : Items \cup {0}, job : Jobs, run : Runs \cup {0},
                 isReady : BOOLEAN, end : {"succeeded", "failed"}]
  /\ request \in [Clients -> [op : {"none", "insert", "cancel", "position", "swap",
                                    "cleanup"},
                              item : Items \cup {0}, pos : Nat, other : Items \cup {0},
                              otherPos : Nat]]
  /\ nextRun \in Nat \ {0}

QueueInit ==
  /\ row = [i \in Items |-> NoRow("unused")]
  /\ worker = [Idle EXCEPT !.pc = "down"]
  /\ request = [c \in Clients |-> Done]
  /\ nextRun = 1

St(i) == row[i].st
Sets(i, st) == row' = [row EXCEPT ![i].st = st]
\* Nothing reads the position of a row that has ended: it is not kept.
Ends(i, st, run) == row' = [row EXCEPT ![i].st = st, ![i].pos = 0, ![i].review = run]
WorkerIs(pc) == worker' = [worker EXCEPT !.pc = pc]
WorkerIdles == worker' = Idle
WorkerEnds == worker' = [worker EXCEPT !.pc = "ending", !.job = NoJob, !.isReady = FALSE]

-----------------------------------------------------------------------------
(* Requests.                                                                *)

\* enqueue_fletcher_job(): behind the last queued row, as it was read.
ReadEnd(c) ==
  /\ request[c].op = "none"
  /\ \E p \in {row[i].pos : i \in {k \in Items : St(k) = "queued"}} \cup {0} :
       /\ \A i \in Items : St(i) = "queued" => row[i].pos <= p
       /\ request' = [request EXCEPT ![c] = [Done EXCEPT !.op = "insert", !.pos = p + 1]]
  /\ UNCHANGED <<row, worker, nextRun>>

Insert(c) ==
  /\ request[c].op = "insert"
  /\ \E i \in Items, j \in Jobs :
       /\ St(i) = "unused" /\ \A k \in Items : St(k) = "unused" => i <= k
       /\ row' = [row EXCEPT ![i] = [st |-> "queued", pos |-> request[c].pos, job |-> j,
                                     review |-> 0]]
  /\ request' = [request EXCEPT ![c] = Done]
  /\ UNCHANGED <<worker, nextRun>>

\* cancel_fletcher_job(): a row that was active when read is written off,
\* whatever it has become.
ReadToCancel(c) ==
  /\ request[c].op = "none"
  /\ \E i \in Items : /\ St(i) \in Active
                      /\ request' = [request EXCEPT ![c] = [Done EXCEPT !.op = "cancel",
                                                                        !.item = i]]
  /\ UNCHANGED <<row, worker, nextRun>>

WriteCancelled(c) ==
  LET i == request[c].item IN
  /\ request[c].op = "cancel"
  /\ IF St(i) \in Absent THEN UNCHANGED row ELSE Ends(i, "cancelled", row[i].review)
  /\ request' = [request EXCEPT ![c] = Done]
  /\ UNCHANGED <<worker, nextRun>>

\* move_fletcher_job(): the row, then its neighbour among the active ones,
\* then both positions.
ReadPosition(c) ==
  /\ request[c].op = "none"
  /\ \E i \in Items :
       /\ St(i) \in Active
       /\ request' = [request EXCEPT ![c] = [Done EXCEPT !.op = "position", !.item = i,
                                                         !.pos = row[i].pos]]
  /\ UNCHANGED <<row, worker, nextRun>>

ReadNeighbour(c) ==
  LET k == request[c]
      above == {i \in Items : St(i) \in Active /\ row[i].pos < k.pos}
      below == {i \in Items : St(i) \in Active /\ row[i].pos > k.pos} IN
  /\ k.op = "position"
  /\ \/ \E o \in above : /\ \A i \in above : row[i].pos <= row[o].pos
                         /\ request' = [request EXCEPT ![c].op = "swap", ![c].other = o,
                                                   ![c].otherPos = row[o].pos]
     \/ \E o \in below : /\ \A i \in below : row[i].pos >= row[o].pos
                         /\ request' = [request EXCEPT ![c].op = "swap", ![c].other = o,
                                                   ![c].otherPos = row[o].pos]
     \/ /\ above = {} \/ below = {}
        /\ request' = [request EXCEPT ![c] = Done]
  /\ UNCHANGED <<row, worker, nextRun>>

\* Both positions as they were read.
Swap(c) ==
  LET k == request[c] IN
  /\ k.op = "swap"
  /\ row' = [i \in Items |-> IF St(i) \notin Active THEN row[i]
                             ELSE IF i = k.item THEN [row[i] EXCEPT !.pos = k.otherPos]
                             ELSE IF i = k.other THEN [row[i] EXCEPT !.pos = k.pos]
                             ELSE row[i]]
  /\ request' = [request EXCEPT ![c] = Done]
  /\ UNCHANGED <<worker, nextRun>>

\* delete_fletcher_job(): the delete itself demands that the row has ended.
Delete ==
  /\ \E i \in Items : /\ St(i) \notin Active \cup Absent
                      /\ row' = [row EXCEPT ![i] = NoRow("gone")]
  /\ UNCHANGED <<worker, request, nextRun>>

NothingActive == \A i \in Items : St(i) \notin Active

\* clear_generated_resumes(): one transaction, then the removal of files.  Rows
\* without a job go only when asked for (include_ad_hoc).
Clear(c, adHocToo) ==
  LET old == {i \in Items : St(i) \notin Absent /\ (adHocToo \/ row[i].job # NoJob)} IN
  /\ request[c].op = "none" /\ NothingActive
  /\ row' = [i \in Items |-> IF i \in old THEN NoRow("gone") ELSE row[i]]
  /\ ClearRecords({row[i].review : i \in old} \ {0})
  /\ request' = [request EXCEPT ![c].op = "cleanup"]
  /\ UNCHANGED <<worker, nextRun>>

\* The same with retry_only; with nothing left to remove it does nothing.
RetryClear(c) ==
  /\ request[c].op = "none" /\ NothingActive /\ pending # {}
  /\ request' = [request EXCEPT ![c].op = "cleanup"]
  /\ UNCHANGED <<row, worker, nextRun>>

\* _retry_resume_cleanup() removes one part of a directory after another, ...
RemoveSome(c) ==
  /\ request[c].op = "cleanup"
  /\ \E r \in pending : RemovePdfs(r)
  /\ UNCHANGED queue

\* ... and is done: what went as a whole is noted no more, what could not be
\* removed, or only in part, stays.
Cleanup(c, removed) ==
  /\ request[c].op = "cleanup" /\ removed \subseteq pending
  /\ RemoveDirs(removed)
  /\ request' = [request EXCEPT ![c] = Done]
  /\ UNCHANGED <<row, worker, nextRun>>

-----------------------------------------------------------------------------
(* The worker.                                                              *)

\* Mutant of Recovered: what the dead worker held stays as it was.
RecoveredNone == row

\* recover_interrupted_fletcher_jobs().
Recovered == [i \in Items |-> IF St(i) = "running" THEN [row[i] EXCEPT !.st = "queued"]
                              ELSE row[i]]

\* _ensure_fletcher_worker_started(), by the first request that needs it.  A
\* recovery that raises is skipped for as long as the process lives.
StartWorker(recovers) ==
  /\ worker.pc = "down" /\ WorkerIdles
  /\ row' = IF recovers THEN Recovered ELSE row
  /\ UNCHANGED <<request, nextRun>>

\* claim_next_fletcher_job(): the first queued row is read, ...
Select ==
  /\ worker.pc = "idle"
  /\ \E i \in Items :
       /\ St(i) = "queued"
       /\ \A k \in Items : St(k) = "queued" => row[i].pos <= row[k].pos
       /\ worker' = [worker EXCEPT !.pc = "selected", !.item = i]
  /\ UNCHANGED <<row, request, nextRun>>

\* Mutant of Claim: the row is marked without looking again.
ClaimUnguarded ==
  /\ worker.pc = "selected" /\ WorkerIs("claimed")
  /\ Sets(worker.item, "running")
  /\ UNCHANGED <<request, nextRun>>

\* ... marked if it is still queued, ...
Claim ==
  /\ worker.pc = "selected" /\ WorkerIs("claimed")
  /\ IF St(worker.item) = "queued" THEN Sets(worker.item, "running") ELSE UNCHANGED row
  /\ UNCHANGED <<request, nextRun>>

\* ... and returned as it then is: _process_next_fletcher_job() prepares it in
\* whatever status, and only a row that is not there raises.
Begin ==
  LET i == worker.item IN
  /\ worker.pc = "claimed"
  /\ IF St(i) \in Absent THEN WorkerIdles
     ELSE worker' = [worker EXCEPT !.pc = "preparing", !.job = row[i].job]
  /\ UNCHANGED <<row, request, nextRun>>

\* The pipeline made a document that does not compile, or one that does.
\* Reporting that it is done needs the row.
Produce(out, doc) ==
  /\ worker.pc = "preparing" /\ nextRun \in Runs
  /\ out = "compiled" => St(worker.item) \notin Absent
  /\ worker' = [worker EXCEPT !.pc = "produced", !.run = nextRun,
                  !.end = IF out = "compiled" THEN "succeeded" ELSE "failed"]
  /\ nextRun' = nextRun + 1
  /\ disk' = IF out = "compiled" THEN disk \cup {[pdf |-> Output(nextRun), doc |-> doc]}
             ELSE disk
  /\ UNCHANGED <<row, request, attempts, selected, ready, pending>>

\* A progress report finds no row, and neither does the report of the failure.
RowMissing ==
  /\ worker.pc = "preparing" /\ St(worker.item) \in Absent /\ WorkerIdles
  /\ UNCHANGED <<row, request, nextRun>>

\* The report of a result is still inside the try; that of a failure, which has no
\* run to name, is not.
Reporting == worker.pc \in {"ending", "finishing"}
InTry ==
  \/ worker.pc \in {"preparing", "produced", "loaded"}
  \/ Reporting /\ worker.run # 0
ToReportFailure == worker' = [Idle EXCEPT !.pc = "ending", !.item = worker.item]

\* Mutant of Raises: the exception reaches the loop.
RaisesToLoop ==
  /\ InTry /\ WorkerIdles
  /\ UNCHANGED <<row, request, nextRun>>

\* Anything raises, or the pipeline makes no document at all: the row is to end
\* failed, and nothing more is recorded.
Raises ==
  /\ InTry /\ ToReportFailure
  /\ UNCHANGED <<row, request, nextRun>>

\* The row just claimed cannot be read back, or the failure cannot be reported: the
\* exception reaches the loop, which leaves the row as it is and asks for the next.
Escapes ==
  /\ \/ worker.pc = "claimed"
     \/ Reporting /\ worker.run = 0
  /\ WorkerIdles
  /\ UNCHANGED <<row, request, nextRun>>

\* A result of a Hunt job with a TeX file is recorded: the job is read, ...
LoadJob ==
  /\ worker.pc = "produced"
  /\ IF worker.job = NoJob THEN WorkerEnds
     ELSE worker' = [worker EXCEPT !.pc = "loaded", !.isReady = worker.job \in ready]
  /\ UNCHANGED <<row, request, nextRun>>

\* ... and record_resume_attempt() commits the attempt with the selection.
Record ==
  /\ worker.pc = "loaded" /\ WorkerEnds
  /\ RecordAttempt(worker.run, worker.job,
                   \E f \in disk : f.pdf = Output(worker.run) /\ f.doc \in OnePage,
                   worker.isReady)
  /\ UNCHANGED <<row, request, nextRun>>

\* finish_fletcher_job(): a cancelled row is left alone, ...
ReadStatus ==
  /\ worker.pc = "ending"
  /\ IF St(worker.item) \in Absent \cup {"cancelled"} THEN WorkerIdles
     ELSE WorkerIs("finishing")
  /\ UNCHANGED <<row, request, nextRun>>

\* ... another is written, whatever it has become; a result that was written and
\* cannot be read back is reported again, as a failure.
Finish ==
  /\ worker.pc = "finishing"
  /\ \/ WorkerIdles
     \/ worker.run # 0 /\ ToReportFailure
  /\ IF St(worker.item) \in Absent THEN UNCHANGED row
     ELSE Ends(worker.item, worker.end, worker.run)
  /\ UNCHANGED <<request, nextRun>>
=============================================================================
