------------------------------ MODULE AppQueue ------------------------------
(***************************************************************************)
(* The product application queue of the C3 Executioner: ApplicationQueue   *)
(* in executioner/src/product/queue.ts.                                    *)
(*                                                                         *)
(* Node runs the queue in one thread, so what executes between two awaits  *)
(* is one action and every await is a point where other actions interleave.*)
(* Per job there is at most one fill (run(), counter pc) and at most one   *)
(* review action (action("refresh_review" | "submit"), counter rev.pc).    *)
(* Beside the process memory the model keeps jobs.json (disk) and, for     *)
(* each job, the employer's page and the click that may be on its way to   *)
(* it: both outlive a crash of the service.                                *)
(***************************************************************************)
EXTENDS Naturals, FiniteSets

CONSTANTS
  MaxJobs,        \* bound: job entries ever created
  Targets,        \* postings: applicationTarget() records host, ats, board
  Contents,       \* what the digest of a review page can tell apart
  Limits,         \* values the owner chooses for the concurrency
  InitialLimit,
  Faults,         \* which of "storage", "crash", "disconnect"
  NoTarget, NoDigest

Jobs == 1 .. MaxJobs

\* applicationTarget(): the host determines the ATS family.
ASSUME TargetAssumption ==
  \A s, t \in Targets : s.host = t.host => s.ats = t.ats
ASSUME QueueAssumption ==
  /\ MaxJobs \in Nat
  /\ Limits \subseteq Nat \ {0} /\ InitialLimit \in Nat \ {0}
  /\ Contents # {}
  /\ NoTarget \notin Targets /\ NoDigest \notin Contents

\* "absent" is an entry not created yet; the others are JobStatus.
Status == {"absent", "queued", "running", "paused", "review", "submitting",
           "submitted", "submission_uncertain", "removed"}
Committed == {"submitting", "submitted", "submission_uncertain"}

VARIABLES
  phase,          \* "up", "draining" (close() begun), "closed", "down"
  connected,      \* bridge.connected: the extension's socket is open
  jobs,           \* this.jobs, by order of insertion
  limit,          \* this.concurrency
  storageError,   \* this.storageError is set
  disk,           \* jobs.json: the jobs and the concurrency last saved
  pc,             \* where run() of the job is suspended; "idle" = not in running
  aborted,        \* running jobs whose AbortController has fired
  found,          \* the digest a finished fill reported, until it is published
  session,        \* this.sessions: who attached the job's tab
  rev,            \* the review action of the job; "idle" = not in reviewActions
  page,           \* employer page: the contents its review shows
  wire,           \* click sent to the page and not landed yet: what was confirmed
  clicks,         \* employer: final clicks received for each posting
  edited          \* history: pages edited since their contents were compared
                  \* for the click that is on its way

vars == <<phase, connected, jobs, limit, storageError, disk, pc, aborted,
          found, session, rev, page, wire, clicks, edited>>
world == <<page, wire, clicks, edited>>           \* outside the service
queue == <<jobs, limit, storageError, disk, pc, aborted>>
others == <<phase, connected, found, session, rev, world>>

Digests == Contents \cup {NoDigest}
Entry == [target : Targets \cup {NoTarget}, status : Status, digest : Digests,
          reviewed : BOOLEAN, tab : BOOLEAN]
RunPc == {"idle", "opening", "filling", "closing", "unwinding"}
RevPc == {"idle", "opening", "reading", "read", "rechecking", "clicking",
          "releasing"}
NoReview == [pc |-> "idle", kind |-> "refresh", digest |-> NoDigest,
             read |-> NoDigest]
Absent == [target |-> NoTarget, status |-> "absent", digest |-> NoDigest,
           reviewed |-> FALSE, tab |-> FALSE]

TypeOK ==
  /\ phase \in {"up", "draining", "closed", "down"}
  /\ connected \in BOOLEAN /\ storageError \in BOOLEAN
  /\ jobs \in [Jobs -> Entry]
  /\ limit \in Nat \ {0}
  /\ disk \in [jobs : [Jobs -> Entry], limit : Nat \ {0}]
  /\ pc \in [Jobs -> RunPc]
  /\ aborted \subseteq {j \in Jobs : pc[j] # "idle"}
  /\ found \in [Jobs -> Digests]
  /\ session \in [Jobs -> {"none", "run", "review"}]
  /\ rev \in [Jobs -> [pc : RevPc, kind : {"refresh", "submit"},
                       digest : Digests, read : Digests]]
  /\ page \in [Jobs -> Contents]
  /\ wire \in [Jobs -> Digests]
  /\ clicks \in [Targets -> Nat]
  /\ edited \subseteq Jobs

-----------------------------------------------------------------------------
Exists(j) == jobs[j].status # "absent"
Live(e) == e.status \notin {"absent", "removed"}
Running(P) == {j \in Jobs : P[j] # "idle"}
Reviewing(j) == rev[j].pc # "idle"

\* Workday tabs share account cookies; on the other hosts a board is an employer.
SameEmployer(s, t) == /\ s.host = t.host
                      /\ s.ats = "workday" \/ s.board = t.board

\* submissionAllowed: only Workday, with a live profile.
Submittable(j) == jobs[j].target.ats = "workday"

-----------------------------------------------------------------------------
(* save() writes every job at once, atomically.  A failed write sets        *)
(* storageError, aborts every running job and throws.                       *)

NoSave(J, P) == /\ jobs' = J /\ pc' = P
                /\ UNCHANGED <<aborted, disk, storageError>>

\* Mutant of SaveOk: the write is put off.
SaveLater(J, P, A) == NoSave(J, P)

SaveOk(J, P, A) == /\ jobs' = J /\ pc' = P /\ aborted' = A
                   /\ disk' = [jobs |-> J, limit |-> limit']
                   /\ UNCHANGED storageError

\* Mutant of SaveFails: the failure is noted but the running jobs go on.
SaveFailsQuietly(J, P) == /\ "storage" \in Faults
                          /\ jobs' = J /\ pc' = P
                          /\ aborted' = aborted \cap Running(P)
                          /\ storageError' = TRUE
                          /\ UNCHANGED disk

SaveFails(J, P) == /\ "storage" \in Faults
                   /\ jobs' = J /\ pc' = P /\ aborted' = Running(P)
                   /\ storageError' = TRUE
                   /\ UNCHANGED disk

Save(J, P, A) == SaveOk(J, P, A) \/ SaveFails(J, P)

(* pump() walks the jobs in order and starts every queued one that fits the *)
(* limit and shares its employer with no running job: the set S is what one *)
(* walk starts.                                                             *)

Before(S, j) == {i \in S : i < j}

\* Mutants of Startable: employers ignored; the limit off by one; a job waits
\* for every live job of its employer instead of the running ones.
StartableAnyEmployer(J, P, R, j) ==
  J[j].status = "queued" /\ P[j] = "idle" /\ Cardinality(R) < limit'

StartableOneMore(J, P, R, j) ==
  /\ J[j].status = "queued" /\ P[j] = "idle"
  /\ Cardinality(R) <= limit'
  /\ \A i \in R : ~SameEmployer(J[j].target, J[i].target)

StartableAlone(J, P, R, j) ==
  /\ J[j].status = "queued" /\ P[j] = "idle" /\ Cardinality(R) < limit'
  /\ \A i \in Jobs \ {j} :
       Live(J[i]) => ~SameEmployer(J[j].target, J[i].target)

Startable(J, P, R, j) ==
  /\ J[j].status = "queued" /\ P[j] = "idle"
  /\ Cardinality(R) < limit'
  /\ \A i \in R : ~SameEmployer(J[j].target, J[i].target)

Starts(J, P, S) ==
  \A j \in Jobs : j \in S <=> Startable(J, P, Running(P) \cup Before(S, j), j)

Started(J, S) == [j \in Jobs |->
                    IF j \in S THEN [J[j] EXCEPT !.status = "running"] ELSE J[j]]
Opening(P, S) == [j \in Jobs |-> IF j \in S THEN "opening" ELSE P[j]]

\* Each start is saved on its own; a save that fails at job f pauses f and
\* ends the walk, with the jobs started before it aborted like all the others.
Pumped(J, P, A, D, E) ==
  IF phase # "up" \/ E \/ ~connected
  THEN /\ jobs' = J /\ pc' = P /\ aborted' = A
       /\ disk' = D /\ storageError' = E
  ELSE \E S \in SUBSET Jobs :
         /\ Starts(J, P, S)
         /\ \/ /\ jobs' = Started(J, S) /\ pc' = Opening(P, S) /\ aborted' = A
               /\ disk' = IF S = {} THEN D
                          ELSE [jobs |-> Started(J, S), limit |-> limit']
               /\ storageError' = FALSE
            \/ /\ "storage" \in Faults
               /\ \E f \in S : LET T == Before(S, f) IN
                    /\ jobs' = [Started(J, T) EXCEPT ![f].status = "paused"]
                    /\ pc' = Opening(P, T)
                    /\ aborted' = Running(Opening(P, T))
                    /\ disk' = IF T = {} THEN D
                               ELSE [jobs |-> Started(J, T), limit |-> limit']
                    /\ storageError' = TRUE

SaveThenPump(J, P, A) ==
  \/ SaveFails(J, P)
  \/ Pumped(J, P, A, [jobs |-> J, limit |-> limit'], storageError)

-----------------------------------------------------------------------------
(* Requests of the owner.  add(), setConcurrency() and recoverStorage() do  *)
(* not look at closed: they work until the service has drained.             *)

Serving == phase \in {"up", "draining"}

\* add() of a posting no live job has: a new job, then pump().
AddNew(t, withTab) ==
  /\ Serving
  /\ \A j \in Jobs : Live(jobs[j]) => jobs[j].target # t
  /\ UNCHANGED limit
  /\ \E j \in Jobs :
       /\ ~Exists(j) /\ \A i \in 1 .. j - 1 : Exists(i)
       /\ LET J == [jobs EXCEPT ![j] = [target |-> t, status |-> "queued",
                      digest |-> NoDigest, reviewed |-> FALSE, tab |-> withTab]]
          IN \/ SaveFails(jobs, pc)
             \/ Pumped(J, pc, aborted, [jobs |-> J, limit |-> limit'], storageError)
  /\ UNCHANGED others

\* add() of a posting that has a live job: that job is kept; another tab may
\* be connected to it only while it is paused and nothing works on it.
AddKnown(j, newTab) ==
  /\ Serving /\ Live(jobs[j])
  /\ newTab => jobs[j].status = "paused" /\ pc[j] = "idle" /\ ~Reviewing(j)
  /\ UNCHANGED limit
  /\ LET J == [jobs EXCEPT ![j].tab = @ \/ newTab]
     IN \/ SaveFails(jobs, pc)
        \/ Pumped(J, pc, aborted, [jobs |-> J, limit |-> limit'], storageError)
  /\ UNCHANGED others

SetConcurrency(n) ==
  /\ Serving /\ n # limit
  /\ limit' = n
  /\ SaveThenPump(jobs, pc, aborted)
  /\ UNCHANGED others

\* recoverStorage(), also the first thing action("retry") does under a
\* storage error: a save that works clears the error and pumps.
RecoverStorage ==
  /\ Serving /\ storageError
  /\ UNCHANGED limit
  /\ \/ SaveFails(jobs, pc)
     \/ Pumped(jobs, pc, aborted, [jobs |-> jobs, limit |-> limit'], FALSE)
  /\ UNCHANGED others

\* configure() writes settings and input files only; what matters here is
\* that a write that fails stops the queue like any other.
ConfigureFails ==
  /\ Serving
  /\ SaveFails(jobs, pc)
  /\ UNCHANGED <<phase, connected, limit, found, session, rev, world>>

\* action("pause"): the session is given up only when the pause was saved.
Pause(j) ==
  /\ phase = "up" /\ jobs[j].status \in {"queued", "running"}
  /\ UNCHANGED limit
  /\ LET J == [jobs EXCEPT ![j].status = "paused"]
     IN \/ /\ SaveOk(J, pc, aborted \cup ({j} \cap Running(pc)))
           /\ session' = [session EXCEPT ![j] = "none"]
        \/ SaveFails(J, pc) /\ UNCHANGED session
  /\ UNCHANGED <<phase, connected, found, rev, world>>

\* Mutant of Retry: reviewActions is not consulted.
RetryDuringReview(j) ==
  /\ phase = "up" /\ ~storageError
  /\ jobs[j].status \in {"paused", "review"} /\ pc[j] = "idle"
  /\ UNCHANGED limit
  /\ SaveThenPump([jobs EXCEPT ![j].status = "queued", ![j].digest = NoDigest],
                  pc, aborted)
  /\ UNCHANGED others

\* action("retry") without a storage error.
Retry(j) ==
  /\ phase = "up" /\ ~storageError
  /\ jobs[j].status \in {"paused", "review"} /\ pc[j] = "idle" /\ ~Reviewing(j)
  /\ UNCHANGED limit
  /\ SaveThenPump([jobs EXCEPT ![j].status = "queued", ![j].digest = NoDigest],
                  pc, aborted)
  /\ UNCHANGED others

Remove(j) ==
  /\ phase = "up"
  /\ jobs[j].status \in {"paused", "queued"} /\ pc[j] = "idle" /\ ~Reviewing(j)
  /\ UNCHANGED limit
  /\ Save([jobs EXCEPT ![j].status = "removed"], pc, aborted)
  /\ UNCHANGED others

\* Mutant of Restore: a newer job for the posting is not looked for.
RestoreAnyway(j) ==
  /\ phase = "up" /\ jobs[j].status = "removed" /\ pc[j] = "idle" /\ ~Reviewing(j)
  /\ UNCHANGED limit
  /\ Save([jobs EXCEPT ![j].status = "paused"], pc, aborted)
  /\ UNCHANGED others

Restore(j) ==
  /\ phase = "up" /\ jobs[j].status = "removed" /\ pc[j] = "idle" /\ ~Reviewing(j)
  /\ \A i \in Jobs \ {j} : Live(jobs[i]) => jobs[i].target # jobs[j].target
  /\ UNCHANGED limit
  /\ Save([jobs EXCEPT ![j].status = "paused"], pc, aborted)
  /\ UNCHANGED others

\* The 1 s timer, cleared by close().
Tick ==
  /\ phase = "up" /\ connected /\ ~storageError
  /\ UNCHANGED limit
  /\ ~Starts(jobs, pc, {})
  /\ Pumped(jobs, pc, aborted, disk, storageError)
  /\ UNCHANGED others

-----------------------------------------------------------------------------
(* run(job): open the tab, fill, release the tab, publish the review.  The  *)
(* catch block pauses the job and releases its tab; the finally block drops *)
(* it from running, saves and pumps.                                        *)

Caught(J, j) == /\ NoSave([J EXCEPT ![j].status = "paused"],
                          [pc EXCEPT ![j] = "unwinding"])
                /\ session' = [session EXCEPT ![j] = "none"]

RunOpens(j) ==
  /\ pc[j] = "opening" /\ connected
  /\ UNCHANGED limit
  /\ LET J == [jobs EXCEPT ![j].tab = TRUE]
     IN \/ j \in aborted /\ Caught(J, j)
        \/ /\ j \notin aborted
           /\ SaveOk(J, [pc EXCEPT ![j] = "filling"], aborted)
           /\ session' = [session EXCEPT ![j] = "run"]
        \/ /\ j \notin aborted
           /\ SaveFails([J EXCEPT ![j].status = "paused"],
                        [pc EXCEPT ![j] = "unwinding"])
           /\ UNCHANGED session
  /\ UNCHANGED <<phase, connected, found, rev, world>>

RunOpenFails(j) ==
  /\ pc[j] = "opening"
  /\ Caught(jobs, j)
  /\ UNCHANGED <<phase, connected, limit, found, rev, world>>

\* The fill reached Review, whose contents are then c.
FillSucceeds(j, c) ==
  /\ pc[j] = "filling"
  /\ page' = [page EXCEPT ![j] = c]
  /\ IF j \in aborted
     THEN Caught(jobs, j) /\ UNCHANGED found
     ELSE /\ NoSave(jobs, [pc EXCEPT ![j] = "closing"])
          /\ session' = [session EXCEPT ![j] = "none"]
          /\ found' = [found EXCEPT ![j] = c]
  /\ UNCHANGED <<phase, connected, limit, rev, wire, clicks, edited>>

FillFails(j) ==
  /\ pc[j] = "filling"
  /\ Caught(jobs, j)
  /\ UNCHANGED <<phase, connected, limit, found, rev, world>>

\* Mutants of RunEnds: the job stays in running; the queue is not walked again.
RunEndsKeepsJob(J, j) == SaveThenPump(J, pc, aborted)
RunEndsUnpumped(J, j) == Save(J, [pc EXCEPT ![j] = "idle"], aborted \ {j})

\* finally: out of running, save, pump.
RunEnds(J, j) == SaveThenPump(J, [pc EXCEPT ![j] = "idle"], aborted \ {j})

\* Both saves of the published review, the second of which may still fail.
RunPublishes(J, j) ==
  LET P == [pc EXCEPT ![j] = "idle"]
      D == [jobs |-> J, limit |-> limit']
  IN \/ /\ "storage" \in Faults
        /\ jobs' = J /\ pc' = P /\ aborted' = Running(P)
        /\ disk' = D /\ storageError' = TRUE
     \/ Pumped(J, P, aborted \ {j}, D, storageError)

\* The tab is released.  Publishing the review saves twice, in the try block
\* and in the finally block: if the first fails the catch block runs.
RunCloses(j) ==
  /\ pc[j] = "closing"
  /\ UNCHANGED limit
  /\ LET J == [jobs EXCEPT ![j].status = "review", ![j].digest = found[j],
                           ![j].reviewed = TRUE]
     IN \/ j \in aborted /\ Caught(jobs, j)
        \/ /\ j \notin aborted
           /\ SaveFails([J EXCEPT ![j].status = "paused"],
                        [pc EXCEPT ![j] = "unwinding"])
           /\ UNCHANGED session
        \/ /\ j \notin aborted
           /\ RunPublishes(J, j)
           /\ UNCHANGED session
  /\ found' = [found EXCEPT ![j] = NoDigest]
  /\ UNCHANGED <<phase, connected, rev, world>>

RunUnwinds(j) ==
  /\ pc[j] = "unwinding"
  /\ UNCHANGED limit
  /\ RunEnds(jobs, j)
  /\ UNCHANGED others

\* The 30 minute timer of run(), cleared by its finally block.
Deadline(j) ==
  /\ pc[j] # "idle" /\ (j \notin aborted \/ session[j] # "none")
  /\ aborted' = aborted \cup {j}
  /\ session' = [session EXCEPT ![j] = "none"]
  /\ UNCHANGED <<phase, connected, jobs, limit, storageError, disk, pc, found,
                 rev, world>>

-----------------------------------------------------------------------------
(* action("refresh_review") and action("submit"): at most one per job, and  *)
(* however it ends, action() releases the session of the job and only then  *)
(* lets go of reviewActions.                                                *)

RefreshAllowed(j) ==
  /\ \/ jobs[j].status = "review"
     \/ jobs[j].status = "paused" /\ jobs[j].reviewed
  /\ pc[j] = "idle"

At(j, p) == [rev EXCEPT ![j].pc = p]
Released(j) == [session EXCEPT ![j] = "none"]

RequestRefresh(j) ==
  /\ phase = "up" /\ ~Reviewing(j) /\ RefreshAllowed(j)
  /\ rev' = [rev EXCEPT ![j] = [NoReview EXCEPT !.pc = "opening"]]
  /\ UNCHANGED <<phase, connected, queue, found, session, world>>

\* The owner confirmed the review whose digest the queue holds.
RequestSubmit(j) ==
  /\ phase = "up" /\ ~Reviewing(j)
  /\ jobs[j].status = "review" /\ Submittable(j) /\ jobs[j].digest # NoDigest
  /\ rev' = [rev EXCEPT ![j] = [pc |-> "opening", kind |-> "submit",
                                digest |-> jobs[j].digest, read |-> NoDigest]]
  /\ UNCHANGED <<phase, connected, queue, found, session, world>>

\* A request performAction() refuses (a refresh while the job runs, a submit
\* of a digest that is not the job's) still passes through action()'s finally.
RejectReview(j) ==
  /\ phase = "up" /\ ~Reviewing(j) /\ session[j] # "none"
  /\ rev' = At(j, "releasing")
  /\ session' = Released(j)
  /\ UNCHANGED <<phase, connected, queue, found, world>>

\* reviewSession(): only the tab the job already has.
ReviewOpens(j) ==
  /\ rev[j].pc = "opening" /\ connected /\ jobs[j].tab
  /\ IF phase = "up"
     THEN rev' = At(j, "reading") /\ session' = [session EXCEPT ![j] = "review"]
     ELSE rev' = At(j, "releasing") /\ session' = Released(j)
  /\ UNCHANGED <<phase, connected, queue, found, world>>

\* reviewDigest() evaluates in the page; its caller resumes later.
ReadReview(j) ==
  /\ rev[j].pc = "reading" /\ session[j] = "review"
  /\ rev' = [rev EXCEPT ![j].pc = "read", ![j].read = page[j]]
  /\ UNCHANGED <<phase, connected, queue, found, session, world>>

\* What submit checks again after reading the page.
StillConfirmed(j) ==
  /\ rev[j].read = rev[j].digest /\ phase = "up"
  /\ jobs[j].status = "review" /\ session[j] = "review"
  /\ jobs[j].digest = rev[j].digest

\* The tab cannot be opened or moved away, the page is not at Review, or the
\* service closed: a refresh pauses the job, a submit leaves it in review.
ReviewFails(j) ==
  /\ \/ rev[j].pc \in {"opening", "reading"}
     \/ rev[j].pc = "read" /\ rev[j].kind = "refresh" /\ phase # "up"
     \/ rev[j].pc = "read" /\ rev[j].kind = "submit" /\ ~StillConfirmed(j)
  /\ UNCHANGED limit
  /\ IF rev[j].kind = "refresh" /\ phase = "up"
     THEN Save([jobs EXCEPT ![j].status = "paused", ![j].digest = NoDigest],
               pc, aborted)
     ELSE NoSave(jobs, pc)
  /\ rev' = At(j, "releasing") /\ session' = Released(j)
  /\ UNCHANGED <<phase, connected, found, world>>

\* The refreshed review is published; if that cannot be saved the catch block
\* pauses the job and saves again.
RefreshDone(j) ==
  /\ rev[j].pc = "read" /\ rev[j].kind = "refresh" /\ phase = "up"
  /\ UNCHANGED limit
  /\ LET Paused == [jobs EXCEPT ![j].status = "paused", ![j].digest = NoDigest]
     IN \/ SaveOk([jobs EXCEPT ![j].status = "review", ![j].digest = rev[j].read],
                  pc, aborted)
        \/ /\ "storage" \in Faults
           /\ jobs' = Paused /\ storageError' = TRUE
           /\ aborted' = Running(pc) /\ UNCHANGED pc
           /\ disk' \in {disk, [jobs |-> Paused, limit |-> limit']}
  /\ rev' = At(j, "releasing") /\ session' = Released(j)
  /\ UNCHANGED <<phase, connected, found, world>>

\* Persist before the external effect; without it the job is in review again.
SubmitIntends(j) ==
  /\ rev[j].pc = "read" /\ rev[j].kind = "submit" /\ StillConfirmed(j)
  /\ UNCHANGED limit
  /\ \/ /\ SaveOk([jobs EXCEPT ![j].status = "submitting"], pc, aborted)
        /\ rev' = At(j, "rechecking") /\ UNCHANGED session
     \/ /\ SaveFails(jobs, pc)
        /\ rev' = At(j, "releasing") /\ session' = Released(j)
  /\ UNCHANGED <<phase, connected, found, world>>

\* Mutant of SubmitClicks: the page is not read again.
SubmitClicksUnread(j) ==
  /\ rev[j].pc = "rechecking" /\ session[j] = "review"
  /\ wire' = [wire EXCEPT ![j] = rev[j].digest]
  /\ rev' = At(j, "clicking")
  /\ UNCHANGED <<phase, connected, queue, found, session, page, clicks, edited>>

\* submitReviewedApplication(): reads the page once more, then clicks.
SubmitClicks(j) ==
  /\ rev[j].pc = "rechecking" /\ session[j] = "review"
  /\ page[j] = rev[j].digest
  /\ wire' = [wire EXCEPT ![j] = rev[j].digest]
  /\ rev' = At(j, "clicking")
  /\ UNCHANGED <<phase, connected, queue, found, session, page, clicks, edited>>

\* The outcome of the submission is recorded.
SubmitEnds(j, outcome) ==
  /\ UNCHANGED limit
  /\ Save([jobs EXCEPT ![j].status = outcome, ![j].digest = NoDigest], pc, aborted)
  /\ rev' = At(j, "releasing") /\ session' = Released(j)
  /\ UNCHANGED <<phase, connected, found, world>>

\* The page changed since, or cannot be read or clicked.
SubmitThrows(j) ==
  /\ rev[j].pc \in {"rechecking", "clicking"}
  /\ SubmitEnds(j, "submission_uncertain")

\* The page shows the employer's confirmation.
SubmitReturns(j) ==
  /\ rev[j].pc = "clicking" /\ clicks[jobs[j].target] > 0
  /\ SubmitEnds(j, "submitted")

\* Mutant of ReviewReleased: reviewActions keeps the job when the action failed.
ReviewReleasedOnSuccess(j) ==
  /\ rev[j].pc = "releasing" /\ jobs[j].status # "paused"
  /\ rev' = [rev EXCEPT ![j] = NoReview]
  /\ UNCHANGED <<phase, connected, queue, found, session, world>>

ReviewReleased(j) ==
  /\ rev[j].pc = "releasing"
  /\ rev' = [rev EXCEPT ![j] = NoReview]
  /\ UNCHANGED <<phase, connected, queue, found, session, world>>

-----------------------------------------------------------------------------
(* close(), the end of the process and the next start.                      *)

Close ==
  /\ phase = "up" /\ phase' = "draining"
  /\ aborted' = Running(pc)
  /\ session' = [j \in Jobs |-> "none"]
  /\ UNCHANGED <<connected, jobs, limit, storageError, disk, pc, found, rev, world>>

Drained(e) ==
  CASE e.status \in {"running", "queued"} -> [e EXCEPT !.status = "paused"]
    [] e.status = "submitting" ->
         [e EXCEPT !.status = "submission_uncertain", !.digest = NoDigest]
    [] OTHER -> e

\* Everything tracked settled, or the timeout passed first.
DrainEnds ==
  /\ phase = "draining" /\ phase' = "closed"
  /\ UNCHANGED limit
  /\ Save([j \in Jobs |-> Drained(jobs[j])], pc, aborted)
  /\ UNCHANGED <<connected, found, session, rev, world>>

\* The process exits, or is killed at any point: what is left is the file.
Stop ==
  /\ \/ phase = "closed"
     \/ phase \in {"up", "draining"} /\ "crash" \in Faults
  /\ phase' = "down" /\ connected' = FALSE
  /\ jobs' = disk.jobs /\ limit' = disk.limit /\ storageError' = FALSE
  /\ pc' = [j \in Jobs |-> "idle"] /\ aborted' = {}
  /\ found' = [j \in Jobs |-> NoDigest]
  /\ session' = [j \in Jobs |-> "none"]
  /\ rev' = [j \in Jobs |-> NoReview]
  /\ UNCHANGED <<disk, world>>

\* Mutants of Recovered: an interrupted submission is paused; a review stays one.
RecoveredToPaused(e) ==
  [e EXCEPT !.tab = FALSE, !.status =
     IF @ \in {"running", "queued", "review", "submitting"} THEN "paused" ELSE @]
Recovered(e) ==
  CASE e.status = "submitting" ->
         [e EXCEPT !.status = "submission_uncertain", !.tab = FALSE]
    [] e.status \in {"running", "queued", "review"} ->
         [e EXCEPT !.status = "paused", !.tab = FALSE]
    [] OTHER -> [e EXCEPT !.tab = FALSE]

\* The constructor; if its save() fails the service does not start.
Restart ==
  /\ phase = "down" /\ phase' = "up"
  /\ UNCHANGED limit
  /\ SaveOk([j \in Jobs |-> Recovered(disk.jobs[j])], pc, aborted)
  /\ UNCHANGED <<connected, found, session, rev, world>>

-----------------------------------------------------------------------------
(* The browser, the owner at the employer's page, and the employer.         *)

Connect ==
  /\ phase # "down" /\ ~connected /\ connected' = TRUE
  /\ UNCHANGED <<phase, queue, found, session, rev, world>>

Disconnect ==
  /\ "disconnect" \in Faults
  /\ connected /\ connected' = FALSE
  /\ UNCHANGED <<phase, queue, found, session, rev, world>>

\* The owner edits a draft that reached Review, at any time: also while a click
\* waits for its button.
Edit(j, c) ==
  /\ jobs[j].reviewed /\ c # page[j]
  /\ page' = [page EXCEPT ![j] = c]
  /\ edited' = IF wire[j] # NoDigest THEN edited \cup {j} ELSE edited
  /\ UNCHANGED <<phase, connected, queue, found, session, rev, wire, clicks>>

ClickLands(j) ==
  /\ wire[j] # NoDigest
  /\ wire' = [wire EXCEPT ![j] = NoDigest]
  /\ clicks' = [clicks EXCEPT ![jobs[j].target] = @ + 1]
  /\ edited' = edited \ {j}
  /\ UNCHANGED <<phase, connected, queue, found, session, rev, page>>

ClickLost(j) ==
  /\ wire[j] # NoDigest
  /\ wire' = [wire EXCEPT ![j] = NoDigest]
  /\ edited' = edited \ {j}
  /\ UNCHANGED <<phase, connected, queue, found, session, rev, page, clicks>>

-----------------------------------------------------------------------------
Init ==
  /\ phase = "up" /\ connected = FALSE
  /\ jobs = [j \in Jobs |-> Absent] /\ limit = InitialLimit
  /\ storageError = FALSE
  /\ disk = [jobs |-> jobs, limit |-> limit]
  /\ pc = [j \in Jobs |-> "idle"] /\ aborted = {}
  /\ found = [j \in Jobs |-> NoDigest]
  /\ session = [j \in Jobs |-> "none"] /\ rev = [j \in Jobs |-> NoReview]
  /\ page = [j \in Jobs |-> CHOOSE c \in Contents : TRUE]
  /\ wire = [j \in Jobs |-> NoDigest]
  /\ clicks = [t \in Targets |-> 0] /\ edited = {}

RunStep(j) == \/ RunOpens(j) \/ RunOpenFails(j)
              \/ \E c \in Contents : FillSucceeds(j, c)
              \/ FillFails(j) \/ RunCloses(j) \/ RunUnwinds(j)

ReviewStep(j) == \/ ReviewOpens(j) \/ ReadReview(j) \/ ReviewFails(j)
                 \/ RefreshDone(j) \/ SubmitIntends(j) \/ SubmitClicks(j)
                 \/ SubmitThrows(j) \/ SubmitReturns(j) \/ ReviewReleased(j)

OwnerStep(j) == \/ \E b \in BOOLEAN : AddKnown(j, b)
                \/ Pause(j) \/ Retry(j) \/ Remove(j) \/ Restore(j)
                \/ RequestRefresh(j) \/ RequestSubmit(j) \/ RejectReview(j)
                \/ \E c \in Contents : Edit(j, c)

Next ==
  \/ \E t \in Targets, b \in BOOLEAN : AddNew(t, b)
  \/ \E n \in Limits : SetConcurrency(n)
  \/ RecoverStorage \/ ConfigureFails \/ Tick
  \/ \E j \in Jobs : \/ RunStep(j) \/ Deadline(j) \/ ReviewStep(j) \/ OwnerStep(j)
                     \/ ClickLands(j) \/ ClickLost(j)
  \/ Close \/ DrainEnds \/ Stop \/ Restart
  \/ Connect \/ Disconnect

Spec == Init /\ [][Next]_vars

=============================================================================
