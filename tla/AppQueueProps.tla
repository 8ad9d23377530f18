--------------------------- MODULE AppQueueProps ---------------------------
(***************************************************************************)
(* What the product application queue must do and must never do.           *)
(***************************************************************************)
EXTENDS AppQueue

-----------------------------------------------------------------------------
(* Safety.                                                                  *)

\* add(), remove and restore never leave two live jobs for one posting, in
\* memory or in the file a restart will load.
OneLiveJob(J) ==
  \A i, j \in Jobs : i # j /\ Live(J[i]) /\ Live(J[j]) => J[i].target # J[j].target
OneLiveJobPerPosting == OneLiveJob(jobs) /\ OneLiveJob(disk.jobs)

\* Jobs of one employer never run at the same time, not even while one of
\* them is still unwinding: their tabs share the account's cookies.
SerialPerEmployer ==
  \A i, j \in Running(pc) :
    i # j => ~SameEmployer(jobs[i].target, jobs[j].target)

\* While a storage error is shown, and once close() has begun, every job that
\* still runs has been told to stop: no fill carries on unsaved.
StoppedMeansAborted ==
  storageError \/ phase \in {"draining", "closed"} => Running(pc) \subseteq aborted

\* A job is never filled while a review action reads or submits its page.
FillAndReviewExclusive ==
  \A j \in Jobs : Reviewing(j) /\ rev[j].pc # "releasing" => pc[j] = "idle"

\* No click is on its way, and none has arrived, unless the file already says
\* that the application is being or was submitted: a crash cannot forget it.
IntentBeforeClick ==
  /\ \A j \in Jobs : wire[j] # NoDigest => disk.jobs[j].status \in Committed
  /\ \A t \in Targets : clicks[t] > 0 =>
       \E j \in Jobs : disk.jobs[j].target = t /\ disk.jobs[j].status \in Committed

\* What a job may be while something works on it: a fill owns it running or
\* paused, a review action owns it before the intention or after, never both.
ActivityOf(J, P, R) ==
  \A j \in Jobs :
    /\ P[j] # "idle" => J[j].status \in {"running", "paused"}
    /\ R[j].pc \in {"opening", "reading", "read"} =>
         P[j] = "idle" /\ J[j].status \in {"review", "paused"}
    /\ R[j].pc \in {"rechecking", "clicking"} =>
         P[j] = "idle" /\ J[j].status \in Committed
ActivityInv ==
  /\ ActivityOf(jobs, pc, rev)
  /\ phase = "down" => \A j \in Jobs : pc[j] = "idle" /\ ~Reviewing(j)

\* Why the click is made at most once: memory and file agree on which jobs are
\* committed; a submission that has yet to click is the only live job of its
\* posting, so nothing was clicked for that posting and nothing is on its way.
CommitInv ==
  /\ OneLiveJobPerPosting
  /\ \A j \in Jobs :
       /\ jobs[j].target = disk.jobs[j].target
       /\ jobs[j].status # "absent" => jobs[j].target \in Targets
       /\ disk.jobs[j].status # "absent" => disk.jobs[j].target \in Targets
       /\ jobs[j].status \in Committed <=> disk.jobs[j].status \in Committed
       /\ rev[j].pc \in {"rechecking", "clicking"} \/ wire[j] # NoDigest =>
            jobs[j].status \in Committed
       /\ rev[j].pc = "rechecking" => wire[j] = NoDigest
       /\ rev[j].pc = "rechecking" \/ wire[j] # NoDigest =>
            clicks[jobs[j].target] = 0
  /\ \A t \in Targets : clicks[t] > 0 =>
       \E j \in Jobs : jobs[j].target = t /\ jobs[j].status \in Committed

\* Whatever lands at the employer is the contents the owner confirmed, unless the
\* owner edited the page after it was compared (product.md:82, "A changed review is
\* rejected before clicking Submit."): no fill, no other request, no failed save, no
\* crash with its restart changes a page under a click that is on its way, and no
\* click is sent for contents read before a later change.
LandsAsConfirmed ==
  [][\A j \in Jobs : wire'[j] # wire[j] /\ clicks' # clicks =>
       page[j] = wire[j] \/ j \in edited]_vars

\* No walk of the queue, whatever triggered it, starts jobs beyond the chosen
\* concurrency, without a browser, or after close() has begun.
StartsWithinLimit ==
  [][Running(pc') \subseteq Running(pc) \/
       (Cardinality(Running(pc')) <= limit' /\ connected /\ phase = "up")]_vars

\* A job that pump() would start.
Fits(j) == /\ jobs[j].status = "queued" /\ pc[j] = "idle"
           /\ Cardinality(Running(pc)) < limit
           /\ \A i \in Running(pc) : ~SameEmployer(jobs[j].target, jobs[i].target)
Waits == phase = "up" /\ connected /\ ~storageError /\ \E j \in Jobs : Fits(j)

\* No wakeup is lost: every run that ends, request, change of the limit and
\* recovery of the storage starts what it lets start, so only the connection of
\* the browser leaves a job that could start waiting for the 1 s timer.
NoMissedStart == [][Waits' => Waits \/ ~connected]_vars

\* The postings the file says are being or have been submitted.
Intended == {t \in Targets : \E j \in Jobs : /\ disk.jobs[j].target = t
                                             /\ disk.jobs[j].status \in Committed}

\* The click is made at most once and only after a durable intention.
Ledger == INSTANCE SubmitOnce WITH Applications <- Targets, intent <- Intended
SubmitsOnce == Ledger!Spec

-----------------------------------------------------------------------------
(* Liveness.  A call to the extension answers or times out after 60 s, a    *)
(* fill ends (its abort at the deadline reaches it), and the release of a   *)
(* tab settles; the timer ticks.                                            *)

Fairness ==
  /\ \A j \in Jobs : WF_vars(RunStep(j)) /\ WF_vars(ReviewStep(j))
  /\ WF_vars(Tick) /\ WF_vars(DrainEnds)

FairSpec == Spec /\ Fairness

\* Nothing is stuck: a fill, a review action and a shutdown always end.
EveryRunEnds == \A j \in Jobs : pc[j] # "idle" ~> pc[j] = "idle"
EveryReviewEnds == \A j \in Jobs : Reviewing(j) ~> ~Reviewing(j)

\* A queued job with nothing queued before it is started, unless the browser
\* stays away, the storage fails or the service stops.
FirstInLine(j) == /\ phase = "up" /\ connected /\ ~storageError
                  /\ jobs[j].status = "queued"
                  /\ \A i \in 1 .. j - 1 : jobs[i].status # "queued" /\ pc[i] = "idle"
FirstInLineStarts == \A j \in Jobs : ~<>[]FirstInLine(j)
=============================================================================
