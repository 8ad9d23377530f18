---------------------------- MODULE Coordinator ----------------------------
(***************************************************************************)
(* C4: application runs, their worker leases and the submit gate           *)
(* (coordinator/service.py).  The HTTP routes, the command line and the    *)
(* scheduler thread call the same service on one SQLite database, each on  *)
(* a connection of its own.  A handler first selects a row and looks at    *)
(* its status; its transaction opens at its first UPDATE or INSERT, which  *)
(* names the row by its id alone.  So every handler is two steps here, and *)
(* the steps of different callers interleave.                              *)
(***************************************************************************)
EXTENDS Naturals, FiniteSets

CONSTANTS
  Jobs,       \* rows of the jobs table
  NoJob,
  Callers,    \* the scheduler thread, operators and workers, at the same time
  Leases,     \* ids a worker lease can get
  MaxRuns     \* bound: runs ever created

ASSUME CoordinatorAssumption ==
  /\ NoJob \notin Jobs
  /\ MaxRuns \in Nat

Runs == 1..MaxRuns      \* in the order of started_at

VARIABLES
  run,      \* orchestration_runs
  log,      \* what orchestration_events and submit_approvals say of a run
  job,      \* jobs.status
  fit,      \* jobs whose columns pass the gates of C1 and C2
  lease,    \* orchestration_worker_leases
  call      \* where a caller's handler is

vars == <<run, log, job, fit, lease, call>>

-----------------------------------------------------------------------------
Executing == {"apply_prepared", "fill_requested", "awaiting_submit_approval",
              "submit_approved", "investigation_queued"}
Terminal == {"failed", "submit_denied", "submitted"}
Active == Executing \cup {"manual_review", "investigation_complete"}

\* hold: manual_review_reason is one of GLOBAL_HOLD_REASONS; it is read of a
\* run in manual_review only, so the model forgets it when the run leaves.
RunType == [st : Active \cup Terminal \cup {"none"}, job : Jobs \cup {NoJob},
            hold : BOOLEAN]
NoRun == [st |-> "none", job |-> NoJob, hold |-> FALSE]

\* result: fill_recorded or investigation_complete; cleared: fill_recorded or a
\* manual_review_resolved that continues; approve: a row of submit_approvals.
Kinds == {"result", "cleared", "approve", "submitted"}

LeaseType == [st : {"none", "active", "timed_out", "completed"}, run : Runs \cup {0}]
NoLease == [st |-> "none", run |-> 0]

Ops == {"idle", "picked", "prepare", "prepared", "request", "claim", "leased",
        "record", "investigate", "recorded", "heartbeat", "expire", "reconcile",
        "stale", "queue", "resolve", "approve", "submit"}
CallType == [op : Ops, job : Jobs \cup {NoJob}, run : Runs \cup {0}, leases : SUBSET Leases]
Idle == [op |-> "idle", job |-> NoJob, run |-> 0, leases |-> {}]

TypeOK ==
  /\ run \in [Runs -> RunType]
  /\ log \in [Runs -> SUBSET Kinds]
  /\ job \in [Jobs -> {"new", "claimed", "applied", "failed", "skipped"}]
  /\ fit \in SUBSET Jobs
  /\ lease \in [Leases -> LeaseType]
  /\ call \in [Callers -> CallType]

Init ==
  /\ run = [r \in Runs |-> NoRun]
  /\ log = [r \in Runs |-> {}]
  /\ job = [j \in Jobs |-> "new"]
  /\ fit = {}
  /\ lease = [l \in Leases |-> NoLease]
  /\ call = [c \in Callers |-> Idle]

-----------------------------------------------------------------------------
(* What the queries return.                                                *)

Started == {r \in Runs : run[r].st # "none"}
HasLease(leases, r) == \E l \in Leases : leases[l].st = "active" /\ leases[l].run = r

Ready(j) ==
  /\ ~ \E r \in Started : run[r].job = j /\ run[r].st \in Active
  /\ job[j] = "new"
  /\ j \in fit

Blocked == \E r \in Runs : \/ run[r].st \in Executing
                           \/ run[r].st = "manual_review" /\ run[r].hold

\* The oldest runs first, those with an active lease left out.
Claimable(leases, status) ==
  {r \in Runs : run[r].st = status /\ ~HasLease(leases, r)}
Oldest(r, S) == r \in S /\ \A s \in S : r <= s

-----------------------------------------------------------------------------
(* The two halves of a handler.                                            *)

At(c, op) == call[c].op = op
Enter(c, op, r) == call' = [call EXCEPT ![c] = [Idle EXCEPT !.op = op, !.run = r]]
Return(c) == call' = [call EXCEPT ![c] = Idle]

OnlyCalls == UNCHANGED <<run, log, job, fit, lease>>   \* the database is only read

\* An idle caller's handler finds run r in one of the statuses it accepts.
Finds(c, op, r, statuses) ==
  /\ At(c, "idle")
  /\ r \in Started /\ run[r].st \in statuses
  /\ Enter(c, op, r)
  /\ OnlyCalls

SetRun(r, st, hold) == run' = [run EXCEPT ![r].st = st, ![r].hold = hold]
SetJob(r, status) == job' = [job EXCEPT ![run[r].job] = status]
Log(r, kinds) == log' = [log EXCEPT ![r] = @ \cup kinds]

-----------------------------------------------------------------------------
(* A run is created and its fill is requested.                             *)

\* run_once, of the scheduler or of an operator.
PickNextJob(c) ==
  /\ At(c, "idle")
  /\ ~Blocked
  /\ \E j \in Jobs :
       Ready(j) /\ call' = [call EXCEPT ![c] = [Idle EXCEPT !.op = "picked", !.job = j]]
  /\ OnlyCalls

\* build_apply_context decides on a job that was picked, or that an operator names.
DecideReady(c) ==
  /\ \E j \in Jobs :
       /\ \/ At(c, "picked") /\ call[c].job = j
          \/ At(c, "idle") /\ Ready(j)
       /\ call' = [call EXCEPT ![c] =
            IF Ready(j) THEN [Idle EXCEPT !.op = "prepare", !.job = j] ELSE Idle]
  /\ OnlyCalls

\* With prepare_only the handler returns here; otherwise run_job goes on.
InsertRun(c) ==
  /\ At(c, "prepare")
  /\ \E r \in Runs, prepareOnly \in BOOLEAN :
       /\ Oldest(r, Runs \ Started)
       /\ run' = [run EXCEPT ![r] = [NoRun EXCEPT !.st = "apply_prepared", !.job = call[c].job]]
       /\ IF prepareOnly THEN Return(c) ELSE Enter(c, "prepared", r)
  /\ job' = [job EXCEPT ![call[c].job] = IF @ = "new" THEN "claimed" ELSE @]
  /\ UNCHANGED <<log, fit, lease>>

RequestReads(c) ==
  \/ \E r \in Runs : Finds(c, "request", r, {"apply_prepared"})
  \/ /\ At(c, "prepared")
     /\ IF run[call[c].run].st = "apply_prepared"
        THEN Enter(c, "request", call[c].run) ELSE Return(c)
     /\ OnlyCalls

RequestFill(c) ==
  /\ At(c, "request")
  /\ SetRun(call[c].run, "fill_requested", FALSE)
  /\ Return(c)
  /\ UNCHANGED <<log, job, fit, lease>>

-----------------------------------------------------------------------------
(* Worker leases.  Any active lease may be due, for time passes between    *)
(* any two steps; a heartbeat only moves the time at which it will be.     *)

LeaseOut(c, r, leases) ==
  \E l \in Leases :
    /\ lease[l].st = "none"
    /\ lease' = [leases EXCEPT ![l] = [st |-> "active", run |-> r]]

\* No lease is due: the run is selected before the transaction opens.
ClaimSelects(c) ==
  /\ At(c, "idle")
  /\ \E r \in Runs, status \in {"fill_requested", "investigation_queued"} :
       Oldest(r, Claimable(lease, status)) /\ Enter(c, "claim", r)
  /\ OnlyCalls

InsertLease(c) ==
  /\ At(c, "claim")
  /\ LeaseOut(c, call[c].run, lease)
  /\ Return(c)
  /\ UNCHANGED <<run, log, job, fit>>

\* A heartbeat, a result, a claim or a reconciliation finds leases that are due.
FindsDue(c) ==
  /\ At(c, "idle")
  /\ \E due \in SUBSET {l \in Leases : lease[l].st = "active"} \ {{}},
        op \in {"heartbeat", "expire", "reconcile"} :
       /\ op = "heartbeat" => Cardinality(due) = 1
       /\ call' = [call EXCEPT ![c] = [Idle EXCEPT !.op = op, !.leases = due]]
  /\ OnlyCalls

TimedOut(c) == [l \in Leases |->
  IF l \in call[c].leases THEN [lease[l] EXCEPT !.st = "timed_out"] ELSE lease[l]]

LeaseExpires(c) ==
  /\ At(c, "heartbeat")
  /\ lease' = TimedOut(c)
  /\ Return(c)
  /\ UNCHANGED <<run, log, job, fit>>

\* The first UPDATE opened the transaction, so the run is selected inside it.
ExpireThenClaim(c) ==
  /\ At(c, "expire")
  /\ \E status \in {"fill_requested", "investigation_queued"} :
       \/ Claimable(TimedOut(c), status) = {} /\ lease' = TimedOut(c)
       \/ \E r \in Runs : Oldest(r, Claimable(TimedOut(c), status)) /\ LeaseOut(c, r, TimedOut(c))
  /\ Return(c)
  /\ UNCHANGED <<run, log, job, fit>>

-----------------------------------------------------------------------------
(* Reconciliation puts a run whose worker is gone in front of an operator. *)

ToReview(marked) ==
  /\ run' = [r \in Runs |-> IF r \in marked
                            THEN [run[r] EXCEPT !.st = "manual_review", !.hold = FALSE]
                            ELSE run[r]]
  /\ job' = [j \in Jobs |-> IF \E r \in marked : run[r].job = j THEN "claimed" ELSE job[j]]

ReconcileExpired(c) ==
  /\ At(c, "reconcile")
  /\ lease' = TimedOut(c)
  /\ ToReview({r \in Started : run[r].st \notin Terminal \cup {"manual_review"}
                               /\ \E l \in call[c].leases : lease[l].run = r})
  /\ Return(c)
  /\ UNCHANGED <<log, fit>>

\* A fill nobody holds a lease for, or an approved submit nobody confirmed,
\* has waited past its timeout.
FindsStale(c) ==
  \E r \in Runs :
    /\ run[r].st = "fill_requested" => ~HasLease(lease, r)
    /\ Finds(c, "stale", r, {"fill_requested", "submit_approved"})

\* The row is read once more; an operator may have decided the run by then.
MarkStale(c) ==
  /\ At(c, "stale")
  /\ \/ ToReview({call[c].run})
     \/ run[call[c].run].st \in Terminal \cup {"manual_review"} /\ UNCHANGED <<run, job>>
  /\ Return(c)
  /\ UNCHANGED <<log, fit, lease>>

-----------------------------------------------------------------------------
(* The result of a fill or of an investigation.                            *)

\* complete_lease_with_result checks the lease in a transaction of its own.
LeaseIsActive(c) ==
  /\ At(c, "idle")
  /\ \E l \in Leases :
       /\ lease[l].st = "active"
       /\ call' = [call EXCEPT ![c] =
            [op |-> "leased", job |-> NoJob, run |-> lease[l].run, leases |-> {l}]]
  /\ OnlyCalls

\* Mutant of RouteResult: a result the run does not accept counts as recorded.
RouteResultAnyway(c) ==
  /\ At(c, "leased")
  /\ LET st == run[call[c].run].st
         op == IF st = "investigation_queued" THEN "investigate" ELSE "record"
     IN IF st \in {"apply_prepared", "fill_requested", "investigation_queued"}
        THEN call' = [call EXCEPT ![c].op = op]
        ELSE call' = [call EXCEPT ![c].op = "recorded"]
  /\ OnlyCalls

\* Then it routes by the status of the run; a status neither accepts raises.
RouteResult(c) ==
  /\ At(c, "leased")
  /\ LET st == run[call[c].run].st
         op == IF st = "investigation_queued" THEN "investigate" ELSE "record"
     IN IF st \in {"apply_prepared", "fill_requested", "investigation_queued"}
        THEN call' = [call EXCEPT ![c].op = op] ELSE Return(c)
  /\ OnlyCalls

RecordReads(c) == \E r \in Runs : Finds(c, "record", r, {"apply_prepared", "fill_requested"})

InvestigationReads(c) == \E r \in Runs : Finds(c, "investigate", r, {"investigation_queued"})

\* The lease, if the result came with one, is completed in a third transaction.
AfterResult(c) ==
  IF call[c].leases = {} THEN Return(c) ELSE call' = [call EXCEPT ![c].op = "recorded"]

RecordFill(c) ==
  /\ At(c, "record")
  /\ \/ SetRun(call[c].run, "investigation_queued", FALSE) /\ SetJob(call[c].run, "claimed")
     \/ /\ \E hold \in BOOLEAN : SetRun(call[c].run, "manual_review", hold)
        /\ SetJob(call[c].run, "claimed")
     \/ SetRun(call[c].run, "failed", FALSE) /\ SetJob(call[c].run, "failed")
     \/ SetRun(call[c].run, "awaiting_submit_approval", FALSE) /\ SetJob(call[c].run, "claimed")
  /\ Log(call[c].run, {"result", "cleared"})
  /\ AfterResult(c)
  /\ UNCHANGED <<fit, lease>>

RecordInvestigation(c) ==
  /\ At(c, "investigate")
  /\ SetRun(call[c].run, "investigation_complete", FALSE)
  /\ SetJob(call[c].run, "failed")
  /\ Log(call[c].run, {"result"})
  /\ AfterResult(c)
  /\ UNCHANGED <<fit, lease>>

CompleteLease(c) ==
  /\ At(c, "recorded")
  /\ lease' = [l \in Leases |->
       IF l \in call[c].leases THEN [lease[l] EXCEPT !.st = "completed"] ELSE lease[l]]
  /\ Return(c)
  /\ UNCHANGED <<run, log, job, fit>>

-----------------------------------------------------------------------------
(* The operator: investigation, review, approval, submission.              *)

QueueReads(c) == \E r \in Runs :
  Finds(c, "queue", r, {"manual_review", "failed", "fill_requested", "apply_prepared"})

ResolveReads(c) == \E r \in Runs : Finds(c, "resolve", r, {"manual_review"})

\* Mutant of ApproveReads: a run in review can be approved.
ApproveReadsInReview(c) ==
  \E r \in Runs : Finds(c, "approve", r, {"awaiting_submit_approval", "manual_review"})

ApproveReads(c) == \E r \in Runs : Finds(c, "approve", r, {"awaiting_submit_approval"})

\* Mutant of SubmitReads: a submission is recorded before its approval.
SubmitReadsUnapproved(c) ==
  \E r \in Runs : Finds(c, "submit", r, {"awaiting_submit_approval", "submit_approved"})

SubmitReads(c) == \E r \in Runs : Finds(c, "submit", r, {"submit_approved"})

QueueInvestigation(c) ==
  /\ At(c, "queue")
  /\ SetRun(call[c].run, "investigation_queued", FALSE)
  /\ Return(c)
  /\ UNCHANGED <<log, job, fit, lease>>

ResolveReview(c) ==
  /\ At(c, "resolve")
  /\ \/ /\ SetRun(call[c].run, "awaiting_submit_approval", FALSE)
        /\ SetJob(call[c].run, "claimed")
        /\ Log(call[c].run, {"cleared"})
     \/ /\ SetRun(call[c].run, "failed", FALSE)
        /\ SetJob(call[c].run, "failed")
        /\ UNCHANGED log
  /\ Return(c)
  /\ UNCHANGED <<fit, lease>>

ApproveSubmit(c) ==
  /\ At(c, "approve")
  /\ \E approve \in BOOLEAN :
       /\ SetRun(call[c].run, IF approve THEN "submit_approved" ELSE "submit_denied", FALSE)
       /\ SetJob(call[c].run, IF approve THEN "claimed" ELSE "skipped")
       /\ Log(call[c].run, IF approve THEN {"approve"} ELSE {})
  /\ Return(c)
  /\ UNCHANGED <<fit, lease>>

MarkSubmitted(c) ==
  /\ At(c, "submit")
  /\ SetRun(call[c].run, "submitted", FALSE)
  /\ SetJob(call[c].run, "applied")
  /\ Log(call[c].run, {"submitted"})
  /\ Return(c)
  /\ UNCHANGED <<fit, lease>>

-----------------------------------------------------------------------------
(* What happens to a handler, and what C1 and C2 do to a job.              *)

\* Its process ends, or SQLite reports the database locked.  Only a handler
\* that has written leaves something half done.
Dies(c) ==
  /\ At(c, "prepared") \/ At(c, "recorded")
  /\ Return(c)
  /\ OnlyCalls

\* C1 and C2 finish with a job.  (One that loses its resume again is refused
\* by DecideReady, as is one that got a run meanwhile.)
BecomesFit(j) ==
  /\ fit' = fit \cup {j}
  /\ UNCHANGED <<run, log, job, lease, call>>

RunOnce(c) ==
  PickNextJob(c) \/ DecideReady(c) \/ InsertRun(c) \/ RequestReads(c) \/ RequestFill(c)

Worker(c) ==
  \/ ClaimSelects(c) \/ InsertLease(c) \/ FindsDue(c) \/ LeaseExpires(c)
  \/ ExpireThenClaim(c) \/ LeaseIsActive(c) \/ RouteResult(c) \/ RecordReads(c)
  \/ RecordFill(c) \/ InvestigationReads(c) \/ RecordInvestigation(c) \/ CompleteLease(c)

Operator(c) ==
  \/ ReconcileExpired(c) \/ FindsStale(c) \/ MarkStale(c)
  \/ QueueReads(c) \/ QueueInvestigation(c) \/ ResolveReads(c) \/ ResolveReview(c)
  \/ ApproveReads(c) \/ ApproveSubmit(c) \/ SubmitReads(c) \/ MarkSubmitted(c)

Next ==
  \/ \E c \in Callers : RunOnce(c) \/ Worker(c) \/ Operator(c) \/ Dies(c)
  \/ \E j \in Jobs : BecomesFit(j)

Spec == Init /\ [][Next]_vars
=============================================================================
