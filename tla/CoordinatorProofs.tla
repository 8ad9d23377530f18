------------------------- MODULE CoordinatorProofs -------------------------
(***************************************************************************)
(* Theorems about the coordinator for every set of jobs, callers and       *)
(* leases and every number of runs.                                        *)
(***************************************************************************)
EXTENDS CoordinatorProps, TLAPS

RunMap == [Runs -> RunType]
LogMap == [Runs -> SUBSET Kinds]
JobMap == [Jobs -> {"new", "claimed", "applied", "failed", "skipped"}]
LeaseMap == [Leases -> LeaseType]

\* Handlers that were given a run when they read.
OnRun == {"prepared", "request", "claim", "leased", "record", "investigate",
          "recorded", "stale", "queue", "resolve", "approve", "submit"}
WithLease == {"leased", "record", "investigate", "recorded"}

\* What a handler that read some steps ago may still rely on, given what is
\* logged and which leases there are: both only grow.
CallOK(k, logged, leases) ==
  /\ k.op \in OnRun => k.run \in Runs
  /\ k.op = "approve" => "cleared" \in logged[k.run]
  /\ k.op = "submit" => "approve" \in logged[k.run]
  /\ k.op = "recorded" => "result" \in logged[k.run]
  /\ \A l \in k.leases : leases[l].st # "none"
  /\ k.op \in WithLease => \A l \in k.leases : leases[l].run = k.run

CallInv == \A c \in Callers : CallOK(call[c], log, lease)

\* The statuses that the gate reads are backed by the log, and so is the log.
GateInv ==
  \A r \in Runs :
    /\ run[r].st = "awaiting_submit_approval" => "cleared" \in log[r]
    /\ run[r].st = "submit_approved" => "approve" \in log[r]
    /\ "approve" \in log[r] => "cleared" \in log[r]
    /\ "submitted" \in log[r] => "approve" \in log[r]

LeaseInv ==
  /\ \A l \in Leases : lease[l].st # "none" => lease[l].run \in Runs
  /\ CompletedLeaseHasResult

IInv == TypeOK /\ CallInv /\ GateInv /\ LeaseInv /\ AppliedWasSubmitted

-----------------------------------------------------------------------------
(* What every step leaves alone.                                           *)

LogGrows == \A r \in Runs : log[r] \subseteq log'[r]
LeasesStay == \A l \in Leases :
  lease[l].st # "none" => lease'[l].st # "none" /\ lease'[l].run = lease[l].run
RunsStay == \A r \in Runs :
  run[r].st # "none" => run'[r].st # "none" /\ run'[r].job = run[r].job

\* What a handler relies on does not depend on what others did meanwhile.
LEMMA CallStays ==
  ASSUME TypeOK, log' \in LogMap, LogGrows, LeasesStay,
         NEW k \in CallType, CallOK(k, log, lease)
  PROVE  CallOK(k, log', lease')
<1>1. \A l \in k.leases : l \in Leases
  BY DEF CallType
<1>2. \A l \in k.leases : lease'[l].st # "none" /\ lease'[l].run = lease[l].run
  BY <1>1 DEF CallOK, LeasesStay
<1>3. k.op \in {"approve", "submit", "recorded"} => k.run \in Runs
  BY DEF CallOK, OnRun
<1>4. k.op \in {"approve", "submit", "recorded"} => log[k.run] \subseteq log'[k.run]
  BY <1>3 DEF LogGrows
<1> QED BY <1>2, <1>4 DEF CallOK

\* One caller goes on as k; the others stand where they stood.
LEMMA CallsKeep ==
  ASSUME TypeOK, CallInv, log' \in LogMap, LogGrows, LeasesStay,
         NEW c \in Callers, NEW k \in CallType, CallOK(k, log', lease'),
         call' = [call EXCEPT ![c] = k]
  PROVE  CallInv' /\ call' \in [Callers -> CallType]
<1>1. call \in [Callers -> CallType]
  BY DEF TypeOK
<1>2. ASSUME NEW d \in Callers PROVE CallOK(call'[d], log', lease')
  <2>1. CASE d = c
    BY <1>1, <2>1
  <2>2. CASE d # c
    <3>1. call'[d] = call[d] /\ call[d] \in CallType
      BY <1>1, <2>2
    <3>2. CallOK(call[d], log, lease)
      BY DEF CallInv
    <3> QED BY <3>1, <3>2, CallStays
  <2> QED BY <2>1, <2>2
<1> QED BY <1>1, <1>2 DEF CallInv

LEMMA IdleOK ==
  ASSUME NEW logged, NEW leases
  PROVE  Idle \in CallType /\ CallOK(Idle, logged, leases)
BY DEF Idle, CallType, Ops, CallOK, OnRun, WithLease

\* Jobs that were applied keep their run while runs and the log only grow.
LEMMA AppliedKeeps ==
  ASSUME AppliedWasSubmitted, TypeOK, RunsStay, LogGrows,
         \A j \in Jobs : job'[j] = "applied" => job[j] = "applied"
  PROVE  AppliedWasSubmitted'
BY DEF AppliedWasSubmitted, RunsStay, LogGrows, Started

-----------------------------------------------------------------------------
(* A handler reads: only the caller moves.                                 *)

LEMMA ReadKeeps ==
  ASSUME IInv, OnlyCalls, NEW c \in Callers, NEW k \in CallType,
         CallOK(k, log, lease), call' = [call EXCEPT ![c] = k]
  PROVE  IInv'
<1>1. LogGrows /\ LeasesStay /\ log' = log /\ lease' = lease /\ log' \in LogMap
  BY DEF OnlyCalls, LogGrows, LeasesStay, IInv, TypeOK, LogMap
<1>2. CallInv' /\ call' \in [Callers -> CallType]
  BY <1>1, CallsKeep DEF IInv
<1> QED
  BY <1>1, <1>2 DEF IInv, OnlyCalls, TypeOK, GateInv, LeaseInv, CompletedLeaseHasResult,
     AppliedWasSubmitted, Started

\* A run that is found in a status the gate looks at is backed by the log.
LEMMA FindsKeeps ==
  ASSUME IInv, NEW c \in Callers, NEW op \in Ops, NEW r \in Runs, NEW statuses,
         Finds(c, op, r, statuses),
         op = "approve" => statuses = {"awaiting_submit_approval"},
         op = "submit" => statuses = {"submit_approved"},
         op # "recorded"
  PROVE  IInv'
<1> DEFINE k == [Idle EXCEPT !.op = op, !.run = r]
<1>1. k \in CallType /\ k.op = op /\ k.run = r /\ k.leases = {}
  BY DEF Idle, CallType, Ops
<1>2. CallOK(k, log, lease)
  BY <1>1 DEF CallOK, Finds, IInv, GateInv
<1>3. call' = [call EXCEPT ![c] = k] /\ OnlyCalls
  BY DEF Finds, Enter
<1> QED BY <1>1, <1>2, <1>3, ReadKeeps

\* The handlers that return after what they read.
LEMMA ReturnKeeps ==
  ASSUME IInv, NEW c \in Callers, Return(c), OnlyCalls
  PROVE  IInv'
BY IdleOK, ReadKeeps DEF Return

-----------------------------------------------------------------------------
(* A handler writes one run, with what it logs and the status of the job.  *)

LEMMA SetRunFacts ==
  ASSUME TypeOK, NEW r \in Runs, NEW st \in Active \cup Terminal, NEW hold \in BOOLEAN,
         SetRun(r, st, hold)
  PROVE  /\ run' \in RunMap /\ RunsStay
         /\ run'[r].st = st /\ run'[r].job = run[r].job
         /\ \A s \in Runs : s # r => run'[s] = run[s]
<1>1. run \in RunMap
  BY DEF TypeOK, RunMap
<1>2. "none" \notin Active \cup Terminal
  BY DEF Active, Terminal, Executing
<1>3. \A s \in Runs : run'[s] = IF s = r THEN [run[r] EXCEPT !.st = st, !.hold = hold] ELSE run[s]
  BY <1>1 DEF SetRun, RunMap, RunType
<1>4. run'[r] \in RunType /\ run'[r].st = st /\ run'[r].job = run[r].job
  BY <1>1, <1>3 DEF RunMap, RunType
<1>5. run' \in RunMap
  BY <1>1, <1>3, <1>4 DEF SetRun, RunMap
<1> QED BY <1>2, <1>3, <1>4, <1>5 DEF RunsStay

LEMMA LogFacts ==
  ASSUME TypeOK, NEW r \in Runs, NEW kinds \in SUBSET Kinds, Log(r, kinds)
  PROVE  /\ log' \in LogMap /\ LogGrows
         /\ log'[r] = log[r] \cup kinds
         /\ \A s \in Runs : s # r => log'[s] = log[s]
BY DEF TypeOK, Log, LogMap, LogGrows

LEMMA SetJobType ==
  ASSUME TypeOK, NEW r, NEW status \in {"claimed", "applied", "failed", "skipped"},
         SetJob(r, status)
  PROVE  /\ job' \in JobMap
         /\ \A j \in Jobs : job'[j] = IF j = run[r].job THEN status ELSE job[j]
BY DEF TypeOK, SetJob, JobMap

LEMMA OneRun ==
  ASSUME IInv, NEW r \in Runs, NEW st \in Active \cup Terminal, NEW hold \in BOOLEAN,
         SetRun(r, st, hold),
         log' \in LogMap, LogGrows, \A s \in Runs : s # r => log'[s] = log[s],
         st = "awaiting_submit_approval" => "cleared" \in log'[r],
         st = "submit_approved" => "approve" \in log'[r],
         "approve" \in log'[r] => "cleared" \in log'[r],
         "submitted" \in log'[r] => "approve" \in log'[r],
         job' \in JobMap,
         \A j \in Jobs : job'[j] = "applied" =>
           job[j] = "applied" \/ (j = run[r].job /\ {"approve", "submitted"} \subseteq log'[r]),
         UNCHANGED <<fit, lease>>,
         NEW c \in Callers, NEW k \in CallType, CallOK(k, log', lease'),
         call' = [call EXCEPT ![c] = k]
  PROVE  IInv'
<1>1. TypeOK /\ CallInv /\ GateInv /\ LeaseInv /\ AppliedWasSubmitted
  BY DEF IInv
<1>2. /\ run' \in RunMap /\ RunsStay
      /\ run'[r].st = st /\ run'[r].job = run[r].job
      /\ \A s \in Runs : s # r => run'[s] = run[s]
  BY <1>1, SetRunFacts
<1>3. LeasesStay
  BY DEF LeasesStay
<1>4. CallInv' /\ call' \in [Callers -> CallType]
  BY <1>1, <1>3, CallsKeep
<1>5. TypeOK'
  BY <1>1, <1>2, <1>4 DEF TypeOK, RunMap, LogMap, JobMap
<1>6. GateInv'
  BY <1>1, <1>2 DEF GateInv
<1>7. LeaseInv'
  <2>1. \A l \in Leases : lease[l].st = "completed" => lease[l].run \in Runs
    BY <1>1 DEF LeaseInv
  <2> QED BY <1>1, <2>1 DEF LeaseInv, CompletedLeaseHasResult, LogGrows
<1>8. AppliedWasSubmitted'
  <2> SUFFICES ASSUME NEW j \in Jobs, job'[j] = "applied"
               PROVE  \E s \in Started' : run'[s].job = j /\ {"approve", "submitted"} \subseteq log'[s]
    BY DEF AppliedWasSubmitted
  <2>1. CASE job[j] = "applied"
    BY <1>1, <1>2, <2>1 DEF AppliedWasSubmitted, RunsStay, LogGrows, Started
  <2>2. CASE j = run[r].job /\ {"approve", "submitted"} \subseteq log'[r]
    <3>1. r \in Started'
      BY <1>2 DEF Started, Active, Terminal, Executing
    <3> QED BY <1>2, <2>2, <3>1
  <2> QED BY <2>1, <2>2
<1> QED BY <1>4, <1>5, <1>6, <1>7, <1>8 DEF IInv

\* Runs are taken to review, with leases of theirs that timed out.
LEMMA ReviewKeeps ==
  ASSUME IInv, NEW marked \in SUBSET Runs,
         ToReview(marked), UNCHANGED <<log, fit>>,
         lease' \in LeaseMap, LeasesStay,
         \A l \in Leases : lease'[l].st # "none" => lease'[l].run \in Runs,
         \A l \in Leases : lease'[l].st = "completed" => lease[l].st = "completed",
         NEW c \in Callers, Return(c)
  PROVE  IInv'
<1>1. TypeOK /\ CallInv /\ GateInv /\ LeaseInv /\ AppliedWasSubmitted
  BY DEF IInv
<1>2. \A r \in Runs :
        /\ run'[r] \in RunType
        /\ run'[r].job = run[r].job
        /\ run'[r].st = IF r \in marked THEN "manual_review" ELSE run[r].st
  <2>1. \A r \in Runs : run[r] \in RunType
    BY <1>1 DEF TypeOK
  <2> DEFINE Marked(x) == [x EXCEPT !.st = "manual_review", !.hold = FALSE]
  <2>2. \A x \in RunType : /\ Marked(x) \in RunType
                            /\ Marked(x).st = "manual_review" /\ Marked(x).job = x.job
    BY DEF RunType, Active
  <2>3. \A r \in Runs : run'[r] = IF r \in marked THEN Marked(run[r]) ELSE run[r]
    BY DEF ToReview
  <2> HIDE DEF Marked
  <2> QED BY <2>1, <2>2, <2>3
<1>3. run' \in RunMap /\ RunsStay
  <2>1. run' = [r \in Runs |-> run'[r]]
    BY DEF ToReview
  <2>2. run' \in RunMap
    BY <1>2, <2>1 DEF RunMap
  <2> QED BY <1>2, <2>2 DEF RunsStay
<1>4. job' \in JobMap /\ \A j \in Jobs : job'[j] = "applied" => job[j] = "applied"
  BY <1>1 DEF ToReview, TypeOK, JobMap
<1>5. log' \in LogMap /\ LogGrows
  BY <1>1 DEF TypeOK, LogMap, LogGrows
<1>6. CallInv' /\ call' \in [Callers -> CallType]
  BY <1>1, <1>5, IdleOK, CallsKeep DEF Return
<1>7. TypeOK'
  BY <1>1, <1>3, <1>4, <1>5, <1>6 DEF TypeOK, RunMap, LogMap, JobMap, LeaseMap
<1>8. GateInv'
  BY <1>1, <1>2 DEF GateInv
<1>9. LeaseInv'
  BY <1>1 DEF LeaseInv, CompletedLeaseHasResult, LeasesStay
<1>10. AppliedWasSubmitted'
  BY <1>1, <1>3, <1>4, <1>5, AppliedKeeps
<1> QED BY <1>6, <1>7, <1>8, <1>9, <1>10 DEF IInv

\* Only leases change: one is handed out, some time out, one is completed.
LEMMA LeaseKeeps ==
  ASSUME IInv, UNCHANGED <<run, log, job, fit>>,
         lease' \in LeaseMap, LeasesStay,
         \A l \in Leases : lease'[l].st # "none" => lease'[l].run \in Runs,
         \A l \in Leases : lease'[l].st = "completed" =>
           lease[l].st = "completed" \/ "result" \in log[lease'[l].run],
         NEW c \in Callers, Return(c)
  PROVE  IInv'
<1>1. TypeOK /\ CallInv /\ GateInv /\ LeaseInv /\ AppliedWasSubmitted
  BY DEF IInv
<1>2. log' \in LogMap /\ LogGrows
  BY <1>1 DEF TypeOK, LogMap, LogGrows
<1>3. CallInv' /\ call' \in [Callers -> CallType]
  BY <1>1, <1>2, IdleOK, CallsKeep DEF Return
<1>4. TypeOK'
  BY <1>1, <1>3 DEF TypeOK, LeaseMap
<1>5. GateInv' /\ AppliedWasSubmitted'
  BY <1>1 DEF GateInv, AppliedWasSubmitted, Started
<1>6. LeaseInv'
  BY <1>1 DEF LeaseInv, CompletedLeaseHasResult, LeasesStay
<1> QED BY <1>3, <1>4, <1>5, <1>6 DEF IInv

\* Leases that time out.
LEMMA TimedOutFacts ==
  ASSUME IInv, NEW c \in Callers
  PROVE  /\ TimedOut(c) \in LeaseMap
         /\ \A l \in Leases :
              /\ TimedOut(c)[l].run = lease[l].run
              /\ TimedOut(c)[l].st = "none" <=> lease[l].st = "none"
              /\ TimedOut(c)[l].st = "completed" => lease[l].st = "completed"
<1>1. lease \in LeaseMap
  BY DEF IInv, TypeOK, LeaseMap
<1>2. \A l \in call[c].leases : lease[l].st # "none"
  BY DEF IInv, CallInv, CallOK
<1> QED BY <1>1, <1>2 DEF TimedOut, LeaseMap, LeaseType

-----------------------------------------------------------------------------
(* The steps of one caller.                                                *)

LEMMA RunOnceKeeps ==
  ASSUME IInv, NEW c \in Callers, RunOnce(c)
  PROVE  IInv'
<1>0. TypeOK /\ call[c] \in CallType /\ CallOK(call[c], log, lease)
  BY DEF IInv, TypeOK, CallInv
<1>1. CASE PickNextJob(c)
  <2>1. PICK j \in Jobs : call' = [call EXCEPT ![c] = [Idle EXCEPT !.op = "picked", !.job = j]]
    BY <1>1 DEF PickNextJob
  <2> DEFINE k == [Idle EXCEPT !.op = "picked", !.job = j]
  <2>2. k \in CallType /\ CallOK(k, log, lease)
    BY DEF Idle, CallType, Ops, CallOK, OnRun, WithLease
  <2> QED BY <1>1, <2>1, <2>2, ReadKeeps DEF PickNextJob
<1>2. CASE DecideReady(c)
  <2>1. PICK j \in Jobs :
          call' = [call EXCEPT ![c] = IF Ready(j) THEN [Idle EXCEPT !.op = "prepare", !.job = j]
                                                  ELSE Idle]
    BY <1>2 DEF DecideReady
  <2> DEFINE k == IF Ready(j) THEN [Idle EXCEPT !.op = "prepare", !.job = j] ELSE Idle
  <2>2. k \in CallType /\ CallOK(k, log, lease)
    BY DEF Idle, CallType, Ops, CallOK, OnRun, WithLease
  <2> QED BY <1>2, <2>1, <2>2, ReadKeeps DEF DecideReady
<1>3. CASE InsertRun(c)
  <2>1. PICK r \in Runs, prepareOnly \in BOOLEAN :
          /\ Oldest(r, Runs \ Started)
          /\ run' = [run EXCEPT ![r] = [NoRun EXCEPT !.st = "apply_prepared", !.job = call[c].job]]
          /\ IF prepareOnly THEN Return(c) ELSE Enter(c, "prepared", r)
    BY <1>3 DEF InsertRun
  <2> DEFINE k == IF prepareOnly THEN Idle ELSE [Idle EXCEPT !.op = "prepared", !.run = r]
  <2>2. k \in CallType /\ CallOK(k, log, lease) /\ call' = [call EXCEPT ![c] = k]
    BY <2>1 DEF Idle, CallType, Ops, CallOK, OnRun, WithLease, Return, Enter
  <2>3. run[r].st = "none"
    BY <2>1 DEF Oldest, Started
  <2>4. run' \in RunMap /\ run'[r].st = "apply_prepared" /\ \A s \in Runs : s # r => run'[s] = run[s]
    BY <1>0, <2>1 DEF TypeOK, RunMap, RunType, NoRun, CallType, Active, Executing
  <2>5. RunsStay
    BY <2>3, <2>4 DEF RunsStay
  <2>6. job' \in JobMap /\ \A j \in Jobs : job'[j] = "applied" => job[j] = "applied"
    BY <1>0, <1>3 DEF InsertRun, TypeOK, JobMap
  <2>7. log' = log /\ lease' = lease /\ fit' = fit
    BY <1>3 DEF InsertRun
  <2>8. LogGrows /\ LeasesStay /\ log' \in LogMap
    BY <1>0, <2>7 DEF LogGrows, LeasesStay, TypeOK, LogMap
  <2>9. CallInv' /\ call' \in [Callers -> CallType]
    BY <1>0, <2>2, <2>7, <2>8, CallsKeep DEF IInv
  <2>10. GateInv'
    BY <2>4, <2>7 DEF IInv, GateInv
  <2>11. AppliedWasSubmitted'
    BY <2>5, <2>6, <2>8, AppliedKeeps DEF IInv
  <2> QED
    BY <1>0, <2>4, <2>6, <2>7, <2>9, <2>10, <2>11 DEF IInv, TypeOK, RunMap, JobMap, LeaseInv,
       CompletedLeaseHasResult
<1>4. CASE RequestReads(c)
  <2>1. CASE \E r \in Runs : Finds(c, "request", r, {"apply_prepared"})
    BY <2>1, FindsKeeps DEF Ops
  <2>2. CASE At(c, "prepared") /\ OnlyCalls /\ Return(c)
    BY <2>2, ReturnKeeps
  <2>3. CASE At(c, "prepared") /\ OnlyCalls /\ Enter(c, "request", call[c].run)
    <3> DEFINE k == [Idle EXCEPT !.op = "request", !.run = call[c].run]
    <3>1. call[c].run \in Runs
      BY <1>0, <2>3 DEF At, CallOK, OnRun
    <3>2. k \in CallType /\ CallOK(k, log, lease)
      BY <3>1 DEF Idle, CallType, Ops, CallOK, OnRun, WithLease
    <3> QED BY <2>3, <3>2, ReadKeeps DEF Enter
  <2> QED BY <1>4, <2>1, <2>2, <2>3 DEF RequestReads
<1>5. CASE RequestFill(c)
  <2>1. call[c].run \in Runs
    BY <1>0, <1>5 DEF RequestFill, At, CallOK, OnRun
  <2>2. log' \in LogMap /\ LogGrows /\ job' \in JobMap
    BY <1>0, <1>5 DEF RequestFill, TypeOK, LogMap, LogGrows, JobMap
  <2>3. "fill_requested" \in Active \cup Terminal
    BY DEF Active, Executing
  <2> QED
    BY <1>5, <2>1, <2>2, <2>3, IdleOK, OneRun DEF RequestFill, Return, IInv, GateInv
<1> QED BY <1>1, <1>2, <1>3, <1>4, <1>5 DEF RunOnce

LEMMA WorkerKeeps ==
  ASSUME IInv, NEW c \in Callers, Worker(c)
  PROVE  IInv'
<1>0. TypeOK /\ call[c] \in CallType /\ CallOK(call[c], log, lease)
  BY DEF IInv, TypeOK, CallInv
<1>1. CASE ClaimSelects(c)
  <2>1. PICK r \in Runs : Enter(c, "claim", r)
    BY <1>1 DEF ClaimSelects
  <2> DEFINE k == [Idle EXCEPT !.op = "claim", !.run = r]
  <2>2. k \in CallType /\ CallOK(k, log, lease)
    BY DEF Idle, CallType, Ops, CallOK, OnRun, WithLease
  <2> QED BY <1>1, <2>1, <2>2, ReadKeeps DEF ClaimSelects, Enter
<1>2. CASE InsertLease(c)
  <2>1. PICK l \in Leases : lease[l].st = "none" /\
          lease' = [lease EXCEPT ![l] = [st |-> "active", run |-> call[c].run]]
    BY <1>2 DEF InsertLease, LeaseOut
  <2>2. call[c].run \in Runs
    BY <1>0, <1>2 DEF InsertLease, At, CallOK, OnRun
  <2>3. lease' \in LeaseMap /\ LeasesStay
    BY <1>0, <2>1, <2>2 DEF TypeOK, LeaseMap, LeaseType, LeasesStay
  <2>4. \A m \in Leases : /\ lease'[m].st # "none" => lease'[m].run \in Runs
                          /\ lease'[m].st = "completed" => lease[m].st = "completed"
    BY <1>0, <2>1, <2>2 DEF TypeOK, IInv, LeaseInv
  <2> QED BY <1>2, <2>3, <2>4, LeaseKeeps DEF InsertLease
<1>3. CASE FindsDue(c)
  <2>1. PICK due \in SUBSET {l \in Leases : lease[l].st = "active"} \ {{}},
             op \in {"heartbeat", "expire", "reconcile"} :
          call' = [call EXCEPT ![c] = [Idle EXCEPT !.op = op, !.leases = due]]
    BY <1>3 DEF FindsDue
  <2> DEFINE k == [Idle EXCEPT !.op = op, !.leases = due]
  <2>2. k \in CallType /\ CallOK(k, log, lease)
    BY DEF Idle, CallType, Ops, CallOK, OnRun, WithLease
  <2> QED BY <1>3, <2>1, <2>2, ReadKeeps DEF FindsDue
<1>4. CASE LeaseExpires(c)
  <2>1. lease' \in LeaseMap /\ LeasesStay
    BY <1>4, TimedOutFacts DEF LeaseExpires, LeasesStay
  <2>2. \A m \in Leases : /\ lease'[m].st # "none" => lease'[m].run \in Runs
                          /\ lease'[m].st = "completed" => lease[m].st = "completed"
    BY <1>4, TimedOutFacts DEF LeaseExpires, IInv, LeaseInv
  <2> QED BY <1>4, <2>1, <2>2, LeaseKeeps DEF LeaseExpires
<1>5. CASE ExpireThenClaim(c)
  <2>1. CASE lease' = TimedOut(c)
    <3>1. lease' \in LeaseMap /\ LeasesStay
      BY <2>1, TimedOutFacts DEF LeasesStay
    <3>2. \A m \in Leases : /\ lease'[m].st # "none" => lease'[m].run \in Runs
                            /\ lease'[m].st = "completed" => lease[m].st = "completed"
      BY <2>1, TimedOutFacts DEF IInv, LeaseInv
    <3> QED BY <1>5, <3>1, <3>2, LeaseKeeps DEF ExpireThenClaim
  <2>2. CASE \E r \in Runs : LeaseOut(c, r, TimedOut(c))
    <3>1. PICK r \in Runs, l \in Leases : lease[l].st = "none" /\
            lease' = [TimedOut(c) EXCEPT ![l] = [st |-> "active", run |-> r]]
      BY <2>2 DEF LeaseOut
    <3>2. lease' \in LeaseMap
      BY <3>1, TimedOutFacts DEF LeaseMap, LeaseType
    <3>3. \A m \in Leases : lease'[m] = IF m = l THEN [st |-> "active", run |-> r] ELSE TimedOut(c)[m]
      BY <3>1, TimedOutFacts DEF LeaseMap
    <3>4. LeasesStay
      BY <3>1, <3>3, TimedOutFacts DEF LeasesStay
    <3>5. \A m \in Leases : /\ lease'[m].st # "none" => lease'[m].run \in Runs
                            /\ lease'[m].st = "completed" => lease[m].st = "completed"
      BY <3>3, TimedOutFacts DEF IInv, LeaseInv
    <3> QED BY <1>5, <3>2, <3>4, <3>5, LeaseKeeps DEF ExpireThenClaim
  <2> QED BY <1>5, <2>1, <2>2 DEF ExpireThenClaim
<1>6. CASE LeaseIsActive(c)
  <2>1. PICK l \in Leases : lease[l].st = "active" /\ call' = [call EXCEPT ![c] =
          [op |-> "leased", job |-> NoJob, run |-> lease[l].run, leases |-> {l}]]
    BY <1>6 DEF LeaseIsActive
  <2> DEFINE k == [op |-> "leased", job |-> NoJob, run |-> lease[l].run, leases |-> {l}]
  <2>2. k \in CallType /\ CallOK(k, log, lease)
    BY <2>1 DEF IInv, LeaseInv, CallType, Ops, CallOK, OnRun, WithLease
  <2> QED BY <1>6, <2>1, <2>2, ReadKeeps DEF LeaseIsActive
<1>7. CASE RouteResult(c)
  <2> DEFINE op == IF run[call[c].run].st = "investigation_queued" THEN "investigate" ELSE "record"
             k == [call[c] EXCEPT !.op = op]
  <2>1. CASE Return(c)
    BY <1>7, <2>1, ReturnKeeps DEF RouteResult
  <2>2. CASE call' = [call EXCEPT ![c].op = op]
    <3>1. call' = [call EXCEPT ![c] = k]
      BY <2>2
    <3>2. op \in {"investigate", "record"}
      OBVIOUS
    <3> HIDE DEF op
    <3>3. call[c].op = "leased"
      BY <1>7 DEF RouteResult, At
    <3>4. k \in CallType /\ k.op = op /\ k.run = call[c].run /\ k.leases = call[c].leases
      BY <1>0, <3>2 DEF CallType, Ops
    <3>5. CallOK(k, log, lease)
      BY <1>0, <3>2, <3>3, <3>4 DEF CallOK, OnRun, WithLease
    <3> QED BY <1>7, <3>1, <3>4, <3>5, ReadKeeps DEF RouteResult
  <2> QED BY <1>7, <2>1, <2>2 DEF RouteResult
<1>8. CASE RecordReads(c)
  BY <1>8, FindsKeeps DEF RecordReads, Ops
<1>9. CASE InvestigationReads(c)
  BY <1>9, FindsKeeps DEF InvestigationReads, Ops
<1>10. CASE RecordFill(c)
  <2> DEFINE r == call[c].run
  <2>1. r \in Runs
    BY <1>0, <1>10 DEF RecordFill, At, CallOK, OnRun
  <2>2. PICK st \in Active \cup Terminal, hold \in BOOLEAN, status \in {"claimed", "failed"} :
          SetRun(r, st, hold) /\ SetJob(r, status) /\ st # "submit_approved"
    BY <1>10 DEF RecordFill, Active, Executing, Terminal
  <2>3. /\ log' \in LogMap /\ LogGrows /\ log'[r] = log[r] \cup {"result", "cleared"}
        /\ \A s \in Runs : s # r => log'[s] = log[s]
    BY <1>0, <1>10, <2>1, LogFacts DEF RecordFill, Kinds
  <2>4. job' \in JobMap /\ \A j \in Jobs : job'[j] = "applied" => job[j] = "applied"
    BY <1>0, <2>2, SetJobType
  <2>5. PICK k \in {Idle, [call[c] EXCEPT !.op = "recorded"]} : call' = [call EXCEPT ![c] = k]
    BY <1>10 DEF RecordFill, AfterResult, Return
  <2>6. lease' = lease /\ fit' = fit
    BY <1>10 DEF RecordFill
  <2>7. k \in CallType /\ CallOK(k, log', lease')
    <3>1. CASE k = Idle
      BY <3>1, IdleOK
    <3>2. CASE k = [call[c] EXCEPT !.op = "recorded"]
      BY <1>0, <1>10, <2>1, <2>3, <2>6, <3>2
         DEF RecordFill, At, CallType, Ops, CallOK, OnRun, WithLease
    <3> QED BY <3>1, <3>2
  <2> HIDE DEF r
  <2>8. /\ "cleared" \in log'[r]
        /\ "submitted" \in log'[r] => "approve" \in log'[r]
    BY <2>1, <2>3 DEF IInv, GateInv
  <2>9. SetRun(r, st, TRUE) \/ SetRun(r, st, FALSE)
    BY <2>2
  <2>10. CASE SetRun(r, st, TRUE)
    BY <2>1, <2>2, <2>3, <2>4, <2>5, <2>6, <2>7, <2>8, <2>10, OneRun
  <2>11. CASE SetRun(r, st, FALSE)
    BY <2>1, <2>2, <2>3, <2>4, <2>5, <2>6, <2>7, <2>8, <2>11, OneRun
  <2> QED BY <2>9, <2>10, <2>11
<1>11. CASE RecordInvestigation(c)
  <2> DEFINE r == call[c].run
  <2>1. r \in Runs
    BY <1>0, <1>11 DEF RecordInvestigation, At, CallOK, OnRun
  <2>2. SetRun(r, "investigation_complete", FALSE) /\ "investigation_complete" \in Active \cup Terminal
    BY <1>11 DEF RecordInvestigation, Active
  <2>3. /\ log' \in LogMap /\ LogGrows /\ log'[r] = log[r] \cup {"result"}
        /\ \A s \in Runs : s # r => log'[s] = log[s]
    BY <1>0, <1>11, <2>1, LogFacts DEF RecordInvestigation, Kinds
  <2>4. job' \in JobMap /\ \A j \in Jobs : job'[j] = "applied" => job[j] = "applied"
    BY <1>0, <1>11, SetJobType DEF RecordInvestigation
  <2>5. PICK k \in {Idle, [call[c] EXCEPT !.op = "recorded"]} : call' = [call EXCEPT ![c] = k]
    BY <1>11 DEF RecordInvestigation, AfterResult, Return
  <2>6. lease' = lease /\ fit' = fit
    BY <1>11 DEF RecordInvestigation
  <2>7. k \in CallType /\ CallOK(k, log', lease')
    <3>1. CASE k = Idle
      BY <3>1, IdleOK
    <3>2. CASE k = [call[c] EXCEPT !.op = "recorded"]
      BY <1>0, <1>11, <2>1, <2>3, <2>6, <3>2
         DEF RecordInvestigation, At, CallType, Ops, CallOK, OnRun, WithLease
    <3> QED BY <3>1, <3>2
  <2> HIDE DEF r
  <2> QED BY <2>1, <2>2, <2>3, <2>4, <2>5, <2>6, <2>7, OneRun DEF IInv, GateInv
<1>12. CASE CompleteLease(c)
  <2>1. \A l \in call[c].leases : lease[l].st # "none" /\ "result" \in log[lease[l].run]
    BY <1>0, <1>12 DEF CompleteLease, At, CallOK, WithLease
  <2>2. \A l \in Leases : lease'[l] =
          IF l \in call[c].leases THEN [lease[l] EXCEPT !.st = "completed"] ELSE lease[l]
    BY <1>12 DEF CompleteLease
  <2>3. \A l \in Leases :
          /\ lease'[l] \in LeaseType
          /\ lease'[l].run = lease[l].run
          /\ lease'[l].st = IF l \in call[c].leases THEN "completed" ELSE lease[l].st
    BY <1>0, <2>2 DEF TypeOK, LeaseType
  <2>4. lease' \in LeaseMap
    BY <1>12, <2>3 DEF CompleteLease, LeaseMap
  <2>5. LeasesStay
    BY <2>1, <2>3 DEF LeasesStay
  <2>6. \A l \in Leases :
          /\ lease'[l].st # "none" => lease'[l].run \in Runs
          /\ lease'[l].st = "completed" =>
               lease[l].st = "completed" \/ "result" \in log[lease'[l].run]
    BY <2>1, <2>3 DEF IInv, LeaseInv
  <2> QED BY <1>12, <2>4, <2>5, <2>6, LeaseKeeps DEF CompleteLease
<1> QED
  BY <1>1, <1>2, <1>3, <1>4, <1>5, <1>6, <1>7, <1>8, <1>9, <1>10, <1>11, <1>12 DEF Worker

LEMMA OperatorKeeps ==
  ASSUME IInv, NEW c \in Callers, Operator(c)
  PROVE  IInv'
<1>0. TypeOK /\ call[c] \in CallType /\ CallOK(call[c], log, lease)
  BY DEF IInv, TypeOK, CallInv
<1>1. CASE ReconcileExpired(c)
  <2> DEFINE marked == {r \in Started : run[r].st \notin Terminal \cup {"manual_review"}
                                        /\ \E l \in call[c].leases : lease[l].run = r}
  <2>1. marked \in SUBSET Runs
    BY DEF Started
  <2>2. lease' \in LeaseMap /\ LeasesStay
    BY <1>1, TimedOutFacts DEF ReconcileExpired, LeasesStay
  <2>3. \A l \in Leases : /\ lease'[l].st # "none" => lease'[l].run \in Runs
                          /\ lease'[l].st = "completed" => lease[l].st = "completed"
    BY <1>1, TimedOutFacts DEF ReconcileExpired, IInv, LeaseInv
  <2>4. ToReview(marked) /\ UNCHANGED <<log, fit>> /\ Return(c)
    BY <1>1 DEF ReconcileExpired
  <2> HIDE DEF marked
  <2> QED BY <2>1, <2>2, <2>3, <2>4, ReviewKeeps
<1>2. CASE FindsStale(c)
  BY <1>2, FindsKeeps DEF FindsStale, Ops
<1>3. CASE MarkStale(c)
  <2>1. call[c].run \in Runs
    BY <1>0, <1>3 DEF MarkStale, At, CallOK, OnRun
  <2>2. lease' \in LeaseMap /\ LeasesStay /\ \A l \in Leases : lease'[l].st # "none" => lease'[l].run \in Runs
    BY <1>0, <1>3 DEF MarkStale, TypeOK, LeaseMap, LeasesStay, IInv, LeaseInv
  <2>3. CASE UNCHANGED <<run, job>>
    BY <1>3, <2>3, ReturnKeeps DEF MarkStale, OnlyCalls
  <2>4. CASE ToReview({call[c].run})
    <3>1. UNCHANGED <<log, fit, lease>> /\ Return(c)
      BY <1>3 DEF MarkStale
    <3> QED BY <2>1, <2>2, <2>4, <3>1, ReviewKeeps
  <2> QED BY <1>3, <2>3, <2>4 DEF MarkStale
<1>4. CASE QueueReads(c)
  BY <1>4, FindsKeeps DEF QueueReads, Ops
<1>5. CASE QueueInvestigation(c)
  <2>1. call[c].run \in Runs /\ "investigation_queued" \in Active \cup Terminal
    BY <1>0, <1>5 DEF QueueInvestigation, At, CallOK, OnRun, Active, Executing
  <2>2. log' \in LogMap /\ LogGrows /\ job' \in JobMap
    BY <1>0, <1>5 DEF QueueInvestigation, TypeOK, LogMap, LogGrows, JobMap
  <2> QED
    BY <1>5, <2>1, <2>2, IdleOK, OneRun DEF QueueInvestigation, Return, IInv, GateInv
<1>6. CASE ResolveReads(c)
  BY <1>6, FindsKeeps DEF ResolveReads, Ops
<1>7. CASE ResolveReview(c)
  <2> DEFINE r == call[c].run
  <2>1. r \in Runs
    BY <1>0, <1>7 DEF ResolveReview, At, CallOK, OnRun
  <2>2. Return(c) /\ UNCHANGED <<fit, lease>>
    BY <1>7 DEF ResolveReview
  <2>3. CASE /\ SetRun(r, "awaiting_submit_approval", FALSE)
             /\ SetJob(r, "claimed") /\ Log(r, {"cleared"})
    <3>1. /\ log' \in LogMap /\ LogGrows /\ log'[r] = log[r] \cup {"cleared"}
          /\ \A s \in Runs : s # r => log'[s] = log[s]
      BY <1>0, <2>1, <2>3, LogFacts DEF Kinds
    <3>2. job' \in JobMap /\ \A j \in Jobs : job'[j] = "applied" => job[j] = "applied"
      BY <1>0, <2>3, SetJobType
    <3>3. "awaiting_submit_approval" \in Active \cup Terminal
      BY DEF Active, Executing
    <3> HIDE DEF r
    <3> QED BY <2>1, <2>2, <2>3, <3>1, <3>2, <3>3, IdleOK, OneRun DEF Return, IInv, GateInv
  <2>4. CASE SetRun(r, "failed", FALSE) /\ SetJob(r, "failed") /\ UNCHANGED log
    <3>1. log' \in LogMap /\ LogGrows
      BY <1>0, <2>4 DEF TypeOK, LogMap, LogGrows
    <3>2. job' \in JobMap /\ \A j \in Jobs : job'[j] = "applied" => job[j] = "applied"
      BY <1>0, <2>4, SetJobType
    <3>3. "failed" \in Active \cup Terminal
      BY DEF Terminal
    <3> HIDE DEF r
    <3> QED BY <2>1, <2>2, <2>4, <3>1, <3>2, <3>3, IdleOK, OneRun DEF Return, IInv, GateInv
  <2> QED BY <1>7, <2>3, <2>4 DEF ResolveReview
<1>8. CASE ApproveReads(c)
  BY <1>8, FindsKeeps DEF ApproveReads, Ops
<1>9. CASE ApproveSubmit(c)
  <2> DEFINE r == call[c].run
  <2>1. r \in Runs /\ "cleared" \in log[r]
    BY <1>0, <1>9 DEF ApproveSubmit, At, CallOK, OnRun
  <2>2. PICK st \in {"submit_approved", "submit_denied"}, kinds \in {{"approve"}, {}},
             status \in {"claimed", "skipped"} :
          /\ SetRun(r, st, FALSE) /\ SetJob(r, status) /\ Log(r, kinds)
          /\ st = "submit_approved" => kinds = {"approve"}
    BY <1>9 DEF ApproveSubmit
  <2>3. /\ log' \in LogMap /\ LogGrows /\ log'[r] = log[r] \cup kinds
        /\ \A s \in Runs : s # r => log'[s] = log[s]
    BY <1>0, <2>1, <2>2, LogFacts DEF Kinds
  <2>4. job' \in JobMap /\ \A j \in Jobs : job'[j] = "applied" => job[j] = "applied"
    BY <1>0, <2>2, SetJobType
  <2>5. st \in Active \cup Terminal /\ st # "awaiting_submit_approval"
    BY DEF Active, Executing, Terminal
  <2>6. Return(c) /\ UNCHANGED <<fit, lease>>
    BY <1>9 DEF ApproveSubmit
  <2> HIDE DEF r
  <2> QED BY <2>1, <2>2, <2>3, <2>4, <2>5, <2>6, IdleOK, OneRun DEF Return, IInv, GateInv
<1>10. CASE SubmitReads(c)
  BY <1>10, FindsKeeps DEF SubmitReads, Ops
<1>11. CASE MarkSubmitted(c)
  <2> DEFINE r == call[c].run
  <2>1. r \in Runs /\ "approve" \in log[r]
    BY <1>0, <1>11 DEF MarkSubmitted, At, CallOK, OnRun
  <2>2. SetRun(r, "submitted", FALSE) /\ SetJob(r, "applied") /\ Log(r, {"submitted"})
    BY <1>11 DEF MarkSubmitted
  <2>3. /\ log' \in LogMap /\ LogGrows /\ log'[r] = log[r] \cup {"submitted"}
        /\ \A s \in Runs : s # r => log'[s] = log[s]
    BY <1>0, <2>1, <2>2, LogFacts DEF Kinds
  <2>4. /\ job' \in JobMap
        /\ \A j \in Jobs : job'[j] = IF j = run[r].job THEN "applied" ELSE job[j]
    BY <1>0, <2>2, SetJobType
  <2>5. "submitted" \in Active \cup Terminal
    BY DEF Terminal
  <2>6. Return(c) /\ UNCHANGED <<fit, lease>>
    BY <1>11 DEF MarkSubmitted
  <2> HIDE DEF r
  <2> QED BY <2>1, <2>2, <2>3, <2>4, <2>5, <2>6, IdleOK, OneRun DEF Return, IInv, GateInv
<1> QED
  BY <1>1, <1>2, <1>3, <1>4, <1>5, <1>6, <1>7, <1>8, <1>9, <1>10, <1>11 DEF Operator

-----------------------------------------------------------------------------
(* The invariant, and what follows from it.                                *)

LEMMA InitHolds == Init => IInv
<1> SUFFICES ASSUME Init PROVE IInv
  OBVIOUS
<1>1. TypeOK
  BY DEF Init, TypeOK, RunType, NoRun, LeaseType, NoLease, Idle, CallType, Ops
<1>2. CallInv
  BY IdleOK DEF Init, CallInv
<1>3. GateInv /\ LeaseInv /\ AppliedWasSubmitted
  BY DEF Init, GateInv, LeaseInv, CompletedLeaseHasResult, AppliedWasSubmitted, NoRun, NoLease
<1> QED BY <1>1, <1>2, <1>3 DEF IInv

LEMMA FitKeeps ==
  ASSUME IInv, NEW j \in Jobs, BecomesFit(j)
  PROVE  IInv'
BY DEF IInv, BecomesFit, TypeOK, CallInv, GateInv, LeaseInv, CompletedLeaseHasResult,
   AppliedWasSubmitted, Started

LEMMA StepKeeps == IInv /\ [Next]_vars => IInv'
<1> SUFFICES ASSUME IInv, [Next]_vars PROVE IInv'
  OBVIOUS
<1>1. ASSUME NEW c \in Callers, RunOnce(c) PROVE IInv'
  BY <1>1, RunOnceKeeps
<1>2. ASSUME NEW c \in Callers, Worker(c) PROVE IInv'
  BY <1>2, WorkerKeeps
<1>3. ASSUME NEW c \in Callers, Operator(c) PROVE IInv'
  BY <1>3, OperatorKeeps
<1>4. ASSUME NEW c \in Callers, Dies(c) PROVE IInv'
  BY <1>4, ReturnKeeps DEF Dies
<1>5. ASSUME NEW j \in Jobs, BecomesFit(j) PROVE IInv'
  BY <1>5, FitKeeps
<1>6. CASE UNCHANGED vars
  BY <1>6 DEF vars, IInv, TypeOK, CallInv, GateInv, LeaseInv, CompletedLeaseHasResult,
     AppliedWasSubmitted, Started
<1> QED BY <1>1, <1>2, <1>3, <1>4, <1>5, <1>6 DEF Next

\* What the statuses, the log, the leases and the handlers in flight say of one
\* another, at every moment of every interleaving of C4's handlers.
THEOREM CoordinatorInvariant == Spec => []IInv
<1> QED BY InitHolds, StepKeeps, PTL DEF Spec

\* The tables and the handlers of C4 keep their types.
THEOREM CoordinatorTypeOK == Spec => []TypeOK
<1>1. IInv => TypeOK
  BY DEF IInv
<1> QED BY <1>1, CoordinatorInvariant, PTL

\* mark_submitted is the only way to an applied job, and it comes after an approval.
THEOREM CoordinatorAppliedWasSubmitted == Spec => []AppliedWasSubmitted
<1>1. IInv => AppliedWasSubmitted
  BY DEF IInv
<1> QED BY <1>1, CoordinatorInvariant, PTL

\* complete_lease_with_result completes a lease after the result of its run.
THEOREM CoordinatorCompletedLease == Spec => []CompletedLeaseHasResult
<1>1. IInv => CompletedLeaseHasResult
  BY DEF IInv, LeaseInv
<1> QED BY <1>1, CoordinatorInvariant, PTL

-----------------------------------------------------------------------------
(* The submit gate.                                                        *)

Cleared == {r \in Runs : "cleared" \in log[r]}
Approved == {r \in Runs : "approve" \in log[r]}
Submitted == {r \in Runs : "submitted" \in log[r]}

\* A run is cleared, approved or submitted by one step of the gate, and every
\* handler that logs none of these is a stuttering step.
LEMMA GateStep ==
  ASSUME IInv, NEW r \in Runs, NEW kinds \in SUBSET Kinds, Log(r, kinds),
         \/ kinds \cap {"approve", "submitted"} = {}
         \/ kinds = {"approve"} /\ "cleared" \in log[r]
         \/ kinds = {"submitted"} /\ "approve" \in log[r]
  PROVE  [Gate!Next]_(Gate!gateVars)
<1>1. /\ log'[r] = log[r] \cup kinds
      /\ \A s \in Runs : s # r => log'[s] = log[s]
  BY LogFacts DEF IInv
<1>2. CASE kinds \cap {"approve", "submitted"} = {}
  <2>1. Approved' = Approved /\ Submitted' = Submitted
    BY <1>1, <1>2 DEF Approved, Submitted
  <2>2. Cleared' = Cleared \/ Cleared' = Cleared \cup {r}
    BY <1>1 DEF Cleared
  <2> QED BY <2>1, <2>2 DEF Gate!Next, Gate!Clear, Gate!gateVars, Cleared, Approved, Submitted
<1>3. CASE kinds = {"approve"} /\ "cleared" \in log[r]
  <2>1. Approved' = Approved \cup {r} /\ Cleared' = Cleared /\ Submitted' = Submitted /\ r \in Cleared
    BY <1>1, <1>3 DEF Approved, Submitted, Cleared
  <2> QED BY <2>1 DEF Gate!Next, Gate!Approve, Cleared, Approved, Submitted
<1>4. CASE kinds = {"submitted"} /\ "approve" \in log[r]
  <2>1. Submitted' = Submitted \cup {r} /\ Cleared' = Cleared /\ Approved' = Approved /\ r \in Approved
    BY <1>1, <1>4 DEF Approved, Submitted, Cleared
  <2> QED BY <2>1 DEF Gate!Next, Gate!Submit, Cleared, Approved, Submitted
<1> QED BY <1>2, <1>3, <1>4

\* The five handlers that log, and all the others.
LEMMA StepsOfGate == IInv /\ [Next]_vars => [Gate!Next]_(Gate!gateVars)
<1> SUFFICES ASSUME IInv, [Next]_vars PROVE [Gate!Next]_(Gate!gateVars)
  OBVIOUS
<1>1. CASE log' = log
  BY <1>1 DEF Gate!gateVars
<1>2. ASSUME NEW c \in Callers,
             RecordFill(c) \/ RecordInvestigation(c) \/ ResolveReview(c)
               \/ ApproveSubmit(c) \/ MarkSubmitted(c),
             log' # log
      PROVE  [Gate!Next]_(Gate!gateVars)
  <2>1. CallOK(call[c], log, lease)
    BY DEF IInv, CallInv
  <2>2. call[c].op \in {"record", "investigate", "resolve", "approve", "submit"}
    BY <1>2 DEF RecordFill, RecordInvestigation, ResolveReview, ApproveSubmit, MarkSubmitted, At
  <2>3. call[c].run \in Runs
    BY <2>1, <2>2 DEF CallOK, OnRun
  <2>4. CASE RecordFill(c) \/ RecordInvestigation(c) \/ ResolveReview(c)
    <3>1. PICK kinds \in {{"result", "cleared"}, {"result"}, {"cleared"}} : Log(call[c].run, kinds)
      BY <1>2, <2>4 DEF RecordFill, RecordInvestigation, ResolveReview
    <3>2. kinds \in SUBSET Kinds /\ kinds \cap {"approve", "submitted"} = {}
      BY DEF Kinds
    <3> QED BY <2>3, <3>1, <3>2, GateStep
  <2>5. CASE ApproveSubmit(c)
    <3>1. "cleared" \in log[call[c].run]
      BY <2>1, <2>5 DEF ApproveSubmit, At, CallOK
    <3>2. PICK kinds \in {{"approve"}, {}} : Log(call[c].run, kinds)
      BY <2>5 DEF ApproveSubmit
    <3>3. kinds \in SUBSET Kinds
      BY DEF Kinds
    <3> QED BY <2>3, <3>1, <3>2, <3>3, GateStep
  <2>6. CASE MarkSubmitted(c)
    <3>1. "approve" \in log[call[c].run] /\ Log(call[c].run, {"submitted"})
      BY <2>1, <2>6 DEF MarkSubmitted, At, CallOK
    <3>2. {"submitted"} \in SUBSET Kinds
      BY DEF Kinds
    <3> QED BY <2>3, <3>1, <3>2, GateStep
  <2> QED BY <1>2, <2>4, <2>5, <2>6
<1>3. ASSUME NEW c \in Callers, RunOnce(c) \/ Dies(c)
      PROVE  log' = log
  BY <1>3 DEF RunOnce, PickNextJob, DecideReady, InsertRun, RequestReads, RequestFill, Finds,
     Dies, OnlyCalls
<1>4. ASSUME NEW c \in Callers, Worker(c)
      PROVE  log' = log \/ RecordFill(c) \/ RecordInvestigation(c)
  BY <1>4 DEF Worker, ClaimSelects, InsertLease, FindsDue, LeaseExpires, ExpireThenClaim,
     LeaseIsActive, RouteResult, RecordReads, InvestigationReads, CompleteLease, Finds, OnlyCalls
<1>5. ASSUME NEW c \in Callers, Operator(c)
      PROVE  log' = log \/ ResolveReview(c) \/ ApproveSubmit(c) \/ MarkSubmitted(c)
  BY <1>5 DEF Operator, ReconcileExpired, FindsStale, MarkStale, QueueReads, QueueInvestigation,
     ResolveReads, ApproveReads, SubmitReads, Finds, OnlyCalls
<1>6. CASE \E j \in Jobs : BecomesFit(j)
  BY <1>1, <1>6 DEF BecomesFit
<1>7. CASE UNCHANGED vars
  BY <1>1, <1>7 DEF vars
<1> QED BY <1>1, <1>2, <1>3, <1>4, <1>5, <1>6, <1>7 DEF Next

\* The coordinator implements the gate: a submission is recorded only after an
\* approval, an approval only after a result or a review cleared the run, and
\* none of them is taken back, whatever handlers overlap.
THEOREM CoordinatorGate == Spec => GateHolds
<1>1. Init => Gate!Init
  BY DEF Init, Gate!Init
<1>2. IInv /\ [Next]_vars => [Gate!Next]_(Gate!gateVars)
  BY StepsOfGate
<1> QED BY <1>1, <1>2, CoordinatorInvariant, PTL DEF Spec, GateHolds, Gate!Spec
=============================================================================
