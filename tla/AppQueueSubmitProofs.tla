------------------------ MODULE AppQueueSubmitProofs ------------------------
(***************************************************************************)
(* The queue submits an application at most once and only after a durable  *)
(* intention: CommitInv is inductive and every step of AppQueue is a step  *)
(* or a stutter of SubmitOnce.  On top of it: the running jobs have an     *)
(* employer each, start within the limit and are told to stop when the     *)
(* queue stops, what lands is what the owner confirmed, and no job that    *)
(* could start is left behind.                                             *)
(***************************************************************************)
EXTENDS AppQueueProofs, FiniteSetTheorems, WellFoundedInduction

\* K has the jobs of J, each on the same side of "committed" and of "live".
Alike(J, K) ==
  \A j \in Jobs : /\ K[j].target = J[j].target
                  /\ K[j].status = "absent" <=> J[j].status = "absent"
                  /\ K[j].status \in Committed <=> J[j].status \in Committed
                  /\ Live(K[j]) <=> Live(J[j])

\* What a save or a pump of the entries J does to memory and file.
Stored(J) == /\ Alike(J, jobs')
             /\ disk' = disk \/ Alike(J, disk'.jobs)

\* After a save, or without one, memory is J and the file is J or what it was.
LEMMA SaveStores ==
  ASSUME NEW J \in JobMap, NEW P, NEW A, Save(J, P, A) \/ NoSave(J, P)
  PROVE  Stored(J)
  BY DEF Save, SaveOk, SaveFails, NoSave, Stored, Alike

\* A pump moves jobs from queued to running or paused and nothing else.
LEMMA PumpWrites ==
  ASSUME NEW J \in JobMap, NEW P \in PcMap, NEW A, NEW D, NEW E, Pumped(J, P, A, D, E)
  PROVE  Alike(J, jobs') /\ (disk' = D \/ Alike(J, disk'.jobs))
<1>1. ASSUME NEW S \in SUBSET Jobs, \A j \in S : J[j].status = "queued"
      PROVE  Alike(J, Started(J, S)) /\ Started(J, S) \in JobMap
  BY <1>1 DEF Alike, Started, Live, Committed, JobMap, Entry, Status
<1>2. CASE phase # "up" \/ E \/ ~connected
  BY <1>2 DEF Pumped, Alike
<1>3. CASE ~(phase # "up" \/ E \/ ~connected)
  <2>1. PICK S \in SUBSET Jobs :
          /\ Starts(J, P, S)
          /\ \/ /\ jobs' = Started(J, S)
                /\ disk' = IF S = {} THEN D
                           ELSE [jobs |-> Started(J, S), limit |-> limit']
             \/ \E f \in S : LET T == Before(S, f) IN
                  /\ jobs' = [Started(J, T) EXCEPT ![f].status = "paused"]
                  /\ disk' = IF T = {} THEN D
                             ELSE [jobs |-> Started(J, T), limit |-> limit']
    BY <1>3 DEF Pumped
  <2>2. \A j \in S : J[j].status = "queued"
    BY <2>1 DEF Starts, Startable
  <2>3. CASE /\ jobs' = Started(J, S)
             /\ disk' = IF S = {} THEN D
                        ELSE [jobs |-> Started(J, S), limit |-> limit']
    BY <1>1, <2>2, <2>3
  <2>4. ASSUME NEW f \in S, NEW T, T = Before(S, f),
               jobs' = [Started(J, T) EXCEPT ![f].status = "paused"],
               disk' = IF T = {} THEN D
                       ELSE [jobs |-> Started(J, T), limit |-> limit']
        PROVE  Alike(J, jobs') /\ (disk' = D \/ Alike(J, disk'.jobs))
    <3>1. T \in SUBSET Jobs /\ f \in Jobs /\ f \notin T /\ \A j \in T : J[j].status = "queued"
      BY <2>2, <2>4 DEF Before, Jobs
    <3>2. Alike(J, Started(J, T)) /\ Started(J, T) \in JobMap
      BY <1>1, <3>1
    <3>3. Started(J, T)[f].status = "queued"
      BY <2>2, <3>1 DEF Started
    <3>4. Alike(J, jobs')
      BY <2>4, <3>1, <3>2, <3>3 DEF Alike, Live, Committed, JobMap, Entry
    <3> QED BY <2>4, <3>2, <3>4
  <2> QED BY <2>1, <2>3, <2>4
<1> QED BY <1>2, <1>3

\* After a pump memory and file are images of J, or the file is what it was.
LEMMA PumpStores ==
  ASSUME NEW J \in JobMap, NEW P \in PcMap, NEW A, NEW D, NEW E,
         Pumped(J, P, A, D, E), disk' = D => D = disk \/ Alike(J, D.jobs)
  PROVE  Stored(J)
  BY PumpWrites DEF Stored

\* After a save and a pump likewise.
LEMMA SaveThenPumpStores ==
  ASSUME NEW J \in JobMap, NEW P \in PcMap, NEW A, SaveThenPump(J, P, A)
  PROVE  Stored(J)
<1>1. Alike(J, J)
  BY DEF Alike
<1> QED BY <1>1, PumpStores DEF SaveThenPump, SaveFails, Stored

-----------------------------------------------------------------------------
(* A step that is neither the intention, nor the click, nor its landing.    *)

\* The step turns memory (and perhaps the file) into an image of K.
Becomes(K) ==
  /\ \A j \in Jobs : /\ K[j].status # "absent" => K[j].target \in Targets
                     /\ jobs[j].status # "absent" => K[j].target = jobs[j].target
                     /\ K[j].status \in Committed <=> jobs[j].status \in Committed
  /\ OneLiveJob(K)
  /\ Alike(K, jobs')
  /\ \/ Alike(K, disk'.jobs)
     \/ disk' = disk /\ \A j \in Jobs : K[j].target = jobs[j].target
  /\ UNCHANGED <<wire, clicks>>
  /\ \A j \in Jobs : rev'[j].pc \in {"rechecking", "clicking"} => rev'[j].pc = rev[j].pc

\* Such a step keeps the agreement of memory and file on what is committed.
LEMMA BecomesKeeps ==
  ASSUME TypeOK, CommitInv, NEW K, Becomes(K)
  PROVE  CommitInv' /\ UNCHANGED Intended
<1>1. \A j \in Jobs : jobs[j].status \in Committed => jobs[j].status # "absent"
  BY DEF Committed
<1>2. OneLiveJob(jobs')
  BY DEF Becomes, OneLiveJob, Alike
<1>3. OneLiveJob(disk'.jobs)
  BY DEF Becomes, OneLiveJob, Alike, CommitInv, OneLiveJobPerPosting
<1>4. ASSUME NEW j \in Jobs
      PROVE  /\ jobs'[j].target = disk'.jobs[j].target
             /\ jobs'[j].status # "absent" => jobs'[j].target \in Targets
             /\ disk'.jobs[j].status # "absent" => disk'.jobs[j].target \in Targets
             /\ jobs'[j].status \in Committed <=> disk'.jobs[j].status \in Committed
             /\ jobs'[j].status \in Committed <=> jobs[j].status \in Committed
             /\ disk'.jobs[j].status \in Committed <=> disk.jobs[j].status \in Committed
             /\ jobs[j].status # "absent" => jobs'[j].target = jobs[j].target
  BY <1>4 DEF Becomes, Alike, CommitInv
<1>5. ASSUME NEW j \in Jobs
      PROVE  /\ rev'[j].pc \in {"rechecking", "clicking"} \/ wire'[j] # NoDigest =>
                  jobs'[j].status \in Committed
             /\ rev'[j].pc = "rechecking" => wire'[j] = NoDigest
             /\ rev'[j].pc = "rechecking" \/ wire'[j] # NoDigest =>
                  clicks'[jobs'[j].target] = 0
  BY <1>1, <1>4, <1>5 DEF Becomes, CommitInv
<1>6. ASSUME NEW t \in Targets, clicks'[t] > 0
      PROVE  \E j \in Jobs : jobs'[j].target = t /\ jobs'[j].status \in Committed
  <2>1. PICK j \in Jobs : jobs[j].target = t /\ jobs[j].status \in Committed
    BY <1>6 DEF Becomes, CommitInv
  <2> QED BY <1>1, <1>4, <2>1
<1>7. \A j \in Jobs : /\ disk'.jobs[j].status \in Committed <=> disk.jobs[j].status \in Committed
                      /\ disk.jobs[j].status \in Committed =>
                           disk'.jobs[j].target = disk.jobs[j].target
  BY <1>1, <1>4 DEF CommitInv
<1>8. Intended' = Intended
  BY <1>7 DEF Intended
<1> QED BY <1>2, <1>3, <1>4, <1>5, <1>6, <1>8 DEF CommitInv, OneLiveJobPerPosting

\* The usual case: the entries J of the step differ from memory only in
\* statuses of jobs that are live and not committed, or both before and after.
LEMMA StoredKeeps ==
  ASSUME TypeOK, CommitInv, NEW J, Alike(jobs, J), Stored(J), UNCHANGED <<wire, clicks>>,
         \A j \in Jobs : rev'[j].pc \in {"rechecking", "clicking"} => rev'[j].pc = rev[j].pc
  PROVE  CommitInv' /\ UNCHANGED Intended
<1>1. Becomes(J)
  BY DEF Becomes, Alike, Stored, CommitInv, OneLiveJobPerPosting, OneLiveJob
<1> QED BY <1>1, BecomesKeeps

-----------------------------------------------------------------------------
(* What works on a job, step by step.                                       *)

\* A save or pump of J and P: statuses and counters stay, or a queued job
\* starts, or fails to.
Moves(J, P) ==
  \A j \in Jobs :
    \/ pc'[j] = P[j] /\ jobs'[j].status = J[j].status
    \/ /\ P[j] = "idle" /\ J[j].status = "queued"
       /\ \/ pc'[j] = "opening" /\ jobs'[j].status = "running"
          \/ pc'[j] = "idle" /\ jobs'[j].status = "paused"

\* A save moves no job.
LEMMA SaveMoves ==
  ASSUME NEW J, NEW P, NEW A, Save(J, P, A) \/ SaveFails(J, P) \/ NoSave(J, P)
  PROVE  Moves(J, P)
  BY DEF Save, SaveOk, SaveFails, NoSave, Moves

LEMMA PumpMoves ==
  ASSUME NEW J \in JobMap, NEW P \in PcMap, NEW A, NEW D, NEW E, Pumped(J, P, A, D, E)
  PROVE  Moves(J, P)
<1>1. CASE phase # "up" \/ E \/ ~connected
  BY <1>1 DEF Pumped, Moves
<1>2. CASE ~(phase # "up" \/ E \/ ~connected)
  <2>1. PICK S \in SUBSET Jobs :
          /\ Starts(J, P, S)
          /\ \/ jobs' = Started(J, S) /\ pc' = Opening(P, S)
             \/ \E f \in S : LET T == Before(S, f) IN
                  /\ jobs' = [Started(J, T) EXCEPT ![f].status = "paused"]
                  /\ pc' = Opening(P, T)
    BY <1>2 DEF Pumped
  <2>2. \A j \in S : J[j].status = "queued" /\ P[j] = "idle"
    BY <2>1 DEF Starts, Startable
  <2>3. CASE jobs' = Started(J, S) /\ pc' = Opening(P, S)
    BY <2>2, <2>3 DEF Moves, Started, Opening, JobMap, Entry
  <2>4. ASSUME NEW f \in S, NEW T, T = Before(S, f),
               jobs' = [Started(J, T) EXCEPT ![f].status = "paused"],
               pc' = Opening(P, T)
        PROVE  Moves(J, P)
    <3>1. T \subseteq S /\ f \in Jobs /\ f \notin T
      BY <2>4 DEF Before, Jobs
    <3> QED BY <2>2, <2>4, <3>1 DEF Moves, Started, Opening, JobMap, Entry
  <2> QED BY <2>1, <2>3, <2>4
<1> QED BY <1>1, <1>2

\* If what worked on each job was allowed for J and P, it is allowed after the step.
LEMMA MovesKeep ==
  ASSUME NEW J, NEW P, Moves(J, P), ActivityOf(J, P, rev'), phase' # "down"
  PROVE  ActivityInv'
<1>1. ASSUME NEW j \in Jobs
      PROVE  /\ pc'[j] # "idle" => jobs'[j].status \in {"running", "paused"}
             /\ rev'[j].pc \in {"opening", "reading", "read"} =>
                  pc'[j] = "idle" /\ jobs'[j].status \in {"review", "paused"}
             /\ rev'[j].pc \in {"rechecking", "clicking"} =>
                  pc'[j] = "idle" /\ jobs'[j].status \in Committed
  BY <1>1 DEF Moves, ActivityOf, Committed
<1> QED BY <1>1 DEF ActivityInv, ActivityOf

IInv == TypeOK /\ CommitInv /\ ActivityInv

\* The conclusion drawn for every step but the click and its landing.
Kept == CommitInv' /\ ActivityInv' /\ UNCHANGED <<Intended, clicks>>

\* A step that saves or pumps the entries J with the counters P.
LEMMA StepKeeps ==
  ASSUME IInv, NEW J, NEW P, Alike(jobs, J), Stored(J), Moves(J, P),
         ActivityOf(J, P, rev'), phase' # "down", UNCHANGED <<wire, clicks>>,
         \A j \in Jobs : rev'[j].pc \in {"rechecking", "clicking"} => rev'[j].pc = rev[j].pc
  PROVE  Kept
  BY StoredKeeps, MovesKeep DEF IInv, Kept

\* The statuses a step may assign without moving the job across a border.
SameSide(s, t) == \/ s \in Committed /\ t \in Committed
                  \/ /\ {s, t} \cap Committed = {}
                     /\ {s, t} \cap {"absent", "removed"} = {}

\* Entries that differ at one job, on the same side of the border, are alike.
LEMMA AlikeOne ==
  ASSUME NEW J, NEW K, NEW j \in Jobs, \A i \in Jobs \ {j} : K[i] = J[i],
         K[j].target = J[j].target, SameSide(K[j].status, J[j].status)
  PROVE  Alike(J, K)
  BY DEF Alike, SameSide, Live, Committed

\* K is J with the status s, and perhaps other fields but the target, at job j.
Sets(J, K, j, s) == /\ K \in JobMap /\ K[j].status = s /\ K[j].target = J[j].target
                    /\ \A i \in Jobs \ {j} : K[i] = J[i]

\* Replacing one entry by another of the same posting.
LEMMA SetEntry ==
  ASSUME NEW J \in JobMap, NEW K, NEW j \in Jobs, NEW e \in Entry,
         K = [J EXCEPT ![j] = e], e.target = J[j].target
  PROVE  Sets(J, K, j, e.status)
  BY DEF Sets, JobMap

\* Assigning a status, as pause, retry, remove and restore do.
LEMMA SetStatus ==
  ASSUME NEW J \in JobMap, NEW j \in Jobs, NEW s \in Status
  PROVE  Sets(J, [J EXCEPT ![j].status = s], j, s)
<1> DEFINE e == [J[j] EXCEPT !.status = s]
<1>1. e \in Entry /\ e.status = s /\ e.target = J[j].target
  <2>1. J[j] \in Entry
    BY DEF JobMap
  <2> QED BY <2>1 DEF Entry
<1>2. [J EXCEPT ![j].status = s] = [J EXCEPT ![j] = e]
  BY DEF JobMap
<1> HIDE DEF e
<1> QED BY <1>1, <1>2, SetEntry

\* Assigning a status and a digest, as retry and refresh_review do.
LEMMA SetStatusDigest ==
  ASSUME NEW J \in JobMap, NEW j \in Jobs, NEW s \in Status, NEW d \in Digests
  PROVE  Sets(J, [J EXCEPT ![j].status = s, ![j].digest = d], j, s)
<1> DEFINE e == [J[j] EXCEPT !.status = s, !.digest = d]
<1>1. e \in Entry /\ e.status = s /\ e.target = J[j].target
  <2>1. J[j] \in Entry
    BY DEF JobMap
  <2> QED BY <2>1 DEF Entry
<1>2. [J EXCEPT ![j].status = s, ![j].digest = d] = [J EXCEPT ![j] = e]
  BY DEF JobMap
<1> HIDE DEF e
<1> QED BY <1>1, <1>2, SetEntry

\* Publishing a review assigns status, digest and the reviewed mark.
LEMMA SetReviewed ==
  ASSUME NEW J \in JobMap, NEW j \in Jobs, NEW s \in Status, NEW d \in Digests
  PROVE  Sets(J, [J EXCEPT ![j].status = s, ![j].digest = d, ![j].reviewed = TRUE], j, s)
<1> DEFINE e == [J[j] EXCEPT !.status = s, !.digest = d, !.reviewed = TRUE]
<1>1. e \in Entry /\ e.status = s /\ e.target = J[j].target
  <2>1. J[j] \in Entry
    BY DEF JobMap
  <2> QED BY <2>1 DEF Entry
<1>2. [J EXCEPT ![j].status = s, ![j].digest = d, ![j].reviewed = TRUE] = [J EXCEPT ![j] = e]
  BY DEF JobMap
<1> HIDE DEF e
<1> QED BY <1>1, <1>2, SetEntry

\* Assigning a tab keeps the status.
LEMMA SetTab ==
  ASSUME NEW J \in JobMap, NEW j \in Jobs, NEW b \in BOOLEAN
  PROVE  Sets(J, [J EXCEPT ![j].tab = b], j, J[j].status)
<1> DEFINE e == [J[j] EXCEPT !.tab = b]
<1>1. e \in Entry /\ e.status = J[j].status /\ e.target = J[j].target
  <2>1. J[j] \in Entry
    BY DEF JobMap
  <2> QED BY <2>1 DEF Entry
<1>2. [J EXCEPT ![j].tab = b] = [J EXCEPT ![j] = e]
  BY DEF JobMap
<1> HIDE DEF e
<1> QED BY <1>1, <1>2, SetEntry

\* Of two assignments to one job the second decides.
LEMMA SetTwice ==
  ASSUME NEW J, NEW K, NEW L, NEW j \in Jobs, NEW s, NEW t,
         Sets(J, K, j, s), Sets(K, L, j, t)
  PROVE  Sets(J, L, j, t)
  BY DEF Sets

\* An assignment that crosses no border gives entries alike.
LEMMA SetsAlike ==
  ASSUME NEW J, NEW K, NEW j \in Jobs, NEW s, Sets(J, K, j, s), SameSide(s, J[j].status)
  PROVE  Alike(J, K)
  BY AlikeOne DEF Sets

\* No assignment at all is one of the status the job has.
LEMMA SetNothing ==
  ASSUME NEW J \in JobMap, NEW j \in Jobs
  PROVE  Sets(J, J, j, J[j].status) /\ Alike(J, J)
  BY DEF Sets, Alike

\* The counter of one job moves.
LEMMA SetPc ==
  ASSUME NEW P \in PcMap, NEW j \in Jobs, NEW p \in RunPc
  PROVE  /\ [P EXCEPT ![j] = p] \in PcMap /\ [P EXCEPT ![j] = p][j] = p
         /\ \A i \in Jobs \ {j} : [P EXCEPT ![j] = p][i] = P[i]
  BY DEF PcMap

-----------------------------------------------------------------------------
(* The inductive step, group of actions by group of actions.                *)

\* A fill and its deadline neither intend nor click.
LEMMA RunKeeps ==
  ASSUME IInv, NEW j \in Jobs, RunStep(j) \/ Deadline(j)
  PROVE  Kept
<1>1. /\ jobs \in JobMap /\ pc \in PcMap /\ disk \in File /\ ActivityOf(jobs, pc, rev)
      /\ found[j] \in Digests
      /\ limit' = limit /\ limit' \in Nat \ {0} /\ pc[j] # "idle"
      /\ phase' # "down" /\ UNCHANGED <<rev, wire, clicks>>
  BY TypeSplit DEF IInv, QueueOK, RestOK, ActivityInv, RunStep, RunOpens, RunOpenFails,
     FillSucceeds, FillFails, RunCloses, RunUnwinds, Deadline, others, world
<1>2. /\ jobs[j].status \in {"running", "paused"}
      /\ \A s \in {"running", "paused", "review"} : SameSide(s, jobs[j].status)
      /\ {"running", "paused", "review"} \subseteq Status
      /\ {"idle", "filling", "closing", "unwinding"} \subseteq RunPc
  BY <1>1 DEF ActivityOf, SameSide, Committed, Status, RunPc
<1>3. ASSUME NEW s \in {"running", "paused", "review"}, NEW J, NEW P \in PcMap,
             Sets(jobs, J, j, s), Stored(J), Moves(J, P),
             \A i \in Jobs \ {j} : P[i] = pc[i], P[j] = "idle" \/ s # "review"
      PROVE  Kept
  <2>1. rev[j].pc \in {"idle", "releasing"}
    BY <1>1 DEF ActivityOf, IInv, TypeOK, RevPc
  <2>2. ActivityOf(J, P, rev')
    BY <1>1, <1>3, <2>1 DEF ActivityOf, Sets
  <2>3. Alike(jobs, J)
    BY <1>2, <1>3, SetsAlike
  <2> QED BY <1>1, <1>3, <2>2, <2>3, StepKeeps
<1>4. ASSUME NEW J, Sets(jobs, J, j, jobs[j].status), Caught(J, j) PROVE Kept
  <2> DEFINE K == [J EXCEPT ![j].status = "paused"]
             P == [pc EXCEPT ![j] = "unwinding"]
  <2>1. Sets(jobs, K, j, "paused")
    BY <1>2, <1>4, SetStatus, SetTwice DEF Sets
  <2>2. NoSave(K, P) /\ P \in PcMap /\ \A i \in Jobs \ {j} : P[i] = pc[i]
    BY <1>1, <1>2, <1>4, SetPc DEF Caught
  <2> HIDE DEF K, P
  <2> QED BY <1>3, <2>1, <2>2, SaveStores, SaveMoves DEF Sets
<1>5. ASSUME Caught(jobs, j) PROVE Kept
  BY <1>1, <1>4, <1>5, SetNothing
<1>6. CASE RunOpens(j)
  <2> DEFINE J == [jobs EXCEPT ![j].tab = TRUE]
             K == [J EXCEPT ![j].status = "paused"]
             P == [pc EXCEPT ![j] = "filling"]
             Q == [pc EXCEPT ![j] = "unwinding"]
  <2>1. Sets(jobs, J, j, jobs[j].status)
    BY <1>1, SetTab
  <2>2. Sets(jobs, K, j, "paused")
    <3> HIDE DEF J
    <3>1. J \in JobMap
      BY <2>1 DEF Sets
    <3>2. Sets(J, K, j, "paused")
      BY <1>2, <3>1, SetStatus
    <3> HIDE DEF K
    <3> QED BY <2>1, <3>2, SetTwice
  <2>7. P \in PcMap /\ \A i \in Jobs \ {j} : P[i] = pc[i]
    BY <1>1, <1>2, SetPc
  <2>8. Q \in PcMap /\ \A i \in Jobs \ {j} : Q[i] = pc[i]
    BY <1>1, <1>2, SetPc
  <2>3. Caught(J, j) \/ SaveOk(J, P, aborted) \/ SaveFails(K, Q)
    BY <1>6 DEF RunOpens
  <2> HIDE DEF J, K, P, Q
  <2>4. CASE Caught(J, j)
    BY <1>4, <2>1, <2>4
  <2>5. CASE SaveOk(J, P, aborted)
    BY <1>2, <1>3, <2>1, <2>7, <2>5, SaveStores, SaveMoves DEF Save, Sets
  <2>6. CASE SaveFails(K, Q)
    BY <1>3, <2>2, <2>8, <2>6, SaveStores, SaveMoves DEF Save, Sets
  <2> QED BY <2>3, <2>4, <2>5, <2>6
<1>7. CASE RunOpenFails(j) \/ FillFails(j)
  BY <1>5, <1>7 DEF RunOpenFails, FillFails
<1>8. ASSUME NEW c \in Contents, FillSucceeds(j, c) PROVE Kept
  <2>1. CASE j \in aborted
    BY <1>5, <1>8, <2>1 DEF FillSucceeds
  <2>2. CASE j \notin aborted
    <3> DEFINE P == [pc EXCEPT ![j] = "closing"]
    <3>1. NoSave(jobs, P) /\ P \in PcMap /\ \A i \in Jobs \ {j} : P[i] = pc[i]
      BY <1>1, <1>2, <1>8, <2>2, SetPc DEF FillSucceeds
    <3> HIDE DEF P
    <3>2. Stored(jobs) /\ Moves(jobs, P)
      BY <1>1, <3>1, SaveStores, SaveMoves
    <3> QED BY <1>1, <1>2, <1>3, <3>1, <3>2, SetNothing
  <2> QED BY <2>1, <2>2
<1>9. CASE RunCloses(j)
  <2> DEFINE J == [jobs EXCEPT ![j].status = "review", ![j].digest = found[j],
                               ![j].reviewed = TRUE]
             K == [J EXCEPT ![j].status = "paused"]
             P == [pc EXCEPT ![j] = "idle"]
             Q == [pc EXCEPT ![j] = "unwinding"]
             D == [jobs |-> J, limit |-> limit']
  <2>1. Sets(jobs, J, j, "review")
    BY <1>1, <1>2, SetReviewed
  <2>2. Sets(jobs, K, j, "paused")
    <3> HIDE DEF J
    <3>1. J \in JobMap
      BY <2>1 DEF Sets
    <3>2. Sets(J, K, j, "paused")
      BY <1>2, <3>1, SetStatus
    <3> HIDE DEF K
    <3> QED BY <2>1, <3>2, SetTwice
  <2>3. P \in PcMap /\ P[j] = "idle" /\ \A i \in Jobs \ {j} : P[i] = pc[i]
    BY <1>1, <1>2, SetPc
  <2>9. Q \in PcMap /\ \A i \in Jobs \ {j} : Q[i] = pc[i]
    BY <1>1, <1>2, SetPc
  <2>4. \/ Caught(jobs, j) \/ SaveFails(K, Q)
        \/ Pumped(J, P, aborted \ {j}, D, storageError)
        \/ jobs' = J /\ pc' = P /\ disk' = D
    BY <1>9 DEF RunCloses, RunPublishes
  <2>5. D.jobs = J
    OBVIOUS
  <2> HIDE DEF J, K, P, Q, D
  <2>6. CASE SaveFails(K, Q)
    BY <1>3, <2>2, <2>9, <2>6, SaveStores, SaveMoves DEF Save, Sets
  <2>7. CASE Pumped(J, P, aborted \ {j}, D, storageError)
    <3>1. J \in JobMap /\ Alike(J, D.jobs)
      BY <2>1, <2>5 DEF Alike, Sets
    <3>2. Stored(J) /\ Moves(J, P)
      BY <2>3, <2>7, <3>1, PumpStores, PumpMoves
    <3> QED BY <1>3, <2>1, <2>3, <3>2
  <2>8. CASE jobs' = J /\ pc' = P /\ disk' = D
    <3>1. Stored(J) /\ Moves(J, P)
      BY <2>5, <2>8 DEF Stored, Moves, Alike
    <3> QED BY <1>3, <2>1, <2>3, <3>1
  <2> QED BY <1>5, <2>4, <2>6, <2>7, <2>8
<1>10. CASE RunUnwinds(j)
  <2> DEFINE P == [pc EXCEPT ![j] = "idle"]
  <2>1. P \in PcMap /\ P[j] = "idle" /\ \A i \in Jobs \ {j} : P[i] = pc[i]
    BY <1>1, <1>2, SetPc
  <2>2. SaveThenPump(jobs, P, aborted \ {j})
    BY <1>10 DEF RunUnwinds, RunEnds
  <2> HIDE DEF P
  <2>3. Stored(jobs) /\ Moves(jobs, P)
    BY <1>1, <2>1, <2>2, SaveThenPumpStores, PumpMoves, SaveMoves DEF SaveThenPump
  <2> QED BY <1>1, <1>2, <1>3, <2>1, <2>3, SetNothing
<1>11. CASE Deadline(j)
  <2>1. Stored(jobs) /\ Moves(jobs, pc)
    BY <1>11 DEF Deadline, Stored, Moves, Alike
  <2> QED BY <1>1, <1>2, <1>3, <2>1, SetNothing
<1> QED BY <1>6, <1>7, <1>8, <1>9, <1>10, <1>11 DEF RunStep

\* Only a field other than the status changed.
LEMMA SetSame ==
  ASSUME NEW J, NEW K, NEW j \in Jobs, Sets(J, K, j, J[j].status)
  PROVE  Alike(J, K)
  BY DEF Alike, Sets, Live

\* A request that saves, or saves and pumps, the entries J and lets every
\* run and review action go on.
LEMMA RequestSaves ==
  ASSUME IInv, NEW J \in JobMap, Alike(jobs, J), ActivityOf(J, pc, rev), phase # "down",
         UNCHANGED <<phase, rev, wire, clicks>>,
         NEW A, NEW D, NEW E, D = disk \/ Alike(J, D.jobs),
         SaveFails(J, pc) \/ Save(J, pc, A) \/ NoSave(J, pc) \/ Pumped(J, pc, A, D, E)
  PROVE  Kept
<1>1. pc \in PcMap
  BY TypeSplit DEF IInv, QueueOK
<1>2. Stored(J)
  BY <1>1, SaveStores, PumpStores DEF Save
<1>3. Moves(J, pc)
  BY <1>1, SaveMoves, PumpMoves
<1> QED BY <1>2, <1>3, StepKeeps

\* The requests that move no job across a border.
LEMMA RequestKeeps ==
  ASSUME IInv, \/ \E j \in Jobs, b \in BOOLEAN : AddKnown(j, b)
               \/ \E n \in Limits : SetConcurrency(n)
               \/ RecoverStorage \/ ConfigureFails \/ Tick
               \/ \E j \in Jobs : Pause(j) \/ Retry(j)
  PROVE  Kept
<1>1. /\ jobs \in JobMap /\ pc \in PcMap /\ disk \in File
      /\ ActivityOf(jobs, pc, rev) /\ Alike(jobs, jobs)
  BY TypeSplit DEF IInv, QueueOK, ActivityInv, Alike
<1>2. ASSUME SaveFails(jobs, pc), Serving, UNCHANGED <<phase, rev, wire, clicks>>
      PROVE  Kept
  BY <1>1, <1>2, RequestSaves DEF Serving
<1>3. ASSUME NEW j \in Jobs, NEW b \in BOOLEAN, AddKnown(j, b) PROVE Kept
  <2> DEFINE J == [jobs EXCEPT ![j].tab = @ \/ b]
             D == [jobs |-> J, limit |-> limit']
  <2>1. Serving /\ UNCHANGED <<phase, rev, wire, clicks>>
    BY <1>3 DEF AddKnown, others, world
  <2>2. SaveFails(jobs, pc) \/ Pumped(J, pc, aborted, D, storageError)
    BY <1>3 DEF AddKnown
  <2>3. Sets(jobs, J, j, jobs[j].status)
    <3>1. /\ (jobs[j].tab \/ b) \in BOOLEAN
          /\ J = [jobs EXCEPT ![j].tab = jobs[j].tab \/ b]
      BY <1>1 DEF JobMap, Entry
    <3> HIDE DEF J
    <3> QED BY <1>1, <3>1, SetTab
  <2>4. D.jobs = J
    OBVIOUS
  <2> HIDE DEF J, D
  <2>5. J \in JobMap /\ Alike(jobs, J) /\ Alike(J, D.jobs) /\ ActivityOf(J, pc, rev)
    <3>1. \A i \in Jobs : J[i].status = jobs[i].status
      BY <2>3 DEF Sets
    <3> QED BY <1>1, <2>3, <2>4, <3>1, SetSame DEF Sets, Alike, ActivityOf
  <2> QED BY <1>2, <2>1, <2>2, <2>5, RequestSaves DEF Serving
<1>4. ASSUME NEW n \in Limits, SetConcurrency(n) PROVE Kept
  <2> DEFINE D == [jobs |-> jobs, limit |-> limit']
  <2>1. SaveFails(jobs, pc) \/ Pumped(jobs, pc, aborted, D, storageError)
    BY <1>4 DEF SetConcurrency, SaveThenPump
  <2>2. Serving /\ UNCHANGED <<phase, rev, wire, clicks>> /\ Alike(jobs, D.jobs)
    BY <1>1, <1>4 DEF SetConcurrency, others, world
  <2> HIDE DEF D
  <2> QED BY <1>1, <1>2, <2>1, <2>2, RequestSaves DEF Serving
<1>5. CASE RecoverStorage
  <2> DEFINE D == [jobs |-> jobs, limit |-> limit']
  <2>1. SaveFails(jobs, pc) \/ Pumped(jobs, pc, aborted, D, FALSE)
    BY <1>5 DEF RecoverStorage
  <2>2. Serving /\ UNCHANGED <<phase, rev, wire, clicks>> /\ Alike(jobs, D.jobs)
    BY <1>1, <1>5 DEF RecoverStorage, others, world
  <2> HIDE DEF D
  <2> QED BY <1>1, <1>2, <2>1, <2>2, RequestSaves DEF Serving
<1>6. CASE ConfigureFails
  BY <1>2, <1>6 DEF ConfigureFails, world
<1>7. CASE Tick
  BY <1>1, <1>7, RequestSaves DEF Tick, others, world
<1>8. ASSUME NEW j \in Jobs, Pause(j) PROVE Kept
  <2> DEFINE J == [jobs EXCEPT ![j].status = "paused"]
             A == aborted \cup ({j} \cap Running(pc))
  <2>1. /\ SaveOk(J, pc, A) \/ SaveFails(J, pc)
        /\ UNCHANGED <<phase, rev, wire, clicks>> /\ phase # "down"
        /\ jobs[j].status \in {"queued", "running"}
    BY <1>8 DEF Pause, world
  <2>2. Sets(jobs, J, j, "paused")
    BY <1>1, SetStatus DEF Status
  <2> HIDE DEF J, A
  <2>3. Alike(jobs, J)
    BY <2>1, <2>2, SetsAlike DEF SameSide, Committed
  <2>4. ActivityOf(J, pc, rev)
    BY <1>1, <2>1, <2>2 DEF ActivityOf, Sets, Committed
  <2>5. J \in JobMap
    BY <2>2 DEF Sets
  <2> QED BY <2>1, <2>3, <2>4, <2>5, RequestSaves DEF Save
<1>9. ASSUME NEW j \in Jobs, Retry(j) PROVE Kept
  <2> DEFINE J == [jobs EXCEPT ![j].status = "queued", ![j].digest = NoDigest]
             D == [jobs |-> J, limit |-> limit']
  <2>1. /\ SaveFails(J, pc) \/ Pumped(J, pc, aborted, D, storageError)
        /\ UNCHANGED <<phase, rev, wire, clicks>> /\ phase # "down"
        /\ jobs[j].status \in {"paused", "review"} /\ pc[j] = "idle" /\ ~Reviewing(j)
    BY <1>9 DEF Retry, SaveThenPump, others, world
  <2>2. Sets(jobs, J, j, "queued") /\ D.jobs = J
    BY <1>1, SetStatusDigest DEF Status, Digests
  <2> HIDE DEF J, D
  <2>3. Alike(jobs, J)
    BY <2>1, <2>2, SetsAlike DEF SameSide, Committed
  <2>4. ActivityOf(J, pc, rev)
    BY <1>1, <2>1, <2>2 DEF ActivityOf, Sets, Reviewing
  <2>5. J \in JobMap /\ Alike(J, D.jobs)
    BY <2>2 DEF Sets, Alike
  <2> QED BY <2>1, <2>3, <2>4, <2>5, RequestSaves
<1> QED BY <1>3, <1>4, <1>5, <1>6, <1>7, <1>8, <1>9

\* A new job, a removal and a restoration: the set of live jobs changes.
LEMMA BorderKeeps ==
  ASSUME IInv, \/ \E t \in Targets, b \in BOOLEAN : AddNew(t, b)
               \/ \E j \in Jobs : Remove(j) \/ Restore(j)
  PROVE  Kept
<1>1. /\ jobs \in JobMap /\ pc \in PcMap /\ disk \in File
      /\ ActivityOf(jobs, pc, rev) /\ OneLiveJob(jobs)
      /\ \A i \in Jobs : jobs[i].status # "absent" => jobs[i].target \in Targets
  BY TypeSplit DEF IInv, QueueOK, ActivityInv, CommitInv, OneLiveJobPerPosting
<1>2. ASSUME NEW J \in JobMap, Becomes(J), Moves(J, pc), ActivityOf(J, pc, rev'),
             phase' # "down"
      PROVE  Kept
  BY <1>2, BecomesKeeps, MovesKeep DEF IInv, Kept, Becomes
<1>3. ASSUME NEW t \in Targets, NEW b \in BOOLEAN, AddNew(t, b) PROVE Kept
  <2>1. PICK j \in Jobs :
          /\ ~Exists(j)
          /\ LET J == [jobs EXCEPT ![j] = [target |-> t, status |-> "queued",
                         digest |-> NoDigest, reviewed |-> FALSE, tab |-> b]]
             IN \/ SaveFails(jobs, pc)
                \/ Pumped(J, pc, aborted, [jobs |-> J, limit |-> limit'], storageError)
    BY <1>3 DEF AddNew
  <2>2. /\ UNCHANGED <<phase, rev, wire, clicks>> /\ phase # "down"
        /\ \A i \in Jobs : Live(jobs[i]) => jobs[i].target # t
    BY <1>3 DEF AddNew, Serving, others, world
  <2>3. CASE SaveFails(jobs, pc)
    BY <1>1, <2>2, <2>3, RequestSaves DEF Alike
  <2>4. CASE ~SaveFails(jobs, pc)
    <3> DEFINE e == [target |-> t, status |-> "queued", digest |-> NoDigest,
                     reviewed |-> FALSE, tab |-> b]
               J == [jobs EXCEPT ![j] = e]
               D == [jobs |-> J, limit |-> limit']
    <3>1. Pumped(J, pc, aborted, D, storageError)
      BY <2>1, <2>4
    <3>2. D.jobs = J /\ e \in Entry /\ e.status = "queued" /\ e.target = t
      BY DEF Entry, Status, Digests
    <3> HIDE DEF e
    <3>3. J \in JobMap /\ J[j] = e /\ \A i \in Jobs \ {j} : J[i] = jobs[i]
      BY <1>1, <3>2 DEF JobMap
    <3> HIDE DEF J, D
    <3>4. jobs[j].status = "absent"
      BY <2>1 DEF Exists
    <3>5. Alike(J, jobs') /\ Alike(J, disk'.jobs)
      BY <1>1, <3>1, <3>2, <3>3, PumpWrites DEF Alike
    <3>6. OneLiveJob(J)
      BY <1>1, <2>2, <3>2, <3>3 DEF OneLiveJob, Live
    <3>7. Becomes(J)
      BY <1>1, <2>2, <3>2, <3>3, <3>4, <3>5, <3>6 DEF Becomes, Committed
    <3>8. ActivityOf(J, pc, rev)
      BY <1>1, <3>2, <3>3, <3>4 DEF ActivityOf, Committed
    <3>9. Moves(J, pc)
      BY <1>1, <3>1, <3>3, PumpMoves
    <3> QED BY <1>2, <2>2, <3>3, <3>7, <3>8, <3>9
  <2> QED BY <2>3, <2>4
<1>4. ASSUME NEW j \in Jobs, NEW J \in JobMap, NEW s, Sets(jobs, J, j, s),
             s \in {"removed", "paused"}, pc[j] = "idle", ~Reviewing(j), OneLiveJob(J),
             jobs[j].status \in {"paused", "queued", "removed"}, Save(J, pc, aborted),
             UNCHANGED <<phase, rev, wire, clicks>>, phase # "down"
      PROVE  Kept
  <2>1. Alike(J, jobs') /\ (disk' = disk \/ disk'.jobs = J) /\ Moves(J, pc)
    <3>1. Moves(J, pc)
      BY <1>4, SaveMoves
    <3>2. jobs' = J /\ (disk' = disk \/ disk' = [jobs |-> J, limit |-> limit'])
      BY <1>4 DEF Save, SaveOk, SaveFails
    <3> QED BY <3>1, <3>2 DEF Alike
  <2>2. Becomes(J)
    BY <1>1, <1>4, <2>1 DEF Becomes, Sets, Committed, Alike
  <2>3. ActivityOf(J, pc, rev)
    BY <1>1, <1>4 DEF ActivityOf, Sets, Reviewing
  <2> QED BY <1>2, <1>4, <2>1, <2>2, <2>3
<1>5. ASSUME NEW j \in Jobs, Remove(j) PROVE Kept
  <2> DEFINE J == [jobs EXCEPT ![j].status = "removed"]
  <2>1. Sets(jobs, J, j, "removed") /\ Save(J, pc, aborted)
    BY <1>1, <1>5, SetStatus DEF Remove, Status
  <2> HIDE DEF J
  <2>2. OneLiveJob(J) /\ J \in JobMap
    BY <1>1, <2>1 DEF OneLiveJob, Sets, Live
  <2> QED BY <1>4, <1>5, <2>1, <2>2 DEF Remove, others, world
<1>6. ASSUME NEW j \in Jobs, Restore(j) PROVE Kept
  <2> DEFINE J == [jobs EXCEPT ![j].status = "paused"]
  <2>1. Sets(jobs, J, j, "paused") /\ Save(J, pc, aborted)
    BY <1>1, <1>6, SetStatus DEF Restore, Status
  <2> HIDE DEF J
  <2>2. OneLiveJob(J) /\ J \in JobMap
    BY <1>1, <1>6, <2>1 DEF OneLiveJob, Sets, Restore
  <2> QED BY <1>4, <1>6, <2>1, <2>2 DEF Restore, others, world
<1> QED BY <1>3, <1>5, <1>6

\* The steps of a review action up to the intention, and after the click.
LEMMA ReviewKeeps ==
  ASSUME IInv, NEW j \in Jobs,
         \/ RequestRefresh(j) \/ RequestSubmit(j) \/ RejectReview(j)
         \/ ReviewOpens(j) \/ ReadReview(j) \/ ReviewFails(j) \/ RefreshDone(j)
         \/ SubmitThrows(j) \/ SubmitReturns(j) \/ ReviewReleased(j)
  PROVE  Kept
<1>1. /\ jobs \in JobMap /\ pc \in PcMap /\ ActivityOf(jobs, pc, rev)
      /\ Alike(jobs, jobs)
      /\ rev \in [Jobs -> [pc : RevPc, kind : {"refresh", "submit"},
                          digest : Digests, read : Digests]]
  BY TypeSplit DEF IInv, QueueOK, RestOK, ActivityInv, Alike
<1>2. ASSUME phase # "down", UNCHANGED <<phase, jobs, pc, disk, wire, clicks>>,
             ActivityOf(jobs, pc, rev'),
             \A i \in Jobs : rev'[i].pc \in {"rechecking", "clicking"} =>
                               rev'[i].pc = rev[i].pc
      PROVE  Kept
  <2>1. Stored(jobs) /\ Moves(jobs, pc)
    BY <1>1, <1>2 DEF Stored, Moves
  <2> QED BY <1>1, <1>2, <2>1, StepKeeps
<1>3. ASSUME Reviewing(j) PROVE phase # "down"
  BY <1>3 DEF IInv, ActivityInv
<1>4. ASSUME NEW r, rev' = [rev EXCEPT ![j] = r], phase # "down",
             UNCHANGED <<phase, jobs, pc, disk, wire, clicks>>,
             \/ r.pc \in {"idle", "releasing"}
             \/ /\ r.pc \in {"opening", "reading", "read"}
                /\ pc[j] = "idle" /\ jobs[j].status \in {"review", "paused"}
      PROVE  Kept
  <2>1. rev'[j] = r /\ \A i \in Jobs \ {j} : rev'[i] = rev[i]
    BY <1>1, <1>4
  <2> QED BY <1>1, <1>2, <1>4, <2>1 DEF ActivityOf
<1>5. CASE RequestRefresh(j)
  <2> DEFINE r == [NoReview EXCEPT !.pc = "opening"]
  <2>1. r.pc = "opening" /\ rev' = [rev EXCEPT ![j] = r]
    BY <1>5 DEF RequestRefresh, NoReview
  <2> HIDE DEF r
  <2> QED BY <1>4, <1>5, <2>1 DEF RequestRefresh, RefreshAllowed, queue, world
<1>6. CASE RequestSubmit(j)
  <2> DEFINE r == [pc |-> "opening", kind |-> "submit", digest |-> jobs[j].digest,
                   read |-> NoDigest]
  <2>1. r.pc = "opening" /\ rev' = [rev EXCEPT ![j] = r]
    BY <1>6 DEF RequestSubmit
  <2> HIDE DEF r
  <2>2. pc[j] = "idle"
    BY <1>1, <1>6 DEF RequestSubmit, ActivityOf
  <2> QED BY <1>4, <1>6, <2>1, <2>2 DEF RequestSubmit, queue, world
<1>7. ASSUME NEW p \in RevPc, NEW q, rev' = [rev EXCEPT ![j] = q], q.pc = p,
             phase # "down", UNCHANGED <<phase, queue, wire, clicks>>,
             \/ p = "releasing" \/ p = "idle"
             \/ p \in {"reading", "read"} /\ rev[j].pc \in {"opening", "reading"}
      PROVE  Kept
  BY <1>1, <1>4, <1>7 DEF queue, ActivityOf
<1>8. ASSUME NEW p \in RevPc, rev' = At(j, p)
      PROVE  \E q : rev' = [rev EXCEPT ![j] = q] /\ q.pc = p
  <2> DEFINE q == [rev[j] EXCEPT !.pc = p]
  <2>1. rev' = [rev EXCEPT ![j] = q] /\ q.pc = p
    BY <1>1, <1>8 DEF At
  <2> QED BY <2>1
<1>9. CASE RejectReview(j)
  BY <1>7, <1>8, <1>9 DEF RejectReview, world, RevPc
<1>10. CASE ReviewOpens(j)
  BY <1>3, <1>7, <1>8, <1>10 DEF ReviewOpens, Reviewing, world, RevPc
<1>11. CASE ReadReview(j)
  <2> DEFINE q == [rev[j] EXCEPT !.pc = "read", !.read = page[j]]
  <2>1. rev' = [rev EXCEPT ![j] = q] /\ q.pc = "read"
    BY <1>1, <1>11 DEF ReadReview
  <2> HIDE DEF q
  <2> QED BY <1>3, <1>7, <1>11, <2>1 DEF ReadReview, Reviewing, world, RevPc
<1>12. CASE ReviewReleased(j)
  BY <1>3, <1>7, <1>12 DEF ReviewReleased, NoReview, Reviewing, world, RevPc
<1>13. ASSUME NEW J \in JobMap, NEW s, Sets(jobs, J, j, s), SameSide(s, jobs[j].status),
              Stored(J), Moves(J, pc), pc[j] = "idle", phase # "down",
              UNCHANGED <<phase, wire, clicks>>, rev' = At(j, "releasing")
       PROVE  Kept
  <2>1. rev'[j].pc = "releasing" /\ \A i \in Jobs \ {j} : rev'[i] = rev[i]
    BY <1>1, <1>13 DEF At
  <2>2. ActivityOf(J, pc, rev')
    BY <1>1, <1>13, <2>1 DEF ActivityOf, Sets
  <2>3. Alike(jobs, J)
    BY <1>13, SetsAlike
  <2> QED BY <1>13, <2>1, <2>2, <2>3, StepKeeps
<1>14. CASE ReviewFails(j)
  <2> DEFINE J == [jobs EXCEPT ![j].status = "paused", ![j].digest = NoDigest]
  <2>1. /\ Save(J, pc, aborted) \/ NoSave(jobs, pc)
        /\ UNCHANGED <<phase, wire, clicks>> /\ rev' = At(j, "releasing")
    BY <1>14 DEF ReviewFails, world
  <2>2. /\ pc[j] = "idle" /\ jobs[j].status \in {"review", "paused"} /\ phase # "down"
    BY <1>1, <1>3, <1>14 DEF ReviewFails, ActivityOf, Reviewing
  <2>3. Sets(jobs, J, j, "paused") /\ Sets(jobs, jobs, j, jobs[j].status)
    BY <1>1, SetStatusDigest, SetNothing DEF Status, Digests
  <2> HIDE DEF J
  <2>4. /\ SameSide("paused", jobs[j].status) /\ SameSide(jobs[j].status, jobs[j].status)
        /\ J \in JobMap
    BY <2>2, <2>3 DEF SameSide, Committed, Sets
  <2>5. CASE Save(J, pc, aborted)
    BY <1>13, <2>1, <2>2, <2>3, <2>4, <2>5, SaveStores, SaveMoves
  <2>6. CASE NoSave(jobs, pc)
    BY <1>1, <1>13, <2>1, <2>2, <2>3, <2>4, <2>6, SaveStores, SaveMoves
  <2> QED BY <2>1, <2>5, <2>6
<1>15. CASE RefreshDone(j)
  <2> DEFINE J == [jobs EXCEPT ![j].status = "paused", ![j].digest = NoDigest]
             K == [jobs EXCEPT ![j].status = "review", ![j].digest = rev[j].read]
             D == [jobs |-> J, limit |-> limit']
  <2>1. /\ \/ SaveOk(K, pc, aborted)
           \/ jobs' = J /\ pc' = pc /\ (disk' = disk \/ disk' = D)
        /\ UNCHANGED <<phase, wire, clicks>> /\ rev' = At(j, "releasing")
    BY <1>15 DEF RefreshDone, world
  <2>2. /\ pc[j] = "idle" /\ jobs[j].status \in {"review", "paused"} /\ phase # "down"
    BY <1>1, <1>15 DEF RefreshDone, ActivityOf
  <2>3. Sets(jobs, J, j, "paused")
    BY <1>1, SetStatusDigest DEF Status, Digests
  <2>4. Sets(jobs, K, j, "review")
    BY <1>1, SetStatusDigest DEF Status
  <2>5. D.jobs = J
    OBVIOUS
  <2> HIDE DEF J, K, D
  <2>6. /\ SameSide("paused", jobs[j].status) /\ SameSide("review", jobs[j].status)
        /\ J \in JobMap /\ K \in JobMap
    BY <2>2, <2>3, <2>4 DEF SameSide, Committed, Sets
  <2>7. CASE SaveOk(K, pc, aborted)
    <3>1. Stored(K) /\ Moves(K, pc)
      BY <2>6, <2>7, SaveStores, SaveMoves DEF Save
    <3> QED BY <1>13, <2>1, <2>2, <2>4, <2>6, <3>1
  <2>8. CASE jobs' = J /\ pc' = pc /\ (disk' = disk \/ disk' = D)
    <3>1. Stored(J) /\ Moves(J, pc)
      BY <2>5, <2>8 DEF Stored, Moves, Alike
    <3> QED BY <1>13, <2>1, <2>2, <2>3, <2>6, <3>1
  <2> QED BY <2>1, <2>7, <2>8
<1>16. CASE SubmitThrows(j) \/ SubmitReturns(j)
  <2>1. PICK s \in {"submitted", "submission_uncertain"} : SubmitEnds(j, s)
    BY <1>16 DEF SubmitThrows, SubmitReturns
  <2> DEFINE J == [jobs EXCEPT ![j].status = s, ![j].digest = NoDigest]
  <2>2. /\ Save(J, pc, aborted)
        /\ UNCHANGED <<phase, wire, clicks>> /\ rev' = At(j, "releasing")
    BY <2>1 DEF SubmitEnds, world
  <2>3. Sets(jobs, J, j, s)
    <3>1. s \in Status /\ NoDigest \in Digests
      BY DEF Status, Digests
    <3> QED BY <1>1, <3>1, SetStatusDigest
  <2> HIDE DEF J
  <2>4. /\ pc[j] = "idle" /\ jobs[j].status \in Committed /\ phase # "down"
    BY <1>1, <1>3, <1>16 DEF SubmitThrows, SubmitReturns, ActivityOf, Reviewing
  <2>5. SameSide(s, jobs[j].status) /\ J \in JobMap
    BY <2>3, <2>4 DEF SameSide, Committed, Sets
  <2> QED BY <1>13, <2>2, <2>3, <2>4, <2>5, SaveStores, SaveMoves
<1> QED BY <1>5, <1>6, <1>9, <1>10, <1>11, <1>12, <1>14, <1>15, <1>16

\* Shutdown, crash, restart, and the browser's connection.
LEMMA LifeKeeps ==
  ASSUME IInv, Close \/ DrainEnds \/ Stop \/ Restart \/ Connect \/ Disconnect
  PROVE  Kept
<1>1. /\ jobs \in JobMap /\ pc \in PcMap /\ disk \in File /\ disk.jobs \in JobMap
      /\ ActivityOf(jobs, pc, rev) /\ Alike(jobs, jobs)
  BY TypeSplit DEF IInv, QueueOK, ActivityInv, Alike, File
<1>2. ASSUME phase' # "down", UNCHANGED <<jobs, pc, disk, rev, wire, clicks>> PROVE Kept
  <2>1. Stored(jobs) /\ Moves(jobs, pc)
    BY <1>1, <1>2 DEF Stored, Moves
  <2> QED BY <1>1, <1>2, <2>1, StepKeeps
<1>3. CASE Close \/ Connect \/ Disconnect
  <2>2. CASE phase' # "down"
    BY <1>2, <1>3, <2>2 DEF Close, Connect, Disconnect, queue, world
  <2>3. CASE phase' = "down"
    <3>1. UNCHANGED <<jobs, pc, disk, rev, wire, clicks, phase>>
      BY <1>3, <2>3 DEF Close, Connect, Disconnect, queue, world
    <3> QED BY <3>1 DEF IInv, Kept, CommitInv, ActivityInv, OneLiveJobPerPosting,
                        Intended, Reviewing, ActivityOf, OneLiveJob
  <2> QED BY <2>2, <2>3
<1>4. CASE DrainEnds
  <2> DEFINE J == [j \in Jobs |-> Drained(jobs[j])]
  <2>1. \A j \in Jobs : /\ J[j] \in Entry /\ J[j].target = jobs[j].target
                        /\ SameSide(J[j].status, jobs[j].status) \/ J[j] = jobs[j]
                        /\ J[j].status = IF jobs[j].status \in {"running", "queued"} THEN "paused"
                                         ELSE IF jobs[j].status = "submitting"
                                              THEN "submission_uncertain" ELSE jobs[j].status
    <3> TAKE j \in Jobs
    <3>1. jobs[j] \in Entry
      BY <1>1 DEF JobMap
    <3> QED BY <3>1 DEF Entry, Drained, Status, Digests, SameSide, Committed
  <2>2. /\ Save(J, pc, aborted) /\ UNCHANGED <<rev, wire, clicks>> /\ phase' # "down"
    BY <1>4 DEF DrainEnds, world
  <2>3. J \in JobMap
    BY <2>1 DEF JobMap
  <2> HIDE DEF J
  <2>4. Alike(jobs, J)
    BY <2>1 DEF Alike, SameSide, Live, Committed
  <2>5. ActivityOf(J, pc, rev')
    BY <1>1, <2>1, <2>2 DEF ActivityOf, Committed
  <2>6. Stored(J) /\ Moves(J, pc)
    BY <2>2, <2>3, SaveStores, SaveMoves
  <2> QED BY <2>2, <2>4, <2>5, <2>6, StepKeeps
<1>5. ASSUME Alike(disk.jobs, jobs'), disk' = disk \/ Alike(disk.jobs, disk'.jobs),
             UNCHANGED <<wire, clicks>>, \A j \in Jobs : rev'[j].pc = "idle",
             \A j \in Jobs : pc'[j] = "idle"
      PROVE  Kept
  <2>1. Becomes(disk.jobs)
    BY <1>1, <1>5 DEF Becomes, IInv, CommitInv, OneLiveJobPerPosting
  <2>2. ActivityInv'
    BY <1>5 DEF ActivityInv, ActivityOf, Reviewing
  <2> QED BY <1>5, <2>1, <2>2, BecomesKeeps DEF IInv, Kept
<1>6. CASE Stop
  BY <1>5, <1>6 DEF Stop, world, Alike, NoReview
<1>7. CASE Restart
  <2> DEFINE J == [j \in Jobs |-> Recovered(disk.jobs[j])]
  <2>1. Alike(disk.jobs, J)
    <3> SUFFICES ASSUME NEW j \in Jobs
                 PROVE  LET K == Recovered(disk.jobs[j]) IN
                        /\ K.target = disk.jobs[j].target
                        /\ K.status = "absent" <=> disk.jobs[j].status = "absent"
                        /\ K.status \in Committed <=> disk.jobs[j].status \in Committed
                        /\ Live(K) <=> Live(disk.jobs[j])
      BY DEF Alike
    <3>1. disk.jobs[j] \in Entry
      BY <1>1 DEF JobMap
    <3> QED BY <3>1 DEF Entry, Recovered, Live, Committed
  <2>2. jobs' = J /\ disk' = [jobs |-> J, limit |-> limit'] /\ pc' = pc
        /\ UNCHANGED <<rev, wire, clicks>> /\ phase = "down"
    BY <1>7 DEF Restart, SaveOk, world
  <2> HIDE DEF J
  <2>3. \A j \in Jobs : rev'[j].pc = "idle" /\ pc'[j] = "idle"
    BY <2>2 DEF IInv, ActivityInv, Reviewing
  <2> QED BY <1>5, <2>1, <2>2, <2>3
<1> QED BY <1>3, <1>4, <1>6, <1>7

-----------------------------------------------------------------------------
(* The intention, the click and its landing.                                *)

\* A durable intention is new: an earlier one for the posting would be of
\* another live job.
LEMMA IntendsKeeps ==
  ASSUME IInv, NEW j \in Jobs, SubmitIntends(j)
  PROVE  CommitInv' /\ ActivityInv' /\ [Ledger!Next]_(Ledger!vars)
<1>1. /\ jobs \in JobMap /\ pc \in PcMap /\ ActivityOf(jobs, pc, rev) /\ Alike(jobs, jobs)
      /\ rev \in [Jobs -> [pc : RevPc, kind : {"refresh", "submit"},
                          digest : Digests, read : Digests]]
      /\ wire \in [Jobs -> Digests] /\ clicks \in [Targets -> Nat]
  BY TypeSplit DEF IInv, QueueOK, RestOK, ActivityInv, Alike
<1>2. /\ phase = "up" /\ UNCHANGED <<phase, wire, clicks>> /\ jobs[j].status = "review"
      /\ pc[j] = "idle" /\ rev[j].pc = "read"
  BY <1>1 DEF SubmitIntends, StillConfirmed, ActivityOf, world
<1>3. CASE SaveFails(jobs, pc) /\ rev' = At(j, "releasing")
  <2>1. rev'[j].pc = "releasing" /\ \A i \in Jobs \ {j} : rev'[i] = rev[i]
    BY <1>1, <1>3 DEF At
  <2>2. Stored(jobs) /\ Moves(jobs, pc)
    BY <1>1, <1>3, SaveStores, SaveMoves DEF Save
  <2>3. ActivityOf(jobs, pc, rev')
    BY <1>1, <2>1 DEF ActivityOf
  <2> QED BY <1>1, <1>2, <2>1, <2>2, <2>3, StepKeeps DEF Kept, Ledger!vars
<1>4. CASE /\ SaveOk([jobs EXCEPT ![j].status = "submitting"], pc, aborted)
           /\ rev' = At(j, "rechecking")
  <2> DEFINE J == [jobs EXCEPT ![j].status = "submitting"]
  <2>1. /\ Sets(jobs, J, j, "submitting") /\ jobs' = J /\ pc' = pc
        /\ disk' = [jobs |-> J, limit |-> limit']
    BY <1>1, <1>4, SetStatus DEF SaveOk, Status
  <2> HIDE DEF J
  <2>2. disk'.jobs = J
    BY <2>1
  <2>3. rev'[j].pc = "rechecking" /\ \A i \in Jobs \ {j} : rev'[i] = rev[i]
    BY <1>1, <1>4 DEF At
  <2>4. /\ OneLiveJob(jobs) /\ \A i \in Jobs : jobs[i].status \in Committed => Live(jobs[i])
        /\ Live(jobs[j]) /\ jobs[j].status \notin Committed /\ jobs[j].target \in Targets
    BY <1>2 DEF IInv, CommitInv, OneLiveJobPerPosting, Live, Committed
  <2>5. \A i \in Jobs : jobs[i].target = jobs[j].target => jobs[i].status \notin Committed
    BY <2>4 DEF OneLiveJob
  <2>6. clicks[jobs[j].target] = 0 /\ wire[j] = NoDigest
    BY <1>1, <2>4, <2>5 DEF IInv, CommitInv
  <2>7. OneLiveJob(J)
    BY <2>1, <2>4 DEF OneLiveJob, Sets, Live
  <2>8. \A i \in Jobs : /\ J[i].target = jobs[i].target
                        /\ J[i].status \in Committed <=> jobs[i].status \in Committed \/ i = j
                        /\ J[i].status = "absent" <=> jobs[i].status = "absent"
    BY <1>2, <2>1 DEF Sets, Committed
  <2>9. CommitInv'
    BY <1>2, <2>1, <2>2, <2>3, <2>4, <2>6, <2>7, <2>8
       DEF IInv, CommitInv, OneLiveJobPerPosting
  <2>10. ActivityInv'
    BY <1>1, <1>2, <2>1, <2>3 DEF ActivityInv, ActivityOf, Sets, Committed
  <2>11. Ledger!Intend(jobs[j].target)
    <3>1. jobs[j].target \notin Intended
      BY <2>5 DEF Intended, IInv, CommitInv
    <3>2. Intended' = Intended \cup {jobs[j].target}
      BY <2>2, <2>4, <2>8 DEF Intended, IInv, CommitInv
    <3> QED BY <1>2, <3>1, <3>2 DEF Ledger!Intend
  <2> QED BY <2>4, <2>9, <2>10, <2>11 DEF Ledger!Next
<1> QED BY <1>3, <1>4 DEF SubmitIntends

\* Sending the click, editing the page and losing a click keep everything.
LEMMA ClicksKeeps ==
  ASSUME IInv, NEW j \in Jobs, SubmitClicks(j) \/ ClickLost(j) \/ \E c \in Contents : Edit(j, c)
  PROVE  Kept
<1>1. /\ jobs \in JobMap /\ pc \in PcMap /\ ActivityOf(jobs, pc, rev)
      /\ rev \in [Jobs -> [pc : RevPc, kind : {"refresh", "submit"},
                          digest : Digests, read : Digests]]
      /\ wire \in [Jobs -> Digests]
  BY TypeSplit DEF IInv, QueueOK, RestOK, ActivityInv
<1>2. UNCHANGED <<phase, jobs, pc, disk, clicks>>
  BY DEF SubmitClicks, ClickLost, Edit, queue
<1>3. \A i \in Jobs : /\ wire'[i] # NoDigest => wire[i] # NoDigest \/ rev[i].pc = "rechecking"
                      /\ rev'[i].pc = "rechecking" =>
                           /\ rev[i].pc = "rechecking"
                           /\ (wire'[i] = wire[i] \/ wire'[i] = NoDigest)
                      /\ rev'[i].pc # rev[i].pc =>
                           rev[i].pc = "rechecking" /\ rev'[i].pc = "clicking"
  <2>1. CASE SubmitClicks(j)
    <3>1. rev'[j].pc = "clicking" /\ \A i \in Jobs \ {j} : rev'[i] = rev[i]
      BY <1>1, <2>1 DEF SubmitClicks, At
    <3> QED BY <1>1, <2>1, <3>1 DEF SubmitClicks
  <2>2. CASE ClickLost(j) \/ \E c \in Contents : Edit(j, c)
    BY <1>1, <2>2 DEF ClickLost, Edit
  <2> QED BY <2>1, <2>2
<1>4. CommitInv'
  BY <1>2, <1>3 DEF IInv, CommitInv, OneLiveJobPerPosting, OneLiveJob
<1>5. ActivityInv'
  BY <1>2, <1>3 DEF IInv, ActivityInv, ActivityOf, Reviewing
<1>6. UNCHANGED Intended
  BY <1>2 DEF Intended
<1> QED BY <1>2, <1>4, <1>5, <1>6 DEF Kept

\* A click on its way is the first of its posting.
LEMMA LandsKeeps ==
  ASSUME IInv, NEW j \in Jobs, ClickLands(j)
  PROVE  CommitInv' /\ ActivityInv' /\ Ledger!Next
<1>1. wire \in [Jobs -> Digests] /\ clicks \in [Targets -> Nat]
  BY TypeSplit DEF IInv, RestOK
<1>2. /\ UNCHANGED <<phase, jobs, pc, disk, rev>> /\ wire[j] # NoDigest
      /\ wire' = [wire EXCEPT ![j] = NoDigest]
      /\ clicks' = [clicks EXCEPT ![jobs[j].target] = @ + 1]
  BY DEF ClickLands, queue
<1>3. /\ jobs[j].status \in Committed /\ jobs[j].target \in Targets
      /\ clicks[jobs[j].target] = 0 /\ rev[j].pc # "rechecking"
  BY <1>2 DEF IInv, CommitInv, Committed
<1>4. \A i \in Jobs \ {j} : jobs[i].status \in Committed => jobs[i].target # jobs[j].target
  BY <1>3 DEF IInv, CommitInv, OneLiveJobPerPosting, OneLiveJob, Live, Committed
<1>5. clicks' = [clicks EXCEPT ![jobs[j].target] = 1]
  BY <1>1, <1>2, <1>3
<1>6. ASSUME NEW i \in Jobs, rev'[i].pc = "rechecking" \/ wire'[i] # NoDigest
      PROVE  clicks'[jobs'[i].target] = 0
  <2>1. i # j
    BY <1>1, <1>2, <1>3, <1>6
  <2>2. jobs[i].status \in Committed /\ clicks[jobs[i].target] = 0 /\ jobs[i].target \in Targets
    BY <1>1, <1>2, <1>6, <2>1 DEF IInv, CommitInv, Committed
  <2> QED BY <1>1, <1>2, <1>4, <1>5, <2>1, <2>2
<1>7. ASSUME NEW t \in Targets, clicks'[t] > 0
      PROVE  \E i \in Jobs : jobs'[i].target = t /\ jobs'[i].status \in Committed
  BY <1>1, <1>2, <1>3, <1>5, <1>7 DEF IInv, CommitInv
<1>8. CommitInv'
  BY <1>1, <1>2, <1>6, <1>7 DEF IInv, CommitInv, OneLiveJobPerPosting, OneLiveJob
<1>9. ActivityInv'
  BY <1>2 DEF IInv, ActivityInv, ActivityOf, Reviewing
<1>10. Ledger!Click(jobs[j].target)
  <2>1. jobs[j].target \in Intended
    BY <1>3 DEF Intended, IInv, CommitInv
  <2>2. Intended' = Intended
    BY <1>2 DEF Intended
  <2> QED BY <1>3, <1>5, <2>1, <2>2 DEF Ledger!Click
<1> QED BY <1>3, <1>8, <1>9, <1>10 DEF Ledger!Next

-----------------------------------------------------------------------------
\* The inductive invariant holds of a queue without jobs.
LEMMA IInvInit == Init => IInv
<1> SUFFICES ASSUME Init PROVE IInv
  OBVIOUS
<1>1. TypeOK
  BY TypeInit
<1>2. \A j \in Jobs : /\ jobs[j] = Absent /\ disk.jobs[j] = Absent /\ pc[j] = "idle"
                      /\ rev[j] = NoReview /\ wire[j] = NoDigest
  BY DEF Init
<1>3. CommitInv
  BY <1>2 DEF Init, CommitInv, OneLiveJobPerPosting, OneLiveJob, Live, Absent, NoReview,
              Committed
<1>4. ActivityInv
  BY <1>2 DEF ActivityInv, ActivityOf, NoReview, Reviewing
<1> QED BY <1>1, <1>3, <1>4 DEF IInv

\* IInv is inductive, and every step is a step of the ledger or a stutter.
LEMMA IInvNext ==
  ASSUME IInv, [Next]_vars
  PROVE  IInv' /\ [Ledger!Next]_(Ledger!vars)
<1>1. TypeOK'
  BY TypeNext DEF IInv, CommitInv, Committed
<1>2. ASSUME Kept PROVE IInv' /\ [Ledger!Next]_(Ledger!vars)
  BY <1>1, <1>2 DEF Kept, IInv, Ledger!vars
<1>3. CASE UNCHANGED vars
  <2>1. UNCHANGED <<phase, jobs, disk, pc, rev, wire, clicks>>
    BY <1>3 DEF vars, world
  <2>2. CommitInv'
    BY <2>1 DEF IInv, CommitInv, OneLiveJobPerPosting, OneLiveJob
  <2>3. ActivityInv'
    BY <2>1 DEF IInv, ActivityInv, ActivityOf, Reviewing
  <2>4. UNCHANGED Intended
    BY <2>1 DEF Intended
  <2> QED BY <1>2, <2>1, <2>2, <2>3, <2>4 DEF Kept
<1>4. ASSUME NEW j \in Jobs, RunStep(j) \/ Deadline(j)
      PROVE  Kept
  BY <1>4, RunKeeps DEF IInv
<1>5. ASSUME NEW j \in Jobs, ReviewStep(j)
      PROVE  IInv' /\ [Ledger!Next]_(Ledger!vars)
  BY <1>1, <1>2, <1>5, ReviewKeeps, IntendsKeeps, ClicksKeeps DEF ReviewStep, IInv
<1>6. ASSUME NEW j \in Jobs, OwnerStep(j)
      PROVE  Kept
  BY <1>6, RequestKeeps, BorderKeeps, ReviewKeeps, ClicksKeeps DEF OwnerStep
<1>7. ASSUME NEW j \in Jobs, ClickLands(j) \/ ClickLost(j)
      PROVE  IInv' /\ [Ledger!Next]_(Ledger!vars)
  BY <1>1, <1>2, <1>7, LandsKeeps, ClicksKeeps DEF IInv
<1>8. CASE \E t \in Targets, b \in BOOLEAN : AddNew(t, b)
  BY <1>2, <1>8, BorderKeeps
<1>9. CASE (\E n \in Limits : SetConcurrency(n)) \/ RecoverStorage \/ ConfigureFails \/ Tick
  BY <1>2, <1>9, RequestKeeps
<1>10. CASE Close \/ DrainEnds \/ Stop \/ Restart \/ Connect \/ Disconnect
  BY <1>2, <1>10, LifeKeeps
<1> QED BY <1>1, <1>2, <1>3, <1>4, <1>5, <1>6, <1>7, <1>8, <1>9, <1>10 DEF Next

\* The submission invariant holds of every behaviour of the queue.
THEOREM QueueInvariant == Spec => []IInv
<1>1. IInv /\ [Next]_vars => IInv'
  BY IInvNext
<1> QED BY <1>1, IInvInit, PTL DEF Spec

\* Every variable keeps its type.
THEOREM QueueTypeOK == Spec => []TypeOK
<1>1. IInv => TypeOK
  BY DEF IInv
<1> QED BY <1>1, QueueInvariant, PTL

\* add(), remove and restore never leave two live jobs for a posting.
THEOREM QueueOneLiveJob == Spec => []OneLiveJobPerPosting
<1>1. IInv => OneLiveJobPerPosting
  BY DEF IInv, CommitInv
<1> QED BY <1>1, QueueInvariant, PTL

\* A crash at any point leaves a file that knows of every click.
THEOREM QueueIntentBeforeClick == Spec => []IntentBeforeClick
<1>1. IInv => IntentBeforeClick
  BY DEF IInv, CommitInv, IntentBeforeClick
<1> QED BY <1>1, QueueInvariant, PTL

\* No job is filled while a review action works on its page.
THEOREM QueueFillAndReviewExclusive == Spec => []FillAndReviewExclusive
<1>1. IInv => FillAndReviewExclusive
  <2> SUFFICES ASSUME IInv, NEW j \in Jobs, Reviewing(j), rev[j].pc # "releasing"
               PROVE  pc[j] = "idle"
    BY DEF FillAndReviewExclusive
  <2>1. rev[j].pc \in RevPc
    BY TypeSplit DEF IInv, RestOK
  <2> QED BY <2>1 DEF IInv, ActivityInv, ActivityOf, RevPc, Reviewing
<1> QED BY <1>1, QueueInvariant, PTL

\* The queue implements SubmitOnce: an application is clicked at most once,
\* and only after a durable intention that is never withdrawn.
THEOREM QueueSubmitsOnce == Spec => SubmitsOnce
<1>1. Init => Ledger!Init
  BY DEF Init, Absent, Ledger!Init, Intended, Committed
<1>2. IInv /\ [Next]_vars => [Ledger!Next]_(Ledger!vars)
  BY IInvNext
<1> QED BY <1>1, <1>2, QueueInvariant, PTL DEF Spec, SubmitsOnce, Ledger!Spec

-----------------------------------------------------------------------------
(* The running jobs: one for each employer, within the limit, and told to   *)
(* stop when the queue stops.                                               *)

\* The running jobs of the counters P have an employer each.
Fitting(J, P) ==
  \A i, j \in Running(P) : i # j => ~SameEmployer(J[i].target, J[j].target)

Stopped == storageError \/ phase \in {"draining", "closed"}
RunInv == SerialPerEmployer /\ StoppedMeansAborted

\* What StartsWithinLimit says of a step.
StartStep ==
  Running(pc') \subseteq Running(pc) \/
    (Cardinality(Running(pc')) <= limit' /\ connected /\ phase = "up")

\* The last of the jobs a walk starts.
LEMMA LastOf ==
  ASSUME NEW T \in SUBSET Jobs, T # {}
  PROVE  \E m \in T : \A i \in T : i <= m
<1> DEFINE U == {MaxJobs - i : i \in T}
<1>1. MaxJobs \in Nat /\ \A i \in T : i \in 1 .. MaxJobs
  BY QueueAssumption DEF Jobs
<1>2. U \subseteq Nat /\ U # {}
  BY <1>1
<1>3. PICK n \in U : \A m \in U : ~(m < n)
  <2> HIDE DEF U
  <2>1. PICK n \in U : \A m \in U : ~(<<m, n>> \in OpToRel(<, Nat))
    BY <1>2, NatLessThanWellFounded, WFMin
  <2>2. \A m \in U : ~(m < n)
    BY <1>2, <2>1, Zenon DEF OpToRel
  <2> QED BY <2>2
<1>4. PICK m \in T : n = MaxJobs - m
  BY <1>3
<1>5. \A i \in T : i <= m
  BY <1>1, <1>3, <1>4
<1> QED BY <1>5

\* One more job than those of R stays within a limit that R is below.
LEMMA OneMore ==
  ASSUME NEW R \in SUBSET Jobs, NEW j \in Jobs, NEW n \in Nat, Cardinality(R) < n
  PROVE  Cardinality(R \cup {j}) <= n
<1>1. IsFiniteSet(Jobs)
  BY FS_Interval, QueueAssumption DEF Jobs
<1>2. IsFiniteSet(R)
  BY <1>1, FS_Subset
<1>3. Cardinality(R) \in Nat
  BY <1>2, FS_CardinalityType
<1>4. Cardinality(R \cup {j}) = IF j \in R THEN Cardinality(R) ELSE Cardinality(R) + 1
  BY <1>2, FS_AddElement
<1> QED BY <1>3, <1>4

\* Postings of one employer are so in either order.
LEMMA EmployerSymmetric ==
  ASSUME NEW s \in Targets, NEW t \in Targets, SameEmployer(s, t)
  PROVE  SameEmployer(t, s)
  BY TargetAssumption DEF SameEmployer

\* A walk that starts the jobs of T, each when those before it run.
Walk(J, P, T) ==
  \A j \in T : Startable(J, P, Running(P) \cup Before(T, j), j)

\* Running jobs of known postings, and the queued ones likewise.
Known(J, P) ==
  \A j \in Jobs : P[j] # "idle" \/ J[j].status = "queued" => J[j].target \in Targets

LEMMA WalkFits ==
  ASSUME NEW J, NEW P \in PcMap, NEW T \in SUBSET Jobs, Walk(J, P, T),
         Fitting(J, P), Known(J, P), limit' \in Nat \ {0}
  PROVE  /\ Running(Opening(P, T)) = Running(P) \cup T
         /\ Fitting(J, Opening(P, T))
         /\ T = {} \/ Cardinality(Running(Opening(P, T))) <= limit'
<1>1. Running(Opening(P, T)) = Running(P) \cup T
  BY DEF Running, Opening
<1>2. ASSUME NEW i \in Running(P) \cup T, NEW j \in T, i # j, i \in Running(P) \/ i < j
      PROVE  /\ ~SameEmployer(J[i].target, J[j].target)
             /\ ~SameEmployer(J[j].target, J[i].target)
  <2>1. Startable(J, P, Running(P) \cup Before(T, j), j)
    BY DEF Walk
  <2>2. i \in Running(P) \cup Before(T, j)
    BY <1>2 DEF Before
  <2>3. ~SameEmployer(J[j].target, J[i].target)
    BY <2>1, <2>2 DEF Startable
  <2>4. J[j].target \in Targets
    BY <2>1 DEF Startable, Known
  <2>5. J[i].target \in Targets
    <3>1. CASE i \in Running(P)
      BY <3>1 DEF Running, Known
    <3>2. CASE i \in T
      BY <3>2 DEF Walk, Startable, Known
    <3> QED BY <3>1, <3>2
  <2> QED BY <2>3, <2>4, <2>5, EmployerSymmetric
<1>3. Fitting(J, Opening(P, T))
  <2> SUFFICES ASSUME NEW i \in Running(P) \cup T, NEW j \in Running(P) \cup T, i # j
               PROVE  ~SameEmployer(J[i].target, J[j].target)
    BY <1>1 DEF Fitting
  <2>1. CASE i \in Running(P) /\ j \in Running(P)
    BY <2>1 DEF Fitting
  <2>2. CASE j \in T /\ (i \in Running(P) \/ i < j)
    BY <1>2, <2>2
  <2>3. CASE i \in T /\ (j \in Running(P) \/ j < i)
    BY <1>2, <2>3
  <2>4. i < j \/ j < i
    BY QueueAssumption DEF Jobs, Running
  <2> QED BY <2>1, <2>2, <2>3, <2>4
<1>4. ASSUME T # {} PROVE Cardinality(Running(Opening(P, T))) <= limit'
  <2>1. PICK m \in T : \A i \in T : i <= m
    BY <1>4, LastOf
  <2>2. Cardinality(Running(P) \cup Before(T, m)) < limit'
    BY DEF Walk, Startable
  <2>3. Running(P) \cup T = (Running(P) \cup Before(T, m)) \cup {m}
    <3>1. \A i \in T : i < m \/ i = m
      BY <2>1, QueueAssumption DEF Jobs
    <3>2. T = Before(T, m) \cup {m}
      BY <3>1, QueueAssumption DEF Before, Jobs
    <3> QED BY <3>2
  <2>4. (Running(P) \cup Before(T, m)) \in SUBSET Jobs
    BY DEF Running, Before
  <2> QED BY <1>1, <2>2, <2>3, <2>4, OneMore
<1> QED BY <1>1, <1>3, <1>4

\* The walks pump() can make: all of it, or what comes before a failed save.
LEMMA StartsWalk ==
  ASSUME NEW J, NEW P, NEW S \in SUBSET Jobs, Starts(J, P, S)
  PROVE  Walk(J, P, S) /\ \A f \in S : Walk(J, P, Before(S, f))
<1>1. ASSUME NEW f \in S, NEW j \in Before(S, f)
      PROVE  Before(Before(S, f), j) = Before(S, j)
  <2>1. j \in S /\ f \in S /\ j < f /\ \A i \in S : i \in Nat
    BY <1>1, QueueAssumption DEF Before, Jobs
  <2>2. \A i \in S : i < j => i < f
    BY <2>1
  <2>3. \A i : i \in Before(Before(S, f), j) <=> i \in Before(S, j)
    BY <2>2 DEF Before
  <2> QED BY <2>3
<1>2. \A f \in S : Before(S, f) \subseteq S
  BY DEF Before
<1> QED BY <1>1, <1>2 DEF Walk, Starts

-----------------------------------------------------------------------------
(* What a step does to the running jobs.                                    *)

\* A step that starts nothing, moves no running job to another posting and
\* tells those that go on to stop if the queue stops.
LEMMA QuietKeeps ==
  ASSUME RunInv, Running(pc') \subseteq Running(pc),
         \A j \in Running(pc') : jobs'[j].target = jobs[j].target,
         Stopped' => Running(pc') \subseteq aborted'
  PROVE  RunInv' /\ StartStep
<1>1. SerialPerEmployer'
  BY DEF RunInv, SerialPerEmployer
<1>2. StoppedMeansAborted'
  BY DEF StoppedMeansAborted, Stopped
<1> QED BY <1>1, <1>2 DEF RunInv, StartStep

\* The jobs still running under the counters P are running already, for the
\* same posting, and A forgets none of those told to stop.
Goes(J, P, A) ==
  /\ J \in JobMap /\ P \in PcMap
  /\ \A j \in Running(P) : j \in Running(pc) /\ J[j].target = jobs[j].target
  /\ aborted \cap Running(P) \subseteq A
  /\ Known(J, P)

\* A walk, after a save or after the storage recovered.
Walks(J, P, A) ==
  \E D : Pumped(J, P, A, D, storageError) \/ Pumped(J, P, A, D, FALSE)

\* What the writes of the queue have in common: a save that works or is put
\* off, one that fails, a walk.
Writes(J, P, A) ==
  \/ jobs' = J /\ pc' = P /\ aborted' = A /\ storageError' \in {storageError, FALSE}
  \/ jobs' = J /\ pc' = P /\ aborted' = Running(P)
  \/ Walks(J, P, A)

LEMMA WritesKeep ==
  ASSUME RunInv, NEW J, NEW P, NEW A, Goes(J, P, A), Writes(J, P, A),
         phase' = phase \/ (phase = "draining" /\ phase' = "closed"),
         limit' \in Nat \ {0}
  PROVE  RunInv' /\ StartStep
<1>1. Stopped => Running(P) \subseteq A
  BY DEF RunInv, StoppedMeansAborted, Stopped, Goes
<1>2. ASSUME jobs' = J, pc' = P,
             \/ aborted' = A /\ storageError' \in {storageError, FALSE}
             \/ aborted' = Running(P)
      PROVE  RunInv' /\ StartStep
  <2>1. Stopped' => Running(P) \subseteq aborted'
    <3>1. CASE aborted' = A /\ storageError' \in {storageError, FALSE}
      BY <1>1, <3>1 DEF Stopped
    <3>2. CASE aborted' = Running(P)
      BY <3>2
    <3> QED BY <1>2, <3>1, <3>2
  <2> QED BY <1>2, <2>1, QuietKeeps DEF Goes
<1>3. ASSUME NEW D, NEW E \in {storageError, FALSE}, Pumped(J, P, A, D, E)
      PROVE  RunInv' /\ StartStep
  <2>1. CASE phase # "up" \/ E \/ ~connected
    BY <1>2, <1>3, <2>1 DEF Pumped
  <2>2. CASE ~(phase # "up" \/ E \/ ~connected)
    <3>1. PICK S \in SUBSET Jobs :
            /\ Starts(J, P, S)
            /\ \/ /\ jobs' = Started(J, S) /\ pc' = Opening(P, S)
                  /\ storageError' = FALSE
               \/ \E f \in S : LET T == Before(S, f) IN
                    /\ jobs' = [Started(J, T) EXCEPT ![f].status = "paused"]
                    /\ pc' = Opening(P, T)
                    /\ aborted' = Running(Opening(P, T))
      BY <1>3, <2>2 DEF Pumped
    <3>2. Walk(J, P, S) /\ \A f \in S : Walk(J, P, Before(S, f))
      BY <3>1, StartsWalk
    <3>3. Fitting(J, P)
      BY DEF Goes, Fitting, RunInv, SerialPerEmployer
    <3>4. ASSUME NEW T \in SUBSET Jobs, Walk(J, P, T), pc' = Opening(P, T),
                 \A j \in Jobs : jobs'[j].target = J[j].target,
                 aborted' = Running(pc') \/ storageError' = FALSE
          PROVE  RunInv' /\ StartStep
      <4>1. /\ Running(Opening(P, T)) = Running(P) \cup T
            /\ Fitting(J, Opening(P, T))
            /\ T = {} \/ Cardinality(Running(Opening(P, T))) <= limit'
        BY <3>3, <3>4, WalkFits DEF Goes
      <4>2. SerialPerEmployer'
        BY <3>4, <4>1 DEF SerialPerEmployer, Fitting, Running
      <4>3. StoppedMeansAborted'
        BY <2>2, <3>4 DEF StoppedMeansAborted
      <4>4. StartStep
        BY <2>2, <3>4, <4>1 DEF StartStep, Goes
      <4> QED BY <4>2, <4>3, <4>4 DEF RunInv
    <3>5. ASSUME NEW T \in SUBSET Jobs
          PROVE  \A j \in Jobs : /\ Started(J, T)[j].target = J[j].target
                                 /\ Started(J, T)[j] \in Entry
      BY DEF Started, Goes, JobMap, Entry, Status
    <3>6. CASE /\ jobs' = Started(J, S) /\ pc' = Opening(P, S)
               /\ storageError' = FALSE
      BY <3>2, <3>4, <3>5, <3>6
    <3>7. ASSUME NEW f \in S, NEW T, T = Before(S, f),
                 jobs' = [Started(J, T) EXCEPT ![f].status = "paused"],
                 pc' = Opening(P, T), aborted' = Running(Opening(P, T))
          PROVE  RunInv' /\ StartStep
      <4>1. T \in SUBSET Jobs /\ Walk(J, P, T) /\ f \in Jobs
        BY <3>2, <3>7 DEF Before
      <4>2. \A j \in Jobs : jobs'[j].target = J[j].target
        BY <3>5, <3>7, <4>1 DEF Started, Entry
      <4> QED BY <3>4, <3>7, <4>1, <4>2
    <3> QED BY <3>1, <3>6, <3>7
  <2> QED BY <2>1, <2>2
<1> QED BY <1>2, <1>3 DEF Writes, Walks

\* The writes by the names the queue has for them.
LEMMA WritesNamed ==
  ASSUME NEW J, NEW P, NEW A
  PROVE  /\ SaveOk(J, P, A) => Writes(J, P, A)
         /\ SaveFails(J, P) => Writes(J, P, A)
         /\ NoSave(J, P) => Writes(J, P, aborted)
         /\ SaveThenPump(J, P, A) => Writes(J, P, A)
         /\ \A D : Pumped(J, P, A, D, storageError) => Writes(J, P, A)
         /\ \A D : Pumped(J, P, A, D, FALSE) => Writes(J, P, A)
<1>1. /\ SaveOk(J, P, A) => Writes(J, P, A)
      /\ SaveFails(J, P) => Writes(J, P, A)
      /\ NoSave(J, P) => Writes(J, P, aborted)
  BY DEF SaveOk, SaveFails, NoSave, Writes
<1>2. ASSUME NEW D, Pumped(J, P, A, D, storageError) \/ Pumped(J, P, A, D, FALSE)
      PROVE  Writes(J, P, A)
  BY <1>2 DEF Writes, Walks
<1> QED BY <1>1, <1>2 DEF SaveThenPump

\* Entries that only set one job's status or other fields, under the same or
\* fewer running jobs.
LEMMA SetsGoes ==
  ASSUME IInv, NEW J, NEW j \in Jobs, NEW s, Sets(jobs, J, j, s),
         NEW P \in PcMap, \A i \in Jobs : P[i] # "idle" => pc[i] # "idle",
         NEW A, aborted \cap Running(P) \subseteq A, jobs[j].status # "absent"
  PROVE  Goes(J, P, A)
<1>1. J \in JobMap /\ \A i \in Jobs : J[i].target = jobs[i].target
  BY DEF Sets
<1>2. \A i \in Jobs : jobs[i].status # "absent" => jobs[i].target \in Targets
  BY DEF IInv, CommitInv
<1>3. \A i \in Jobs : pc[i] # "idle" => jobs[i].status # "absent"
  BY DEF IInv, ActivityInv, ActivityOf
<1>4. \A i \in Jobs : i # j /\ J[i].status = "queued" => jobs[i].status # "absent"
  BY DEF Sets
<1>5. Known(J, P)
  BY <1>1, <1>2, <1>3, <1>4 DEF Known
<1> QED BY <1>1, <1>5 DEF Goes, Running

\* The entries as they are, likewise.
LEMMA SameGoes ==
  ASSUME IInv, NEW P \in PcMap, \A i \in Jobs : P[i] # "idle" => pc[i] # "idle",
         NEW A, aborted \cap Running(P) \subseteq A
  PROVE  Goes(jobs, P, A)
<1>1. jobs \in JobMap
  BY TypeSplit DEF IInv, QueueOK
<1>2. \A i \in Jobs : jobs[i].status # "absent" => jobs[i].target \in Targets
  BY DEF IInv, CommitInv
<1>3. \A i \in Jobs : pc[i] # "idle" => jobs[i].status # "absent"
  BY DEF IInv, ActivityInv, ActivityOf
<1>4. Known(jobs, P)
  BY <1>2, <1>3 DEF Known
<1> QED BY <1>1, <1>4 DEF Goes, Running

\* The steps of run() and its deadline.
LEMMA RunRuns ==
  ASSUME IInv, RunInv, NEW j \in Jobs, RunStep(j) \/ Deadline(j)
  PROVE  RunInv' /\ StartStep
<1>1. /\ jobs \in JobMap /\ pc \in PcMap /\ pc[j] # "idle" /\ found[j] \in Digests
      /\ limit' = limit /\ limit' \in Nat \ {0} /\ phase' = phase
      /\ aborted \subseteq Running(pc)
  BY TypeSplit DEF IInv, QueueOK, RestOK, RunStep, RunOpens, RunOpenFails,
     FillSucceeds, FillFails, RunCloses, RunUnwinds, Deadline, others
<1>2. /\ jobs[j].status # "absent"
      /\ {"running", "paused", "review"} \subseteq Status
      /\ {"idle", "filling", "closing", "unwinding"} \subseteq RunPc
  BY <1>1 DEF IInv, ActivityInv, ActivityOf, Status, RunPc
<1>3. ASSUME NEW s, NEW J, Sets(jobs, J, j, s), NEW P \in PcMap, NEW A, Writes(J, P, A),
             \A i \in Jobs \ {j} : P[i] = pc[i], aborted \cap Running(P) \subseteq A
      PROVE  RunInv' /\ StartStep
  <2>1. \A i \in Jobs : P[i] # "idle" => pc[i] # "idle"
    BY <1>1, <1>3
  <2> QED BY <1>1, <1>2, <1>3, <2>1, SetsGoes, WritesKeep
<1>4. ASSUME NEW J, NEW s, Sets(jobs, J, j, s), Caught(J, j) PROVE RunInv' /\ StartStep
  <2> DEFINE K == [J EXCEPT ![j].status = "paused"]
             P == [pc EXCEPT ![j] = "unwinding"]
  <2>1. Sets(jobs, K, j, "paused")
    BY <1>2, <1>4, SetStatus, SetTwice DEF Sets
  <2>2. NoSave(K, P) /\ P \in PcMap /\ \A i \in Jobs \ {j} : P[i] = pc[i]
    BY <1>1, <1>2, <1>4, SetPc DEF Caught
  <2> HIDE DEF K, P
  <2>3. Writes(K, P, aborted)
    BY <2>2, WritesNamed
  <2> QED BY <1>3, <2>1, <2>2, <2>3
<1>5. ASSUME Caught(jobs, j) PROVE RunInv' /\ StartStep
  BY <1>1, <1>4, <1>5, SetNothing
<1>6. CASE RunOpens(j)
  <2> DEFINE J == [jobs EXCEPT ![j].tab = TRUE]
             K == [J EXCEPT ![j].status = "paused"]
             P == [pc EXCEPT ![j] = "filling"]
             Q == [pc EXCEPT ![j] = "unwinding"]
  <2>1. Sets(jobs, J, j, jobs[j].status)
    BY <1>1, SetTab
  <2>2. Sets(jobs, K, j, "paused")
    <3> HIDE DEF J
    <3>1. J \in JobMap
      BY <2>1 DEF Sets
    <3>2. Sets(J, K, j, "paused")
      BY <1>2, <3>1, SetStatus
    <3> HIDE DEF K
    <3> QED BY <2>1, <3>2, SetTwice
  <2>3. P \in PcMap /\ \A i \in Jobs \ {j} : P[i] = pc[i]
    BY <1>1, <1>2, SetPc
  <2>4. Q \in PcMap /\ \A i \in Jobs \ {j} : Q[i] = pc[i]
    BY <1>1, <1>2, SetPc
  <2>5. Caught(J, j) \/ SaveOk(J, P, aborted) \/ SaveFails(K, Q)
    BY <1>6 DEF RunOpens
  <2> HIDE DEF J, K, P, Q
  <2>6. CASE Caught(J, j)
    BY <1>4, <2>1, <2>6
  <2>7. CASE SaveOk(J, P, aborted)
    BY <1>3, <2>1, <2>3, <2>7, WritesNamed
  <2>8. CASE SaveFails(K, Q)
    BY <1>3, <2>2, <2>4, <2>8, WritesNamed
  <2> QED BY <2>5, <2>6, <2>7, <2>8
<1>7. CASE RunOpenFails(j) \/ FillFails(j)
  BY <1>5, <1>7 DEF RunOpenFails, FillFails
<1>8. ASSUME NEW c \in Contents, FillSucceeds(j, c) PROVE RunInv' /\ StartStep
  <2>1. CASE j \in aborted
    BY <1>5, <1>8, <2>1 DEF FillSucceeds
  <2>2. CASE j \notin aborted
    <3> DEFINE P == [pc EXCEPT ![j] = "closing"]
    <3>1. NoSave(jobs, P) /\ P \in PcMap /\ \A i \in Jobs \ {j} : P[i] = pc[i]
      BY <1>1, <1>2, <1>8, <2>2, SetPc DEF FillSucceeds
    <3> HIDE DEF P
    <3>2. Writes(jobs, P, aborted)
      BY <3>1, WritesNamed
    <3> QED BY <1>1, <1>3, <3>1, <3>2, SetNothing
  <2> QED BY <2>1, <2>2
<1>9. CASE RunCloses(j)
  <2> DEFINE J == [jobs EXCEPT ![j].status = "review", ![j].digest = found[j],
                               ![j].reviewed = TRUE]
             K == [J EXCEPT ![j].status = "paused"]
             P == [pc EXCEPT ![j] = "idle"]
             Q == [pc EXCEPT ![j] = "unwinding"]
             D == [jobs |-> J, limit |-> limit']
  <2>1. Sets(jobs, J, j, "review")
    BY <1>1, <1>2, SetReviewed
  <2>2. Sets(jobs, K, j, "paused")
    <3> HIDE DEF J
    <3>1. J \in JobMap
      BY <2>1 DEF Sets
    <3>2. Sets(J, K, j, "paused")
      BY <1>2, <3>1, SetStatus
    <3> HIDE DEF K
    <3> QED BY <2>1, <3>2, SetTwice
  <2>3. P \in PcMap /\ P[j] = "idle" /\ \A i \in Jobs \ {j} : P[i] = pc[i]
    BY <1>1, <1>2, SetPc
  <2>4. Q \in PcMap /\ \A i \in Jobs \ {j} : Q[i] = pc[i]
    BY <1>1, <1>2, SetPc
  <2>5. \/ Caught(jobs, j) \/ SaveFails(K, Q)
        \/ Pumped(J, P, aborted \ {j}, D, storageError)
        \/ jobs' = J /\ pc' = P /\ aborted' = Running(P)
    BY <1>9 DEF RunCloses, RunPublishes
  <2> HIDE DEF J, K, P, Q, D
  <2>6. CASE SaveFails(K, Q)
    BY <1>3, <2>2, <2>4, <2>6, WritesNamed
  <2>7. aborted \cap Running(P) \subseteq aborted \ {j}
    BY <2>3 DEF Running
  <2>8. CASE Pumped(J, P, aborted \ {j}, D, storageError)
    BY <1>3, <2>1, <2>3, <2>7, <2>8, WritesNamed
  <2>9. CASE jobs' = J /\ pc' = P /\ aborted' = Running(P)
    <3>1. Writes(J, P, aborted)
      BY <2>9 DEF Writes
    <3> QED BY <1>3, <2>1, <2>3, <3>1
  <2> QED BY <1>5, <2>5, <2>6, <2>8, <2>9
<1>10. CASE RunUnwinds(j)
  <2> DEFINE P == [pc EXCEPT ![j] = "idle"]
  <2>1. P \in PcMap /\ P[j] = "idle" /\ \A i \in Jobs \ {j} : P[i] = pc[i]
    BY <1>1, <1>2, SetPc
  <2>2. SaveThenPump(jobs, P, aborted \ {j})
    BY <1>10 DEF RunUnwinds, RunEnds
  <2> HIDE DEF P
  <2>3. aborted \cap Running(P) \subseteq aborted \ {j}
    BY <2>1 DEF Running
  <2> QED BY <1>1, <1>3, <2>1, <2>2, <2>3, SetNothing, WritesNamed
<1>11. CASE Deadline(j)
  <2>1. Writes(jobs, pc, aborted \cup {j})
    BY <1>11 DEF Deadline, Writes
  <2> QED BY <1>1, <1>3, <2>1, SetNothing
<1> QED BY <1>6, <1>7, <1>8, <1>9, <1>10, <1>11 DEF RunStep

\* A step that leaves jobs, fills, aborts, storage error and phase alone.
LEMMA StillKeeps ==
  ASSUME RunInv, UNCHANGED <<jobs, pc, aborted, storageError, phase>>
  PROVE  RunInv' /\ StartStep
<1>1. Stopped' => Running(pc') \subseteq aborted'
  BY DEF RunInv, StoppedMeansAborted, Stopped
<1> QED BY <1>1, QuietKeeps

\* The requests of the owner and the timer.
LEMMA RequestRuns ==
  ASSUME IInv, RunInv, limit' \in Nat \ {0},
         \/ \E t \in Targets, b \in BOOLEAN : AddNew(t, b)
         \/ \E n \in Limits : SetConcurrency(n)
         \/ RecoverStorage \/ ConfigureFails \/ Tick
         \/ \E j \in Jobs : \/ \E b \in BOOLEAN : AddKnown(j, b)
                            \/ Pause(j) \/ Retry(j) \/ Remove(j) \/ Restore(j)
  PROVE  RunInv' /\ StartStep
<1>1. /\ jobs \in JobMap /\ pc \in PcMap /\ aborted \subseteq Running(pc)
      /\ \A i \in Jobs : pc[i] # "idle" => jobs[i].status # "absent"
      /\ \A i \in Jobs : jobs[i].status # "absent" => jobs[i].target \in Targets
  BY TypeSplit DEF IInv, QueueOK, ActivityInv, ActivityOf, CommitInv
<1>2. ASSUME NEW A, aborted \subseteq A, Writes(jobs, pc, A), phase' = phase
      PROVE  RunInv' /\ StartStep
  BY <1>1, <1>2, SameGoes, WritesKeep
<1>3. ASSUME NEW j \in Jobs, NEW J, NEW s, Sets(jobs, J, j, s), jobs[j].status # "absent",
             NEW A, aborted \subseteq A, Writes(J, pc, A), phase' = phase
      PROVE  RunInv' /\ StartStep
  BY <1>1, <1>3, SetsGoes, WritesKeep
<1>4. ASSUME SaveFails(jobs, pc), phase' = phase PROVE RunInv' /\ StartStep
  BY <1>2, <1>4, WritesNamed
<1>5. ASSUME NEW t \in Targets, NEW b \in BOOLEAN, AddNew(t, b) PROVE RunInv' /\ StartStep
  <2>1. PICK j \in Jobs :
          /\ ~Exists(j)
          /\ LET J == [jobs EXCEPT ![j] = [target |-> t, status |-> "queued",
                         digest |-> NoDigest, reviewed |-> FALSE, tab |-> b]]
             IN \/ SaveFails(jobs, pc)
                \/ Pumped(J, pc, aborted, [jobs |-> J, limit |-> limit'], storageError)
    BY <1>5 DEF AddNew
  <2>2. phase' = phase
    BY <1>5 DEF AddNew, others
  <2> DEFINE e == [target |-> t, status |-> "queued",
                   digest |-> NoDigest, reviewed |-> FALSE, tab |-> b]
             J == [jobs EXCEPT ![j] = e]
             D == [jobs |-> J, limit |-> limit']
  <2>3. SaveFails(jobs, pc) \/ Pumped(J, pc, aborted, D, storageError)
    BY <2>1
  <2>4. e \in Entry /\ e.status = "queued" /\ e.target = t
    BY DEF Entry, Status, Digests
  <2> HIDE DEF e
  <2>5. J \in JobMap /\ J[j] = e /\ \A i \in Jobs \ {j} : J[i] = jobs[i]
    BY <1>1, <2>4 DEF JobMap
  <2> HIDE DEF J, D
  <2>6. pc[j] = "idle"
    BY <1>1, <2>1 DEF Exists
  <2>7. Known(J, pc)
    BY <1>1, <2>4, <2>5, <2>6 DEF Known
  <2>8. Goes(J, pc, aborted)
    BY <1>1, <2>5, <2>6, <2>7 DEF Goes, Running
  <2> QED BY <1>4, <2>2, <2>3, <2>8, WritesNamed, WritesKeep
<1>6. ASSUME NEW j \in Jobs, NEW b \in BOOLEAN, AddKnown(j, b) PROVE RunInv' /\ StartStep
  <2> DEFINE J == [jobs EXCEPT ![j].tab = @ \/ b]
             D == [jobs |-> J, limit |-> limit']
  <2>1. phase' = phase /\ jobs[j].status # "absent"
    BY <1>6 DEF AddKnown, others, Live
  <2>2. SaveFails(jobs, pc) \/ Pumped(J, pc, aborted, D, storageError)
    BY <1>6 DEF AddKnown
  <2>3. Sets(jobs, J, j, jobs[j].status)
    <3>1. /\ (jobs[j].tab \/ b) \in BOOLEAN
          /\ J = [jobs EXCEPT ![j].tab = jobs[j].tab \/ b]
      BY <1>1 DEF JobMap, Entry
    <3> HIDE DEF J
    <3> QED BY <1>1, <3>1, SetTab
  <2> HIDE DEF J, D
  <2> QED BY <1>3, <1>4, <2>1, <2>2, <2>3, WritesNamed
<1>7. ASSUME NEW n \in Limits, SetConcurrency(n) PROVE RunInv' /\ StartStep
  BY <1>2, <1>7, WritesNamed DEF SetConcurrency, others
<1>8. CASE RecoverStorage
  BY <1>2, <1>4, <1>8, WritesNamed DEF RecoverStorage, others
<1>9. CASE ConfigureFails
  BY <1>4, <1>9 DEF ConfigureFails
<1>10. CASE Tick
  BY <1>2, <1>10, WritesNamed DEF Tick, others
<1>11. ASSUME NEW j \in Jobs, Pause(j) PROVE RunInv' /\ StartStep
  <2> DEFINE J == [jobs EXCEPT ![j].status = "paused"]
             A == aborted \cup ({j} \cap Running(pc))
  <2>1. /\ SaveOk(J, pc, A) \/ SaveFails(J, pc)
        /\ phase' = phase /\ jobs[j].status # "absent" /\ aborted \subseteq A
    BY <1>11 DEF Pause
  <2>2. Sets(jobs, J, j, "paused")
    BY <1>1, SetStatus DEF Status
  <2> HIDE DEF J, A
  <2> QED BY <1>3, <2>1, <2>2, WritesNamed
<1>12. ASSUME NEW j \in Jobs, Retry(j) PROVE RunInv' /\ StartStep
  <2> DEFINE J == [jobs EXCEPT ![j].status = "queued", ![j].digest = NoDigest]
  <2>1. SaveThenPump(J, pc, aborted) /\ phase' = phase /\ jobs[j].status # "absent"
    BY <1>12 DEF Retry, others
  <2>2. Sets(jobs, J, j, "queued")
    BY <1>1, SetStatusDigest DEF Status, Digests
  <2> HIDE DEF J
  <2> QED BY <1>3, <2>1, <2>2, WritesNamed
<1>13. ASSUME NEW j \in Jobs, NEW s \in {"removed", "paused"}, phase' = phase,
              Save([jobs EXCEPT ![j].status = s], pc, aborted), jobs[j].status # "absent"
       PROVE  RunInv' /\ StartStep
  <2> DEFINE J == [jobs EXCEPT ![j].status = s]
  <2>1. Sets(jobs, J, j, s) /\ Save(J, pc, aborted)
    BY <1>1, <1>13, SetStatus DEF Status
  <2> HIDE DEF J
  <2> QED BY <1>3, <1>13, <2>1, WritesNamed DEF Save
<1>14. ASSUME NEW j \in Jobs, Remove(j) \/ Restore(j) PROVE RunInv' /\ StartStep
  BY <1>13, <1>14 DEF Remove, Restore, others
<1> QED BY <1>5, <1>6, <1>7, <1>8, <1>9, <1>10, <1>11, <1>12, <1>14

\* The steps of a review action, requested, taken or refused, and what
\* happens at the employer.
LEMMA ReviewRuns ==
  ASSUME IInv, RunInv, limit' \in Nat \ {0}, NEW j \in Jobs,
         \/ RequestRefresh(j) \/ RequestSubmit(j) \/ RejectReview(j)
         \/ ReviewStep(j) \/ (\E c \in Contents : Edit(j, c))
         \/ ClickLands(j) \/ ClickLost(j)
  PROVE  RunInv' /\ StartStep
<1>1. /\ jobs \in JobMap /\ pc \in PcMap /\ aborted \subseteq Running(pc)
      /\ rev[j].read \in Digests
  BY TypeSplit DEF IInv, QueueOK, RestOK
<1>2. ASSUME NEW J, NEW s, Sets(jobs, J, j, s), jobs[j].status # "absent",
             Writes(J, pc, aborted), phase' = phase
      PROVE  RunInv' /\ StartStep
  BY <1>1, <1>2, SetsGoes, WritesKeep
<1>3. ASSUME Writes(jobs, pc, aborted), phase' = phase PROVE RunInv' /\ StartStep
  BY <1>1, <1>3, SameGoes, WritesKeep
<1>4. CASE \/ RequestRefresh(j) \/ RequestSubmit(j) \/ RejectReview(j)
           \/ ReviewOpens(j) \/ ReadReview(j) \/ SubmitClicks(j) \/ ReviewReleased(j)
           \/ (\E c \in Contents : Edit(j, c)) \/ ClickLands(j) \/ ClickLost(j)
  BY <1>4, StillKeeps DEF RequestRefresh, RequestSubmit, RejectReview, ReviewOpens,
     ReadReview, SubmitClicks, ReviewReleased, Edit, ClickLands, ClickLost, queue
<1>5. jobs[j].status # "absent" \/ rev[j].pc \in {"idle", "releasing"}
  BY TypeSplit DEF IInv, RestOK, RevPc, ActivityInv, ActivityOf, Committed
<1>6. ASSUME NEW s \in Status, NEW d \in Digests, jobs[j].status # "absent", phase' = phase,
             Writes([jobs EXCEPT ![j].status = s, ![j].digest = d], pc, aborted)
      PROVE  RunInv' /\ StartStep
  <2> DEFINE J == [jobs EXCEPT ![j].status = s, ![j].digest = d]
  <2>1. Sets(jobs, J, j, s) /\ Writes(J, pc, aborted)
    BY <1>1, <1>6, SetStatusDigest
  <2> HIDE DEF J
  <2> QED BY <1>2, <1>6, <2>1
<1>7. CASE ReviewFails(j)
  <2>1. \/ Save([jobs EXCEPT ![j].status = "paused", ![j].digest = NoDigest], pc, aborted)
        \/ NoSave(jobs, pc)
    BY <1>7 DEF ReviewFails
  <2>2. phase' = phase /\ jobs[j].status # "absent"
    BY <1>5, <1>7 DEF ReviewFails
  <2> QED BY <1>3, <1>6, <2>1, <2>2, WritesNamed DEF Save, Status, Digests
<1>8. CASE RefreshDone(j)
  <2> DEFINE J == [jobs EXCEPT ![j].status = "paused", ![j].digest = NoDigest]
             K == [jobs EXCEPT ![j].status = "review", ![j].digest = rev[j].read]
  <2>1. SaveOk(K, pc, aborted) \/ (jobs' = J /\ pc' = pc /\ aborted' = Running(pc))
    BY <1>8 DEF RefreshDone
  <2>2. phase' = phase /\ jobs[j].status # "absent"
    BY <1>5, <1>8 DEF RefreshDone
  <2> HIDE DEF J, K
  <2>3. Writes(J, pc, aborted) \/ Writes(K, pc, aborted)
    BY <2>1, WritesNamed DEF Writes
  <2> USE DEF J, K
  <2> QED BY <1>1, <1>6, <2>2, <2>3 DEF Status, Digests
<1>9. CASE SubmitIntends(j)
  <2> DEFINE J == [jobs EXCEPT ![j].status = "submitting"]
  <2>1. SaveOk(J, pc, aborted) \/ SaveFails(jobs, pc)
    BY <1>9 DEF SubmitIntends
  <2>2. phase' = phase /\ jobs[j].status # "absent"
    BY <1>9 DEF SubmitIntends, StillConfirmed
  <2>3. Sets(jobs, J, j, "submitting")
    BY <1>1, SetStatus DEF Status
  <2> HIDE DEF J
  <2> QED BY <1>2, <1>3, <2>1, <2>2, <2>3, WritesNamed
<1>10. ASSUME NEW s \in {"submission_uncertain", "submitted"}, SubmitEnds(j, s),
              rev[j].pc \in {"rechecking", "clicking"}
       PROVE  RunInv' /\ StartStep
  <2>1. Save([jobs EXCEPT ![j].status = s, ![j].digest = NoDigest], pc, aborted)
    BY <1>10 DEF SubmitEnds
  <2>2. phase' = phase /\ jobs[j].status # "absent" /\ s \in Status /\ NoDigest \in Digests
    BY <1>5, <1>10 DEF SubmitEnds, Status, Digests
  <2> QED BY <1>6, <2>1, <2>2, WritesNamed DEF Save
<1>11. CASE SubmitThrows(j) \/ SubmitReturns(j)
  BY <1>10, <1>11 DEF SubmitThrows, SubmitReturns
<1> QED BY <1>4, <1>7, <1>8, <1>9, <1>11 DEF ReviewStep

\* Shutdown, crash, restart, and the browser's connection.
LEMMA LifeRuns ==
  ASSUME IInv, RunInv, limit' \in Nat \ {0},
         Close \/ DrainEnds \/ Stop \/ Restart \/ Connect \/ Disconnect
  PROVE  RunInv' /\ StartStep
<1>1. /\ jobs \in JobMap /\ pc \in PcMap /\ aborted \subseteq Running(pc)
      /\ \A i \in Jobs : pc[i] # "idle" => jobs[i].status # "absent"
      /\ \A i \in Jobs : jobs[i].status # "absent" => jobs[i].target \in Targets
  BY TypeSplit DEF IInv, QueueOK, ActivityInv, ActivityOf, CommitInv
<1>2. CASE Close
  BY <1>2, QuietKeeps DEF Close
<1>3. CASE DrainEnds
  <2> DEFINE J == [j \in Jobs |-> Drained(jobs[j])]
  <2>1. \A j \in Jobs : /\ J[j] \in Entry /\ J[j].target = jobs[j].target
                        /\ J[j].status = "queued" => jobs[j].status # "absent"
    <3> TAKE j \in Jobs
    <3>1. jobs[j] \in Entry
      BY <1>1 DEF JobMap
    <3> QED BY <3>1 DEF Entry, Drained, Status, Digests
  <2>2. J \in JobMap
    BY <2>1 DEF JobMap
  <2>3. /\ Save(J, pc, aborted) /\ phase = "draining" /\ phase' = "closed"
    BY <1>3 DEF DrainEnds
  <2> HIDE DEF J
  <2>4. Goes(J, pc, aborted)
    BY <1>1, <2>1, <2>2 DEF Goes, Known, Running
  <2> QED BY <2>3, <2>4, WritesNamed, WritesKeep DEF Save
<1>4. CASE Stop \/ Restart
  <2>1. \A j \in Jobs : pc'[j] = "idle"
    <3>1. CASE Stop
      BY <3>1 DEF Stop
    <3>2. CASE Restart
      BY <3>2 DEF Restart, SaveOk, IInv, ActivityInv
    <3> QED BY <1>4, <3>1, <3>2
  <2>2. Running(pc') = {}
    BY <2>1 DEF Running
  <2> QED BY <2>2, QuietKeeps
<1>5. CASE Connect \/ Disconnect
  BY <1>5, StillKeeps DEF Connect, Disconnect, queue
<1> QED BY <1>2, <1>3, <1>4, <1>5

\* No step breaks RunInv, and every step starts within the limit.
LEMMA RunInvNext ==
  ASSUME IInv, RunInv, [Next]_vars
  PROVE  RunInv' /\ (StartStep \/ UNCHANGED vars)
<1>1. CASE UNCHANGED vars
  BY <1>1, StillKeeps DEF vars
<1>2. CASE Next
  <2>1. limit' \in Nat \ {0}
    <3>1. TypeOK'
      BY IInvNext DEF IInv
    <3> QED BY <3>1 DEF TypeOK
  <2>2. ASSUME NEW j \in Jobs,
               RunStep(j) \/ Deadline(j) \/ ReviewStep(j) \/ ClickLands(j) \/ ClickLost(j)
        PROVE  RunInv' /\ StartStep
    BY <2>1, <2>2, RunRuns, ReviewRuns
  <2>3. ASSUME NEW j \in Jobs, OwnerStep(j) PROVE RunInv' /\ StartStep
    BY <2>1, <2>3, RequestRuns, ReviewRuns DEF OwnerStep
  <2>4. CASE \/ \E t \in Targets, b \in BOOLEAN : AddNew(t, b)
             \/ \E n \in Limits : SetConcurrency(n)
             \/ RecoverStorage \/ ConfigureFails \/ Tick
    BY <2>1, <2>4, RequestRuns
  <2>5. CASE Close \/ DrainEnds \/ Stop \/ Restart \/ Connect \/ Disconnect
    BY <2>1, <2>5, LifeRuns
  <2> QED BY <1>2, <2>2, <2>3, <2>4, <2>5 DEF Next
<1> QED BY <1>1, <1>2

\* In an empty queue nothing runs.
LEMMA RunInvInit == Init => RunInv
  BY DEF Init, RunInv, SerialPerEmployer, StoppedMeansAborted, Running

\* The running jobs have an employer each and stop when the queue stops.
LEMMA RunsSafely == Spec => [](IInv /\ RunInv)
<1>1. IInv /\ RunInv /\ [Next]_vars => RunInv'
  BY RunInvNext
<1> QED BY <1>1, RunInvInit, QueueInvariant, PTL DEF Spec

\* Two jobs of one employer are never filled at the same time, whatever the
\* owner adds, retries or restores and wherever a walk of the queue fails.
THEOREM QueueSerialPerEmployer == Spec => []SerialPerEmployer
<1>1. RunInv => SerialPerEmployer
  BY DEF RunInv
<1> QED BY <1>1, RunsSafely, PTL

\* Whatever stopped the queue, a failed save or close(), every fill that is
\* still on has been told to stop.
THEOREM QueueStoppedMeansAborted == Spec => []StoppedMeansAborted
<1>1. RunInv => StoppedMeansAborted
  BY DEF RunInv
<1> QED BY <1>1, RunsSafely, PTL

\* No walk starts a job beyond the limit, without a browser or after close().
THEOREM QueueStartsWithinLimit == Spec => StartsWithinLimit
<1>1. IInv /\ RunInv /\ [Next]_vars =>
        [Running(pc') \subseteq Running(pc) \/
          (Cardinality(Running(pc')) <= limit' /\ connected /\ phase = "up")]_vars
  BY RunInvNext DEF StartStep
<1> QED BY <1>1, RunsSafely, PTL DEF Spec, StartsWithinLimit

-----------------------------------------------------------------------------
(* Only the owner's hand comes between what is confirmed and what lands.    *)

\* A click on its way carries what its page shows, or the owner edited the page
\* since it was compared.
PageInv == \A j \in Jobs : wire[j] # NoDigest => page[j] = wire[j] \/ j \in edited

\* What LandsAsConfirmed says of a step.
LandStep == \A j \in Jobs : wire'[j] # wire[j] /\ clicks' # clicks =>
                            page[j] = wire[j] \/ j \in edited

LEMMA PageInvNext ==
  ASSUME IInv, PageInv, [Next]_vars
  PROVE  PageInv' /\ LandStep
<1>1. /\ page \in [Jobs -> Contents] /\ wire \in [Jobs -> Digests] /\ edited \subseteq Jobs
      /\ \A j \in Jobs : wire[j] # NoDigest => jobs[j].status \in Committed
  BY TypeSplit DEF IInv, RestOK, CommitInv
<1>2. ASSUME UNCHANGED <<page, wire, edited>> PROVE PageInv' /\ LandStep
  BY <1>2 DEF PageInv, LandStep
<1>3. CASE UNCHANGED vars
  BY <1>2, <1>3 DEF vars, world
<1>4. ASSUME NEW j \in Jobs, NEW c \in Contents, wire[j] = NoDigest,
             page' = [page EXCEPT ![j] = c], UNCHANGED <<wire, clicks, edited>>
      PROVE  PageInv' /\ LandStep
  <2>1. \A i \in Jobs : wire'[i] # NoDigest => page'[i] = page[i]
    BY <1>1, <1>4
  <2> QED BY <1>4, <2>1 DEF PageInv, LandStep
<1>5. ASSUME NEW j \in Jobs, RunStep(j) \/ Deadline(j) PROVE PageInv' /\ LandStep
  <2>1. ASSUME NEW c \in Contents, FillSucceeds(j, c) PROVE PageInv' /\ LandStep
    <3>1. wire[j] = NoDigest
      BY <1>1, <2>1 DEF FillSucceeds, IInv, ActivityInv, ActivityOf, Committed
    <3> QED BY <1>4, <2>1, <3>1 DEF FillSucceeds
  <2>2. CASE ~\E c \in Contents : FillSucceeds(j, c)
    BY <1>2, <1>5, <2>2 DEF RunStep, RunOpens, RunOpenFails, FillFails, RunCloses,
       RunUnwinds, Deadline, others, world
  <2> QED BY <2>1, <2>2
<1>6. ASSUME NEW j \in Jobs, SubmitClicks(j) PROVE PageInv' /\ LandStep
  BY <1>1, <1>6 DEF SubmitClicks, PageInv, LandStep
<1>7. ASSUME NEW j \in Jobs, ReviewStep(j), ~SubmitClicks(j) PROVE PageInv' /\ LandStep
  BY <1>2, <1>7 DEF ReviewStep, ReviewOpens, ReadReview, ReviewFails, RefreshDone,
     SubmitIntends, SubmitThrows, SubmitReturns, SubmitEnds, ReviewReleased, world
<1>8. ASSUME NEW j \in Jobs, OwnerStep(j) PROVE PageInv' /\ LandStep
  <2>1. ASSUME NEW c \in Contents, Edit(j, c) PROVE PageInv' /\ LandStep
    <3>1. /\ page' = [page EXCEPT ![j] = c] /\ UNCHANGED <<wire, clicks>>
          /\ edited' = IF wire[j] # NoDigest THEN edited \cup {j} ELSE edited
      BY <2>1 DEF Edit
    <3>2. \A i \in Jobs \ {j} : page'[i] = page[i]
      BY <1>1, <3>1
    <3> QED BY <3>1, <3>2 DEF PageInv, LandStep
  <2>2. CASE ~\E c \in Contents : Edit(j, c)
    BY <1>2, <1>8, <2>2 DEF OwnerStep, AddKnown, Pause, Retry, Remove, Restore,
       RequestRefresh, RequestSubmit, RejectReview, others, world
  <2> QED BY <2>1, <2>2
<1>9. ASSUME NEW j \in Jobs, ClickLands(j) \/ ClickLost(j) PROVE PageInv' /\ LandStep
  <2>1. /\ wire' = [wire EXCEPT ![j] = NoDigest] /\ wire[j] # NoDigest /\ page' = page
        /\ edited' = edited \ {j}
    BY <1>9 DEF ClickLands, ClickLost
  <2>2. \A i \in Jobs \ {j} : wire'[i] = wire[i]
    BY <1>1, <2>1
  <2>3. wire'[j] = NoDigest
    BY <1>1, <2>1
  <2> QED BY <2>1, <2>2, <2>3 DEF PageInv, LandStep
<1>10. CASE \/ \E t \in Targets, b \in BOOLEAN : AddNew(t, b)
            \/ \E n \in Limits : SetConcurrency(n)
            \/ RecoverStorage \/ ConfigureFails \/ Tick
  BY <1>2, <1>10 DEF AddNew, SetConcurrency, RecoverStorage, ConfigureFails, Tick,
     others, world
<1>11. CASE Close \/ DrainEnds \/ Stop \/ Restart \/ Connect \/ Disconnect
  BY <1>2, <1>11 DEF Close, DrainEnds, Stop, Restart, Connect, Disconnect, world
<1> QED BY <1>3, <1>5, <1>6, <1>7, <1>8, <1>9, <1>10, <1>11 DEF Next

\* Nothing is on its way at first.
LEMMA PageInvInit == Init => PageInv
  BY DEF Init, PageInv

\* What lands at the employer is what the owner confirmed, or what the owner made
\* of the page after the service compared it: whatever crashes, fails, is lost or
\* is asked for, nothing but an edit of that page comes between the comparison and
\* the click.
THEOREM QueueLandsAsConfirmed == Spec => LandsAsConfirmed
<1>1. IInv /\ PageInv /\ [Next]_vars => PageInv'
  BY PageInvNext
<1>2. IInv /\ PageInv /\ [Next]_vars =>
        [\A j \in Jobs : wire'[j] # wire[j] /\ clicks' # clicks =>
           page[j] = wire[j] \/ j \in edited]_vars
  BY PageInvNext DEF LandStep
<1> QED BY <1>1, <1>2, PageInvInit, QueueInvariant, PTL DEF Spec, LandsAsConfirmed

-----------------------------------------------------------------------------
(* No job that could start is left behind.                                  *)

\* What NoMissedStart says of a step.
WakeStep == Waits' => Waits \/ ~connected

\* A failed save or a queue that is not up leaves nothing to start.
LEMMA StoppedWakes ==
  ASSUME storageError' = TRUE \/ phase' # "up" \/ \A j \in Jobs : jobs'[j].status # "queued"
  PROVE  WakeStep
  BY DEF WakeStep, Waits, Fits

\* More running jobs, no more queued ones, and the limit, the browser and the
\* storage as they were.
LEMMA QuietWakes ==
  ASSUME TypeOK, phase' = phase \/ phase' # "up",
         connected' = connected \/ ~connected' \/ ~connected,
         storageError' = storageError, limit' = limit,
         \A j \in Jobs : jobs'[j].target = jobs[j].target,
         \A j \in Jobs : jobs'[j].status = "queued" => jobs[j].status = "queued",
         \A j \in Jobs : pc'[j] = "idle" <=> pc[j] = "idle"
  PROVE  WakeStep
<1>1. Running(pc') = Running(pc)
  BY DEF Running
<1>2. \A j \in Jobs : Fits(j)' => Fits(j)
  BY <1>1 DEF Fits, Running
<1>3. connected \in BOOLEAN /\ storageError \in BOOLEAN
  BY DEF TypeOK
<1> QED BY <1>2, <1>3 DEF WakeStep, Waits

\* The size of a set of jobs is at least that of its parts.
LEMMA FewerJobs ==
  ASSUME NEW R \in SUBSET Jobs, NEW T \in SUBSET R
  PROVE  /\ Cardinality(R) \in Nat /\ Cardinality(T) \in Nat
         /\ Cardinality(T) <= Cardinality(R)
<1>1. IsFiniteSet(Jobs)
  BY FS_Interval, QueueAssumption DEF Jobs
<1>2. IsFiniteSet(R)
  BY <1>1, FS_Subset
<1> QED BY <1>2, FS_Subset, FS_CardinalityType

\* A walk leaves no job that it could still start.
LEMMA PumpWakes ==
  ASSUME NEW J \in JobMap, NEW P \in PcMap, NEW A, NEW D, NEW E, Pumped(J, P, A, D, E),
         connected' = connected, phase' = phase, limit' \in Nat
  PROVE  WakeStep
<1>1. CASE phase # "up"
  BY <1>1, StoppedWakes
<1>2. CASE ~connected
  BY <1>2 DEF WakeStep
<1>3. CASE E
  <2>1. CASE phase # "up" \/ ~connected
    BY <1>1, <1>2, <2>1
  <2>2. CASE ~(phase # "up" \/ ~connected)
    <3>1. storageError' = E
      BY <1>3 DEF Pumped
    <3> QED BY <1>3, <3>1 DEF WakeStep, Waits
  <2> QED BY <2>1, <2>2
<1>4. CASE ~(phase # "up" \/ E \/ ~connected)
  <2>1. PICK S \in SUBSET Jobs :
          /\ Starts(J, P, S)
          /\ \/ jobs' = Started(J, S) /\ pc' = Opening(P, S)
             \/ storageError' = TRUE
    BY <1>4 DEF Pumped
  <2>2. CASE storageError' = TRUE
    BY <2>2, StoppedWakes
  <2>3. CASE jobs' = Started(J, S) /\ pc' = Opening(P, S)
    <3>1. Running(pc') = Running(P) \cup S
      BY <2>3 DEF Running, Opening
    <3>2. \A j \in Jobs : /\ jobs'[j].target = J[j].target
                          /\ j \in S => jobs'[j].status # "queued"
                          /\ j \notin S => jobs'[j] = J[j] /\ pc'[j] = P[j]
      BY <2>3 DEF Started, Opening, JobMap, Entry
    <3>3. ASSUME NEW j \in Jobs, Fits(j)' PROVE FALSE
      <4>1. j \notin S /\ J[j].status = "queued" /\ P[j] = "idle"
        BY <3>2, <3>3 DEF Fits
      <4> DEFINE R == Running(P) \cup Before(S, j)
      <4>2. R \subseteq Running(pc') /\ Running(pc') \subseteq Jobs
        BY <3>1 DEF Before, Running
      <4>3. Cardinality(R) < limit'
        <5>1. Cardinality(Running(pc')) < limit'
          BY <3>3 DEF Fits
        <5> HIDE DEF R
        <5> QED BY <4>2, <5>1, FewerJobs
      <4>4. \A i \in R : ~SameEmployer(J[j].target, J[i].target)
        <5>1. \A i \in Running(pc') : ~SameEmployer(jobs'[j].target, jobs'[i].target)
          BY <3>3 DEF Fits
        <5> HIDE DEF R
        <5> QED BY <3>2, <4>2, <5>1
      <4>5. Startable(J, P, R, j)
        BY <4>1, <4>3, <4>4 DEF Startable
      <4> QED BY <2>1, <4>1, <4>5 DEF Starts
    <3> QED BY <3>3 DEF WakeStep, Waits
  <2> QED BY <2>1, <2>2, <2>3
<1> QED BY <1>1, <1>2, <1>3, <1>4

\* One job's entry is rewritten and not queued thereby, the same jobs run on.
LEMMA SetsWakes ==
  ASSUME IInv, NEW K, NEW j \in Jobs, NEW s, Sets(jobs, K, j, s), jobs' = K,
         s = "queued" => jobs[j].status = "queued",
         \A i \in Jobs : pc'[i] = "idle" <=> pc[i] = "idle",
         UNCHANGED <<phase, connected, limit>>,
         storageError' = storageError \/ storageError' = TRUE
  PROVE  WakeStep
<1>1. \A i \in Jobs : K[i].target = jobs[i].target
  BY DEF Sets
<1>2. \A i \in Jobs : K[i].status = "queued" => jobs[i].status = "queued"
  BY DEF Sets
<1>3. CASE storageError' = storageError
  BY <1>1, <1>2, <1>3, QuietWakes DEF IInv
<1>4. CASE storageError' = TRUE
  BY <1>4, StoppedWakes
<1> QED BY <1>3, <1>4

\* A save of such an entry, whether the write works or fails or is put off.
LEMMA SaveWakes ==
  ASSUME IInv, NEW K, NEW j \in Jobs, NEW s, Sets(jobs, K, j, s), NEW P, NEW A,
         SaveOk(K, P, A) \/ SaveFails(K, P) \/ NoSave(K, P),
         s = "queued" => jobs[j].status = "queued",
         \A i \in Jobs : P[i] = "idle" <=> pc[i] = "idle",
         UNCHANGED <<phase, connected, limit>>
  PROVE  WakeStep
<1>1. jobs' = K /\ pc' = P /\ (storageError' = storageError \/ storageError' = TRUE)
  BY DEF SaveOk, SaveFails, NoSave
<1> QED BY <1>1, SetsWakes

\* A save that fails leaves nothing to start, one that works is walked.
LEMMA SavePumpWakes ==
  ASSUME NEW J \in JobMap, NEW P \in PcMap, NEW A,
         SaveThenPump(J, P, A) \/ (\E K, Q : SaveFails(K, Q)) \/
           (\E D, E : Pumped(J, P, A, D, E)),
         connected' = connected, phase' = phase, limit' \in Nat
  PROVE  WakeStep
<1>1. ASSUME NEW K, NEW Q, SaveFails(K, Q) PROVE WakeStep
  BY <1>1, StoppedWakes DEF SaveFails
<1>2. ASSUME NEW D, NEW E, Pumped(J, P, A, D, E) PROVE WakeStep
  BY <1>2, PumpWakes
<1>3. SaveThenPump(J, P, A) =>
        SaveFails(J, P) \/ \E D, E : Pumped(J, P, A, D, E)
  BY DEF SaveThenPump
<1> QED BY <1>1, <1>2, <1>3

\* A step that touches neither the queue nor the service's phase.
LEMMA StillWakes ==
  ASSUME TypeOK, UNCHANGED <<phase, jobs, limit, storageError, pc>>,
         connected' = connected \/ ~connected' \/ ~connected
  PROVE  WakeStep
  BY QuietWakes

\* run() and its deadline: the job leaves running in the step that pumps.
LEMMA RunWakes ==
  ASSUME IInv, NEW j \in Jobs, RunStep(j) \/ Deadline(j)
  PROVE  WakeStep
<1>1. /\ jobs \in JobMap /\ pc \in PcMap /\ pc[j] # "idle" /\ found[j] \in Digests
      /\ limit' = limit /\ limit' \in Nat /\ phase' = phase /\ connected' = connected
  BY TypeSplit DEF IInv, QueueOK, RestOK, RunStep, RunOpens, RunOpenFails,
     FillSucceeds, FillFails, RunCloses, RunUnwinds, Deadline, others
<1>2. /\ {"running", "paused", "review"} \subseteq Status
      /\ {"idle", "filling", "closing", "unwinding"} \subseteq RunPc
      /\ jobs[j].status \in Status
  BY <1>1 DEF Status, RunPc, JobMap, Entry
<1>3. ASSUME NEW p \in {"filling", "closing", "unwinding"}
      PROVE  \A i \in Jobs : [pc EXCEPT ![j] = p][i] = "idle" <=> pc[i] = "idle"
  BY <1>1, <1>3 DEF PcMap
<1>4. ASSUME NEW J, NEW s, Sets(jobs, J, j, s), Caught(J, j) PROVE WakeStep
  <2> DEFINE K == [J EXCEPT ![j].status = "paused"]
             P == [pc EXCEPT ![j] = "unwinding"]
  <2>1. Sets(jobs, K, j, "paused")
    BY <1>2, <1>4, SetStatus, SetTwice DEF Sets
  <2>2. NoSave(K, P)
    BY <1>4 DEF Caught
  <2>3. \A i \in Jobs : P[i] = "idle" <=> pc[i] = "idle"
    BY <1>3
  <2> HIDE DEF K, P
  <2> QED BY <1>1, <2>1, <2>2, <2>3, SaveWakes
<1>5. ASSUME Caught(jobs, j) PROVE WakeStep
  BY <1>1, <1>4, <1>5, SetNothing
<1>6. CASE RunOpens(j)
  <2> DEFINE J == [jobs EXCEPT ![j].tab = TRUE]
             P == [pc EXCEPT ![j] = "filling"]
  <2>1. Sets(jobs, J, j, jobs[j].status)
    BY <1>1, SetTab
  <2>2. \A i \in Jobs : P[i] = "idle" <=> pc[i] = "idle"
    BY <1>3
  <2>3. Caught(J, j) \/ SaveOk(J, P, aborted) \/ \E K, Q : SaveFails(K, Q)
    BY <1>6 DEF RunOpens
  <2> HIDE DEF J, P
  <2>4. CASE Caught(J, j)
    BY <1>4, <2>1, <2>4
  <2>5. CASE SaveOk(J, P, aborted)
    BY <1>1, <2>1, <2>2, <2>5, SaveWakes
  <2>6. CASE \E K, Q : SaveFails(K, Q)
    BY <2>6, StoppedWakes DEF SaveFails
  <2> QED BY <2>3, <2>4, <2>5, <2>6
<1>7. CASE RunOpenFails(j) \/ FillFails(j)
  BY <1>5, <1>7 DEF RunOpenFails, FillFails
<1>8. ASSUME NEW c \in Contents, FillSucceeds(j, c) PROVE WakeStep
  <2>1. CASE j \in aborted
    BY <1>5, <1>8, <2>1 DEF FillSucceeds
  <2>2. CASE j \notin aborted
    <3> DEFINE P == [pc EXCEPT ![j] = "closing"]
    <3>1. NoSave(jobs, P)
      BY <1>8, <2>2 DEF FillSucceeds
    <3>2. \A i \in Jobs : P[i] = "idle" <=> pc[i] = "idle"
      BY <1>3
    <3>3. Sets(jobs, jobs, j, jobs[j].status)
      BY <1>1, SetNothing
    <3> HIDE DEF P
    <3> QED BY <1>1, <3>1, <3>2, <3>3, SaveWakes
  <2> QED BY <2>1, <2>2
<1>9. CASE RunCloses(j)
  <2> DEFINE J == [jobs EXCEPT ![j].status = "review", ![j].digest = found[j],
                               ![j].reviewed = TRUE]
             P == [pc EXCEPT ![j] = "idle"]
  <2>1. J \in JobMap
    BY <1>1, <1>2, SetReviewed DEF Sets
  <2>2. P \in PcMap
    BY <1>1, <1>2, SetPc
  <2>3. \/ Caught(jobs, j) \/ (\E K, Q : SaveFails(K, Q))
        \/ (\E D, E : Pumped(J, P, aborted \ {j}, D, E))
        \/ storageError' = TRUE
    BY <1>9 DEF RunCloses, RunPublishes
  <2> HIDE DEF J, P
  <2> QED BY <1>1, <1>5, <2>1, <2>2, <2>3, SavePumpWakes, StoppedWakes
<1>10. CASE RunUnwinds(j)
  <2> DEFINE P == [pc EXCEPT ![j] = "idle"]
  <2>1. P \in PcMap
    BY <1>1, <1>2, SetPc
  <2>2. SaveThenPump(jobs, P, aborted \ {j})
    BY <1>10 DEF RunUnwinds, RunEnds
  <2> HIDE DEF P
  <2> QED BY <1>1, <2>1, <2>2, SavePumpWakes
<1>11. CASE Deadline(j)
  BY <1>1, <1>11, StillWakes DEF Deadline, IInv
<1> QED BY <1>6, <1>7, <1>8, <1>9, <1>10, <1>11 DEF RunStep

\* The requests of the owner and the timer: whatever queues a job, or raises
\* the limit, pumps; pause, remove and restore queue nothing.
LEMMA RequestWakes ==
  ASSUME IInv, limit' \in Nat \ {0},
         \/ \E t \in Targets, b \in BOOLEAN : AddNew(t, b)
         \/ \E n \in Limits : SetConcurrency(n)
         \/ RecoverStorage \/ ConfigureFails \/ Tick
         \/ \E j \in Jobs : \/ \E b \in BOOLEAN : AddKnown(j, b)
                            \/ Pause(j) \/ Retry(j) \/ Remove(j) \/ Restore(j)
  PROVE  WakeStep
<1>1. jobs \in JobMap /\ pc \in PcMap /\ limit' \in Nat
  BY TypeSplit DEF IInv, QueueOK
<1>2. ASSUME NEW J \in JobMap, NEW A,
             SaveThenPump(J, pc, A) \/ (\E K, Q : SaveFails(K, Q)) \/
               (\E D, E : Pumped(J, pc, A, D, E)),
             UNCHANGED <<phase, connected>>
      PROVE  WakeStep
  BY <1>1, <1>2, SavePumpWakes
<1>3. ASSUME NEW t \in Targets, NEW b \in BOOLEAN, AddNew(t, b) PROVE WakeStep
  <2> DEFINE e == [target |-> t, status |-> "queued", digest |-> NoDigest,
                   reviewed |-> FALSE, tab |-> b]
  <2>1. PICK j \in Jobs : \/ SaveFails(jobs, pc)
                          \/ Pumped([jobs EXCEPT ![j] = e], pc, aborted,
                                    [jobs |-> [jobs EXCEPT ![j] = e], limit |-> limit'],
                                    storageError)
    BY <1>3 DEF AddNew
  <2>2. e \in Entry
    BY DEF Entry, Status, Digests
  <2>3. UNCHANGED <<phase, connected>>
    BY <1>3 DEF AddNew, others
  <2> HIDE DEF e
  <2> DEFINE J == [jobs EXCEPT ![j] = e]
  <2>4. J \in JobMap
    BY <1>1, <2>2 DEF JobMap
  <2>5. SaveFails(jobs, pc) \/ \E D, E : Pumped(J, pc, aborted, D, E)
    BY <2>1
  <2> HIDE DEF J
  <2> QED BY <1>2, <2>3, <2>4, <2>5
<1>4. ASSUME NEW j \in Jobs, NEW b \in BOOLEAN, AddKnown(j, b) PROVE WakeStep
  <2> DEFINE J == [jobs EXCEPT ![j].tab = @ \/ b]
  <2>1. UNCHANGED <<phase, connected>>
    BY <1>4 DEF AddKnown, others
  <2>2. SaveFails(jobs, pc) \/ \E D, E : Pumped(J, pc, aborted, D, E)
    BY <1>4 DEF AddKnown
  <2>3. J \in JobMap
    <3>1. /\ (jobs[j].tab \/ b) \in BOOLEAN
          /\ J = [jobs EXCEPT ![j].tab = jobs[j].tab \/ b]
      BY <1>1 DEF JobMap, Entry
    <3> HIDE DEF J
    <3> QED BY <1>1, <3>1, SetTab DEF Sets
  <2> HIDE DEF J
  <2> QED BY <1>2, <2>1, <2>2, <2>3
<1>5. ASSUME NEW n \in Limits, SetConcurrency(n) PROVE WakeStep
  BY <1>1, <1>2, <1>5 DEF SetConcurrency, others
<1>6. CASE RecoverStorage
  BY <1>1, <1>2, <1>6 DEF RecoverStorage, others
<1>7. CASE ConfigureFails
  BY <1>7, StoppedWakes DEF ConfigureFails, SaveFails
<1>8. CASE Tick
  BY <1>1, <1>2, <1>8 DEF Tick, others
<1>9. ASSUME NEW j \in Jobs, Retry(j) PROVE WakeStep
  <2> DEFINE J == [jobs EXCEPT ![j].status = "queued", ![j].digest = NoDigest]
  <2>1. SaveThenPump(J, pc, aborted) /\ UNCHANGED <<phase, connected>>
    BY <1>9 DEF Retry, others
  <2>2. Sets(jobs, J, j, "queued")
    BY <1>1, SetStatusDigest DEF Status, Digests
  <2> HIDE DEF J
  <2>3. J \in JobMap
    BY <2>2 DEF Sets
  <2> QED BY <1>2, <2>1, <2>3
<1>10. ASSUME NEW j \in Jobs, NEW s \in {"removed", "paused"}, NEW A,
              \/ SaveOk([jobs EXCEPT ![j].status = s], pc, A)
              \/ SaveFails([jobs EXCEPT ![j].status = s], pc),
              UNCHANGED <<phase, connected, limit>>
       PROVE  WakeStep
  <2> DEFINE J == [jobs EXCEPT ![j].status = s]
  <2>1. Sets(jobs, J, j, s) /\ s # "queued"
    BY <1>1, <1>10, SetStatus DEF Status
  <2>2. SaveOk(J, pc, A) \/ SaveFails(J, pc)
    BY <1>10
  <2> HIDE DEF J
  <2> QED BY <1>10, <2>1, <2>2, SaveWakes
<1>11. ASSUME NEW j \in Jobs, Pause(j) \/ Remove(j) \/ Restore(j) PROVE WakeStep
  <2>1. CASE Pause(j)
    <3>1. \/ SaveOk([jobs EXCEPT ![j].status = "paused"], pc,
                    aborted \cup ({j} \cap Running(pc)))
          \/ SaveFails([jobs EXCEPT ![j].status = "paused"], pc)
      BY <2>1 DEF Pause
    <3>2. UNCHANGED <<phase, connected, limit>>
      BY <2>1 DEF Pause
    <3> QED BY <1>10, <3>1, <3>2
  <2>2. CASE Remove(j) \/ Restore(j)
    BY <1>10, <2>2 DEF Remove, Restore, others, Save
  <2> QED BY <1>11, <2>1, <2>2
<1> QED BY <1>3, <1>4, <1>5, <1>6, <1>7, <1>8, <1>9, <1>11

\* A review action ends in no queued job and is none of the running ones.
LEMMA ReviewWakes ==
  ASSUME IInv, NEW j \in Jobs,
         \/ RequestRefresh(j) \/ RequestSubmit(j) \/ RejectReview(j)
         \/ ReviewStep(j) \/ (\E c \in Contents : Edit(j, c))
         \/ ClickLands(j) \/ ClickLost(j)
  PROVE  WakeStep
<1>1. jobs \in JobMap /\ rev[j].read \in Digests /\ TypeOK
  BY TypeSplit DEF IInv, QueueOK, RestOK
<1>2. CASE \/ RequestRefresh(j) \/ RequestSubmit(j) \/ RejectReview(j)
           \/ ReviewOpens(j) \/ ReadReview(j) \/ SubmitClicks(j) \/ ReviewReleased(j)
           \/ (\E c \in Contents : Edit(j, c)) \/ ClickLands(j) \/ ClickLost(j)
  BY <1>1, <1>2, StillWakes DEF RequestRefresh, RequestSubmit, RejectReview, ReviewOpens,
     ReadReview, SubmitClicks, ReviewReleased, Edit, ClickLands, ClickLost, queue
<1>3. UNCHANGED <<phase, connected>>
  BY DEF ReviewStep, RequestRefresh, RequestSubmit, RejectReview, ReviewOpens,
     ReadReview, ReviewFails, RefreshDone, SubmitIntends, SubmitClicks, SubmitThrows,
     SubmitReturns, SubmitEnds, ReviewReleased, Edit, ClickLands, ClickLost
<1>4. ASSUME NEW s \in Status, s # "queued", NEW d \in Digests, UNCHANGED limit,
             Save([jobs EXCEPT ![j].status = s, ![j].digest = d], pc, aborted)
      PROVE  WakeStep
  <2> DEFINE J == [jobs EXCEPT ![j].status = s, ![j].digest = d]
  <2>1. Sets(jobs, J, j, s)
    BY <1>1, SetStatusDigest
  <2>2. SaveOk(J, pc, aborted) \/ SaveFails(J, pc)
    BY <1>4 DEF Save
  <2> HIDE DEF J
  <2> QED BY <1>3, <1>4, <2>1, <2>2, SaveWakes
<1>5. ASSUME NoSave(jobs, pc), UNCHANGED limit PROVE WakeStep
  <2>1. Sets(jobs, jobs, j, jobs[j].status)
    BY <1>1, SetNothing
  <2> QED BY <1>3, <1>5, <2>1, SaveWakes
<1>6. /\ {"paused", "review", "submitted", "submission_uncertain", "submitting"} \subseteq Status
      /\ NoDigest \in Digests
  BY DEF Status, Digests
<1>7. CASE ReviewFails(j)
  <2>1. /\ \/ Save([jobs EXCEPT ![j].status = "paused", ![j].digest = NoDigest], pc, aborted)
           \/ NoSave(jobs, pc)
        /\ UNCHANGED limit
    BY <1>7 DEF ReviewFails
  <2> QED BY <1>4, <1>5, <1>6, <2>1
<1>8. CASE RefreshDone(j)
  <2>1. /\ \/ SaveOk([jobs EXCEPT ![j].status = "review", ![j].digest = rev[j].read],
                     pc, aborted)
           \/ storageError' = TRUE
        /\ UNCHANGED limit
    BY <1>8 DEF RefreshDone
  <2> QED BY <1>1, <1>4, <1>6, <2>1, StoppedWakes DEF Save
<1>9. CASE SubmitIntends(j)
  <2> DEFINE J == [jobs EXCEPT ![j].status = "submitting"]
  <2>1. (SaveOk(J, pc, aborted) \/ SaveFails(jobs, pc)) /\ UNCHANGED limit
    BY <1>9 DEF SubmitIntends
  <2>2. Sets(jobs, J, j, "submitting")
    BY <1>1, <1>6, SetStatus
  <2> HIDE DEF J
  <2>3. CASE SaveOk(J, pc, aborted)
    BY <1>3, <2>1, <2>2, <2>3, SaveWakes
  <2>4. CASE SaveFails(jobs, pc)
    BY <2>4, StoppedWakes DEF SaveFails
  <2> QED BY <2>1, <2>3, <2>4
<1>10. CASE SubmitThrows(j) \/ SubmitReturns(j)
  <2>1. PICK s \in {"submission_uncertain", "submitted"} : SubmitEnds(j, s)
    BY <1>10 DEF SubmitThrows, SubmitReturns
  <2>2. /\ Save([jobs EXCEPT ![j].status = s, ![j].digest = NoDigest], pc, aborted)
        /\ UNCHANGED limit
    BY <2>1 DEF SubmitEnds
  <2> QED BY <1>4, <1>6, <2>2
<1> QED BY <1>2, <1>7, <1>8, <1>9, <1>10 DEF ReviewStep

\* Shutdown, crash and restart, and the browser's connection.
LEMMA LifeWakes ==
  ASSUME IInv, Close \/ DrainEnds \/ Stop \/ Restart \/ Connect \/ Disconnect
  PROVE  WakeStep
<1>1. disk.jobs \in JobMap /\ TypeOK
  BY TypeSplit DEF IInv, QueueOK, File
<1>2. CASE Close \/ DrainEnds \/ Stop
  BY <1>2, StoppedWakes DEF Close, DrainEnds, Stop
<1>3. CASE Restart
  <2>1. \A j \in Jobs : Recovered(disk.jobs[j]).status # "queued"
    <3> TAKE j \in Jobs
    <3>1. disk.jobs[j] \in Entry
      BY <1>1 DEF JobMap
    <3> QED BY <3>1 DEF Entry, Recovered
  <2>2. \A j \in Jobs : jobs'[j] = Recovered(disk.jobs[j])
    BY <1>3 DEF Restart, SaveOk
  <2> QED BY <2>1, <2>2, StoppedWakes
<1>4. CASE Connect \/ Disconnect
  BY <1>1, <1>4, StillWakes DEF Connect, Disconnect, queue
<1> QED BY <1>2, <1>3, <1>4

\* No step but the browser's connection leaves a job that could start behind.
LEMMA WakeNext ==
  ASSUME IInv, [Next]_vars
  PROVE  WakeStep \/ UNCHANGED vars
<1>1. CASE Next
  <2>1. limit' \in Nat \ {0}
    <3>1. TypeOK'
      BY IInvNext DEF IInv
    <3> QED BY <3>1 DEF TypeOK
  <2>2. ASSUME NEW j \in Jobs,
               RunStep(j) \/ Deadline(j) \/ ReviewStep(j) \/ ClickLands(j) \/ ClickLost(j)
        PROVE  WakeStep
    BY <2>2, RunWakes, ReviewWakes
  <2>3. ASSUME NEW j \in Jobs, OwnerStep(j) PROVE WakeStep
    BY <2>1, <2>3, RequestWakes, ReviewWakes DEF OwnerStep
  <2>4. CASE \/ \E t \in Targets, b \in BOOLEAN : AddNew(t, b)
             \/ \E n \in Limits : SetConcurrency(n)
             \/ RecoverStorage \/ ConfigureFails \/ Tick
    BY <2>1, <2>4, RequestWakes
  <2>5. CASE Close \/ DrainEnds \/ Stop \/ Restart \/ Connect \/ Disconnect
    BY <2>5, LifeWakes
  <2> QED BY <1>1, <2>2, <2>3, <2>4, <2>5 DEF Next
<1> QED BY <1>1

\* No wakeup of the queue is lost: no step but the browser's connection leaves
\* a job waiting that the limit and the employers of the running ones let
\* start, for any number of jobs, postings and faults.
THEOREM QueueNoMissedStart == Spec => NoMissedStart
<1>1. IInv /\ [Next]_vars => [Waits' => Waits \/ ~connected]_vars
  BY WakeNext DEF WakeStep
<1> QED BY <1>1, QueueInvariant, PTL DEF Spec, NoMissedStart
=============================================================================
