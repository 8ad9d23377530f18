--------------------------- MODULE AppQueueProofs ---------------------------
(***************************************************************************)
(* Theorems about AppQueue for every number of jobs, set of postings, set  *)
(* of review contents and combination of faults.                           *)
(***************************************************************************)
EXTENDS AppQueueProps, TLAPS

JobMap == [Jobs -> Entry]
PcMap == [Jobs -> RunPc]
File == [jobs : JobMap, limit : Nat \ {0}]

\* The part of the type invariant that saving and pumping touch.
QueueOK ==
  /\ jobs \in JobMap /\ pc \in PcMap /\ aborted \subseteq Running(pc)
  /\ disk \in File /\ storageError \in BOOLEAN

\* Assigning any of the fields the code assigns yields a job entry again.
LEMMA FieldOf ==
  ASSUME NEW J \in JobMap, NEW j \in Jobs
  PROVE  /\ \A s \in Status : [J EXCEPT ![j].status = s] \in JobMap
         /\ \A b \in BOOLEAN : [J EXCEPT ![j].tab = b] \in JobMap
         /\ \A d \in Digests : [J EXCEPT ![j].digest = d] \in JobMap
         /\ \A b \in BOOLEAN : [J EXCEPT ![j].reviewed = b] \in JobMap
<1>1. J[j] \in Entry /\ \A e \in Entry : [J EXCEPT ![j] = e] \in JobMap
  BY DEF JobMap
<1>2. \A s \in Status : [J[j] EXCEPT !.status = s] \in Entry
  BY <1>1 DEF Entry
<1>3. \A b \in BOOLEAN : [J[j] EXCEPT !.tab = b] \in Entry
  BY <1>1 DEF Entry
<1>4. \A d \in Digests : [J[j] EXCEPT !.digest = d] \in Entry
  BY <1>1 DEF Entry
<1>5. \A b \in BOOLEAN : [J[j] EXCEPT !.reviewed = b] \in Entry
  BY <1>1 DEF Entry
<1> QED BY <1>1, <1>2, <1>3, <1>4, <1>5

LEMMA EntryFields ==
  ASSUME NEW J \in JobMap, NEW j \in Jobs
  PROVE  /\ \A s \in Status : [J EXCEPT ![j].status = s] \in JobMap
         /\ \A b \in BOOLEAN : [J EXCEPT ![j].tab = b] \in JobMap
         /\ \A s \in Status, d \in Digests :
              [J EXCEPT ![j].status = s, ![j].digest = d] \in JobMap
         /\ \A s \in Status, d \in Digests, b \in BOOLEAN :
              [J EXCEPT ![j].status = s, ![j].digest = d, ![j].reviewed = b] \in JobMap
<1>1. ASSUME NEW s \in Status, NEW d \in Digests
      PROVE  [J EXCEPT ![j].status = s, ![j].digest = d] \in JobMap
  <2> DEFINE K == [J EXCEPT ![j].status = s]
  <2>1. K \in JobMap
    BY FieldOf
  <2>2. [K EXCEPT ![j].digest = d] \in JobMap
    <3> HIDE DEF K
    <3> QED BY <2>1, FieldOf
  <2> QED BY <2>2
<1>2. ASSUME NEW s \in Status, NEW d \in Digests, NEW b \in BOOLEAN
      PROVE  [J EXCEPT ![j].status = s, ![j].digest = d, ![j].reviewed = b] \in JobMap
  <2> DEFINE K == [J EXCEPT ![j].status = s, ![j].digest = d]
  <2>1. K \in JobMap
    BY <1>1
  <2>2. [K EXCEPT ![j].reviewed = b] \in JobMap
    <3> HIDE DEF K
    <3> QED BY <2>1, FieldOf
  <2> QED BY <2>2
<1> QED BY <1>1, <1>2, FieldOf

\* A save of well-typed entries and counters, done or failed, leaves a well-typed queue.
LEMMA SaveType ==
  ASSUME NEW J \in JobMap, NEW P \in PcMap, NEW A \in SUBSET Running(P),
         QueueOK, limit' \in Nat \ {0}, Save(J, P, A)
  PROVE  QueueOK'
<1>1. CASE SaveOk(J, P, A)
  <2>1. disk' \in File
    BY <1>1 DEF SaveOk, File
  <2> QED BY <1>1, <2>1 DEF SaveOk, QueueOK, Running
<1>2. CASE SaveFails(J, P)
  BY <1>2 DEF SaveFails, QueueOK, Running
<1> QED BY <1>1, <1>2 DEF Save

\* So does a walk of pump(), whichever jobs it starts and at whichever save it fails.
LEMMA PumpType ==
  ASSUME NEW J \in JobMap, NEW P \in PcMap, NEW A \in SUBSET Running(P),
         NEW D \in File, NEW E \in BOOLEAN,
         limit' \in Nat \ {0}, Pumped(J, P, A, D, E)
  PROVE  QueueOK'
<1> DEFINE Start(S) == [jobs |-> Started(J, S), limit |-> limit']
<1>1. ASSUME NEW S \in SUBSET Jobs
      PROVE  /\ Started(J, S) \in JobMap /\ Opening(P, S) \in PcMap
             /\ Running(P) \subseteq Running(Opening(P, S))
             /\ Start(S) \in File
  <2>1. \A j \in Jobs : [J[j] EXCEPT !.status = "running"] \in Entry /\ J[j] \in Entry
    BY DEF JobMap, Entry, Status
  <2>2. Started(J, S) \in JobMap
    BY <1>1, <2>1 DEF Started, JobMap
  <2>3. Opening(P, S) \in PcMap /\ Running(P) \subseteq Running(Opening(P, S))
    BY <1>1 DEF Opening, PcMap, RunPc, Running
  <2>4. Start(S) \in File
    BY <2>2 DEF File
  <2> QED BY <2>2, <2>3, <2>4
<1>2. CASE phase # "up" \/ E \/ ~connected
  BY <1>2 DEF Pumped, QueueOK
<1>3. CASE ~(phase # "up" \/ E \/ ~connected)
  <2>1. PICK S \in SUBSET Jobs :
          \/ /\ jobs' = Started(J, S) /\ pc' = Opening(P, S) /\ aborted' = A
             /\ disk' = IF S = {} THEN D ELSE Start(S)
             /\ storageError' = FALSE
          \/ \E f \in S : LET T == Before(S, f) IN
               /\ jobs' = [Started(J, T) EXCEPT ![f].status = "paused"]
               /\ pc' = Opening(P, T)
               /\ aborted' = Running(Opening(P, T))
               /\ disk' = IF T = {} THEN D ELSE Start(T)
               /\ storageError' = TRUE
    BY <1>3 DEF Pumped
  <2>2. CASE /\ jobs' = Started(J, S) /\ pc' = Opening(P, S) /\ aborted' = A
             /\ disk' = IF S = {} THEN D ELSE Start(S)
             /\ storageError' = FALSE
    BY <1>1, <2>2 DEF QueueOK, Running
  <2>3. ASSUME NEW f \in S, NEW T, T = Before(S, f),
               jobs' = [Started(J, T) EXCEPT ![f].status = "paused"],
               pc' = Opening(P, T), aborted' = Running(Opening(P, T)),
               disk' = IF T = {} THEN D ELSE Start(T), storageError' = TRUE
        PROVE  QueueOK'
    <3>1. T \in SUBSET Jobs /\ f \in Jobs
      BY <2>3 DEF Before
    <3>2. Started(J, T) \in JobMap /\ pc' \in PcMap /\ disk' \in File
      BY <1>1, <2>3, <3>1
    <3>3. jobs' \in JobMap
      BY <2>3, <3>1, <3>2, EntryFields DEF Status
    <3> QED BY <2>3, <3>2, <3>3 DEF QueueOK, Running
  <2> QED BY <2>1, <2>2, <2>3
<1> QED BY <1>2, <1>3

\* And a save followed by a walk.
LEMMA SaveThenPumpType ==
  ASSUME NEW J \in JobMap, NEW P \in PcMap, NEW A \in SUBSET Running(P),
         QueueOK, limit' \in Nat \ {0}, SaveThenPump(J, P, A)
  PROVE  QueueOK'
<1>1. CASE SaveFails(J, P)
  BY <1>1 DEF SaveFails, QueueOK, Running
<1>2. CASE Pumped(J, P, A, [jobs |-> J, limit |-> limit'], storageError)
  <2>1. [jobs |-> J, limit |-> limit'] \in File /\ storageError \in BOOLEAN
    BY DEF File, QueueOK
  <2> QED BY <1>2, <2>1, PumpType
<1> QED BY <1>1, <1>2 DEF SaveThenPump

-----------------------------------------------------------------------------
(* Type correctness.                                                        *)

RestOK ==
  /\ phase \in {"up", "draining", "closed", "down"} /\ connected \in BOOLEAN
  /\ limit \in Nat \ {0}
  /\ found \in [Jobs -> Digests]
  /\ session \in [Jobs -> {"none", "run", "review"}]
  /\ rev \in [Jobs -> [pc : RevPc, kind : {"refresh", "submit"},
                       digest : Digests, read : Digests]]
  /\ page \in [Jobs -> Contents] /\ wire \in [Jobs -> Digests]
  /\ clicks \in [Targets -> Nat] /\ edited \subseteq Jobs

\* The types of the queue and of everything else are the two halves of TypeOK.
LEMMA TypeSplit == /\ TypeOK <=> QueueOK /\ RestOK
                   /\ TypeOK' <=> QueueOK' /\ RestOK'
  BY DEF TypeOK, QueueOK, RestOK, JobMap, PcMap, File, Running

\* The steps of the owner and the timer that leave everything but the queue.
LEMMA OthersKept ==
  ASSUME RestOK, UNCHANGED others, limit' \in Nat \ {0}  PROVE RestOK'
  BY DEF RestOK, others, world

\* The steps of run() and its deadline keep the types.
LEMMA RunType ==
  ASSUME TypeOK, NEW j \in Jobs, RunStep(j) \/ Deadline(j)
  PROVE  TypeOK'
<1> QueueOK /\ RestOK /\ limit \in Nat \ {0}
  BY TypeSplit DEF RestOK
<1>0. /\ aborted \in SUBSET Running(pc) /\ jobs \in JobMap /\ pc \in PcMap
      /\ disk \in File /\ storageError \in BOOLEAN
  BY DEF QueueOK
<1>1. ASSUME NEW J \in JobMap, Caught(J, j), UNCHANGED <<phase, connected, limit, rev>>,
             found' \in [Jobs -> Digests], page' \in [Jobs -> Contents],
             UNCHANGED <<wire, clicks, edited>>
      PROVE  TypeOK'
  <2>1. [J EXCEPT ![j].status = "paused"] \in JobMap
    BY EntryFields DEF Status
  <2>2. QueueOK'
    BY <1>0, <1>1, <2>1 DEF Caught, NoSave, QueueOK, Running, PcMap, RunPc
  <2>3. RestOK'
    BY <1>1 DEF Caught, RestOK
  <2> QED BY <2>2, <2>3, TypeSplit
<1>2. CASE RunOpens(j)
  <2> DEFINE J == [jobs EXCEPT ![j].tab = TRUE]
  <2>1. J \in JobMap /\ [J EXCEPT ![j].status = "paused"] \in JobMap
    BY <1>0, EntryFields DEF Status
  <2>2. /\ [pc EXCEPT ![j] = "filling"] \in PcMap
        /\ [pc EXCEPT ![j] = "unwinding"] \in PcMap
        /\ Running(pc) \subseteq Running([pc EXCEPT ![j] = "filling"])
    BY <1>0, <1>2 DEF PcMap, RunPc, Running, RunOpens
  <2>3. CASE Caught(J, j)
    BY <1>1, <1>2, <2>1, <2>3 DEF RunOpens, world, RestOK
  <2>4. CASE SaveOk(J, [pc EXCEPT ![j] = "filling"], aborted)
             /\ session' = [session EXCEPT ![j] = "run"]
    <3>1. QueueOK'
      BY <1>0, <1>2, <2>1, <2>2, <2>4, SaveType DEF Save, RunOpens
    <3>2. RestOK'
      BY <1>2, <2>4 DEF RestOK, RunOpens, world
    <3> QED BY <3>1, <3>2, TypeSplit
  <2>5. CASE SaveFails([J EXCEPT ![j].status = "paused"], [pc EXCEPT ![j] = "unwinding"])
             /\ UNCHANGED session
    <3>1. QueueOK'
      BY <1>0, <1>2, <2>1, <2>2, <2>5, SaveType DEF Save, RunOpens, Running
    <3>2. RestOK'
      BY <1>2, <2>5 DEF RestOK, RunOpens, world
    <3> QED BY <3>1, <3>2, TypeSplit
  <2> QED BY <1>2, <2>3, <2>4, <2>5 DEF RunOpens
<1>3. CASE RunOpenFails(j)
  BY <1>0, <1>1, <1>3 DEF RunOpenFails, world, RestOK
<1>4. ASSUME NEW c \in Contents, FillSucceeds(j, c)  PROVE TypeOK'
  <2>1. page' \in [Jobs -> Contents]
    BY <1>4 DEF FillSucceeds, RestOK
  <2>2. CASE j \in aborted
    BY <1>0, <1>1, <1>4, <2>1, <2>2 DEF FillSucceeds, RestOK
  <2>3. CASE j \notin aborted
    <3>1. QueueOK'
      BY <1>0, <1>4, <2>3 DEF FillSucceeds, NoSave, QueueOK, Running, PcMap, RunPc
    <3>2. RestOK'
      BY <1>4, <2>1, <2>3 DEF FillSucceeds, RestOK, Digests
    <3> QED BY <3>1, <3>2, TypeSplit
  <2> QED BY <2>2, <2>3
<1>5. CASE FillFails(j)
  BY <1>0, <1>1, <1>5 DEF FillFails, world, RestOK
<1>6. CASE RunCloses(j)
  <2> DEFINE J == [jobs EXCEPT ![j].status = "review", ![j].digest = found[j],
                               ![j].reviewed = TRUE]
             P == [pc EXCEPT ![j] = "idle"]
  <2>1. J \in JobMap /\ [J EXCEPT ![j].status = "paused"] \in JobMap
    BY <1>0, EntryFields DEF Status, RestOK
  <2>2. found' \in [Jobs -> Digests] /\ limit' \in Nat \ {0}
    BY <1>6 DEF RunCloses, RestOK, Digests
  <2>3. CASE Caught(jobs, j)
    BY <1>0, <1>1, <1>6, <2>2, <2>3 DEF RunCloses, world, RestOK
  <2>4. CASE UNCHANGED session /\ QueueOK'
    <3>1. RestOK'
      BY <1>6, <2>2, <2>4 DEF RunCloses, RestOK, world
    <3> QED BY <2>4, <3>1, TypeSplit
  <2>5. ASSUME SaveFails([J EXCEPT ![j].status = "paused"],
                         [pc EXCEPT ![j] = "unwinding"])
        PROVE QueueOK'
    <3>1. [pc EXCEPT ![j] = "unwinding"] \in PcMap
      BY <1>0 DEF PcMap, RunPc
    <3> QED BY <1>0, <2>1, <2>5, <3>1 DEF SaveFails, QueueOK, Running
  <2>6. ASSUME j \notin aborted, RunPublishes(J, j)  PROVE QueueOK'
    <3>1. /\ P \in PcMap /\ [jobs |-> J, limit |-> limit'] \in File
          /\ aborted \ {j} \in SUBSET Running(P)
      BY <1>0, <2>1, <2>2 DEF PcMap, RunPc, File, Running
    <3>2. CASE Pumped(J, P, aborted \ {j}, [jobs |-> J, limit |-> limit'], storageError)
      <4> HIDE DEF J, P
      <4> QED BY <1>0, <2>1, <2>2, <3>1, <3>2, PumpType
    <3>3. CASE /\ jobs' = J /\ pc' = P /\ aborted' = Running(P)
               /\ disk' = [jobs |-> J, limit |-> limit'] /\ storageError' = TRUE
      <4> HIDE DEF J, P
      <4> QED BY <2>1, <3>1, <3>3 DEF QueueOK, Running
    <3> QED BY <2>6, <3>2, <3>3 DEF RunPublishes
  <2> QED BY <1>6, <2>3, <2>4, <2>5, <2>6 DEF RunCloses
<1>7. CASE RunUnwinds(j)
  <2>1. [pc EXCEPT ![j] = "idle"] \in PcMap
        /\ aborted \ {j} \in SUBSET Running([pc EXCEPT ![j] = "idle"])
    BY <1>0 DEF PcMap, RunPc, Running
  <2>2. QueueOK'
    BY <1>0, <1>7, <2>1, SaveThenPumpType DEF RunUnwinds, RunEnds
  <2> QED BY <1>7, <2>2, OthersKept, TypeSplit DEF RunUnwinds
<1>8. CASE Deadline(j)
  <2>1. QueueOK'
    BY <1>0, <1>8 DEF Deadline, QueueOK, Running
  <2>2. RestOK'
    BY <1>8 DEF Deadline, RestOK, world
  <2> QED BY <2>1, <2>2, TypeSplit
<1> QED BY <1>2, <1>3, <1>4, <1>5, <1>6, <1>7, <1>8 DEF RunStep

\* What every save or pump of the current queue with other job entries keeps.
LEMMA OwnerSaves ==
  ASSUME TypeOK, NEW J \in JobMap, limit' \in Nat \ {0}, UNCHANGED others,
         \/ Save(J, pc, aborted)
         \/ SaveThenPump(J, pc, aborted)
         \/ Pumped(J, pc, aborted, [jobs |-> J, limit |-> limit'], storageError)
         \/ Pumped(J, pc, aborted, [jobs |-> J, limit |-> limit'], FALSE)
         \/ Pumped(J, pc, aborted, disk, storageError)
  PROVE  TypeOK'
<1>1. QueueOK /\ RestOK
  BY TypeSplit
<1>2. /\ pc \in PcMap /\ aborted \in SUBSET Running(pc) /\ disk \in File
      /\ storageError \in BOOLEAN /\ [jobs |-> J, limit |-> limit'] \in File
  BY <1>1 DEF QueueOK, File
<1>3. QueueOK'
  BY <1>1, <1>2, SaveType, SaveThenPumpType, PumpType
<1> QED BY <1>1, <1>3, OthersKept, TypeSplit

\* The owner's requests and the timer keep the types.
LEMMA RequestType ==
  ASSUME TypeOK,
         \/ \E t \in Targets, b \in BOOLEAN : AddNew(t, b)
         \/ \E j \in Jobs, b \in BOOLEAN : AddKnown(j, b)
         \/ \E n \in Limits : SetConcurrency(n)
         \/ RecoverStorage \/ ConfigureFails \/ Tick
         \/ \E j \in Jobs : Pause(j) \/ Retry(j) \/ Remove(j) \/ Restore(j)
  PROVE  TypeOK'
<1>1. /\ QueueOK /\ RestOK /\ jobs \in JobMap /\ limit \in Nat \ {0}
      /\ pc \in PcMap /\ aborted \in SUBSET Running(pc)
  BY TypeSplit DEF QueueOK, RestOK
<1>2. ASSUME NEW t \in Targets, NEW b \in BOOLEAN, AddNew(t, b)  PROVE TypeOK'
  <2>1. PICK j \in Jobs : LET J == [jobs EXCEPT ![j] = [target |-> t,
                               status |-> "queued", digest |-> NoDigest,
                               reviewed |-> FALSE, tab |-> b]]
          IN \/ SaveFails(jobs, pc)
             \/ Pumped(J, pc, aborted, [jobs |-> J, limit |-> limit'], storageError)
    BY <1>2 DEF AddNew
  <2> DEFINE J == [jobs EXCEPT ![j] = [target |-> t, status |-> "queued",
                     digest |-> NoDigest, reviewed |-> FALSE, tab |-> b]]
  <2>2. J \in JobMap
    BY <1>1 DEF JobMap, Entry, Status, Digests
  <2>3. UNCHANGED others /\ limit' \in Nat \ {0}
    BY <1>1, <1>2 DEF AddNew
  <2> HIDE DEF J
  <2>4. Save(jobs, pc, aborted)
        \/ Pumped(J, pc, aborted, [jobs |-> J, limit |-> limit'], storageError)
    BY <2>1 DEF Save, J
  <2> QED BY <1>1, <2>2, <2>3, <2>4, OwnerSaves
<1>3. ASSUME NEW j \in Jobs, NEW b \in BOOLEAN, AddKnown(j, b)  PROVE TypeOK'
  <2> DEFINE J == [jobs EXCEPT ![j].tab = @ \/ b]
  <2>1. J \in JobMap
    BY <1>1 DEF JobMap, Entry
  <2>2. UNCHANGED others /\ limit' \in Nat \ {0}
    BY <1>1, <1>3 DEF AddKnown
  <2> HIDE DEF J
  <2>3. Save(jobs, pc, aborted)
        \/ Pumped(J, pc, aborted, [jobs |-> J, limit |-> limit'], storageError)
    BY <1>3 DEF Save, AddKnown, J
  <2> QED BY <1>1, <2>1, <2>2, <2>3, OwnerSaves
<1>4. ASSUME NEW n \in Limits, SetConcurrency(n)  PROVE TypeOK'
  BY <1>1, <1>4, OwnerSaves, QueueAssumption DEF SetConcurrency
<1>5. CASE RecoverStorage
  BY <1>1, <1>5, OwnerSaves DEF RecoverStorage, Save
<1>6. CASE ConfigureFails
  BY <1>1, <1>6, OwnerSaves DEF ConfigureFails, Save, others
<1>7. CASE Tick
  BY <1>1, <1>7, OwnerSaves DEF Tick
<1>8. ASSUME NEW j \in Jobs, Pause(j)  PROVE TypeOK'
  <2> DEFINE J == [jobs EXCEPT ![j].status = "paused"]
  <2>1. J \in JobMap /\ aborted \cup ({j} \cap Running(pc)) \in SUBSET Running(pc)
    BY <1>1, EntryFields DEF Status
  <2>2. QueueOK'
    BY <1>1, <1>8, <2>1, SaveType DEF Pause, Save
  <2>3. RestOK'
    BY <1>1, <1>8 DEF Pause, RestOK, world
  <2> QED BY <2>2, <2>3, TypeSplit
<1>9. ASSUME NEW j \in Jobs, Retry(j) \/ Remove(j) \/ Restore(j)  PROVE TypeOK'
  <2>1. [jobs EXCEPT ![j].status = "queued", ![j].digest = NoDigest] \in JobMap
        /\ \A s \in Status : [jobs EXCEPT ![j].status = s] \in JobMap
    BY <1>1, EntryFields DEF Status, Digests
  <2>2. CASE Retry(j)
    BY <1>1, <2>1, <2>2, OwnerSaves DEF Retry
  <2>3. CASE Remove(j)
    BY <1>1, <2>1, <2>3, OwnerSaves DEF Remove, Status
  <2>4. CASE Restore(j)
    BY <1>1, <2>1, <2>4, OwnerSaves DEF Restore, Status
  <2> QED BY <1>9, <2>2, <2>3, <2>4
<1> QED BY <1>2, <1>3, <1>4, <1>5, <1>6, <1>7, <1>8, <1>9

\* The steps of a review action keep the types.
LEMMA ReviewType ==
  ASSUME TypeOK, NEW j \in Jobs,
         ReviewStep(j) \/ RequestRefresh(j) \/ RequestSubmit(j) \/ RejectReview(j)
  PROVE  TypeOK'
<1>1. /\ QueueOK /\ RestOK /\ jobs \in JobMap /\ limit \in Nat \ {0}
      /\ pc \in PcMap /\ aborted \in SUBSET Running(pc)
  BY TypeSplit DEF QueueOK, RestOK
<1>2. \A p \in RevPc : At(j, p) \in [Jobs -> [pc : RevPc, kind : {"refresh", "submit"},
                                               digest : Digests, read : Digests]]
  BY <1>1 DEF At, RestOK
<1>3. Released(j) \in [Jobs -> {"none", "run", "review"}]
  BY <1>1 DEF Released, RestOK
<1>4. ASSUME QueueOK', UNCHANGED <<phase, connected, limit, found, world>>,
             session' \in [Jobs -> {"none", "run", "review"}],
             rev' \in [Jobs -> [pc : RevPc, kind : {"refresh", "submit"},
                                digest : Digests, read : Digests]]
      PROVE  TypeOK'
  <2>1. RestOK'
    BY <1>1, <1>4 DEF RestOK, world
  <2> QED BY <1>4, <2>1, TypeSplit
<1>5. ASSUME UNCHANGED queue  PROVE QueueOK' /\ UNCHANGED limit
  BY <1>1, <1>5 DEF QueueOK, queue, Running
<1>6. CASE RequestRefresh(j)
  <2>1. rev' \in [Jobs -> [pc : RevPc, kind : {"refresh", "submit"},
                           digest : Digests, read : Digests]]
    BY <1>1, <1>6 DEF RequestRefresh, RestOK, NoReview, RevPc, Digests
  <2> QED BY <1>1, <1>4, <1>5, <1>6, <2>1 DEF RequestRefresh, RestOK
<1>7. CASE RequestSubmit(j)
  <2>1. rev' \in [Jobs -> [pc : RevPc, kind : {"refresh", "submit"},
                           digest : Digests, read : Digests]]
    BY <1>1, <1>7 DEF RequestSubmit, RestOK, RevPc, Digests, JobMap, Entry
  <2> QED BY <1>1, <1>4, <1>5, <1>7, <2>1 DEF RequestSubmit, RestOK
<1>8. CASE RejectReview(j)
  BY <1>2, <1>3, <1>4, <1>5, <1>8 DEF RejectReview, RevPc
<1>9. CASE ReviewOpens(j)
  <2>1. session' \in [Jobs -> {"none", "run", "review"}]
    BY <1>1, <1>3, <1>9 DEF ReviewOpens, RestOK
  <2> QED BY <1>2, <1>4, <1>5, <1>9, <2>1 DEF ReviewOpens, RevPc
<1>10. CASE ReadReview(j)
  <2>1. rev' \in [Jobs -> [pc : RevPc, kind : {"refresh", "submit"},
                           digest : Digests, read : Digests]]
    <3> DEFINE V == [pc : RevPc, kind : {"refresh", "submit"}, digest : Digests, read : Digests]
    <3>1. rev \in [Jobs -> V] /\ page[j] \in Digests
      BY <1>1 DEF RestOK, Digests
    <3>2. [rev[j] EXCEPT !.pc = "read", !.read = page[j]] \in V
      BY <3>1 DEF RevPc
    <3>3. rev' = [rev EXCEPT ![j] = [rev[j] EXCEPT !.pc = "read", !.read = page[j]]]
      BY <1>10, <3>1 DEF ReadReview
    <3> QED BY <3>1, <3>2, <3>3
  <2> QED BY <1>1, <1>4, <1>5, <1>10, <2>1 DEF ReadReview, RestOK
<1>11. CASE ReviewFails(j)
  <2>1. [jobs EXCEPT ![j].status = "paused", ![j].digest = NoDigest] \in JobMap
    BY <1>1, EntryFields DEF Status, Digests
  <2>2. QueueOK'
    <3>1. CASE NoSave(jobs, pc)
      BY <1>1, <3>1 DEF NoSave, QueueOK, Running
    <3>2. CASE Save([jobs EXCEPT ![j].status = "paused", ![j].digest = NoDigest],
                    pc, aborted)
      BY <1>1, <1>11, <2>1, <3>2, SaveType DEF ReviewFails
    <3> QED BY <1>11, <3>1, <3>2 DEF ReviewFails
  <2> QED BY <1>2, <1>3, <1>4, <1>11, <2>2 DEF ReviewFails, RevPc
<1>12. CASE RefreshDone(j)
  <2>1. /\ [jobs EXCEPT ![j].status = "paused", ![j].digest = NoDigest] \in JobMap
        /\ [jobs EXCEPT ![j].status = "review", ![j].digest = rev[j].read] \in JobMap
    BY <1>1, EntryFields DEF Status, Digests, RestOK
  <2>2. QueueOK'
    <3>1. CASE SaveOk([jobs EXCEPT ![j].status = "review", ![j].digest = rev[j].read],
                      pc, aborted)
      BY <1>1, <1>12, <2>1, <3>1, SaveType DEF RefreshDone, Save
    <3>2. CASE ~SaveOk([jobs EXCEPT ![j].status = "review", ![j].digest = rev[j].read],
                       pc, aborted)
      <4> DEFINE J == [jobs EXCEPT ![j].status = "paused", ![j].digest = NoDigest]
      <4>1. [jobs |-> J, limit |-> limit'] \in File
        BY <1>1, <1>12, <2>1 DEF RefreshDone, File
      <4>2. /\ jobs' = J /\ storageError' = TRUE
            /\ aborted' = Running(pc) /\ UNCHANGED pc
            /\ disk' \in {disk, [jobs |-> J, limit |-> limit']}
        BY <1>12, <3>2 DEF RefreshDone
      <4> HIDE DEF J
      <4> QED BY <1>1, <2>1, <4>1, <4>2 DEF QueueOK, Running, J
    <3> QED BY <3>1, <3>2
  <2> QED BY <1>2, <1>3, <1>4, <1>12, <2>2 DEF RefreshDone, RevPc
<1>13. CASE SubmitIntends(j)
  <2>1. [jobs EXCEPT ![j].status = "submitting"] \in JobMap
    BY <1>1, EntryFields DEF Status
  <2>2. QueueOK'
    BY <1>1, <1>13, <2>1, SaveType DEF SubmitIntends, Save
  <2>3. session' \in [Jobs -> {"none", "run", "review"}]
    BY <1>1, <1>3, <1>13 DEF SubmitIntends, RestOK
  <2> QED BY <1>2, <1>4, <1>13, <2>2, <2>3 DEF SubmitIntends, RevPc
<1>14. CASE SubmitClicks(j)
  <2>1. QueueOK'
    BY <1>5, <1>14 DEF SubmitClicks
  <2>2. RestOK'
    BY <1>1, <1>2, <1>5, <1>14 DEF SubmitClicks, RestOK, RevPc
  <2> QED BY <2>1, <2>2, TypeSplit
<1>15. ASSUME NEW o \in {"submitted", "submission_uncertain"}, SubmitEnds(j, o)
       PROVE TypeOK'
  <2>1. [jobs EXCEPT ![j].status = o, ![j].digest = NoDigest] \in JobMap
    BY <1>1, EntryFields DEF Status, Digests
  <2>2. QueueOK'
    BY <1>1, <1>15, <2>1, SaveType DEF SubmitEnds
  <2> QED BY <1>2, <1>3, <1>4, <1>15, <2>2 DEF SubmitEnds, RevPc
<1>16. CASE ReviewReleased(j)
  <2>1. rev' \in [Jobs -> [pc : RevPc, kind : {"refresh", "submit"},
                           digest : Digests, read : Digests]]
    BY <1>1, <1>16 DEF ReviewReleased, RestOK, NoReview, RevPc, Digests
  <2> QED BY <1>1, <1>4, <1>5, <1>16, <2>1 DEF ReviewReleased, RestOK
<1> QED BY <1>6, <1>7, <1>8, <1>9, <1>10, <1>11, <1>12, <1>13, <1>14, <1>15, <1>16
        DEF ReviewStep, SubmitThrows, SubmitReturns

\* Shutdown, crash, restart and the browser's connection keep the types.
LEMMA LifeType ==
  ASSUME TypeOK, Close \/ DrainEnds \/ Stop \/ Restart \/ Connect \/ Disconnect
  PROVE  TypeOK'
<1>1. /\ QueueOK /\ RestOK /\ jobs \in JobMap /\ limit \in Nat \ {0} /\ disk \in File
      /\ pc \in PcMap /\ aborted \in SUBSET Running(pc)
  BY TypeSplit DEF QueueOK, RestOK
<1>2. CASE Close
  <2>1. QueueOK'
    BY <1>1, <1>2 DEF Close, QueueOK, Running
  <2>2. RestOK'
    BY <1>1, <1>2 DEF Close, RestOK, world
  <2> QED BY <2>1, <2>2, TypeSplit
<1>3. CASE DrainEnds
  <2>1. [j \in Jobs |-> Drained(jobs[j])] \in JobMap
    <3>1. \A e \in Entry : Drained(e) \in Entry
      BY DEF Drained, Entry, Status, Digests
    <3>2. \A j \in Jobs : jobs[j] \in Entry
      BY <1>1 DEF JobMap
    <3> QED BY <3>1, <3>2 DEF JobMap
  <2>2. QueueOK'
    BY <1>1, <1>3, <2>1, SaveType DEF DrainEnds
  <2>3. RestOK'
    BY <1>1, <1>3 DEF DrainEnds, RestOK, world
  <2> QED BY <2>2, <2>3, TypeSplit
<1>4. CASE Stop
  <2>1. QueueOK'
    BY <1>1, <1>4 DEF Stop, QueueOK, File, PcMap, RunPc, Running
  <2>2. RestOK'
    BY <1>1, <1>4 DEF Stop, RestOK, File, NoReview, RevPc, Digests, world
  <2> QED BY <2>1, <2>2, TypeSplit
<1>5. CASE Restart
  <2>1. [j \in Jobs |-> Recovered(disk.jobs[j])] \in JobMap
    <3>1. \A e \in Entry : Recovered(e) \in Entry
      BY DEF Recovered, Entry, Status
    <3>2. \A j \in Jobs : disk.jobs[j] \in Entry
      BY <1>1 DEF JobMap, File
    <3> QED BY <3>1, <3>2 DEF JobMap
  <2>2. QueueOK'
    BY <1>1, <1>5, <2>1, SaveType DEF Restart, Save
  <2>3. RestOK'
    BY <1>1, <1>5 DEF Restart, RestOK, world
  <2> QED BY <2>2, <2>3, TypeSplit
<1>6. CASE Connect \/ Disconnect
  <2>1. QueueOK'
    BY <1>1, <1>6 DEF Connect, Disconnect, QueueOK, queue, Running
  <2>2. RestOK'
    BY <1>1, <1>6 DEF Connect, Disconnect, RestOK, queue, world
  <2> QED BY <2>1, <2>2, TypeSplit
<1> QED BY <1>2, <1>3, <1>4, <1>5, <1>6

\* The owner's edits and a lost click keep the types.
LEMMA PageType ==
  ASSUME TypeOK, NEW j \in Jobs, jobs[j].target \in Targets \/ wire[j] = NoDigest,
         (\E c \in Contents : Edit(j, c)) \/ ClickLands(j) \/ ClickLost(j)
  PROVE  TypeOK'
<1>1. QueueOK /\ RestOK
  BY TypeSplit
<1>2. QueueOK'
  BY <1>1 DEF Edit, ClickLands, ClickLost, QueueOK, queue, Running
<1>3. RestOK'
  BY <1>1 DEF Edit, ClickLands, ClickLost, RestOK, Digests, queue
<1> QED BY <1>2, <1>3, TypeSplit

\* The types hold of a queue without jobs.
LEMMA TypeInit == Init => TypeOK
<1> SUFFICES ASSUME Init PROVE TypeOK
  OBVIOUS
<1>1. (CHOOSE c \in Contents : TRUE) \in Contents
  BY QueueAssumption
<1>2. QueueOK
  BY QueueAssumption DEF Init, QueueOK, JobMap, PcMap, File, RunPc, Running, Absent,
     Entry, Status, Digests
<1>3. RestOK
  BY <1>1, QueueAssumption DEF Init, RestOK, Digests, NoReview, RevPc
<1> QED BY <1>2, <1>3, TypeSplit

\* Every step but a click that lands keeps the types; see CommitInv for that one.
LEMMA TypeNext ==
  ASSUME TypeOK, [Next]_vars,
         \A j \in Jobs : wire[j] # NoDigest => jobs[j].target \in Targets
  PROVE  TypeOK'
<1>1. CASE UNCHANGED vars
  BY <1>1 DEF vars, world, TypeOK
<1>2. CASE \E j \in Jobs : RunStep(j) \/ Deadline(j)
  BY <1>2, RunType
<1>3. CASE \E j \in Jobs : ReviewStep(j)
  BY <1>3, ReviewType
<1>4. CASE \E j \in Jobs : OwnerStep(j)
  BY <1>4, ReviewType, RequestType, PageType DEF OwnerStep
<1>5. CASE \E j \in Jobs : ClickLands(j) \/ ClickLost(j)
  BY <1>5, PageType
<1>6. CASE \/ \E t \in Targets, b \in BOOLEAN : AddNew(t, b)
           \/ \E n \in Limits : SetConcurrency(n)
           \/ RecoverStorage \/ ConfigureFails \/ Tick
  BY <1>6, RequestType
<1>7. CASE Close \/ DrainEnds \/ Stop \/ Restart \/ Connect \/ Disconnect
  BY <1>7, LifeType
<1> QED BY <1>1, <1>2, <1>3, <1>4, <1>5, <1>6, <1>7 DEF Next
=============================================================================
