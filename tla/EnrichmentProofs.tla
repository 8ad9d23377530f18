-------------------------- MODULE EnrichmentProofs --------------------------
(***************************************************************************)
(* Theorems about the enrichment queue for every number of rows, workers,  *)
(* postings and slots, and every number of events.                         *)
(***************************************************************************)
EXTENDS EnrichmentProps, FiniteSetTheorems, TLAPS

RowMap == [Rows -> RowType]
WorkerType == [pc : {"idle", "public", "board"}, row : Rows \cup {0},
               mine : BOOLEAN, prev : [st : St, stamped : BOOLEAN]]
AdderType == [pc : {"idle", "insert", "adopt", "update"}, row : Rows \cup {0},
              source : {"public", "board"}, key : Postings \cup {Nobody}]

\* What a worker holds is there, and what a board's worker holds is the board's.
HeldRows ==
  \A w \in Workers : worker[w].pc # "idle" =>
    /\ worker[w].row \in Rows /\ row[worker[w].row].status # "absent"
    /\ worker[w].pc = "board" => row[worker[w].row].source = "board"

\* The row that add_job() is going to insert is not there yet.
AdderInv == adder.pc # "idle" =>
  /\ adder.row \in Rows
  /\ adder.pc = "insert" => row[adder.row].status = "absent"

IInv == TypeOK /\ HeldRows /\ AdderInv

-----------------------------------------------------------------------------
(* The rows.                                                               *)

\* Equal but for the reason, which the employer cap may change anywhere.
Alike(x, y) ==
  /\ x.status = y.status /\ x.source = y.source /\ x.st = y.st /\ x.stamped = y.stamped
  /\ x.eligible = y.eligible /\ x.removed = y.removed /\ x.key = y.key

LEMMA ServedKeeps ==
  ASSUME NEW J \in RowMap, NEW K \in Served(J)
  PROVE  K \in RowMap /\ \A r \in Rows : Alike(K[r], J[r])
<1>1. PICK Reason \in [Rows -> Managed \cup Reasons] :
        K = [r \in Rows |-> [J[r] EXCEPT !.reason = Reason[r]]]
  <2> DEFINE there == {r \in Rows : J[r].status # "absent"}
             standing == {r \in there : StandsFor(J, r)}
             history == {r \in there : J[r].status = "applied"}
             candidates == {r \in standing \ history :
                              J[r].reason \in Managed /\ ~J[r].removed}
             Why(r, L) ==
               IF J[r].reason \notin Managed THEN J[r].reason
               ELSE IF r \in candidates THEN IF r \in L THEN "none" ELSE "cap"
               ELSE IF r \in there \ (standing \cup history) THEN "dup"
               ELSE IF r \in standing /\ J[r].reason = "dup" THEN "none"
               ELSE J[r].reason
  <2>1. \A r \in Rows : J[r].reason \in Managed \cup Reasons
    BY DEF RowMap, RowType
  <2>2. PICK L : K = [r \in Rows |-> [J[r] EXCEPT !.reason = Why(r, L)]]
    BY DEF Served
  <2>3. \A r \in Rows : Why(r, L) \in Managed \cup Reasons
    BY <2>1 DEF Managed
  <2> HIDE DEF Why
  <2> DEFINE chosen == [r \in Rows |-> Why(r, L)]
  <2>4. chosen \in [Rows -> Managed \cup Reasons]
    BY <2>3
  <2>5. K = [r \in Rows |-> [J[r] EXCEPT !.reason = chosen[r]]]
    BY <2>2
  <2> QED BY <2>4, <2>5
<1>2. ASSUME NEW x \in RowType, NEW why \in Managed \cup Reasons
      PROVE  [x EXCEPT !.reason = why] \in RowType /\ Alike([x EXCEPT !.reason = why], x)
  <2>1. [x EXCEPT !.reason = why] \in RowType
    BY DEF RowType
  <2>2. Alike([x EXCEPT !.reason = why], x)
    BY DEF RowType, Alike
  <2> QED BY <2>1, <2>2
<1>3. \A r \in Rows : K[r] = [J[r] EXCEPT !.reason = Reason[r]] /\ J[r] \in RowType
                    /\ Reason[r] \in Managed \cup Reasons
  BY <1>1 DEF RowMap
<1>4. ASSUME NEW r \in Rows PROVE K[r] \in RowType /\ Alike(K[r], J[r])
  <2> DEFINE x == J[r]
  <2>1. K[r] = [x EXCEPT !.reason = Reason[r]]
    BY <1>3
  <2> HIDE DEF x
  <2>2. x \in RowType
    BY <1>3 DEF x
  <2>3. K[r] \in RowType /\ Alike(K[r], x)
    BY <1>2, <1>3, <2>1, <2>2
  <2> QED BY <2>3 DEF x
<1>5. K = [r \in Rows |-> K[r]]
  BY <1>1
<1> QED BY <1>4, <1>5 DEF RowMap

\* One row is written, and the month's slots are given out again or not.
Puts(r, x) == LET J == [row EXCEPT ![r] = x] IN row' = J \/ row' \in Served(J)

LEMMA PutsOne ==
  ASSUME row \in RowMap, NEW r \in Rows, NEW x \in RowType, Puts(r, x)
  PROVE  /\ row' \in RowMap
         /\ Alike(row'[r], x)
         /\ \A q \in Rows \ {r} : Alike(row'[q], row[q])
<1> DEFINE J == [row EXCEPT ![r] = x]
<1>1. J \in RowMap /\ J[r] = x /\ \A q \in Rows \ {r} : J[q] = row[q]
  BY DEF RowMap
<1>2. CASE row' = J
  BY <1>1, <1>2 DEF Alike
<1>3. CASE row' \in Served(J)
  BY <1>1, <1>3, ServedKeeps
<1> QED BY <1>2, <1>3 DEF Puts

\* No row goes, none comes, and none leaves its board.
RowsStay == \A q \in Rows :
  /\ row[q].status = "absent" <=> row'[q].status = "absent"
  /\ row[q].source = "board" => row'[q].source = "board"

LEMMA PutsStay ==
  ASSUME row \in RowMap, NEW r \in Rows, NEW x \in RowType, Puts(r, x),
         x.status = row[r].status, row[r].source = "board" => x.source = "board"
  PROVE  row' \in RowMap /\ RowsStay
BY PutsOne DEF RowsStay, Alike

-----------------------------------------------------------------------------
(* The invariant, step by step.                                            *)

\* No worker starts anything, and no row comes or goes.
WorkersStay == \A w \in Workers : worker'[w].pc # "idle" =>
  /\ worker'[w].pc = worker[w].pc /\ worker'[w].row = worker[w].row
  /\ worker'[w].mine => worker[w].mine

LEMMA StayKeeps ==
  ASSUME IInv, row' \in RowMap, RowsStay, worker' \in [Workers -> WorkerType], WorkersStay,
         recent' \subseteq Rows, events' \in Nat, adder' = adder
  PROVE  IInv'
<1>1. TypeOK'
  BY DEF IInv, TypeOK, RowMap, WorkerType
<1>2. HeldRows'
  BY DEF IInv, HeldRows, RowsStay, WorkersStay
<1>3. AdderInv'
  BY DEF IInv, AdderInv, RowsStay
<1> QED BY <1>1, <1>2, <1>3 DEF IInv

LEMMA IdleType == Idle \in WorkerType /\ Idle.pc = "idle"
BY DEF Idle, NoPrev, WorkerType, St

LEMMA LeavesKeeps ==
  ASSUME IInv, row' \in RowMap, RowsStay, NEW w \in Workers, Leaves(w),
         recent' = recent, adder' = adder, events' = events
  PROVE  IInv'
<1>1. worker \in [Workers -> WorkerType] /\ recent \subseteq Rows /\ events \in Nat
  BY DEF IInv, TypeOK, WorkerType
<1>2. worker' \in [Workers -> WorkerType] /\ WorkersStay
  BY <1>1, IdleType DEF Leaves, WorkersStay
<1> QED BY <1>1, <1>2, StayKeeps

LEMMA RowsKeep ==
  ASSUME IInv, row' \in RowMap, RowsStay, UNCHANGED <<recent, worker, adder>>, events' \in Nat
  PROVE  IInv'
<1>1. worker \in [Workers -> WorkerType] /\ recent \subseteq Rows
  BY DEF IInv, TypeOK, WorkerType
<1>2. WorkersStay
  BY DEF WorkersStay
<1> QED BY <1>1, <1>2, StayKeeps

\* A claim.
LEMMA ClaimKeeps ==
  ASSUME IInv, NEW w \in Workers, NEW r \in Present, NEW pc \in {"public", "board"},
         worker[w].pc = "idle", Claimed(w, r, pc), pc = "board" => row[r].source = "board",
         row' \in RowMap, RowsStay, adder' = adder, events' \in Nat
  PROVE  IInv'
<1>1. worker \in [Workers -> WorkerType] /\ recent \subseteq Rows /\ row \in RowMap
      /\ r \in Rows /\ row[r].status # "absent"
  BY DEF IInv, TypeOK, WorkerType, RowMap, Present
<1> DEFINE prev == IF pc = "public" THEN NoPrev ELSE [st |-> row[r].st, stamped |-> row[r].stamped]
           x == [pc |-> pc, row |-> r, mine |-> TRUE, prev |-> prev]
           y(v) == [worker[v] EXCEPT !.mine = @ /\ (worker[v].row = r => r \in recent)]
<1>2. worker' = [v \in Workers |-> IF v = w THEN x ELSE y(v)] /\ recent' = recent \cup {r}
  BY DEF Claimed
<1>3. prev \in [st : St, stamped : BOOLEAN]
  BY <1>1 DEF RowMap, RowType, NoPrev, St
<1>4. x \in WorkerType /\ x.pc = pc /\ x.row = r
  BY <1>1, <1>3 DEF WorkerType
<1>5. ASSUME NEW v \in Workers
      PROVE  /\ y(v) \in WorkerType /\ y(v).pc = worker[v].pc /\ y(v).row = worker[v].row
  <2> DEFINE u == worker[v]
  <2>1. u \in WorkerType
    BY <1>1
  <2> HIDE DEF u
  <2>2. LET z == [u EXCEPT !.mine = @ /\ (u.row = r => r \in recent)] IN
        z \in WorkerType /\ z.pc = u.pc /\ z.row = u.row
    BY <2>1 DEF WorkerType
  <2> QED BY <2>2 DEF u
<1> HIDE DEF x, y, prev
<1>6. worker' \in [Workers -> WorkerType]
  BY <1>2, <1>4, <1>5
<1>7. TypeOK'
  BY <1>1, <1>2, <1>6 DEF IInv, TypeOK, RowMap, WorkerType
<1>8. HeldRows'
  BY <1>1, <1>2, <1>4, <1>5 DEF IInv, HeldRows, RowsStay
<1>9. AdderInv'
  BY DEF IInv, AdderInv, RowsStay
<1> QED BY <1>7, <1>8, <1>9 DEF IInv

\* A step that writes the row r of x to become y, and may give out slots again.
LEMMA WriteStays ==
  ASSUME IInv, NEW r \in Rows, NEW y, Puts(r, y),
         \A x \in RowType : row[r] = x =>
           y \in RowType /\ y.status = x.status /\ (x.source = "board" => y.source = "board")
  PROVE  row' \in RowMap /\ RowsStay
<1>1. row \in RowMap /\ row[r] \in RowType
  BY DEF IInv, TypeOK, RowMap
<1>2. y \in RowType /\ y.status = row[r].status /\ (row[r].source = "board" => y.source = "board")
  BY <1>1
<1> QED BY <1>1, <1>2, PutsStay

LEMMA ClaimPublicKeeps ==
  ASSUME IInv, NEW w \in Workers, NEW r \in Rows, ClaimPublic(w, r)
  PROVE  IInv'
<1> DEFINE y == [[row[r] EXCEPT !.st = "processing"] EXCEPT !.stamped = TRUE]
<1>1. row \in RowMap /\ events \in Nat
  BY DEF IInv, TypeOK, RowMap
<1>2. row' = [row EXCEPT ![r] = y]
  BY <1>1 DEF ClaimPublic, RowMap
<1>3. Puts(r, y)
  BY <1>2 DEF Puts
<1>4. \A x \in RowType : row[r] = x =>
        y \in RowType /\ y.status = x.status /\ (x.source = "board" => y.source = "board")
  BY DEF RowType, St
<1>5. row' \in RowMap /\ RowsStay
  BY <1>3, <1>4, WriteStays
<1>6. r \in Present /\ events' \in Nat
  BY <1>1 DEF ClaimPublic, InScope, Present, Overtakes, Happens
<1> QED BY <1>5, <1>6, ClaimKeeps DEF ClaimPublic

LEMMA ClaimBoardKeeps ==
  ASSUME IInv, NEW w \in Workers, NEW r \in Rows, ClaimBoard(w, r)
  PROVE  IInv'
<1> DEFINE y == [row[r] EXCEPT !.st = "processing", !.stamped = TRUE, !.removed = FALSE]
<1>1. Puts(r, y)
  BY DEF ClaimBoard, Puts
<1>2. \A x \in RowType : row[r] = x =>
        y \in RowType /\ y.status = x.status /\ (x.source = "board" => y.source = "board")
  BY DEF RowType, St
<1>3. row' \in RowMap /\ RowsStay
  BY <1>1, <1>2, WriteStays
<1>4. r \in Present /\ events' \in Nat
  BY DEF ClaimBoard, IInv, TypeOK
<1> QED BY <1>3, <1>4, ClaimKeeps DEF ClaimBoard

LEMMA PublicKeeps ==
  ASSUME IInv, NEW w \in Workers, PublicSucceeds(w) \/ PublicFails(w) \/ Superseded(w)
  PROVE  IInv'
<1> DEFINE r == worker[w].row
<1>1. worker[w].pc # "idle" => r \in Rows
  BY DEF IInv, HeldRows
<1>2. CASE PublicSucceeds(w)
  <2>1. PICK base \in Reasons :
          row' \in Served([row EXCEPT ![r] = [@ EXCEPT !.st = "done", !.stamped = FALSE,
                          !.eligible = TRUE, !.removed = FALSE, !.reason = base]])
    BY <1>2 DEF PublicSucceeds
  <2> DEFINE y == [row[r] EXCEPT !.st = "done", !.stamped = FALSE, !.eligible = TRUE,
                                 !.removed = FALSE, !.reason = base]
  <2>2. r \in Rows /\ Puts(r, y)
    BY <1>1, <1>2, <2>1 DEF PublicSucceeds, Puts
  <2>3. \A x \in RowType : row[r] = x =>
          y \in RowType /\ y.status = x.status /\ (x.source = "board" => y.source = "board")
    BY DEF RowType, St
  <2>4. row' \in RowMap /\ RowsStay
    BY <2>2, <2>3, WriteStays
  <2> QED BY <1>2, <2>4, LeavesKeeps DEF PublicSucceeds
<1>3. CASE PublicFails(w)
  <2>1. PICK st \in {"failed", "blocked"}, gone \in BOOLEAN :
          LET failed == [row EXCEPT ![r] = [@ EXCEPT !.st = st, !.stamped = FALSE,
                                            !.eligible = FALSE, !.removed = gone]]
          IN row' = failed \/ row' \in Served(failed)
    BY <1>3 DEF PublicFails
  <2> DEFINE y == [row[r] EXCEPT !.st = st, !.stamped = FALSE, !.eligible = FALSE,
                                 !.removed = gone]
  <2>2. r \in Rows /\ Puts(r, y)
    BY <1>1, <1>3, <2>1 DEF PublicFails, Puts
  <2>3. \A x \in RowType : row[r] = x =>
          y \in RowType /\ y.status = x.status /\ (x.source = "board" => y.source = "board")
    BY DEF RowType, St
  <2>4. row' \in RowMap /\ RowsStay
    BY <2>2, <2>3, WriteStays
  <2> QED BY <1>3, <2>4, LeavesKeeps DEF PublicFails
<1>4. CASE Superseded(w)
  <2>1. row' \in RowMap /\ RowsStay
    BY <1>4 DEF Superseded, IInv, TypeOK, RowMap, RowsStay
  <2> QED BY <1>4, <2>1, LeavesKeeps DEF Superseded
<1> QED BY <1>2, <1>3, <1>4

LEMMA BoardKeeps ==
  ASSUME IInv, NEW w \in Workers,
         BoardSucceeds(w) \/ BoardFails(w) \/ BoardRestores(w) \/ WorkerDies(w)
  PROVE  IInv'
<1> DEFINE r == worker[w].row
<1>1. worker[w].pc # "idle" => r \in Rows
  BY DEF IInv, HeldRows
<1>2. CASE BoardSucceeds(w)
  <2>1. PICK base \in Reasons, eligible \in BOOLEAN, key \in Postings \cup {row[r].key} :
          row' \in Served([row EXCEPT ![r] = [row[r] EXCEPT !.st = "done", !.stamped = FALSE,
                 !.eligible = eligible, !.removed = FALSE, !.reason = base, !.key = key]])
    BY <1>2 DEF BoardSucceeds
  <2> DEFINE y == [row[r] EXCEPT !.st = "done", !.stamped = FALSE, !.eligible = eligible,
                                 !.removed = FALSE, !.reason = base, !.key = key]
  <2>2. r \in Rows /\ Puts(r, y)
    BY <1>1, <1>2, <2>1 DEF BoardSucceeds, Puts
  <2>3. \A x \in RowType : row[r] = x =>
          y \in RowType /\ y.status = x.status /\ (x.source = "board" => y.source = "board")
    BY <2>1 DEF RowType, St
  <2>4. row' \in RowMap /\ RowsStay
    BY <2>2, <2>3, WriteStays
  <2> QED BY <1>2, <2>4, LeavesKeeps DEF BoardSucceeds
<1>3. CASE BoardFails(w)
  <2>1. PICK st \in {"failed", "blocked"}, eligible \in {row[r].eligible, FALSE} :
          row' = [row EXCEPT ![r] = [@ EXCEPT !.st = st, !.stamped = FALSE,
                                              !.eligible = eligible, !.removed = FALSE]]
    BY <1>3 DEF BoardFails
  <2> DEFINE y == [row[r] EXCEPT !.st = st, !.stamped = FALSE, !.eligible = eligible,
                                 !.removed = FALSE]
  <2>2. r \in Rows /\ Puts(r, y)
    BY <1>1, <1>3, <2>1 DEF BoardFails, Puts
  <2>3. \A x \in RowType : row[r] = x =>
          y \in RowType /\ y.status = x.status /\ (x.source = "board" => y.source = "board")
    BY <2>1 DEF RowType, St
  <2>4. row' \in RowMap /\ RowsStay
    BY <2>2, <2>3, WriteStays
  <2> QED BY <1>3, <2>4, LeavesKeeps DEF BoardFails
<1>4. CASE BoardRestores(w)
  <2> DEFINE p == worker[w].prev
             y == [row[r] EXCEPT !.st = p.st, !.stamped = p.stamped]
  <2>1. p.st \in St /\ p.stamped \in BOOLEAN
    BY DEF IInv, TypeOK
  <2>2. r \in Rows /\ Puts(r, y)
    BY <1>1, <1>4 DEF BoardRestores, Puts
  <2>3. \A x \in RowType : row[r] = x =>
          y \in RowType /\ y.status = x.status /\ (x.source = "board" => y.source = "board")
    BY <2>1 DEF RowType
  <2>4. row' \in RowMap /\ RowsStay
    BY <2>2, <2>3, WriteStays
  <2> QED BY <1>4, <2>4, LeavesKeeps DEF BoardRestores
<1>5. CASE WorkerDies(w)
  <2>1. row' \in RowMap /\ RowsStay
    BY <1>5 DEF WorkerDies, IInv, TypeOK, RowMap, RowsStay
  <2> QED BY <1>5, <2>1, LeavesKeeps DEF WorkerDies
<1> QED BY <1>2, <1>3, <1>4, <1>5

LEMMA AddReadsKeeps ==
  ASSUME IInv, AddReads
  PROVE  IInv'
<1>1. UNCHANGED <<row, recent, worker>> /\ events' \in Nat
  <2>1. events \in Nat
    BY DEF IInv, TypeOK
  <2>2. UNCHANGED <<row, recent, worker>> /\ Happens
    BY DEF AddReads
  <2> QED BY <2>1, <2>2 DEF Happens
<1>2. adder' \in AdderType /\ AdderInv'
  <2>1. PICK source \in {"public", "board"}, key \in Postings \cup {Nobody} :
          \/ \E r \in Rows \ Present :
               adder' = [pc |-> "insert", row |-> r, source |-> source, key |-> key]
          \/ \E r \in Present, pc \in {"adopt", "update"} :
               adder' = [NoAdd EXCEPT !.row = r, !.key = key, !.pc = pc]
    BY DEF AddReads
  <2>2. ASSUME NEW r \in Rows \ Present,
               adder' = [pc |-> "insert", row |-> r, source |-> source, key |-> key]
        PROVE  adder' \in AdderType /\ AdderInv'
    <3>1. adder'.pc = "insert" /\ adder'.row = r /\ row' = row /\ row[r].status = "absent"
      BY <1>1, <2>2 DEF Present
    <3>2. adder' \in AdderType
      BY <2>2 DEF AdderType
    <3> QED BY <3>1, <3>2 DEF AdderInv
  <2>3. ASSUME NEW r \in Present, NEW pc \in {"adopt", "update"},
               adder' = [NoAdd EXCEPT !.row = r, !.key = key, !.pc = pc]
        PROVE  adder' \in AdderType /\ AdderInv'
    <3>1. adder' = [pc |-> pc, row |-> r, source |-> "public", key |-> key]
      BY <2>3 DEF NoAdd
    <3> QED BY <3>1 DEF AdderType, AdderInv, Present
  <2> QED BY <2>1, <2>2, <2>3
<1>3. TypeOK'
  BY <1>1, <1>2 DEF AdderType, IInv, TypeOK
<1>4. HeldRows'
  BY <1>1 DEF IInv, HeldRows
<1> QED BY <1>2, <1>3, <1>4 DEF IInv

LEMMA AddWritesKeeps ==
  ASSUME IInv, AddWrites
  PROVE  IInv'
<1> DEFINE r == adder.row
           key == IF row[r].key = Nobody THEN adder.key ELSE row[r].key
<1>1. r \in Rows /\ row \in RowMap /\ adder \in AdderType
  BY DEF AddWrites, IInv, AdderInv, TypeOK, RowMap, AdderType
<1>2. PICK base \in Reasons, same \in {row[r].reason} :
        \/ /\ adder.pc = "insert"
           /\ row' \in Served([row EXCEPT ![r] = Discovered(adder.source, adder.key, base)])
        \/ /\ adder.pc = "adopt"
           /\ \E reason \in {base, same} : row' \in Served([row EXCEPT ![r] =
                [@ EXCEPT !.source = "board", !.st = "pending", !.eligible = FALSE,
                          !.removed = FALSE, !.reason = reason]])
        \/ /\ adder.pc = "update"
           /\ \E reason \in {base, same} : row' \in Served([row EXCEPT ![r] =
                [@ EXCEPT !.reason = reason, !.key = key]])
  BY DEF AddWrites
<1>3. row' \in RowMap /\ \A q \in Rows :
        /\ row[q].status # "absent" => row'[q].status # "absent"
        /\ row[q].status # "absent" /\ row[q].source = "board" => row'[q].source = "board"
  <2>1. CASE adder.pc = "insert"
    <3> DEFINE y == Discovered(adder.source, adder.key, base)
    <3>1. y \in RowType /\ row[r].status = "absent" /\ Puts(r, y)
      BY <1>1, <1>2, <2>1
         DEF Discovered, NoRow, RowType, St, Managed, AdderType, IInv, AdderInv, Puts
    <3>2. row' \in RowMap /\ \A q \in Rows \ {r} : Alike(row'[q], row[q])
      BY <1>1, <3>1, PutsOne
    <3> QED BY <3>1, <3>2 DEF Alike
  <2>2. CASE adder.pc = "adopt"
    <3>1. PICK reason \in {base, same} : row' \in Served([row EXCEPT ![r] =
                [@ EXCEPT !.source = "board", !.st = "pending", !.eligible = FALSE,
                          !.removed = FALSE, !.reason = reason]])
      BY <1>2, <2>2
    <3> DEFINE y == [row[r] EXCEPT !.source = "board", !.st = "pending", !.eligible = FALSE,
                                   !.removed = FALSE, !.reason = reason]
    <3>2. Puts(r, y)
      BY <3>1 DEF Puts
    <3>3. \A x \in RowType : row[r] = x =>
            y \in RowType /\ y.status = x.status /\ (x.source = "board" => y.source = "board")
      BY <1>2, <3>1 DEF RowType, St
    <3> QED BY <1>1, <3>2, <3>3, WriteStays DEF RowsStay
  <2>3. CASE adder.pc = "update"
    <3>1. PICK reason \in {base, same} : row' \in Served([row EXCEPT ![r] =
                [@ EXCEPT !.reason = reason, !.key = key]])
      BY <1>2, <2>3
    <3> DEFINE y == [row[r] EXCEPT !.reason = reason, !.key = key]
    <3>2. Puts(r, y)
      BY <3>1 DEF Puts
    <3>3. \A x \in RowType : row[r] = x =>
            y \in RowType /\ y.status = x.status /\ (x.source = "board" => y.source = "board")
      <4>1. key = row[r].key \/ key = adder.key
        OBVIOUS
      <4>2. adder.key \in Postings \cup {Nobody} /\ row[r].key \in Postings \cup {Nobody}
        BY <1>1 DEF AdderType, RowMap, RowType
      <4>3. reason \in Managed \cup Reasons
        BY <1>1, <1>2, <3>1 DEF RowMap, RowType
      <4> HIDE DEF key
      <4> QED BY <4>1, <4>2, <4>3 DEF RowType
    <3> HIDE DEF y, key
    <3>4. row' \in RowMap /\ RowsStay
      BY <1>1, <3>2, <3>3, WriteStays
    <3> QED BY <3>4 DEF RowsStay
  <2> QED BY <1>2, <2>1, <2>2, <2>3
<1>4. TypeOK'
  BY <1>3 DEF AddWrites, NoAdd, IInv, TypeOK, RowMap
<1>5. HeldRows' /\ AdderInv'
  BY <1>3 DEF AddWrites, NoAdd, IInv, HeldRows, AdderInv
<1> QED BY <1>4, <1>5 DEF IInv

\* A start gives out slots, and rows of boards are requeued.
LEMMA MaintenanceRows ==
  ASSUME IInv, Maintenance
  PROVE  /\ row' \in RowMap
         /\ \A q \in Rows : Alike(row'[q], row[q]) \/
              /\ row[q].source = "board" /\ row'[q].source = "board"
              /\ row'[q].status = row[q].status
<1>1. row \in RowMap
  BY DEF IInv, TypeOK, RowMap
<1>2. PICK J \in {row} \cup Released, R \in SUBSET Present :
        row' = Requeued(J, R) /\ \A q \in R : row[q].source = "board"
  BY DEF Maintenance
<1>3. J \in RowMap /\ \A q \in Rows : Alike(J[q], row[q])
  <2>1. J = row \/ J \in Served(row)
    BY <1>2 DEF Released
  <2> QED BY <1>1, <2>1, ServedKeeps DEF Alike
<1>4. ASSUME NEW q \in Rows
      PROVE  /\ row'[q] \in RowType
             /\ Alike(row'[q], row[q]) \/
                  /\ row[q].source = "board" /\ row'[q].source = "board"
                  /\ row'[q].status = row[q].status
  <2> DEFINE x == J[q]
             y == [x EXCEPT !.st = "pending", !.stamped = FALSE, !.removed = FALSE]
  <2>1. row'[q] = IF q \in R THEN y ELSE x
    BY <1>2 DEF Requeued
  <2>2. x \in RowType /\ Alike(x, row[q])
    BY <1>3 DEF RowMap
  <2> HIDE DEF x
  <2>3. y \in RowType /\ y.source = x.source /\ y.status = x.status
    BY <2>2 DEF RowType, St
  <2>4. q \in R => row[q].source = "board"
    BY <1>2
  <2> QED BY <2>1, <2>2, <2>3, <2>4 DEF Alike
<1>5. row' = [q \in Rows |-> row'[q]]
  BY <1>2 DEF Requeued
<1> QED BY <1>4, <1>5 DEF RowMap

LEMMA OthersKeep ==
  ASSUME IInv,
         \/ Maintenance \/ SecondPasses
         \/ \E r \in Rows : \/ Requeue(r) \/ C4Claims(r) \/ C4Applied(r)
                            \/ \E st \in Overrides : Override(r, st)
  PROVE  IInv'
<1>1. row \in RowMap /\ events \in Nat
  BY DEF IInv, TypeOK, RowMap
<1>2. CASE Maintenance
  <2>1. row' \in RowMap /\ RowsStay
    BY <1>2, MaintenanceRows DEF RowsStay, Alike
  <2>2. events' \in Nat /\ UNCHANGED <<recent, worker, adder>>
    BY <1>1, <1>2 DEF Maintenance, Overtakes, Happens
  <2> QED BY <2>1, <2>2, RowsKeep
<1>3. CASE SecondPasses
  BY <1>3 DEF SecondPasses, IInv, TypeOK, HeldRows, AdderInv
<1>4. ASSUME NEW r \in Rows, Requeue(r) PROVE IInv'
  <2> DEFINE y == [row[r] EXCEPT !.st = "pending", !.stamped = FALSE, !.removed = FALSE]
  <2>1. row' = [row EXCEPT ![r] = y]
    BY <1>1, <1>4 DEF Requeue, Requeued, RowMap
  <2>2. \A x \in RowType : row[r] = x =>
          y \in RowType /\ y.status = x.status /\ (x.source = "board" => y.source = "board")
    BY DEF RowType, St
  <2> HIDE DEF y
  <2>3. row' \in RowMap /\ RowsStay
    BY <2>1, <2>2, WriteStays DEF Puts
  <2> QED BY <1>1, <1>4, <2>3, RowsKeep DEF Requeue, Happens
<1>5. ASSUME NEW r \in Rows, NEW st \in Overrides, Override(r, st) PROVE IInv'
  <2> DEFINE y == [row[r] EXCEPT !.st = st]
  <2>1. row' = [row EXCEPT ![r] = y]
    BY <1>1, <1>5 DEF Override, RowMap
  <2>2. \A x \in RowType : row[r] = x =>
          y \in RowType /\ y.status = x.status /\ (x.source = "board" => y.source = "board")
    BY EnrichmentAssumption DEF RowType, St
  <2> HIDE DEF y
  <2>3. row' \in RowMap /\ RowsStay
    BY <2>1, <2>2, WriteStays DEF Puts
  <2> QED BY <1>1, <1>5, <2>3, RowsKeep DEF Override, Happens
<1>6. ASSUME NEW r \in Rows, C4Claims(r) \/ C4Applied(r) PROVE IInv'
  <2>1. PICK status \in {"claimed", "applied"} : row' = [row EXCEPT ![r].status = status]
    BY <1>6 DEF C4Claims, C4Applied
  <2> DEFINE y == [row[r] EXCEPT !.status = status]
  <2>2. row' = [row EXCEPT ![r] = y] /\ row[r] \in RowType /\ row[r].status # "absent"
    BY <1>1, <1>6, <2>1 DEF C4Claims, C4Applied, RowMap
  <2>3. \A x \in RowType : row[r] = x =>
          y \in RowType /\ y.status = status /\ y.source = x.source
    BY <2>1 DEF RowType
  <2> HIDE DEF y
  <2>4. y \in RowType /\ y.status # "absent" /\ y.source = row[r].source
    BY <2>1, <2>2, <2>3
  <2>5. row' \in RowMap /\ Alike(row'[r], y) /\ \A q \in Rows \ {r} : Alike(row'[q], row[q])
    BY <1>1, <2>2, <2>4, PutsOne DEF Puts
  <2>6. RowsStay
    BY <2>2, <2>4, <2>5 DEF RowsStay, Alike
  <2> QED BY <1>1, <1>6, <2>5, <2>6, RowsKeep DEF C4Claims, C4Applied
<1> QED BY <1>2, <1>3, <1>4, <1>5, <1>6

\* Nobody works on what there is at first, and nothing of it is eligible.
LEMMA Starts ==
  ASSUME Init
  PROVE  /\ row \in RowMap /\ \A q \in Rows : row[q].eligible = FALSE /\ row[q].stamped = FALSE
         /\ worker = [w \in Workers |-> Idle] /\ recent = {} /\ adder = NoAdd /\ events = 0
<1>1. PICK J \in [Rows -> Leads \cup {NoRow}] : row \in Served(J)
  BY DEF Init
<1>2. ASSUME NEW x \in Leads \cup {NoRow} PROVE x \in RowType /\ x.eligible = FALSE /\ x.stamped = FALSE
  <2>1. NoRow \in RowType /\ NoRow.eligible = FALSE /\ NoRow.stamped = FALSE
    BY DEF NoRow, RowType, St, Managed
  <2>2. ASSUME NEW source \in {"public", "board"}, NEW k \in Postings \cup {Nobody}
        PROVE  Discovered(source, k, "none") \in RowType
               /\ Discovered(source, k, "none").eligible = FALSE
               /\ Discovered(source, k, "none").stamped = FALSE
    BY DEF Discovered, NoRow, RowType, St, Managed
  <2> QED BY <2>1, <2>2 DEF Leads
<1>3. J \in RowMap /\ \A q \in Rows : J[q].eligible = FALSE /\ J[q].stamped = FALSE
  BY <1>2 DEF RowMap
<1> QED BY <1>1, <1>3, ServedKeeps DEF Init, Alike

LEMMA InitInv == Init => IInv
<1> SUFFICES ASSUME Init PROVE IInv
  OBVIOUS
<1>1. TypeOK
  BY Starts, IdleType DEF TypeOK, RowMap, WorkerType, NoAdd
<1>2. HeldRows /\ AdderInv
  BY Starts, IdleType DEF HeldRows, AdderInv, NoAdd
<1> QED BY <1>1, <1>2 DEF IInv

LEMMA NextInv == IInv /\ [Next]_vars => IInv'
<1> SUFFICES ASSUME IInv, [Next]_vars PROVE IInv'
  OBVIOUS
<1>1. ASSUME NEW w \in Workers, NEW r \in Rows, ClaimPublic(w, r) \/ ClaimBoard(w, r)
      PROVE  IInv'
  BY <1>1, ClaimPublicKeeps, ClaimBoardKeeps
<1>2. ASSUME NEW w \in Workers, Finishes(w) \/ WorkerDies(w) PROVE IInv'
  BY <1>2, PublicKeeps, BoardKeeps DEF Finishes
<1>3. CASE AddReads \/ AddWrites
  BY <1>3, AddReadsKeeps, AddWritesKeeps
<1>4. CASE \/ Maintenance \/ SecondPasses
           \/ \E r \in Rows : \/ Requeue(r) \/ C4Claims(r) \/ C4Applied(r)
                              \/ \E st \in Overrides : Override(r, st)
  BY <1>4, OthersKeep
<1>5. CASE UNCHANGED vars
  BY <1>5 DEF vars, IInv, TypeOK, HeldRows, AdderInv
<1> QED BY <1>1, <1>2, <1>3, <1>4, <1>5 DEF Next

\* Whatever the lanes, discovery, maintenance and operators do, the rows stay
\* rows, a worker's claim is of a row that is there, and a board's row stays the
\* board's.
THEOREM EnrichmentInvariant == Spec => []IInv
BY InitInv, NextInv, PTL DEF Spec

\* The type invariant of the enrichment queue.
THEOREM EnrichmentTypeOK == Spec => []TypeOK
<1>1. IInv => TypeOK
  BY DEF IInv
<1> QED BY <1>1, EnrichmentInvariant, PTL

-----------------------------------------------------------------------------
(* The last claim decides: the queue of public leads implements LeadOwner. *)

\* A lead that waits for the verdict of a claim, one that shows the second of a
\* claim, and one that may be applied to.
Waits(x) == x.st = "processing" /\ x.stamped /\ x.status = "new" /\ x.source = "public"
Marks(x) == x.status # "absent" /\ x.source = "public" /\ x.stamped
LeadRow(x) == x.status # "absent" /\ x.source = "public" /\ x.eligible
SameLead(x, y) ==
  (Waits(x) <=> Waits(y)) /\ (Marks(x) <=> Marks(y)) /\ (LeadRow(x) <=> LeadRow(y))

\* The worker's claim is the one that the row shows.
Carries(w, r) == Marks(row[r]) /\ Bears(w, r)

\* What the leads' specification sees of rows and workers.
LEMMA LeadsAre ==
  /\ EligibleLeads = {q \in Rows : LeadRow(row[q])}
  /\ EligibleLeads' = {q \in Rows : LeadRow(row'[q])}
  /\ Waiting = {q \in Rows : Waits(row[q])} /\ Waiting' = {q \in Rows : Waits(row'[q])}
BY DEF EligibleLeads, Waiting, InScope, Present, LeadRow, Waits

LEMMA BearersAre ==
  /\ Bearers = [q \in Rows |-> {v \in Workers : Carries(v, q)}]
  /\ Bearers' = [q \in Rows |-> {v \in Workers : Carries(v, q)'}]
BY DEF Bearers, Marked, Present, Marks, Carries, Bears

LEMMA Holders ==
  Holding = [v \in Workers |-> Holding[v]] /\ Holding' = [v \in Workers |-> Holding'[v]]
BY DEF Holding

\* A step that the leads do not see.
LEMMA Quiet ==
  ASSUME recent' = recent, \A v \in Workers : Holding'[v] = Holding[v],
         \A v \in Workers, q \in Rows : Carries(v, q)' <=> Carries(v, q),
         \A q \in Rows : SameLead(row'[q], row[q])
  PROVE  UNCHANGED Lead!leadVars
<1>1. Bearers' = Bearers
  BY BearersAre
<1>2. Holding' = Holding
  BY Holders
<1>3. EligibleLeads' = EligibleLeads /\ Waiting' = Waiting
  BY LeadsAre DEF SameLead
<1> QED BY <1>1, <1>2, <1>3 DEF Lead!leadVars

LEMMA RowsQuiet ==
  ASSUME recent' = recent, worker' = worker, \A q \in Rows : SameLead(row'[q], row[q])
  PROVE  UNCHANGED Lead!leadVars
<1>1. \A v \in Workers : Holding'[v] = Holding[v]
  BY DEF Holding
<1>2. \A v \in Workers, q \in Rows : Carries(v, q)' <=> Carries(v, q)
  BY DEF Carries, Bears, SameLead
<1> QED BY <1>1, <1>2, Quiet

\* The board's rows are no leads.
LEMMA BoardsQuiet ==
  ASSUME NEW x, NEW y, Alike(x, y) \/ (x.source = "board" /\ y.source = "board")
  PROVE  SameLead(x, y)
BY DEF Alike, SameLead, Waits, Marks, LeadRow

\* A lead is taken away from whoever had it.
LEMMA Loses ==
  ASSUME NEW r \in Rows, recent' = recent, worker' = worker, ~Waits(row'[r]),
         LeadRow(row'[r]) => LeadRow(row[r]),
         ~Marks(row'[r]) \/ (Marks(row'[r]) <=> Marks(row[r])),
         \A q \in Rows \ {r} : SameLead(row'[q], row[q])
  PROVE  Lead!Lose(r)
<1>1. Holding' = Holding
  BY DEF Holding
<1>2. \A v \in Workers, q \in Rows \ {r} : Carries(v, q)' <=> Carries(v, q)
  BY DEF Carries, Bears, SameLead
<1>3. Bearers' \in {Bearers, [Bearers EXCEPT ![r] = {}]}
  <2>1. CASE ~Marks(row'[r])
    <3>1. \A v \in Workers : ~Carries(v, r)'
      BY <2>1 DEF Carries
    <3> QED BY <1>2, <3>1, BearersAre
  <2>2. CASE Marks(row'[r]) <=> Marks(row[r])
    <3>1. \A v \in Workers : Carries(v, r)' <=> Carries(v, r)
      BY <2>2 DEF Carries, Bears
    <3> QED BY <1>2, <3>1, BearersAre
  <2> QED BY <2>1, <2>2
<1>4. Waiting' = Waiting \ {r}
  BY LeadsAre DEF SameLead
<1>5. EligibleLeads' \in {EligibleLeads, EligibleLeads \ {r}}
  BY LeadsAre DEF SameLead
<1> QED BY <1>1, <1>3, <1>4, <1>5 DEF Lead!Lose

\* A worker of the public lane lets its lead go, with a verdict or without.
LEMMA LeavesLead ==
  ASSUME IInv, NEW w \in Workers, NEW r, worker[w].pc = "public", worker[w].row = r,
         Leaves(w), \A q \in Rows \ {r} : SameLead(row'[q], row[q])
  PROVE  /\ r \in Rows /\ Holding[w] = r /\ Holding[w] # 0
         /\ Holding' = [Holding EXCEPT ![w] = 0]
         /\ \A v \in Workers, q \in Rows \ {r} :
              (Carries(v, q)' <=> Carries(v, q)) /\ ~Carries(w, q)
         /\ ~Bears(w, r)' /\ \A v \in Workers \ {w} : Bears(v, r)' <=> Bears(v, r)
<1>1. r \in Rows /\ r # 0 /\ worker \in [Workers -> WorkerType]
  BY EnrichmentAssumption DEF IInv, HeldRows, TypeOK, WorkerType
<1>2. worker'[w].pc = "idle" /\ \A v \in Workers \ {w} : worker'[v] = worker[v]
  BY <1>1, IdleType DEF Leaves
<1>3. Holding[w] = r /\ Holding'[w] = 0 /\ \A v \in Workers \ {w} : Holding'[v] = Holding[v]
  BY <1>2 DEF Holding
<1>4. Holding' = [Holding EXCEPT ![w] = 0]
  BY <1>3, Holders
<1>5. \A v \in Workers, q \in Rows \ {r} : (Carries(v, q)' <=> Carries(v, q)) /\ ~Carries(w, q)
  BY <1>2 DEF Carries, Bears, SameLead
<1>6. ~Bears(w, r)' /\ \A v \in Workers \ {w} : Bears(v, r)' <=> Bears(v, r)
  BY <1>2 DEF Bears
<1> QED BY <1>1, <1>3, <1>4, <1>5, <1>6

\* A claim of the public lane decides from now on, alone unless the lead was
\* claimed before within the second.
LEMMA Takes ==
  ASSUME IInv, NEW w \in Workers, NEW r \in Rows, ClaimPublic(w, r)
  PROVE  Lead!Take(w, r)
<1>1. /\ worker \in [Workers -> WorkerType] /\ row \in RowMap /\ worker[w].pc = "idle"
      /\ InScope(r) /\ recent' = recent \cup {r}
  BY DEF ClaimPublic, Claimed, IInv, TypeOK, WorkerType, RowMap
<1> DEFINE x == [pc |-> "public", row |-> r, mine |-> TRUE, prev |-> NoPrev]
           y(v) == [worker[v] EXCEPT !.mine = @ /\ (worker[v].row = r => r \in recent)]
           z == [[row[r] EXCEPT !.st = "processing"] EXCEPT !.stamped = TRUE]
<1>2. worker'[w] = x /\ \A v \in Workers \ {w} : worker'[v] = y(v)
  BY DEF ClaimPublic, Claimed
<1>3. ASSUME NEW v \in Workers
      PROVE  /\ y(v).pc = worker[v].pc /\ y(v).row = worker[v].row
             /\ y(v).mine <=> worker[v].mine /\ (worker[v].row = r => r \in recent)
  <2> DEFINE u == worker[v]
  <2>1. u \in WorkerType
    BY <1>1
  <2> HIDE DEF u
  <2>2. LET t == [u EXCEPT !.mine = @ /\ (u.row = r => r \in recent)] IN
        t.pc = u.pc /\ t.row = u.row /\ (t.mine <=> u.mine /\ (u.row = r => r \in recent))
    BY <2>1 DEF WorkerType
  <2> QED BY <2>2 DEF u
<1>4. x.pc = "public" /\ x.row = r /\ x.mine
  OBVIOUS
<1>5. row'[r] = z /\ \A q \in Rows \ {r} : row'[q] = row[q]
  BY <1>1 DEF ClaimPublic, RowMap
<1>6. Waits(z) /\ Marks(z) /\ (LeadRow(z) <=> LeadRow(row[r]))
  <2>1. row[r] \in RowType
    BY <1>1 DEF RowMap
  <2> QED BY <1>1, <2>1 DEF RowType, InScope, Waits, Marks, LeadRow
<1> HIDE DEF x, y, z
<1>7. Carries(w, r)'
  BY <1>2, <1>4, <1>5, <1>6 DEF Carries, Bears
<1>8. ASSUME NEW v \in Workers \ {w}, Carries(v, r)' PROVE Holding[v] = r /\ r \in recent
  BY <1>2, <1>3, <1>8 DEF Carries, Bears, Holding
<1>9. ASSUME NEW v \in Workers, NEW q \in Rows \ {r} PROVE Carries(v, q)' <=> Carries(v, q)
  <2>1. CASE v = w
    BY <1>1, <1>2, <1>4, <2>1 DEF Carries, Bears
  <2>2. CASE v # w
    BY <1>2, <1>3, <1>5, <2>2 DEF Carries, Bears
  <2> QED BY <2>1, <2>2
<1> DEFINE S == {v \in Workers \ {w} : Carries(v, r)'}
<1>10. S \in SUBSET {v \in Workers : Holding[v] = r} /\ (r \notin recent => S = {})
  BY <1>8
<1>11. Bearers' = [Bearers EXCEPT ![r] = S \cup {w}]
  <2>1. S \cup {w} = {v \in Workers : Carries(v, r)'}
    BY <1>7
  <2> HIDE DEF S
  <2> QED BY <1>9, <2>1, BearersAre
<1> HIDE DEF S
<1>12. Holding[w] = 0 /\ Holding'[w] = r /\ \A v \in Workers \ {w} : Holding'[v] = Holding[v]
  BY <1>1, <1>2, <1>3, <1>4 DEF Holding
<1>13. Holding' = [Holding EXCEPT ![w] = r]
  BY <1>12, Holders
<1>14. EligibleLeads' = EligibleLeads /\ Waiting' = Waiting \cup {r}
  BY <1>5, <1>6, LeadsAre
<1> QED BY <1>1, <1>10, <1>11, <1>12, <1>13, <1>14 DEF Lead!Take

\* A result that lands is the verdict of the last claim.
LEMMA Decided ==
  ASSUME IInv, NEW w \in Workers, NEW r, worker[w].pc = "public", worker[w].row = r,
         Lands(w), Leaves(w), recent' = recent, ~row'[r].stamped,
         \A q \in Rows \ {r} : SameLead(row'[q], row[q])
  PROVE  Lead!Verdict(w, r)
<1>1. /\ r \in Rows /\ Holding[w] = r /\ Holding' = [Holding EXCEPT ![w] = 0]
      /\ \A v \in Workers, q \in Rows \ {r} : Carries(v, q)' <=> Carries(v, q)
  BY LeavesLead
<1>2. Carries(w, r) /\ Waits(row[r])
  BY DEF Lands, Waits, Marks, Carries, Bears, InScope
<1>3. w \in Bearers[r] /\ r \in Waiting
  BY <1>1, <1>2, BearersAre, LeadsAre
<1>4. \A v \in Workers : ~Carries(v, r)'
  BY DEF Carries, Marks
<1>5. Bearers' = [Bearers EXCEPT ![r] = {}]
  BY <1>1, <1>4, BearersAre
<1>6. Waiting' = Waiting \ {r}
  BY LeadsAre DEF SameLead, Waits
<1>7. EligibleLeads' \in {EligibleLeads \cup {r}, EligibleLeads \ {r}}
  BY <1>1, LeadsAre DEF SameLead
<1> QED BY <1>1, <1>3, <1>5, <1>6, <1>7 DEF Lead!Verdict

\* A worker that dies, or whose result does not land, decides nothing.
LEMMA Leaving ==
  ASSUME IInv, NEW w \in Workers, NEW r, worker[w].pc = "public", worker[w].row = r,
         Leaves(w), row' = row, recent' = recent
  PROVE  Lead!Leave(w)
<1>1. /\ r \in Rows /\ Holding[w] # 0 /\ Holding' = [Holding EXCEPT ![w] = 0]
      /\ \A v \in Workers, q \in Rows \ {r} :
           (Carries(v, q)' <=> Carries(v, q)) /\ ~Carries(w, q)
      /\ ~Bears(w, r)' /\ \A v \in Workers \ {w} : Bears(v, r)' <=> Bears(v, r)
  BY LeavesLead DEF SameLead
<1>2. \A v \in Workers, q \in Rows : Carries(v, q)' <=> Carries(v, q) /\ v # w
  BY <1>1 DEF Carries
<1>3. Bearers' = [q \in Rows |-> Bearers[q] \ {w}]
  BY <1>2, BearersAre
<1>4. EligibleLeads' = EligibleLeads /\ Waiting' = Waiting
  BY LeadsAre
<1> QED BY <1>1, <1>3, <1>4 DEF Lead!Leave

\* One row is written by a step that leaves it no lead in waiting.
LEMMA Written ==
  ASSUME row \in RowMap, NEW r \in Rows, NEW y, Puts(r, y),
         \A x \in RowType : row[r] = x => y \in RowType
  PROVE  Alike(row'[r], y) /\ \A q \in Rows \ {r} : SameLead(row'[q], row[q])
<1>1. y \in RowType
  BY DEF RowMap
<1>2. Alike(row'[r], y) /\ \A q \in Rows \ {r} : Alike(row'[q], row[q])
  BY <1>1, PutsOne
<1> QED BY <1>2, BoardsQuiet

LEMMA PublicSteps ==
  ASSUME IInv, NEW w \in Workers,
         PublicSucceeds(w) \/ PublicFails(w) \/ Superseded(w)
  PROVE  (\E r \in Rows : Lead!Verdict(w, r)) \/ Lead!Leave(w)
<1>1. PICK r \in Rows : worker[w].row = r
  BY DEF PublicSucceeds, PublicFails, Superseded, IInv, HeldRows
<1>2. row \in RowMap /\ worker[w].pc = "public" /\ Leaves(w) /\ recent' = recent
  BY DEF PublicSucceeds, PublicFails, Superseded, IInv, TypeOK, RowMap
<1>3. CASE PublicSucceeds(w)
  <2>1. PICK base \in Reasons :
          row' \in Served([row EXCEPT ![r] = [@ EXCEPT !.st = "done", !.stamped = FALSE,
                          !.eligible = TRUE, !.removed = FALSE, !.reason = base]])
    BY <1>1, <1>3 DEF PublicSucceeds
  <2> DEFINE y == [row[r] EXCEPT !.st = "done", !.stamped = FALSE, !.eligible = TRUE,
                                 !.removed = FALSE, !.reason = base]
  <2>2. Puts(r, y)
    BY <2>1 DEF Puts
  <2>3. \A x \in RowType : row[r] = x => y \in RowType /\ y.stamped = FALSE
    BY DEF RowType, St
  <2>4. y.stamped = FALSE
    BY <1>2, <2>3 DEF RowMap
  <2> HIDE DEF y
  <2>5. Alike(row'[r], y) /\ \A q \in Rows \ {r} : SameLead(row'[q], row[q])
    BY <1>2, <2>2, <2>3, Written
  <2>6. ~row'[r].stamped
    BY <2>4, <2>5 DEF Alike
  <2>7. Lands(w)
    BY <1>3 DEF PublicSucceeds
  <2> QED BY <1>1, <1>2, <2>5, <2>6, <2>7, Decided
<1>4. CASE PublicFails(w)
  <2>1. PICK st \in {"failed", "blocked"}, gone \in BOOLEAN :
          LET failed == [row EXCEPT ![r] = [@ EXCEPT !.st = st, !.stamped = FALSE,
                                            !.eligible = FALSE, !.removed = gone]]
          IN row' = failed \/ row' \in Served(failed)
    BY <1>1, <1>4 DEF PublicFails
  <2> DEFINE y == [row[r] EXCEPT !.st = st, !.stamped = FALSE, !.eligible = FALSE,
                                 !.removed = gone]
  <2>2. Puts(r, y)
    BY <2>1 DEF Puts
  <2>3. \A x \in RowType : row[r] = x => y \in RowType /\ y.stamped = FALSE
    BY DEF RowType, St
  <2>4. y.stamped = FALSE
    BY <1>2, <2>3 DEF RowMap
  <2> HIDE DEF y
  <2>5. Alike(row'[r], y) /\ \A q \in Rows \ {r} : SameLead(row'[q], row[q])
    BY <1>2, <2>2, <2>3, Written
  <2>6. ~row'[r].stamped
    BY <2>4, <2>5 DEF Alike
  <2>7. Lands(w)
    BY <1>4 DEF PublicFails
  <2> QED BY <1>1, <1>2, <2>5, <2>6, <2>7, Decided
<1>5. CASE Superseded(w)
  BY <1>1, <1>2, <1>5, Leaving DEF Superseded
<1> QED BY <1>3, <1>4, <1>5

\* The board's lane, and a worker of it that dies, are out of the leads' sight.
LEMMA BoardClaims ==
  ASSUME IInv, NEW w \in Workers, NEW r \in Rows, ClaimBoard(w, r)
  PROVE  Lead!Lose(r)
<1>1. /\ worker \in [Workers -> WorkerType] /\ row \in RowMap /\ worker[w].pc = "idle"
      /\ row[r].source = "board" /\ Claimed(w, r, "board")
  BY DEF ClaimBoard, IInv, TypeOK, WorkerType, RowMap
<1> DEFINE x == [pc |-> "board", row |-> r, mine |-> TRUE,
                 prev |-> [st |-> row[r].st, stamped |-> row[r].stamped]]
           u(v) == [worker[v] EXCEPT !.mine = @ /\ (worker[v].row = r => r \in recent)]
           y == [row[r] EXCEPT !.st = "processing", !.stamped = TRUE, !.removed = FALSE]
<1>2. worker'[w] = x /\ \A v \in Workers \ {w} : worker'[v] = u(v)
  BY <1>1 DEF Claimed
<1>3. \A x0 \in RowType : row[r] = x0 => y \in RowType /\ y.source = x0.source
  BY DEF RowType, St
<1>4. Puts(r, y) /\ y.source = "board"
  BY <1>1, <1>3 DEF ClaimBoard, Puts, RowMap
<1>5. ASSUME NEW v \in Workers
      PROVE  /\ u(v).pc = worker[v].pc /\ u(v).row = worker[v].row
             /\ worker[v].row # r => (u(v).mine <=> worker[v].mine)
  <2> DEFINE h == worker[v]
  <2>1. h \in WorkerType
    BY <1>1
  <2> HIDE DEF h
  <2>2. LET t == [h EXCEPT !.mine = @ /\ (h.row = r => r \in recent)] IN
        t.pc = h.pc /\ t.row = h.row /\ (h.row # r => (t.mine <=> h.mine))
    BY <2>1 DEF WorkerType
  <2> QED BY <2>2 DEF h
<1> HIDE DEF u, y
<1>6. Alike(row'[r], y) /\ \A q \in Rows \ {r} : SameLead(row'[q], row[q])
  BY <1>1, <1>3, <1>4, Written
<1>7. /\ SameLead(row'[r], row[r]) /\ ~Waits(row[r])
      /\ ~Marks(row[r]) /\ ~Marks(row'[r])
  BY <1>1, <1>4, <1>6 DEF Alike, SameLead, Waits, Marks, LeadRow
<1>8. \A v \in Workers : Holding'[v] = Holding[v]
  BY <1>1, <1>2, <1>5 DEF Holding
<1>9. ASSUME NEW v \in Workers, NEW q \in Rows PROVE Carries(v, q)' <=> Carries(v, q)
  <2>1. CASE q = r
    BY <1>7, <2>1 DEF Carries
  <2>2. CASE q # r
    <3>1. Bears(v, q)' <=> Bears(v, q)
      BY <1>1, <1>2, <1>5, <2>2 DEF Bears
    <3> QED BY <1>6, <2>2, <3>1 DEF Carries, SameLead
  <2> QED BY <2>1, <2>2
<1>10. Bearers' = Bearers /\ Holding' = Holding
  BY <1>8, <1>9, BearersAre, Holders
<1>11. Waiting' = Waiting \ {r} /\ EligibleLeads' = EligibleLeads
  BY <1>6, <1>7, LeadsAre DEF SameLead
<1>12. recent' = recent \cup {r}
  BY <1>1 DEF Claimed
<1> QED BY <1>10, <1>11, <1>12 DEF Lead!Lose

LEMMA BoardLeaves ==
  ASSUME IInv, NEW w \in Workers, worker[w].pc # "public", Leaves(w),
         recent' = recent, \A q \in Rows : SameLead(row'[q], row[q])
  PROVE  UNCHANGED Lead!leadVars
<1>1. worker'[w].pc = "idle" /\ \A v \in Workers \ {w} : worker'[v] = worker[v]
  BY IdleType DEF Leaves, IInv, TypeOK, WorkerType
<1>2. \A v \in Workers : Holding'[v] = Holding[v]
  BY <1>1 DEF Holding
<1>3. \A v \in Workers, q \in Rows : Bears(v, q)' <=> Bears(v, q)
  BY <1>1 DEF Bears
<1>4. \A v \in Workers, q \in Rows : Carries(v, q)' <=> Carries(v, q)
  BY <1>3 DEF Carries, SameLead
<1> QED BY <1>2, <1>4, Quiet DEF SameLead

LEMMA BoardWrites ==
  ASSUME row \in RowMap, NEW r \in Rows, NEW y, Puts(r, y), row[r].source = "board",
         \A x \in RowType : row[r] = x => y \in RowType /\ y.source = x.source
  PROVE  \A q \in Rows : SameLead(row'[q], row[q])
<1>1. row[r] \in RowType
  BY DEF RowMap
<1>2. y.source = "board"
  BY <1>1
<1>3. Alike(row'[r], y) /\ \A q \in Rows \ {r} : SameLead(row'[q], row[q])
  BY Written
<1>4. SameLead(row'[r], row[r])
  BY <1>2, <1>3, BoardsQuiet DEF Alike
<1> QED BY <1>3, <1>4

LEMMA BoardSteps ==
  ASSUME IInv, NEW w \in Workers,
         BoardSucceeds(w) \/ BoardFails(w) \/ BoardRestores(w)
  PROVE  UNCHANGED Lead!leadVars
<1>1. PICK r \in Rows : worker[w].row = r
  BY DEF BoardSucceeds, BoardFails, BoardRestores, IInv, HeldRows
<1>2. /\ row \in RowMap /\ worker[w].pc = "board" /\ Leaves(w) /\ row[r].source = "board"
      /\ recent' = recent /\ worker[w].prev.st \in St /\ worker[w].prev.stamped \in BOOLEAN
  BY <1>1 DEF BoardSucceeds, BoardFails, BoardRestores, IInv, TypeOK, RowMap, HeldRows
<1>3. CASE BoardSucceeds(w)
  <2>1. PICK base \in Reasons, eligible \in BOOLEAN, key \in Postings \cup {row[r].key} :
          row' \in Served([row EXCEPT ![r] = [row[r] EXCEPT !.st = "done", !.stamped = FALSE,
                 !.eligible = eligible, !.removed = FALSE, !.reason = base, !.key = key]])
    BY <1>1, <1>3 DEF BoardSucceeds
  <2> DEFINE y == [row[r] EXCEPT !.st = "done", !.stamped = FALSE, !.eligible = eligible,
                                 !.removed = FALSE, !.reason = base, !.key = key]
  <2>2. Puts(r, y)
    BY <2>1 DEF Puts
  <2>3. \A x \in RowType : row[r] = x => y \in RowType /\ y.source = x.source
    BY <2>1 DEF RowType, St
  <2> HIDE DEF y
  <2>4. \A q \in Rows : SameLead(row'[q], row[q])
    BY <1>2, <2>2, <2>3, BoardWrites
  <2> QED BY <1>2, <2>4, BoardLeaves
<1>4. CASE BoardFails(w)
  <2>1. PICK st \in {"failed", "blocked"}, eligible \in {row[r].eligible, FALSE} :
          row' = [row EXCEPT ![r] = [@ EXCEPT !.st = st, !.stamped = FALSE,
                                              !.eligible = eligible, !.removed = FALSE]]
    BY <1>1, <1>4 DEF BoardFails
  <2> DEFINE y == [row[r] EXCEPT !.st = st, !.stamped = FALSE, !.eligible = eligible,
                                 !.removed = FALSE]
  <2>2. Puts(r, y)
    BY <2>1 DEF Puts
  <2>3. \A x \in RowType : row[r] = x => y \in RowType /\ y.source = x.source
    BY <2>1 DEF RowType, St
  <2> HIDE DEF y
  <2>4. \A q \in Rows : SameLead(row'[q], row[q])
    BY <1>2, <2>2, <2>3, BoardWrites
  <2> QED BY <1>2, <2>4, BoardLeaves
<1>5. CASE BoardRestores(w)
  <2> DEFINE p == worker[w].prev
             y == [row[r] EXCEPT !.st = p.st, !.stamped = p.stamped]
  <2>1. Puts(r, y)
    BY <1>1, <1>5 DEF BoardRestores, Puts
  <2>2. \A x \in RowType : row[r] = x => y \in RowType /\ y.source = x.source
    BY <1>2 DEF RowType
  <2> HIDE DEF y
  <2>3. \A q \in Rows : SameLead(row'[q], row[q])
    BY <1>2, <2>1, <2>2, BoardWrites
  <2> QED BY <1>2, <2>3, BoardLeaves
<1> QED BY <1>3, <1>4, <1>5

LEMMA DeathSteps ==
  ASSUME IInv, NEW w \in Workers, WorkerDies(w)
  PROVE  Lead!Leave(w) \/ UNCHANGED Lead!leadVars
<1>1. Leaves(w) /\ row' = row /\ recent' = recent
  BY DEF WorkerDies
<1>2. CASE worker[w].pc = "public"
  BY <1>1, <1>2, Leaving
<1>3. CASE worker[w].pc # "public"
  BY <1>1, <1>3, BoardLeaves DEF SameLead
<1> QED BY <1>2, <1>3

\* Discovery: a board's observation takes the lead away, the rest goes unseen.
LEMMA AddSteps ==
  ASSUME IInv, AddWrites
  PROVE  (\E r \in Rows : Lead!Lose(r)) \/ UNCHANGED Lead!leadVars
<1>1. PICK r \in Rows : adder.row = r
  BY DEF AddWrites, IInv, AdderInv
<1> DEFINE key == IF row[r].key = Nobody THEN adder.key ELSE row[r].key
<1>2. row \in RowMap /\ adder \in AdderType /\ worker' = worker /\ recent' = recent
      /\ (adder.pc = "insert" => row[r].status = "absent")
  BY <1>1 DEF AddWrites, IInv, AdderInv, TypeOK, RowMap, AdderType
<1>3. PICK base \in Reasons, reason \in Managed \cup Reasons :
        \/ /\ adder.pc = "insert"
           /\ row' \in Served([row EXCEPT ![r] = Discovered(adder.source, adder.key, base)])
        \/ /\ adder.pc = "adopt"
           /\ row' \in Served([row EXCEPT ![r] =
                [@ EXCEPT !.source = "board", !.st = "pending", !.eligible = FALSE,
                          !.removed = FALSE, !.reason = reason]])
        \/ /\ adder.pc = "update"
           /\ row' \in Served([row EXCEPT ![r] = [@ EXCEPT !.reason = reason, !.key = key]])
  <2>1. row[r].reason \in Managed \cup Reasons
    BY <1>2 DEF RowMap, RowType
  <2>2. adder.row = r
    BY <1>1
  <2> QED BY <2>1, <2>2 DEF AddWrites
<1>4. CASE adder.pc = "insert"
  <2> DEFINE y == Discovered(adder.source, adder.key, base)
  <2>1. y \in RowType /\ y.stamped = FALSE /\ y.eligible = FALSE /\ Puts(r, y)
    BY <1>2, <1>3, <1>4 DEF Discovered, NoRow, RowType, St, Managed, AdderType, Puts
  <2> HIDE DEF y
  <2>2. Alike(row'[r], y) /\ \A q \in Rows \ {r} : SameLead(row'[q], row[q])
    BY <1>2, <2>1, Written
  <2>3. SameLead(row'[r], row[r])
    BY <1>2, <1>4, <2>1, <2>2 DEF SameLead, Waits, Marks, LeadRow, Alike
  <2>4. \A q \in Rows : SameLead(row'[q], row[q])
    BY <2>2, <2>3
  <2>5. UNCHANGED Lead!leadVars
    BY <1>2, <2>4, RowsQuiet
  <2> QED BY <2>5
<1>5. CASE adder.pc = "adopt"
  <2> DEFINE y == [row[r] EXCEPT !.source = "board", !.st = "pending", !.eligible = FALSE,
                                 !.removed = FALSE, !.reason = reason]
  <2>1. Puts(r, y)
    BY <1>3, <1>5 DEF Puts
  <2>2. \A x \in RowType : row[r] = x => y \in RowType /\ y.source = "board"
    BY DEF RowType, St
  <2>3. y.source = "board"
    BY <1>2, <2>2 DEF RowMap
  <2> HIDE DEF y
  <2>4. Alike(row'[r], y) /\ \A q \in Rows \ {r} : SameLead(row'[q], row[q])
    BY <1>2, <2>1, <2>2, Written
  <2>5. ~Waits(row'[r]) /\ ~Marks(row'[r]) /\ ~LeadRow(row'[r])
    BY <2>3, <2>4 DEF Waits, Marks, LeadRow, Alike
  <2>6. Lead!Lose(r)
    BY <1>2, <2>4, <2>5, Loses
  <2> QED BY <2>6
<1>6. CASE adder.pc = "update"
  <2> DEFINE y == [row[r] EXCEPT !.reason = reason, !.key = key]
  <2>1. Puts(r, y)
    BY <1>3, <1>6 DEF Puts
  <2>2. key \in Postings \cup {Nobody}
    BY <1>2 DEF AdderType, RowMap, RowType
  <2> HIDE DEF key
  <2>3. ASSUME NEW x \in RowType, row[r] = x PROVE y \in RowType /\ SameLead(y, x)
    <3>1. /\ y \in RowType /\ y.status = x.status /\ y.source = x.source
          /\ y.st = x.st /\ y.stamped = x.stamped /\ y.eligible = x.eligible
      BY <2>2, <2>3 DEF RowType
    <3> HIDE DEF y
    <3> QED BY <3>1 DEF SameLead, Waits, Marks, LeadRow
  <2>4. SameLead(y, row[r])
    BY <1>2, <2>3 DEF RowMap
  <2> HIDE DEF y
  <2>5. Alike(row'[r], y) /\ \A q \in Rows \ {r} : SameLead(row'[q], row[q])
    BY <1>2, <2>1, <2>3, Written
  <2>6. SameLead(row'[r], row[r])
    BY <2>4, <2>5, BoardsQuiet DEF SameLead
  <2>7. \A q \in Rows : SameLead(row'[q], row[q])
    BY <2>5, <2>6
  <2>8. UNCHANGED Lead!leadVars
    BY <1>2, <2>7, RowsQuiet
  <2> QED BY <2>8
<1> QED BY <1>3, <1>4, <1>5, <1>6

\* Operators take leads away or reopen them; maintenance and the coordinator do
\* not touch them.
LEMMA OtherSteps ==
  ASSUME IInv,
         \/ Maintenance \/ SecondPasses \/ AddReads
         \/ \E r \in Rows : \/ Requeue(r) \/ C4Claims(r) \/ C4Applied(r)
                            \/ \E st \in Overrides : Override(r, st)
  PROVE  \/ \E r \in Rows : Lead!Lose(r) \/ Lead!Reopen(r)
         \/ Lead!SecondPasses \/ UNCHANGED Lead!leadVars
<1>1. row \in RowMap
  BY DEF IInv, TypeOK, RowMap
<1>2. CASE Maintenance
  <2>1. \A q \in Rows : SameLead(row'[q], row[q])
    BY <1>2, MaintenanceRows, BoardsQuiet
  <2>2. worker' = worker /\ recent' = recent
    BY <1>2 DEF Maintenance
  <2> QED BY <2>1, <2>2, RowsQuiet
<1>3. CASE AddReads
  BY <1>3, RowsQuiet DEF AddReads, SameLead
<1>7. ASSUME SecondPasses PROVE Lead!SecondPasses
  BY <1>7, LeadsAre, BearersAre DEF SecondPasses, Lead!SecondPasses, Carries, Bears, Holding
<1>4. ASSUME NEW r \in Rows, Requeue(r) PROVE Lead!Lose(r)
  <2> DEFINE y == [row[r] EXCEPT !.st = "pending", !.stamped = FALSE, !.removed = FALSE]
  <2>1. row' = [row EXCEPT ![r] = y] /\ worker' = worker /\ recent' = recent
    BY <1>1, <1>4 DEF Requeue, Requeued, RowMap
  <2>2. row[r] \in RowType
    BY <1>1 DEF RowMap
  <2>3. ~Waits(y) /\ ~Marks(y) /\ (LeadRow(y) <=> LeadRow(row[r]))
    BY <2>2 DEF RowType, Waits, Marks, LeadRow
  <2> HIDE DEF y
  <2>4. row'[r] = y /\ \A q \in Rows \ {r} : SameLead(row'[q], row[q])
    BY <1>1, <2>1 DEF RowMap, SameLead
  <2> QED BY <2>1, <2>3, <2>4, Loses
<1>5. ASSUME NEW r \in Rows, NEW st \in Overrides, Override(r, st)
      PROVE  Lead!Lose(r) \/ Lead!Reopen(r)
  <2> DEFINE y == [row[r] EXCEPT !.st = st]
  <2>1. row' = [row EXCEPT ![r] = y] /\ worker' = worker /\ recent' = recent
    BY <1>1, <1>5 DEF Override, RowMap
  <2>2. row[r] \in RowType
    BY <1>1 DEF RowMap
  <2>3. (Marks(y) <=> Marks(row[r])) /\ (LeadRow(y) <=> LeadRow(row[r]))
    BY <2>2 DEF RowType, Marks, LeadRow
  <2> HIDE DEF y
  <2>4. row'[r] = y /\ \A q \in Rows \ {r} : SameLead(row'[q], row[q])
    BY <1>1, <2>1 DEF RowMap, SameLead
  <2>5. CASE ~Waits(y)
    BY <2>1, <2>3, <2>4, <2>5, Loses
  <2>6. CASE Waits(y)
    <3>1. \A v \in Workers, q \in Rows : Carries(v, q)' <=> Carries(v, q)
      BY <2>1, <2>3, <2>4 DEF Carries, Bears, SameLead
    <3>2. Bearers' = Bearers /\ Holding' = Holding
      BY <2>1, <3>1, BearersAre DEF Holding
    <3>3. EligibleLeads' = EligibleLeads /\ Waiting' = Waiting \cup {r}
      BY <2>3, <2>4, <2>6, LeadsAre DEF SameLead
    <3> QED BY <2>1, <3>2, <3>3 DEF Lead!Reopen
  <2> QED BY <2>5, <2>6
<1>6. ASSUME NEW r \in Rows, C4Claims(r) \/ C4Applied(r) PROVE UNCHANGED Lead!leadVars
  <2>1. PICK status \in {"claimed", "applied"} : row' = [row EXCEPT ![r].status = status]
    BY <1>6 DEF C4Claims, C4Applied
  <2> DEFINE y == [row[r] EXCEPT !.status = status]
  <2>2. row' = [row EXCEPT ![r] = y] /\ worker' = worker /\ recent' = recent
    BY <1>1, <1>6, <2>1 DEF C4Claims, C4Applied, RowMap
  <2>3. row[r] \in RowType /\ row[r].status # "absent" /\ ~Waits(row[r])
    BY <1>1, <1>6 DEF C4Claims, C4Applied, RowMap, Waits
  <2>4. ~Waits(y) /\ (Marks(y) <=> Marks(row[r])) /\ (LeadRow(y) <=> LeadRow(row[r]))
    BY <2>1, <2>3 DEF RowType, Waits, Marks, LeadRow
  <2> HIDE DEF y
  <2>5. \A q \in Rows : SameLead(row'[q], row[q])
    BY <1>1, <2>2, <2>3, <2>4 DEF RowMap, SameLead
  <2> QED BY <2>2, <2>5, RowsQuiet
<1> QED BY <1>2, <1>3, <1>4, <1>5, <1>6, <1>7

LEMMA StepsOfLeads ==
  ASSUME IInv, [Next]_vars
  PROVE  [Lead!Next]_(Lead!leadVars)
<1>1. ASSUME NEW w \in Workers, NEW r \in Rows, ClaimPublic(w, r) \/ ClaimBoard(w, r)
      PROVE  Lead!Next \/ UNCHANGED Lead!leadVars
  BY <1>1, Takes, BoardClaims DEF Lead!Next
<1>2. ASSUME NEW w \in Workers, Finishes(w) \/ WorkerDies(w)
      PROVE  Lead!Next \/ UNCHANGED Lead!leadVars
  BY <1>2, PublicSteps, BoardSteps, DeathSteps DEF Finishes, Lead!Next
<1>3. CASE AddWrites
  BY <1>3, AddSteps DEF Lead!Next
<1>4. CASE \/ Maintenance \/ SecondPasses \/ AddReads
           \/ \E r \in Rows : \/ Requeue(r) \/ C4Claims(r) \/ C4Applied(r)
                              \/ \E st \in Overrides : Override(r, st)
  BY <1>4, OtherSteps DEF Lead!Next
<1>5. CASE UNCHANGED vars
  BY <1>5, RowsQuiet DEF vars, SameLead
<1> QED BY <1>1, <1>2, <1>3, <1>4, <1>5 DEF Next

LEMMA InitOfLeads == Init => Lead!Init
<1> SUFFICES ASSUME Init PROVE Lead!Init
  OBVIOUS
<1>1. Holding = [w \in Workers |-> 0] /\ recent = {}
  BY Starts, IdleType DEF Holding
<1>2. \A w \in Workers, q \in Rows : ~Carries(w, q)
  BY Starts, IdleType DEF Bears, Carries
<1>3. Bearers = [q \in Rows |-> {}]
  BY <1>2, BearersAre
<1>4. EligibleLeads = {}
  BY Starts, LeadsAre DEF LeadRow
<1>5. Waiting = {}
  BY Starts, LeadsAre DEF Waits
<1> QED BY <1>1, <1>3, <1>4, <1>5 DEF Lead!Init

\* The queue of public leads implements LeadOwner: whoever dies, is slow or comes
\* late, whatever an operator sets and however claims fall into seconds, only a
\* worker that bears a lead's last claim makes it eligible, once for each claim.
THEOREM EnrichmentOneOwner == Spec => OneOwnerDecides
<1>1. IInv /\ [Next]_vars => [Lead!Next]_(Lead!leadVars)
  BY StepsOfLeads
<1> QED BY <1>1, InitOfLeads, EnrichmentInvariant, PTL DEF Spec, OneOwnerDecides, Lead!Spec

-----------------------------------------------------------------------------
(* The employer cap: what a job needs besides being done.                   *)

\* A job that would be handed over if it were done.
Offer(x) == x.status \notin {"absent", "applied"} /\ x.eligible /\ x.reason = "none"
Offered(J) == {r \in Rows : Offer(J[r])}

\* A removed posting is not eligible until somebody verifies it again.
Sound(J) == \A r \in Rows : J[r].removed => ~J[r].eligible

\* No more offers than slots, and no two of one posting.
Fit(J) == /\ Cardinality(Offered(J)) <= Slots
          /\ \A r, q \in Offered(J) : r # q => J[r].key = Nobody \/ J[r].key # J[q].key

CapInv == Sound(row) /\ Fit(row)

\* A part of a finite set has no more elements than all of it.
LEMMA PartSize ==
  ASSUME NEW B \in SUBSET Rows, NEW A \in SUBSET B
  PROVE  Cardinality(A) <= Cardinality(B) /\ Cardinality(A) \in Nat /\ Cardinality(B) \in Nat
<1>1. IsFiniteSet(B)
  BY FS_Subset, EnrichmentAssumption
<1>2. IsFiniteSet(A)
  BY <1>1, FS_Subset
<1> QED BY <1>1, <1>2, FS_Subset, FS_CardinalityType

\* Of two copies of a posting one at most stands for it.
LEMMA OneStands ==
  ASSUME NEW J \in RowMap, NEW r \in Rows, NEW q \in Rows, r # q,
         J[r].status # "absent", J[q].status # "absent",
         J[r].key = J[q].key, J[r].key # Nobody, StandsFor(J, r)
  PROVE  ~StandsFor(J, q)
<1>1. ASSUME NEW x PROVE Weight(x) \in Nat
  BY DEF Weight
<1>2. r \in Copies(J, q) \ {q} /\ q \in Copies(J, r) \ {r}
  BY DEF Copies
<1>3. Weight(J[r]) \in Nat /\ Weight(J[q]) \in Nat /\ r \in Nat /\ q \in Nat
  BY <1>1, EnrichmentAssumption
<1>4. Weight(J[r]) > Weight(J[q]) \/ (Weight(J[r]) = Weight(J[q]) /\ r < q)
  BY <1>2 DEF StandsFor
<1>5. StandsFor(J, q) =>
        Weight(J[q]) > Weight(J[r]) \/ (Weight(J[q]) = Weight(J[r]) /\ q < r)
  BY <1>2 DEF StandsFor
<1> QED BY <1>3, <1>4, <1>5

\* When the slots are given out, the offers are the candidates that are kept.
LEMMA ServedFits ==
  ASSUME NEW J \in RowMap, Sound(J), NEW K \in Served(J)
  PROVE  Sound(K) /\ Fit(K)
<1> DEFINE there == {r \in Rows : J[r].status # "absent"}
           standing == {r \in there : StandsFor(J, r)}
           history == {r \in there : J[r].status = "applied"}
           candidates == {r \in standing \ history :
                            J[r].reason \in Managed /\ ~J[r].removed}
           taken == Cardinality(standing \cap history)
           free == IF taken < Slots THEN Slots - taken ELSE 0
           Why(r, L) ==
             IF J[r].reason \notin Managed THEN J[r].reason
             ELSE IF r \in candidates THEN IF r \in L THEN "none" ELSE "cap"
             ELSE IF r \in there \ (standing \cup history) THEN "dup"
             ELSE IF r \in standing /\ J[r].reason = "dup" THEN "none"
             ELSE J[r].reason
<1>1. PICK L \in SUBSET candidates :
        /\ Cardinality(L) = IF Cardinality(candidates) < free
                            THEN Cardinality(candidates) ELSE free
        /\ K = [r \in Rows |-> [J[r] EXCEPT !.reason = Why(r, L)]]
  BY DEF Served
<1>2. \A r \in Rows : Alike(K[r], J[r])
  BY ServedKeeps
<1>3. \A r \in Rows : J[r] \in RowType
  BY DEF RowMap
<1>4. ASSUME NEW r \in Rows PROVE K[r].reason = Why(r, L)
  <2>1. K[r] = [J[r] EXCEPT !.reason = Why(r, L)]
    BY <1>1
  <2> HIDE DEF Why
  <2> QED BY <1>3, <2>1 DEF RowType
<1>5. Sound(K)
  BY <1>2 DEF Sound, Alike
<1>6. ASSUME NEW r \in Offered(K) PROVE r \in L
  <2>1. /\ r \in Rows /\ J[r].status \notin {"absent", "applied"} /\ J[r].eligible
        /\ Why(r, L) = "none"
    BY <1>2, <1>4, <1>6 DEF Offered, Offer, Alike
  <2>2. ~J[r].removed
    BY <2>1 DEF Sound
  <2>3. r \in there /\ r \notin history
    BY <2>1
  <2>4. J[r].reason \in Managed
    BY <2>1 DEF Managed
  <2>5. r \in candidates => r \in L
    BY <2>1, <2>4
  <2>6. r \in standing => r \in candidates
    BY <2>2, <2>3, <2>4
  <2>7. r \in standing
    BY <2>1, <2>3, <2>4, <2>6
  <2> QED BY <2>5, <2>6, <2>7
<1>7. Cardinality(Offered(K)) <= Slots
  <2>1. standing \cap history \in SUBSET Rows /\ L \in SUBSET Rows /\ candidates \in SUBSET Rows
    BY <1>1
  <2>2. Offered(K) \in SUBSET L
    BY <1>6
  <2>3. /\ Cardinality(Offered(K)) <= Cardinality(L)
        /\ Cardinality(Offered(K)) \in Nat /\ Cardinality(L) \in Nat
    <3> HIDE DEF candidates
    <3> QED BY <2>1, <2>2, PartSize
  <2>4. taken \in Nat /\ Cardinality(candidates) \in Nat
    <3> HIDE DEF candidates, standing, history
    <3> QED BY <2>1, PartSize
  <2>5. free \in Nat /\ free <= Slots
    <3> HIDE DEF taken
    <3> QED BY <2>4, EnrichmentAssumption
  <2>6. Cardinality(L) <= free
    <3> HIDE DEF candidates, free
    <3> QED BY <1>1, <2>4, <2>5
  <2> HIDE DEF free
  <2> QED BY <2>3, <2>5, <2>6, EnrichmentAssumption
<1>8. ASSUME NEW r \in Offered(K), NEW q \in Offered(K), r # q
      PROVE  K[r].key = Nobody \/ K[r].key # K[q].key
  <2>1. r \in candidates /\ q \in candidates
    BY <1>1, <1>6
  <2>2. /\ r \in Rows /\ q \in Rows /\ J[r].status # "absent" /\ J[q].status # "absent"
        /\ StandsFor(J, r) /\ StandsFor(J, q)
    BY <2>1
  <2>3. K[r].key = J[r].key /\ K[q].key = J[q].key
    BY <1>2, <2>2 DEF Alike
  <2> QED BY <1>8, <2>2, <2>3, OneStands
<1> HIDE DEF Why, candidates
<1> QED BY <1>5, <1>7, <1>8 DEF Fit

\* y makes no offer that x does not make.
NoMore(y, x) ==
  (y.removed => ~y.eligible) /\ (Offer(y) => Offer(x) /\ y.key = x.key)

LEMMA LessFits ==
  ASSUME NEW J, Fit(J), NEW K, \A r \in Rows : NoMore(K[r], J[r])
  PROVE  Sound(K) /\ Fit(K)
<1>1. Offered(K) \subseteq Offered(J) /\ \A r \in Offered(K) : K[r].key = J[r].key
  BY DEF Offered, NoMore
<1>2. Cardinality(Offered(K)) <= Slots
  <2>1. /\ Cardinality(Offered(K)) <= Cardinality(Offered(J))
        /\ Cardinality(Offered(K)) \in Nat /\ Cardinality(Offered(J)) \in Nat
    BY <1>1, PartSize DEF Offered
  <2> QED BY <2>1, EnrichmentAssumption DEF Fit
<1>3. Sound(K)
  BY DEF Sound, NoMore
<1> QED BY <1>1, <1>2, <1>3 DEF Fit

\* One row is written and the slots are given out again.
LEMMA CapServes ==
  ASSUME IInv, CapInv, NEW r \in Rows, NEW y, row' \in Served([row EXCEPT ![r] = y]),
         \A x \in RowType : row[r] = x => y \in RowType /\ (y.removed => ~y.eligible)
  PROVE  CapInv'
<1> DEFINE J == [row EXCEPT ![r] = y]
<1>1. row \in RowMap /\ y \in RowType /\ (y.removed => ~y.eligible)
  BY DEF IInv, TypeOK, RowMap
<1>2. J \in RowMap /\ J[r] = y /\ \A q \in Rows \ {r} : J[q] = row[q]
  BY <1>1 DEF RowMap
<1> HIDE DEF J
<1>3. Sound(J)
  BY <1>1, <1>2 DEF CapInv, Sound
<1> QED BY <1>2, <1>3, ServedFits DEF CapInv, J

\* One row is written and there is no new offer.
LEMMA CapWrites ==
  ASSUME IInv, CapInv, NEW r \in Rows, NEW y, row' = [row EXCEPT ![r] = y],
         \A x \in RowType : row[r] = x /\ (x.removed => ~x.eligible) => NoMore(y, x)
  PROVE  CapInv'
<1>1. row \in RowMap /\ NoMore(y, row[r])
  BY DEF IInv, TypeOK, RowMap, CapInv, Sound
<1>2. row'[r] = y /\ \A q \in Rows \ {r} : row'[q] = row[q]
  BY <1>1 DEF RowMap
<1>3. \A q \in Rows : NoMore(row'[q], row[q])
  BY <1>1, <1>2 DEF CapInv, Sound, NoMore
<1> QED BY <1>3, LessFits DEF CapInv

LEMMA CapSame ==
  ASSUME CapInv, row' = row
  PROVE  CapInv'
BY DEF CapInv, Sound, Fit, Offered

LEMMA CapClaims ==
  ASSUME IInv, CapInv, NEW w \in Workers, NEW r \in Rows, ClaimPublic(w, r) \/ ClaimBoard(w, r)
  PROVE  CapInv'
<1>1. row \in RowMap
  BY DEF IInv, TypeOK, RowMap
<1>2. CASE ClaimPublic(w, r)
  <2> DEFINE y == [[row[r] EXCEPT !.st = "processing"] EXCEPT !.stamped = TRUE]
  <2>1. row' = [row EXCEPT ![r] = y]
    BY <1>1, <1>2 DEF ClaimPublic, RowMap
  <2>2. \A x \in RowType : row[r] = x /\ (x.removed => ~x.eligible) => NoMore(y, x)
    BY DEF RowType, NoMore, Offer
  <2> HIDE DEF y
  <2> QED BY <2>1, <2>2, CapWrites
<1>3. CASE ClaimBoard(w, r)
  <2> DEFINE y == [row[r] EXCEPT !.st = "processing", !.stamped = TRUE, !.removed = FALSE]
  <2>1. row' = [row EXCEPT ![r] = y]
    BY <1>3 DEF ClaimBoard
  <2>2. \A x \in RowType : row[r] = x /\ (x.removed => ~x.eligible) => NoMore(y, x)
    BY DEF RowType, NoMore, Offer
  <2> HIDE DEF y
  <2> QED BY <2>1, <2>2, CapWrites
<1> QED BY <1>2, <1>3

LEMMA CapResults ==
  ASSUME IInv, CapInv, NEW w \in Workers, Finishes(w) \/ WorkerDies(w)
  PROVE  CapInv'
<1> DEFINE r == worker[w].row
<1>1. /\ worker[w].pc # "idle" => r \in Rows
      /\ worker[w].prev.st \in St /\ worker[w].prev.stamped \in BOOLEAN
  BY DEF IInv, HeldRows, TypeOK
<1>2. CASE PublicSucceeds(w)
  <2>1. PICK base \in Reasons :
          row' \in Served([row EXCEPT ![r] = [@ EXCEPT !.st = "done", !.stamped = FALSE,
                          !.eligible = TRUE, !.removed = FALSE, !.reason = base]])
    BY <1>2 DEF PublicSucceeds
  <2> DEFINE y == [row[r] EXCEPT !.st = "done", !.stamped = FALSE, !.eligible = TRUE,
                                 !.removed = FALSE, !.reason = base]
  <2>2. r \in Rows /\ row' \in Served([row EXCEPT ![r] = y])
    BY <1>1, <1>2, <2>1 DEF PublicSucceeds
  <2>3. \A x \in RowType : row[r] = x => y \in RowType /\ (y.removed => ~y.eligible)
    BY DEF RowType, St
  <2> HIDE DEF y
  <2> QED BY <2>2, <2>3, CapServes
<1>3. CASE PublicFails(w)
  <2>1. PICK st \in {"failed", "blocked"}, gone \in BOOLEAN :
          LET failed == [row EXCEPT ![r] = [@ EXCEPT !.st = st, !.stamped = FALSE,
                                            !.eligible = FALSE, !.removed = gone]]
          IN row' = failed \/ row' \in Served(failed)
    BY <1>3 DEF PublicFails
  <2> DEFINE y == [row[r] EXCEPT !.st = st, !.stamped = FALSE, !.eligible = FALSE,
                                 !.removed = gone]
  <2>2. /\ r \in Rows
        /\ row' = [row EXCEPT ![r] = y] \/ row' \in Served([row EXCEPT ![r] = y])
    BY <1>1, <1>3, <2>1 DEF PublicFails
  <2>3. \A x \in RowType : row[r] = x =>
          y \in RowType /\ (y.removed => ~y.eligible) /\ NoMore(y, x)
    BY DEF RowType, St, NoMore, Offer
  <2> HIDE DEF y
  <2> QED BY <2>2, <2>3, CapServes, CapWrites
<1>4. CASE Superseded(w) \/ WorkerDies(w)
  BY <1>4, CapSame DEF Superseded, WorkerDies
<1>5. CASE BoardSucceeds(w)
  <2>1. PICK base \in Reasons, eligible \in BOOLEAN, key \in Postings \cup {row[r].key} :
          row' \in Served([row EXCEPT ![r] = [row[r] EXCEPT !.st = "done", !.stamped = FALSE,
                 !.eligible = eligible, !.removed = FALSE, !.reason = base, !.key = key]])
    BY <1>5 DEF BoardSucceeds
  <2> DEFINE y == [row[r] EXCEPT !.st = "done", !.stamped = FALSE, !.eligible = eligible,
                                 !.removed = FALSE, !.reason = base, !.key = key]
  <2>2. r \in Rows /\ row' \in Served([row EXCEPT ![r] = y])
    BY <1>1, <1>5, <2>1 DEF BoardSucceeds
  <2>3. \A x \in RowType : row[r] = x => y \in RowType /\ (y.removed => ~y.eligible)
    BY <2>1 DEF RowType, St
  <2> HIDE DEF y
  <2> QED BY <2>2, <2>3, CapServes
<1>6. CASE BoardFails(w)
  <2>1. PICK st \in {"failed", "blocked"}, eligible \in {row[r].eligible, FALSE} :
          row' = [row EXCEPT ![r] = [@ EXCEPT !.st = st, !.stamped = FALSE,
                                              !.eligible = eligible, !.removed = FALSE]]
    BY <1>6 DEF BoardFails
  <2> DEFINE y == [row[r] EXCEPT !.st = st, !.stamped = FALSE, !.eligible = eligible,
                                 !.removed = FALSE]
  <2>2. r \in Rows /\ row' = [row EXCEPT ![r] = y]
    BY <1>1, <1>6, <2>1 DEF BoardFails
  <2>3. \A x \in RowType : row[r] = x /\ (x.removed => ~x.eligible) => NoMore(y, x)
    BY <2>1 DEF RowType, NoMore, Offer
  <2> HIDE DEF y
  <2> QED BY <2>2, <2>3, CapWrites
<1>7. CASE BoardRestores(w)
  <2> DEFINE p == worker[w].prev
             y == [row[r] EXCEPT !.st = p.st, !.stamped = p.stamped]
  <2>1. r \in Rows /\ row' = [row EXCEPT ![r] = y]
    BY <1>1, <1>7 DEF BoardRestores
  <2>2. \A x \in RowType : row[r] = x /\ (x.removed => ~x.eligible) => NoMore(y, x)
    BY DEF RowType, NoMore, Offer
  <2> HIDE DEF y
  <2> QED BY <2>1, <2>2, CapWrites
<1> QED BY <1>2, <1>3, <1>4, <1>5, <1>6, <1>7 DEF Finishes

LEMMA CapAdds ==
  ASSUME IInv, CapInv, AddWrites
  PROVE  CapInv'
<1> DEFINE r == adder.row
           key == IF row[r].key = Nobody THEN adder.key ELSE row[r].key
<1>1. r \in Rows /\ row \in RowMap /\ adder \in AdderType
  BY DEF AddWrites, IInv, AdderInv, TypeOK, RowMap, AdderType
<1>2. PICK base \in Reasons, reason \in Managed \cup Reasons :
        \/ row' \in Served([row EXCEPT ![r] = Discovered(adder.source, adder.key, base)])
        \/ row' \in Served([row EXCEPT ![r] =
             [@ EXCEPT !.source = "board", !.st = "pending", !.eligible = FALSE,
                       !.removed = FALSE, !.reason = reason]])
        \/ row' \in Served([row EXCEPT ![r] = [@ EXCEPT !.reason = reason, !.key = key]])
  <2>1. row[r].reason \in Managed \cup Reasons
    BY <1>1 DEF RowMap, RowType
  <2> QED BY <2>1 DEF AddWrites
<1>3. CASE row' \in Served([row EXCEPT ![r] = Discovered(adder.source, adder.key, base)])
  <2> DEFINE y == Discovered(adder.source, adder.key, base)
  <2>1. y \in RowType /\ (y.removed => ~y.eligible)
    BY <1>1 DEF Discovered, NoRow, RowType, St, Managed, AdderType
  <2> HIDE DEF y
  <2> QED BY <1>1, <1>3, <2>1, CapServes DEF y
<1>4. CASE row' \in Served([row EXCEPT ![r] =
             [@ EXCEPT !.source = "board", !.st = "pending", !.eligible = FALSE,
                       !.removed = FALSE, !.reason = reason]])
  <2> DEFINE y == [row[r] EXCEPT !.source = "board", !.st = "pending", !.eligible = FALSE,
                                 !.removed = FALSE, !.reason = reason]
  <2>1. row' \in Served([row EXCEPT ![r] = y])
    BY <1>4
  <2>2. \A x \in RowType : row[r] = x => y \in RowType /\ (y.removed => ~y.eligible)
    BY DEF RowType, St
  <2> HIDE DEF y
  <2> QED BY <1>1, <2>1, <2>2, CapServes
<1>5. CASE row' \in Served([row EXCEPT ![r] = [@ EXCEPT !.reason = reason, !.key = key]])
  <2> DEFINE y == [row[r] EXCEPT !.reason = reason, !.key = key]
  <2>1. row' \in Served([row EXCEPT ![r] = y])
    BY <1>5
  <2>2. key \in Postings \cup {Nobody}
    BY <1>1 DEF AdderType, RowMap, RowType
  <2> HIDE DEF key
  <2>3. row[r] \in RowType /\ (row[r].removed => ~row[r].eligible)
    BY <1>1 DEF CapInv, Sound, RowMap
  <2>4. y \in RowType /\ (y.removed => ~y.eligible)
    BY <2>2, <2>3 DEF RowType
  <2> HIDE DEF y
  <2> QED BY <1>1, <2>1, <2>4, CapServes
<1> QED BY <1>2, <1>3, <1>4, <1>5

\* Requeues, overrides and the coordinator make no new offer.
LEMMA CapOthers ==
  ASSUME IInv, CapInv,
         \/ Maintenance \/ SecondPasses \/ AddReads
         \/ \E r \in Rows : \/ Requeue(r) \/ C4Claims(r) \/ C4Applied(r)
                            \/ \E st \in Overrides : Override(r, st)
  PROVE  CapInv'
<1>1. row \in RowMap
  BY DEF IInv, TypeOK, RowMap
<1>2. ASSUME NEW J \in RowMap, Sound(J), Fit(J), NEW R, row' = Requeued(J, R) PROVE CapInv'
  <2>1. ASSUME NEW q \in Rows PROVE NoMore(row'[q], J[q])
    <3> DEFINE x == J[q]
               y == [x EXCEPT !.st = "pending", !.stamped = FALSE, !.removed = FALSE]
    <3>1. row'[q] = IF q \in R THEN y ELSE x
      BY <1>2 DEF Requeued
    <3>2. x \in RowType /\ (x.removed => ~x.eligible)
      BY <1>2 DEF RowMap, Sound
    <3> HIDE DEF x
    <3>3. NoMore(y, x) /\ NoMore(x, x)
      BY <3>2 DEF RowType, NoMore, Offer
    <3> HIDE DEF y
    <3> QED BY <3>1, <3>3 DEF x
  <2> QED BY <1>2, <2>1, LessFits DEF CapInv
<1>3. CASE Maintenance
  <2>1. PICK J \in {row} \cup Released, R \in SUBSET Present : row' = Requeued(J, R)
    BY <1>3 DEF Maintenance
  <2>2. J = row \/ J \in Served(row)
    BY <2>1 DEF Released
  <2>3. J \in RowMap /\ Sound(J) /\ Fit(J)
    BY <1>1, <2>2, ServedKeeps, ServedFits DEF CapInv
  <2> QED BY <1>2, <2>1, <2>3
<1>4. CASE SecondPasses \/ AddReads
  BY <1>4, CapSame DEF SecondPasses, AddReads
<1>5. ASSUME NEW r \in Rows, Requeue(r) PROVE CapInv'
  BY <1>1, <1>2, <1>5 DEF Requeue, CapInv
<1>6. ASSUME NEW r \in Rows, NEW st \in Overrides, Override(r, st) PROVE CapInv'
  <2> DEFINE y == [row[r] EXCEPT !.st = st]
  <2>1. row' = [row EXCEPT ![r] = y]
    BY <1>1, <1>6 DEF Override, RowMap
  <2>2. \A x \in RowType : row[r] = x /\ (x.removed => ~x.eligible) => NoMore(y, x)
    BY DEF RowType, NoMore, Offer
  <2> HIDE DEF y
  <2> QED BY <2>1, <2>2, CapWrites
<1>7. ASSUME NEW r \in Rows, C4Claims(r) \/ C4Applied(r) PROVE CapInv'
  <2>1. PICK status \in {"claimed", "applied"} :
          row' = [row EXCEPT ![r].status = status] /\ row[r].status \in {"new", "claimed"}
    BY <1>7 DEF C4Claims, C4Applied
  <2> DEFINE y == [row[r] EXCEPT !.status = status]
  <2>2. row' = [row EXCEPT ![r] = y]
    BY <1>1, <2>1 DEF RowMap
  <2>3. \A x \in RowType : row[r] = x /\ (x.removed => ~x.eligible) => NoMore(y, x)
    BY <2>1 DEF RowType, NoMore, Offer
  <2> HIDE DEF y
  <2> QED BY <2>2, <2>3, CapWrites
<1> QED BY <1>3, <1>4, <1>5, <1>6, <1>7

LEMMA CapNext == IInv /\ CapInv /\ [Next]_vars => CapInv'
<1> SUFFICES ASSUME IInv, CapInv, [Next]_vars PROVE CapInv'
  OBVIOUS
<1>1. CASE UNCHANGED vars
  BY <1>1, CapSame DEF vars
<1>2. CASE Next
  BY <1>2, CapClaims, CapResults, CapAdds, CapOthers DEF Next
<1> QED BY <1>1, <1>2

LEMMA CapInit == Init => CapInv
<1> SUFFICES ASSUME Init PROVE CapInv
  OBVIOUS
<1>1. PICK J \in [Rows -> Leads \cup {NoRow}] : row \in Served(J)
  BY DEF Init
<1>2. \A x \in Leads \cup {NoRow} : x \in RowType /\ x.eligible = FALSE
  <2>1. ASSUME NEW source \in {"public", "board"}, NEW k \in Postings \cup {Nobody}
        PROVE  LET x == Discovered(source, k, "none") IN x \in RowType /\ x.eligible = FALSE
    BY DEF Discovered, NoRow, RowType, St, Managed
  <2>2. NoRow \in RowType /\ NoRow.eligible = FALSE
    BY DEF NoRow, RowType, St, Managed
  <2> QED BY <2>1, <2>2 DEF Leads
<1>3. J \in RowMap /\ Sound(J)
  BY <1>1, <1>2 DEF RowMap, Sound
<1> QED BY <1>1, <1>3, ServedFits DEF CapInv

\* C1 never hands over more jobs of an employer and month than it has slots, nor
\* two copies of a posting, whatever discovery, the workers of both lanes, the
\* operators and the coordinator do between two times the slots are given out.
THEOREM EnrichmentServedWithinCap == Spec => []ServedWithinCap
<1>1. IInv /\ CapInv => ServedWithinCap
  <2> SUFFICES ASSUME CapInv PROVE ServedWithinCap
    OBVIOUS
  <2>1. Ready \subseteq Offered(row)
    BY DEF Ready, Present, Offered, Offer
  <2>2. /\ Cardinality(Ready) <= Cardinality(Offered(row))
        /\ Cardinality(Ready) \in Nat /\ Cardinality(Offered(row)) \in Nat
    BY <2>1, PartSize DEF Offered
  <2>3. Cardinality(Ready) <= Slots
    BY <2>2, EnrichmentAssumption DEF CapInv, Fit
  <2> QED BY <2>1, <2>3 DEF ServedWithinCap, CapInv, Fit
<1> QED BY <1>1, CapInit, CapNext, EnrichmentInvariant, PTL DEF Spec
=============================================================================
