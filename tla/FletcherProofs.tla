--------------------------- MODULE FletcherProofs ---------------------------
(***************************************************************************)
(* Theorems about C2: the queue of preparations, the resumes they select   *)
(* and the packages under review, for every number of rows, requests,      *)
(* jobs, runs, revisions, compilations and deaths.                         *)
(***************************************************************************)
EXTENDS Fletcher, SequenceTheorems, WellFoundedInduction, TLAPS

RowRec == [st : Status, pos : Nat, job : Jobs, review : Runs \cup {0}]
WorkerRec == [pc : WorkerPc, item : Items \cup {0}, job : Jobs, run : Runs \cup {0},
              isReady : BOOLEAN, end : {"succeeded", "failed"}]
RequestRec == [op : {"none", "insert", "cancel", "position", "swap", "cleanup"},
               item : Items \cup {0}, pos : Nat, other : Items \cup {0}, otherPos : Nat]
CompilerRec == [pc : CompilerPc, dir : Dirs, snapshot : Version, link : Link,
                rev : Revisions \cup {0}]

Busy == worker.pc \notin {"down", "idle"}
Producing == worker.pc \in {"produced", "loaded"}

\* What the worker and the requests name is a row, and what runs is the worker's or
\* was left behind.
QueueInv ==
  /\ Busy => worker.item \in Items
  /\ \A c \in Clients : request[c].op = "cancel" => request[c].item \in Items
  /\ RunningHasWorker

\* Runs are numbered in turn: what was made so far belongs to earlier ones, and
\* the run that the worker is about to record is known to nobody else.  A run that
\* was to be removed has no record and gets none.
RunInv ==
  /\ \A f \in disk : OfRun(f.pdf) < nextRun
  /\ \A d \in Dirs : There(d) => OfRun(d) < nextRun
  /\ \A r \in Runs : Exists(r) => r < nextRun /\ OfRun(attempts[r].pdf) = r /\ r \notin cleared
  /\ pending \subseteq cleared /\ \A r \in cleared : r < nextRun
  /\ worker.run < nextRun /\ \A i \in Items : row[i].review < nextRun
  /\ Producing =>
       /\ worker.run \in Runs /\ ~Exists(worker.run) /\ worker.run \notin cleared
       /\ \A i \in Items : row[i].review # worker.run
  /\ worker.pc = "loaded" => worker.job \in HuntJobs

\* A path has one contents.
DiskInv == \A f, g \in disk : f.pdf = g.pdf => f = g

\* What a compilation promoted stands unless its run was to be removed.
Published(k) ==
  /\ k.rev \in Revisions /\ Revision(k.dir, k.rev) \in Pdfs
  /\ \/ [pdf |-> Revision(k.dir, k.rev), doc |-> k.snapshot.doc] \in disk
     \/ OfRun(k.dir) \in cleared
CompilerInv ==
  \A c \in Compilers :
    /\ compiler[c].pc # "idle" => OfRun(compiler[c].dir) < nextRun
    /\ compiler[c].pc \in {"promoted", "written"} => Published(compiler[c])

PackageInv ==
  /\ \A d \in Dirs : There(d) => package[d].state.revDoc <= package[d].state.docRev
  /\ PublishedIsCurrent

IInv == /\ TypeOK /\ QueueInv /\ RunInv /\ DiskInv /\ CompilerInv /\ PackageInv
        /\ SelectedIsServable

-----------------------------------------------------------------------------
(* Paths.                                                                  *)

LEMMA Numbers ==
  /\ Runs \subseteq Nat \ {0} /\ 0 \notin Runs /\ Runs \cup {0} \subseteq Nat
  /\ Revisions \subseteq Nat \ {0}
  /\ MaxRevisions \in Nat \ {0}
  /\ \A n \in 1..MaxOpened : n \in Revisions
BY SelectionAssumption DEF Runs, Revisions

LEMMA DirPaths ==
  ASSUME NEW d \in Dirs
  PROVE  d \in Seq(Nat) /\ Len(d) \in Nat \ {0} /\ OfRun(d) \in Runs
<1>1. CASE \E r \in Runs : d = <<r>>
  BY <1>1, Numbers DEF OfRun
<1>2. CASE \E r \in Runs, n \in 1..MaxOpened : d = <<r, n>>
  BY <1>2, Numbers DEF OfRun
<1> QED BY <1>1, <1>2 DEF Dirs

LEMMA RevisionPaths ==
  ASSUME NEW d \in Dirs, NEW n \in Nat
  PROVE  /\ Revision(d, n) \in Seq(Nat) /\ Len(Revision(d, n)) = Len(d) + 1
         /\ OfRun(Revision(d, n)) = OfRun(d)
         /\ \A e \in Dirs, m \in Nat : Revision(d, n) = Revision(e, m) => d = e /\ n = m
<1>1. d \in Seq(Nat) /\ Len(d) \in Nat \ {0}
  BY DirPaths
<1>2. /\ Append(d, n) \in Seq(Nat) /\ Len(Append(d, n)) = Len(d) + 1
      /\ \A i \in 1..Len(d) : Append(d, n)[i] = d[i]
  BY <1>1, AppendProperties
<1>3. 1 \in 1..Len(d)
  BY <1>1
<1>4. ASSUME NEW e \in Dirs, NEW m \in Nat, Append(d, n) = Append(e, m) PROVE d = e /\ n = m
  BY <1>1, <1>4, DirPaths, AppendInjective
<1> QED BY <1>2, <1>3, <1>4 DEF Revision, OfRun

LEMMA PdfPaths ==
  /\ \A r \in Runs : Output(r) \in Pdfs /\ Output(r) \in Dirs /\ OfRun(Output(r)) = r
                     /\ Output(r) \in Seq(Nat) /\ Len(Output(r)) = 1
  /\ \A d \in Dirs, n \in Revisions : Revision(d, n) \in Pdfs
  /\ \A p \in Pdfs : OfRun(p) \in Runs
  /\ <<1>> \in Pdfs /\ <<1>> \in Dirs
<1>1. \A r \in Runs : Output(r) \in Pdfs /\ Output(r) \in Dirs /\ OfRun(Output(r)) = r
                      /\ Output(r) \in Seq(Nat) /\ Len(Output(r)) = 1
  BY Numbers DEF Output, Pdfs, Dirs, OfRun
<1>2. \A d \in Dirs, n \in Revisions : Revision(d, n) \in Pdfs
  BY DEF Pdfs
<1>3. \A p \in Pdfs : OfRun(p) \in Runs
  <2> SUFFICES ASSUME NEW p \in Pdfs PROVE OfRun(p) \in Runs
    OBVIOUS
  <2>1. CASE \E r \in Runs : p = Output(r)
    BY <2>1, <1>1
  <2>2. CASE \E d \in Dirs, n \in Revisions : p = Revision(d, n)
    BY <2>2, RevisionPaths, DirPaths, Numbers
  <2> QED BY <2>1, <2>2 DEF Pdfs
<1>4. 1 \in Runs /\ Output(1) = <<1>>
  BY SelectionAssumption DEF Runs, Output
<1> QED BY <1>1, <1>2, <1>3, <1>4

\* The search for a free revision ends: the directory holds MaxRevisions at most.
LEMMA NextRevisions ==
  ASSUME NEW d \in Dirs, package[d].state.rev \in Nat,
         disk \subseteq [pdf : Pdfs, doc : Contents]
  PROVE  /\ NextRevision(d) \in Nat \ {0} /\ ~OnDisk(Revision(d, NextRevision(d)))
         /\ NextRevision(d) <= Limit(d) => NextRevision(d) \in Revisions
<1> DEFINE last == package[d].state.rev
           Taken(n) == OnDisk(Revision(d, n))
           Span == last + 1..last + MaxRevisions + 1
           free == {n \in Span : ~Taken(n)}
           top == last + MaxRevisions + 1
<1>1. MaxRevisions \in Nat /\ last \in Nat /\ top \in Nat /\ top \in Span
  BY Numbers
<1>2. ~Taken(top)
  <2> SUFFICES ASSUME NEW f \in disk, f.pdf = Revision(d, top) PROVE FALSE
    BY DEF OnDisk
  <2>1. Revision(d, top) \in Pdfs
    OBVIOUS
  <2>2. ASSUME NEW r \in Runs PROVE Revision(d, top) # Output(r)
    <3>1. Len(Revision(d, top)) = Len(d) + 1 /\ Len(d) \in Nat \ {0}
      BY <1>1, RevisionPaths, DirPaths
    <3>2. Len(Output(r)) = 1
      BY PdfPaths
    <3>3. Len(d) + 1 # 1
      BY <3>1
    <3> QED BY <3>1, <3>2, <3>3, Zenon
  <2>3. PICK e \in Dirs, n \in Revisions : Revision(d, top) = Revision(e, n)
    BY <2>1, <2>2 DEF Pdfs
  <2>4. n \in Nat /\ n <= MaxRevisions
    BY Numbers DEF Revisions
  <2>5. top = n
    <3> HIDE DEF top
    <3> QED BY <1>1, <2>3, <2>4, RevisionPaths
  <2> QED BY <1>1, <2>4, <2>5
<1>3. free \subseteq Nat /\ free # {}
  BY <1>1, <1>2
<1> HIDE DEF Taken
<1>4. PICK n \in free : \A m \in free : ~(m < n)
  <2> HIDE DEF free
  <2>1. PICK n \in free : \A m \in free : ~(<<m, n>> \in OpToRel(<, Nat))
    BY <1>3, NatLessThanWellFounded, WFMin
  <2>2. \A m \in free : ~(m < n)
    BY <1>3, <2>1, Zenon DEF OpToRel
  <2> QED BY <2>2
<1>5. n \in Span /\ ~Taken(n) /\ \A m \in last + 1..n - 1 : Taken(m)
  BY <1>1, <1>4
<1> DEFINE First(k) == ~Taken(k) /\ \A m \in last + 1..k - 1 : Taken(m)
<1>6. NextRevision(d) = CHOOSE k \in Span : First(k)
  BY DEF NextRevision, Taken
<1>7. n \in Span /\ First(n)
  BY <1>5
<1> HIDE DEF First
<1>8. NextRevision(d) \in Span /\ First(NextRevision(d))
  BY <1>6, <1>7
<1>9. Limit(d) <= MaxRevisions /\ Limit(d) \in Nat
  BY SelectionAssumption DEF Limit
<1>10. NextRevision(d) \in Nat \ {0}
  BY <1>1, <1>8
<1> QED BY <1>8, <1>9, <1>10, Numbers DEF First, Taken, Revisions

-----------------------------------------------------------------------------
(* The queue: steps that leave attempts, files and packages alone.         *)

LEMMA Typed ==
  ASSUME TypeOK
  PROVE  /\ row \in [Items -> RowRec] /\ worker \in WorkerRec
         /\ request \in [Clients -> RequestRec] /\ nextRun \in Nat \ {0}
         /\ attempts \in [Runs -> Attempt \cup {NoAttempt}]
         /\ selected \in [HuntJobs -> [ver : Runs \cup {0}, pdf : Pdfs]]
         /\ disk \subseteq [pdf : Pdfs, doc : Contents]
         /\ pending \subseteq Runs /\ cleared \subseteq Runs /\ stranded \subseteq Items
         /\ package \in [Dirs -> Package]
         /\ compiler \in [Compilers -> CompilerRec]
BY DEF TypeOK, QueueTypeOK, SelectionTypeOK, ReviewTypeOK, RowRec, WorkerRec, RequestRec,
       CompilerRec

\* What a step of the queue alone owes to the rest.
WorkerLater ==
  /\ nextRun' = nextRun
  /\ worker'.run \in {0, worker.run}
  /\ Producing' => Producing /\ worker'.run = worker.run
  /\ worker'.pc = "loaded" => worker'.job \in HuntJobs
  /\ \A i \in Items : \/ row'[i].review \in {0, row[i].review}
                      \/ row'[i].review = worker.run /\ ~Producing'

LEMMA QueueOnly ==
  ASSUME IInv, OnlyWorker, stranded' \subseteq Items, QueueTypeOK', QueueInv', WorkerLater
  PROVE  IInv'
<1>1. nextRun \in Nat \ {0} /\ worker.run \in Nat /\ 0 \notin Runs
  <2>1. worker.run \in Runs \cup {0} /\ nextRun \in Nat \ {0}
    BY Typed DEF IInv, WorkerRec
  <2> QED BY <2>1, Numbers
<1>2. RunInv'
  <2>1. /\ \A f \in disk' : OfRun(f.pdf) < nextRun'
        /\ \A d \in Dirs : package'[d].there => OfRun(d) < nextRun'
        /\ \A r \in Runs : Exists(r)' => r < nextRun' /\ OfRun(attempts'[r].pdf) = r
                                         /\ r \notin cleared'
        /\ pending' \subseteq cleared' /\ \A r \in cleared' : r < nextRun'
    BY DEF IInv, RunInv, There, Exists, OnlyWorker, WorkerLater, selection, review
  <2>2. worker'.run < nextRun' /\ \A i \in Items : row'[i].review < nextRun'
    BY <1>1 DEF IInv, RunInv, WorkerLater
  <2>3. Producing' => /\ worker'.run \in Runs /\ attempts'[worker'.run].job = NoJob /\ worker'.run \notin cleared'
                      /\ \A i \in Items : row'[i].review # worker'.run
    BY <1>1 DEF IInv, RunInv, Exists, OnlyWorker, WorkerLater, selection, review
  <2> QED BY <2>1, <2>2, <2>3 DEF RunInv, There, Exists, WorkerLater
<1>3. TypeOK'
  BY DEF IInv, TypeOK, OnlyWorker, SelectionTypeOK, ReviewTypeOK, selection, review
<1>4. DiskInv' /\ PackageInv' /\ SelectedIsServable'
  BY DEF IInv, OnlyWorker, DiskInv, PackageInv, PublishedIsCurrent, There, SelectedIsServable,
         selection, review
<1>5. CompilerInv'
  BY DEF IInv, OnlyWorker, WorkerLater, CompilerInv, Published, selection, review
<1> QED BY <1>2, <1>3, <1>4, <1>5 DEF IInv
-----------------------------------------------------------------------------
(* Requests.                                                               *)

RequestsOK ==
  /\ request \in [Clients -> RequestRec]
  /\ \A c \in Clients : request[c].op = "cancel" => request[c].item \in Items

LEMMA RequestKeeps ==
  ASSUME IInv, OnlyQueue, UNCHANGED <<worker, nextRun>>, RequestsOK',
         row' \in [Items -> RowRec],
         \A i \in Items : /\ row'[i].review \in {0, row[i].review}
                          /\ row'[i].st = "running" => row[i].st = "running"
  PROVE  IInv'
<1>1. QueueTypeOK'
  BY Typed DEF IInv, QueueTypeOK, RequestsOK, RowRec, WorkerRec, RequestRec
<1>2. QueueInv'
  BY DEF IInv, QueueInv, RequestsOK, Busy, RunningHasWorker, St, OnlyQueue
<1>3. WorkerLater
  BY DEF IInv, RunInv, WorkerLater, Producing
<1>4. OnlyWorker /\ stranded' \subseteq Items
  BY Typed DEF IInv, OnlyQueue
<1> QED BY <1>1, <1>2, <1>3, <1>4, QueueOnly

LEMMA Asked ==
  ASSUME IInv, NEW c \in Clients, NEW q \in RequestRec, q.op = "cancel" => q.item \in Items,
         request' = [request EXCEPT ![c] = q]
  PROVE  RequestsOK'
<1>1. request \in [Clients -> RequestRec]
  BY Typed DEF IInv
<1>2. request' \in [Clients -> RequestRec] /\ request'[c] = q
      /\ \A d \in Clients \ {c} : request'[d] = request[d]
  BY <1>1
<1> QED BY <1>2 DEF IInv, QueueInv, RequestsOK

LEMMA AskOnly ==
  ASSUME IInv, OnlyQueue, NEW c \in Clients, NEW q \in RequestRec,
         q.op = "cancel" => q.item \in Items,
         request' = [request EXCEPT ![c] = q], UNCHANGED <<row, worker, nextRun>>
  PROVE  IInv'
<1>1. RequestsOK'
  BY Asked
<1>2. row' \in [Items -> RowRec]
  BY Typed DEF IInv
<1> QED BY <1>1, <1>2, RequestKeeps

LEMMA Replies ==
  /\ Done \in RequestRec /\ Done.op = "none"
  /\ \A n \in Nat : [Done EXCEPT !.op = "insert", !.pos = n] \in RequestRec
  /\ \A i \in Items : LET q == [Done EXCEPT !.op = "cancel", !.item = i] IN
       q \in RequestRec /\ q.item = i
  /\ \A i \in Items, n \in Nat :
       [Done EXCEPT !.op = "position", !.item = i, !.pos = n] \in RequestRec
  /\ \A q \in RequestRec, o \in Items, n \in Nat :
       [q EXCEPT !.op = "swap", !.other = o, !.otherPos = n] \in RequestRec
  /\ \A q \in RequestRec : [q EXCEPT !.op = "cleanup"] \in RequestRec
BY DEF Done, RequestRec

LEMMA ReadsKeep ==
  ASSUME IInv, OnlyQueue, NEW c \in Clients,
         ReadEnd(c) \/ ReadToCancel(c) \/ ReadPosition(c) \/ ReadNeighbour(c) \/ RetryClear(c)
  PROVE  IInv'
<1>1. /\ request \in [Clients -> RequestRec] /\ request[c] \in RequestRec
      /\ \A i \in Items : row[i].pos \in Nat
  <2>1. request \in [Clients -> RequestRec] /\ row \in [Items -> RowRec]
    BY Typed DEF IInv
  <2> QED BY <2>1 DEF RowRec
<1>2. CASE ReadEnd(c)
  <2>1. PICK p : /\ p \in {row[i].pos : i \in {k \in Items : St(k) = "queued"}} \cup {0}
                 /\ request' = [request EXCEPT ![c] =
                                  [Done EXCEPT !.op = "insert", !.pos = p + 1]]
    BY <1>2 DEF ReadEnd
  <2>2. p \in Nat
    BY <1>1, <2>1
  <2>3. p + 1 \in Nat /\ [Done EXCEPT !.op = "insert", !.pos = p + 1].op # "cancel"
    BY <2>2 DEF Done
  <2> QED BY <1>2, <2>1, <2>3, Replies, AskOnly DEF ReadEnd
<1>3. CASE ReadToCancel(c)
  BY <1>3, Replies, AskOnly DEF ReadToCancel
<1>4. CASE ReadPosition(c)
  <2>1. PICK i \in Items, n \in Nat : request' = [request EXCEPT ![c] =
                                [Done EXCEPT !.op = "position", !.item = i, !.pos = n]]
    BY <1>1, <1>4 DEF ReadPosition
  <2>2. [Done EXCEPT !.op = "position", !.item = i, !.pos = n].op # "cancel"
    BY DEF Done
  <2> QED BY <1>4, <2>1, <2>2, Replies, AskOnly DEF ReadPosition
<1>5. CASE ReadNeighbour(c)
  <2> DEFINE k == request[c]
  <2>1. CASE \E o \in Items : request' = [request EXCEPT ![c].op = "swap", ![c].other = o,
                                                         ![c].otherPos = row[o].pos]
    <3>1. PICK o \in Items : request' = [request EXCEPT ![c].op = "swap", ![c].other = o,
                                                        ![c].otherPos = row[o].pos]
      BY <2>1
    <3> DEFINE q == [k EXCEPT !.op = "swap", !.other = o, !.otherPos = row[o].pos]
    <3>2. request' = [request EXCEPT ![c] = q]
      BY <1>1, <3>1
    <3>3. q \in RequestRec /\ q.op # "cancel"
      <4>1. \A x \in RequestRec : [x EXCEPT !.op = "swap", !.other = o,
                                            !.otherPos = row[o].pos].op = "swap"
        BY DEF RequestRec
      <4> QED BY <1>1, <4>1, Replies
    <3> HIDE DEF q
    <3> QED BY <1>5, <3>2, <3>3, AskOnly DEF ReadNeighbour
  <2>2. CASE request' = [request EXCEPT ![c] = Done]
    BY <1>5, <2>2, Replies, AskOnly DEF ReadNeighbour
  <2> QED BY <1>5, <2>1, <2>2 DEF ReadNeighbour
<1>6. CASE RetryClear(c)
  <2> DEFINE q == [request[c] EXCEPT !.op = "cleanup"]
  <2>1. request' = [request EXCEPT ![c] = q]
    BY <1>1, <1>6 DEF RetryClear
  <2>2. q \in RequestRec /\ q.op # "cancel"
    <3>1. \A x \in RequestRec : [x EXCEPT !.op = "cleanup"].op = "cleanup"
      BY DEF RequestRec
    <3> QED BY <1>1, <3>1, Replies
  <2> HIDE DEF q
  <2> QED BY <1>6, <2>1, <2>2, AskOnly DEF RetryClear
<1> QED BY <1>2, <1>3, <1>4, <1>5, <1>6
\* Rows as a write leaves them.
LEMMA RowEnds ==
  ASSUME IInv, NEW i \in Items, NEW st \in Status, NEW run \in Runs \cup {0},
         Ends(i, st, run)
  PROVE  /\ row' \in [Items -> RowRec] /\ row'[i].st = st /\ row'[i].review = run
         /\ \A k \in Items \ {i} : row'[k] = row[k]
<1>1. row \in [Items -> RowRec]
  BY Typed DEF IInv
<1> DEFINE r == [row[i] EXCEPT !.st = st, !.pos = 0, !.review = run]
<1>2. row' = [row EXCEPT ![i] = r]
  BY <1>1 DEF Ends
<1>3. \A x \in RowRec : LET y == [x EXCEPT !.st = st, !.pos = 0, !.review = run] IN
        y \in RowRec /\ y.st = st /\ y.review = run
  BY DEF RowRec
<1>4. r \in RowRec /\ r.st = st /\ r.review = run
  BY <1>1, <1>3
<1> HIDE DEF r
<1> QED BY <1>1, <1>2, <1>4

LEMMA RowSets ==
  ASSUME IInv, NEW i \in Items, NEW st \in Status, Sets(i, st)
  PROVE  /\ row' \in [Items -> RowRec] /\ row'[i].st = st /\ row'[i].review = row[i].review
         /\ \A k \in Items \ {i} : row'[k] = row[k]
<1>1. row \in [Items -> RowRec]
  BY Typed DEF IInv
<1> DEFINE r == [row[i] EXCEPT !.st = st]
<1>2. row' = [row EXCEPT ![i] = r]
  BY <1>1 DEF Sets
<1>3. \A x \in RowRec : LET y == [x EXCEPT !.st = st] IN
        y \in RowRec /\ y.st = st /\ y.review = x.review
  BY DEF RowRec
<1>4. r \in RowRec /\ r.st = st /\ r.review = row[i].review
  BY <1>1, <1>3
<1> HIDE DEF r
<1> QED BY <1>1, <1>2, <1>4

\* A request that writes rows is done with it.
LEMMA RowsKeep ==
  ASSUME IInv, OnlyQueue, NEW c \in Clients, request' = [request EXCEPT ![c] = Done],
         UNCHANGED <<worker, nextRun>>, row' \in [Items -> RowRec],
         \A i \in Items : /\ row'[i].review \in {0, row[i].review}
                          /\ row'[i].st = "running" => row[i].st = "running"
  PROVE  IInv'
<1>1. RequestsOK'
  BY Replies, Asked
<1> QED BY <1>1, RequestKeeps

LEMMA InsertKeeps ==
  ASSUME IInv, OnlyQueue, NEW c \in Clients, Insert(c)
  PROVE  IInv'
<1>1. row \in [Items -> RowRec] /\ request[c].pos \in Nat
  BY Typed DEF IInv, RequestRec
<1>2. PICK i \in Items, j \in Jobs :
        row' = [row EXCEPT ![i] = [st |-> "queued", pos |-> request[c].pos, job |-> j,
                                   review |-> 0]]
  BY DEF Insert
<1> DEFINE r == [st |-> "queued", pos |-> request[c].pos, job |-> j, review |-> 0]
<1>3. r \in RowRec /\ r.st = "queued" /\ r.review = 0
  BY <1>1 DEF RowRec, Status
<1> HIDE DEF r
<1>4. row' = [row EXCEPT ![i] = r]
  BY <1>2 DEF r
<1>5. row' \in [Items -> RowRec] /\ row'[i] = r /\ \A k \in Items \ {i} : row'[k] = row[k]
  BY <1>1, <1>3, <1>4
<1>6. \A k \in Items : /\ row'[k].review \in {0, row[k].review}
                       /\ row'[k].st = "running" => row[k].st = "running"
  BY <1>3, <1>5
<1> QED BY <1>5, <1>6, RowsKeep DEF Insert

LEMMA WriteCancelledKeeps ==
  ASSUME IInv, OnlyQueue, NEW c \in Clients, WriteCancelled(c)
  PROVE  IInv'
<1> DEFINE i == request[c].item
<1>1. i \in Items
  BY DEF WriteCancelled, IInv, QueueInv
<1>2. row \in [Items -> RowRec] /\ row[i].review \in Runs \cup {0}
  <2>1. row \in [Items -> RowRec]
    BY Typed DEF IInv
  <2> QED BY <1>1, <2>1 DEF RowRec
<1>3. CASE row' = row
  BY <1>2, <1>3, RowsKeep DEF WriteCancelled
<1>4. CASE Ends(i, "cancelled", row[i].review)
  <2>1. /\ row' \in [Items -> RowRec] /\ row'[i].st = "cancelled"
        /\ row'[i].review = row[i].review
        /\ \A k \in Items \ {i} : row'[k] = row[k]
    BY <1>1, <1>2, <1>4, RowEnds DEF Status
  <2>2. \A k \in Items : /\ row'[k].review \in {0, row[k].review}
                         /\ row'[k].st = "running" => row[k].st = "running"
    BY <2>1
  <2> QED BY <2>1, <2>2, RowsKeep DEF WriteCancelled
<1> QED BY <1>3, <1>4 DEF WriteCancelled

LEMMA SwapKeeps ==
  ASSUME IInv, OnlyQueue, NEW c \in Clients, Swap(c)
  PROVE  IInv'
<1> DEFINE k == request[c]
<1>1. row \in [Items -> RowRec] /\ k.pos \in Nat /\ k.otherPos \in Nat
  BY Typed DEF IInv, RequestRec
<1>2. \A x \in RowRec, n \in Nat : LET y == [x EXCEPT !.pos = n] IN
        y \in RowRec /\ y.st = x.st /\ y.review = x.review
  BY DEF RowRec
<1>3. \A i \in Items : \/ row'[i] = row[i]
                       \/ row'[i] = [row[i] EXCEPT !.pos = k.otherPos]
                       \/ row'[i] = [row[i] EXCEPT !.pos = k.pos]
  BY DEF Swap
<1>4. \A i \in Items : /\ row'[i] \in RowRec /\ row'[i].st = row[i].st
                       /\ row'[i].review = row[i].review
  <2> SUFFICES ASSUME NEW i \in Items
               PROVE  /\ row'[i] \in RowRec /\ row'[i].st = row[i].st
                      /\ row'[i].review = row[i].review
    OBVIOUS
  <2>1. row[i] \in RowRec
    BY <1>1
  <2>2. CASE row'[i] = row[i]
    BY <2>1, <2>2
  <2>3. CASE row'[i] = [row[i] EXCEPT !.pos = k.otherPos]
    BY <1>1, <1>2, <2>1, <2>3
  <2>4. CASE row'[i] = [row[i] EXCEPT !.pos = k.pos]
    BY <1>1, <1>2, <2>1, <2>4
  <2> QED BY <1>3, <2>2, <2>3, <2>4
<1>5. row' \in [Items -> RowRec]
  BY <1>4 DEF Swap
<1> QED BY <1>4, <1>5, RowsKeep DEF Swap

LEMMA DeleteKeeps ==
  ASSUME IInv, OnlyQueue, Delete
  PROVE  IInv'
<1>1. row \in [Items -> RowRec] /\ request \in [Clients -> RequestRec]
  BY Typed DEF IInv
<1>2. PICK i \in Items : row' = [row EXCEPT ![i] = NoRow("gone")]
  BY DEF Delete
<1>3. NoRow("gone") \in RowRec /\ NoRow("gone").st = "gone" /\ NoRow("gone").review = 0
  BY DEF NoRow, RowRec, Status, Jobs
<1>4. /\ row' \in [Items -> RowRec] /\ row'[i] = NoRow("gone")
      /\ \A k \in Items \ {i} : row'[k] = row[k]
  BY <1>1, <1>2, <1>3
<1>5. \A k \in Items : /\ row'[k].review \in {0, row[k].review}
                       /\ row'[k].st = "running" => row[k].st = "running"
  BY <1>3, <1>4
<1>6. RequestsOK'
  BY <1>1 DEF Delete, IInv, QueueInv, RequestsOK
<1> QED BY <1>4, <1>5, <1>6, RequestKeeps DEF Delete
-----------------------------------------------------------------------------
(* The worker.                                                             *)

LEMMA WorkerForms ==
  /\ Idle \in WorkerRec /\ Idle.pc = "idle" /\ Idle.run = 0
  /\ \A w \in WorkerRec : LET v == [w EXCEPT !.pc = "ending", !.job = NoJob,
                                             !.isReady = FALSE] IN
       v \in WorkerRec /\ v.pc = "ending" /\ v.item = w.item /\ v.run = w.run
  /\ \A i \in Items : LET v == [Idle EXCEPT !.pc = "ending", !.item = i] IN
       v \in WorkerRec /\ v.pc = "ending" /\ v.item = i /\ v.run = 0
BY DEF Idle, WorkerRec, WorkerPc, Jobs

LEMMA WorkerKeeps ==
  ASSUME IInv, OnlyWorker, stranded' \subseteq Items, UNCHANGED <<request, nextRun>>,
         row' \in [Items -> RowRec], worker' \in WorkerRec,
         Busy' => worker'.item \in Items, RunningHasWorker',
         worker'.run \in {0, worker.run},
         Producing' => Producing /\ worker'.run = worker.run,
         worker'.pc = "loaded" => worker'.job \in HuntJobs,
         \A i \in Items : \/ row'[i].review \in {0, row[i].review}
                          \/ row'[i].review = worker.run /\ ~Producing'
  PROVE  IInv'
<1>1. QueueTypeOK'
  BY Typed DEF IInv, QueueTypeOK, RowRec, WorkerRec, RequestRec
<1>2. QueueInv'
  BY DEF IInv, QueueInv
<1>3. WorkerLater
  BY DEF WorkerLater
<1> QED BY <1>1, <1>2, <1>3, QueueOnly

\* The worker moves and leaves the rows alone.
LEMMA WorkerOnly ==
  ASSUME IInv, OnlyQueue, UNCHANGED <<row, request, nextRun>>, worker' \in WorkerRec,
         worker'.pc = "idle" \/ worker'.item \in Items,
         \A i \in Items : St(i) = "running" =>
           \/ worker'.pc \notin {"idle", "selected"} /\ worker'.item = i
           \/ i \in stranded,
         worker'.run \in {0, worker.run},
         Producing' => Producing /\ worker'.run = worker.run,
         worker'.pc = "loaded" => worker'.job \in HuntJobs
  PROVE  IInv'
<1>1. row' \in [Items -> RowRec] /\ stranded' = stranded /\ stranded \subseteq Items
  BY Typed DEF IInv, OnlyQueue
<1>2. RunningHasWorker' /\ (Busy' => worker'.item \in Items)
  BY <1>1 DEF RunningHasWorker, Busy, St
<1> QED BY <1>1, <1>2, WorkerKeeps DEF OnlyQueue

\* A busy worker holds a row, and what runs is that row or was left behind.
LEMMA Holds ==
  ASSUME IInv, worker.pc \notin {"down", "idle"}
  PROVE  /\ worker \in WorkerRec /\ worker.item \in Items
         /\ \A i \in Items : St(i) = "running" =>
              (i = worker.item /\ worker.pc # "selected") \/ i \in stranded
BY Typed DEF IInv, QueueInv, Busy, RunningHasWorker

LEMMA SelectKeeps ==
  ASSUME IInv, OnlyQueue, Select
  PROVE  IInv'
<1>1. PICK i \in Items : worker' = [worker EXCEPT !.pc = "selected", !.item = i]
  BY DEF Select
<1>2. worker \in WorkerRec /\ worker.pc = "idle"
  BY Typed DEF IInv, Select
<1>3. worker' \in WorkerRec /\ worker'.pc = "selected" /\ worker'.item = i
      /\ worker'.run = worker.run
  <2>1. \A w \in WorkerRec : LET v == [w EXCEPT !.pc = "selected", !.item = i] IN
          v \in WorkerRec /\ v.pc = "selected" /\ v.item = i /\ v.run = w.run
    BY DEF WorkerRec, WorkerPc
  <2> QED BY <1>1, <1>2, <2>1
<1>4. \A k \in Items : St(k) = "running" => k \in stranded
  BY <1>2 DEF IInv, QueueInv, RunningHasWorker
<1> QED BY <1>3, <1>4, WorkerOnly DEF Select, Producing

LEMMA ClaimKeeps ==
  ASSUME IInv, OnlyQueue, Claim
  PROVE  IInv'
<1> DEFINE i == worker.item
<1>1. /\ worker \in WorkerRec /\ i \in Items /\ worker.pc = "selected"
      /\ \A k \in Items : St(k) = "running" => k \in stranded
      /\ stranded' = stranded /\ stranded \subseteq Items
  BY Holds, Typed DEF Claim, OnlyQueue, IInv
<1>2. worker' \in WorkerRec /\ worker'.pc = "claimed" /\ worker'.item = i
      /\ worker'.run = worker.run
  <2>1. \A w \in WorkerRec : LET v == [w EXCEPT !.pc = "claimed"] IN
          v \in WorkerRec /\ v.pc = "claimed" /\ v.item = w.item /\ v.run = w.run
    BY DEF WorkerRec, WorkerPc
  <2> QED BY <1>1, <2>1 DEF Claim, WorkerIs
<1>3. /\ row' \in [Items -> RowRec]
      /\ \A k \in Items \ {i} : row'[k] = row[k]
      /\ \A k \in Items : row'[k].review = row[k].review
  <2>1. CASE row' = row
    BY <2>1, Typed DEF IInv
  <2>2. CASE Sets(i, "running")
    BY <1>1, <2>2, RowSets DEF Status
  <2> QED BY <2>1, <2>2 DEF Claim
<1>4. RunningHasWorker' /\ (Busy' => worker'.item \in Items)
  BY <1>1, <1>2, <1>3 DEF RunningHasWorker, St
<1> QED BY <1>1, <1>2, <1>3, <1>4, WorkerKeeps DEF Claim, Producing, OnlyQueue

LEMMA BeginKeeps ==
  ASSUME IInv, OnlyQueue, Begin
  PROVE  IInv'
<1> DEFINE i == worker.item
<1>1. /\ worker \in WorkerRec /\ i \in Items /\ worker.pc = "claimed"
      /\ \A k \in Items : St(k) = "running" => k = i \/ k \in stranded
  BY Holds DEF Begin
<1>2. row[i].job \in Jobs
  <2>1. row \in [Items -> RowRec]
    BY Typed DEF IInv
  <2> QED BY <1>1, <2>1 DEF RowRec
<1>3. CASE St(i) \in Absent /\ WorkerIdles
  BY <1>1, <1>3, WorkerForms, WorkerOnly DEF Begin, WorkerIdles, Absent, Producing
<1>4. CASE worker' = [worker EXCEPT !.pc = "preparing", !.job = row[i].job]
  <2>1. worker' \in WorkerRec /\ worker'.pc = "preparing" /\ worker'.item = i
        /\ worker'.run = worker.run
    <3>1. \A w \in WorkerRec : LET v == [w EXCEPT !.pc = "preparing", !.job = row[i].job] IN
            v \in WorkerRec /\ v.pc = "preparing" /\ v.item = w.item /\ v.run = w.run
      BY <1>2 DEF WorkerRec, WorkerPc
    <3> QED BY <1>1, <1>4, <3>1
  <2> QED BY <1>1, <2>1, WorkerOnly DEF Begin, Producing
<1> QED BY <1>3, <1>4 DEF Begin

LEMMA RowMissingKeeps ==
  ASSUME IInv, OnlyQueue, RowMissing
  PROVE  IInv'
<1>1. /\ St(worker.item) \in Absent
      /\ \A k \in Items : St(k) = "running" => k = worker.item \/ k \in stranded
  BY Holds DEF RowMissing
<1> QED BY <1>1, WorkerForms, WorkerOnly DEF RowMissing, WorkerIdles, Absent, Producing

LEMMA RaisesKeeps ==
  ASSUME IInv, OnlyQueue, Raises
  PROVE  IInv'
<1>1. /\ worker.item \in Items
      /\ \A k \in Items : St(k) = "running" => k = worker.item \/ k \in stranded
  BY Holds DEF Raises, InTry, Reporting
<1>2. worker' \in WorkerRec /\ worker'.pc = "ending" /\ worker'.item = worker.item
      /\ worker'.run = 0
  BY <1>1, WorkerForms DEF Raises, ToReportFailure
<1> QED BY <1>1, <1>2, WorkerOnly DEF Raises, Producing

\* What an error takes from the worker is left behind.
LEMMA EscapesKeeps ==
  ASSUME IInv, OnlyWorker, Escapes, Strands(stranded \cup {worker.item})
  PROVE  IInv'
<1>1. /\ worker.item \in Items /\ stranded \subseteq Items
      /\ \A k \in Items : St(k) = "running" => k = worker.item \/ k \in stranded
  BY Holds, Typed DEF Escapes, Reporting, IInv
<1>2. worker' \in WorkerRec /\ worker'.pc = "idle" /\ worker'.run = 0
  BY WorkerForms DEF Escapes, WorkerIdles
<1>3. row' = row /\ row' \in [Items -> RowRec] /\ UNCHANGED <<request, nextRun>>
  BY Typed DEF IInv, Escapes
<1>4. stranded' \subseteq Items /\ \A k \in Items : St(k) = "running" => k \in stranded'
  BY <1>1 DEF Strands
<1>5. RunningHasWorker'
  BY <1>3, <1>4 DEF RunningHasWorker, St
<1> QED BY <1>2, <1>3, <1>4, <1>5, WorkerKeeps DEF Busy, Producing

LEMMA LoadJobKeeps ==
  ASSUME IInv, OnlyQueue, LoadJob
  PROVE  IInv'
<1>1. /\ worker \in WorkerRec /\ worker.item \in Items /\ worker.pc = "produced"
      /\ \A k \in Items : St(k) = "running" => k = worker.item \/ k \in stranded
  BY Holds DEF LoadJob
<1>2. CASE WorkerEnds
  <2>1. worker' \in WorkerRec /\ worker'.pc = "ending" /\ worker'.item = worker.item
        /\ worker'.run = worker.run
    BY <1>1, <1>2, WorkerForms DEF WorkerEnds
  <2> QED BY <1>1, <2>1, WorkerOnly DEF LoadJob, Producing
<1>3. CASE /\ worker.job # NoJob
           /\ worker' = [worker EXCEPT !.pc = "loaded", !.isReady = worker.job \in ready]
  <2>1. worker' \in WorkerRec /\ worker'.pc = "loaded" /\ worker'.item = worker.item
        /\ worker'.run = worker.run /\ worker'.job = worker.job
    <3> DEFINE b == worker.job \in ready
    <3>0. b \in BOOLEAN
      OBVIOUS
    <3> HIDE DEF b
    <3>1. \A w \in WorkerRec : LET v == [w EXCEPT !.pc = "loaded", !.isReady = b] IN
            v \in WorkerRec /\ v.pc = "loaded" /\ v.item = w.item /\ v.run = w.run
            /\ v.job = w.job
      BY <3>0 DEF WorkerRec, WorkerPc
    <3>2. worker' = [worker EXCEPT !.pc = "loaded", !.isReady = b]
      BY <1>3 DEF b
    <3> QED BY <1>1, <3>1, <3>2
  <2>2. worker.job \in HuntJobs
    BY <1>1, <1>3 DEF WorkerRec, Jobs
  <2> QED BY <1>1, <2>1, <2>2, WorkerOnly DEF LoadJob, Producing
<1> QED BY <1>2, <1>3 DEF LoadJob

LEMMA ReadStatusKeeps ==
  ASSUME IInv, OnlyQueue, ReadStatus
  PROVE  IInv'
<1>1. /\ worker \in WorkerRec /\ worker.item \in Items /\ worker.pc = "ending"
      /\ \A k \in Items : St(k) = "running" => k = worker.item \/ k \in stranded
  BY Holds DEF ReadStatus
<1>2. CASE St(worker.item) \in Absent \cup {"cancelled"} /\ WorkerIdles
  BY <1>1, <1>2, WorkerForms, WorkerOnly DEF ReadStatus, WorkerIdles, Absent, Producing
<1>3. CASE WorkerIs("finishing")
  <2>1. worker' \in WorkerRec /\ worker'.pc = "finishing" /\ worker'.item = worker.item
        /\ worker'.run = worker.run
    <3>1. \A w \in WorkerRec : LET v == [w EXCEPT !.pc = "finishing"] IN
            v \in WorkerRec /\ v.pc = "finishing" /\ v.item = w.item /\ v.run = w.run
      BY DEF WorkerRec, WorkerPc
    <3> QED BY <1>1, <1>3, <3>1 DEF WorkerIs
  <2> QED BY <1>1, <2>1, WorkerOnly DEF ReadStatus, Producing
<1> QED BY <1>2, <1>3 DEF ReadStatus

LEMMA FinishKeeps ==
  ASSUME IInv, OnlyQueue, Finish
  PROVE  IInv'
<1> DEFINE i == worker.item
<1>1. /\ worker \in WorkerRec /\ i \in Items /\ worker.pc = "finishing"
      /\ \A k \in Items : St(k) = "running" => k = i \/ k \in stranded
      /\ stranded' = stranded /\ stranded \subseteq Items /\ OnlyWorker
  BY Holds, Typed DEF Finish, IInv, OnlyQueue
<1>2. /\ worker' \in WorkerRec /\ worker'.run = 0
      /\ worker'.pc = "idle" \/ (worker'.pc = "ending" /\ worker'.item = i)
  BY <1>1, WorkerForms DEF Finish, WorkerIdles, ToReportFailure
<1>3. CASE St(i) \in Absent /\ row' = row
  <2>1. \A k \in Items : St(k) = "running" => k \in stranded
    BY <1>1, <1>3 DEF Absent
  <2>2. worker'.run \in {0, worker.run} /\ worker'.pc # "loaded" /\ ~Producing'
        /\ (worker'.pc = "idle" \/ worker'.item \in Items)
    BY <1>1, <1>2 DEF Producing
  <2>3. UNCHANGED <<row, request, nextRun>>
    BY <1>3 DEF Finish
  <2> QED BY <1>2, <2>1, <2>2, <2>3, WorkerOnly
<1>4. CASE Ends(i, worker.end, worker.run)
  <2>1. worker.end \in {"succeeded", "failed"} /\ worker.run \in Runs \cup {0}
    BY <1>1 DEF WorkerRec
  <2>2. /\ row' \in [Items -> RowRec] /\ row'[i].st = worker.end
        /\ row'[i].review = worker.run
        /\ \A k \in Items \ {i} : row'[k] = row[k]
    BY <1>1, <1>4, <2>1, RowEnds DEF Status
  <2>3. RunningHasWorker'
    BY <1>1, <2>1, <2>2 DEF RunningHasWorker, St
  <2>4. \A k \in Items : row'[k].review \in {row[k].review, worker.run}
    BY <2>2
  <2>5. Busy' => worker'.item \in Items
    BY <1>1, <1>2 DEF Busy
  <2> QED BY <1>1, <1>2, <2>2, <2>3, <2>4, <2>5, WorkerKeeps DEF Finish, Producing
<1> QED BY <1>3, <1>4 DEF Finish

\* Starting recovers the rows of a worker that died, or leaves them behind.
LEMMA StartKeeps ==
  ASSUME IInv, Start
  PROVE  IInv'
<1>1. row \in [Items -> RowRec]
  BY Typed DEF IInv
<1>2. \A x \in RowRec : LET y == [x EXCEPT !.st = "queued"] IN
        y \in RowRec /\ y.st = "queued" /\ y.review = x.review
  BY DEF RowRec, Status
<1>3. OnlyWorker /\ worker' = Idle /\ UNCHANGED <<request, nextRun>>
  BY DEF Start, StartWorker, WorkerIdles
<1>4. worker' \in WorkerRec /\ worker'.pc = "idle" /\ worker'.run = 0
  BY <1>3, WorkerForms
<1>5. CASE row' = Recovered /\ stranded' = {}
  <2>1. ASSUME NEW i \in Items
        PROVE  row'[i] \in RowRec /\ row'[i].st # "running" /\ row'[i].review = row[i].review
    <3>1. row[i] \in RowRec
      BY <1>1
    <3>2. row'[i] = IF row[i].st = "running" THEN [row[i] EXCEPT !.st = "queued"] ELSE row[i]
      BY <1>5 DEF Recovered, St
    <3> QED BY <1>2, <3>1, <3>2
  <2>2. row' \in [Items -> RowRec]
    BY <1>5, <2>1 DEF Recovered
  <2>3. RunningHasWorker' /\ stranded' \subseteq Items
    BY <1>5, <2>1 DEF RunningHasWorker, St
  <2> QED BY <1>3, <1>4, <2>1, <2>2, <2>3, WorkerKeeps DEF Busy, Producing
<1>6. CASE row' = row /\ Strands(Items)
  <2>1. stranded' \subseteq Items /\ \A i \in Items : St(i) = "running" => i \in stranded'
    BY <1>6 DEF Strands
  <2>2. RunningHasWorker' /\ row' \in [Items -> RowRec]
    BY <1>1, <1>6, <2>1 DEF RunningHasWorker, St
  <2> QED BY <1>3, <1>4, <1>6, <2>1, <2>2, WorkerKeeps DEF Busy, Producing
<1> QED BY <1>5, <1>6 DEF Start, StartWorker
-----------------------------------------------------------------------------
(* Steps that change attempts, files or packages.                          *)

PackageRec == [there : {TRUE}, link : Link, state : Version]

\* The rest of the types, beside those that Typed gives.
LEMMA TypedNext ==
  ASSUME row' \in [Items -> RowRec], worker' \in WorkerRec,
         request' \in [Clients -> RequestRec], nextRun' \in Nat \ {0},
         attempts' \in [Runs -> Attempt \cup {NoAttempt}],
         selected' \in [HuntJobs -> [ver : Runs \cup {0}, pdf : Pdfs]],
         ready' \subseteq HuntJobs,
         disk' \subseteq [pdf : Pdfs, doc : Contents], pending' \subseteq Runs,
         package' \in [Dirs -> Package], lock' \in [Dirs -> Compilers \cup {Free}],
         compiler' \in [Compilers -> CompilerRec], crashes' \in 0..MaxCrashes,
         stranded' \subseteq Items, cleared' \subseteq Runs
  PROVE  TypeOK'
BY DEF TypeOK, QueueTypeOK, SelectionTypeOK, ReviewTypeOK, RowRec, WorkerRec, RequestRec,
       CompilerRec

LEMMA TypedRest ==
  ASSUME TypeOK
  PROVE  /\ ready \subseteq HuntJobs /\ lock \in [Dirs -> Compilers \cup {Free}]
         /\ crashes \in 0..MaxCrashes
BY DEF TypeOK, SelectionTypeOK, ReviewTypeOK

LEMMA Packages ==
  ASSUME TypeOK
  PROVE  \A d \in Dirs : There(d) => package[d] \in PackageRec
<1>1. \A d \in Dirs : package[d] \in PackageRec \cup {NoPackage}
  BY Typed DEF Package, PackageRec
<1>2. NoPackage.there = FALSE
  BY DEF NoPackage
<1> QED BY <1>1, <1>2 DEF There

\* A file goes only with a run that was to be removed.
FilesStay == \A f \in disk : f \in disk' \/ OfRun(f.pdf) \in cleared'

LEMMA PublishedStays ==
  ASSUME IInv, cleared \subseteq cleared', FilesStay,
         NEW k \in CompilerRec, Published(k)
  PROVE  Published(k)'
<1>1. OfRun(k.dir) \in Runs /\ k.dir \in Dirs /\ k.rev \in Revisions
  BY DirPaths DEF CompilerRec, Published
<1>2. OfRun(Revision(k.dir, k.rev)) = OfRun(k.dir)
  BY <1>1, Numbers, RevisionPaths
<1> DEFINE f == [pdf |-> Revision(k.dir, k.rev), doc |-> k.snapshot.doc]
<1>3. f \in disk' \/ OfRun(k.dir) \in cleared'
  <2>1. CASE f \in disk
    <3>1. f.pdf = Revision(k.dir, k.rev)
      OBVIOUS
    <3> HIDE DEF f
    <3> QED BY <1>2, <2>1, <3>1 DEF FilesStay
  <2>2. CASE OfRun(k.dir) \in cleared
    BY <2>2
  <2> QED BY <2>1, <2>2 DEF Published
<1> QED BY <1>1, <1>3 DEF Published

LEMMA CompilersRest ==
  ASSUME IInv, nextRun' \in Nat, nextRun <= nextRun', cleared \subseteq cleared', FilesStay,
         UNCHANGED compiler
  PROVE  CompilerInv'
<1>1. compiler \in [Compilers -> CompilerRec]
  BY Typed DEF IInv
<1>2. \A c \in Compilers : /\ compiler[c].pc # "idle" => OfRun(compiler[c].dir) < nextRun
                           /\ compiler[c].pc \in {"promoted", "written"} =>
                                Published(compiler[c])
  BY DEF IInv, CompilerInv
<1>3. ASSUME NEW c \in Compilers, compiler'[c].pc \in {"promoted", "written"}
      PROVE  Published(compiler[c])'
  <2>1. PICK k \in CompilerRec : k = compiler[c] /\ Published(k)
    BY <1>1, <1>2, <1>3
  <2>2. Published(k)'
    BY <2>1, PublishedStays
  <2> QED BY <2>1, <2>2
<1>4. ASSUME NEW c \in Compilers, compiler'[c].pc # "idle"
      PROVE  OfRun(compiler'[c].dir) < nextRun'
  <2>1. OfRun(compiler[c].dir) \in Nat /\ nextRun \in Nat
    BY <1>1, DirPaths, Numbers, Typed DEF CompilerRec, IInv
  <2> QED BY <1>2, <1>4, <2>1
<1> QED BY <1>3, <1>4 DEF CompilerInv

LEMMA NoAttempts ==
  /\ NoAttempt \in Attempt \cup {NoAttempt} /\ NoAttempt.job = NoJob
  /\ NoSelection \in [ver : Runs \cup {0}, pdf : Pdfs] /\ NoSelection.ver = 0
BY PdfPaths DEF NoAttempt, NoSelection

LEMMA ClearKeeps ==
  ASSUME IInv, NEW c \in Clients, NEW adHocToo \in BOOLEAN, Clear(c, adHocToo),
         cleared' = cleared \cup pending', UNCHANGED <<review, crashes, stranded>>
  PROVE  IInv'
<1> DEFINE old == {i \in Items : St(i) \notin Absent /\ (adHocToo \/ row[i].job # NoJob)}
           reviews == {row[i].review : i \in old} \ {0}
<1>1. /\ row \in [Items -> RowRec] /\ request \in [Clients -> RequestRec]
      /\ request[c] \in RequestRec
  BY Typed DEF IInv
<1>2. /\ row' = [i \in Items |-> IF i \in old THEN NoRow("gone") ELSE row[i]]
      /\ ClearRecords(reviews)
      /\ request' = [request EXCEPT ![c].op = "cleanup"]
      /\ UNCHANGED <<worker, nextRun>> /\ UNCHANGED <<ready, disk>>
      /\ UNCHANGED <<package, lock, compiler>> /\ UNCHANGED <<crashes, stranded>>
  BY DEF Clear, ClearRecords, review
<1>3. reviews \subseteq Runs /\ \A r \in reviews : \E i \in Items : row[i].review = r
  BY <1>1 DEF RowRec
<1> HIDE DEF reviews
<1>4. NoRow("gone") \in RowRec /\ NoRow("gone").st = "gone" /\ NoRow("gone").review = 0
  BY DEF NoRow, RowRec, Status, Jobs
<1>5. /\ row' \in [Items -> RowRec]
      /\ \A i \in Items : row'[i] = NoRow("gone") \/ row'[i] = row[i]
  BY <1>1, <1>2, <1>4
<1>6. RequestsOK'
  <2> DEFINE q == [request[c] EXCEPT !.op = "cleanup"]
  <2>1. request' = [request EXCEPT ![c] = q]
    BY <1>1, <1>2
  <2>2. q \in RequestRec /\ q.op # "cancel"
    <3>1. \A x \in RequestRec : [x EXCEPT !.op = "cleanup"].op = "cleanup"
      BY DEF RequestRec
    <3> QED BY <1>1, <3>1, Replies
  <2> HIDE DEF q
  <2> QED BY <2>1, <2>2, Asked
<1>7. QueueInv'
  BY <1>2, <1>4, <1>5, <1>6 DEF IInv, QueueInv, RequestsOK, Busy, RunningHasWorker, St
<1>8. /\ attempts' = [r \in Runs |-> NoAttempt]
      /\ selected' = [j \in HuntJobs |-> NoSelection]
      /\ pending' = pending \cup {r \in Runs : Exists(r)} \cup reviews
  BY <1>2 DEF ClearRecords
<1>9. TypeOK'
  <2>1. attempts' \in [Runs -> Attempt \cup {NoAttempt}]
    BY <1>8, NoAttempts
  <2>2. selected' \in [HuntJobs -> [ver : Runs \cup {0}, pdf : Pdfs]]
    BY <1>8, NoAttempts
  <2>3. pending' \subseteq Runs
    BY <1>3, <1>8, Typed DEF IInv
  <2>4. request' \in [Clients -> RequestRec]
    BY <1>6 DEF RequestsOK
  <2>5. cleared' \subseteq Runs
    BY <2>3, Typed DEF IInv
  <2> QED BY <1>2, <1>5, <2>1, <2>2, <2>3, <2>4, <2>5, Typed, TypedRest, TypedNext DEF IInv
<1>10. RunInv'
  <2>1. \A r \in Runs : attempts'[r].job = NoJob
    BY <1>8, NoAttempts
  <2>2. \A i \in Items : row'[i].review \in {0, row[i].review}
    BY <1>4, <1>5
  <2>3. pending' \subseteq cleared' /\ \A r \in cleared' : r < nextRun
    BY <1>3, <1>8 DEF IInv, RunInv
  <2>4. worker.run < nextRun /\ \A i \in Items : row'[i].review < nextRun
    <3>1. nextRun \in Nat \ {0}
      BY Typed DEF IInv
    <3> QED BY <2>2, <3>1 DEF IInv, RunInv
  <2>5. Producing => /\ worker.run \in Runs /\ worker.run \notin cleared'
                     /\ \A i \in Items : row'[i].review # worker.run
    BY <1>3, <1>8, <2>2, Numbers DEF IInv, RunInv
  <2>6. /\ \A f \in disk' : OfRun(f.pdf) < nextRun
        /\ \A d \in Dirs : There(d)' => OfRun(d) < nextRun
        /\ worker.pc = "loaded" => worker.job \in HuntJobs
    BY <1>2 DEF IInv, RunInv, There
  <2> QED BY <1>2, <2>1, <2>3, <2>4, <2>5, <2>6 DEF RunInv, Exists, Producing
<1>11. DiskInv' /\ PackageInv'
  BY <1>2 DEF IInv, DiskInv, PackageInv, PublishedIsCurrent, There
<1>12. CompilerInv'
  <2>1. FilesStay /\ nextRun \in Nat /\ nextRun' = nextRun
    BY <1>2, Typed DEF FilesStay, IInv
  <2> QED BY <1>2, <2>1, CompilersRest
<1>13. SelectedIsServable'
  BY <1>8, NoAttempts DEF SelectedIsServable
<1> QED BY <1>7, <1>9, <1>10, <1>11, <1>12, <1>13 DEF IInv

\* Files and packages that go, of runs that were to be removed.
LEMMA RemovalKeeps ==
  ASSUME IInv, RequestsOK', UNCHANGED <<row, worker, nextRun>>, UNCHANGED history,
         UNCHANGED <<attempts, selected, ready>>, UNCHANGED compiler,
         disk' \subseteq disk, \A f \in disk : OfRun(f.pdf) \notin cleared => f \in disk',
         pending' \subseteq pending, lock' \in [Dirs -> Compilers \cup {Free}],
         package' \in [Dirs -> Package],
         \A d \in Dirs : There(d)' => There(d) /\ package'[d] = package[d]
  PROVE  IInv'
<1>1. UNCHANGED <<crashes, stranded, cleared>>
  BY DEF history
<1>2. QueueInv'
  BY <1>1 DEF IInv, QueueInv, RequestsOK, Busy, RunningHasWorker, St
<1>3. TypeOK'
  <2>1. disk' \subseteq [pdf : Pdfs, doc : Contents] /\ pending' \subseteq Runs
    BY Typed DEF IInv
  <2>2. request' \in [Clients -> RequestRec]
    BY DEF RequestsOK
  <2> QED BY <1>1, <2>1, <2>2, Typed, TypedRest, TypedNext DEF IInv
<1>4. RunInv'
  <2>1. \A r \in Runs : Exists(r)' => r < nextRun /\ OfRun(attempts[r].pdf) = r /\ r \notin cleared
    BY DEF IInv, RunInv, Exists
  <2>2. Producing => /\ worker.run \in Runs /\ attempts[worker.run].job = NoJob
                     /\ worker.run \notin cleared
                     /\ \A i \in Items : row[i].review # worker.run
    BY DEF IInv, RunInv, Exists
  <2>3. /\ \A f \in disk' : OfRun(f.pdf) < nextRun
        /\ \A d \in Dirs : There(d)' => OfRun(d) < nextRun
        /\ pending' \subseteq cleared /\ \A r \in cleared : r < nextRun
    BY DEF IInv, RunInv
  <2>4. /\ worker.run < nextRun /\ \A i \in Items : row[i].review < nextRun
        /\ worker.pc = "loaded" => worker.job \in HuntJobs
    BY DEF IInv, RunInv
  <2> QED BY <1>1, <2>1, <2>2, <2>3, <2>4 DEF RunInv, Exists, Producing
<1>5. DiskInv'
  BY DEF IInv, DiskInv
<1>6. CompilerInv'
  <2>1. FilesStay
    BY <1>1 DEF FilesStay
  <2>2. nextRun \in Nat /\ nextRun' = nextRun
    BY Typed DEF IInv
  <2> QED BY <1>1, <2>1, <2>2, CompilersRest
<1>7. PackageInv'
  <2> SUFFICES ASSUME NEW d \in Dirs, There(d)'
               PROVE  LET s == package'[d].state IN
                      /\ s.revDoc <= s.docRev
                      /\ s.rev > 0 /\ OfRun(d) \notin cleared =>
                         /\ s.dirty <=> s.revDoc # s.docRev
                         /\ ~s.dirty => \E f \in disk' : f.pdf = Revision(d, s.rev) /\ f.doc = s.doc
    BY <1>1 DEF PackageInv, PublishedIsCurrent
  <2>1. There(d) /\ package'[d] = package[d]
    OBVIOUS
  <2> DEFINE s == package[d].state
  <2>2. /\ s.revDoc <= s.docRev
        /\ s.rev > 0 /\ OfRun(d) \notin cleared =>
           /\ s.dirty <=> s.revDoc # s.docRev
           /\ ~s.dirty => \E f \in disk : f.pdf = Revision(d, s.rev) /\ f.doc = s.doc
    BY <2>1 DEF IInv, PackageInv, PublishedIsCurrent
  <2>3. s.rev \in Nat
    <3>1. package[d] \in PackageRec
      BY <2>1, Packages DEF IInv
    <3> QED BY <3>1, Numbers DEF PackageRec, Version
  <2>4. OfRun(Revision(d, s.rev)) = OfRun(d)
    BY <2>3, RevisionPaths
  <2>5. OfRun(d) \notin cleared => \A f \in disk : f.pdf = Revision(d, s.rev) => f \in disk'
    BY <2>4
  <2> QED BY <2>1, <2>2, <2>5
<1>8. SelectedIsServable'
  <2>1. \A a \in Runs : Exists(a) => OfRun(attempts[a].pdf) \notin cleared
    BY DEF IInv, RunInv
  <2>2. ASSUME NEW j \in HuntJobs, selected[j].ver # 0
        PROVE  \E f \in disk' : f.pdf = selected[j].pdf /\ f.doc \in OnePage
    <3> DEFINE v == selected[j].ver
    <3>1. v \in Runs /\ attempts[v].job = j /\ attempts[v].pdf = selected[j].pdf
      BY <2>2, Typed DEF IInv, SelectedIsServable
    <3>2. OfRun(selected[j].pdf) \notin cleared
      BY <2>1, <3>1, SelectionAssumption DEF Exists
    <3> QED BY <2>2, <3>2 DEF IInv, SelectedIsServable
  <2> QED BY <2>2 DEF IInv, SelectedIsServable
<1> QED BY <1>2, <1>3, <1>4, <1>5, <1>6, <1>7, <1>8 DEF IInv

LEMMA Gone ==
  ASSUME IInv
  PROVE  /\ package \in [Dirs -> Package] /\ NoPackage \in Package /\ NoPackage.there = FALSE
         /\ lock \in [Dirs -> Compilers \cup {Free}] /\ pending \subseteq cleared
         /\ RequestsOK
BY Typed, TypedRest DEF IInv, Package, NoPackage, RunInv, RequestsOK, QueueInv

LEMMA CleanupKeeps ==
  ASSUME IInv, NEW c \in Clients, NEW removed \in SUBSET pending,
         Cleanup(c, removed), ReviewRemoved(removed), UNCHANGED history
  PROVE  IInv'
<1>1. /\ request' = [request EXCEPT ![c] = Done] /\ UNCHANGED <<row, worker, nextRun>>
      /\ disk' = {f \in disk : OfRun(f.pdf) \notin removed} /\ pending' = pending \ removed
      /\ UNCHANGED <<attempts, selected, ready>> /\ UNCHANGED compiler
      /\ lock' = [d \in Dirs |-> IF OfRun(d) \in removed THEN Free ELSE lock[d]]
      /\ package' = [d \in Dirs |-> IF OfRun(d) \in removed THEN NoPackage ELSE package[d]]
  BY DEF Cleanup, RemoveDirs, WithoutRuns, ReviewRemoved
<1>2. RequestsOK'
  BY <1>1, Replies, Asked
<1>3. /\ lock' \in [Dirs -> Compilers \cup {Free}] /\ package' \in [Dirs -> Package]
      /\ \A d \in Dirs : There(d)' => There(d) /\ package'[d] = package[d]
  BY <1>1, Gone DEF There
<1>4. \A f \in disk : OfRun(f.pdf) \notin cleared => f \in disk'
  BY <1>1, Gone
<1> QED BY <1>1, <1>2, <1>3, <1>4, RemovalKeeps

LEMMA RemoveSomeKeeps ==
  ASSUME IInv, NEW c \in Clients, RemoveSome(c), NotReview
  PROVE  IInv'
<1>1. PICK r \in pending : RemovePdfs(r)
  BY DEF RemoveSome
<1>2. /\ disk' = {f \in disk : OfRun(f.pdf) # r}
      /\ UNCHANGED <<attempts, selected, ready>> /\ pending' = pending
      /\ UNCHANGED <<row, worker, nextRun>> /\ request' = request
      /\ UNCHANGED <<package, lock, compiler>> /\ UNCHANGED history
  BY <1>1 DEF RemovePdfs, WithoutRuns, RemoveSome, NotReview, queue, review
<1>3. RequestsOK' /\ \A f \in disk : OfRun(f.pdf) \notin cleared => f \in disk'
  BY <1>2, Gone DEF RequestsOK
<1> QED BY <1>2, <1>3, Gone, RemovalKeeps DEF There

LEMMA PackageRemovedKeeps ==
  ASSUME IInv, NEW d \in Dirs, PackageRemoved(d), UNCHANGED <<queue, history>>
  PROVE  IInv'
<1>1. /\ package' = [package EXCEPT ![d] = NoPackage] /\ lock' = [lock EXCEPT ![d] = Free]
      /\ UNCHANGED <<attempts, selected, ready, disk, pending>> /\ UNCHANGED compiler
      /\ UNCHANGED <<row, worker, nextRun>> /\ request' = request /\ UNCHANGED history
  BY DEF PackageRemoved, selection, queue
<1>2. RequestsOK'
  BY <1>1, Gone DEF RequestsOK
<1>3. /\ lock' \in [Dirs -> Compilers \cup {Free}] /\ package' \in [Dirs -> Package]
      /\ \A e \in Dirs : There(e)' => There(e) /\ package'[e] = package[e]
  BY <1>1, Gone DEF There
<1> QED BY <1>1, <1>2, <1>3, RemovalKeeps
LEMMA Freshes ==
  ASSUME NEW doc \in Contents, NEW link \in Link
  PROVE  LET p == Fresh(doc, link) IN
         /\ p \in PackageRec /\ p.state.rev = 0
         /\ p.state.revDoc = 0 /\ p.state.docRev = 0
BY DEF Fresh, PackageRec, Version

LEMMA PackageSets ==
  ASSUME IInv, NEW d \in Dirs, NEW p \in PackageRec, package' = [package EXCEPT ![d] = p]
  PROVE  /\ package' \in [Dirs -> Package] /\ package'[d] = p /\ There(d)'
         /\ \A e \in Dirs \ {d} : package'[e] = package[e] /\ (There(e)' <=> There(e))
<1>1. package \in [Dirs -> Package] /\ p \in Package
  BY Typed DEF IInv, Package, PackageRec
<1>2. package' \in [Dirs -> Package] /\ package'[d] = p
      /\ \A e \in Dirs \ {d} : package'[e] = package[e]
  BY <1>1
<1>3. p.there
  BY DEF PackageRec
<1> QED BY <1>2, <1>3 DEF There

\* What PackageInv asks of a package with this state in this directory.
Sound(d, s) ==
  /\ s.revDoc <= s.docRev
  /\ s.rev > 0 /\ OfRun(d) \notin cleared =>
     /\ s.dirty <=> s.revDoc # s.docRev
     /\ ~s.dirty => \E f \in disk : f.pdf = Revision(d, s.rev) /\ f.doc = s.doc

LEMMA PackagesSound == PackageInv <=> \A d \in Dirs : There(d) => Sound(d, package[d].state)
BY DEF PackageInv, PublishedIsCurrent, Sound

LEMMA PackagesRest ==
  ASSUME IInv, disk \subseteq disk', cleared' = cleared, NEW d \in Dirs, NEW p \in PackageRec,
         package' = [package EXCEPT ![d] = p], Sound(d, p.state)'
  PROVE  PackageInv'
<1>1. /\ package'[d] = p
      /\ \A e \in Dirs \ {d} : package'[e] = package[e] /\ (There(e)' <=> There(e))
  BY PackageSets
<1>2. ASSUME NEW e \in Dirs \ {d}, There(e) PROVE Sound(e, package[e].state)'
  <2>1. Sound(e, package[e].state)
    BY <1>2, PackagesSound DEF IInv
  <2> QED BY <1>1, <2>1 DEF Sound
<1>3. ASSUME NEW e \in Dirs, There(e)' PROVE Sound(e, package[e].state)'
  <2>1. CASE e = d
    BY <1>1, <2>1 DEF Sound
  <2>2. CASE e # d
    BY <1>1, <1>2, <1>3, <2>2
  <2> QED BY <2>1, <2>2
<1>4. PackageInv' <=> \A e \in Dirs : There(e)' => Sound(e, package[e].state)'
  BY PackagesSound DEF PackageInv, PublishedIsCurrent, Sound
<1> QED BY <1>3, <1>4

LEMMA PrepareKeeps ==
  ASSUME IInv, Prepare
  PROVE  IInv'
<1> DEFINE r == nextRun
<1>1. PICK out \in {"broken", "compiled"}, doc \in Contents :
        /\ Produce(out, doc)
        /\ package' = [package EXCEPT ![Output(r)] = Fresh(doc, Unlinked)]
        /\ UNCHANGED <<lock, compiler>> /\ UNCHANGED <<crashes, stranded, cleared>>
  BY DEF Prepare, history
<1>2. /\ r \in Runs /\ r \in Nat /\ nextRun' = r + 1 /\ worker.pc = "preparing"
      /\ worker' = [worker EXCEPT !.pc = "produced", !.run = r,
                      !.end = IF out = "compiled" THEN "succeeded" ELSE "failed"]
      /\ UNCHANGED <<row, request, attempts, selected, ready, pending>>
  BY <1>1, Numbers DEF Produce
<1> DEFINE f == [pdf |-> Output(r), doc |-> doc]
<1>3. /\ f \in [pdf : Pdfs, doc : Contents] /\ f.pdf = Output(r) /\ OfRun(f.pdf) = r
      /\ Output(r) \in Dirs /\ OfRun(Output(r)) = r
  BY <1>2, PdfPaths
<1>4. disk' \subseteq disk \cup {f} /\ disk \subseteq disk'
  BY <1>1 DEF Produce
<1> HIDE DEF f
<1>5. PICK p \in PackageRec : /\ p = Fresh(doc, Unlinked) /\ p.state.rev = 0
                              /\ p.state.revDoc = 0 /\ p.state.docRev = 0
  <2>1. Unlinked \in Link
    BY DEF Unlinked, Link
  <2> QED BY <2>1, Freshes
<1>6. package' = [package EXCEPT ![Output(r)] = p]
  BY <1>1, <1>5
<1>7. /\ package' \in [Dirs -> Package]
      /\ \A e \in Dirs : There(e)' => e = Output(r) \/ There(e)
  BY <1>3, <1>5, <1>6, PackageSets
<1>8. /\ worker \in WorkerRec /\ worker.item \in Items
      /\ \A k \in Items : St(k) = "running" => k = worker.item \/ k \in stranded
  BY <1>2, Holds
<1>9. worker' \in WorkerRec /\ worker'.pc = "produced" /\ worker'.item = worker.item
      /\ worker'.run = r
  <2> DEFINE end == IF out = "compiled" THEN "succeeded" ELSE "failed"
  <2>1. end \in {"succeeded", "failed"}
    OBVIOUS
  <2> HIDE DEF end
  <2>2. \A w \in WorkerRec : LET v == [w EXCEPT !.pc = "produced", !.run = r, !.end = end] IN
          v \in WorkerRec /\ v.pc = "produced" /\ v.item = w.item /\ v.run = r
    BY <1>2, <2>1 DEF WorkerRec, WorkerPc
  <2>3. worker' = [worker EXCEPT !.pc = "produced", !.run = r, !.end = end]
    BY <1>2 DEF end
  <2> QED BY <1>8, <2>2, <2>3
<1>10. QueueInv'
  BY <1>1, <1>2, <1>8, <1>9 DEF IInv, QueueInv, Busy, RunningHasWorker, St
<1>11. TypeOK'
  <2>1. disk' \subseteq [pdf : Pdfs, doc : Contents]
    BY <1>3, <1>4, Typed DEF IInv
  <2>2. nextRun' \in Nat \ {0}
    BY <1>2
  <2> QED BY <1>1, <1>2, <1>7, <1>9, <2>1, <2>2, Typed, TypedRest, TypedNext DEF IInv
<1>12. RunInv'
  <2>1. \A k \in Runs : Exists(k) => k < r + 1 /\ OfRun(attempts[k].pdf) = k /\ k \notin cleared
    BY <1>2, Numbers DEF IInv, RunInv
  <2>2. ~Exists(r) /\ r \notin cleared /\ \A i \in Items : row[i].review # r
    BY <1>2 DEF IInv, RunInv
  <2>3. r < r + 1 /\ \A i \in Items : row[i].review < r + 1
    <3>1. \A i \in Items : row[i].review \in Runs \cup {0}
      BY Typed DEF IInv, RowRec
    <3>2. \A i \in Items : row[i].review \in Nat /\ row[i].review < r
      BY <3>1, Numbers DEF IInv, RunInv
    <3> QED BY <1>2, <3>2
  <2>4. pending \subseteq cleared /\ \A k \in cleared : k < r + 1
    BY <1>2, Numbers, Typed DEF IInv, RunInv
  <2>5. \A g \in disk' : OfRun(g.pdf) < r + 1
    <3>1. \A g \in disk : OfRun(g.pdf) \in Nat /\ OfRun(g.pdf) < r
      BY Typed, PdfPaths, Numbers DEF IInv, RunInv
    <3> QED BY <1>2, <1>3, <1>4, <3>1
  <2>6. \A d \in Dirs : There(d)' => OfRun(d) < r + 1
    <3>1. \A d \in Dirs : OfRun(d) \in Nat /\ (There(d) => OfRun(d) < r)
      BY DirPaths, Numbers DEF IInv, RunInv
    <3> QED BY <1>2, <1>3, <1>7, <3>1
  <2> QED BY <1>1, <1>2, <1>9, <2>1, <2>2, <2>3, <2>4, <2>5, <2>6 DEF RunInv, Exists
<1>13. DiskInv'
  BY <1>3, <1>4, <1>2 DEF IInv, DiskInv, RunInv
<1>14. CompilerInv'
  <2>1. FilesStay
    BY <1>4 DEF FilesStay
  <2>2. nextRun' \in Nat /\ nextRun <= nextRun'
    BY <1>2
  <2> QED BY <1>1, <2>1, <2>2, CompilersRest
<1>15. PackageInv'
  <2>1. PICK d \in Dirs : d = Output(r)
    BY <1>3
  <2>2. Sound(d, p.state)'
    BY <1>5 DEF Sound
  <2> QED BY <1>1, <1>4, <1>6, <2>1, <2>2, PackagesRest
<1>16. SelectedIsServable'
  BY <1>2, <1>4 DEF IInv, SelectedIsServable
<1> QED BY <1>10, <1>11, <1>12, <1>13, <1>14, <1>15, <1>16 DEF IInv

LEMMA RecordKeeps ==
  ASSUME IInv, Record, NotReview
  PROVE  IInv'
<1> DEFINE r == worker.run
           j == worker.job
           useful == \E f \in disk : f.pdf = Output(r) /\ f.doc \in OnePage
           pick == useful /\ worker.isReady
<1>1. /\ worker.pc = "loaded" /\ WorkerEnds /\ RecordAttempt(r, j, useful, worker.isReady)
      /\ UNCHANGED <<row, request, nextRun>> /\ UNCHANGED <<ready, disk, pending>>
      /\ UNCHANGED <<package, lock, compiler>> /\ UNCHANGED <<crashes, stranded, cleared>>
  BY DEF Record, RecordAttempt, NotReview, review, history
<1>2. /\ worker \in WorkerRec /\ worker.item \in Items
      /\ \A k \in Items : St(k) = "running" => k = worker.item \/ k \in stranded
  BY <1>1, Holds
<1>3. r \in Runs /\ ~Exists(r) /\ r \notin cleared /\ j \in HuntJobs /\ r < nextRun
  BY <1>1 DEF IInv, RunInv, Producing
<1>4. j # NoJob /\ useful \in BOOLEAN /\ pick \in BOOLEAN
  BY <1>3, SelectionAssumption
<1> DEFINE new == [job |-> j, useful |-> useful, flagged |-> pick, pdf |-> Output(r)]
<1>5. /\ new \in Attempt /\ new.job = j /\ new.pdf = Output(r) /\ OfRun(Output(r)) = r
      /\ (new.useful <=> useful) /\ (new.flagged <=> pick)
  <2>1. Output(r) \in Pdfs /\ OfRun(Output(r)) = r
    BY <1>3, PdfPaths
  <2> HIDE DEF useful, pick
  <2> QED BY <1>3, <1>4, <2>1 DEF Attempt
<1>6. /\ attempts' = [a \in Runs |->
            IF a = r THEN new
            ELSE IF attempts[a].job = j THEN [attempts[a] EXCEPT !.flagged = FALSE]
            ELSE attempts[a]]
      /\ selected' = [selected EXCEPT ![j] = IF pick THEN [ver |-> r, pdf |-> Output(r)]
                                             ELSE NoSelection]
  BY <1>1 DEF RecordAttempt
<1> HIDE DEF useful, pick, new
<1>7. \A x \in Attempt : LET y == [x EXCEPT !.flagged = FALSE] IN
        y \in Attempt /\ y.job = x.job /\ y.pdf = x.pdf /\ ~y.flagged
  BY DEF Attempt
<1>8. \A a \in Runs : attempts[a].job = j => attempts[a] \in Attempt
  BY <1>4, Typed, NoAttempts DEF IInv
<1>9. /\ attempts'[r] = new
      /\ \A a \in Runs \ {r} :
           /\ attempts'[a].job = attempts[a].job /\ attempts'[a].pdf = attempts[a].pdf
           /\ attempts[a].job # j => attempts'[a] = attempts[a]
           /\ attempts[a].job = j => attempts'[a] \in Attempt /\ ~attempts'[a].flagged
  BY <1>3, <1>6, <1>7, <1>8
<1>10. attempts' \in [Runs -> Attempt \cup {NoAttempt}]
  BY <1>5, <1>6, <1>9, Typed DEF IInv
<1> DEFINE choice == IF pick THEN [ver |-> r, pdf |-> Output(r)] ELSE NoSelection
<1>11. /\ choice \in [ver : Runs \cup {0}, pdf : Pdfs]
       /\ pick => choice.ver = r /\ choice.pdf = Output(r)
       /\ ~pick => choice.ver = 0
  BY <1>3, NoAttempts, PdfPaths
<1> HIDE DEF choice
<1>12. /\ selected' \in [HuntJobs -> [ver : Runs \cup {0}, pdf : Pdfs]]
       /\ selected'[j] = choice /\ \A k \in HuntJobs \ {j} : selected'[k] = selected[k]
  <2>1. selected' = [selected EXCEPT ![j] = choice]
    BY <1>6 DEF choice
  <2> QED BY <1>3, <1>11, <2>1, Typed DEF IInv
<1>13. worker' \in WorkerRec /\ worker'.pc = "ending" /\ worker'.item = worker.item
       /\ worker'.run = r
  BY <1>1, <1>2, WorkerForms DEF WorkerEnds
<1>14. TypeOK'
  BY <1>1, <1>10, <1>12, <1>13, Typed, TypedRest, TypedNext DEF IInv
<1>15. QueueInv'
  BY <1>1, <1>2, <1>13 DEF IInv, QueueInv, Busy, RunningHasWorker, St
<1>16. RunInv'
  <2>1. \A a \in Runs : Exists(a)' => /\ a < nextRun /\ OfRun(attempts'[a].pdf) = a
                                      /\ a \notin cleared
    BY <1>3, <1>5, <1>9 DEF IInv, RunInv, Exists
  <2>2. /\ \A f \in disk : OfRun(f.pdf) < nextRun
        /\ \A d \in Dirs : There(d)' => OfRun(d) < nextRun
        /\ pending \subseteq cleared /\ \A a \in cleared : a < nextRun
        /\ \A i \in Items : row[i].review < nextRun
    BY <1>1 DEF IInv, RunInv, There
  <2> QED BY <1>1, <1>3, <1>13, <2>1, <2>2 DEF RunInv, Exists, Producing
<1>17. DiskInv' /\ PackageInv' /\ CompilerInv'
  BY <1>1 DEF IInv, DiskInv, PackageInv, PublishedIsCurrent, There, CompilerInv, Published
<1>18. SelectedIsServable'
  <2> SUFFICES ASSUME NEW k \in HuntJobs, selected'[k].ver # 0
               PROVE  LET v == selected'[k].ver IN
                      /\ attempts'[v].job = k /\ attempts'[v].useful /\ attempts'[v].flagged
                      /\ attempts'[v].pdf = selected'[k].pdf
                      /\ \E f \in disk' : f.pdf = selected'[k].pdf /\ f.doc \in OnePage
                      /\ \A a \in Runs : attempts'[a].job = k /\ attempts'[a].flagged => a = v
    BY DEF SelectedIsServable
  <2>1. CASE k = j
    <3>1. pick /\ selected'[k].ver = r /\ selected'[k].pdf = Output(r) /\ useful
      BY <1>11, <1>12, <2>1 DEF pick
    <3>2. \E f \in disk' : f.pdf = Output(r) /\ f.doc \in OnePage
      BY <1>1, <3>1 DEF useful
    <3>3. \A a \in Runs : attempts'[a].job = k /\ attempts'[a].flagged => a = r
      BY <1>9, <2>1
    <3> QED BY <1>5, <1>9, <2>1, <3>1, <3>2, <3>3
  <2>2. CASE k # j
    <3> DEFINE v == selected[k].ver
    <3>1. selected'[k] = selected[k] /\ v \in Runs
      BY <1>12, <2>2, Typed DEF IInv
    <3>2. /\ attempts[v].job = k /\ attempts[v].useful /\ attempts[v].flagged
          /\ attempts[v].pdf = selected[k].pdf
          /\ \E f \in disk : f.pdf = selected[k].pdf /\ f.doc \in OnePage
          /\ \A a \in Runs : attempts[a].job = k /\ attempts[a].flagged => a = v
      BY <3>1 DEF IInv, SelectedIsServable
    <3>3. v # r
      BY <1>3, <3>2, SelectionAssumption DEF Exists
    <3>4. attempts'[v] = attempts[v]
      BY <1>9, <2>2, <3>1, <3>2, <3>3
    <3>5. \A a \in Runs : attempts'[a].job = k => attempts'[a] = attempts[a]
      BY <1>5, <1>9, <2>2
    <3> QED BY <1>1, <3>1, <3>2, <3>4, <3>5
  <2> QED BY <2>1, <2>2
<1> QED BY <1>14, <1>15, <1>16, <1>17, <1>18 DEF IInv
-----------------------------------------------------------------------------
(* Reviews: saving, opening, compiling and publishing.                     *)

LEMMA PackageStep ==
  ASSUME IInv, UNCHANGED <<queue, selection, history>>, NEW d \in Dirs, NEW p \in PackageRec,
         package' = [package EXCEPT ![d] = p], OfRun(d) < nextRun, Sound(d, p.state)'
  PROVE  /\ QueueInv' /\ RunInv' /\ DiskInv' /\ PackageInv' /\ SelectedIsServable'
         /\ FilesStay /\ package' \in [Dirs -> Package]
<1>1. /\ UNCHANGED <<row, worker, request, nextRun>>
      /\ UNCHANGED <<attempts, selected, ready, disk, pending>>
      /\ UNCHANGED <<crashes, stranded, cleared>>
  BY DEF queue, selection, history
<1>2. /\ package' \in [Dirs -> Package]
      /\ \A e \in Dirs \ {d} : There(e)' <=> There(e)
  BY PackageSets
<1>3. \A e \in Dirs : There(e)' => OfRun(e) < nextRun
  BY <1>2 DEF IInv, RunInv
<1>4. QueueInv'
  BY <1>1 DEF IInv, QueueInv, Busy, RunningHasWorker, St
<1>5. RunInv'
  BY <1>1, <1>3 DEF IInv, RunInv, Exists, Producing
<1>6. DiskInv' /\ SelectedIsServable'
  BY <1>1 DEF IInv, DiskInv, SelectedIsServable
<1>7. PackageInv'
  BY <1>1, PackagesRest
<1>8. FilesStay
  BY <1>1 DEF FilesStay
<1> QED BY <1>2, <1>4, <1>5, <1>6, <1>7, <1>8

LEMMA OneCompiler ==
  ASSUME IInv, UNCHANGED nextRun, cleared \subseteq cleared', FilesStay,
         NEW c \in Compilers, NEW k \in CompilerRec, compiler' = [compiler EXCEPT ![c] = k],
         k.pc # "idle" => OfRun(k.dir) < nextRun,
         k.pc \in {"promoted", "written"} => Published(k)'
  PROVE  CompilerInv' /\ compiler' \in [Compilers -> CompilerRec]
<1>1. compiler \in [Compilers -> CompilerRec]
  BY Typed DEF IInv
<1>2. /\ compiler' \in [Compilers -> CompilerRec] /\ compiler'[c] = k
      /\ \A b \in Compilers \ {c} : compiler'[b] = compiler[b]
  BY <1>1
<1>3. ASSUME NEW b \in Compilers, compiler'[b].pc \in {"promoted", "written"}
      PROVE  Published(compiler[b])'
  <2>1. CASE b = c
    <3>1. compiler'[b] = k /\ Published(k)'
      BY <1>2, <1>3, <2>1
    <3> QED BY <3>1 DEF Published
  <2>2. CASE b # c
    <3>1. PICK q \in CompilerRec : q = compiler[b] /\ q = compiler'[b]
      BY <1>1, <1>2, <2>2
    <3>2. Published(q)
      BY <1>3, <3>1 DEF IInv, CompilerInv
    <3>3. Published(q)'
      BY <3>2, PublishedStays
    <3> QED BY <3>1, <3>3 DEF Published
  <2> QED BY <2>1, <2>2
<1>4. ASSUME NEW b \in Compilers, compiler'[b].pc # "idle"
      PROVE  OfRun(compiler'[b].dir) < nextRun'
  BY <1>2, <1>4 DEF IInv, CompilerInv
<1> QED BY <1>2, <1>3, <1>4 DEF CompilerInv

LEMMA SaveKeeps ==
  ASSUME IInv, NEW d \in Dirs, NEW doc \in Contents, Save(d, doc), UNCHANGED <<queue, history>>
  PROVE  IInv'
<1>1. /\ There(d) /\ UNCHANGED <<queue, selection, history>> /\ UNCHANGED <<lock, compiler>>
      /\ UNCHANGED <<row, worker, request, nextRun>>
      /\ UNCHANGED <<attempts, selected, ready, disk, pending>>
      /\ UNCHANGED <<crashes, stranded, cleared>>
  BY DEF Save, queue, selection, history
<1>2. package[d] \in PackageRec /\ package \in [Dirs -> Package]
  BY <1>1, Packages, Typed DEF IInv
<1> DEFINE s == package[d].state
           n == s.docRev + 1
           t == [s EXCEPT !.doc = doc, !.dirty = TRUE, !.docRev = n]
           p == [package[d] EXCEPT !.state = t]
<1>3. s \in Version /\ n \in Nat
  <2>1. s \in Version
    BY <1>2 DEF PackageRec
  <2> QED BY <2>1 DEF Version
<1>4. package' = [package EXCEPT ![d] = p]
  BY <1>2 DEF Save
<1> HIDE DEF n
<1>5. t \in Version /\ t.dirty = TRUE /\ t.revDoc = s.revDoc /\ t.docRev = n
  <2>1. \A x \in Version : LET y == [x EXCEPT !.doc = doc, !.dirty = TRUE, !.docRev = n] IN
          y \in Version /\ y.dirty = TRUE /\ y.revDoc = x.revDoc /\ y.docRev = n
    BY <1>3 DEF Version
  <2> QED BY <1>3, <2>1
<1> HIDE DEF t
<1>6. p \in PackageRec /\ p.state = t
  <2>1. \A x \in PackageRec : LET y == [x EXCEPT !.state = t] IN
          y \in PackageRec /\ y.state = t
    BY <1>5 DEF PackageRec
  <2> QED BY <1>2, <2>1
<1>7. s.docRev \in Nat /\ s.revDoc \in Nat /\ s.revDoc <= s.docRev
  BY <1>1, <1>3 DEF Version, IInv, PackageInv
<1>8. PICK q \in PackageRec : /\ package' = [package EXCEPT ![d] = q]
                              /\ q.state.dirty = TRUE /\ q.state.revDoc <= q.state.docRev
                              /\ q.state.revDoc # q.state.docRev
  <2>1. t.revDoc <= t.docRev /\ t.revDoc # t.docRev
    BY <1>5, <1>7 DEF n
  <2> HIDE DEF p
  <2> QED BY <1>4, <1>5, <1>6, <2>1
<1>9. Sound(d, q.state)'
  BY <1>8 DEF Sound
<1>10. /\ QueueInv' /\ RunInv' /\ DiskInv' /\ PackageInv' /\ SelectedIsServable'
       /\ FilesStay /\ package' \in [Dirs -> Package]
  <2>1. OfRun(d) < nextRun
    BY <1>1 DEF IInv, RunInv
  <2> QED BY <1>1, <1>8, <1>9, <2>1, PackageStep
<1>11. CompilerInv'
  BY <1>1, <1>10, CompilersRest, Typed DEF IInv
<1>12. TypeOK'
  BY <1>1, <1>10, Typed, TypedRest, TypedNext DEF IInv
<1> QED BY <1>10, <1>11, <1>12 DEF IInv

\* A compile that ends without a publication, or is done with one.
LEMMA IdleCompilers ==
  IdleCompiler \in CompilerRec /\ IdleCompiler.pc = "idle"
<1>1. AnyVersion \in Version
  <2>1. PICK doc \in Contents : doc = CHOOSE c \in Contents : TRUE
    BY SelectionAssumption
  <2>2. Unlinked \in Link
    BY DEF Unlinked, Link
  <2>3. Fresh(doc, Unlinked) \in PackageRec
    BY <2>2, Freshes
  <2> QED BY <2>1, <2>3 DEF AnyVersion, PackageRec
<1> QED BY <1>1, PdfPaths DEF IdleCompiler, CompilerRec, CompilerPc, Unlinked, Link
LEMMA CompilerOnly ==
  ASSUME IInv, UNCHANGED <<queue, selection, package, history>>,
         NEW c \in Compilers, NEW k \in CompilerRec, compiler' = [compiler EXCEPT ![c] = k],
         k.pc # "idle" => OfRun(k.dir) < nextRun,
         k.pc \notin {"promoted", "written"}, lock' \in [Dirs -> Compilers \cup {Free}]
  PROVE  IInv'
<1>1. /\ UNCHANGED <<row, worker, request, nextRun>>
      /\ UNCHANGED <<attempts, selected, ready, disk, pending>>
      /\ UNCHANGED <<crashes, stranded, cleared>>
  BY DEF queue, selection, history
<1>2. FilesStay
  BY <1>1 DEF FilesStay
<1>3. CompilerInv' /\ compiler' \in [Compilers -> CompilerRec]
  BY <1>1, <1>2, OneCompiler
<1>4. TypeOK'
  BY <1>1, <1>3, Typed, TypedRest, TypedNext DEF IInv
<1>5. QueueInv' /\ RunInv'
  BY <1>1 DEF IInv, QueueInv, Busy, RunningHasWorker, St, RunInv, Exists, Producing, There
<1>6. DiskInv' /\ PackageInv' /\ SelectedIsServable'
  BY <1>1 DEF IInv, DiskInv, PackageInv, PublishedIsCurrent, There, SelectedIsServable
<1> QED BY <1>3, <1>4, <1>5, <1>6 DEF IInv

LEMMA Released ==
  ASSUME IInv, NEW c \in Compilers, Releases(c)
  PROVE  lock' \in [Dirs -> Compilers \cup {Free}]
BY TypedRest DEF IInv, Releases

LEMMA LockType ==
  ASSUME IInv, NEW d \in Dirs, NEW x \in Compilers \cup {Free}, lock' = [lock EXCEPT ![d] = x]
  PROVE  lock' \in [Dirs -> Compilers \cup {Free}]
BY TypedRest DEF IInv

\* An open reads a document of a run that was made, ...
LEMMA OpenReadsKeeps ==
  ASSUME IInv, NEW c \in Compilers, NEW j \in HuntJobs, OpenReads(c, j),
         UNCHANGED <<queue, history>>
  PROVE  IInv'
<1> DEFINE Opening(v, d, doc) == [IdleCompiler EXCEPT
             !.pc = "opening", !.dir = d, !.link = [job |-> j, attempt |-> v],
             !.snapshot = Fresh(doc, Unlinked).state]
<1>a. PICK v \in Runs : \E f \in disk :
        /\ attempts[v].pdf \in Dirs /\ f.pdf = attempts[v].pdf
        /\ compiler' = [compiler EXCEPT ![c] = Opening(v, attempts[v].pdf, f.doc)]
  BY DEF OpenReads
<1>b. PICK f \in disk :
        /\ attempts[v].pdf \in Dirs /\ f.pdf = attempts[v].pdf
        /\ compiler' = [compiler EXCEPT ![c] = Opening(v, attempts[v].pdf, f.doc)]
  BY <1>a
<1>1. /\ f.pdf \in Dirs
      /\ compiler' = [compiler EXCEPT ![c] = Opening(v, f.pdf, f.doc)]
  <2> HIDE DEF Opening
  <2> QED BY <1>b
<1>2. f.doc \in Contents /\ OfRun(f.pdf) < nextRun
  BY Typed DEF IInv, RunInv
<1> DEFINE l == [job |-> j, attempt |-> v]
           s == Fresh(f.doc, Unlinked).state
           k == [IdleCompiler EXCEPT !.pc = "opening", !.dir = f.pdf, !.link = l,
                                     !.snapshot = s]
<1>3. l \in Link /\ s \in Version
  <2>1. Unlinked \in Link /\ l \in Link
    BY DEF Unlinked, Link
  <2> QED BY <1>2, <2>1, Freshes DEF PackageRec
<1>4. k \in CompilerRec /\ k.pc = "opening" /\ k.dir = f.pdf
  <2> HIDE DEF l, s
  <2>1. \A x \in CompilerRec : LET y == [x EXCEPT !.pc = "opening", !.dir = f.pdf, !.link = l,
                                                  !.snapshot = s] IN
          y \in CompilerRec /\ y.pc = "opening" /\ y.dir = f.pdf
    BY <1>1, <1>3 DEF CompilerRec, CompilerPc
  <2> QED BY <2>1, IdleCompilers
<1>5. compiler' = [compiler EXCEPT ![c] = k] /\ UNCHANGED <<selection, package, lock>>
  BY <1>1 DEF OpenReads
<1> HIDE DEF k
<1> QED BY <1>2, <1>4, <1>5, TypedRest, CompilerOnly DEF IInv

\* ... and writes a package that was never compiled.
LEMMA OpenWritesKeeps ==
  ASSUME IInv, NEW c \in Compilers, OpenWrites(c), UNCHANGED <<queue, history>>
  PROVE  IInv'
<1>1. PICK k \in CompilerRec : k = compiler[c]
  BY Typed DEF IInv
<1>2. /\ k.pc = "opening" /\ compiler' = [compiler EXCEPT ![c] = IdleCompiler]
      /\ package' = [package EXCEPT ![k.dir] = Fresh(k.snapshot.doc, k.link)]
      /\ UNCHANGED <<queue, selection, history>> /\ UNCHANGED lock
      /\ UNCHANGED <<row, worker, request, nextRun>>
      /\ UNCHANGED <<attempts, selected, ready, disk, pending>>
      /\ UNCHANGED <<crashes, stranded, cleared>>
  BY <1>1 DEF OpenWrites, Idles, queue, selection, history
<1>3. k.dir \in Dirs /\ k.snapshot.doc \in Contents /\ k.link \in Link
  BY DEF CompilerRec, Version
<1>4. PICK d \in Dirs, p \in PackageRec :
        /\ d = k.dir /\ package' = [package EXCEPT ![d] = p]
        /\ p.state.rev = 0 /\ p.state.revDoc = 0 /\ p.state.docRev = 0
  BY <1>2, <1>3, Freshes
<1>5. Sound(d, p.state)'
  BY <1>4 DEF Sound
<1>6. OfRun(d) < nextRun
  BY <1>1, <1>2, <1>4 DEF IInv, CompilerInv
<1>7. /\ QueueInv' /\ RunInv' /\ DiskInv' /\ PackageInv' /\ SelectedIsServable'
      /\ FilesStay /\ package' \in [Dirs -> Package]
  BY <1>2, <1>4, <1>5, <1>6, PackageStep
<1>8. CompilerInv' /\ compiler' \in [Compilers -> CompilerRec]
  BY <1>2, <1>7, IdleCompilers, OneCompiler
<1>9. TypeOK'
  BY <1>2, <1>7, <1>8, Typed, TypedRest, TypedNext DEF IInv
<1> QED BY <1>7, <1>8, <1>9 DEF IInv

LEMMA QuietCompileKeeps ==
  ASSUME IInv, NEW c \in Compilers, UNCHANGED <<queue, history>>,
         (\E d \in Dirs : StartCompile(c, d)) \/ GiveUp(c) \/ WriteFails(c)
  PROVE  IInv'
<1>1. compiler[c] \in CompilerRec
  BY Typed DEF IInv
<1>2. CASE \E d \in Dirs : StartCompile(c, d)
  <2>1. PICK d \in Dirs : StartCompile(c, d)
    BY <1>2
  <2> DEFINE s == package[d].state
             k == [IdleCompiler EXCEPT !.pc = "compiling", !.dir = d, !.snapshot = s]
  <2>2. s \in Version
    BY <2>1, Packages DEF IInv, StartCompile, PackageRec
  <2>3. k \in CompilerRec /\ k.pc = "compiling"
    <3> HIDE DEF s
    <3>1. \A x \in CompilerRec : LET y == [x EXCEPT !.pc = "compiling", !.dir = d,
                                                    !.snapshot = s] IN
            y \in CompilerRec /\ y.pc = "compiling"
      BY <2>2 DEF CompilerRec, CompilerPc
    <3> QED BY <3>1, IdleCompilers
  <2>4. compiler' = [compiler EXCEPT ![c] = k] /\ UNCHANGED <<selection, package, lock>>
    BY <2>1 DEF StartCompile
  <2>5. OfRun(k.dir) < nextRun
    <3>1. k.dir = d
      BY DEF IdleCompiler
    <3> QED BY <2>1, <3>1 DEF StartCompile, IInv, RunInv
  <2> HIDE DEF k
  <2> QED BY <2>3, <2>4, <2>5, TypedRest, CompilerOnly DEF IInv
<1>3. CASE GiveUp(c)
  BY <1>3, IdleCompilers, TypedRest, CompilerOnly DEF GiveUp, Idles, IInv
<1>4. CASE WriteFails(c)
  <2>1. compiler[c].dir \in Dirs
    BY <1>1 DEF CompilerRec
  <2>2. lock' \in [Dirs -> Compilers \cup {Free}]
    BY <1>4, <2>1, Released DEF WriteFails
  <2> QED BY <1>4, <2>2, IdleCompilers, CompilerOnly DEF WriteFails, Releases, Idles
<1> QED BY <1>2, <1>3, <1>4

LEMMA CompileFailsKeeps ==
  ASSUME IInv, NEW c \in Compilers, CompileFails(c), UNCHANGED <<queue, history>>
  PROVE  IInv'
<1>1. PICK d \in Dirs : d = compiler[c].dir
  BY Typed DEF IInv, CompilerRec
<1>2. /\ There(d) /\ package' = [package EXCEPT ![d].state.status = "failed"]
      /\ compiler' = [compiler EXCEPT ![c] = IdleCompiler]
      /\ UNCHANGED <<queue, selection, history>> /\ UNCHANGED lock
      /\ UNCHANGED <<row, worker, request, nextRun>>
      /\ UNCHANGED <<attempts, selected, ready, disk, pending>>
      /\ UNCHANGED <<crashes, stranded, cleared>>
  BY <1>1 DEF CompileFails, Unchanged, Idles, queue, selection, history
<1>3. package[d] \in PackageRec /\ package \in [Dirs -> Package]
  BY <1>2, Packages, Typed DEF IInv
<1> DEFINE s == package[d].state
           t == [s EXCEPT !.status = "failed"]
           p == [package[d] EXCEPT !.state = t]
<1>4. s \in Version
  BY <1>3 DEF PackageRec
<1>5. t \in Version /\ t.doc = s.doc /\ t.dirty = s.dirty /\ t.rev = s.rev
      /\ t.revDoc = s.revDoc /\ t.docRev = s.docRev
  <2>1. \A x \in Version : LET y == [x EXCEPT !.status = "failed"] IN
          y \in Version /\ y.doc = x.doc /\ y.dirty = x.dirty /\ y.rev = x.rev
          /\ y.revDoc = x.revDoc /\ y.docRev = x.docRev
    BY DEF Version
  <2> QED BY <1>4, <2>1
<1>6. package' = [package EXCEPT ![d] = p]
  BY <1>2, <1>3
<1> HIDE DEF t
<1>7. p \in PackageRec /\ p.state = t
  <2>1. \A x \in PackageRec : LET y == [x EXCEPT !.state = t] IN
          y \in PackageRec /\ y.state = t
    BY <1>5 DEF PackageRec
  <2> QED BY <1>3, <2>1
<1> HIDE DEF p
<1>8. Sound(d, s)
  BY <1>2, PackagesSound DEF IInv
<1>9. PICK q \in PackageRec : package' = [package EXCEPT ![d] = q] /\ Sound(d, q.state)
  <2>1. Sound(d, t)
    BY <1>5, <1>8 DEF Sound
  <2> QED BY <1>6, <1>7, <2>1
<1>10. Sound(d, q.state)'
  BY <1>2, <1>9 DEF Sound
<1>11. /\ QueueInv' /\ RunInv' /\ DiskInv' /\ PackageInv' /\ SelectedIsServable'
       /\ FilesStay /\ package' \in [Dirs -> Package]
  <2>1. OfRun(d) < nextRun
    BY <1>2 DEF IInv, RunInv
  <2> QED BY <1>2, <1>9, <1>10, <2>1, PackageStep
<1>12. CompilerInv' /\ compiler' \in [Compilers -> CompilerRec]
  BY <1>2, <1>11, IdleCompilers, OneCompiler
<1>13. TypeOK'
  BY <1>2, <1>11, <1>12, Typed, TypedRest, TypedNext DEF IInv
<1> QED BY <1>11, <1>12, <1>13 DEF IInv
\* What Promote puts on disk: a path that nothing had.
LEMMA Promotes ==
  ASSUME IInv, NEW c \in Compilers, Promote(c)
  PROVE  \E d \in Dirs, n \in Revisions, doc \in Contents :
           /\ d = compiler[c].dir /\ There(d) /\ ~OnDisk(Revision(d, n))
           /\ Revision(d, n) \in Pdfs /\ OfRun(Revision(d, n)) = OfRun(d)
           /\ doc = package[d].state.doc
           /\ disk' = disk \cup {[pdf |-> Revision(d, n), doc |-> doc]}
           /\ lock' = [lock EXCEPT ![d] = c]
           /\ compiler' = [compiler EXCEPT ![c].pc = "promoted",
                             ![c].snapshot = package[d].state, ![c].rev = n,
                             ![c].link = package[d].link]
<1>1. PICK d \in Dirs : d = compiler[c].dir
  BY Typed DEF IInv, CompilerRec
<1>2. There(d) /\ package[d].state = compiler[c].snapshot
  BY <1>1 DEF Promote, Unchanged
<1>3. package[d].state \in Version /\ package[d].state.rev \in Nat
  <2>1. package[d].state \in Version
    BY <1>2, Packages DEF IInv, PackageRec
  <2> QED BY <2>1, Numbers DEF Version
<1>4. NextRevision(d) <= Limit(d)
  BY <1>1 DEF Promote
<1>5. PICK n \in Revisions : n = NextRevision(d) /\ ~OnDisk(Revision(d, n))
  BY <1>3, <1>4, Typed, NextRevisions DEF IInv
<1>6. Revision(d, n) \in Pdfs /\ OfRun(Revision(d, n)) = OfRun(d)
  BY PdfPaths, RevisionPaths, Numbers
<1>7. PICK doc \in Contents : doc = package[d].state.doc
  BY <1>3 DEF Version
<1>8. disk' = {f \in disk : f.pdf # Revision(d, n)} \cup {[pdf |-> Revision(d, n), doc |-> doc]}
  BY <1>1, <1>2, <1>5, <1>7 DEF Promote
<1>9. {f \in disk : f.pdf # Revision(d, n)} = disk
  BY <1>5 DEF OnDisk
<1>10. lock' = [lock EXCEPT ![d] = c]
  BY <1>1 DEF Promote
<1>11. compiler' = [compiler EXCEPT ![c].pc = "promoted", ![c].snapshot = package[d].state,
                                    ![c].rev = n, ![c].link = package[d].link]
  BY <1>1, <1>5 DEF Promote
<1> QED BY <1>1, <1>2, <1>5, <1>6, <1>7, <1>8, <1>9, <1>10, <1>11

LEMMA PromoteKeeps ==
  ASSUME IInv, NEW c \in Compilers, Promote(c), UNCHANGED <<queue, history>>
  PROVE  IInv'
<1>1. PICK d \in Dirs, n \in Revisions, doc \in Contents :
           /\ d = compiler[c].dir /\ There(d) /\ ~OnDisk(Revision(d, n))
           /\ Revision(d, n) \in Pdfs /\ OfRun(Revision(d, n)) = OfRun(d)
           /\ doc = package[d].state.doc
           /\ disk' = disk \cup {[pdf |-> Revision(d, n), doc |-> doc]}
           /\ lock' = [lock EXCEPT ![d] = c]
           /\ compiler' = [compiler EXCEPT ![c].pc = "promoted",
                             ![c].snapshot = package[d].state, ![c].rev = n,
                             ![c].link = package[d].link]
  BY Promotes
<1>2. /\ UNCHANGED <<row, worker, request, nextRun>>
      /\ UNCHANGED <<crashes, stranded, cleared>>
      /\ UNCHANGED <<attempts, selected, ready, pending, package>>
  BY DEF Promote, queue, history
<1>3. PICK f : /\ f = [pdf |-> Revision(d, n), doc |-> doc] /\ disk' = disk \cup {f}
               /\ f \in [pdf : Pdfs, doc : Contents]
               /\ f.pdf = Revision(d, n) /\ f.doc = doc /\ OfRun(f.pdf) = OfRun(d)
               /\ \A g \in disk : g.pdf # f.pdf
  <2> DEFINE f == [pdf |-> Revision(d, n), doc |-> doc]
  <2>1. f \in [pdf : Pdfs, doc : Contents] /\ f.pdf = Revision(d, n) /\ f.doc = doc
    BY <1>1
  <2>2. \A g \in disk : g.pdf # Revision(d, n)
    BY <1>1 DEF OnDisk
  <2>3. disk' = disk \cup {f}
    BY <1>1
  <2> HIDE DEF f
  <2>4. OfRun(f.pdf) = OfRun(d) /\ \A g \in disk : g.pdf # f.pdf
    BY <1>1, <2>1, <2>2
  <2>5. f = [pdf |-> Revision(d, n), doc |-> doc]
    BY DEF f
  <2> QED BY <2>1, <2>3, <2>4, <2>5
<1>4. OfRun(d) < nextRun
  BY <1>1 DEF IInv, RunInv
<1> DEFINE s == package[d].state
           k == [compiler[c] EXCEPT !.pc = "promoted", !.snapshot = s, !.rev = n,
                                    !.link = package[d].link]
<1>5. compiler \in [Compilers -> CompilerRec] /\ compiler[c] \in CompilerRec
  BY Typed DEF IInv
<1>6. s \in Version /\ package[d].link \in Link
  BY <1>1, Packages DEF IInv, PackageRec
<1>7. compiler' = [compiler EXCEPT ![c] = k]
  BY <1>1, <1>5
<1> HIDE DEF s
<1>8. k \in CompilerRec /\ k.pc = "promoted" /\ k.dir = d /\ k.rev = n /\ k.snapshot = s
  <2>1. PICK l \in Link : l = package[d].link
    BY <1>6
  <2>2. \A x \in CompilerRec : LET y == [x EXCEPT !.pc = "promoted", !.snapshot = s, !.rev = n,
                                                  !.link = l] IN
          y \in CompilerRec /\ y.pc = "promoted" /\ y.dir = x.dir /\ y.rev = n
          /\ y.snapshot = s
    BY <1>6 DEF CompilerRec, CompilerPc
  <2> QED BY <1>1, <1>5, <2>1, <2>2
<1> HIDE DEF k
<1>9. PICK q \in CompilerRec : /\ compiler' = [compiler EXCEPT ![c] = q] /\ q.dir = d
                               /\ q.rev = n /\ q.snapshot.doc = doc
  BY <1>1, <1>7, <1>8 DEF s
<1>10. FilesStay
  BY <1>3 DEF FilesStay
<1>11. Published(q)'
  BY <1>1, <1>3, <1>9 DEF Published
<1>12. CompilerInv' /\ compiler' \in [Compilers -> CompilerRec]
  BY <1>2, <1>4, <1>9, <1>10, <1>11, OneCompiler
<1>13. TypeOK'
  <2>1. disk' \subseteq [pdf : Pdfs, doc : Contents]
    BY <1>3, Typed DEF IInv
  <2>2. lock' \in [Dirs -> Compilers \cup {Free}]
    BY <1>1, LockType
  <2> QED BY <1>2, <1>12, <2>1, <2>2, Typed, TypedRest, TypedNext DEF IInv
<1>14. QueueInv'
  BY <1>2 DEF IInv, QueueInv, Busy, RunningHasWorker, St
<1>15. RunInv'
  <2>1. \A g \in disk' : OfRun(g.pdf) < nextRun
    BY <1>3, <1>4 DEF IInv, RunInv
  <2> QED BY <1>2, <2>1 DEF IInv, RunInv, Exists, Producing, There
<1>16. DiskInv'
  BY <1>3 DEF IInv, DiskInv
<1>17. PackageInv'
  <2>1. ASSUME NEW e \in Dirs, There(e) PROVE Sound(e, package[e].state)'
    <3>1. Sound(e, package[e].state)
      BY <2>1, PackagesSound DEF IInv
    <3> QED BY <1>2, <1>3, <3>1 DEF Sound
  <2>2. PackageInv' <=> \A e \in Dirs : There(e)' => Sound(e, package[e].state)'
    BY PackagesSound DEF PackageInv, PublishedIsCurrent, Sound
  <2>3. \A e \in Dirs : There(e)' <=> There(e)
    BY <1>2 DEF There
  <2> QED BY <2>1, <2>2, <2>3
<1>18. SelectedIsServable'
  BY <1>2, <1>3 DEF IInv, SelectedIsServable
<1> QED BY <1>12, <1>13, <1>14, <1>15, <1>16, <1>17, <1>18 DEF IInv

LEMMA WritePackageKeeps ==
  ASSUME IInv, NEW c \in Compilers, WritePackage(c), UNCHANGED <<queue, history>>
  PROVE  IInv'
<1>1. PICK k \in CompilerRec : k = compiler[c]
  BY Typed DEF IInv
<1>2. PICK d \in Dirs, l \in Link, s \in Version, rev \in Revisions \cup {0}, n \in Nat :
        d = k.dir /\ l = k.link /\ s = k.snapshot /\ rev = k.rev /\ n = s.docRev
  <2>1. k.dir \in Dirs /\ k.link \in Link /\ k.snapshot \in Version
        /\ k.rev \in Revisions \cup {0}
    BY DEF CompilerRec
  <2> QED BY <2>1 DEF Version
<1> DEFINE t == [s EXCEPT !.rev = rev, !.revDoc = n, !.dirty = FALSE, !.status = "ok"]
           p == [there |-> TRUE, link |-> l, state |-> t]
<1>3. /\ k.pc = "promoted" /\ package' = [package EXCEPT ![d] = p]
      /\ compiler' = [compiler EXCEPT ![c].pc = "written"]
      /\ UNCHANGED <<queue, selection, history>> /\ UNCHANGED lock
      /\ UNCHANGED <<row, worker, request, nextRun>>
      /\ UNCHANGED <<attempts, selected, ready, disk, pending>>
      /\ UNCHANGED <<crashes, stranded, cleared>>
  BY <1>1, <1>2 DEF WritePackage, Becomes, queue, selection, history
<1>4. Published(k) /\ OfRun(d) < nextRun
  BY <1>1, <1>2, <1>3 DEF IInv, CompilerInv
<1>5. [pdf |-> Revision(d, rev), doc |-> s.doc] \in disk \/ OfRun(d) \in cleared
  BY <1>2, <1>4 DEF Published
<1>6. /\ t \in Version /\ t.dirty = FALSE /\ t.rev = rev /\ t.doc = s.doc
      /\ t.revDoc = t.docRev /\ t.docRev \in Nat
  <2>1. \A x \in Version : LET y == [x EXCEPT !.rev = rev, !.revDoc = n, !.dirty = FALSE,
                                              !.status = "ok"] IN
          y \in Version /\ y.dirty = FALSE /\ y.rev = rev /\ y.doc = x.doc
          /\ y.revDoc = n /\ y.docRev = x.docRev
    BY DEF Version
  <2> QED BY <1>2, <2>1
<1> HIDE DEF t
<1>7. p \in PackageRec /\ p.state = t
  BY <1>6 DEF PackageRec
<1> HIDE DEF p
<1>8. PICK q \in PackageRec : package' = [package EXCEPT ![d] = q] /\ Sound(d, q.state)
  <2>1. Sound(d, t)
    BY <1>5, <1>6 DEF Sound
  <2> QED BY <1>3, <1>7, <2>1
<1>9. Sound(d, q.state)'
  BY <1>3, <1>8 DEF Sound
<1>10. /\ QueueInv' /\ RunInv' /\ DiskInv' /\ PackageInv' /\ SelectedIsServable'
       /\ FilesStay /\ package' \in [Dirs -> Package]
  BY <1>3, <1>4, <1>8, <1>9, PackageStep
<1>11. CompilerInv' /\ compiler' \in [Compilers -> CompilerRec]
  <2>1. PICK m \in CompilerRec : m = [k EXCEPT !.pc = "written"]
    <3>1. \A x \in CompilerRec : [x EXCEPT !.pc = "written"] \in CompilerRec
      BY DEF CompilerRec, CompilerPc
    <3> QED BY <3>1
  <2>2. compiler' = [compiler EXCEPT ![c] = m]
    BY <1>1, <1>3, <2>1, Typed DEF IInv
  <2>3. m.rev = k.rev /\ m.dir = k.dir /\ m.snapshot = k.snapshot
    BY <2>1 DEF CompilerRec
  <2>4. Published(m)
    BY <1>4, <2>3 DEF Published
  <2>5. Published(m)'
    BY <1>3, <1>10, <2>4, PublishedStays
  <2> QED BY <1>2, <1>3, <1>4, <1>10, <2>2, <2>3, <2>5, OneCompiler
<1>12. TypeOK'
  BY <1>3, <1>10, <1>11, Typed, TypedRest, TypedNext DEF IInv
<1> QED BY <1>10, <1>11, <1>12 DEF IInv
LEMMA FinishCompileKeeps ==
  ASSUME IInv, NEW c \in Compilers, FinishCompile(c), UNCHANGED <<queue, history>>
  PROVE  IInv'
<1>1. PICK k \in CompilerRec : k = compiler[c]
  BY Typed DEF IInv
<1>2. /\ k.pc = "written"
      /\ \/ /\ k.snapshot.doc \in OnePage /\ k.link.job # NoJob
            /\ RefreshSelected(k.dir, k.rev, k.link.job, k.link.attempt)
         \/ UNCHANGED selection
      /\ Releases(c)
      /\ compiler' = [compiler EXCEPT ![c] = IdleCompiler]
      /\ UNCHANGED <<queue, package, history>>
      /\ UNCHANGED <<crashes, stranded, cleared>>
  BY <1>1 DEF FinishCompile, Releases, Idles, history
<1>3. lock' \in [Dirs -> Compilers \cup {Free}]
  BY <1>2, Released
<1>4. CASE UNCHANGED selection
  BY <1>2, <1>3, <1>4, IdleCompilers, CompilerOnly
<1> DEFINE d == k.dir
           n == k.rev
           j == k.link.job
           v == k.link.attempt
           q == Revision(d, n)
<1>5. CASE /\ k.snapshot.doc \in OnePage /\ j # NoJob /\ MayRefresh(d, n, j, v)
           /\ attempts' = [attempts EXCEPT ![v].pdf = q]
           /\ selected' = [selected EXCEPT ![j].pdf = q]
           /\ UNCHANGED <<ready, disk, pending>>
  <2>1. j \in HuntJobs /\ v \in Runs /\ d \in Dirs
    BY <1>5 DEF CompilerRec, Link, MayRefresh
  <2>2. /\ selected[j].ver = v /\ v # 0 /\ j \in ready
        /\ attempts[v].job = j /\ attempts[v].flagged /\ attempts[v].useful
        /\ selected[j].pdf = d \/ \E m \in 1..(n - 1) : selected[j].pdf = Revision(d, m)
        /\ attempts[v].pdf = selected[j].pdf /\ OnDisk(selected[j].pdf)
    BY <1>5 DEF MayRefresh
  <2>3. Published(k) /\ n \in Revisions /\ q \in Pdfs
    BY <1>1, <1>2 DEF IInv, CompilerInv, Published
  <2>4. OfRun(selected[j].pdf) = OfRun(d) /\ OfRun(q) = OfRun(d)
    <3>1. n \in Nat \ {0}
      BY <2>3, Numbers
    <3>2. \A m \in 1..(n - 1) : m \in Nat
      BY <3>1
    <3> HIDE DEF n
    <3> QED BY <2>1, <2>2, <3>1, <3>2, RevisionPaths
  <2>5. OfRun(attempts[v].pdf) = v
    BY <2>1, <2>2, SelectionAssumption DEF IInv, RunInv, Exists
  <2>6. \E f \in disk : f.pdf = q /\ f.doc \in OnePage
    <3>1. OfRun(d) \notin cleared
      BY <2>1, <2>2, <2>4, <2>5, SelectionAssumption DEF IInv, RunInv, Exists
    <3>2. PICK f \in disk : f = [pdf |-> q, doc |-> k.snapshot.doc]
      BY <2>3, <3>1 DEF Published
    <3> QED BY <1>5, <3>2
  <2> HIDE DEF q
  <2>7. /\ attempts \in [Runs -> Attempt \cup {NoAttempt}] /\ attempts[v] \in Attempt
        /\ selected \in [HuntJobs -> [ver : Runs \cup {0}, pdf : Pdfs]]
    <3>1. attempts[v] # NoAttempt
      BY <2>1, <2>2, NoAttempts, SelectionAssumption
    <3> QED BY <2>1, <3>1, Typed DEF IInv
  <2> DEFINE a == [attempts[v] EXCEPT !.pdf = q]
             b == [selected[j] EXCEPT !.pdf = q]
  <2>8. /\ a \in Attempt /\ a.pdf = q /\ a.job = j
        /\ a.useful = attempts[v].useful /\ a.flagged = attempts[v].flagged
    <3>1. \A x \in Attempt : LET y == [x EXCEPT !.pdf = q] IN
            y \in Attempt /\ y.pdf = q /\ y.job = x.job
            /\ y.useful = x.useful /\ y.flagged = x.flagged
      BY <2>3 DEF Attempt
    <3> QED BY <2>2, <2>7, <3>1
  <2>9. b \in [ver : Runs \cup {0}, pdf : Pdfs] /\ b.pdf = q /\ b.ver = v
    BY <2>1, <2>2, <2>3, <2>7
  <2>10. attempts' = [attempts EXCEPT ![v] = a] /\ selected' = [selected EXCEPT ![j] = b]
    BY <1>5, <2>1, <2>7
  <2> HIDE DEF a, b
  <2>11. /\ attempts' \in [Runs -> Attempt \cup {NoAttempt}] /\ attempts'[v] = a
         /\ \A r \in Runs \ {v} : attempts'[r] = attempts[r]
         /\ selected' \in [HuntJobs -> [ver : Runs \cup {0}, pdf : Pdfs]]
         /\ selected'[j] = b /\ \A i \in HuntJobs \ {j} : selected'[i] = selected[i]
    BY <2>1, <2>7, <2>8, <2>9, <2>10
  <2>12. /\ UNCHANGED <<row, worker, request, nextRun>>
         /\ UNCHANGED <<crashes, stranded, cleared>>
    BY <1>2 DEF queue
  <2>13. FilesStay
    BY <1>5 DEF FilesStay
  <2>14. CompilerInv' /\ compiler' \in [Compilers -> CompilerRec]
    BY <1>2, <2>12, <2>13, IdleCompilers, OneCompiler
  <2>15. TypeOK'
    BY <1>2, <1>3, <1>5, <2>11, <2>12, <2>14, Typed, TypedRest, TypedNext DEF IInv
  <2>16. QueueInv'
    BY <2>12 DEF IInv, QueueInv, Busy, RunningHasWorker, St
  <2>17. RunInv'
    <3>1. \A r \in Runs : /\ attempts'[r].job = attempts[r].job
                          /\ Exists(r) => OfRun(attempts'[r].pdf) = r
      BY <2>1, <2>2, <2>4, <2>5, <2>8, <2>11 DEF IInv, RunInv
    <3> QED BY <1>2, <1>5, <2>12, <3>1 DEF IInv, RunInv, Exists, Producing, There
  <2>18. DiskInv' /\ PackageInv'
    BY <1>2, <1>5, <2>12 DEF IInv, DiskInv, PackageInv, PublishedIsCurrent, There
  <2>19. SelectedIsServable'
    <3>1. \A r \in Runs : /\ attempts'[r].job = attempts[r].job
                          /\ attempts'[r].useful = attempts[r].useful
                          /\ attempts'[r].flagged = attempts[r].flagged
      BY <2>2, <2>8, <2>11
    <3> SUFFICES ASSUME NEW i \in HuntJobs, selected'[i].ver # 0
                 PROVE  LET w == selected'[i].ver IN
                        /\ attempts'[w].job = i /\ attempts'[w].useful /\ attempts'[w].flagged
                        /\ attempts'[w].pdf = selected'[i].pdf
                        /\ \E f \in disk' : f.pdf = selected'[i].pdf /\ f.doc \in OnePage
                        /\ \A r \in Runs : attempts'[r].job = i /\ attempts'[r].flagged => r = w
      BY DEF SelectedIsServable
    <3>2. CASE i = j
      <4>1. selected'[i].ver = v /\ selected'[i].pdf = q /\ attempts'[v].pdf = q
        BY <2>8, <2>9, <2>11, <3>2
      <4>2. \A r \in Runs : attempts'[r].job = i /\ attempts'[r].flagged => r = v
        BY <2>2, <3>1, <3>2 DEF IInv, SelectedIsServable
      <4>3. attempts'[v].job = i /\ attempts'[v].useful /\ attempts'[v].flagged
        BY <2>1, <2>2, <3>1, <3>2
      <4>4. \E f \in disk' : f.pdf = q /\ f.doc \in OnePage
        BY <1>5, <2>6
      <4> QED BY <4>1, <4>2, <4>3, <4>4
    <3>3. CASE i # j
      <4> DEFINE w == selected[i].ver
      <4>1. selected'[i] = selected[i] /\ w \in Runs /\ w # 0
        BY <2>7, <2>11, <3>3
      <4>2. /\ attempts[w].job = i /\ attempts[w].useful /\ attempts[w].flagged
            /\ attempts[w].pdf = selected[i].pdf
            /\ \E f \in disk : f.pdf = selected[i].pdf /\ f.doc \in OnePage
            /\ \A r \in Runs : attempts[r].job = i /\ attempts[r].flagged => r = w
        BY <4>1 DEF IInv, SelectedIsServable
      <4>3. w # v
        BY <2>2, <3>3, <4>2
      <4>4. attempts'[w] = attempts[w]
        BY <2>11, <4>1, <4>3
      <4>5. \A r \in Runs : attempts'[r].job = i /\ attempts'[r].flagged => r = w
        BY <3>1, <4>2
      <4> QED BY <1>5, <4>1, <4>2, <4>4, <4>5
    <3> QED BY <3>2, <3>3
  <2> QED BY <2>14, <2>15, <2>16, <2>17, <2>18, <2>19 DEF IInv
<1> QED BY <1>2, <1>4, <1>5 DEF RefreshSelected, selection
-----------------------------------------------------------------------------
(* Every step.                                                             *)

LEMMA JobChangesKeeps ==
  ASSUME IInv, JobChanges
  PROVE  IInv'
<1>1. /\ UNCHANGED <<row, worker, request, nextRun>>
      /\ UNCHANGED <<attempts, selected, disk, pending>>
      /\ UNCHANGED <<package, lock, compiler>> /\ UNCHANGED <<crashes, stranded, cleared>>
  BY DEF JobChanges, ReadinessChanges, queue, review, history
<1>2. ready' \subseteq HuntJobs
  BY TypedRest DEF IInv, JobChanges, ReadinessChanges
<1>3. TypeOK'
  BY <1>1, <1>2, Typed, TypedRest, TypedNext DEF IInv
<1>4. QueueInv' /\ RunInv'
  BY <1>1 DEF IInv, QueueInv, Busy, RunningHasWorker, St, RunInv, Exists, Producing, There
<1>5. DiskInv' /\ PackageInv' /\ SelectedIsServable' /\ CompilerInv'
  BY <1>1 DEF IInv, DiskInv, PackageInv, PublishedIsCurrent, There, SelectedIsServable,
              CompilerInv, Published
<1> QED BY <1>3, <1>4, <1>5 DEF IInv

LEMMA CrashKeeps ==
  ASSUME IInv, Crash
  PROVE  IInv'
<1>1. /\ crashes' = crashes + 1 /\ crashes < MaxCrashes
      /\ worker' = [Idle EXCEPT !.pc = "down"] /\ request' = [c \in Clients |-> Done]
      /\ lock' = [d \in Dirs |-> Free] /\ compiler' = [c \in Compilers |-> IdleCompiler]
      /\ UNCHANGED <<row, nextRun>> /\ UNCHANGED package /\ UNCHANGED <<stranded, cleared>>
      /\ UNCHANGED <<attempts, selected, ready, disk, pending>>
  BY DEF Crash, ReviewCrash, selection
<1>2. worker' \in WorkerRec /\ worker'.pc = "down" /\ worker'.run = 0
  BY <1>1 DEF Idle, WorkerRec, WorkerPc, Jobs
<1>3. TypeOK'
  <2>1. crashes' \in 0..MaxCrashes
    BY <1>1, TypedRest, FletcherAssumption DEF IInv
  <2>2. request' \in [Clients -> RequestRec]
    BY <1>1, Replies
  <2>3. compiler' \in [Compilers -> CompilerRec]
    BY <1>1, IdleCompilers
  <2>4. lock' \in [Dirs -> Compilers \cup {Free}]
    BY <1>1
  <2> QED BY <1>1, <1>2, <2>1, <2>2, <2>3, <2>4, Typed, TypedRest, TypedNext DEF IInv
<1>4. QueueInv'
  BY <1>1, <1>2, Replies DEF QueueInv, Busy, RunningHasWorker
<1>5. RunInv'
  <2>1. 0 < nextRun
    BY Typed DEF IInv
  <2> QED BY <1>1, <1>2, <2>1 DEF IInv, RunInv, Exists, Producing, There
<1>6. DiskInv' /\ PackageInv' /\ SelectedIsServable'
  BY <1>1 DEF IInv, DiskInv, PackageInv, PublishedIsCurrent, There, SelectedIsServable
<1>7. CompilerInv'
  BY <1>1, IdleCompilers DEF CompilerInv
<1> QED BY <1>3, <1>4, <1>5, <1>6, <1>7 DEF IInv

LEMMA InitInv == Init => IInv
<1> SUFFICES ASSUME Init PROVE IInv
  OBVIOUS
<1>1. /\ row = [i \in Items |-> NoRow("unused")] /\ worker = [Idle EXCEPT !.pc = "down"]
      /\ request = [c \in Clients |-> Done] /\ nextRun = 1
      /\ attempts = [r \in Runs |-> NoAttempt] /\ selected = [j \in HuntJobs |-> NoSelection]
      /\ ready \subseteq HuntJobs /\ disk = {} /\ pending = {}
      /\ package = [d \in Dirs |-> NoPackage] /\ lock = [d \in Dirs |-> Free]
      /\ compiler = [c \in Compilers |-> IdleCompiler] /\ crashes = 0
      /\ stranded = {} /\ cleared = {}
  BY DEF Init, QueueInit, SelectionInit, ReviewInit
<1>2. /\ NoRow("unused") \in RowRec /\ NoRow("unused").st = "unused"
      /\ NoRow("unused").review = 0
  BY DEF NoRow, RowRec, Status, Jobs
<1>3. worker \in WorkerRec /\ worker.pc = "down" /\ worker.run = 0
  BY <1>1 DEF Idle, WorkerRec, WorkerPc, Jobs
<1>4. NoPackage \in Package /\ NoPackage.there = FALSE
  BY DEF NoPackage, Package
<1>5. \A d \in Dirs : ~There(d)
  BY <1>1, <1>4 DEF There
<1>6. TypeOK
  <2>1. row \in [Items -> RowRec] /\ request \in [Clients -> RequestRec]
    BY <1>1, <1>2, Replies
  <2>2. /\ attempts \in [Runs -> Attempt \cup {NoAttempt}]
        /\ selected \in [HuntJobs -> [ver : Runs \cup {0}, pdf : Pdfs]]
    BY <1>1, NoAttempts
  <2>3. compiler \in [Compilers -> CompilerRec] /\ package \in [Dirs -> Package]
        /\ lock \in [Dirs -> Compilers \cup {Free}]
    BY <1>1, <1>4, IdleCompilers
  <2>4. crashes \in 0..MaxCrashes
    BY <1>1, FletcherAssumption
  <2> QED BY <1>1, <1>3, <2>1, <2>2, <2>3, <2>4
          DEF TypeOK, QueueTypeOK, SelectionTypeOK, ReviewTypeOK, RowRec, WorkerRec,
              RequestRec, CompilerRec
<1>7. QueueInv
  BY <1>1, <1>2, <1>3, Replies DEF QueueInv, Busy, RunningHasWorker, St
<1>8. RunInv
  <2>1. \A r \in Runs : ~Exists(r)
    BY <1>1, NoAttempts DEF Exists
  <2>2. \A i \in Items : row[i].review = 0
    BY <1>1, <1>2
  <2> QED BY <1>1, <1>3, <1>5, <2>1, <2>2 DEF RunInv, Producing
<1>9. CompilerInv
  BY <1>1, IdleCompilers DEF CompilerInv
<1>10. DiskInv /\ PackageInv
  BY <1>1, <1>5 DEF DiskInv, PackageInv, PublishedIsCurrent
<1>11. SelectedIsServable
  BY <1>1, NoAttempts DEF SelectedIsServable
<1> QED BY <1>6, <1>7, <1>8, <1>9, <1>10, <1>11 DEF IInv

LEMMA RequestsKeep ==
  ASSUME IInv, NEW c \in Clients, Request(c)
  PROVE  IInv'
<1>1. CASE /\ OnlyQueue
           /\ \/ ReadEnd(c) \/ ReadToCancel(c) \/ ReadPosition(c) \/ ReadNeighbour(c)
              \/ RetryClear(c)
  BY <1>1, ReadsKeep
<1>2. CASE OnlyQueue /\ Insert(c)
  BY <1>2, InsertKeeps
<1>3. CASE OnlyQueue /\ WriteCancelled(c)
  BY <1>3, WriteCancelledKeeps
<1>4. CASE OnlyQueue /\ Swap(c)
  BY <1>4, SwapKeeps
<1>5. CASE /\ \E adHocToo \in BOOLEAN : Clear(c, adHocToo)
           /\ cleared' = cleared \cup pending' /\ UNCHANGED <<review, crashes, stranded>>
  BY <1>5, ClearKeeps
<1>6. CASE RemoveSome(c) /\ NotReview
  BY <1>6, RemoveSomeKeeps
<1>7. CASE (\E d \in Dirs : PackageRemoved(d)) /\ UNCHANGED <<queue, history>>
  BY <1>7, PackageRemovedKeeps
<1>8. CASE \E removed \in SUBSET pending :
             Cleanup(c, removed) /\ ReviewRemoved(removed) /\ UNCHANGED history
  BY <1>8, CleanupKeeps
<1> QED BY <1>1, <1>2, <1>3, <1>4, <1>5, <1>6, <1>7, <1>8 DEF Request

LEMMA WorkerStepKeeps ==
  ASSUME IInv, WorkerStep
  PROVE  IInv'
<1>1. CASE OnlyQueue /\ (Select \/ Claim \/ Begin \/ RowMissing)
  BY <1>1, SelectKeeps, ClaimKeeps, BeginKeeps, RowMissingKeeps
<1>2. CASE OnlyQueue /\ (Raises \/ LoadJob \/ ReadStatus \/ Finish)
  BY <1>2, RaisesKeeps, LoadJobKeeps, ReadStatusKeeps, FinishKeeps
<1>3. CASE Prepare
  BY <1>3, PrepareKeeps
<1>4. CASE Record /\ NotReview
  BY <1>4, RecordKeeps
<1>5. CASE Escapes /\ Strands(stranded \cup {worker.item}) /\ OnlyWorker
  BY <1>5, EscapesKeeps
<1> QED BY <1>1, <1>2, <1>3, <1>4, <1>5 DEF WorkerStep

LEMMA ReviewKeeps ==
  ASSUME IInv, Review
  PROVE  IInv'
<1>1. UNCHANGED <<queue, history>>
  BY DEF Review
<1>2. CASE \E d \in Dirs, doc \in Contents : Save(d, doc)
  BY <1>1, <1>2, SaveKeeps
<1>3. CASE \E c \in Compilers : (\E j \in HuntJobs : OpenReads(c, j)) \/ OpenWrites(c)
  BY <1>1, <1>3, OpenReadsKeeps, OpenWritesKeeps
<1>4. CASE \E c \in Compilers : CompilerStep(c)
  <2>1. PICK c \in Compilers : CompilerStep(c)
    BY <1>4
  <2>2. CASE (\E d \in Dirs : StartCompile(c, d)) \/ WriteFails(c)
    BY <1>1, <2>2, QuietCompileKeeps
  <2>3. CASE CompileFails(c)
    BY <1>1, <2>3, CompileFailsKeeps
  <2>4. CASE Promote(c)
    BY <1>1, <2>4, PromoteKeeps
  <2>5. CASE WritePackage(c)
    BY <1>1, <2>5, WritePackageKeeps
  <2>6. CASE FinishCompile(c)
    BY <1>1, <2>6, FinishCompileKeeps
  <2> QED BY <2>1, <2>2, <2>3, <2>4, <2>5, <2>6 DEF CompilerStep
<1>5. CASE \E c \in Compilers : GiveUp(c)
  BY <1>1, <1>5, QuietCompileKeeps
<1> QED BY <1>2, <1>3, <1>4, <1>5 DEF Review

LEMMA NextInv == IInv /\ [Next]_vars => IInv'
<1> SUFFICES ASSUME IInv, [Next]_vars PROVE IInv'
  OBVIOUS
<1>1. CASE \E c \in Clients : Request(c)
  BY <1>1, RequestsKeep
<1>2. CASE Delete /\ OnlyQueue
  BY <1>2, DeleteKeeps
<1>3. CASE Start
  BY <1>3, StartKeeps
<1>4. CASE WorkerStep
  BY <1>4, WorkerStepKeeps
<1>5. CASE Review
  BY <1>5, ReviewKeeps
<1>6. CASE JobChanges
  BY <1>6, JobChangesKeeps
<1>7. CASE Crash
  BY <1>7, CrashKeeps
<1>8. CASE UNCHANGED vars
  <2>1. /\ UNCHANGED <<row, worker, request, nextRun>>
        /\ UNCHANGED <<attempts, selected, ready, disk, pending>>
        /\ UNCHANGED <<package, lock, compiler>> /\ UNCHANGED <<crashes, stranded, cleared>>
    BY <1>8 DEF vars, queue, selection, review, history
  <2>2. TypeOK'
    BY <2>1, Typed, TypedRest, TypedNext DEF IInv
  <2>3. QueueInv' /\ RunInv'
    BY <2>1 DEF IInv, QueueInv, Busy, RunningHasWorker, St, RunInv, Exists, Producing, There
  <2>4. DiskInv' /\ PackageInv' /\ SelectedIsServable' /\ CompilerInv'
    BY <2>1 DEF IInv, DiskInv, PackageInv, PublishedIsCurrent, There, SelectedIsServable,
                CompilerInv, Published
  <2> QED BY <2>2, <2>3, <2>4 DEF IInv
<1> QED BY <1>1, <1>2, <1>3, <1>4, <1>5, <1>6, <1>7, <1>8 DEF Next

\* The inductive invariant: who works on what, which run made what, and what the
\* files on disk back.
THEOREM FletcherInvariant == Spec => []IInv
<1> QED BY InitInv, NextInv, PTL DEF Spec

\* Rows, requests, records, files and packages keep their types.
THEOREM FletcherTypeOK == Spec => []TypeOK
<1>1. IInv => TypeOK
  BY DEF IInv
<1> QED BY <1>1, FletcherInvariant, PTL

\* A row marked running that no worker works on was left by a recovery, a claim or
\* a report that failed, unless no worker was started.
THEOREM FletcherRunningHasWorker == Spec => []RunningHasWorker
<1>1. IInv => RunningHasWorker
  BY DEF IInv, QueueInv
<1> QED BY <1>1, FletcherInvariant, PTL

\* A selected resume is always one that C3 can be handed.
THEOREM FletcherSelectedIsServable == Spec => []SelectedIsServable
<1>1. IInv => SelectedIsServable
  BY DEF IInv
<1> QED BY <1>1, FletcherInvariant, PTL

\* A package's compiled revision is the document it shows, unless it is dirty.
THEOREM FletcherPublishedIsCurrent == Spec => []PublishedIsCurrent
<1>1. IInv => PublishedIsCurrent
  BY DEF IInv, PackageInv
<1> QED BY <1>1, FletcherInvariant, PTL
-----------------------------------------------------------------------------
(* What a step may never do.                                               *)

\* No request, claim, finish or recovery takes a row back that has ended.
THEOREM FletcherNoRevival == Spec => NoRevival
<1>1. IInv /\ [Next]_vars => [\A i \in Items : St(i) \in Ended => St(i)' \in Ended]_vars
  <2> SUFFICES ASSUME IInv, Next, NEW i \in Items, St(i) \in Ended
               PROVE  row'[i].st \in Ended
    BY DEF St
  <2>1. row[i].st \in {"succeeded", "failed", "cancelled", "gone"} /\ row \in [Items -> RowRec]
    BY Typed DEF IInv, St, Ended
  <2>2. CASE row' = row
    BY <2>1, <2>2 DEF Ended
  <2>3. ASSUME NEW c \in Clients, Insert(c) PROVE row'[i].st \in Ended
    <3>1. PICK k \in Items : row[k].st = "unused" /\ \E r : row' = [row EXCEPT ![k] = r]
      BY <2>3 DEF Insert, St
    <3>2. \A x \in Items \ {k} : row'[x] = row[x]
      BY <2>1, <3>1
    <3> QED BY <2>1, <3>1, <3>2 DEF Ended
  <2>4. ASSUME NEW c \in Clients, WriteCancelled(c) PROVE row'[i].st \in Ended
    <3>1. PICK k \in Items : k = request[c].item
      BY <2>4 DEF WriteCancelled, IInv, QueueInv
    <3>2. CASE Ends(k, "cancelled", row[k].review)
      <4>1. row'[k].st = "cancelled" /\ \A x \in Items \ {k} : row'[x] = row[x]
        BY <2>1, <3>2, RowEnds DEF RowRec, Status
      <4> QED BY <2>1, <4>1 DEF Ended
    <3> QED BY <2>2, <2>4, <3>1, <3>2 DEF WriteCancelled
  <2>5. ASSUME NEW c \in Clients, Swap(c) PROVE row'[i].st \in Ended
    BY <2>1, <2>5 DEF Swap, St, Active, Ended
  <2>6. ASSUME NEW c \in Clients, NEW b \in BOOLEAN, Clear(c, b) PROVE row'[i].st \in Ended
    <3>1. row'[i] = NoRow("gone") \/ row'[i] = row[i]
      BY <2>6 DEF Clear
    <3> QED BY <2>1, <3>1 DEF NoRow, Ended
  <2>7. ASSUME Delete PROVE row'[i].st \in Ended
    <3>1. PICK k \in Items : row' = [row EXCEPT ![k] = NoRow("gone")]
      BY <2>7 DEF Delete
    <3> QED BY <2>1, <3>1 DEF NoRow, Ended
  <2>8. ASSUME Start PROVE row'[i].st \in Ended
    BY <2>1, <2>8 DEF Start, StartWorker, Recovered, St, Ended
  <2>9. ASSUME Claim PROVE row'[i].st \in Ended
    <3>1. PICK k \in Items : k = worker.item
      BY <2>9, Holds DEF Claim
    <3>2. CASE row[k].st = "queued" /\ Sets(k, "running")
      <4>1. \A x \in Items \ {k} : row'[x] = row[x]
        BY <3>2, RowSets DEF Status
      <4> QED BY <2>1, <3>2, <4>1 DEF Ended
    <3> QED BY <2>2, <2>9, <3>1, <3>2 DEF Claim, St
  <2>10. ASSUME Finish PROVE row'[i].st \in Ended
    <3>1. PICK k \in Items : k = worker.item /\ worker \in WorkerRec
      BY <2>10, Holds DEF Finish
    <3>2. CASE Ends(k, worker.end, worker.run)
      <4>1. worker.end \in {"succeeded", "failed"} /\ worker.run \in Runs \cup {0}
        BY <3>1 DEF WorkerRec
      <4>2. row'[k].st = worker.end /\ \A x \in Items \ {k} : row'[x] = row[x]
        BY <3>2, <4>1, RowEnds DEF Status
      <4> QED BY <2>1, <4>1, <4>2 DEF Ended
    <3> QED BY <2>2, <2>10, <3>1, <3>2 DEF Finish
  <2>11. CASE \E c \in Clients : Request(c)
    <3>1. PICK c \in Clients : Request(c)
      BY <2>11
    <3>2. CASE ReadEnd(c) \/ ReadToCancel(c) \/ ReadPosition(c) \/ ReadNeighbour(c)
               \/ RetryClear(c) \/ RemoveSome(c) \/ UNCHANGED queue
               \/ \E removed \in SUBSET pending : Cleanup(c, removed)
      BY <2>2, <3>2 DEF ReadEnd, ReadToCancel, ReadPosition, ReadNeighbour, RetryClear,
                        RemoveSome, Cleanup, queue
    <3> QED BY <2>3, <2>4, <2>5, <2>6, <3>1, <3>2 DEF Request
  <2>12. CASE WorkerStep
    <3>1. CASE Select \/ Begin \/ RowMissing \/ Raises \/ Escapes \/ LoadJob \/ ReadStatus
      BY <2>2, <3>1 DEF Select, Begin, RowMissing, Raises, Escapes, LoadJob, ReadStatus
    <3>2. CASE Prepare \/ Record
      BY <2>2, <3>2 DEF Prepare, Produce, Record
    <3> QED BY <2>9, <2>10, <2>12, <3>1, <3>2 DEF WorkerStep
  <2>13. CASE Review \/ JobChanges \/ Crash
    BY <2>2, <2>13 DEF Review, JobChanges, Crash, queue
  <2> QED BY <2>7, <2>8, <2>11, <2>12, <2>13 DEF Next
<1> QED BY <1>1, FletcherInvariant, PTL DEF Spec, NoRevival

LEMMA NewFile ==
  ASSUME IInv, NEW x, disk' = disk \cup {x}, \A f \in disk : f.pdf # x.pdf
  PROVE  \A f \in disk : \A g \in disk' : f.pdf = g.pdf => f = g
BY DEF IInv, DiskInv

\* Neither a run nor a publication, whatever died before, writes over a PDF.
THEOREM FletcherRevisionsAreImmutable == Spec => RevisionsAreImmutable
<1>1. IInv /\ [Next]_vars => [\A f \in disk : \A g \in disk' : f.pdf = g.pdf => f = g]_vars
  <2> SUFFICES ASSUME IInv, Next
               PROVE  \A f \in disk : \A g \in disk' : f.pdf = g.pdf => f = g
    OBVIOUS
  <2>1. CASE disk' \subseteq disk
    BY <2>1 DEF IInv, DiskInv
  <2>2. CASE Prepare
    <3>1. PICK r \in Runs : r = nextRun
      BY <2>2 DEF Prepare, Produce
    <3>2. PICK out \in {"broken", "compiled"}, doc \in Contents :
            disk' = IF out = "compiled" THEN disk \cup {[pdf |-> Output(r), doc |-> doc]} ELSE disk
      BY <2>2, <3>1 DEF Prepare, Produce
    <3> DEFINE x == [pdf |-> Output(r), doc |-> doc]
    <3>3. x.pdf = Output(r) /\ OfRun(Output(r)) = r
      BY PdfPaths
    <3>4. \A f \in disk : f.pdf # x.pdf
      <4>1. \A f \in disk : OfRun(f.pdf) \in Nat /\ OfRun(f.pdf) < r
        BY <3>1, Typed, PdfPaths, Numbers DEF IInv, RunInv
      <4> QED BY <3>3, <4>1, Numbers
    <3>5. disk' = disk \/ disk' = disk \cup {x}
      BY <3>2
    <3> HIDE DEF x
    <3> QED BY <2>1, <3>4, <3>5, NewFile
  <2>3. ASSUME NEW c \in Compilers, Promote(c)
        PROVE  \A f \in disk : \A g \in disk' : f.pdf = g.pdf => f = g
    <3>1. PICK d \in Dirs, n \in Revisions, doc \in Contents :
            /\ ~OnDisk(Revision(d, n))
            /\ disk' = disk \cup {[pdf |-> Revision(d, n), doc |-> doc]}
      BY <2>3, Promotes
    <3> DEFINE x == [pdf |-> Revision(d, n), doc |-> doc]
    <3>2. x.pdf = Revision(d, n) /\ disk' = disk \cup {x}
      BY <3>1
    <3> HIDE DEF x
    <3>3. \A f \in disk : f.pdf # x.pdf
      BY <3>1, <3>2 DEF OnDisk
    <3> QED BY <3>2, <3>3, NewFile
  <2>4. CASE \E c \in Clients : Request(c)
    <3>1. PICK c \in Clients : Request(c)
      BY <2>4
    <3>2. CASE OnlyQueue \/ \E d \in Dirs : PackageRemoved(d)
      BY <2>1, <3>2 DEF OnlyQueue, OnlyWorker, PackageRemoved, selection
    <3>3. CASE \E b \in BOOLEAN : Clear(c, b)
      BY <2>1, <3>3 DEF Clear, ClearRecords
    <3>4. CASE RemoveSome(c) \/ \E removed \in SUBSET pending : Cleanup(c, removed)
      BY <2>1, <3>4 DEF RemoveSome, RemovePdfs, Cleanup, RemoveDirs, WithoutRuns
    <3> QED BY <3>1, <3>2, <3>3, <3>4 DEF Request
  <2>5. CASE (Delete /\ OnlyQueue) \/ Start \/ JobChanges \/ Crash
    BY <2>1, <2>5 DEF OnlyQueue, OnlyWorker, selection, Start, JobChanges, ReadinessChanges, Crash
  <2>6. CASE WorkerStep
    <3>1. CASE OnlyWorker
      BY <2>1, <3>1 DEF OnlyWorker, selection
    <3>2. CASE Record
      BY <2>1, <3>2 DEF Record, RecordAttempt
    <3> QED BY <2>2, <2>6, <3>1, <3>2 DEF WorkerStep, OnlyQueue
  <2>7. CASE Review
    <3>1. CASE \/ \E d \in Dirs, doc \in Contents : Save(d, doc)
               \/ \E c \in Compilers : \/ \E j \in HuntJobs : OpenReads(c, j)
                                       \/ OpenWrites(c) \/ GiveUp(c)
      BY <2>1, <3>1 DEF Save, OpenReads, OpenWrites, GiveUp, selection
    <3>2. ASSUME NEW c \in Compilers, CompilerStep(c), ~Promote(c) PROVE disk' \subseteq disk
      BY <3>2 DEF CompilerStep, StartCompile, CompileFails, WritePackage, WriteFails,
                  FinishCompile, RefreshSelected, selection
    <3> QED BY <2>1, <2>3, <2>7, <3>1, <3>2 DEF Review
  <2> QED BY <2>4, <2>5, <2>6, <2>7 DEF Next
<1> QED BY <1>1, FletcherInvariant, PTL DEF Spec, RevisionsAreImmutable

\* No step of a review selects another version, or an older or foreign PDF.
THEOREM FletcherRefreshKeepsChoice == Spec => RefreshKeepsChoice
<1> DEFINE Kept == Review => \A j \in HuntJobs :
                     /\ selected[j].ver = selected'[j].ver
                     /\ \/ selected[j].pdf = selected'[j].pdf
                        \/ Later(selected[j].pdf, selected'[j].pdf)
<1>1. IInv /\ [Next]_vars => [Kept]_vars
  <2> SUFFICES ASSUME IInv, Review, NEW j \in HuntJobs
               PROVE  /\ selected[j].ver = selected'[j].ver
                      /\ \/ selected[j].pdf = selected'[j].pdf
                         \/ Later(selected[j].pdf, selected'[j].pdf)
    OBVIOUS
  <2>1. CASE selected' = selected
    BY <2>1
  <2>2. ASSUME NEW c \in Compilers, NEW k \in CompilerRec, k = compiler[c], k.pc = "written",
               MayRefresh(k.dir, k.rev, k.link.job, k.link.attempt),
               selected' = [selected EXCEPT ![k.link.job].pdf = Revision(k.dir, k.rev)]
        PROVE  /\ selected[j].ver = selected'[j].ver
               /\ \/ selected[j].pdf = selected'[j].pdf
                  \/ Later(selected[j].pdf, selected'[j].pdf)
    <3> DEFINE q == Revision(k.dir, k.rev)
    <3>1. /\ k.link.job \in ready /\ ready \subseteq HuntJobs /\ k.dir \in Dirs
          /\ selected \in [HuntJobs -> [ver : Runs \cup {0}, pdf : Pdfs]]
      BY <2>2, Typed, TypedRest DEF IInv, MayRefresh, CompilerRec
    <3>2. k.rev \in Revisions
      BY <2>2 DEF IInv, CompilerInv, Published
    <3>3. CASE j # k.link.job
      BY <2>2, <3>1, <3>3
    <3>4. CASE j = k.link.job
      <4>1. \/ selected[j].pdf = k.dir
            \/ \E m \in 1..(k.rev - 1) : selected[j].pdf = Revision(k.dir, m)
        BY <2>2, <3>4 DEF MayRefresh
      <4>2. \A m \in 1..(k.rev - 1) : m \in Revisions /\ m < k.rev
        BY <3>2, SelectionAssumption DEF Revisions
      <4>3. Later(selected[j].pdf, q)
        BY <3>1, <3>2, <4>1, <4>2 DEF Later
      <4> HIDE DEF q
      <4>4. selected' = [selected EXCEPT ![j].pdf = q]
        BY <2>2, <3>4 DEF q
      <4>5. selected'[j].ver = selected[j].ver /\ selected'[j].pdf = q
        BY <3>1, <4>4
      <4> QED BY <4>3, <4>5
    <3> QED BY <3>3, <3>4
  <2>3. CASE \/ \E d \in Dirs, doc \in Contents : Save(d, doc)
             \/ \E c \in Compilers : \/ \E i \in HuntJobs : OpenReads(c, i)
                                     \/ OpenWrites(c) \/ GiveUp(c)
    BY <2>1, <2>3 DEF Save, OpenReads, OpenWrites, GiveUp, selection
  <2>4. ASSUME NEW c \in Compilers, CompilerStep(c), ~FinishCompile(c) PROVE selected' = selected
    BY <2>4 DEF CompilerStep, StartCompile, CompileFails, Promote, WritePackage,
                WriteFails, selection
  <2>5. ASSUME NEW c \in Compilers, FinishCompile(c)
        PROVE  /\ selected[j].ver = selected'[j].ver
               /\ \/ selected[j].pdf = selected'[j].pdf
                  \/ Later(selected[j].pdf, selected'[j].pdf)
    <3>1. PICK k \in CompilerRec : k = compiler[c]
      BY Typed DEF IInv
    <3>2. CASE selected' = selected
      BY <2>1, <3>2
    <3>3. CASE /\ MayRefresh(k.dir, k.rev, k.link.job, k.link.attempt)
               /\ selected' = [selected EXCEPT ![k.link.job].pdf = Revision(k.dir, k.rev)]
      BY <2>2, <2>5, <3>1, <3>3 DEF FinishCompile
    <3> QED BY <2>5, <3>1, <3>2, <3>3 DEF FinishCompile, RefreshSelected, selection
  <2> QED BY <2>1, <2>3, <2>4, <2>5 DEF Review
<1> QED BY <1>1, FletcherInvariant, PTL DEF Spec, RefreshKeepsChoice
=============================================================================
