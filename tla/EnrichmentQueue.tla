-------------------------- MODULE EnrichmentQueue --------------------------
(***************************************************************************)
(* The jobs of one employer and month in the database of C1 (hunter/db.py) *)
(* and everyone who works on them: enrichment processes with a public and  *)
(* an authenticated (board) lane, discovery, maintenance, operators, and   *)
(* the coordinator, which writes statuses of its own.                      *)
(*                                                                         *)
(* Every function is one transaction; SQLite admits one writer, and only   *)
(* add_job acts on what it read before its own began.  The time of a claim *)
(* is kept in seconds: recent are the rows claimed in the second that      *)
(* runs, mine says that a worker's claim still bears the row's time.       *)
(* Left out: texts and scores, delays of retries (a row that waits may be  *)
(* due at any step), numbers of attempts (a row at its limit is failed),   *)
(* dates, deletion.                                                        *)
(***************************************************************************)
EXTENDS Naturals, FiniteSets

CONSTANTS
  Rows,         \* ids of jobs, in the order of their insertion
  Workers,      \* enrichment processes: the service's, the scraper's, a CLI's
  Postings,     \* what employers publish
  Nobody,
  Slots,        \* jobs of one employer and month that are served, 2 in the code
  Reasons,      \* why the discovery policy may exclude a job
  Overrides,    \* statuses an operator sets
  MaxEvents     \* bound: observations of discovery, acts of operators, and
                \* claims that turn stale under a living worker

ASSUME EnrichmentAssumption ==
  /\ IsFiniteSet(Rows) /\ Rows \subseteq Nat \ {0}
  /\ Nobody \notin Workers /\ Slots \in Nat
  /\ Reasons \subseteq {"none", "geo", "policy"} /\ "none" \in Reasons
  /\ Overrides \subseteq {"pending", "processing", "done", "failed", "blocked"}

VARIABLES
  row,        \* the jobs table
  recent,     \* rows whose last claim was made in this second
  worker,     \* what each worker holds
  adder,      \* what add_job() has read
  events      \* how many of these have happened

vars == <<row, recent, worker, adder, events>>

St == {"pending", "processing", "done", "failed", "blocked"}
Managed == {"none", "cap", "dup"}     \* the reasons the employer cap looks after

\* status: "claimed" is any other than new, applied and cancelled.  key is the
\* posting its canonical key names, Nobody while only a board's link is known.
RowType == [status : {"absent", "new", "claimed", "applied"}, source : {"public", "board"},
            st : St, stamped : BOOLEAN, reason : Managed \cup Reasons,
            eligible : BOOLEAN, removed : BOOLEAN, key : Postings \cup {Nobody}]
NoRow == [status |-> "absent", source |-> "public", st |-> "pending", stamped |-> FALSE,
          reason |-> "none", eligible |-> FALSE, removed |-> FALSE, key |-> Nobody]

\* A board's worker remembers what its claim overwrote.
NoPrev == [st |-> "pending", stamped |-> FALSE]
Idle == [pc |-> "idle", row |-> 0, mine |-> FALSE, prev |-> NoPrev]
NoAdd == [pc |-> "idle", row |-> 0, source |-> "public", key |-> Nobody]

TypeOK ==
  /\ row \in [Rows -> RowType]
  /\ recent \subseteq Rows
  /\ worker \in [Workers -> [pc : {"idle", "public", "board"}, row : Rows \cup {0},
                             mine : BOOLEAN, prev : [st : St, stamped : BOOLEAN]]]
  /\ adder \in [pc : {"idle", "insert", "adopt", "update"}, row : Rows \cup {0},
                source : {"public", "board"}, key : Postings \cup {Nobody}]
  /\ events \in Nat

Present == {r \in Rows : row[r].status # "absent"}
Happens == events < MaxEvents /\ events' = events + 1
Holds(w, r) == worker[w].pc # "idle" /\ worker[w].row = r

-----------------------------------------------------------------------------
(* _enforce_employer_month_cap(): of the copies of a posting one stands for *)
(* it, and of those as many are served as the month has slots left.         *)

Copies(J, r) == {c \in Rows : /\ J[c].status # "absent"
                              /\ c = r \/ (J[c].key = J[r].key /\ J[r].key # Nobody)}
Weight(x) == (IF x.status = "applied" THEN 16 ELSE 0) + (IF x.removed THEN 0 ELSE 8)
             + (IF x.reason \in Managed THEN 4 ELSE 0)
             + (IF x.st = "done" /\ x.eligible THEN 2 ELSE 0)
             + (IF x.st = "done" THEN 1 ELSE 0)
StandsFor(J, r) == \A c \in Copies(J, r) \ {r} :
  Weight(J[r]) > Weight(J[c]) \/ (Weight(J[r]) = Weight(J[c]) /\ r < c)

\* Which candidates are kept is left open: their scores are not modelled.
Served(J) ==
  LET there == {r \in Rows : J[r].status # "absent"}
      standing == {r \in there : StandsFor(J, r)}
      history == {r \in there : J[r].status = "applied"}
      candidates == {r \in standing \ history : J[r].reason \in Managed /\ ~J[r].removed}
      taken == Cardinality(standing \cap history)
      free == IF taken < Slots THEN Slots - taken ELSE 0
      kept == {K \in SUBSET candidates :
                 Cardinality(K) = IF Cardinality(candidates) < free
                                  THEN Cardinality(candidates) ELSE free}
      Reason(r, K) ==
        IF J[r].reason \notin Managed THEN J[r].reason
        ELSE IF r \in candidates THEN IF r \in K THEN "none" ELSE "cap"
        ELSE IF r \in there \ (standing \cup history) THEN "dup"
        ELSE IF r \in standing /\ J[r].reason = "dup" THEN "none"
        ELSE J[r].reason
  IN {[r \in Rows |-> [J[r] EXCEPT !.reason = Reason(r, K)]] : K \in kept}

\* A public lead waits, blocked, for its verification.
Discovered(source, key, reason) ==
  [NoRow EXCEPT !.status = "new", !.source = source, !.key = key, !.reason = reason,
                !.st = IF source = "board" THEN "pending" ELSE "blocked"]

\* Whatever add_job() inserted before anyone worked on it: no posting twice.
Leads == {Discovered("public", k, "none") : k \in Postings}
         \cup {Discovered("board", k, "none") : k \in Postings \cup {Nobody}}
Init ==
  /\ \E J \in [Rows -> Leads \cup {NoRow}] :
       /\ \A r, q \in Rows : J[r].status = "new" /\ J[q].status = "new" /\ r # q =>
                             J[r].key = Nobody \/ J[r].key # J[q].key
       /\ \A r, q \in Rows : J[r].status = "new" /\ q < r => J[q].status = "new"
       /\ row \in Served(J)
  /\ recent = {}
  /\ worker = [w \in Workers |-> Idle]
  /\ adder = NoAdd
  /\ events = 0

-----------------------------------------------------------------------------
(* The public lane.                                                         *)

InScope(r) == row[r].status = "new" /\ row[r].source = "public"
Unexcluded(r) == row[r].reason \in {"none", "cap", "geo"}

\* Half an hour has passed since the claim.  A living worker seldom takes so long.
Living(r) == \E w \in Workers : Holds(w, r) /\ worker[w].mine
Stale(r) == row[r].stamped /\ r \notin recent
Overtakes(R) == IF \E r \in R : Living(r) THEN Happens ELSE UNCHANGED events

\* Whoever claimed the row before has another time, but within one second.
Claimed(w, r, pc) ==
  /\ worker' = [v \in Workers |->
       IF v = w THEN [pc |-> pc, row |-> r, mine |-> TRUE,
                      prev |-> IF pc = "public" THEN NoPrev
                               ELSE [st |-> row[r].st, stamped |-> row[r].stamped]]
       ELSE [worker[v] EXCEPT !.mine = @ /\ (worker[v].row = r => r \in recent)]]
  /\ recent' = recent \cup {r}

ClaimPublic(w, r) ==
  /\ worker[w].pc = "idle" /\ InScope(r) /\ Unexcluded(r)
  /\ \/ row[r].st \in {"pending", "blocked", "done"} /\ UNCHANGED events
     \/ row[r].st = "processing" /\ Stale(r) /\ Overtakes({r})
  /\ Claimed(w, r, "public")
  /\ row' = [row EXCEPT ![r].st = "processing", ![r].stamped = TRUE]
  /\ UNCHANGED adder

\* Mutant of Lands: the time of the claim is not compared.
LandsAnyClaim(w) == LET r == worker[w].row IN
  InScope(r) /\ row[r].st = "processing" /\ row[r].stamped

\* The guard of both results: expected_started_at, and the source.
Lands(w) == LET r == worker[w].row IN
  InScope(r) /\ row[r].st = "processing" /\ row[r].stamped /\ worker[w].mine
Leaves(w) == worker' = [worker EXCEPT ![w] = Idle]

\* Mutant of PublicSucceeds: the month's slots are not given out again.
SucceedsUncapped(w) ==
  /\ worker[w].pc = "public" /\ Lands(w)
  /\ \E base \in Reasons :
       row' = [row EXCEPT ![worker[w].row] =
         [@ EXCEPT !.st = "done", !.stamped = FALSE, !.eligible = TRUE, !.removed = FALSE,
                   !.reason = base]]
  /\ Leaves(w) /\ UNCHANGED <<recent, adder, events>>

PublicSucceeds(w) ==
  /\ worker[w].pc = "public" /\ Lands(w)
  /\ \E base \in Reasons :
       row' \in Served([row EXCEPT ![worker[w].row] =
         [@ EXCEPT !.st = "done", !.stamped = FALSE, !.eligible = TRUE, !.removed = FALSE,
                   !.reason = base]])
  /\ Leaves(w) /\ UNCHANGED <<recent, adder, events>>

PublicFails(w) ==
  /\ worker[w].pc = "public" /\ Lands(w)
  /\ \E st \in {"failed", "blocked"}, gone \in BOOLEAN :
       LET failed == [row EXCEPT ![worker[w].row] =
             [@ EXCEPT !.st = st, !.stamped = FALSE, !.eligible = FALSE, !.removed = gone]]
       IN IF gone THEN st = "failed" /\ row' \in Served(failed) ELSE row' = failed
  /\ Leaves(w) /\ UNCHANGED <<recent, adder, events>>

Superseded(w) ==
  /\ worker[w].pc = "public" /\ ~Lands(w)
  /\ Leaves(w) /\ UNCHANGED <<row, recent, adder, events>>

-----------------------------------------------------------------------------
(* The board lane: LinkedIn and Indeed, with a browser.  Results are        *)
(* written to the row whatever it has become.                               *)

\* A row that is pending or to be retried, or with force any that is named: the
\* second try in a visible browser.
ClaimBoard(w, r) ==
  /\ worker[w].pc = "idle" /\ r \in Present /\ row[r].source = "board"
  /\ Claimed(w, r, "board")
  /\ row' = [row EXCEPT ![r] = [@ EXCEPT !.st = "processing", !.stamped = TRUE,
                                         !.removed = FALSE]]
  /\ UNCHANGED <<adder, events>>

\* The application link is known now, and with it the posting.
BoardSucceeds(w) ==
  /\ worker[w].pc = "board"
  /\ LET x == row[worker[w].row] IN
     \E base \in Reasons, eligible \in BOOLEAN,
        key \in IF x.key = Nobody THEN Postings ELSE {x.key} :
       row' \in Served([row EXCEPT ![worker[w].row] =
         [x EXCEPT !.st = "done", !.stamped = FALSE, !.eligible = eligible, !.removed = FALSE,
                   !.reason = base, !.key = key]])
  /\ Leaves(w) /\ UNCHANGED <<recent, adder, events>>

BoardFails(w) ==
  /\ worker[w].pc = "board"
  /\ \E st \in {"failed", "blocked"}, eligible \in {row[worker[w].row].eligible, FALSE} :
       row' = [row EXCEPT ![worker[w].row] =
         [@ EXCEPT !.st = st, !.stamped = FALSE, !.eligible = eligible, !.removed = FALSE]]
  /\ Leaves(w) /\ UNCHANGED <<recent, adder, events>>

\* The session of LinkedIn has expired: the row gets back what the claim took
\* (its error too; a board's row never has the one that counts as removed).
BoardRestores(w) ==
  /\ worker[w].pc = "board"
  /\ LET p == worker[w].prev IN
       row' = [row EXCEPT ![worker[w].row] = [@ EXCEPT !.st = p.st, !.stamped = p.stamped]]
  /\ Leaves(w) /\ UNCHANGED <<recent, adder, events>>

WorkerDies(w) ==
  /\ worker[w].pc # "idle"
  /\ Leaves(w) /\ UNCHANGED <<row, recent, adder, events>>

Finishes(w) == \/ PublicSucceeds(w) \/ PublicFails(w) \/ Superseded(w)
               \/ BoardSucceeds(w) \/ BoardFails(w) \/ BoardRestores(w)

-----------------------------------------------------------------------------
(* Discovery: add_job() looks for the posting, then inserts or updates.  A  *)
(* listing of a board is known again by its link, with or without the link  *)
(* to the application that names the posting.                               *)

AddReads ==
  /\ adder.pc = "idle" /\ Happens
  /\ \E source \in {"public", "board"}, key \in Postings \cup {Nobody} :
       LET same == {r \in Present : row[r].key = key /\ key # Nobody}
           listed == {r \in Present : source = "board" /\ row[r].source = "board"
                                     /\ (key = Nobody \/ row[r].key = Nobody)}
           found == same \cup listed
       IN /\ source = "public" => key # Nobody
          /\ \/ /\ same = {}
                /\ \E r \in Rows \ Present :
                     /\ \A q \in Rows \ Present : r <= q
                     /\ adder' = [pc |-> "insert", row |-> r, source |-> source, key |-> key]
             \/ \E r \in found : adder' =
                  [NoAdd EXCEPT !.row = r, !.key = key, !.pc =
                     IF source = "board" /\ row[r].source = "public" /\ row[r].st # "done"
                     THEN "adopt" ELSE "update"]
  /\ UNCHANGED <<row, recent, worker>>

\* A board's observation of a public lead gives it to the board's worker.
AddWrites ==
  LET r == adder.row
      key == IF row[r].key = Nobody THEN adder.key ELSE row[r].key IN
  /\ adder.pc # "idle"
  /\ \E base \in Reasons, same \in {row[r].reason} :
       \/ /\ adder.pc = "insert"
          /\ row' \in Served([row EXCEPT ![r] = Discovered(adder.source, adder.key, base)])
       \/ /\ adder.pc = "adopt"
          /\ \E reason \in {base, same} : row' \in Served([row EXCEPT ![r] =
               [@ EXCEPT !.source = "board", !.st = "pending", !.eligible = FALSE,
                         !.removed = FALSE, !.reason = reason]])
       \/ /\ adder.pc = "update"
          /\ \E reason \in {base, same} : row' \in Served([row EXCEPT ![r] =
               [@ EXCEPT !.reason = reason, !.key = key]])
  /\ adder' = NoAdd /\ UNCHANGED <<recent, worker, events>>

-----------------------------------------------------------------------------
(* Maintenance, operators, and the coordinator.                             *)

Requeued(J, R) == [r \in Rows |-> IF r \in R THEN
  [J[r] EXCEPT !.st = "pending", !.stamped = FALSE, !.removed = FALSE] ELSE J[r]]

\* A start gives out the slots of employers with a capped job again.
Released == IF \E r \in Present : row[r].reason = "cap" THEN Served(row) ELSE {row}

\* _requeue_stale_processing_rows(), by itself or at a start: the board rows whose
\* claim is stale are requeued, of all sources at once.
Maintenance ==
  \E J \in {row} \cup Released :
  \E R \in SUBSET {r \in Present : /\ row[r].source = "board" /\ row[r].st = "processing"
                                   /\ row[r].stamped => Stale(r)} :
    /\ R # {} \/ J # row
    /\ \A r \in Present \ R : row[r].source = "board" /\ row[r].st = "processing" =>
                                         r \in recent \/ (row[r].stamped /\ Living(r))
    /\ row' = Requeued(J, R) /\ Overtakes(R)
    /\ UNCHANGED <<recent, worker, adder>>

\* requeue_job() and its bulk forms, in any status.
Requeue(r) ==
  /\ r \in Present /\ (row[r].source = "board" \/ InScope(r))
  /\ row' = Requeued(row, {r}) /\ Happens /\ UNCHANGED <<recent, worker, adder>>

\* set_enrichment_status_for_job_ids(): the status alone.
Override(r, st) ==
  /\ r \in Present /\ row' = [row EXCEPT ![r].st = st]
  /\ Happens /\ UNCHANGED <<recent, worker, adder>>

\* The coordinator takes a job that is done and eligible, excluded or not, and
\* writes what became of it past C1.
C4Claims(r) ==
  /\ row[r].status = "new" /\ row[r].st = "done" /\ row[r].eligible
  /\ row' = [row EXCEPT ![r].status = "claimed"]
  /\ UNCHANGED <<recent, worker, adder, events>>
C4Applied(r) ==
  /\ row[r].status = "claimed" /\ row' = [row EXCEPT ![r].status = "applied"]
  /\ UNCHANGED <<recent, worker, adder, events>>

SecondPasses ==
  /\ recent # {} /\ recent' = {} /\ UNCHANGED <<row, worker, adder, events>>

Next ==
  \/ \E w \in Workers, r \in Rows : ClaimPublic(w, r) \/ ClaimBoard(w, r)
  \/ \E w \in Workers : Finishes(w) \/ WorkerDies(w)
  \/ AddReads \/ AddWrites \/ Maintenance \/ SecondPasses
  \/ \E r \in Rows : \/ Requeue(r) \/ C4Claims(r) \/ C4Applied(r)
                     \/ \E st \in Overrides : Override(r, st)

Spec == Init /\ [][Next]_vars
=============================================================================
