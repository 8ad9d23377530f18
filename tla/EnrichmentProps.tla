-------------------------- MODULE EnrichmentProps --------------------------
(***************************************************************************)
(* What the enrichment queue of C1 must do and must never do.              *)
(***************************************************************************)
EXTENDS EnrichmentQueue

\* What list_c3_ready_jobs() hands over, as far as C1 decides it.
Ready == {r \in Present : /\ row[r].st = "done" /\ row[r].eligible
                          /\ row[r].reason = "none" /\ row[r].status # "applied"}

\* C1 never hands over more jobs of an employer and month than it has slots,
\* nor two copies of a posting, although slots are given out only by the
\* operations that think of them: removal and rediscovery, requeues, overrides,
\* late results of boards and statuses written by others all come in between.
ServedWithinCap ==
  /\ Cardinality(Ready) <= Slots
  /\ \A r, q \in Ready : r # q => row[r].key = Nobody \/ row[r].key # row[q].key

\* The lead each worker has claimed, the workers whose claim the row still bears,
\* and the rows that wait for the verdict of such a claim.
Holding == [w \in Workers |-> IF worker[w].pc = "public" THEN worker[w].row ELSE 0]
Bears(w, r) == worker[w].pc = "public" /\ worker[w].row = r /\ worker[w].mine
Marked == {r \in Present : row[r].source = "public" /\ row[r].stamped}
Bearers == [r \in Rows |-> {w \in Workers : r \in Marked /\ Bears(w, r)}]
Waiting == {r \in Rows : InScope(r) /\ row[r].st = "processing" /\ row[r].stamped}
EligibleLeads == {r \in Present : row[r].source = "public" /\ row[r].eligible}

\* A lead becomes eligible only by the verdict of a worker that bears its last
\* claim, one verdict for each claim: a result that comes after a requeue, a claim
\* in a later second, another verdict, an application or a board's observation
\* changes nothing, whatever status an operator sets by hand.
Lead == INSTANCE LeadOwner WITH Leads <- Rows, Nothing <- 0, holding <- Holding,
          bearers <- Bearers, open <- Waiting, fresh <- recent, eligible <- EligibleLeads
OneOwnerDecides == Lead!Spec
=============================================================================
