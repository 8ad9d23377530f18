---------------------------- MODULE MCEnrichment ----------------------------
(***************************************************************************)
(* Small instances of EnrichmentQueue for TLC.                             *)
(***************************************************************************)
EXTENDS EnrichmentProps, TLC

MCRows == {1, 2}
Perms == Permutations(Workers)

\* One row with two workers and two events, or two rows with two out of a worker,
\* an event and a row that is C4's; two rows are not claimed in one second.
Small ==
  LET rows == Cardinality(Present)
      busy == Cardinality({w \in Workers : worker[w].pc # "idle"})
      taken == Cardinality({r \in Present : row[r].status \in {"claimed", "applied"}})
  IN /\ rows + busy <= 3 /\ rows + events <= 3
     /\ Cardinality(recent) <= 1
     /\ rows = 1 \/ busy + events + taken <= 2
=============================================================================
