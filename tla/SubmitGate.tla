----------------------------- MODULE SubmitGate -----------------------------
(***************************************************************************)
(* What the coordinator promises about the final submit of a run, whatever *)
(* its callers do at the same time: it is recorded as submitted only after *)
(* it was approved, approved only after a fill result or an operator's     *)
(* review let it through, and none of the three is ever taken back.        *)
(***************************************************************************)
CONSTANT Runs

VARIABLES cleared, approved, submitted
gateVars == <<cleared, approved, submitted>>

Init ==
  /\ cleared = {}
  /\ approved = {}
  /\ submitted = {}

Clear(r) ==
  /\ cleared' = cleared \cup {r}
  /\ UNCHANGED <<approved, submitted>>

Approve(r) ==
  /\ r \in cleared
  /\ approved' = approved \cup {r}
  /\ UNCHANGED <<cleared, submitted>>

Submit(r) ==
  /\ r \in approved
  /\ submitted' = submitted \cup {r}
  /\ UNCHANGED <<cleared, approved>>

Next == \E r \in Runs : Clear(r) \/ Approve(r) \/ Submit(r)

Spec == Init /\ [][Next]_gateVars
=============================================================================
