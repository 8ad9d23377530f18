----------------------------- MODULE LeadOwner -----------------------------
(***************************************************************************)
(* What the queue of public leads promises (hunter/db.py): a lead is being *)
(* verified by the worker that claimed it last, and only the verdict of    *)
(* that worker, one for each claim, can make it eligible for application.  *)
(* A claim is known by its second: of several claims within one second     *)
(* each may be the one that decides.                                       *)
(***************************************************************************)
CONSTANTS Leads, Workers, Nothing

VARIABLES
  holding,    \* the lead that each worker believes it owns
  bearers,    \* the workers whose claim is the lead's last one
  open,       \* leads that wait for the verdict of their last claim
  fresh,      \* leads claimed in the second that runs
  eligible
leadVars == <<holding, bearers, open, fresh, eligible>>

Init ==
  /\ holding = [w \in Workers |-> Nothing]
  /\ bearers = [r \in Leads |-> {}]
  /\ open = {} /\ fresh = {} /\ eligible = {}

\* Also from a worker that is too slow or gone: it bears the last claim no more.
Take(w, r) ==
  /\ holding[w] = Nothing
  /\ holding' = [holding EXCEPT ![w] = r]
  /\ \E S \in SUBSET {v \in Workers : holding[v] = r} :
       /\ r \notin fresh => S = {}
       /\ bearers' = [bearers EXCEPT ![r] = S \cup {w}]
  /\ open' = open \cup {r} /\ fresh' = fresh \cup {r}
  /\ UNCHANGED eligible

Verdict(w, r) ==
  /\ holding[w] = r /\ w \in bearers[r] /\ r \in open
  /\ holding' = [holding EXCEPT ![w] = Nothing]
  /\ bearers' = [bearers EXCEPT ![r] = {}]
  /\ open' = open \ {r}
  /\ eligible' \in {eligible \cup {r}, eligible \ {r}}
  /\ UNCHANGED fresh

\* The worker dies, or finds that the lead does not wait for it any more.
Leave(w) ==
  /\ holding[w] # Nothing
  /\ holding' = [holding EXCEPT ![w] = Nothing]
  /\ bearers' = [r \in Leads |-> bearers[r] \ {w}]
  /\ UNCHANGED <<open, fresh, eligible>>

\* An operator, another lane or an application takes the lead away, and with it
\* perhaps the mark of the last claim.
Lose(r) ==
  /\ open' = open \ {r}
  /\ bearers' \in {bearers, [bearers EXCEPT ![r] = {}]}
  /\ fresh' \in {fresh, fresh \cup {r}}
  /\ eligible' \in {eligible, eligible \ {r}}
  /\ UNCHANGED holding

\* An operator sets the status by hand: whoever still bears the last claim decides.
Reopen(r) ==
  /\ open' = open \cup {r} /\ UNCHANGED <<holding, bearers, fresh, eligible>>

SecondPasses == fresh' = {} /\ UNCHANGED <<holding, bearers, open, eligible>>

Next ==
  \/ \E w \in Workers, r \in Leads : Take(w, r) \/ Verdict(w, r)
  \/ \E w \in Workers : Leave(w)
  \/ \E r \in Leads : Lose(r) \/ Reopen(r)
  \/ SecondPasses

Spec == Init /\ [][Next]_leadVars
=============================================================================
