----------------------------- MODULE SubmitOnce -----------------------------
(***************************************************************************)
(* What the product queue promises about the one irreversible thing it     *)
(* does, the click on an employer's final Submit button                    *)
(* (executioner/docs/product.md:82-85 and 140-141): the intention to       *)
(* submit is durable before the click, it is never withdrawn, and an       *)
(* application is clicked at most once, whatever crashes or fails.         *)
(***************************************************************************)
EXTENDS Naturals

CONSTANT Applications    \* the postings an application can be made to

VARIABLES intent,        \* applications with a durable intention to submit
          clicks         \* times the employer received the final click

vars == <<intent, clicks>>

Init == /\ intent = {}
        /\ clicks = [a \in Applications |-> 0]

\* The intention to submit application a reaches durable storage.
Intend(a) == /\ a \notin intent
             /\ intent' = intent \cup {a}
             /\ UNCHANGED clicks

\* The employer receives the click: only after the intention, and only once.
Click(a) == /\ a \in intent
            /\ clicks[a] = 0
            /\ clicks' = [clicks EXCEPT ![a] = 1]
            /\ UNCHANGED intent

Next == \E a \in Applications : Intend(a) \/ Click(a)

Spec == Init /\ [][Next]_vars
=============================================================================
