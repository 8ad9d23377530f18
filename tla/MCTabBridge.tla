---------------------------- MODULE MCTabBridge -----------------------------
(***************************************************************************)
(* Two callers that were given the same tab.                               *)
(***************************************************************************)
EXTENDS TabBridge, TLC

CONSTANTS CallerA, CallerB, SharedTab

MCCallers == {CallerA, CallerB}
MCTabs == {SharedTab}
MCShared == [c \in MCCallers |-> SharedTab]
\* Two callers of one tab are interchangeable.
MCSymmetry == Permutations(MCCallers)
=============================================================================
