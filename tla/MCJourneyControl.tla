-------------------------- MODULE MCJourneyControl --------------------------
(***************************************************************************)
(* Two starts and two cancellations of one journey.                        *)
(***************************************************************************)
EXTENDS JourneyControl

CONSTANTS StartA, StartB, CancelA, CancelB

MCStarts == {StartA, StartB}
MCCancels == {CancelA, CancelB}
=============================================================================
