---------------------------- MODULE JourneyStore ----------------------------
(***************************************************************************)
(* The durable state of one C3 journey: what FileJourneyStateStore          *)
(* (executioner/src/journey/state-store.ts) answers to a transition of the *)
(* record in its file.  Mutations of a directory run one after the other,  *)
(* and a file is replaced by a rename, so each is one step; the caller     *)
(* learns of it later.  Operation ids are fresh and a page id is never set *)
(* by the orchestrator, so neither is part of the record.                  *)
(***************************************************************************)
EXTENDS Naturals

JourneyStatus == {"ready", "running", "cancelling", "review_reached", "blocked",
                  "cancelled", "failed"}
terminalStatuses == {"review_reached", "blocked", "cancelled", "failed"}

\* Mutant of legalNextStatuses: a journey being cancelled may fail.
nextStatusesCancellingFails(s) ==
  CASE s = "ready"      -> {"running"}
    [] s = "running"    -> {"running", "cancelling", "review_reached", "blocked", "failed"}
    [] s = "cancelling" -> {"cancelling", "cancelled", "failed"}
    [] OTHER            -> {}

legalNextStatuses(s) ==
  CASE s = "ready"      -> {"running"}
    [] s = "running"    -> {"running", "cancelling", "review_reached", "blocked", "failed"}
    [] s = "cancelling" -> {"cancelling", "cancelled"}
    [] OTHER            -> {}

Record == [status : JourneyStatus, revision : Nat]
Ready == [status |-> "ready", revision |-> 0]

Answers == {"ok", "conflict", "illegal", "unavailable", "cancelled"}
retryable(answer) == answer \in {"conflict", "unavailable"}

\* Mutant of Outcome: a cancellation is accepted in every status.
OutcomeCancelsAll(record, status, expected) ==
  IF expected # record.revision THEN [answer |-> "conflict", state |-> record]
  ELSE IF status \in legalNextStatuses(record.status) \cup {"cancelling"}
  THEN [answer |-> "ok", state |-> [status |-> status, revision |-> record.revision + 1]]
  ELSE [answer |-> "illegal", state |-> record]

\* applyTransition(): compare and set; a terminal record only acknowledges
\* the status it has.
Outcome(record, status, expected) ==
  IF expected # record.revision THEN [answer |-> "conflict", state |-> record]
  ELSE IF record.status \in terminalStatuses /\ status = record.status
  THEN [answer |-> "ok", state |-> record]
  ELSE IF status \in legalNextStatuses(record.status)
  THEN [answer |-> "ok", state |-> [status |-> status, revision |-> record.revision + 1]]
  ELSE [answer |-> "illegal", state |-> record]
=============================================================================
