------------------------------ MODULE PageLoop ------------------------------
(***************************************************************************)
(* F9: the loop that walks a journey through the pages of a form           *)
(* (control/orchestrator/loop/index.ts), with the driver and the verifier  *)
(* it calls, on the BrowserSession of F3.  An action here takes the result *)
(* of one call of the session and runs on to the next: what the loop asks  *)
(* of the other providers in between (answers, safety, understanding)      *)
(* reads only, so it is a choice over what they may say.                   *)
(***************************************************************************)
EXTENDS BrowserSession, FiniteSets

CONSTANTS
  Required,          \* fields that have to be verified before a page is left
  PageLimit,         \* options.pageLimit
  MutationRetries,   \* options.mutationRetryLimit
  ProviderRetries,   \* options.providerRetryLimit
  VerifyReads        \* maxAttempts of the verifier

ASSUME PageLoopAssumption ==
  /\ Required \subseteq Fields
  /\ PageLimit \in Nat \ {0}
  /\ MutationRetries \in Nat /\ ProviderRetries \in Nat
  /\ VerifyReads \in Nat \ {0}

VARIABLE loop

vars == <<loop, sessionVars>>

\* page is pageId, owned is ownedSessionId (0 is undefined), seen the page as
\* it was understood; tries counts attempts of the retry in progress and reads
\* those of the verifier, whose last answer is answer.
LoopType == [pc : {"start", "observe", "drive", "verify", "navigate", "arrive",
                   "recover_close", "recover_start", "recover_observe", "close", "done"},
             browser : Tabs \cup {0}, owned : Tabs \cup {0},
             page : Pages \cup {0}, seen : Pages \cup {0},
             todo : SUBSET Fields, verified : SUBSET Fields,
             field : Fields \cup {NextButton},
             tries : 0..(MutationRetries + ProviderRetries), reads : 0..(VerifyReads - 1),
             answer : {"none", "timeout", "rejected", "unavailable"},
             pages : 0..PageLimit,
             result : {"none", "review", "blocked", "failed"}]

TypeOK == SessionTypeOK /\ loop \in LoopType

Init ==
  /\ SessionInit
  /\ loop = [pc |-> "start", browser |-> 0, owned |-> 0, page |-> 0, seen |-> 0,
             todo |-> {}, verified |-> {}, field |-> NextButton, tries |-> 0, reads |-> 0,
             answer |-> "none", pages |-> 0, result |-> "none"]

-----------------------------------------------------------------------------
Request(kind) == [NoOp EXCEPT !.kind = kind, !.pc = "called"]
At(pc) == loop.pc = pc /\ op.pc = "replied"

\* The loop goes on as l and calls the session.
Calls(l, pc, request) ==
  /\ loop' = [l EXCEPT !.pc = pc]
  /\ op' = request

CallStart(l) == Calls(l, "start", Request("start"))
CallObserve(l, pc) ==
  Calls(l, pc, [Request("observe") EXCEPT !.id = l.browser, !.page = l.page])
CallMutate(l, f) ==
  Calls([l EXCEPT !.field = f, !.reads = 0, !.answer = "none"], "drive",
        [Request("mutate") EXCEPT !.id = l.browser, !.page = l.page, !.field = f])
CallNavigate(l) ==
  Calls([l EXCEPT !.tries = 0], "navigate",
        [Request("navigate") EXCEPT !.id = l.browser, !.page = l.page])

\* runPageLoop returns; executeJourney closes the session it was told of.
Returns(l, result) ==
  LET end == [l EXCEPT !.result = result, !.todo = {}, !.field = NextButton, !.tries = 0] IN
  IF l.owned = 0
  THEN Calls(end, "done", NoOp)
  ELSE Calls(end, "close", [Request("close") EXCEPT !.id = l.owned, !.keeps = TRUE])

Fails(l) == Returns(l, "failed")

\* retryDisposition: of what the session reports only a timeout is retryable,
\* and only if the call was made with effect "none".
Retries(pc) ==
  /\ op.reply = "timeout" /\ loop.tries < ProviderRetries
  /\ LET l == [loop EXCEPT !.tries = @ + 1] IN
     IF pc = "start" THEN CallStart(l) ELSE CallObserve(l, pc)

GivesUp == op.reply # "ok" /\ ~(op.reply = "timeout" /\ loop.tries < ProviderRetries) /\ Fails(loop)

-----------------------------------------------------------------------------
(* The fields of a page, then its completion.                              *)

\* Mutant of NextField: a field that was driven counts as verified.
NextFieldUnverified(l) ==
  LET done == [l EXCEPT !.pages = @ + 1, !.tries = 0] IN
  \/ Fails(l)
  \/ /\ l.todo # {}
     /\ \/ \E f \in l.todo : CallMutate([l EXCEPT !.todo = @ \ {f}, !.tries = 0], f)
        \/ Returns(l, "blocked")
  \/ l.todo = {} /\ l.seen = LastPage /\ Returns(done, "review")
  \/ l.todo = {} /\ l.seen # LastPage /\ CallNavigate(done)

\* Fields that are hidden or populated are skipped; an answer may be missing
\* (the page is blocked), and a provider may fail or find the run cancelled.
NextField(l) ==
  LET done == [l EXCEPT !.pages = @ + 1, !.tries = 0] IN
  \/ Fails(l)
  \/ /\ l.todo # {}
     /\ \/ \E f \in l.todo : CallMutate([l EXCEPT !.todo = @ \ {f}, !.tries = 0], f)
        \/ Returns(l, "blocked")
  \/ l.todo = {} /\ l.seen = LastPage /\ Returns(done, "review")
  \/ /\ l.todo = {} /\ l.seen # LastPage
     /\ Required \subseteq l.verified
     /\ CallNavigate(done)

\* page_understanding of what was observed; it may refuse to name the page.
Understood(l) ==
  LET form == tab[l.browser].form
  IN [l EXCEPT !.seen = tab[l.browser].at, !.verified = {}, !.tries = 0,
               !.todo = {f \in Fields : form[f] = "empty"}]

Starts ==
  /\ loop.pc = "start" /\ op.pc = "idle"
  /\ CallStart(loop)
  /\ UNCHANGED <<tab, session, effect, aborted>>

Started ==
  /\ At("start")
  /\ \/ /\ op.reply = "ok"
        /\ CallObserve([loop EXCEPT !.browser = session.id, !.owned = session.id,
                                    !.page = session.page, !.tries = 0], "observe")
     \/ Retries("start")
     \/ GivesUp
  /\ UNCHANGED <<tab, session, effect, aborted>>

Observed ==
  /\ At("observe")
  /\ \/ /\ op.reply = "ok"
        /\ \/ NextField(Understood(loop))
           \/ Returns(loop, "blocked")
     \/ Retries("observe")
     \/ GivesUp
  /\ UNCHANGED <<tab, session, effect, aborted>>

-----------------------------------------------------------------------------
(* A field is written and verified.                                        *)

\* sessionRecoveryDisposition: the session is left for a fresh one, and then
\* the error that is on its way ends the journey.
Recovers ==
  Calls([loop EXCEPT !.tries = 0, !.result = "failed"], "recover_close",
        [Request("close") EXCEPT !.id = loop.browser, !.keeps = TRUE])

Driven ==
  /\ At("drive")
  /\ \/ op.reply = "ok" /\ CallObserve(loop, "verify")
     \/ op.reply \in {"uncertain", "cancelled"} /\ Recovers
     \/ op.reply \in {"timeout", "failed"} /\ Fails(loop)
  /\ UNCHANGED <<tab, session, effect, aborted>>

\* What the verifier has when its reads are used up.
Verdict(answer) ==
  IF answer = "timeout" THEN Fails(loop)
  ELSE IF answer = "rejected" /\ loop.tries < MutationRetries
  THEN CallMutate([loop EXCEPT !.tries = @ + 1], loop.field)
  ELSE Returns(loop, "blocked")

ReadAgain(answer) ==
  IF loop.reads + 1 < VerifyReads
  THEN CallObserve([loop EXCEPT !.reads = @ + 1, !.answer = answer], "verify")
  ELSE Verdict(answer)

Verified ==
  /\ At("verify")
  /\ LET value == tab[loop.browser].form[loop.field]
         kept == IF loop.answer = "rejected" THEN "rejected" ELSE "unavailable"
     IN \/ (aborted \/ op.reply = "cancelled") /\ Recovers
        \/ ~aborted /\ op.reply = "failed" /\ Fails(loop)
        \/ /\ ~aborted /\ op.reply = "timeout"
           /\ ReadAgain(IF loop.answer = "none" THEN "timeout" ELSE loop.answer)
        \/ /\ ~aborted /\ op.reply = "ok"
           /\ \/ /\ value = "wanted"
                 /\ NextField([loop EXCEPT !.verified = @ \cup {loop.field},
                                           !.reads = 0, !.answer = "none"])
              \/ value # "wanted" /\ ReadAgain("rejected")
              \/ ReadAgain(kept)                \* the control is not readable
              \/ Returns(loop, "blocked")       \* or there are two of it
  /\ UNCHANGED <<tab, session, effect, aborted>>

-----------------------------------------------------------------------------
(* The next page.                                                          *)

Navigated ==
  /\ At("navigate")
  /\ \/ /\ op.reply = "ok"
        /\ CallObserve([loop EXCEPT !.page = session.page], "arrive")
     \/ op.reply # "ok" /\ Fails(loop)
  /\ UNCHANGED <<tab, session, effect, aborted>>

Arrived ==
  /\ At("arrive")
  /\ \/ /\ op.reply = "ok"
        /\ LET there == Understood(loop) IN
           \/ IF there.seen # loop.seen + 1 THEN Fails(there)
              ELSE IF there.seen = LastPage THEN Returns(there, "review")
              ELSE IF loop.pages < PageLimit THEN NextField(there)
              ELSE Fails(there)
           \/ Returns(loop, "blocked")
     \/ Retries("arrive")
     \/ GivesUp
  /\ UNCHANGED <<tab, session, effect, aborted>>

-----------------------------------------------------------------------------
(* refreshSession: close, start, observe, and then the journey stops.  Its *)
(* calls ignore the signal of the run.                                     *)

RecoveryCloses ==
  /\ At("recover_close")
  /\ IF op.reply = "ok"
     THEN Calls([loop EXCEPT !.owned = 0], "recover_start", [Request("start") EXCEPT !.keeps = TRUE])
     ELSE Fails(loop)
  /\ UNCHANGED <<tab, session, effect, aborted>>

\* Mutant of RecoveryStarts: the fresh session is not owned.
RecoveryStartsUnowned ==
  /\ At("recover_start")
  /\ IF op.reply = "ok"
     THEN LET l == [loop EXCEPT !.browser = session.id, !.page = session.page]
          IN Calls(l, "recover_observe", [Request("observe") EXCEPT
                     !.id = l.browser, !.page = l.page, !.keeps = TRUE])
     ELSE Fails(loop)
  /\ UNCHANGED <<tab, session, effect, aborted>>

RecoveryStarts ==
  /\ At("recover_start")
  /\ IF op.reply = "ok"
     THEN LET l == [loop EXCEPT !.browser = session.id, !.owned = session.id, !.page = session.page]
          IN Calls(l, "recover_observe", [Request("observe") EXCEPT
                     !.id = l.browser, !.page = l.page, !.keeps = TRUE])
     ELSE Fails(loop)
  /\ UNCHANGED <<tab, session, effect, aborted>>

\* Mutant of RecoveryEnds: the fresh session is used to go on.
RecoveryResumes ==
  /\ At("recover_observe")
  /\ IF op.reply = "ok" THEN NextField(Understood(loop)) ELSE Fails(loop)
  /\ UNCHANGED <<tab, session, effect, aborted>>

RecoveryEnds ==
  /\ At("recover_observe")
  /\ Fails(loop)
  /\ UNCHANGED <<tab, session, effect, aborted>>

Closed ==
  /\ At("close")
  /\ Calls(loop, "done", NoOp)
  /\ UNCHANGED <<tab, session, effect, aborted>>

LoopStep ==
  \/ Starts \/ Started \/ Observed \/ Driven \/ Verified \/ Navigated \/ Arrived
  \/ RecoveryCloses \/ RecoveryStarts \/ RecoveryEnds \/ Closed

\* The owner cancels the journey.
Abort ==
  /\ ~aborted /\ loop.pc # "done"
  /\ aborted' = TRUE
  /\ UNCHANGED <<tab, session, effect, op, loop>>

Next ==
  \/ LoopStep
  \/ Serve /\ UNCHANGED loop
  \/ \E s \in Slots : EffectStep(s) /\ UNCHANGED loop
  \/ Abort

Spec == Init /\ [][Next]_vars

\* Calls are served and given up in time, and effects go on whether or not
\* anyone waits for them.
FairSpec ==
  /\ Spec
  /\ WF_vars(LoopStep)
  /\ WF_vars(Serve /\ UNCHANGED loop)
  /\ WF_vars((\E s \in Slots : EffectStep(s)) /\ UNCHANGED loop)
=============================================================================
