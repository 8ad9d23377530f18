--------------------------- MODULE BrowserSession ---------------------------
(***************************************************************************)
(* F3: the one browser page of a journey (browser/session.ts).  start,     *)
(* observe, mutate, navigate and close serve one caller, one call at a     *)
(* time.  bounded() gives up on an action after a timeout or when the      *)
(* caller's signal is aborted, but nothing stops the action: it goes on in *)
(* the page for as long as the page is open, next to the calls that follow *)
(* it.  An effect here is such an action; a call waits for at most one.    *)
(***************************************************************************)
EXTENDS Naturals

CONSTANTS
  Fields,       \* fields of a page
  Uploads,      \* those of them that take the resume
  NextButton,   \* what a navigation acts on
  LastPage,     \* the Review page; the pages before it have fields
  MaxTabs,      \* bound: browser pages ever opened
  Slots         \* bound: effects in flight at the same time

ASSUME BrowserAssumption ==
  /\ Uploads \subseteq Fields
  /\ NextButton \notin Fields
  /\ LastPage \in Nat \ {0}
  /\ MaxTabs \in Nat
  /\ Slots \subseteq Nat \ {0}

Pages == 1..LastPage
Tabs == 1..MaxTabs
Values == {"empty", "wanted", "other"}

VARIABLES
  tab,      \* the browser pages that start opened, and what their forms hold
  session,  \* the fields of the PlaywrightBrowserSession
  effect,   \* the actions in flight
  op,       \* the call being served, or its result
  aborted   \* the caller's signal

sessionVars == <<tab, session, effect, op, aborted>>

TabType == [st : {"none", "open", "closed"}, at : Pages, form : [Fields -> Values]]
NoTab == [st |-> "none", at |-> 1, form |-> [f \in Fields |-> "empty"]]

\* #page, #sessionId, #pageId, #closedSessionId (0 is undefined) and #invalidated.
SessionType == [tab : Tabs \cup {0}, id : Tabs \cup {0}, page : Pages \cup {0},
                closed : Tabs \cup {0}, invalid : BOOLEAN]
NoSession == [tab |-> 0, id |-> 0, page |-> 0, closed |-> 0, invalid |-> FALSE]

\* left: attempts that are left after the current one.
EffectType == [pc : {"off", "rebind", "write", "check", "count", "click", "arrive"},
               tab : Tabs \cup {0}, page : Pages \cup {0},
               field : Fields \cup {NextButton}, left : 0..1]
NoEffect == [pc |-> "off", tab |-> 0, page |-> 0, field |-> NextButton, left |-> 0]

\* late: the effect timed out; keeps: the call ignores the caller's signal;
\* closing: the page that releaseOwnedResources closes.
OpType == [kind : {"none", "start", "observe", "mutate", "navigate", "close"},
           pc : {"idle", "called", "waiting", "reconcile", "again", "releasing", "replied"},
           id : Tabs \cup {0}, page : Pages \cup {0}, field : Fields \cup {NextButton},
           slot : Slots \cup {0}, late : BOOLEAN, keeps : BOOLEAN, closing : Tabs \cup {0},
           reply : {"none", "ok", "timeout", "cancelled", "uncertain", "failed"}]
NoOp == [kind |-> "none", pc |-> "idle", id |-> 0, page |-> 0, field |-> NextButton,
         slot |-> 0, late |-> FALSE, keeps |-> FALSE, closing |-> 0, reply |-> "none"]

SessionTypeOK ==
  /\ tab \in [Tabs -> TabType]
  /\ session \in SessionType
  /\ effect \in [Slots -> EffectType]
  /\ op \in OpType
  /\ aborted \in BOOLEAN

SessionInit ==
  /\ tab = [t \in Tabs |-> NoTab]
  /\ session = NoSession
  /\ effect = [s \in Slots |-> NoEffect]
  /\ op = NoOp
  /\ aborted = FALSE

-----------------------------------------------------------------------------
Cancelled == aborted /\ ~op.keeps
Serving(kind, pc) == op.kind = kind /\ op.pc = pc
Reply(r) == op' = [op EXCEPT !.pc = "replied", !.reply = r]

Active ==
  /\ ~session.invalid
  /\ session.tab # 0 /\ tab[session.tab].st = "open"
  /\ op.id = session.id /\ op.page = session.page

\* The page an effect was started on is closed, or shows other fields.
Gone(e) == tab[e.tab].st # "open" \/ tab[e.tab].at # e.page

\* The Review page has nothing to fill; elsewhere the site may have filled a
\* field already.
Forms(p) == IF p = LastPage THEN {[f \in Fields |-> "other"]}
                            ELSE [Fields -> {"empty", "other"}]

\* Mutant of Release: the result does not wait for the page to close.
ReleaseLater(r) ==
  /\ session' = [session EXCEPT !.tab = 0, !.invalid = (r = "uncertain")]
  /\ op' = [op EXCEPT !.pc = "replied", !.reply = r]

\* releaseOwnedResources forgets the page before it waits for it to close.
Release(r) ==
  /\ session' = [session EXCEPT !.tab = 0, !.id = 0, !.page = 0]
  /\ op' = [op EXCEPT !.pc = "releasing", !.reply = r, !.closing = session.tab]

\* After an effect that may have happened the session keeps its ids, so that
\* later calls find it invalidated.  Nothing reads the form of a closed page.
Released ==
  /\ op.pc = "releasing"
  /\ tab' = [t \in Tabs |-> IF t = op.closing
                             THEN [tab[t] EXCEPT !.st = "closed", !.form = NoTab.form] ELSE tab[t]]
  /\ session' = IF op.reply = "uncertain"
                THEN [session EXCEPT !.id = op.id, !.page = op.page, !.invalid = TRUE]
                ELSE session
  /\ Reply(op.reply)
  /\ UNCHANGED <<effect, aborted>>

-----------------------------------------------------------------------------
(* start, observe and close.                                               *)

OpensPage ==
  /\ Serving("start", "called")
  /\ LET fresh == [session EXCEPT !.invalid = FALSE]
         next == {t \in Tabs : tab[t].st = "none"}
     IN \/ Cancelled /\ Reply("cancelled") /\ UNCHANGED <<tab, session>>
        \/ ~Cancelled /\ session.tab # 0 /\ Reply("failed") /\ UNCHANGED <<tab, session>>
        \/ /\ ~Cancelled /\ session.tab = 0
           /\ \/ /\ session' = [fresh EXCEPT !.id = 0, !.page = 0]   \* no browser
                 /\ Reply("failed")
                 /\ UNCHANGED tab
              \/ \E t \in next :
                   /\ \A u \in next : t <= u
                   /\ \E form \in Forms(1) :
                        tab' = [tab EXCEPT ![t] = [st |-> "open", at |-> 1, form |-> form]]
                   /\ session' = [fresh EXCEPT !.tab = t, !.id = 0, !.page = 0]
                   /\ op' = [op EXCEPT !.pc = "waiting"]
  /\ UNCHANGED <<effect, aborted>>

Opened ==
  /\ Serving("start", "waiting")
  /\ \/ /\ session' = [session EXCEPT !.id = session.tab, !.page = tab[session.tab].at, !.closed = 0]
        /\ Reply("ok")
     \/ Release("timeout")
     \/ Release("failed")
     \/ Cancelled /\ Release("cancelled")
  /\ UNCHANGED <<tab, effect, aborted>>

\* An inspection only reads: the caller looks at tab when it takes the "ok",
\* for an effect that writes between the two might as well write after both.
Observe ==
  /\ Serving("observe", "called")
  /\ \/ Cancelled /\ Reply("cancelled")
     \/ ~Cancelled /\ ~Active /\ Reply("failed")
     \/ ~Cancelled /\ Active /\ \E r \in {"ok", "timeout", "failed"} : Reply(r)
  /\ UNCHANGED <<tab, session, effect, aborted>>

Close ==
  /\ Serving("close", "called")
  /\ IF Cancelled THEN Reply("cancelled") /\ UNCHANGED session
     ELSE IF op.id = session.closed THEN Reply("ok") /\ UNCHANGED session
     ELSE IF op.id # session.id THEN Reply("failed") /\ UNCHANGED session
     ELSE /\ session' = [session EXCEPT !.tab = 0, !.id = 0, !.page = 0, !.closed = op.id]
          /\ op' = [op EXCEPT !.pc = "releasing", !.reply = "ok", !.closing = session.tab]
  /\ UNCHANGED <<tab, effect, aborted>>

-----------------------------------------------------------------------------
(* A call begins an effect and waits for it.                               *)

Begin(pc, left, waiting) ==
  \E s \in Slots :
    /\ effect[s].pc = "off" /\ \A r \in Slots : effect[r].pc = "off" => s <= r
    /\ effect' = [effect EXCEPT ![s] = [pc |-> pc, tab |-> session.tab, page |-> op.page,
                                        field |-> op.field, left |-> left]]
    /\ op' = [op EXCEPT !.pc = waiting, !.slot = s]

\* The guards of both before their effect; "failed" when the admission, the
\* target or the artifact is not as it should be.
Refuses(kind) ==
  /\ Serving(kind, "called")
  /\ \/ Cancelled /\ Reply("cancelled")
     \/ Reply("failed")
  /\ UNCHANGED <<tab, session, effect, aborted>>

Mutate ==
  /\ Serving("mutate", "called") /\ ~Cancelled /\ Active
  /\ Begin("rebind", 1, "waiting")
  /\ UNCHANGED <<tab, session, aborted>>

Navigate ==
  /\ Serving("navigate", "called") /\ ~Cancelled /\ Active
  /\ Begin("count", 0, "waiting")
  /\ UNCHANGED <<tab, session, aborted>>

\* The value that a call gets from the effect it waits for.
Deliver(outcome, started) ==
  CASE outcome = "applied" ->
         /\ session' = IF op.kind = "navigate"
                       THEN [session EXCEPT !.page = tab[session.tab].at] ELSE session
         /\ Reply("ok")
    [] outcome = "ambiguous" /\ op.pc = "waiting" -> Reply("failed") /\ UNCHANGED session
    [] outcome = "error" /\ op.kind = "mutate" /\ op.pc = "waiting" ->
         op' = [op EXCEPT !.pc = "reconcile", !.slot = 0] /\ UNCHANGED session
    [] outcome = "error" /\ op.kind = "navigate" /\ ~started -> Reply("failed") /\ UNCHANGED session
    [] OTHER -> Release("uncertain")

\* The effect in slot s is over; nobody hears of one that was given up.
Ends(s, outcome) ==
  /\ effect' = [effect EXCEPT ![s] = NoEffect]
  /\ IF op.pc \in {"waiting", "again"} /\ op.slot = s
     THEN Deliver(outcome, effect[s].pc # "count")
     ELSE UNCHANGED <<session, op>>

Goes(s, pc) ==
  /\ effect' = [effect EXCEPT ![s].pc = pc]
  /\ UNCHANGED <<session, op>>

-----------------------------------------------------------------------------
(* What an effect does in the page (the function effect of mutate, and     *)
(* the action of navigate).                                                *)

\* The control is looked up again.
Rebind(s) ==
  /\ effect[s].pc = "rebind"
  /\ LET e == effect[s] IN
       \/ Gone(e) /\ Ends(s, "error")
       \/ /\ ~Gone(e)
          /\ \/ Ends(s, "ambiguous")
             \/ IF e.field \in Uploads /\ tab[e.tab].form[e.field] = "wanted"
                THEN Ends(s, "applied") ELSE Goes(s, "write")
  /\ UNCHANGED <<tab, aborted>>

\* The site takes the value, makes something else of it or drops it.  Some
\* interactions of the adapter read their own result back.
Write(s) ==
  /\ effect[s].pc = "write"
  /\ LET e == effect[s] IN
       \/ Gone(e) /\ Ends(s, "error") /\ UNCHANGED tab
       \/ /\ ~Gone(e)
          /\ \E v \in {"wanted", "other", tab[e.tab].form[e.field]} :
               /\ tab' = [tab EXCEPT ![e.tab].form[e.field] = v]
               /\ \/ Goes(s, "check")
                  \/ v = "wanted" /\ Ends(s, "applied")
  /\ UNCHANGED aborted

\* reconcileCommittedMutation: a text that is neither empty nor wanted is
\* uncertain, a choice that is not the wanted one absent.
Reads(t, p, f) ==
  LET v == tab[t].form[f] IN
  IF Gone([tab |-> t, page |-> p]) THEN {"uncertain"}
  ELSE IF v = "wanted" THEN {"committed"}
  ELSE IF v = "empty" THEN {"absent"}
  ELSE IF f \in Uploads THEN {"uncertain"} ELSE {"uncertain", "absent"}

Check(s) ==
  /\ effect[s].pc = "check"
  /\ \E r \in Reads(effect[s].tab, effect[s].page, effect[s].field) :
       \/ r = "committed" /\ Ends(s, "applied")
       \/ /\ r = "absent" /\ effect[s].left > 0
          /\ effect' = [effect EXCEPT ![s].pc = "rebind", ![s].left = @ - 1]
          /\ UNCHANGED <<session, op>>
       \/ (r = "absent" => effect[s].left = 0) /\ r # "committed" /\ Ends(s, "error")
  /\ UNCHANGED <<tab, aborted>>

\* navigate counts the buttons before it calls the click an effect.
Count(s) ==
  /\ effect[s].pc = "count"
  /\ \/ Gone(effect[s]) /\ Ends(s, "error")
     \/ ~Gone(effect[s]) /\ (Ends(s, "ambiguous") \/ Goes(s, "click"))
  /\ UNCHANGED <<tab, aborted>>

\* The site shows another page, or keeps this one.
Click(s) ==
  /\ effect[s].pc = "click"
  /\ LET e == effect[s] IN
       \/ Gone(e) /\ Ends(s, "error") /\ UNCHANGED tab
       \/ /\ ~Gone(e)
          /\ \E p \in Pages \ {e.page} : \E form \in Forms(p) :
               tab' = [tab EXCEPT ![e.tab].at = p, ![e.tab].form = form]
          /\ Goes(s, "arrive")
       \/ ~Gone(e) /\ UNCHANGED tab /\ (Goes(s, "arrive") \/ Ends(s, "ambiguous"))
  /\ UNCHANGED aborted

\* An unreadable coordinate is an error.  A page that stays is waited for.
Arrive(s) ==
  /\ effect[s].pc = "arrive"
  /\ LET e == effect[s] IN
       \/ tab[e.tab].st # "open" /\ Ends(s, "error")
       \/ /\ tab[e.tab].st = "open" /\ tab[e.tab].at # e.page
          /\ Ends(s, "applied") \/ Ends(s, "error")
  /\ UNCHANGED <<tab, aborted>>

EffectStep(s) ==
  Rebind(s) \/ Write(s) \/ Check(s) \/ Count(s) \/ Click(s) \/ Arrive(s)

-----------------------------------------------------------------------------
(* bounded() gives up.                                                     *)

MutateTimesOut ==
  /\ Serving("mutate", "waiting") \/ Serving("mutate", "again")
  /\ IF op.pc = "again" THEN Release("uncertain")
     ELSE op' = [op EXCEPT !.pc = "reconcile", !.slot = 0, !.late = TRUE] /\ UNCHANGED session
  /\ UNCHANGED <<tab, effect, aborted>>

MutateCancelled ==
  /\ Serving("mutate", "waiting") \/ Serving("mutate", "again")
  /\ Cancelled
  /\ Release("uncertain")
  /\ UNCHANGED <<tab, effect, aborted>>

\* After a timeout the effect is repeated once if the page shows nothing of it.
MutateReconciles ==
  /\ Serving("mutate", "reconcile")
  /\ \E r \in Reads(session.tab, op.page, op.field) :
       \/ r = "committed" /\ Reply("ok") /\ UNCHANGED <<session, effect>>
       \/ /\ r = "absent" /\ op.late /\ op.field \notin Uploads
          /\ Begin("rebind", 0, "again")
          /\ UNCHANGED session
       \/ /\ r # "committed"
          /\ r = "absent" => ~op.late \/ op.field \in Uploads
          /\ Release("uncertain") /\ UNCHANGED effect
  /\ UNCHANGED <<tab, aborted>>

\* Mutant of NavigateGivesUp: only a cancellation ends the wait for the page.
NavigateWaits ==
  /\ Serving("navigate", "waiting")
  /\ Cancelled
  /\ IF effect[op.slot].pc = "count" THEN Reply("cancelled") /\ UNCHANGED session
                                     ELSE Release("uncertain")
  /\ UNCHANGED <<tab, effect, aborted>>

NavigateGivesUp ==
  /\ Serving("navigate", "waiting")
  /\ \E r \in {"timeout", "cancelled"} :
       /\ r = "cancelled" => Cancelled
       /\ IF effect[op.slot].pc = "count" THEN Reply(r) /\ UNCHANGED session
                                          ELSE Release("uncertain")
  /\ UNCHANGED <<tab, effect, aborted>>

Serve ==
  \/ OpensPage \/ Opened \/ Observe \/ Close \/ Released
  \/ Refuses("mutate") \/ Mutate \/ MutateTimesOut \/ MutateCancelled \/ MutateReconciles
  \/ Refuses("navigate") \/ Navigate \/ NavigateGivesUp
=============================================================================
