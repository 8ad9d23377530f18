----------------------------- MODULE TabBridge ------------------------------
(***************************************************************************)
(* How the C3 service borrows a browser tab: ExtensionBridge               *)
(* (executioner/src/product/extension-bridge.ts) at one end of a WebSocket, *)
(* the extension's background script (executioner/extension/background.js)  *)
(* and Chrome's debugger at the other.                                     *)
(*                                                                         *)
(* A caller (a fill or a review action of the queue) opens its tab, holds  *)
(* it while it works and releases it.  Requests and replies are delivered  *)
(* in order on a link, links break and are replaced, each end notices at   *)
(* its own time, and the extension runs its commands concurrently.  The    *)
(* call that asks for a tab names the attachment at both ends.             *)
(***************************************************************************)
EXTENDS Naturals, Sequences, FiniteSets

CONSTANTS
  Callers, Tabs,
  TabOf,          \* the tab each caller was given
  MaxLinks,       \* bound: links ever opened
  MaxCalls,       \* bound: this.sequence
  Faults,         \* which of "disconnect", "timeout", "cancel"
  None

Calls == 1 .. MaxCalls
Links == 1 .. MaxLinks

ASSUME BridgeAssumption ==
  /\ MaxLinks \in Nat /\ MaxCalls \in Nat
  /\ TabOf \in [Callers -> Tabs] /\ None \notin Calls

VARIABLES
  \* the service
  extension,      \* this.extension: the link in use, 0 when there is none
  sequence,       \* this.sequence
  pending,        \* this.pending: the call each caller waits for
  tabs,           \* this.tabs: the attachment of a tab and whether its CDP socket is open
  caller,         \* where each caller is, and the attachment it was given
  \* the link
  toExtension, toService,
  \* the extension and Chrome
  link,           \* socket: the last link opened
  open,           \* socket.readyState is OPEN
  cleaned,        \* the promise cleanup of the closed links has settled
  tasks,          \* attach and detach commands suspended at an await
  attached,       \* attached: the attachment that owns a tab
  owner,          \* the link on which each attachment was requested
  debugging,      \* Chrome: the debugger is attached to the tab
  notice,         \* onDetach of a tab: Unread, or suspended with the owner it read
  late            \* history: attach calls nobody waits for any more

service == <<extension, sequence, pending, tabs, caller>>
browser == <<link, open, cleaned, tasks, attached, owner, debugging, notice>>
vars == <<service, toExtension, toService, browser, late>>

Unread == 0
NoTab == [id |-> None, socket |-> FALSE]
CallerPc == {"idle", "attaching", "connecting", "connected", "held", "detaching"}
Request == [id : Calls, method : {"attach", "detach"}, tab : Tabs]
Reply == [id : Calls \cup {None}, ok : BOOLEAN, tab : Tabs]   \* None: "detached"
Task == [id : Calls, tab : Tabs, on : Links, pc : {"loading", "targets", "undoing", "detaching"}]

TypeOK ==
  /\ extension \in Links \cup {0} /\ link \in Links \cup {0}
  /\ sequence \in 0 .. MaxCalls
  /\ pending \in [Callers -> Calls \cup {None}]
  /\ tabs \in [Tabs -> [id : Calls \cup {None}, socket : BOOLEAN]]
  /\ caller \in [Callers -> [pc : CallerPc, id : Calls \cup {None}]]
  /\ toExtension \in [Links -> Seq(Request)] /\ toService \in [Links -> Seq(Reply)]
  /\ open \in BOOLEAN /\ cleaned \in BOOLEAN
  /\ tasks \subseteq Task
  /\ attached \in [Tabs -> Calls \cup {None}]
  /\ owner \in [Calls -> Links \cup {None}]
  /\ debugging \in [Tabs -> BOOLEAN]
  /\ notice \in [Tabs -> Calls \cup {None, Unread}]
  /\ late \subseteq Calls
  /\ \A c \in Callers : caller[c].pc \in {"attaching", "detaching"} <=> pending[c] # None

-----------------------------------------------------------------------------
(* The service.  call() refuses at once without a link; otherwise it waits  *)
(* for the reply, for 60 s or for the link to go.                           *)

At(c, p) == [caller EXCEPT ![c].pc = p]
Idle(c) == [caller EXCEPT ![c] = [pc |-> "idle", id |-> None]]

Call(c, m) ==
  /\ sequence < MaxCalls
  /\ sequence' = sequence + 1
  /\ pending' = [pending EXCEPT ![c] = sequence']
  /\ toExtension' = [toExtension EXCEPT ![extension] =
       Append(@, [id |-> sequence', method |-> m, tab |-> TabOf[c]])]

\* The detach that ends an open or a release; its failure is ignored.
CallDetach(c) ==
  IF extension = 0
  THEN caller' = Idle(c) /\ UNCHANGED <<sequence, pending, toExtension>>
  ELSE Call(c, "detach") /\ caller' = At(c, "detaching")

\* open() asks the extension for the tab.
OpenAttaches(c) ==
  /\ caller[c].pc = "idle" /\ extension # 0
  /\ Call(c, "attach")
  /\ caller' = At(c, "attaching")
  /\ UNCHANGED <<extension, tabs, toService, browser, late>>

\* A reply on the link in use: nobody may be waiting for it any more.  A tab
\* that still has an attachment here is refused, though it was just attached.
Receives ==
  /\ extension # 0 /\ toService[extension] # <<>>
  /\ toService' = [toService EXCEPT ![extension] = Tail(@)]
  /\ LET m == Head(toService[extension])
     IN IF m.id = None
        THEN \* "detached": the CDP socket of the tab is closed
             /\ tabs' = [tabs EXCEPT ![m.tab].socket = FALSE]
             /\ UNCHANGED <<pending, caller>>
        ELSE IF \A c \in Callers : pending[c] # m.id
        THEN UNCHANGED <<pending, caller, tabs>>
        ELSE \E c \in Callers :
               /\ pending[c] = m.id
               /\ pending' = [pending EXCEPT ![c] = None]
               /\ IF caller[c].pc = "attaching" /\ m.ok /\ tabs[TabOf[c]].id = None
                  THEN /\ tabs' = [tabs EXCEPT ![TabOf[c]] = [id |-> m.id, socket |-> FALSE]]
                       /\ caller' = [caller EXCEPT ![c] = [pc |-> "connecting", id |-> m.id]]
                  ELSE caller' = Idle(c) /\ UNCHANGED tabs
  /\ UNCHANGED <<extension, sequence, toExtension, browser, late>>

\* The 60 s timer of call().
CallTimesOut(c) ==
  /\ "timeout" \in Faults /\ pending[c] # None
  /\ pending' = [pending EXCEPT ![c] = None]
  /\ caller' = Idle(c)
  /\ late' = IF caller[c].pc = "attaching" THEN late \cup {pending[c]} ELSE late
  /\ UNCHANGED <<extension, sequence, tabs, toExtension, toService, browser>>

\* connectOverCDP() is admitted for the attachment whose secret it presents,
\* and Chrome answers it through the extension.
CdpConnects(c) ==
  LET t == TabOf[c] IN
  /\ caller[c].pc = "connecting" /\ tabs[t] = [id |-> caller[c].id, socket |-> FALSE]
  /\ open /\ link = extension /\ attached[t] # None /\ debugging[t]
  /\ tabs' = [tabs EXCEPT ![t].socket = TRUE]
  /\ caller' = At(c, "connected")
  /\ UNCHANGED <<extension, sequence, pending, toExtension, toService, browser, late>>

\* open() resumes: the attachment may have been replaced meanwhile.
OpenReturns(c) ==
  /\ caller[c].pc = "connected" /\ tabs[TabOf[c]].id = caller[c].id
  /\ caller' = At(c, "held")
  /\ UNCHANGED <<extension, sequence, pending, tabs, toExtension, toService, browser, late>>

\* Mutant of OpenFails: the extension is not told.
OpenFailsQuietly(c) ==
  /\ caller[c].pc \in {"connecting", "connected"}
  /\ tabs' = IF tabs[TabOf[c]].id = caller[c].id THEN [tabs EXCEPT ![TabOf[c]] = NoTab] ELSE tabs
  /\ caller' = Idle(c)
  /\ UNCHANGED <<extension, sequence, pending, toExtension, toService, browser, late>>

\* No connection within 45 s, no page, or the attachment was replaced: an
\* older attempt must not detach a replacement.
OpenFails(c) ==
  /\ caller[c].pc \in {"connecting", "connected"}
  /\ IF tabs[TabOf[c]].id = caller[c].id
     THEN tabs' = [tabs EXCEPT ![TabOf[c]] = NoTab] /\ CallDetach(c)
     ELSE caller' = Idle(c) /\ UNCHANGED <<tabs, sequence, pending, toExtension>>
  /\ UNCHANGED <<extension, toService, browser, late>>

\* release(): whatever attachment the tab has now.
Release(c) ==
  /\ caller[c].pc = "held"
  /\ tabs' = [tabs EXCEPT ![TabOf[c]] = NoTab]
  /\ CallDetach(c)
  /\ UNCHANGED <<extension, toService, browser, late>>

\* Every waiting call is rejected, every attachment forgotten.
Reset(l) ==
  /\ extension' = l
  /\ pending' = [c \in Callers |-> None]
  /\ caller' = [c \in Callers |-> IF pending[c] = None THEN caller[c]
                                  ELSE [pc |-> "idle", id |-> None]]
  /\ tabs' = [t \in Tabs |-> NoTab]
  /\ UNCHANGED sequence

ServiceLosesLink ==
  /\ extension # 0
  /\ "disconnect" \in Faults \/ extension # link \/ ~open
  /\ Reset(0)
  /\ UNCHANGED <<toExtension, toService, browser, late>>

-----------------------------------------------------------------------------
(* The extension.                                                           *)

\* reply() is dropped unless the link it came from is still open.
Replies(l, m) ==
  toService' = IF open /\ link = l THEN [toService EXCEPT ![l] = Append(@, m)]
               ELSE toService

Ends(k, ok) ==
  /\ tasks' = tasks \ {k}
  /\ Replies(k.on, [id |-> k.id, ok |-> ok, tab |-> k.tab])

\* connect(), once the old link is closed and cleaned up; the service takes
\* the new link in place of the one it had.
Connect ==
  /\ ~open /\ cleaned /\ link < MaxLinks
  /\ link' = link + 1 /\ open' = TRUE
  /\ Reset(link')
  /\ UNCHANGED <<toExtension, toService, cleaned, tasks, attached, owner, debugging, notice, late>>

\* A command arrives.  A detach gives up the tab before Chrome has answered.
Commanded ==
  /\ open /\ toExtension[link] # <<>>
  /\ toExtension' = [toExtension EXCEPT ![link] = Tail(@)]
  /\ LET m == Head(toExtension[link])
         k(p) == [id |-> m.id, tab |-> m.tab, on |-> link, pc |-> p]
     IN \/ /\ m.method = "attach"
           /\ tasks' = tasks \cup {k("loading")}
           /\ owner' = [owner EXCEPT ![m.id] = link]
           /\ UNCHANGED <<attached, debugging, toService>>
        \/ /\ m.method = "detach" /\ attached[m.tab] = None
           /\ Replies(link, [id |-> m.id, ok |-> FALSE, tab |-> m.tab])
           /\ UNCHANGED <<tasks, attached, debugging, owner>>
        \/ /\ m.method = "detach" /\ attached[m.tab] # None
           /\ attached' = [attached EXCEPT ![m.tab] = None]
           /\ debugging' = [debugging EXCEPT ![m.tab] = FALSE]
           /\ tasks' = tasks \cup {k("detaching")}
           /\ UNCHANGED <<owner, toService>>
  /\ UNCHANGED <<service, link, open, cleaned, notice, late>>

\* The tab has loaded and is free: Chrome attaches, unless it already has.
AttachDebugs(k) ==
  /\ k \in tasks /\ k.pc = "loading"
  /\ attached[k.tab] = None /\ ~debugging[k.tab] /\ open /\ link = k.on
  /\ debugging' = [debugging EXCEPT ![k.tab] = TRUE]
  /\ tasks' = (tasks \ {k}) \cup {[k EXCEPT !.pc = "targets"]}
  /\ UNCHANGED <<service, toExtension, toService, link, open, cleaned, attached, owner, notice, late>>

\* Mutant of AttachRefused: nobody is told.
AttachRefusedQuietly(k) ==
  /\ k \in tasks /\ k.pc = "loading"
  /\ tasks' = tasks \ {k}
  /\ UNCHANGED <<service, toExtension, toService, link, open, cleaned, attached, owner, debugging, notice, late>>

\* The tab is gone, does not load, is running, or the link is closed.
AttachRefused(k) ==
  /\ k \in tasks /\ k.pc = "loading"
  /\ Ends(k, FALSE)
  /\ UNCHANGED <<service, toExtension, link, open, cleaned, attached, owner, debugging, notice, late>>

\* Chrome has answered and the link is still the same.
AttachTakes(k) ==
  /\ k \in tasks /\ k.pc = "targets" /\ open /\ link = k.on
  /\ attached' = [attached EXCEPT ![k.tab] = k.id]
  /\ Ends(k, TRUE)
  /\ UNCHANGED <<service, toExtension, link, open, cleaned, owner, debugging, notice, late>>

\* No such target, or the link closed during the await: undone.
AttachUndoes(k) ==
  /\ k \in tasks /\ k.pc = "targets"
  /\ debugging' = [debugging EXCEPT ![k.tab] = FALSE]
  /\ tasks' = (tasks \ {k}) \cup {[k EXCEPT !.pc = "undoing"]}
  /\ UNCHANGED <<service, toExtension, toService, link, open, cleaned, attached, owner, notice, late>>

\* Mutant of CommandEnds: the tab is given up only when Chrome has answered, too.
CommandEndsForgets(k) ==
  /\ k \in tasks /\ k.pc \in {"undoing", "detaching"}
  /\ attached' = [attached EXCEPT ![k.tab] = None]
  /\ Ends(k, k.pc = "detaching")
  /\ UNCHANGED <<service, toExtension, link, open, cleaned, owner, debugging, notice, late>>

CommandEnds(k) ==
  /\ k \in tasks /\ k.pc \in {"undoing", "detaching"}
  /\ Ends(k, k.pc = "detaching")
  /\ UNCHANGED <<service, toExtension, link, open, cleaned, attached, owner, debugging, notice, late>>

ExtensionLosesLink ==
  /\ open /\ ("disconnect" \in Faults \/ extension # link)
  /\ open' = FALSE /\ cleaned' = FALSE
  /\ UNCHANGED <<service, toExtension, toService, link, tasks, attached, owner, debugging, notice, late>>

\* Mutant of CleansUp: the commands still under way are not waited for.
CleansUpAtOnce ==
  /\ ~open /\ ~cleaned
  /\ cleaned' = TRUE
  /\ attached' = [t \in Tabs |-> None]
  /\ debugging' = [t \in Tabs |-> debugging[t] /\ attached[t] = None]
  /\ UNCHANGED <<service, toExtension, toService, link, open, tasks, owner, notice, late>>

\* onclose: when every command has ended, the tabs of the link are detached.
CleansUp ==
  /\ ~open /\ ~cleaned /\ tasks = {}
  /\ cleaned' = TRUE
  /\ attached' = [t \in Tabs |-> IF attached[t] # None /\ owner[attached[t]] = link
                                 THEN None ELSE attached[t]]
  /\ debugging' = [t \in Tabs |-> debugging[t] /\ attached'[t] = attached[t]]
  /\ UNCHANGED <<service, toExtension, toService, link, open, tasks, owner, notice, late>>

\* The user cancels debugging, or the tab goes away.  Bound: one cancellation
\* of a tab at a time.
Cancelled(t) ==
  /\ "cancel" \in Faults /\ debugging[t] /\ notice[t] = None
  /\ debugging' = [debugging EXCEPT ![t] = FALSE]
  /\ notice' = [notice EXCEPT ![t] = Unread]
  /\ UNCHANGED <<service, toExtension, toService, link, open, cleaned, tasks, attached, owner, late>>

\* onDetach reads the owner, then asks Chrome which targets are attached.
NoticeReads(t) ==
  /\ notice[t] = Unread
  /\ notice' = [notice EXCEPT ![t] = attached[t]]
  /\ UNCHANGED <<service, toExtension, toService, link, open, cleaned, tasks, attached,
                 owner, debugging, late>>

\* Mutant of NoticeActs: neither the owner nor the target is checked again.
NoticeActsAnyway(t) ==
  /\ notice[t] \in Calls
  /\ notice' = [notice EXCEPT ![t] = None]
  /\ attached' = [attached EXCEPT ![t] = None]
  /\ UNCHANGED <<service, toExtension, toService, link, open, cleaned, tasks, owner, debugging, late>>

\* A delayed event must not invalidate a newer attachment.
NoticeActs(t) ==
  /\ notice[t] \in Calls
  /\ notice' = [notice EXCEPT ![t] = None]
  /\ IF attached[t] # notice[t] \/ debugging[t]
     THEN UNCHANGED <<attached, toService>>
     ELSE /\ attached' = [attached EXCEPT ![t] = None]
          /\ Replies(owner[notice[t]], [id |-> None, ok |-> TRUE, tab |-> t])
  /\ UNCHANGED <<service, toExtension, link, open, cleaned, tasks, owner, debugging, late>>

-----------------------------------------------------------------------------
Init ==
  /\ extension = 0 /\ sequence = 0 /\ pending = [c \in Callers |-> None]
  /\ tabs = [t \in Tabs |-> NoTab]
  /\ caller = [c \in Callers |-> [pc |-> "idle", id |-> None]]
  /\ toExtension = [l \in Links |-> <<>>] /\ toService = [l \in Links |-> <<>>]
  /\ link = 0 /\ open = FALSE /\ cleaned = TRUE /\ tasks = {}
  /\ attached = [t \in Tabs |-> None] /\ owner = [i \in Calls |-> None]
  /\ debugging = [t \in Tabs |-> FALSE] /\ notice = [t \in Tabs |-> None]
  /\ late = {}

ServiceStep ==
  \/ Receives \/ ServiceLosesLink
  \/ \E c \in Callers : \/ OpenAttaches(c) \/ CallTimesOut(c) \/ CdpConnects(c)
                        \/ OpenReturns(c) \/ OpenFails(c) \/ Release(c)

ExtensionStep ==
  \/ Connect \/ Commanded \/ ExtensionLosesLink \/ CleansUp
  \/ \E k \in tasks : \/ AttachDebugs(k) \/ AttachRefused(k) \/ AttachTakes(k)
                      \/ AttachUndoes(k) \/ CommandEnds(k)
  \/ \E t \in Tabs : Cancelled(t) \/ NoticeReads(t) \/ NoticeActs(t)

Next == ServiceStep \/ ExtensionStep

Spec == Init /\ [][Next]_vars

-----------------------------------------------------------------------------
(* What the two ends owe each other.                                        *)

\* A reconnection drains the old link first: on an open link no command, no
\* attachment and no debugger of an earlier link is left.
FreshLink ==
  open => /\ \A k \in tasks : k.on = link
          /\ \A t \in Tabs : attached[t] # None => owner[attached[t]] = link

\* Chrome never debugs the owner's tab without an attachment, or a command
\* about to make or undo it, that accounts for it: no event, however late,
\* makes the extension forget a tab it still debugs.
NoStrayDebugger ==
  \A t \in Tabs : debugging[t] =>
    attached[t] # None \/ \E k \in tasks : k.tab = t /\ k.pc = "targets"

\* While both ends use one link, an attached tab is one the service knows of,
\* is about to hear of or has asked to detach.  An attach that answers after its
\* 60 s is not: nothing takes it down before the link is replaced.  Nobody waits
\* for such a tab or believes to hold it.
NoOrphan ==
  open /\ extension = link => \A t \in Tabs : attached[t] # None =>
    \/ tabs[t].id # None
    \/ \E i \in DOMAIN toService[link] :
         toService[link][i].id = attached[t] /\ toService[link][i].ok
    \/ \E i \in DOMAIN toExtension[link] :
         toExtension[link][i].tab = t /\ toExtension[link][i].method = "detach"
    \/ /\ attached[t] \in late
       /\ \A c \in Callers : pending[c] # attached[t] /\ caller[c].id # attached[t]

\* While both ends use one link, a call somebody waits for is asked, under way
\* or answered: no command ends without its reply, however it is refused or
\* undone, so a caller sits out its 60 s only if Chrome is that slow.
NoLostCall ==
  open /\ extension = link => \A c \in Callers : pending[c] # None =>
    \/ \E i \in DOMAIN toExtension[link] : toExtension[link][i].id = pending[c]
    \/ \E k \in tasks : k.id = pending[c]
    \/ \E i \in DOMAIN toService[link] : toService[link][i].id = pending[c]

\* A command takes down only what was there when it was asked for: while the link
\* is open and Chrome debugs the tab, the extension forgets an attachment only when
\* a detach arrives that was sent after the attachment was asked for.  No command
\* that is still under way does it, however late it ends.  (Which attachment a later
\* detach was meant for is not said: it names the tab only, see README.)
DetachTakesEarlier ==
  [][\A t \in Tabs : attached[t] # None /\ attached'[t] = None =>
       \/ ~open \/ ~debugging[t]
       \/ LET m == Head(toExtension[link]) IN
          /\ toExtension[link] # <<>> /\ toExtension'[link] = Tail(toExtension[link])
          /\ m.method = "detach" /\ m.tab = t /\ attached[t] < m.id]_vars

=============================================================================
