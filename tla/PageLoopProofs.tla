--------------------------- MODULE PageLoopProofs ---------------------------
(***************************************************************************)
(* Theorems about the page loop and its session for every form, every      *)
(* number of retries and of effects in flight.                             *)
(***************************************************************************)
EXTENDS PageLoopProps, FiniteSetTheorems, TLAPS

Replied(r) == op.pc = "replied" /\ op.reply = r
IsOpen(t) == tab[t].st = "open"

\* The page of the session is open, and no other but the one that is being
\* closed.  A doubt is reported when the page is gone.
SessionInv ==
  /\ session.tab # 0 => IsOpen(session.tab)
  /\ \A t \in Tabs : IsOpen(t) => t = session.tab \/ (op.pc = "releasing" /\ t = op.closing)
  /\ op.pc = "releasing" \/ Replied("uncertain") => session.tab = 0
  /\ op.pc \in {"waiting", "reconcile", "again"} => session.tab # 0
  /\ session.tab # 0 => \/ op.kind = "start" /\ op.pc = "waiting"
                        \/ session.id = session.tab /\ session.closed = 0
  /\ \A s \in Slots : effect[s].pc # "off" =>
       effect[s].tab \in Tabs /\ tab[effect[s].tab].st # "none"

\* The call that the loop makes at each of its steps.
KindAt(pc) ==
  CASE pc \in {"start", "recover_start"} -> "start"
    [] pc \in {"observe", "verify", "arrive", "recover_observe"} -> "observe"
    [] pc = "drive" -> "mutate"
    [] pc = "navigate" -> "navigate"
    [] pc \in {"close", "recover_close"} -> "close"
    [] pc = "done" -> "none"

\* What a call and its result say of the session.
OpInv ==
  /\ op.kind = KindAt(loop.pc) \/ (loop.pc = "start" /\ op.kind = "none" /\ session.tab = 0)
  /\ op.kind = "none" <=> op.pc = "idle"
  /\ op.slot # 0 => op.kind \in {"mutate", "navigate"}
  /\ op.pc = "releasing" /\ op.kind # "close" => op.reply # "ok"
  /\ op.kind = "start" =>
       /\ op.pc = "called" \/ (op.pc = "replied" /\ op.reply # "ok") => session.tab = 0
       /\ Replied("ok") => session.tab # 0 /\ session.page = tab[session.tab].at
  /\ op.kind = "observe" /\ Replied("ok") => session.tab # 0
  /\ op.kind = "navigate" /\ Replied("ok") =>
       session.tab # 0 /\ session.page = tab[session.tab].at
  /\ op.kind = "close" =>
       /\ op.keeps /\ op.pc \in {"called", "releasing", "replied"}
       /\ op.pc = "called" /\ session.tab # 0 => op.id = session.tab
       /\ op.pc = "replied" => session.tab = 0

\* The loop owns the open session; once it failed it drives no more.
LoopInv ==
  /\ session.tab # 0 => \/ loop.pc \in {"start", "recover_start"}
                        \/ loop.owned = session.tab /\ loop.browser = session.tab
  /\ loop.pc = "done" => session.tab = 0
  /\ loop.result = "failed" =>
       loop.pc \in {"recover_close", "recover_start", "recover_observe", "close", "done"}
  /\ loop.pc \in {"start", "observe", "drive", "verify"} => loop.pages < PageLimit

\* A navigation that may still click.
LiveNav(s) == effect[s].pc \in {"count", "click"} /\ IsOpen(effect[s].tab)

\* A click leaves a page that the loop has verified: the one navigation goes
\* on while the loop waits for it, or after the loop has given up.
NavInv ==
  \A s \in Slots : LiveNav(s) =>
    /\ loop.pc \in {"navigate", "close"}
    /\ loop.seen = effect[s].page /\ Required \subseteq loop.verified
    /\ op.kind = "navigate" => /\ op.pc # "called" /\ s = op.slot
                               /\ ~Replied("ok")

\* The page that the loop has in mind is the page of the session.
PageInv ==
  /\ loop.pc \in {"drive", "verify", "navigate"} => loop.seen = loop.page
  /\ loop.pc \in {"drive", "verify"} => loop.field \in Fields
  /\ loop.pc = "navigate" => Required \subseteq loop.verified /\ op.page = loop.page
  /\ loop.pc \in {"observe", "arrive"} /\ session.tab # 0 => tab[session.tab].at = loop.page

IInv == TypeOK /\ SessionInv /\ OpInv /\ LoopInv /\ NavInv /\ PageInv

-----------------------------------------------------------------------------
(* The steps of the loop.  They leave the session alone and end in a call. *)

Owns(l) == session.tab # 0 => l.owned = session.tab /\ l.browser = session.tab
NavKept(l) == \A s \in Slots : LiveNav(s) => l.seen = effect[s].page /\ Required \subseteq l.verified
Quiet == \A s \in Slots : ~LiveNav(s)
SessionKept == UNCHANGED <<tab, session, effect, aborted>>
FailedAt == {"recover_close", "recover_start", "recover_observe", "close", "done"}
LoopPc == {"start", "observe", "drive", "verify", "navigate", "arrive",
           "recover_close", "recover_start", "recover_observe", "close", "done"}

LEMMA Constants ==
  /\ PageLimit \in Nat \ {0} /\ VerifyReads \in Nat \ {0}
  /\ MutationRetries \in Nat /\ ProviderRetries \in Nat
  /\ LastPage \in Nat \ {0} /\ Required \subseteq Fields /\ Slots \subseteq Nat \ {0}
  /\ 0 \notin Tabs /\ 0 \notin Pages /\ 0 \notin Slots /\ 1 \in Pages
  /\ 0 \in 0..(MutationRetries + ProviderRetries) /\ 0 \in 0..(VerifyReads - 1)
BY BrowserAssumption, PageLoopAssumption DEF Tabs, Pages

LEMMA LoopFields ==
  ASSUME NEW l \in LoopType
  PROVE  /\ l.pc \in LoopPc
         /\ l.browser \in Tabs \cup {0} /\ l.owned \in Tabs \cup {0}
         /\ l.page \in Pages \cup {0} /\ l.seen \in Pages \cup {0}
         /\ l.todo \subseteq Fields /\ l.verified \subseteq Fields
         /\ l.field \in Fields \cup {NextButton}
         /\ l.tries \in 0..(MutationRetries + ProviderRetries)
         /\ l.reads \in 0..(VerifyReads - 1)
         /\ l.answer \in {"none", "timeout", "rejected", "unavailable"}
         /\ l.pages \in 0..PageLimit
         /\ l.result \in {"none", "review", "blocked", "failed"}
BY DEF LoopType, LoopPc

\* What a request and the loop that makes it have to be.
LEMMA Called ==
  ASSUME IInv, SessionKept, op.pc \in {"replied", "idle"},
         NEW l \in LoopType, NEW pc \in LoopPc, NEW request \in OpType, Calls(l, pc, request),
         request.pc = IF pc = "done" THEN "idle" ELSE "called",
         request.kind = KindAt(pc), request.slot = 0, Owns(l),
         request.kind = "start" \/ pc = "done" => session.tab = 0,
         request.kind = "close" => request.keeps /\ (session.tab # 0 => request.id = session.tab),
         l.result = "failed" => pc \in FailedAt,
         pc \in {"start", "observe", "drive", "verify"} => l.pages < PageLimit,
         NavKept(l), ~Quiet => pc = "close",
         pc \in {"drive", "verify", "navigate"} => l.seen = l.page,
         pc \in {"drive", "verify"} => l.field \in Fields,
         pc = "navigate" => Required \subseteq l.verified /\ request.page = l.page,
         pc \in {"observe", "arrive"} /\ session.tab # 0 => tab[session.tab].at = l.page
  PROVE  IInv'
<1>1. loop' = [l EXCEPT !.pc = pc] /\ op' = request
  BY DEF Calls
<1>2. loop' \in LoopType
  BY <1>1 DEF LoopType, LoopPc
<1>3. loop'.pc = pc /\ loop'.owned = l.owned /\ loop'.browser = l.browser /\ loop'.page = l.page
      /\ loop'.seen = l.seen /\ loop'.verified = l.verified /\ loop'.pages = l.pages
      /\ loop'.result = l.result /\ loop'.field = l.field
  BY <1>1 DEF LoopType
<1>4. TypeOK'
  BY <1>1, <1>2 DEF IInv, TypeOK, SessionTypeOK, SessionKept
<1>5. SessionInv'
  BY <1>1 DEF IInv, SessionInv, SessionKept, IsOpen, Replied, OpInv
<1>6. OpInv'
  <2>1. \A p \in LoopPc : KindAt(p) = "none" <=> p = "done"
    BY DEF KindAt, LoopPc
  <2>2. request.kind = "none" <=> request.pc = "idle"
    BY <2>1
  <2>3. (op.kind = KindAt(loop.pc))'
    BY <1>1, <1>3 DEF KindAt
  <2>4. op' = request /\ request.pc \in {"idle", "called"} /\ session' = session /\ tab' = tab
    BY <1>1 DEF SessionKept
  <2>5. request.kind = "close" => request.pc = "called" /\ request.keeps
    BY <1>3, <2>1 DEF KindAt
  <2>6. op'.pc # "releasing" /\ op'.pc # "replied"
    BY <2>4
  <2>7. (op.kind = "start" =>
          /\ op.pc = "called" \/ (op.pc = "replied" /\ op.reply # "ok") => session.tab = 0
          /\ Replied("ok") => session.tab # 0 /\ session.page = tab[session.tab].at)'
    BY <2>4, <2>6 DEF Replied
  <2>8. (op.kind = "close" =>
          /\ op.keeps /\ op.pc \in {"called", "releasing", "replied"}
          /\ op.pc = "called" /\ session.tab # 0 => op.id = session.tab
          /\ op.pc = "replied" => session.tab = 0)'
    BY <2>4, <2>5, <2>6
  <2>9. (op.kind = "none" <=> op.pc = "idle")'
    BY <2>2, <2>4
  <2>10. ~Replied("ok")'
    BY <2>6 DEF Replied
  <2>11. op'.slot = 0
    BY <2>4
  <2> QED BY <2>3, <2>6, <2>7, <2>8, <2>9, <2>10, <2>11 DEF OpInv
<1>7. LoopInv'
  BY <1>1, <1>3 DEF IInv, LoopInv, SessionKept, Owns, FailedAt
<1>8. NavInv'
  BY <1>1, <1>3 DEF NavInv, SessionKept, NavKept, Quiet, LiveNav, IsOpen, KindAt
<1>9. PageInv'
  BY <1>1, <1>3 DEF PageInv, SessionKept
<1> QED BY <1>4, <1>5, <1>6, <1>7, <1>8, <1>9 DEF IInv

\* The requests have the type of a call.
LEMMA Idle == NoOp \in OpType /\ NoOp.kind = "none" /\ NoOp.pc = "idle" /\ NoOp.slot = 0
BY DEF NoOp, OpType

LEMMA StartRequest ==
  /\ Request("start") \in OpType
  /\ Request("start").kind = "start" /\ Request("start").pc = "called"
  /\ [Request("start") EXCEPT !.keeps = TRUE] \in OpType
  /\ [Request("start") EXCEPT !.keeps = TRUE].kind = "start"
  /\ [Request("start") EXCEPT !.keeps = TRUE].pc = "called"
  /\ Request("start").slot = 0 /\ [Request("start") EXCEPT !.keeps = TRUE].slot = 0
BY DEF Request, NoOp, OpType

CloseRequest(id) == [Request("close") EXCEPT !.id = id, !.keeps = TRUE]
PageRequest(kind, id, page) == [Request(kind) EXCEPT !.id = id, !.page = page]
KeptRequest(kind, id, page) == [Request(kind) EXCEPT !.id = id, !.page = page, !.keeps = TRUE]
FieldRequest(id, page, f) == [Request("mutate") EXCEPT !.id = id, !.page = page, !.field = f]

LEMMA CloseRequests ==
  ASSUME NEW id \in Tabs \cup {0}
  PROVE  /\ CloseRequest(id) \in OpType /\ CloseRequest(id).kind = "close"
         /\ CloseRequest(id).pc = "called" /\ CloseRequest(id).id = id /\ CloseRequest(id).keeps
         /\ CloseRequest(id).slot = 0
BY DEF CloseRequest, Request, NoOp, OpType

LEMMA PageRequests ==
  ASSUME NEW kind \in {"observe", "navigate"}, NEW id \in Tabs \cup {0}, NEW page \in Pages \cup {0}
  PROVE  /\ PageRequest(kind, id, page) \in OpType /\ PageRequest(kind, id, page).kind = kind
         /\ PageRequest(kind, id, page).pc = "called" /\ PageRequest(kind, id, page).page = page
         /\ KeptRequest(kind, id, page) \in OpType /\ KeptRequest(kind, id, page).kind = kind
         /\ KeptRequest(kind, id, page).pc = "called"
         /\ PageRequest(kind, id, page).slot = 0 /\ KeptRequest(kind, id, page).slot = 0
BY DEF PageRequest, KeptRequest, Request, NoOp, OpType

LEMMA FieldRequests ==
  ASSUME NEW id \in Tabs \cup {0}, NEW page \in Pages \cup {0}, NEW f \in Fields
  PROVE  /\ FieldRequest(id, page, f) \in OpType /\ FieldRequest(id, page, f).kind = "mutate"
         /\ FieldRequest(id, page, f).pc = "called" /\ FieldRequest(id, page, f).slot = 0
BY DEF FieldRequest, Request, NoOp, OpType

LEMMA Returned ==
  ASSUME IInv, SessionKept, op.pc = "replied", NEW l \in LoopType, Owns(l), NavKept(l),
         NEW result \in {"review", "blocked", "failed"}, Returns(l, result)
  PROVE  IInv'
<1> DEFINE end == [l EXCEPT !.result = result, !.todo = {}, !.field = NextButton, !.tries = 0]
<1>1. end \in LoopType /\ Owns(end) /\ NavKept(end) /\ end.owned = l.owned
  <2>1. end \in LoopType
    <3> DEFINE k == [l EXCEPT !.result = result, !.todo = {}]
    <3>1. k \in LoopType
      <4>1. [l EXCEPT !.result = result] \in LoopType
        BY DEF LoopType
      <4>2. \A q \in LoopType : [q EXCEPT !.todo = {}] \in LoopType
        BY DEF LoopType
      <4> QED BY <4>1, <4>2
    <3>2. [k EXCEPT !.field = NextButton, !.tries = 0] \in LoopType
      <4> HIDE DEF k
      <4>1. 0 \in 0..(MutationRetries + ProviderRetries)
        BY Constants
      <4> QED BY <3>1, <4>1 DEF LoopType
    <3> QED BY <3>2
  <2>2. end.owned = l.owned /\ end.browser = l.browser /\ end.seen = l.seen
        /\ end.verified = l.verified
    BY DEF LoopType
  <2> QED BY <2>1, <2>2 DEF Owns, NavKept
<1>2. l.owned \in Tabs \cup {0}
  BY LoopFields
<1>3. CASE l.owned = 0
  <2>1. Calls(end, "done", NoOp)
    BY <1>3 DEF Returns
  <2>2. NoOp \in OpType /\ NoOp.kind = "none" /\ NoOp.pc = "idle" /\ NoOp.slot = 0
    BY Idle
  <2>3. session.tab = 0
    BY <1>3 DEF Owns
  <2>4. Quiet
    BY <2>3, Constants DEF IInv, SessionInv, Quiet, LiveNav
  <2> HIDE DEF end
  <2> QED BY <1>1, <2>1, <2>2, <2>3, <2>4, Called DEF LoopPc, KindAt, FailedAt
<1>4. CASE l.owned # 0
  <2> DEFINE r == CloseRequest(l.owned)
  <2>1. Calls(end, "close", r)
    BY <1>4 DEF Returns, CloseRequest
  <2>2. r \in OpType /\ r.kind = "close" /\ r.pc = "called" /\ r.slot = 0 /\ r.id = l.owned /\ r.keeps
    BY <1>2, CloseRequests
  <2> HIDE DEF end, r
  <2> QED BY <1>1, <2>1, <2>2, Called DEF LoopPc, KindAt, FailedAt, Owns
<1> QED BY <1>3, <1>4

LEMMA Observes ==
  ASSUME IInv, SessionKept, op.pc = "replied", NEW l \in LoopType, Owns(l), Quiet,
         NEW pc \in {"observe", "verify", "arrive"}, CallObserve(l, pc),
         l.result # "failed", pc # "arrive" => l.pages < PageLimit,
         pc = "verify" => l.seen = l.page /\ l.field \in Fields,
         pc # "verify" /\ session.tab # 0 => tab[session.tab].at = l.page
  PROVE  IInv'
<1> DEFINE r == PageRequest("observe", l.browser, l.page)
<1>1. l.browser \in Tabs \cup {0} /\ l.page \in Pages \cup {0}
  BY LoopFields
<1>2. r \in OpType /\ r.kind = "observe" /\ r.pc = "called" /\ r.slot = 0
  BY <1>1, PageRequests
<1>5. Calls(l, pc, r)
  BY DEF CallObserve, PageRequest
<1> HIDE DEF r
<1>3. NavKept(l)
  BY DEF NavKept, Quiet
<1> QED BY <1>2, <1>3, <1>5, Called DEF LoopPc, KindAt

LEMMA Mutates ==
  ASSUME IInv, SessionKept, op.pc = "replied", NEW l \in LoopType, Owns(l), Quiet,
         NEW f \in Fields, CallMutate(l, f),
         l.result # "failed", l.pages < PageLimit, l.seen = l.page
  PROVE  IInv'
<1> DEFINE r == FieldRequest(l.browser, l.page, f)
           m == [l EXCEPT !.field = f, !.reads = 0, !.answer = "none"]
<1>1. l.browser \in Tabs \cup {0} /\ l.page \in Pages \cup {0}
  BY LoopFields
<1>2. r \in OpType /\ r.kind = "mutate" /\ r.pc = "called" /\ r.slot = 0 /\ Calls(m, "drive", r)
  BY <1>1, FieldRequests DEF CallMutate, FieldRequest
<1>3. m \in LoopType /\ Owns(m) /\ m.result = l.result /\ m.pages = l.pages
      /\ m.seen = l.seen /\ m.page = l.page /\ m.field = f
  <2>1. m \in LoopType
    <3>1. 0 \in 0..(VerifyReads - 1)
      BY Constants
    <3> QED BY <3>1 DEF LoopType
  <2> QED BY <2>1 DEF LoopType, Owns
<1>4. NavKept(m)
  BY DEF NavKept, Quiet
<1> HIDE DEF r, m
<1> QED BY <1>2, <1>3, <1>4, Called DEF LoopPc, KindAt

LEMMA Navigates ==
  ASSUME IInv, SessionKept, op.pc = "replied", NEW l \in LoopType, Owns(l), Quiet,
         CallNavigate(l), l.result # "failed", l.seen = l.page, Required \subseteq l.verified
  PROVE  IInv'
<1> DEFINE r == PageRequest("navigate", l.browser, l.page)
           m == [l EXCEPT !.tries = 0]
<1>1. l.browser \in Tabs \cup {0} /\ l.page \in Pages \cup {0}
  BY LoopFields
<1>2. r \in OpType /\ r.kind = "navigate" /\ r.pc = "called" /\ r.slot = 0 /\ r.page = l.page
  BY <1>1, PageRequests
<1>5. Calls(m, "navigate", r)
  BY DEF CallNavigate, PageRequest
<1>3. m \in LoopType /\ Owns(m) /\ m.result = l.result /\ m.seen = l.seen /\ m.page = l.page
      /\ m.verified = l.verified
  BY Constants DEF LoopType, Owns
<1>4. NavKept(m)
  BY DEF NavKept, Quiet
<1> HIDE DEF r, m
<1> QED BY <1>2, <1>3, <1>4, <1>5, Called DEF LoopPc, KindAt

LEMMA NextFields ==
  ASSUME IInv, SessionKept, op.pc = "replied", NEW l \in LoopType, Owns(l), Quiet,
         NextField(l), l.result # "failed", l.seen = l.page, l.pages < PageLimit
  PROVE  IInv'
<1> DEFINE done == [l EXCEPT !.pages = @ + 1, !.tries = 0]
<1>1. done \in LoopType /\ Owns(done) /\ done.result = l.result /\ done.seen = l.seen
      /\ done.page = l.page /\ done.verified = l.verified
  <2>1. l.pages \in 0..PageLimit /\ l.pages + 1 \in 0..PageLimit
    BY Constants, LoopFields
  <2> QED BY <2>1, Constants DEF LoopType, Owns
<1>2. NavKept(l) /\ NavKept(done)
  BY DEF NavKept, Quiet
<1>3. CASE Fails(l)
  BY <1>2, <1>3, Returned DEF Fails
<1>4. CASE Returns(l, "blocked")
  BY <1>2, <1>4, Returned
<1>5. ASSUME NEW f \in l.todo, CallMutate([l EXCEPT !.todo = @ \ {f}, !.tries = 0], f) PROVE IInv'
  <2> DEFINE m == [l EXCEPT !.todo = @ \ {f}, !.tries = 0]
  <2>1. m \in LoopType /\ Owns(m) /\ m.result = l.result /\ m.pages = l.pages
        /\ m.seen = l.seen /\ m.page = l.page /\ f \in Fields
    <3>1. l.todo \ {f} \in SUBSET Fields /\ f \in Fields
      BY LoopFields
    <3> QED BY <3>1, Constants DEF LoopType, Owns
  <2> HIDE DEF m
  <2>2. CallMutate(m, f)
    BY <1>5 DEF m
  <2> QED BY <2>1, <2>2, Mutates
<1>6. CASE Returns(done, "review")
  <2> HIDE DEF done
  <2> QED BY <1>1, <1>2, <1>6, Returned
<1>7. CASE Required \subseteq l.verified /\ CallNavigate(done)
  <2> HIDE DEF done
  <2> QED BY <1>1, <1>7, Navigates
<1> QED BY <1>3, <1>4, <1>5, <1>6, <1>7 DEF NextField

\* What the loop has when a call was answered.
LEMMA Answered ==
  ASSUME IInv, op.pc = "replied"
  PROVE  /\ loop \in LoopType /\ op.kind = KindAt(loop.pc) /\ NavKept(loop)
         /\ loop.pc \in {"start", "recover_start"} /\ op.reply # "ok" => Owns(loop)
         /\ loop.pc \notin {"start", "recover_start"} => Owns(loop)
         /\ loop.pc \notin {"navigate", "close"} => Quiet
         /\ loop.pc = "navigate" /\ op.reply = "ok" => Quiet
<1>1. loop \in LoopType /\ loop.pc \in LoopPc
  BY LoopFields DEF IInv, TypeOK
<1>2. op.kind = KindAt(loop.pc)
  <2>1. op.kind # "none"
    BY DEF IInv, OpInv
  <2> QED BY <2>1 DEF IInv, OpInv
<1>3. NavKept(loop)
  BY DEF IInv, NavInv, NavKept
<1>4. loop.pc \in {"start", "recover_start"} /\ op.reply # "ok" => session.tab = 0
  BY <1>2 DEF IInv, OpInv, KindAt
<1>5. loop.pc \notin {"start", "recover_start"} => Owns(loop)
  BY DEF IInv, LoopInv, Owns
<1>6. loop.pc \notin {"navigate", "close"} => Quiet
  BY DEF IInv, NavInv, Quiet
<1>7. loop.pc = "navigate" /\ op.reply = "ok" => Quiet
  BY <1>2 DEF IInv, NavInv, Quiet, Replied, KindAt
<1> QED BY <1>1, <1>2, <1>3, <1>4, <1>5, <1>6, <1>7 DEF Owns

LEMMA UnderstoodFields ==
  ASSUME TypeOK, NEW l \in LoopType, l.browser \in Tabs
  PROVE  /\ Understood(l) \in LoopType
         /\ Understood(l).seen = tab[l.browser].at /\ Understood(l).page = l.page
         /\ Understood(l).pages = l.pages /\ Understood(l).result = l.result
         /\ Owns(l) => Owns(Understood(l))
<1>1. tab[l.browser].at \in Pages
  BY DEF TypeOK, SessionTypeOK, TabType
<1> DEFINE todo == {f \in Fields : tab[l.browser].form[f] = "empty"}
<1>2. todo \in SUBSET Fields
  OBVIOUS
<1>3. Understood(l) = [l EXCEPT !.seen = tab[l.browser].at, !.verified = {}, !.tries = 0,
                                !.todo = todo]
  BY DEF Understood
<1> HIDE DEF todo
<1>4. Understood(l) \in LoopType
  <2>1. 0 \in 0..(MutationRetries + ProviderRetries)
    BY Constants
  <2> QED BY <1>1, <1>2, <1>3, <2>1 DEF LoopType
<1>5. /\ Understood(l).seen = tab[l.browser].at /\ Understood(l).page = l.page
      /\ Understood(l).pages = l.pages /\ Understood(l).result = l.result
      /\ Understood(l).owned = l.owned /\ Understood(l).browser = l.browser
  BY <1>3 DEF LoopType
<1> QED BY <1>4, <1>5 DEF Owns

LEMMA Retried ==
  ASSUME IInv, SessionKept, NEW pc \in {"start", "observe", "arrive"}, At(pc), Retries(pc)
  PROVE  IInv'
<1> DEFINE l == [loop EXCEPT !.tries = @ + 1]
<1>1. op.pc = "replied" /\ loop.pc = pc /\ op.reply = "timeout" /\ loop.tries < ProviderRetries
  BY DEF At, Retries
<1>2. loop \in LoopType /\ op.kind = KindAt(pc) /\ Owns(loop) /\ Quiet
  BY <1>1, Answered
<1>3. loop.tries + 1 \in 0..(MutationRetries + ProviderRetries)
  BY <1>1, <1>2, LoopFields, Constants
<1>4. l \in LoopType /\ Owns(l) /\ l.result = loop.result /\ l.pages = loop.pages
      /\ l.page = loop.page
  BY <1>2, <1>3 DEF LoopType, Owns
<1>5. loop.result # "failed" /\ (pc # "arrive" => loop.pages < PageLimit)
  BY <1>1 DEF IInv, LoopInv
<1>6. pc # "start" /\ session.tab # 0 => tab[session.tab].at = loop.page
  BY <1>1 DEF IInv, PageInv
<1>7. CASE pc = "start"
  <2>1. CallStart(l)
    BY <1>7 DEF Retries
  <2>2. session.tab = 0
    BY <1>1, <1>2, <1>7 DEF IInv, OpInv, KindAt
  <2>3. NavKept(l)
    BY <1>2 DEF NavKept, Quiet
  <2> HIDE DEF l
  <2>4. Calls(l, "start", Request("start"))
    BY <2>1 DEF CallStart
  <2> QED BY <1>1, <1>2, <1>4, <1>5, <1>7, <2>2, <2>3, <2>4, StartRequest, Called DEF LoopPc, KindAt
<1>8. CASE pc # "start"
  <2>1. CallObserve(l, pc)
    BY <1>8 DEF Retries
  <2> HIDE DEF l
  <2> QED BY <1>1, <1>2, <1>4, <1>5, <1>6, <1>8, <2>1, Observes
<1> QED BY <1>7, <1>8

LEMMA GaveUp ==
  ASSUME IInv, SessionKept, op.pc = "replied", op.reply # "ok", Fails(loop)
  PROVE  IInv'
<1>1. loop \in LoopType /\ Owns(loop) /\ NavKept(loop)
  BY Answered
<1> QED BY <1>1, Returned DEF Fails

-----------------------------------------------------------------------------
(* The actions of the loop.                                                *)

LEMMA LoopHas ==
  ASSUME IInv, op.pc = "replied", loop.pc \in {"start", "observe", "drive", "verify", "navigate", "arrive"}
  PROVE  /\ loop.result # "failed"
         /\ loop.pc \notin {"navigate", "arrive"} => loop.pages < PageLimit
         /\ loop.pc \in {"drive", "verify", "navigate"} => loop.seen = loop.page
         /\ loop.pc \in {"drive", "verify"} => loop.field \in Fields
         /\ loop.pc \in {"observe", "arrive"} /\ session.tab # 0 => tab[session.tab].at = loop.page
         /\ op.reply = "ok" /\ loop.pc \in {"observe", "arrive"} =>
              loop.browser = session.tab /\ session.tab \in Tabs
<1>1. op.reply = "ok" /\ loop.pc \in {"observe", "arrive"} => session.tab # 0
  <2>1. op.kind = KindAt(loop.pc)
    BY Answered
  <2> QED BY <2>1 DEF IInv, OpInv, KindAt, Replied
<1>2. session.tab \in Tabs \cup {0}
  BY DEF IInv, TypeOK, SessionTypeOK, SessionType
<1> QED BY <1>1, <1>2 DEF IInv, LoopInv, PageInv

LEMMA StartsStep == ASSUME IInv, Starts PROVE IInv'
<1>1. SessionKept /\ loop.pc = "start" /\ op.pc = "idle" /\ Calls(loop, "start", Request("start"))
  BY DEF Starts, SessionKept, CallStart
<1>2. loop \in LoopType /\ session.tab = 0
  BY <1>1 DEF IInv, TypeOK, OpInv, KindAt
<1>3. Owns(loop) /\ NavKept(loop) /\ Quiet
  BY <1>1, <1>2 DEF Owns, IInv, NavInv, NavKept, Quiet
<1>4. loop.result # "failed" /\ loop.pages < PageLimit
  BY <1>1 DEF IInv, LoopInv
<1> QED BY <1>1, <1>2, <1>3, <1>4, StartRequest, Called DEF LoopPc, KindAt

LEMMA StartedStep == ASSUME IInv, Started PROVE IInv'
<1>1. SessionKept /\ loop.pc = "start" /\ op.pc = "replied" /\ At("start")
  BY DEF Started, SessionKept, At
<1>2. loop \in LoopType /\ op.kind = "start" /\ Quiet
  BY <1>1, Answered DEF KindAt
<1> DEFINE l == [loop EXCEPT !.browser = session.id, !.owned = session.id,
                             !.page = session.page, !.tries = 0]
<1>3. ASSUME op.reply = "ok", CallObserve(l, "observe") PROVE IInv'
  <2>1. session.tab # 0 /\ session.page = tab[session.tab].at /\ session.id = session.tab
    BY <1>1, <1>2, <1>3 DEF IInv, OpInv, SessionInv, Replied
  <2>2. session.id \in Tabs \cup {0} /\ session.page \in Pages \cup {0}
    BY DEF IInv, TypeOK, SessionTypeOK, SessionType
  <2>3. l \in LoopType /\ l.result = loop.result /\ l.pages = loop.pages
        /\ l.page = session.page /\ l.owned = session.tab /\ l.browser = session.tab
    BY <1>2, <2>1, <2>2, Constants DEF LoopType
  <2>4. loop.result # "failed" /\ loop.pages < PageLimit
    BY <1>1, LoopHas
  <2>5. CallObserve(l, "observe")
    BY <1>3
  <2> HIDE DEF l
  <2> QED BY <1>1, <1>2, <2>1, <2>3, <2>4, <2>5, Observes DEF Owns
<1>4. CASE Retries("start")
  BY <1>1, <1>4, Retried
<1>5. CASE GivesUp
  BY <1>1, <1>5, GaveUp DEF GivesUp
<1> QED BY <1>3, <1>4, <1>5 DEF Started

LEMMA ObservedStep == ASSUME IInv, Observed PROVE IInv'
<1>1. SessionKept /\ loop.pc = "observe" /\ op.pc = "replied" /\ At("observe")
  BY DEF Observed, SessionKept, At
<1>2. loop \in LoopType /\ Owns(loop) /\ Quiet /\ NavKept(loop)
  BY <1>1, Answered
<1>3. ASSUME op.reply = "ok", NextField(Understood(loop)) PROVE IInv'
  <2>1. loop.browser = session.tab /\ session.tab \in Tabs /\ tab[session.tab].at = loop.page
        /\ loop.result # "failed" /\ loop.pages < PageLimit
    BY <1>1, <1>3, LoopHas, Constants
  <2> DEFINE l == Understood(loop)
  <2>2. l \in LoopType /\ l.seen = l.page /\ l.pages = loop.pages /\ l.result = loop.result /\ Owns(l)
    BY <1>2, <2>1, UnderstoodFields DEF IInv
  <2>3. NextField(l)
    BY <1>3
  <2> HIDE DEF l
  <2> QED BY <1>1, <1>2, <2>1, <2>2, <2>3, NextFields
<1>4. CASE Returns(loop, "blocked")
  BY <1>1, <1>2, <1>4, Returned
<1>5. CASE Retries("observe")
  BY <1>1, <1>5, Retried
<1>6. CASE GivesUp
  BY <1>1, <1>6, GaveUp DEF GivesUp
<1> QED BY <1>3, <1>4, <1>5, <1>6 DEF Observed

LEMMA Recovered ==
  ASSUME IInv, SessionKept, op.pc = "replied", loop.pc \in {"drive", "verify"}, Recovers
  PROVE  IInv'
<1> DEFINE l == [loop EXCEPT !.tries = 0, !.result = "failed"]
           r == CloseRequest(loop.browser)
<1>1. loop \in LoopType /\ Owns(loop) /\ Quiet /\ loop.browser \in Tabs \cup {0}
  BY Answered, LoopFields
<1>2. l \in LoopType /\ Owns(l) /\ NavKept(l)
  <2>1. l \in LoopType
    <3>1. 0 \in 0..(MutationRetries + ProviderRetries)
      BY Constants
    <3> QED BY <1>1, <3>1 DEF LoopType
  <2>2. l.owned = loop.owned /\ l.browser = loop.browser
    BY <1>1 DEF LoopType
  <2> QED BY <1>1, <2>1, <2>2 DEF Owns, NavKept, Quiet
<1>3. Calls(l, "recover_close", r)
  BY DEF Recovers, CloseRequest
<1>4. r \in OpType /\ r.kind = "close" /\ r.pc = "called" /\ r.slot = 0 /\ r.keeps /\ r.id = loop.browser
  BY <1>1, CloseRequests
<1> HIDE DEF l, r
<1> QED BY <1>1, <1>2, <1>3, <1>4, Called DEF LoopPc, KindAt, FailedAt, Owns

LEMMA DrivenStep == ASSUME IInv, Driven PROVE IInv'
<1>1. SessionKept /\ loop.pc = "drive" /\ op.pc = "replied"
  BY DEF Driven, SessionKept, At
<1>2. loop \in LoopType /\ Owns(loop) /\ Quiet /\ NavKept(loop)
  BY <1>1, Answered
<1>3. CASE CallObserve(loop, "verify")
  BY <1>1, <1>2, <1>3, LoopHas, Observes
<1>4. CASE Recovers
  BY <1>1, <1>4, Recovered
<1>5. CASE Fails(loop)
  BY <1>1, <1>2, <1>5, Returned DEF Fails
<1> QED BY <1>3, <1>4, <1>5 DEF Driven

\* Another read, another write, or the end of the field.
LEMMA ReadsAgain ==
  ASSUME IInv, SessionKept, op.pc = "replied", loop.pc = "verify",
         NEW answer \in {"timeout", "rejected", "unavailable"}, ReadAgain(answer)
  PROVE  IInv'
<1>1. loop \in LoopType /\ Owns(loop) /\ Quiet /\ NavKept(loop)
  BY Answered
<1>2. loop.result # "failed" /\ loop.pages < PageLimit /\ loop.seen = loop.page
      /\ loop.field \in Fields
  BY LoopHas
<1> DEFINE l == [loop EXCEPT !.reads = @ + 1, !.answer = answer]
           m == [loop EXCEPT !.tries = @ + 1]
<1>3. ASSUME loop.reads + 1 < VerifyReads, CallObserve(l, "verify") PROVE IInv'
  <2>1. loop.reads + 1 \in 0..(VerifyReads - 1)
    BY <1>1, <1>3, LoopFields, Constants
  <2>4. l \in LoopType
    <3>1. answer \in {"none", "timeout", "rejected", "unavailable"}
      OBVIOUS
    <3> QED BY <1>1, <2>1, <3>1 DEF LoopType
  <2>5. l.owned = loop.owned /\ l.browser = loop.browser
    BY <1>1 DEF LoopType
  <2>2. /\ l.result = loop.result /\ l.pages = loop.pages
        /\ l.seen = loop.seen /\ l.page = loop.page /\ l.field = loop.field
    BY <1>1 DEF LoopType
  <2>3. CallObserve(l, "verify")
    BY <1>3
  <2> HIDE DEF l
  <2> QED BY <1>1, <1>2, <2>2, <2>3, <2>4, <2>5, Observes DEF Owns
<1>4. ASSUME loop.tries < MutationRetries, CallMutate(m, loop.field) PROVE IInv'
  <2>1. loop.tries + 1 \in 0..(MutationRetries + ProviderRetries)
    BY <1>1, <1>4, LoopFields, Constants
  <2>2. m \in LoopType /\ Owns(m) /\ m.result = loop.result /\ m.pages = loop.pages
        /\ m.seen = loop.seen /\ m.page = loop.page
    BY <1>1, <2>1 DEF LoopType, Owns
  <2>3. CallMutate(m, loop.field)
    BY <1>4
  <2> HIDE DEF m
  <2> QED BY <1>1, <1>2, <2>2, <2>3, Mutates
<1>5. CASE Fails(loop)
  BY <1>1, <1>5, Returned DEF Fails
<1>6. CASE Returns(loop, "blocked")
  BY <1>1, <1>6, Returned
<1> QED BY <1>3, <1>4, <1>5, <1>6 DEF ReadAgain, Verdict

LEMMA VerifiedStep == ASSUME IInv, Verified PROVE IInv'
<1>1. SessionKept /\ loop.pc = "verify" /\ op.pc = "replied"
  BY DEF Verified, SessionKept, At
<1>2. loop \in LoopType /\ Owns(loop) /\ Quiet /\ NavKept(loop)
  BY <1>1, Answered
<1> DEFINE l == [loop EXCEPT !.verified = @ \cup {loop.field}, !.reads = 0, !.answer = "none"]
<1>3. CASE Recovers
  BY <1>1, <1>3, Recovered
<1>4. CASE Fails(loop)
  BY <1>1, <1>2, <1>4, Returned DEF Fails
<1>5. CASE Returns(loop, "blocked")
  BY <1>1, <1>2, <1>5, Returned
<1>6. ASSUME NEW answer \in {"timeout", "rejected", "unavailable"}, ReadAgain(answer) PROVE IInv'
  BY <1>1, <1>6, ReadsAgain
<1>7. CASE NextField(l)
  <2>1. loop.result # "failed" /\ loop.pages < PageLimit /\ loop.seen = loop.page
        /\ loop.field \in Fields
    BY <1>1, LoopHas
  <2>2. loop.verified \cup {loop.field} \in SUBSET Fields
    BY <1>2, <2>1, LoopFields
  <2>3. l \in LoopType /\ l.owned = loop.owned /\ l.browser = loop.browser
        /\ l.result = loop.result /\ l.pages = loop.pages
        /\ l.seen = loop.seen /\ l.page = loop.page
    <3> DEFINE k == [loop EXCEPT !.verified = @ \cup {loop.field}]
    <3>1. k \in LoopType /\ k.owned = loop.owned /\ k.browser = loop.browser
          /\ k.result = loop.result /\ k.pages = loop.pages
          /\ k.seen = loop.seen /\ k.page = loop.page
      BY <1>2, <2>2 DEF LoopType
    <3>2. l \in LoopType
      <4>1. 0 \in 0..(VerifyReads - 1)
        BY Constants
      <4>2. \A x \in LoopType : [x EXCEPT !.reads = 0] \in LoopType
        BY <4>1 DEF LoopType
      <4>3. \A x \in LoopType : [x EXCEPT !.answer = "none"] \in LoopType
        BY DEF LoopType
      <4> HIDE DEF k
      <4>4. [k EXCEPT !.reads = 0, !.answer = "none"] \in LoopType
        BY <3>1, <4>2, <4>3
      <4> QED BY <4>4 DEF k
    <3>3. /\ l.owned = k.owned /\ l.browser = k.browser /\ l.result = k.result
          /\ l.pages = k.pages /\ l.seen = k.seen /\ l.page = k.page
      BY <1>2 DEF LoopType
    <3> HIDE DEF k, l
    <3> QED BY <3>1, <3>2, <3>3
  <2>4. NextField(l)
    BY <1>7
  <2> HIDE DEF l
  <2> QED BY <1>1, <1>2, <2>1, <2>3, <2>4, NextFields DEF Owns
<1>8. loop.answer \in {"none", "timeout", "rejected", "unavailable"}
  BY <1>2, LoopFields
<1> HIDE DEF l
<1>9. \/ Recovers \/ Fails(loop) \/ Returns(loop, "blocked") \/ NextField(l)
      \/ \E answer \in {"timeout", "rejected", "unavailable"} : ReadAgain(answer)
  BY <1>8 DEF Verified, l
<1> QED BY <1>3, <1>4, <1>5, <1>6, <1>7, <1>9

LEMMA NavigatedStep == ASSUME IInv, Navigated PROVE IInv'
<1>1. SessionKept /\ loop.pc = "navigate" /\ op.pc = "replied"
  BY DEF Navigated, SessionKept, At
<1>2. loop \in LoopType /\ Owns(loop) /\ NavKept(loop) /\ op.kind = "navigate"
  BY <1>1, Answered DEF KindAt
<1> DEFINE l == [loop EXCEPT !.page = session.page]
<1>3. ASSUME op.reply = "ok", CallObserve(l, "arrive") PROVE IInv'
  <2>1. session.tab # 0 /\ session.page = tab[session.tab].at
    BY <1>1, <1>2, <1>3 DEF IInv, OpInv, Replied
  <2>2. session.page \in Pages \cup {0} /\ loop.result # "failed" /\ Quiet
    BY <1>1, <1>3, LoopHas, Answered DEF IInv, TypeOK, SessionTypeOK, SessionType
  <2>3. l \in LoopType /\ l.owned = loop.owned /\ l.browser = loop.browser
        /\ l.result = loop.result /\ l.page = session.page
    BY <1>2, <2>2 DEF LoopType
  <2>4. CallObserve(l, "arrive")
    BY <1>3
  <2> HIDE DEF l
  <2> QED BY <1>1, <1>2, <2>1, <2>2, <2>3, <2>4, Observes DEF Owns
<1>4. CASE Fails(loop)
  BY <1>1, <1>2, <1>4, Returned DEF Fails
<1> QED BY <1>3, <1>4 DEF Navigated

LEMMA ArrivedStep == ASSUME IInv, Arrived PROVE IInv'
<1>1. SessionKept /\ loop.pc = "arrive" /\ op.pc = "replied" /\ At("arrive")
  BY DEF Arrived, SessionKept, At
<1>2. loop \in LoopType /\ Owns(loop) /\ Quiet /\ NavKept(loop)
  BY <1>1, Answered
<1> DEFINE l == Understood(loop)
<1>3. ASSUME op.reply = "ok",
             Returns(l, "failed") \/ Returns(l, "review") \/ (loop.pages < PageLimit /\ NextField(l))
      PROVE  IInv'
  <2>1. loop.browser = session.tab /\ session.tab \in Tabs /\ tab[session.tab].at = loop.page
        /\ loop.result # "failed"
    BY <1>1, <1>3, LoopHas, Constants
  <2>2. l \in LoopType /\ l.seen = l.page /\ l.pages = loop.pages /\ l.result = loop.result /\ Owns(l)
    BY <1>2, <2>1, UnderstoodFields DEF IInv
  <2>3. NavKept(l)
    BY <1>2 DEF NavKept, Quiet
  <2>4. Returns(l, "failed") \/ Returns(l, "review") \/ (loop.pages < PageLimit /\ NextField(l))
    BY <1>3
  <2> HIDE DEF l
  <2> QED BY <1>1, <1>2, <2>1, <2>2, <2>3, <2>4, NextFields, Returned
<1>4. CASE Returns(loop, "blocked")
  BY <1>1, <1>2, <1>4, Returned
<1>5. CASE Retries("arrive")
  BY <1>1, <1>5, Retried
<1>6. CASE GivesUp
  BY <1>1, <1>6, GaveUp DEF GivesUp
<1> QED BY <1>3, <1>4, <1>5, <1>6 DEF Arrived, Fails

LEMMA RecoveryClosesStep == ASSUME IInv, RecoveryCloses PROVE IInv'
<1>1. SessionKept /\ loop.pc = "recover_close" /\ op.pc = "replied"
  BY DEF RecoveryCloses, SessionKept, At
<1>2. loop \in LoopType /\ Owns(loop) /\ Quiet /\ NavKept(loop) /\ op.kind = "close"
  BY <1>1, Answered DEF KindAt
<1> DEFINE l == [loop EXCEPT !.owned = 0]
           r == [Request("start") EXCEPT !.keeps = TRUE]
<1>3. CASE Calls(l, "recover_start", r)
  <2>1. session.tab = 0
    BY <1>1, <1>2 DEF IInv, OpInv
  <2>2. l \in LoopType /\ NavKept(l) /\ Owns(l)
    BY <1>2, <2>1 DEF LoopType, NavKept, Quiet, Owns
  <2>3. r \in OpType /\ r.kind = "start" /\ r.pc = "called" /\ r.slot = 0
    BY StartRequest
  <2>4. Calls(l, "recover_start", r)
    BY <1>3
  <2> HIDE DEF l, r
  <2> QED BY <1>1, <1>2, <2>1, <2>2, <2>3, <2>4, Called DEF LoopPc, KindAt, FailedAt
<1>4. CASE Fails(loop)
  BY <1>1, <1>2, <1>4, Returned DEF Fails
<1> QED BY <1>3, <1>4 DEF RecoveryCloses

LEMMA RecoveryStartsStep == ASSUME IInv, RecoveryStarts PROVE IInv'
<1>1. SessionKept /\ loop.pc = "recover_start" /\ op.pc = "replied"
  BY DEF RecoveryStarts, SessionKept, At
<1>2. loop \in LoopType /\ Quiet /\ NavKept(loop) /\ op.kind = "start"
  BY <1>1, Answered DEF KindAt
<1> DEFINE l == [loop EXCEPT !.browser = session.id, !.owned = session.id, !.page = session.page]
           r == KeptRequest("observe", l.browser, l.page)
<1>3. ASSUME op.reply = "ok", Calls(l, "recover_observe", r) PROVE IInv'
  <2>1. session.tab # 0 /\ session.id = session.tab
    BY <1>1, <1>2, <1>3 DEF IInv, OpInv, SessionInv, Replied
  <2>2. session.id \in Tabs \cup {0} /\ session.page \in Pages \cup {0}
    BY DEF IInv, TypeOK, SessionTypeOK, SessionType
  <2>3. l \in LoopType /\ l.page = session.page /\ l.owned = session.tab /\ l.browser = session.tab
    BY <1>2, <2>1, <2>2, Constants DEF LoopType
  <2>4. r \in OpType /\ r.kind = "observe" /\ r.pc = "called" /\ r.slot = 0
    BY <2>1, <2>2, <2>3, PageRequests
  <2>5. NavKept(l) /\ Owns(l)
    BY <1>2, <2>3 DEF NavKept, Quiet, Owns
  <2>6. Calls(l, "recover_observe", r)
    BY <1>3
  <2> HIDE DEF l, r
  <2> QED BY <1>1, <1>2, <2>1, <2>3, <2>4, <2>5, <2>6, Called DEF LoopPc, KindAt, FailedAt
<1>4. ASSUME op.reply # "ok", Fails(loop) PROVE IInv'
  BY <1>1, <1>4, GaveUp
<1> QED BY <1>3, <1>4 DEF RecoveryStarts, KeptRequest

LEMMA RecoveryEndsStep == ASSUME IInv, RecoveryEnds PROVE IInv'
<1>1. SessionKept /\ loop.pc = "recover_observe" /\ op.pc = "replied" /\ Fails(loop)
  BY DEF RecoveryEnds, SessionKept, At
<1>2. loop \in LoopType /\ Owns(loop) /\ NavKept(loop)
  BY <1>1, Answered
<1> QED BY <1>1, <1>2, Returned DEF Fails

LEMMA ClosedStep == ASSUME IInv, Closed PROVE IInv'
<1>1. SessionKept /\ loop.pc = "close" /\ op.pc = "replied" /\ Calls(loop, "done", NoOp)
  BY DEF Closed, SessionKept, At
<1>2. loop \in LoopType /\ Owns(loop) /\ NavKept(loop) /\ op.kind = "close"
  BY <1>1, Answered DEF KindAt
<1>3. session.tab = 0
  BY <1>1, <1>2 DEF IInv, OpInv
<1>4. Quiet
  BY <1>1, <1>2, <1>3, Constants DEF IInv, SessionInv, Quiet, LiveNav
<1> QED BY <1>1, <1>2, <1>3, <1>4, Idle, Called DEF LoopPc, KindAt, FailedAt

LEMMA LoopSteps == ASSUME IInv, LoopStep PROVE IInv'
BY StartsStep, StartedStep, ObservedStep, DrivenStep, VerifiedStep, NavigatedStep, ArrivedStep,
   RecoveryClosesStep, RecoveryStartsStep, RecoveryEndsStep, ClosedStep DEF LoopStep

-----------------------------------------------------------------------------
(* The steps of the session and of the effects.  They leave the loop alone. *)

\* A step that shows no page anew, opens and closes none.
TabSame ==
  /\ tab' \in [Tabs -> TabType]
  /\ \A t \in Tabs : tab'[t].st = tab[t].st /\ tab'[t].at = tab[t].at

\* The effects go on or end, and none begins.
EffectsGoOn ==
  /\ effect' \in [Slots -> EffectType]
  /\ \A s \in Slots :
       \/ effect'[s].pc = "off"
       \/ /\ effect[s].pc # "off"
          /\ effect'[s].tab = effect[s].tab /\ effect'[s].page = effect[s].page
          /\ effect'[s].pc \in {"count", "click"} => effect[s].pc \in {"count", "click"}

LEMMA SameTab == ASSUME TypeOK, UNCHANGED tab PROVE TabSame
BY DEF TabSame, TypeOK, SessionTypeOK

LEMMA SameEffects == ASSUME TypeOK, UNCHANGED effect PROVE EffectsGoOn
BY DEF EffectsGoOn, TypeOK, SessionTypeOK

LEMMA LiveBefore ==
  ASSUME SessionInv, TabSame, EffectsGoOn, NEW s \in Slots, LiveNav(s)'
  PROVE  LiveNav(s) /\ effect'[s].page = effect[s].page
BY DEF LiveNav, IsOpen, TabSame, EffectsGoOn, SessionInv

\* The call and its kind.
LEMMA KindOfLoop ==
  ASSUME IInv, op.pc # "idle"
  PROVE  /\ op.kind = "start" => loop.pc \in {"start", "recover_start"}
         /\ op.kind = "observe" => loop.pc \in {"observe", "verify", "arrive", "recover_observe"}
         /\ op.kind = "mutate" => loop.pc = "drive"
         /\ op.kind = "navigate" => loop.pc = "navigate"
         /\ op.kind = "close" => loop.pc \in {"close", "recover_close"}
         /\ op.kind \in {"start", "observe", "mutate", "navigate", "close"}
         /\ op.kind = KindAt(loop.pc)
<1>1. loop.pc \in LoopPc
  BY LoopFields DEF IInv, TypeOK
<1>2. op.kind = KindAt(loop.pc) /\ op.kind # "none"
  BY DEF IInv, OpInv
<1>3. op.kind \in {"none", "start", "observe", "mutate", "navigate", "close"}
  BY DEF IInv, TypeOK, SessionTypeOK, OpType
<1> QED BY <1>1, <1>2, <1>3 DEF KindAt, LoopPc

LEMMA SessionsOpen ==
  ASSUME IInv, session.tab # 0
  PROVE  session.tab \in Tabs /\ IsOpen(session.tab) /\ tab[session.tab].at \in Pages
         /\ tab[session.tab].st # "none"
<1>1. session.tab \in Tabs
  BY DEF IInv, TypeOK, SessionTypeOK, SessionType
<1> QED BY <1>1 DEF IInv, SessionInv, IsOpen, TypeOK, SessionTypeOK, TabType

\* A call is answered without a change of the session.
LEMMA Replies ==
  ASSUME IInv, UNCHANGED <<loop, session, aborted>>, TabSame, EffectsGoOn,
         NEW r \in {"ok", "timeout", "cancelled", "failed"}, Reply(r),
         op.pc \notin {"idle", "releasing"},
         op.kind = "start" => r # "ok" /\ session.tab = 0,
         op.kind = "observe" /\ r = "ok" => session.tab # 0,
         op.kind = "navigate" => r # "ok",
         op.kind = "close" => session.tab = 0
  PROVE  IInv'
<1>1. op' \in OpType /\ op' = [op EXCEPT !.pc = "replied", !.reply = r]
  BY DEF Reply, IInv, TypeOK, SessionTypeOK, OpType
<1>2. op'.pc = "replied" /\ op'.reply = r /\ op'.kind = op.kind /\ op'.page = op.page
      /\ op'.slot = op.slot /\ op'.keeps = op.keeps /\ op'.id = op.id
  BY <1>1 DEF IInv, TypeOK, SessionTypeOK, OpType
<1>3. TypeOK'
  BY <1>1 DEF IInv, TypeOK, SessionTypeOK, TabSame, EffectsGoOn
<1>4. \A t \in Tabs : IsOpen(t)' <=> IsOpen(t)
  BY DEF IsOpen, TabSame
<1>5. session.tab # 0 => session.tab \in Tabs
  BY SessionsOpen
<1>6. op.kind = KindAt(loop.pc) /\ op.kind # "none"
  BY KindOfLoop
<1>7. SessionInv'
  <2>1. (session.tab # 0 => IsOpen(session.tab))'
    BY <1>4, <1>5 DEF IInv, SessionInv
  <2>2. \A t \in Tabs : IsOpen(t)' => t = session'.tab
    BY <1>4 DEF IInv, SessionInv
  <2>3. (session.tab # 0 => session.id = session.tab /\ session.closed = 0)'
    BY DEF IInv, SessionInv
  <2>4. \A s \in Slots : effect'[s].pc # "off" =>
          effect'[s].tab \in Tabs /\ tab'[effect'[s].tab].st # "none"
    BY DEF IInv, SessionInv, EffectsGoOn, TabSame
  <2> QED BY <1>2, <2>1, <2>2, <2>3, <2>4 DEF SessionInv, Replied
<1>8. OpInv'
  BY <1>2, <1>6 DEF IInv, OpInv, Replied, KindAt
<1>9. LoopInv'
  BY DEF IInv, LoopInv
<1>10. NavInv'
  <2> SUFFICES ASSUME NEW s \in Slots, LiveNav(s)'
               PROVE  /\ loop'.pc \in {"navigate", "close"}
                      /\ loop'.seen = effect'[s].page /\ Required \subseteq loop'.verified
                      /\ op'.kind = "navigate" => op'.pc # "called" /\ s = op'.slot /\ ~Replied("ok")'
    BY DEF NavInv
  <2>1. LiveNav(s) /\ effect'[s].page = effect[s].page
    BY LiveBefore DEF IInv
  <2> QED BY <1>2, <2>1 DEF IInv, NavInv, Replied
<1>11. PageInv'
  BY <1>2, <1>5 DEF IInv, PageInv, TabSame
<1> QED BY <1>3, <1>7, <1>8, <1>9, <1>10, <1>11 DEF IInv

\* A page is let go of after an effect that may have happened, or because it
\* did not open in time.
LEMMA Releases ==
  ASSUME IInv, UNCHANGED <<loop, tab, aborted>>, EffectsGoOn,
         NEW r \in {"timeout", "cancelled", "uncertain", "failed"}, Release(r),
         op.pc \in {"waiting", "reconcile", "again"}, op.kind \in {"start", "mutate", "navigate"}
  PROVE  IInv'
<1> DEFINE o == [op EXCEPT !.pc = "releasing", !.reply = r, !.closing = session.tab]
           e == [session EXCEPT !.tab = 0, !.id = 0, !.page = 0]
<1>0. TabSame
  BY SameTab DEF IInv
<1>1. session.tab \in Tabs \cup {0} /\ session \in SessionType /\ op \in OpType
  BY DEF IInv, TypeOK, SessionTypeOK, SessionType
<1>2. op' = o /\ session' = e
  BY DEF Release
<1>3. o \in OpType /\ e \in SessionType
  <2>1. r \in {"none", "ok", "timeout", "cancelled", "uncertain", "failed"}
    OBVIOUS
  <2>2. o \in OpType
    <3>1. \A x \in OpType : [x EXCEPT !.pc = "releasing"] \in OpType
      BY DEF OpType
    <3>2. \A x \in OpType : [x EXCEPT !.reply = r] \in OpType
      BY <2>1 DEF OpType
    <3>3. \A x \in OpType : [x EXCEPT !.closing = session.tab] \in OpType
      BY <1>1 DEF OpType
    <3> QED BY <1>1, <3>1, <3>2, <3>3
  <2>3. e \in SessionType
    BY <1>1 DEF SessionType
  <2> QED BY <2>2, <2>3
<1>4. op'.pc = "releasing" /\ op'.reply = r /\ op'.closing = session.tab /\ op'.kind = op.kind
      /\ op'.page = op.page /\ op'.slot = op.slot
  BY <1>1, <1>2 DEF OpType
<1>5. session'.tab = 0
  BY <1>1, <1>2 DEF SessionType
<1>6. TypeOK'
  BY <1>2, <1>3 DEF IInv, TypeOK, SessionTypeOK, EffectsGoOn
<1>7. SessionInv'
  <2>1. \A t \in Tabs : IsOpen(t)' => op'.pc = "releasing" /\ t = op'.closing
    BY <1>4 DEF IInv, SessionInv, IsOpen
  <2>2. \A s \in Slots : effect'[s].pc # "off" =>
          effect'[s].tab \in Tabs /\ tab'[effect'[s].tab].st # "none"
    BY DEF IInv, SessionInv, EffectsGoOn
  <2> QED BY <1>4, <1>5, <2>1, <2>2 DEF SessionInv, Replied
<1>8. op.kind = KindAt(loop.pc)
  BY KindOfLoop
<1>9. OpInv'
  BY <1>4, <1>5, <1>8 DEF IInv, OpInv, Replied, KindAt
<1>10. LoopInv'
  BY <1>5 DEF IInv, LoopInv
<1>11. NavInv'
  <2> SUFFICES ASSUME NEW s \in Slots, LiveNav(s)'
               PROVE  /\ loop'.pc \in {"navigate", "close"}
                      /\ loop'.seen = effect'[s].page /\ Required \subseteq loop'.verified
                      /\ op'.kind = "navigate" => op'.pc # "called" /\ s = op'.slot /\ ~Replied("ok")'
    BY DEF NavInv
  <2>1. LiveNav(s) /\ effect'[s].page = effect[s].page
    BY <1>0, LiveBefore DEF IInv
  <2> QED BY <1>4, <2>1 DEF IInv, NavInv, Replied
<1>12. PageInv'
  BY <1>4, <1>5 DEF IInv, PageInv
<1> QED BY <1>6, <1>7, <1>9, <1>10, <1>11, <1>12 DEF IInv

\* A mutation begins an effect, reads its result back or repeats it.
LEMMA Works ==
  ASSUME IInv, UNCHANGED <<loop, session, aborted>>, TabSame,
         effect' \in [Slots -> EffectType],
         \A s \in Slots : \/ effect'[s].pc \notin {"count", "click"}
                          \/ effect'[s].pc = effect[s].pc /\ effect'[s].tab = effect[s].tab,
         \A s \in Slots : \/ effect'[s].pc = "off" \/ effect'[s].tab = session.tab
                          \/ effect[s].pc # "off" /\ effect'[s].tab = effect[s].tab,
         op' \in OpType, op.kind = "mutate", op'.kind = "mutate", op.pc \notin {"idle", "releasing"},
         op'.pc \in {"waiting", "reconcile", "again"}, session.tab # 0
  PROVE  IInv'
<1>1. TypeOK'
  BY DEF IInv, TypeOK, SessionTypeOK, TabSame
<1>2. loop.pc = "drive" /\ op.kind = KindAt(loop.pc)
  BY KindOfLoop
<1>3. session.tab \in Tabs
  BY SessionsOpen
<1>4. SessionInv'
  <2>1. (session.tab # 0 => IsOpen(session.tab))'
    BY <1>3 DEF IInv, SessionInv, IsOpen, TabSame
  <2>2. \A t \in Tabs : IsOpen(t)' => t = session'.tab
    BY DEF IInv, SessionInv, IsOpen, TabSame
  <2>3. (session.tab # 0 => session.id = session.tab /\ session.closed = 0)'
    BY DEF IInv, SessionInv
  <2>4. \A s \in Slots : effect'[s].pc # "off" =>
          effect'[s].tab \in Tabs /\ tab'[effect'[s].tab].st # "none"
    BY <1>3, SessionsOpen DEF IInv, SessionInv, TabSame
  <2> QED BY <2>1, <2>2, <2>3, <2>4 DEF SessionInv, Replied
<1>5. OpInv'
  BY <1>2 DEF OpInv, Replied, KindAt
<1>6. LoopInv'
  BY DEF IInv, LoopInv
<1>7. NavInv'
  <2> SUFFICES ASSUME NEW s \in Slots, LiveNav(s)' PROVE FALSE
    BY DEF NavInv
  <2>1. LiveNav(s)
    BY DEF LiveNav, IsOpen, TabSame, IInv, SessionInv
  <2> QED BY <1>2, <2>1 DEF IInv, NavInv
<1>8. PageInv'
  BY <1>2 DEF IInv, PageInv
<1> QED BY <1>1, <1>4, <1>5, <1>6, <1>7, <1>8 DEF IInv

\* An effect of which nobody hears goes on or ends.
LEMMA Unheard ==
  ASSUME IInv, UNCHANGED <<loop, session, op, aborted>>, TabSame, EffectsGoOn
  PROVE  IInv'
<1>1. TypeOK'
  BY DEF IInv, TypeOK, SessionTypeOK, TabSame, EffectsGoOn
<1>3. session.tab # 0 => session.tab \in Tabs
  BY SessionsOpen
<1>4. SessionInv'
  <2>1. (session.tab # 0 => IsOpen(session.tab))'
    BY <1>3 DEF IInv, SessionInv, IsOpen, TabSame
  <2>2. \A t \in Tabs : IsOpen(t)' => t = session'.tab \/ (op'.pc = "releasing" /\ t = op'.closing)
    BY DEF IInv, SessionInv, IsOpen, TabSame
  <2>3. \A s \in Slots : effect'[s].pc # "off" =>
          effect'[s].tab \in Tabs /\ tab'[effect'[s].tab].st # "none"
    BY DEF IInv, SessionInv, EffectsGoOn, TabSame
  <2> QED BY <2>1, <2>2, <2>3 DEF IInv, SessionInv, Replied
<1>5. OpInv'
  BY <1>3 DEF IInv, OpInv, Replied, KindAt, TabSame
<1>6. LoopInv'
  BY DEF IInv, LoopInv
<1>7. NavInv'
  <2> SUFFICES ASSUME NEW s \in Slots, LiveNav(s)'
               PROVE  /\ loop'.pc \in {"navigate", "close"}
                      /\ loop'.seen = effect'[s].page /\ Required \subseteq loop'.verified
                      /\ op'.kind = "navigate" => op'.pc # "called" /\ s = op'.slot /\ ~Replied("ok")'
    BY DEF NavInv
  <2>1. LiveNav(s) /\ effect'[s].page = effect[s].page
    BY LiveBefore DEF IInv
  <2> QED BY <2>1 DEF IInv, NavInv, Replied
<1>8. PageInv'
  BY <1>3 DEF IInv, PageInv, TabSame
<1> QED BY <1>1, <1>4, <1>5, <1>6, <1>7, <1>8 DEF IInv

LEMMA OpensPageStep == ASSUME IInv, OpensPage, UNCHANGED loop PROVE IInv'
<1>1. op.kind = "start" /\ op.pc = "called" /\ UNCHANGED <<effect, aborted>> /\ session.tab = 0
      /\ loop.pc \in {"start", "recover_start"} /\ op.kind = KindAt(loop.pc)
  <2>1. op.kind = "start" /\ op.pc = "called" /\ UNCHANGED <<effect, aborted>>
    BY DEF OpensPage, Serving
  <2> QED BY <2>1, KindOfLoop DEF IInv, OpInv
<1>2. EffectsGoOn
  BY <1>1, SameEffects DEF IInv
<1>3. \A t \in Tabs : ~IsOpen(t)
  BY <1>1, Constants DEF IInv, SessionInv
<1>4. CASE (Reply("cancelled") \/ Reply("failed")) /\ UNCHANGED <<tab, session>>
  <2>1. TabSame
    BY <1>4, SameTab DEF IInv
  <2> QED BY <1>1, <1>2, <1>4, <2>1, Replies
<1> DEFINE e(t) == [session EXCEPT !.invalid = FALSE, !.tab = t, !.id = 0, !.page = 0]
<1>5. CASE session' = e(0) /\ Reply("failed") /\ UNCHANGED tab
  <2>1. op' \in OpType /\ op'.pc = "replied" /\ op'.reply = "failed" /\ op'.kind = "start"
        /\ op'.slot = op.slot
    BY <1>1, <1>5 DEF Reply, IInv, TypeOK, SessionTypeOK, OpType
  <2>2. session' \in SessionType /\ session'.tab = 0
    BY <1>5 DEF IInv, TypeOK, SessionTypeOK, SessionType
  <2>3. TypeOK'
    BY <1>1, <1>5, <2>1, <2>2 DEF IInv, TypeOK, SessionTypeOK
  <2>4. SessionInv'
    BY <1>1, <1>3, <1>5, <2>1, <2>2 DEF IInv, SessionInv, IsOpen, Replied
  <2>5. OpInv' /\ LoopInv' /\ PageInv'
    BY <1>1, <2>1, <2>2 DEF IInv, OpInv, LoopInv, PageInv, Replied, KindAt
  <2>6. NavInv'
    BY <1>1, <1>3, <1>5 DEF IInv, SessionInv, NavInv, LiveNav, IsOpen
  <2> QED BY <2>3, <2>4, <2>5, <2>6 DEF IInv
<1>6. ASSUME NEW t \in Tabs, tab[t].st = "none", NEW form \in Forms(1),
             tab' = [tab EXCEPT ![t] = [st |-> "open", at |-> 1, form |-> form]],
             session' = e(t), op' = [op EXCEPT !.pc = "waiting"]
      PROVE  IInv'
  <2>1. op' \in OpType /\ op'.pc = "waiting" /\ op'.kind = "start" /\ op'.slot = op.slot
    BY <1>1, <1>6 DEF IInv, TypeOK, SessionTypeOK, OpType
  <2>2. session' \in SessionType /\ session'.tab = t
    BY <1>6 DEF IInv, TypeOK, SessionTypeOK, SessionType
  <2>3. tab' \in [Tabs -> TabType] /\ tab'[t].st = "open" /\ \A u \in Tabs : u # t => tab'[u] = tab[u]
    <3>1. form \in [Fields -> Values]
      BY DEF Forms, Values
    <3>2. [st |-> "open", at |-> 1, form |-> form] \in TabType
      BY <3>1, Constants DEF TabType
    <3> QED BY <1>6, <3>2 DEF IInv, TypeOK, SessionTypeOK
  <2>4. TypeOK'
    BY <1>1, <2>1, <2>2, <2>3 DEF IInv, TypeOK, SessionTypeOK
  <2>5. \A s \in Slots : effect[s].pc # "off" => effect[s].tab \in Tabs \ {t}
          /\ tab'[effect[s].tab] = tab[effect[s].tab] /\ tab[effect[s].tab].st # "none"
    BY <1>6, <2>3 DEF IInv, SessionInv
  <2>6. SessionInv'
    BY <1>1, <1>3, <2>1, <2>2, <2>3, <2>5, Constants DEF SessionInv, IsOpen, Replied
  <2>7. OpInv' /\ LoopInv' /\ PageInv'
    BY <1>1, <2>1, <2>2 DEF IInv, OpInv, LoopInv, PageInv, Replied, KindAt
  <2>8. NavInv'
    BY <1>1, <1>3, <2>5 DEF NavInv, LiveNav, IsOpen
  <2> QED BY <2>4, <2>6, <2>7, <2>8 DEF IInv
<1> QED BY <1>1, <1>4, <1>5, <1>6 DEF OpensPage

LEMMA OpenedStep == ASSUME IInv, Opened, UNCHANGED loop PROVE IInv'
<1>1. op.kind = "start" /\ op.pc = "waiting" /\ UNCHANGED <<tab, effect, aborted>> /\ session.tab # 0
      /\ loop.pc \in {"start", "recover_start"} /\ op.kind = KindAt(loop.pc)
  <2>1. op.kind = "start" /\ op.pc = "waiting" /\ UNCHANGED <<tab, effect, aborted>>
    BY DEF Opened, Serving
  <2> QED BY <2>1, KindOfLoop DEF IInv, SessionInv
<1>2. session.tab \in Tabs /\ IsOpen(session.tab) /\ tab[session.tab].at \in Pages
  BY <1>1, SessionsOpen
<1> DEFINE e == [session EXCEPT !.id = session.tab, !.page = tab[session.tab].at, !.closed = 0]
<1>3. CASE session' = e /\ Reply("ok")
  <2>1. op' \in OpType /\ op'.pc = "replied" /\ op'.reply = "ok" /\ op'.kind = "start"
        /\ op'.slot = op.slot
    BY <1>1, <1>3 DEF Reply, IInv, TypeOK, SessionTypeOK, OpType
  <2>2. session' \in SessionType /\ session'.tab = session.tab /\ session'.id = session.tab
        /\ session'.closed = 0 /\ session'.page = tab[session.tab].at
    BY <1>2, <1>3 DEF IInv, TypeOK, SessionTypeOK, SessionType
  <2>3. TypeOK'
    BY <1>1, <2>1, <2>2 DEF IInv, TypeOK, SessionTypeOK
  <2>4. SessionInv'
    BY <1>1, <1>2, <2>1, <2>2 DEF IInv, SessionInv, IsOpen, Replied
  <2>5. OpInv' /\ LoopInv' /\ PageInv'
    BY <1>1, <2>1, <2>2 DEF IInv, OpInv, LoopInv, PageInv, Replied, KindAt
  <2>6. NavInv'
    BY <1>1, <2>1 DEF IInv, NavInv, LiveNav, IsOpen
  <2> QED BY <2>3, <2>4, <2>5, <2>6 DEF IInv
<1>4. ASSUME NEW r \in {"timeout", "failed", "cancelled"}, Release(r) PROVE IInv'
  BY <1>1, <1>4, SameEffects, Releases DEF IInv
<1> QED BY <1>3, <1>4 DEF Opened

LEMMA ObserveStep == ASSUME IInv, Observe, UNCHANGED loop PROVE IInv'
<1>1. op.kind = "observe" /\ op.pc = "called" /\ UNCHANGED <<tab, session, effect, aborted>>
  BY DEF Observe, Serving
<1>2. TabSame /\ EffectsGoOn
  BY <1>1, SameTab, SameEffects DEF IInv
<1>3. PICK r \in {"ok", "timeout", "cancelled", "failed"} : Reply(r) /\ (r = "ok" => Active)
  BY DEF Observe
<1>4. r = "ok" => session.tab # 0
  BY <1>3 DEF Active
<1> QED BY <1>1, <1>2, <1>3, <1>4, Replies

LEMMA CloseStep == ASSUME IInv, Close, UNCHANGED loop PROVE IInv'
<1>1. op.kind = "close" /\ op.pc = "called" /\ UNCHANGED <<tab, effect, aborted>> /\ op.keeps
      /\ (session.tab # 0 => op.id = session.tab) /\ loop.pc \in {"close", "recover_close"}
      /\ op.kind = KindAt(loop.pc)
  <2>1. op.kind = "close" /\ op.pc = "called" /\ UNCHANGED <<tab, effect, aborted>>
    BY DEF Close, Serving
  <2> QED BY <2>1, KindOfLoop DEF IInv, OpInv
<1>2. session.tab # 0 => session.id = session.tab /\ session.closed = 0
  BY <1>1 DEF IInv, SessionInv
<1>3. TabSame /\ EffectsGoOn
  BY <1>1, SameTab, SameEffects DEF IInv
<1>4. ASSUME op.id = session.closed \/ op.id # session.id, NEW r \in {"ok", "failed"}, Reply(r),
             UNCHANGED session
      PROVE  IInv'
  <2>1. session.tab = 0
    BY <1>1, <1>2, <1>4
  <2> QED BY <1>1, <1>3, <1>4, <2>1, Replies
<1> DEFINE e == [session EXCEPT !.tab = 0, !.id = 0, !.page = 0, !.closed = op.id]
           o == [op EXCEPT !.pc = "releasing", !.reply = "ok", !.closing = session.tab]
<1>5. CASE session' = e /\ op' = o
  <2>1. session.tab \in Tabs \cup {0} /\ op.id \in Tabs \cup {0} /\ op \in OpType
        /\ session \in SessionType
    BY DEF IInv, TypeOK, SessionTypeOK, SessionType, OpType
  <2>2. session' \in SessionType /\ session'.tab = 0
    BY <1>5, <2>1 DEF SessionType
  <2>3. op' \in OpType /\ op'.pc = "releasing" /\ op'.closing = session.tab /\ op'.kind = "close"
        /\ op'.keeps /\ op'.slot = op.slot
    BY <1>1, <1>5, <2>1 DEF OpType
  <2>4. TypeOK'
    BY <1>1, <2>2, <2>3 DEF IInv, TypeOK, SessionTypeOK
  <2>5. SessionInv'
    BY <1>1, <2>2, <2>3 DEF IInv, SessionInv, IsOpen, Replied
  <2>6. OpInv' /\ LoopInv' /\ PageInv'
    BY <1>1, <2>2, <2>3 DEF IInv, OpInv, LoopInv, PageInv, Replied, KindAt
  <2>7. NavInv'
    BY <1>1, <2>3 DEF IInv, NavInv, LiveNav, IsOpen
  <2> QED BY <2>4, <2>5, <2>6, <2>7 DEF IInv
<1> QED BY <1>1, <1>4, <1>5 DEF Close, Cancelled

LEMMA ReleasedStep == ASSUME IInv, Released, UNCHANGED loop PROVE IInv'
<1>1. op.pc = "releasing" /\ UNCHANGED <<effect, aborted>> /\ session.tab = 0
      /\ op.kind = KindAt(loop.pc) /\ op.kind # "none"
  <2>1. op.pc = "releasing" /\ UNCHANGED <<effect, aborted>>
    BY DEF Released
  <2> QED BY <2>1, KindOfLoop DEF IInv, SessionInv
<1>2. op' \in OpType /\ op'.pc = "replied" /\ op'.reply = op.reply /\ op'.kind = op.kind
      /\ op'.keeps = op.keeps /\ op'.page = op.page /\ op'.slot = op.slot
  BY DEF Released, Reply, IInv, TypeOK, SessionTypeOK, OpType
<1>3. session' \in SessionType /\ session'.tab = 0
  <2>1. op.id \in Tabs \cup {0} /\ op.page \in Pages \cup {0} /\ session \in SessionType
    BY DEF IInv, TypeOK, SessionTypeOK, OpType
  <2>2. CASE session' = session
    BY <1>1, <2>1, <2>2
  <2>3. CASE session' = [session EXCEPT !.id = op.id, !.page = op.page, !.invalid = TRUE]
    BY <1>1, <2>1, <2>3 DEF SessionType
  <2> QED BY <2>2, <2>3 DEF Released
<1>4. /\ tab' \in [Tabs -> TabType]
      /\ \A t \in Tabs : tab'[t].st # "open" /\ (tab[t].st # "none" => tab'[t].st # "none")
  <2>1. \A t \in Tabs : tab'[t] = IF t = op.closing
            THEN [tab[t] EXCEPT !.st = "closed", !.form = NoTab.form] ELSE tab[t]
    BY DEF Released
  <2>2. \A t \in Tabs : [tab[t] EXCEPT !.st = "closed", !.form = NoTab.form] \in TabType
                        /\ [tab[t] EXCEPT !.st = "closed", !.form = NoTab.form].st = "closed"
    <3>1. NoTab.form \in [Fields -> Values]
      BY DEF NoTab, Values
    <3> HIDE DEF NoTab
    <3> QED BY <3>1 DEF IInv, TypeOK, SessionTypeOK, TabType
  <2>3. \A t \in Tabs : t # op.closing => tab[t].st # "open"
    BY <1>1, Constants DEF IInv, SessionInv, IsOpen
  <2>4. tab' = [t \in Tabs |-> tab'[t]]
    BY DEF Released
  <2>5. \A t \in Tabs : tab'[t] \in TabType
    BY <2>1, <2>2 DEF IInv, TypeOK, SessionTypeOK
  <2>6. tab' \in [Tabs -> TabType]
    BY <2>4, <2>5
  <2> QED BY <2>1, <2>2, <2>3, <2>6
<1>5. TypeOK'
  BY <1>1, <1>2, <1>3, <1>4 DEF IInv, TypeOK, SessionTypeOK
<1>6. SessionInv'
  BY <1>1, <1>2, <1>3, <1>4 DEF IInv, SessionInv, IsOpen, Replied
<1>7. OpInv'
  BY <1>1, <1>2, <1>3 DEF IInv, OpInv, Replied, KindAt
<1>8. LoopInv' /\ PageInv'
  BY <1>2, <1>3 DEF IInv, LoopInv, PageInv
<1>9. NavInv'
  BY <1>1, <1>4 DEF IInv, SessionInv, NavInv, LiveNav, IsOpen
<1> QED BY <1>5, <1>6, <1>7, <1>8, <1>9 DEF IInv

LEMMA RefusesStep ==
  ASSUME IInv, NEW kind \in {"mutate", "navigate"}, Refuses(kind), UNCHANGED loop PROVE IInv'
<1>1. op.kind = kind /\ op.pc = "called" /\ UNCHANGED <<tab, session, effect, aborted>>
  BY DEF Refuses, Serving
<1>2. TabSame /\ EffectsGoOn
  BY <1>1, SameTab, SameEffects DEF IInv
<1>3. PICK r \in {"cancelled", "failed"} : Reply(r)
  BY DEF Refuses
<1> QED BY <1>1, <1>2, <1>3, Replies

LEMMA Begins ==
  ASSUME IInv, session.tab # 0, NEW pc \in {"rebind", "count"}, NEW left \in 0..1,
         NEW waiting \in {"waiting", "again"}, Begin(pc, left, waiting)
  PROVE  /\ effect' \in [Slots -> EffectType]
         /\ op' \in OpType /\ op'.kind = op.kind /\ op'.pc = waiting /\ op'.page = op.page
         /\ op'.slot \in Slots /\ effect[op'.slot].pc = "off"
         /\ effect'[op'.slot].pc = pc /\ effect'[op'.slot].tab = session.tab
         /\ effect'[op'.slot].page = op.page
         /\ \A r \in Slots : r # op'.slot => effect'[r] = effect[r]
<1>1. PICK s \in Slots :
        /\ effect[s].pc = "off"
        /\ effect' = [effect EXCEPT ![s] = [pc |-> pc, tab |-> session.tab, page |-> op.page,
                                            field |-> op.field, left |-> left]]
        /\ op' = [op EXCEPT !.pc = waiting, !.slot = s]
  BY DEF Begin
<1>2. op' \in OpType /\ op'.kind = op.kind /\ op'.pc = waiting /\ op'.page = op.page /\ op'.slot = s
  BY <1>1 DEF IInv, TypeOK, SessionTypeOK, OpType
<1>3. session.tab \in Tabs \cup {0} /\ op.page \in Pages \cup {0} /\ op.field \in Fields \cup {NextButton}
  BY DEF IInv, TypeOK, SessionTypeOK, OpType, SessionType
<1> DEFINE e == [pc |-> pc, tab |-> session.tab, page |-> op.page, field |-> op.field, left |-> left]
<1>4. e \in EffectType /\ e.pc = pc /\ e.tab = session.tab /\ e.page = op.page
  BY <1>3 DEF EffectType
<1>5. effect' = [effect EXCEPT ![s] = e]
  BY <1>1
<1> HIDE DEF e
<1> QED BY <1>1, <1>2, <1>4, <1>5 DEF IInv, TypeOK, SessionTypeOK

LEMMA MutateStep == ASSUME IInv, Mutate, UNCHANGED loop PROVE IInv'
<1>1. op.kind = "mutate" /\ op.pc = "called" /\ UNCHANGED <<tab, session, aborted>>
      /\ session.tab # 0 /\ Begin("rebind", 1, "waiting")
  BY DEF Mutate, Serving, Active
<1>2. TabSame
  BY <1>1, SameTab DEF IInv
<1>3. 1 \in 0..1
  OBVIOUS
<1> QED BY <1>1, <1>2, <1>3, Begins, Works

LEMMA ReconcileOp ==
  ASSUME IInv, NEW late \in BOOLEAN
  PROVE  /\ [op EXCEPT !.pc = "reconcile", !.slot = 0, !.late = late] \in OpType
         /\ [op EXCEPT !.pc = "reconcile", !.slot = 0, !.late = late].pc = "reconcile"
         /\ [op EXCEPT !.pc = "reconcile", !.slot = 0, !.late = late].kind = op.kind
         /\ [op EXCEPT !.pc = "reconcile", !.slot = 0] \in OpType
         /\ [op EXCEPT !.pc = "reconcile", !.slot = 0].pc = "reconcile"
         /\ [op EXCEPT !.pc = "reconcile", !.slot = 0].kind = op.kind
<1> DEFINE o == [op EXCEPT !.pc = "reconcile", !.slot = 0]
<1>1. op \in OpType
  BY DEF IInv, TypeOK, SessionTypeOK
<1>2. o \in OpType /\ o.pc = "reconcile" /\ o.kind = op.kind
  BY <1>1 DEF OpType
<1>3. \A x \in OpType : /\ [x EXCEPT !.late = late] \in OpType
                         /\ [x EXCEPT !.late = late].pc = x.pc
                         /\ [x EXCEPT !.late = late].kind = x.kind
  BY DEF OpType
<1>4. /\ [o EXCEPT !.late = late] \in OpType
      /\ [o EXCEPT !.late = late].pc = "reconcile" /\ [o EXCEPT !.late = late].kind = op.kind
  <2> HIDE DEF o
  <2> QED BY <1>2, <1>3
<1> QED BY <1>2, <1>4

LEMMA MutateTimesOutStep == ASSUME IInv, MutateTimesOut, UNCHANGED loop PROVE IInv'
<1>1. op.kind = "mutate" /\ op.pc \in {"waiting", "again"} /\ UNCHANGED <<tab, effect, aborted>>
      /\ session.tab # 0
  <2>1. op.kind = "mutate" /\ op.pc \in {"waiting", "again"} /\ UNCHANGED <<tab, effect, aborted>>
    BY DEF MutateTimesOut, Serving
  <2> QED BY <2>1 DEF IInv, SessionInv
<1>2. TabSame /\ EffectsGoOn /\ effect \in [Slots -> EffectType]
  BY <1>1, SameTab, SameEffects DEF IInv, TypeOK, SessionTypeOK
<1>3. CASE Release("uncertain")
  BY <1>1, <1>2, <1>3, Releases
<1>4. CASE op' = [op EXCEPT !.pc = "reconcile", !.slot = 0, !.late = TRUE] /\ UNCHANGED session
  <2>1. op' \in OpType /\ op'.pc = "reconcile" /\ op'.kind = "mutate"
    BY <1>1, <1>4, ReconcileOp
  <2> QED BY <1>1, <1>2, <1>4, <2>1, Works
<1> QED BY <1>3, <1>4 DEF MutateTimesOut

LEMMA MutateCancelledStep == ASSUME IInv, MutateCancelled, UNCHANGED loop PROVE IInv'
<1>1. op.kind = "mutate" /\ op.pc \in {"waiting", "again"} /\ UNCHANGED <<tab, effect, aborted>>
      /\ Release("uncertain")
  BY DEF MutateCancelled, Serving
<1>2. EffectsGoOn
  BY <1>1, SameEffects DEF IInv
<1> QED BY <1>1, <1>2, Releases

LEMMA MutateReconcilesStep == ASSUME IInv, MutateReconciles, UNCHANGED loop PROVE IInv'
<1>1. op.kind = "mutate" /\ op.pc = "reconcile" /\ UNCHANGED <<tab, aborted>> /\ session.tab # 0
  <2>1. op.kind = "mutate" /\ op.pc = "reconcile" /\ UNCHANGED <<tab, aborted>>
    BY DEF MutateReconciles, Serving
  <2> QED BY <2>1 DEF IInv, SessionInv
<1>2. TabSame /\ 0 \in 0..1
  BY <1>1, SameTab DEF IInv
<1>3. CASE Reply("ok") /\ UNCHANGED <<session, effect>>
  BY <1>1, <1>2, <1>3, SameEffects, Replies DEF IInv
<1>4. CASE Begin("rebind", 0, "again") /\ UNCHANGED session
  BY <1>1, <1>2, <1>4, Begins, Works
<1>5. CASE Release("uncertain") /\ UNCHANGED effect
  BY <1>1, <1>2, <1>5, SameEffects, Releases DEF IInv
<1> QED BY <1>3, <1>4, <1>5 DEF MutateReconciles

LEMMA NavigateStep == ASSUME IInv, Navigate, UNCHANGED loop PROVE IInv'
<1>1. op.kind = "navigate" /\ op.pc = "called" /\ UNCHANGED <<tab, session, aborted>>
      /\ session.tab # 0 /\ Begin("count", 0, "waiting")
  BY DEF Navigate, Serving, Active
<1>2. loop.pc = "navigate" /\ op.kind = KindAt(loop.pc)
  BY <1>1, KindOfLoop
<1>3. session.tab \in Tabs /\ tab[session.tab].st # "none"
  BY <1>1, SessionsOpen
<1>4. /\ effect' \in [Slots -> EffectType]
      /\ op' \in OpType /\ op'.kind = "navigate" /\ op'.pc = "waiting" /\ op'.page = op.page
      /\ op'.slot \in Slots /\ effect'[op'.slot].tab = session.tab
      /\ effect'[op'.slot].page = op.page
      /\ \A r \in Slots : r # op'.slot => effect'[r] = effect[r]
  BY <1>1, Begins
<1>5. TypeOK'
  BY <1>1, <1>4 DEF IInv, TypeOK, SessionTypeOK
<1>6. SessionInv'
  BY <1>1, <1>3, <1>4 DEF IInv, SessionInv, IsOpen, Replied
<1>7. OpInv' /\ LoopInv'
  BY <1>1, <1>2, <1>4 DEF IInv, OpInv, LoopInv, Replied, KindAt
<1>8. PageInv'
  BY <1>1, <1>2, <1>4 DEF IInv, PageInv
<1>9. NavInv'
  <2> SUFFICES ASSUME NEW s \in Slots, LiveNav(s)'
               PROVE  loop.seen = effect'[s].page /\ Required \subseteq loop.verified /\ s = op'.slot
    BY <1>2, <1>4 DEF NavInv, Replied
  <2>1. s = op'.slot
    BY <1>1, <1>4 DEF IInv, NavInv, LiveNav, IsOpen
  <2> QED BY <1>2, <1>4, <2>1 DEF IInv, PageInv
<1> QED BY <1>5, <1>6, <1>7, <1>8, <1>9 DEF IInv

LEMMA NavigateGivesUpStep == ASSUME IInv, NavigateGivesUp, UNCHANGED loop PROVE IInv'
<1>1. op.kind = "navigate" /\ op.pc = "waiting" /\ UNCHANGED <<tab, effect, aborted>>
  BY DEF NavigateGivesUp, Serving
<1>2. TabSame /\ EffectsGoOn
  BY <1>1, SameTab, SameEffects DEF IInv
<1>3. CASE Release("uncertain")
  BY <1>1, <1>2, <1>3, Releases
<1>4. ASSUME NEW r \in {"timeout", "cancelled"}, Reply(r), UNCHANGED session PROVE IInv'
  BY <1>1, <1>2, <1>4, Replies
<1> QED BY <1>3, <1>4 DEF NavigateGivesUp

LEMMA ServeSteps == ASSUME IInv, Serve, UNCHANGED loop PROVE IInv'
BY OpensPageStep, OpenedStep, ObserveStep, CloseStep, ReleasedStep, RefusesStep, MutateStep,
   MutateTimesOutStep, MutateCancelledStep, MutateReconcilesStep, NavigateStep, NavigateGivesUpStep
   DEF Serve

LEMMA EndedEffects ==
  ASSUME IInv, NEW s \in Slots, effect' = [effect EXCEPT ![s] = NoEffect]
  PROVE  EffectsGoOn /\ effect'[s].pc = "off" /\ effect' \in [Slots -> EffectType]
         /\ \A r \in Slots : r # s => effect'[r] = effect[r]
<1>1. NoEffect \in EffectType /\ NoEffect.pc = "off"
  BY DEF NoEffect, EffectType
<1>2. effect \in [Slots -> EffectType]
  BY DEF IInv, TypeOK, SessionTypeOK
<1> HIDE DEF NoEffect
<1> QED BY <1>1, <1>2 DEF EffectsGoOn

\* What an effect came to is given to the call that waits for it.
LEMMA EndsStep ==
  ASSUME IInv, UNCHANGED <<loop, aborted>>, TabSame, NEW s \in Slots,
         NEW outcome \in {"applied", "ambiguous", "error"}, outcome # "applied" => UNCHANGED tab,
         Ends(s, outcome)
  PROVE  IInv'
<1> DEFINE started == effect[s].pc # "count"
<1>1. /\ EffectsGoOn /\ effect'[s].pc = "off" /\ effect' \in [Slots -> EffectType]
      /\ \A r \in Slots : r # s => effect'[r] = effect[r]
  BY EndedEffects DEF Ends
<1>2. CASE UNCHANGED <<session, op>>
  BY <1>1, <1>2, Unheard
<1>3. CASE op.pc \in {"waiting", "again"} /\ op.slot = s /\ Deliver(outcome, started)
  <2>1. op.kind \in {"mutate", "navigate"} /\ session.tab # 0
    BY <1>3, Constants DEF IInv, OpInv, SessionInv
  <2>2. \/ Reply("ok") /\ op.kind = "mutate" /\ UNCHANGED session
        \/ /\ Reply("ok") /\ op.kind = "navigate"
           /\ session' = [session EXCEPT !.page = tab[session.tab].at]
        \/ Reply("failed") /\ UNCHANGED session
        \/ /\ op' = [op EXCEPT !.pc = "reconcile", !.slot = 0] /\ op.kind = "mutate"
           /\ UNCHANGED session
        \/ Release("uncertain") /\ UNCHANGED tab
    BY <1>3, <2>1 DEF Deliver
  <2>3. CASE Reply("ok") /\ op.kind = "mutate" /\ UNCHANGED session
    BY <1>1, <1>3, <2>3, Replies
  <2>4. CASE Reply("failed") /\ UNCHANGED session
    BY <1>1, <1>3, <2>1, <2>4, Replies
  <2>5. CASE op' = [op EXCEPT !.pc = "reconcile", !.slot = 0] /\ op.kind = "mutate"
             /\ UNCHANGED session
    <3>1. op' \in OpType /\ op'.pc = "reconcile" /\ op'.kind = "mutate"
      BY <2>5, ReconcileOp
    <3> QED BY <1>1, <1>3, <2>1, <2>5, <3>1, Works
  <2>6. CASE Release("uncertain") /\ UNCHANGED tab
    BY <1>1, <1>3, <2>1, <2>6, Releases
  <2>7. CASE Reply("ok") /\ op.kind = "navigate"
             /\ session' = [session EXCEPT !.page = tab[session.tab].at]
    <3>1. session.tab \in Tabs /\ tab[session.tab].at \in Pages
      BY <2>1, SessionsOpen
    <3>2. session' \in SessionType /\ session'.tab = session.tab /\ session'.id = session.id
          /\ session'.closed = session.closed /\ session'.page = tab[session.tab].at
      BY <2>7, <3>1 DEF IInv, TypeOK, SessionTypeOK, SessionType
    <3>3. op' \in OpType /\ op'.pc = "replied" /\ op'.reply = "ok" /\ op'.kind = "navigate"
          /\ op'.page = op.page
      BY <2>7 DEF Reply, IInv, TypeOK, SessionTypeOK, OpType
    <3>4. TypeOK'
      BY <1>1, <3>2, <3>3 DEF IInv, TypeOK, SessionTypeOK, TabSame
    <3>5. SessionInv'
      <4>1. (session.tab # 0 => IsOpen(session.tab))'
        BY <3>1, <3>2 DEF IInv, SessionInv, IsOpen, TabSame
      <4>2. \A t \in Tabs : IsOpen(t)' => t = session'.tab
        BY <1>3, <3>2 DEF IInv, SessionInv, IsOpen, TabSame
      <4>3. (session.tab # 0 => session.id = session.tab /\ session.closed = 0)'
        BY <2>7, <3>2 DEF IInv, SessionInv
      <4>4. \A r \in Slots : effect'[r].pc # "off" =>
              effect'[r].tab \in Tabs /\ tab'[effect'[r].tab].st # "none"
        BY <1>1 DEF IInv, SessionInv, TabSame
      <4> QED BY <3>3, <4>1, <4>2, <4>3, <4>4 DEF SessionInv, Replied
    <3>6. op.kind = KindAt(loop.pc) /\ loop.pc = "navigate"
      BY <1>3, <2>7, KindOfLoop
    <3>7. OpInv'
      BY <2>1, <3>1, <3>2, <3>3, <3>6, <2>7 DEF OpInv, Replied, KindAt, TabSame
    <3>8. LoopInv'
      BY <3>2 DEF IInv, LoopInv
    <3>9. PageInv'
      BY <3>3, <3>6 DEF IInv, PageInv
    <3>10. NavInv'
      <4> SUFFICES ASSUME NEW r \in Slots, LiveNav(r)' PROVE FALSE
        BY DEF NavInv
      <4>1. LiveNav(r)
        BY <1>1, LiveBefore DEF IInv
      <4>2. r # s
        BY <1>1 DEF LiveNav
      <4> QED BY <1>3, <2>7, <4>1, <4>2 DEF IInv, NavInv
    <3> QED BY <3>4, <3>5, <3>7, <3>8, <3>9, <3>10 DEF IInv
  <2> QED BY <2>2, <2>3, <2>4, <2>5, <2>6, <2>7
<1> QED BY <1>2, <1>3 DEF Ends

LEMMA GoesOn ==
  ASSUME IInv, NEW s \in Slots, effect[s].pc # "off",
         NEW pc \in {"rebind", "write", "check", "click", "arrive"},
         pc = "click" => effect[s].pc = "count",
         \/ effect' = [effect EXCEPT ![s].pc = pc]
         \/ /\ effect' = [effect EXCEPT ![s].pc = pc, ![s].left = @ - 1]
            /\ effect[s].left > 0
  PROVE  EffectsGoOn /\ effect'[s].pc = pc
         /\ \A r \in Slots : r # s => effect'[r] = effect[r]
<1>1. effect \in [Slots -> EffectType]
  BY DEF IInv, TypeOK, SessionTypeOK
<1>2. effect[s] \in EffectType /\ effect[s].left \in 0..1
  BY <1>1 DEF EffectType
<1>3. effect[s].left > 0 => effect[s].left - 1 \in 0..1
  BY <1>2
<1>4. effect' \in [Slots -> EffectType]
  BY <1>1, <1>2, <1>3 DEF EffectType
<1>5. effect'[s].pc = pc /\ effect'[s].tab = effect[s].tab /\ effect'[s].page = effect[s].page
      /\ \A r \in Slots : r # s => effect'[r] = effect[r]
  BY <1>1, <1>2 DEF EffectType
<1> QED BY <1>4, <1>5 DEF EffectsGoOn

LEMMA GoesStep ==
  ASSUME IInv, UNCHANGED <<loop, aborted>>, TabSame, NEW s \in Slots, effect[s].pc # "off",
         NEW pc \in {"rebind", "write", "check", "click", "arrive"},
         pc = "click" => effect[s].pc = "count", Goes(s, pc)
  PROVE  IInv'
<1>1. EffectsGoOn
  BY GoesOn DEF Goes
<1> QED BY <1>1, Unheard DEF Goes

LEMMA RebindStep == ASSUME IInv, NEW s \in Slots, Rebind(s), UNCHANGED loop PROVE IInv'
<1>1. UNCHANGED <<tab, aborted>> /\ effect[s].pc = "rebind"
  BY DEF Rebind
<1>2. TabSame
  BY <1>1, SameTab DEF IInv
<1>3. Ends(s, "error") \/ Ends(s, "ambiguous") \/ Ends(s, "applied") \/ Goes(s, "write")
  BY DEF Rebind
<1> QED BY <1>1, <1>2, <1>3, EndsStep, GoesStep

LEMMA WriteStep == ASSUME IInv, NEW s \in Slots, Write(s), UNCHANGED loop PROVE IInv'
<1>1. UNCHANGED aborted /\ effect[s].pc = "write"
  BY DEF Write
<1>2. CASE Ends(s, "error") /\ UNCHANGED tab
  BY <1>1, <1>2, SameTab, EndsStep DEF IInv
<1> DEFINE e == effect[s]
<1>3. ASSUME NEW v \in {"wanted", "other", tab[e.tab].form[e.field]},
             tab' = [tab EXCEPT ![e.tab].form[e.field] = v],
             Goes(s, "check") \/ Ends(s, "applied")
      PROVE  IInv'
  <2>1. tab \in [Tabs -> TabType] /\ effect[s].tab \in Tabs
    BY <1>1 DEF IInv, TypeOK, SessionTypeOK, SessionInv
  <2>2. [tab[e.tab].form EXCEPT ![e.field] = v] \in [Fields -> Values]
    <3>1. tab[e.tab].form \in [Fields -> Values]
      BY <2>1 DEF TabType
    <3>2. e.field \in Fields => v \in Values
      BY <3>1 DEF Values
    <3> QED BY <3>1, <3>2
  <2>3. [tab[e.tab] EXCEPT !.form[e.field] = v] \in TabType
        /\ [tab[e.tab] EXCEPT !.form[e.field] = v].st = tab[e.tab].st
        /\ [tab[e.tab] EXCEPT !.form[e.field] = v].at = tab[e.tab].at
    BY <2>1, <2>2 DEF TabType
  <2>4. TabSame
    BY <1>3, <2>1, <2>3 DEF TabSame
  <2> QED BY <1>1, <1>3, <2>4, EndsStep, GoesStep
<1> QED BY <1>2, <1>3 DEF Write

LEMMA CheckStep == ASSUME IInv, NEW s \in Slots, Check(s), UNCHANGED loop PROVE IInv'
<1>1. UNCHANGED <<tab, aborted>> /\ effect[s].pc = "check"
  BY DEF Check
<1>2. TabSame
  BY <1>1, SameTab DEF IInv
<1>3. CASE Ends(s, "applied") \/ Ends(s, "error")
  BY <1>1, <1>2, <1>3, EndsStep
<1>4. CASE effect' = [effect EXCEPT ![s].pc = "rebind", ![s].left = @ - 1]
           /\ effect[s].left > 0 /\ UNCHANGED <<session, op>>
  BY <1>1, <1>2, <1>4, GoesOn, Unheard
<1> QED BY <1>3, <1>4 DEF Check

LEMMA CountStep == ASSUME IInv, NEW s \in Slots, Count(s), UNCHANGED loop PROVE IInv'
<1>1. UNCHANGED <<tab, aborted>> /\ effect[s].pc = "count"
  BY DEF Count
<1>2. TabSame
  BY <1>1, SameTab DEF IInv
<1>3. Ends(s, "error") \/ Ends(s, "ambiguous") \/ Goes(s, "click")
  BY DEF Count
<1> QED BY <1>1, <1>2, <1>3, EndsStep, GoesStep

\* The page that a click leaves is the one that the loop saw and verified.
LEMMA ClickStep == ASSUME IInv, NEW s \in Slots, Click(s), UNCHANGED loop PROVE IInv'
<1>1. UNCHANGED aborted /\ effect[s].pc = "click"
  BY DEF Click
<1>2. CASE (Ends(s, "error") \/ Ends(s, "ambiguous") \/ Goes(s, "arrive")) /\ UNCHANGED tab
  BY <1>1, <1>2, SameTab, EndsStep, GoesStep DEF IInv
<1> DEFINE e == effect[s]
<1>3. ASSUME ~Gone(e), NEW p \in Pages \ {e.page}, NEW form \in Forms(p),
             tab' = [tab EXCEPT ![e.tab].at = p, ![e.tab].form = form],
             Goes(s, "arrive")
      PROVE  IInv'
  <2>1. tab \in [Tabs -> TabType] /\ e.tab \in Tabs /\ IsOpen(e.tab)
    BY <1>1, <1>3 DEF IInv, TypeOK, SessionTypeOK, SessionInv, Gone, IsOpen
  <2>2. LiveNav(s)
    BY <1>1, <2>1 DEF LiveNav
  <2>3. loop.pc \in {"navigate", "close"} /\ ~(op.kind = "navigate" /\ Replied("ok"))
    BY <2>2 DEF IInv, NavInv
  <2>4. form \in [Fields -> Values]
    BY <1>3 DEF Forms, Values
  <2>5. tab' \in [Tabs -> TabType] /\ \A t \in Tabs : tab'[t].st = tab[t].st
    BY <1>3, <2>1, <2>4 DEF TabType
  <2>6. EffectsGoOn /\ effect'[s].pc = "arrive" /\ UNCHANGED <<session, op>>
    BY <1>1, <1>3, GoesOn DEF Goes
  <2>7. TypeOK'
    BY <1>1, <2>5, <2>6 DEF IInv, TypeOK, SessionTypeOK, EffectsGoOn
  <2>8. session.tab # 0 => session.tab \in Tabs
    BY SessionsOpen
  <2>9. SessionInv'
    <3>1. (session.tab # 0 => IsOpen(session.tab))'
      BY <2>5, <2>6, <2>8 DEF IInv, SessionInv, IsOpen
    <3>2. \A t \in Tabs : IsOpen(t)' => t = session'.tab \/ (op'.pc = "releasing" /\ t = op'.closing)
      BY <2>5, <2>6 DEF IInv, SessionInv, IsOpen
    <3>3. \A r \in Slots : effect'[r].pc # "off" =>
            effect'[r].tab \in Tabs /\ tab'[effect'[r].tab].st # "none"
      BY <2>5, <2>6 DEF IInv, SessionInv, EffectsGoOn
    <3> QED BY <2>6, <3>1, <3>2, <3>3 DEF IInv, SessionInv, Replied
  <2>10. op.kind \notin {"start", "observe", "mutate"}
    BY <2>3 DEF IInv, OpInv, KindAt
  <2>11. OpInv'
    BY <2>3, <2>6, <2>10 DEF IInv, OpInv, Replied, KindAt
  <2>12. LoopInv' /\ PageInv'
    BY <2>3, <2>6 DEF IInv, LoopInv, PageInv
  <2>13. NavInv'
    <3> SUFFICES ASSUME NEW r \in Slots, LiveNav(r)'
                 PROVE  LiveNav(r) /\ effect'[r].page = effect[r].page
      BY <2>6 DEF IInv, NavInv, Replied
    <3> QED BY <2>5, <2>6 DEF LiveNav, IsOpen, EffectsGoOn, IInv, SessionInv
  <2> QED BY <2>7, <2>9, <2>11, <2>12, <2>13 DEF IInv
<1> QED BY <1>2, <1>3 DEF Click

LEMMA ArriveStep == ASSUME IInv, NEW s \in Slots, Arrive(s), UNCHANGED loop PROVE IInv'
<1>1. UNCHANGED <<tab, aborted>> /\ effect[s].pc = "arrive"
  BY DEF Arrive
<1>2. TabSame
  BY <1>1, SameTab DEF IInv
<1>3. Ends(s, "error") \/ Ends(s, "applied")
  BY DEF Arrive
<1> QED BY <1>1, <1>2, <1>3, EndsStep

LEMMA EffectSteps ==
  ASSUME IInv, NEW s \in Slots, EffectStep(s), UNCHANGED loop PROVE IInv'
BY RebindStep, WriteStep, CheckStep, CountStep, ClickStep, ArriveStep DEF EffectStep

LEMMA AbortStep == ASSUME IInv, Abort PROVE IInv'
<1>1. UNCHANGED <<tab, session, effect, op, loop>> /\ aborted' = TRUE
  BY DEF Abort
<1>2. TypeOK'
  BY <1>1 DEF IInv, TypeOK, SessionTypeOK
<1>3. SessionInv' /\ OpInv'
  BY <1>1 DEF IInv, SessionInv, OpInv, IsOpen, Replied
<1>4. LoopInv' /\ NavInv' /\ PageInv'
  BY <1>1 DEF IInv, LoopInv, NavInv, PageInv, LiveNav, IsOpen, Replied
<1> QED BY <1>2, <1>3, <1>4 DEF IInv

LEMMA InitIInv == Init => IInv
<1> SUFFICES ASSUME Init PROVE IInv
  OBVIOUS
<1>1. /\ tab = [t \in Tabs |-> NoTab] /\ session = NoSession /\ op = NoOp /\ aborted = FALSE
      /\ effect = [s \in Slots |-> NoEffect]
  BY DEF Init, SessionInit
<1>2. NoTab \in TabType /\ NoTab.st = "none"
  BY Constants DEF NoTab, TabType, Values
<1>3. NoSession \in SessionType /\ NoSession.tab = 0
  BY DEF NoSession, SessionType
<1>4. NoEffect \in EffectType /\ NoEffect.pc = "off"
  BY DEF NoEffect, EffectType
<1>5. loop \in LoopType
  <2>1. 0 \in 0..PageLimit
    BY Constants
  <2> QED BY <2>1, Constants DEF Init, LoopType
<1>6. loop.pc = "start" /\ loop.result = "none" /\ loop.pages = 0
  BY DEF Init
<1> HIDE DEF NoTab, NoSession, NoEffect, NoOp
<1>7. TypeOK
  BY <1>1, <1>2, <1>3, <1>4, <1>5, Idle DEF TypeOK, SessionTypeOK
<1>8. SessionInv
  BY <1>1, <1>2, <1>3, <1>4, Idle DEF SessionInv, IsOpen, Replied
<1>9. OpInv
  BY <1>1, <1>3, <1>6, Idle DEF OpInv, Replied
<1>10. LoopInv /\ NavInv /\ PageInv
  BY <1>1, <1>3, <1>4, <1>6, Constants DEF LoopInv, NavInv, PageInv, LiveNav
<1> QED BY <1>7, <1>8, <1>9, <1>10 DEF IInv

LEMMA NextIInv == IInv /\ [Next]_vars => IInv'
<1> SUFFICES ASSUME IInv, [Next]_vars PROVE IInv'
  OBVIOUS
<1>1. CASE LoopStep
  BY <1>1, LoopSteps
<1>2. CASE Serve /\ UNCHANGED loop
  BY <1>2, ServeSteps
<1>3. ASSUME NEW s \in Slots, EffectStep(s), UNCHANGED loop PROVE IInv'
  BY <1>3, EffectSteps
<1>4. CASE Abort
  BY <1>4, AbortStep
<1>5. CASE UNCHANGED vars
  BY <1>5, SameTab, SameEffects, Unheard DEF vars, sessionVars, IInv
<1> QED BY <1>1, <1>2, <1>3, <1>4, <1>5 DEF Next

-----------------------------------------------------------------------------
\* Of every reachable state: the loop owns the one page that may be open, and
\* a click that may still happen leaves a page that it has verified.
THEOREM PageLoopInvariant == Spec => []IInv
<1>1. Init => IInv
  BY InitIInv
<1>2. IInv /\ [Next]_vars => IInv'
  BY NextIInv
<1> QED BY <1>1, <1>2, PTL DEF Spec

\* The loop, its calls and the effects they begin have the types of the code.
THEOREM PageLoopTypeOK == Spec => []TypeOK
<1>1. IInv => TypeOK
  BY DEF IInv
<1> QED BY <1>1, PageLoopInvariant, PTL

\* When mutate or navigate reports browser_session_invalid after an effect
\* that may have happened, nothing can reach the page any more.
THEOREM PageLoopUncertainIsQuiet == Spec => []UncertainIsQuiet
<1>1. IInv => UncertainIsQuiet
  <2> SUFFICES ASSUME IInv, op.reply = "uncertain", op.pc = "replied",
                      NEW s \in Slots, effect[s].pc # "off"
               PROVE  tab[effect[s].tab].st # "open"
    BY DEF UncertainIsQuiet
  <2>1. session.tab = 0 /\ effect[s].tab \in Tabs
    BY DEF IInv, SessionInv, Replied
  <2> QED BY <2>1, Constants DEF IInv, SessionInv, IsOpen
<1> QED BY <1>1, PageLoopInvariant, PTL

\* Whatever fails in a start, a recovery or a close, one browser page is open
\* at most, and none when executeJourney has returned.
THEOREM PageLoopOnePageThenNone == Spec => []OnePageThenNone
<1>1. IInv => OnePageThenNone
  <2> SUFFICES ASSUME IInv PROVE OnePageThenNone
    OBVIOUS
  <2> DEFINE open == {t \in Tabs : tab[t].st = "open"}
  <2>1. \E u : open \subseteq {u}
    <3>1. CASE op.pc = "releasing"
      <4>1. open \subseteq {op.closing}
        BY <3>1, Constants DEF IInv, SessionInv, IsOpen
      <4> QED BY <4>1
    <3>2. CASE op.pc # "releasing"
      <4>1. open \subseteq {session.tab}
        BY <3>2 DEF IInv, SessionInv, IsOpen
      <4> QED BY <4>1
    <3> QED BY <3>1, <3>2
  <2>2. Cardinality(open) <= 1
    <3>1. PICK u : open \subseteq {u}
      BY <2>1
    <3>2. open = {} \/ open = {u}
      BY <3>1
    <3>3. Cardinality({}) = 0 /\ Cardinality({u}) = 1
      BY FS_EmptySet, FS_Singleton
    <3> HIDE DEF open
    <3> QED BY <3>2, <3>3
  <2>3. ASSUME loop.pc = "done", NEW t \in Tabs PROVE tab[t].st # "open"
    <3>1. op.kind = "none"
      BY <2>3 DEF IInv, OpInv, KindAt
    <3>2. op.pc = "idle" /\ session.tab = 0
      BY <2>3, <3>1 DEF IInv, OpInv, LoopInv
    <3> QED BY <3>2, Constants DEF IInv, SessionInv, IsOpen
  <2> QED BY <2>2, <2>3 DEF OnePageThenNone
<1> QED BY <1>1, PageLoopInvariant, PTL

LEMMA LeftVerified ==
  ASSUME IInv, [Next]_vars, NEW t \in Tabs, tab[t].st = "open", tab'[t].at # tab[t].at
  PROVE  loop.seen = tab[t].at /\ Required \subseteq loop.verified
<1>1. tab \in [Tabs -> TabType]
  BY DEF IInv, TypeOK, SessionTypeOK
<1>2. ~UNCHANGED tab
  OBVIOUS
<1>3. CASE LoopStep
  BY <1>2, <1>3 DEF LoopStep, Starts, Started, Observed, Driven, Verified, Navigated, Arrived,
     RecoveryCloses, RecoveryStarts, RecoveryEnds, Closed
<1>4. CASE Serve
  <2>1. CASE OpensPage
    <3>1. PICK u \in Tabs : tab[u].st = "none" /\ \E form \in Forms(1) :
            tab' = [tab EXCEPT ![u] = [st |-> "open", at |-> 1, form |-> form]]
      BY <1>2, <2>1 DEF OpensPage
    <3> QED BY <1>1, <3>1
  <2>2. CASE Released
    <3>1. tab'[t] = tab[t] \/ tab'[t] = [tab[t] EXCEPT !.st = "closed", !.form = NoTab.form]
      BY <2>2 DEF Released
    <3> QED BY <1>1, <3>1 DEF TabType
  <2>3. CASE ~OpensPage /\ ~Released
    BY <1>2, <1>4, <2>3 DEF Serve, Opened, Observe, Close, Refuses, Mutate, MutateTimesOut,
       MutateCancelled, MutateReconciles, Navigate, NavigateGivesUp
  <2> QED BY <2>1, <2>2, <2>3
<1>5. ASSUME NEW s \in Slots, EffectStep(s)
      PROVE  loop.seen = tab[t].at /\ Required \subseteq loop.verified
  <2>1. CASE Write(s)
    <3>1. PICK v : tab' = [tab EXCEPT ![effect[s].tab].form[effect[s].field] = v]
      BY <1>2, <2>1 DEF Write
    <3>2. tab'[t].at = tab[t].at
      BY <1>1, <3>1 DEF TabType
    <3> QED BY <3>2
  <2>2. CASE Click(s)
    <3>1. ~Gone(effect[s]) /\ effect[s].pc = "click"
          /\ \E p, form : tab' = [tab EXCEPT ![effect[s].tab].at = p, ![effect[s].tab].form = form]
      BY <1>2, <2>2 DEF Click
    <3>2. t = effect[s].tab
      BY <1>1, <3>1
    <3>3. LiveNav(s) /\ tab[t].at = effect[s].page
      BY <3>1, <3>2 DEF LiveNav, IsOpen, Gone
    <3> QED BY <3>3 DEF IInv, NavInv
  <2>3. CASE Rebind(s) \/ Check(s) \/ Count(s) \/ Arrive(s)
    BY <1>2, <2>3 DEF Rebind, Check, Count, Arrive
  <2> QED BY <1>5, <2>1, <2>2, <2>3 DEF EffectStep
<1>6. CASE Abort \/ UNCHANGED vars
  BY <1>2, <1>6 DEF Abort, vars, sessionVars
<1> QED BY <1>3, <1>4, <1>5, <1>6 DEF Next

\* A click, also one that comes when navigate was given up, leaves a page only
\* with every required field verified on this visit.
THEOREM PageLoopLeavesVerified == Spec => LeavesVerified
<1>1. IInv /\ [Next]_vars =>
        \A t \in Tabs : tab[t].st = "open" /\ tab'[t].at # tab[t].at =>
          loop.seen = tab[t].at /\ Required \subseteq loop.verified
  BY LeftVerified
<1> QED BY <1>1, PageLoopInvariant, PTL DEF Spec, LeavesVerified

LEMMA NothingBegins ==
  ASSUME IInv, [Next]_vars, loop.result = "failed", NEW s \in Slots, effect[s].pc = "off"
  PROVE  effect'[s].pc = "off"
<1>1. effect \in [Slots -> EffectType]
  BY DEF IInv, TypeOK, SessionTypeOK
<1>2. CASE UNCHANGED effect
  BY <1>2
<1>3. CASE LoopStep
  BY <1>2, <1>3 DEF LoopStep, Starts, Started, Observed, Driven, Verified, Navigated, Arrived,
     RecoveryCloses, RecoveryStarts, RecoveryEnds, Closed
<1>4. CASE Serve
  <2>1. op.kind \notin {"mutate", "navigate"} \/ op.pc = "idle"
    BY KindOfLoop DEF IInv, LoopInv
  <2> QED BY <1>2, <1>4, <2>1 DEF Serve, OpensPage, Opened, Observe, Close, Released, Refuses, Mutate,
          MutateTimesOut, MutateCancelled, MutateReconciles, Navigate, NavigateGivesUp, Serving
<1>5. ASSUME NEW r \in Slots, EffectStep(r) PROVE effect'[s].pc = "off"
  <2>1. effect[r].pc # "off"
    BY <1>5 DEF EffectStep, Rebind, Write, Check, Count, Click, Arrive
  <2>2. \/ effect' = [effect EXCEPT ![r] = NoEffect]
        \/ \E pc : effect' = [effect EXCEPT ![r].pc = pc]
        \/ effect' = [effect EXCEPT ![r].pc = "rebind", ![r].left = @ - 1]
    BY <1>5 DEF EffectStep, Rebind, Write, Check, Count, Click, Arrive, Ends, Goes
  <2>3. r # s
    BY <2>1
  <2> QED BY <1>1, <2>2, <2>3
<1>6. CASE Abort \/ UNCHANGED vars
  BY <1>2, <1>6 DEF Abort, vars, sessionVars
<1> QED BY <1>3, <1>4, <1>5, <1>6 DEF Next

\* After an effect that is uncertain nothing is written and nothing clicked,
\* not even in the session that the recovery opens.
THEOREM PageLoopDoubtStops == Spec => DoubtStops
<1>1. IInv /\ [Next]_vars =>
        (loop.result = "failed" => \A s \in Slots : effect[s].pc = "off" => effect'[s].pc = "off")
  BY NothingBegins
<1> QED BY <1>1, PageLoopInvariant, PTL DEF Spec, DoubtStops

-----------------------------------------------------------------------------
(* The loop comes nearer its end with every answer.                        *)

Walking == {"observe", "drive", "verify", "navigate", "arrive"}

\* How far the loop is from its end: the part it is in, the pages it may still
\* leave, its place on the page, the fields not yet driven, the attempts of
\* the retry in progress and the reads of the verifier.
Stage(l) ==
  CASE l.pc = "start" -> 6
    [] l.pc \in Walking -> 5
    [] l.pc = "recover_close" -> 4
    [] l.pc = "recover_start" -> 3
    [] l.pc = "recover_observe" -> 2
    [] l.pc = "close" -> 1
    [] l.pc = "done" -> 0

Place(l) ==
  CASE l.pc = "navigate" -> 3
    [] l.pc \in {"observe", "arrive"} -> 2
    [] OTHER -> 1

ReadsLeft(l) == IF l.pc = "drive" THEN VerifyReads ELSE VerifyReads - 1 - l.reads

\* k is nearer the end than l, the first difference deciding.  Pages and
\* attempts count up to a limit, and a form has finitely many fields: there is
\* no endless descent.
Closer(k, l) ==
  \/ Stage(k) < Stage(l)
  \/ /\ Stage(k) = Stage(l)
     /\ \/ k.pages > l.pages
        \/ /\ k.pages = l.pages
           /\ \/ Place(k) < Place(l)
              \/ /\ Place(k) = Place(l)
                 /\ \/ k.todo \subseteq l.todo /\ k.todo # l.todo
                    \/ /\ k.todo = l.todo
                       /\ \/ k.tries > l.tries
                          \/ k.tries = l.tries /\ ReadsLeft(k) < ReadsLeft(l)

\* Whatever a call answers, the loop takes from it a step towards its end, and
\* nothing else moves it: no retry, no further read, no page visited again and
\* no recovery can lead it back.
Advances ==
  [][IF LoopStep /\ op.pc = "replied" THEN Closer(loop', loop) ELSE UNCHANGED loop]_vars

LEMMA Stages ==
  /\ \A l : /\ l.pc \in Walking => Stage(l) = 5
            /\ l.pc = "start" => Stage(l) = 6
            /\ l.pc = "recover_close" => Stage(l) = 4
            /\ l.pc = "recover_start" => Stage(l) = 3
            /\ l.pc = "recover_observe" => Stage(l) = 2
            /\ l.pc = "close" => Stage(l) = 1
            /\ l.pc = "done" => Stage(l) = 0
  /\ \A l : /\ l.pc = "navigate" => Place(l) = 3
            /\ l.pc \in {"observe", "arrive"} => Place(l) = 2
            /\ l.pc \in {"drive", "verify"} => Place(l) = 1
BY DEF Stage, Place, Walking

\* The loop returns from wherever it is.
LEMMA ReturnsCloser ==
  ASSUME NEW l \in LoopType, NEW result, Returns(l, result),
         loop.pc \in LoopPc \ {"close", "done"}
  PROVE  Closer(loop', loop)
<1>1. loop'.pc \in {"close", "done"}
  <2> DEFINE end == [l EXCEPT !.result = result, !.todo = {}, !.field = NextButton, !.tries = 0]
  <2>1. DOMAIN l = DOMAIN end /\ "pc" \in DOMAIN end
    BY DEF LoopType
  <2>2. \E pc \in {"close", "done"} : loop' = [end EXCEPT !.pc = pc]
    BY DEF Returns, Calls
  <2> HIDE DEF end
  <2> QED BY <2>1, <2>2
<1>2. Stage(loop') < Stage(loop)
  BY <1>1, Stages DEF LoopPc, Walking
<1> QED BY <1>2 DEF Closer

\* The loop drives one of the fields left, leaves the page or returns.
LEMMA NextFieldCloser ==
  ASSUME loop \in LoopType, NEW l \in LoopType, NextField(l),
         loop.pc \in {"observe", "verify", "arrive"}, l.pages = loop.pages,
         loop.pc = "verify" => l.todo = loop.todo
  PROVE  Closer(loop', loop)
<1> DEFINE done == [l EXCEPT !.pages = @ + 1, !.tries = 0]
<1>1. loop.pc \in LoopPc \ {"close", "done"}
  BY DEF LoopPc
<1>2. l.pages \in Nat /\ l.pages + 1 > l.pages
  BY LoopFields, Constants
<1>3. CASE Fails(l) \/ Returns(l, "blocked")
  BY <1>1, <1>3, ReturnsCloser DEF Fails
<1>4. ASSUME NEW f \in l.todo, CallMutate([l EXCEPT !.todo = @ \ {f}, !.tries = 0], f)
      PROVE  Closer(loop', loop)
  <2> DEFINE m == [l EXCEPT !.todo = @ \ {f}, !.tries = 0]
             k == [m EXCEPT !.field = f, !.reads = 0, !.answer = "none"]
  <2>1. /\ m.todo = l.todo \ {f} /\ m.pages = l.pages /\ DOMAIN m = DOMAIN l
    BY DEF LoopType
  <2>2. k.todo = m.todo /\ k.pages = m.pages /\ DOMAIN k = DOMAIN m
    <3> HIDE DEF m
    <3> QED BY <2>1 DEF LoopType
  <2>3. loop' = [k EXCEPT !.pc = "drive"] /\ "pc" \in DOMAIN l
    BY <1>4 DEF CallMutate, Calls, LoopType
  <2>4. loop'.pc = "drive" /\ loop'.todo = k.todo /\ loop'.pages = k.pages
    <3> HIDE DEF k, m
    <3> QED BY <2>1, <2>2, <2>3
  <2> HIDE DEF k, m
  <2>5. loop'.pc = "drive" /\ loop'.todo = l.todo \ {f} /\ loop'.pages = loop.pages
    BY <2>1, <2>2, <2>4
  <2>6. Stage(loop') = Stage(loop) /\ Place(loop') = 1
    BY <2>5, Stages DEF Walking
  <2>7. CASE loop.pc = "verify"
    <3>1. Place(loop) = 1 /\ loop'.todo \subseteq loop.todo /\ loop'.todo # loop.todo
      BY <2>5, <2>7, Stages
    <3> QED BY <2>5, <2>6, <3>1 DEF Closer
  <2>8. CASE loop.pc # "verify"
    <3>1. Place(loop) = 2
      BY <2>8, Stages
    <3> QED BY <2>5, <2>6, <3>1 DEF Closer
  <2> QED BY <2>7, <2>8
<1>5. CASE Returns(done, "review") \/ CallNavigate(done)
  <2>1. CASE CallNavigate(done)
    <3>1. done.pages = l.pages + 1 /\ DOMAIN done = DOMAIN l /\ "pc" \in DOMAIN l
          /\ "pages" \in DOMAIN l
      BY DEF LoopType
    <3>2. loop' = [[done EXCEPT !.tries = 0] EXCEPT !.pc = "navigate"]
      BY <2>1 DEF CallNavigate, Calls
    <3> HIDE DEF done
    <3>3. loop'.pc = "navigate" /\ loop'.pages = l.pages + 1
      BY <3>1, <3>2
    <3>4. Stage(loop') = Stage(loop) /\ loop'.pages > loop.pages
      BY <1>2, <3>3, Stages DEF Walking
    <3> QED BY <3>4 DEF Closer
  <2>2. CASE Returns(done, "review")
    <3>1. DOMAIN done = DOMAIN l /\ "pc" \in DOMAIN l
      BY DEF LoopType
    <3>2. \E pc \in {"close", "done"} :
            loop' = [[done EXCEPT !.result = "review", !.todo = {}, !.field = NextButton,
                                  !.tries = 0] EXCEPT !.pc = pc]
      BY <2>2 DEF Returns, Calls
    <3> HIDE DEF done
    <3>3. loop'.pc \in {"close", "done"}
      BY <3>1, <3>2
    <3>4. Stage(loop') < Stage(loop)
      BY <1>1, <3>3, Stages DEF LoopPc, Walking
    <3> QED BY <3>4 DEF Closer
  <2> QED BY <1>5, <2>1, <2>2
<1> QED BY <1>3, <1>4, <1>5 DEF NextField

\* A call that timed out is made again, with one attempt less.
LEMMA RetriesCloser ==
  ASSUME loop \in LoopType, NEW pc \in {"start", "observe", "arrive"}, loop.pc = pc, Retries(pc)
  PROVE  Closer(loop', loop)
<1> DEFINE l == [loop EXCEPT !.tries = @ + 1]
<1>1. loop.tries \in Nat
  BY LoopFields, Constants
<1>2. /\ l.tries = loop.tries + 1 /\ l.pages = loop.pages /\ l.todo = loop.todo
      /\ DOMAIN l = DOMAIN loop /\ "pc" \in DOMAIN loop /\ "tries" \in DOMAIN loop
      /\ "pages" \in DOMAIN loop /\ "todo" \in DOMAIN loop
  BY DEF LoopType
<1>3. loop' = [l EXCEPT !.pc = pc]
  BY DEF Retries, CallStart, CallObserve, Calls
<1> HIDE DEF l
<1>4. loop'.pc = pc /\ loop'.tries = loop.tries + 1 /\ loop'.pages = loop.pages
      /\ loop'.todo = loop.todo
  BY <1>2, <1>3
<1>5. Stage(loop') = Stage(loop) /\ Place(loop') = Place(loop)
  BY <1>4 DEF Stage, Place
<1> QED BY <1>1, <1>4, <1>5 DEF Closer

\* The verifier reads again, or the field is driven again.
LEMMA ReadAgainCloser ==
  ASSUME loop \in LoopType, loop.pc = "verify", NEW answer, ReadAgain(answer)
  PROVE  Closer(loop', loop)
<1>1. loop.pc \in LoopPc \ {"close", "done"} /\ loop.tries \in Nat /\ loop.reads \in Nat
      /\ VerifyReads \in Nat
  BY LoopFields, Constants DEF LoopPc
<1>2. CASE Fails(loop) \/ Returns(loop, "blocked")
  BY <1>1, <1>2, ReturnsCloser DEF Fails
<1>3. CASE CallObserve([loop EXCEPT !.reads = @ + 1, !.answer = answer], "verify")
  <2> DEFINE l == [loop EXCEPT !.reads = @ + 1, !.answer = answer]
  <2>1. /\ l.reads = loop.reads + 1 /\ l.tries = loop.tries
        /\ l.pages = loop.pages /\ l.todo = loop.todo
        /\ DOMAIN l = DOMAIN loop /\ {"pc", "reads", "tries", "pages", "todo"} \subseteq DOMAIN loop
    BY DEF LoopType
  <2>2. loop' = [l EXCEPT !.pc = "verify"]
    BY <1>3 DEF CallObserve, Calls
  <2> HIDE DEF l
  <2>3. /\ loop'.pc = "verify" /\ loop'.reads = loop.reads + 1 /\ loop'.tries = loop.tries
        /\ loop'.pages = loop.pages /\ loop'.todo = loop.todo
    BY <2>1, <2>2
  <2>4. Stage(loop') = Stage(loop) /\ Place(loop') = Place(loop)
    BY <2>3 DEF Stage, Place
  <2>5. ReadsLeft(loop') < ReadsLeft(loop)
    BY <1>1, <2>3 DEF ReadsLeft
  <2> QED BY <2>3, <2>4, <2>5 DEF Closer
<1>4. CASE CallMutate([loop EXCEPT !.tries = @ + 1], loop.field)
  <2> DEFINE m == [loop EXCEPT !.tries = @ + 1]
             k == [m EXCEPT !.field = loop.field, !.reads = 0, !.answer = "none"]
  <2>1. /\ m.tries = loop.tries + 1 /\ m.pages = loop.pages /\ m.todo = loop.todo
        /\ DOMAIN m = DOMAIN loop /\ {"pc", "tries", "pages", "todo"} \subseteq DOMAIN loop
    BY DEF LoopType
  <2>2. loop' = [k EXCEPT !.pc = "drive"]
    BY <1>4 DEF CallMutate, Calls
  <2>3. k.tries = m.tries /\ k.pages = m.pages /\ k.todo = m.todo /\ DOMAIN k = DOMAIN m
    <3> HIDE DEF m
    <3> QED BY <2>1
  <2>4. /\ loop'.pc = "drive" /\ loop'.tries = k.tries /\ loop'.pages = k.pages
        /\ loop'.todo = k.todo
    <3> HIDE DEF k, m
    <3> QED BY <2>1, <2>2, <2>3
  <2> HIDE DEF k, m
  <2>5. /\ loop'.tries = loop.tries + 1 /\ loop'.pages = loop.pages /\ loop'.todo = loop.todo
    BY <2>1, <2>3, <2>4
  <2>6. Stage(loop') = Stage(loop) /\ Place(loop') = Place(loop)
    BY <2>4, Stages DEF Walking
  <2> QED BY <1>1, <2>5, <2>6 DEF Closer
<1> QED BY <1>2, <1>3, <1>4 DEF ReadAgain, Verdict

LEMMA StepCloser ==
  ASSUME IInv, LoopStep, op.pc = "replied"
  PROVE  Closer(loop', loop)
<1>1. loop \in LoopType /\ loop.pc \in LoopPc /\ VerifyReads \in Nat \ {0}
      /\ {"pc", "pages", "todo", "tries", "reads"} \subseteq DOMAIN loop
  BY Answered, LoopFields, Constants DEF LoopType
<1>2. ASSUME NEW result, Returns(loop, result), loop.pc \notin {"close", "done"}
      PROVE  Closer(loop', loop)
  BY <1>1, <1>2, ReturnsCloser
<1>3. CASE Started
  <2>1. loop.pc = "start"
    BY <1>3 DEF Started, At
  <2>2. ASSUME CallObserve([loop EXCEPT !.browser = session.id, !.owned = session.id,
                                        !.page = session.page, !.tries = 0], "observe")
        PROVE  Closer(loop', loop)
    <3> DEFINE l == [loop EXCEPT !.browser = session.id, !.owned = session.id,
                                 !.page = session.page, !.tries = 0]
    <3>1. loop' = [l EXCEPT !.pc = "observe"] /\ DOMAIN l = DOMAIN loop
      BY <2>2 DEF CallObserve, Calls
    <3> HIDE DEF l
    <3>2. loop'.pc = "observe"
      BY <1>1, <3>1
    <3>3. Stage(loop') = 5 /\ Stage(loop) = 6
      BY <2>1, <3>2, Stages DEF Walking
    <3> QED BY <3>3 DEF Closer
  <2> QED BY <1>1, <1>2, <1>3, <2>1, <2>2, RetriesCloser DEF Started, GivesUp, Fails
<1>4. CASE Observed
  <2>1. loop.pc = "observe"
    BY <1>4 DEF Observed, At
  <2>2. ASSUME op.reply = "ok", NextField(Understood(loop)) PROVE Closer(loop', loop)
    <3>1. loop.browser \in Tabs
      BY <2>1, <2>2, LoopHas
    <3>2. Understood(loop) \in LoopType /\ Understood(loop).pages = loop.pages
      BY <1>1, <3>1, UnderstoodFields DEF IInv
    <3> QED BY <1>1, <2>1, <2>2, <3>2, NextFieldCloser
  <2> QED BY <1>1, <1>2, <1>4, <2>1, <2>2, RetriesCloser DEF Observed, GivesUp, Fails
<1>5. ASSUME Recovers, loop.pc \in {"drive", "verify"} PROVE Closer(loop', loop)
  <2> DEFINE l == [loop EXCEPT !.tries = 0, !.result = "failed"]
  <2>1. loop' = [l EXCEPT !.pc = "recover_close"] /\ DOMAIN l = DOMAIN loop
    BY <1>5 DEF Recovers, Calls
  <2> HIDE DEF l
  <2>2. loop'.pc = "recover_close"
    BY <1>1, <2>1
  <2>3. Stage(loop') = 4 /\ Stage(loop) = 5
    BY <1>5, <2>2, Stages DEF Walking
  <2> QED BY <2>3 DEF Closer
<1>6. CASE Driven
  <2>1. loop.pc = "drive"
    BY <1>6 DEF Driven, At
  <2>2. ASSUME CallObserve(loop, "verify") PROVE Closer(loop', loop)
    <3>1. loop' = [loop EXCEPT !.pc = "verify"]
      BY <2>2 DEF CallObserve, Calls
    <3>2. /\ loop'.pc = "verify" /\ loop'.pages = loop.pages /\ loop'.todo = loop.todo
          /\ loop'.tries = loop.tries /\ loop'.reads = loop.reads
      BY <1>1, <3>1
    <3>3. loop.reads \in Nat
      BY <1>1, LoopFields, Constants
    <3>4. Stage(loop') = Stage(loop) /\ Place(loop') = Place(loop)
      BY <2>1, <3>2, Stages DEF Walking
    <3>5. ReadsLeft(loop') < ReadsLeft(loop)
      BY <1>1, <2>1, <3>2, <3>3 DEF ReadsLeft
    <3> QED BY <3>2, <3>4, <3>5 DEF Closer
  <2> QED BY <1>2, <1>5, <1>6, <2>1, <2>2 DEF Driven, Fails
<1>7. CASE Verified
  <2>1. loop.pc = "verify"
    BY <1>7 DEF Verified, At
  <2> DEFINE l == [loop EXCEPT !.verified = @ \cup {loop.field}, !.reads = 0, !.answer = "none"]
  <2>2. \/ Recovers \/ Fails(loop) \/ Returns(loop, "blocked") \/ NextField(l)
        \/ \E answer : ReadAgain(answer)
    BY <1>7 DEF Verified
  <2>3. ASSUME NextField(l) PROVE Closer(loop', loop)
    <3>1. loop.field \in Fields
      BY <2>1, LoopHas
    <3> DEFINE k == [loop EXCEPT !.verified = @ \cup {loop.field}]
    <3>2. k \in LoopType /\ k.pages = loop.pages /\ k.todo = loop.todo
      <4>1. loop.verified \cup {loop.field} \in SUBSET Fields
        BY <1>1, <3>1, LoopFields
      <4> QED BY <1>1, <4>1 DEF LoopType
    <3>3. [k EXCEPT !.reads = 0, !.answer = "none"] = l
      BY <1>1
    <3> HIDE DEF k, l
    <3>4. l \in LoopType /\ l.pages = k.pages /\ l.todo = k.todo
      <4>1. 0 \in 0..(VerifyReads - 1)
        BY Constants
      <4>2. [k EXCEPT !.reads = 0] \in LoopType /\ [k EXCEPT !.reads = 0].pages = k.pages
            /\ [k EXCEPT !.reads = 0].todo = k.todo
        BY <3>2, <4>1 DEF LoopType
      <4>3. ASSUME NEW q \in LoopType
            PROVE  /\ [q EXCEPT !.answer = "none"] \in LoopType
                   /\ [q EXCEPT !.answer = "none"].pages = q.pages
                   /\ [q EXCEPT !.answer = "none"].todo = q.todo
        BY DEF LoopType
      <4>4. l = [[k EXCEPT !.reads = 0] EXCEPT !.answer = "none"]
        BY <3>3
      <4> QED BY <4>2, <4>3, <4>4
    <3> QED BY <1>1, <2>1, <2>3, <3>2, <3>4, NextFieldCloser
  <2> HIDE DEF l
  <2> QED BY <1>1, <1>2, <1>5, <2>1, <2>2, <2>3, ReadAgainCloser DEF Fails
<1>8. CASE Navigated
  <2>1. loop.pc = "navigate"
    BY <1>8 DEF Navigated, At
  <2>2. ASSUME CallObserve([loop EXCEPT !.page = session.page], "arrive")
        PROVE  Closer(loop', loop)
    <3>1. loop' = [[loop EXCEPT !.page = session.page] EXCEPT !.pc = "arrive"]
      BY <2>2 DEF CallObserve, Calls
    <3>2. loop'.pc = "arrive" /\ loop'.pages = loop.pages
      BY <1>1, <3>1
    <3>3. Stage(loop') = Stage(loop) /\ Place(loop') = 2 /\ Place(loop) = 3
      BY <2>1, <3>2, Stages DEF Walking
    <3> QED BY <3>2, <3>3 DEF Closer
  <2> QED BY <1>2, <1>8, <2>1, <2>2 DEF Navigated, Fails
<1>9. CASE Arrived
  <2>1. loop.pc = "arrive"
    BY <1>9 DEF Arrived, At
  <2> DEFINE there == Understood(loop)
  <2>2. ASSUME op.reply = "ok",
               \/ Returns(there, "failed") \/ Returns(there, "review") \/ NextField(there)
        PROVE  Closer(loop', loop)
    <3>1. loop.browser \in Tabs
      BY <2>1, <2>2, LoopHas
    <3>2. there \in LoopType /\ there.pages = loop.pages
      BY <1>1, <3>1, UnderstoodFields DEF IInv
    <3> HIDE DEF there
    <3> QED BY <1>1, <2>1, <2>2, <3>2, NextFieldCloser, ReturnsCloser
  <2>3. \/ /\ op.reply = "ok"
           /\ \/ Returns(there, "failed") \/ Returns(there, "review") \/ NextField(there)
              \/ Returns(loop, "blocked")
        \/ Retries("arrive")
        \/ Returns(loop, "failed")
    BY <1>9 DEF Arrived, GivesUp, Fails
  <2> HIDE DEF there
  <2> QED BY <1>1, <1>2, <2>1, <2>2, <2>3, RetriesCloser
<1>10. CASE RecoveryCloses
  <2>1. loop.pc = "recover_close"
    BY <1>10 DEF RecoveryCloses, At
  <2>2. ASSUME NEW request, Calls([loop EXCEPT !.owned = 0], "recover_start", request)
        PROVE  Closer(loop', loop)
    <3>1. loop'.pc = "recover_start"
      BY <1>1, <2>2 DEF Calls
    <3>2. Stage(loop') = 3 /\ Stage(loop) = 4
      BY <2>1, <3>1, Stages
    <3> QED BY <3>2 DEF Closer
  <2> QED BY <1>2, <1>10, <2>1, <2>2 DEF RecoveryCloses, Fails
<1>11. CASE RecoveryStarts
  <2>1. loop.pc = "recover_start"
    BY <1>11 DEF RecoveryStarts, At
  <2> DEFINE l == [loop EXCEPT !.browser = session.id, !.owned = session.id, !.page = session.page]
  <2>2. DOMAIN l = DOMAIN loop
    OBVIOUS
  <2>3. Fails(loop) \/ \E request : Calls(l, "recover_observe", request)
    BY <1>11 DEF RecoveryStarts
  <2> HIDE DEF l
  <2>4. ASSUME NEW request, Calls(l, "recover_observe", request)
        PROVE  Closer(loop', loop)
    <3>1. loop'.pc = "recover_observe"
      BY <1>1, <2>2, <2>4 DEF Calls
    <3>2. Stage(loop') = 2 /\ Stage(loop) = 3
      BY <2>1, <3>1, Stages
    <3> QED BY <3>2 DEF Closer
  <2> QED BY <1>2, <2>1, <2>3, <2>4 DEF Fails
<1>12. CASE RecoveryEnds
  BY <1>2, <1>12 DEF RecoveryEnds, At, Fails
<1>13. CASE Closed
  <2>1. loop.pc = "close" /\ loop' = [loop EXCEPT !.pc = "done"]
    BY <1>13 DEF Closed, At, Calls
  <2>2. loop'.pc = "done"
    BY <1>1, <2>1
  <2>3. Stage(loop') = 0 /\ Stage(loop) = 1
    BY <2>1, <2>2, Stages
  <2> QED BY <2>3 DEF Closer
<1>14. ~Starts
  BY DEF Starts
<1> QED BY <1>3, <1>4, <1>6, <1>7, <1>8, <1>9, <1>10, <1>11, <1>12, <1>13, <1>14 DEF LoopStep

\* Every answer brings the loop nearer its end, for every form and all limits:
\* it never goes round.
THEOREM PageLoopAdvances == Spec => Advances
<1>1. IInv /\ [Next]_vars =>
        [IF LoopStep /\ op.pc = "replied" THEN Closer(loop', loop) ELSE UNCHANGED loop]_vars
  <2> SUFFICES ASSUME IInv, Next
               PROVE  IF LoopStep /\ op.pc = "replied" THEN Closer(loop', loop) ELSE UNCHANGED loop
    OBVIOUS
  <2>1. CASE LoopStep /\ op.pc = "replied"
    BY <2>1, StepCloser
  <2>2. CASE LoopStep /\ op.pc # "replied"
    <3>1. Starts
      BY <2>2 DEF LoopStep, Started, Observed, Driven, Verified, Navigated, Arrived,
                  RecoveryCloses, RecoveryStarts, RecoveryEnds, Closed, At
    <3>2. loop.pc = "start" /\ loop' = [loop EXCEPT !.pc = "start"] /\ loop \in LoopType
      BY <3>1 DEF Starts, CallStart, Calls, IInv, TypeOK
    <3>3. loop' = loop
      BY <3>2 DEF LoopType
    <3> QED BY <2>2, <3>3
  <2>3. CASE ~LoopStep
    BY <2>3 DEF Next, Abort
  <2> QED BY <2>1, <2>2, <2>3
<1> QED BY <1>1, PageLoopInvariant, PTL DEF Spec, Advances
=============================================================================
