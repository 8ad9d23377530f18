-------------------------- MODULE TabBridgeProofs --------------------------
(***************************************************************************)
(* Theorems about the bridge to the browser for every number of callers,   *)
(* tabs, links and calls, and every combination of faults.                 *)
(***************************************************************************)
EXTENDS TabBridge, SequenceTheorems, TLAPS

Nobody == \A t \in Tabs : attached[t] = None

\* Every command and every attachment belongs to the last link; a new one is
\* opened only when they are gone.
LinkInv ==
  /\ extension \in {0, link}
  /\ open => link # 0
  /\ \A k \in tasks : k.on = link /\ (k.pc \in {"loading", "targets"} => owner[k.id] = link)
  /\ \A t \in Tabs : attached[t] # None => owner[attached[t]] = link
  /\ ~open /\ cleaned => tasks = {} /\ Nobody
  /\ \A l \in Links : l > link => toExtension[l] = <<>> /\ toService[l] = <<>>

\* The commands and the replies on the link.
Asked == IF link = 0 THEN <<>> ELSE toExtension[link]
Answered == IF link = 0 THEN <<>> ELSE toService[link]

Used(i) == i <= sequence

\* A call is in one place at a time: asked, under way or answered; what it
\* attached is not mistaken for that of another call.
IdInv ==
  /\ \A c \in Callers : pending[c] # None => Used(pending[c])
  /\ \A c, d \in Callers : pending[c] = pending[d] /\ pending[c] # None => c = d
  /\ \A k \in tasks : Used(k.id)
  /\ \A j, k \in tasks : j.id = k.id => j = k
  /\ \A i \in DOMAIN Asked : Used(Asked[i].id) /\ \A k \in tasks : k.id # Asked[i].id
  /\ \A i, j \in DOMAIN Asked : Asked[i].id = Asked[j].id => i = j
  /\ \A i \in DOMAIN Answered : Answered[i].id # None =>
       /\ Used(Answered[i].id)
       /\ \A k \in tasks : k.id # Answered[i].id
       /\ \A j \in DOMAIN Asked : Asked[j].id # Answered[i].id
       /\ \A j \in DOMAIN Answered : Answered[j].id = Answered[i].id => i = j
  /\ \A t \in Tabs : attached[t] # None =>
       /\ Used(attached[t])
       /\ \A k \in tasks : k.id # attached[t]
       /\ \A i \in DOMAIN Asked : Asked[i].id # attached[t]

\* Somebody waits for the tab that call i asked for, or did until its timeout.
Awaited(i, t) ==
  i \in late \/ \E c \in Callers :
    pending[c] = i /\ caller[c].pc = "attaching" /\ TabOf[c] = t

\* An attach that is asked, under way or answered is waited for.
WaitInv == extension # 0 =>
  /\ \A i \in DOMAIN Asked : Asked[i].method = "attach" => Awaited(Asked[i].id, Asked[i].tab)
  /\ \A k \in tasks : k.pc \in {"loading", "targets"} => Awaited(k.id, k.tab)
  /\ \A t \in Tabs : \A i \in DOMAIN Answered :
       attached[t] # None /\ Answered[i].id = attached[t] /\ Answered[i].ok =>
         Awaited(attached[t], t)

\* What accounts for an attachment: the service knows it, will hear of it or has
\* asked for it back, or nobody waited for it any more when it was answered.
Covered(t) ==
  \/ tabs[t].id # None
  \/ \E i \in DOMAIN Answered : Answered[i].id = attached[t] /\ Answered[i].ok
  \/ \E i \in DOMAIN Asked : Asked[i].tab = t /\ Asked[i].method = "detach"
  \/ attached[t] \in late
AllCovered ==
  open /\ extension = link => \A t \in Tabs : attached[t] # None => Covered(t)

\* Nobody waits for a call that was given up, or holds what it attached.
LateInv ==
  /\ \A i \in late : Used(i)
  /\ \A c \in Callers :
       /\ pending[c] \notin late /\ caller[c].id \notin late
       /\ caller[c].id # None => /\ Used(caller[c].id)
                                 /\ \A d \in Callers : pending[d] # caller[c].id

\* What is still asked was asked after all that the extension has begun.
OrderInv == \A i \in DOMAIN Asked :
  /\ \A j \in DOMAIN Asked : i < j => Asked[i].id < Asked[j].id
  /\ \A k \in tasks : k.id < Asked[i].id
  /\ \A t \in Tabs : attached[t] # None => attached[t] < Asked[i].id

IInv == /\ TypeOK /\ LinkInv /\ NoStrayDebugger /\ IdInv /\ WaitInv
        /\ AllCovered /\ LateInv /\ OrderInv

-----------------------------------------------------------------------------
(* Queues.                                                                  *)

LEMMA Elements ==
  ASSUME NEW S, NEW s \in Seq(S)
  PROVE  \A i \in DOMAIN s : s[i] \in S
BY ElementOfSeq

LEMMA Appends ==
  ASSUME NEW S, NEW s \in Seq(S), NEW e \in S
  PROVE  /\ Append(s, e) \in Seq(S)
         /\ Len(s) + 1 \in DOMAIN Append(s, e) /\ Append(s, e)[Len(s) + 1] = e
         /\ Len(s) + 1 \notin DOMAIN s
         /\ \A i \in DOMAIN s : i \in DOMAIN Append(s, e) /\ Append(s, e)[i] = s[i]
         /\ \A i \in DOMAIN Append(s, e) :
              i \in DOMAIN s \/ (i = Len(s) + 1 /\ Append(s, e)[i] = e)
<1>1. /\ Append(s, e) \in Seq(S) /\ Len(Append(s, e)) = Len(s) + 1 /\ Len(s) \in Nat
      /\ \A i \in 1..Len(s) : Append(s, e)[i] = s[i]
      /\ Append(s, e)[Len(s) + 1] = e
  BY AppendProperties
<1>2. DOMAIN Append(s, e) = 1..(Len(s) + 1) /\ DOMAIN s = 1..Len(s)
  BY <1>1
<1> QED BY <1>1, <1>2

LEMMA Tails ==
  ASSUME NEW S, NEW s \in Seq(S), s # <<>>
  PROVE  /\ Head(s) \in S /\ Tail(s) \in Seq(S)
         /\ 1 \in DOMAIN s /\ s[1] = Head(s)
         /\ \A i \in DOMAIN Tail(s) :
              i \in Nat \ {0} /\ i + 1 \in DOMAIN s /\ Tail(s)[i] = s[i + 1]
         /\ \A i \in DOMAIN s : i # 1 => \E j \in DOMAIN Tail(s) : i = j + 1
<1>1. /\ Head(s) \in S /\ Tail(s) \in Seq(S) /\ Len(Tail(s)) = Len(s) - 1
      /\ \A i \in 1..Len(Tail(s)) : Tail(s)[i] = s[i + 1]
  BY HeadTailProperties
<1>2. Len(s) \in Nat \ {0} /\ DOMAIN s = 1..Len(s) /\ Head(s) = s[1]
      /\ DOMAIN Tail(s) = 1..(Len(s) - 1)
  BY <1>1, EmptySeq
<1>3. ASSUME NEW i \in DOMAIN s, i # 1 PROVE \E j \in DOMAIN Tail(s) : i = j + 1
  <2>1. i - 1 \in DOMAIN Tail(s) /\ i = (i - 1) + 1
    BY <1>2, <1>3
  <2> QED BY <2>1
<1> QED BY <1>1, <1>2, <1>3

LEMMA OnLink ==
  ASSUME TypeOK, LinkInv
  PROVE  /\ link \in Nat /\ (link # 0 => link \in Links)
         /\ Asked \in Seq(Request) /\ Answered \in Seq(Reply)
         /\ extension # 0 => /\ extension = link
                             /\ Asked = toExtension[extension] /\ Answered = toService[extension]
         /\ open => Asked = toExtension[link] /\ Answered = toService[link]
<1>1. <<>> \in Seq(Request) /\ <<>> \in Seq(Reply)
  BY EmptySeq
<1> QED BY <1>1, BridgeAssumption DEF TypeOK, LinkInv, Links, Asked, Answered

\* Only the queue of the link in use is appended to.
LEMMA Calling ==
  ASSUME TypeOK, LinkInv, extension # 0, NEW c \in Callers, NEW m \in {"attach", "detach"},
         Call(c, m), UNCHANGED <<toService, link>>,
         NEW r, r = [id |-> sequence + 1, method |-> m, tab |-> TabOf[c]]
  PROVE  /\ sequence' = sequence + 1 /\ sequence' \in Calls
         /\ pending' = [pending EXCEPT ![c] = sequence'] /\ pending' \in [Callers -> Calls \cup {None}]
         /\ r \in Request /\ toExtension' \in [Links -> Seq(Request)]
         /\ Asked' = Append(Asked, r) /\ Answered' = Answered
         /\ \A l \in Links : l # link => toExtension'[l] = toExtension[l]
<1>1. sequence' = sequence + 1 /\ sequence' \in Calls /\ sequence \in Nat
      /\ pending' = [pending EXCEPT ![c] = sequence']
  BY BridgeAssumption DEF Call, TypeOK, Calls
<1>2. r \in Request
  BY <1>1, BridgeAssumption DEF Request
<1>3. extension = link /\ link \in Links /\ link # 0 /\ Asked = toExtension[link]
  BY OnLink
<1>4. toExtension' = [toExtension EXCEPT ![link] = Append(@, r)]
  BY <1>1, <1>3 DEF Call
<1>5. toExtension[link] \in Seq(Request) /\ Append(toExtension[link], r) \in Seq(Request)
  BY <1>2, <1>3, Appends DEF TypeOK
<1>6. toExtension' \in [Links -> Seq(Request)]
      /\ toExtension'[link] = Append(toExtension[link], r)
      /\ \A l \in Links : l # link => toExtension'[l] = toExtension[l]
  BY <1>3, <1>4, <1>5 DEF TypeOK
<1>7. Asked' = Append(Asked, r) /\ Answered' = Answered
  BY <1>3, <1>6 DEF Asked, Answered
<1> QED BY <1>1, <1>2, <1>6, <1>7 DEF TypeOK

LEMMA Replying ==
  ASSUME TypeOK, LinkInv, NEW l, NEW m \in Reply, Replies(l, m), UNCHANGED link
  PROVE  /\ toService' \in [Links -> Seq(Reply)]
         /\ Answered' = Answered \/ (Answered' = Append(Answered, m) /\ open /\ link = l)
         /\ open /\ link = l => Answered' = Append(Answered, m)
         /\ \A n \in Links : n # link => toService'[n] = toService[n]
<1>1. CASE open /\ link = l
  <2>1. link \in Links /\ link # 0 /\ Answered = toService[link]
    BY <1>1, OnLink DEF LinkInv
  <2>2. toService' = [toService EXCEPT ![link] = Append(@, m)]
    BY <1>1 DEF Replies
  <2>3. toService[link] \in Seq(Reply) /\ Append(toService[link], m) \in Seq(Reply)
    BY <2>1, Appends DEF TypeOK
  <2>4. toService' \in [Links -> Seq(Reply)] /\ toService'[link] = Append(toService[link], m)
        /\ \A n \in Links : n # link => toService'[n] = toService[n]
    BY <2>1, <2>2, <2>3 DEF TypeOK
  <2> QED BY <1>1, <2>1, <2>4 DEF Answered
<1>2. CASE ~(open /\ link = l)
  BY <1>2 DEF Replies, TypeOK, Answered
<1> QED BY <1>1, <1>2

-----------------------------------------------------------------------------
(* Types.                                                                  *)

Waits(c) == caller[c].pc \in {"attaching", "detaching"} <=> pending[c] # None
CallersOK == /\ pending \in [Callers -> Calls \cup {None}]
             /\ caller \in [Callers -> [pc : CallerPc, id : Calls \cup {None}]]
             /\ \A c \in Callers : Waits(c)

\* A caller that starts a call waits for it, one that ends it does not.
LEMMA CallersMove ==
  ASSUME TypeOK, NEW c \in Callers, NEW p \in CallerPc, NEW i \in Calls \cup {None},
         NEW n \in Calls \cup {None},
         pending' = [pending EXCEPT ![c] = n],
         \/ caller' = [caller EXCEPT ![c] = [pc |-> p, id |-> i]]
         \/ caller' = [caller EXCEPT ![c].pc = p],
         p \in {"attaching", "detaching"} <=> n # None
  PROVE  CallersOK'
<1>1. pending' \in [Callers -> Calls \cup {None}] /\ pending'[c] = n
      /\ \A d \in Callers : d # c => pending'[d] = pending[d]
  BY DEF TypeOK
<1>2. caller' \in [Callers -> [pc : CallerPc, id : Calls \cup {None}]] /\ caller'[c].pc = p
      /\ \A d \in Callers : d # c => caller'[d] = caller[d]
  <2>1. caller \in [Callers -> [pc : CallerPc, id : Calls \cup {None}]]
    BY DEF TypeOK
  <2>2. CASE caller' = [caller EXCEPT ![c] = [pc |-> p, id |-> i]]
    BY <2>1, <2>2
  <2>3. CASE caller' = [caller EXCEPT ![c].pc = p]
    <3>1. caller[c] \in [pc : CallerPc, id : Calls \cup {None}]
      BY <2>1
    <3>2. caller' = [caller EXCEPT ![c] = [pc |-> p, id |-> caller[c].id]]
      BY <2>1, <2>3, <3>1
    <3> QED BY <2>1, <3>1, <3>2
  <2> QED BY <2>2, <2>3
<1>3. \A d \in Callers : Waits(d)'
  BY <1>1, <1>2 DEF TypeOK, Waits
<1> QED BY <1>1, <1>2, <1>3 DEF CallersOK

LEMMA CallDetaches ==
  ASSUME TypeOK, LinkInv, NEW c \in Callers, CallDetach(c), pending[c] = None,
         UNCHANGED <<extension, toService, link>>
  PROVE  /\ CallersOK' /\ sequence' \in 0 .. MaxCalls
         /\ toExtension' \in [Links -> Seq(Request)]
<1>1. CASE extension = 0
  <2>1. pending' = [pending EXCEPT ![c] = None]
    BY <1>1 DEF CallDetach, TypeOK
  <2> QED BY <1>1, <2>1, CallersMove DEF CallDetach, Idle, CallerPc, TypeOK
<1>2. CASE extension # 0
  <2>1. Call(c, "detach") /\ caller' = [caller EXCEPT ![c].pc = "detaching"]
    BY <1>2 DEF CallDetach, At
  <2>2. sequence' \in Calls /\ pending' = [pending EXCEPT ![c] = sequence']
        /\ toExtension' \in [Links -> Seq(Request)] /\ sequence' # None
    BY <1>2, <2>1, Calling, BridgeAssumption
  <2>3. CallersOK'
    BY <2>1, <2>2, CallersMove DEF CallerPc
  <2> QED BY <2>2, <2>3 DEF Calls
<1> QED BY <1>1, <1>2

LEMMA Resets ==
  ASSUME TypeOK, NEW l, Reset(l)
  PROVE  CallersOK' /\ tabs' \in [Tabs -> [id : Calls \cup {None}, socket : BOOLEAN]]
<1>1. \A c \in Callers : /\ pending'[c] = None
                         /\ caller'[c] = IF pending[c] = None THEN caller[c]
                                         ELSE [pc |-> "idle", id |-> None]
  BY DEF Reset
<1>2. \A c \in Callers : caller'[c] \in [pc : CallerPc, id : Calls \cup {None}] /\ Waits(c)'
  <2> TAKE c \in Callers
  <2>1. CASE pending[c] = None
    BY <1>1, <2>1 DEF TypeOK, Waits
  <2>2. CASE pending[c] # None
    BY <1>1, <2>2 DEF CallerPc, Waits
  <2> QED BY <2>1, <2>2
<1>3. CallersOK'
  BY <1>1, <1>2 DEF CallersOK, Reset
<1> QED BY <1>3 DEF Reset, NoTab

TabType == [id : Calls \cup {None}, socket : BOOLEAN]

LEMMA TabsMove ==
  ASSUME tabs \in [Tabs -> TabType], NEW t \in Tabs, NEW v \in TabType, NEW b \in BOOLEAN
  PROVE  /\ [tabs EXCEPT ![t] = v] \in [Tabs -> TabType]
         /\ [tabs EXCEPT ![t].socket = b] \in [Tabs -> TabType]
<1>1. [tabs[t] EXCEPT !.socket = b] \in TabType
  BY DEF TabType
<1> QED BY <1>1

LEMMA TypeStep ==
  ASSUME TypeOK, LinkInv, Next
  PROVE  TypeOK'
<1>1. CASE ServiceStep
  <2>0. /\ link' \in Links \cup {0} /\ open' \in BOOLEAN /\ cleaned' \in BOOLEAN
        /\ tasks' \subseteq Task /\ attached' \in [Tabs -> Calls \cup {None}]
        /\ owner' \in [Calls -> Links \cup {None}] /\ debugging' \in [Tabs -> BOOLEAN]
        /\ notice' \in [Tabs -> Calls \cup {None, Unread}] /\ UNCHANGED link
    BY <1>1 DEF TypeOK, ServiceStep, Receives, ServiceLosesLink, OpenAttaches, CallTimesOut,
                CdpConnects, OpenReturns, OpenFails, Release, browser
  <2> DEFINE Rest == /\ extension' \in Links \cup {0} /\ sequence' \in 0 .. MaxCalls
                     /\ tabs' \in [Tabs -> [id : Calls \cup {None}, socket : BOOLEAN]]
                     /\ toExtension' \in [Links -> Seq(Request)]
                     /\ toService' \in [Links -> Seq(Reply)] /\ late' \subseteq Calls
  <2> SUFFICES CallersOK' /\ Rest
    BY <2>0 DEF TypeOK, CallersOK, Waits
  <2>1. CASE Receives
    <3> DEFINE m == Head(toService[extension])
    <3>1. extension \in Links /\ m \in Reply /\ Tail(toService[extension]) \in Seq(Reply)
      BY <2>1, Tails DEF Receives, TypeOK
    <3>2. toService' \in [Links -> Seq(Reply)]
      BY <2>1, <3>1 DEF Receives, TypeOK
    <3>3. ASSUME UNCHANGED <<pending, caller>>,
                 tabs' = tabs \/ tabs' = [tabs EXCEPT ![m.tab].socket = FALSE]
          PROVE  CallersOK' /\ Rest
      <4>1. tabs' \in [Tabs -> [id : Calls \cup {None}, socket : BOOLEAN]]
        <5> HIDE DEF m
        <5>1. m.tab \in Tabs /\ tabs \in [Tabs -> TabType]
          BY <3>1 DEF Reply, TypeOK, TabType
        <5>2. CASE UNCHANGED tabs
          BY <5>1, <5>2 DEF TabType
        <5>3. CASE tabs' = [tabs EXCEPT ![m.tab].socket = FALSE]
          <6>1. [tabs EXCEPT ![m.tab].socket = FALSE] \in [Tabs -> TabType]
            BY <5>1, TabsMove
          <6> QED BY <5>3, <6>1 DEF TabType
        <5> QED BY <3>3, <5>2, <5>3
      <4> QED BY <2>1, <3>2, <3>3, <4>1 DEF Receives, TypeOK, CallersOK, Waits
    <3>4. ASSUME NEW c \in Callers, pending[c] = m.id, m.id # None,
                 pending' = [pending EXCEPT ![c] = None],
                 IF caller[c].pc = "attaching" /\ m.ok /\ tabs[TabOf[c]].id = None
                 THEN /\ tabs' = [tabs EXCEPT ![TabOf[c]] = [id |-> m.id, socket |-> FALSE]]
                      /\ caller' = [caller EXCEPT ![c] = [pc |-> "connecting", id |-> m.id]]
                 ELSE caller' = Idle(c) /\ UNCHANGED tabs
          PROVE  CallersOK' /\ Rest
      <4>1. m.id \in Calls
        BY <3>1, <3>4 DEF Reply
      <4>2. CallersOK'
        BY <3>4, <4>1, CallersMove DEF Idle, CallerPc
      <4>3. tabs' \in [Tabs -> [id : Calls \cup {None}, socket : BOOLEAN]]
        <5> HIDE DEF m
        <5>1. /\ TabOf[c] \in Tabs /\ tabs \in [Tabs -> TabType]
              /\ [id |-> m.id, socket |-> FALSE] \in TabType
          BY <4>1, BridgeAssumption DEF TypeOK, TabType
        <5>2. [tabs EXCEPT ![TabOf[c]] = [id |-> m.id, socket |-> FALSE]] \in [Tabs -> TabType]
          BY <5>1, TabsMove
        <5> QED BY <3>4, <5>1, <5>2 DEF TabType
      <4> QED BY <2>1, <3>2, <4>2, <4>3 DEF Receives, TypeOK
    <3> HIDE DEF Rest
    <3> QED BY <2>1, <3>3, <3>4 DEF Receives
  <2>2. CASE ServiceLosesLink
    BY <2>2, Resets DEF ServiceLosesLink, TypeOK, Reset
  <2>3. ASSUME NEW c \in Callers, OpenAttaches(c) PROVE CallersOK' /\ Rest
    <3>1. /\ sequence' \in Calls /\ pending' = [pending EXCEPT ![c] = sequence']
          /\ toExtension' \in [Links -> Seq(Request)] /\ sequence' # None
      BY <2>3, Calling, BridgeAssumption DEF OpenAttaches, browser
    <3>2. CallersOK'
      BY <2>3, <3>1, CallersMove DEF OpenAttaches, At, CallerPc
    <3> QED BY <2>3, <3>1, <3>2 DEF OpenAttaches, TypeOK, Calls
  <2>4. ASSUME NEW c \in Callers, CallTimesOut(c) PROVE CallersOK' /\ Rest
    <3>1. CallersOK'
      BY <2>4, CallersMove DEF CallTimesOut, Idle, CallerPc
    <3> QED BY <2>4, <3>1 DEF CallTimesOut, TypeOK
  <2>5. ASSUME NEW c \in Callers, CdpConnects(c) PROVE CallersOK' /\ Rest
    <3>1. pending' = [pending EXCEPT ![c] = None]
      BY <2>5 DEF CdpConnects, TypeOK
    <3>2. CallersOK'
      BY <2>5, <3>1, CallersMove DEF CdpConnects, At, CallerPc
    <3>3. tabs' \in [Tabs -> [id : Calls \cup {None}, socket : BOOLEAN]]
      <4>1. TabOf[c] \in Tabs /\ tabs \in [Tabs -> TabType]
        BY BridgeAssumption DEF TypeOK, TabType
      <4> QED BY <2>5, <4>1, TabsMove DEF CdpConnects, TabType
    <3>4. UNCHANGED <<extension, sequence, toExtension, toService, late>>
      BY <2>5 DEF CdpConnects
    <3> QED BY <3>2, <3>3, <3>4 DEF TypeOK
  <2>6. ASSUME NEW c \in Callers, OpenReturns(c) PROVE CallersOK' /\ Rest
    <3>1. pending' = [pending EXCEPT ![c] = None]
      BY <2>6 DEF OpenReturns, TypeOK
    <3>2. CallersOK'
      BY <2>6, <3>1, CallersMove DEF OpenReturns, At, CallerPc
    <3> QED BY <2>6, <3>2 DEF OpenReturns, TypeOK
  <2>7. ASSUME NEW c \in Callers, OpenFails(c) PROVE CallersOK' /\ Rest
    <3>1. pending[c] = None
      BY <2>7 DEF OpenFails, TypeOK
    <3>2. CASE tabs[TabOf[c]].id = caller[c].id
      <4>1. CallersOK' /\ sequence' \in 0 .. MaxCalls /\ toExtension' \in [Links -> Seq(Request)]
        BY <2>7, <3>1, <3>2, CallDetaches DEF OpenFails, browser
      <4>2. tabs' \in [Tabs -> [id : Calls \cup {None}, socket : BOOLEAN]]
        <5>1. TabOf[c] \in Tabs /\ tabs \in [Tabs -> TabType] /\ NoTab \in TabType
          BY BridgeAssumption DEF TypeOK, TabType, NoTab
        <5>2. tabs' = [tabs EXCEPT ![TabOf[c]] = NoTab]
          BY <2>7, <3>2 DEF OpenFails
        <5> QED BY <5>1, <5>2, TabsMove DEF TabType
      <4>3. UNCHANGED <<extension, toService, late>>
        BY <2>7 DEF OpenFails
      <4> QED BY <4>1, <4>2, <4>3 DEF TypeOK
    <3>3. CASE tabs[TabOf[c]].id # caller[c].id
      <4>1. pending' = [pending EXCEPT ![c] = None]
        BY <2>7, <3>1, <3>3 DEF OpenFails, TypeOK
      <4>2. CallersOK'
        BY <2>7, <3>3, <4>1, CallersMove DEF OpenFails, Idle, CallerPc
      <4> QED BY <2>7, <3>3, <4>2 DEF OpenFails, TypeOK
    <3> QED BY <3>2, <3>3
  <2>8. ASSUME NEW c \in Callers, Release(c) PROVE CallersOK' /\ Rest
    <3>1. pending[c] = None
      BY <2>8 DEF Release, TypeOK
    <3>2. CallersOK' /\ sequence' \in 0 .. MaxCalls /\ toExtension' \in [Links -> Seq(Request)]
      BY <2>8, <3>1, CallDetaches DEF Release, browser
    <3> QED BY <2>8, <3>2 DEF Release, TypeOK, NoTab
  <2> HIDE DEF Rest
  <2> QED BY <1>1, <2>1, <2>2, <2>3, <2>4, <2>5, <2>6, <2>7, <2>8 DEF ServiceStep
<1>2. CASE ExtensionStep
  <2>1. CASE Connect
    <3>1. link' \in Links
      BY <2>1, BridgeAssumption, OnLink DEF Connect, Links
    <3>2. CallersOK' /\ tabs' \in [Tabs -> [id : Calls \cup {None}, socket : BOOLEAN]]
      BY <2>1, Resets DEF Connect
    <3> QED BY <2>1, <3>1, <3>2 DEF Connect, TypeOK, CallersOK, Waits, Reset
  <2>2. CASE Commanded
    <3> DEFINE m == Head(toExtension[link])
               k(p) == [id |-> m.id, tab |-> m.tab, on |-> link, pc |-> p]
               reply == [id |-> m.id, ok |-> FALSE, tab |-> m.tab]
    <3>1. link \in Links /\ m \in Request /\ Tail(toExtension[link]) \in Seq(Request)
      BY <2>2, OnLink, Tails DEF Commanded, TypeOK, LinkInv
    <3>2. toExtension' \in [Links -> Seq(Request)]
      BY <2>2, <3>1 DEF Commanded, TypeOK
    <3>3. k("loading") \in Task /\ k("detaching") \in Task /\ reply \in Reply
          /\ m.id \in Calls /\ m.tab \in Tabs
      BY <3>1 DEF Task, Reply, Request
    <3>4. toService' \in [Links -> Seq(Reply)]
      <4>1. UNCHANGED toService \/ Replies(link, reply)
        BY <2>2 DEF Commanded
      <4> QED BY <2>2, <3>3, <4>1, Replying DEF Commanded, TypeOK
    <3>5. tasks' \subseteq Task /\ owner' \in [Calls -> Links \cup {None}]
          /\ attached' \in [Tabs -> Calls \cup {None}] /\ debugging' \in [Tabs -> BOOLEAN]
      <4>1. /\ tasks' \in {tasks, tasks \cup {k("loading")}, tasks \cup {k("detaching")}}
            /\ owner' = owner \/ owner' = [owner EXCEPT ![m.id] = link]
            /\ attached' = attached \/ attached' = [attached EXCEPT ![m.tab] = None]
            /\ debugging' = debugging \/ debugging' = [debugging EXCEPT ![m.tab] = FALSE]
        BY <2>2 DEF Commanded
      <4> HIDE DEF m, k
      <4>2. tasks' \subseteq Task
        BY <3>3, <4>1 DEF TypeOK
      <4>3. owner' \in [Calls -> Links \cup {None}]
        BY <3>1, <3>3, <4>1 DEF TypeOK
      <4>4. attached' \in [Tabs -> Calls \cup {None}] /\ debugging' \in [Tabs -> BOOLEAN]
        BY <3>3, <4>1 DEF TypeOK
      <4> QED BY <4>2, <4>3, <4>4
    <3> QED BY <2>2, <3>2, <3>4, <3>5 DEF Commanded, TypeOK, service
  <2>3. ASSUME NEW k \in tasks,
               AttachRefused(k) \/ AttachTakes(k) \/ CommandEnds(k) PROVE TypeOK'
    <3>1. k \in Task
      BY DEF TypeOK
    <3>2. PICK ok \in BOOLEAN : Ends(k, ok)
      BY <2>3 DEF AttachRefused, AttachTakes, CommandEnds
    <3>3. [id |-> k.id, ok |-> ok, tab |-> k.tab] \in Reply
      BY <3>1 DEF Task, Reply
    <3>4. UNCHANGED link
      BY <2>3 DEF AttachRefused, AttachTakes, CommandEnds
    <3>5. toService' \in [Links -> Seq(Reply)]
      BY <3>2, <3>3, <3>4, Replying DEF Ends
    <3>6. attached' \in [Tabs -> Calls \cup {None}]
      BY <2>3, <3>1 DEF AttachRefused, AttachTakes, CommandEnds, TypeOK, Task
    <3> QED BY <2>3, <3>2, <3>5, <3>6 DEF AttachRefused, AttachTakes, CommandEnds, TypeOK, service, Ends
  <2>4. ASSUME NEW k \in tasks, AttachDebugs(k) \/ AttachUndoes(k) PROVE TypeOK'
    <3>1. k \in Task /\ [k EXCEPT !.pc = "targets"] \in Task /\ [k EXCEPT !.pc = "undoing"] \in Task
      BY DEF TypeOK, Task
    <3>2. tasks' \subseteq Task /\ debugging' \in [Tabs -> BOOLEAN]
      BY <2>4, <3>1 DEF AttachDebugs, AttachUndoes, TypeOK
    <3> QED BY <2>4, <3>2 DEF AttachDebugs, AttachUndoes, TypeOK, service
  <2>5. CASE ExtensionLosesLink
    BY <2>5 DEF ExtensionLosesLink, TypeOK, service
  <2>6. CASE CleansUp
    <3>1. attached' \in [Tabs -> Calls \cup {None}]
      BY <2>6 DEF CleansUp, TypeOK
    <3>2. debugging' \in [Tabs -> BOOLEAN]
      BY <2>6 DEF CleansUp, TypeOK
    <3> QED BY <2>6, <3>1, <3>2 DEF CleansUp, TypeOK, service
  <2>7. ASSUME NEW t \in Tabs, Cancelled(t) \/ NoticeReads(t) PROVE TypeOK'
    BY <2>7 DEF Cancelled, NoticeReads, TypeOK, service
  <2>8. ASSUME NEW t \in Tabs, NoticeActs(t) PROVE TypeOK'
    <3>1. [id |-> None, ok |-> TRUE, tab |-> t] \in Reply
      BY DEF Reply
    <3>2. toService' \in [Links -> Seq(Reply)]
      BY <2>8, <3>1, Replying DEF NoticeActs, TypeOK
    <3> QED BY <2>8, <3>2 DEF NoticeActs, TypeOK, service
  <2> QED BY <1>2, <2>1, <2>2, <2>3, <2>4, <2>5, <2>6, <2>7, <2>8 DEF ExtensionStep
<1> QED BY <1>1, <1>2 DEF Next

-----------------------------------------------------------------------------
(* Links.                                                                  *)

LaterEmpty == \A l \in Links : l > link => toExtension[l] = <<>> /\ toService[l] = <<>>

LEMMA CallDetachLink ==
  ASSUME TypeOK, LinkInv, NEW c \in Callers, CallDetach(c),
         UNCHANGED <<extension, toService, link>>
  PROVE  LaterEmpty'
<1>1. CASE extension = 0
  BY <1>1 DEF CallDetach, LaterEmpty, LinkInv
<1>2. CASE extension # 0
  <2>1. \A l \in Links : l # link => toExtension'[l] = toExtension[l]
    BY <1>2, Calling DEF CallDetach
  <2> QED BY <2>1, OnLink DEF LaterEmpty, LinkInv, Links
<1> QED BY <1>1, <1>2

LEMMA LinkStep ==
  ASSUME TypeOK, LinkInv, Next
  PROVE  LinkInv'
<1>1. CASE ServiceStep
  <2>1. UNCHANGED browser
    BY <1>1 DEF ServiceStep, Receives, ServiceLosesLink, OpenAttaches, CallTimesOut,
                CdpConnects, OpenReturns, OpenFails, Release
  <2>2. extension' \in {0, link}
    BY <1>1 DEF ServiceStep, Receives, ServiceLosesLink, OpenAttaches, CallTimesOut,
                CdpConnects, OpenReturns, OpenFails, Release, LinkInv, Reset
  <2>3. LaterEmpty'
    <3>1. CASE Receives
      <4>1. extension = link /\ UNCHANGED <<link, toExtension>>
            /\ toService' = [toService EXCEPT ![link] = Tail(@)]
        BY <2>1, <3>1, OnLink DEF Receives, browser
      <4> QED BY <4>1, OnLink DEF LaterEmpty, LinkInv, TypeOK, Links
    <3>2. ASSUME NEW c \in Callers, OpenAttaches(c) PROVE LaterEmpty'
      <4>1. \A l \in Links : l # link => toExtension'[l] = toExtension[l]
        BY <3>2, Calling DEF OpenAttaches, browser
      <4> QED BY <3>2, <4>1, OnLink DEF OpenAttaches, browser, LaterEmpty, LinkInv, Links
    <3>3. ASSUME NEW c \in Callers, OpenFails(c) \/ Release(c) PROVE LaterEmpty'
      <4>1. UNCHANGED <<extension, toService, link>> /\ (CallDetach(c) \/ UNCHANGED toExtension)
        BY <3>3 DEF OpenFails, Release, browser
      <4> QED BY <4>1, CallDetachLink DEF LaterEmpty, LinkInv
    <3>4. ASSUME UNCHANGED <<toExtension, toService>> PROVE LaterEmpty'
      BY <2>1, <3>4 DEF browser, LaterEmpty, LinkInv
    <3> QED BY <1>1, <3>1, <3>2, <3>3, <3>4
          DEF ServiceStep, ServiceLosesLink, CallTimesOut, CdpConnects, OpenReturns
  <2> QED BY <2>1, <2>2, <2>3 DEF LinkInv, browser, Nobody, LaterEmpty
<1>2. CASE ExtensionStep
  <2>1. CASE Connect
    <3>1. tasks' = {} /\ Nobody' /\ link' = link + 1 /\ extension' = link' /\ open'
      BY <2>1 DEF Connect, LinkInv, Nobody, Reset
    <3>2. LaterEmpty'
      BY <2>1, <3>1, OnLink DEF Connect, LinkInv, LaterEmpty, Links
    <3> QED BY <3>1, <3>2, OnLink DEF LinkInv, LaterEmpty, Nobody
  <2>2. CASE Commanded
    <3> DEFINE m == Head(toExtension[link])
               k(p) == [id |-> m.id, tab |-> m.tab, on |-> link, pc |-> p]
    <3>1. link \in Links /\ m \in Request /\ m.id \in Calls /\ open
      <4>1. link \in Links /\ open /\ toExtension[link] \in Seq(Request) /\ toExtension[link] # <<>>
        BY <2>2, OnLink DEF Commanded, TypeOK, LinkInv
      <4>2. m \in Request
        BY <4>1, Tails
      <4> QED BY <4>1, <4>2 DEF Request
    <3>2. LaterEmpty'
      <4>1. UNCHANGED toService \/ Replies(link, [id |-> m.id, ok |-> FALSE, tab |-> m.tab])
        BY <2>2 DEF Commanded
      <4>2. [id |-> m.id, ok |-> FALSE, tab |-> m.tab] \in Reply
        BY <3>1 DEF Reply, Request
      <4>3. \A l \in Links : l # link => toService'[l] = toService[l]
        BY <2>2, <4>1, <4>2, Replying DEF Commanded
      <4>4. \A l \in Links : l # link => toExtension'[l] = toExtension[l]
        BY <2>2 DEF Commanded, TypeOK
      <4> QED BY <2>2, <3>1, <4>3, <4>4 DEF Commanded, LaterEmpty, LinkInv, Links
    <3>3. \A i \in Calls : owner[i] = link => owner'[i] = link
      BY <2>2, <3>1 DEF Commanded, TypeOK
    <3>4. owner'[m.id] = link \/ k("loading") \notin tasks' \/ k("loading") \in tasks
      BY <2>2, <3>1 DEF Commanded, TypeOK
    <3>5. \A j \in tasks' : j \in tasks \/ (j = k("loading") /\ owner'[m.id] = link) \/ j = k("detaching")
      BY <2>2, <3>1 DEF Commanded, TypeOK
    <3>6. \A j \in tasks' : j.on = link /\ (j.pc \in {"loading", "targets"} => owner'[j.id] = link)
      BY <3>3, <3>5 DEF LinkInv, TypeOK, Task
    <3>7. \A t \in Tabs : attached'[t] # None => attached'[t] = attached[t]
      BY <2>2 DEF Commanded, TypeOK
    <3>8. \A t \in Tabs : attached'[t] # None => owner'[attached'[t]] = link
      BY <3>3, <3>7 DEF LinkInv, TypeOK
    <3> QED BY <2>2, <3>1, <3>2, <3>6, <3>8 DEF Commanded, LinkInv, LaterEmpty, service
  <2>3. ASSUME NEW k \in tasks,
               AttachRefused(k) \/ AttachTakes(k) \/ CommandEnds(k) PROVE LinkInv'
    <3>1. UNCHANGED <<link, open, cleaned, owner, extension, toExtension>> /\ k \in Task
      BY <2>3 DEF AttachRefused, AttachTakes, CommandEnds, service, TypeOK
    <3>2. PICK ok \in BOOLEAN : Ends(k, ok)
      BY <2>3 DEF AttachRefused, AttachTakes, CommandEnds
    <3>3. [id |-> k.id, ok |-> ok, tab |-> k.tab] \in Reply
      BY <3>1 DEF Task, Reply
    <3>4. LaterEmpty'
      <4>1. \A l \in Links : l # link => toService'[l] = toService[l]
        BY <3>1, <3>2, <3>3, Replying DEF Ends
      <4> QED BY <3>1, <4>1, OnLink DEF LaterEmpty, LinkInv, Links
    <3>5. \A t \in Tabs : attached'[t] # attached[t] => open /\ attached'[t] = k.id /\ owner[k.id] = link
      BY <2>3, <3>1 DEF AttachRefused, AttachTakes, CommandEnds, LinkInv, TypeOK
    <3>6. tasks' \subseteq tasks
      BY <3>2 DEF Ends
    <3> QED BY <3>1, <3>4, <3>5, <3>6 DEF LinkInv, LaterEmpty, Nobody
  <2>4. ASSUME NEW k \in tasks, AttachDebugs(k) \/ AttachUndoes(k) PROVE LinkInv'
    <3>1. /\ UNCHANGED <<link, open, cleaned, owner, extension, toExtension, toService, attached>>
          /\ k \in Task /\ k.pc \in {"loading", "targets"}
      BY <2>4 DEF AttachDebugs, AttachUndoes, service, TypeOK
    <3>2. PICK p \in {"targets", "undoing"} : tasks' = (tasks \ {k}) \cup {[k EXCEPT !.pc = p]}
      BY <2>4 DEF AttachDebugs, AttachUndoes
    <3>3. [k EXCEPT !.pc = p].on = k.on /\ [k EXCEPT !.pc = p].id = k.id
      BY <3>1 DEF Task
    <3> QED BY <3>1, <3>2, <3>3 DEF LinkInv, Nobody
  <2>5. CASE ExtensionLosesLink
    BY <2>5 DEF ExtensionLosesLink, LinkInv, service
  <2>6. CASE CleansUp
    <3>1. \A t \in Tabs : attached'[t] = None
      BY <2>6 DEF CleansUp, LinkInv
    <3> QED BY <2>6, <3>1 DEF CleansUp, LinkInv, service, Nobody
  <2>7. ASSUME NEW t \in Tabs, Cancelled(t) \/ NoticeReads(t) PROVE LinkInv'
    BY <2>7 DEF Cancelled, NoticeReads, LinkInv, service, Nobody
  <2>8. ASSUME NEW t \in Tabs, NoticeActs(t) PROVE LinkInv'
    <3>1. [id |-> None, ok |-> TRUE, tab |-> t] \in Reply
      BY DEF Reply
    <3>2. \A l \in Links : l # link => toService'[l] = toService[l]
      BY <2>8, <3>1, Replying DEF NoticeActs
    <3>3. \A u \in Tabs : attached'[u] # None => attached'[u] = attached[u]
      BY <2>8 DEF NoticeActs, TypeOK
    <3>4. LaterEmpty'
      BY <2>8, <3>2, OnLink DEF NoticeActs, LaterEmpty, LinkInv, Links, service
    <3> QED BY <2>8, <3>3, <3>4 DEF NoticeActs, LinkInv, LaterEmpty, service, Nobody
  <2> QED BY <1>2, <2>1, <2>2, <2>3, <2>4, <2>5, <2>6, <2>7, <2>8 DEF ExtensionStep
<1> QED BY <1>1, <1>2 DEF Next

\* A debugger goes with what accounts for it.
LEMMA Debugs ==
  ASSUME TypeOK, TypeOK'
  PROVE  \A t \in Tabs : /\ debugging[t] <=> debugging[t] = TRUE
                         /\ debugging'[t] <=> debugging'[t] = TRUE
<1>1. ASSUME NEW t \in Tabs PROVE debugging[t] \in BOOLEAN /\ debugging'[t] \in BOOLEAN
  BY DEF TypeOK
<1> QED BY <1>1, Zenon

Accounted(t) == attached[t] # None \/ \E k \in tasks : k.tab = t /\ k.pc = "targets"

LEMMA DebugStep ==
  ASSUME TypeOK, LinkInv, NoStrayDebugger, Next
  PROVE  NoStrayDebugger'
<1>0. TypeOK' /\ \A t \in Tabs : debugging[t] = TRUE => Accounted(t)
  BY TypeStep, Debugs, Zenon DEF NoStrayDebugger, Accounted
<1>1. ASSUME NEW t \in Tabs, debugging'[t] = TRUE PROVE Accounted(t)'
  <2>1. ASSUME UNCHANGED <<attached, tasks, debugging>> PROVE Accounted(t)'
    BY <1>0, <1>1, <2>1 DEF Accounted
  <2>2. CASE Commanded
    <3>1. debugging[t] = TRUE /\ tasks \subseteq tasks'
      BY <1>1, <2>2 DEF Commanded, TypeOK
    <3>2. attached'[t] = attached[t]
      BY <1>1, <2>2 DEF Commanded, TypeOK
    <3> QED BY <1>0, <3>1, <3>2 DEF Accounted
  <2>3. ASSUME NEW k \in tasks, AttachDebugs(k) PROVE Accounted(t)'
    <3>1. k \in Task /\ attached' = attached
      BY <2>3 DEF AttachDebugs, TypeOK
    <3>2. CASE t = k.tab
      <4> DEFINE j == [k EXCEPT !.pc = "targets"]
      <4>1. j \in tasks' /\ j.tab = t /\ j.pc = "targets"
        BY <2>3, <3>1, <3>2 DEF AttachDebugs, Task
      <4> QED BY <4>1 DEF Accounted
    <3>3. CASE t # k.tab
      <4>1. debugging[t] = TRUE
        BY <1>1, <2>3, <3>3 DEF AttachDebugs, TypeOK
      <4> QED BY <1>0, <2>3, <3>1, <3>3, <4>1 DEF AttachDebugs, Accounted
    <3> QED BY <3>2, <3>3
  <2>4. ASSUME NEW k \in tasks, AttachRefused(k) \/ CommandEnds(k) PROVE Accounted(t)'
    <3>1. k.pc # "targets" /\ tasks' = tasks \ {k} /\ UNCHANGED <<attached, debugging>>
      BY <2>4 DEF AttachRefused, CommandEnds, Ends
    <3> QED BY <1>0, <1>1, <3>1 DEF Accounted
  <2>5. ASSUME NEW k \in tasks, AttachTakes(k) PROVE Accounted(t)'
    <3>1. k \in Task /\ k.id # None /\ debugging[t] = TRUE
      BY <1>1, <2>5, BridgeAssumption DEF AttachTakes, TypeOK, Task
    <3>2. attached'[t] = IF t = k.tab THEN k.id ELSE attached[t]
      BY <2>5 DEF AttachTakes, TypeOK
    <3>3. tasks' = tasks \ {k}
      BY <2>5 DEF AttachTakes, Ends
    <3> QED BY <1>0, <3>1, <3>2, <3>3 DEF Accounted
  <2>6. ASSUME NEW k \in tasks, AttachUndoes(k) PROVE Accounted(t)'
    <3>1. k \in Task /\ attached' = attached /\ t # k.tab /\ debugging[t] = TRUE
      BY <1>1, <2>6 DEF AttachUndoes, TypeOK
    <3> QED BY <1>0, <2>6, <3>1 DEF AttachUndoes, Accounted
  <2>7. CASE CleansUp
    <3>1. debugging[t] = TRUE /\ attached'[t] = attached[t] /\ tasks = {}
      BY <1>1, <2>7 DEF CleansUp, TypeOK
    <3> QED BY <1>0, <3>1 DEF Accounted
  <2>8. ASSUME NEW u \in Tabs, Cancelled(u) PROVE Accounted(t)'
    <3>1. debugging[t] = TRUE /\ UNCHANGED <<attached, tasks>>
      BY <1>1, <2>8 DEF Cancelled, TypeOK
    <3> QED BY <1>0, <3>1 DEF Accounted
  <2>9. ASSUME NEW u \in Tabs, NoticeActs(u) PROVE Accounted(t)'
    <3>1. debugging[t] = TRUE /\ UNCHANGED tasks /\ attached'[t] = attached[t]
      BY <1>1, <2>9 DEF NoticeActs, TypeOK
    <3> QED BY <1>0, <3>1 DEF Accounted
  <2>10. CASE ServiceStep
    BY <2>1, <2>10 DEF ServiceStep, Receives, ServiceLosesLink, OpenAttaches, CallTimesOut,
                CdpConnects, OpenReturns, OpenFails, Release, browser
  <2>11. ASSUME NEW u \in Tabs, NoticeReads(u) PROVE Accounted(t)'
    BY <2>1, <2>11 DEF NoticeReads
  <2>12. CASE Connect \/ ExtensionLosesLink
    BY <2>1, <2>12 DEF Connect, ExtensionLosesLink
  <2> QED BY <2>2, <2>3, <2>4, <2>5, <2>6, <2>7, <2>8, <2>9, <2>10, <2>11, <2>12
        DEF Next, ExtensionStep
<1> QED BY <1>0, <1>1, Debugs, Zenon DEF NoStrayDebugger, Accounted

-----------------------------------------------------------------------------
(* Ids.                                                                    *)

PendingShrinks == \A c \in Callers : pending'[c] \in {pending[c], None}
AttachedShrinks == \A t \in Tabs : attached'[t] \in {attached[t], None}

\* The parts of IdInv.
PendingIds ==
  /\ \A c \in Callers : pending[c] # None => Used(pending[c])
  /\ \A c, d \in Callers : pending[c] = pending[d] /\ pending[c] # None => c = d
TaskIds ==
  /\ \A k \in tasks : Used(k.id)
  /\ \A j, k \in tasks : j.id = k.id => j = k
AskedIds ==
  /\ \A i \in DOMAIN Asked : Used(Asked[i].id) /\ \A k \in tasks : k.id # Asked[i].id
  /\ \A i, j \in DOMAIN Asked : Asked[i].id = Asked[j].id => i = j
AnsweredIds ==
  \A i \in DOMAIN Answered : Answered[i].id # None =>
    /\ Used(Answered[i].id)
    /\ \A k \in tasks : k.id # Answered[i].id
    /\ \A j \in DOMAIN Asked : Asked[j].id # Answered[i].id
    /\ \A j \in DOMAIN Answered : Answered[j].id = Answered[i].id => i = j
AttachedIds ==
  \A t \in Tabs : attached[t] # None =>
    /\ Used(attached[t])
    /\ \A k \in tasks : k.id # attached[t]
    /\ \A i \in DOMAIN Asked : Asked[i].id # attached[t]

LEMMA IdParts ==
  /\ IdInv <=> PendingIds /\ TaskIds /\ AskedIds /\ AnsweredIds /\ AttachedIds
  /\ IdInv' <=> PendingIds' /\ TaskIds' /\ AskedIds' /\ AnsweredIds' /\ AttachedIds'
BY DEF IdInv, PendingIds, TaskIds, AskedIds, AnsweredIds, AttachedIds

LEMMA UsedIds ==
  ASSUME TypeOK, sequence' = sequence + 1
  PROVE  \A i \in Calls : Used(i) => Used(i)' /\ i # sequence'
BY DEF TypeOK, Used, Calls

LEMMA CallIds ==
  ASSUME TypeOK, LinkInv, IdInv, extension # 0, NEW c \in Callers,
         NEW m \in {"attach", "detach"}, Call(c, m),
         UNCHANGED <<toService, link, tasks, attached>>
  PROVE  IdInv'
<1> DEFINE r == [id |-> sequence + 1, method |-> m, tab |-> TabOf[c]]
<1>1. /\ sequence' = sequence + 1 /\ sequence' \in Calls /\ r.id = sequence' /\ r \in Request
      /\ pending' = [pending EXCEPT ![c] = sequence']
      /\ Asked' = Append(Asked, r) /\ Answered' = Answered
  BY Calling
<1> HIDE DEF r
<1>2. \A i \in Calls : i <= sequence => i <= sequence' /\ i # sequence'
  BY <1>1, UsedIds DEF Used
<1>3. sequence' <= sequence'
  BY <1>1, BridgeAssumption DEF Calls
<1>4. /\ Asked \in Seq(Request) /\ Answered \in Seq(Reply)
      /\ \A i \in DOMAIN Asked : Asked[i].id \in Calls
      /\ \A i \in DOMAIN Answered : Answered[i].id # None => Answered[i].id \in Calls
      /\ \A k \in tasks : k.id \in Calls
  <2>1. Asked \in Seq(Request) /\ Answered \in Seq(Reply)
    BY OnLink
  <2>2. /\ \A i \in DOMAIN Asked : Asked[i] \in Request
        /\ \A i \in DOMAIN Answered : Answered[i] \in Reply
    BY <2>1, Elements
  <2> QED BY <2>1, <2>2 DEF Request, Reply, Task, TypeOK
<1>5. /\ \A i \in DOMAIN Asked : i \in DOMAIN Asked' /\ Asked'[i] = Asked[i]
      /\ \A i \in DOMAIN Asked' : \/ i \in DOMAIN Asked /\ Asked'[i] = Asked[i]
                                  \/ i = Len(Asked) + 1 /\ Asked'[i] = r
  BY <1>1, <1>4, Appends
<1>6. PendingIds'
  <2>1. \A d \in Callers : pending'[d] = IF d = c THEN sequence' ELSE pending[d]
    BY <1>1 DEF TypeOK
  <2>2. \A d \in Callers : pending[d] # None => pending[d] <= sequence /\ pending[d] \in Calls
    BY IdParts DEF PendingIds, TypeOK, Used
  <2> QED BY <1>2, <1>3, <2>1, <2>2, IdParts DEF PendingIds, Used
<1>7. TaskIds'
  BY <1>2, <1>4, IdParts DEF TaskIds, Used
<1>8. AskedIds'
  <2>1. \A i \in DOMAIN Asked : Asked[i].id <= sequence' /\ Asked[i].id # sequence'
                               /\ \A k \in tasks : k.id # Asked[i].id
    BY <1>2, <1>4, IdParts DEF AskedIds, Used
  <2>2. \A k \in tasks : k.id # sequence'
    BY <1>2, <1>4, IdParts DEF TaskIds, Used
  <2>3. \A i \in DOMAIN Asked' : Asked'[i].id <= sequence' /\ \A k \in tasks : k.id # Asked'[i].id
    BY <1>1, <1>3, <1>5, <2>1, <2>2
  <2>4. \A i, j \in DOMAIN Asked : Asked[i].id = Asked[j].id => i = j
    BY IdParts DEF AskedIds
  <2>5. \A i, j \in DOMAIN Asked' : Asked'[i].id = Asked'[j].id => i = j
    BY <1>1, <1>5, <2>1, <2>4
  <2> QED BY <2>3, <2>5 DEF AskedIds, Used
<1>9. AnsweredIds'
  BY <1>1, <1>2, <1>4, <1>5, IdParts DEF AnsweredIds, Used
<1>10. AttachedIds'
  <2>1. \A t \in Tabs : attached[t] # None =>
          /\ attached[t] <= sequence' /\ attached[t] # sequence'
          /\ \A k \in tasks : k.id # attached[t]
          /\ \A i \in DOMAIN Asked : Asked[i].id # attached[t]
    BY <1>2, IdParts DEF AttachedIds, TypeOK, Used
  <2>2. \A t \in Tabs, i \in DOMAIN Asked' : attached[t] # None => Asked'[i].id # attached[t]
    BY <1>1, <1>5, <2>1
  <2> QED BY <1>1, <2>1, <2>2 DEF AttachedIds, Used
<1> QED BY <1>6, <1>7, <1>8, <1>9, <1>10, IdParts

\* Ids may go.
LEMMA FewerIds ==
  ASSUME IdInv, PendingShrinks, AttachedShrinks, tasks' \subseteq tasks,
         UNCHANGED <<sequence, Asked, Answered>>
  PROVE  IdInv'
<1>1. PendingIds'
  BY IdParts DEF PendingIds, PendingShrinks, Used
<1>2. TaskIds' /\ AskedIds' /\ AnsweredIds' /\ AttachedIds'
  BY IdParts DEF TaskIds, AskedIds, AnsweredIds, AttachedIds, AttachedShrinks, Used
<1> QED BY <1>1, <1>2, IdParts

\* A reply is taken.
LEMMA TakenIds ==
  ASSUME TypeOK, LinkInv, IdInv, PendingShrinks, Answered # <<>>, Answered' = Tail(Answered),
         UNCHANGED <<sequence, Asked, tasks, attached>>
  PROVE  IdInv'
<1>1. Answered \in Seq(Reply)
  BY OnLink
<1>2. \A i \in DOMAIN Answered' : i \in Nat \ {0} /\ i + 1 \in DOMAIN Answered
                                  /\ Answered'[i] = Answered[i + 1]
  BY <1>1, Tails
<1>3. PendingIds'
  BY IdParts DEF PendingIds, PendingShrinks, Used
<1>4. TaskIds' /\ AskedIds' /\ AttachedIds'
  BY IdParts DEF TaskIds, AskedIds, AttachedIds, Used
<1>5. AnsweredIds'
  <2> SUFFICES ASSUME NEW i \in DOMAIN Answered', Answered'[i].id # None
               PROVE  /\ Used(Answered'[i].id)
                      /\ \A k \in tasks : k.id # Answered'[i].id
                      /\ \A j \in DOMAIN Asked : Asked[j].id # Answered'[i].id
                      /\ \A j \in DOMAIN Answered' : Answered'[j].id = Answered'[i].id => i = j
    BY DEF AnsweredIds, Used
  <2>1. /\ Used(Answered'[i].id)
        /\ \A k \in tasks : k.id # Answered'[i].id
        /\ \A j \in DOMAIN Asked : Asked[j].id # Answered'[i].id
    BY <1>2, IdParts DEF AnsweredIds
  <2>2. \A j \in DOMAIN Answered' : Answered'[j].id = Answered'[i].id => i + 1 = j + 1
    BY <1>2, IdParts DEF AnsweredIds
  <2> QED BY <1>2, <2>1, <2>2
<1> QED BY <1>3, <1>4, <1>5, IdParts

\* A command is taken and answered, or becomes a task.
LEMMA CommandedIds ==
  ASSUME TypeOK, LinkInv, IdInv, Commanded
  PROVE  IdInv'
<1> DEFINE m == Head(toExtension[link])
           k(p) == [id |-> m.id, tab |-> m.tab, on |-> link, pc |-> p]
           reply == [id |-> m.id, ok |-> FALSE, tab |-> m.tab]
<1>1. link \in Links /\ link # 0 /\ open /\ Asked = toExtension[link] /\ Asked # <<>>
      /\ Asked \in Seq(Request) /\ Answered \in Seq(Reply)
  BY OnLink DEF Commanded, LinkInv
<1>2. /\ m \in Request /\ 1 \in DOMAIN Asked /\ Asked[1] = m
      /\ \A i \in DOMAIN Tail(Asked) :
           i \in Nat \ {0} /\ i + 1 \in DOMAIN Asked /\ Tail(Asked)[i] = Asked[i + 1]
  BY <1>1, Tails
<1>3. Asked' = Tail(Asked)
  BY <1>1 DEF Commanded, Asked, TypeOK
<1>4. /\ UNCHANGED <<pending, sequence, link>>
      /\ \/ \E p \in {"loading", "detaching"} : tasks' = tasks \cup {k(p)} /\ UNCHANGED toService
         \/ UNCHANGED tasks /\ Replies(link, reply)
  BY DEF Commanded, service
<1>5. AttachedShrinks
  BY DEF Commanded, AttachedShrinks, TypeOK
<1>6. reply \in Reply /\ m.id \in Calls /\ reply.id = m.id /\ m.id # None
  BY <1>2, BridgeAssumption DEF Request, Reply
<1>7. \/ \E j : tasks' = tasks \cup {j} /\ j.id = m.id /\ Answered' = Answered
      \/ UNCHANGED tasks /\ Answered' = Append(Answered, reply)
  <2>1. CASE \E p \in {"loading", "detaching"} : tasks' = tasks \cup {k(p)} /\ UNCHANGED toService
    <3>1. Answered' = Answered
      BY <1>4, <2>1 DEF Answered
    <3>2. \A p : k(p).id = m.id
      OBVIOUS
    <3> QED BY <2>1, <3>1, <3>2
  <2>2. CASE UNCHANGED tasks /\ Replies(link, reply)
    BY <1>1, <1>4, <1>6, <2>2, Replying
  <2> QED BY <1>4, <2>1, <2>2
<1> HIDE DEF m, k, reply
<1>8. /\ Used(m.id)
      /\ \A j \in tasks : j.id # m.id
      /\ \A i \in DOMAIN Answered : Answered[i].id # m.id
      /\ \A t \in Tabs : attached[t] # m.id
      /\ \A i \in DOMAIN Asked' : Asked'[i].id # m.id
  <2>1. \A i \in DOMAIN Asked' : i + 1 # 1
    BY <1>2, <1>3
  <2> QED BY <1>2, <1>3, <1>6, <2>1, IdParts DEF AskedIds, AnsweredIds, AttachedIds
<1>9. \A i \in DOMAIN Asked' : \E n \in DOMAIN Asked : n = i + 1 /\ Asked'[i] = Asked[n]
  BY <1>2, <1>3
<1>10. PendingIds'
  BY <1>4, IdParts DEF PendingIds, Used
<1>11. TaskIds'
  BY <1>4, <1>7, <1>8, IdParts DEF TaskIds, Used
<1>12. AskedIds'
  <2>1. \A i \in DOMAIN Asked' : Asked'[i].id <= sequence' /\ \A j \in tasks' : j.id # Asked'[i].id
    <3>1. \A i \in DOMAIN Asked' : Asked'[i].id <= sequence' /\ \A j \in tasks : j.id # Asked'[i].id
      BY <1>4, <1>9, IdParts DEF AskedIds, Used
    <3> QED BY <1>7, <1>8, <3>1
  <2>2. \A i, j \in DOMAIN Asked' : Asked'[i].id = Asked'[j].id => i + 1 = j + 1
    <3>1. \A i, j \in DOMAIN Asked : Asked[i].id = Asked[j].id => i = j
      BY IdParts DEF AskedIds
    <3> QED BY <1>9, <3>1
  <2>3. \A i, j \in DOMAIN Asked' : Asked'[i].id = Asked'[j].id => i = j
    <3>1. \A i \in DOMAIN Asked' : i \in Nat
      BY <1>2, <1>3
    <3> QED BY <2>2, <3>1
  <2> QED BY <2>1, <2>3 DEF AskedIds, Used
<1>13. AttachedIds'
  BY <1>4, <1>5, <1>7, <1>8, <1>9, IdParts DEF AttachedIds, AttachedShrinks, Used
<1>14. AnsweredIds'
  <2>1. CASE Answered' = Answered /\ \E j : tasks' = tasks \cup {j} /\ j.id = m.id
    BY <1>4, <1>8, <1>9, <2>1, IdParts DEF AnsweredIds, Used
  <2>2. CASE UNCHANGED tasks /\ Answered' = Append(Answered, reply)
    <3>1. /\ \A i \in DOMAIN Answered' : \/ i \in DOMAIN Answered /\ Answered'[i] = Answered[i]
                                         \/ i = Len(Answered) + 1 /\ Answered'[i] = reply
      BY <1>1, <1>6, <2>2, Appends
    <3> QED BY <1>4, <1>6, <1>8, <1>9, <2>2, <3>1, IdParts DEF AnsweredIds, Used
  <2> QED BY <1>7, <2>1, <2>2
<1> QED BY <1>10, <1>11, <1>12, <1>13, <1>14, IdParts

\* A task ends, with or without an answer; an attach may take its tab.
LEMMA EndedIds ==
  ASSUME TypeOK, LinkInv, IdInv, NEW k \in tasks, NEW ok \in BOOLEAN, Ends(k, ok),
         UNCHANGED <<pending, sequence, link, toExtension>>,
         \A t \in Tabs : attached'[t] \in {attached[t], k.id}
  PROVE  IdInv'
<1> DEFINE m == [id |-> k.id, ok |-> ok, tab |-> k.tab]
<1>1. k \in Task /\ m \in Reply /\ m.id = k.id /\ Answered \in Seq(Reply) /\ tasks' = tasks \ {k}
      /\ k.id # None
  BY OnLink, BridgeAssumption DEF TypeOK, Task, Reply, Ends
<1>2. Asked' = Asked /\ (Answered' = Answered \/ Answered' = Append(Answered, m))
  BY <1>1, Replying DEF Ends, Asked
<1> HIDE DEF m
<1>3. \A i \in DOMAIN Answered' : \/ i \in DOMAIN Answered /\ Answered'[i] = Answered[i]
                                  \/ i = Len(Answered) + 1 /\ Answered'[i] = m
  BY <1>1, <1>2, Appends
<1>4. \A j \in tasks' : j.id # k.id
  BY <1>1, IdParts DEF TaskIds
<1>5. /\ Used(k.id)
      /\ \A i \in DOMAIN Answered : Answered[i].id # k.id
      /\ \A i \in DOMAIN Asked : Asked[i].id # k.id
  BY <1>1, IdParts DEF TaskIds, AnsweredIds, AskedIds
<1>6. PendingIds' /\ TaskIds' /\ AskedIds'
  BY <1>1, <1>2, IdParts DEF PendingIds, TaskIds, AskedIds, Used
<1>7. AttachedIds'
  BY <1>1, <1>2, <1>4, <1>5, IdParts DEF AttachedIds, Used
<1>8. AnsweredIds'
  BY <1>1, <1>2, <1>3, <1>4, <1>5, IdParts DEF AnsweredIds, Used
<1> QED BY <1>6, <1>7, <1>8, IdParts

\* The other frames of the steps.
LEMMA Received ==
  ASSUME TypeOK, LinkInv, IdInv, Receives, NEW m, m = Head(Answered)
  PROVE  /\ extension = link /\ Answered # <<>> /\ Answered' = Tail(Answered) /\ Asked' = Asked
         /\ Answered \in Seq(Reply) /\ m \in Reply
         /\ PendingShrinks
         /\ \A c \in Callers : pending[c] # m.id => pending'[c] = pending[c] /\ caller'[c] = caller[c]
         /\ \/ UNCHANGED <<pending, caller>> /\ \A t \in Tabs : tabs'[t].id = tabs[t].id
            \/ /\ UNCHANGED <<pending, caller, tabs>>
               /\ m.id # None /\ \A c \in Callers : pending[c] # m.id
            \/ \E c \in Callers :
                 /\ pending[c] = m.id /\ m.id # None
                 /\ IF caller[c].pc = "attaching" /\ m.ok /\ tabs[TabOf[c]].id = None
                    THEN tabs' = [tabs EXCEPT ![TabOf[c]] = [id |-> m.id, socket |-> FALSE]]
                    ELSE UNCHANGED tabs
<1>1. extension = link /\ link \in Links /\ link # 0 /\ Answered = toService[extension]
      /\ Answered # <<>> /\ Answered \in Seq(Reply) /\ link' = link
  BY OnLink DEF Receives, browser
<1>2. Answered' = Tail(Answered) /\ Asked' = Asked
  BY <1>1 DEF Receives, Answered, Asked, TypeOK
<1>3. m \in Reply /\ m = Head(toService[extension])
  BY <1>1, Tails
<1>4. CASE m.id = None
  <2>1. UNCHANGED <<pending, caller>> /\ tabs' = [tabs EXCEPT ![m.tab].socket = FALSE]
    BY <1>3, <1>4 DEF Receives
  <2>2. \A t \in Tabs : tabs'[t].id = tabs[t].id
    <3>1. m.tab \in Tabs /\ tabs[m.tab] \in [id : Calls \cup {None}, socket : BOOLEAN]
      BY <1>3 DEF Reply, TypeOK
    <3> QED BY <2>1, <3>1 DEF TypeOK
  <2> QED BY <1>1, <1>2, <1>3, <2>1, <2>2 DEF PendingShrinks
<1>5. CASE m.id # None /\ \A c \in Callers : pending[c] # m.id
  <2>1. UNCHANGED <<pending, caller, tabs>>
    BY <1>3, <1>5 DEF Receives
  <2> QED BY <1>1, <1>2, <1>3, <1>5, <2>1 DEF PendingShrinks
<1>6. CASE m.id # None /\ \E c \in Callers : pending[c] = m.id
  <2>1. PICK c \in Callers :
          /\ pending[c] = m.id
          /\ pending' = [pending EXCEPT ![c] = None]
          /\ IF caller[c].pc = "attaching" /\ m.ok /\ tabs[TabOf[c]].id = None
             THEN /\ tabs' = [tabs EXCEPT ![TabOf[c]] = [id |-> m.id, socket |-> FALSE]]
                  /\ caller' = [caller EXCEPT ![c] = [pc |-> "connecting", id |-> m.id]]
             ELSE caller' = Idle(c) /\ UNCHANGED tabs
    BY <1>3, <1>6 DEF Receives
  <2>2. \A d \in Callers : pending[d] # m.id => pending'[d] = pending[d] /\ caller'[d] = caller[d]
    BY <2>1 DEF Idle, TypeOK
  <2>3. PendingShrinks
    BY <2>1 DEF PendingShrinks, TypeOK
  <2>4. /\ pending[c] = m.id /\ m.id # None
        /\ IF caller[c].pc = "attaching" /\ m.ok /\ tabs[TabOf[c]].id = None
           THEN tabs' = [tabs EXCEPT ![TabOf[c]] = [id |-> m.id, socket |-> FALSE]]
           ELSE UNCHANGED tabs
    BY <1>6, <2>1
  <2> QED BY <1>1, <1>2, <1>3, <2>2, <2>3, <2>4
<1> QED BY <1>4, <1>5, <1>6

\* What the steps of callers that wait for nothing do to the link: nothing, or
\* a call for a detach.
LEMMA Detached ==
  ASSUME TypeOK, LinkInv, NEW c \in Callers,
         CdpConnects(c) \/ OpenReturns(c) \/ OpenFails(c) \/ Release(c)
  PROVE  /\ pending[c] = None /\ UNCHANGED <<extension, toService, browser, late>>
         /\ \A d \in Callers : d # c => caller'[d] = caller[d]
         /\ \/ UNCHANGED <<sequence, pending, toExtension>>
            \/ extension # 0 /\ Call(c, "detach")
<1>1. pending[c] = None
  BY DEF CdpConnects, OpenReturns, OpenFails, Release, TypeOK
<1>2. UNCHANGED <<extension, toService, browser, late>>
  BY DEF CdpConnects, OpenReturns, OpenFails, Release
<1>3. \E i : \E r : caller' = [caller EXCEPT ![i] = r] /\ i = c
  BY DEF CdpConnects, OpenReturns, OpenFails, Release, CallDetach, Idle, At
<1>4. \A d \in Callers : d # c => caller'[d] = caller[d]
  BY <1>3 DEF TypeOK
<1>5. \/ UNCHANGED <<sequence, pending, toExtension>>
      \/ extension # 0 /\ Call(c, "detach")
  BY DEF CdpConnects, OpenReturns, OpenFails, Release, CallDetach
<1> QED BY <1>1, <1>2, <1>4, <1>5

LEMMA Connected ==
  ASSUME TypeOK, LinkInv, Connect
  PROVE  /\ Asked' = <<>> /\ Answered' = <<>> /\ tasks' = {} /\ Nobody' /\ link' # 0
         /\ \A c \in Callers : pending'[c] = None
<1>1. link' = link + 1 /\ link' # 0 /\ link' \in Links /\ link' > link
  BY OnLink, BridgeAssumption DEF Connect, Links
<1>2. Asked' = <<>> /\ Answered' = <<>>
  BY <1>1 DEF Connect, LinkInv, Asked, Answered
<1> QED BY <1>1, <1>2 DEF Connect, LinkInv, Nobody, Reset

LEMMA Noticed ==
  ASSUME TypeOK, LinkInv, NEW t \in Tabs, NoticeActs(t)
  PROVE  /\ UNCHANGED <<service, toExtension, link, open, tasks, late>>
         /\ AttachedShrinks /\ Asked' = Asked /\ Answered \in Seq(Reply)
         /\ \E m \in Reply : m.id = None /\ (Answered' = Answered \/ Answered' = Append(Answered, m))
<1>1. [id |-> None, ok |-> TRUE, tab |-> t] \in Reply /\ Answered \in Seq(Reply)
  BY OnLink DEF Reply
<1>2. Answered' = Answered \/ Answered' = Append(Answered, [id |-> None, ok |-> TRUE, tab |-> t])
  BY <1>1, Replying DEF NoticeActs, Answered
<1>3. AttachedShrinks
  BY DEF NoticeActs, AttachedShrinks, TypeOK
<1> QED BY <1>1, <1>2, <1>3 DEF NoticeActs, Asked

\* A task goes on: the same call, at another await.
LEMMA Moved ==
  ASSUME TypeOK, NEW k \in tasks, AttachDebugs(k) \/ AttachUndoes(k)
  PROVE  /\ UNCHANGED <<service, toExtension, toService, link, open, attached, late, Asked, Answered>>
         /\ k.pc \in {"loading", "targets"}
         /\ \E j : /\ tasks' = (tasks \ {k}) \cup {j}
                   /\ j.id = k.id /\ j.tab = k.tab
<1>1. PICK p \in {"targets", "undoing"} : tasks' = (tasks \ {k}) \cup {[k EXCEPT !.pc = p]}
  BY DEF AttachDebugs, AttachUndoes
<1>2. [k EXCEPT !.pc = p].id = k.id /\ [k EXCEPT !.pc = p].tab = k.tab
  BY DEF TypeOK, Task
<1> QED BY <1>1, <1>2 DEF AttachDebugs, AttachUndoes, Asked, Answered

\* A task ends; an attach that succeeded takes its tab first.
LEMMA Ended ==
  ASSUME TypeOK, LinkInv, NEW k \in tasks, AttachRefused(k) \/ AttachTakes(k) \/ CommandEnds(k)
  PROVE  /\ UNCHANGED <<service, toExtension, link, open, late, Asked>>
         /\ \E ok \in BOOLEAN :
              /\ Ends(k, ok)
              /\ \/ AttachTakes(k) /\ ok = TRUE /\ open /\ k.pc = "targets"
                    /\ \A t \in Tabs : attached'[t] = IF t = k.tab THEN k.id ELSE attached[t]
                 \/ UNCHANGED attached /\ (ok = TRUE => k.pc = "detaching")
<1>1. UNCHANGED <<service, toExtension, link, open, late, Asked>>
  BY DEF AttachRefused, AttachTakes, CommandEnds, Asked
<1>2. CASE AttachRefused(k)
  BY <1>1, <1>2 DEF AttachRefused
<1>3. CASE AttachTakes(k)
  BY <1>1, <1>3 DEF AttachTakes, TypeOK
<1>4. CASE CommandEnds(k)
  <2>1. (k.pc = "detaching") \in BOOLEAN
    OBVIOUS
  <2> QED BY <1>1, <1>4, <2>1 DEF CommandEnds
<1> QED BY <1>2, <1>3, <1>4

LEMMA IdStep ==
  ASSUME TypeOK, LinkInv, IdInv, Next
  PROVE  IdInv'
<1>1. CASE Receives
  <2>1. UNCHANGED <<sequence, tasks, attached>>
    BY <1>1 DEF Receives, browser
  <2> QED BY <1>1, <2>1, Received, TakenIds
<1>2. CASE ServiceLosesLink
  <2>1. PendingShrinks
    BY <1>2 DEF ServiceLosesLink, Reset, PendingShrinks
  <2> QED BY <1>2, <2>1, FewerIds DEF ServiceLosesLink, Reset, browser, AttachedShrinks, Asked, Answered
<1>3. ASSUME NEW c \in Callers, OpenAttaches(c) PROVE IdInv'
  BY <1>3, CallIds DEF OpenAttaches, browser
<1>4. ASSUME NEW c \in Callers, CallTimesOut(c) PROVE IdInv'
  <2>1. PendingShrinks
    BY <1>4 DEF CallTimesOut, PendingShrinks, TypeOK
  <2> QED BY <1>4, <2>1, FewerIds DEF CallTimesOut, browser, AttachedShrinks, Asked, Answered
<1>5. ASSUME NEW c \in Callers, CdpConnects(c) \/ OpenReturns(c) \/ OpenFails(c) \/ Release(c)
      PROVE  IdInv'
  <2>1. CASE extension # 0 /\ Call(c, "detach")
    BY <1>5, <2>1, Detached, CallIds DEF browser
  <2>2. CASE UNCHANGED <<sequence, pending, toExtension>>
    BY <1>5, <2>2, Detached, FewerIds DEF browser, PendingShrinks, AttachedShrinks, Asked, Answered
  <2> QED BY <1>5, <2>1, <2>2, Detached
<1>6. CASE Connect
  <2>1. DOMAIN <<>> = {}
    OBVIOUS
  <2>2. /\ DOMAIN Asked' = {} /\ DOMAIN Answered' = {} /\ tasks' = {}
        /\ \A t \in Tabs : attached'[t] = None
        /\ \A c \in Callers : pending'[c] = None
    BY <1>6, <2>1, Connected DEF Nobody
  <2>3. PendingIds' /\ TaskIds' /\ AskedIds' /\ AnsweredIds' /\ AttachedIds'
    BY <2>2 DEF PendingIds, TaskIds, AskedIds, AnsweredIds, AttachedIds
  <2> QED BY <2>3, IdParts
<1>7. CASE Commanded
  BY <1>7, CommandedIds
<1>8. ASSUME NEW k \in tasks, AttachRefused(k) \/ AttachTakes(k) \/ CommandEnds(k) PROVE IdInv'
  <2>1. PICK ok \in BOOLEAN : Ends(k, ok) /\ \A t \in Tabs : attached'[t] \in {attached[t], k.id}
    BY <1>8, Ended
  <2>2. UNCHANGED <<pending, sequence, link, toExtension>>
    BY <1>8, Ended DEF service
  <2> QED BY <2>1, <2>2, EndedIds
<1>9. ASSUME NEW k \in tasks, AttachDebugs(k) \/ AttachUndoes(k) PROVE IdInv'
  <2>1. PICK j : tasks' = (tasks \ {k}) \cup {j} /\ j.id = k.id /\ j.tab = k.tab
    BY <1>9, Moved
  <2>2. UNCHANGED <<pending, sequence, attached, Asked, Answered>>
    BY <1>9, Moved DEF service
  <2>3. PendingIds' /\ TaskIds' /\ AskedIds'
    BY <2>1, <2>2, IdParts DEF PendingIds, TaskIds, AskedIds, Used
  <2>4. AnsweredIds' /\ AttachedIds'
    BY <2>1, <2>2, IdParts DEF AnsweredIds, AttachedIds, Used
  <2> QED BY <2>3, <2>4, IdParts
<1>10. CASE ExtensionLosesLink
  BY <1>10, FewerIds DEF ExtensionLosesLink, service, PendingShrinks, AttachedShrinks, Asked, Answered
<1>11. CASE CleansUp
  <2>1. AttachedShrinks
    BY <1>11 DEF CleansUp, AttachedShrinks
  <2> QED BY <1>11, <2>1, FewerIds DEF CleansUp, service, PendingShrinks, Asked, Answered
<1>12. ASSUME NEW t \in Tabs, Cancelled(t) \/ NoticeReads(t) PROVE IdInv'
  BY <1>12, FewerIds DEF Cancelled, NoticeReads, service, PendingShrinks, AttachedShrinks, Asked, Answered
<1>13. ASSUME NEW t \in Tabs, NoticeActs(t) PROVE IdInv'
  <2>1. PICK m \in Reply : m.id = None /\ (Answered' = Answered \/ Answered' = Append(Answered, m))
    BY <1>13, Noticed
  <2>2. Answered \in Seq(Reply) /\ UNCHANGED <<pending, sequence, tasks, Asked>> /\ AttachedShrinks
    BY <1>13, Noticed DEF service
  <2>3. \A i \in DOMAIN Answered' : \/ i \in DOMAIN Answered /\ Answered'[i] = Answered[i]
                                    \/ Answered'[i] = m
    BY <2>1, <2>2, Appends
  <2>4. PendingIds' /\ TaskIds' /\ AskedIds' /\ AttachedIds'
    BY <2>2, IdParts DEF PendingIds, TaskIds, AskedIds, AttachedIds, AttachedShrinks, Used
  <2>5. AnsweredIds'
    BY <2>1, <2>2, <2>3, IdParts DEF AnsweredIds, Used
  <2> QED BY <2>4, <2>5, IdParts
<1> QED BY <1>1, <1>2, <1>3, <1>4, <1>5, <1>6, <1>7, <1>8, <1>9, <1>10, <1>11, <1>12, <1>13
        DEF Next, ServiceStep, ExtensionStep

-----------------------------------------------------------------------------
(* Who waits for an attachment.                                            *)

\* Awaited in the next state.
AwaitedNext(i, t) ==
  i \in late' \/ \E c \in Callers :
    pending'[c] = i /\ caller'[c].pc = "attaching" /\ TabOf[c] = t

LEMMA WaitNext ==
  ASSUME \A i \in DOMAIN Asked' :
           Asked'[i].method = "attach" => AwaitedNext(Asked'[i].id, Asked'[i].tab),
         \A k \in tasks' : k.pc \in {"loading", "targets"} => AwaitedNext(k.id, k.tab),
         \A t \in Tabs : \A i \in DOMAIN Answered' :
           attached'[t] # None /\ Answered'[i].id = attached'[t] /\ Answered'[i].ok =>
             AwaitedNext(attached'[t], t)
  PROVE  WaitInv'
BY DEF WaitInv, Awaited, AwaitedNext

\* What the queues hold.
LEMMA Places ==
  ASSUME TypeOK, LinkInv
  PROVE  /\ \A i \in DOMAIN Asked : Asked[i] \in Request
         /\ \A i \in DOMAIN Answered : Answered[i] \in Reply
         /\ \A k \in tasks : k \in Task
BY OnLink, Elements DEF TypeOK

\* Whoever waits goes on waiting, or gave up after 60 s.
LEMMA StillAwaited ==
  ASSUME late \subseteq late', NEW i,
         \A c \in Callers : pending[c] = i /\ caller[c].pc = "attaching" =>
           \/ pending'[c] = pending[c] /\ caller'[c] = caller[c]
           \/ i \in late'
  PROVE  \A t : Awaited(i, t) => AwaitedNext(i, t)
BY DEF Awaited, AwaitedNext

LEMMA CallWaits ==
  ASSUME TypeOK, LinkInv, IdInv, WaitInv, extension # 0, NEW c \in Callers, pending[c] = None,
         NEW m \in {"attach", "detach"}, Call(c, m),
         UNCHANGED <<extension, toService, link, tasks, attached, late>>,
         \A d \in Callers : d # c => caller'[d] = caller[d],
         m = "attach" => caller'[c].pc = "attaching"
  PROVE  WaitInv'
<1> DEFINE r == [id |-> sequence + 1, method |-> m, tab |-> TabOf[c]]
<1>1. /\ pending' = [pending EXCEPT ![c] = sequence'] /\ sequence' \in Calls
      /\ r \in Request /\ r.id = sequence' /\ r.method = m /\ r.tab = TabOf[c]
      /\ Asked' = Append(Asked, r) /\ Answered' = Answered /\ Asked \in Seq(Request)
  BY Calling, OnLink
<1> HIDE DEF r
<1>2. \A d \in Callers : pending'[d] = IF d = c THEN sequence' ELSE pending[d]
  BY <1>1 DEF TypeOK
<1>3. \A i \in Calls : \A t : Awaited(i, t) => AwaitedNext(i, t)
  <2> SUFFICES ASSUME NEW i \in Calls PROVE \A t : Awaited(i, t) => AwaitedNext(i, t)
    OBVIOUS
  <2>1. \A d \in Callers : pending[d] = i => d # c
    BY BridgeAssumption
  <2> QED BY <1>2, <2>1, StillAwaited
<1>4. m = "attach" => AwaitedNext(sequence', TabOf[c])
  BY <1>2 DEF AwaitedNext
<1>5. ASSUME NEW i \in DOMAIN Asked', Asked'[i].method = "attach"
      PROVE  AwaitedNext(Asked'[i].id, Asked'[i].tab)
  <2>1. CASE i \in DOMAIN Asked /\ Asked'[i] = Asked[i]
    <3>1. Asked[i].id \in Calls /\ Awaited(Asked[i].id, Asked[i].tab)
      BY <1>5, <2>1, Places DEF WaitInv, Request
    <3> QED BY <1>3, <2>1, <3>1
  <2>2. CASE Asked'[i] = r
    BY <1>1, <1>4, <1>5, <2>2
  <2> QED BY <1>1, <2>1, <2>2, Appends
<1>6. ASSUME NEW k \in tasks', k.pc \in {"loading", "targets"} PROVE AwaitedNext(k.id, k.tab)
  BY <1>3, <1>6, Places DEF WaitInv, Task
<1>7. ASSUME NEW t \in Tabs, NEW i \in DOMAIN Answered', attached'[t] # None,
             Answered'[i].id = attached'[t], Answered'[i].ok
      PROVE  AwaitedNext(attached'[t], t)
  <2>1. attached[t] \in Calls /\ Awaited(attached[t], t)
    BY <1>1, <1>7 DEF WaitInv, TypeOK
  <2> QED BY <1>3, <2>1
<1> QED BY <1>5, <1>6, <1>7, WaitNext

\* Nobody hears of the steps of the extension at once.
LEMMA ServiceWaits ==
  ASSUME UNCHANGED <<service, late>>
  PROVE  \A i, t : Awaited(i, t) => AwaitedNext(i, t)
BY DEF service, Awaited, AwaitedNext

\* A call that gives up, or that has its reply, ends nobody else's wait.
EndsWait(x) ==
  \A i \in Calls : i # x => \A t : Awaited(i, t) => AwaitedNext(i, t)

LEMMA SameWaits ==
  ASSUME TypeOK, LinkInv, WaitInv, extension # 0,
         UNCHANGED <<Asked, tasks, attached>>,
         \A i \in DOMAIN Answered' : \E j \in DOMAIN Answered : Answered'[i] = Answered[j],
         NEW x, EndsWait(x),
         x \in Calls => /\ \A i \in DOMAIN Asked : Asked[i].id # x
                        /\ \A k \in tasks : k.id # x
                        /\ \A i \in DOMAIN Answered' : Answered'[i].id # x
  PROVE  WaitInv'
<1>1. ASSUME NEW i \in DOMAIN Asked, Asked[i].method = "attach"
      PROVE  AwaitedNext(Asked[i].id, Asked[i].tab)
  <2>1. Asked[i].id \in Calls
    BY Places DEF Request
  <2> QED BY <1>1, <2>1 DEF WaitInv, EndsWait
<1>2. ASSUME NEW k \in tasks, k.pc \in {"loading", "targets"} PROVE AwaitedNext(k.id, k.tab)
  <2>1. k.id \in Calls
    BY Places DEF Task
  <2> QED BY <1>2, <2>1 DEF WaitInv, EndsWait
<1>3. ASSUME NEW t \in Tabs, NEW i \in DOMAIN Answered', attached[t] # None,
             Answered'[i].id = attached[t], Answered'[i].ok
      PROVE  AwaitedNext(attached[t], t)
  <2>1. attached[t] \in Calls /\ Awaited(attached[t], t)
    BY <1>3 DEF WaitInv, TypeOK
  <2> QED BY <1>3, <2>1 DEF EndsWait
<1> QED BY <1>1, <1>2, <1>3, WaitNext

LEMMA WaitStep ==
  ASSUME TypeOK, LinkInv, IdInv, WaitInv, Next
  PROVE  WaitInv'
<1>1. CASE Receives
  <2> DEFINE m == Head(Answered)
  <2>1. /\ extension = link /\ extension # 0 /\ Answered # <<>> /\ Answered' = Tail(Answered)
        /\ Answered \in Seq(Reply) /\ m \in Reply
        /\ \A c \in Callers : pending[c] # m.id => pending'[c] = pending[c] /\ caller'[c] = caller[c]
    BY <1>1, Received DEF Receives
  <2>2. UNCHANGED <<Asked, tasks, attached, late>>
    BY <1>1, Received DEF Receives, browser
  <2>3. /\ 1 \in DOMAIN Answered /\ Answered[1] = m
        /\ \A i \in DOMAIN Answered' : /\ i \in Nat \ {0} /\ i + 1 \in DOMAIN Answered
                                       /\ Answered'[i] = Answered[i + 1]
    BY <2>1, Tails
  <2> HIDE DEF m
  <2>4. EndsWait(m.id)
    BY <2>1, <2>2, StillAwaited DEF EndsWait
  <2>5. CASE m.id = None
    <3>1. m.id \notin Calls
      BY <2>5, BridgeAssumption
    <3> QED BY <2>1, <2>2, <2>3, <2>4, <3>1, SameWaits
  <2>6. CASE m.id # None
    <3>1. \A i \in DOMAIN Asked : Asked[i].id # m.id
      BY <2>3, <2>6, IdParts DEF AnsweredIds
    <3>2. \A k \in tasks : k.id # m.id
      BY <2>3, <2>6, IdParts DEF AnsweredIds
    <3>3. \A i \in DOMAIN Answered' : Answered'[i].id # m.id
      <4>1. \A i \in DOMAIN Answered' : i + 1 # 1 /\ i + 1 \in DOMAIN Answered
        BY <2>3
      <4> QED BY <2>3, <2>6, <4>1, IdParts DEF AnsweredIds
    <3> QED BY <2>1, <2>2, <2>3, <2>4, <3>1, <3>2, <3>3, SameWaits
  <2> QED BY <2>5, <2>6
<1>2. CASE ServiceLosesLink
  BY <1>2 DEF ServiceLosesLink, Reset, WaitInv
<1>3. ASSUME NEW c \in Callers, OpenAttaches(c) PROVE WaitInv'
  <2>1. pending[c] = None /\ caller' = [caller EXCEPT ![c].pc = "attaching"]
    BY <1>3 DEF OpenAttaches, At, TypeOK
  <2>2. caller'[c].pc = "attaching" /\ \A d \in Callers : d # c => caller'[d] = caller[d]
    BY <2>1 DEF TypeOK
  <2> QED BY <1>3, <2>1, <2>2, CallWaits DEF OpenAttaches, browser
<1>4. ASSUME NEW c \in Callers, CallTimesOut(c) PROVE WaitInv'
  <2>1. \A d \in Callers : d # c => pending'[d] = pending[d] /\ caller'[d] = caller[d]
    BY <1>4 DEF CallTimesOut, Idle, TypeOK
  <2>2. late \subseteq late' /\ (caller[c].pc = "attaching" => pending[c] \in late')
        /\ UNCHANGED <<extension, Asked, Answered, tasks, attached>>
    BY <1>4 DEF CallTimesOut, browser, Asked, Answered
  <2>3. EndsWait(None) /\ None \notin Calls
    BY <2>1, <2>2, StillAwaited, BridgeAssumption DEF EndsWait
  <2>4. CASE extension = 0
    BY <2>2, <2>4 DEF WaitInv
  <2>5. CASE extension # 0
    BY <2>2, <2>3, <2>5, SameWaits
  <2> QED BY <2>4, <2>5
<1>5. ASSUME NEW c \in Callers, CdpConnects(c) \/ OpenReturns(c) \/ OpenFails(c) \/ Release(c)
      PROVE  WaitInv'
  <2>1. CASE extension # 0 /\ Call(c, "detach")
    BY <1>5, <2>1, Detached, CallWaits DEF browser
  <2>2. CASE UNCHANGED <<sequence, pending, toExtension>>
    <3>1. /\ UNCHANGED <<extension, Asked, Answered, tasks, attached, late, pending>>
          /\ pending[c] = None /\ \A d \in Callers : d # c => caller'[d] = caller[d]
      BY <1>5, <2>2, Detached DEF browser, Asked, Answered
    <3>2. EndsWait(None) /\ None \notin Calls
      <4> SUFFICES ASSUME NEW i \in Calls PROVE \A t : Awaited(i, t) => AwaitedNext(i, t)
        BY BridgeAssumption DEF EndsWait
      <4>1. \A d \in Callers : pending[d] = i => d # c
        BY <3>1, BridgeAssumption
      <4> QED BY <3>1, <4>1, StillAwaited
    <3>3. CASE extension = 0
      BY <3>1, <3>3 DEF WaitInv
    <3>4. CASE extension # 0
      BY <3>1, <3>2, <3>4, SameWaits
    <3> QED BY <3>3, <3>4
  <2> QED BY <1>5, <2>1, <2>2, Detached
<1>6. CASE Connect
  <2>1. DOMAIN <<>> = {}
    OBVIOUS
  <2>2. DOMAIN Asked' = {} /\ DOMAIN Answered' = {} /\ tasks' = {}
    BY <1>6, <2>1, Connected
  <2> QED BY <2>2 DEF WaitInv
<1>7. CASE Commanded
  <2> DEFINE m == Head(toExtension[link])
             k(p) == [id |-> m.id, tab |-> m.tab, on |-> link, pc |-> p]
             reply == [id |-> m.id, ok |-> FALSE, tab |-> m.tab]
  <2>1. link \in Links /\ link # 0 /\ open /\ Asked = toExtension[link] /\ Asked # <<>>
        /\ Asked \in Seq(Request) /\ Answered \in Seq(Reply)
    BY <1>7, OnLink DEF Commanded, LinkInv
  <2>2. /\ m \in Request /\ 1 \in DOMAIN Asked /\ Asked[1] = m
        /\ \A i \in DOMAIN Tail(Asked) :
             i \in Nat \ {0} /\ i + 1 \in DOMAIN Asked /\ Tail(Asked)[i] = Asked[i + 1]
    BY <2>1, Tails
  <2>3. Asked' = Tail(Asked) /\ UNCHANGED <<extension, link>>
        /\ \A i, t : Awaited(i, t) => AwaitedNext(i, t)
    BY <1>7, <2>1, ServiceWaits DEF Commanded, Asked, TypeOK, service
  <2>4. AttachedShrinks
    BY <1>7 DEF Commanded, AttachedShrinks, TypeOK
  <2>5. \A j \in tasks' : j \in tasks \/ (m.method = "attach" /\ j = k("loading")) \/ j = k("detaching")
    BY <1>7 DEF Commanded
  <2>6. reply \in Reply /\ reply.ok = FALSE
    BY <2>2 DEF Request, Reply
  <2>7. \A i \in DOMAIN Answered' : (i \in DOMAIN Answered /\ Answered'[i] = Answered[i]) \/ Answered'[i] = reply
    <3>1. UNCHANGED toService \/ Replies(link, reply)
      BY <1>7 DEF Commanded
    <3>2. Answered' = Answered \/ Answered' = Append(Answered, reply)
      BY <2>3, <2>6, <3>1, Replying DEF Answered
    <3> QED BY <2>1, <2>6, <3>2, Appends
  <2>8. CASE extension = 0
    BY <2>3, <2>8 DEF WaitInv
  <2>9. CASE extension # 0
    <3>1. ASSUME NEW i \in DOMAIN Asked', Asked'[i].method = "attach"
          PROVE  AwaitedNext(Asked'[i].id, Asked'[i].tab)
      BY <2>2, <2>3, <2>9, <3>1 DEF WaitInv
    <3>2. ASSUME NEW j \in tasks', j.pc \in {"loading", "targets"} PROVE AwaitedNext(j.id, j.tab)
      <4>1. CASE j \in tasks
        BY <2>3, <2>9, <3>2, <4>1 DEF WaitInv
      <4>2. CASE m.method = "attach" /\ j = k("loading")
        BY <2>2, <2>3, <2>9, <4>2 DEF WaitInv
      <4> QED BY <2>5, <3>2, <4>1, <4>2
    <3>3. ASSUME NEW t \in Tabs, NEW i \in DOMAIN Answered', attached'[t] # None,
                 Answered'[i].id = attached'[t], Answered'[i].ok
          PROVE  AwaitedNext(attached'[t], t)
      <4>1. attached'[t] = attached[t]
        BY <2>4, <3>3 DEF AttachedShrinks
      <4>2. i \in DOMAIN Answered /\ Answered'[i] = Answered[i]
        BY <2>6, <2>7, <3>3
      <4> QED BY <2>3, <2>9, <3>3, <4>1, <4>2 DEF WaitInv
    <3> QED BY <3>1, <3>2, <3>3, WaitNext
  <2> QED BY <2>8, <2>9
<1>8. ASSUME NEW k \in tasks, AttachRefused(k) \/ AttachTakes(k) \/ CommandEnds(k) PROVE WaitInv'
  <2>1. UNCHANGED <<extension, Asked>> /\ (\A i, t : Awaited(i, t) => AwaitedNext(i, t)) /\ UNCHANGED link
    BY <1>8, Ended, ServiceWaits DEF service
  <2>2. PICK ok \in BOOLEAN :
          /\ Ends(k, ok)
          /\ \/ ok = TRUE /\ k.pc = "targets"
                /\ \A t \in Tabs : attached'[t] = IF t = k.tab THEN k.id ELSE attached[t]
             \/ UNCHANGED attached /\ (ok = TRUE => k.pc = "detaching")
    BY <1>8, Ended
  <2> DEFINE m == [id |-> k.id, ok |-> ok, tab |-> k.tab]
  <2>3. k \in Task /\ m \in Reply /\ m.id = k.id /\ m.ok = ok /\ Answered \in Seq(Reply) /\ k.id \in Calls
    BY OnLink DEF TypeOK, Task, Reply
  <2>4. Answered' = Answered \/ Answered' = Append(Answered, m)
    BY <2>1, <2>2, <2>3, Replying DEF Ends
  <2> HIDE DEF m
  <2>5. \A i \in DOMAIN Answered' : (i \in DOMAIN Answered /\ Answered'[i] = Answered[i]) \/ Answered'[i] = m
    BY <2>3, <2>4, Appends
  <2>6. tasks' \subseteq tasks
    BY <2>2 DEF Ends
  <2>7. CASE extension = 0
    BY <2>1, <2>7 DEF WaitInv
  <2>8. CASE extension # 0
    <3>1. ASSUME NEW i \in DOMAIN Asked', Asked'[i].method = "attach"
          PROVE  AwaitedNext(Asked'[i].id, Asked'[i].tab)
      BY <2>1, <2>8, <3>1 DEF WaitInv
    <3>2. ASSUME NEW j \in tasks', j.pc \in {"loading", "targets"} PROVE AwaitedNext(j.id, j.tab)
      BY <2>1, <2>6, <2>8, <3>2 DEF WaitInv
    <3>3. ASSUME NEW t \in Tabs, NEW i \in DOMAIN Answered', attached'[t] # None,
                 Answered'[i].id = attached'[t], Answered'[i].ok
          PROVE  AwaitedNext(attached'[t], t)
      <4>1. CASE k.pc = "targets" /\ t = k.tab /\ attached'[t] = k.id
        BY <2>1, <2>8, <4>1 DEF WaitInv
      <4>2. CASE attached'[t] = attached[t]
        <5>1. CASE Answered'[i] = m
          \* The call of a tab that is attached is not under way.
          <6>1. attached[t] = k.id
            BY <2>3, <3>3, <4>2, <5>1
          <6> QED BY <3>3, <4>2, <6>1, IdParts DEF AttachedIds
        <5>2. CASE i \in DOMAIN Answered /\ Answered'[i] = Answered[i]
          BY <2>1, <2>8, <3>3, <4>2, <5>2 DEF WaitInv
        <5> QED BY <2>5, <5>1, <5>2
      <4> QED BY <2>2, <4>1, <4>2
    <3> QED BY <3>1, <3>2, <3>3, WaitNext
  <2> QED BY <2>7, <2>8
<1>9. ASSUME NEW k \in tasks, AttachDebugs(k) \/ AttachUndoes(k) PROVE WaitInv'
  <2>1. /\ UNCHANGED <<extension, Asked, Answered, attached>> /\ k.pc \in {"loading", "targets"}
        /\ \A i, t : Awaited(i, t) => AwaitedNext(i, t)
    BY <1>9, Moved, ServiceWaits DEF service
  <2>2. PICK j : tasks' = (tasks \ {k}) \cup {j} /\ j.id = k.id /\ j.tab = k.tab
    BY <1>9, Moved
  <2>3. CASE extension = 0
    BY <2>1, <2>3 DEF WaitInv
  <2>4. CASE extension # 0
    <3>1. \A n \in tasks' : n.pc \in {"loading", "targets"} => AwaitedNext(n.id, n.tab)
      BY <2>1, <2>2, <2>4 DEF WaitInv
    <3> QED BY <2>1, <2>4, <3>1, WaitNext DEF WaitInv
  <2> QED BY <2>3, <2>4
<1>10. ASSUME UNCHANGED <<service, late, toExtension, toService, link, tasks>>, AttachedShrinks
       PROVE  WaitInv'
  <2>1. UNCHANGED <<extension, Asked, Answered>> /\ \A i, t : Awaited(i, t) => AwaitedNext(i, t)
    BY <1>10, ServiceWaits DEF service, Asked, Answered
  <2>2. CASE extension = 0
    BY <2>1, <2>2 DEF WaitInv
  <2>3. CASE extension # 0
    <3>1. \A t \in Tabs : \A i \in DOMAIN Answered :
            attached'[t] # None /\ Answered[i].id = attached'[t] /\ Answered[i].ok =>
              AwaitedNext(attached'[t], t)
      BY <1>10, <2>1, <2>3 DEF WaitInv, AttachedShrinks
    <3> QED BY <1>10, <2>1, <2>3, <3>1, WaitNext DEF WaitInv
  <2> QED BY <2>2, <2>3
<1>11. CASE ExtensionLosesLink \/ CleansUp \/ \E t \in Tabs : Cancelled(t) \/ NoticeReads(t)
  <2>1. AttachedShrinks
    BY <1>11 DEF ExtensionLosesLink, CleansUp, Cancelled, NoticeReads, AttachedShrinks
  <2> QED BY <1>10, <1>11, <2>1 DEF ExtensionLosesLink, CleansUp, Cancelled, NoticeReads
<1>12. ASSUME NEW t \in Tabs, NoticeActs(t) PROVE WaitInv'
  <2>1. PICK m \in Reply : m.id = None /\ (Answered' = Answered \/ Answered' = Append(Answered, m))
    BY <1>12, Noticed
  <2>2. Answered \in Seq(Reply) /\ UNCHANGED <<extension, tasks, Asked>> /\ AttachedShrinks
        /\ \A i, u : Awaited(i, u) => AwaitedNext(i, u)
    BY <1>12, Noticed, ServiceWaits DEF service
  <2>3. \A i \in DOMAIN Answered' : \/ i \in DOMAIN Answered /\ Answered'[i] = Answered[i]
                                    \/ Answered'[i] = m
    BY <2>1, <2>2, Appends
  <2>4. CASE extension = 0
    BY <2>2, <2>4 DEF WaitInv
  <2>5. CASE extension # 0
    <3>1. ASSUME NEW u \in Tabs, NEW i \in DOMAIN Answered', attached'[u] # None,
                 Answered'[i].id = attached'[u], Answered'[i].ok
          PROVE  AwaitedNext(attached'[u], u)
      <4>1. attached'[u] = attached[u] /\ Answered'[i].id # None
        BY <2>2, <3>1 DEF AttachedShrinks
      <4>2. i \in DOMAIN Answered /\ Answered'[i] = Answered[i]
        BY <2>1, <2>3, <4>1
      <4> QED BY <2>2, <2>5, <3>1, <4>1, <4>2 DEF WaitInv
    <3> QED BY <2>2, <2>5, <3>1, WaitNext DEF WaitInv
  <2> QED BY <2>4, <2>5
<1> QED BY <1>1, <1>2, <1>3, <1>4, <1>5, <1>6, <1>7, <1>8, <1>9, <1>11, <1>12
        DEF Next, ServiceStep, ExtensionStep

-----------------------------------------------------------------------------
(* What accounts for an attachment.                                        *)

LEMMA CoveredNow ==
  ASSUME LinkInv, AllCovered, open, extension = link, NEW t \in Tabs, attached[t] # None
  PROVE  Covered(t)
BY DEF AllCovered

LEMMA CoveredNext ==
  ASSUME LinkInv',
         \A t \in Tabs : open' /\ extension' = link' /\ attached'[t] # None => Covered(t)'
  PROVE  AllCovered'
BY DEF AllCovered, Covered

\* What accounts for an attachment stays, as long as the service keeps it.
LEMMA StillCovered ==
  ASSUME NEW t \in Tabs, Covered(t), attached'[t] = attached[t], late \subseteq late',
         tabs'[t].id = tabs[t].id \/ tabs'[t].id # None,
         \A i \in DOMAIN Answered : \E j \in DOMAIN Answered' : Answered'[j] = Answered[i],
         \A i \in DOMAIN Asked : \E j \in DOMAIN Asked' : Asked'[j] = Asked[i]
  PROVE  Covered(t)'
BY DEF Covered

LEMMA CallCovers ==
  ASSUME TypeOK, LinkInv, extension # 0, NEW c \in Callers, NEW m \in {"attach", "detach"},
         Call(c, m), UNCHANGED <<toService, link, attached, late>>,
         NEW t \in Tabs, Covered(t),
         tabs'[t].id = tabs[t].id \/ (t = TabOf[c] /\ m = "detach")
  PROVE  Covered(t)'
<1> DEFINE r == [id |-> sequence + 1, method |-> m, tab |-> TabOf[c]]
<1>1. /\ r \in Request /\ r.method = m /\ r.tab = TabOf[c]
      /\ Asked' = Append(Asked, r) /\ Answered' = Answered /\ Asked \in Seq(Request)
  BY Calling, OnLink
<1> HIDE DEF r
<1>2. /\ Len(Asked) + 1 \in DOMAIN Asked' /\ Asked'[Len(Asked) + 1] = r
      /\ \A i \in DOMAIN Asked : i \in DOMAIN Asked' /\ Asked'[i] = Asked[i]
  BY <1>1, Appends
<1>3. CASE tabs'[t].id = tabs[t].id
  BY <1>1, <1>2, <1>3, StillCovered
<1>4. CASE t = TabOf[c] /\ m = "detach"
  BY <1>1, <1>2, <1>4 DEF Covered
<1> QED BY <1>3, <1>4

LEMMA OrphanStep ==
  ASSUME TypeOK, LinkInv, IdInv, WaitInv, AllCovered, Next
  PROVE  AllCovered'
<1>1. LinkInv'
  BY LinkStep
<1>2. SUFFICES ASSUME NEW t \in Tabs, open', extension' = link', attached'[t] # None
               PROVE  Covered(t)'
  BY <1>1, CoveredNext
<1>3. link' # 0
  BY <1>1, <1>2 DEF LinkInv
<1>4. CASE Receives
  <2> DEFINE m == Head(Answered)
  <2>1. /\ extension = link /\ Answered # <<>> /\ Answered' = Tail(Answered)
        /\ Answered \in Seq(Reply) /\ m \in Reply
        /\ \/ UNCHANGED <<pending, caller>> /\ \A u \in Tabs : tabs'[u].id = tabs[u].id
           \/ UNCHANGED tabs /\ m.id # None /\ \A c \in Callers : pending[c] # m.id
           \/ \E c \in Callers :
                /\ pending[c] = m.id /\ m.id # None
                /\ IF caller[c].pc = "attaching" /\ m.ok /\ tabs[TabOf[c]].id = None
                   THEN tabs' = [tabs EXCEPT ![TabOf[c]] = [id |-> m.id, socket |-> FALSE]]
                   ELSE UNCHANGED tabs
    BY <1>4, Received
  <2>2. UNCHANGED <<Asked, attached, late, open, link>> /\ extension # 0
    BY <1>4, Received DEF Receives, browser
  <2>3. /\ 1 \in DOMAIN Answered /\ Answered[1] = m
        /\ \A i \in DOMAIN Answered' : i \in Nat \ {0} /\ Answered'[i] = Answered[i + 1]
        /\ \A i \in DOMAIN Answered : i # 1 => \E j \in DOMAIN Answered' : i = j + 1
    BY <2>1, Tails
  <2> HIDE DEF m
  <2>4. Covered(t) /\ attached[t] # None
    BY <1>2, <2>1, <2>2, CoveredNow
  <2>5. tabs'[t].id = tabs[t].id \/ tabs'[t].id # None
    <3>1. \A c \in Callers : TabOf[c] \in Tabs
      BY BridgeAssumption
    <3> QED BY <2>1, <3>1 DEF TypeOK
  <2>6. CASE \E i \in DOMAIN Answered : i = 1 /\ Answered[i].id = attached[t] /\ Answered[i].ok
    <3>1. m.id = attached[t] /\ m.ok /\ Awaited(m.id, t)
      BY <2>2, <2>3, <2>4, <2>6 DEF WaitInv
    <3>2. CASE m.id \in late
      BY <2>2, <3>1, <3>2 DEF Covered
    <3>3. ASSUME NEW c \in Callers, pending[c] = m.id, caller[c].pc = "attaching", TabOf[c] = t
          PROVE  tabs'[t].id # None
      <4>1. m.id # None
        BY <2>4, <3>1
      <4>2. \A d \in Callers : pending[d] = m.id => d = c
        BY <3>3, <4>1, IdParts DEF PendingIds
      <4>3. CASE UNCHANGED <<pending, caller>> /\ \A u \in Tabs : tabs'[u].id = tabs[u].id
        \* A waiting caller is no longer waiting.
        <5>1. Receives /\ pending' = pending
          BY <1>4, <4>3
        <5>2. m = Head(toService[extension]) /\ extension \in Links
          BY <2>2, OnLink DEF m
        <5>3. \E d \in Callers : pending[d] = m.id /\ pending' = [pending EXCEPT ![d] = None]
          BY <3>3, <4>1, <5>1, <5>2 DEF Receives
        <5> QED BY <4>1, <4>3, <5>3 DEF TypeOK
      <4>4. CASE IF caller[c].pc = "attaching" /\ m.ok /\ tabs[TabOf[c]].id = None
                 THEN tabs' = [tabs EXCEPT ![TabOf[c]] = [id |-> m.id, socket |-> FALSE]]
                 ELSE UNCHANGED tabs
        BY <3>1, <3>3, <4>1, <4>4 DEF TypeOK
      <4> QED BY <2>1, <3>3, <4>1, <4>2, <4>3, <4>4
    <3> QED BY <3>1, <3>2, <3>3 DEF Awaited, Covered
  <2>7. CASE ~\E i \in DOMAIN Answered : i = 1 /\ Answered[i].id = attached[t] /\ Answered[i].ok
    <3>1. ASSUME NEW i \in DOMAIN Answered, Answered[i].id = attached[t], Answered[i].ok
          PROVE  \E j \in DOMAIN Answered' : Answered'[j].id = attached[t] /\ Answered'[j].ok
      BY <2>3, <2>7, <3>1
    <3> QED BY <2>2, <2>4, <2>5, <3>1 DEF Covered
  <2> QED BY <2>6, <2>7
<1>5. CASE ServiceLosesLink
  BY <1>2, <1>3, <1>5 DEF ServiceLosesLink, Reset
<1>6. ASSUME NEW c \in Callers, OpenAttaches(c) PROVE Covered(t)'
  <2>1. Covered(t)
    BY <1>2, <1>6, CoveredNow DEF OpenAttaches, browser
  <2> QED BY <1>6, <2>1, CallCovers DEF OpenAttaches, browser
<1>7. ASSUME NEW c \in Callers, CallTimesOut(c) PROVE Covered(t)'
  <2>1. Covered(t)
    BY <1>2, <1>7, CoveredNow DEF CallTimesOut, browser
  <2>2. late \subseteq late' /\ UNCHANGED <<attached, tabs, Asked, Answered>>
    BY <1>7 DEF CallTimesOut, browser, Asked, Answered
  <2> QED BY <2>1, <2>2, StillCovered
<1>8. ASSUME NEW c \in Callers, CdpConnects(c) \/ OpenReturns(c) \/ OpenFails(c) \/ Release(c)
      PROVE  Covered(t)'
  <2>1. UNCHANGED <<extension, toService, link, open, attached, late>>
    BY <1>8, Detached DEF browser
  <2>2. Covered(t) /\ extension # 0
    BY <1>2, <1>3, <2>1, CoveredNow
  <2>3. CASE tabs'[t].id = tabs[t].id
    <3>1. CASE Call(c, "detach")
      BY <2>1, <2>2, <2>3, <3>1, CallCovers
    <3>2. CASE UNCHANGED toExtension
      <4>1. UNCHANGED <<Asked, Answered>>
        BY <2>1, <3>2 DEF Asked, Answered
      <4> QED BY <2>1, <2>2, <2>3, <4>1, StillCovered
    <3> QED BY <1>8, <3>1, <3>2, Detached
  <2>4. CASE tabs'[t].id # tabs[t].id
    <3>1. t = TabOf[c] /\ Call(c, "detach")
      <4>1. CASE CdpConnects(c)
        <5>1. TabOf[c] \in Tabs /\ tabs' = [tabs EXCEPT ![TabOf[c]].socket = TRUE]
              /\ tabs[TabOf[c]] \in [id : Calls \cup {None}, socket : BOOLEAN]
          BY <4>1, BridgeAssumption DEF CdpConnects, TypeOK
        <5> QED BY <2>4, <5>1 DEF TypeOK
      <4>2. CASE OpenReturns(c)
        BY <2>4, <4>2 DEF OpenReturns
      <4>3. CASE OpenFails(c) \/ Release(c)
        <5>1. CallDetach(c) /\ tabs' = [tabs EXCEPT ![TabOf[c]] = NoTab]
          BY <2>4, <4>3 DEF OpenFails, Release
        <5> QED BY <2>2, <2>4, <5>1 DEF CallDetach, TypeOK
      <4> QED BY <1>8, <4>1, <4>2, <4>3
    <3> QED BY <2>1, <2>2, <3>1, CallCovers
  <2> QED BY <2>3, <2>4
<1>9. CASE Connect
  BY <1>2, <1>9, Connected DEF Nobody
<1>10. CASE Commanded
  <2> DEFINE m == Head(toExtension[link])
             reply == [id |-> m.id, ok |-> FALSE, tab |-> m.tab]
  <2>1. link \in Links /\ link # 0 /\ open /\ Asked = toExtension[link] /\ Asked # <<>>
        /\ Asked \in Seq(Request) /\ Answered \in Seq(Reply)
    BY <1>10, OnLink DEF Commanded, LinkInv
  <2>2. /\ m \in Request /\ 1 \in DOMAIN Asked /\ Asked[1] = m
        /\ \A i \in DOMAIN Tail(Asked) : i \in Nat \ {0} /\ Tail(Asked)[i] = Asked[i + 1]
        /\ \A i \in DOMAIN Asked : i # 1 => \E j \in DOMAIN Tail(Asked) : i = j + 1
    BY <2>1, Tails
  <2>3. Asked' = Tail(Asked) /\ UNCHANGED <<extension, link, open, tabs, late>>
    BY <1>10, <2>1 DEF Commanded, Asked, TypeOK, service
  <2>4. attached'[t] = attached[t] /\ ~(m.method = "detach" /\ m.tab = t)
    BY <1>2, <1>10 DEF Commanded, TypeOK
  <2>5. Covered(t)
    BY <1>2, <2>3, <2>4, CoveredNow
  <2>6. reply \in Reply
    BY <2>2 DEF Request, Reply
  <2>7. \A i \in DOMAIN Answered : i \in DOMAIN Answered' /\ Answered'[i] = Answered[i]
    <3>1. UNCHANGED toService \/ Replies(link, reply)
      BY <1>10 DEF Commanded
    <3>2. Answered' = Answered \/ Answered' = Append(Answered, reply)
      BY <2>3, <2>6, <3>1, Replying DEF Answered
    <3> QED BY <2>1, <2>6, <3>2, Appends
  <2> HIDE DEF m
  <2>8. ASSUME NEW i \in DOMAIN Asked, Asked[i].tab = t, Asked[i].method = "detach"
        PROVE  \E j \in DOMAIN Asked' : Asked'[j].tab = t /\ Asked'[j].method = "detach"
    BY <2>2, <2>3, <2>4, <2>8
  <2> QED BY <2>3, <2>4, <2>5, <2>7, <2>8 DEF Covered
<1>11. ASSUME NEW k \in tasks, AttachRefused(k) \/ AttachTakes(k) \/ CommandEnds(k)
       PROVE  Covered(t)'
  <2>1. UNCHANGED <<extension, tabs, link, open, late, Asked>>
    BY <1>11, Ended DEF service
  <2>2. PICK ok \in BOOLEAN :
          /\ Ends(k, ok)
          /\ \/ ok = TRUE /\ open
                /\ \A u \in Tabs : attached'[u] = IF u = k.tab THEN k.id ELSE attached[u]
             \/ UNCHANGED attached
    BY <1>11, Ended
  <2> DEFINE m == [id |-> k.id, ok |-> ok, tab |-> k.tab]
  <2>3. k \in Task /\ m \in Reply /\ m.id = k.id /\ m.ok = ok /\ Answered \in Seq(Reply)
        /\ k.on = link
    BY OnLink DEF TypeOK, Task, Reply, LinkInv
  <2>4. /\ Answered' = Answered \/ Answered' = Append(Answered, m)
        /\ open => Answered' = Append(Answered, m)
    BY <2>1, <2>2, <2>3, Replying DEF Ends
  <2> HIDE DEF m
  <2>5. \A i \in DOMAIN Answered : i \in DOMAIN Answered' /\ Answered'[i] = Answered[i]
    BY <2>3, <2>4, Appends
  <2>6. CASE attached'[t] = attached[t]
    BY <1>2, <2>1, <2>5, <2>6, CoveredNow, StillCovered
  <2>7. CASE ok = TRUE /\ open /\ attached'[t] = k.id
    <3>1. Len(Answered) + 1 \in DOMAIN Answered' /\ Answered'[Len(Answered) + 1] = m
      BY <2>3, <2>4, <2>7, Appends
    <3> QED BY <2>3, <2>7, <3>1 DEF Covered
  <2> QED BY <2>2, <2>6, <2>7
<1>12. ASSUME UNCHANGED <<extension, tabs, link, open, late, attached, Asked, Answered>>
       PROVE  Covered(t)'
  BY <1>2, <1>12, CoveredNow, StillCovered
<1>13. ASSUME NEW k \in tasks, AttachDebugs(k) \/ AttachUndoes(k) PROVE Covered(t)'
  BY <1>12, <1>13, Moved DEF service
<1>14. CASE ExtensionLosesLink \/ CleansUp
  BY <1>2, <1>14 DEF ExtensionLosesLink, CleansUp
<1>15. ASSUME NEW u \in Tabs, Cancelled(u) \/ NoticeReads(u) PROVE Covered(t)'
  BY <1>12, <1>15 DEF Cancelled, NoticeReads, service, Asked, Answered
<1>16. ASSUME NEW u \in Tabs, NoticeActs(u) PROVE Covered(t)'
  <2>1. PICK m \in Reply : Answered' = Answered \/ Answered' = Append(Answered, m)
    BY <1>16, Noticed
  <2>2. Answered \in Seq(Reply) /\ UNCHANGED <<extension, tabs, link, open, late, Asked>>
        /\ attached'[t] = attached[t]
    BY <1>2, <1>16, Noticed DEF service, AttachedShrinks
  <2>3. \A i \in DOMAIN Answered : i \in DOMAIN Answered' /\ Answered'[i] = Answered[i]
    BY <2>1, <2>2, Appends
  <2> QED BY <1>2, <2>2, <2>3, CoveredNow, StillCovered
<1> QED BY <1>4, <1>5, <1>6, <1>7, <1>8, <1>9, <1>10, <1>11, <1>13, <1>14, <1>15, <1>16
        DEF Next, ServiceStep, ExtensionStep

-----------------------------------------------------------------------------
(* Calls that were given up.                                               *)

\* Fewer wait and hold.
LEMMA LateStays ==
  ASSUME TypeOK, LateInv, PendingShrinks, UNCHANGED <<sequence, late>>,
         \A c \in Callers : caller'[c].id \in {caller[c].id, None}
  PROVE  LateInv'
<1>1. None \notin late
  BY BridgeAssumption DEF TypeOK
<1> QED BY <1>1 DEF LateInv, PendingShrinks, Used

\* A new call is neither.
LEMMA LateCalls ==
  ASSUME TypeOK, LinkInv, LateInv, extension # 0, NEW c \in Callers,
         NEW m \in {"attach", "detach"}, Call(c, m), UNCHANGED <<toService, link, late>>,
         \A d \in Callers : caller'[d].id \in {caller[d].id, None}
  PROVE  LateInv'
<1>1. sequence' = sequence + 1 /\ sequence' \in Calls /\ sequence' # None
      /\ pending' = [pending EXCEPT ![c] = sequence']
  BY Calling, BridgeAssumption
<1>2. \A i \in Calls : i <= sequence => i <= sequence' /\ i # sequence'
  BY <1>1, UsedIds DEF Used
<1>3. None \notin late /\ late \subseteq Calls
  BY BridgeAssumption DEF TypeOK
<1>4. \A d \in Callers : pending'[d] \in {pending[d], sequence'}
  BY <1>1 DEF TypeOK
<1>5. sequence' \notin late /\ \A d \in Callers : caller[d].id # sequence'
  BY <1>1, <1>2, <1>3 DEF LateInv, Used, TypeOK
<1>6. /\ \A i \in late : i <= sequence'
      /\ \A d \in Callers : caller'[d].id # None => caller'[d].id <= sequence'
  <2>1. \A d \in Callers : caller[d].id # None => caller[d].id \in Calls /\ caller[d].id <= sequence
    BY DEF LateInv, Used, TypeOK
  <2> QED BY <1>2, <1>3, <2>1 DEF LateInv, Used
<1>7. \A d \in Callers : pending'[d] \notin late /\ caller'[d].id \notin late
  BY <1>3, <1>4, <1>5 DEF LateInv
<1>8. \A d, e \in Callers : caller'[d].id # None => pending'[e] # caller'[d].id
  BY <1>4, <1>5 DEF LateInv
<1> QED BY <1>6, <1>7, <1>8 DEF LateInv, Used

LEMMA CallerKeepsId ==
  ASSUME TypeOK, NEW c \in Callers, NEW p, caller' = At(c, p), NEW d \in Callers
  PROVE  caller'[d].id = caller[d].id
<1>1. caller[c] \in [pc : CallerPc, id : Calls \cup {None}] /\ DOMAIN caller = Callers
  BY DEF TypeOK
<1>2. [caller[c] EXCEPT !.pc = p].id = caller[c].id
  BY <1>1
<1>3. caller'[d] = IF d = c THEN [caller[c] EXCEPT !.pc = p] ELSE caller[d]
  BY <1>1 DEF At
<1> QED BY <1>2, <1>3

LEMMA LateStep ==
  ASSUME TypeOK, LinkInv, IdInv, LateInv, Next
  PROVE  LateInv'
<1>1. CASE Receives
  <2> DEFINE m == Head(toService[extension])
  <2>1. UNCHANGED <<sequence, late>>
    BY <1>1 DEF Receives
  <2>2. CASE UNCHANGED <<pending, caller>>
    BY <2>1, <2>2, LateStays DEF PendingShrinks
  <2>3. CASE ~UNCHANGED <<pending, caller>>
    <3>1. PICK c \in Callers, i \in {None, m.id} :
            /\ pending[c] = m.id /\ m.id # None /\ pending' = [pending EXCEPT ![c] = None]
            /\ \A d \in Callers : caller'[d].id = IF d = c THEN i ELSE caller[d].id
      <4> HIDE DEF m
      <4>1. PICK c \in Callers :
              /\ pending[c] = m.id /\ m.id # None /\ pending' = [pending EXCEPT ![c] = None]
              /\ \/ caller' = [caller EXCEPT ![c] = [pc |-> "connecting", id |-> m.id]]
                 \/ caller' = [caller EXCEPT ![c] = [pc |-> "idle", id |-> None]]
        BY <1>1, <2>3 DEF Receives, Idle, m
      <4>2. CASE caller' = [caller EXCEPT ![c] = [pc |-> "connecting", id |-> m.id]]
        <5>1. ASSUME NEW d \in Callers
              PROVE  caller'[d].id = IF d = c THEN m.id ELSE caller[d].id
          <6>1. caller'[d] = IF d = c THEN [pc |-> "connecting", id |-> m.id] ELSE caller[d]
            BY <4>2 DEF TypeOK
          <6> QED BY <6>1
        <5> QED BY <4>1, <5>1
      <4>3. CASE caller' = [caller EXCEPT ![c] = [pc |-> "idle", id |-> None]]
        <5>1. ASSUME NEW d \in Callers
              PROVE  caller'[d].id = IF d = c THEN None ELSE caller[d].id
          <6>1. caller'[d] = IF d = c THEN [pc |-> "idle", id |-> None] ELSE caller[d]
            BY <4>3 DEF TypeOK
          <6> QED BY <6>1
        <5> QED BY <4>1, <5>1
      <4> QED BY <4>1, <4>2, <4>3
    <3> HIDE DEF m
    <3>2. Used(m.id) /\ m.id \notin late /\ \A d \in Callers \ {c} : pending[d] # m.id
      BY <3>1, IdParts DEF PendingIds, LateInv
    <3>3. \A d \in Callers : pending'[d] = IF d = c THEN None ELSE pending[d]
      BY <3>1 DEF TypeOK
    <3>4. None \notin late
      BY BridgeAssumption DEF TypeOK
    <3>5. \A d \in Callers : pending'[d] \notin late /\ caller'[d].id \notin late
      BY <3>1, <3>2, <3>3, <3>4 DEF LateInv
    <3>6. \A d \in Callers : caller'[d].id # None =>
            Used(caller'[d].id) /\ \A e \in Callers : pending'[e] # caller'[d].id
      <4> SUFFICES ASSUME NEW d \in Callers, caller'[d].id # None
                   PROVE  Used(caller'[d].id) /\ \A e \in Callers : pending'[e] # caller'[d].id
        OBVIOUS
      <4>1. CASE d = c
        BY <3>1, <3>2, <3>3, <4>1
      <4>2. CASE d # c
        BY <3>1, <3>3, <4>2 DEF LateInv
      <4> QED BY <4>1, <4>2
    <3> QED BY <2>1, <3>5, <3>6 DEF LateInv, Used
  <2> QED BY <2>2, <2>3
<1>2. ASSUME NEW l, Reset(l), UNCHANGED late PROVE LateInv'
  BY <1>2, LateStays DEF Reset, PendingShrinks, TypeOK
<1>3. ASSUME NEW c \in Callers, OpenAttaches(c) PROVE LateInv'
  <2>1. \A d \in Callers : caller'[d].id = caller[d].id
    BY <1>3, CallerKeepsId DEF OpenAttaches
  <2> QED BY <1>3, <2>1, LateCalls DEF OpenAttaches, browser
<1>4. ASSUME NEW c \in Callers, CallTimesOut(c) PROVE LateInv'
  <2>1. /\ pending[c] # None /\ sequence' = sequence
        /\ \A d \in Callers : pending'[d] = IF d = c THEN None ELSE pending[d]
        /\ \A d \in Callers : caller'[d].id = IF d = c THEN None ELSE caller[d].id
        /\ late' \subseteq late \cup {pending[c]}
    BY <1>4 DEF CallTimesOut, Idle, TypeOK
  <2>2. Used(pending[c]) /\ \A d \in Callers \ {c} : pending[d] # pending[c]
    BY <2>1, IdParts DEF PendingIds
  <2>3. None \notin late'
    BY <2>1, BridgeAssumption DEF TypeOK
  <2> QED BY <2>1, <2>2, <2>3 DEF LateInv, Used
<1>5. ASSUME NEW c \in Callers, CdpConnects(c) \/ OpenReturns(c) \/ OpenFails(c) \/ Release(c)
      PROVE  LateInv'
  <2>1. \A d \in Callers : caller'[d].id \in {caller[d].id, None}
    <3>1. caller' = Idle(c) \/ \E q : caller' = At(c, q)
      BY <1>5 DEF CdpConnects, OpenReturns, OpenFails, Release, CallDetach
    <3>2. CASE caller' = Idle(c)
      <4>1. ASSUME NEW d \in Callers
            PROVE  caller'[d].id = IF d = c THEN None ELSE caller[d].id
        <5>1. caller'[d] = IF d = c THEN [pc |-> "idle", id |-> None] ELSE caller[d]
          BY <3>2 DEF Idle, TypeOK
        <5> QED BY <5>1
      <4> QED BY <4>1
    <3>3. ASSUME NEW q, caller' = At(c, q)
          PROVE  \A d \in Callers : caller'[d].id \in {caller[d].id, None}
      <4>1. \A d \in Callers : caller'[d].id = caller[d].id
        BY <3>3, CallerKeepsId
      <4> QED BY <4>1
    <3> QED BY <3>1, <3>2, <3>3
  <2>2. CASE extension # 0 /\ Call(c, "detach")
    BY <1>5, <2>1, <2>2, Detached, LateCalls DEF browser
  <2>3. CASE UNCHANGED <<sequence, pending, toExtension>>
    BY <1>5, <2>1, <2>3, Detached, LateStays DEF PendingShrinks
  <2> QED BY <1>5, <2>2, <2>3, Detached
<1>6. ASSUME UNCHANGED <<service, late>> PROVE LateInv'
  BY <1>6 DEF LateInv, Used, service
<1>7. ServiceLosesLink \/ Connect => LateInv'
  BY <1>2 DEF ServiceLosesLink, Connect
<1>8. \A k \in tasks : AttachDebugs(k) \/ AttachRefused(k) \/ AttachTakes(k)
                       \/ AttachUndoes(k) \/ CommandEnds(k) => UNCHANGED <<service, late>>
  BY DEF AttachDebugs, AttachRefused, AttachTakes, AttachUndoes, CommandEnds
<1>9. Commanded \/ ExtensionLosesLink \/ CleansUp \/ (\E t \in Tabs :
        Cancelled(t) \/ NoticeReads(t) \/ NoticeActs(t)) => UNCHANGED <<service, late>>
  BY DEF Commanded, ExtensionLosesLink, CleansUp, Cancelled, NoticeReads, NoticeActs
<1> QED BY <1>1, <1>3, <1>4, <1>5, <1>6, <1>7, <1>8, <1>9 DEF Next, ServiceStep, ExtensionStep

-----------------------------------------------------------------------------
(* The order of what is asked.                                             *)

\* What is under way or attached was under way or attached before.
LEMMA OrderStays ==
  ASSUME OrderInv, UNCHANGED Asked,
         \A k \in tasks' : \E j \in tasks : k.id = j.id,
         \A t \in Tabs : attached'[t] \in {attached[t], None} \cup {k.id : k \in tasks}
  PROVE  OrderInv'
<1>1. \A t \in Tabs : attached'[t] # None =>
        attached'[t] = attached[t] \/ \E k \in tasks : attached'[t] = k.id
  OBVIOUS
<1> QED BY <1>1 DEF OrderInv

\* A call is the last of all.
LEMMA OrderCalls ==
  ASSUME TypeOK, LinkInv, IdInv, OrderInv, extension # 0, NEW c \in Callers,
         NEW m \in {"attach", "detach"}, Call(c, m),
         UNCHANGED <<toService, link, tasks, attached>>
  PROVE  OrderInv'
<1> DEFINE r == [id |-> sequence + 1, method |-> m, tab |-> TabOf[c]]
<1>1. /\ r.id = sequence + 1 /\ r \in Request /\ Asked' = Append(Asked, r)
      /\ Asked \in Seq(Request)
  BY Calling, OnLink
<1> HIDE DEF r
<1>2. sequence \in Nat /\ \A i \in Calls : i <= sequence => i < r.id
  BY <1>1 DEF TypeOK, Calls
<1>3. /\ \A i \in DOMAIN Asked : Asked[i].id < r.id
      /\ \A k \in tasks : k.id < r.id
      /\ \A t \in Tabs : attached[t] # None => attached[t] < r.id
  <2>1. \A i \in DOMAIN Asked : Asked[i].id \in Calls
    <3>1. \A i \in DOMAIN Asked : Asked[i] \in Request
      BY <1>1, Elements
    <3> QED BY <3>1 DEF Request
  <2>2. \A k \in tasks : k.id \in Calls
    BY DEF TypeOK, Task
  <2> QED BY <1>2, <2>1, <2>2, IdParts DEF AskedIds, TaskIds, AttachedIds, Used, TypeOK
<1>4. DOMAIN Asked = 1 .. Len(Asked) /\ Len(Asked) \in Nat
  BY <1>1, LenProperties
<1>5. \A i \in DOMAIN Asked' : \/ i \in DOMAIN Asked /\ Asked'[i] = Asked[i]
                               \/ i = Len(Asked) + 1 /\ Asked'[i] = r
  BY <1>1, Appends
<1>6. ASSUME NEW i \in DOMAIN Asked', NEW j \in DOMAIN Asked', i < j
      PROVE  Asked'[i].id < Asked'[j].id
  <2>1. i \in DOMAIN Asked /\ Asked'[i] = Asked[i]
    BY <1>4, <1>5, <1>6
  <2> QED BY <1>3, <1>5, <1>6, <2>1 DEF OrderInv
<1>7. ASSUME NEW i \in DOMAIN Asked'
      PROVE  /\ \A k \in tasks : k.id < Asked'[i].id
             /\ \A t \in Tabs : attached[t] # None => attached[t] < Asked'[i].id
  BY <1>3, <1>5, <1>7 DEF OrderInv
<1> QED BY <1>6, <1>7 DEF OrderInv

LEMMA OrderCommanded ==
  ASSUME TypeOK, LinkInv, OrderInv, Commanded
  PROVE  OrderInv'
<1> DEFINE m == Head(toExtension[link])
           begun(p) == [id |-> m.id, tab |-> m.tab, on |-> link, pc |-> p]
<1>1. link \in Links /\ Asked = toExtension[link] /\ Asked # <<>> /\ Asked \in Seq(Request)
  BY OnLink DEF Commanded, LinkInv
<1>2. /\ 1 \in DOMAIN Asked /\ Asked[1] = m
      /\ \A i \in DOMAIN Tail(Asked) :
           i \in Nat \ {0} /\ i + 1 \in DOMAIN Asked /\ Tail(Asked)[i] = Asked[i + 1]
  BY <1>1, Tails
<1>3. Asked' = Tail(Asked)
  BY <1>1 DEF Commanded, Asked, TypeOK
<1>4. \A k \in tasks' : k \in tasks \/ k.id = m.id
  <2>1. \A p : begun(p).id = m.id
    OBVIOUS
  <2>2. \/ \E p \in {"loading", "detaching"} : tasks' = tasks \cup {begun(p)}
        \/ tasks' = tasks
    BY DEF Commanded
  <2> QED BY <2>1, <2>2
<1>5. \A t \in Tabs : attached'[t] # None => attached'[t] = attached[t]
  BY DEF Commanded, TypeOK
<1> HIDE DEF m, begun
<1>6. ASSUME NEW i \in DOMAIN Asked'
      PROVE  /\ \A j \in DOMAIN Asked' : i < j => Asked'[i].id < Asked'[j].id
             /\ \A k \in tasks' : k.id < Asked'[i].id
             /\ \A t \in Tabs : attached'[t] # None => attached'[t] < Asked'[i].id
  <2>1. i + 1 \in DOMAIN Asked /\ Asked'[i] = Asked[i + 1] /\ 1 < i + 1
    BY <1>2, <1>3
  <2>2. \A j \in DOMAIN Asked' : j + 1 \in DOMAIN Asked /\ Asked'[j] = Asked[j + 1]
                                /\ (i < j => i + 1 < j + 1)
    BY <1>2, <1>3
  <2>3. m.id < Asked'[i].id
    BY <1>2, <2>1 DEF OrderInv
  <2> QED BY <1>4, <1>5, <2>1, <2>2, <2>3 DEF OrderInv
<1> QED BY <1>6 DEF OrderInv

LEMMA OrderStep ==
  ASSUME TypeOK, LinkInv, IdInv, OrderInv, Next
  PROVE  OrderInv'
<1>1. ASSUME UNCHANGED <<tasks, attached, Asked>> PROVE OrderInv'
  BY <1>1 DEF OrderInv
<1>2. CASE Receives
  BY <1>1, <1>2, Received DEF Receives, browser
<1>3. CASE ServiceLosesLink
  BY <1>1, <1>3 DEF ServiceLosesLink, Asked, browser
<1>4. ASSUME NEW c \in Callers, OpenAttaches(c) PROVE OrderInv'
  BY <1>4, OrderCalls DEF OpenAttaches, browser
<1>5. ASSUME NEW c \in Callers, CallTimesOut(c) PROVE OrderInv'
  BY <1>1, <1>5 DEF CallTimesOut, Asked, browser
<1>6. ASSUME NEW c \in Callers, CdpConnects(c) \/ OpenReturns(c) \/ OpenFails(c) \/ Release(c)
      PROVE  OrderInv'
  <2>1. CASE extension # 0 /\ Call(c, "detach")
    BY <1>6, <2>1, Detached, OrderCalls DEF browser
  <2>2. CASE UNCHANGED <<sequence, pending, toExtension>>
    BY <1>1, <1>6, <2>2, Detached DEF browser, Asked
  <2> QED BY <1>6, <2>1, <2>2, Detached
<1>7. CASE Connect
  <2>1. DOMAIN Asked' = {}
    BY <1>7, Connected, EmptySeq
  <2> QED BY <2>1 DEF OrderInv
<1>8. CASE Commanded
  BY <1>8, OrderCommanded
<1>9. ASSUME NEW k \in tasks, AttachDebugs(k) \/ AttachUndoes(k) PROVE OrderInv'
  <2>1. PICK j : tasks' = (tasks \ {k}) \cup {j} /\ j.id = k.id
    BY <1>9, Moved
  <2> QED BY <1>9, <2>1, Moved, OrderStays
<1>10. ASSUME NEW k \in tasks, AttachRefused(k) \/ AttachTakes(k) \/ CommandEnds(k)
       PROVE  OrderInv'
  <2>1. tasks' \subseteq tasks /\ \A t \in Tabs : attached'[t] \in {attached[t], k.id}
    BY <1>10, Ended DEF Ends
  <2> QED BY <1>10, <2>1, Ended, OrderStays
<1>11. CASE ExtensionLosesLink \/ CleansUp
  <2>1. AttachedShrinks /\ UNCHANGED <<tasks, Asked>>
    BY <1>11 DEF ExtensionLosesLink, CleansUp, AttachedShrinks, Asked
  <2> QED BY <2>1, OrderStays DEF AttachedShrinks
<1>12. ASSUME NEW t \in Tabs, Cancelled(t) \/ NoticeReads(t) PROVE OrderInv'
  BY <1>1, <1>12 DEF Cancelled, NoticeReads, Asked
<1>13. ASSUME NEW t \in Tabs, NoticeActs(t) PROVE OrderInv'
  BY <1>13, Noticed, OrderStays DEF AttachedShrinks
<1> QED BY <1>2, <1>3, <1>4, <1>5, <1>6, <1>7, <1>8, <1>9, <1>10, <1>11, <1>12, <1>13
        DEF Next, ServiceStep, ExtensionStep

-----------------------------------------------------------------------------
(* The theorems.                                                           *)

\* The inductive invariant of the bridge.
THEOREM BridgeInvariant == Spec => []IInv
<1>1. Init => IInv
  <2> SUFFICES ASSUME Init PROVE IInv
    OBVIOUS
  <2>1. <<>> \in Seq(Request) /\ <<>> \in Seq(Reply) /\ DOMAIN <<>> = {}
    BY EmptySeq
  <2>2. TypeOK
    <3>1. /\ extension \in Links \cup {0} /\ link \in Links \cup {0} /\ sequence \in 0 .. MaxCalls
          /\ tasks \subseteq Task /\ late \subseteq Calls
      BY BridgeAssumption DEF Init
    <3>6. open \in BOOLEAN /\ cleaned \in BOOLEAN
      BY DEF Init
    <3>2. /\ pending \in [Callers -> Calls \cup {None}]
          /\ tabs \in [Tabs -> [id : Calls \cup {None}, socket : BOOLEAN]]
          /\ caller \in [Callers -> [pc : CallerPc, id : Calls \cup {None}]]
      BY DEF Init, NoTab, CallerPc
    <3>3. toExtension \in [Links -> Seq(Request)] /\ toService \in [Links -> Seq(Reply)]
      BY <2>1 DEF Init
    <3>4. /\ attached \in [Tabs -> Calls \cup {None}] /\ owner \in [Calls -> Links \cup {None}]
          /\ debugging \in [Tabs -> BOOLEAN] /\ notice \in [Tabs -> Calls \cup {None, Unread}]
      BY DEF Init
    <3>5. \A c \in Callers : caller[c].pc \in {"attaching", "detaching"} <=> pending[c] # None
      BY DEF Init
    <3> QED BY <3>1, <3>2, <3>3, <3>4, <3>5, <3>6 DEF TypeOK
  <2>3. LinkInv
    BY DEF Init, LinkInv, Nobody
  <2>4. NoStrayDebugger
    BY DEF Init, NoStrayDebugger
  <2>5. Asked = <<>> /\ Answered = <<>>
    BY DEF Init, Asked, Answered
  <2>6. IdInv
    BY <2>1, <2>5 DEF Init, IdInv
  <2>7. WaitInv /\ AllCovered
    BY DEF Init, WaitInv, AllCovered
  <2>8. LateInv /\ OrderInv
    BY <2>1, <2>2, <2>5, BridgeAssumption DEF Init, LateInv, OrderInv
  <2> QED BY <2>2, <2>3, <2>4, <2>6, <2>7, <2>8 DEF IInv
<1>2. IInv /\ [Next]_vars => IInv'
  <2>1. CASE Next
    BY <2>1, TypeStep, LinkStep, DebugStep, IdStep, WaitStep, OrphanStep, LateStep, OrderStep
       DEF IInv
  <2>2. CASE UNCHANGED vars
    <3> USE <2>2 DEF vars, service, browser
    <3>1. UNCHANGED <<Asked, Answered>>
      BY DEF Asked, Answered
    <3>2. IInv => TypeOK' /\ LinkInv' /\ NoStrayDebugger'
      BY DEF IInv, TypeOK, LinkInv, Nobody, NoStrayDebugger
    <3>3. IInv => IdInv' /\ WaitInv'
      BY <3>1 DEF IInv, IdInv, WaitInv, Awaited, Used
    <3>4. IInv => AllCovered' /\ LateInv' /\ OrderInv'
      BY <3>1 DEF IInv, AllCovered, Covered, LateInv, OrderInv, Used
    <3> QED BY <3>2, <3>3, <3>4 DEF IInv
  <2> QED BY <2>1, <2>2
<1> QED BY <1>1, <1>2, PTL DEF Spec

\* Every variable of the bridge has its type, and a caller has a call in
\* this.pending exactly while it waits for one.
THEOREM BridgeTypeOK == Spec => []TypeOK
<1>1. IInv => TypeOK
  BY DEF IInv
<1> QED BY <1>1, BridgeInvariant, PTL

\* An open link never meets a command or an attachment of an earlier one.
THEOREM BridgeFreshLink == Spec => []FreshLink
<1>1. IInv => FreshLink
  BY DEF IInv, LinkInv, FreshLink
<1> QED BY <1>1, BridgeInvariant, PTL

\* The extension always has an attachment or a command of its own for a tab
\* that Chrome debugs.
THEOREM BridgeNoStrayDebugger == Spec => []NoStrayDebugger
<1>1. IInv => NoStrayDebugger
  BY DEF IInv
<1> QED BY <1>1, BridgeInvariant, PTL

\* An attached tab is known to the service, or will be, or is asked back.  The one
\* exception is an attach that was answered after the 60 s of call(): that tab stays
\* attached while the link does, but nobody waits for it and nobody holds it.
THEOREM BridgeNoOrphan == Spec => []NoOrphan
<1>1. IInv => NoOrphan
  BY DEF IInv, AllCovered, Covered, LateInv, NoOrphan, LinkInv, Asked, Answered
<1> QED BY <1>1, BridgeInvariant, PTL

\* On an open link a tab that Chrome debugs loses its attachment only to a detach
\* that was asked for after the attachment: not to a command that began before it.
THEOREM BridgeDetachTakesEarlier == Spec => DetachTakesEarlier
<1> DEFINE m == Head(toExtension[link])
           Detaches(t) == /\ toExtension[link] # <<>> /\ toExtension'[link] = Tail(toExtension[link])
                          /\ m.method = "detach" /\ m.tab = t /\ attached[t] < m.id
           Loses(t) == attached[t] # None /\ attached'[t] = None
<1>1. IInv /\ [Next]_vars =>
        [\A t \in Tabs : attached[t] # None /\ attached'[t] = None =>
           \/ ~open \/ ~debugging[t]
           \/ LET n == Head(toExtension[link]) IN
              /\ toExtension[link] # <<>> /\ toExtension'[link] = Tail(toExtension[link])
              /\ n.method = "detach" /\ n.tab = t /\ attached[t] < n.id]_vars
  <2> SUFFICES ASSUME IInv, Next, NEW t \in Tabs, Loses(t), open, debugging[t]
               PROVE  Detaches(t)
    OBVIOUS
  <2>1. TypeOK /\ LinkInv /\ OrderInv /\ Asked = toExtension[link] /\ link \in Links
    BY OnLink DEF IInv, LinkInv
  <2>2. Commanded
    <3>1. ~Connect /\ ~CleansUp
      BY DEF Connect, CleansUp
    <3>2. ASSUME NEW u \in Tabs, NoticeActs(u) PROVE FALSE
      BY <2>1, <3>2 DEF NoticeActs, TypeOK
    <3>3. ASSUME NEW k \in tasks, AttachTakes(k) PROVE FALSE
      <4>1. k.id # None
        BY <2>1, BridgeAssumption DEF TypeOK, Task
      <4> QED BY <2>1, <3>3, <4>1 DEF AttachTakes, TypeOK
    <3>4. UNCHANGED attached => FALSE
      OBVIOUS
    <3>5. ServiceStep \/ ExtensionLosesLink => UNCHANGED attached
      BY DEF ServiceStep, Receives, ServiceLosesLink, OpenAttaches, CallTimesOut, CdpConnects,
             OpenReturns, OpenFails, Release, ExtensionLosesLink, browser
    <3>6. \A k \in tasks :
            AttachDebugs(k) \/ AttachRefused(k) \/ AttachUndoes(k) \/ CommandEnds(k)
              => UNCHANGED attached
      BY DEF AttachDebugs, AttachRefused, AttachUndoes, CommandEnds
    <3>7. \A u \in Tabs : Cancelled(u) \/ NoticeReads(u) => UNCHANGED attached
      BY DEF Cancelled, NoticeReads
    <3> QED BY <3>1, <3>2, <3>3, <3>4, <3>5, <3>6, <3>7 DEF Next, ExtensionStep
  <2>3. Asked # <<>> /\ Asked \in Seq(Request)
    BY <2>1, <2>2, OnLink DEF Commanded
  <2>4. 1 \in DOMAIN Asked /\ Asked[1] = m
    BY <2>1, <2>3, Tails
  <2>5. m.method = "detach" /\ m.tab = t
    <3>1. attached'[t] # attached[t]
      OBVIOUS
    <3>2. m.method = "detach" /\ attached' = [attached EXCEPT ![m.tab] = None]
      <4> HIDE DEF m
      <4> QED BY <2>2, <3>1 DEF Commanded, m
    <3> HIDE DEF m
    <3> QED BY <2>1, <3>1, <3>2 DEF TypeOK
  <2>6. toExtension'[link] = Tail(toExtension[link])
    BY <2>1, <2>2 DEF Commanded, TypeOK
  <2>7. attached[t] < m.id
    BY <2>1, <2>4 DEF OrderInv
  <2> QED BY <2>1, <2>3, <2>5, <2>6, <2>7
<1> QED BY <1>1, BridgeInvariant, PTL DEF Spec, DetachTakesEarlier

-----------------------------------------------------------------------------
(* What becomes of a call.                                                 *)

\* Call i is asked, under way or answered.
UnderWay(i) ==
  \/ \E n \in DOMAIN Asked : Asked[n].id = i
  \/ \E k \in tasks : k.id = i
  \/ \E n \in DOMAIN Answered : Answered[n].id = i

\* The same in the next state.
Stays(i) ==
  \/ \E n \in DOMAIN Asked' : Asked'[n].id = i
  \/ \E k \in tasks' : k.id = i
  \/ \E n \in DOMAIN Answered' : Answered'[n].id = i

\* On one link NoLostCall speaks of the two queues of that link.
LEMMA UnderWayNow ==
  ASSUME LinkInv, NoLostCall, open, extension = link, NEW c \in Callers, pending[c] # None
  PROVE  UnderWay(pending[c])
BY DEF LinkInv, NoLostCall, UnderWay, Asked, Answered

LEMMA UnderWayNext ==
  ASSUME LinkInv',
         \A c \in Callers :
           open' /\ extension' = link' /\ pending'[c] # None => Stays(pending'[c])
  PROVE  NoLostCall'
BY DEF LinkInv, NoLostCall, Stays, Asked, Answered

\* A call stays under way if what holds its id does.
LEMMA StillUnderWay ==
  ASSUME NEW i, UnderWay(i),
         \A n \in DOMAIN Asked : Asked[n].id = i => Stays(i),
         \A k \in tasks : k.id = i => Stays(i),
         \A n \in DOMAIN Answered : Answered[n].id = i => Stays(i)
  PROVE  Stays(i)
BY DEF UnderWay, Stays

LEMMA LostStep ==
  ASSUME TypeOK, LinkInv, IdInv, NoLostCall, Next
  PROVE  NoLostCall'
<1>1. LinkInv'
  BY LinkStep
<1>2. SUFFICES ASSUME NEW c \in Callers, open', extension' = link', pending'[c] # None
               PROVE  Stays(pending'[c])
  BY <1>1, UnderWayNext
<1>3. link' # 0
  BY <1>1, <1>2 DEF LinkInv
<1>4. CASE Receives
  <2> DEFINE m == Head(Answered)
  <2>1. /\ extension = link /\ Answered # <<>> /\ Answered' = Tail(Answered) /\ Asked' = Asked
        /\ Answered \in Seq(Reply) /\ PendingShrinks
    BY <1>4, Received
  <2>2. UNCHANGED <<tasks, open, link>> /\ extension # 0
    BY <1>4 DEF Receives, browser
  <2>3. /\ Answered[1] = m
        /\ \A i \in DOMAIN Answered' : i \in Nat \ {0} /\ Answered'[i] = Answered[i + 1]
        /\ \A i \in DOMAIN Answered : i # 1 => \E j \in DOMAIN Answered' : i = j + 1
    BY <2>1, Tails
  <2>4. pending'[c] = pending[c] /\ pending[c] # None
    BY <1>2, <2>1 DEF PendingShrinks
  <2>5. pending[c] # m.id
    <3> SUFFICES ASSUME pending[c] = m.id PROVE FALSE
      OBVIOUS
    <3>1. m = Head(toService[extension])
      BY <2>2, OnLink
    <3>2. \E d \in Callers : pending[d] = m.id /\ pending' = [pending EXCEPT ![d] = None]
      <4> HIDE DEF m
      <4> QED BY <1>4, <2>4, <3>1 DEF Receives
    <3>3. \A d \in Callers : pending[d] = m.id => d = c
      BY <2>4, IdParts DEF PendingIds
    <3>4. pending' = [pending EXCEPT ![c] = None]
      BY <3>2, <3>3
    <3> QED BY <1>2, <3>4 DEF TypeOK
  <2> HIDE DEF m
  <2>6. UnderWay(pending[c])
    BY <1>2, <2>1, <2>2, <2>4, UnderWayNow
  <2>7. ASSUME NEW n \in DOMAIN Answered, Answered[n].id = pending[c]
        PROVE  \E j \in DOMAIN Answered' : Answered'[j].id = pending[c]
    <3>1. n # 1
      BY <2>3, <2>5, <2>7
    <3>2. PICK j \in DOMAIN Answered' : n = j + 1
      BY <2>3, <3>1
    <3> QED BY <2>3, <2>7, <3>2
  <2> QED BY <2>1, <2>2, <2>4, <2>6, <2>7 DEF UnderWay, Stays
<1>5. CASE ServiceLosesLink \/ Connect
  BY <1>2, <1>3, <1>5 DEF ServiceLosesLink, Connect, Reset
<1>6. ASSUME NEW d \in Callers, NEW m \in {"attach", "detach"}, extension # 0, Call(d, m),
             UNCHANGED <<extension, toService, link, open, tasks>>
      PROVE  Stays(pending'[c])
  <2> DEFINE r == [id |-> sequence + 1, method |-> m, tab |-> TabOf[d]]
  <2>1. /\ pending' = [pending EXCEPT ![d] = sequence'] /\ r.id = sequence'
        /\ Asked' = Append(Asked, r) /\ Answered' = Answered
        /\ Asked \in Seq(Request) /\ r \in Request
    BY <1>6, Calling, OnLink
  <2> HIDE DEF r
  <2>2. /\ Len(Asked) + 1 \in DOMAIN Asked' /\ Asked'[Len(Asked) + 1] = r
        /\ \A i \in DOMAIN Asked : i \in DOMAIN Asked' /\ Asked'[i] = Asked[i]
    BY <2>1, Appends
  <2>3. CASE d = c
    <3>1. pending'[c] = r.id
      BY <2>1, <2>3 DEF TypeOK
    <3> QED BY <2>2, <3>1 DEF UnderWay, Stays
  <2>4. CASE d # c
    <3>1. pending'[c] = pending[c]
      BY <2>1, <2>4 DEF TypeOK
    <3>2. UnderWay(pending[c])
      BY <1>2, <1>6, <3>1, UnderWayNow
    <3> QED BY <1>6, <2>1, <2>2, <3>1, <3>2 DEF UnderWay, Stays
  <2> QED BY <2>3, <2>4
<1>7. ASSUME NEW d \in Callers, OpenAttaches(d) PROVE Stays(pending'[c])
  BY <1>6, <1>7 DEF OpenAttaches, browser
<1>8. ASSUME pending'[c] = pending[c],
             UNCHANGED <<extension, open, link, tasks, Asked, Answered>>
      PROVE  Stays(pending'[c])
  BY <1>2, <1>8, UnderWayNow DEF UnderWay, Stays
<1>9. ASSUME NEW d \in Callers, CallTimesOut(d) PROVE Stays(pending'[c])
  <2>1. pending'[c] = pending[c]
    BY <1>2, <1>9 DEF CallTimesOut, TypeOK
  <2> QED BY <1>8, <1>9, <2>1 DEF CallTimesOut, browser, Asked, Answered
<1>10. ASSUME NEW d \in Callers, CdpConnects(d) \/ OpenReturns(d) \/ OpenFails(d) \/ Release(d)
       PROVE  Stays(pending'[c])
  <2>1. CASE extension # 0 /\ Call(d, "detach")
    BY <1>6, <1>10, <2>1, Detached DEF browser
  <2>2. CASE UNCHANGED <<sequence, pending, toExtension>>
    BY <1>8, <1>10, <2>2, Detached DEF browser, Asked, Answered
  <2> QED BY <1>10, <2>1, <2>2, Detached
<1>11. ASSUME UNCHANGED <<service, link>>, open,
              \A n \in DOMAIN Asked : Asked[n].id = pending[c] => Stays(pending[c]),
              \A k \in tasks : k.id = pending[c] => Stays(pending[c]),
              \A n \in DOMAIN Answered : Answered[n].id = pending[c] => Stays(pending[c])
       PROVE  Stays(pending'[c])
  <2>1. pending'[c] = pending[c] /\ extension = link
    BY <1>2, <1>11 DEF service
  <2>2. UnderWay(pending[c])
    BY <1>2, <1>11, <2>1, UnderWayNow
  <2>3. Stays(pending[c])
    BY <1>11, <2>2, StillUnderWay
  <2> QED BY <2>1, <2>3
<1>12. CASE Commanded
  <2> DEFINE m == Head(toExtension[link])
             begun(p) == [id |-> m.id, tab |-> m.tab, on |-> link, pc |-> p]
             reply == [id |-> m.id, ok |-> FALSE, tab |-> m.tab]
  <2>1. link \in Links /\ open /\ Asked = toExtension[link] /\ Asked # <<>>
        /\ Asked \in Seq(Request) /\ Answered \in Seq(Reply)
    BY <1>12, OnLink DEF Commanded, LinkInv
  <2>2. /\ m \in Request /\ Asked[1] = m
        /\ \A i \in DOMAIN Tail(Asked) : i \in Nat \ {0} /\ Tail(Asked)[i] = Asked[i + 1]
        /\ \A i \in DOMAIN Asked : i # 1 => \E j \in DOMAIN Tail(Asked) : i = j + 1
    BY <2>1, Tails
  <2>3. Asked' = Tail(Asked) /\ UNCHANGED <<service, link, open>> /\ tasks \subseteq tasks'
    BY <1>12, <2>1 DEF Commanded, Asked, TypeOK
  <2>4. reply \in Reply /\ reply.id = m.id
    BY <2>2 DEF Request, Reply
  <2>5. /\ \A n \in DOMAIN Answered : n \in DOMAIN Answered' /\ Answered'[n] = Answered[n]
        /\ \/ \E j \in tasks' : j.id = m.id
           \/ \E n \in DOMAIN Answered' : Answered'[n].id = m.id
    <3>1. CASE UNCHANGED toService /\ \E j \in tasks' : j.id = m.id
      BY <2>3, <3>1 DEF Answered
    <3>2. CASE Replies(link, reply)
      <4>1. Answered' = Append(Answered, reply)
        BY <2>1, <2>3, <2>4, <3>2, Replying
      <4> HIDE DEF reply, m
      <4> QED BY <2>1, <2>4, <4>1, Appends
    <3>3. ASSUME NEW p, UNCHANGED toService, tasks' = tasks \cup {begun(p)}
          PROVE  UNCHANGED toService /\ \E j \in tasks' : j.id = m.id
      <4>1. begun(p) \in tasks' /\ begun(p).id = m.id
        BY <3>3
      <4> QED BY <3>3, <4>1
    <3>4. (UNCHANGED toService /\ \E p : tasks' = tasks \cup {begun(p)}) \/ Replies(link, reply)
      BY <1>12 DEF Commanded
    <3> QED BY <3>1, <3>2, <3>3, <3>4
  <2> HIDE DEF m, reply
  <2>6. ASSUME NEW n \in DOMAIN Asked, Asked[n].id = pending[c] PROVE Stays(pending[c])
    <3>1. CASE n = 1
      BY <2>2, <2>3, <2>5, <2>6, <3>1 DEF Stays
    <3>2. CASE n # 1
      <4>1. \E j \in DOMAIN Asked' : Asked'[j] = Asked[n]
        BY <2>2, <2>3, <3>2
      <4> QED BY <2>3, <2>6, <4>1 DEF Stays
    <3> QED BY <3>1, <3>2
  <2>7. \A k \in tasks : k.id = pending[c] => Stays(pending[c])
    BY <2>3 DEF Stays
  <2>8. \A n \in DOMAIN Answered : Answered[n].id = pending[c] => Stays(pending[c])
    BY <2>3, <2>5 DEF Stays
  <2> QED BY <1>11, <2>1, <2>3, <2>6, <2>7, <2>8
<1>13. ASSUME NEW k \in tasks, AttachDebugs(k) \/ AttachUndoes(k) PROVE Stays(pending'[c])
  <2>1. UNCHANGED <<service, link, open, Asked, Answered>>
    BY <1>13, Moved
  <2>2. PICK j : tasks' = (tasks \ {k}) \cup {j} /\ j.id = k.id
    BY <1>13, Moved
  <2>3. \A x \in tasks : \E y \in tasks' : y.id = x.id
    BY <2>2
  <2>4. \A x \in tasks : x.id = pending[c] => Stays(pending[c])
    BY <2>3 DEF Stays
  <2>5. /\ \A n \in DOMAIN Asked : Asked[n].id = pending[c] => Stays(pending[c])
        /\ \A n \in DOMAIN Answered : Answered[n].id = pending[c] => Stays(pending[c])
    BY <2>1 DEF Stays
  <2> QED BY <1>2, <1>11, <2>1, <2>4, <2>5
<1>14. ASSUME NEW k \in tasks, AttachRefused(k) \/ AttachTakes(k) \/ CommandEnds(k)
       PROVE  Stays(pending'[c])
  <2>1. UNCHANGED <<service, link, open, Asked>>
    BY <1>14, Ended
  <2>2. PICK ok \in BOOLEAN : Ends(k, ok)
    BY <1>14, Ended
  <2> DEFINE reply == [id |-> k.id, ok |-> ok, tab |-> k.tab]
  <2>3. reply \in Reply /\ reply.id = k.id /\ k.on = link /\ open /\ Answered \in Seq(Reply)
    <3>1. k \in Task
      BY Places
    <3> QED BY <1>2, <2>1, <3>1, OnLink DEF Task, Reply, LinkInv
  <2>4. tasks' = tasks \ {k} /\ Replies(k.on, reply)
    BY <2>2 DEF Ends
  <2> HIDE DEF reply
  <2>5. Answered' = Append(Answered, reply)
    BY <2>1, <2>3, <2>4, Replying
  <2>6. /\ \A n \in DOMAIN Answered : n \in DOMAIN Answered' /\ Answered'[n] = Answered[n]
        /\ \E n \in DOMAIN Answered' : Answered'[n].id = k.id
    BY <2>3, <2>5, Appends
  <2>7. \A x \in tasks : x.id = pending[c] => Stays(pending[c])
    BY <2>1, <2>4, <2>6 DEF Stays
  <2>8. \A n \in DOMAIN Answered : Answered[n].id = pending[c] => Stays(pending[c])
    BY <2>1, <2>6 DEF Stays
  <2>9. \A n \in DOMAIN Asked : Asked[n].id = pending[c] => Stays(pending[c])
    BY <2>1 DEF Stays
  <2> QED BY <1>11, <2>1, <2>3, <2>7, <2>8, <2>9
<1>15. ASSUME NEW t \in Tabs, NoticeActs(t) PROVE Stays(pending'[c])
  <2>1. UNCHANGED <<service, link, open, tasks, Asked>> /\ Answered \in Seq(Reply)
    BY <1>15, Noticed
  <2>2. PICK m \in Reply : Answered' = Answered \/ Answered' = Append(Answered, m)
    BY <1>15, Noticed
  <2>3. \A n \in DOMAIN Answered : n \in DOMAIN Answered' /\ Answered'[n] = Answered[n]
    BY <2>1, <2>2, Appends
  <2>4. \A n \in DOMAIN Answered : Answered[n].id = pending[c] => Stays(pending[c])
    BY <2>3 DEF Stays
  <2>5. /\ \A n \in DOMAIN Asked : Asked[n].id = pending[c] => Stays(pending[c])
        /\ \A k \in tasks : k.id = pending[c] => Stays(pending[c])
    BY <2>1 DEF Stays
  <2> QED BY <1>2, <1>11, <2>1, <2>4, <2>5
<1>16. CASE ExtensionLosesLink \/ CleansUp \/ \E t \in Tabs : Cancelled(t) \/ NoticeReads(t)
  <2>1. ~ExtensionLosesLink /\ ~CleansUp
    BY <1>2 DEF ExtensionLosesLink, CleansUp
  <2>2. UNCHANGED <<service, toExtension, toService, link, open, tasks>>
    BY <1>16, <2>1 DEF Cancelled, NoticeReads
  <2> QED BY <1>8, <2>2 DEF service, Asked, Answered
<1> QED BY <1>4, <1>5, <1>7, <1>9, <1>10, <1>12, <1>13, <1>14, <1>15, <1>16
        DEF Next, ServiceStep, ExtensionStep

\* No call is lost on a link that both ends use.
THEOREM BridgeNoLostCall == Spec => []NoLostCall
<1>1. Init => NoLostCall
  BY DEF Init, NoLostCall
<1>2. IInv /\ NoLostCall /\ [Next]_vars => NoLostCall'
  <2>1. ASSUME IInv, NoLostCall, Next PROVE NoLostCall'
    BY <2>1, LostStep DEF IInv
  <2>2. ASSUME NoLostCall, UNCHANGED vars PROVE NoLostCall'
    BY <2>2 DEF NoLostCall, vars, service, browser
  <2> QED BY <2>1, <2>2
<1> QED BY <1>1, <1>2, BridgeInvariant, PTL DEF Spec
=============================================================================
