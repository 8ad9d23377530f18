--------------------------- MODULE JourneyProofs ---------------------------
(***************************************************************************)
(* Theorems about the control of a journey for every set of starts and     *)
(* cancellations, every limit of retries and every combination of faults.  *)
(***************************************************************************)
EXTENDS JourneyControl, SequenceTheorems, TLAPS

RequestType == [status : JourneyStatus, revision : Nat, tries : Nat,
                answer : Answers \cup {None}, state : Record]
Distinct(s) == \A i, j \in DOMAIN s : s[i] = s[j] => i = j
Queued(s, b) == \E i \in DOMAIN s : s[i] = b

\* A caller waits for a transition of its own.
Pending(b) == IF b = Task THEN task = "committing" ELSE call[b] = "transition"
Starting(c) == call[c] \in {"bootstrapping", "transition"}

\* One start at a time, and its transition comes before the task.
StartInv ==
  /\ \A c, d \in Starts : Starting(c) /\ Starting(d) => c = d
  /\ \A c \in Starts : Starting(c) => activeStart
  /\ \A c \in Starts : call[c] = "transition" => task = "none"

\* In the store's queue are commands of callers who wait for them, and so is
\* whoever has an answer.
QueueInv == \A b \in Callers :
  /\ Queued(mutations, b) => Pending(b) /\ request[b].answer = None
  /\ request[b].answer # None => Pending(b)

IsCancelling(f) == f # None /\ f.status \in {"cancelling", "cancelled"}
IsEnded(f, s) == s \in terminalStatuses /\ f # None /\ f.status = s

\* What a caller asked for, and what a positive answer says of the file since.
AskInv ==
  /\ \A b \in Callers : Pending(b) => file # None
  /\ \A c \in Cancels : call[c] = "transition" =>
       request[c].status = "cancelling" /\ (request[c].answer = "ok" => IsCancelling(file))
  /\ task = "committing" =>
       /\ intent \in terminalStatuses /\ request[Task].status = intent
       /\ request[Task].answer = "ok" => IsEnded(file, intent)

\* What the task has done so far.
TaskInv ==
  /\ task # "none" => file # None
  /\ session = "open" => task = "closing"
  /\ task = "closing" => outcome # None
  /\ cancelRequested => IsCancelling(file)
  /\ task = "publishing" => IsEnded(file, intent)
  /\ log # <<>> => task \in {"publishing", "done"} /\ log = <<intent>> /\ IsEnded(file, intent)
  /\ terminal # None => task = "done" /\ log = <<terminal>>

IInv == TypeOK /\ StartInv /\ QueueInv /\ AskInv /\ TaskInv

-----------------------------------------------------------------------------
(* The state file and the queue of its directory.                          *)

Queues == /\ mutations \in Seq(Callers) /\ Distinct(mutations)
          /\ request \in [Callers -> RequestType]

\* The file only moves on: what ended stays, what is cancelled stays cancelled.
FileLater ==
  /\ file' \in Record \cup {None}
  /\ file # None => file' # None
  /\ \A s \in terminalStatuses : IsEnded(file, s) => file' = file
  /\ IsCancelling(file) => IsCancelling(file')

LEMMA Nones == None \notin JourneyStatus /\ None \notin Answers /\ None \notin Record
BY ControlAssumption

LEMMA Outcomes ==
  ASSUME NEW f \in Record, NEW s \in JourneyStatus, NEW e \in Nat
  PROVE  /\ Outcome(f, s, e).answer \in Answers /\ Outcome(f, s, e).state \in Record
         /\ f.status \in terminalStatuses => Outcome(f, s, e).state = f
         /\ IsCancelling(f) => IsCancelling(Outcome(f, s, e).state)
         /\ Outcome(f, s, e).answer = "ok" => Outcome(f, s, e).state.status = s
<1> DEFINE up == [status |-> s, revision |-> f.revision + 1]
<1>1. f.status \in JourneyStatus /\ f.revision \in Nat
  BY DEF Record
<1>2. up \in Record /\ up.status = s
  BY <1>1 DEF Record
<1>3. f.status \in terminalStatuses => legalNextStatuses(f.status) = {}
  BY DEF legalNextStatuses, terminalStatuses
<1>4. f.status \in {"cancelling", "cancelled"} =>
        legalNextStatuses(f.status) \subseteq {"cancelling", "cancelled"}
  BY DEF legalNextStatuses
<1> DEFINE o == Outcome(f, s, e)
<1>5. \/ o = [answer |-> "conflict", state |-> f]
      \/ o = [answer |-> "ok", state |-> f] /\ f.status = s
      \/ o = [answer |-> "ok", state |-> up] /\ s \in legalNextStatuses(f.status)
      \/ o = [answer |-> "illegal", state |-> f]
  BY DEF Outcome
<1> HIDE DEF o, up
<1>6. o.answer \in Answers /\ o.state \in {f, up}
      /\ (o.state = f \/ s \in legalNextStatuses(f.status))
      /\ (o.answer = "ok" => o.state.status = s)
  BY <1>2, <1>5 DEF Answers
<1>7. f # None /\ up # None
  BY <1>2, Nones
<1> QED BY <1>2, <1>3, <1>4, <1>6, <1>7 DEF IsCancelling, o

LEMMA Appends ==
  ASSUME NEW s \in Seq(Callers), Distinct(s), NEW b \in Callers, ~Queued(s, b)
  PROVE  /\ Append(s, b) \in Seq(Callers) /\ Distinct(Append(s, b))
         /\ \A x \in Callers : Queued(Append(s, b), x) => x = b \/ Queued(s, x)
<1> DEFINE t == Append(s, b)
<1>1. /\ t \in Seq(Callers) /\ Len(t) = Len(s) + 1 /\ Len(s) \in Nat
      /\ \A i \in 1..Len(s) : t[i] = s[i]
      /\ t[Len(s) + 1] = b
  BY AppendProperties
<1>2. DOMAIN t = 1..(Len(s) + 1) /\ DOMAIN s = 1..Len(s)
  BY <1>1
<1> HIDE DEF t
<1>3. \A i \in DOMAIN t : (i \in DOMAIN s /\ t[i] = s[i]) \/ (i = Len(s) + 1 /\ t[i] = b)
  BY <1>1, <1>2
<1>4. Distinct(t)
  BY <1>2, <1>3 DEF Distinct, Queued
<1>5. \A x \in Callers : Queued(t, x) => x = b \/ Queued(s, x)
  BY <1>3 DEF Queued
<1> QED BY <1>1, <1>4, <1>5 DEF t

LEMMA Tails ==
  ASSUME NEW s \in Seq(Callers), Distinct(s), s # <<>>
  PROVE  /\ Tail(s) \in Seq(Callers) /\ Distinct(Tail(s))
         /\ Head(s) \in Callers /\ Queued(s, Head(s))
         /\ \A x \in Callers : Queued(Tail(s), x) => Queued(s, x) /\ x # Head(s)
<1> DEFINE t == Tail(s)
<1>1. /\ Head(s) \in Callers /\ t \in Seq(Callers) /\ Len(t) = Len(s) - 1
      /\ \A i \in 1..Len(t) : t[i] = s[i + 1]
  BY HeadTailProperties
<1>2. Len(s) \in Nat \ {0} /\ DOMAIN s = 1..Len(s) /\ DOMAIN t = 1..Len(t) /\ Head(s) = s[1]
  BY <1>1, EmptySeq
<1> HIDE DEF t
<1>3. \A i \in DOMAIN t : i + 1 \in DOMAIN s /\ t[i] = s[i + 1] /\ i + 1 # 1
  BY <1>1, <1>2
<1>4. 1 \in DOMAIN s /\ Queued(s, Head(s))
  BY <1>2 DEF Queued
<1>5. Distinct(t)
  <2> SUFFICES ASSUME NEW i \in DOMAIN t, NEW j \in DOMAIN t, t[i] = t[j] PROVE i = j
    BY DEF Distinct
  <2>1. i + 1 = j + 1 /\ i \in Int /\ j \in Int
    BY <1>1, <1>2, <1>3 DEF Distinct
  <2> QED BY <2>1
<1>6. \A x \in Callers : Queued(t, x) => Queued(s, x) /\ x # Head(s)
  BY <1>2, <1>3, <1>4 DEF Queued, Distinct
<1> QED BY <1>1, <1>4, <1>5, <1>6 DEF t

LEMMA AsksKeeps ==
  ASSUME IInv, NEW b \in Callers, NEW s \in JourneyStatus, NEW r \in Nat, Asks(b, s, r),
         ~Pending(b), Pending(b)', \A x \in Callers \ {b} : Pending(x)' <=> Pending(x)
  PROVE  /\ Queues' /\ QueueInv'
         /\ request'[b].status = s /\ request'[b].answer = None
         /\ \A x \in Callers \ {b} : request'[x] = request[x]
<1> DEFINE q == [status |-> s, revision |-> r, tries |-> 0, answer |-> None, state |-> Ready]
<1>1. request \in [Callers -> RequestType] /\ mutations \in Seq(Callers) /\ Distinct(mutations)
  BY DEF IInv, TypeOK, RequestType, Distinct
<1>2. q \in RequestType /\ q.status = s /\ q.answer = None
  BY DEF RequestType, Ready, Record, JourneyStatus
<1> HIDE DEF q
<1>3. request' = [request EXCEPT ![b] = q] /\ mutations' = Append(mutations, b)
  BY DEF Asks, q
<1>4. ~Queued(mutations, b)
  BY DEF IInv, QueueInv
<1>5. /\ mutations' \in Seq(Callers) /\ Distinct(mutations')
      /\ \A x \in Callers : Queued(mutations', x) => x = b \/ Queued(mutations, x)
  BY <1>1, <1>3, <1>4, Appends
<1>6. /\ request' \in [Callers -> RequestType] /\ request'[b] = q
      /\ \A x \in Callers \ {b} : request'[x] = request[x]
  BY <1>1, <1>2, <1>3
<1>7. ASSUME NEW x \in Callers
      PROVE  /\ Queued(mutations', x) => Pending(x)' /\ request'[x].answer = None
             /\ request'[x].answer # None => Pending(x)'
  BY <1>2, <1>5, <1>6 DEF IInv, QueueInv
<1> QED BY <1>2, <1>5, <1>6, <1>7 DEF Queues, QueueInv, Distinct

LEMMA SettlesKeeps ==
  ASSUME IInv, NEW b \in Callers, Answered(b), Settles(b),
         \A x \in Callers \ {b} : Pending(x)' <=> Pending(x)
  PROVE  /\ Queues' /\ QueueInv' /\ file' = file
         /\ \A x \in Callers \ {b} : request'[x] = request[x]
<1>1. request \in [Callers -> RequestType] /\ mutations \in Seq(Callers) /\ Distinct(mutations)
  BY DEF IInv, TypeOK, RequestType, Distinct
<1>2. Quiet \in RequestType
  BY DEF Quiet, RequestType, Ready, Record, JourneyStatus
<1>3. request' = [request EXCEPT ![b] = Quiet] /\ mutations' = mutations /\ file' = file
  BY DEF Settles
<1>4. /\ request' \in [Callers -> RequestType]
      /\ \A x \in Callers \ {b} : request'[x] = request[x]
  BY <1>1, <1>2, <1>3
<1>5. ~Queued(mutations, b)
  BY DEF Answered, IInv, QueueInv
<1>6. ASSUME NEW x \in Callers
      PROVE  /\ Queued(mutations', x) => Pending(x)' /\ request'[x].answer = None
             /\ request'[x].answer # None => Pending(x)'
  BY <1>1, <1>2, <1>3, <1>4, <1>5 DEF IInv, QueueInv, Quiet
<1> QED BY <1>1, <1>3, <1>4, <1>6 DEF Queues, QueueInv, Distinct

LEMMA StillKeeps ==
  ASSUME IInv, UNCHANGED <<mutations, request>>,
         \A x \in Callers : Pending(x)' <=> Pending(x)
  PROVE  Queues' /\ QueueInv'
BY DEF IInv, TypeOK, RequestType, Queues, QueueInv, Distinct

-----------------------------------------------------------------------------
(* Calls.                                                                  *)

CallType == call \in [Calls -> CallPc] /\ signalled \subseteq Calls /\ activeStart \in BOOLEAN
RunType ==
  /\ task \in TaskPc /\ state \in Record /\ cancelRequested \in BOOLEAN
  /\ outcome \in {None, "review_reached", "blocked", "failed"}
  /\ session \in {"none", "open", "closed", "stuck"}
  /\ intent \in terminalStatuses \cup {None}
  /\ terminal \in terminalStatuses \cup {None}
  /\ log \in Seq(terminalStatuses) /\ appends \in Nat

LEMMA Typed ==
  ASSUME IInv
  PROVE  file \in Record \cup {None} /\ Queues /\ CallType /\ RunType
BY DEF IInv, TypeOK, Queues, CallType, RunType, RequestType, Distinct

LEMMA TypedNext ==
  ASSUME file' \in Record \cup {None}, Queues', CallType', RunType'
  PROVE  TypeOK'
BY DEF TypeOK, Queues, CallType, RunType, RequestType, Distinct

LEMMA Called ==
  ASSUME IInv, NEW c \in Calls, NEW p \in CallPc, call' = [call EXCEPT ![c] = p]
  PROVE  /\ call' \in [Calls -> CallPc] /\ call'[c] = p
         /\ \A d \in Calls \ {c} : call'[d] = call[d]
         /\ c # Task /\ c \in Callers /\ \A d \in Calls : d # Task /\ d \in Callers
BY Typed, ControlAssumption DEF CallType, Callers

\* A call changes what the task does not look at.
LEMMA RunRests ==
  ASSUME IInv, UNCHANGED <<run, file>>
  PROVE  RunType' /\ TaskInv' /\ file' \in Record \cup {None}
<1>1. RunType'
  BY Typed DEF RunType, run
<1>2. TaskInv'
  BY DEF IInv, TaskInv, run, IsCancelling, IsEnded
<1> QED BY <1>1, <1>2, Typed

\* A call that has no transition goes to where it has none.
LEMMA CallMoves ==
  ASSUME IInv, NEW c \in Calls, NEW p \in CallPc \ {"transition"}, Goes(c, p),
         call[c] # "transition", UNCHANGED <<store, run>>
  PROVE  /\ Queues' /\ QueueInv' /\ AskInv'
         /\ \A d \in Calls : call'[d] = "transition" <=> call[d] = "transition"
<1>1. /\ call' \in [Calls -> CallPc] /\ call'[c] = p /\ c # Task /\ c \in Callers
      /\ \A d \in Calls \ {c} : call'[d] = call[d]
      /\ \A d \in Calls : d # Task /\ d \in Callers
  BY Called DEF Goes
<1>2. \A d \in Calls : call'[d] = "transition" <=> call[d] = "transition"
  BY <1>1
<1>3. \A x \in Callers : Pending(x)' <=> Pending(x)
  BY <1>2 DEF Pending, Callers, run
<1>4. Queues' /\ QueueInv'
  BY <1>3, StillKeeps DEF store
<1>5. AskInv'
  BY <1>2, <1>3 DEF IInv, AskInv, store, run, Calls, IsCancelling, IsEnded
<1> QED BY <1>2, <1>4, <1>5

LEMMA StartCalledKeeps ==
  ASSUME IInv, NEW c \in Starts, StartCalled(c)
  PROVE  IInv'
<1>1. c \in Calls /\ call[c] = "new" /\ UNCHANGED <<store, run, signalled>>
  BY DEF StartCalled, Calls
<1>2. PICK p \in {"refused", "bootstrapping"} :
        /\ Goes(c, p)
        /\ IF p = "refused" THEN activeStart' = activeStart ELSE ~activeStart /\ activeStart' = TRUE
  BY DEF StartCalled, Refuses, Goes
<1>3. Queues' /\ QueueInv' /\ AskInv' /\ RunType' /\ TaskInv' /\ file' \in Record \cup {None}
  BY <1>1, <1>2, CallMoves, RunRests DEF CallPc, store
<1>4. /\ call' \in [Calls -> CallPc] /\ call'[c] = p
      /\ \A d \in Calls \ {c} : call'[d] = call[d]
  BY <1>1, <1>2, Called DEF Goes, CallPc
<1>5. CallType'
  BY <1>1, <1>2, <1>4, Typed DEF CallType
<1>6. StartInv'
  BY <1>1, <1>2, <1>4 DEF IInv, StartInv, Starting, Calls, run
<1> QED BY <1>3, <1>5, <1>6, TypedNext DEF IInv

LEMMA StartBootstrapsKeeps ==
  ASSUME IInv, NEW c \in Starts, StartBootstraps(c)
  PROVE  IInv'
<1>1. c \in Calls /\ call[c] = "bootstrapping" /\ UNCHANGED <<run, signalled>>
      /\ file' \in {file, Existing} /\ c \notin Cancels
  BY ControlAssumption DEF StartBootstraps, Calls
<1>2. /\ Existing \in Record /\ Existing # None /\ (file # None => file' = file)
      /\ file' \in Record \cup {None}
  BY <1>1, Typed, Nones DEF Existing, Ready, Record, JourneyStatus
<1>3. TaskInv' /\ RunType'
  <2>1. RunType'
    BY <1>1, Typed DEF RunType, run
  <2>2. TaskInv'
    BY <1>1, <1>2 DEF IInv, TaskInv, run, IsCancelling, IsEnded
  <2> QED BY <2>1, <2>2
<1>4. CASE StartEnds(c, "refused") /\ UNCHANGED <<mutations, request>>
  <2>1. /\ call' \in [Calls -> CallPc] /\ call'[c] = "refused" /\ activeStart' = FALSE
        /\ \A d \in Calls \ {c} : call'[d] = call[d]
        /\ \A d \in Calls : d # Task /\ d \in Callers
    BY <1>1, <1>4, Called DEF StartEnds, Goes, CallPc
  <2>2. \A d \in Calls : call'[d] = "transition" <=> call[d] = "transition"
    BY <1>1, <2>1
  <2>3. \A x \in Callers : Pending(x)' <=> Pending(x)
    BY <1>1, <2>2 DEF Pending, Callers, run
  <2>4. Queues' /\ QueueInv'
    BY <1>4, <2>3, StillKeeps
  <2>5. AskInv'
    BY <1>1, <1>2, <1>4, <2>2, <2>3 DEF IInv, AskInv, run, Calls, IsCancelling, IsEnded
  <2>6. StartInv'
    BY <1>1, <2>1 DEF IInv, StartInv, Starting, Calls, run
  <2>7. CallType'
    BY <1>1, <2>1, Typed DEF CallType
  <2> QED BY <1>2, <1>3, <2>4, <2>5, <2>6, <2>7, TypedNext DEF IInv
<1>5. CASE /\ file' = Existing /\ task = "none" /\ Existing.status = "ready"
           /\ Asks(c, "running", Existing.revision)
           /\ Goes(c, "transition") /\ UNCHANGED activeStart
  <2>1. /\ call' \in [Calls -> CallPc] /\ call'[c] = "transition"
        /\ \A d \in Calls \ {c} : call'[d] = call[d]
        /\ c # Task /\ c \in Callers
        /\ \A d \in Calls : d # Task /\ d \in Callers
    BY <1>1, <1>5, Called DEF Goes, CallPc
  <2>2. ~Pending(c) /\ Pending(c)' /\ \A x \in Callers \ {c} : Pending(x)' <=> Pending(x)
    BY <1>1, <2>1 DEF Pending, Callers, run
  <2>3. Existing.revision \in Nat /\ "running" \in JourneyStatus
    BY <1>2 DEF Record, JourneyStatus
  <2>4. /\ Queues' /\ QueueInv'
        /\ \A x \in Callers \ {c} : request'[x] = request[x]
    BY <1>5, <2>1, <2>2, <2>3, AsksKeeps
  <2>5. file' # None
    BY <1>2, <1>5
  <2>6. AskInv'
    <3>1. \A x \in Cancels \cup {Task} : x # c /\ x \in Callers
      BY <1>1, <2>1 DEF Callers, Calls
    <3>2. \A d \in Cancels : call'[d] = call[d]
      BY <2>1, <3>1 DEF Calls
    <3> QED BY <1>1, <1>2, <2>4, <2>5, <3>1, <3>2 DEF IInv, AskInv, run, IsCancelling, IsEnded
  <2>7. StartInv'
    BY <1>1, <1>5, <2>1 DEF IInv, StartInv, Starting, Calls, run
  <2>8. CallType'
    BY <1>1, <1>5, <2>1, Typed DEF CallType
  <2> QED BY <1>2, <1>3, <2>4, <2>6, <2>7, <2>8, TypedNext DEF IInv
<1> QED BY <1>4, <1>5 DEF StartBootstraps

\* The transition of a call is answered for good, and it goes on.
LEMMA CallSettles ==
  ASSUME IInv, NEW c \in Calls, NEW p \in CallPc \ {"transition"}, Goes(c, p),
         call[c] = "transition", Answered(c), Settles(c),
         task' = "committing" <=> task = "committing"
  PROVE  /\ Queues' /\ QueueInv' /\ file' = file
         /\ call' \in [Calls -> CallPc] /\ call'[c] = p
         /\ \A d \in Calls \ {c} : call'[d] = call[d]
         /\ \A x \in Callers \ {c} : request'[x] = request[x]
         /\ \A d \in Calls : d # Task /\ d \in Callers
<1>1. /\ call' \in [Calls -> CallPc] /\ call'[c] = p /\ c # Task /\ c \in Callers
      /\ \A d \in Calls \ {c} : call'[d] = call[d]
      /\ \A d \in Calls : d # Task /\ d \in Callers
  BY Called DEF Goes
<1>2. \A x \in Callers \ {c} : Pending(x)' <=> Pending(x)
  BY <1>1 DEF Pending, Callers
<1> QED BY <1>1, <1>2, SettlesKeeps

LEMMA StartSettlesKeeps ==
  ASSUME IInv, NEW c \in Starts, StartSettles(c)
  PROVE  IInv'
<1>1. /\ c \in Calls /\ c \in Callers /\ c \notin Cancels /\ c # Task /\ Task \in Callers
      /\ call[c] = "transition" /\ Answered(c) /\ Settles(c) /\ UNCHANGED signalled
  BY ControlAssumption DEF StartSettles, Calls, Callers
<1>2. PICK p \in {"accepted", "refused"} :
        /\ Goes(c, p) /\ activeStart' = FALSE
        /\ UNCHANGED <<cancelRequested, outcome, session, intent, terminal, log, appends>>
        /\ \/ task' = "event" /\ state' = request[c].state
           \/ task' = task /\ state' = state
  BY DEF StartSettles, StartEnds, run
<1>3. task = "none" /\ file # None
  BY <1>1 DEF IInv, StartInv, AskInv, Pending
<1>4. /\ Queues' /\ QueueInv' /\ file' = file
      /\ call' \in [Calls -> CallPc] /\ call'[c] = p
      /\ \A d \in Calls \ {c} : call'[d] = call[d]
      /\ \A x \in Callers \ {c} : request'[x] = request[x]
      /\ \A d \in Calls : d # Task /\ d \in Callers
  BY <1>1, <1>2, <1>3, CallSettles DEF CallPc
<1>5. RunType' /\ CallType'
  <2>1. request[c].state \in Record
    BY <1>1, Typed DEF Queues, RequestType
  <2> QED BY <1>1, <1>2, <1>4, <2>1, Typed DEF RunType, CallType, TaskPc
<1>6. StartInv'
  <2>1. \A d \in Starts : Starting(d) => d = c
    BY <1>1 DEF IInv, StartInv, Starting
  <2>2. \A d \in Starts : ~Starting(d)'
    BY <1>2, <1>4, <2>1 DEF Starting, Calls
  <2> QED BY <2>2 DEF StartInv, Starting
<1>7. TaskInv'
  BY <1>2, <1>3, <1>4 DEF IInv, TaskInv, IsCancelling, IsEnded
<1>8. AskInv'
  <2>1. \A d \in Cancels : call'[d] = call[d] /\ request'[d] = request[d]
    BY <1>1, <1>4 DEF Calls
  <2> QED BY <1>2, <1>3, <1>4, <2>1 DEF IInv, AskInv, IsCancelling, IsEnded
<1> QED BY <1>4, <1>5, <1>6, <1>7, <1>8, Typed, TypedNext DEF IInv

LEMMA CancelCalledKeeps ==
  ASSUME IInv, NEW c \in Cancels, CancelCalled(c)
  PROVE  IInv'
<1>1. /\ c \in Calls /\ c \notin Starts /\ call[c] = "new"
      /\ UNCHANGED <<file, run, signalled, activeStart>>
  BY ControlAssumption DEF CancelCalled, Calls, store
<1>2. RunType' /\ TaskInv' /\ file' \in Record \cup {None}
  BY <1>1, RunRests
<1>3. ASSUME NEW p \in CallPc, Goes(c, p) PROVE StartInv' /\ CallType'
  <2>1. /\ call' \in [Calls -> CallPc] /\ \A d \in Calls \ {c} : call'[d] = call[d]
    BY <1>1, <1>3, Called DEF Goes
  <2>2. \A d \in Starts : call'[d] = call[d]
    BY <1>1, <2>1 DEF Calls
  <2>3. StartInv'
    BY <1>1, <2>2 DEF IInv, StartInv, Starting, run
  <2> QED BY <1>1, <2>1, <2>3, Typed DEF CallType
<1>4. CASE Refuses(c) /\ UNCHANGED store
  <2>1. Goes(c, "refused") /\ "refused" \in CallPc \ {"transition"}
    BY <1>4 DEF Goes, Refuses, CallPc
  <2>2. Queues' /\ QueueInv' /\ AskInv'
    BY <1>1, <1>4, <2>1, CallMoves
  <2> QED BY <1>2, <1>3, <2>1, <2>2, TypedNext DEF IInv
<1>5. CASE MayCancel /\ Asks(c, "cancelling", state.revision) /\ Goes(c, "transition")
  <2>1. /\ call'[c] = "transition" /\ \A d \in Calls \ {c} : call'[d] = call[d]
        /\ c # Task /\ c \in Callers
        /\ \A d \in Calls : d # Task /\ d \in Callers
    BY <1>1, <1>5, Called DEF Goes, CallPc
  <2>2. ~Pending(c) /\ Pending(c)' /\ \A x \in Callers \ {c} : Pending(x)' <=> Pending(x)
    BY <1>1, <2>1 DEF Pending, Callers, run
  <2>3. state.revision \in Nat /\ "cancelling" \in JourneyStatus /\ "ok" # None
    BY Typed, Nones DEF RunType, Record, JourneyStatus, Answers
  <2>4. /\ Queues' /\ QueueInv'
        /\ request'[c].status = "cancelling" /\ request'[c].answer = None
        /\ \A x \in Callers \ {c} : request'[x] = request[x]
    BY <1>5, <2>1, <2>2, <2>3, AsksKeeps
  <2>5. file # None
    BY <1>5 DEF IInv, TaskInv, MayCancel
  <2>6. AskInv'
    <3>1. Cancels \subseteq Calls /\ Task \in Callers
      BY DEF Calls, Callers
    <3>2. \A d \in Cancels \ {c} : call'[d] = call[d] /\ request'[d] = request[d]
      BY <2>1, <2>4, <3>1
    <3>3. \A b \in Callers : Pending(b)' => file' # None
      BY <1>1, <2>5
    <3>4. request'[Task] = request[Task]
      BY <2>1, <2>4, <3>1
    <3> QED BY <1>1, <2>3, <2>4, <3>2, <3>3, <3>4 DEF IInv, AskInv, run, IsCancelling, IsEnded
  <2>7. StartInv' /\ CallType'
    BY <1>3, <1>5 DEF CallPc
  <2> QED BY <1>2, <2>4, <2>6, <2>7, TypedNext DEF IInv
<1> QED BY <1>4, <1>5 DEF CancelCalled

LEMMA CancelSettlesKeeps ==
  ASSUME IInv, NEW c \in Cancels, CancelSettles(c)
  PROVE  IInv'
<1>1. /\ c \in Calls /\ c \in Callers /\ c \notin Starts /\ c # Task /\ Task \in Callers
      /\ call[c] = "transition" /\ Answered(c) /\ Settles(c)
      /\ UNCHANGED <<task, outcome, session, intent, terminal, log, appends,
                     signalled, activeStart>>
  BY ControlAssumption DEF CancelSettles, Calls, Callers
<1>2. PICK p \in {"waiting", "refused"} :
        /\ Goes(c, p)
        /\ \/ /\ request[c].answer = "ok" /\ state' = request[c].state
              /\ cancelRequested' = TRUE
           \/ UNCHANGED <<state, cancelRequested>>
  BY DEF CancelSettles, Refuses, Goes
<1>3. /\ Queues' /\ QueueInv' /\ file' = file
      /\ call' \in [Calls -> CallPc] /\ call'[c] = p
      /\ \A d \in Calls \ {c} : call'[d] = call[d]
      /\ \A x \in Callers \ {c} : request'[x] = request[x]
      /\ \A d \in Calls : d # Task /\ d \in Callers
  BY <1>1, <1>2, CallSettles DEF CallPc
<1>4. RunType' /\ CallType'
  <2>1. request[c].state \in Record
    BY <1>1, Typed DEF Queues, RequestType
  <2> QED BY <1>1, <1>2, <1>3, <2>1, Typed DEF RunType, CallType
<1>5. StartInv'
  <2>1. \A d \in Starts : call'[d] = call[d]
    BY <1>1, <1>3 DEF Calls
  <2> QED BY <1>1, <2>1 DEF IInv, StartInv, Starting
<1>6. TaskInv'
  <2>1. request[c].answer = "ok" => IsCancelling(file)
    BY <1>1 DEF IInv, AskInv
  <2> QED BY <1>1, <1>2, <1>3, <2>1 DEF IInv, TaskInv, IsCancelling, IsEnded
<1>7. AskInv'
  <2>1. \A d \in Cancels \ {c} : call'[d] = call[d] /\ request'[d] = request[d]
    BY <1>3 DEF Calls
  <2>2. request'[Task] = request[Task]
    BY <1>1, <1>3
  <2>3. \A b \in Callers : Pending(b)' => Pending(b)
    BY <1>1, <1>2, <1>3 DEF Pending, Callers
  <2> QED BY <1>1, <1>2, <1>3, <2>1, <2>2, <2>3 DEF IInv, AskInv, IsCancelling, IsEnded
<1> QED BY <1>3, <1>4, <1>5, <1>6, <1>7, Typed, TypedNext DEF IInv

LEMMA OtherCallsKeep ==
  ASSUME IInv, \/ \E c \in Cancels : CancelReturns(c)
               \/ \E c \in Calls : Abort(c)
  PROVE  IInv'
<1>1. ASSUME NEW c \in Cancels, CancelReturns(c) PROVE IInv'
  <2>1. /\ c \in Calls /\ c \notin Starts /\ call[c] = "waiting" /\ Goes(c, "accepted")
        /\ UNCHANGED <<store, run, signalled, activeStart>>
    BY <1>1, ControlAssumption DEF CancelReturns, Calls
  <2>2. Queues' /\ QueueInv' /\ AskInv' /\ RunType' /\ TaskInv' /\ file' \in Record \cup {None}
    BY <2>1, CallMoves, RunRests DEF CallPc, store
  <2>3. /\ call' \in [Calls -> CallPc] /\ \A d \in Calls \ {c} : call'[d] = call[d]
    BY <2>1, Called DEF Goes, CallPc
  <2>4. \A d \in Starts : call'[d] = call[d]
    BY <2>1, <2>3 DEF Calls
  <2>5. StartInv' /\ CallType'
    BY <2>1, <2>3, <2>4, Typed DEF IInv, StartInv, Starting, CallType, run
  <2> QED BY <2>2, <2>5, TypedNext DEF IInv
<1>2. ASSUME NEW c \in Calls, Abort(c) PROVE IInv'
  <2>1. UNCHANGED <<store, run, call, activeStart>> /\ signalled' = signalled \cup {c}
    BY <1>2 DEF Abort
  <2>2. \A x \in Callers : Pending(x)' <=> Pending(x)
    BY <2>1 DEF Pending, run
  <2>3. Queues' /\ QueueInv'
    BY <2>1, <2>2, StillKeeps DEF store
  <2>4. AskInv' /\ StartInv'
    BY <2>1, <2>2 DEF IInv, AskInv, StartInv, Starting, store, run, IsCancelling, IsEnded
  <2>5. CallType'
    BY <2>1, Typed DEF CallType
  <2>6. RunType' /\ TaskInv' /\ file' \in Record \cup {None}
    BY <2>1, RunRests DEF store
  <2> QED BY <2>3, <2>4, <2>5, <2>6, TypedNext DEF IInv
<1> QED BY <1>1, <1>2

-----------------------------------------------------------------------------
(* The store.                                                              *)

LEMMA StoreKeeps ==
  ASSUME IInv, StoreApplies
  PROVE  IInv' /\ FileLater
<1> DEFINE b == Head(mutations)
           done == Outcome(file, request[b].status, request[b].revision)
<1>1. mutations # <<>> /\ mutations' = Tail(mutations) /\ UNCHANGED <<run, calls>>
  BY DEF StoreApplies
<1>2. /\ mutations' \in Seq(Callers) /\ Distinct(mutations')
      /\ b \in Callers /\ Queued(mutations, b)
      /\ \A x \in Callers : Queued(mutations', x) => Queued(mutations, x) /\ x # b
  BY <1>1, Tails, Typed DEF Queues
<1>3. /\ request \in [Callers -> RequestType] /\ Pending(b) /\ file \in Record
  BY <1>2, Typed DEF Queues, IInv, QueueInv, AskInv
<1>4. /\ request[b] \in RequestType /\ request[b].status \in JourneyStatus
      /\ request[b].revision \in Nat
  BY <1>2, <1>3 DEF RequestType
<1>5. /\ done.answer \in Answers /\ done.state \in Record
      /\ file.status \in terminalStatuses => done.state = file
      /\ IsCancelling(file) => IsCancelling(done.state)
      /\ done.answer = "ok" => done.state.status = request[b].status
  BY <1>3, <1>4, Outcomes
<1> HIDE DEF b, done
<1>6. PICK a \in Answers, r \in Record :
        /\ request' = [request EXCEPT ![b].answer = a, ![b].state = r]
        /\ file' \in {file, done.state}
        /\ a = "ok" => a = done.answer /\ file' = done.state
  BY <1>3, <1>5 DEF StoreApplies, Answers, b, done
<1>7. file' \in Record /\ file' # None
  BY <1>3, <1>5, <1>6, Nones
<1>8. FileLater
  BY <1>5, <1>6, <1>7 DEF FileLater, IsEnded
<1>9. /\ request' \in [Callers -> RequestType]
      /\ request'[b].status = request[b].status /\ request'[b].answer = a
      /\ \A x \in Callers \ {b} : request'[x] = request[x]
  <2> DEFINE q == [request[b] EXCEPT !.answer = a, !.state = r]
  <2>1. \A y \in RequestType : LET t == [y EXCEPT !.answer = a, !.state = r] IN
          t \in RequestType /\ t.status = y.status /\ t.answer = a
    BY DEF RequestType
  <2>2. q \in RequestType /\ q.status = request[b].status /\ q.answer = a
    BY <1>4, <2>1
  <2>3. request' = [request EXCEPT ![b] = q]
    BY <1>2, <1>3, <1>6
  <2> HIDE DEF q
  <2> QED BY <1>2, <1>3, <2>2, <2>3
<1>10. \A x \in Callers : Pending(x)' <=> Pending(x)
  BY <1>1 DEF Pending, run, calls
<1>11. Queues' /\ QueueInv'
  BY <1>2, <1>9, <1>10 DEF IInv, QueueInv, Queues, Distinct
<1>12. RunType' /\ CallType' /\ StartInv'
  BY <1>1, Typed DEF RunType, CallType, IInv, StartInv, Starting, run, calls
<1>13. TaskInv'
  BY <1>1, <1>7, <1>8 DEF IInv, TaskInv, FileLater, IsEnded, run
<1>14. AskInv'
  <2>1. ASSUME NEW c \in Cancels, call'[c] = "transition"
        PROVE  /\ request'[c].status = "cancelling"
               /\ request'[c].answer = "ok" => IsCancelling(file')
    <3>1. c \in Callers /\ call[c] = "transition" /\ request[c].status = "cancelling"
          /\ (request[c].answer = "ok" => IsCancelling(file))
      BY <1>1, <2>1 DEF Callers, Calls, IInv, AskInv, calls
    <3>2. CASE c = b
      BY <1>5, <1>6, <1>7, <1>9, <3>1, <3>2 DEF IsCancelling
    <3>3. CASE c # b
      BY <1>8, <1>9, <3>1, <3>3 DEF FileLater
    <3> QED BY <3>2, <3>3
  <2>2. ASSUME task' = "committing"
        PROVE  /\ intent' \in terminalStatuses /\ request'[Task].status = intent'
               /\ request'[Task].answer = "ok" => IsEnded(file', intent')
    <3>1. /\ Task \in Callers /\ intent' = intent /\ intent \in terminalStatuses
          /\ request[Task].status = intent
          /\ (request[Task].answer = "ok" => IsEnded(file, intent))
      BY <1>1, <2>2 DEF Callers, IInv, AskInv, run
    <3>2. CASE Task = b
      BY <1>5, <1>6, <1>7, <1>9, <3>1, <3>2 DEF IsEnded
    <3>3. CASE Task # b
      BY <1>8, <1>9, <3>1, <3>3 DEF FileLater, IsEnded
    <3> QED BY <3>2, <3>3
  <2>3. \A x \in Callers : Pending(x)' => file' # None
    BY <1>7
  <2> QED BY <2>1, <2>2, <2>3 DEF AskInv
<1> QED BY <1>7, <1>8, <1>11, <1>12, <1>13, <1>14, TypedNext DEF IInv

LEMMA RetriesKeep ==
  ASSUME IInv, NEW b \in Callers, Retries(b)
  PROVE  IInv'
<1>1. /\ request[b].answer # None
      /\ request' = [request EXCEPT ![b].tries = @ + 1, ![b].answer = None]
      /\ mutations' = Append(mutations, b) /\ UNCHANGED <<file, run, calls>>
  BY DEF Retries
<1>2. /\ request \in [Callers -> RequestType] /\ request[b] \in RequestType
      /\ mutations \in Seq(Callers) /\ Distinct(mutations)
  BY Typed DEF Queues
<1>3. Pending(b) /\ ~Queued(mutations, b)
  BY <1>1 DEF IInv, QueueInv
<1>4. /\ mutations' \in Seq(Callers) /\ Distinct(mutations')
      /\ \A x \in Callers : Queued(mutations', x) => x = b \/ Queued(mutations, x)
  BY <1>1, <1>2, <1>3, Appends
<1>5. /\ request' \in [Callers -> RequestType] /\ request'[b].answer = None
      /\ request'[b].status = request[b].status
      /\ \A x \in Callers \ {b} : request'[x] = request[x]
  <2> DEFINE n == request[b].tries + 1
             q == [request[b] EXCEPT !.tries = n, !.answer = None]
  <2>1. \A y \in RequestType, m \in Nat : LET t == [y EXCEPT !.tries = m, !.answer = None] IN
          t \in RequestType /\ t.status = y.status /\ t.answer = None
    BY DEF RequestType
  <2>2. n \in Nat
    BY <1>2 DEF RequestType
  <2>3. q \in RequestType /\ q.status = request[b].status /\ q.answer = None
    BY <1>2, <2>1, <2>2
  <2>4. request' = [request EXCEPT ![b] = q]
    BY <1>1, <1>2
  <2> HIDE DEF q
  <2> QED BY <1>2, <2>3, <2>4
<1>6. \A x \in Callers : Pending(x)' <=> Pending(x)
  BY <1>1 DEF Pending, run, calls
<1>7. Queues' /\ QueueInv'
  BY <1>3, <1>4, <1>5, <1>6 DEF IInv, QueueInv, Queues, Distinct
<1>8. RunType' /\ CallType' /\ StartInv' /\ TaskInv'
  BY <1>1, Typed DEF RunType, CallType, IInv, StartInv, Starting, TaskInv, run, calls,
                     IsCancelling, IsEnded
<1>9. AskInv'
  <2>1. "ok" # None
    BY Nones DEF Answers
  <2>2. \A x \in Callers : request'[x].status = request[x].status
                           /\ (request'[x].answer = "ok" => request[x].answer = "ok")
    BY <1>5, <2>1
  <2>3. Cancels \subseteq Callers /\ Task \in Callers
    BY DEF Callers, Calls
  <2> QED BY <1>1, <1>6, <2>2, <2>3 DEF IInv, AskInv, run, calls, IsCancelling, IsEnded
<1> QED BY <1>1, <1>7, <1>8, <1>9, Typed, TypedNext DEF IInv

-----------------------------------------------------------------------------
(* The task.                                                               *)

\* What the task leaves alone leaves the calls alone.
LEMMA CallsRest ==
  ASSUME IInv, UNCHANGED <<calls, file>>, task # "none", task' # "none"
  PROVE  CallType' /\ StartInv' /\ file' \in Record \cup {None} /\ file' # None
<1>1. CallType' /\ file' \in Record \cup {None}
  BY Typed DEF CallType, calls
<1>2. \A c \in Starts : call[c] # "transition"
  BY DEF IInv, StartInv
<1>3. StartInv' /\ file' # None
  BY <1>2 DEF IInv, StartInv, Starting, TaskInv, calls
<1> QED BY <1>1, <1>3

\* A step of the task that sends no command.
LEMMA TaskRests ==
  ASSUME IInv, UNCHANGED <<store, calls>>, task \notin {"none", "committing"},
         task' \notin {"none", "committing"}
  PROVE  Queues' /\ QueueInv' /\ AskInv'
<1>1. \A x \in Callers : Pending(x)' <=> Pending(x)
  BY DEF Pending, calls
<1>2. Queues' /\ QueueInv'
  BY <1>1, StillKeeps DEF store
<1>3. AskInv'
  BY <1>1 DEF IInv, AskInv, store, calls, IsCancelling, IsEnded
<1> QED BY <1>2, <1>3

\* The task sends the transition to a terminal status.
LEMMA CommitsKeep ==
  ASSUME IInv, NEW s \in terminalStatuses, Commits(s), UNCHANGED calls,
         task \notin {"none", "committing"}
  PROVE  Queues' /\ QueueInv' /\ AskInv'
<1>1. /\ Task \in Callers /\ \A c \in Calls : c \in Callers /\ c # Task
      /\ state.revision \in Nat /\ s \in JourneyStatus /\ "ok" # None
  BY ControlAssumption, Typed, Nones
     DEF Callers, RunType, Record, terminalStatuses, JourneyStatus, Answers
<1>2. /\ task' = "committing" /\ intent' = s /\ file' = file
      /\ Asks(Task, s, state.revision)
  BY DEF Commits
<1>3. ~Pending(Task) /\ Pending(Task)' /\ \A x \in Callers \ {Task} : Pending(x)' <=> Pending(x)
  BY <1>2 DEF Pending, calls
<1>4. /\ Queues' /\ QueueInv'
      /\ request'[Task].status = s /\ request'[Task].answer = None
      /\ \A x \in Callers \ {Task} : request'[x] = request[x]
  BY <1>1, <1>2, <1>3, AsksKeeps
<1>5. file # None
  BY DEF IInv, TaskInv
<1>6. AskInv'
  <2>1. \A c \in Cancels : call'[c] = call[c] /\ request'[c] = request[c]
    BY <1>1, <1>4 DEF calls, Calls
  <2> QED BY <1>1, <1>2, <1>4, <1>5, <2>1 DEF IInv, AskInv, IsCancelling
<1> QED BY <1>4, <1>6

\* Before the end is committed nothing is logged, and the session is in the
\* hands of whoever closes it.
LEMMA TaskGoes ==
  ASSUME IInv, UNCHANGED <<file, calls, state, cancelRequested, terminal, log, appends>>,
         task \in {"event", "evidence", "loop", "closing", "reporting"},
         task' \in {"event", "evidence", "loop", "closing", "reporting", "committing"},
         outcome' \in {None, "review_reached", "blocked", "failed"},
         session' \in {"none", "open", "closed", "stuck"}, session' = "open" => task' = "closing",
         task' = "closing" => outcome' # None,
         intent' \in terminalStatuses \cup {None}
  PROVE  RunType' /\ TaskInv' /\ CallType' /\ StartInv' /\ file' \in Record \cup {None}
<1>1. RunType'
  BY Typed DEF RunType, TaskPc
<1>2. TaskInv'
  BY DEF IInv, TaskInv, IsCancelling, IsEnded
<1> QED BY <1>1, <1>2, CallsRest

LEMMA EarlyStepsKeep ==
  ASSUME IInv, TaskLogsStart \/ TaskRecordsEvidence \/ TaskLoopEnds \/ TaskCloses \/ TaskReports
  PROVE  IInv'
<1>1. /\ task \in {"event", "evidence", "loop", "closing", "reporting"}
      /\ UNCHANGED <<state, cancelRequested, terminal, log, appends, calls>>
  BY DEF TaskLogsStart, TaskRecordsEvidence, TaskLoopEnds, TaskCloses, TaskReports
<1>2. /\ outcome' \in {None, "review_reached", "blocked", "failed"}
      /\ session' \in {"none", "open", "closed", "stuck"}
      /\ session' = "open" => (session' = session /\ task # "closing") \/ task' = "closing"
  BY Typed DEF RunType, TaskLogsStart, TaskRecordsEvidence, TaskLoopEnds, TaskCloses, TaskReports
<1>3. session' = "open" => task' = "closing"
  BY <1>2 DEF IInv, TaskInv
<1>4. task' = "closing" => outcome' # None
  BY Nones DEF TaskLogsStart, TaskRecordsEvidence, TaskLoopEnds, TaskCloses, TaskReports,
               Decides, Commits, Reports, JourneyStatus
<1>5. \/ /\ task' \in {"evidence", "loop", "closing"} /\ UNCHANGED <<intent, store>>
      \/ Reports
      \/ \E s \in terminalStatuses : Commits(s)
  <2>1. CASE TaskLogsStart \/ TaskRecordsEvidence
    BY <2>1 DEF TaskLogsStart, TaskRecordsEvidence, terminalStatuses
  <2>2. ASSUME NEW o \in {"review_reached", "blocked", "failed"}, Decides(o)
        PROVE  Reports \/ \E s \in terminalStatuses : Commits(s)
    BY <2>2 DEF Decides, terminalStatuses
  <2>3. CASE TaskLoopEnds
    BY <2>2, <2>3 DEF TaskLoopEnds
  <2>4. CASE TaskCloses
    <3>1. CASE Reports
      BY <3>1
    <3>2. CASE Decides(outcome)
      <4>1. outcome \in {"review_reached", "blocked", "failed"}
        BY <2>4, Typed DEF TaskCloses, IInv, TaskInv, RunType
      <4> QED BY <2>2, <3>2, <4>1
    <3> QED BY <2>4, <3>1, <3>2 DEF TaskCloses
  <2>5. CASE TaskReports
    BY <2>5 DEF TaskReports, terminalStatuses
  <2> QED BY <2>1, <2>3, <2>4, <2>5
<1>6. CASE task' \in {"evidence", "loop", "closing"} /\ UNCHANGED <<intent, store>>
  <2>1. intent' \in terminalStatuses \cup {None} /\ file' = file
    BY <1>6, Typed DEF RunType, store
  <2> QED BY <1>1, <1>2, <1>3, <1>4, <1>6, <2>1, TaskGoes, TaskRests, TypedNext DEF IInv
<1>7. CASE Reports
  <2>1. /\ task' = "reporting" /\ UNCHANGED store /\ file' = file
        /\ intent' \in terminalStatuses \cup {None}
    BY <1>7 DEF Reports, store, terminalStatuses
  <2> QED BY <1>1, <1>2, <1>3, <1>4, <2>1, TaskGoes, TaskRests, TypedNext DEF IInv
<1>8. ASSUME NEW s \in terminalStatuses, Commits(s) PROVE IInv'
  <2>1. task' = "committing" /\ intent' = s /\ file' = file
    BY <1>8 DEF Commits
  <2> QED BY <1>1, <1>2, <1>3, <1>4, <1>8, <2>1, TaskGoes, CommitsKeep, TypedNext DEF IInv
<1> QED BY <1>5, <1>6, <1>7, <1>8

LEMMA TaskCommitsKeeps ==
  ASSUME IInv, TaskCommits
  PROVE  IInv'
<1>1. /\ task = "committing" /\ Answered(Task) /\ Settles(Task)
      /\ UNCHANGED <<cancelRequested, outcome, session, intent, terminal, log, appends, calls>>
  BY DEF TaskCommits
<1>2. \/ request[Task].answer = "ok" /\ task' = "publishing" /\ state' = request[Task].state
      \/ task' = "done" /\ state' = state
  BY DEF TaskCommits
<1>3. /\ Task \in Callers /\ \A c \in Calls : c \in Callers /\ c # Task
      /\ Cancels \subseteq Calls
  BY ControlAssumption DEF Callers, Calls
<1>4. \A x \in Callers \ {Task} : Pending(x)' <=> Pending(x)
  BY <1>1 DEF Pending, calls
<1>5. /\ Queues' /\ QueueInv' /\ file' = file
      /\ \A x \in Callers \ {Task} : request'[x] = request[x]
  BY <1>1, <1>3, <1>4, SettlesKeeps
<1>6. CallType' /\ StartInv' /\ file' \in Record \cup {None} /\ file' # None
  BY <1>1, <1>2, <1>5, CallsRest
<1>7. RunType'
  BY <1>1, <1>2, <1>3, Typed DEF RunType, Queues, RequestType, TaskPc
<1>8. TaskInv'
  <2>1. request[Task].answer = "ok" => IsEnded(file, intent)
    BY <1>1 DEF IInv, AskInv
  <2> QED BY <1>1, <1>2, <1>5, <2>1 DEF IInv, TaskInv, IsCancelling, IsEnded
<1>9. AskInv'
  BY <1>1, <1>2, <1>3, <1>5, <1>6 DEF IInv, AskInv, calls, IsCancelling
<1> QED BY <1>5, <1>6, <1>7, <1>8, <1>9, TypedNext DEF IInv

LEMMA TaskPublishesKeeps ==
  ASSUME IInv, TaskPublishes
  PROVE  IInv'
<1>1. /\ task = "publishing" /\ appends' = appends + 1
      /\ UNCHANGED <<state, cancelRequested, outcome, session, intent, store, calls>>
  BY DEF TaskPublishes
<1>2. /\ IsEnded(file, intent) /\ (log = <<>> \/ log = <<intent>>) /\ terminal = None
      /\ intent # None /\ <<intent>> # <<>> /\ file' = file
  BY <1>1, Nones DEF IInv, TaskInv, IsEnded, terminalStatuses, JourneyStatus, store
<1>3. /\ log' \in {log, <<intent>>} /\ task' \in {"publishing", "done"}
      /\ \/ terminal' = None
         \/ terminal' = intent /\ log' = <<intent>> /\ task' = "done"
  BY <1>1, <1>2 DEF TaskPublishes
<1>4. Queues' /\ QueueInv' /\ AskInv'
  BY <1>1, <1>3, TaskRests
<1>5. CallType' /\ StartInv' /\ file' \in Record \cup {None}
  BY <1>1, <1>2, <1>3, CallsRest
<1>6. RunType'
  <2>1. <<intent>> \in Seq(terminalStatuses)
    BY <1>2 DEF IsEnded
  <2>2. log \in Seq(terminalStatuses) /\ appends \in Nat
    BY Typed DEF RunType
  <2>3. log' \in Seq(terminalStatuses)
    BY <1>3, <2>1, <2>2
  <2>4. log' \in Seq(terminalStatuses) /\ appends' \in Nat
    BY <1>1, <2>2, <2>3
  <2>5. task' \in TaskPc /\ terminal' \in terminalStatuses \cup {None}
    BY <1>2, <1>3 DEF TaskPc, IsEnded
  <2> QED BY <1>1, <2>4, <2>5, Typed DEF RunType
<1>7. TaskInv'
  BY <1>1, <1>2, <1>3 DEF IInv, TaskInv, IsCancelling, IsEnded
<1> QED BY <1>4, <1>5, <1>6, <1>7, TypedNext DEF IInv

-----------------------------------------------------------------------------
LEMMA InitInv == Init => IInv
<1> SUFFICES ASSUME Init PROVE IInv
  OBVIOUS
<1>1. /\ Quiet \in RequestType /\ Quiet.answer = None /\ Ready \in Record
  BY DEF Quiet, RequestType, Ready, Record, JourneyStatus
<1> HIDE DEF Quiet
<1>2. /\ request = [b \in Callers |-> Quiet] /\ mutations = <<>>
      /\ \A b \in Callers : request[b] = Quiet /\ ~Pending(b)
      /\ \A c \in Calls : call[c] = "new"
  BY DEF Init, Pending, Callers
<1>3. TypeOK
  <2>1. Queues
    BY <1>1, <1>2 DEF Queues, Distinct
  <2>2. CallType
    BY DEF Init, CallType, CallPc
  <2>3. <<>> \in Seq(terminalStatuses)
    BY EmptySeq
  <2>4. log \in Seq(terminalStatuses) /\ appends \in Nat
    BY <2>3 DEF Init
  <2>5. /\ task \in TaskPc /\ state \in Record /\ cancelRequested \in BOOLEAN
        /\ session \in {"none", "open", "closed", "stuck"}
        /\ outcome = None /\ intent = None /\ terminal = None
    BY <1>1 DEF Init, TaskPc
  <2>6. RunType
    BY <2>4, <2>5 DEF RunType
  <2>7. file \in Record \cup {None}
    BY DEF Init
  <2> QED BY <2>1, <2>2, <2>7, <2>6 DEF TypeOK, Queues, CallType, RunType, RequestType, Distinct
<1>4. StartInv /\ QueueInv
  BY <1>1, <1>2 DEF StartInv, QueueInv, Queued, Starting, Calls
<1>5. AskInv /\ TaskInv
  BY <1>2 DEF Init, AskInv, TaskInv, Calls
<1> QED BY <1>3, <1>4, <1>5 DEF IInv

LEMMA NextInv == IInv /\ [Next]_vars => IInv'
<1> SUFFICES ASSUME IInv, [Next]_vars PROVE IInv'
  OBVIOUS
<1>1. CASE \E c \in Starts : StartCalled(c) \/ StartStep(c)
  BY <1>1, StartCalledKeeps, StartBootstrapsKeeps, StartSettlesKeeps DEF StartStep
<1>2. CASE \E c \in Cancels : CancelCalled(c) \/ CancelStep(c)
  BY <1>2, CancelCalledKeeps, CancelSettlesKeeps, OtherCallsKeep DEF CancelStep
<1>3. CASE \E c \in Calls : Abort(c)
  BY <1>3, OtherCallsKeep
<1>4. CASE StoreStep
  BY <1>4, StoreKeeps, RetriesKeep DEF StoreStep
<1>5. CASE TaskStep
  BY <1>5, EarlyStepsKeep, TaskCommitsKeeps, TaskPublishesKeeps DEF TaskStep
<1>6. CASE UNCHANGED vars
  <2>1. UNCHANGED <<store, run, calls>>
    BY <1>6 DEF vars
  <2>2. Queues' /\ QueueInv' /\ AskInv' /\ StartInv' /\ CallType'
    BY <2>1, StillKeeps, Typed DEF store, run, calls, Pending, IInv, AskInv, StartInv,
                                   Starting, CallType, IsCancelling, IsEnded
  <2> QED BY <2>1, <2>2, RunRests, TypedNext DEF IInv, store
<1> QED BY <1>1, <1>2, <1>3, <1>4, <1>5, <1>6 DEF Next

\* The state of a journey's control, its callers and its store is always one
\* of those that IInv describes: one start at a time, commands only of callers
\* who wait for them, and answers that the file still bears out.
THEOREM JourneyInvariant == Spec => []IInv
<1> QED BY InitInv, NextInv, PTL DEF Spec

\* Every variable keeps its type, and no caller waits twice in the store's queue.
THEOREM JourneyTypeOK == Spec => []TypeOK
<1>1. IInv => TypeOK
  BY DEF IInv
<1> QED BY <1>1, JourneyInvariant, PTL

\* Record, event log and published result agree, and there is one event at most.
THEOREM JourneyTerminalAgrees == Spec => []TerminalAgrees
<1>1. IInv => TerminalAgrees
  <2> SUFFICES ASSUME IInv PROVE TerminalAgrees
    OBVIOUS
  <2>1. log # <<>> => Len(log) = 1 /\ log[1] = intent
    BY DEF IInv, TaskInv
  <2> QED BY <2>1 DEF IInv, TaskInv, IsEnded, TerminalAgrees
<1> QED BY <1>1, JourneyInvariant, PTL

\* A durable cancellation stands, whatever the task still commits.
THEOREM JourneyCancelWins == Spec => []CancelWins
<1>1. IInv => CancelWins
  BY DEF IInv, TaskInv, IsCancelling, CancelWins
<1> QED BY <1>1, JourneyInvariant, PTL

\* No end is reported or committed while the browser session is open.
THEOREM JourneySessionReleased == Spec => []SessionReleased
<1>1. IInv => SessionReleased
  BY DEF IInv, TaskInv, SessionReleased
<1> QED BY <1>1, JourneyInvariant, PTL

\* No start, cancellation or commit, however late, moves a terminal record.
THEOREM JourneyTerminalIsFinal == Spec => TerminalIsFinal
<1>1. IInv /\ [Next]_vars => [file # None /\ file.status \in terminalStatuses => file' = file]_vars
  <2> SUFFICES ASSUME IInv, Next, file # None, file.status \in terminalStatuses
               PROVE  file' = file
    OBVIOUS
  <2>1. CASE StoreApplies
    BY <2>1, StoreKeeps DEF FileLater, IsEnded
  <2>2. CASE \E c \in Starts : StartBootstraps(c)
    BY <2>2 DEF StartBootstraps, Existing
  <2>3. CASE UNCHANGED file
    BY <2>3
  <2> QED BY <2>1, <2>2, <2>3
     DEF Next, StartStep, CancelStep, StoreStep, TaskStep, StartCalled, StartSettles,
         CancelCalled, CancelSettles, CancelReturns, Abort, Retries, Settles, Asks,
         TaskLogsStart, TaskRecordsEvidence, TaskLoopEnds, TaskCloses, TaskReports,
         TaskCommits, TaskPublishes, Decides, Commits, Reports, store
<1> QED BY <1>1, JourneyInvariant, PTL DEF Spec, TerminalIsFinal

-----------------------------------------------------------------------------
(* What becomes of a call.                                                 *)

\* Who waits for a transition has a command in the queue or an answer; who
\* waits for the task has one; the mark of a start stands for a start.
Served ==
  /\ \A b \in Callers : Pending(b) => Queued(mutations, b) \/ request[b].answer # None
  /\ \A c \in Cancels : call[c] \in {"transition", "waiting"} => task # "none"
  /\ activeStart => \E c \in Starts : Starting(c)


LEMMA AppendHas ==
  ASSUME NEW s \in Seq(Callers), NEW b \in Callers
  PROVE  /\ Queued(Append(s, b), b)
         /\ \A x \in Callers : Queued(s, x) => Queued(Append(s, b), x)
<1> DEFINE t == Append(s, b)
<1>1. /\ t \in Seq(Callers) /\ Len(t) = Len(s) + 1 /\ Len(s) \in Nat
      /\ \A i \in 1..Len(s) : t[i] = s[i]
      /\ t[Len(s) + 1] = b
  BY AppendProperties
<1>2. DOMAIN t = 1..(Len(s) + 1) /\ DOMAIN s = 1..Len(s)
  BY <1>1
<1> HIDE DEF t
<1>3. Len(s) + 1 \in DOMAIN t /\ \A i \in DOMAIN s : i \in DOMAIN t /\ t[i] = s[i]
  BY <1>1, <1>2
<1>4. Queued(t, b) /\ \A x \in Callers : Queued(s, x) => Queued(t, x)
  BY <1>1, <1>3 DEF Queued
<1> QED BY <1>4 DEF t

LEMMA TailHas ==
  ASSUME NEW s \in Seq(Callers), s # <<>>
  PROVE  \A x \in Callers : Queued(s, x) => x = Head(s) \/ Queued(Tail(s), x)
<1> DEFINE t == Tail(s)
<1>1. /\ t \in Seq(Callers) /\ Len(t) = Len(s) - 1
      /\ \A i \in 1..Len(t) : t[i] = s[i + 1]
  BY HeadTailProperties
<1>2. Len(s) \in Nat \ {0} /\ DOMAIN s = 1..Len(s) /\ DOMAIN t = 1..Len(t) /\ Head(s) = s[1]
  BY <1>1, EmptySeq
<1> HIDE DEF t
<1>3. ASSUME NEW i \in DOMAIN s, i # 1 PROVE i - 1 \in DOMAIN t /\ t[i - 1] = s[i]
  <2>1. i \in Nat /\ i - 1 \in 1..Len(t)
    BY <1>1, <1>2, <1>3
  <2>2. t[i - 1] = s[(i - 1) + 1] /\ (i - 1) + 1 = i
    BY <1>1, <2>1
  <2> QED BY <1>2, <2>1, <2>2
<1>4. \A x \in Callers : Queued(s, x) => x = Head(s) \/ Queued(t, x)
  BY <1>2, <1>3 DEF Queued
<1> QED BY <1>4 DEF t

\* A new command is queued, and the others still are or are answered.
LEMMA AsksServes ==
  ASSUME IInv, Served, NEW b \in Callers, NEW s, NEW r, Asks(b, s, r),
         \A x \in Callers \ {b} : Pending(x)' <=> Pending(x)
  PROVE  \A x \in Callers : Pending(x)' => Queued(mutations', x) \/ request'[x].answer # None
<1>1. request \in [Callers -> RequestType] /\ mutations \in Seq(Callers)
  BY Typed DEF Queues
<1>2. mutations' = Append(mutations, b) /\ \A x \in Callers \ {b} : request'[x] = request[x]
  BY <1>1 DEF Asks
<1>3. /\ Queued(mutations', b)
      /\ \A x \in Callers : Queued(mutations, x) => Queued(mutations', x)
  BY <1>1, <1>2, AppendHas
<1> QED BY <1>2, <1>3 DEF Served

\* Who is answered for good waits no more, and the others wait as they did.
LEMMA SettlesServes ==
  ASSUME IInv, Served, NEW b \in Callers, Settles(b), ~Pending(b)',
         \A x \in Callers \ {b} : Pending(x)' <=> Pending(x)
  PROVE  \A x \in Callers : Pending(x)' => Queued(mutations', x) \/ request'[x].answer # None
<1>1. mutations' = mutations /\ \A x \in Callers \ {b} : request'[x] = request[x]
  BY Typed DEF Settles, Queues
<1> QED BY <1>1 DEF Served

LEMMA StillServes ==
  ASSUME Served, UNCHANGED <<mutations, request>>,
         \A x \in Callers : Pending(x)' => Pending(x)
  PROVE  \A x \in Callers : Pending(x)' => Queued(mutations', x) \/ request'[x].answer # None
BY DEF Served

LEMMA StartServes ==
  ASSUME IInv, Served, NEW c \in Starts, StartCalled(c) \/ StartStep(c)
  PROVE  Served'
<1>1. c \in Calls /\ c \in Callers /\ c # Task /\ c \notin Cancels
  BY ControlAssumption DEF Calls, Callers
<1>2. ASSUME NEW p \in CallPc, Goes(c, p)
      PROVE  /\ call' \in [Calls -> CallPc] /\ call'[c] = p
             /\ \A d \in Calls \ {c} : call'[d] = call[d]
             /\ \A d \in Cancels : call'[d] = call[d]
             /\ \A x \in Callers \ {c} : x # Task => x \in Calls /\ call'[x] = call[x]
  BY <1>1, <1>2, Called DEF Goes, Calls, Callers
<1>3. ASSUME StartEnds(c, "refused"), UNCHANGED <<mutations, request, run>>
      PROVE  Served'
  <2>1. /\ call'[c] = "refused" /\ activeStart' = FALSE /\ task' = task
        /\ \A d \in Cancels : call'[d] = call[d]
        /\ \A x \in Callers \ {c} : x # Task => call'[x] = call[x]
    BY <1>2, <1>3 DEF StartEnds, CallPc, run
  <2>2. \A x \in Callers : Pending(x)' => Pending(x)
    BY <1>1, <2>1 DEF Pending
  <2>3. \A x \in Callers : Pending(x)' => Queued(mutations', x) \/ request'[x].answer # None
    BY <1>3, <2>2, StillServes
  <2> QED BY <2>1, <2>3 DEF Served
<1>4. CASE StartCalled(c)
  <2>1. PICK p \in {"refused", "bootstrapping"} :
          /\ Goes(c, p)
          /\ activeStart' = activeStart \/ p = "bootstrapping"
    BY <1>4 DEF StartCalled, Refuses, Goes
  <2>2. UNCHANGED <<store, run>> /\ call[c] = "new"
    BY <1>4 DEF StartCalled
  <2>3. /\ call'[c] = p /\ task' = task
        /\ \A d \in Calls \ {c} : call'[d] = call[d]
        /\ \A d \in Cancels : call'[d] = call[d]
        /\ \A x \in Callers \ {c} : x # Task => call'[x] = call[x]
    BY <1>2, <2>1, <2>2 DEF CallPc, run
  <2>4. \A x \in Callers : Pending(x)' => Pending(x)
    BY <1>1, <2>1, <2>3 DEF Pending
  <2>5. \A x \in Callers : Pending(x)' => Queued(mutations', x) \/ request'[x].answer # None
    BY <2>2, <2>4, StillServes DEF store
  <2>6. activeStart' => \E d \in Starts : Starting(d)'
    <3>1. CASE p = "bootstrapping"
      BY <2>3, <3>1 DEF Starting
    <3>2. ASSUME activeStart PROVE \E d \in Starts : Starting(d)'
      <4>1. PICK d \in Starts : Starting(d)
        BY <3>2 DEF Served
      <4>2. d # c /\ d \in Calls
        BY <2>2, <4>1 DEF Starting, Calls
      <4> QED BY <2>3, <4>1, <4>2 DEF Starting
    <3> QED BY <2>1, <3>1, <3>2
  <2> QED BY <2>3, <2>5, <2>6 DEF Served, Starting
<1>5. CASE StartBootstraps(c)
  <2>1. UNCHANGED run
    BY <1>5 DEF StartBootstraps
  <2>2. CASE StartEnds(c, "refused") /\ UNCHANGED <<mutations, request>>
    BY <1>3, <2>1, <2>2
  <2>3. CASE Asks(c, "running", Existing.revision) /\ Goes(c, "transition")
    <3>1. /\ call'[c] = "transition" /\ task' = task
          /\ \A d \in Cancels : call'[d] = call[d]
          /\ \A x \in Callers \ {c} : x # Task => call'[x] = call[x]
      BY <1>2, <2>1, <2>3 DEF CallPc, run
    <3>2. \A x \in Callers \ {c} : Pending(x)' <=> Pending(x)
      BY <3>1 DEF Pending
    <3>3. \A x \in Callers : Pending(x)' => Queued(mutations', x) \/ request'[x].answer # None
      BY <1>1, <2>3, <3>2, AsksServes
    <3> QED BY <3>1, <3>3 DEF Served, Starting
  <2> QED BY <1>5, <2>2, <2>3 DEF StartBootstraps
<1>6. CASE StartSettles(c)
  <2>1. /\ Settles(c) /\ call[c] = "transition" /\ activeStart' = FALSE
        /\ \E p \in {"accepted", "refused"} : Goes(c, p)
        /\ task' \in {task, "event"}
    BY <1>6 DEF StartSettles, StartEnds, run
  <2>2. /\ call'[c] \in {"accepted", "refused"}
        /\ \A d \in Cancels : call'[d] = call[d]
        /\ \A x \in Callers \ {c} : x # Task => call'[x] = call[x]
    BY <1>2, <2>1 DEF CallPc
  <2>3. task = "none"
    BY <2>1 DEF IInv, StartInv
  <2>4. ~Pending(c)' /\ \A x \in Callers \ {c} : Pending(x)' <=> Pending(x)
    BY <1>1, <2>1, <2>2, <2>3 DEF Pending
  <2>5. \A x \in Callers : Pending(x)' => Queued(mutations', x) \/ request'[x].answer # None
    BY <1>1, <2>1, <2>4, SettlesServes
  <2>6. task # "none" => task' # "none"
    BY <2>1
  <2> QED BY <2>1, <2>2, <2>5, <2>6 DEF Served
<1> QED BY <1>4, <1>5, <1>6 DEF StartStep

LEMMA CancelServes ==
  ASSUME IInv, Served, NEW c \in Cancels, CancelCalled(c) \/ CancelStep(c)
  PROVE  Served'
<1>1. c \in Calls /\ c \in Callers /\ c # Task /\ c \notin Starts
  BY ControlAssumption DEF Calls, Callers
<1>2. UNCHANGED <<activeStart, task>>
  BY DEF CancelCalled, CancelStep, CancelSettles, CancelReturns, run
<1>3. ASSUME NEW p \in CallPc, Goes(c, p), p \in {"transition", "waiting"} => task # "none",
             \A x \in Callers : Pending(x)' => Queued(mutations', x) \/ request'[x].answer # None
      PROVE  Served'
  <2>1. call'[c] = p /\ \A d \in Calls \ {c} : call'[d] = call[d]
    BY <1>1, <1>3, Called DEF Goes
  <2>2. \A d \in Starts : call'[d] = call[d]
    BY <1>1, <2>1 DEF Calls
  <2>3. activeStart' => \E d \in Starts : Starting(d)'
    BY <1>2, <2>2 DEF Served, Starting
  <2>4. \A d \in Cancels : call'[d] \in {"transition", "waiting"} => task' # "none"
    BY <1>2, <1>3, <2>1 DEF Served, Calls
  <2> QED BY <1>3, <2>3, <2>4 DEF Served
<1>4. ASSUME NEW p \in CallPc, Goes(c, p)
      PROVE  /\ call'[c] = p
             /\ \A x \in Callers \ {c} : Pending(x)' <=> Pending(x)
  BY <1>1, <1>2, <1>4, Called DEF Goes, Pending, Callers
<1>5. CASE CancelCalled(c)
  <2>1. CASE Refuses(c) /\ UNCHANGED store
    <3>1. Goes(c, "refused") /\ "refused" \in CallPc
      BY <2>1 DEF Refuses, Goes, CallPc
    <3>2. \A x \in Callers : Pending(x)' => Pending(x)
      BY <1>1, <1>4, <3>1 DEF Pending
    <3>3. \A x \in Callers : Pending(x)' => Queued(mutations', x) \/ request'[x].answer # None
      BY <2>1, <3>2, StillServes DEF store
    <3> QED BY <1>3, <3>1, <3>3
  <2>2. CASE MayCancel /\ Asks(c, "cancelling", state.revision) /\ Goes(c, "transition")
    <3>1. "transition" \in CallPc /\ task # "none"
      BY <2>2 DEF MayCancel, CallPc
    <3>2. \A x \in Callers : Pending(x)' => Queued(mutations', x) \/ request'[x].answer # None
      BY <1>1, <1>4, <2>2, <3>1, AsksServes
    <3> QED BY <1>3, <2>2, <3>1, <3>2
  <2> QED BY <1>5, <2>1, <2>2 DEF CancelCalled
<1>6. CASE CancelSettles(c)
  <2>1. /\ Settles(c) /\ call[c] = "transition" /\ task # "none"
        /\ Goes(c, "waiting") \/ Goes(c, "refused")
    BY <1>6 DEF CancelSettles, Refuses, Goes, Served
  <2>2. PICK p \in {"waiting", "refused"} : Goes(c, p) /\ p \in CallPc
    BY <2>1 DEF CallPc
  <2>3. ~Pending(c)' /\ \A x \in Callers \ {c} : Pending(x)' <=> Pending(x)
    BY <1>1, <1>4, <2>2 DEF Pending
  <2>4. \A x \in Callers : Pending(x)' => Queued(mutations', x) \/ request'[x].answer # None
    BY <1>1, <2>1, <2>3, SettlesServes
  <2> QED BY <1>3, <2>1, <2>2, <2>4
<1>7. CASE CancelReturns(c)
  <2>1. Goes(c, "accepted") /\ "accepted" \in CallPc /\ UNCHANGED store
    BY <1>7 DEF CancelReturns, CallPc
  <2>2. \A x \in Callers : Pending(x)' => Pending(x)
    BY <1>1, <1>4, <2>1 DEF Pending
  <2>3. \A x \in Callers : Pending(x)' => Queued(mutations', x) \/ request'[x].answer # None
    BY <2>1, <2>2, StillServes DEF store
  <2> QED BY <1>3, <2>1, <2>3
<1> QED BY <1>5, <1>6, <1>7 DEF CancelStep

\* The oldest command leaves the queue with an answer.
LEMMA AppliesServes ==
  ASSUME IInv, Served, StoreApplies
  PROVE  Served'
<1> DEFINE b == Head(mutations)
<1>1. /\ request \in [Callers -> RequestType] /\ mutations \in Seq(Callers)
      /\ mutations # <<>> /\ mutations' = Tail(mutations) /\ UNCHANGED <<run, calls>>
  BY Typed DEF StoreApplies, Queues
<1>2. /\ b \in Callers
      /\ \A x \in Callers : Queued(mutations, x) => x = b \/ Queued(mutations', x)
  BY <1>1, TailHas, HeadTailProperties
<1>3. Pending(b) /\ file \in Record
  BY <1>1, Tails, Typed DEF Queues, IInv, QueueInv, AskInv
<1>4. request[b].status \in JourneyStatus /\ request[b].revision \in Nat
  BY <1>1, <1>2 DEF RequestType
<1> DEFINE done == Outcome(file, request[b].status, request[b].revision)
<1>5. done.answer \in Answers /\ done.state \in Record
  BY <1>3, <1>4, Outcomes
<1> HIDE DEF b, done
<1>6. PICK a \in Answers, r \in Record :
        request' = [request EXCEPT ![b].answer = a, ![b].state = r]
  BY <1>3, <1>5 DEF StoreApplies, Answers, b, done
<1>7. request'[b].answer = a /\ \A x \in Callers \ {b} : request'[x] = request[x]
  <2>1. \A y \in RequestType : [y EXCEPT !.answer = a, !.state = r].answer = a
    BY DEF RequestType
  <2> DEFINE q == [request[b] EXCEPT !.answer = a, !.state = r]
  <2>2. q.answer = a /\ request' = [request EXCEPT ![b] = q]
    BY <1>1, <1>2, <1>6, <2>1
  <2> HIDE DEF q
  <2> QED BY <1>1, <1>2, <2>2
<1>8. request'[b].answer # None
  BY <1>7, Nones
<1>9. ASSUME NEW x \in Callers, Pending(x)'
      PROVE  Queued(mutations', x) \/ request'[x].answer # None
  <2>1. Pending(x)
    BY <1>1, <1>9 DEF Pending, run, calls
  <2> QED BY <1>2, <1>7, <1>8, <2>1 DEF Served
<1> QED BY <1>1, <1>9 DEF Served, Starting, run, calls

LEMMA RetriesServes ==
  ASSUME IInv, Served, NEW b \in Callers, Retries(b)
  PROVE  Served'
<1>1. /\ request \in [Callers -> RequestType] /\ mutations \in Seq(Callers)
      /\ mutations' = Append(mutations, b) /\ UNCHANGED <<run, calls>>
      /\ request' = [request EXCEPT ![b].tries = @ + 1, ![b].answer = None]
  BY Typed DEF Retries, Queues
<1>2. \A x \in Callers \ {b} : request'[x] = request[x]
  BY <1>1
<1>3. /\ Queued(mutations', b)
      /\ \A x \in Callers : Queued(mutations, x) => Queued(mutations', x)
  BY <1>1, AppendHas
<1>4. ASSUME NEW x \in Callers, Pending(x)'
      PROVE  Queued(mutations', x) \/ request'[x].answer # None
  <2>1. Pending(x)
    BY <1>1, <1>4 DEF Pending, run, calls
  <2> QED BY <1>2, <1>3, <2>1 DEF Served
<1> QED BY <1>1, <1>4 DEF Served, Starting, run, calls

\* A task that has begun goes on to its end.
LEMMA TaskServes ==
  ASSUME IInv, Served, TaskStep
  PROVE  Served'
<1>1. UNCHANGED calls /\ task # "none" /\ task' # "none" /\ Task \in Callers
      /\ \A x \in Callers \ {Task} : Pending(x)' <=> Pending(x)
  BY DEF TaskStep, TaskLogsStart, TaskRecordsEvidence, TaskLoopEnds, TaskCloses, TaskReports,
         TaskCommits, TaskPublishes, Decides, Commits, Reports, calls, Pending, Callers
<1>2. \/ \E s \in terminalStatuses \cup {outcome} : Commits(s)
      \/ task = "committing" /\ task' # "committing" /\ Settles(Task)
      \/ task' # "committing" /\ UNCHANGED store
  BY DEF TaskStep, TaskLogsStart, TaskRecordsEvidence, TaskLoopEnds, TaskCloses, TaskReports,
         TaskCommits, TaskPublishes, Decides, Reports, terminalStatuses
<1>3. \A x \in Callers : Pending(x)' => Queued(mutations', x) \/ request'[x].answer # None
  <2>1. ASSUME NEW s, Commits(s)
        PROVE  \A x \in Callers : Pending(x)' => Queued(mutations', x) \/ request'[x].answer # None
    BY <1>1, <2>1, AsksServes DEF Commits
  <2>2. CASE task' # "committing" /\ Settles(Task)
    <3>1. ~Pending(Task)'
      BY <2>2 DEF Pending
    <3> QED BY <1>1, <2>2, <3>1, SettlesServes
  <2>3. CASE task' # "committing" /\ UNCHANGED store
    <3>1. \A x \in Callers : Pending(x)' => Pending(x)
      BY <1>1, <2>3 DEF Pending
    <3> QED BY <2>3, <3>1, StillServes DEF store
  <2> QED BY <1>2, <2>1, <2>2, <2>3
<1> QED BY <1>1, <1>3 DEF Served, Starting, calls

LEMMA ServedNext == IInv /\ Served /\ [Next]_vars => Served'
<1> SUFFICES ASSUME IInv, Served, [Next]_vars PROVE Served'
  OBVIOUS
<1>1. CASE \E c \in Calls : Abort(c)
  <2>1. UNCHANGED <<store, run, call, activeStart>>
    BY <1>1 DEF Abort
  <2>2. \A x \in Callers : Pending(x)' => Pending(x)
    BY <2>1 DEF Pending, run
  <2>3. \A x \in Callers : Pending(x)' => Queued(mutations', x) \/ request'[x].answer # None
    BY <2>1, <2>2, StillServes DEF store
  <2> QED BY <2>1, <2>3 DEF Served, Starting, run
<1>2. CASE UNCHANGED vars
  <2>1. UNCHANGED <<store, run, calls>>
    BY <1>2 DEF vars
  <2> QED BY <2>1 DEF Served, Starting, Pending, store, run, calls
<1> QED BY <1>1, <1>2, StartServes, CancelServes, AppliesServes, RetriesServes, TaskServes
   DEF Next, StoreStep

\* Nobody is left without something to wait for: a transition is in the store's
\* queue until it is answered, a cancellation waits for a task that there is,
\* and the mark that keeps other starts out stands for one that goes on.
THEOREM JourneyNoLostCaller == Spec => []Served
<1>1. Init => Served
  BY DEF Init, Served, Pending, Callers, Calls
<1> QED BY <1>1, ServedNext, JourneyInvariant, PTL DEF Spec
=============================================================================
