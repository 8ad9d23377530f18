--------------------------- MODULE JourneyControl ---------------------------
(***************************************************************************)
(* The control of a C3 journey: createJourneyOrchestrator                  *)
(* (executioner/src/control/orchestrator/terminal/index.ts) over the       *)
(* journey's durable state and its event log.                              *)
(*                                                                         *)
(* Start and cancel requests are calls of their own; an accepted start     *)
(* launches the journey's task (executeJourney), which ends by committing  *)
(* one terminal status and publishing it.  Calls and task run in one       *)
(* thread and meet at every await: each waits for its own transition of    *)
(* the state file, and what it read before may be stale when it goes on.   *)
(***************************************************************************)
EXTENDS JourneyStore, Sequences, FiniteSets

CONSTANTS
  Starts, Cancels,   \* the operations requested, each under its own id
  Task,              \* the journey's task as a caller of the state store
  stateRetryLimit,
  MaxAborts,         \* bound: calls whose caller gives up
  Faults,            \* of "store", "events", "evidence", "intake", "close"
  None

Calls == Starts \cup Cancels
Callers == Calls \cup {Task}

ASSUME ControlAssumption ==
  /\ Starts \cap Cancels = {} /\ Task \notin Calls
  /\ stateRetryLimit \in Nat /\ MaxAborts \in Nat
  /\ None \notin JourneyStatus \cup Answers \cup Record

VARIABLES
  file,             \* the journey's record in the state directory; None before
  mutations,        \* mutationQueues: callers whose transition waits its turn
  request,          \* each caller's transition: the command, tries and answer
  call,             \* where each start and cancel is
  signalled,        \* calls whose signal has been aborted
  activeStart,
  task,             \* where executeJourney is suspended; "none" before it
  state,            \* run.state
  cancelRequested,  \* run.cancelRequested, set together with the run's abort
  outcome,          \* how the page loop ended
  session,          \* the browser session: "none", "open", "closed" or "stuck"
  intent,           \* the terminal status being committed
  terminal,         \* run.terminal
  log,              \* journey_terminal events in the event log
  appends           \* attempts made to append the one of this run

store == <<file, mutations, request>>
run == <<task, state, cancelRequested, outcome, session, intent, terminal, log, appends>>
calls == <<call, signalled, activeStart>>
vars == <<store, run, calls>>

CallPc == {"new", "bootstrapping", "transition", "waiting", "accepted", "refused"}
TaskPc == {"none", "event", "evidence", "loop", "closing", "reporting", "committing",
           "publishing", "done"}
Quiet == [status |-> "ready", revision |-> 0, tries |-> 0, answer |-> None, state |-> Ready]

TypeOK ==
  /\ file \in Record \cup {None}
  /\ mutations \in Seq(Callers)
  /\ request \in [Callers -> [status : JourneyStatus, revision : Nat, tries : Nat,
                              answer : Answers \cup {None}, state : Record]]
  /\ call \in [Calls -> CallPc] /\ signalled \subseteq Calls /\ activeStart \in BOOLEAN
  /\ task \in TaskPc /\ state \in Record /\ cancelRequested \in BOOLEAN
  /\ outcome \in {None, "review_reached", "blocked", "failed"}
  /\ session \in {"none", "open", "closed", "stuck"}
  /\ intent \in terminalStatuses \cup {None}
  /\ terminal \in terminalStatuses \cup {None}
  /\ log \in Seq(terminalStatuses) /\ appends \in Nat
  /\ \A i, j \in DOMAIN mutations : mutations[i] = mutations[j] => i = j

-----------------------------------------------------------------------------
(* transition(): a command under a fresh operation id, repeated unchanged   *)
(* while the answer is retryable and the limit allows.                      *)

Asks(b, status, revision) ==
  /\ request' = [request EXCEPT ![b] = [status |-> status, revision |-> revision,
                                        tries |-> 0, answer |-> None, state |-> Ready]]
  /\ mutations' = Append(mutations, b)

\* The store takes the oldest command.
StoreApplies ==
  /\ mutations # <<>>
  /\ mutations' = Tail(mutations)
  /\ LET b == Head(mutations)
         done == Outcome(file, request[b].status, request[b].revision)
         Answer(a, r) == request' = [request EXCEPT ![b].answer = a, ![b].state = r]
     IN \/ b \in signalled /\ Answer("cancelled", file) /\ UNCHANGED file
        \/ b \notin signalled /\ "store" \in Faults
             /\ Answer("unavailable", file) /\ UNCHANGED file
        \/ b \notin signalled /\ Answer(done.answer, done.state) /\ file' = done.state
  /\ UNCHANGED <<run, calls>>

MayRetry(b) == retryable(request[b].answer) /\ request[b].tries < stateRetryLimit

Retries(b) ==
  /\ request[b].answer # None /\ MayRetry(b)
  /\ request' = [request EXCEPT ![b].tries = @ + 1, ![b].answer = None]
  /\ mutations' = Append(mutations, b)
  /\ UNCHANGED <<file, run, calls>>

\* Mutant of Answered: the last of the attempts is not given up.
AnsweredForGood(b) == request[b].answer # None /\ ~retryable(request[b].answer)

\* The caller goes on with an answer it will not retry.
Answered(b) == request[b].answer # None /\ ~MayRetry(b)
Settles(b) == request' = [request EXCEPT ![b] = Quiet] /\ UNCHANGED <<file, mutations>>

-----------------------------------------------------------------------------
(* start()                                                                  *)

Refuses(c) == call' = [call EXCEPT ![c] = "refused"]
Goes(c, p) == call' = [call EXCEPT ![c] = p]

StartCalled(c) ==
  /\ call[c] = "new"
  /\ \/ /\ c \in signalled \/ activeStart \/ (task # "none" /\ terminal = None)
        /\ Refuses(c) /\ UNCHANGED activeStart
     \/ /\ c \notin signalled /\ ~activeStart /\ (task = "none" \/ terminal # None)
        /\ Goes(c, "bootstrapping") /\ activeStart' = TRUE
  /\ UNCHANGED <<store, run, signalled>>

StartEnds(c, p) == Goes(c, p) /\ activeStart' = FALSE

\* initialize(): the record there is, or a new one.
Existing == IF file = None THEN Ready ELSE file

\* The intake has the state file created or read; then the checks.
StartBootstraps(c) ==
  /\ call[c] = "bootstrapping"
  /\ \/ /\ "intake" \in Faults \/ c \in signalled
        /\ StartEnds(c, "refused")
        /\ file' \in {file, Existing} /\ UNCHANGED <<mutations, request>>
     \/ /\ c \notin signalled
        /\ file' = Existing
        /\ IF task # "none" \/ Existing.status # "ready"
           THEN StartEnds(c, "refused") /\ UNCHANGED <<mutations, request>>
           ELSE /\ Asks(c, "running", Existing.revision)
                /\ Goes(c, "transition") /\ UNCHANGED activeStart
  /\ UNCHANGED <<run, signalled>>

StartSettles(c) ==
  /\ call[c] = "transition" /\ Answered(c)
  /\ Settles(c)
  /\ IF request[c].answer = "ok"
     THEN /\ StartEnds(c, "accepted")
          /\ task' = "event" /\ state' = request[c].state
          /\ UNCHANGED <<cancelRequested, outcome, session, intent, terminal, log, appends>>
     ELSE StartEnds(c, "refused") /\ UNCHANGED run
  /\ UNCHANGED signalled

-----------------------------------------------------------------------------
(* cancel()                                                                 *)

MayCancel == /\ task # "none" /\ terminal = None /\ ~cancelRequested
             /\ task \notin {"committing", "publishing"}     \* run.terminalPromise

CancelCalled(c) ==
  /\ call[c] = "new"
  /\ \/ /\ c \in signalled \/ ~MayCancel
        /\ Refuses(c) /\ UNCHANGED store
     \/ /\ c \notin signalled /\ MayCancel
        /\ Asks(c, "cancelling", state.revision) /\ UNCHANGED file
        /\ Goes(c, "transition")
  /\ UNCHANGED <<run, signalled, activeStart>>

CancelSettles(c) ==
  /\ call[c] = "transition" /\ Answered(c)
  /\ Settles(c)
  /\ IF request[c].answer = "ok"
     THEN /\ Goes(c, "waiting")
          /\ state' = request[c].state /\ cancelRequested' = TRUE
     ELSE Refuses(c) /\ UNCHANGED <<state, cancelRequested>>
  /\ UNCHANGED <<task, outcome, session, intent, terminal, log, appends,
                 signalled, activeStart>>

\* await run.task
CancelReturns(c) ==
  /\ call[c] = "waiting" /\ task = "done"
  /\ Goes(c, "accepted")
  /\ UNCHANGED <<store, run, signalled, activeStart>>

-----------------------------------------------------------------------------
(* executeJourney()                                                         *)

\* commitTerminal() sends its transition at once; failJourney() reports first.
Commits(s) == /\ task' = "committing" /\ intent' = s
              /\ Asks(Task, s, state.revision) /\ UNCHANGED file
Reports == task' = "reporting" /\ intent' = "failed" /\ UNCHANGED store

\* The step_started event, under the run's signal.
TaskLogsStart ==
  /\ task = "event"
  /\ \/ task' = "evidence" /\ UNCHANGED <<intent, store>>
     \/ ("events" \in Faults \/ cancelRequested) /\ Reports
  /\ UNCHANGED <<state, cancelRequested, outcome, session, terminal, log, appends, calls>>

TaskRecordsEvidence ==
  /\ task = "evidence"
  /\ \/ task' = "loop" /\ UNCHANGED <<intent, store>>
     \/ cancelRequested /\ Commits("cancelled")
     \/ ~cancelRequested /\ "evidence" \in Faults /\ Reports
  /\ UNCHANGED <<state, cancelRequested, outcome, session, terminal, log, appends, calls>>

Decides(o) == IF cancelRequested THEN Commits("cancelled")
              ELSE IF o = "failed" THEN Reports ELSE Commits(o)

\* runPageLoop() names the session it still owns; a failure may own none.
TaskLoopEnds ==
  /\ task = "loop"
  /\ \/ /\ \E o \in {"review_reached", "blocked", "failed"} : outcome' = o
        /\ session' = "open" /\ task' = "closing"
        /\ UNCHANGED <<intent, store>>
     \/ outcome' = "failed" /\ Decides("failed") /\ UNCHANGED session
  /\ UNCHANGED <<state, cancelRequested, terminal, log, appends, calls>>

\* Mutant of TaskCloses: a cancelled journey keeps its session.
TaskClosesUnlessCancelled ==
  /\ task = "closing"
  /\ Decides(outcome)
  /\ session' = IF cancelRequested THEN session ELSE "closed"
  /\ UNCHANGED <<state, cancelRequested, outcome, terminal, log, appends, calls>>

TaskCloses ==
  /\ task = "closing"
  /\ \/ session' = "closed" /\ Decides(outcome)
     \/ "close" \in Faults /\ session' = "stuck" /\ Reports
  /\ UNCHANGED <<state, cancelRequested, outcome, terminal, log, appends, calls>>

\* The failure report has no say in what follows.
TaskReports ==
  /\ task = "reporting"
  /\ Commits("failed")
  /\ UNCHANGED <<state, cancelRequested, outcome, session, terminal, log, appends, calls>>

TaskCommits ==
  /\ task = "committing" /\ Answered(Task)
  /\ Settles(Task)
  /\ IF request[Task].answer = "ok"
     THEN task' = "publishing" /\ state' = request[Task].state
     ELSE task' = "done" /\ UNCHANGED state
  /\ UNCHANGED <<cancelRequested, outcome, session, intent, terminal, log, appends, calls>>

\* Mutant of TaskPublishes: every attempt appends an event of its own.
TaskPublishesAgain ==
  /\ task = "publishing" /\ appends' = appends + 1
  /\ log' = Append(log, intent)
  /\ \/ terminal' = intent /\ task' = "done"
     \/ /\ "events" \in Faults /\ UNCHANGED terminal
        /\ task' = IF appends < stateRetryLimit THEN "publishing" ELSE "done"
  /\ UNCHANGED <<state, cancelRequested, outcome, session, intent, store, calls>>

\* The journey_terminal event: an attempt that fails may have written it, and
\* one that is repeated finds its event id.
TaskPublishes ==
  /\ task = "publishing" /\ appends' = appends + 1
  /\ \/ /\ log' = IF log = <<>> THEN <<intent>> ELSE log
        /\ terminal' = intent /\ task' = "done"
     \/ /\ "events" \in Faults
        /\ log' \in {log, IF log = <<>> THEN <<intent>> ELSE log}
        /\ UNCHANGED terminal
        /\ task' = IF appends < stateRetryLimit THEN "publishing" ELSE "done"
  /\ UNCHANGED <<state, cancelRequested, outcome, session, intent, store, calls>>

\* The caller of a start or cancel aborts its signal.  Bound: MaxAborts.
Abort(c) ==
  /\ Cardinality(signalled) < MaxAborts /\ c \notin signalled /\ call[c] \notin {"accepted", "refused"}
  /\ signalled' = signalled \cup {c}
  /\ UNCHANGED <<store, run, call, activeStart>>

-----------------------------------------------------------------------------
Init ==
  /\ file = None /\ mutations = <<>> /\ request = [b \in Callers |-> Quiet]
  /\ call = [c \in Calls |-> "new"] /\ signalled = {} /\ activeStart = FALSE
  /\ task = "none" /\ state = Ready /\ cancelRequested = FALSE
  /\ outcome = None /\ session = "none" /\ intent = None /\ terminal = None
  /\ log = <<>> /\ appends = 0

StartStep(c) == StartBootstraps(c) \/ StartSettles(c)
CancelStep(c) == CancelSettles(c) \/ CancelReturns(c)
StoreStep == StoreApplies \/ \E b \in Callers : Retries(b)
TaskStep == \/ TaskLogsStart \/ TaskRecordsEvidence \/ TaskLoopEnds \/ TaskCloses
            \/ TaskReports \/ TaskCommits \/ TaskPublishes

Next ==
  \/ \E c \in Starts : StartCalled(c) \/ StartStep(c)
  \/ \E c \in Cancels : CancelCalled(c) \/ CancelStep(c)
  \/ \E c \in Calls : Abort(c)
  \/ StoreStep \/ TaskStep

Spec == Init /\ [][Next]_vars

\* The file system answers, the providers of the task settle.
FairSpec == /\ Spec /\ WF_vars(StoreApplies) /\ WF_vars(TaskStep)
            /\ \A b \in Callers : WF_vars(Retries(b))
            /\ \A c \in Starts : WF_vars(StartStep(c))
            /\ \A c \in Cancels : WF_vars(CancelStep(c))

-----------------------------------------------------------------------------
(* What a client of the journey relies on.                                  *)

\* The event log never holds a terminal event that the durable record does
\* not back, nor two of them, and a published result is the logged one.
TerminalAgrees ==
  /\ log # <<>> => Len(log) = 1 /\ file # None /\ file.status = log[1]
  /\ terminal # None => log = <<terminal>>

\* Once a cancellation is durable, nothing the task still does turns the
\* journey into anything but a cancelled one.
CancelWins ==
  cancelRequested => file # None /\ file.status \in {"cancelling", "cancelled"}

\* The browser session is closed, or known not to close, before the journey's
\* end is reported or committed.
SessionReleased ==
  task \in {"reporting", "committing", "publishing", "done"} => session # "open"

\* "terminal state is final" (component-boundaries.md:202): a start, a cancel
\* or the task, however late, moves no terminal record.
TerminalIsFinal ==
  [][file # None /\ file.status \in terminalStatuses => file' = file]_vars

\* Every start and cancel is answered and the task ends, whatever fails.
EverythingEnds ==
  <>[](/\ \A c \in Calls : call[c] \in {"new", "accepted", "refused"}
       /\ task \in {"none", "done"})

\* s1-controlled-workday-journey.md:1051, "one committed terminal result/event
\* without race-dependent behavior": a task that ended has its result.
EndsWithResult == task = "done" => terminal # None

=============================================================================
